SPECIFICATION Spec
CONSTANTS
  \* EngineClient
  NoSocket = NoSocket
  Callers = {"u1"}
  Shards = {0}
  ShardOf <- Shard
  MaxSockets = 3
  MaxDeaths = 2
  \* UserController
  Absent = Absent
  Ids = {1}
  NBackends = 2
  MaxEngines = 3
  MaxFaults = 1
  MaxCalls = 3
  \* Conversation
  NoWs = NoWs
  MaxWs = 3
  MaxMessage = 2
  MaxEngineDeaths = 1
  MaxDelay = 1
  \* TrainingBackend
  NoLoop = NoLoop
  Tasks = {t1, t2}
  Loops = {l1, l2, l3}
  MaxTries = 2
  MaxDrops = 2
  \* SpeechStream
  MaxAudio = 4
INVARIANTS
  ClusterTypes
  FailuresContained
PROPERTY
  Recovers
CHECK_DEADLOCK FALSE
