----------------------------- MODULE MCCluster ------------------------------
(***************************************************************************)
(* Instances for TLC of the parts that have to recover from processes and  *)
(* connections that go away: the clients of the engine managers, the User  *)
(* controller of the Kubernetes cluster, the conversation of a browser     *)
(* with its engine, the Kubernetes jobs of training and the speech         *)
(* recognizer. They share no state, so that each behaviour is one of a     *)
(* single part, which the first state chooses, and only the fairness of    *)
(* that part is asked for.                                                 *)
(***************************************************************************)
EXTENDS Naturals, FiniteSets, Sequences

CONSTANTS
  NoSocket, Callers, Shards, ShardOf, MaxSockets, MaxDeaths, Absent, Ids,
  NBackends, MaxEngines, MaxFaults, MaxCalls, NoWs, MaxWs, MaxMessage,
  MaxEngineDeaths, MaxDelay, Tasks, Loops, NoLoop, MaxTries, MaxDrops,
  MaxAudio

VARIABLES
  part, mode, cached, socket, asking, control, master, stopping, deaths,
  resource, queue, timers, rec, ready, entry, engine, restarts, budget, late,
  moved, engineUp, engineDeaths, said, output, handler, connected, wire, up,
  listening, page, shown, early, deaf, job, waiter, watched, tries, loop,
  events, req, drops, outcome, gaveUp, missed, ws, sessionTimeout, hearing,
  starting, timer, lastFC, ended, push, service, ending, text, settled,
  answers, audio, broken

\* Users have numbers, and the backend has replicas.
ASSUME BackendsAssumption == NBackends \in Nat \ {0} /\ Ids \subseteq Nat

\* No engine is the absent one, and no websocket is none.
ASSUME AbsentAssumption ==
  Absent \notin 1..MaxEngines \cup
    [user : Ids, backend : 0..(NBackends - 1),
     phase : {"init", "open", "running", "closing", "closed"}, stopped : BOOLEAN]
ASSUME NoWsAssumption == NoWs \notin 1..MaxWs

\* The bounds are numbers, and so is TRAINING_WATCH_NUM_TRIES.
ASSUME BoundsAssumption ==
  /\ MaxSockets \in Nat /\ MaxEngines \in Nat /\ MaxWs \in Nat
  /\ MaxMessage \in Nat /\ MaxEngineDeaths \in Nat /\ MaxDelay \in Nat
  /\ MaxAudio \in Nat /\ MaxTries \in Nat \ {0}

EC == INSTANCE EngineClient
UC == INSTANCE UserController
CV == INSTANCE Conversation WITH engine <- engineUp, deaths <- engineDeaths, MaxDeaths <- MaxEngineDeaths
TB == INSTANCE TrainingBackend
SP == INSTANCE SpeechStream WITH stopping <- ending, listening <- hearing

Parts == {"client", "controller", "conversation", "training", "speech"}

clientVars == <<
  mode, cached, socket, asking, control, master, stopping, deaths>>
controllerVars == <<
  resource, queue, timers, rec, ready, entry, engine, restarts, budget, late,
  moved>>
conversationVars == <<
  engineUp, engineDeaths, said, output, handler, connected, wire, up,
  listening, page, shown, early, deaf>>
trainingVars == <<
  job, waiter, watched, tries, loop, events, req, drops, outcome, gaveUp,
  missed>>
speechVars == <<
  ws, sessionTimeout, hearing, starting, timer, lastFC, ended, push, service,
  ending, text, settled, answers, audio, broken>>
vars == <<
  part, clientVars, controllerVars, conversationVars, trainingVars, speechVars>>

Init ==
  /\ part \in Parts
  /\ EC!ECInit
  /\ UC!UCInit
  /\ CV!CVInit
  /\ TB!TBInit
  /\ SP!SInit
  /\ part # "client" => mode = "shards" /\ \A s \in Shards : master[s]

\* The parts other than p stand still.
Frame(p) ==
  /\ part = p /\ part' = part
  /\ IF p = "client" THEN TRUE ELSE UNCHANGED clientVars
  /\ IF p = "controller" THEN TRUE ELSE UNCHANGED controllerVars
  /\ IF p = "conversation" THEN TRUE ELSE UNCHANGED conversationVars
  /\ IF p = "training" THEN TRUE ELSE UNCHANGED trainingVars
  /\ IF p = "speech" THEN TRUE ELSE UNCHANGED speechVars

Next ==
  \/ Frame("client") /\ EC!ECNext
  \/ Frame("controller") /\ UC!UCNext
  \/ Frame("conversation") /\ CV!CVNext
  \/ Frame("training") /\ TB!TBNext
  \/ Frame("speech") /\ SP!SNext

Fairness ==
  \/ part = "client" /\ EC!ECFairness
  \/ part = "controller" /\ UC!UCFairness
  \/ part = "conversation" /\ CV!CVFairness
  \/ part = "training" /\ TB!TBFairness
  \/ part = "speech" /\ SP!SFairness

Spec == Init /\ [][Next]_vars /\ Fairness

-----------------------------------------------------------------------------
(* The properties of the run. Their conjuncts are stated in the modules of *)
(* the parts, with the code each is about.                                 *)

(***************************************************************************)
(* Every part keeps its state within its type; in particular a worker's    *)
(* table of engines has only live engines, each under its own user         *)
(* (almond/worker_k8s.ts).                                                 *)
(***************************************************************************)
ClusterTypes ==
  EC!ECTypeOK /\ UC!UCTypeOK /\ CV!CVTypeOK /\ TB!TBTypeOK /\ SP!STypeOK

(***************************************************************************)
(* Nothing stale, doubled or made up comes out of a failure: no engine of  *)
(* a closed connection is given out before stop(); a user has one engine,  *)
(* but for engines that failed late and backends whose number changed; the *)
(* chat shows the messages once and in order and leaves no output behind,  *)
(* but for websockets that closed before their handler; who waits for a    *)
(* training job is told what became of it, unless the watch gave up, and   *)
(* never waits without a watch; and speech has at most one answer.         *)
(***************************************************************************)
FailuresContained ==
  /\ part = "client" => EC!NoClosedEngine
  /\ part = "controller" => UC!OneEngine
  /\ part = "conversation" => CV!ChatIsPrefix /\ CV!NoOrphanOutput
  /\ part = "training" => TB!OutcomeReported /\ TB!WaiterWatched
  /\ part = "speech" => SP!SpeechOnce

(***************************************************************************)
(* Every part recovers in the end: the website reaches its engine managers *)
(* again, a User resource gets its engine, what is said reaches the chat,  *)
(* the end of a training job is reported as long as the daemon that waits  *)
(* for it lives, and a speech session ends.                                *)
(***************************************************************************)
Recovers ==
  /\ (part = "client") => EC!Reconnects
  /\ (part = "controller") => UC!UserRuns
  /\ (part = "conversation") => CV!ChatCatchesUp
  /\ (part = "training") => TB!EndReported
  /\ (part = "speech") => SP!SpeechAnswered

(***************************************************************************)
(* A dropped watch of the training jobs is retried and does not end the    *)
(* training daemon (kubernetes.js). Not so: the list that a new watch      *)
(* begins with may fail, and nobody handles that.                          *)
(***************************************************************************)
DropsRetried == part = "training" => TB!DropsAreRetried

-----------------------------------------------------------------------------
(* Values of the constants.                                                *)

Shard == [u \in Callers |-> 0]
=============================================================================
