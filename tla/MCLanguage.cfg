SPECIFICATION Spec
CONSTANTS
  None = None
  Null = Null
  NoRow = NoRow
  NoJob = NoJob
  Typed = Typed
  \* NLPServer
  Tags = {"default"}
  DefaultTag = "default"
  DeveloperTag = "developer"
  AccessToken <- Tokens
  Reloads = {r1, r2}
  Queries = {q1}
  MaxPredictors = 3
  Sentences = {s1}
  \* Commandpedia
  Voters = {a, b}
  Votes = {v1, v2}
  Datasets <- Uploads
  MaxExample = 2
  \* Lexicon
  EntityTypes = {"ent"}
  StringTypeNames = {"str"}
  LexLangs = {"en"}
  Files <- BadFiles
  Uploaders = {"dev", "root"}
  MayUpload <- Permissions
  Streams = {u1, u2}
  \* MTurk
  Workers = {w1, w2, w3, w4}
  Target = 2
  PerHit = 2
  MaxRows = 5
  MaxParaphrases = 3
  \* TrainingTasks
  Devices = {"d1", "d2"}
  MaxVersion <- Versions
  \* JobFiles
  Jobs = {j1, j2}
  MaxModel = 2
  \* CommandTrainer
  Utterances = {"u1", "u2"}
  MaxEdits = 7
INVARIANTS
  LanguageTypes
  ModelsWhole
  DatasetCurrent
PROPERTY
  RowsExact
CHECK_DEADLOCK FALSE
