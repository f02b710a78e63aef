----------------------------- MODULE MCLanguage -----------------------------
(***************************************************************************)
(* Instances for TLC of the parts that make and serve the datasets and the *)
(* models: the NLP server, Commandpedia, the lexicon, MTurk, the training  *)
(* tasks with their files, and the form that adds commands. They share no  *)
(* state, so that each behaviour is one of a single part, which the first  *)
(* state chooses.                                                          *)
(***************************************************************************)
EXTENDS Naturals, FiniteSets, Sequences

CONSTANTS
  None, Null, NoRow, NoJob, Typed,
  Tags, DefaultTag, DeveloperTag, AccessToken, Reloads, Queries, MaxPredictors, Sentences,
  Voters, Datasets, Votes, MaxExample,
  EntityTypes, StringTypeNames, LexLangs, Files, Uploaders, MayUpload, Streams,
  Workers, Target, PerHit, MaxRows, MaxParaphrases,
  Devices, MaxVersion,
  Jobs, MaxModel,
  Utterances, MaxEdits

VARIABLES
  part,
  trained, model, predictor, removed, loading, reload, query, exact, learnt, disturbed,
  ex, likes, nextEx, vote, drift,
  types, values, up,
  status, hits, output, flags, validation, vlog,
  dev, appr, rows, upd, exactFile, uploaded, clean,
  storage, pc, file, spool, local, out, metrics, lock, version, claim, dir,
  utterance, code, predicted, confirmed, raw, asked, candidates, results, learning,
  sentToLearn, edits, crossed

NLP == INSTANCE NLPServer
CP  == INSTANCE Commandpedia
LX  == INSTANCE Lexicon
MT  == INSTANCE MTurk
TT  == INSTANCE TrainingTasks
JF  == INSTANCE JobFiles
CT  == INSTANCE CommandTrainer WITH learnt <- sentToLearn

Parts == {"nlp", "commandpedia", "lexicon", "mturk", "tasks", "jobs", "trainer"}

Init ==
  /\ part \in Parts
  /\ NLP!NInit /\ CP!CInit /\ LX!LInit /\ MT!MTInit /\ TT!TTInit /\ JF!JFInit /\ CT!TInit
  /\ part # "nlp" => trained = [t \in Tags |-> FALSE]
  /\ part # "jobs" => storage = "file:"

nlpVars         == <<trained, model, predictor, removed, loading, reload, query, exact, learnt, disturbed>>
commandpediaVars == <<ex, likes, nextEx, vote, drift>>
lexiconVars     == <<types, values, up>>
mturkVars       == <<status, hits, output, flags, validation, vlog>>
tasksVars       == <<dev, appr, rows, upd, exactFile, uploaded, clean>>
jobsVars        == <<storage, pc, file, spool, local, out, metrics, lock, version, claim, dir>>
trainerVars     == <<utterance, code, predicted, confirmed, raw, asked, candidates, results,
                     learning, sentToLearn, edits, crossed>>
vars == <<part, nlpVars, commandpediaVars, lexiconVars, mturkVars, tasksVars, jobsVars, trainerVars>>

\* The parts other than p stand still.
Frame(p) ==
  /\ part = p /\ part' = part
  /\ IF p = "nlp" THEN TRUE ELSE UNCHANGED nlpVars
  /\ IF p = "commandpedia" THEN TRUE ELSE UNCHANGED commandpediaVars
  /\ IF p = "lexicon" THEN TRUE ELSE UNCHANGED lexiconVars
  /\ IF p = "mturk" THEN TRUE ELSE UNCHANGED mturkVars
  /\ IF p = "tasks" THEN TRUE ELSE UNCHANGED tasksVars
  /\ IF p = "jobs" THEN TRUE ELSE UNCHANGED jobsVars
  /\ IF p = "trainer" THEN TRUE ELSE UNCHANGED trainerVars

Next ==
  \/ Frame("nlp") /\ NLP!NNext
  \/ Frame("commandpedia") /\ CP!CNext
  \/ Frame("lexicon") /\ LX!LNext
  \/ Frame("mturk") /\ MT!MTNext
  \/ Frame("tasks") /\ TT!TTNext
  \/ Frame("jobs") /\ JF!JFNext
  \/ Frame("trainer") /\ CT!TNext

ASSUME DatasetsAssumption == CP!DatasetsAssumption

ASSUME LexiconAssumption == LX!LexiconAssumption

\* A missing value is none of the values.
ASSUME NoneAssumption ==
  /\ None \notin NLP!Predictors /\ None \notin Tags
  /\ None \notin NLP!PredictorRecords /\ None \notin NLP!ModelRecords
  /\ None \notin NLP!ReloadRecords
  /\ NoJob \notin Jobs

ASSUME BoundsAssumption ==
  /\ MaxPredictors \in Nat /\ MaxModel \in Nat /\ Target \in Nat
  /\ PerHit \in Nat \ {0} /\ MaxRows \in Nat
  /\ MaxParaphrases \in Nat /\ MaxExample \in Nat
  /\ \A d \in Devices : MaxVersion[d] \in Nat

Spec == Init /\ [][Next]_vars

-----------------------------------------------------------------------------
(* The properties of the run, each the conjunction of what the parts state *)
(* on one theme. Their comments, in the modules of the parts, name the code *)
(* each conjunct is about.                                                 *)

(***************************************************************************)
(* Every part keeps its state within its type.                             *)
(***************************************************************************)
LanguageTypes ==
  /\ NLP!NTypeOK /\ CP!CTypeOK /\ LX!LTypeOK /\ MT!MTTypeOK
  /\ TT!TTTypeOK /\ JF!JFTypeOK /\ CT!TTypeOK

(***************************************************************************)
(* A model that is served is a whole one: the predictor a request may be   *)
(* given was not stopped and its files were not removed, however loads and *)
(* reloads overlap; predictors do not pile up, but for models whose loads  *)
(* overlapped or failed (nlp/nlp_model.ts); and a version that has metrics *)
(* holds the files of one job, trained on a complete training set          *)
(* (training/job_specs.js, training/tasks). A version without metrics,     *)
(* whose evaluation was evicted, is committed and served unchecked.        *)
(***************************************************************************)
ModelsWhole ==
  /\ part = "nlp" => NLP!PredictorUsable /\ NLP!NoLeakedPredictor
  /\ part = "jobs" => JF!ServedModelWhole

(***************************************************************************)
(* The dataset a model learns from is the current one: generated sentences *)
(* are of the current version of their device and none is missing          *)
(* (training/tasks), the crowd's paraphrases are taken only when validated *)
(* (routes/mturk.ts), and the code a user confirms for a sentence is the   *)
(* code shown for that sentence (browser/deps/new-command.js).             *)
(***************************************************************************)
DatasetCurrent ==
  /\ part = "tasks" => TT!GeneratedCurrent /\ TT!DatasetComplete
  /\ part = "mturk" => MT!TrainingValidated
  /\ part = "trainer" => CT!LearnsWhatIsShown

(***************************************************************************)
(* The rows users share are exact, however requests of different users     *)
(* interleave: the like counters of Commandpedia count the likes, but for  *)
(* examples on which two requests of one user overlapped or one was cut    *)
(* short by a crash, which drift for good (model/example.ts), a worker has *)
(* at most one vote on a sentence (routes/mturk.ts), and an upload of      *)
(* values leaves either a whole file or nothing, with nothing inserted     *)
(* after its transaction ended (util/upload_dataset.ts). An example that   *)
(* stays in an uploaded dataset keeps the identifier its likes are         *)
(* attached to (util/import_device.ts).                                    *)
(***************************************************************************)
RowsExact ==
  /\ [](part = "commandpedia" => CP!LikesCounted)
  /\ [](part = "mturk" => MT!OneVoteEach)
  /\ [](part = "lexicon" => LX!NoInflightInsert /\ LX!WholeFiles)
  /\ CP!ExampleKeepsId

-----------------------------------------------------------------------------
(* Values of the constants.                                                *)

Tokens == [t \in Tags |-> IF t = "developer" THEN t ELSE None]

Example(c, us) == [name |-> "n1", code |-> c, utterances |-> us]
Uploads ==
  {[phrases |-> {}, examples |-> {Example("c1", <<"u1">>)}],
   [phrases |-> {}, examples |-> {Example("c1", <<"u3">>)}],
   [phrases |-> {}, examples |-> {Example("c2", <<"u1", "u4">>)}],
   [phrases |-> {[utt |-> "p", code |-> "cp"]}, examples |-> {Example("c2", <<"u1">>)}]}

BadFiles == {<<"a", "malformed", "b">>, <<"c", "unparsable">>}
Permissions == [u \in Uploaders |-> IF u = "root" THEN {"ent", "str"} ELSE {"str"}]

Versions == [d \in Devices |-> IF d = "d1" THEN 2 ELSE 1]
=============================================================================
