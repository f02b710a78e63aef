-------------------------- MODULE MCLanguageProofs --------------------------
(***************************************************************************)
(* Proofs about the parts that make and serve datasets and models, for any *)
(* number of reloads, jobs, devices, workers, paraphrases and sentences.   *)
(***************************************************************************)
EXTENDS MCLanguage, TLAPS, FiniteSetTheorems

-----------------------------------------------------------------------------
(* The NLP server                                                          *)

Served(t, o) == IF model[t][o] = None THEN None ELSE model[t][o].predictor

\* What anybody refers to was made, so that a fresh predictor is new to all.
PredictorsMade ==
  /\ \A t \in Tags, o \in NLP!Origins : Served(t, o) # None => predictor[Served(t, o)] # None
  /\ \A r \in Reloads : reload[r] # None =>
       \A n \in {reload[r].new, reload[r].oldpredictor, reload[r].oldlocaldir} \ {None} : predictor[n] # None
  /\ loading.predictor # None => predictor[loading.predictor] # None
  /\ \A n \in removed : predictor[n] # None

\* A predictor that is stopped, has lost its files, or is going to.
RetiredBy(r, n) ==
  reload[r] # None /\ reload[r].new # None /\ n \in {reload[r].oldpredictor, reload[r].oldlocaldir}
Retired(n) ==
  \/ predictor[n] # None /\ predictor[n].st = "stopped"
  \/ n \in removed
  \/ \E r \in Reloads : RetiredBy(r, n)

\* No model has a predictor that is retired, nor the predictor of another
\* model, nor the one that is being loaded.
ServedApart ==
  /\ \A t, u \in Tags, o, p \in NLP!Origins :
       Served(t, o) # None /\ Served(t, o) = Served(u, p) => t = u /\ o = p
  /\ \A t \in Tags, o \in NLP!Origins :
       Served(t, o) # None => ~Retired(Served(t, o)) /\ Served(t, o) # loading.predictor
  /\ loading.predictor # None => ~Retired(loading.predictor)
\* A reload removes the directory of the model it was started for, and it
\* knows what it replaced once it has.
ReloadsOwn ==
  \A r \in Reloads : reload[r] # None =>
    /\ model[reload[r].tag][reload[r].this] # None
    /\ reload[r].new = None => reload[r].oldpredictor = None
    /\ reload[r].oldlocaldir # None =>
         /\ reload[r].oldlocaldir # loading.predictor
         /\ \A t \in Tags, o \in NLP!Origins :
              reload[r].new = None /\ Served(t, o) = reload[r].oldlocaldir =>
                t = reload[r].tag /\ o = reload[r].this

\* As long as loads of a model do not overlap and none failed: until it is
\* loaded nothing else makes predictors for it, one reload at a time replaces
\* the predictor it has, and all other predictors are stopped.
LoadingOne ==
  /\ loading.trained \subseteq loading.todo
  /\ loading.predictor # None => predictor[loading.predictor].tag \in loading.trained
Reloading(r, t) == reload[r] # None /\ reload[r].tag = t
LoadedFirst(t) ==
  t \in loading.todo =>
    (\A o \in NLP!Origins : model[t][o] = None) /\ \A r \in Reloads : ~Reloading(r, t)
OneReload(t) ==
  /\ \A r, s \in Reloads : Reloading(r, t) /\ Reloading(s, t) => r = s
  /\ \A r \in Reloads : Reloading(r, t) => reload[r].this = NLP!Origin(t)
OthersStopped(t) ==
  \A n \in NLP!Predictors :
    predictor[n] # None /\ predictor[n].tag = t /\ predictor[n].st # "stopped" =>
      \/ n = loading.predictor
      \/ n = Served(t, NLP!Origin(t))
      \/ \E r \in Reloads : Reloading(r, t) /\ reload[r].new # None /\ n = reload[r].oldpredictor
Undisturbed(t) == LoadedFirst(t) /\ OneReload(t) /\ OthersStopped(t)
OnePredictor == LoadingOne /\ \A t \in Tags \ disturbed : Undisturbed(t)

NLPInv == NLP!NTypeOK /\ PredictorsMade /\ ServedApart /\ ReloadsOwn /\ OnePredictor

-----------------------------------------------------------------------------
(* The files of training jobs                                              *)

\* On S3 a file is there whole or not at all; on the local disk no task but
\* the first is killed, so that the next one finds the files whole.
FilesInv ==
  \A j \in Jobs :
    /\ storage = "s3:" => \A f \in JF!Sets : file[j][f] # "partial"
    /\ storage = "file:" /\ pc[j] \notin {"queued", "prepare", "error"} =>
         \A f \in JF!Sets : file[j][f] = "whole"
    /\ local[j] # "none" => file[j]["train"] = "whole"
    /\ out[j] # "none" => local[j] # "none"
    /\ out[j] = "partial" => pc[j] = "error"
    /\ pc[j] \in {"queued", "prepare", "prepared"} => local[j] = "none"
    /\ pc[j] \in {"queued", "prepare", "prepared", "train"} => out[j] = "none"
    /\ j \in metrics => out[j] # "none"
\* One upload at a time writes the next version, which is not served yet.
VersionsInv ==
  \A j \in Jobs :
    /\ pc[j] = "uploading" <=> lock = j
    /\ pc[j] = "uploading" => claim[j] = version + 1 /\ version < MaxModel
    /\ pc[j] = "done" => claim[j] \in 1..version
    /\ pc[j] = "done" /\ out[j] # "none" => \A f \in JF!Outs : dir[claim[j]][f] = j
JobsInv == JF!JFTypeOK /\ FilesInv /\ VersionsInv

JobStates == {"queued", "prepare", "prepared", "train", "trained", "evaluate",
              "evaluated", "uploading", "done", "error"}
LocalStates == {"none", "training", "trained", "killed", "removed"}

LEMMA JobsInitially ==
  JF!JFInit => JobsInv
BY NoneAssumption, BoundsAssumption
   DEF JF!JFInit, JobsInv, JF!JFTypeOK, FilesInv, VersionsInv, JF!Sets, JF!Outs

LEMMA LoadKeeps ==
  ASSUME NEW j \in Jobs, JobsInv, JF!Load(j)
  PROVE  JobsInv'
<1>1. JF!JFTypeOK'
  <2>1. /\ pc' \in [Jobs -> JobStates]
        /\ local' \in [Jobs -> LocalStates]
        /\ out' \in [Jobs -> {"none", "partial", "whole"}]
        /\ metrics' \subseteq Jobs
    BY DEF JobsInv, JF!JFTypeOK, JobStates, LocalStates, JF!Load, JF!Goes
  <2>2. UNCHANGED <<storage, file, spool, lock, version, claim, dir>>
    BY DEF JF!Load
  <2> QED BY <2>1, <2>2 DEF JobsInv, JF!JFTypeOK, JobStates, LocalStates
<1>2. FilesInv'
  BY NoneAssumption DEF JobsInv, JF!JFTypeOK, FilesInv, JF!Load, JF!Goes, JF!Sets
<1>3. VersionsInv'
  BY NoneAssumption, BoundsAssumption DEF JobsInv, JF!JFTypeOK, FilesInv, VersionsInv, JF!Load, JF!Goes, JF!Outs
<1> QED BY <1>1, <1>2, <1>3 DEF JobsInv

LEMMA WriteSetKeeps ==
  ASSUME NEW j \in Jobs, NEW f \in JF!Sets, JobsInv, JF!WriteSet(j, f)
  PROVE  JobsInv'
<1> SUFFICES JF!JFTypeOK' /\ FilesInv' /\ VersionsInv' BY DEF JobsInv
<1>0. VersionsInv'
  BY NoneAssumption, BoundsAssumption DEF JobsInv, JF!JFTypeOK, FilesInv, VersionsInv, JF!WriteSet, JF!Outs
<1>1. CASE storage = "s3:"
  <2>1. /\ spool' = [spool EXCEPT ![j] = spool[j] \cup {f}]
        /\ UNCHANGED <<storage, pc, file, local, out, metrics, lock, version, claim, dir>>
    BY <1>1 DEF JF!WriteSet
  <2>2. spool' \in [Jobs -> SUBSET JF!Sets]
    BY <2>1 DEF JobsInv, JF!JFTypeOK
  <2> QED BY <2>1, <2>2, <1>0 DEF JobsInv, JF!JFTypeOK, FilesInv
<1>2. CASE storage = "file:"
  <2> DEFINE row == [file[j] EXCEPT ![f] = IF file[j][f] = "none" THEN "partial" ELSE "whole"]
  <2>1. /\ row \in [JF!Sets -> {"none", "partial", "whole"}]
        /\ file[j]["train"] = "whole" => row["train"] = "whole"
    BY <1>2 DEF JobsInv, JF!JFTypeOK, JF!WriteSet
  <2>2. /\ pc[j] = "prepare" /\ file' = [file EXCEPT ![j] = row]
        /\ UNCHANGED <<storage, pc, spool, local, out, metrics, lock, version, claim, dir>>
    BY <1>2 DEF JF!WriteSet
  <2> HIDE DEF row
  <2> QED BY <1>2, <1>0, <2>1, <2>2 DEF JobsInv, JF!JFTypeOK, FilesInv
<1> QED BY <1>1, <1>2 DEF JobsInv, JF!JFTypeOK

LEMMA SpoolUploadedKeeps ==
  ASSUME NEW j \in Jobs, NEW f \in JF!Sets, JobsInv, JF!SpoolUploaded(j, f)
  PROVE  JobsInv'
<1>1. JF!JFTypeOK'
  <2>1. /\ file' \in [Jobs -> [JF!Sets -> {"none", "partial", "whole"}]]
    BY DEF JobsInv, JF!JFTypeOK, JobStates, LocalStates, JF!SpoolUploaded
  <2>2. UNCHANGED <<storage, pc, spool, local, out, metrics, lock, version, claim, dir>>
    BY DEF JF!SpoolUploaded
  <2> QED BY <2>1, <2>2 DEF JobsInv, JF!JFTypeOK, JobStates, LocalStates
<1>2. FilesInv'
  BY NoneAssumption DEF JobsInv, JF!JFTypeOK, FilesInv, JF!SpoolUploaded, JF!Sets
<1>3. VersionsInv'
  BY NoneAssumption, BoundsAssumption DEF JobsInv, JF!JFTypeOK, FilesInv, VersionsInv, JF!SpoolUploaded, JF!Outs
<1> QED BY <1>1, <1>2, <1>3 DEF JobsInv

LEMMA PrepareDoneKeeps ==
  ASSUME NEW j \in Jobs, JobsInv, JF!PrepareDone(j)
  PROVE  JobsInv'
<1>1. JF!JFTypeOK'
  <2>1. /\ pc' \in [Jobs -> JobStates]
    BY DEF JobsInv, JF!JFTypeOK, JobStates, LocalStates, JF!PrepareDone, JF!Goes
  <2>2. UNCHANGED <<storage, file, spool, local, out, metrics, lock, version, claim, dir>>
    BY DEF JF!PrepareDone
  <2> QED BY <2>1, <2>2 DEF JobsInv, JF!JFTypeOK, JobStates, LocalStates
<1>2. FilesInv'
  BY NoneAssumption DEF JobsInv, JF!JFTypeOK, FilesInv, JF!PrepareDone, JF!Goes, JF!Sets
<1>3. VersionsInv'
  BY NoneAssumption, BoundsAssumption DEF JobsInv, JF!JFTypeOK, FilesInv, VersionsInv, JF!PrepareDone, JF!Goes, JF!Outs
<1> QED BY <1>1, <1>2, <1>3 DEF JobsInv

LEMMA DownloadKeeps ==
  ASSUME NEW j \in Jobs, JobsInv, JF!Download(j)
  PROVE  JobsInv'
<1>1. JF!JFTypeOK'
  <2>1. /\ pc' \in [Jobs -> JobStates] /\ local' \in [Jobs -> LocalStates]
    BY DEF JobsInv, JF!JFTypeOK, JobStates, LocalStates, JF!Download, JF!Goes
  <2>2. UNCHANGED <<storage, file, spool, out, metrics, lock, version, claim, dir>>
    BY DEF JF!Download
  <2> QED BY <2>1, <2>2 DEF JobsInv, JF!JFTypeOK, JobStates, LocalStates
<1>2. FilesInv'
  BY NoneAssumption DEF JobsInv, JF!JFTypeOK, FilesInv, JF!Download, JF!Goes, JF!Sets
<1>3. VersionsInv'
  BY NoneAssumption, BoundsAssumption DEF JobsInv, JF!JFTypeOK, FilesInv, VersionsInv, JF!Download, JF!Goes, JF!Outs
<1> QED BY <1>1, <1>2, <1>3 DEF JobsInv

LEMMA GenieTrainKeeps ==
  ASSUME NEW j \in Jobs, JobsInv, JF!GenieTrain(j)
  PROVE  JobsInv'
<1>1. JF!JFTypeOK'
  <2>1. /\ pc' \in [Jobs -> JobStates] /\ local' \in [Jobs -> LocalStates]
    BY DEF JobsInv, JF!JFTypeOK, JobStates, LocalStates, JF!GenieTrain, JF!Goes
  <2>2. UNCHANGED <<storage, file, spool, out, metrics, lock, version, claim, dir>>
    BY DEF JF!GenieTrain
  <2> QED BY <2>1, <2>2 DEF JobsInv, JF!JFTypeOK, JobStates, LocalStates
<1>2. FilesInv'
  BY NoneAssumption DEF JobsInv, JF!JFTypeOK, FilesInv, JF!GenieTrain, JF!Goes, JF!Sets
<1>3. VersionsInv'
  BY NoneAssumption, BoundsAssumption DEF JobsInv, JF!JFTypeOK, FilesInv, VersionsInv, JF!GenieTrain, JF!Goes, JF!Outs
<1> QED BY <1>1, <1>2, <1>3 DEF JobsInv

LEMMA AfterTrainKeeps ==
  ASSUME NEW j \in Jobs, JobsInv, JF!AfterTrain(j)
  PROVE  JobsInv'
<1>1. JF!JFTypeOK'
  <2>1. /\ pc' \in [Jobs -> JobStates]
        /\ local' \in [Jobs -> LocalStates]
        /\ out' \in [Jobs -> {"none", "partial", "whole"}]
        /\ metrics' \subseteq Jobs
    BY DEF JobsInv, JF!JFTypeOK, JobStates, LocalStates, JF!AfterTrain, JF!Goes
  <2>2. UNCHANGED <<storage, file, spool, lock, version, claim, dir>>
    BY DEF JF!AfterTrain
  <2> QED BY <2>1, <2>2 DEF JobsInv, JF!JFTypeOK, JobStates, LocalStates
<1>2. FilesInv'
  BY NoneAssumption DEF JobsInv, JF!JFTypeOK, FilesInv, JF!AfterTrain, JF!Goes, JF!Sets
<1>3. VersionsInv'
  BY NoneAssumption, BoundsAssumption DEF JobsInv, JF!JFTypeOK, FilesInv, VersionsInv, JF!AfterTrain, JF!Goes, JF!Outs
<1> QED BY <1>1, <1>2, <1>3 DEF JobsInv

LEMMA EvaluateKeeps ==
  ASSUME NEW j \in Jobs, JobsInv, JF!Evaluate(j)
  PROVE  JobsInv'
<1>1. JF!JFTypeOK'
  <2>1. /\ pc' \in [Jobs -> JobStates]
        /\ local' \in [Jobs -> LocalStates]
        /\ out' \in [Jobs -> {"none", "partial", "whole"}]
        /\ metrics' \subseteq Jobs
    BY DEF JobsInv, JF!JFTypeOK, JobStates, LocalStates, JF!Evaluate, JF!Goes
  <2>2. UNCHANGED <<storage, file, spool, lock, version, claim, dir>>
    BY DEF JF!Evaluate
  <2> QED BY <2>1, <2>2 DEF JobsInv, JF!JFTypeOK, JobStates, LocalStates
<1>2. FilesInv'
  BY NoneAssumption DEF JobsInv, JF!JFTypeOK, FilesInv, JF!Evaluate, JF!Goes, JF!Sets
<1>3. VersionsInv'
  BY NoneAssumption, BoundsAssumption DEF JobsInv, JF!JFTypeOK, FilesInv, VersionsInv, JF!Evaluate, JF!Goes, JF!Outs
<1> QED BY <1>1, <1>2, <1>3 DEF JobsInv

LEMMA EvictKeeps ==
  ASSUME NEW j \in Jobs, JobsInv, JF!Evict(j)
  PROVE  JobsInv'
<1>1. JF!JFTypeOK'
  <2>1. /\ pc' \in [Jobs -> JobStates]
        /\ local' \in [Jobs -> LocalStates]
        /\ out' \in [Jobs -> {"none", "partial", "whole"}]
        /\ metrics' \subseteq Jobs
    BY DEF JobsInv, JF!JFTypeOK, JobStates, LocalStates, JF!Evict, JF!Goes
  <2>2. UNCHANGED <<storage, file, spool, lock, version, claim, dir>>
    BY DEF JF!Evict
  <2> QED BY <2>1, <2>2 DEF JobsInv, JF!JFTypeOK, JobStates, LocalStates
<1>2. FilesInv'
  BY NoneAssumption DEF JobsInv, JF!JFTypeOK, FilesInv, JF!Evict, JF!Goes, JF!Sets
<1>3. VersionsInv'
  BY NoneAssumption, BoundsAssumption DEF JobsInv, JF!JFTypeOK, FilesInv, VersionsInv, JF!Evict, JF!Goes, JF!Outs
<1> QED BY <1>1, <1>2, <1>3 DEF JobsInv

LEMMA LockModelKeeps ==
  ASSUME NEW j \in Jobs, JobsInv, JF!LockModel(j)
  PROVE  JobsInv'
<1>1. JF!JFTypeOK'
  <2>1. /\ pc' \in [Jobs -> JobStates] /\ lock' \in Jobs \cup {NoJob}
        /\ claim' \in [Jobs -> 0..MaxModel]
    BY BoundsAssumption DEF JobsInv, JF!JFTypeOK, JobStates, LocalStates, JF!LockModel, JF!Goes
  <2>2. UNCHANGED <<storage, file, spool, local, out, metrics, version, dir>>
    BY DEF JF!LockModel
  <2> QED BY <2>1, <2>2 DEF JobsInv, JF!JFTypeOK, JobStates, LocalStates
<1>2. FilesInv'
  BY NoneAssumption DEF JobsInv, JF!JFTypeOK, FilesInv, JF!LockModel, JF!Goes, JF!Sets
<1>3. VersionsInv'
  BY NoneAssumption, BoundsAssumption DEF JobsInv, JF!JFTypeOK, FilesInv, VersionsInv, JF!LockModel, JF!Goes, JF!Outs
<1> QED BY <1>1, <1>2, <1>3 DEF JobsInv

LEMMA SyncFileKeeps ==
  ASSUME NEW j \in Jobs, NEW f \in JF!Outs, JobsInv, JF!SyncFile(j, f)
  PROVE  JobsInv'
<1>1. JF!JFTypeOK'
  <2>1. /\ dir' \in [1..MaxModel -> [JF!Outs -> Jobs \cup {NoJob}]]
    BY BoundsAssumption DEF JobsInv, JF!JFTypeOK, JobStates, LocalStates, VersionsInv, JF!SyncFile
  <2>2. UNCHANGED <<storage, pc, file, spool, local, out, metrics, lock, version, claim>>
    BY DEF JF!SyncFile
  <2> QED BY <2>1, <2>2 DEF JobsInv, JF!JFTypeOK, JobStates, LocalStates
<1>2. FilesInv'
  BY NoneAssumption DEF JobsInv, JF!JFTypeOK, FilesInv, JF!SyncFile, JF!Sets
<1>3. VersionsInv'
  BY NoneAssumption, BoundsAssumption DEF JobsInv, JF!JFTypeOK, FilesInv, VersionsInv, JF!SyncFile, JF!Outs
<1> QED BY <1>1, <1>2, <1>3 DEF JobsInv

LEMMA CommitKeeps ==
  ASSUME NEW j \in Jobs, JobsInv, JF!Commit(j)
  PROVE  JobsInv'
<1>1. JF!JFTypeOK'
  <2>1. /\ pc' \in [Jobs -> JobStates] /\ lock' \in Jobs \cup {NoJob}
        /\ version' \in 0..MaxModel
    BY BoundsAssumption DEF JobsInv, JF!JFTypeOK, JobStates, LocalStates, JF!Commit, JF!Goes, JF!Unlock
  <2>2. UNCHANGED <<storage, file, spool, local, out, metrics, claim, dir>>
    BY DEF JF!Commit
  <2> QED BY <2>1, <2>2 DEF JobsInv, JF!JFTypeOK, JobStates, LocalStates
<1>2. FilesInv'
  BY NoneAssumption DEF JobsInv, JF!JFTypeOK, FilesInv, JF!Commit, JF!Unlock, JF!Goes, JF!Sets
<1>3. VersionsInv'
  BY NoneAssumption, BoundsAssumption DEF JobsInv, JF!JFTypeOK, FilesInv, VersionsInv, JF!Commit, JF!Unlock, JF!Goes, JF!Outs
<1> QED BY <1>1, <1>2, <1>3 DEF JobsInv

LEMMA UploadFailsKeeps ==
  ASSUME NEW j \in Jobs, JobsInv, JF!UploadFails(j)
  PROVE  JobsInv'
<1>1. JF!JFTypeOK'
  <2>1. /\ pc' \in [Jobs -> JobStates] /\ lock' \in Jobs \cup {NoJob}
    BY DEF JobsInv, JF!JFTypeOK, JobStates, LocalStates, JF!UploadFails, JF!Goes, JF!Unlock
  <2>2. UNCHANGED <<storage, file, spool, local, out, metrics, version, claim, dir>>
    BY DEF JF!UploadFails
  <2> QED BY <2>1, <2>2 DEF JobsInv, JF!JFTypeOK, JobStates, LocalStates
<1>2. FilesInv'
  BY NoneAssumption DEF JobsInv, JF!JFTypeOK, FilesInv, JF!UploadFails, JF!Unlock, JF!Goes, JF!Sets
<1>3. VersionsInv'
  BY NoneAssumption, BoundsAssumption DEF JobsInv, JF!JFTypeOK, FilesInv, VersionsInv, JF!UploadFails, JF!Unlock, JF!Goes, JF!Outs
<1> QED BY <1>1, <1>2, <1>3 DEF JobsInv

LEMMA JobsNext ==
  JobsInv /\ JF!JFNext => JobsInv'
BY LoadKeeps, WriteSetKeeps, SpoolUploadedKeeps, PrepareDoneKeeps, DownloadKeeps, GenieTrainKeeps, AfterTrainKeeps, EvaluateKeeps, EvictKeeps, LockModelKeeps, SyncFileKeeps, CommitKeeps, UploadFailsKeeps DEF JF!JFNext

LEMMA JobsIdle ==
  JobsInv /\ UNCHANGED jobsVars => JobsInv'
BY DEF JobsInv, JF!JFTypeOK, FilesInv, VersionsInv, jobsVars

LEMMA JobsWhole ==
  JobsInv => JF!ServedModelWhole
BY DEF JobsInv, JF!JFTypeOK, FilesInv, VersionsInv, JF!ServedModelWhole

-----------------------------------------------------------------------------
(* The NLP server: each step keeps NLPInv.                                 *)

LEMMA NLPInitially ==
  NLP!NInit => NLPInv
<1> SUFFICES ASSUME NLP!NInit PROVE NLPInv
  OBVIOUS
<1>1. /\ NLP!NTypeOK
      /\ \A t \in Tags, o \in NLP!Origins : model[t][o] = None /\ Served(t, o) = None
      /\ \A n \in NLP!Predictors : predictor[n] = None
      /\ \A r \in Reloads : reload[r] = None
      /\ removed = {} /\ loading.predictor = None
      /\ loading.trained \subseteq loading.todo
  BY DEF NLP!NInit, NLP!NTypeOK, Served, NLP!Origins
<1>2. PredictorsMade /\ ServedApart /\ ReloadsOwn
  BY <1>1 DEF PredictorsMade, ServedApart, ReloadsOwn
<1>3. OnePredictor
  BY <1>1 DEF OnePredictor, LoadingOne, Undisturbed, LoadedFirst, OneReload, OthersStopped, Reloading
<1> QED BY <1>1, <1>2, <1>3 DEF NLPInv

LEMMA ServedTyped ==
  ASSUME NLP!NTypeOK, NEW t \in Tags, NEW o \in NLP!Origins
  PROVE  Served(t, o) \in NLP!Predictors \cup {None}
BY NoneAssumption DEF NLP!NTypeOK, NLP!ModelRecords, Served

\* Queries and learning leave models and predictors alone.
LEMMA Quiet ==
  ASSUME NLPInv, NLP!NTypeOK', UNCHANGED <<model, predictor, removed, loading, reload, disturbed>>
  PROVE  NLPInv'
BY DEF NLPInv, PredictorsMade, ServedApart, ReloadsOwn, OnePredictor, LoadingOne, Undisturbed, LoadedFirst, OneReload, OthersStopped,
       Served, Retired, RetiredBy, Reloading, NLP!Origin

LEMMA TrainKeeps ==
  ASSUME NEW t \in Tags, NLPInv, NLP!Train(t)
  PROVE  NLPInv'
<1>1. NLP!NTypeOK'
  BY DEF NLPInv, NLP!NTypeOK, NLP!Train
<1> QED BY <1>1, Quiet DEF NLP!Train

LEMMA ModelThere ==
  ASSUME NLPInv, NEW t, NLP!getModel(t) # None
  PROVE  /\ t \in Tags /\ NLP!getModel(t) = model[t][NLP!Origin(t)]
         /\ NLP!getModel(t) \in NLP!ModelRecords
         /\ NLP!getModel(t).predictor = Served(t, NLP!Origin(t))
<1>1. t \in Tags /\ NLP!getModel(t) = model[t][NLP!Origin(t)] /\ NLP!Origin(t) \in NLP!Origins
  BY DEF NLP!getModel, NLP!Origin, NLP!Origins
<1> QED BY <1>1 DEF NLPInv, NLP!NTypeOK, Served

LEMMA AskKeeps ==
  ASSUME NEW q \in Queries, NEW tag, NEW token, NEW developer, NLPInv, NLP!Ask(q, tag, developer, token)
  PROVE  NLPInv'
<1> DEFINE m == NLP!getModel(NLP!ChooseModel(tag, developer))
<1>1. m # None
  BY DEF NLP!Ask, NLP!Allowed, NLP!ChooseModel, NLP!Usable
<1>2. m.predictor \in NLP!Predictors \cup {None}
  BY <1>1, ModelThere DEF NLP!ModelRecords
<1>3. query' = [query EXCEPT ![q] = m.predictor]
  BY DEF NLP!Ask
<1> HIDE DEF m
<1>4. NLP!NTypeOK'
  BY <1>2, <1>3 DEF NLPInv, NLP!NTypeOK, NLP!Ask
<1> QED BY <1>4, Quiet DEF NLP!Ask

LEMMA AnswerKeeps ==
  ASSUME NEW q \in Queries, NLPInv, NLP!Answer(q)
  PROVE  NLPInv'
<1>1. NLP!NTypeOK'
  BY DEF NLPInv, NLP!NTypeOK, NLP!Answer
<1> QED BY <1>1, Quiet DEF NLP!Answer

LEMMA LearnKeeps ==
  ASSUME NEW s \in Sentences, NEW tag, NEW token, NEW trainable, NLPInv, NLP!Learn(s, tag, token, trainable)
  PROVE  NLPInv'
<1>1. NLP!NTypeOK'
  BY DEF NLPInv, NLP!NTypeOK, NLP!Learn
<1> QED BY <1>1, Quiet DEF NLP!Learn

LEMMA ReloadExactKeeps ==
  ASSUME NLPInv, NLP!ReloadExact \/ \E s \in Sentences : NLP!ReloadExample(s)
  PROVE  NLPInv'
<1>1. NLP!NTypeOK'
  BY DEF NLPInv, NLP!NTypeOK, NLP!ReloadExact, NLP!ReloadExample
<1> QED BY <1>1, Quiet DEF NLP!ReloadExact, NLP!ReloadExample

LEMMA PredictorStartedKeeps ==
  ASSUME NEW n \in NLP!Predictors, NLPInv, NLP!PredictorStarted(n)
  PROVE  NLPInv'
<1> DEFINE row == [predictor[n] EXCEPT !.st = "started"]
<1>1. /\ predictor[n] # None /\ row \in NLP!PredictorRecords /\ row.tag = predictor[n].tag
      /\ row.st = "started" /\ predictor[n].st = "starting"
  BY DEF NLPInv, NLP!NTypeOK, NLP!PredictorStarted, NLP!PredictorRecords
<1>2. /\ predictor' = [predictor EXCEPT ![n] = row]
      /\ UNCHANGED <<trained, model, removed, loading, reload, query, exact, learnt, disturbed>>
  BY DEF NLP!PredictorStarted, NLP!Becomes
<1> HIDE DEF row
<1>3. NLP!NTypeOK'
  BY <1>1, <1>2 DEF NLPInv, NLP!NTypeOK
<1>4. \A m \in NLP!Predictors :
        /\ (predictor[m] # None)' <=> predictor[m] # None
        /\ predictor[m] # None =>
             /\ predictor'[m].tag = predictor[m].tag
             /\ predictor'[m].st = "stopped" <=> predictor[m].st = "stopped"
  BY <1>1, <1>2, NoneAssumption DEF NLPInv, NLP!NTypeOK
<1>5. PredictorsMade'
  BY <1>2, <1>4, ServedTyped DEF NLPInv, NLP!NTypeOK, PredictorsMade, Served, NLP!ReloadRecords
<1>6. \A m \in NLP!Predictors : Retired(m)' <=> Retired(m)
  BY <1>2, <1>4 DEF Retired, RetiredBy
<1>7. /\ \A t \in Tags, o \in NLP!Origins : Served(t, o)' = Served(t, o)
      /\ \A t \in Tags : /\ NLP!Origin(t)' = NLP!Origin(t)
                        /\ Served(t, NLP!Origin(t))' = Served(t, NLP!Origin(t))
  BY <1>2 DEF Served, NLP!Origin
<1>8. ServedApart'
  BY <1>2, <1>6, <1>7, ServedTyped DEF NLPInv, ServedApart, NLP!NTypeOK
<1>9. ReloadsOwn'
  BY <1>2, <1>7 DEF NLPInv, ReloadsOwn
<1>10. LoadingOne'
  BY <1>2, <1>4 DEF NLPInv, NLP!NTypeOK, OnePredictor, LoadingOne, PredictorsMade
<1>11. ASSUME NEW u \in Tags \ disturbed' PROVE Undisturbed(u)'
  <2>1. Undisturbed(u)
    BY <1>2 DEF NLPInv, OnePredictor
  <2>2. LoadedFirst(u)'
    BY <2>1, <1>2 DEF Undisturbed, LoadedFirst, Reloading
  <2>3. OneReload(u)'
    BY <2>1, <1>2, <1>7 DEF Undisturbed, OneReload, Reloading
  <2>4. OthersStopped(u)'
    BY <2>1, <1>2, <1>4, <1>7 DEF Undisturbed, OthersStopped, Reloading
  <2> QED BY <2>2, <2>3, <2>4 DEF Undisturbed
<1> QED BY <1>3, <1>5, <1>8, <1>9, <1>10, <1>11 DEF NLPInv, OnePredictor

LEMMA LoadFailsKeeps ==
  ASSUME NLPInv, NLP!LoadFails
  PROVE  NLPInv'
<1>1. /\ loading' = [todo |-> {}, trained |-> {}, predictor |-> None] /\ loading.predictor = None
      /\ UNCHANGED <<trained, model, predictor, removed, reload, query, exact, learnt, disturbed>>
  BY DEF NLP!LoadFails
<1>2. loading'.predictor = None /\ loading'.todo = {} /\ loading'.trained = {}
  BY <1>1
<1>3. NLP!NTypeOK'
  BY <1>1 DEF NLPInv, NLP!NTypeOK
<1>4. PredictorsMade' /\ ReloadsOwn'
  BY <1>1, <1>2 DEF NLPInv, PredictorsMade, ReloadsOwn, Served
<1>5. ServedApart'
  BY <1>1, <1>2 DEF NLPInv, ServedApart, Served, Retired, RetiredBy
<1>10. LoadingOne'
  BY <1>2 DEF LoadingOne
<1>11. ASSUME NEW u \in Tags \ disturbed' PROVE Undisturbed(u)'
  <2>1. Undisturbed(u)
    BY <1>1 DEF NLPInv, OnePredictor
  <2>2. LoadedFirst(u)'
    BY <2>1, <1>2 DEF LoadedFirst
  <2>3. OneReload(u)'
    BY <2>1, <1>1 DEF Undisturbed, OneReload, Reloading, NLP!Origin
  <2>4. OthersStopped(u)'
    BY <2>1, <1>1, <1>2 DEF Undisturbed, OthersStopped, Reloading, NLP!Origin, Served
  <2> QED BY <2>2, <2>3, <2>4 DEF Undisturbed
<1> QED BY <1>3, <1>4, <1>5, <1>10, <1>11 DEF NLPInv, OnePredictor

\* A fresh predictor is new to everybody, and is not retired.
LEMMA FreshIsNew ==
  ASSUME NLPInv, NEW n \in NLP!Predictors, NLP!Fresh(n)
  PROVE  /\ predictor[n] = None /\ n \notin removed /\ loading.predictor # n
         /\ \A t \in Tags, o \in NLP!Origins : Served(t, o) # n
         /\ \A r \in Reloads : reload[r] # None =>
              n \notin {reload[r].new, reload[r].oldpredictor, reload[r].oldlocaldir}
         /\ ~Retired(n)
<1>1. predictor[n] = None /\ n # None
  BY NoneAssumption DEF NLP!Fresh
<1>2. /\ n \notin removed /\ loading.predictor # n
      /\ \A t \in Tags, o \in NLP!Origins : Served(t, o) # n
  BY <1>1 DEF NLPInv, PredictorsMade
<1>3. \A r \in Reloads : reload[r] # None =>
        n \notin {reload[r].new, reload[r].oldpredictor, reload[r].oldlocaldir}
  BY <1>1 DEF NLPInv, PredictorsMade
<1> QED BY <1>1, <1>2, <1>3 DEF Retired, RetiredBy

LEMMA LoadPredictorKeeps ==
  ASSUME NEW t \in Tags, NLPInv, NLP!LoadPredictor(t)
  PROVE  NLPInv'
<1>1. PICK n \in NLP!Predictors :
        /\ NLP!Fresh(n)
        /\ predictor' = NLP!Starting(n, t)
        /\ loading' = [loading EXCEPT !.predictor = n]
  BY DEF NLP!LoadPredictor
<1> DEFINE row == [tag |-> t, st |-> "starting"]
<1>2. /\ predictor' = [predictor EXCEPT ![n] = row] /\ n # None
      /\ t \in loading.trained /\ loading.predictor = None
      /\ UNCHANGED <<trained, model, removed, reload, query, exact, learnt, disturbed>>
  BY <1>1, NoneAssumption DEF NLP!LoadPredictor, NLP!Starting
<1>3. loading'.predictor = n /\ loading'.todo = loading.todo /\ loading'.trained = loading.trained
  BY <1>1 DEF NLPInv, NLP!NTypeOK
<1>4. row \in NLP!PredictorRecords /\ row # None /\ row.tag = t /\ row.st = "starting"
  BY NoneAssumption DEF NLP!PredictorRecords
<1> HIDE DEF row
<1>5. NLP!NTypeOK'
  BY <1>1, <1>2, <1>4 DEF NLPInv, NLP!NTypeOK
<1>6. predictor'[n] = row /\ \A m \in NLP!Predictors : m # n => predictor'[m] = predictor[m]
  BY <1>2 DEF NLPInv, NLP!NTypeOK
<1>7. /\ \A u \in Tags, o \in NLP!Origins : Served(u, o)' = Served(u, o)
      /\ \A u \in Tags : /\ NLP!Origin(u)' = NLP!Origin(u)
                        /\ Served(u, NLP!Origin(u))' = Served(u, NLP!Origin(u))
  BY <1>2 DEF Served, NLP!Origin
<1>8. \A m \in NLP!Predictors : Retired(m)' <=> Retired(m)
  BY <1>1, <1>2, <1>4, <1>6, FreshIsNew DEF Retired, RetiredBy
<1>9. PredictorsMade' /\ ServedApart' /\ ReloadsOwn'
  <2>1. PredictorsMade'
    BY <1>2, <1>3, <1>4, <1>6, <1>7, ServedTyped DEF NLPInv, NLP!NTypeOK, PredictorsMade, NLP!ReloadRecords
  <2>2. ServedApart'
    BY <1>1, <1>3, <1>7, <1>8, ServedTyped, FreshIsNew DEF NLPInv, ServedApart
  <2>3. ReloadsOwn'
    BY <1>1, <1>2, <1>3, <1>7, FreshIsNew DEF NLPInv, ReloadsOwn
  <2> QED BY <2>1, <2>2, <2>3
<1>10. LoadingOne'
  BY <1>2, <1>3, <1>4, <1>6 DEF NLPInv, OnePredictor, LoadingOne
<1>11. ASSUME NEW u \in Tags \ disturbed' PROVE Undisturbed(u)'
  <2>1. Undisturbed(u)
    BY <1>2 DEF NLPInv, OnePredictor
  <2>2. LoadedFirst(u)'
    BY <2>1, <1>2, <1>3 DEF Undisturbed, LoadedFirst, Reloading
  <2>3. OneReload(u)'
    BY <2>1, <1>2, <1>7 DEF Undisturbed, OneReload, Reloading
  <2>4. OthersStopped(u)'
    BY <2>1, <1>2, <1>3, <1>6, <1>7, NoneAssumption DEF Undisturbed, OthersStopped, Reloading
  <2> QED BY <2>2, <2>3, <2>4 DEF Undisturbed
<1> QED BY <1>5, <1>9, <1>10, <1>11 DEF NLPInv, OnePredictor

LEMMA LoadDoneKeeps ==
  ASSUME NEW t \in Tags, NLPInv, NLP!LoadDone(t)
  PROVE  NLPInv'
<1> DEFINE lp == loading.predictor
           row == NLP!ModelInit(t \in loading.trained, lp)
<1>1. /\ t \in loading.todo
      /\ lp # None => predictor[lp].tag = t
      /\ model' = [model EXCEPT ![t]["loaded"] = row]
      /\ loading' = [todo |-> loading.todo \ {t}, trained |-> loading.trained \ {t}, predictor |-> None]
      /\ disturbed' = IF NLP!getModel(t) # None THEN disturbed \cup {t} ELSE disturbed
      /\ UNCHANGED <<trained, predictor, removed, reload, query, exact, learnt>>
  BY DEF NLP!LoadDone
<1>2. /\ loading'.predictor = None /\ loading'.todo = loading.todo \ {t}
      /\ loading'.trained = loading.trained \ {t}
  BY <1>1
<1>3. /\ row \in NLP!ModelRecords /\ row # None /\ row.predictor = lp
      /\ lp \in NLP!Predictors \cup {None} /\ "loaded" \in NLP!Origins
  <2> DEFINE b == t \in loading.trained
  <2>1. lp \in NLP!Predictors \cup {None} /\ b \in BOOLEAN
    BY DEF NLPInv, NLP!NTypeOK
  <2>2. row = [trained |-> b, predictor |-> lp]
    BY DEF NLP!ModelInit
  <2> HIDE DEF row, lp, b
  <2> QED BY <2>1, <2>2, NoneAssumption DEF NLP!ModelRecords, NLP!Origins
<1> HIDE DEF row, lp
<1>4. NLP!NTypeOK'
  BY <1>1, <1>3 DEF NLPInv, NLP!NTypeOK
<1>5. \A u \in Tags, o \in NLP!Origins :
        model'[u][o] = IF u = t /\ o = "loaded" THEN row ELSE model[u][o]
  BY <1>1, <1>3 DEF NLPInv, NLP!NTypeOK
<1>6. \A u \in Tags, o \in NLP!Origins :
        Served(u, o)' = IF u = t /\ o = "loaded" THEN lp ELSE Served(u, o)
  BY <1>3, <1>5 DEF Served
<1>7. /\ \A u \in Tags : u # t => /\ NLP!Origin(u)' = NLP!Origin(u)
                                  /\ Served(u, NLP!Origin(u))' = Served(u, NLP!Origin(u))
      /\ NLP!Origin(t)' = "loaded" /\ Served(t, NLP!Origin(t))' = lp
  BY <1>3, <1>5 DEF Served, NLP!Origin, NLP!Origins
<1>12. LoadedFirst(t) => Served(t, NLP!Origin(t)) = None
  BY <1>1 DEF LoadedFirst, Served, NLP!Origin, NLP!Origins
<1>8. \A m : Retired(m)' <=> Retired(m)
  BY <1>1 DEF Retired, RetiredBy
<1>9. PredictorsMade' /\ ServedApart' /\ ReloadsOwn'
  <2>1. PredictorsMade'
    BY <1>1, <1>2, <1>6 DEF NLPInv, PredictorsMade, lp
  <2>2. ServedApart'
    <3>1. ASSUME NEW u \in Tags, NEW v \in Tags, NEW o \in NLP!Origins, NEW p \in NLP!Origins,
                 Served(u, o)' # None, Served(u, o)' = Served(v, p)'
          PROVE  u = v /\ o = p
      BY <3>1, <1>6 DEF NLPInv, ServedApart, lp
    <3>2. ASSUME NEW u \in Tags, NEW o \in NLP!Origins, Served(u, o)' # None
          PROVE  ~Retired(Served(u, o)')
      BY <3>2, <1>6 DEF NLPInv, ServedApart, lp
    <3> QED BY <3>1, <3>2, <1>2, <1>8 DEF ServedApart
  <2>3. ReloadsOwn'
    <3>1. ASSUME NEW r \in Reloads, reload[r] # None
          PROVE  model'[reload[r].tag][reload[r].this] # None
      BY <3>1, <1>3, <1>5 DEF NLPInv, NLP!NTypeOK, ReloadsOwn, NLP!ReloadRecords
    <3> QED BY <3>1, <1>1, <1>2, <1>6 DEF NLPInv, ReloadsOwn, lp
  <2> QED BY <2>1, <2>2, <2>3
<1>10. LoadingOne'
  BY <1>2 DEF NLPInv, OnePredictor, LoadingOne
<1>11. ASSUME NEW u \in Tags \ disturbed' PROVE Undisturbed(u)'
  <2>1. Undisturbed(u)
    BY <1>1 DEF NLPInv, OnePredictor
  <2>2. LoadedFirst(u)'
    BY <2>1, <1>1, <1>2, <1>5 DEF Undisturbed, LoadedFirst, Reloading
  <2>3. OneReload(u)'
    BY <2>1, <1>1, <1>7 DEF Undisturbed, OneReload, LoadedFirst, Reloading
  <2>4. OthersStopped(u)'
    BY <2>1, <1>1, <1>2, <1>7, <1>12, NoneAssumption DEF Undisturbed, LoadedFirst, OthersStopped, Reloading, lp
  <2> QED BY <2>2, <2>3, <2>4 DEF Undisturbed
<1> QED BY <1>4, <1>9, <1>10, <1>11 DEF NLPInv, OnePredictor

LEMMA ReloadBeginKeeps ==
  ASSUME NEW r \in Reloads, NEW t \in Tags, NLPInv, NLP!ReloadBegin(r, t)
  PROVE  NLPInv'
<1> DEFINE o == NLP!Origin(t)
           old == Served(t, o)
           row == NLP!ModelInit(trained[t], IF NLP!getModel(t) = None THEN None ELSE NLP!getModel(t).predictor)
           handler == [tag |-> t, this |-> o, new |-> None, oldpredictor |-> None, oldlocaldir |-> old]
<1>1. /\ o \in NLP!Origins /\ NLP!getModel(t) = model[t][o]
      /\ old \in NLP!Predictors \cup {None}
  BY ServedTyped DEF NLP!Origin, NLP!Origins, NLP!getModel, NLPInv
<1>2. row = [trained |-> trained[t], predictor |-> old]
  BY <1>1 DEF NLP!ModelInit, Served
<1>3. /\ row \in NLP!ModelRecords /\ row # None /\ row.predictor = old
  <2>1. trained[t] \in BOOLEAN
    BY DEF NLPInv, NLP!NTypeOK
  <2> QED BY <1>1, <1>2, <2>1, NoneAssumption DEF NLP!ModelRecords
<1>4. /\ reload[r] = None
      /\ model' = [model EXCEPT ![t][o] = row]
      /\ reload' = [reload EXCEPT ![r] = handler] \/ reload' = reload
      /\ disturbed' = IF NLP!Busy(t) THEN disturbed \cup {t} ELSE disturbed
      /\ UNCHANGED <<trained, predictor, removed, loading, query, exact, learnt>>
  BY <1>3 DEF NLP!ReloadBegin
<1>5. /\ handler \in NLP!ReloadRecords /\ handler # None
      /\ handler.tag = t /\ handler.this = o /\ handler.new = None
      /\ handler.oldpredictor = None /\ handler.oldlocaldir = old
  BY <1>1, NoneAssumption DEF NLP!ReloadRecords
<1> HIDE DEF row, handler
<1>6. NLP!NTypeOK'
  BY <1>1, <1>3, <1>4, <1>5 DEF NLPInv, NLP!NTypeOK
<1>7. \A u \in Tags, p \in NLP!Origins :
        model'[u][p] = IF u = t /\ p = o THEN row ELSE model[u][p]
  BY <1>1, <1>4 DEF NLPInv, NLP!NTypeOK
<1>8. \A s \in Reloads :
        \/ reload'[s] = reload[s]
        \/ s = r /\ reload[s] = None /\ reload'[s] = handler
  BY <1>4 DEF NLPInv, NLP!NTypeOK
<1>12. /\ \A u \in Tags, p \in NLP!Origins : Served(u, p)' = Served(u, p)
       /\ \A u \in Tags : /\ NLP!Origin(u)' = NLP!Origin(u)
                         /\ Served(u, NLP!Origin(u))' = Served(u, NLP!Origin(u))
  <2>1. \A u \in Tags, p \in NLP!Origins : Served(u, p)' = Served(u, p)
    BY <1>3, <1>7 DEF Served
  <2>2. \A u \in Tags, p \in NLP!Origins : model[u][p] # None => model'[u][p] # None
    BY <1>3, <1>7
  <2>3. \A u \in Tags : NLP!Origin(u)' = NLP!Origin(u)
    <3>1. \A u \in Tags : u # t => NLP!Origin(u)' = NLP!Origin(u)
      BY <1>7 DEF NLP!Origin, NLP!Origins
    <3>2. NLP!Origin(t)' = NLP!Origin(t)
      BY <1>3, <1>7 DEF NLP!Origin, NLP!Origins
    <3> QED BY <3>1, <3>2
  <2>4. \A u \in Tags : NLP!Origin(u) \in NLP!Origins
    BY DEF NLP!Origin, NLP!Origins
  <2>5. \A u \in Tags : \A p \in NLP!Origins :
          p = NLP!Origin(u)' => Served(u, NLP!Origin(u))' = Served(u, p)'
    BY DEF Served
  <2> QED BY <2>1, <2>3, <2>4, <2>5
<1>13. \A m : Retired(m)' <=> Retired(m)
  BY <1>4, <1>5, <1>8 DEF Retired, RetiredBy
<1>9. PredictorsMade' /\ ServedApart' /\ ReloadsOwn'
  <2>1. PredictorsMade'
    BY <1>1, <1>4, <1>5, <1>8, <1>12 DEF NLPInv, PredictorsMade
  <2>2. ServedApart'
    BY <1>4, <1>12, <1>13 DEF NLPInv, ServedApart
  <2>3. ReloadsOwn'
    <3>1. ASSUME NEW s \in Reloads, reload'[s] # None
          PROVE  model'[reload'[s].tag][reload'[s].this] # None
      BY <3>1, <1>1, <1>3, <1>5, <1>7, <1>8 DEF NLPInv, NLP!NTypeOK, ReloadsOwn, NLP!ReloadRecords
    <3>2. ASSUME NEW s \in Reloads, reload'[s] # None
          PROVE  /\ reload'[s].new = None => reload'[s].oldpredictor = None
                 /\ reload'[s].oldlocaldir # None =>
                      /\ reload'[s].oldlocaldir # loading.predictor
                      /\ \A u \in Tags, p \in NLP!Origins :
                           reload'[s].new = None /\ Served(u, p) = reload'[s].oldlocaldir =>
                             u = reload'[s].tag /\ p = reload'[s].this
      <4>1. CASE reload'[s] = reload[s]
        BY <4>1, <3>2 DEF NLPInv, ReloadsOwn
      <4>2. CASE reload'[s] = handler
        BY <4>2, <1>1, <1>5 DEF NLPInv, ServedApart
      <4> QED BY <4>1, <4>2, <1>8
    <3> QED BY <3>1, <3>2, <1>4, <1>12 DEF ReloadsOwn
  <2> QED BY <2>1, <2>2, <2>3
<1> HIDE DEF o, old
<1>14. \A u \in Tags \ disturbed' : u = t =>
         t \notin loading.todo /\ \A s \in Reloads : ~Reloading(s, t)
  BY <1>4 DEF NLP!Busy, Reloading
<1>15. \A s \in Reloads, u \in Tags :
         Reloading(s, u)' <=> Reloading(s, u) \/ (s = r /\ u = t /\ reload'[s] = handler)
  BY <1>4, <1>5, <1>8 DEF Reloading
<1>10. LoadingOne'
  BY <1>4 DEF NLPInv, OnePredictor, LoadingOne
<1>11. ASSUME NEW u \in Tags \ disturbed' PROVE Undisturbed(u)'
  <2>1. Undisturbed(u)
    BY <1>4 DEF NLPInv, OnePredictor
  <2>2. LoadedFirst(u)'
    BY <2>1, <1>4, <1>7, <1>14, <1>15 DEF Undisturbed, LoadedFirst
  <2>3. OneReload(u)'
    BY <2>1, <1>4, <1>5, <1>8, <1>12, <1>14, <1>15 DEF Undisturbed, OneReload, Reloading, o
  <2>4. OthersStopped(u)'
    BY <2>1, <1>4, <1>5, <1>8, <1>12 DEF Undisturbed, OthersStopped, Reloading
  <2> QED BY <2>2, <2>3, <2>4 DEF Undisturbed
<1> QED BY <1>6, <1>9, <1>10, <1>11 DEF NLPInv, OnePredictor

\* What a reload under way refers to.
LEMMA ReloadTyped ==
  ASSUME NLPInv, NEW r \in Reloads, reload[r] # None
  PROVE  /\ reload[r] \in NLP!ReloadRecords
         /\ reload[r].tag \in Tags /\ reload[r].this \in NLP!Origins
         /\ {reload[r].new, reload[r].oldpredictor, reload[r].oldlocaldir} \subseteq NLP!Predictors \cup {None}
         /\ model[reload[r].tag][reload[r].this] \in NLP!ModelRecords
         /\ model[reload[r].tag][reload[r].this].predictor = Served(reload[r].tag, reload[r].this)
<1>1. reload[r] \in NLP!ReloadRecords
  BY DEF NLPInv, NLP!NTypeOK
<1>2. /\ reload[r].tag \in Tags /\ reload[r].this \in NLP!Origins
      /\ {reload[r].new, reload[r].oldpredictor, reload[r].oldlocaldir} \subseteq NLP!Predictors \cup {None}
  BY <1>1 DEF NLP!ReloadRecords
<1>3. model[reload[r].tag][reload[r].this] # None
  BY DEF NLPInv, ReloadsOwn
<1> QED BY <1>1, <1>2, <1>3 DEF NLPInv, NLP!NTypeOK, Served

LEMMA ReloadDownloadedKeeps ==
  ASSUME NEW r \in Reloads, NLPInv, NLP!ReloadDownloaded(r)
  PROVE  NLPInv'
<1> DEFINE t == reload[r].tag
           this == reload[r].this
           old == Served(t, this)
           olddir == reload[r].oldlocaldir
<1>1. PICK n \in NLP!Predictors :
        /\ NLP!Fresh(n)
        /\ predictor' = NLP!Starting(n, t)
        /\ model' = [model EXCEPT ![t][this] = [@ EXCEPT !.predictor = n]]
        /\ reload' = [reload EXCEPT ![r] = [@ EXCEPT !.new = n, !.oldpredictor = model[t][this].predictor]]
  BY DEF NLP!ReloadDownloaded
<1> DEFINE made == [tag |-> t, st |-> "starting"]
           row == [model[t][this] EXCEPT !.predictor = n]
           handler == [reload[r] EXCEPT !.new = n, !.oldpredictor = model[t][this].predictor]
<1>2. /\ reload[r] # None /\ reload[r].new = None /\ t \in Tags /\ this \in NLP!Origins /\ n # None
      /\ old \in NLP!Predictors \cup {None} /\ olddir \in NLP!Predictors \cup {None}
      /\ UNCHANGED <<trained, removed, loading, query, exact, learnt, disturbed>>
  BY ReloadTyped, NoneAssumption, ServedTyped DEF NLP!ReloadDownloaded, NLPInv
<1>3. /\ made \in NLP!PredictorRecords /\ made # None /\ made.tag = t /\ made.st = "starting"
      /\ row \in NLP!ModelRecords /\ row # None /\ row.predictor = n
  BY <1>2, ReloadTyped, NoneAssumption DEF NLP!PredictorRecords, NLP!ModelRecords
<1>4. /\ handler \in NLP!ReloadRecords /\ handler # None
      /\ handler.tag = t /\ handler.this = this /\ handler.new = n
      /\ handler.oldpredictor = old /\ handler.oldlocaldir = olddir
  BY <1>2, ReloadTyped, NoneAssumption DEF NLP!ReloadRecords
<1>5. /\ predictor' = [predictor EXCEPT ![n] = made]
      /\ model' = [model EXCEPT ![t][this] = row]
      /\ reload' = [reload EXCEPT ![r] = handler]
  BY <1>1 DEF NLP!Starting
<1> HIDE DEF made, row, handler
<1>6. NLP!NTypeOK'
  <2>1. /\ predictor' \in [NLP!Predictors -> NLP!PredictorRecords \cup {None}]
        /\ reload' \in [Reloads -> NLP!ReloadRecords \cup {None}]
    BY <1>3, <1>4, <1>5 DEF NLPInv, NLP!NTypeOK
  <2>2. model' \in [Tags -> [NLP!Origins -> NLP!ModelRecords \cup {None}]]
    BY <1>2, <1>3, <1>5 DEF NLPInv, NLP!NTypeOK
  <2> QED BY <2>1, <2>2, <1>2 DEF NLPInv, NLP!NTypeOK
<1>7. /\ \A u \in Tags, o \in NLP!Origins :
           model'[u][o] = IF u = t /\ o = this THEN row ELSE model[u][o]
      /\ predictor'[n] = made /\ \A m \in NLP!Predictors : m # n => predictor'[m] = predictor[m]
      /\ reload'[r] = handler /\ \A s \in Reloads : s # r => reload'[s] = reload[s]
  BY <1>2, <1>5 DEF NLPInv, NLP!NTypeOK
<1>8. /\ model[t][this] # None /\ reload[r].oldpredictor = None
      /\ old # None => ~Retired(old) /\ old # loading.predictor
      /\ olddir # None => olddir # loading.predictor
      /\ \A u \in Tags, o \in NLP!Origins :
           /\ Served(u, o) # None /\ Served(u, o) = old => u = t /\ o = this
           /\ Served(u, o) # None /\ Served(u, o) = olddir => u = t /\ o = this
  BY <1>2 DEF NLPInv, ReloadsOwn, ServedApart
<1> HIDE DEF t, this, old, olddir
<1>12. \A u \in Tags, o \in NLP!Origins :
         Served(u, o)' = IF u = t /\ o = this THEN n ELSE Served(u, o)
  BY <1>3, <1>7 DEF Served
<1>13. /\ \A u \in Tags : NLP!Origin(u)' = NLP!Origin(u) /\ NLP!Origin(u) \in NLP!Origins
       /\ \A u \in Tags :
            Served(u, NLP!Origin(u))' =
              IF u = t /\ NLP!Origin(u) = this THEN n ELSE Served(u, NLP!Origin(u))
  <2>1. \A u \in Tags, o \in NLP!Origins : (model[u][o] # None)' <=> model[u][o] # None
    BY <1>3, <1>7, <1>8
  <2>2. \A u \in Tags : NLP!Origin(u)' = NLP!Origin(u) /\ NLP!Origin(u) \in NLP!Origins
    BY <2>1 DEF NLP!Origin, NLP!Origins
  <2>3. \A u \in Tags : \A p \in NLP!Origins :
          p = NLP!Origin(u)' => Served(u, NLP!Origin(u))' = Served(u, p)'
    BY DEF Served
  <2> QED BY <2>2, <2>3, <1>12
<1>14. \A m \in NLP!Predictors :
         Retired(m)' => Retired(m) \/ m = old \/ m = olddir
  BY <1>2, <1>3, <1>4, <1>7 DEF Retired, RetiredBy
<1>15. \A m \in NLP!Predictors : m = n => ~Retired(m)'
  <2>1. old # n /\ olddir # n
    BY <1>1, <1>2, FreshIsNew DEF old, olddir
  <2> QED BY <2>1, <1>1, <1>14, FreshIsNew
<1>9. PredictorsMade' /\ ServedApart' /\ ReloadsOwn'
  <2>1. PredictorsMade'
    <3>1. \A u \in Tags, o \in NLP!Origins : Served(u, o)' # None => predictor'[Served(u, o)'] # None
      BY <1>3, <1>7, <1>12, ServedTyped DEF NLPInv, PredictorsMade
    <3>2. old # None => predictor'[old] # None
      BY <1>2, <1>3, <1>7, ServedTyped DEF NLPInv, PredictorsMade, old
    <3>3. \A s \in Reloads : reload'[s] # None =>
            \A m \in {reload'[s].new, reload'[s].oldpredictor, reload'[s].oldlocaldir} \ {None} :
              predictor'[m] # None
      <4>1. ASSUME NEW s \in Reloads, s # r, reload[s] # None,
                   NEW m \in {reload[s].new, reload[s].oldpredictor, reload[s].oldlocaldir} \ {None}
            PROVE  predictor'[m] # None
        BY <4>1, <1>3, <1>7, ReloadTyped DEF NLPInv, PredictorsMade
      <4>2. ASSUME NEW m \in {n, old, olddir} \ {None} PROVE predictor'[m] # None
        BY <3>2, <1>2, <1>3, <1>7 DEF NLPInv, PredictorsMade, olddir
      <4> QED BY <4>1, <4>2, <1>4, <1>7
    <3>4. /\ loading'.predictor # None => predictor'[loading'.predictor] # None
          /\ \A m \in removed' : predictor'[m] # None
      BY <1>2, <1>3, <1>7 DEF NLPInv, NLP!NTypeOK, PredictorsMade
    <3> QED BY <3>1, <3>3, <3>4 DEF PredictorsMade
  <2>2. ServedApart'
    <3>1. ASSUME NEW u \in Tags, NEW v \in Tags, NEW o \in NLP!Origins, NEW p \in NLP!Origins,
                 Served(u, o)' # None, Served(u, o)' = Served(v, p)'
          PROVE  u = v /\ o = p
      BY <3>1, <1>1, <1>12, FreshIsNew DEF NLPInv, ServedApart
    <3>2. ASSUME NEW u \in Tags, NEW o \in NLP!Origins, Served(u, o)' # None
          PROVE  Served(u, o)' # loading.predictor
      BY <3>2, <1>1, <1>12, FreshIsNew DEF NLPInv, ServedApart
    <3>3. ASSUME NEW u \in Tags, NEW o \in NLP!Origins, NEW m \in NLP!Predictors,
                 Served(u, o)' = m
          PROVE  ~Retired(m)'
      <4>1. CASE u = t /\ o = this
        BY <4>1, <3>3, <1>12, <1>15
      <4>2. CASE ~(u = t /\ o = this)
        <5>1. Served(u, o) = m /\ m # None
          BY <4>2, <3>3, <1>12, NoneAssumption
        <5>2. ~Retired(m)
          BY <5>1 DEF NLPInv, ServedApart
        <5>3. m # old /\ m # olddir
          BY <4>2, <5>1, <1>8
        <5> QED BY <5>2, <5>3, <1>14
      <4> QED BY <4>1, <4>2
    <3>4. ASSUME NEW m \in NLP!Predictors, m = loading.predictor
          PROVE  ~Retired(m)'
      <4>1. m # None /\ m # old /\ m # olddir
        BY <3>4, <1>8, NoneAssumption
      <4>2. ~Retired(m)
        BY <3>4, <4>1 DEF NLPInv, ServedApart
      <4> QED BY <4>1, <4>2, <1>14
    <3>5. \A u \in Tags, o \in NLP!Origins : Served(u, o)' # None => Served(u, o)' \in NLP!Predictors
      BY <1>6, ServedTyped, <1>12 DEF NLPInv
    <3>6. loading.predictor # None => loading.predictor \in NLP!Predictors
      BY DEF NLPInv, NLP!NTypeOK
    <3>7. \A u \in Tags, o \in NLP!Origins : \A m :
            m = Served(u, o)' => (Retired(Served(u, o))' <=> Retired(m)')
      BY DEF Retired, RetiredBy
    <3>8. \A m : m = loading'.predictor => (Retired(loading.predictor)' <=> Retired(m)')
      BY DEF Retired, RetiredBy
    <3> QED BY <3>1, <3>2, <3>3, <3>4, <3>5, <3>6, <3>7, <3>8, <1>2 DEF ServedApart
  <2>3. ReloadsOwn'
    <3>1. ASSUME NEW s \in Reloads, reload'[s] # None
          PROVE  model'[reload'[s].tag][reload'[s].this] # None
      <4>1. CASE s = r
        BY <4>1, <1>2, <1>3, <1>4, <1>7
      <4>2. CASE s # r
        BY <4>2, <3>1, <1>3, <1>7, ReloadTyped DEF NLPInv, ReloadsOwn
      <4> QED BY <4>1, <4>2
    <3>2. ASSUME NEW s \in Reloads, s # r, reload[s] # None
          PROVE  /\ reload[s].new = None => reload[s].oldpredictor = None
                 /\ reload[s].oldlocaldir # None =>
                      /\ reload[s].oldlocaldir # loading.predictor
                      /\ \A u \in Tags, o \in NLP!Origins :
                           reload[s].new = None /\ Served(u, o)' = reload[s].oldlocaldir =>
                             u = reload[s].tag /\ o = reload[s].this
      <4>1. reload[s].oldlocaldir # n
        BY <3>2, <1>1, FreshIsNew
      <4> QED BY <3>2, <4>1, <1>12 DEF NLPInv, ReloadsOwn
    <3> QED BY <3>1, <3>2, <1>2, <1>4, <1>7, <1>8 DEF ReloadsOwn
  <2> QED BY <2>1, <2>2, <2>3
<1>16. \A s \in Reloads, u \in Tags : Reloading(s, u)' <=> Reloading(s, u)
  BY <1>2, <1>4, <1>7 DEF Reloading, t
<1>10. LoadingOne'
  BY <1>2, <1>7, <1>1, FreshIsNew DEF NLPInv, NLP!NTypeOK, OnePredictor, LoadingOne
<1>11. ASSUME NEW u \in Tags \ disturbed' PROVE Undisturbed(u)'
  <2>1. Undisturbed(u)
    BY <1>2 DEF NLPInv, OnePredictor
  <2>2. LoadedFirst(u)'
    BY <2>1, <1>2, <1>7, <1>16 DEF Undisturbed, LoadedFirst, Reloading, t
  <2>3. OneReload(u)'
    BY <2>1, <1>4, <1>7, <1>13, <1>16 DEF Undisturbed, OneReload, Reloading, this
  <2>4. OthersStopped(u)'
    BY <2>1, <1>2, <1>3, <1>4, <1>7, <1>13 DEF Undisturbed, OneReload, OthersStopped, Reloading, t, this, old
  <2> QED BY <2>2, <2>3, <2>4 DEF Undisturbed
<1> QED BY <1>6, <1>9, <1>10, <1>11 DEF NLPInv, OnePredictor

LEMMA ReloadFinishKeeps ==
  ASSUME NEW r \in Reloads, NLPInv, NLP!ReloadFinish(r)
  PROVE  NLPInv'
<1> DEFINE old == reload[r].oldpredictor
           olddir == reload[r].oldlocaldir
           row == [predictor[old] EXCEPT !.st = "stopped"]
<1>1. /\ reload[r] # None /\ reload[r].new # None
      /\ old \in NLP!Predictors \cup {None} /\ olddir \in NLP!Predictors \cup {None}
      /\ old # None => predictor[old] \in NLP!PredictorRecords
      /\ olddir # None => predictor[olddir] # None
      /\ old # None => RetiredBy(r, old)
      /\ olddir # None => RetiredBy(r, olddir)
  BY ReloadTyped DEF NLP!ReloadFinish, NLPInv, NLP!NTypeOK, PredictorsMade, RetiredBy
<1>2. /\ predictor' = IF old # None THEN [predictor EXCEPT ![old] = row] ELSE predictor
      /\ removed' = IF olddir # None THEN removed \cup {olddir} ELSE removed
      /\ reload' = [reload EXCEPT ![r] = None]
      /\ UNCHANGED <<trained, model, loading, query, exact, learnt, disturbed>>
  BY DEF NLP!ReloadFinish, NLP!Becomes
<1>3. old # None => row \in NLP!PredictorRecords /\ row # None /\ row.tag = predictor[old].tag /\ row.st = "stopped"
  BY <1>1, NoneAssumption DEF NLP!PredictorRecords
<1> HIDE DEF old, olddir, row
<1>4. NLP!NTypeOK'
  BY <1>1, <1>2, <1>3 DEF NLPInv, NLP!NTypeOK
<1>5. /\ \A m \in NLP!Predictors :
           \/ predictor'[m] = predictor[m]
           \/ m = old /\ m # None /\ predictor'[m] = row
      /\ old # None => predictor'[old] = row
      /\ reload'[r] = None /\ \A s \in Reloads : s # r => reload'[s] = reload[s]
  BY <1>1, <1>2, NoneAssumption DEF NLPInv, NLP!NTypeOK
<1>6. /\ \A u \in Tags, o \in NLP!Origins : Served(u, o)' = Served(u, o)
      /\ \A u \in Tags : /\ NLP!Origin(u)' = NLP!Origin(u)
                        /\ Served(u, NLP!Origin(u))' = Served(u, NLP!Origin(u))
  BY <1>2 DEF Served, NLP!Origin
<1>7. \A m \in NLP!Predictors :
        /\ predictor[m] # None => predictor'[m] # None
        /\ Retired(m)' => Retired(m)
  BY <1>1, <1>2, <1>3, <1>5, NoneAssumption DEF Retired, RetiredBy
<1>8. PredictorsMade' /\ ServedApart' /\ ReloadsOwn'
  <2>1. PredictorsMade'
    <3>1. \A s \in Reloads : reload'[s] # None =>
            \A m \in {reload[s].new, reload[s].oldpredictor, reload[s].oldlocaldir} \ {None} :
              predictor'[m] # None
      BY <1>5, <1>7, ReloadTyped DEF NLPInv, PredictorsMade
    <3>2. \A s \in Reloads : reload'[s] # None => reload'[s] = reload[s]
      BY <1>5
    <3>3. \A m \in removed' : predictor'[m] # None
      BY <1>1, <1>2, <1>5, <1>7 DEF NLPInv, NLP!NTypeOK, PredictorsMade
    <3>4. /\ \A u \in Tags, o \in NLP!Origins : Served(u, o) # None => predictor'[Served(u, o)] # None
          /\ loading'.predictor # None => predictor'[loading'.predictor] # None
      BY <1>2, <1>7, ServedTyped DEF NLPInv, NLP!NTypeOK, PredictorsMade
    <3> QED BY <3>1, <3>2, <3>3, <3>4, <1>6 DEF PredictorsMade
  <2>2. ServedApart'
    BY <1>2, <1>6, <1>7, ServedTyped DEF NLPInv, NLP!NTypeOK, ServedApart
  <2>3. ReloadsOwn'
    <3>1. \A s \in Reloads : reload'[s] # None => reload[s] # None /\ reload'[s] = reload[s]
      BY <1>5
    <3> QED BY <3>1, <1>2, <1>6 DEF NLPInv, ReloadsOwn
  <2> QED BY <2>1, <2>2, <2>3
<1>9. \A s \in Reloads, u \in Tags : Reloading(s, u)' => s # r /\ Reloading(s, u) /\ reload'[s] = reload[s]
  BY <1>5 DEF Reloading
<1>10. LoadingOne'
  BY <1>2, <1>3, <1>5 DEF NLPInv, NLP!NTypeOK, OnePredictor, LoadingOne, PredictorsMade
<1>11. ASSUME NEW u \in Tags \ disturbed' PROVE Undisturbed(u)'
  <2>1. Undisturbed(u)
    BY <1>2 DEF NLPInv, OnePredictor
  <2>2. LoadedFirst(u)'
    BY <2>1, <1>2, <1>9 DEF Undisturbed, LoadedFirst
  <2>3. OneReload(u)'
    BY <2>1, <1>6, <1>9 DEF Undisturbed, OneReload
  <2>4. OthersStopped(u)'
    BY <2>1, <1>1, <1>2, <1>3, <1>5, <1>6, NoneAssumption DEF Undisturbed, OthersStopped, Reloading, old
  <2> QED BY <2>2, <2>3, <2>4 DEF Undisturbed
<1> QED BY <1>4, <1>8, <1>10, <1>11 DEF NLPInv, OnePredictor

LEMMA ReloadFailsKeeps ==
  ASSUME NEW r \in Reloads, NLPInv, NLP!ReloadFails(r)
  PROVE  NLPInv'
<1> DEFINE new == reload[r].new
           row == [predictor[new] EXCEPT !.st = "failed"]
<1>1. /\ reload[r] # None /\ reload[r].tag \in Tags
      /\ new \in NLP!Predictors \cup {None}
      /\ new # None => predictor[new] \in NLP!PredictorRecords /\ predictor[new].st = "starting"
  BY ReloadTyped DEF NLP!ReloadFails, NLPInv, NLP!NTypeOK, PredictorsMade
<1>2. /\ predictor' = IF new # None THEN [predictor EXCEPT ![new] = row] ELSE predictor
      /\ disturbed' = IF new # None THEN disturbed \cup {reload[r].tag} ELSE disturbed
      /\ reload' = [reload EXCEPT ![r] = None]
      /\ UNCHANGED <<trained, model, removed, loading, query, exact, learnt>>
  BY DEF NLP!ReloadFails, NLP!Becomes
<1>3. new # None => row \in NLP!PredictorRecords /\ row # None /\ row.tag = predictor[new].tag /\ row.st = "failed"
  BY <1>1, NoneAssumption DEF NLP!PredictorRecords
<1> HIDE DEF new, row
<1>4. NLP!NTypeOK'
  BY <1>1, <1>2, <1>3 DEF NLPInv, NLP!NTypeOK
<1>5. /\ reload'[r] = None /\ \A s \in Reloads : s # r => reload'[s] = reload[s]
      /\ \A m \in NLP!Predictors :
           \/ predictor'[m] = predictor[m]
           \/ m = new /\ m # None /\ predictor'[m] = row
  BY <1>1, <1>2, NoneAssumption DEF NLPInv, NLP!NTypeOK
<1>6. /\ \A u \in Tags, o \in NLP!Origins : Served(u, o)' = Served(u, o)
      /\ \A u \in Tags : /\ NLP!Origin(u)' = NLP!Origin(u)
                        /\ Served(u, NLP!Origin(u))' = Served(u, NLP!Origin(u))
  BY <1>2 DEF Served, NLP!Origin
<1>7. \A m \in NLP!Predictors :
        /\ (predictor[m] # None)' <=> predictor[m] # None
        /\ predictor[m] # None =>
             /\ predictor'[m].tag = predictor[m].tag
             /\ predictor'[m].st = "stopped" <=> predictor[m].st = "stopped"
        /\ Retired(m)' => Retired(m)
  <2>1. \A m \in NLP!Predictors :
          /\ (predictor[m] # None)' <=> predictor[m] # None
          /\ predictor[m] # None =>
               /\ predictor'[m].tag = predictor[m].tag
               /\ predictor'[m].st = "stopped" <=> predictor[m].st = "stopped"
    BY <1>1, <1>3, <1>5, NoneAssumption
  <2> QED BY <2>1, <1>2, <1>5 DEF Retired, RetiredBy
<1>8. PredictorsMade' /\ ServedApart' /\ ReloadsOwn'
  <2>1. PredictorsMade'
    <3>1. \A s \in Reloads : reload'[s] # None =>
            \A m \in {reload[s].new, reload[s].oldpredictor, reload[s].oldlocaldir} \ {None} :
              predictor'[m] # None
      BY <1>5, <1>7, ReloadTyped DEF NLPInv, PredictorsMade
    <3>2. \A s \in Reloads : reload'[s] # None => reload'[s] = reload[s]
      BY <1>5
    <3>3. /\ \A u \in Tags, o \in NLP!Origins : Served(u, o) # None => predictor'[Served(u, o)] # None
          /\ loading'.predictor # None => predictor'[loading'.predictor] # None
          /\ \A m \in removed' : predictor'[m] # None
      BY <1>2, <1>7, ServedTyped DEF NLPInv, NLP!NTypeOK, PredictorsMade
    <3> QED BY <3>1, <3>2, <3>3, <1>6 DEF PredictorsMade
  <2>2. ServedApart'
    BY <1>2, <1>6, <1>7, ServedTyped DEF NLPInv, NLP!NTypeOK, ServedApart
  <2>3. ReloadsOwn'
    <3>1. \A s \in Reloads : reload'[s] # None => reload[s] # None /\ reload'[s] = reload[s]
      BY <1>5
    <3> QED BY <3>1, <1>2, <1>6 DEF NLPInv, ReloadsOwn
  <2> QED BY <2>1, <2>2, <2>3
<1>9. \A s \in Reloads, u \in Tags : Reloading(s, u)' => s # r /\ Reloading(s, u) /\ reload'[s] = reload[s]
  BY <1>5 DEF Reloading
<1>10. LoadingOne'
  BY <1>2, <1>7 DEF NLPInv, NLP!NTypeOK, OnePredictor, LoadingOne, PredictorsMade
<1>11. ASSUME NEW u \in Tags \ disturbed' PROVE Undisturbed(u)'
  <2>1. Undisturbed(u)
    BY <1>2 DEF NLPInv, OnePredictor
  <2>2. LoadedFirst(u)'
    BY <2>1, <1>2, <1>9 DEF Undisturbed, LoadedFirst
  <2>3. OneReload(u)'
    BY <2>1, <1>6, <1>9 DEF Undisturbed, OneReload
  <2>4. OthersStopped(u)'
    BY <2>1, <1>1, <1>2, <1>5, <1>6, <1>7 DEF Undisturbed, OthersStopped, Reloading, new
  <2> QED BY <2>2, <2>3, <2>4 DEF Undisturbed
<1> QED BY <1>4, <1>8, <1>10, <1>11 DEF NLPInv, OnePredictor

LEMMA NLPNext ==
  NLPInv /\ NLP!NNext => NLPInv'
BY TrainKeeps, LoadPredictorKeeps, LoadDoneKeeps, LoadFailsKeeps, PredictorStartedKeeps,
   ReloadBeginKeeps, ReloadDownloadedKeeps, ReloadFinishKeeps, ReloadFailsKeeps,
   AskKeeps, AnswerKeeps, LearnKeeps, ReloadExactKeeps DEF NLP!NNext

LEMMA NLPIdle ==
  NLPInv /\ UNCHANGED nlpVars => NLPInv'
<1> SUFFICES ASSUME NLPInv, UNCHANGED nlpVars PROVE NLPInv'
  OBVIOUS
<1>1. NLP!NTypeOK'
  BY DEF NLPInv, NLP!NTypeOK, nlpVars
<1> QED BY <1>1, Quiet DEF nlpVars

LEMMA NLPSafe ==
  NLPInv => NLP!PredictorUsable /\ NLP!NoLeakedPredictor
<1> SUFFICES ASSUME NLPInv PROVE NLP!PredictorUsable /\ NLP!NoLeakedPredictor
  OBVIOUS
<1>0. \A t \in Tags : NLP!Origin(t) \in NLP!Origins
  BY DEF NLP!Origin, NLP!Origins
<1>1. NLP!PredictorUsable
  <2> SUFFICES ASSUME NEW t \in Tags, NLP!getModel(t) # None, NLP!getModel(t).predictor # None
               PROVE  LET n == NLP!getModel(t).predictor IN predictor[n].st # "stopped" /\ n \notin removed
    BY DEF NLP!PredictorUsable
  <2>1. PICK n : n = Served(t, NLP!Origin(t)) /\ n = NLP!getModel(t).predictor
    BY ModelThere
  <2>2. predictor[n] # None /\ ~Retired(n)
    <3>1. \A m : m = Served(t, NLP!Origin(t)) => (Retired(Served(t, NLP!Origin(t))) <=> Retired(m))
      OBVIOUS
    <3> QED BY <1>0, <2>1, <3>1 DEF NLPInv, PredictorsMade, ServedApart
  <2> QED BY <2>1, <2>2 DEF Retired
<1>2. NLP!NoLeakedPredictor
  <2> SUFFICES ASSUME NEW t \in Tags \ disturbed, ~NLP!Busy(t), NEW n \in NLP!Predictors,
                      predictor[n] # None, predictor[n].tag = t, predictor[n].st # "stopped"
               PROVE  NLP!getModel(t) # None /\ NLP!getModel(t).predictor = n
    BY DEF NLP!NoLeakedPredictor
  <2>1. n = loading.predictor \/ n = Served(t, NLP!Origin(t)) \/ \E r \in Reloads : Reloading(r, t)
    BY DEF NLPInv, OnePredictor, Undisturbed, OthersStopped
  <2>2. n # loading.predictor
    BY NoneAssumption DEF NLPInv, OnePredictor, LoadingOne, NLP!Busy
  <2>3. ~\E r \in Reloads : Reloading(r, t)
    BY DEF NLP!Busy, Reloading
  <2>4. n # None /\ n = Served(t, NLP!Origin(t))
    BY <2>1, <2>2, <2>3, NoneAssumption
  <2> QED BY <2>4 DEF Served, NLP!getModel
<1> QED BY <1>1, <1>2

-----------------------------------------------------------------------------
(* The parts together.                                                     *)

ModelsInv == NLPInv /\ JobsInv

LEMMA ModelsInvariance ==
  Spec => []ModelsInv
<1>1. Init => ModelsInv
  BY NLPInitially, JobsInitially DEF Init, ModelsInv
<1>2. ModelsInv /\ [Next]_vars => ModelsInv'
  <2> SUFFICES ASSUME ModelsInv, [Next]_vars PROVE ModelsInv'
    OBVIOUS
  <2>1. UNCHANGED nlpVars \/ NLP!NNext
    BY DEF Next, Frame, vars
  <2>2. UNCHANGED jobsVars \/ JF!JFNext
    BY DEF Next, Frame, vars
  <2>3. NLPInv'
    BY <2>1, NLPNext, NLPIdle DEF ModelsInv
  <2>4. JobsInv'
    BY <2>2, JobsNext, JobsIdle DEF ModelsInv
  <2> QED BY <2>3, <2>4 DEF ModelsInv
<1> QED BY <1>1, <1>2, PTL DEF Spec

\* What serves a model is whole, for any number of tags, reloads, queries and
\* jobs: no reload or load of a model, however they overlap, stops or removes a
\* predictor that the next query goes to (that predictor may still be starting,
\* or have failed to), and one is left running that nobody has only for a model
\* whose loads overlapped or failed (NLPModel.reload); and no interleaving of
\* training jobs, with eviction and failing uploads, gets a version with metrics
\* served that mixes the files of two jobs or was made from less than a whole
\* training set (job_specs.js). Versions without metrics are not in it: when the
\* evaluation is evicted the version is committed with no output of it.
THEOREM ServedModelsAreWhole ==
  Spec => []ModelsWhole
<1>1. ModelsInv => ModelsWhole
  BY NLPSafe, JobsWhole DEF ModelsInv, ModelsWhole
<1> QED BY <1>1, ModelsInvariance, PTL

-----------------------------------------------------------------------------
(* The training tasks: the rows of the dataset.                            *)

RowRecords == [type : TT!Types, device : Devices, version : Nat, obsolete : BOOLEAN]
UpdateRecords ==
  [pc : {TT!Idle, "typecheck", "generate", "exact"}, devices : SUBSET Devices,
   seen : [Devices -> Nat], obsolete : SUBSET RowRecords]
TasksTyped ==
  /\ dev \in [Devices -> Nat] /\ appr \in [Devices -> Nat]
  /\ rows \subseteq RowRecords /\ upd \in UpdateRecords /\ clean \subseteq Devices

\* The rows of a device are those that an update would leave now.
GeneratedNow(d) ==
  /\ \A r \in rows : r.type = "generated" /\ r.device = d => r.version = dev[d] /\ dev[d] # 0
  /\ dev[d] # 0 => \E r \in rows : r.type = "generated" /\ r.device = d
OnlineNow(d, R) ==
  \A r \in R : r.type = "online" /\ ~r.obsolete /\ r.device = d => r.version = dev[d]
Fresh(d) == GeneratedNow(d) /\ OnlineNow(d, rows)

\* What an update knows and has done is right for the devices that nobody
\* uploaded since it began, and only these become clean.
UpdateKnows ==
  upd.pc = "generate" =>
    /\ \A d \in Devices \ uploaded : upd.seen[d] = dev[d]
    /\ \A d \in TT!Selected(upd.devices) \ uploaded : OnlineNow(d, rows \ upd.obsolete)
    /\ \A r \in upd.obsolete : r.type # "generated"
UpdateDid == upd.pc = "exact" => \A d \in TT!Selected(upd.devices) \ uploaded : Fresh(d)
CleanFresh ==
  \A d \in clean : d \notin uploaded /\ Fresh(d) /\ (dev[d] # 0 => <<d, dev[d]>> \in exactFile)

TasksInv == TasksTyped /\ UpdateKnows /\ UpdateDid /\ CleanFresh

LEMMA TasksInitially ==
  TT!TTInit => TasksInv
<1> SUFFICES ASSUME TT!TTInit PROVE TasksInv
  OBVIOUS
<1>1. TasksTyped
  BY DEF TT!TTInit, TT!NoUpdate, TasksTyped, UpdateRecords
<1>2. upd.pc = TT!Idle /\ clean = {}
  BY DEF TT!TTInit, TT!NoUpdate
<1> QED BY <1>1, <1>2 DEF TasksInv, UpdateKnows, UpdateDid, CleanFresh, TT!Idle

\* No selection of devices means all, and a selection names devices.
LEMMA SelectedDevices ==
  ASSUME TasksTyped
  PROVE  TT!Selected(upd.devices) \subseteq Devices
BY DEF TasksTyped, UpdateRecords, TT!Selected

LEMMA UploadDeviceKeeps ==
  ASSUME NEW d \in Devices, TasksInv, TT!UploadDevice(d)
  PROVE  TasksInv'
<1>1. /\ dev' = [dev EXCEPT ![d] = dev[d] + 1]
      /\ uploaded' = uploaded \cup {d} /\ clean' = clean \ {d}
      /\ UNCHANGED <<appr, rows, upd, exactFile>>
  BY DEF TT!UploadDevice
<1>2. TasksTyped'
  <2>1. dev[d] + 1 \in Nat
    BY DEF TasksInv, TasksTyped
  <2> QED BY <1>1, <2>1 DEF TasksInv, TasksTyped
<1>3. \A e \in Devices : e # d => dev'[e] = dev[e]
  BY <1>1 DEF TasksInv, TasksTyped
<1>4. \A e \in Devices : e # d => (Fresh(e)' <=> Fresh(e))
  BY <1>1, <1>3 DEF Fresh, GeneratedNow, OnlineNow
<1>5. TT!Selected(upd.devices) \subseteq Devices
  BY SelectedDevices DEF TasksInv
<1>6. UpdateKnows' /\ UpdateDid'
  BY <1>1, <1>3, <1>4, <1>5 DEF TasksInv, UpdateKnows, UpdateDid, OnlineNow, TT!Selected
<1>7. CleanFresh'
  BY <1>1, <1>3, <1>4 DEF TasksInv, TasksTyped, CleanFresh
<1> QED BY <1>2, <1>6, <1>7 DEF TasksInv

LEMMA ApproveDeviceKeeps ==
  ASSUME NEW d \in Devices, TasksInv, TT!ApproveDevice(d)
  PROVE  TasksInv'
<1>1. /\ appr' = [appr EXCEPT ![d] = dev[d]]
      /\ UNCHANGED <<dev, rows, upd, exactFile, uploaded, clean>>
  BY DEF TT!ApproveDevice
<1>2. TasksTyped'
  BY <1>1 DEF TasksInv, TasksTyped
<1> QED BY <1>1, <1>2 DEF TasksInv, UpdateKnows, UpdateDid, CleanFresh, Fresh, GeneratedNow, OnlineNow, TT!Selected

LEMMA LearnRowKeeps ==
  ASSUME NEW d \in Devices, NEW type \in {"online", "commandpedia"}, TasksInv, TT!Learn(d, type)
  PROVE  TasksInv'
<1> DEFINE row == [type |-> type, device |-> d, obsolete |-> FALSE,
                   version |-> IF type = "online" THEN dev[d] ELSE appr[d]]
<1>1. /\ rows' = rows \cup {row}
      /\ UNCHANGED <<dev, appr, upd, exactFile, uploaded, clean>>
  BY DEF TT!Learn
<1>2. /\ row \in RowRecords /\ row.type # "generated" /\ row.device = d
      /\ row.type = "online" => row.version = dev[d]
  BY DEF TasksInv, TasksTyped, RowRecords, TT!Types
<1> HIDE DEF row
<1>3. TasksTyped'
  BY <1>1, <1>2 DEF TasksInv, TasksTyped
<1>4. \A e : Fresh(e) => Fresh(e)'
  BY <1>1, <1>2 DEF Fresh, GeneratedNow, OnlineNow
<1>5. UpdateKnows'
  BY <1>1, <1>2 DEF TasksInv, UpdateKnows, OnlineNow, TT!Selected
<1> QED BY <1>1, <1>3, <1>4, <1>5 DEF TasksInv, UpdateDid, CleanFresh, TT!Selected

LEMMA UpdateBeginKeeps ==
  ASSUME NEW D \in SUBSET Devices, TasksInv, TT!UpdateBegin(D)
  PROVE  TasksInv'
<1>1. /\ upd' = [upd EXCEPT !.pc = "typecheck", !.devices = D] /\ uploaded' = {}
      /\ UNCHANGED <<dev, appr, rows, exactFile, clean>>
  BY DEF TT!UpdateBegin
<1>2. TasksTyped' /\ upd'.pc = "typecheck"
  BY <1>1 DEF TasksInv, TasksTyped, UpdateRecords
<1> QED BY <1>1, <1>2 DEF TasksInv, UpdateKnows, UpdateDid, CleanFresh, Fresh, GeneratedNow, OnlineNow

LEMMA TypecheckKeeps ==
  ASSUME TasksInv, TT!Typecheck
  PROVE  TasksInv'
<1> DEFINE bad == {r \in rows : /\ r.type # "generated" /\ ~r.obsolete
                                /\ r.device \in TT!Selected(upd.devices) /\ ~TT!Parses(r)}
<1>1. /\ upd' = [upd EXCEPT !.pc = "generate", !.seen = dev, !.obsolete = bad]
      /\ UNCHANGED <<dev, appr, rows, exactFile, uploaded, clean>>
  BY DEF TT!Typecheck
<1>2. bad \in SUBSET RowRecords
  BY DEF TasksInv, TasksTyped
<1>3. /\ \A r \in bad : r.type # "generated"
      /\ \A d \in TT!Selected(upd.devices) : OnlineNow(d, rows \ bad)
  BY DEF OnlineNow, TT!Parses
<1> HIDE DEF bad
<1>4. /\ TasksTyped' /\ upd'.pc = "generate" /\ upd'.devices = upd.devices
      /\ upd'.seen = dev /\ upd'.obsolete = bad
  BY <1>1, <1>2 DEF TasksInv, TasksTyped, UpdateRecords
<1>5. UpdateKnows'
  BY <1>1, <1>3, <1>4 DEF UpdateKnows, OnlineNow, TT!Selected
<1> QED BY <1>1, <1>4, <1>5 DEF TasksInv, UpdateDid, CleanFresh, Fresh, GeneratedNow, OnlineNow

LEMMA GenerateKeeps ==
  ASSUME NEW cached \in SUBSET Devices, TasksInv, TT!Generate(cached)
  PROVE  TasksInv'
<1> DEFINE S == TT!Selected(upd.devices)
           view == [d \in Devices |-> IF d \in cached THEN upd.seen[d] ELSE dev[d]]
           cleared == {r \in rows : r.type = "generated" /\ r.device \in S}
           marked == {[r EXCEPT !.obsolete = TRUE] : r \in upd.obsolete}
           new == {[type |-> "generated", device |-> d, version |-> view[d], obsolete |-> FALSE] :
                     d \in {e \in S : view[e] > 0}}
<1>1. /\ upd.pc = "generate"
      /\ rows' = ((rows \ cleared) \ upd.obsolete) \cup marked \cup new
      /\ upd' = [upd EXCEPT !.pc = "exact"]
      /\ UNCHANGED <<dev, appr, exactFile, uploaded, clean>>
  BY DEF TT!Generate, TT!ClearExistingDataset, TT!GenerateNewSynthetic
<1>2. S \subseteq Devices /\ upd.seen \in [Devices -> Nat] /\ upd.obsolete \subseteq RowRecords
  BY SelectedDevices DEF TasksInv, TasksTyped, UpdateRecords
<1>3. /\ \A d \in Devices : view[d] \in Nat
      /\ \A d \in Devices \ uploaded : view[d] = dev[d]
  BY <1>1, <1>2 DEF TasksInv, TasksTyped, UpdateKnows
<1>4. \A r \in marked : r \in RowRecords /\ r.obsolete /\ r.type # "generated"
  <2>1. ASSUME NEW r \in upd.obsolete
        PROVE  LET m == [r EXCEPT !.obsolete = TRUE]
               IN  m \in RowRecords /\ m.obsolete /\ m.type # "generated"
    BY <1>1, <1>2 DEF RowRecords, TasksInv, UpdateKnows
  <2> QED BY <2>1
<1>5. \A r \in new : /\ r \in RowRecords /\ r.type = "generated" /\ r.device \in S
                     /\ r.version = view[r.device] /\ view[r.device] > 0
  <2> HIDE DEF S, view
  <2> SUFFICES ASSUME NEW d \in S, view[d] > 0, NEW r,
                      r = [type |-> "generated", device |-> d, version |-> view[d], obsolete |-> FALSE]
               PROVE  /\ r \in RowRecords /\ r.type = "generated" /\ r.device \in S
                      /\ r.version = view[r.device] /\ view[r.device] > 0
    OBVIOUS
  <2> QED BY <1>2, <1>3 DEF RowRecords, TT!Types
<1>6. \A d \in S : view[d] > 0 => \E r \in new : r.type = "generated" /\ r.device = d
  <2> HIDE DEF S, view
  <2> TAKE d \in S
  <2> HAVE view[d] > 0
  <2> DEFINE r == [type |-> "generated", device |-> d, version |-> view[d], obsolete |-> FALSE]
  <2>1. r \in new /\ r.type = "generated" /\ r.device = d
    OBVIOUS
  <2> QED BY <2>1
<1>7. cleared = {r \in rows : r.type = "generated" /\ r.device \in S}
  OBVIOUS
<1> HIDE DEF S, view, cleared, marked, new
<1>8. TasksTyped' /\ upd'.pc = "exact" /\ upd'.devices = upd.devices
  BY <1>1, <1>4, <1>5 DEF TasksInv, TasksTyped, UpdateRecords
<1>9. \A d \in S \ uploaded : Fresh(d)'
  <2> SUFFICES ASSUME NEW d \in S \ uploaded PROVE Fresh(d)'
    OBVIOUS
  <2>0. view[d] = dev[d] /\ dev[d] \in Nat
    BY <1>2, <1>3
  <2>1. \A r \in rows' : r.type = "generated" /\ r.device = d => r.version = dev[d] /\ dev[d] # 0
    BY <2>0, <1>1, <1>4, <1>5, <1>7
  <2>2. dev[d] # 0 => \E r \in rows' : r.type = "generated" /\ r.device = d
    BY <2>0, <1>1, <1>6
  <2>3. \A r \in rows' : r.type = "online" /\ ~r.obsolete /\ r.device = d => r.version = dev[d]
    <3>1. OnlineNow(d, rows \ upd.obsolete)
      BY <1>1 DEF TasksInv, UpdateKnows, S
    <3> QED BY <3>1, <1>1, <1>4, <1>5 DEF OnlineNow
  <2> QED BY <2>1, <2>2, <2>3, <1>1 DEF Fresh, GeneratedNow, OnlineNow
<1>10. \A d \in clean : Fresh(d)'
  <2> SUFFICES ASSUME NEW d \in clean, d \notin S PROVE Fresh(d)'
    BY <1>9 DEF TasksInv, CleanFresh
  <2>1. Fresh(d)
    BY DEF TasksInv, CleanFresh
  <2>2. \A r \in rows' : ~r.obsolete /\ r.device = d => r \in rows
    BY <1>1, <1>4, <1>5
  <2>3. \A r \in rows' : r.type = "generated" /\ r.device = d => r \in rows
    BY <1>1, <1>4, <1>5
  <2>4. \A r \in rows : r.type = "generated" /\ r.device = d => r \in rows'
    BY <1>1, <1>7 DEF TasksInv, UpdateKnows
  <2> QED BY <2>1, <2>2, <2>3, <2>4, <1>1 DEF Fresh, GeneratedNow, OnlineNow
<1>11. UpdateKnows' /\ UpdateDid'
  <2>1. TT!Selected(upd'.devices) = S
    BY <1>8 DEF S, TT!Selected
  <2> QED BY <2>1, <1>1, <1>8, <1>9 DEF UpdateKnows, UpdateDid
<1>12. CleanFresh'
  BY <1>1, <1>10 DEF TasksInv, CleanFresh
<1> QED BY <1>8, <1>11, <1>12 DEF TasksInv

LEMMA UpdateExactMatchKeeps ==
  ASSUME TasksInv, TT!UpdateExactMatch
  PROVE  TasksInv'
<1>1. /\ upd.pc = "exact"
      /\ exactFile' = {TT!Exact(r) : r \in rows}
      /\ clean' = (clean \cup TT!Selected(upd.devices)) \ uploaded
      /\ upd' = TT!NoUpdate
      /\ UNCHANGED <<dev, appr, rows, uploaded>>
  BY DEF TT!UpdateExactMatch
<1>2. TT!Selected(upd.devices) \subseteq Devices
  BY SelectedDevices DEF TasksInv
<1>3. TasksTyped' /\ upd'.pc = TT!Idle
  BY <1>1, <1>2 DEF TasksInv, TasksTyped, TT!NoUpdate, UpdateRecords
<1>4. \A d \in clean' : Fresh(d) /\ d \notin uploaded
  BY <1>1 DEF TasksInv, UpdateDid, CleanFresh
<1>5. ASSUME NEW d \in clean', dev[d] # 0 PROVE <<d, dev[d]>> \in exactFile'
  <2>1. PICK r \in rows : r.device = d /\ r.version = dev[d]
    BY <1>4, <1>5 DEF Fresh, GeneratedNow
  <2> QED BY <2>1, <1>1 DEF TT!Exact
<1>6. CleanFresh'
  BY <1>1, <1>4, <1>5 DEF CleanFresh, Fresh, GeneratedNow, OnlineNow
<1> QED BY <1>3, <1>6 DEF TasksInv, UpdateKnows, UpdateDid, TT!Idle

LEMMA KillUpdateKeeps ==
  ASSUME TasksInv, TT!KillUpdate
  PROVE  TasksInv'
<1>1. upd' = TT!NoUpdate /\ UNCHANGED <<dev, appr, rows, exactFile, uploaded, clean>>
  BY DEF TT!KillUpdate
<1>2. TasksTyped' /\ upd'.pc = TT!Idle
  BY <1>1 DEF TasksInv, TasksTyped, TT!NoUpdate, UpdateRecords
<1> QED BY <1>1, <1>2 DEF TasksInv, UpdateKnows, UpdateDid, CleanFresh, Fresh, GeneratedNow, OnlineNow, TT!Idle

LEMMA TasksNext ==
  TasksInv /\ TT!TTNext => TasksInv'
BY UploadDeviceKeeps, ApproveDeviceKeeps, LearnRowKeeps, UpdateBeginKeeps, TypecheckKeeps,
   GenerateKeeps, UpdateExactMatchKeeps, KillUpdateKeeps DEF TT!TTNext

LEMMA TasksIdle ==
  TasksInv /\ UNCHANGED tasksVars => TasksInv'
BY DEF TasksInv, TasksTyped, UpdateKnows, UpdateDid, CleanFresh, Fresh, GeneratedNow, OnlineNow,
       TT!Selected, tasksVars

LEMMA DatasetsCurrent ==
  TasksInv => TT!GeneratedCurrent /\ TT!DatasetComplete
<1> SUFFICES ASSUME TasksInv PROVE TT!GeneratedCurrent /\ TT!DatasetComplete
  OBVIOUS
<1>1. TT!GeneratedCurrent
  <2> SUFFICES ASSUME NEW d \in clean
               PROVE  /\ {r.version : r \in {s \in rows : s.type = "generated" /\ s.device = d}} = {dev[d]} \ {0}
                      /\ dev[d] > 0 => <<d, dev[d]>> \in exactFile
    BY DEF TT!GeneratedCurrent
  <2>1. GeneratedNow(d) /\ (dev[d] # 0 => <<d, dev[d]>> \in exactFile) /\ dev[d] \in Nat
    BY DEF TasksInv, TasksTyped, CleanFresh, Fresh
  <2> QED BY <2>1 DEF GeneratedNow
<1>2. TT!DatasetComplete
  <2> SUFFICES ASSUME NEW D \in SUBSET Devices, NEW r \in rows, r.type = "online", ~r.obsolete,
                      r.device \in clean, r.device \in TT!Selected(D)
               PROVE  TT!Exact(r) \in TT!Dataset(D, FALSE, "prepare-training-set")
    BY DEF TT!DatasetComplete
  <2>1. r.version = dev[r.device]
    BY DEF TasksInv, CleanFresh, Fresh, OnlineNow
  <2>2. r.device \in TT!Pattern(D, FALSE)
    BY DEF TT!Pattern, TT!ForDevices
  <2>3. r \in TT!TypecheckStream(TT!Downloaded(D, FALSE), FALSE)
    BY <2>1, <2>2 DEF TT!TypecheckStream, TT!Downloaded, TT!Visible
  <2> QED BY <2>3 DEF TT!Dataset, TT!Downloads
<1> QED BY <1>1, <1>2

-----------------------------------------------------------------------------
(* MTurk: the paraphrases that get into the training set.                  *)

CrowdTyped ==
  /\ DOMAIN flags = DOMAIN output
  /\ flags \in [DOMAIN output -> Nat]
  /\ \A p \in DOMAIN output :
       output[p] \in [hit : hits, accept : Nat, reject : Nat]

\* A paraphrase says 'training' once for each acceptance from the target on,
\* as long as nobody rejected it; the first rejection leaves at most half.
FlagsEarned ==
  \A p \in DOMAIN flags : flags[p] > 0 =>
    \/ output[p].reject = 0 /\ flags[p] <= output[p].accept - Target + 1
    \/ output[p].accept > Target
CrowdInv ==
  /\ CrowdTyped /\ FlagsEarned
  /\ status = "none" => DOMAIN output = {}

LEMMA CrowdInitially ==
  MT!MTInit => CrowdInv
<1> SUFFICES ASSUME MT!MTInit PROVE CrowdInv
  OBVIOUS
<1>1. DOMAIN output = {} /\ DOMAIN flags = {} /\ flags \in [{} -> Nat]
  BY DEF MT!MTInit
<1> QED BY <1>1 DEF CrowdInv, CrowdTyped, FlagsEarned

LEMMA CreateKeeps ==
  ASSUME NEW n, CrowdInv, MT!Create(n)
  PROVE  CrowdInv'
<1>1. /\ DOMAIN output = {} /\ UNCHANGED <<output, flags>> /\ status' = "created"
  BY DEF CrowdInv, MT!Create
<1> QED BY <1>1 DEF CrowdInv, CrowdTyped, FlagsEarned

LEMMA SubmitKeeps ==
  ASSUME NEW h \in hits, NEW k, CrowdInv, MT!Submit(h, k)
  PROVE  CrowdInv'
<1>1. PICK new :
        /\ output' = [p \in DOMAIN output \cup new |->
                        IF p \in new THEN [hit |-> h, accept |-> 0, reject |-> 0] ELSE output[p]]
        /\ flags' = [p \in DOMAIN flags \cup new |-> IF p \in new THEN 0 ELSE flags[p]]
        /\ UNCHANGED hits /\ status' = "paraphrasing"
  BY DEF MT!Submit, MT!InsertSubmission
<1>2. /\ DOMAIN output' = DOMAIN output \cup new /\ DOMAIN flags' = DOMAIN output \cup new
      /\ \A p \in DOMAIN output' :
           \/ p \in new /\ output'[p] = [hit |-> h, accept |-> 0, reject |-> 0] /\ flags'[p] = 0
           \/ p \in DOMAIN output /\ output'[p] = output[p] /\ flags'[p] = flags[p]
  BY <1>1 DEF CrowdInv, CrowdTyped
<1>3. CrowdTyped'
  BY <1>1, <1>2 DEF CrowdInv, CrowdTyped
<1>4. FlagsEarned'
  BY <1>2 DEF CrowdInv, CrowdTyped, FlagsEarned
<1> QED BY <1>1, <1>3, <1>4 DEF CrowdInv

LEMMA ValidateKeeps ==
  ASSUME NEW h, NEW w, NEW good, CrowdInv, MT!Validate(h, w, good)
  PROVE  CrowdInv'
<1> DEFINE bad == validation[h] \ good
           raised == MT!MarkSentencesGood(good, flags)
<1>1. /\ output' = MT!Count(good, bad)
      /\ flags' = MT!MarkSentencesBad(bad, raised)
      /\ UNCHANGED <<status, hits>>
  BY DEF MT!Validate
<1>2. /\ raised \in [DOMAIN output -> Nat]
      /\ \A p \in DOMAIN output :
           raised[p] = IF p \in good /\ output[p].accept + 1 >= Target /\ output[p].reject = 0
                       THEN flags[p] + 1 ELSE flags[p]
  BY DEF CrowdInv, CrowdTyped, MT!MarkSentencesGood
<1>3. good \cap bad = {}
  OBVIOUS
<1> HIDE DEF bad, raised
<1>4. DOMAIN output' = DOMAIN output /\ DOMAIN flags' = DOMAIN output
  BY <1>1, <1>2 DEF MT!Count, MT!MarkSentencesBad
<1>5. ASSUME NEW p \in DOMAIN output
      PROVE  /\ output'[p] \in [hit : hits, accept : Nat, reject : Nat]
             /\ output'[p].accept = IF p \in good THEN output[p].accept + 1 ELSE output[p].accept
             /\ output'[p].reject = IF p \in bad THEN output[p].reject + 1 ELSE output[p].reject
  <2>1. output[p] \in [hit : hits, accept : Nat, reject : Nat]
    BY DEF CrowdInv, CrowdTyped
  <2>2. output'[p] = [output[p] EXCEPT
                        !.accept = IF p \in good THEN output[p].accept + 1 ELSE output[p].accept,
                        !.reject = IF p \in bad THEN output[p].reject + 1 ELSE output[p].reject]
    BY <1>1 DEF MT!Count
  <2> DEFINE a == IF p \in good THEN output[p].accept + 1 ELSE output[p].accept
             b == IF p \in bad THEN output[p].reject + 1 ELSE output[p].reject
  <2>3. a \in Nat /\ b \in Nat
    BY <2>1
  <2>4. output'[p] = [output[p] EXCEPT !.accept = a, !.reject = b]
    BY <2>2
  <2> HIDE DEF a, b
  <2>5. /\ output'[p] \in [hit : hits, accept : Nat, reject : Nat]
        /\ output'[p].accept = a /\ output'[p].reject = b
    BY <2>1, <2>3, <2>4
  <2> QED BY <2>5 DEF a, b
<1>6. ASSUME NEW p \in DOMAIN output
      PROVE  /\ flags'[p] \in Nat
             /\ flags'[p] = IF p \in bad THEN raised[p] \div 2 ELSE raised[p]
  <2>1. raised[p] \in Nat /\ raised[p] \div 2 \in Nat
    BY <1>2
  <2>2. flags'[p] = IF p \in bad THEN raised[p] \div 2 ELSE raised[p]
    BY <1>1, <1>2 DEF MT!MarkSentencesBad
  <2> QED BY <2>1, <2>2
<1>7. CrowdTyped'
  <2>1. flags' \in [DOMAIN output' -> Nat]
    BY <1>1, <1>2, <1>4, <1>6 DEF MT!MarkSentencesBad
  <2> QED BY <2>1, <1>1, <1>4, <1>5 DEF CrowdTyped
<1>8. FlagsEarned'
  <2> SUFFICES ASSUME NEW p \in DOMAIN output, flags'[p] > 0
               PROVE  \/ output'[p].reject = 0 /\ flags'[p] <= output'[p].accept - Target + 1
                      \/ output'[p].accept > Target
    BY <1>4 DEF FlagsEarned
  <2> DEFINE a == output[p].accept
             r == output[p].reject
             f == flags[p]
  <2>1. /\ a \in Nat /\ r \in Nat /\ f \in Nat
        /\ f > 0 => (r = 0 /\ f <= a - Target + 1) \/ a > Target
    BY DEF CrowdInv, CrowdTyped, FlagsEarned
  <2>2. CASE p \in bad
    <3>1. raised[p] = f /\ flags'[p] = f \div 2 /\ output'[p].accept = a
      BY <2>2, <1>2, <1>3, <1>5, <1>6
    <3> HIDE DEF a, r, f
    <3>2. f >= 2
      BY <3>1, <2>1
    <3> QED BY <3>1, <3>2, <2>1, BoundsAssumption
  <2>3. CASE p \in good
    <3>1. /\ flags'[p] = IF a + 1 >= Target /\ r = 0 THEN f + 1 ELSE f
          /\ output'[p].accept = a + 1 /\ output'[p].reject = r
      BY <2>3, <1>2, <1>3, <1>5, <1>6
    <3> HIDE DEF a, r, f
    <3> QED BY <3>1, <2>1, BoundsAssumption
  <2>4. CASE p \notin bad /\ p \notin good
    <3>1. flags'[p] = f /\ output'[p].accept = a /\ output'[p].reject = r
      BY <2>4, <1>2, <1>5, <1>6
    <3> HIDE DEF a, r, f
    <3> QED BY <3>1, <2>1
  <2> QED BY <2>2, <2>3, <2>4
<1> QED BY <1>1, <1>4, <1>7, <1>8 DEF CrowdInv

LEMMA CrowdNext ==
  CrowdInv /\ MT!MTNext => CrowdInv'
<1> SUFFICES ASSUME CrowdInv, MT!MTNext PROVE CrowdInv'
  OBVIOUS
<1>1. CASE MT!StartValidation
  BY <1>1 DEF MT!StartValidation, CrowdInv, CrowdTyped, FlagsEarned
<1>2. ASSUME NEW autoApprove, MT!Close(autoApprove) PROVE CrowdInv'
  BY <1>2 DEF MT!Close, CrowdInv, CrowdTyped, FlagsEarned
<1> QED BY <1>1, <1>2, CreateKeeps, SubmitKeeps, ValidateKeeps DEF MT!MTNext

LEMMA CrowdIdle ==
  CrowdInv /\ UNCHANGED mturkVars => CrowdInv'
BY DEF CrowdInv, CrowdTyped, FlagsEarned, mturkVars

LEMMA CrowdValidates ==
  CrowdInv => MT!TrainingValidated
<1> SUFFICES ASSUME CrowdInv, NEW p \in DOMAIN flags, flags[p] > 0
             PROVE  output[p].accept >= Target /\ (output[p].reject = 0 \/ output[p].accept > Target)
  BY DEF MT!TrainingValidated
<1>1. output[p].accept \in Nat /\ flags[p] \in Nat
  BY DEF CrowdInv, CrowdTyped
<1> QED BY <1>1, BoundsAssumption DEF CrowdInv, FlagsEarned

-----------------------------------------------------------------------------
(* The form that adds a command.                                           *)

\* As long as nothing crossed, one prediction is under way at a time: the
\* sentence of the form is the one whose results are shown or being read, and
\* once a result was accepted it is the sentence in the box.
FormInv ==
  ~crossed =>
    /\ \A u, v \in asked : u = v
    /\ asked # {} => candidates = {}
    /\ \A u \in candidates : u = raw
    /\ results # None /\ candidates = {} => results = raw
    /\ predicted => /\ asked = {} /\ candidates = {}
                    /\ raw = utterance /\ code \in {raw, Typed}
    /\ learning # None => /\ asked = {} /\ candidates = {}
                          /\ learning.raw = raw /\ learning.shown = raw
                          /\ learning.code \in {raw, Typed}
    /\ \A l \in sentToLearn : l.entities = l.raw /\ l.raw = l.shown /\ l.code \in {l.raw, Typed}

LEMMA FormNext ==
  FormInv /\ CT!TNext => FormInv'
<1> SUFFICES ASSUME FormInv, CT!TNext PROVE FormInv'
  OBVIOUS
<1>1. ASSUME NEW u, CT!EditUtterance(u) PROVE FormInv'
  BY <1>1 DEF FormInv, CT!EditUtterance, CT!User, CT!Open
<1>2. ASSUME NEW u, CT!Handle(u) PROVE FormInv'
  BY <1>2 DEF FormInv, CT!Handle
<1>3. ASSUME NEW u, CT!AskFails(u) PROVE FormInv'
  BY <1>3 DEF FormInv, CT!AskFails
<1>4. ASSUME NEW u, NEW some, CT!Predict(u, some) PROVE FormInv'
  BY <1>4 DEF FormInv, CT!Predict
<1>5. CASE CT!EditCode
  BY <1>5 DEF FormInv, CT!EditCode, CT!User, CT!Open
<1>6. CASE CT!SubmitPredict
  BY <1>6 DEF FormInv, CT!SubmitPredict, CT!User, CT!Open, CT!Waiting
<1>7. CASE CT!SubmitConfirm
  BY <1>7 DEF FormInv, CT!SubmitConfirm, CT!User, CT!Open
<1>8. CASE CT!SubmitLearn
  BY <1>8 DEF FormInv, CT!SubmitLearn, CT!User, CT!Open, CT!Waiting
<1>9. CASE CT!Accept
  BY <1>9 DEF FormInv, CT!Accept, CT!Open, CT!Waiting
<1>10. CASE CT!RejectAll
  BY <1>10 DEF FormInv, CT!RejectAll, CT!Open
<1>11. CASE CT!LearnThingTalk
  BY <1>11 DEF FormInv, CT!LearnThingTalk
<1> QED BY <1>1, <1>2, <1>3, <1>4, <1>5, <1>6, <1>7, <1>8, <1>9, <1>10, <1>11 DEF CT!TNext

LEMMA FormInitially ==
  CT!TInit => FormInv
BY DEF CT!TInit, FormInv

LEMMA FormIdle ==
  FormInv /\ UNCHANGED trainerVars => FormInv'
BY DEF FormInv, trainerVars

LEMMA FormSafe ==
  FormInv => CT!LearnsWhatIsShown
BY DEF FormInv, CT!LearnsWhatIsShown

-----------------------------------------------------------------------------
(* The parts that make datasets together.                                  *)

DatasetInv == TasksInv /\ CrowdInv /\ FormInv

LEMMA DatasetInvariance ==
  Spec => []DatasetInv
<1>1. Init => DatasetInv
  BY TasksInitially, CrowdInitially, FormInitially DEF Init, DatasetInv
<1>2. DatasetInv /\ [Next]_vars => DatasetInv'
  <2> SUFFICES ASSUME DatasetInv, [Next]_vars PROVE DatasetInv'
    OBVIOUS
  <2>1. /\ UNCHANGED tasksVars \/ TT!TTNext
        /\ UNCHANGED mturkVars \/ MT!MTNext
        /\ UNCHANGED trainerVars \/ CT!TNext
    BY DEF Next, Frame, vars
  <2>2. TasksInv'
    BY <2>1, TasksNext, TasksIdle DEF DatasetInv
  <2>3. CrowdInv'
    BY <2>1, CrowdNext, CrowdIdle DEF DatasetInv
  <2>4. FormInv'
    BY <2>1, FormNext, FormIdle DEF DatasetInv
  <2> QED BY <2>2, <2>3, <2>4 DEF DatasetInv
<1> QED BY <1>1, <1>2, PTL DEF Spec

\* What a model learns from is current, for any number of devices, versions,
\* workers and paraphrases and any target: after an update of the dataset that
\* ran to its end, whatever was uploaded, learnt or killed meanwhile, the
\* generated sentences of a device are those of its current version and none
\* learnt for it is dropped (update-dataset.js); the crowd's paraphrases are
\* taken only when validated (routes/mturk.ts); and the form learns the code
\* that was shown for the sentence (new-command.js).
THEOREM DatasetsStayCurrent ==
  Spec => []DatasetCurrent
<1>1. DatasetInv => DatasetCurrent
  BY DatasetsCurrent, CrowdValidates, FormSafe DEF DatasetInv, DatasetCurrent
<1> QED BY <1>1, DatasetInvariance, PTL

-----------------------------------------------------------------------------
\* The votes of the crowd (MTurk): one vote of a worker on a sentence.

\* The votes on the paraphrases of a HIT are those of the workers in the log;
\* there are none until the validation starts, which it does once.
VotersOf(h) == {w \in Workers : <<h, w>> \in vlog}
Unvalidated == status \in {"none", "created", "paraphrasing"}
VotesInv ==
  /\ status \in MT!Statuses
  /\ status = "none" => DOMAIN output = {}
  /\ \A p \in DOMAIN output : output[p] \in [hit : hits, accept : Nat, reject : Nat]
  /\ Unvalidated => /\ vlog = {} /\ DOMAIN validation = {}
                    /\ \A p \in DOMAIN output : output[p].accept = 0 /\ output[p].reject = 0
  /\ vlog \subseteq (DOMAIN validation) \X Workers
  /\ \A h \in DOMAIN validation :
       /\ validation[h] \subseteq {p \in DOMAIN output : output[p].hit = h}
       /\ IsFiniteSet(VotersOf(h))
       /\ \A p \in validation[h] : output[p].accept + output[p].reject = Cardinality(VotersOf(h))

LEMMA VotesInitially == MT!MTInit => VotesInv
<1> SUFFICES ASSUME MT!MTInit PROVE VotesInv
  OBVIOUS
<1>1. DOMAIN output = {} /\ DOMAIN validation = {} /\ vlog = {} /\ status = "none"
  BY DEF MT!MTInit
<1> QED BY <1>1 DEF VotesInv, Unvalidated, MT!Statuses

LEMMA VotesIdle == VotesInv /\ UNCHANGED mturkVars => VotesInv'
BY DEF VotesInv, Unvalidated, VotersOf, mturkVars

LEMMA CreateKeepsVotes ==
  ASSUME NEW n, VotesInv, MT!Create(n)
  PROVE  VotesInv'
<1>1. /\ DOMAIN output = {} /\ status = "none" /\ status' = "created"
      /\ UNCHANGED <<output, validation, vlog>>
  BY DEF VotesInv, MT!Create
<1> QED BY <1>1 DEF VotesInv, Unvalidated, MT!Statuses

LEMMA SubmitKeepsVotes ==
  ASSUME NEW h \in hits, NEW k, VotesInv, MT!Submit(h, k)
  PROVE  VotesInv'
<1>1. PICK new :
        /\ output' = [p \in DOMAIN output \cup new |->
                        IF p \in new THEN [hit |-> h, accept |-> 0, reject |-> 0] ELSE output[p]]
        /\ UNCHANGED <<hits, validation, vlog>> /\ status' = "paraphrasing"
        /\ status \in {"created", "paraphrasing"}
  BY DEF MT!Submit, MT!InsertSubmission, MT!OpenForParaphrases
<1>2. /\ DOMAIN output' = DOMAIN output \cup new
      /\ \A p \in DOMAIN output' :
           \/ p \in new /\ output'[p] = [hit |-> h, accept |-> 0, reject |-> 0]
           \/ p \in DOMAIN output /\ output'[p] = output[p]
  BY <1>1
<1>3. \A p \in DOMAIN output' :
         /\ output'[p] \in [hit : hits, accept : Nat, reject : Nat]
         /\ output'[p].accept = 0 /\ output'[p].reject = 0
  BY <1>1, <1>2 DEF VotesInv, Unvalidated
<1> QED BY <1>1, <1>3 DEF VotesInv, Unvalidated, MT!Statuses

LEMMA StartKeepsVotes ==
  ASSUME VotesInv, MT!StartValidation
  PROVE  VotesInv'
<1>1. /\ status = "paraphrasing" /\ status' = "validating"
      /\ validation' = [h \in hits |-> {p \in MT!Unvalidated : output[p].hit = h}]
      /\ UNCHANGED <<hits, output, vlog>>
  BY DEF MT!StartValidation
<1>2. vlog = {}
  BY <1>1 DEF VotesInv, Unvalidated
<1>3. ASSUME NEW h \in hits
      PROVE  /\ validation'[h] \subseteq {p \in DOMAIN output : output[p].hit = h}
             /\ \A p \in validation'[h] : output[p].accept = 0 /\ output[p].reject = 0
  BY <1>1 DEF VotesInv, Unvalidated, MT!Unvalidated
<1>4. ASSUME NEW h PROVE VotersOf(h) = {}
  BY <1>2 DEF VotersOf
<1>5. DOMAIN validation' = hits
  BY <1>1
<1>6. \A h : VotersOf(h)' = {}
  BY <1>1, <1>4 DEF VotersOf
<1>7. IsFiniteSet({}) /\ Cardinality({}) = 0
  BY FS_EmptySet
<1>8. ASSUME NEW h \in DOMAIN validation'
      PROVE  /\ validation'[h] \subseteq {p \in DOMAIN output' : output'[p].hit = h}
             /\ IsFiniteSet(VotersOf(h)')
             /\ \A p \in validation'[h] : output'[p].accept + output'[p].reject = Cardinality(VotersOf(h)')
  <2>1. VotersOf(h)' = {}
    BY <1>6
  <2>2. \A p \in validation'[h] : output'[p].accept = 0 /\ output'[p].reject = 0
    BY <1>1, <1>3, <1>5
  <2> QED BY <1>1, <1>3, <1>5, <1>7, <2>1, <2>2
<1> QED BY <1>1, <1>2, <1>8 DEF VotesInv, Unvalidated, MT!Statuses

LEMMA ValidateKeepsVotes ==
  ASSUME NEW h, NEW w \in Workers, NEW good, VotesInv, MT!Validate(h, w, good)
  PROVE  VotesInv'
<1> DEFINE bad == validation[h] \ good
<1>1. /\ h \in DOMAIN validation /\ good \subseteq validation[h] /\ <<h, w>> \notin vlog
      /\ status = "validating" /\ vlog' = vlog \cup {<<h, w>>}
      /\ output' = MT!Count(good, bad)
      /\ UNCHANGED <<status, hits, validation>>
  BY DEF MT!Validate, MT!AlreadySubmitted, MT!OpenForValidation
<1>2. good \cap bad = {} /\ good \cup bad = validation[h]
  BY <1>1
<1> HIDE DEF bad
<1>3. DOMAIN output' = DOMAIN output
  BY <1>1 DEF MT!Count
<1>4. ASSUME NEW p \in DOMAIN output
      PROVE  /\ output'[p] \in [hit : hits, accept : Nat, reject : Nat]
             /\ output'[p].hit = output[p].hit
             /\ output'[p].accept = IF p \in good THEN output[p].accept + 1 ELSE output[p].accept
             /\ output'[p].reject = IF p \in bad THEN output[p].reject + 1 ELSE output[p].reject
  <2>1. output[p] \in [hit : hits, accept : Nat, reject : Nat]
    BY DEF VotesInv
  <2> DEFINE a == IF p \in good THEN output[p].accept + 1 ELSE output[p].accept
             b == IF p \in bad THEN output[p].reject + 1 ELSE output[p].reject
  <2>2. a \in Nat /\ b \in Nat
    BY <2>1
  <2>3. output'[p] = [output[p] EXCEPT !.accept = a, !.reject = b]
    BY <1>1 DEF MT!Count
  <2> HIDE DEF a, b
  <2>4. /\ output'[p] \in [hit : hits, accept : Nat, reject : Nat]
        /\ output'[p].hit = output[p].hit /\ output'[p].accept = a /\ output'[p].reject = b
    BY <2>1, <2>2, <2>3
  <2> QED BY <2>4 DEF a, b
<1>5. ASSUME NEW g \in DOMAIN validation
      PROVE  /\ validation'[g] \subseteq {p \in DOMAIN output' : output'[p].hit = g}
             /\ IsFiniteSet(VotersOf(g)')
             /\ \A p \in validation'[g] :
                  output'[p].accept + output'[p].reject = Cardinality(VotersOf(g)')
  <2>0. /\ validation[g] \subseteq {p \in DOMAIN output : output[p].hit = g}
        /\ IsFiniteSet(VotersOf(g))
        /\ \A p \in validation[g] : output[p].accept + output[p].reject = Cardinality(VotersOf(g))
        /\ \A p \in DOMAIN output : output[p].accept \in Nat /\ output[p].reject \in Nat
    BY DEF VotesInv
  <2>1. Cardinality(VotersOf(g)) \in Nat
    BY <2>0, FS_CardinalityType
  <2>2. validation'[g] \subseteq {p \in DOMAIN output' : output'[p].hit = g}
    BY <1>1, <1>3, <1>4, <2>0
  <2>3. CASE g = h
    <3>1. VotersOf(g)' = VotersOf(g) \cup {w} /\ w \notin VotersOf(g)
      BY <1>1, <2>3 DEF VotersOf
    <3>2. IsFiniteSet(VotersOf(g)') /\ Cardinality(VotersOf(g)') = Cardinality(VotersOf(g)) + 1
      BY <3>1, <2>0, FS_AddElement
    <3>3. ASSUME NEW p \in validation[g]
          PROVE  output'[p].accept + output'[p].reject = output[p].accept + output[p].reject + 1
      BY <1>2, <1>4, <2>0, <2>3
    <3> QED BY <1>1, <2>0, <2>2, <3>2, <3>3
  <2>4. CASE g # h
    <3>1. VotersOf(g)' = VotersOf(g)
      BY <1>1, <2>4 DEF VotersOf
    <3>2. \A p \in validation[g] : p \notin validation[h]
      BY <1>1, <2>4 DEF VotesInv
    <3>3. ASSUME NEW p \in validation[g]
          PROVE  output'[p].accept = output[p].accept /\ output'[p].reject = output[p].reject
      BY <1>2, <1>4, <2>0, <3>2
    <3> QED BY <1>1, <2>0, <2>2, <3>1, <3>3
  <2> QED BY <2>3, <2>4
<1>6. vlog' \subseteq (DOMAIN validation) \X Workers
  BY <1>1 DEF VotesInv
<1> QED BY <1>1, <1>3, <1>4, <1>5, <1>6 DEF VotesInv, Unvalidated, MT!Statuses

LEMMA VotesNext == VotesInv /\ MT!MTNext => VotesInv'
<1> SUFFICES ASSUME VotesInv, MT!MTNext PROVE VotesInv'
  OBVIOUS
<1>1. ASSUME NEW autoApprove, MT!Close(autoApprove) PROVE VotesInv'
  BY <1>1 DEF MT!Close, VotesInv, Unvalidated, VotersOf, MT!Statuses
<1> QED BY <1>1, CreateKeepsVotes, SubmitKeepsVotes, StartKeepsVotes, ValidateKeepsVotes DEF MT!MTNext

LEMMA VotesOnce == VotesInv => MT!OneVoteEach
<1>1. \A S : MT!Cardinality(S) = Cardinality(S)
  BY DEF MT!Cardinality, Cardinality
<1> QED BY <1>1 DEF VotesInv, VotersOf, MT!OneVoteEach

\* What does not fill a HIT is dropped, so that fewer rows make no more HITs.
LEMMA Quotients ==
  ASSUME NEW m \in Nat, NEW n \in 0..m, NEW k \in Nat \ {0}
  PROVE  n \div k <= m \div k
<1>1. n \div k \in Int /\ m \div k \in Int
  OBVIOUS
<1>2. k * (n \div k) <= n
  OBVIOUS
<1>3. m < k * (m \div k) + k
  OBVIOUS
<1>4. ASSUME NEW a \in Int, NEW b \in Int, k * a < k * b + k
      PROVE  a <= b
  BY <1>4
<1> QED BY <1>1, <1>2, <1>3, <1>4

-----------------------------------------------------------------------------
\* The examples of Commandpedia and their likes.

ExamplesInv ==
  /\ nextEx \in 1..(MaxExample + 1)
  /\ ex \in [CP!ExampleIds -> CP!ExampleRows \cup {Null}]
  /\ \A i \in CP!Live : i < nextEx
  /\ \A i \in CP!Live : ex[i].name # Null => ~ex[i].synthetic
  /\ \A i, j \in CP!Live :
       ex[i].name # Null /\ ex[i].name = ex[j].name /\ ex[i].code = ex[j].code => i = j

\* A finite set as a sequence: each element once.
LEMMA EachOnce ==
  ASSUME NEW S, IsFiniteSet(S)
  PROVE  LET s == CP!SetToSeq(S)
         IN  /\ Len(s) \in Nat
             /\ \A k \in 1..Len(s) : s[k] \in S
             /\ \A k, m \in 1..Len(s) : s[k] = s[m] => k = m
<1>1. \A T : CP!Cardinality(T) = Cardinality(T)
  BY DEF CP!Cardinality, Cardinality
<1>2. Cardinality(S) \in Nat /\ ExistsBijection(1..Cardinality(S), S)
  BY FS_CardinalityType
<1>3. \E f \in [1..Cardinality(S) -> S] : CP!IsInjective(f)
  BY <1>2 DEF ExistsBijection, Bijection, Injection, IsInjective, CP!IsInjective
<1> DEFINE s == CP!SetToSeq(S)
<1>4. s \in [1..Cardinality(S) -> S] /\ CP!IsInjective(s)
  BY <1>1, <1>3 DEF CP!SetToSeq
<1> HIDE DEF s
<1>5. Len(s) = Cardinality(S)
  BY <1>2, <1>4
<1>6. \A k \in 1..Len(s) : s[k] \in S
  BY <1>4, <1>5
<1>7. \A k, m \in 1..Len(s) : s[k] = s[m] => k = m
  BY <1>4, <1>5 DEF CP!IsInjective
<1> QED BY <1>2, <1>5, <1>6, <1>7 DEF s

LEMMA ImageFinite ==
  ASSUME NEW S, IsFiniteSet(S), NEW f, DOMAIN f = S, f = [x \in S |-> f[x]]
  PROVE  IsFiniteSet({f[x] : x \in S})
<1>1. f \in Surjection(S, {f[x] : x \in S})
  BY DEF Surjection
<1> QED BY <1>1, FS_Surjection

\* The rows that a dataset makes.
LEMMA Created ==
  ASSUME NEW ds \in Datasets
  PROVE  /\ IsFiniteSet(CP!ToCreate(ds))
         /\ \A r \in CP!ToCreate(ds) :
              /\ r \in CP!ExampleRows /\ r.likeCount = 0
              /\ r.name # Null =>
                   /\ ~r.synthetic
                   /\ \E e \in ds.examples :
                        /\ r = CP!Row(e.name, Head(e.utterances), e.code, FALSE)
                        /\ \A i \in CP!BaseBySchema(ds) : ~CP!Matches(i, e)
<1> DEFINE P == {CP!Row(Null, p.utt, p.code, TRUE) : p \in ds.phrases}
           F == {e \in ds.examples : \A i \in CP!BaseBySchema(ds) : ~CP!Matches(i, e)}
           E == {CP!Row(e.name, Head(e.utterances), e.code, FALSE) : e \in F}
           O(e) == {CP!Row(Null, e.utterances[n], e.code, FALSE) : n \in 2 .. Len(e.utterances)}
           A == {O(e) : e \in ds.examples}
<1>1. CP!ToCreate(ds) = P \cup E \cup UNION A
  BY DEF CP!ToCreate
<1>2. IsFiniteSet(ds.phrases) /\ IsFiniteSet(ds.examples)
  BY DatasetsAssumption DEF CP!DatasetsAssumption, CP!IsFiniteSet, IsFiniteSet
<1>3. \A e \in ds.examples : /\ e \in CP!Examples /\ e.utterances \in Seq(CP!Texts) /\ e.utterances # <<>>
  BY DatasetsAssumption DEF CP!DatasetsAssumption, CP!Examples
<1>4. \A p \in ds.phrases : p \in CP!Phrases
  BY DEF CP!Phrases
<1>5. \A e \in ds.examples : Len(e.utterances) \in Nat /\ Head(e.utterances) \in CP!Texts
  BY <1>3
<1>6. IsFiniteSet(P)
  <2> DEFINE f == [p \in ds.phrases |-> CP!Row(Null, p.utt, p.code, TRUE)]
  <2>1. IsFiniteSet({f[p] : p \in ds.phrases})
    BY <1>2, ImageFinite
  <2> QED BY <2>1
<1>7. IsFiniteSet(E)
  <2> DEFINE f == [e \in F |-> CP!Row(e.name, Head(e.utterances), e.code, FALSE)]
  <2>1. IsFiniteSet(F)
    BY <1>2, FS_Subset
  <2>2. IsFiniteSet({f[e] : e \in F})
    BY <2>1, ImageFinite
  <2> QED BY <2>2
<1>8. IsFiniteSet(UNION A)
  <2>1. ASSUME NEW e \in ds.examples PROVE IsFiniteSet(O(e))
    <3> DEFINE f == [n \in 2..Len(e.utterances) |-> CP!Row(Null, e.utterances[n], e.code, FALSE)]
    <3>1. IsFiniteSet(2..Len(e.utterances))
      BY <1>5, FS_Interval
    <3>2. IsFiniteSet({f[n] : n \in 2..Len(e.utterances)})
      BY <3>1, ImageFinite
    <3> QED BY <3>2
  <2>2. IsFiniteSet(A)
    <3> DEFINE f == [e \in ds.examples |-> O(e)]
    <3>1. IsFiniteSet({f[e] : e \in ds.examples})
      BY <1>2, ImageFinite
    <3> QED BY <3>1
  <2> QED BY <2>1, <2>2, FS_UNION
<1>9. IsFiniteSet(CP!ToCreate(ds))
  <2> HIDE DEF P, E, A
  <2>1. IsFiniteSet(P \cup E)
    BY <1>6, <1>7, FS_Union
  <2>2. IsFiniteSet((P \cup E) \cup UNION A)
    BY <1>8, <2>1, FS_Union
  <2> QED BY <1>1, <2>2
<1>10. ASSUME NEW r \in P PROVE r \in CP!ExampleRows /\ r.likeCount = 0 /\ r.name = Null
  <2>1. PICK p \in ds.phrases : r = CP!Row(Null, p.utt, p.code, TRUE)
    OBVIOUS
  <2>2. p \in CP!Phrases /\ p.utt \in CP!Texts
    BY <1>4 DEF CP!Texts
  <2> QED BY <2>1, <2>2 DEF CP!Row, CP!ExampleRows
<1>11. ASSUME NEW r \in E
       PROVE  /\ r \in CP!ExampleRows /\ r.likeCount = 0 /\ ~r.synthetic
              /\ \E e \in ds.examples : /\ r = CP!Row(e.name, Head(e.utterances), e.code, FALSE)
                                        /\ \A i \in CP!BaseBySchema(ds) : ~CP!Matches(i, e)
  <2>1. PICK e \in F : r = CP!Row(e.name, Head(e.utterances), e.code, FALSE)
    OBVIOUS
  <2>2. e \in CP!Examples /\ Head(e.utterances) \in CP!Texts
    BY <1>3, <1>5
  <2>3. r \in CP!ExampleRows /\ r.likeCount = 0 /\ ~r.synthetic
    <3> HIDE DEF E, F
    <3> QED BY <2>1, <2>2 DEF CP!Row, CP!ExampleRows
  <2>4. e \in ds.examples /\ \A i \in CP!BaseBySchema(ds) : ~CP!Matches(i, e)
    OBVIOUS
  <2> HIDE DEF E, F
  <2> QED BY <2>1, <2>3, <2>4
<1>12. ASSUME NEW r \in UNION A PROVE r \in CP!ExampleRows /\ r.likeCount = 0 /\ r.name = Null
  <2>1. PICK e \in ds.examples : r \in O(e)
    OBVIOUS
  <2>2. PICK n \in 2..Len(e.utterances) : r = CP!Row(Null, e.utterances[n], e.code, FALSE)
    BY <2>1
  <2>3. e \in CP!Examples /\ e.utterances[n] \in CP!Texts
    BY <1>3, <1>5
  <2> QED BY <2>2, <2>3 DEF CP!Row, CP!ExampleRows
<1> HIDE DEF P, E, A
<1> QED BY <1>1, <1>9, <1>10, <1>11, <1>12

\* A dataset that is saved: a row stays what it was but for its utterance, and
\* a row with a name stays only if the dataset has its example; the others are
\* new, each once.
LEMMA Saved ==
  ASSUME ExamplesInv, NEW ds \in Datasets, CP!EnsureDataset(ds)
  PROVE  /\ nextEx' \in nextEx..(MaxExample + 1)
         /\ DOMAIN ex' = CP!ExampleIds /\ ex' = [i \in CP!ExampleIds |-> ex'[i]]
         /\ \A i \in CP!ExampleIds : ex'[i] # Null =>
              \/ /\ ex[i] # Null /\ ex'[i] \in CP!ExampleRows
                 /\ ex'[i].name = ex[i].name /\ ex'[i].code = ex[i].code
                 /\ ex'[i].synthetic = ex[i].synthetic /\ ex'[i].likeCount = ex[i].likeCount
                 /\ ex[i].name # Null => \E e \in ds.examples : CP!Matches(i, e)
              \/ i \in nextEx..(nextEx' - 1) /\ ex'[i] \in CP!ToCreate(ds)
         /\ \A i, j \in nextEx..(nextEx' - 1) : ex'[i] = ex'[j] => i = j
         /\ \E gone \in SUBSET CP!Live :
              /\ likes' = {l \in likes : l[2] \notin gone}
              /\ \A i \in gone : ex'[i] = Null
              /\ \A i \in CP!Live \ gone : ex'[i] # Null
<1> USE DEF ExamplesInv
<1>1. PICK keep : keep = CP!ToKeep(ds)
  OBVIOUS
<1>2. PICK gone : gone = CP!BaseBySchema(ds) \ keep
  OBVIOUS
<1>3. PICK new : new = CP!SetToSeq(CP!ToCreate(ds))
  OBVIOUS
<1>4. /\ Len(new) \in Nat
      /\ \A k \in 1..Len(new) : new[k] \in CP!ToCreate(ds)
      /\ \A k, m \in 1..Len(new) : new[k] = new[m] => k = m
  BY <1>3, Created, EachOnce
<1> DEFINE kept(i) == [ex[i] EXCEPT !.utt = Head((CHOOSE e \in ds.examples : CP!Matches(i, e)).utterances)]
<1>5. /\ nextEx + Len(new) <= MaxExample + 1 /\ nextEx' = nextEx + Len(new)
      /\ likes' = {l \in likes : l[2] \notin gone}
      /\ ex' = [i \in CP!ExampleIds |->
                  CASE i \in keep -> kept(i)
                    [] i \in gone -> Null
                    [] i \in nextEx .. nextEx + Len(new) - 1 -> new[i - nextEx + 1]
                    [] OTHER -> ex[i]]
  BY <1>1, <1>2, <1>3 DEF CP!EnsureDataset
<1>6. nextEx \in Nat /\ nextEx' \in nextEx..(MaxExample + 1)
  BY <1>4, <1>5, BoundsAssumption
<1>7. CP!BaseBySchema(ds) \subseteq CP!Live /\ keep \subseteq CP!BaseBySchema(ds)
  BY <1>1 DEF CP!BaseBySchema, CP!ToKeep
<1>8. ASSUME NEW i \in keep
      PROVE  /\ kept(i) \in CP!ExampleRows
             /\ kept(i).name = ex[i].name /\ kept(i).code = ex[i].code
             /\ kept(i).synthetic = ex[i].synthetic /\ kept(i).likeCount = ex[i].likeCount
             /\ \E e \in ds.examples : CP!Matches(i, e)
  <2>1. \E e \in ds.examples : CP!Matches(i, e)
    BY <1>1 DEF CP!ToKeep
  <2>2. PICK u : u = Head((CHOOSE e \in ds.examples : CP!Matches(i, e)).utterances)
    OBVIOUS
  <2>3. u \in CP!Texts
    <3>1. PICK e : e = CHOOSE f \in ds.examples : CP!Matches(i, f)
      OBVIOUS
    <3>2. e \in ds.examples /\ u = Head(e.utterances)
      BY <2>1, <2>2, <3>1
    <3>3. e.utterances \in Seq(CP!Texts) /\ e.utterances # <<>>
      BY <3>2, DatasetsAssumption DEF CP!DatasetsAssumption, CP!Examples
    <3> QED BY <3>2, <3>3
  <2>4. ex[i] \in CP!ExampleRows
    BY <1>7 DEF CP!Live
  <2>5. kept(i) = [ex[i] EXCEPT !.utt = u]
    BY <2>2
  <2> HIDE DEF kept
  <2>6. /\ kept(i) \in CP!ExampleRows
        /\ kept(i).name = ex[i].name /\ kept(i).code = ex[i].code
        /\ kept(i).synthetic = ex[i].synthetic /\ kept(i).likeCount = ex[i].likeCount
    BY <2>3, <2>4, <2>5 DEF CP!ExampleRows
  <2> QED BY <2>1, <2>6
<1> HIDE DEF kept
<1>10. ASSUME NEW i \in CP!Live PROVE i \notin nextEx..(nextEx' - 1)
  <2>1. i < nextEx /\ i \in Int
    BY DEF CP!Live, CP!ExampleIds
  <2>2. PICK n : n = nextEx'
    OBVIOUS
  <2>3. n \in Int /\ nextEx \in Int
    BY <1>6, <2>2, BoundsAssumption
  <2>4. i \notin nextEx..(n - 1)
    BY <2>1, <2>3
  <2> QED BY <2>2, <2>4
<1>9. ASSUME NEW i \in CP!ExampleIds
      PROVE  /\ i \in keep => ex'[i] = kept(i)
             /\ i \in gone => ex'[i] = Null
             /\ i \notin keep /\ i \notin gone /\ i \in nextEx..(nextEx' - 1) =>
                  i - nextEx + 1 \in 1..Len(new) /\ ex'[i] = new[i - nextEx + 1]
             /\ i \notin keep /\ i \notin gone /\ i \notin nextEx..(nextEx' - 1) => ex'[i] = ex[i]
  <2>1. nextEx..(nextEx' - 1) = nextEx..(nextEx + Len(new) - 1)
    BY <1>5
  <2>2. i \in nextEx..(nextEx' - 1) => i - nextEx + 1 \in 1..Len(new)
    BY <1>4, <1>5, <1>6
  <2>3. PICK k : k = kept(i)
    OBVIOUS
  <2>4. PICK x : x = new[i - nextEx + 1]
    OBVIOUS
  <2>5. PICK fresh \in BOOLEAN : fresh <=> i \in nextEx..(nextEx + Len(new) - 1)
    OBVIOUS
  <2>6. ex'[i] = CASE i \in keep -> k
                   [] i \in gone -> Null
                   [] fresh -> x
                   [] OTHER -> ex[i]
    BY <1>5, <2>3, <2>4, <2>5
  <2>7. i \in keep => i \notin gone /\ ~fresh
    BY <1>2, <1>7, <1>10, <2>1, <2>5
  <2>8. i \in gone => ~fresh
    BY <1>2, <1>7, <1>10, <2>1, <2>5
  <2>9. /\ i \in keep => ex'[i] = k
        /\ i \in gone => ex'[i] = Null
        /\ i \notin keep /\ i \notin gone /\ fresh => ex'[i] = x
        /\ i \notin keep /\ i \notin gone /\ ~fresh => ex'[i] = ex[i]
    BY <2>6, <2>7, <2>8
  <2> QED BY <2>1, <2>2, <2>3, <2>4, <2>5, <2>9
<1>11. \A i \in nextEx..(nextEx' - 1) :
         /\ i \in CP!ExampleIds /\ i \notin keep /\ i \notin gone
         /\ i - nextEx + 1 \in 1..Len(new) /\ ex'[i] = new[i - nextEx + 1]
  <2> SUFFICES ASSUME NEW i \in nextEx..(nextEx' - 1)
               PROVE  /\ i \in CP!ExampleIds /\ i \notin keep /\ i \notin gone
                      /\ i - nextEx + 1 \in 1..Len(new) /\ ex'[i] = new[i - nextEx + 1]
    OBVIOUS
  <2>1. i \in CP!ExampleIds
    BY <1>6, BoundsAssumption DEF CP!ExampleIds
  <2>2. i \notin keep /\ i \notin gone
    BY <1>2, <1>7, <1>10
  <2> QED BY <1>9, <2>1, <2>2
<1>12. ASSUME NEW i \in CP!ExampleIds, ex'[i] # Null
       PROVE  \/ /\ ex[i] # Null /\ ex'[i] \in CP!ExampleRows
                 /\ ex'[i].name = ex[i].name /\ ex'[i].code = ex[i].code
                 /\ ex'[i].synthetic = ex[i].synthetic /\ ex'[i].likeCount = ex[i].likeCount
                 /\ ex[i].name # Null => \E e \in ds.examples : CP!Matches(i, e)
              \/ i \in nextEx..(nextEx' - 1) /\ ex'[i] \in CP!ToCreate(ds)
  <2>1. CASE i \in keep
    BY <1>7, <1>8, <1>9, <2>1 DEF CP!Live
  <2>2. CASE i \in gone
    BY <1>9, <1>12, <2>2
  <2>3. CASE i \in nextEx..(nextEx' - 1)
    BY <1>4, <1>11, <2>3
  <2>4. CASE i \notin keep /\ i \notin gone /\ i \notin nextEx..(nextEx' - 1)
    <3>1. ex'[i] = ex[i] /\ ex[i] # Null
      BY <1>9, <1>12, <2>4
    <3>2. i \in CP!Live /\ i \notin CP!BaseBySchema(ds)
      BY <1>2, <2>4, <3>1 DEF CP!Live
    <3>3. ex[i].name = Null
      BY <3>2 DEF CP!BaseBySchema
    <3> QED BY <3>1, <3>3
  <2> QED BY <2>1, <2>2, <2>3, <2>4
<1>13. ASSUME NEW i \in nextEx..(nextEx' - 1), NEW j \in nextEx..(nextEx' - 1), ex'[i] = ex'[j]
       PROVE  i = j
  <2>1. i - nextEx + 1 = j - nextEx + 1
    BY <1>4, <1>11, <1>13
  <2> QED BY <1>6, <2>1
<1>14. \A i \in CP!Live \ gone : ex'[i] # Null
  <2> SUFFICES ASSUME NEW i \in CP!Live \ gone PROVE ex'[i] # Null
    OBVIOUS
  <2>1. i \in CP!ExampleIds /\ ex[i] # Null
    BY DEF CP!Live
  <2>2. Null \notin CP!ExampleRows
    BY DatasetsAssumption DEF CP!DatasetsAssumption
  <2> QED BY <1>8, <1>9, <1>10, <2>1, <2>2
<1>15. gone \in SUBSET CP!Live /\ \A i \in gone : ex'[i] = Null
  BY <1>2, <1>7, <1>9 DEF CP!Live
<1>16. DOMAIN ex' = CP!ExampleIds /\ ex' = [i \in CP!ExampleIds |-> ex'[i]]
  BY <1>5
<1> QED BY <1>5, <1>6, <1>12, <1>13, <1>14, <1>15, <1>16

\* One step of the table never gives a new id to an example that is there.
KeepsIds ==
  \A i, j \in CP!ExampleIds :
    (/\ ex[i] # Null /\ ex'[j] # Null /\ ex[i].name # Null
     /\ ex[i].name = ex'[j].name /\ ex[i].code = ex'[j].code) => i = j

LEMMA SavedKeeps ==
  ASSUME ExamplesInv, NEW ds \in Datasets, CP!EnsureDataset(ds)
  PROVE  ExamplesInv' /\ KeepsIds
<1>1. nextEx \in 1..(MaxExample + 1) /\ nextEx' \in nextEx..(MaxExample + 1)
  BY Saved DEF ExamplesInv
<1>2. ex' \in [CP!ExampleIds -> CP!ExampleRows \cup {Null}]
  BY Saved, Created
<1>3. ASSUME NEW i \in CP!ExampleIds, ex'[i] # Null
      PROVE  i < nextEx'
  BY <1>1, <1>3, Saved DEF ExamplesInv, CP!Live, CP!ExampleIds
<1>4. ASSUME NEW i \in CP!ExampleIds, ex'[i] # Null, ex'[i].name # Null
      PROVE  ~ex'[i].synthetic
  BY <1>4, Saved, Created DEF ExamplesInv, CP!Live
\* A named row is of an example of the dataset, whose rows did not match if it is new.
<1>5. ASSUME NEW i \in CP!ExampleIds, ex'[i] # Null, ex'[i].name # Null
      PROVE  \/ /\ ex[i] # Null /\ ex'[i].name = ex[i].name /\ ex'[i].code = ex[i].code
                /\ \E e \in ds.examples : e.name = ex[i].name /\ e.code = ex[i].code
             \/ /\ i \in nextEx..(nextEx' - 1)
                /\ \E e \in ds.examples :
                     /\ ex'[i] = CP!Row(e.name, Head(e.utterances), e.code, FALSE)
                     /\ \A k \in CP!BaseBySchema(ds) : ~CP!Matches(k, e)
  <2>1. \A e : CP!Matches(i, e) => e.name = ex[i].name /\ e.code = ex[i].code
    BY DEF CP!Matches
  <2>2. CASE /\ ex[i] # Null /\ ex'[i].name = ex[i].name /\ ex'[i].code = ex[i].code
             /\ ex[i].name # Null => \E e \in ds.examples : CP!Matches(i, e)
    BY <1>5, <2>1, <2>2
  <2>3. CASE i \in nextEx..(nextEx' - 1) /\ ex'[i] \in CP!ToCreate(ds)
    BY <1>5, <2>3, Created
  <2> QED BY <1>5, <2>2, <2>3, Saved
<1>6. ASSUME NEW i \in CP!ExampleIds, NEW j \in CP!ExampleIds,
             ex[i] # Null, ex'[j] # Null, ex[i].name # Null,
             ex[i].name = ex'[j].name, ex[i].code = ex'[j].code
      PROVE  i = j
  <2>1. CASE ex[j] # Null /\ ex'[j].name = ex[j].name /\ ex'[j].code = ex[j].code
    BY <1>6, <2>1 DEF ExamplesInv, CP!Live
  <2>2. CASE \E e \in ds.examples : /\ ex'[j] = CP!Row(e.name, Head(e.utterances), e.code, FALSE)
                                   /\ \A k \in CP!BaseBySchema(ds) : ~CP!Matches(k, e)
    <3>1. PICK e \in ds.examples : /\ ex'[j] = CP!Row(e.name, Head(e.utterances), e.code, FALSE)
                                   /\ \A k \in CP!BaseBySchema(ds) : ~CP!Matches(k, e)
      BY <2>2
    <3>2. e.name = ex[i].name /\ e.code = ex[i].code
      BY <1>6, <3>1 DEF CP!Row
    <3>3. i \in CP!BaseBySchema(ds)
      BY <1>6 DEF CP!BaseBySchema, CP!Live, ExamplesInv
    <3>4. CP!Matches(i, e)
      BY <1>6, <3>2 DEF CP!Matches
    <3> QED BY <3>1, <3>3, <3>4
  <2> QED BY <1>5, <1>6, <2>1, <2>2
<1>7. ASSUME NEW i \in CP!ExampleIds, NEW j \in CP!ExampleIds,
             ex'[i] # Null, ex'[j] # Null, ex'[i].name # Null,
             ex'[i].name = ex'[j].name, ex'[i].code = ex'[j].code
      PROVE  i = j
  <2>1. CASE ex[i] # Null /\ ex'[i].name = ex[i].name /\ ex'[i].code = ex[i].code
    BY <1>6, <1>7, <2>1
  <2>2. CASE ex[j] # Null /\ ex'[j].name = ex[j].name /\ ex'[j].code = ex[j].code
    BY <1>6, <1>7, <2>2
  <2>3. CASE /\ i \in nextEx..(nextEx' - 1) /\ j \in nextEx..(nextEx' - 1)
             /\ \E e \in ds.examples : ex'[i] = CP!Row(e.name, Head(e.utterances), e.code, FALSE)
             /\ \E e \in ds.examples : ex'[j] = CP!Row(e.name, Head(e.utterances), e.code, FALSE)
    <3>1. PICK e \in ds.examples : ex'[i] = CP!Row(e.name, Head(e.utterances), e.code, FALSE)
      BY <2>3
    <3>2. PICK f \in ds.examples : ex'[j] = CP!Row(f.name, Head(f.utterances), f.code, FALSE)
      BY <2>3
    <3>3. e.name = f.name
      BY <1>7, <3>1, <3>2 DEF CP!Row
    <3>4. e = f
      BY <3>3, DatasetsAssumption DEF CP!DatasetsAssumption
    <3> QED BY <2>3, <3>1, <3>2, <3>4, Saved
  <2>4. ex'[j].name # Null
    BY <1>7
  <2>5. \/ ex[i] # Null /\ ex'[i].name = ex[i].name /\ ex'[i].code = ex[i].code
        \/ /\ i \in nextEx..(nextEx' - 1)
           /\ \E e \in ds.examples : ex'[i] = CP!Row(e.name, Head(e.utterances), e.code, FALSE)
    BY <1>5, <1>7
  <2>6. \/ ex[j] # Null /\ ex'[j].name = ex[j].name /\ ex'[j].code = ex[j].code
        \/ /\ j \in nextEx..(nextEx' - 1)
           /\ \E e \in ds.examples : ex'[j] = CP!Row(e.name, Head(e.utterances), e.code, FALSE)
    BY <1>5, <1>7, <2>4
  <2> QED BY <2>1, <2>2, <2>3, <2>5, <2>6
<1>8. nextEx' \in 1..(MaxExample + 1)
  BY <1>1, BoundsAssumption
<1>9. ExamplesInv'
  BY <1>2, <1>3, <1>4, <1>7, <1>8 DEF ExamplesInv, CP!Live
<1> QED BY <1>6, <1>9 DEF KeepsIds

\* An action that adds no example leaves the ids alone.
LEMMA FewerExamples ==
  ASSUME ExamplesInv, nextEx' = nextEx,
         DOMAIN ex' = CP!ExampleIds, ex' = [i \in CP!ExampleIds |-> ex'[i]],
         \A i \in CP!ExampleIds : ex'[i] # Null =>
           /\ ex[i] # Null /\ ex'[i] \in CP!ExampleRows
           /\ ex'[i].name = ex[i].name /\ ex'[i].code = ex[i].code
           /\ ex'[i].synthetic = ex[i].synthetic
  PROVE  ExamplesInv' /\ KeepsIds
<1>1. ex' \in [CP!ExampleIds -> CP!ExampleRows \cup {Null}]
  OBVIOUS
<1>2. \A i \in CP!Live' : i \in CP!Live
  BY DEF CP!Live
<1>3. \A i, j \in CP!Live' :
        ex'[i].name # Null /\ ex'[i].name = ex'[j].name /\ ex'[i].code = ex'[j].code => i = j
  BY <1>2 DEF ExamplesInv, CP!Live
<1>4. KeepsIds
  BY DEF ExamplesInv, CP!Live, KeepsIds
<1>5. \A i \in CP!Live' : i < nextEx' /\ (ex'[i].name # Null => ~ex'[i].synthetic)
  BY <1>2 DEF ExamplesInv, CP!Live
<1>6. nextEx' \in 1..(MaxExample + 1)
  BY DEF ExamplesInv
<1> QED BY <1>1, <1>3, <1>4, <1>5, <1>6 DEF ExamplesInv

\* The likes of an example, and the votes on it that are half done.
LikesOf(i) == {l \in likes : l[2] = i}
Adding(i) == CP!Pending(i, "liked")
Removing(i) == {v \in CP!Pending(i, "unliked") : vote[v].counted}
Busy == {v \in Votes : vote[v].pc # "idle"}
VoteRecords ==
  [pc : {"liked"}, user : Voters, ex : CP!ExampleIds]
    \cup [pc : {"unliked"}, user : Voters, ex : CP!ExampleIds, counted : BOOLEAN]

Tally(i) ==
  ex[i].likeCount = Cardinality(LikesOf(i)) - Cardinality(Adding(i)) - Cardinality(Removing(i))

\* A user has one vote under way on an example, unless the counter drifted; it
\* has counted the like that it is going to delete.
LikesInv ==
  /\ IsFiniteSet(likes) /\ likes \subseteq Voters \X CP!Live
  /\ IsFiniteSet(Busy)
  /\ vote \in [Votes -> VoteRecords \cup {CP!NoVote}]
  /\ \A v \in Busy : vote[v].ex < nextEx \/ (vote[v].pc = "unliked" /\ ~vote[v].counted)
  /\ \A v, w \in Busy :
       vote[v].user = vote[w].user /\ vote[v].ex = vote[w].ex /\ vote[v].ex \notin drift => v = w
  /\ \A v \in Busy :
       vote[v].pc = "unliked" /\ vote[v].ex \in CP!Live \ drift =>
         (vote[v].counted <=> <<vote[v].user, vote[v].ex>> \in likes)
  /\ \A i \in CP!Live \ drift : Tally(i)

LEMMA LikesHold == LikesInv => CP!LikesCounted
<1>1. \A S : CP!Cardinality(S) = Cardinality(S)
  BY DEF CP!Cardinality, Cardinality
<1> QED BY <1>1 DEF LikesInv, Tally, LikesOf, Adding, Removing, CP!LikesCounted

LEMMA CommandpediaInit == CP!CInit => ExamplesInv /\ LikesInv
<1> SUFFICES ASSUME CP!CInit PROVE ExamplesInv /\ LikesInv
  OBVIOUS
<1> USE DEF CP!CInit
<1>1. CP!Live = {}
  BY DEF CP!Live
<1>2. Busy = {}
  BY DEF Busy, CP!NoVote
<1>3. IsFiniteSet({})
  BY FS_EmptySet
<1>4. ExamplesInv
  BY <1>1, BoundsAssumption DEF ExamplesInv
<1>5. vote \in [Votes -> VoteRecords \cup {CP!NoVote}]
  OBVIOUS
<1>6. LikesInv
  BY <1>1, <1>2, <1>3, <1>5 DEF LikesInv
<1> QED BY <1>4, <1>6

\* What is known of a vote under way.
LEMMA BusyVote ==
  ASSUME LikesInv, NEW v \in Busy
  PROVE  /\ v \in Votes /\ vote[v].pc \in {"liked", "unliked"} /\ vote[v].user \in Voters
         /\ vote[v].ex \in CP!ExampleIds
         /\ vote[v].pc = "unliked" => vote[v].counted \in BOOLEAN
BY DEF LikesInv, Busy, VoteRecords, CP!NoVote

\* The finite sets of the tally.
LEMMA TallyFinite ==
  ASSUME LikesInv, NEW i
  PROVE  /\ IsFiniteSet(LikesOf(i)) /\ IsFiniteSet(Adding(i)) /\ IsFiniteSet(Removing(i))
         /\ Cardinality(LikesOf(i)) \in Nat /\ Cardinality(Adding(i)) \in Nat
         /\ Cardinality(Removing(i)) \in Nat
<1>1. LikesOf(i) \subseteq likes /\ Adding(i) \subseteq Busy /\ Removing(i) \subseteq Busy
  BY DEF LikesOf, Adding, Removing, Busy, CP!Pending
<1>2. IsFiniteSet(LikesOf(i)) /\ IsFiniteSet(Adding(i)) /\ IsFiniteSet(Removing(i))
  BY <1>1, FS_Subset DEF LikesInv
<1> QED BY <1>2, FS_CardinalityType

LEMMA TallyIdle == ExamplesInv /\ LikesInv /\ UNCHANGED commandpediaVars
                     => ExamplesInv' /\ LikesInv' /\ KeepsIds
<1> SUFFICES ASSUME ExamplesInv, LikesInv, UNCHANGED commandpediaVars
             PROVE  ExamplesInv' /\ LikesInv' /\ KeepsIds
  OBVIOUS
<1> USE DEF commandpediaVars
<1>1. LikesInv'
  BY DEF LikesInv, Busy, Tally, LikesOf, Adding, Removing, CP!Pending, CP!Live
<1>2. ExamplesInv'
  BY DEF ExamplesInv, CP!Live
<1>3. KeepsIds
  BY DEF ExamplesInv, KeepsIds, CP!Live
<1> QED BY <1>1, <1>2, <1>3

-----------------------------------------------------------------------------
\* A dataset is saved.
LEMMA SavedCounts ==
  ASSUME ExamplesInv, LikesInv, NEW ds \in Datasets, CP!EnsureDataset(ds)
  PROVE  LikesInv'
<1>1. vote' = vote /\ drift' = drift
  BY DEF CP!EnsureDataset
<1>2. PICK gone \in SUBSET CP!Live : /\ likes' = {l \in likes : l[2] \notin gone}
                                     /\ \A i \in gone : ex'[i] = Null
                                     /\ \A i \in CP!Live \ gone : ex'[i] # Null
  BY Saved
<1>3. nextEx \in Int /\ nextEx' \in Int /\ nextEx <= nextEx'
  BY Saved, BoundsAssumption DEF ExamplesInv
<1>4. ASSUME NEW i \in CP!ExampleIds, ex'[i] # Null
      PROVE  \/ i \in CP!Live \ gone /\ ex'[i].likeCount = ex[i].likeCount
             \/ nextEx <= i /\ i \notin CP!Live /\ ex'[i].likeCount = 0
  <2>1. CASE ex[i] # Null /\ ex'[i].likeCount = ex[i].likeCount
    BY <1>2, <1>4, <2>1 DEF CP!Live
  <2>2. CASE i \in nextEx..(nextEx' - 1) /\ ex'[i] \in CP!ToCreate(ds)
    <3>1. ex'[i].likeCount = 0
      BY <2>2, Created
    <3>2. PICK n : n = nextEx'
      OBVIOUS
    <3>3. n \in Int /\ i \in nextEx..(n - 1)
      BY <1>3, <2>2, <3>2
    <3>4. nextEx <= i
      BY <1>3, <3>3
    <3>5. i \notin CP!Live
      BY <1>3, <3>4 DEF ExamplesInv, CP!ExampleIds
    <3> QED BY <3>1, <3>4, <3>5
  <2> QED BY <1>4, <2>1, <2>2, Saved
<1>5. Busy' = Busy /\ \A i : Adding(i)' = Adding(i) /\ Removing(i)' = Removing(i)
  BY <1>1 DEF Busy, Adding, Removing, CP!Pending
<1>6. IsFiniteSet(likes') /\ likes' \subseteq Voters \X CP!Live'
  <2>1. IsFiniteSet(likes')
    BY <1>2, FS_Subset DEF LikesInv
  <2>2. ASSUME NEW l \in likes' PROVE l \in Voters \X CP!Live'
    <3>1. l \in Voters \X CP!Live /\ l[2] \notin gone
      BY <1>2 DEF LikesInv
    <3>2. l[2] \in CP!Live'
      BY <1>2, <3>1 DEF CP!Live
    <3> QED BY <3>1, <3>2
  <2> QED BY <2>1, <2>2
<1>7. ASSUME NEW v \in Busy
      PROVE  vote[v].ex < nextEx' \/ (vote[v].pc = "unliked" /\ ~vote[v].counted)
  BY <1>3, BusyVote DEF LikesInv, CP!ExampleIds
<1>8. ASSUME NEW i \in CP!ExampleIds, nextEx <= i
      PROVE  Adding(i) = {} /\ Removing(i) = {}
  BY <1>3, <1>8 DEF LikesInv, Adding, Removing, CP!Pending, Busy, CP!ExampleIds
<1>9. ASSUME NEW v \in Busy, vote[v].pc = "unliked", vote[v].ex \in CP!Live', vote[v].ex \notin drift
      PROVE  vote[v].counted <=> <<vote[v].user, vote[v].ex>> \in likes'
  <2>1. PICK i : i = vote[v].ex
    OBVIOUS
  <2>2. i \in CP!ExampleIds /\ ex'[i] # Null
    BY <1>9, <2>1 DEF CP!Live
  <2>3. CASE i \in CP!Live \ gone
    BY <1>2, <1>9, <2>1, <2>3 DEF LikesInv
  <2>4. CASE nextEx <= i /\ i \notin CP!Live
    <3>1. ~vote[v].counted
      BY <1>3, <1>9, <2>1, <2>2, <2>4 DEF LikesInv, CP!ExampleIds
    <3>2. <<vote[v].user, i>> \notin likes
      BY <2>4 DEF LikesInv
    <3> QED BY <1>2, <2>1, <3>1, <3>2
  <2> QED BY <1>4, <2>2, <2>3, <2>4
<1>10. ASSUME NEW i \in CP!Live', i \notin drift
       PROVE  ex'[i].likeCount = Cardinality(LikesOf(i)') - Cardinality(Adding(i)) - Cardinality(Removing(i))
  <2>1. i \in CP!ExampleIds /\ ex'[i] # Null
    BY DEF CP!Live
  <2>2. CASE i \in CP!Live \ gone /\ ex'[i].likeCount = ex[i].likeCount
    <3>1. LikesOf(i)' = LikesOf(i)
      BY <1>2, <2>2 DEF LikesOf
    <3> QED BY <1>10, <2>2, <3>1 DEF LikesInv, Tally
  <2>3. CASE nextEx <= i /\ i \notin CP!Live /\ ex'[i].likeCount = 0
    <3>1. LikesOf(i)' = {}
      BY <1>2, <2>3 DEF LikesOf, LikesInv
    <3>2. Adding(i) = {} /\ Removing(i) = {}
      BY <1>8, <2>1, <2>3
    <3>3. PICK N : N = {}
      OBVIOUS
    <3>4. Cardinality(N) = 0
      BY <3>3, FS_EmptySet
    <3> QED BY <2>3, <3>1, <3>2, <3>3, <3>4
  <2> QED BY <1>4, <2>1, <2>2, <2>3
<1>11. \A i \in CP!Live' \ drift' : Tally(i)'
  BY <1>1, <1>5, <1>10 DEF Tally
<1>12. /\ IsFiniteSet(Busy') /\ vote' \in [Votes -> VoteRecords \cup {CP!NoVote}]
       /\ \A v, w \in Busy' :
            vote'[v].user = vote'[w].user /\ vote'[v].ex = vote'[w].ex /\ vote'[v].ex \notin drift' => v = w
  BY <1>1, <1>5 DEF LikesInv
<1>13. /\ \A v \in Busy' : vote'[v].ex < nextEx' \/ (vote'[v].pc = "unliked" /\ ~vote'[v].counted)
       /\ \A v \in Busy' :
            vote'[v].pc = "unliked" /\ vote'[v].ex \in CP!Live' \ drift' =>
              (vote'[v].counted <=> <<vote'[v].user, vote'[v].ex>> \in likes')
  BY <1>1, <1>5, <1>7, <1>9
<1> QED BY <1>6, <1>11, <1>12, <1>13 DEF LikesInv

\* The counter of an example that is there changes by n.
LEMMA LikesAdded ==
  ASSUME ExamplesInv, NEW i \in CP!ExampleIds, NEW n \in Int, ex' = CP!AddLikes(i, n), nextEx' = nextEx
  PROVE  /\ ExamplesInv' /\ KeepsIds /\ CP!Live' = CP!Live
         /\ \A j \in CP!Live : j # i => ex'[j].likeCount = ex[j].likeCount
         /\ i \in CP!Live => ex'[i].likeCount = ex[i].likeCount + n
<1>1. \A j \in CP!ExampleIds : ex[j] # Null => ex[j] \in CP!ExampleRows
  BY DEF ExamplesInv
<1>2. CASE ex[i] = Null
  <2>1. ex' = ex
    BY <1>2 DEF CP!AddLikes
  <2> QED BY <1>1, <1>2, <2>1, FewerExamples DEF ExamplesInv, CP!Live
<1>3. CASE ex[i] # Null
  <2>1. PICK r : r = [ex[i] EXCEPT !.likeCount = @ + n]
    OBVIOUS
  <2>2. ex' = [ex EXCEPT ![i] = r]
    BY <1>3, <2>1 DEF CP!AddLikes
  <2>3. ex[i] \in CP!ExampleRows
    BY <1>1, <1>3
  <2>4. /\ r \in CP!ExampleRows /\ r.name = ex[i].name /\ r.code = ex[i].code
        /\ r.synthetic = ex[i].synthetic /\ r.likeCount = ex[i].likeCount + n
    BY <2>1, <2>3 DEF CP!ExampleRows
  <2>5. r # Null
    BY <2>4, DatasetsAssumption DEF CP!DatasetsAssumption
  <2>6. ex'[i] = r /\ \A j \in CP!ExampleIds : j # i => ex'[j] = ex[j]
    BY <2>2 DEF ExamplesInv
  <2>7. DOMAIN ex' = CP!ExampleIds /\ ex' = [j \in CP!ExampleIds |-> ex'[j]]
    BY <2>2 DEF ExamplesInv
  <2>8. \A j \in CP!ExampleIds : ex'[j] # Null =>
           /\ ex[j] # Null /\ ex'[j] \in CP!ExampleRows
           /\ ex'[j].name = ex[j].name /\ ex'[j].code = ex[j].code
           /\ ex'[j].synthetic = ex[j].synthetic
    BY <1>1, <1>3, <2>4, <2>6
  <2>9. ExamplesInv' /\ KeepsIds
    BY <2>7, <2>8, FewerExamples
  <2>10. CP!Live' = CP!Live
    BY <1>3, <2>5, <2>6 DEF CP!Live
  <2> QED BY <2>4, <2>6, <2>9, <2>10 DEF CP!Live
<1> QED BY <1>2, <1>3

\* What a vote v on example i leaves alone, at its beginning or end.
LEMMA OthersTally ==
  ASSUME LikesInv, NEW v \in Votes, NEW i,
         \A w \in Votes : w # v => vote'[w] = vote[w],
         vote[v].pc = "idle" \/ vote[v].ex = i, vote'[v].pc = "idle" \/ vote'[v].ex = i,
         \A l : l[2] # i => (l \in likes' <=> l \in likes),
         \A j \in CP!Live : j # i => ex'[j].likeCount = ex[j].likeCount
  PROVE  \A j \in CP!Live \ drift : j # i => Tally(j)'
<1> SUFFICES ASSUME NEW j \in CP!Live \ drift, j # i PROVE Tally(j)'
  OBVIOUS
<1>1. Adding(j)' = Adding(j)
  BY DEF Adding, CP!Pending
<1>2. Removing(j)' = Removing(j)
  BY DEF Removing, CP!Pending
<1>3. LikesOf(j)' = LikesOf(j)
  BY DEF LikesOf
<1> QED BY <1>1, <1>2, <1>3 DEF LikesInv, Tally

LEMMA VoteBegins ==
  ASSUME ExamplesInv, LikesInv, NEW v \in Votes, NEW u \in Voters, NEW i \in CP!ExampleIds,
         CP!MayVote(v, i), drift' = CP!DriftWith(u, i),
         NEW r \in VoteRecords, r.user = u, r.ex = i, vote' = [vote EXCEPT ![v] = r],
         i < nextEx \/ (r.pc = "unliked" /\ ~r.counted),
         CP!Live' = CP!Live, nextEx' = nextEx, IsFiniteSet(likes'), likes' \subseteq Voters \X CP!Live,
         \A l : l # <<u, i>> => (l \in likes' <=> l \in likes),
         r.pc = "unliked" /\ i \in CP!Live => (r.counted <=> <<u, i>> \in likes'),
         \A j \in CP!Live : j # i => ex'[j].likeCount = ex[j].likeCount,
         i \in CP!Live => Tally(i)'
  PROVE  LikesInv'
<1>1. vote'[v] = r /\ \A w \in Votes : w # v => vote'[w] = vote[w]
  BY DEF LikesInv
<1>2. r.pc \in {"liked", "unliked"}
  BY DEF VoteRecords
<1>3. vote[v].pc = "idle" /\ v \notin Busy
  BY DEF CP!MayVote, Busy
<1>4. Busy' = Busy \cup {v}
  BY <1>1, <1>2, <1>3 DEF Busy
<1>5. IsFiniteSet(Busy')
  BY <1>4, FS_AddElement DEF LikesInv
<1>6. vote' \in [Votes -> VoteRecords \cup {CP!NoVote}]
  BY DEF LikesInv
<1>7. drift \subseteq drift'
  BY DEF CP!DriftWith
\* Another vote of the same user on the same example drifts.
<1>8. ASSUME NEW w \in Busy, vote[w].user = u, vote[w].ex = i PROVE i \in drift'
  <2>1. w \in CP!PendingBy(u, i)
    BY <1>8 DEF CP!PendingBy, Busy
  <2> QED BY <2>1 DEF CP!DriftWith
<1>9. \A w \in Busy : w \in Votes /\ w # v /\ vote'[w] = vote[w]
  BY <1>1, <1>3 DEF Busy
<1>10. \A w, x \in Busy' :
         vote'[w].user = vote'[x].user /\ vote'[w].ex = vote'[x].ex /\ vote'[w].ex \notin drift' => w = x
  BY <1>1, <1>4, <1>7, <1>8, <1>9 DEF LikesInv
<1>11. ASSUME NEW w \in Busy', vote'[w].pc = "unliked", vote'[w].ex \in CP!Live', vote'[w].ex \notin drift'
       PROVE  vote'[w].counted <=> <<vote'[w].user, vote'[w].ex>> \in likes'
  <2>1. CASE w = v
    BY <1>1, <1>11, <2>1
  <2>2. CASE w \in Busy
    <3>1. vote'[w] = vote[w] /\ vote[w].ex \in CP!Live \ drift
      BY <1>7, <1>9, <1>11, <2>2
    <3>2. vote[w].counted <=> <<vote[w].user, vote[w].ex>> \in likes
      BY <1>11, <2>2, <3>1 DEF LikesInv
    <3>3. <<vote[w].user, vote[w].ex>> # <<u, i>>
      BY <1>8, <1>11, <2>2, <3>1
    <3> QED BY <3>1, <3>2, <3>3
  <2> QED BY <1>4, <2>1, <2>2
<1>12. \A w \in Busy' : vote'[w].ex < nextEx' \/ (vote'[w].pc = "unliked" /\ ~vote'[w].counted)
  BY <1>1, <1>4, <1>9 DEF LikesInv
<1>13. \A j \in CP!Live \ drift : j # i => Tally(j)'
  <2>1. \A l : l[2] # i => (l \in likes' <=> l \in likes)
    OBVIOUS
  <2> QED BY <1>1, <1>3, <2>1, OthersTally
<1>14. \A j \in CP!Live' \ drift' : Tally(j)'
  BY <1>7, <1>13
<1>15. likes' \subseteq Voters \X CP!Live'
  OBVIOUS
<1> HIDE DEF CP!Live, Busy, Tally, VoteRecords
<1> QED BY <1>5, <1>6, <1>10, <1>11, <1>12, <1>14, <1>15 DEF LikesInv

LEMMA VoteEnds ==
  ASSUME ExamplesInv, LikesInv, NEW v \in Busy, NEW u, NEW i, u = vote[v].user, i = vote[v].ex,
         vote' = [vote EXCEPT ![v] = CP!NoVote], drift \subseteq drift',
         CP!Live' = CP!Live, nextEx' = nextEx, likes' \subseteq likes,
         \A l : l # <<u, i>> => (l \in likes' <=> l \in likes),
         \A j \in CP!Live : j # i => ex'[j].likeCount = ex[j].likeCount,
         i \in CP!Live \ drift' => Tally(i)'
  PROVE  LikesInv'
<1>1. v \in Votes
  BY DEF Busy
<1>2. vote'[v] = CP!NoVote /\ \A w \in Votes : w # v => vote'[w] = vote[w]
  BY <1>1 DEF LikesInv
<1>3. CP!NoVote.pc = "idle"
  BY DEF CP!NoVote
<1>4. Busy' = Busy \ {v}
  BY <1>2, <1>3 DEF Busy
<1>5. IsFiniteSet(Busy') /\ IsFiniteSet(likes')
  BY <1>4, FS_Subset DEF LikesInv
<1>6. vote' \in [Votes -> VoteRecords \cup {CP!NoVote}]
  BY DEF LikesInv
<1>7. \A w \in Busy' : w \in Busy /\ w # v /\ vote'[w] = vote[w]
  BY <1>2, <1>4 DEF Busy
<1>8. \A w, x \in Busy' :
        vote'[w].user = vote'[x].user /\ vote'[w].ex = vote'[x].ex /\ vote'[w].ex \notin drift' => w = x
  BY <1>7 DEF LikesInv
<1>9. ASSUME NEW w \in Busy', vote'[w].pc = "unliked", vote'[w].ex \in CP!Live', vote'[w].ex \notin drift'
      PROVE  vote'[w].counted <=> <<vote'[w].user, vote'[w].ex>> \in likes'
  <2>1. w \in Busy /\ w # v /\ vote'[w] = vote[w] /\ vote[w].ex \in CP!Live \ drift
    BY <1>7, <1>9
  <2>2. vote[w].counted <=> <<vote[w].user, vote[w].ex>> \in likes
    BY <1>9, <2>1 DEF LikesInv
  <2>3. <<vote[w].user, vote[w].ex>> # <<u, i>>
    BY <2>1 DEF LikesInv
  <2> QED BY <2>1, <2>2, <2>3
<1>10. \A w \in Busy' : vote'[w].ex < nextEx' \/ (vote'[w].pc = "unliked" /\ ~vote'[w].counted)
  BY <1>7 DEF LikesInv
<1>11. \A j \in CP!Live \ drift : j # i => Tally(j)'
  <2>1. \A l : l[2] # i => (l \in likes' <=> l \in likes)
    OBVIOUS
  <2>2. vote'[v].pc = "idle"
    BY <1>2, <1>3
  <2> QED BY <1>1, <1>2, <2>1, <2>2, OthersTally
<1>12. \A j \in CP!Live' \ drift' : Tally(j)'
  BY <1>11
<1>13. likes' \subseteq Voters \X CP!Live'
  BY DEF LikesInv
<1> QED BY <1>5, <1>6, <1>8, <1>9, <1>10, <1>12, <1>13 DEF LikesInv

LEMMA LikeInsertCounts ==
  ASSUME ExamplesInv, LikesInv, NEW v \in Votes, NEW u \in Voters, NEW i \in CP!ExampleIds,
         CP!LikeInsert(v, u, i)
  PROVE  ExamplesInv' /\ LikesInv' /\ KeepsIds
<1>1. CP!MayVote(v, i) /\ drift' = CP!DriftWith(u, i) /\ ex' = ex /\ nextEx' = nextEx
  BY DEF CP!LikeInsert
<1>2. ExamplesInv' /\ KeepsIds /\ CP!Live' = CP!Live
  BY <1>1 DEF ExamplesInv, KeepsIds, CP!Live
<1>3. CASE ex[i] # Null /\ <<u, i>> \notin likes
  <2>1. PICK r : r = [pc |-> "liked", user |-> u, ex |-> i]
    OBVIOUS
  <2>2. likes' = likes \cup {<<u, i>>} /\ vote' = [vote EXCEPT ![v] = r]
    BY <1>3, <2>1 DEF CP!LikeInsert
  <2>3. r \in VoteRecords /\ r.user = u /\ r.ex = i /\ r.pc = "liked"
    BY <2>1 DEF VoteRecords
  <2>4. i \in CP!Live /\ i < nextEx
    BY <1>3 DEF CP!Live, ExamplesInv
  <2>5. IsFiniteSet(likes') /\ likes' \subseteq Voters \X CP!Live
    <3>1. likes' \subseteq Voters \X CP!Live
      BY <2>2, <2>4 DEF LikesInv
    <3>2. IsFiniteSet(likes')
      BY <2>2, FS_AddElement DEF LikesInv
    <3> QED BY <3>1, <3>2
  <2>6. vote'[v] = r /\ vote[v].pc = "idle" /\ \A w \in Votes : w # v => vote'[w] = vote[w]
    BY <1>1, <2>2 DEF LikesInv, CP!MayVote
  <2>7. Adding(i)' = Adding(i) \cup {v} /\ v \notin Adding(i)
    BY <2>3, <2>6 DEF Adding, CP!Pending
  <2>8. Removing(i)' = Removing(i)
    BY <2>3, <2>6 DEF Removing, CP!Pending
  <2>9. LikesOf(i)' = LikesOf(i) \cup {<<u, i>>} /\ <<u, i>> \notin LikesOf(i)
    BY <1>3, <2>2 DEF LikesOf
  <2>10. Cardinality(LikesOf(i) \cup {<<u, i>>}) = Cardinality(LikesOf(i)) + 1
    BY <2>9, TallyFinite, FS_AddElement
  <2>11. Cardinality(Adding(i) \cup {v}) = Cardinality(Adding(i)) + 1
    BY <2>7, TallyFinite, FS_AddElement
  <2>12. i \notin drift
    BY <1>1 DEF CP!MayVote
  <2>13. Tally(i)
    BY <2>4, <2>12 DEF LikesInv
  <2>14. ex'[i].likeCount = Cardinality(LikesOf(i)') - Cardinality(Adding(i)') - Cardinality(Removing(i)')
    BY <1>1, <2>7, <2>8, <2>9, <2>10, <2>11, <2>13, TallyFinite DEF Tally
  <2>15. Tally(i)'
    BY <2>14 DEF Tally
  <2>16. \A l : l # <<u, i>> => (l \in likes' <=> l \in likes)
    BY <2>2
  <2>17. LikesInv'
    BY <1>1, <1>2, <2>2, <2>3, <2>4, <2>5, <2>15, <2>16, VoteBegins
  <2> QED BY <1>2, <2>17
<1>4. CASE ~(ex[i] # Null /\ <<u, i>> \notin likes)
  <2>1. likes' = likes /\ vote' = vote
    BY <1>4 DEF CP!LikeInsert
  <2>2. drift \subseteq drift'
    BY <1>1 DEF CP!DriftWith
  <2>3. \A j : Tally(j) => Tally(j)'
    BY <1>1, <2>1 DEF Tally, LikesOf, Adding, Removing, CP!Pending
  <2>4. LikesInv'
    BY <1>1, <1>2, <2>1, <2>2, <2>3 DEF LikesInv, Busy
  <2> QED BY <1>2, <2>4
<1> QED BY <1>3, <1>4

LEMMA LikeCountCounts ==
  ASSUME ExamplesInv, LikesInv, NEW v \in Votes, CP!LikeCount(v)
  PROVE  ExamplesInv' /\ LikesInv' /\ KeepsIds
<1>1. v \in Busy /\ vote[v].pc = "liked"
  BY DEF CP!LikeCount, Busy
<1>2. PICK i \in CP!ExampleIds : i = vote[v].ex
  BY <1>1, BusyVote
<1>3. /\ ex' = CP!AddLikes(i, 1) /\ vote' = [vote EXCEPT ![v] = CP!NoVote]
      /\ likes' = likes /\ nextEx' = nextEx /\ drift' = drift
  BY <1>2 DEF CP!LikeCount
<1>4. /\ ExamplesInv' /\ KeepsIds /\ CP!Live' = CP!Live
      /\ \A j \in CP!Live : j # i => ex'[j].likeCount = ex[j].likeCount
      /\ i \in CP!Live => ex'[i].likeCount = ex[i].likeCount + 1
  BY <1>3, LikesAdded
<1>5. vote'[v] = CP!NoVote /\ CP!NoVote.pc = "idle" /\ \A w \in Votes : w # v => vote'[w] = vote[w]
  BY <1>3 DEF LikesInv, CP!NoVote
<1>6. ASSUME i \in CP!Live \ drift PROVE Tally(i)'
  <2>1. Adding(i)' = Adding(i) \ {v} /\ v \in Adding(i)
    BY <1>1, <1>2, <1>5 DEF Adding, CP!Pending
  <2>2. Removing(i)' = Removing(i) /\ LikesOf(i)' = LikesOf(i)
    BY <1>1, <1>3, <1>5 DEF Removing, CP!Pending, LikesOf
  <2>3. Cardinality(Adding(i) \ {v}) = Cardinality(Adding(i)) - 1
    BY <2>1, TallyFinite, FS_RemoveElement
  <2>4. Tally(i) /\ ex[i].likeCount \in Int
    BY <1>6 DEF LikesInv, ExamplesInv, CP!Live, CP!ExampleRows
  <2>5. ex'[i].likeCount = Cardinality(LikesOf(i)') - Cardinality(Adding(i)') - Cardinality(Removing(i)')
    BY <1>4, <1>6, <2>1, <2>2, <2>3, <2>4, TallyFinite DEF Tally
  <2> QED BY <2>5 DEF Tally
<1>7. PICK u : u = vote[v].user
  OBVIOUS
<1>8. LikesInv'
  BY <1>1, <1>2, <1>3, <1>4, <1>6, <1>7, VoteEnds
<1> QED BY <1>4, <1>8

LEMMA UnlikeCountCounts ==
  ASSUME ExamplesInv, LikesInv, NEW v \in Votes, NEW u \in Voters, NEW i \in CP!ExampleIds,
         CP!UnlikeCount(v, u, i)
  PROVE  ExamplesInv' /\ LikesInv' /\ KeepsIds
<1>1. /\ CP!MayVote(v, i) /\ drift' = CP!DriftWith(u, i) /\ nextEx' = nextEx /\ likes' = likes
      /\ ex' = IF <<u, i>> \in likes THEN CP!AddLikes(i, -1) ELSE ex
  BY DEF CP!UnlikeCount
<1>3. PICK r : r = [pc |-> "unliked", user |-> u, ex |-> i, counted |-> <<u, i>> \in likes]
  OBVIOUS
<1>4. /\ r \in VoteRecords /\ r.user = u /\ r.ex = i /\ r.pc = "unliked"
      /\ r.counted <=> <<u, i>> \in likes
  <2>1. CASE <<u, i>> \in likes
    <3>1. r = [pc |-> "unliked", user |-> u, ex |-> i, counted |-> TRUE]
      BY <1>3, <2>1
    <3> QED BY <2>1, <3>1 DEF VoteRecords
  <2>2. CASE <<u, i>> \notin likes
    <3>1. (<<u, i>> \in likes) = FALSE
      BY <2>2
    <3>2. r = [pc |-> "unliked", user |-> u, ex |-> i, counted |-> FALSE]
      BY <1>3, <3>1
    <3> QED BY <2>2, <3>2 DEF VoteRecords
  <2> QED BY <2>1, <2>2
<1>5. vote' = [vote EXCEPT ![v] = r]
  BY <1>3 DEF CP!UnlikeCount
<1>6. vote'[v] = r /\ vote[v].pc = "idle" /\ \A w \in Votes : w # v => vote'[w] = vote[w]
  BY <1>1, <1>5 DEF LikesInv, CP!MayVote
<1>7. Adding(i)' = Adding(i) /\ LikesOf(i)' = LikesOf(i)
  BY <1>1, <1>4, <1>6 DEF Adding, CP!Pending, LikesOf
<1>8. i \notin drift
  BY <1>1 DEF CP!MayVote
<1>9. IsFiniteSet(likes') /\ likes' \subseteq Voters \X CP!Live
  BY <1>1 DEF LikesInv
<1>10. \A l : l # <<u, i>> => (l \in likes' <=> l \in likes)
  BY <1>1
<1>11. CASE <<u, i>> \in likes
  <2>1. i \in CP!Live /\ i < nextEx
    BY <1>11 DEF LikesInv, ExamplesInv
  <2>2. /\ ExamplesInv' /\ KeepsIds /\ CP!Live' = CP!Live
        /\ \A j \in CP!Live : j # i => ex'[j].likeCount = ex[j].likeCount
        /\ ex'[i].likeCount = ex[i].likeCount + (-1)
    BY <1>1, <1>11, <2>1, LikesAdded
  <2>3. Removing(i)' = Removing(i) \cup {v} /\ v \notin Removing(i)
    BY <1>4, <1>6, <1>11 DEF Removing, CP!Pending
  <2>4. Cardinality(Removing(i) \cup {v}) = Cardinality(Removing(i)) + 1
    BY <2>3, TallyFinite, FS_AddElement
  <2>5. Tally(i) /\ ex[i].likeCount \in Int
    BY <1>8, <2>1 DEF LikesInv, ExamplesInv, CP!Live, CP!ExampleRows
  <2>6. ex'[i].likeCount = Cardinality(LikesOf(i)') - Cardinality(Adding(i)') - Cardinality(Removing(i)')
    BY <1>7, <2>2, <2>3, <2>4, <2>5, TallyFinite DEF Tally
  <2>7. Tally(i)'
    BY <2>6 DEF Tally
  <2>8. r.counted <=> <<u, i>> \in likes'
    BY <1>1, <1>4
  <2>9. LikesInv'
    BY <1>1, <1>4, <1>5, <1>9, <1>10, <2>1, <2>2, <2>7, <2>8, VoteBegins
  <2> QED BY <2>2, <2>9
<1>12. CASE <<u, i>> \notin likes
  <2>1. ex' = ex
    BY <1>1, <1>12
  <2>2. ExamplesInv' /\ KeepsIds /\ CP!Live' = CP!Live
    BY <1>1, <2>1 DEF ExamplesInv, KeepsIds, CP!Live
  <2>3. Removing(i)' = Removing(i)
    BY <1>4, <1>6, <1>12 DEF Removing, CP!Pending
  <2>4. i \in CP!Live => Tally(i)'
    BY <1>7, <1>8, <2>1, <2>3 DEF LikesInv, Tally
  <2>5. r.counted <=> <<u, i>> \in likes'
    BY <1>1, <1>4
  <2>6. r.pc = "unliked" /\ ~r.counted
    BY <1>4, <1>12
  <2>7. LikesInv'
    BY <1>1, <1>4, <1>5, <1>9, <1>10, <2>1, <2>2, <2>4, <2>5, <2>6, VoteBegins
  <2> QED BY <2>2, <2>7
<1> QED BY <1>11, <1>12

LEMMA UnlikeDeleteCounts ==
  ASSUME ExamplesInv, LikesInv, NEW v \in Votes, CP!UnlikeDelete(v)
  PROVE  ExamplesInv' /\ LikesInv' /\ KeepsIds
<1>1. v \in Busy /\ vote[v].pc = "unliked"
  BY DEF CP!UnlikeDelete, Busy
<1>2. PICK i \in CP!ExampleIds : i = vote[v].ex
  BY <1>1, BusyVote
<1>3. PICK u : u = vote[v].user
  OBVIOUS
<1>4. /\ likes' = likes \ {<<u, i>>} /\ vote' = [vote EXCEPT ![v] = CP!NoVote]
      /\ ex' = ex /\ nextEx' = nextEx /\ drift' = drift
  BY <1>2, <1>3 DEF CP!UnlikeDelete
<1>5. ExamplesInv' /\ KeepsIds /\ CP!Live' = CP!Live
  BY <1>4 DEF ExamplesInv, KeepsIds, CP!Live
<1>6. vote'[v] = CP!NoVote /\ CP!NoVote.pc = "idle" /\ \A w \in Votes : w # v => vote'[w] = vote[w]
  BY <1>4 DEF LikesInv, CP!NoVote
<1>7. ASSUME i \in CP!Live \ drift PROVE Tally(i)'
  <2>1. vote[v].counted <=> <<u, i>> \in likes
    BY <1>1, <1>2, <1>3, <1>7 DEF LikesInv
  <2>2. Adding(i)' = Adding(i)
    BY <1>1, <1>6 DEF Adding, CP!Pending
  <2>3. Tally(i)
    BY <1>7 DEF LikesInv
  <2>4. CASE vote[v].counted
    <3>1. Removing(i)' = Removing(i) \ {v} /\ v \in Removing(i)
      BY <1>1, <1>2, <1>6, <2>4 DEF Removing, CP!Pending
    <3>2. LikesOf(i)' = LikesOf(i) \ {<<u, i>>} /\ <<u, i>> \in LikesOf(i)
      BY <1>4, <2>1, <2>4 DEF LikesOf
    <3>3. Cardinality(Removing(i) \ {v}) = Cardinality(Removing(i)) - 1
      BY <3>1, TallyFinite, FS_RemoveElement
    <3>4. Cardinality(LikesOf(i) \ {<<u, i>>}) = Cardinality(LikesOf(i)) - 1
      BY <3>2, TallyFinite, FS_RemoveElement
    <3>5. ex'[i].likeCount = Cardinality(LikesOf(i)') - Cardinality(Adding(i)') - Cardinality(Removing(i)')
      BY <1>4, <2>2, <2>3, <3>1, <3>2, <3>3, <3>4, TallyFinite DEF Tally
    <3> QED BY <3>5 DEF Tally
  <2>5. CASE ~vote[v].counted
    <3>1. Removing(i)' = Removing(i)
      BY <1>1, <1>6, <2>5 DEF Removing, CP!Pending
    <3>2. LikesOf(i)' = LikesOf(i)
      BY <1>4, <2>1, <2>5 DEF LikesOf
    <3> QED BY <1>4, <2>2, <2>3, <3>1, <3>2 DEF Tally
  <2> QED BY <2>4, <2>5
<1>8. LikesInv'
  BY <1>1, <1>2, <1>3, <1>4, <1>5, <1>7, VoteEnds
<1> QED BY <1>5, <1>8

LEMMA VoteLostCounts ==
  ASSUME ExamplesInv, LikesInv, NEW v \in Votes, CP!VoteLost(v)
  PROVE  ExamplesInv' /\ LikesInv' /\ KeepsIds
<1>1. v \in Busy
  BY DEF CP!VoteLost, Busy
<1>2. PICK i : i = vote[v].ex
  OBVIOUS
<1>3. PICK u : u = vote[v].user
  OBVIOUS
<1>4. /\ likes' = likes /\ vote' = [vote EXCEPT ![v] = CP!NoVote]
      /\ ex' = ex /\ nextEx' = nextEx /\ drift' = drift \cup {i}
  BY <1>2 DEF CP!VoteLost
<1>5. ExamplesInv' /\ KeepsIds /\ CP!Live' = CP!Live
  BY <1>4 DEF ExamplesInv, KeepsIds, CP!Live
<1>6. LikesInv'
  BY <1>1, <1>2, <1>3, <1>4, <1>5, VoteEnds
<1> QED BY <1>5, <1>6

LEMMA DeleteAllLikesCounts ==
  ASSUME ExamplesInv, LikesInv, NEW u \in Voters, CP!DeleteAllLikesFromUser(u)
  PROVE  ExamplesInv' /\ LikesInv' /\ KeepsIds
<1>1. /\ ex' = [i \in CP!ExampleIds |->
                  IF ex[i] # Null /\ <<u, i>> \in likes
                  THEN [ex[i] EXCEPT !.likeCount = @ - 1] ELSE ex[i]]
      /\ likes' = {l \in likes : l[1] # u}
      /\ drift' = drift \cup {i \in CP!ExampleIds : CP!PendingBy(u, i) # {}}
      /\ nextEx' = nextEx /\ vote' = vote
  BY DEF CP!DeleteAllLikesFromUser
<1>2. ASSUME NEW i \in CP!ExampleIds
      PROVE  /\ ex'[i] # Null => ex[i] # Null /\ ex'[i] \in CP!ExampleRows
             /\ ex[i] # Null =>
                  /\ ex'[i] # Null /\ ex'[i].name = ex[i].name /\ ex'[i].code = ex[i].code
                  /\ ex'[i].synthetic = ex[i].synthetic
             /\ ex[i] # Null /\ <<u, i>> \in likes => ex'[i].likeCount = ex[i].likeCount - 1
             /\ ex[i] # Null /\ <<u, i>> \notin likes => ex'[i].likeCount = ex[i].likeCount
  <2>1. PICK r : r = [ex[i] EXCEPT !.likeCount = @ - 1]
    OBVIOUS
  <2>2. ex'[i] = IF ex[i] # Null /\ <<u, i>> \in likes THEN r ELSE ex[i]
    BY <1>1, <2>1
  <2>3. CASE ex[i] = Null
    BY <2>2, <2>3
  <2>4. CASE ex[i] # Null
    <3>1. ex[i] \in CP!ExampleRows
      BY <2>4 DEF ExamplesInv
    <3>2. /\ r \in CP!ExampleRows /\ r.name = ex[i].name /\ r.code = ex[i].code
          /\ r.synthetic = ex[i].synthetic /\ r.likeCount = ex[i].likeCount - 1
      BY <2>1, <3>1 DEF CP!ExampleRows
    <3>3. r # Null
      BY <3>2, DatasetsAssumption DEF CP!DatasetsAssumption
    <3> QED BY <2>2, <2>4, <3>1, <3>2, <3>3
  <2> QED BY <2>3, <2>4
<1>3. DOMAIN ex' = CP!ExampleIds /\ ex' = [i \in CP!ExampleIds |-> ex'[i]]
  BY <1>1
<1>4. ExamplesInv' /\ KeepsIds
  BY <1>1, <1>2, <1>3, FewerExamples
<1>5. CP!Live' = CP!Live
  BY <1>2 DEF CP!Live
<1>6. IsFiniteSet(likes') /\ likes' \subseteq Voters \X CP!Live'
  <2>1. IsFiniteSet(likes')
    BY <1>1, FS_Subset DEF LikesInv
  <2> QED BY <1>1, <1>5, <2>1 DEF LikesInv
<1>7. Busy' = Busy /\ \A i : Adding(i)' = Adding(i) /\ Removing(i)' = Removing(i)
  BY <1>1 DEF Busy, Adding, Removing, CP!Pending
<1>8. drift \subseteq drift'
  BY <1>1
\* A vote of the user that is under way drifts.
<1>9. ASSUME NEW v \in Busy, vote[v].ex \notin drift' PROVE vote[v].user # u
  <2>1. v \in Votes /\ vote[v].ex \in CP!ExampleIds
    BY BusyVote
  <2>2. vote[v].user = u => v \in CP!PendingBy(u, vote[v].ex)
    BY <2>1 DEF CP!PendingBy, Busy
  <2> QED BY <1>1, <1>9, <2>1, <2>2
<1>10. ASSUME NEW v \in Busy', vote'[v].pc = "unliked", vote'[v].ex \in CP!Live', vote'[v].ex \notin drift'
       PROVE  vote'[v].counted <=> <<vote'[v].user, vote'[v].ex>> \in likes'
  <2>1. v \in Busy /\ vote[v].pc = "unliked" /\ vote[v].ex \in CP!Live \ drift /\ vote[v].user # u
    BY <1>1, <1>5, <1>7, <1>8, <1>9, <1>10
  <2>2. vote[v].counted <=> <<vote[v].user, vote[v].ex>> \in likes
    BY <2>1 DEF LikesInv
  <2>3. <<vote[v].user, vote[v].ex>> \in likes' <=> <<vote[v].user, vote[v].ex>> \in likes
    BY <1>1, <2>1
  <2> QED BY <1>1, <2>2, <2>3
<1>11. ASSUME NEW i \in CP!Live, i \notin drift'
       PROVE  ex'[i].likeCount = Cardinality(LikesOf(i)') - Cardinality(Adding(i)) - Cardinality(Removing(i))
  <2>1. i \in CP!ExampleIds /\ ex[i] # Null /\ ex[i].likeCount \in Int /\ Tally(i)
    BY <1>8, <1>11 DEF CP!Live, LikesInv, ExamplesInv, CP!ExampleRows
  <2>2. \A l \in LikesOf(i) : l[1] = u <=> l = <<u, i>>
    BY DEF LikesOf, LikesInv
  <2>3. LikesOf(i)' = LikesOf(i) \ {<<u, i>>}
    BY <1>1, <2>2 DEF LikesOf
  <2>4. CASE <<u, i>> \in likes
    <3>1. <<u, i>> \in LikesOf(i)
      BY <2>4 DEF LikesOf
    <3>2. Cardinality(LikesOf(i) \ {<<u, i>>}) = Cardinality(LikesOf(i)) - 1
      BY <3>1, TallyFinite, FS_RemoveElement
    <3> QED BY <1>2, <2>1, <2>3, <2>4, <3>2, TallyFinite DEF Tally
  <2>5. CASE <<u, i>> \notin likes
    <3>1. LikesOf(i) \ {<<u, i>>} = LikesOf(i)
      BY <2>5 DEF LikesOf
    <3> QED BY <1>2, <2>1, <2>3, <2>5, <3>1 DEF Tally
  <2> QED BY <2>4, <2>5
<1>12. \A i \in CP!Live' \ drift' : Tally(i)'
  BY <1>5, <1>7, <1>11 DEF Tally
<1>13. /\ IsFiniteSet(Busy') /\ vote' \in [Votes -> VoteRecords \cup {CP!NoVote}]
       /\ \A v \in Busy' : vote'[v].ex < nextEx' \/ (vote'[v].pc = "unliked" /\ ~vote'[v].counted)
       /\ \A v, w \in Busy' :
            vote'[v].user = vote'[w].user /\ vote'[v].ex = vote'[w].ex /\ vote'[v].ex \notin drift' => v = w
  BY <1>1, <1>7, <1>8 DEF LikesInv
<1>14. LikesInv'
  BY <1>6, <1>10, <1>12, <1>13 DEF LikesInv
<1> QED BY <1>4, <1>14

LEMMA DeleteByIdCounts ==
  ASSUME ExamplesInv, LikesInv, NEW i \in CP!ExampleIds, CP!DeleteById(i)
  PROVE  ExamplesInv' /\ LikesInv' /\ KeepsIds
<1>1. /\ ex[i] # Null /\ ex' = [ex EXCEPT ![i] = Null] /\ likes' = {l \in likes : l[2] # i}
      /\ nextEx' = nextEx /\ vote' = vote /\ drift' = drift
  BY DEF CP!DeleteById
<1>2. ex'[i] = Null /\ \A j \in CP!ExampleIds : j # i => ex'[j] = ex[j]
  BY <1>1 DEF ExamplesInv
<1>3. DOMAIN ex' = CP!ExampleIds /\ ex' = [j \in CP!ExampleIds |-> ex'[j]]
  BY <1>1 DEF ExamplesInv
<1>4. ExamplesInv' /\ KeepsIds
  <2>1. \A j \in CP!ExampleIds : ex'[j] # Null => ex[j] # Null /\ ex'[j] = ex[j] /\ ex[j] \in CP!ExampleRows
    BY <1>2 DEF ExamplesInv
  <2> QED BY <1>1, <1>3, <2>1, FewerExamples
<1>5. CP!Live' = CP!Live \ {i}
  BY <1>2 DEF CP!Live
<1>6. IsFiniteSet(likes') /\ likes' \subseteq Voters \X CP!Live'
  <2>1. IsFiniteSet(likes')
    BY <1>1, FS_Subset DEF LikesInv
  <2> QED BY <1>1, <1>5, <2>1 DEF LikesInv
<1>7. Busy' = Busy /\ \A j : Adding(j)' = Adding(j) /\ Removing(j)' = Removing(j)
  BY <1>1 DEF Busy, Adding, Removing, CP!Pending
<1>8. \A j : j # i => LikesOf(j)' = LikesOf(j)
  BY <1>1 DEF LikesOf
<1>9. \A j \in CP!Live' \ drift' : Tally(j)'
  <2> SUFFICES ASSUME NEW j \in CP!Live' \ drift' PROVE Tally(j)'
    OBVIOUS
  <2>1. j \in CP!Live \ drift /\ j # i /\ ex'[j] = ex[j]
    BY <1>1, <1>2, <1>5 DEF CP!Live
  <2> QED BY <1>7, <1>8, <2>1 DEF LikesInv, Tally
<1>10. /\ IsFiniteSet(Busy') /\ vote' \in [Votes -> VoteRecords \cup {CP!NoVote}]
       /\ \A v \in Busy' : vote'[v].ex < nextEx' \/ (vote'[v].pc = "unliked" /\ ~vote'[v].counted)
       /\ \A v, w \in Busy' :
            vote'[v].user = vote'[w].user /\ vote'[v].ex = vote'[w].ex /\ vote'[v].ex \notin drift' => v = w
  BY <1>1, <1>7 DEF LikesInv
<1>11. \A v \in Busy' : vote'[v].pc = "unliked" /\ vote'[v].ex \in CP!Live' \ drift' =>
         (vote'[v].counted <=> <<vote'[v].user, vote'[v].ex>> \in likes')
  BY <1>1, <1>5, <1>7 DEF LikesInv
<1>12. LikesInv'
  BY <1>6, <1>9, <1>10, <1>11 DEF LikesInv
<1> QED BY <1>4, <1>12

LEMMA CommandpediaNext ==
  ExamplesInv /\ LikesInv /\ CP!CNext => ExamplesInv' /\ LikesInv' /\ KeepsIds
BY SavedKeeps, SavedCounts, LikeInsertCounts, LikeCountCounts, UnlikeCountCounts, UnlikeDeleteCounts,
   VoteLostCounts, DeleteAllLikesCounts, DeleteByIdCounts DEF CP!CNext

-----------------------------------------------------------------------------
\* The uploads of values (Lexicon).

\* The rows of a sequence that are written.
Written(s) == {x \in LX!ToSet(s) : x # LX!Skipped}
\* Everything that an upload has written or is going to write.
Loaded(q) == q.staged \cup q.fly \cup q.wq \cup Written(q.tq) \cup Written(q.parse)
\* Entities in other languages than English are added to.
Replaced(t, l) == l = "en" \/ ~LX!IsEntity(t)
Wholes == {LX!FileRows(f) : f \in Files} \cup {{}}

UploadRecords ==
  [pc : {"streaming", "resolved", "rejected", "ended"},
   t : LX!LexTypes, lang : LexLangs, ner : BOOLEAN, staged : SUBSET LX!LexRows,
   parse : Seq(LX!LexRows), parsed : BOOLEAN, tq : Seq(LX!LexRows), tEnd : BOOLEAN,
   wq : SUBSET LX!LexRows, wEnd : BOOLEAN, fly : SUBSET LX!LexRows, wFail : BOOLEAN, err : BOOLEAN]

\* A stream that did not fail holds one file, ends only after the one before it,
\* and nothing is left of it that could be written once the transaction knows.
StreamSound(q) ==
  /\ q \in UploadRecords
  /\ ~q.err => /\ q.parsed => q.parse = <<>>
               /\ q.tEnd => q.parsed
               /\ q.wEnd => q.tEnd /\ q.tq = <<>>
  /\ q.pc # "streaming" =>
       /\ q.fly = {}
       /\ q.wFail \/ (q.wq = {} /\ (q.wEnd \/ (q.tq = <<>> /\ q.parse = <<>>)))
  /\ q.pc = "resolved" => ~q.err /\ ~q.wFail /\ q.tq = <<>> /\ q.parse = <<>>
  /\ Replaced(q.t, q.lang) /\ ~q.err /\ ~q.wFail => Loaded(q) \in Wholes

LexiconInv ==
  /\ types \in [LX!LexTypes -> [LexLangs -> LX!TypeRows \cup {NoRow}]]
  /\ values \in [LX!LexTypes -> [LexLangs -> SUBSET LX!LexRows]]
  /\ \A t \in LX!LexTypes, l \in LexLangs : Replaced(t, l) =>
       /\ values[t][l] \in Wholes
       /\ types[t][l] = NoRow => values[t][l] = {}
  /\ up \in [Streams -> UploadRecords \cup {LX!Off}]
  /\ \A s \in Streams : up[s].pc # "off" => StreamSound(up[s])

LEMMA WrittenFacts ==
  ASSUME NEW S, NEW s \in Seq(S)
  PROVE  /\ s # <<>> => /\ Head(s) \in S /\ Tail(s) \in Seq(S)
                        /\ Head(s) = LX!Skipped => Written(s) = Written(Tail(s))
                        /\ Head(s) # LX!Skipped => Written(s) = {Head(s)} \cup Written(Tail(s))
         /\ \A x \in S : /\ Append(s, x) \in Seq(S)
                         /\ x = LX!Skipped => Written(Append(s, x)) = Written(s)
                         /\ x # LX!Skipped => Written(Append(s, x)) = Written(s) \cup {x}
<1>1. ASSUME s # <<>>
      PROVE  /\ Head(s) \in S /\ Tail(s) \in Seq(S)
             /\ LX!ToSet(s) = {Head(s)} \cup LX!ToSet(Tail(s))
  <2>1. Head(s) \in S /\ Tail(s) \in Seq(S) /\ Len(Tail(s)) = Len(s) - 1 /\ Len(s) \in Nat \ {0}
    BY <1>1
  <2>2. \A i \in 1..Len(Tail(s)) : Tail(s)[i] = s[i + 1]
    BY <1>1
  <2>3. Head(s) = s[1]
    BY <1>1
  <2>4. DOMAIN s = 1..Len(s) /\ DOMAIN Tail(s) = 1..Len(Tail(s))
    BY <2>1
  <2>5. \A x \in LX!ToSet(s) : x \in {Head(s)} \cup LX!ToSet(Tail(s))
    <3> SUFFICES ASSUME NEW i \in 1..Len(s) PROVE s[i] \in {Head(s)} \cup LX!ToSet(Tail(s))
      BY <2>4 DEF LX!ToSet
    <3>1. CASE i = 1
      BY <2>3, <3>1
    <3>2. CASE i # 1
      <4>1. i - 1 \in 1..Len(Tail(s)) /\ (i - 1) + 1 = i
        BY <2>1, <3>2
      <4>2. Tail(s)[i - 1] = s[i]
        BY <2>2, <4>1
      <4> QED BY <2>4, <4>1, <4>2 DEF LX!ToSet
    <3> QED BY <3>1, <3>2
  <2>6. \A x \in {Head(s)} \cup LX!ToSet(Tail(s)) : x \in LX!ToSet(s)
    <3>1. Head(s) \in LX!ToSet(s)
      BY <2>1, <2>3, <2>4 DEF LX!ToSet
    <3>2. ASSUME NEW i \in 1..Len(Tail(s)) PROVE Tail(s)[i] \in LX!ToSet(s)
      <4>1. i + 1 \in 1..Len(s)
        BY <2>1
      <4> QED BY <2>2, <2>4, <4>1 DEF LX!ToSet
    <3> QED BY <2>4, <3>1, <3>2 DEF LX!ToSet
  <2> QED BY <2>1, <2>5, <2>6
<1>2. ASSUME NEW x \in S
      PROVE  Append(s, x) \in Seq(S) /\ LX!ToSet(Append(s, x)) = LX!ToSet(s) \cup {x}
  <2>1. /\ Append(s, x) \in Seq(S) /\ Len(Append(s, x)) = Len(s) + 1 /\ Len(s) \in Nat
        /\ \A i \in 1..Len(s) : Append(s, x)[i] = s[i]
        /\ Append(s, x)[Len(s) + 1] = x
    OBVIOUS
  <2>2. DOMAIN s = 1..Len(s) /\ DOMAIN Append(s, x) = 1..(Len(s) + 1)
    BY <2>1
  <2>3. \A y \in LX!ToSet(Append(s, x)) : y \in LX!ToSet(s) \cup {x}
    <3> SUFFICES ASSUME NEW i \in 1..(Len(s) + 1) PROVE Append(s, x)[i] \in LX!ToSet(s) \cup {x}
      BY <2>2 DEF LX!ToSet
    <3>1. CASE i = Len(s) + 1
      BY <2>1, <3>1
    <3>2. CASE i # Len(s) + 1
      <4>1. i \in 1..Len(s)
        BY <2>1, <3>2
      <4> QED BY <2>1, <2>2, <4>1 DEF LX!ToSet
    <3> QED BY <3>1, <3>2
  <2>4. \A y \in LX!ToSet(s) \cup {x} : y \in LX!ToSet(Append(s, x))
    <3>1. x \in LX!ToSet(Append(s, x))
      <4>1. Len(s) + 1 \in 1..(Len(s) + 1)
        BY <2>1
      <4> QED BY <2>1, <2>2, <4>1 DEF LX!ToSet
    <3>2. ASSUME NEW i \in 1..Len(s) PROVE s[i] \in LX!ToSet(Append(s, x))
      <4>1. i \in 1..(Len(s) + 1)
        BY <2>1
      <4> QED BY <2>1, <2>2, <4>1 DEF LX!ToSet
    <3> QED BY <2>2, <3>1, <3>2 DEF LX!ToSet
  <2> QED BY <2>1, <2>3, <2>4
<1> QED BY <1>1, <1>2 DEF Written

LEMMA NothingWritten == Written(<<>>) = {}
BY DEF Written, LX!ToSet

LEMMA LexiconHolds == LexiconInv => LX!NoInflightInsert /\ LX!WholeFiles /\ LX!LTypeOK
<1> SUFFICES ASSUME LexiconInv PROVE LX!NoInflightInsert /\ LX!WholeFiles /\ LX!LTypeOK
  OBVIOUS
<1>1. LX!NoInflightInsert
  BY DEF LexiconInv, StreamSound, LX!NoInflightInsert
<1>2. LX!WholeFiles
  BY DEF LexiconInv, Replaced, Wholes, LX!WholeFiles
<1>3. LX!LTypeOK
  <2>1. \A t \in LX!LexTypes, l \in LexLangs : values[t][l] \subseteq LX!LexRows
    BY DEF LexiconInv
  <2>2. \A q \in UploadRecords \cup {LX!Off} : q.pc \in {"off", "streaming", "resolved", "rejected", "ended"}
    BY DEF UploadRecords, LX!Off
  <2>3. \A s \in Streams : up[s] \in UploadRecords \cup {LX!Off}
    BY DEF LexiconInv
  <2> HIDE DEF LexiconInv
  <2> QED BY <2>1, <2>2, <2>3 DEF LX!LTypeOK, LX!LexRows
<1> QED BY <1>1, <1>2, <1>3

LEMMA LexiconInit == LX!LInit => LexiconInv
<1> SUFFICES ASSUME LX!LInit PROVE LexiconInv
  OBVIOUS
<1> USE DEF LX!LInit
<1>1. types \in [LX!LexTypes -> [LexLangs -> LX!TypeRows \cup {NoRow}]]
  OBVIOUS
<1>2. values \in [LX!LexTypes -> [LexLangs -> SUBSET LX!LexRows]]
  OBVIOUS
<1>3. \A t \in LX!LexTypes, l \in LexLangs : values[t][l] = {} /\ {} \in Wholes
  BY DEF Wholes
<1>4. up \in [Streams -> UploadRecords \cup {LX!Off}] /\ \A s \in Streams : up[s].pc = "off"
  BY DEF LX!Off
<1> QED BY <1>1, <1>2, <1>3, <1>4 DEF LexiconInv

LEMMA LexiconIdle == LexiconInv /\ UNCHANGED lexiconVars => LexiconInv'
BY DEF LexiconInv, lexiconVars

\* A step of the pipeline of one stream.
LEMMA Moved ==
  ASSUME LexiconInv, NEW s \in Streams, NEW r, StreamSound(r), LX!Set(s, r)
  PROVE  LexiconInv'
<1>1. r \in UploadRecords
  BY DEF StreamSound
<1>2. up' = [up EXCEPT ![s] = r] /\ types' = types /\ values' = values
  BY DEF LX!Set
<1>3. up' \in [Streams -> UploadRecords \cup {LX!Off}]
  BY <1>1, <1>2 DEF LexiconInv
<1>4. \A x \in Streams : up'[x].pc # "off" => StreamSound(up'[x])
  BY <1>2 DEF LexiconInv
<1> QED BY <1>2, <1>3, <1>4 DEF LexiconInv

\* The stream of an upload.
LEMMA Stream ==
  ASSUME LexiconInv, NEW s \in Streams, LX!Piping(s)
  PROVE  StreamSound(up[s])
BY DEF LexiconInv, LX!Piping

LEMMA ParserRowKeeps ==
  ASSUME LexiconInv, NEW s \in Streams, LX!ParserRow(s)
  PROVE  LexiconInv'
<1>1. PICK q : q = up[s]
  OBVIOUS
<1>2. StreamSound(q) /\ q \in UploadRecords
  BY <1>1, Stream DEF LX!ParserRow, StreamSound
<1>3. PICK r : r = [q EXCEPT !.parse = Tail(q.parse), !.tq = Append(q.tq, Head(q.parse))]
  OBVIOUS
<1>4. ~q.parsed /\ q.parse # <<>> /\ LX!Set(s, r)
  BY <1>1, <1>3 DEF LX!ParserRow
<1>5. q.parse \in Seq(LX!LexRows) /\ q.tq \in Seq(LX!LexRows)
  BY <1>2 DEF UploadRecords
<1>6. /\ Head(q.parse) \in LX!LexRows /\ Tail(q.parse) \in Seq(LX!LexRows)
      /\ Append(q.tq, Head(q.parse)) \in Seq(LX!LexRows)
      /\ Written(Tail(q.parse)) \cup Written(Append(q.tq, Head(q.parse)))
           = Written(q.parse) \cup Written(q.tq)
  BY <1>4, <1>5, WrittenFacts
<1>7. /\ r \in UploadRecords
      /\ r.parse = Tail(q.parse) /\ r.tq = Append(q.tq, Head(q.parse))
      /\ r.pc = q.pc /\ r.t = q.t /\ r.lang = q.lang /\ r.staged = q.staged
      /\ r.parsed = q.parsed /\ r.tEnd = q.tEnd /\ r.wq = q.wq /\ r.wEnd = q.wEnd
      /\ r.fly = q.fly /\ r.wFail = q.wFail /\ r.err = q.err
  BY <1>2, <1>3, <1>6 DEF UploadRecords
<1>8. Loaded(r) = Loaded(q)
  BY <1>6, <1>7 DEF Loaded
<1>9. StreamSound(r)
  BY <1>2, <1>4, <1>7, <1>8 DEF StreamSound
<1> QED BY <1>4, <1>9, Moved

LEMMA ParserEndKeeps ==
  ASSUME LexiconInv, NEW s \in Streams, LX!ParserEnd(s)
  PROVE  LexiconInv'
<1>1. PICK q : q = up[s]
  OBVIOUS
<1>2. StreamSound(q) /\ q \in UploadRecords
  BY <1>1, Stream DEF LX!ParserEnd, StreamSound
<1>3. PICK r : r = [q EXCEPT !.parsed = TRUE, !.tEnd = TRUE]
  OBVIOUS
<1>4. q.parse = <<>> /\ LX!Set(s, r)
  BY <1>1, <1>3 DEF LX!ParserEnd
<1>5. /\ r \in UploadRecords
      /\ r.parsed /\ r.tEnd /\ r.parse = q.parse /\ r.tq = q.tq
      /\ r.pc = q.pc /\ r.t = q.t /\ r.lang = q.lang /\ r.staged = q.staged
      /\ r.wq = q.wq /\ r.wEnd = q.wEnd /\ r.fly = q.fly /\ r.wFail = q.wFail /\ r.err = q.err
  BY <1>2, <1>3 DEF UploadRecords
<1>6. StreamSound(r)
  BY <1>2, <1>4, <1>5 DEF StreamSound, Loaded
<1> QED BY <1>4, <1>6, Moved

LEMMA ParserErrorKeeps ==
  ASSUME LexiconInv, NEW s \in Streams, LX!ParserError(s)
  PROVE  LexiconInv'
<1>1. PICK q : q = up[s]
  OBVIOUS
<1>2. StreamSound(q) /\ q \in UploadRecords
  BY <1>1, Stream DEF LX!ParserError, StreamSound
<1>3. PICK r : r = [q EXCEPT !.parsed = TRUE, !.tEnd = TRUE, !.err = TRUE]
  OBVIOUS
<1>4. q.parse # <<>> /\ LX!Set(s, r)
  BY <1>1, <1>3 DEF LX!ParserError
<1>5. /\ r \in UploadRecords
      /\ r.err /\ r.parse = q.parse /\ r.tq = q.tq
      /\ r.pc = q.pc /\ r.wq = q.wq /\ r.wEnd = q.wEnd /\ r.fly = q.fly /\ r.wFail = q.wFail
  BY <1>2, <1>3 DEF UploadRecords
<1>6. StreamSound(r)
  BY <1>2, <1>4, <1>5 DEF StreamSound
<1> QED BY <1>4, <1>6, Moved

LEMMA TransformKeeps ==
  ASSUME LexiconInv, NEW s \in Streams, LX!Transform(s)
  PROVE  LexiconInv'
<1>1. PICK q : q = up[s]
  OBVIOUS
<1>2. StreamSound(q) /\ q \in UploadRecords
  BY <1>1, Stream DEF LX!Transform, StreamSound
<1>3. PICK w : w = IF Head(q.tq) = LX!Skipped THEN q.wq ELSE q.wq \cup {Head(q.tq)}
  OBVIOUS
<1>4. PICK r : r = [q EXCEPT !.tq = Tail(q.tq), !.wq = w]
  OBVIOUS
<1>5. q.tq # <<>> /\ ~q.wEnd /\ LX!Set(s, r)
  BY <1>1, <1>3, <1>4 DEF LX!Transform
<1>6. q.tq \in Seq(LX!LexRows) /\ q.wq \in SUBSET LX!LexRows
  BY <1>2 DEF UploadRecords
<1>7. /\ Tail(q.tq) \in Seq(LX!LexRows) /\ w \in SUBSET LX!LexRows
      /\ w \cup Written(Tail(q.tq)) = q.wq \cup Written(q.tq)
  BY <1>3, <1>5, <1>6, WrittenFacts
<1>8. /\ r \in UploadRecords
      /\ r.parse = q.parse /\ r.tq = Tail(q.tq) /\ r.wq = w
      /\ r.pc = q.pc /\ r.t = q.t /\ r.lang = q.lang /\ r.staged = q.staged
      /\ r.parsed = q.parsed /\ r.tEnd = q.tEnd /\ r.wEnd = q.wEnd
      /\ r.fly = q.fly /\ r.wFail = q.wFail /\ r.err = q.err
  BY <1>2, <1>4, <1>7 DEF UploadRecords
<1>9. Loaded(r) = Loaded(q)
  BY <1>7, <1>8 DEF Loaded
<1>10. StreamSound(r)
  BY <1>2, <1>5, <1>8, <1>9 DEF StreamSound
<1> QED BY <1>5, <1>10, Moved

LEMMA TransformerEndKeeps ==
  ASSUME LexiconInv, NEW s \in Streams, LX!TransformerEnd(s)
  PROVE  LexiconInv'
<1>1. PICK q : q = up[s]
  OBVIOUS
<1>2. StreamSound(q) /\ q \in UploadRecords
  BY <1>1, Stream DEF LX!TransformerEnd, StreamSound
<1>3. PICK r : r = [q EXCEPT !.wEnd = TRUE]
  OBVIOUS
<1>4. q.tEnd /\ q.tq = <<>> /\ LX!Set(s, r)
  BY <1>1, <1>3 DEF LX!TransformerEnd
<1>5. /\ r \in UploadRecords
      /\ r.wEnd /\ r.parse = q.parse /\ r.tq = q.tq /\ r.parsed = q.parsed /\ r.tEnd = q.tEnd
      /\ r.pc = q.pc /\ r.t = q.t /\ r.lang = q.lang /\ r.staged = q.staged
      /\ r.wq = q.wq /\ r.fly = q.fly /\ r.wFail = q.wFail /\ r.err = q.err
  BY <1>2, <1>3 DEF UploadRecords
<1>6. StreamSound(r)
  BY <1>2, <1>4, <1>5 DEF StreamSound, Loaded
<1> QED BY <1>4, <1>6, Moved

LEMMA TransformerErrorKeeps ==
  ASSUME LexiconInv, NEW s \in Streams, LX!TransformerError(s)
  PROVE  LexiconInv'
<1>1. PICK q : q = up[s]
  OBVIOUS
<1>2. StreamSound(q) /\ q \in UploadRecords
  BY <1>1, Stream DEF LX!TransformerError, StreamSound
<1> DEFINE none == <<>>
<1>3. PICK r : r = [q EXCEPT !.wEnd = TRUE, !.err = TRUE, !.tq = none, !.parsed = TRUE]
  OBVIOUS
<1>4. q.tq # <<>> /\ LX!Set(s, r) /\ none \in Seq(LX!LexRows)
  BY <1>1, <1>3 DEF LX!TransformerError
<1> HIDE DEF none
<1>5. /\ r \in UploadRecords
      /\ r.err /\ r.wEnd /\ r.pc = q.pc /\ r.wq = q.wq /\ r.fly = q.fly /\ r.wFail = q.wFail
  BY <1>2, <1>3, <1>4 DEF UploadRecords
<1>6. StreamSound(r)
  BY <1>2, <1>4, <1>5 DEF StreamSound
<1> QED BY <1>4, <1>6, Moved

LEMMA WriterStartKeeps ==
  ASSUME LexiconInv, NEW s \in Streams, LX!WriterStart(s)
  PROVE  LexiconInv'
<1>1. PICK q : q = up[s]
  OBVIOUS
<1>2. StreamSound(q) /\ q \in UploadRecords
  BY <1>1, Stream DEF LX!WriterStart, StreamSound
<1>3. PICK r : r = [q EXCEPT !.fly = q.wq, !.wq = {}]
  OBVIOUS
<1>4. q.wq # {} /\ q.fly = {} /\ ~q.wFail /\ LX!Set(s, r)
  BY <1>1, <1>3 DEF LX!WriterStart
<1>5. /\ r \in UploadRecords
      /\ r.fly = q.wq /\ r.wq = {} /\ r.parse = q.parse /\ r.tq = q.tq /\ r.parsed = q.parsed
      /\ r.tEnd = q.tEnd /\ r.wEnd = q.wEnd
      /\ r.pc = q.pc /\ r.t = q.t /\ r.lang = q.lang /\ r.staged = q.staged
      /\ r.wFail = q.wFail /\ r.err = q.err
  BY <1>2, <1>3 DEF UploadRecords
<1>6. q.pc = "streaming" /\ Loaded(r) = Loaded(q)
  BY <1>2, <1>4, <1>5 DEF StreamSound, Loaded
<1>7. StreamSound(r)
  BY <1>2, <1>4, <1>5, <1>6 DEF StreamSound
<1> QED BY <1>4, <1>7, Moved

LEMMA WriterDoneKeeps ==
  ASSUME LexiconInv, NEW s \in Streams, LX!WriterDone(s)
  PROVE  LexiconInv'
<1>1. PICK q : q = up[s]
  OBVIOUS
<1>2. StreamSound(q) /\ q \in UploadRecords
  BY <1>1, Stream DEF LX!WriterDone, StreamSound
<1>3. PICK r : r = [q EXCEPT !.staged = q.staged \cup q.fly, !.fly = {}]
  OBVIOUS
<1>4. q.fly # {} /\ LX!Set(s, r)
  BY <1>1, <1>3 DEF LX!WriterDone
<1>5. /\ r \in UploadRecords
      /\ r.staged = q.staged \cup q.fly /\ r.fly = {} /\ r.parse = q.parse /\ r.tq = q.tq
      /\ r.parsed = q.parsed /\ r.tEnd = q.tEnd /\ r.wEnd = q.wEnd
      /\ r.pc = q.pc /\ r.t = q.t /\ r.lang = q.lang /\ r.wq = q.wq
      /\ r.wFail = q.wFail /\ r.err = q.err
  BY <1>2, <1>3 DEF UploadRecords
<1>6. q.pc = "streaming" /\ Loaded(r) = Loaded(q)
  BY <1>2, <1>4, <1>5 DEF StreamSound, Loaded
<1>7. StreamSound(r)
  BY <1>2, <1>4, <1>5, <1>6 DEF StreamSound
<1> QED BY <1>4, <1>7, Moved

LEMMA WriterErrorKeeps ==
  ASSUME LexiconInv, NEW s \in Streams, LX!WriterError(s)
  PROVE  LexiconInv'
<1>1. PICK q : q = up[s]
  OBVIOUS
<1>2. StreamSound(q) /\ q \in UploadRecords
  BY <1>1, Stream DEF LX!WriterError, StreamSound
<1>3. PICK p : p = IF q.pc = "streaming" THEN "rejected" ELSE q.pc
  OBVIOUS
<1>4. PICK r : r = [q EXCEPT !.fly = {}, !.wFail = TRUE, !.pc = p]
  OBVIOUS
<1>5. q.fly # {} /\ LX!Set(s, r)
  BY <1>1, <1>3, <1>4 DEF LX!WriterError
<1>6. q.pc = "streaming" /\ p = "rejected"
  BY <1>2, <1>3, <1>5 DEF StreamSound
<1>7. /\ r \in UploadRecords
      /\ r.pc = "rejected" /\ r.fly = {} /\ r.wFail /\ r.parse = q.parse /\ r.tq = q.tq
      /\ r.parsed = q.parsed /\ r.tEnd = q.tEnd /\ r.wEnd = q.wEnd /\ r.err = q.err
  BY <1>2, <1>4, <1>6 DEF UploadRecords
<1>8. StreamSound(r)
  BY <1>2, <1>7 DEF StreamSound
<1> QED BY <1>5, <1>8, Moved

LEMMA WriterFinishKeeps ==
  ASSUME LexiconInv, NEW s \in Streams, LX!WriterFinish(s)
  PROVE  LexiconInv'
<1>1. PICK q : q = up[s]
  OBVIOUS
<1>2. q.pc = "streaming" /\ q.wEnd /\ q.wq = {} /\ q.fly = {} /\ ~q.wFail
  BY <1>1 DEF LX!WriterFinish
<1>3. StreamSound(q) /\ q \in UploadRecords
  BY <1>1, <1>2, Stream DEF LX!Piping, StreamSound
<1>4. PICK p : p = IF q.err THEN "rejected" ELSE "resolved"
  OBVIOUS
<1>5. PICK r : r = [q EXCEPT !.pc = p]
  OBVIOUS
<1>6. LX!Set(s, r)
  BY <1>1, <1>4, <1>5 DEF LX!WriterFinish
<1>7. /\ r \in UploadRecords
      /\ r.pc = p /\ r.parse = q.parse /\ r.tq = q.tq /\ r.wq = q.wq /\ r.fly = q.fly
      /\ r.t = q.t /\ r.lang = q.lang /\ r.staged = q.staged
      /\ r.parsed = q.parsed /\ r.tEnd = q.tEnd /\ r.wEnd = q.wEnd
      /\ r.wFail = q.wFail /\ r.err = q.err
  BY <1>3, <1>4, <1>5 DEF UploadRecords
<1>8. StreamSound(r)
  BY <1>2, <1>3, <1>4, <1>7 DEF StreamSound, Loaded
<1> QED BY <1>6, <1>8, Moved

LEMMA BeginUploadKeeps ==
  ASSUME LexiconInv, NEW s \in Streams, NEW u \in Uploaders, NEW t \in LX!LexTypes, NEW l \in LexLangs,
         NEW f \in Files \cup {NoRow}, LX!BeginUpload(s, u, t, l, f)
  PROVE  LexiconInv'
<1> DEFINE none == <<>>
<1>1. PICK k : k = LX!KeptValues(t, l)
  OBVIOUS
<1>2. PICK p : p = IF f = NoRow THEN "resolved" ELSE "streaming"
  OBVIOUS
<1>3. PICK c : c = IF f = NoRow THEN none ELSE f
  OBVIOUS
<1>4. PICK n \in BOOLEAN : n <=> f # NoRow
  OBVIOUS
<1>5. PICK m : m = (f # NoRow)
  OBVIOUS
<1>6. PICK r : r = [pc |-> p, t |-> t, lang |-> l, ner |-> m, staged |-> k, parse |-> c,
                    parsed |-> FALSE, tq |-> none, tEnd |-> FALSE, wq |-> {}, wEnd |-> FALSE,
                    fly |-> {}, wFail |-> FALSE, err |-> FALSE]
  OBVIOUS
<1>7. LX!Set(s, r)
  BY <1>1, <1>2, <1>3, <1>5, <1>6 DEF LX!BeginUpload, LX!Set
<1>8. m \in BOOLEAN
  <2>1. CASE f = NoRow
    BY <1>5, <2>1
  <2>2. CASE f # NoRow
    BY <1>5, <2>2
  <2> QED BY <2>1, <2>2
<1>9. k \in SUBSET LX!LexRows /\ (Replaced(t, l) => k = {})
  <2>1. values[t][l] \in SUBSET LX!LexRows
    BY DEF LexiconInv
  <2>2. Replaced(t, l) => LX!RowLang(t, l) = l
    BY DEF Replaced, LX!RowLang
  <2>3. Replaced(t, l) /\ types[t][l] = NoRow => values[t][l] = {}
    BY DEF LexiconInv
  <2>4. Replaced(t, l) => ~(LX!IsEntity(t) /\ l # "en")
    BY DEF Replaced
  <2> QED BY <1>1, <2>1, <2>2, <2>3, <2>4 DEF LX!KeptValues
<1>10. /\ c \in Seq(LX!LexRows) /\ none \in Seq(LX!LexRows) /\ Written(none) = {}
       /\ Written(c) \in Wholes
  <2>1. none \in Seq(LX!LexRows) /\ Written(none) = {}
    BY NothingWritten
  <2>2. CASE f = NoRow
    <3>1. c = none
      BY <1>3, <2>2
    <3> HIDE DEF none
    <3> QED BY <2>1, <3>1 DEF Wholes
  <2>3. CASE f # NoRow
    <3>1. c = f /\ f \in Files
      BY <1>3, <2>3
    <3>2. f \in Seq(LX!LexRows)
      BY <3>1, LexiconAssumption DEF LX!LexiconAssumption
    <3>3. Written(f) = LX!FileRows(f)
      BY DEF Written, LX!FileRows
    <3> QED BY <2>1, <3>1, <3>2, <3>3 DEF Wholes
  <2> QED BY <2>2, <2>3, <2>1
<1> HIDE DEF none
<1>11. /\ r \in UploadRecords
       /\ r.pc = p /\ r.t = t /\ r.lang = l /\ r.staged = k /\ r.parse = c /\ r.tq = none
       /\ ~r.parsed /\ ~r.tEnd /\ r.wq = {} /\ ~r.wEnd /\ r.fly = {} /\ ~r.wFail /\ ~r.err
  <2>1. p \in {"streaming", "resolved", "rejected", "ended"}
    BY <1>2
  <2> QED BY <1>6, <1>8, <1>9, <1>10, <2>1 DEF UploadRecords
<1>12. Replaced(t, l) => Loaded(r) = Written(c)
  BY <1>9, <1>10, <1>11 DEF Loaded
<1>13. none = <<>> /\ (p # "streaming" => p = "resolved" /\ c = none)
  BY <1>2, <1>3 DEF none
<1>14. StreamSound(r)
  BY <1>10, <1>11, <1>12, <1>13 DEF StreamSound
<1> QED BY <1>7, <1>14, Moved

\* A stream whose transaction ends keeps all but its pc.
LEMMA Ends ==
  ASSUME NEW q, StreamSound(q), q.pc \in {"resolved", "rejected"}, NEW r, r = [q EXCEPT !.pc = "ended"]
  PROVE  StreamSound(r)
<1>1. q \in UploadRecords
  BY DEF StreamSound
<1>2. /\ r \in UploadRecords
      /\ r.pc = "ended" /\ r.parse = q.parse /\ r.tq = q.tq /\ r.wq = q.wq /\ r.fly = q.fly
      /\ r.t = q.t /\ r.lang = q.lang /\ r.staged = q.staged
      /\ r.parsed = q.parsed /\ r.tEnd = q.tEnd /\ r.wEnd = q.wEnd
      /\ r.wFail = q.wFail /\ r.err = q.err
  BY <1>1 DEF UploadRecords
<1> QED BY <1>2 DEF StreamSound, Loaded

LEMMA RollbackKeeps ==
  ASSUME LexiconInv, NEW s \in Streams, LX!Rollback(s)
  PROVE  LexiconInv'
<1>1. PICK q : q = up[s]
  OBVIOUS
<1>2. StreamSound(q) /\ q.pc = "rejected"
  BY <1>1 DEF LX!Rollback, LexiconInv
<1>3. PICK r : r = [q EXCEPT !.pc = "ended"]
  OBVIOUS
<1>4. LX!Set(s, r)
  BY <1>1, <1>3 DEF LX!Rollback, LX!Set
<1>5. StreamSound(r)
  BY <1>2, <1>3, Ends
<1> QED BY <1>4, <1>5, Moved

LEMMA UnlinkKeeps ==
  ASSUME LexiconInv, NEW s \in Streams, LX!Unlink(s)
  PROVE  LexiconInv'
<1>1. up' = [up EXCEPT ![s] = LX!Off] /\ types' = types /\ values' = values
  BY DEF LX!Unlink
<1>2. LX!Off.pc = "off"
  BY DEF LX!Off
<1>3. up' \in [Streams -> UploadRecords \cup {LX!Off}]
  BY <1>1 DEF LexiconInv
<1>4. \A x \in Streams : up'[x].pc # "off" => StreamSound(up'[x])
  BY <1>1, <1>2 DEF LexiconInv
<1> QED BY <1>1, <1>3, <1>4 DEF LexiconInv

LEMMA UploadCommitKeeps ==
  ASSUME LexiconInv, NEW s \in Streams, LX!Commit(s)
  PROVE  LexiconInv'
<1>1. PICK q : q = up[s]
  OBVIOUS
<1>2. StreamSound(q) /\ q.pc = "resolved" /\ q \in UploadRecords
  BY <1>1 DEF LX!Commit, LexiconInv, StreamSound
<1>3. PICK r : r = [q EXCEPT !.pc = "ended"]
  OBVIOUS
<1>4. PICK row : row = IF LX!IsEntity(q.t) THEN [ner |-> q.ner] ELSE [lang |-> q.lang]
  OBVIOUS
<1>5. PICK k : k = LX!RowLang(q.t, q.lang)
  OBVIOUS
<1>6. PICK w : w = [l \in LexLangs |->
                      IF l = q.lang THEN q.staged
                      ELSE IF LX!IsEntity(q.t) /\ l = "en" /\ types[q.t]["en"] # NoRow
                      THEN {} ELSE values[q.t][l]]
  OBVIOUS
<1>7. /\ up' = [up EXCEPT ![s] = r]
      /\ types' = [types EXCEPT ![q.t][k] = row]
      /\ values' = [values EXCEPT ![q.t] = w]
  BY <1>1, <1>3, <1>4, <1>5, <1>6 DEF LX!Commit
<1>8. /\ q.t \in LX!LexTypes /\ q.lang \in LexLangs /\ q.ner \in BOOLEAN
      /\ q.staged \in SUBSET LX!LexRows
  BY <1>2 DEF UploadRecords
<1>9. k \in LexLangs /\ (Replaced(q.t, q.lang) => k = q.lang) /\ (LX!IsEntity(q.t) => k = "en")
  BY <1>5, <1>8, LexiconAssumption DEF LX!RowLang, Replaced, LX!LexiconAssumption
<1>10. row \in LX!TypeRows /\ row # NoRow
  BY <1>4, <1>8, LexiconAssumption DEF LX!TypeRows, LX!LexiconAssumption
<1>11. w \in [LexLangs -> SUBSET LX!LexRows]
  BY <1>6, <1>8 DEF LexiconInv
<1>12. /\ types' \in [LX!LexTypes -> [LexLangs -> LX!TypeRows \cup {NoRow}]]
       /\ types'[q.t][k] = row
       /\ \A t \in LX!LexTypes, l \in LexLangs : t # q.t \/ l # k => types'[t][l] = types[t][l]
  BY <1>7, <1>8, <1>9, <1>10 DEF LexiconInv
<1>13. /\ values' \in [LX!LexTypes -> [LexLangs -> SUBSET LX!LexRows]]
       /\ values'[q.t] = w
       /\ \A t \in LX!LexTypes : t # q.t => values'[t] = values[t]
  BY <1>7, <1>8, <1>11 DEF LexiconInv
\* What is committed is all that was loaded.
<1>14. Replaced(q.t, q.lang) => q.staged \in Wholes
  <2>1. q.fly = {} /\ q.wq = {} /\ q.tq = <<>> /\ q.parse = <<>> /\ ~q.err /\ ~q.wFail
    BY <1>2 DEF StreamSound
  <2>2. Loaded(q) = q.staged
    BY <2>1, NothingWritten DEF Loaded
  <2> QED BY <1>2, <2>1, <2>2 DEF StreamSound
<1>15. ASSUME NEW t \in LX!LexTypes, NEW l \in LexLangs, Replaced(t, l)
       PROVE  values'[t][l] \in Wholes /\ (types'[t][l] = NoRow => values'[t][l] = {})
  <2>1. values[t][l] \in Wholes /\ (types[t][l] = NoRow => values[t][l] = {})
    BY <1>15 DEF LexiconInv
  <2>2. CASE t # q.t
    BY <1>12, <1>13, <2>1, <2>2
  <2>3. CASE t = q.t /\ l = q.lang
    <3>1. values'[t][l] = q.staged
      BY <1>6, <1>13, <2>3
    <3>2. types'[t][l] = row
      BY <1>9, <1>12, <1>15, <2>3
    <3> QED BY <1>10, <1>14, <1>15, <2>3, <3>1, <3>2
  <2>4. CASE t = q.t /\ l # q.lang
    <3>1. values'[t][l] = {} \/ values'[t][l] = values[t][l]
      BY <1>6, <1>13, <2>4
    <3>2. {} \in Wholes
      BY DEF Wholes
    <3>3. types'[t][l] = NoRow => types[t][l] = NoRow
      BY <1>10, <1>12, <2>4
    <3> QED BY <2>1, <3>1, <3>2, <3>3
  <2> QED BY <2>2, <2>3, <2>4
<1>16. StreamSound(r) /\ r \in UploadRecords
  BY <1>2, <1>3, Ends DEF StreamSound
<1>17. /\ up' \in [Streams -> UploadRecords \cup {LX!Off}]
       /\ \A x \in Streams : up'[x].pc # "off" => StreamSound(up'[x])
  BY <1>7, <1>16 DEF LexiconInv
<1> QED BY <1>12, <1>13, <1>15, <1>17 DEF LexiconInv

LEMMA LexiconNext == LexiconInv /\ LX!LNext => LexiconInv'
BY BeginUploadKeeps, ParserRowKeeps, ParserEndKeeps, ParserErrorKeeps, TransformKeeps,
   TransformerEndKeeps, TransformerErrorKeeps, WriterStartKeeps, WriterDoneKeeps, WriterErrorKeeps,
   WriterFinishKeeps, UploadCommitKeeps, RollbackKeeps, UnlinkKeeps DEF LX!LNext

-----------------------------------------------------------------------------
\* The rows users share.
RowsInv == ExamplesInv /\ LikesInv /\ LexiconInv /\ VotesInv

LEMMA RowsInitially == Init => RowsInv
BY CommandpediaInit, LexiconInit, VotesInitially DEF Init, RowsInv

LEMMA RowsInvariance == RowsInv /\ [Next]_vars => RowsInv' /\ (KeepsIds \/ UNCHANGED CP!cvars)
<1> SUFFICES ASSUME RowsInv, [Next]_vars
             PROVE  RowsInv' /\ (KeepsIds \/ UNCHANGED CP!cvars)
  OBVIOUS
<1>1. UNCHANGED commandpediaVars \/ CP!CNext
  BY DEF Next, Frame, vars
<1>2. UNCHANGED lexiconVars \/ LX!LNext
  BY DEF Next, Frame, vars
<1>3. UNCHANGED mturkVars \/ MT!MTNext
  BY DEF Next, Frame, vars
<1>4. ExamplesInv' /\ LikesInv' /\ (KeepsIds \/ UNCHANGED CP!cvars)
  BY <1>1, CommandpediaNext, TallyIdle DEF RowsInv
<1>5. LexiconInv'
  BY <1>2, LexiconNext, LexiconIdle DEF RowsInv
<1>6. VotesInv'
  BY <1>3, VotesNext, VotesIdle DEF RowsInv
<1> QED BY <1>4, <1>5, <1>6 DEF RowsInv

LEMMA RowsHold ==
  RowsInv => /\ CP!LikesCounted /\ MT!OneVoteEach
             /\ LX!NoInflightInsert /\ LX!WholeFiles
BY LikesHold, VotesOnce, LexiconHolds DEF RowsInv

(***************************************************************************)
(* The rows users share are exact for any number of users, workers and     *)
(* uploads: the counter of an example is the number of its likes, unless   *)
(* two requests of one user for it overlapped or a crash cut one short     *)
(* (model/example.ts; such an example has drifted, and nothing is said of  *)
(* it), a worker votes once on a sentence (routes/mturk.ts), an upload     *)
(* leaves a whole file or nothing (util/upload_dataset.ts), and an example *)
(* that stays in a dataset keeps its identifier (util/import_device.ts).   *)
(***************************************************************************)
THEOREM RowsStayExact == Spec => RowsExact
<1>1. RowsInv /\ [Next]_vars => [KeepsIds]_(CP!cvars)
  BY RowsInvariance
<1> QED BY RowsInitially, RowsInvariance, RowsHold, <1>1, PTL DEF Spec, RowsExact, CP!ExampleKeepsId, KeepsIds

-----------------------------------------------------------------------------
(* The types of the parts.                                                 *)

\* The versions of the rows, those an update has read too, exist.
VersionsKnown ==
  /\ \A d \in Devices : appr[d] \in 0..dev[d] /\ dev[d] \in 0..MaxVersion[d]
  /\ \A r \in rows \cup upd.obsolete : r.version \in 1..dev[r.device]
  /\ \A d \in Devices : upd.seen[d] \in 0..dev[d]

LEMMA VersionsInitially == TT!TTInit => VersionsKnown
<1> SUFFICES ASSUME TT!TTInit PROVE VersionsKnown
  OBVIOUS
<1>1. /\ rows = {} /\ upd.obsolete = {}
      /\ \A d \in Devices : dev[d] = 0 /\ appr[d] = 0 /\ upd.seen[d] = 0
  BY DEF TT!TTInit, TT!NoUpdate
<1> QED BY <1>1, BoundsAssumption DEF VersionsKnown

LEMMA VersionsIdle == VersionsKnown /\ UNCHANGED tasksVars => VersionsKnown'
BY DEF VersionsKnown, tasksVars

LEMMA UploadVersions ==
  ASSUME TasksTyped, VersionsKnown, NEW d \in Devices, TT!UploadDevice(d)
  PROVE  VersionsKnown'
<1>1. /\ dev[d] < MaxVersion[d] /\ dev' = [dev EXCEPT ![d] = dev[d] + 1]
      /\ UNCHANGED <<appr, rows, upd>>
  BY DEF TT!UploadDevice
<1>2. \A e \in Devices : /\ dev[e] \in Nat /\ dev'[e] \in Nat /\ dev[e] <= dev'[e]
                         /\ dev'[e] = dev[e] \/ (e = d /\ dev'[e] <= MaxVersion[e])
  BY <1>1, BoundsAssumption DEF TasksTyped
<1>3. \A e \in Devices : appr[e] \in 0..dev'[e] /\ dev'[e] \in 0..MaxVersion[e]
  BY <1>2, BoundsAssumption DEF VersionsKnown, TasksTyped
<1>4. \A r \in rows \cup upd.obsolete : r.device \in Devices /\ r.version \in Nat
  BY DEF TasksTyped, RowRecords, UpdateRecords
<1>5. \A r \in rows \cup upd.obsolete : r.version \in 1..dev'[r.device]
  BY <1>2, <1>4 DEF VersionsKnown
<1>6. \A e \in Devices : upd.seen[e] \in 0..dev'[e]
  BY <1>2 DEF VersionsKnown
<1> QED BY <1>1, <1>3, <1>5, <1>6 DEF VersionsKnown

LEMMA ApproveVersions ==
  ASSUME TasksTyped, VersionsKnown, NEW d \in Devices, TT!ApproveDevice(d)
  PROVE  VersionsKnown'
<1>1. appr' = [appr EXCEPT ![d] = dev[d]] /\ UNCHANGED <<dev, rows, upd>>
  BY DEF TT!ApproveDevice
<1>2. \A e \in Devices : appr'[e] = appr[e] \/ (e = d /\ appr'[e] = dev[e])
  BY <1>1 DEF TasksTyped
<1> QED BY <1>1, <1>2 DEF VersionsKnown, TasksTyped

LEMMA LearnVersions ==
  ASSUME TasksTyped, VersionsKnown, NEW d \in Devices, NEW type, TT!Learn(d, type)
  PROVE  VersionsKnown'
<1>1. PICK v : /\ v > 0 /\ v \in {dev[d], appr[d]}
               /\ rows' = rows \cup {[type |-> type, device |-> d, version |-> v, obsolete |-> FALSE]}
               /\ UNCHANGED <<dev, appr, upd>>
  BY DEF TT!Learn
<1>2. v \in 1..dev[d]
  BY <1>1 DEF VersionsKnown, TasksTyped
<1> QED BY <1>1, <1>2 DEF VersionsKnown

LEMMA TypecheckVersions ==
  ASSUME TasksTyped, VersionsKnown, TT!Typecheck
  PROVE  VersionsKnown'
<1>1. PICK R \in SUBSET rows : upd' = [upd EXCEPT !.pc = "generate", !.seen = dev, !.obsolete = R]
  BY DEF TT!Typecheck
<1>2. UNCHANGED <<dev, appr, rows>>
  BY DEF TT!Typecheck
<1>3. upd'.seen = dev /\ upd'.obsolete \subseteq rows
  BY <1>1 DEF TasksTyped, UpdateRecords
<1> QED BY <1>2, <1>3 DEF VersionsKnown, TasksTyped

LEMMA GenerateVersions ==
  ASSUME TasksTyped, VersionsKnown, NEW C \in SUBSET Devices, TT!Generate(C)
  PROVE  VersionsKnown'
<1> DEFINE view == [d \in Devices |-> IF d \in C THEN upd.seen[d] ELSE dev[d]]
<1>1. /\ UNCHANGED <<dev, appr>> /\ upd' = [upd EXCEPT !.pc = "exact"]
      /\ rows' = ((rows \ TT!ClearExistingDataset) \ upd.obsolete)
                   \cup {[r EXCEPT !.obsolete = TRUE] : r \in upd.obsolete}
                   \cup TT!GenerateNewSynthetic(view)
  BY DEF TT!Generate
<1>2. upd'.obsolete = upd.obsolete /\ upd'.seen = upd.seen
  BY <1>1 DEF TasksTyped, UpdateRecords
<1>3. \A d \in Devices : view[d] > 0 => view[d] \in 1..dev[d]
  BY DEF VersionsKnown, TasksTyped
<1> HIDE DEF view
<1>4. \A r \in TT!GenerateNewSynthetic(view) : r.version \in 1..dev[r.device]
  BY <1>3, SelectedDevices DEF TT!GenerateNewSynthetic
<1>5. \A r \in upd.obsolete :
        /\ r \in RowRecords
        /\ [r EXCEPT !.obsolete = TRUE].version = r.version
        /\ [r EXCEPT !.obsolete = TRUE].device = r.device
  BY DEF TasksTyped, UpdateRecords, RowRecords
<1>6. \A r \in rows' : r.version \in 1..dev[r.device]
  BY <1>1, <1>4, <1>5 DEF VersionsKnown
<1> QED BY <1>1, <1>2, <1>6 DEF VersionsKnown

LEMMA UpdateVersions ==
  ASSUME TasksTyped, VersionsKnown,
         UNCHANGED <<dev, appr, rows>>,
         (upd'.seen = upd.seen /\ upd'.obsolete = upd.obsolete) \/ upd' = TT!NoUpdate
  PROVE  VersionsKnown'
<1>1. CASE upd' = TT!NoUpdate
  <2>1. upd'.obsolete = {} /\ \A d \in Devices : upd'.seen[d] = 0
    BY <1>1 DEF TT!NoUpdate
  <2> QED BY <2>1 DEF VersionsKnown, TasksTyped
<1> QED BY <1>1 DEF VersionsKnown

LEMMA VersionsNext ==
  TasksTyped /\ VersionsKnown /\ TT!TTNext => VersionsKnown'
<1> SUFFICES ASSUME TasksTyped, VersionsKnown, TT!TTNext PROVE VersionsKnown'
  OBVIOUS
<1>1. ASSUME NEW D \in SUBSET Devices, TT!UpdateBegin(D) PROVE VersionsKnown'
  <2>1. upd' = [upd EXCEPT !.pc = "typecheck", !.devices = D] /\ UNCHANGED <<dev, appr, rows>>
    BY <1>1 DEF TT!UpdateBegin
  <2>2. upd'.seen = upd.seen /\ upd'.obsolete = upd.obsolete
    BY <2>1 DEF TasksTyped, UpdateRecords
  <2> QED BY <2>1, <2>2, UpdateVersions
<1>2. CASE TT!UpdateExactMatch \/ TT!KillUpdate
  BY <1>2, UpdateVersions DEF TT!UpdateExactMatch, TT!KillUpdate
<1> QED BY <1>1, <1>2, UploadVersions, ApproveVersions, LearnVersions, TypecheckVersions,
           GenerateVersions DEF TT!TTNext

LEMMA TasksTypes == TasksTyped /\ VersionsKnown => TT!TTTypeOK
BY DEF TasksTyped, VersionsKnown, RowRecords, UpdateRecords, TT!TTTypeOK

-----------------------------------------------------------------------------
\* The paraphrases are numbered, within the bounds.
Numbered ==
  /\ hits \subseteq MT!Hits
  /\ \E n \in 0..MaxParaphrases : DOMAIN output = 1..n

LEMMA NumberedInitially == MT!MTInit => Numbered
<1> SUFFICES ASSUME MT!MTInit PROVE Numbered
  OBVIOUS
<1>1. hits = {} /\ DOMAIN output = 1..0
  BY DEF MT!MTInit
<1>2. 0 \in 0..MaxParaphrases
  BY BoundsAssumption
<1> QED BY <1>1, <1>2 DEF Numbered

LEMMA NumberedIdle == Numbered /\ UNCHANGED mturkVars => Numbered'
BY DEF Numbered, mturkVars

LEMMA CreateNumbers ==
  ASSUME NEW n \in 0..MaxRows, Numbered, MT!Create(n)
  PROVE  Numbered'
<1>1. hits' = 0..(n \div PerHit - 1) /\ output' = output
  BY DEF MT!Create
<1>2. n \div PerHit <= MaxRows \div PerHit
  BY BoundsAssumption, Quotients
<1>3. n \div PerHit \in Int /\ MaxRows \div PerHit \in Int
  BY BoundsAssumption
<1>4. hits' \subseteq MT!Hits
  BY <1>1, <1>2, <1>3 DEF MT!Hits
<1> QED BY <1>1, <1>4 DEF Numbered

LEMMA SubmitNumbers ==
  ASSUME NEW h \in hits, NEW k \in 0..MaxParaphrases, Numbered, MT!Submit(h, k)
  PROVE  Numbered'
<1>1. PICK n \in 0..MaxParaphrases : DOMAIN output = 1..n
  BY DEF Numbered
<1>2. \A S : MT!Cardinality(S) = Cardinality(S)
  BY DEF MT!Cardinality, Cardinality
<1>3. Cardinality(DOMAIN output) = n
  BY <1>1, FS_Interval, BoundsAssumption
<1>4. /\ n + k <= MaxParaphrases /\ hits' = hits
      /\ DOMAIN output' = DOMAIN output \cup ((n + 1)..(n + k))
  BY <1>2, <1>3 DEF MT!Submit, MT!InsertSubmission
<1>5. DOMAIN output' = 1..(n + k)
  BY <1>1, <1>4, BoundsAssumption
<1> QED BY <1>4, <1>5, <1>1, BoundsAssumption DEF Numbered

LEMMA NumberedNext == Numbered /\ MT!MTNext => Numbered'
<1> SUFFICES ASSUME Numbered, MT!MTNext PROVE Numbered'
  OBVIOUS
<1>1. ASSUME NEW h, NEW w, NEW good, MT!Validate(h, w, good) PROVE Numbered'
  <2>1. hits' = hits /\ DOMAIN output' = DOMAIN output
    BY <1>1 DEF MT!Validate, MT!Count
  <2> QED BY <2>1 DEF Numbered
<1>2. ASSUME NEW b, MT!Close(b) PROVE Numbered'
  BY <1>2 DEF MT!Close, Numbered
<1>3. CASE MT!StartValidation
  BY <1>3 DEF MT!StartValidation, Numbered
<1> QED BY <1>1, <1>2, <1>3, CreateNumbers, SubmitNumbers DEF MT!MTNext

LEMMA CrowdTypes == CrowdInv /\ VotesInv /\ Numbered => MT!MTTypeOK
<1> SUFFICES ASSUME CrowdInv, VotesInv, Numbered PROVE MT!MTTypeOK
  OBVIOUS
<1>1. DOMAIN output \subseteq MT!Paraphrases
  BY BoundsAssumption DEF Numbered, MT!Paraphrases
<1>2. \A p \in DOMAIN output : output[p].hit \in hits
  BY DEF VotesInv
<1> QED BY <1>1, <1>2 DEF CrowdInv, CrowdTyped, VotesInv, Numbered, MT!MTTypeOK

-----------------------------------------------------------------------------
\* The boxes and the results of the form are sentences, or empty.
FormTyped == CT!TTypeOK /\ results \in Utterances \cup {None}

LEMMA FormTypedInitially == CT!TInit => FormTyped
BY DEF CT!TInit, FormTyped, CT!TTypeOK

LEMMA FormTypedIdle == FormTyped /\ UNCHANGED trainerVars => FormTyped'
BY DEF FormTyped, CT!TTypeOK, trainerVars

LEMMA FormTypedNext == FormTyped /\ CT!TNext => FormTyped'
<1> SUFFICES ASSUME FormTyped, CT!TNext PROVE FormTyped'
  OBVIOUS
<1> USE DEF FormTyped, CT!TTypeOK
<1>1. ASSUME NEW u \in Utterances, CT!EditUtterance(u) PROVE FormTyped'
  BY <1>1 DEF CT!EditUtterance
<1>2. ASSUME NEW u \in Utterances, CT!Handle(u) PROVE FormTyped'
  BY <1>2 DEF CT!Handle
<1>3. ASSUME NEW u \in Utterances, CT!AskFails(u) PROVE FormTyped'
  BY <1>3 DEF CT!AskFails
<1>4. ASSUME NEW u \in Utterances, NEW some \in BOOLEAN, CT!Predict(u, some) PROVE FormTyped'
  BY <1>4 DEF CT!Predict
<1>5. CASE CT!EditCode
  BY <1>5 DEF CT!EditCode
<1>6. CASE CT!SubmitPredict
  BY <1>6 DEF CT!SubmitPredict
<1>7. CASE CT!SubmitConfirm
  BY <1>7 DEF CT!SubmitConfirm
<1>8. CASE CT!SubmitLearn
  BY <1>8 DEF CT!SubmitLearn
<1>9. CASE CT!Accept
  BY <1>9 DEF CT!Accept
<1>10. CASE CT!RejectAll
  BY <1>10 DEF CT!RejectAll
<1>11. CASE CT!LearnThingTalk
  BY <1>11 DEF CT!LearnThingTalk
<1> QED BY <1>1, <1>2, <1>3, <1>4, <1>5, <1>6, <1>7, <1>8, <1>9, <1>10, <1>11 DEF CT!TNext

LEMMA CommandpediaTypes == ExamplesInv /\ LikesInv => CP!CTypeOK
<1> SUFFICES ASSUME ExamplesInv, LikesInv PROVE CP!CTypeOK
  OBVIOUS
<1>1. \A v \in Votes : vote[v].pc \in {"idle", "liked", "unliked"}
  BY DEF LikesInv, VoteRecords, CP!NoVote
<1> QED BY <1>1 DEF ExamplesInv, LikesInv, CP!CTypeOK

\* What the types of the parts need besides the invariants above.
TypesInv == VersionsKnown /\ Numbered /\ FormTyped

LEMMA TypesInvariance ==
  TypesInv /\ DatasetInv /\ [Next]_vars => TypesInv'
<1> SUFFICES ASSUME TypesInv, DatasetInv, [Next]_vars PROVE TypesInv'
  OBVIOUS
<1>1. /\ UNCHANGED tasksVars \/ TT!TTNext
      /\ UNCHANGED mturkVars \/ MT!MTNext
      /\ UNCHANGED trainerVars \/ CT!TNext
  BY DEF Next, Frame, vars
<1>2. VersionsKnown'
  BY <1>1, VersionsNext, VersionsIdle DEF TypesInv, DatasetInv, TasksInv
<1>3. Numbered'
  BY <1>1, NumberedNext, NumberedIdle DEF TypesInv
<1>4. FormTyped'
  BY <1>1, FormTypedNext, FormTypedIdle DEF TypesInv
<1> QED BY <1>2, <1>3, <1>4 DEF TypesInv

(***************************************************************************)
(* Every part that makes or serves datasets and models stays within its    *)
(* type, for any numbers of its requests, devices, workers and jobs: the   *)
(* versions that rows name exist (training/tasks), the likes are for       *)
(* examples that are there (model/example.ts), the paraphrases belong to   *)
(* the HITs of the batch (routes/mturk.ts).                                *)
(***************************************************************************)
THEOREM LanguageTyped == Spec => []LanguageTypes
<1>1. Init => TypesInv
  BY VersionsInitially, NumberedInitially, FormTypedInitially DEF Init, TypesInv
<1>2. Spec => []RowsInv
  BY RowsInitially, RowsInvariance, PTL DEF Spec
<1>3. ModelsInv /\ RowsInv /\ DatasetInv /\ TypesInv => LanguageTypes
  BY CommandpediaTypes, LexiconHolds, CrowdTypes, TasksTypes
     DEF ModelsInv, NLPInv, JobsInv, RowsInv, DatasetInv, TasksInv, TypesInv, FormTyped, LanguageTypes
<1> QED BY <1>1, <1>2, <1>3, TypesInvariance, ModelsInvariance, DatasetInvariance, PTL DEF Spec
=============================================================================
