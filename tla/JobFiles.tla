------------------------------ MODULE JobFiles ------------------------------
(***************************************************************************)
(* The files of a training job, from the data set to the served model:    *)
(* the tasks prepare-training-set, train and evaluate, each a process of   *)
(* its own (training/run-training-task.js, training/tasks), the uploading  *)
(* task of the daemon (training/job_specs.js), and the storage they share *)
(* (util/abstract_fs.ts).  Directories are on S3, as on Kubernetes, where *)
(* a pod may be evicted (SIGTERM) at any time, or on the local disk.      *)
(***************************************************************************)
EXTENDS Naturals, FiniteSets

CONSTANTS NoJob,         \* model value
          Jobs,          \* train jobs of one model
          MaxModel       \* versions of the model

Sets == {"train", "eval"}        \* dataset/train.tsv and dataset/eval.tsv
Outs == {"weights", "config"}    \* files of the output directory

VARIABLES storage,       \* "s3:" or "file:"
          pc,            \* job -> its place in the four tasks
          file,          \* job -> data file -> "none", "partial", "whole" in the job directory
          spool,         \* job -> data files written, their upload not done (S3)
          local,         \* job -> the copy `train` works on; "trained"/"killed" once it ended
          out,           \* job -> output files in the job directory, complete or not
          metrics,       \* jobs whose row has metrics
          lock,          \* job that holds the model's row (select ... for update)
          version,       \* version in the committed model row
          claim,         \* job -> the version its transaction writes
          dir            \* version -> output file -> the job it came from

jfvars == <<storage, pc, file, spool, local, out, metrics, lock, version, claim, dir>>

JFTypeOK ==
    /\ storage \in {"s3:", "file:"}
    /\ pc \in [Jobs -> {"queued", "prepare", "prepared", "train", "trained", "evaluate",
                        "evaluated", "uploading", "done", "error"}]
    /\ file \in [Jobs -> [Sets -> {"none", "partial", "whole"}]]
    /\ spool \in [Jobs -> SUBSET Sets]
    /\ local \in [Jobs -> {"none", "training", "trained", "killed", "removed"}]
    /\ out \in [Jobs -> {"none", "partial", "whole"}]
    /\ metrics \subseteq Jobs
    /\ lock \in Jobs \cup {NoJob}
    /\ version \in 0..MaxModel /\ claim \in [Jobs -> 0..MaxModel]
    /\ dir \in [1..MaxModel -> [Outs -> Jobs \cup {NoJob}]]

JFInit ==
    /\ storage \in {"s3:", "file:"}
    /\ pc = [j \in Jobs |-> "queued"]
    /\ file = [j \in Jobs |-> [f \in Sets |-> "none"]]
    /\ spool = [j \in Jobs |-> {}]
    /\ local = [j \in Jobs |-> "none"]
    /\ out = [j \in Jobs |-> "none"]
    /\ metrics = {} /\ lock = NoJob /\ version = 0
    /\ claim = [j \in Jobs |-> 0]
    /\ dir = [v \in 1..MaxModel |-> [f \in Outs |-> NoJob]]

Goes(j, p) == pc' = [pc EXCEPT ![j] = p]

----------------------------------------------------------------------------
\* A task process starts: it reads the job and the model, and fails if the
\* model is gone (Task.load).
Load(j) ==
    /\ \/ pc[j] = "queued" /\ (Goes(j, "prepare") \/ Goes(j, "error"))
       \/ pc[j] = "prepared" /\ (Goes(j, "train") \/ Goes(j, "error"))
       \/ pc[j] = "trained" /\ (Goes(j, "evaluate") \/ Goes(j, "error"))
    /\ UNCHANGED <<storage, file, spool, local, out, metrics, lock, version, claim, dir>>

\* prepare-training-set writes a file: on the local disk the file grows in
\* place, for S3 it is spooled and its upload starts when it is finished.
WriteSet(j, f) ==
    /\ pc[j] = "prepare"
    /\ IF storage = "s3:"
       THEN /\ file[j][f] = "none" /\ f \notin spool[j]
            /\ spool' = [spool EXCEPT ![j] = @ \cup {f}]
            /\ UNCHANGED file
       ELSE /\ file[j][f] # "whole"
            /\ file' = [file EXCEPT ![j][f] = IF @ = "none" THEN "partial" ELSE "whole"]
            /\ UNCHANGED spool
    /\ UNCHANGED <<storage, pc, local, out, metrics, lock, version, claim, dir>>

\* The upload that the finish event of the spool started.
SpoolUploaded(j, f) ==
    /\ pc[j] = "prepare" /\ f \in spool[j] /\ file[j][f] = "none"
    /\ file' = [file EXCEPT ![j][f] = "whole"]
    /\ UNCHANGED <<storage, pc, spool, local, out, metrics, lock, version, claim, dir>>

\* The process ends once nothing is pending, the uploads included.
PrepareDone(j) ==
    /\ pc[j] = "prepare" /\ \A f \in Sets : file[j][f] = "whole"
    /\ Goes(j, "prepared")
    /\ UNCHANGED <<storage, file, spool, local, out, metrics, lock, version, claim, dir>>

\* train: the job directory is downloaded (the local one is used in place), and
\* without its data set the task fails.
Download(j) ==
    /\ pc[j] = "train" /\ local[j] = "none"
    /\ IF file[j]["train"] = "none"
       THEN Goes(j, "error") /\ UNCHANGED local
       ELSE local' = [local EXCEPT ![j] = "training"] /\ UNCHANGED pc
    /\ UNCHANGED <<storage, file, spool, out, metrics, lock, version, claim, dir>>

\* Genie trains, or fails (external).
GenieTrain(j) ==
    /\ pc[j] = "train" /\ local[j] = "training"
    /\ \/ local' = [local EXCEPT ![j] = "trained"] /\ UNCHANGED pc
       \/ Goes(j, "error") /\ UNCHANGED local
    /\ UNCHANGED <<storage, file, spool, out, metrics, lock, version, claim, dir>>

\* After training: a killed task uploads nothing and ends well; otherwise the
\* output is uploaded, which may stop half way, and the temporary copy removed.
AfterTrain_Mut(j) ==
    /\ pc[j] = "train" /\ local[j] \in {"trained", "killed"}
    /\ out' = [out EXCEPT ![j] = IF local[j] = "killed" THEN "partial" ELSE "whole"]
    /\ Goes(j, "trained")
    /\ local' = [local EXCEPT ![j] = "removed"]
    /\ UNCHANGED <<storage, file, spool, metrics, lock, version, claim, dir>>
AfterTrain(j) ==
    /\ pc[j] = "train" /\ local[j] \in {"trained", "killed"}
    /\ \/ /\ local[j] = "killed"
          /\ Goes(j, "trained")
          /\ UNCHANGED <<local, out>>
       \/ /\ local[j] = "trained"
          /\ out' = [out EXCEPT ![j] = "whole"]
          /\ local' = [local EXCEPT ![j] = "removed"]
          /\ Goes(j, "trained")
       \/ /\ local[j] = "trained" /\ storage = "s3:"
          /\ out' = [out EXCEPT ![j] = "partial"]
          /\ Goes(j, "error")
          /\ UNCHANGED local
    /\ UNCHANGED <<storage, file, spool, metrics, lock, version, claim, dir>>

\* evaluate needs eval.tsv and an output directory the parser can load.  A
\* parser may load what an interrupted training left.
Evaluate(j) ==
    /\ pc[j] = "evaluate"
    /\ IF file[j]["eval"] = "none" \/ out[j] = "none"
       THEN Goes(j, "error") /\ UNCHANGED metrics
       ELSE \/ Goes(j, "evaluated") /\ metrics' = metrics \cup {j}
            \/ Goes(j, "error") /\ UNCHANGED metrics
    /\ UNCHANGED <<storage, file, spool, local, out, lock, version, claim, dir>>

\* The pod of a task is evicted.  Two tasks die quietly with status 0, which
\* counts as success; train asks Genie to stop, which may end either way.
Evict(j) ==
    /\ storage = "s3:"
    /\ \/ pc[j] = "prepare" /\ Goes(j, "prepared") /\ UNCHANGED local
       \/ pc[j] = "evaluate" /\ Goes(j, "evaluated") /\ UNCHANGED local
       \/ /\ pc[j] = "train" /\ local[j] = "training"
          /\ \/ local' = [local EXCEPT ![j] = "killed"] /\ UNCHANGED pc
             \/ Goes(j, "error") /\ UNCHANGED local
    /\ UNCHANGED <<storage, file, spool, out, metrics, lock, version, claim, dir>>

----------------------------------------------------------------------------
\* uploading, in the daemon: the model's row is locked for the transaction and
\* the new version is the one after it.
LockModel_Mut(j) ==
    /\ pc[j] = "evaluated" /\ version < MaxModel
    /\ claim' = [claim EXCEPT ![j] = version + 1]
    /\ Goes(j, "uploading")
    /\ UNCHANGED <<storage, file, spool, local, out, metrics, lock, version, dir>>
LockModel(j) ==
    /\ pc[j] = "evaluated" /\ version < MaxModel
    /\ lock = NoJob
    /\ lock' = j
    /\ claim' = [claim EXCEPT ![j] = version + 1]
    /\ Goes(j, "uploading")
    /\ UNCHANGED <<storage, file, spool, local, out, metrics, version, dir>>

Unlock(j) == lock' = IF lock = j THEN NoJob ELSE lock

\* AbstractFS.sync copies the output file by file into the directory of the new
\* version; a file already there is replaced, none is removed.
SyncFile(j, f) ==
    /\ pc[j] = "uploading" /\ out[j] # "none"
    /\ dir[claim[j]][f] # j
    /\ dir' = [dir EXCEPT ![claim[j]][f] = j]
    /\ UNCHANGED <<storage, pc, file, spool, local, out, metrics, lock, version, claim>>

\* The copy is complete (on S3 nothing is copied from an empty output, and that
\* is no error) and the transaction commits.
Commit(j) ==
    /\ pc[j] = "uploading"
    /\ IF out[j] = "none" THEN storage = "s3:" ELSE \A f \in Outs : dir[claim[j]][f] = j
    /\ version' = claim[j]
    /\ Unlock(j)
    /\ Goes(j, "done")
    /\ UNCHANGED <<storage, file, spool, local, out, metrics, claim, dir>>

\* The copy or the transaction fails: a rollback, and the directory stays as
\* far as the copy got.
UploadFails(j) ==
    /\ pc[j] = "uploading"
    /\ Unlock(j)
    /\ Goes(j, "error")
    /\ UNCHANGED <<storage, file, spool, local, out, metrics, version, claim, dir>>

JFNext ==
    \E j \in Jobs :
        \/ Load(j) \/ PrepareDone(j) \/ Download(j) \/ GenieTrain(j) \/ AfterTrain(j)
        \/ Evaluate(j) \/ Evict(j) \/ LockModel(j) \/ Commit(j) \/ UploadFails(j)
        \/ \E f \in Sets : WriteSet(j, f) \/ SpoolUploaded(j, f)
        \/ \E f \in Outs : SyncFile(j, f)

JFSpec == JFInit /\ [][JFNext]_jfvars

----------------------------------------------------------------------------
\* The directory of a version that is served with metrics holds the output of
\* the job that made it, whole, and that job was trained on a complete training
\* set: neither two jobs of the model uploading at once, nor an upload that
\* failed before, nor an evicted train task that ended with status 0 gets a
\* mixed or unfinished model served (train.js, evaluate.js and the uploading
\* task of job_specs.js).  A version without metrics is one whose evaluation
\* was evicted; nothing is known of it.
ServedModelWhole ==
    \A j \in metrics : pc[j] = "done" =>
        /\ \A f \in Outs : dir[claim[j]][f] = j
        /\ out[j] = "whole"
        /\ file[j]["train"] = "whole"
=============================================================================
