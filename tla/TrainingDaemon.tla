--------------------------- MODULE TrainingDaemon ---------------------------
(***************************************************************************)
(* The training controller: src/src/training/daemon.js, the Job objects it *)
(* runs (training_job.js, job_specs.js) and the training_jobs table it     *)
(* shares with the website (src/src/model/training_job.ts).                *)
(*                                                                         *)
(* Every db.withTransaction body is one action: the transactions run at    *)
(* isolation level serializable and select their rows "for update", so     *)
(* they are atomic to one another.  What is NOT atomic with them is the    *)
(* daemon's own memory: _currentJobs, the Job objects, the setImmediate    *)
(* callbacks of _startAll and the _startNextJob transactions in flight.    *)
(***************************************************************************)
EXTENDS Integers, FiniteSets

CONSTANTS
    JobTypes,      \* JOB_TYPES, the keys of job_specs.js
    Languages,
    Tags,          \* model tags
    NoTag,         \* model_tag null
    Devices,       \* device kinds
    NModels,       \* the rows of table models have ids 1..NModels
    Model,         \* Model[m]: the model row with id m
    Templates,     \* the request bodies posted to /jobs/create
    MaxRequests,   \* bound on calls to /jobs/create
    MaxCrashes,    \* bound on crashes of the daemon process
    MaxDbFailures, \* bound on completion transactions that fail
    MaxInFlight    \* bound on _startNextJob transactions of a type in flight

AllJobTypes == {"update-dataset", "train", "gen-custom-synthetic",
                "gen-custom-augmented", "gen-custom-turking"}

\* What scheduleJob accepts: forDevices null is all = TRUE. approved is not in
\* the request: which of its devices have an approved version when it comes.
TemplateSpace ==
    [jobType : JobTypes \cup {"update-dataset,train"}, lang : Languages,
     tag : Tags \cup {NoTag}, all : BOOLEAN, devices : SUBSET Devices,
     approved : SUBSET Devices]

ASSUME TypesAssumption == /\ JobTypes \subseteq AllJobTypes
                          /\ {"train", "update-dataset"} \subseteq JobTypes
ASSUME TagAssumption == NoTag \notin Tags
ASSUME ModelAssumption ==
    /\ NModels \in Nat
    /\ Model \in [1..NModels -> [lang : Languages, tag : Tags,
                                 contextual : BOOLEAN, allDevices : BOOLEAN,
                                 useApproved : BOOLEAN, devices : SUBSET Devices]]
    \* table models has a unique key on (language, tag)
    /\ \A m, n \in 1..NModels :
          Model[m].lang = Model[n].lang /\ Model[m].tag = Model[n].tag => m = n
ASSUME TemplateAssumption ==
    /\ Templates \subseteq TemplateSpace
    /\ \A t \in Templates : (t.all \/ t.devices # {}) /\ t.approved \subseteq t.devices
ASSUME BoundAssumption ==
    MaxRequests \in Nat /\ MaxCrashes \in Nat /\ MaxDbFailures \in Nat
    /\ MaxInFlight \in Nat \ {0}

NoJob == 0         \* depends_on null, _currentJobs[type] undefined
Statuses == {"queued", "started", "success", "error"}
Ended == {"success", "error"}

\* Mutant of NTasks: the loop of _doRun stops one task early for train jobs.
NTasks_SkipUpload(type) == IF type = "train" THEN 3
                           ELSE IF type = "update-dataset" THEN 2 ELSE 1

\* How many tasks a job of this type runs, and which of them is a function
\* that the daemon itself runs instead of handing it to the backend.
NTasks(type) == CASE type = "update-dataset" -> 2
                  [] type = "train" -> 4
                  [] OTHER -> 1
IsLocalTask(type, i) == \/ type = "update-dataset" /\ i = 2
                        \/ type = "train" /\ i = 4

\* The steps of a Job object.  "begin": the top of the loop of _doRun;
\* "spawn": awaiting the backend, this.child still null; "child": awaiting
\* this.child.wait(); "local": awaiting a local function; "completing":
\* jobComplete has cleared _currentJobs and its transaction is in flight.
RunSteps == {"begin", "spawn", "child", "local"}
Steps == {"none", "completing"} \cup RunSteps

VARIABLES
    lastId,      \* auto-increment of training_jobs
    rows,        \* table training_jobs (with training_job_for_devices)
    published,   \* ids of the train jobs that uploaded a new model version
    up,          \* is the daemon process running
    current,     \* _currentJobs: type -> job id
    job,         \* the Job object of each row, if any
    immediates,  \* pending setImmediate callbacks of _startAll
    txns,        \* type -> number of _startNextJob transactions in flight
    rejected,    \* templates answered with an error by /jobs/create
    requests, crashes, dbFailures,   \* how much of the bounds is used
    madeWith,    \* history: the dependency each job was created with
    succeeded,   \* history: jobs whose completion was recorded as success
    asked        \* history: the devices (or "all") each job was asked to cover

dbvars == <<lastId, rows, published>>
memvars == <<up, current, job, immediates, txns>>
bounds == <<requests, crashes, dbFailures>>
history == <<madeWith, succeeded, asked>>
vars == <<dbvars, memvars, rejected, bounds, history>>

Row == [type : JobTypes, lang : Languages, tag : Tags \cup {NoTag},
        dependsOn : Nat, all : BOOLEAN, devices : SUBSET Devices,
        status : Statuses]
JobObject == [task : Nat, step : Steps, killed : BOOLEAN,
              status : Statuses]
NoObject == [task |-> 0, step |-> "none", killed |-> FALSE,
             status |-> "queued"]

TypeOK ==
    /\ lastId \in Nat
    /\ rows \in [1..lastId -> Row]
    /\ published \subseteq 1..lastId
    /\ up \in BOOLEAN
    /\ current \in [JobTypes -> 0..lastId]
    /\ job \in [1..lastId -> JobObject]
    /\ immediates \in Nat
    /\ txns \in [JobTypes -> 0..MaxInFlight]
    /\ rejected \subseteq Templates
    /\ requests \in 0..MaxRequests
    /\ crashes \in 0..MaxCrashes
    /\ dbFailures \in 0..MaxDbFailures
    /\ madeWith \in [1..lastId -> 0..lastId]
    /\ succeeded \subseteq 1..lastId
    /\ asked \in [1..lastId -> SUBSET (Devices \cup {"all"})]

Init ==
    /\ lastId = 0 /\ rows = [j \in 1..0 |-> NoJob] /\ published = {}
    /\ up = FALSE
    /\ current = [type \in JobTypes |-> NoJob]
    /\ job = [j \in 1..0 |-> NoObject]
    /\ immediates = 0
    /\ txns = [type \in JobTypes |-> 0]
    /\ rejected = {}
    /\ requests = 0 /\ crashes = 0 /\ dbFailures = 0
    /\ madeWith = [j \in 1..0 |-> NoJob] /\ succeeded = {}
    /\ asked = [j \in 1..0 |-> {}]

-----------------------------------------------------------------------------
(* Queries of model/training_job.ts *)

\* "order by id asc limit 1"
FirstOf(S) == IF S = {} THEN NoJob ELSE CHOOSE j \in S : \A k \in S : j <= k

\* Mutant of getNextJob: the query forgets "depends_on is null".
getNextJob_AnyDependency(type) ==
    FirstOf({j \in 1..lastId : /\ rows[j].status = "queued"
                               /\ rows[j].type = type})

getNextJob(type) ==
    FirstOf({j \in 1..lastId : /\ rows[j].status = "queued"
                               /\ rows[j].type = type
                               /\ rows[j].dependsOn = NoJob})

\* Mutant of getNextOfType: the query forgets "status = 'queued'".
getNextOfType_AnyStatus(type, lang, tag) ==
    FirstOf({j \in 1..lastId : /\ rows[j].type = type
                               /\ rows[j].lang = lang
                               /\ rows[j].tag = tag})

getNextOfType(type, lang, tag) ==
    FirstOf({j \in 1..lastId : /\ rows[j].status = "queued"
                               /\ rows[j].type = type
                               /\ rows[j].lang = lang
                               /\ rows[j].tag = tag})

\* Mutant of getAllInProgress: the daemon does not look for interrupted jobs.
getAllInProgress_Nothing == {}

getAllInProgress == {j \in 1..lastId : rows[j].status = "started"}

\* Mutant of WithDependents: a failure is not passed on.
WithDependents_Self(S) == S

\* getDependents applied recursively, as _recordJobCompletion does: S and the
\* least set that holds every job depending on a job of S or of that set.
Waiting == {j \in 1..lastId : rows[j].dependsOn # NoJob}
WithDependents(S) ==
    S \cup {j \in Waiting :
              \A C \in SUBSET Waiting :
                  (\A k \in Waiting : rows[k].dependsOn \in S \cup C => k \in C) => j \in C}

-----------------------------------------------------------------------------
(* _recordJobCompletion: write the outcome of the jobs of S; an error is   *)
(* passed on to everything that depends on them; then nobody depends on    *)
(* any of those jobs any more.                                             *)

RecordJobCompletion(S, status) ==
    LET closed == IF status = "error" THEN WithDependents(S) ELSE S IN
    /\ rows' = [j \in 1..lastId |->
                 [rows[j] EXCEPT
                    !.status = IF j \in S THEN status
                               ELSE IF j \in closed THEN "error" ELSE @,
                    !.dependsOn = IF @ \in closed THEN NoJob ELSE @]]
    /\ succeeded' = IF status = "success" THEN succeeded \cup S ELSE succeeded
    /\ UNCHANGED <<lastId, madeWith, asked>>

-----------------------------------------------------------------------------
(* scheduleJob *)

\* getForDevices: a model of all devices takes part when one of those that are
\* asked for exists, or is approved when it uses only what is approved.
Concerns(m, t) ==
    IF Model[m].allDevices THEN (IF Model[m].useApproved THEN t.approved ELSE t.devices) # {}
    ELSE Model[m].devices \cap t.devices # {}

\* _getAffectedModels, without the contextual models that scheduleJob skips.
AffectedModels(t) ==
    {m \in 1..NModels :
        /\ Model[m].lang = t.lang
        /\ ~Model[m].contextual
        /\ IF t.tag # NoTag THEN Model[m].tag = t.tag
           ELSE t.all \/ Concerns(m, t)}

WantsDataset(t) == t.jobType \in {"update-dataset", "update-dataset,train"}
WantsTrain(t) == t.jobType \in {"train", "update-dataset,train"}

\* The queued update-dataset job the request merges with, or NoJob.
DatasetCandidate(t) ==
    IF WantsDataset(t) THEN getNextOfType("update-dataset", t.lang, NoTag) ELSE NoJob

\* The queued train job the request merges with for model m: only a request
\* without a dependency is merged.
TrainCandidate(t, m) ==
    IF t.jobType = "train" THEN getNextOfType("train", t.lang, Model[m].tag) ELSE NoJob

TrainModels(t) == IF WantsTrain(t) THEN AffectedModels(t) ELSE {}
MergedInto(t) == ({DatasetCandidate(t)} \cup {TrainCandidate(t, m) : m \in TrainModels(t)})
                     \ {NoJob}

\* The models that get a new train job, in the order of the query (by id).
NewTrain(t) == {m \in TrainModels(t) : TrainCandidate(t, m) = NoJob}
InModelOrder(n, S) ==
    {o \in [1..n -> S] : /\ \A i, j \in 1..n : i < j => o[i] < o[j]
                         /\ \A m \in S : \E i \in 1..n : o[i] = m}

\* Mutant of NewRow: language and tag are swapped.
NewRow_Swapped(t, type, tag, dependsOn) ==
    [type |-> type, lang |-> tag, tag |-> t.lang, dependsOn |-> dependsOn,
     all |-> t.all, devices |-> IF t.all THEN {} ELSE t.devices,
     status |-> "queued"]

NewRow(t, type, tag, dependsOn) ==
    [type |-> type, lang |-> t.lang, tag |-> tag, dependsOn |-> dependsOn,
     all |-> t.all, devices |-> IF t.all THEN {} ELSE t.devices,
     status |-> "queued"]

\* Mutant of Merged: the devices of the new request are not added.
Merged_KeepRow(t, row) == row

\* addForDevices on the row merged into, unless it is for all devices already
Merged(t, row) == IF row.all THEN row ELSE [row EXCEPT !.devices = @ \cup t.devices]

\* makeForAllDevices names a column job_id that training_jobs does not have:
\* the statement fails, and with it the whole transaction.
MergeFails(t) == t.all /\ \E j \in MergedInto(t) : ~rows[j].all

Asks(t) == IF t.all THEN {"all"} ELSE t.devices

\* Jobs that are neither train nor update-dataset are queued as they are.
IsPlain(t) == ~WantsDataset(t) /\ ~WantsTrain(t)

\* How many rows that are not train rows the request creates, that row, and
\* the dependency of the train rows that follow it.
NFirst(t) == IF IsPlain(t) \/ (WantsDataset(t) /\ DatasetCandidate(t) = NoJob) THEN 1 ELSE 0
FirstRow(t) == NewRow(t, IF IsPlain(t) THEN t.jobType ELSE "update-dataset", NoTag, NoJob)
TrainDependsOn(t) == IF t.jobType # "update-dataset,train" THEN NoJob
                     ELSE IF NFirst(t) = 1 THEN lastId + 1 ELSE DatasetCandidate(t)

\* The statements of the transaction, when n models, in this order, get a new
\* train job.
ScheduleRows(t, n, order) ==
    LET last == lastId + NFirst(t) + n
        IsNewTrain(j) == j > lastId + NFirst(t)
        TrainRow(j) == NewRow(t, "train", Model[order[j - lastId - NFirst(t)]].tag, TrainDependsOn(t))
    IN
    /\ lastId' = last
    /\ rows' = [j \in 1..last |->
                 IF IsNewTrain(j) THEN TrainRow(j)
                 ELSE IF j > lastId THEN FirstRow(t)
                 ELSE IF j \in MergedInto(t) THEN Merged(t, rows[j]) ELSE rows[j]]
    /\ job' = [j \in 1..last |-> IF j <= lastId THEN job[j] ELSE NoObject]
    /\ madeWith' = [j \in 1..last |->
                     IF IsNewTrain(j) THEN TrainDependsOn(t)
                     ELSE IF j > lastId THEN NoJob ELSE madeWith[j]]
    /\ asked' = [j \in 1..last |->
                  IF j > lastId THEN Asks(t)
                  ELSE IF j \in MergedInto(t) THEN asked[j] \cup Asks(t) ELSE asked[j]]

\* The transaction of scheduleJob followed by _startAll.
ScheduleJob(t) ==
    /\ up /\ requests < MaxRequests
    /\ ~MergeFails(t)
    /\ \E n \in 0..NModels : \E order \in InModelOrder(n, NewTrain(t)) : ScheduleRows(t, n, order)
    /\ immediates' = immediates + 1
    /\ requests' = requests + 1
    /\ UNCHANGED <<published, up, current, txns, rejected, crashes, dbFailures, succeeded>>

\* The statement of makeForAllDevices fails: rollback, and a 400 answer.
RejectJob(t) ==
    /\ up /\ requests < MaxRequests
    /\ MergeFails(t)
    /\ rejected' = rejected \cup {t}
    /\ requests' = requests + 1
    /\ UNCHANGED <<dbvars, memvars, crashes, dbFailures, history>>

-----------------------------------------------------------------------------
(* _startAll and _startNextJob *)

\* The setImmediate callback: one _startNextJob call per type, which opens a
\* transaction if no job of that type is current.
RunStartAll ==
    /\ up /\ immediates > 0
    /\ \A type \in JobTypes : txns[type] < MaxInFlight
    /\ immediates' = immediates - 1
    /\ txns' = [type \in JobTypes |->
                  IF current[type] = NoJob THEN txns[type] + 1 ELSE txns[type]]
    /\ UNCHANGED <<dbvars, up, current, job, rejected, bounds, history>>

\* Mutant of CanStart: the second look at _currentJobs is dropped.
CanStart_Always(type) == TRUE

\* "check for races": another transaction may have started a job meanwhile
CanStart(type) == current[type] = NoJob

\* The transaction of _startNextJob, with Job.start and _doStart.
StartNextJob(type) ==
    LET next == getNextJob(type)
        starts == next # NoJob /\ CanStart(type)
    IN
    /\ up /\ txns[type] > 0
    /\ txns' = [txns EXCEPT ![type] = @ - 1]
    /\ IF starts
       THEN /\ current' = [current EXCEPT ![type] = next]
            /\ job' = [job EXCEPT ![next] = [NoObject EXCEPT !.task = 1, !.step = "begin",
                                                             !.status = "started"]]
            /\ rows' = [rows EXCEPT ![next].status = "started"]
       ELSE UNCHANGED <<current, job, rows>>
    /\ UNCHANGED <<lastId, published, up, immediates, rejected, bounds, history>>

-----------------------------------------------------------------------------
(* Job._doRun *)

IsRunning(j) == job[j].step \in RunSteps

\* Job.complete and the synchronous part of jobComplete: only the current
\* job of its type is completed.
Complete(j, status) ==
    /\ current' = [current EXCEPT ![rows[j].type] = IF @ = j THEN NoJob ELSE @]
    /\ job' = [job EXCEPT ![j] =
                 IF current[rows[j].type] = j
                 THEN [@ EXCEPT !.step = "completing", !.status = status]
                 ELSE NoObject]

\* Mutant of StopsKilled: the flag is not looked at after the last task.
StopsKilled_InLoopOnly(j) == job[j].killed /\ job[j].task <= NTasks(rows[j].type)

\* "if (this._killed) throw new Error(`Killed`)", in the loop and after it
StopsKilled(j) == job[j].killed

\* The top of the loop: stop if killed, finish after the last task, or save
\* the new task index and start the task.
BeginTask(j) ==
    /\ up /\ job[j].step = "begin"
    /\ IF StopsKilled(j)
       THEN Complete(j, "error")
       ELSE IF job[j].task > NTasks(rows[j].type)
       THEN Complete(j, "success")
       ELSE /\ job' = [job EXCEPT ![j].step =
                         IF IsLocalTask(rows[j].type, job[j].task) THEN "local" ELSE "spawn"]
            /\ UNCHANGED current
    /\ UNCHANGED <<dbvars, up, immediates, txns, rejected, bounds, history>>

\* "this.child = await this._backend(this, taskSpec)"
TaskSpawned(j) ==
    /\ up /\ job[j].step = "spawn"
    /\ job' = [job EXCEPT ![j].step = "child"]
    /\ UNCHANGED <<dbvars, up, current, immediates, txns, rejected, bounds, history>>

IsUpload(j) == rows[j].type = "train" /\ job[j].task = 4

\* The task ends well and is recorded; the last task of a train job has
\* committed a new model version.
TaskDone(j) ==
    /\ up /\ job[j].step \in {"child", "local"}
    /\ job' = [job EXCEPT ![j] = [job[j] EXCEPT !.step = "begin", !.task = job[j].task + 1]]
    /\ published' = IF IsUpload(j) THEN published \cup {j} ELSE published
    /\ UNCHANGED <<lastId, rows, up, current, immediates, txns, rejected, bounds, history>>

\* The task, or the statement that saves or records it, fails: Job.fail.  So
\* does a child that was sent SIGTERM.  The upload may fail after the new
\* version is committed (the NLP server does not answer).
TaskFailed(j) ==
    /\ up /\ job[j].step \in {"spawn", "child", "local"}
    /\ Complete(j, "error")
    /\ published' \in {published, IF IsUpload(j) THEN published \cup {j} ELSE published}
    /\ UNCHANGED <<lastId, rows, up, immediates, txns, rejected, bounds, history>>

-----------------------------------------------------------------------------
(* jobComplete *)

\* Mutant of RecordCompletion: nothing is started after the transaction.
RecordCompletion_NoStartAll(j) ==
    /\ up /\ job[j].step = "completing"
    /\ RecordJobCompletion({j}, job[j].status)
    /\ job' = [job EXCEPT ![j] = NoObject]
    /\ UNCHANGED <<published, up, current, immediates, txns, rejected, bounds>>

\* The transaction of jobComplete, then _startAll.
RecordCompletion(j) ==
    /\ up /\ job[j].step = "completing"
    /\ RecordJobCompletion({j}, job[j].status)
    /\ job' = [job EXCEPT ![j] = NoObject]
    /\ immediates' = immediates + 1
    /\ UNCHANGED <<published, up, current, txns, rejected, bounds>>

\* The in-memory state is lost.
LoseMemory ==
    /\ up' = FALSE
    /\ current' = [type \in JobTypes |-> NoJob]
    /\ job' = [j \in 1..lastId |-> NoObject]
    /\ immediates' = 0
    /\ txns' = [type \in JobTypes |-> 0]

\* That transaction fails.  After a success, _doRun's catch calls fail, whose
\* jobComplete returns at once because the job is not current any more.
\* After an error, nothing catches the rejection and the process dies.
CompletionFails(j) ==
    /\ up /\ job[j].step = "completing"
    /\ dbFailures < MaxDbFailures
    /\ dbFailures' = dbFailures + 1
    /\ IF job[j].status = "success"
       THEN /\ job' = [job EXCEPT ![j] = NoObject]
            /\ UNCHANGED <<up, current, immediates, txns>>
       ELSE LoseMemory
    /\ UNCHANGED <<dbvars, rejected, requests, crashes, history>>

-----------------------------------------------------------------------------
(* killJob *)

\* The job of this row is the one that runs: only flag it (and SIGTERM the
\* child, if there is one already, whose end is TaskFailed or TaskDone).
KillCurrentJob(j) ==
    /\ up /\ rows[j].status = "started" /\ current[rows[j].type] = j
    /\ job' = [job EXCEPT ![j].killed = TRUE]
    /\ UNCHANGED <<dbvars, up, current, immediates, txns, rejected, bounds, history>>

\* Otherwise the row is closed here, whatever its status was.
KillOtherJob(j) ==
    /\ up /\ ~(rows[j].status = "started" /\ current[rows[j].type] = j)
    /\ RecordJobCompletion({j}, "error")
    /\ UNCHANGED <<published, memvars, rejected, bounds>>

-----------------------------------------------------------------------------
(* The process *)

\* The daemon dies (also when a _startNextJob transaction fails, which
\* nothing catches).
Crash ==
    /\ up /\ crashes < MaxCrashes
    /\ crashes' = crashes + 1
    /\ LoseMemory
    /\ UNCHANGED <<dbvars, rejected, requests, dbFailures, history>>

\* main: checkExistingJobs fails every job that was in progress, before the
\* frontend listens; then _startAll.
CheckExistingJobs ==
    /\ ~up
    /\ up' = TRUE
    /\ RecordJobCompletion(getAllInProgress, "error")
    /\ immediates' = immediates + 1
    /\ UNCHANGED <<published, current, job, txns, rejected, bounds>>

JobStep(j) ==
    \/ BeginTask(j)
    \/ TaskSpawned(j)
    \/ TaskDone(j)
    \/ TaskFailed(j)
    \/ RecordCompletion(j)
    \/ CompletionFails(j)
    \/ KillCurrentJob(j)
    \/ KillOtherJob(j)

Next ==
    \/ \E t \in Templates : ScheduleJob(t) \/ RejectJob(t)
    \/ RunStartAll
    \/ \E type \in JobTypes : StartNextJob(type)
    \/ \E j \in 1..lastId : JobStep(j)
    \/ Crash
    \/ CheckExistingJobs

Spec == Init /\ [][Next]_vars

\* The event loop runs callbacks, the database answers, tasks end, and the
\* daemon is restarted by its supervisor.  Nobody has to post requests, kill
\* jobs, crash or make a transaction fail.
JobProgress(type) ==
    \E j \in 1..lastId :
        /\ rows[j].type = type
        /\ \/ BeginTask(j) \/ TaskSpawned(j) \/ TaskDone(j) \/ TaskFailed(j)
           \/ RecordCompletion(j)

Fairness ==
    /\ WF_vars(RunStartAll)
    /\ WF_vars(CheckExistingJobs)
    /\ \A type \in JobTypes : WF_vars(StartNextJob(type)) /\ WF_vars(JobProgress(type))

FairSpec == Spec /\ Fairness

-----------------------------------------------------------------------------
(* Properties *)

\* A Job object that executes tasks is the current job of its type and its row
\* says so: the two looks at _currentJobs in _startNextJob keep two jobs of a
\* type from running at once, however its transactions interleave with
\* completions and kills.
RunningIsCurrent ==
    \A j \in 1..lastId : IsRunning(j) => /\ current[rows[j].type] = j
                                         /\ rows[j].status = "started"

\* Nobody waits for a job that has ended: _recordJobCompletion releases or
\* fails the dependents in the transaction that ends the job, and scheduleJob
\* only depends on a job that is still queued.
NoDanglingDependency ==
    \A j \in 1..lastId :
        rows[j].dependsOn # NoJob => rows[rows[j].dependsOn].status \in {"queued", "started"}

\* A job that was queued behind an update-dataset job runs only after that job
\* was recorded as successful, across kills, crashes and failed transactions.
DependencySucceeded ==
    \A j \in 1..lastId :
        rows[j].status \in {"started", "success"} /\ madeWith[j] # NoJob
            => madeWith[j] \in succeeded

\* "if the job failed, recursively fail all dependencies": behind a job that
\* failed, was killed or was interrupted nothing is left in the queue.
FailureCascades ==
    \A j \in 1..lastId :
        (/\ madeWith[j] # NoJob
         /\ rows[madeWith[j]].status = "error"
         /\ madeWith[j] \notin succeeded) => rows[j].status = "error"

\* A train job that is shown as successful has uploaded its model.
PublishedBeforeSuccess ==
    \A j \in 1..lastId :
        rows[j].type = "train" /\ rows[j].status = "success" => j \in published

\* A row that says started belongs to a Job object of the daemon that runs:
\* after a crash checkExistingJobs closes the rows nobody works on.  Only a
\* completion transaction that fails leaves such a row, until the next start.
NoOrphan ==
    up /\ dbFailures = 0 => \A j \in 1..lastId : rows[j].status = "started" => job[j].step # "none"

\* A job covers the devices of every request that was merged into it.
RequestsCovered ==
    \A j \in 1..lastId : rows[j].all \/ asked[j] \subseteq rows[j].devices

\* Once killJob has flagged the running job, that job is never recorded as
\* successful, not even when its last task ends well after the kill.
KilledNeverSucceeds ==
    [][\A j \in 1..lastId :
          job[j].killed /\ job[j].step # "none" => rows'[j].status # "success"]_vars

=============================================================================
