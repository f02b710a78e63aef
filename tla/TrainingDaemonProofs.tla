------------------------ MODULE TrainingDaemonProofs ------------------------
(***************************************************************************)
(* Proofs about TrainingDaemon, for every set of job types, models and     *)
(* templates and for any number of requests, crashes and failed            *)
(* transactions.                                                           *)
(***************************************************************************)
EXTENDS TrainingDaemon, TLAPS, WellFoundedInduction

\* What the current pointers and the Job objects say about each other.
CurrentOK ==
    /\ \A type \in JobTypes : current[type] # NoJob =>
          rows[current[type]].type = type /\ IsRunning(current[type])
    /\ ~up => \A j \in 1..lastId : job[j].step = "none"
    /\ ~up => \A type \in JobTypes : current[type] = NoJob

\* Where a job stands with the job it was made to wait for.
DependencyOK ==
    \A j \in 1..lastId :
        /\ rows[j].dependsOn # NoJob =>
              /\ rows[j].dependsOn = madeWith[j]
              /\ rows[j].status \in {"queued", "error"}
              /\ job[j].step = "none"
        /\ (rows[j].dependsOn = NoJob /\ rows[j].status = "queued") \/ job[j].step # "none" =>
              madeWith[j] = NoJob \/ madeWith[j] \in succeeded

\* A train job past its last task has published; a killed job that completes
\* completes with an error; an object completes with an outcome; the row of a
\* job that has an object is not a success yet.
OutcomeOK ==
    \A j \in 1..lastId :
        /\ job[j].step = "completing" => job[j].status \in Ended
        /\ (/\ rows[j].type = "train"
            /\ \/ job[j].step = "completing" /\ job[j].status = "success"
               \/ job[j].step # "none" /\ job[j].task > 4) => j \in published
        /\ job[j].killed /\ job[j].step = "completing" => job[j].status = "error"
        /\ job[j].step # "none" => rows[j].status \in {"started", "error"}

DependencyInv == /\ DependencyOK
                 /\ NoDanglingDependency
                 /\ DependencySucceeded
                 /\ FailureCascades
                 /\ RequestsCovered

ObjectInv == /\ CurrentOK
             /\ OutcomeOK
             /\ RunningIsCurrent
             /\ PublishedBeforeSuccess

\* The inductive invariant.
IInv == TypeOK /\ DependencyInv /\ ObjectInv

-----------------------------------------------------------------------------
(* Facts about the operators *)

\* FirstOf, the model of "order by id asc limit 1", returns a member of the
\* set it selects from, or NoJob.
LEMMA FirstOfMember ==
    ASSUME NEW S, S \subseteq Nat
    PROVE  /\ FirstOf(S) \in S \cup {NoJob}
           /\ S # {} => FirstOf(S) \in S
<1>1. CASE S = {}
  BY <1>1 DEF FirstOf
<1>2. CASE S # {}
  <2>1. \E x \in S : \A y \in S : ~(<<y, x>> \in OpToRel(<, Nat))
    BY <1>2, NatLessThanWellFounded, WFMin
  <2>2. \A x, y \in Nat : y < x => <<y, x>> \in OpToRel(<, Nat)
    BY DEF OpToRel
  <2>3. PICK x \in S : \A y \in S : ~(<<y, x>> \in OpToRel(<, Nat))
    BY <2>1
  <2>4. \A y \in S : ~(y < x)
    BY <2>2, <2>3, Zenon
  <2>5. \A y \in S : x <= y
    BY <2>4
  <2>6. QED
    BY <1>2, <2>5 DEF FirstOf
<1>3. QED
  BY <1>1, <1>2

\* getNextJob answers a queued row of the type that waits for nobody.
LEMMA GetNextJob ==
    ASSUME TypeOK, NEW type, getNextJob(type) # NoJob
    PROVE  LET j == getNextJob(type) IN
           /\ j \in 1..lastId
           /\ rows[j].status = "queued" /\ rows[j].type = type
           /\ rows[j].dependsOn = NoJob
<1> DEFINE S == {j \in 1..lastId : /\ rows[j].status = "queued"
                                   /\ rows[j].type = type
                                   /\ rows[j].dependsOn = NoJob}
<1>1. S \subseteq Nat
  BY DEF TypeOK
<1>2. FirstOf(S) \in S \cup {NoJob}
  BY <1>1, FirstOfMember
<1>3. QED
  BY <1>2 DEF getNextJob

\* getNextOfType answers a queued row of the type, or nothing.
LEMMA GetNextOfType ==
    ASSUME TypeOK, NEW type, NEW lang, NEW tag
    PROVE  LET j == getNextOfType(type, lang, tag) IN
           j # NoJob => /\ j \in 1..lastId
                        /\ rows[j].status = "queued" /\ rows[j].type = type
<1> DEFINE S == {j \in 1..lastId : /\ rows[j].status = "queued"
                                   /\ rows[j].type = type
                                   /\ rows[j].lang = lang
                                   /\ rows[j].tag = tag}
<1>1. S \subseteq Nat
  BY DEF TypeOK
<1>2. FirstOf(S) \in S \cup {NoJob}
  BY <1>1, FirstOfMember
<1>3. QED
  BY <1>2 DEF getNextOfType

\* The jobs a request is merged with are queued.
LEMMA MergedIntoQueued ==
    ASSUME TypeOK, NEW t
    PROVE  /\ \A j \in MergedInto(t) : j \in 1..lastId /\ rows[j].status = "queued"
           /\ DatasetCandidate(t) # NoJob => DatasetCandidate(t) \in MergedInto(t)
           /\ DatasetCandidate(t) \in 0..lastId
<1>1. DatasetCandidate(t) # NoJob =>
        /\ DatasetCandidate(t) \in 1..lastId
        /\ rows[DatasetCandidate(t)].status = "queued"
  BY GetNextOfType DEF DatasetCandidate
<1>2. \A m : TrainCandidate(t, m) # NoJob =>
        /\ TrainCandidate(t, m) \in 1..lastId
        /\ rows[TrainCandidate(t, m)].status = "queued"
  BY GetNextOfType DEF TrainCandidate
<1>3. QED
  BY <1>1, <1>2 DEF MergedInto, NoJob, TypeOK

\* WithDependents is closed: a job that waits for one of its members is in it.
LEMMA DependentsClosed ==
    ASSUME NEW S, NEW k \in Waiting, rows[k].dependsOn \in WithDependents(S)
    PROVE  k \in WithDependents(S)
<1> DEFINE Closed(C) == \A i \in Waiting : rows[i].dependsOn \in S \cup C => i \in C
<1>1. SUFFICES ASSUME NEW C \in SUBSET Waiting, Closed(C)
               PROVE  k \in C
  BY DEF WithDependents
<1>2. rows[k].dependsOn \in S \cup C
  BY <1>1 DEF WithDependents
<1>3. QED
  BY <1>1, <1>2

\* WithDependents adds nothing but jobs that wait.
LEMMA DependentsWait ==
    ASSUME NEW S
    PROVE  S \subseteq WithDependents(S) /\ WithDependents(S) \subseteq S \cup Waiting
BY DEF WithDependents

-----------------------------------------------------------------------------
(* Type correctness *)

\* RecordJobCompletion keeps rows a table of rows.
LEMMA RecordType ==
    ASSUME TypeOK, NEW S, S \subseteq 1..lastId, NEW status \in Statuses,
           RecordJobCompletion(S, status)
    PROVE  /\ rows' \in [1..lastId' -> Row]
           /\ succeeded' \subseteq 1..lastId'
           /\ madeWith' \in [1..lastId' -> 0..lastId']
           /\ asked' \in [1..lastId' -> SUBSET (Devices \cup {"all"})]
           /\ lastId' = lastId
<1> DEFINE closed == IF status = "error" THEN WithDependents(S) ELSE S
           newStatus(j) == IF j \in S THEN status
                           ELSE IF j \in closed THEN "error" ELSE rows[j].status
           newDep(j) == IF rows[j].dependsOn \in closed THEN NoJob ELSE rows[j].dependsOn
<1>1. rows' = [j \in 1..lastId |-> [rows[j] EXCEPT !.status = newStatus(j),
                                                  !.dependsOn = newDep(j)]]
  BY DEF RecordJobCompletion
<1>2. \A j \in 1..lastId : newStatus(j) \in Statuses /\ newDep(j) \in Nat
  BY DEF TypeOK, Row, NoJob, Statuses, Ended
<1> HIDE DEF newStatus, newDep
<1>3. rows' \in [1..lastId -> Row]
  BY <1>1, <1>2 DEF TypeOK, Row
<1>4. QED
  BY <1>3 DEF TypeOK, RecordJobCompletion

\* Every row a request creates is a row.
LEMMA NewRowType ==
    ASSUME NEW t \in Templates, NEW type \in JobTypes, NEW tag \in Tags \cup {NoTag},
           NEW dependsOn \in Nat
    PROVE  NewRow(t, type, tag, dependsOn) \in Row
BY TemplateAssumption DEF NewRow, Row, TemplateSpace, Statuses

\* What the transaction of scheduleJob adds: the old rows are kept or merged
\* into, the new ones are queued behind a queued job or behind none.
ScheduleEffect(t) ==
    /\ lastId' \in Nat /\ lastId <= lastId'
    /\ rows' \in [1..lastId' -> Row]
    /\ job' \in [1..lastId' -> JobObject]
    /\ madeWith' \in [1..lastId' -> 0..lastId']
    /\ asked' \in [1..lastId' -> SUBSET (Devices \cup {"all"})]
    /\ \A j \in 1..lastId :
          /\ rows'[j] = IF j \in MergedInto(t) THEN Merged(t, rows[j]) ELSE rows[j]
          /\ asked'[j] = IF j \in MergedInto(t) THEN asked[j] \cup Asks(t) ELSE asked[j]
          /\ job'[j] = job[j]
          /\ madeWith'[j] = madeWith[j]
    /\ \A j \in 1..lastId' : j > lastId =>
          /\ \E type, tag : rows'[j] = NewRow(t, type, tag, madeWith'[j])
          /\ asked'[j] = Asks(t)
          /\ job'[j] = NoObject
          /\ \/ madeWith'[j] = NoJob
             \/ madeWith'[j] \in MergedInto(t)
             \/ madeWith'[j] = lastId + 1 /\ lastId + 1 <= lastId'

\* The transaction of scheduleJob has that effect.
LEMMA ScheduleHasEffect ==
    ASSUME TypeOK, NEW t \in Templates, ScheduleJob(t)
    PROVE  ScheduleEffect(t)
<1> DEFINE first == NFirst(t)
           dependsOn == TrainDependsOn(t)
           Train(order, j) == NewRow(t, "train", Model[order[j - lastId - first]].tag, dependsOn)
           Old(j) == IF j \in MergedInto(t) THEN Merged(t, rows[j]) ELSE rows[j]
           OldAsked(j) == IF j \in MergedInto(t) THEN asked[j] \cup Asks(t) ELSE asked[j]
<1>0. lastId \in Nat /\ first \in {0, 1}
  BY DEF TypeOK, NFirst
<1> DEFINE Effect(n, order) ==
        LET last == lastId + first + n IN
        /\ lastId' = last
        /\ rows' = [j \in 1..last |->
                     IF j > lastId + first THEN Train(order, j)
                     ELSE IF j > lastId THEN FirstRow(t) ELSE Old(j)]
        /\ job' = [j \in 1..last |-> IF j <= lastId THEN job[j] ELSE NoObject]
        /\ madeWith' = [j \in 1..last |->
                         IF j > lastId + first THEN dependsOn
                         ELSE IF j > lastId THEN NoJob ELSE madeWith[j]]
        /\ asked' = [j \in 1..last |-> IF j > lastId THEN Asks(t) ELSE OldAsked(j)]
<1>a. PICK n \in 0..NModels : \E order \in InModelOrder(n, NewTrain(t)) : Effect(n, order)
  BY DEF ScheduleJob, ScheduleRows
<1>1. PICK order \in InModelOrder(n, NewTrain(t)) : Effect(n, order)
  BY <1>a
<1> HIDE DEF first, dependsOn, Train, Old, OldAsked
<1>2. n \in Nat /\ order \in [1..n -> 1..NModels]
  <2>1. NewTrain(t) \subseteq 1..NModels
    BY DEF NewTrain, TrainModels, AffectedModels
  <2>2. QED
    BY <2>1, ModelAssumption DEF InModelOrder
<1>3. lastId' \in Nat /\ lastId <= lastId' /\ lastId' = lastId + first + n
  <2>1. lastId' = lastId + first + n
    BY <1>1
  <2>2. QED
    BY <1>0, <1>2, <2>1
<1>4. /\ \/ dependsOn = NoJob
         \/ dependsOn \in MergedInto(t)
         \/ dependsOn = lastId + 1 /\ lastId + 1 <= lastId'
      /\ dependsOn \in 0..lastId'
  <2>1. /\ DatasetCandidate(t) \in 0..lastId
        /\ DatasetCandidate(t) # NoJob => DatasetCandidate(t) \in MergedInto(t)
    BY MergedIntoQueued
  <2>2. CASE t.jobType # "update-dataset,train"
    <3>1. dependsOn = 0
      BY <2>2 DEF dependsOn, TrainDependsOn, NoJob
    <3>2. QED
      BY <1>3, <3>1 DEF NoJob
  <2>3. CASE t.jobType = "update-dataset,train" /\ first = 1
    <3>1. dependsOn = lastId + 1
      BY <2>3 DEF dependsOn, TrainDependsOn, first
    <3>2. lastId + 1 <= lastId' /\ lastId \in Nat
      <4>1. lastId' = lastId + 1 + n
        BY <1>3, <2>3
      <4>2. QED
        BY <1>0, <1>2, <4>1
    <3>3. QED
      BY <1>3, <3>1, <3>2
  <2>4. CASE t.jobType = "update-dataset,train" /\ first # 1
    <3>1. dependsOn = DatasetCandidate(t)
      BY <2>4 DEF dependsOn, TrainDependsOn, first
    <3>2. QED
      BY <1>0, <1>3, <2>1, <3>1
  <2>5. QED
    BY <2>2, <2>3, <2>4
<1>5. t \in TemplateSpace
  BY TemplateAssumption
<1>6. FirstRow(t) \in Row /\ \E type, tag : FirstRow(t) = NewRow(t, type, tag, NoJob)
  <2>1. IsPlain(t) => t.jobType \in JobTypes
    BY <1>5 DEF IsPlain, WantsDataset, WantsTrain, TemplateSpace
  <2>2. FirstRow(t) \in Row
    BY <2>1, NewRowType, TypesAssumption DEF NoJob, FirstRow
  <2>3. QED
    BY <2>2 DEF FirstRow
<1>7. \A j \in 1..lastId' : j > lastId + first => Train(order, j) \in Row
  <2>1. TAKE j \in 1..lastId'
  <2>2. HAVE j > lastId + first
  <2>3. j - lastId - first \in 1..n
    BY <1>0, <1>2, <1>3, <2>2
  <2>4. Model[order[j - lastId - first]].tag \in Tags
    BY <1>2, <2>3, ModelAssumption
  <2>5. dependsOn \in Nat
    BY <1>3, <1>4
  <2>6. QED
    BY <2>4, <2>5, NewRowType, TypesAssumption DEF Train
<1>8. \A j \in 1..lastId : Old(j) \in Row
  BY <1>5 DEF Merged, Row, TypeOK, TemplateSpace, Old
<1>9. Asks(t) \subseteq Devices \cup {"all"}
  BY <1>5 DEF Asks, TemplateSpace
<1>10. rows' \in [1..lastId' -> Row]
  BY <1>0, <1>1, <1>2, <1>3, <1>6, <1>7, <1>8
<1>11. job' \in [1..lastId' -> JobObject]
  BY <1>0, <1>1, <1>2, <1>3 DEF TypeOK, NoObject, JobObject, Steps, Statuses
<1>12. madeWith' \in [1..lastId' -> 0..lastId']
  BY <1>0, <1>1, <1>2, <1>3, <1>4 DEF TypeOK, NoJob
<1>13. asked' \in [1..lastId' -> SUBSET (Devices \cup {"all"})]
  BY <1>0, <1>1, <1>2, <1>3, <1>9 DEF TypeOK, OldAsked
<1>14. ASSUME NEW j \in 1..lastId
       PROVE  /\ rows'[j] = Old(j) /\ asked'[j] = OldAsked(j)
              /\ job'[j] = job[j] /\ madeWith'[j] = madeWith[j]
  <2>1. j \in 1..lastId' /\ ~(j > lastId + first) /\ ~(j > lastId) /\ j <= lastId
    BY <1>0, <1>3
  <2>2. QED
    BY <1>1, <1>3, <2>1
<1>15. ASSUME NEW j \in 1..lastId', j > lastId
       PROVE  /\ \E type, tag : rows'[j] = NewRow(t, type, tag, madeWith'[j])
              /\ asked'[j] = Asks(t)
              /\ job'[j] = NoObject
              /\ madeWith'[j] \in {NoJob, dependsOn}
  <2>1. ~(j <= lastId)
    BY <1>0, <1>3, <1>15
  <2>2. asked'[j] = Asks(t) /\ job'[j] = NoObject
    BY <1>1, <1>3, <1>15, <2>1
  <2>3. CASE j > lastId + first
    <3>1. rows'[j] = Train(order, j) /\ madeWith'[j] = dependsOn
      BY <1>1, <1>3, <2>3
    <3>2. QED
      BY <2>2, <3>1 DEF Train
  <2>4. CASE ~(j > lastId + first)
    <3>1. rows'[j] = FirstRow(t) /\ madeWith'[j] = NoJob
      BY <1>1, <1>3, <1>15, <2>4
    <3>2. QED
      BY <1>6, <2>2, <3>1
  <2>5. QED
    BY <2>3, <2>4
<1>16. QED
  <2>1. \A j \in 1..lastId :
          /\ rows'[j] = IF j \in MergedInto(t) THEN Merged(t, rows[j]) ELSE rows[j]
          /\ asked'[j] = IF j \in MergedInto(t) THEN asked[j] \cup Asks(t) ELSE asked[j]
          /\ job'[j] = job[j]
          /\ madeWith'[j] = madeWith[j]
    BY <1>14 DEF Old, OldAsked
  <2>2. QED
    BY <1>3, <1>4, <1>10, <1>11, <1>12, <1>13, <1>15, <2>1 DEF ScheduleEffect

\* A request that is accepted keeps the types.
LEMMA TypeSchedule ==
    ASSUME TypeOK, NEW t \in Templates, ScheduleJob(t)
    PROVE  TypeOK'
<1>1. ScheduleEffect(t)
  BY ScheduleHasEffect
<1>2. /\ requests < MaxRequests
      /\ immediates' = immediates + 1 /\ requests' = requests + 1
      /\ UNCHANGED <<published, up, current, txns, rejected, crashes, dbFailures, succeeded>>
  BY Zenon DEF ScheduleJob
<1>3. immediates' \in Nat /\ requests' \in 0..MaxRequests
  BY <1>2, BoundAssumption DEF TypeOK
<1>4. QED
  BY <1>1, <1>2, <1>3 DEF TypeOK, ScheduleEffect

\* Complete keeps the pointers and the Job objects well typed.
LEMMA CompleteType ==
    ASSUME TypeOK, NEW j \in 1..lastId, NEW status \in Statuses, Complete(j, status)
    PROVE  current' \in [JobTypes -> 0..lastId] /\ job' \in [1..lastId -> JobObject]
<1>1. current' \in [JobTypes -> 0..lastId]
  <2>1. /\ current \in [JobTypes -> 0..lastId] /\ rows[j].type \in JobTypes
        /\ 0 \in 0..lastId
    BY DEF TypeOK, Row
  <2>2. QED
    BY <2>1 DEF Complete, NoJob
<1>2. NoObject \in JobObject
  BY DEF NoObject, JobObject, Steps, Statuses
<1>3. [job[j] EXCEPT !.step = "completing", !.status = status] \in JobObject
  BY DEF TypeOK, JobObject, Steps
<1>4. QED
  BY <1>1, <1>2, <1>3 DEF TypeOK, Complete

\* Losing the memory leaves it well typed.
LEMMA LoseMemoryType ==
    ASSUME TypeOK, LoseMemory
    PROVE  /\ current' \in [JobTypes -> 0..lastId]
           /\ job' \in [1..lastId -> JobObject]
           /\ txns' \in [JobTypes -> 0..MaxInFlight]
           /\ up' \in BOOLEAN /\ immediates' \in Nat
<1>1. NoObject \in JobObject
  BY DEF NoObject, JobObject, Steps, Statuses
<1>2. 0 \in 0..lastId /\ 0 \in 0..MaxInFlight
  BY BoundAssumption DEF TypeOK
<1>3. current' \in [JobTypes -> 0..lastId] /\ txns' \in [JobTypes -> 0..MaxInFlight]
  BY <1>2 DEF LoseMemory, NoJob
<1>4. job' \in [1..lastId -> JobObject]
  BY <1>1 DEF LoseMemory
<1>5. up' \in BOOLEAN /\ immediates' \in Nat
  BY DEF LoseMemory
<1>6. QED
  BY <1>3, <1>4, <1>5

\* The steps of a Job object and the two cases of killJob keep the types.
LEMMA TypeJobStep ==
    ASSUME TypeOK, NEW j \in 1..lastId, JobStep(j)
    PROVE  TypeOK'
<1> USE BoundAssumption
<1>0. lastId \in Nat /\ job[j] \in JobObject /\ rows[j] \in Row /\ NoObject \in JobObject
  BY DEF TypeOK, NoObject, JobObject, Steps, Statuses
<1>1. CASE BeginTask(j)
  <2>1. /\ current' \in [JobTypes -> 0..lastId]
        /\ job' \in [1..lastId -> JobObject]
    <3>1. CASE Complete(j, "error") \/ Complete(j, "success")
      BY <3>1, CompleteType DEF Statuses
    <3>2. CASE /\ job' = [job EXCEPT ![j].step =
                            IF IsLocalTask(rows[j].type, job[j].task) THEN "local" ELSE "spawn"]
               /\ UNCHANGED current
      BY <1>0, <3>2 DEF TypeOK, JobObject, Steps, RunSteps
    <3>3. QED
      BY <1>1, <3>1, <3>2 DEF BeginTask
  <2>2. QED
    BY <1>1, <2>1 DEF BeginTask, TypeOK, dbvars, bounds, history
<1>2. CASE TaskSpawned(j)
  <2>1. job' \in [1..lastId -> JobObject]
    BY <1>0, <1>2 DEF TaskSpawned, TypeOK, JobObject, Steps, RunSteps
  <2>2. QED
    BY <1>2, <2>1 DEF TaskSpawned, TypeOK, dbvars, bounds, history
<1>3. CASE TaskDone(j)
  <2>1. job' \in [1..lastId -> JobObject]
    <3>1. [job[j] EXCEPT !.step = "begin", !.task = job[j].task + 1] \in JobObject
      <4>1. job[j].task + 1 \in Nat
        BY <1>0 DEF JobObject
      <4>2. QED
        BY <1>0, <4>1 DEF JobObject, Steps, RunSteps
    <3>2. QED
      BY <1>3, <3>1 DEF TaskDone, TypeOK
  <2>2. published' \subseteq 1..lastId
    BY <1>3 DEF TaskDone, TypeOK
  <2>3. QED
    BY <1>3, <2>1, <2>2 DEF TaskDone, TypeOK, bounds, history
<1>4. CASE TaskFailed(j)
  <2>1. current' \in [JobTypes -> 0..lastId] /\ job' \in [1..lastId -> JobObject]
    BY <1>4, CompleteType DEF TaskFailed, Statuses
  <2>2. published' \subseteq 1..lastId
    BY <1>4 DEF TaskFailed, TypeOK
  <2>3. QED
    BY <1>4, <2>1, <2>2 DEF TaskFailed, TypeOK, bounds, history
<1>5. CASE RecordCompletion(j)
  <2>1. job' \in [1..lastId -> JobObject] /\ immediates' \in Nat
    BY <1>0, <1>5 DEF RecordCompletion, TypeOK
  <2>2. /\ rows' \in [1..lastId' -> Row]
        /\ succeeded' \subseteq 1..lastId'
        /\ madeWith' \in [1..lastId' -> 0..lastId']
        /\ asked' \in [1..lastId' -> SUBSET (Devices \cup {"all"})]
        /\ lastId' = lastId
    BY <1>0, <1>5, RecordType DEF RecordCompletion, JobObject
  <2>3. QED
    BY <1>5, <2>1, <2>2 DEF RecordCompletion, TypeOK, bounds
<1>6. CASE CompletionFails(j)
  <2>1. dbFailures' \in 0..MaxDbFailures /\ UNCHANGED <<dbvars, rejected, requests, crashes, history>>
    BY <1>6 DEF CompletionFails, TypeOK
  <2>2. CASE LoseMemory
    <3>1. /\ current' \in [JobTypes -> 0..lastId]
          /\ job' \in [1..lastId -> JobObject]
          /\ txns' \in [JobTypes -> 0..MaxInFlight]
          /\ up' \in BOOLEAN /\ immediates' \in Nat
      BY <2>2, LoseMemoryType
    <3>2. QED
      BY <2>1, <3>1 DEF TypeOK, dbvars, history
  <2>3. CASE /\ job' = [job EXCEPT ![j] = NoObject]
             /\ UNCHANGED <<up, current, immediates, txns>>
    BY <1>0, <2>1, <2>3 DEF TypeOK, dbvars, history
  <2>4. QED
    BY <1>6, <2>2, <2>3 DEF CompletionFails
<1>7. CASE KillCurrentJob(j)
  <2>1. job' \in [1..lastId -> JobObject]
    BY <1>0, <1>7 DEF KillCurrentJob, TypeOK, JobObject
  <2>2. QED
    BY <1>7, <2>1 DEF KillCurrentJob, TypeOK, dbvars, bounds, history
<1>8. CASE KillOtherJob(j)
  <2>1. /\ rows' \in [1..lastId' -> Row]
        /\ succeeded' \subseteq 1..lastId'
        /\ madeWith' \in [1..lastId' -> 0..lastId']
        /\ asked' \in [1..lastId' -> SUBSET (Devices \cup {"all"})]
        /\ lastId' = lastId
    BY <1>8, RecordType DEF KillOtherJob, Statuses
  <2>2. QED
    BY <1>8, <2>1 DEF KillOtherJob, TypeOK, memvars, bounds
<1>9. QED
  BY <1>1, <1>2, <1>3, <1>4, <1>5, <1>6, <1>7, <1>8 DEF JobStep

\* _startNextJob keeps the types.
LEMMA TypeStartNextJob ==
    ASSUME TypeOK, NEW type \in JobTypes, StartNextJob(type)
    PROVE  TypeOK'
<1> DEFINE next == getNextJob(type)
           object == [NoObject EXCEPT !.task = 1, !.step = "begin", !.status = "started"]
<1>1. txns' \in [JobTypes -> 0..MaxInFlight]
  BY BoundAssumption DEF StartNextJob, TypeOK
<1>2. CASE next # NoJob /\ CanStart(type)
  <2>1. /\ current' = [current EXCEPT ![type] = next]
        /\ job' = [job EXCEPT ![next] = object]
        /\ rows' = [rows EXCEPT ![next].status = "started"]
        /\ UNCHANGED <<lastId, published, up, immediates, rejected, bounds, history>>
    BY <1>2 DEF StartNextJob
  <2>2. next \in 1..lastId
    BY <1>2, GetNextJob
  <2>3. object \in JobObject
    BY DEF NoObject, JobObject, Steps, RunSteps, Statuses
  <2> HIDE DEF next, object
  <2>4. rows' \in [1..lastId -> Row]
    <3>1. [rows[next] EXCEPT !.status = "started"] \in Row
      <4>1. rows[next] \in Row
        BY <2>2 DEF TypeOK
      <4>2. QED
        BY <4>1 DEF Row, Statuses
    <3>2. rows' = [rows EXCEPT ![next] = [rows[next] EXCEPT !.status = "started"]]
      BY <2>1
    <3>3. QED
      BY <2>2, <3>1, <3>2 DEF TypeOK
  <2>5. current' \in [JobTypes -> 0..lastId] /\ job' \in [1..lastId -> JobObject]
    BY <2>1, <2>2, <2>3 DEF TypeOK
  <2>6. QED
    BY <1>1, <2>1, <2>4, <2>5 DEF TypeOK, bounds, history
<1>3. CASE ~(next # NoJob /\ CanStart(type))
  <2>1. UNCHANGED <<current, job, rows>>
    BY <1>3 DEF StartNextJob
  <2>2. QED
    BY <1>1, <2>1 DEF StartNextJob, TypeOK, bounds, history
<1>4. QED
  BY <1>2, <1>3

\* Every step keeps the types.
LEMMA TypeNext ==
    ASSUME TypeOK, [Next]_vars
    PROVE  TypeOK'
<1> USE BoundAssumption
<1>1. ASSUME NEW t \in Templates, ScheduleJob(t) PROVE TypeOK'
  BY <1>1, TypeSchedule
<1>2. ASSUME NEW t \in Templates, RejectJob(t) PROVE TypeOK'
  BY <1>2 DEF RejectJob, TypeOK, dbvars, memvars, history
<1>3. CASE RunStartAll
  BY <1>3 DEF RunStartAll, TypeOK, dbvars, bounds, history
<1>4. ASSUME NEW type \in JobTypes, StartNextJob(type) PROVE TypeOK'
  BY <1>4, TypeStartNextJob
<1>5. ASSUME NEW j \in 1..lastId, JobStep(j) PROVE TypeOK'
  BY <1>5, TypeJobStep
<1>6. CASE Crash
  <2>1. /\ current' \in [JobTypes -> 0..lastId]
        /\ job' \in [1..lastId -> JobObject]
        /\ txns' \in [JobTypes -> 0..MaxInFlight]
        /\ up' \in BOOLEAN /\ immediates' \in Nat
    BY <1>6, LoseMemoryType DEF Crash
  <2>2. QED
    BY <1>6, <2>1 DEF Crash, TypeOK, dbvars, history
<1>7. CASE CheckExistingJobs
  <2>1. /\ rows' \in [1..lastId' -> Row]
        /\ succeeded' \subseteq 1..lastId'
        /\ madeWith' \in [1..lastId' -> 0..lastId']
        /\ asked' \in [1..lastId' -> SUBSET (Devices \cup {"all"})]
        /\ lastId' = lastId
    BY <1>7, RecordType DEF CheckExistingJobs, getAllInProgress, Statuses
  <2>2. QED
    BY <1>7, <2>1 DEF CheckExistingJobs, TypeOK, bounds
<1>8. CASE UNCHANGED vars
  BY <1>8 DEF vars, TypeOK, dbvars, memvars, bounds, history
<1>9. QED
  BY <1>1, <1>2, <1>3, <1>4, <1>5, <1>6, <1>7, <1>8 DEF Next

\* The initial state is well typed.
LEMMA TypeInit == Init => TypeOK
<1> SUFFICES ASSUME Init PROVE TypeOK
  OBVIOUS
<1>1. 1..0 = {}
  OBVIOUS
<1>2. /\ rows \in [1..lastId -> Row] /\ job \in [1..lastId -> JobObject]
      /\ madeWith \in [1..lastId -> 0..lastId]
      /\ asked \in [1..lastId -> SUBSET (Devices \cup {"all"})]
  BY <1>1 DEF Init
<1>3. /\ current \in [JobTypes -> 0..lastId] /\ txns \in [JobTypes -> 0..MaxInFlight]
  BY BoundAssumption DEF Init, NoJob
<1>4. /\ lastId \in Nat /\ published \subseteq 1..lastId /\ succeeded \subseteq 1..lastId
      /\ rejected \subseteq Templates /\ immediates \in Nat
      /\ requests \in 0..MaxRequests /\ crashes \in 0..MaxCrashes
      /\ dbFailures \in 0..MaxDbFailures
  BY BoundAssumption DEF Init
<1>5. up \in BOOLEAN
  BY DEF Init
<1>6. QED
  BY <1>2, <1>3, <1>4, <1>5 DEF TypeOK

\* The variables of the daemon and the training_jobs table keep their types,
\* whatever the templates, models and bounds are.
THEOREM TypeCorrect == Spec => []TypeOK
<1>1. Init => TypeOK
  BY TypeInit
<1>2. TypeOK /\ [Next]_vars => TypeOK'
  BY TypeNext
<1>3. QED
  BY <1>1, <1>2, PTL DEF Spec

-----------------------------------------------------------------------------
(* The dependency part of the invariant *)

\* What RecordJobCompletion does to each row, with the set of jobs it closes.
RecordEffect(S, status, closed) ==
    /\ S \subseteq closed /\ closed \subseteq S \cup Waiting
    /\ status = "error" => \A k \in Waiting : rows[k].dependsOn \in closed => k \in closed
    /\ status = "success" => closed = S
    /\ \A j \in 1..lastId :
          /\ rows'[j].status = IF j \in S THEN status
                               ELSE IF j \in closed THEN "error" ELSE rows[j].status
          /\ rows'[j].dependsOn = IF rows[j].dependsOn \in closed THEN NoJob
                                  ELSE rows[j].dependsOn
          /\ rows'[j].type = rows[j].type
          /\ rows'[j].all = rows[j].all
          /\ rows'[j].devices = rows[j].devices

\* RecordJobCompletion has that effect.
LEMMA RecordHasEffect ==
    ASSUME TypeOK, NEW S, NEW status \in Ended, RecordJobCompletion(S, status)
    PROVE  \E closed : RecordEffect(S, status, closed)
<1> DEFINE closed == IF status = "error" THEN WithDependents(S) ELSE S
           newStatus(j) == IF j \in S THEN status
                           ELSE IF j \in closed THEN "error" ELSE rows[j].status
           newDep(j) == IF rows[j].dependsOn \in closed THEN NoJob ELSE rows[j].dependsOn
<1>1. /\ S \subseteq closed /\ closed \subseteq S \cup Waiting
      /\ status = "error" => \A k \in Waiting : rows[k].dependsOn \in closed => k \in closed
      /\ status = "success" => closed = S
  BY DependentsClosed, DependentsWait
<1>2. rows' = [j \in 1..lastId |-> [rows[j] EXCEPT !.status = newStatus(j),
                                                  !.dependsOn = newDep(j)]]
  BY DEF RecordJobCompletion
<1>3. \A j \in 1..lastId : rows[j] \in Row
  BY DEF TypeOK
<1>4. \A j \in 1..lastId :
        /\ rows'[j].status = newStatus(j) /\ rows'[j].dependsOn = newDep(j)
        /\ rows'[j].type = rows[j].type /\ rows'[j].all = rows[j].all
        /\ rows'[j].devices = rows[j].devices
  <2> HIDE DEF newStatus, newDep
  <2> QED BY <1>2, <1>3 DEF Row
<1>5. RecordEffect(S, status, closed)
  BY <1>1, <1>4 DEF RecordEffect
<1>6. QED
  BY <1>5

\* Recording outcomes keeps the dependency invariant, provided that a success
\* is only recorded for a job that has a Job object.
LEMMA RecordKeepsDependencies ==
    ASSUME TypeOK, DependencyInv,
           NEW S, S \subseteq 1..lastId, NEW status \in Ended,
           RecordJobCompletion(S, status),
           \A j \in 1..lastId : job'[j].step # "none" => job[j].step # "none",
           status = "success" => \A j \in S : job[j].step # "none"
    PROVE  DependencyInv'
<1>1. PICK closed : RecordEffect(S, status, closed)
  BY RecordHasEffect
<1>2. /\ UNCHANGED <<lastId, madeWith, asked>>
      /\ succeeded' = IF status = "success" THEN succeeded \cup S ELSE succeeded
  BY DEF RecordJobCompletion
<1>3. \A j \in 1..lastId : /\ madeWith[j] \in 0..lastId
                           /\ rows[j].dependsOn # NoJob => rows[j].dependsOn \in 1..lastId
                           /\ rows[j].dependsOn # NoJob => j \in Waiting
                           /\ rows[j].status \in Statuses
  <2>1. \A j \in 1..lastId : rows[j].dependsOn # NoJob => rows[j].dependsOn = madeWith[j]
    BY DEF DependencyInv, DependencyOK
  <2>2. QED
    BY <2>1 DEF TypeOK, Waiting, Row, NoJob
<1>4. ASSUME NEW j \in 1..lastId
      PROVE  /\ rows[j].dependsOn # NoJob =>
                   /\ rows[j].dependsOn = madeWith[j]
                   /\ rows[j].status \in {"queued", "error"}
                   /\ job[j].step = "none"
                   /\ rows[rows[j].dependsOn].status \in {"queued", "started"}
             /\ (rows[j].dependsOn = NoJob /\ rows[j].status = "queued") \/ job[j].step # "none" =>
                   madeWith[j] = NoJob \/ madeWith[j] \in succeeded
             /\ rows[j].status \in {"started", "success"} /\ madeWith[j] # NoJob
                   => madeWith[j] \in succeeded
             /\ (/\ madeWith[j] # NoJob
                 /\ rows[madeWith[j]].status = "error"
                 /\ madeWith[j] \notin succeeded) => rows[j].status = "error"
  BY DEF DependencyInv, DependencyOK, NoDanglingDependency, DependencySucceeded, FailureCascades
<1>5. DependencyOK'
  <2> SUFFICES ASSUME NEW j \in 1..lastId
               PROVE  /\ rows'[j].dependsOn # NoJob =>
                           /\ rows'[j].dependsOn = madeWith[j]
                           /\ rows'[j].status \in {"queued", "error"}
                           /\ job'[j].step = "none"
                      /\ \/ rows'[j].dependsOn = NoJob /\ rows'[j].status = "queued"
                         \/ job'[j].step # "none"
                         => madeWith[j] = NoJob \/ madeWith[j] \in succeeded'
    BY <1>2 DEF DependencyOK
  <2>1. rows'[j].dependsOn # NoJob => rows[j].dependsOn = rows'[j].dependsOn
    BY <1>1 DEF RecordEffect
  <2>2. ASSUME rows'[j].dependsOn # NoJob
        PROVE  /\ rows'[j].dependsOn = madeWith[j]
               /\ rows'[j].status \in {"queued", "error"}
               /\ job'[j].step = "none"
    BY <1>1, <1>4, <2>1, <2>2 DEF RecordEffect, Ended
  <2>3. ASSUME job'[j].step # "none"
        PROVE  madeWith[j] = NoJob \/ madeWith[j] \in succeeded'
    BY <1>2, <1>4, <2>3
  <2>4. ASSUME rows'[j].dependsOn = NoJob, rows'[j].status = "queued"
        PROVE  madeWith[j] = NoJob \/ madeWith[j] \in succeeded'
    <3>1. j \notin closed /\ rows[j].status = "queued"
      BY <1>1, <2>4 DEF RecordEffect, Ended
    <3>2. CASE rows[j].dependsOn = NoJob
      BY <1>2, <1>4, <3>1, <3>2
    <3>3. CASE rows[j].dependsOn # NoJob
      <4>1. rows[j].dependsOn \in closed
        BY <1>1, <2>4, <3>3 DEF RecordEffect
      <4>2. status = "success" /\ closed = S
        BY <1>1, <1>3, <3>1, <3>3, <4>1 DEF RecordEffect, Ended
      <4>3. QED
        BY <1>2, <1>4, <3>3, <4>1, <4>2
    <3>4. QED
      BY <3>2, <3>3
  <2>5. QED
    BY <2>2, <2>3, <2>4
<1>6. NoDanglingDependency'
  <2> SUFFICES ASSUME NEW j \in 1..lastId, rows'[j].dependsOn # NoJob
               PROVE  rows'[rows'[j].dependsOn].status \in {"queued", "started"}
    BY <1>2 DEF NoDanglingDependency
  <2>1. rows[j].dependsOn = rows'[j].dependsOn /\ rows[j].dependsOn \notin closed
    BY <1>1 DEF RecordEffect
  <2>2. QED
    BY <1>1, <1>3, <1>4, <2>1 DEF RecordEffect
<1>7. DependencySucceeded'
  <2> SUFFICES ASSUME NEW j \in 1..lastId,
                      rows'[j].status \in {"started", "success"}, madeWith[j] # NoJob
               PROVE  madeWith[j] \in succeeded'
    BY <1>2 DEF DependencySucceeded
  <2>1. CASE j \in S
    BY <1>1, <1>2, <1>4, <2>1 DEF RecordEffect, Ended
  <2>2. CASE j \notin S
    BY <1>1, <1>2, <1>4, <2>2 DEF RecordEffect
  <2>3. QED
    BY <2>1, <2>2
<1>8. FailureCascades'
  <2> SUFFICES ASSUME NEW j \in 1..lastId, madeWith[j] # NoJob,
                      rows'[madeWith[j]].status = "error",
                      madeWith[j] \notin succeeded',
                      rows'[j].status # "error"
               PROVE  FALSE
    BY <1>2 DEF FailureCascades
  <2>1. madeWith[j] \in 1..lastId /\ madeWith[j] \notin succeeded
    BY <1>2, <1>3 DEF NoJob
  <2>2. j \notin S
    BY <1>1, <1>4, <2>1 DEF RecordEffect, Ended
  <2>3. j \notin closed /\ rows'[j].status = rows[j].status
    BY <1>1, <2>2 DEF RecordEffect
  <2>4. rows[j].status = "queued" /\ rows[j].dependsOn = madeWith[j]
    BY <1>3, <1>4, <2>1, <2>3 DEF Statuses
  <2>5. rows[madeWith[j]].status # "error"
    BY <1>4, <2>1, <2>4
  <2>6. madeWith[j] \in closed
    BY <1>1, <2>1, <2>5 DEF RecordEffect
  <2>7. status = "success"
    BY <1>1, <1>3, <2>1, <2>3, <2>4, <2>6 DEF RecordEffect, Ended, NoJob
  <2>8. rows'[madeWith[j]].status = "success"
    BY <1>1, <2>1, <2>6, <2>7 DEF RecordEffect
  <2>9. QED
    BY <2>8
<1>9. RequestsCovered'
  BY <1>1, <1>2 DEF RecordEffect, DependencyInv, RequestsCovered
<1>10. QED
  BY <1>5, <1>6, <1>7, <1>8, <1>9 DEF DependencyInv

\* A step that leaves the table alone and creates no Job object keeps the
\* dependency invariant.
LEMMA MemoryKeepsDependencies ==
    ASSUME DependencyInv,
           UNCHANGED <<lastId, rows, madeWith, succeeded, asked>>,
           \A j \in 1..lastId : job'[j].step # "none" => job[j].step # "none"
    PROVE  DependencyInv'
<1>1. DependencyOK'
  BY DEF DependencyInv, DependencyOK
<1>2. NoDanglingDependency' /\ DependencySucceeded' /\ FailureCascades' /\ RequestsCovered'
  BY DEF DependencyInv, NoDanglingDependency, DependencySucceeded, FailureCascades, RequestsCovered
<1>3. QED
  BY <1>1, <1>2 DEF DependencyInv

\* What _startNextJob does when it starts a job.
StartEffect(type, next) ==
    /\ next \in 1..lastId
    /\ current[type] = NoJob /\ current' = [current EXCEPT ![type] = next]
    /\ rows[next].status = "queued" /\ rows[next].type = type /\ rows[next].dependsOn = NoJob
    /\ rows'[next].status = "started"
    /\ job'[next].task = 1 /\ job'[next].step = "begin" /\ job'[next].killed = FALSE
    /\ \A j \in 1..lastId : j # next => rows'[j] = rows[j] /\ job'[j] = job[j]
    /\ \A j \in 1..lastId :
          /\ rows'[j].type = rows[j].type /\ rows'[j].dependsOn = rows[j].dependsOn
          /\ rows'[j].all = rows[j].all /\ rows'[j].devices = rows[j].devices

\* _startNextJob starts one queued job that waits for nobody, or changes
\* neither the table nor the Job objects.
LEMMA StartHasEffect ==
    ASSUME TypeOK, NEW type \in JobTypes, StartNextJob(type)
    PROVE  /\ up
           /\ UNCHANGED <<lastId, published, up, madeWith, succeeded, asked>>
           /\ \/ UNCHANGED <<rows, job, current>>
              \/ \E next : StartEffect(type, next)
<1> DEFINE next == getNextJob(type)
           object == [NoObject EXCEPT !.task = 1, !.step = "begin", !.status = "started"]
<1>1. up /\ UNCHANGED <<lastId, published, up, madeWith, succeeded, asked>>
  BY DEF StartNextJob, history
<1>2. CASE next # NoJob /\ CanStart(type)
  <2>1. /\ current' = [current EXCEPT ![type] = next]
        /\ job' = [job EXCEPT ![next] = object]
        /\ rows' = [rows EXCEPT ![next].status = "started"]
    BY <1>2 DEF StartNextJob
  <2>2. /\ next \in 1..lastId
        /\ rows[next].status = "queued" /\ rows[next].type = type /\ rows[next].dependsOn = NoJob
    BY <1>2, GetNextJob
  <2>3. object.task = 1 /\ object.step = "begin" /\ object.killed = FALSE
    BY DEF NoObject
  <2>4. current[type] = NoJob
    BY <1>2 DEF CanStart
  <2> HIDE DEF next, object
  <2>5. rows' = [rows EXCEPT ![next] = [rows[next] EXCEPT !.status = "started"]]
    BY <2>1
  <2>6. rows[next] \in Row /\ rows \in [1..lastId -> Row] /\ job \in [1..lastId -> JobObject]
    BY <2>2 DEF TypeOK
  <2>7. /\ rows'[next] = [rows[next] EXCEPT !.status = "started"]
        /\ job'[next] = object
        /\ \A j \in 1..lastId : j # next => rows'[j] = rows[j] /\ job'[j] = job[j]
    BY <2>1, <2>2, <2>5, <2>6
  <2>8. /\ rows'[next].status = "started" /\ rows'[next].type = rows[next].type
        /\ rows'[next].dependsOn = rows[next].dependsOn
        /\ rows'[next].all = rows[next].all /\ rows'[next].devices = rows[next].devices
    BY <2>6, <2>7 DEF Row
  <2>9. StartEffect(type, next)
    BY <2>1, <2>2, <2>3, <2>4, <2>7, <2>8 DEF StartEffect
  <2>10. QED
    BY <1>1, <2>9
<1>3. CASE ~(next # NoJob /\ CanStart(type))
  BY <1>1, <1>3 DEF StartNextJob
<1>4. QED
  BY <1>2, <1>3

\* Starting a job keeps the dependency invariant: the job waits for nobody,
\* so what it was queued behind has succeeded.
LEMMA StartKeepsDependencies ==
    ASSUME TypeOK, DependencyInv, NEW type \in JobTypes, StartNextJob(type)
    PROVE  DependencyInv'
<1>1. UNCHANGED <<lastId, madeWith, succeeded, asked>>
  BY StartHasEffect
<1>2. CASE UNCHANGED <<rows, job, current>>
  BY <1>1, <1>2, MemoryKeepsDependencies
<1>3. ASSUME NEW next, StartEffect(type, next) PROVE DependencyInv'
  <2>1. madeWith[next] = NoJob \/ madeWith[next] \in succeeded
    BY <1>3 DEF StartEffect, DependencyInv, DependencyOK
  <2>2. DependencyOK'
    BY <1>1, <1>3, <2>1 DEF StartEffect, DependencyInv, DependencyOK
  <2>3. NoDanglingDependency'
    <3>1. \A j \in 1..lastId : rows[j].dependsOn # NoJob => rows[j].dependsOn \in 1..lastId
      BY DEF DependencyInv, DependencyOK, TypeOK, NoJob
    <3>2. QED
      BY <1>1, <1>3, <3>1 DEF StartEffect, DependencyInv, NoDanglingDependency
  <2>4. DependencySucceeded'
    BY <1>1, <1>3, <2>1 DEF StartEffect, DependencyInv, DependencySucceeded
  <2>5. FailureCascades'
    <3>1. \A j \in 1..lastId : madeWith[j] # NoJob => madeWith[j] \in 1..lastId
      BY DEF TypeOK, NoJob
    <3>2. QED
      BY <1>1, <1>3, <2>1, <3>1 DEF StartEffect, DependencyInv, FailureCascades
  <2>6. RequestsCovered'
    BY <1>1, <1>3 DEF StartEffect, DependencyInv, RequestsCovered
  <2>7. QED
    BY <2>2, <2>3, <2>4, <2>5, <2>6 DEF DependencyInv
<1>4. QED
  BY <1>2, <1>3, StartHasEffect

\* Merging keeps what a row is and what it waits for, and covers the request.
LEMMA MergedRow ==
    ASSUME NEW t \in Templates, NEW row \in Row, t.all => row.all
    PROVE  LET new == Merged(t, row) IN
           /\ new.type = row.type /\ new.status = row.status
           /\ new.dependsOn = row.dependsOn /\ new.all = row.all
           /\ row.devices \subseteq new.devices
           /\ new.all \/ Asks(t) \subseteq new.devices
BY TemplateAssumption DEF Merged, Row, Asks, TemplateSpace

\* An accepted request keeps the dependency invariant: a new job waits for a
\* job that is still in the queue, because candidates are looked up among the
\* queued rows and the dataset job of the same request is one.
LEMMA ScheduleKeepsDependencies ==
    ASSUME TypeOK, DependencyInv, NEW t \in Templates, ScheduleJob(t)
    PROVE  DependencyInv'
<1>1. ScheduleEffect(t)
  BY ScheduleHasEffect
<1>2. ~MergeFails(t) /\ succeeded' = succeeded
  BY Zenon DEF ScheduleJob
<1>3. lastId \in Nat /\ lastId' \in Nat /\ lastId <= lastId'
  BY <1>1 DEF ScheduleEffect, TypeOK
<1>4. \A j \in MergedInto(t) : j \in 1..lastId /\ rows[j].status = "queued"
  BY MergedIntoQueued
<1>5. ASSUME NEW j \in 1..lastId
      PROVE  /\ rows'[j].status = rows[j].status /\ rows'[j].dependsOn = rows[j].dependsOn
             /\ job'[j] = job[j] /\ madeWith'[j] = madeWith[j] /\ j \in 1..lastId'
             /\ rows'[j].all \/ asked'[j] \subseteq rows'[j].devices
  <2>1. rows[j] \in Row
    BY DEF TypeOK
  <2>2. rows[j].all \/ asked[j] \subseteq rows[j].devices
    BY DEF DependencyInv, RequestsCovered
  <2>a. j \in 1..lastId'
    BY <1>3
  <2>b. job'[j] = job[j] /\ madeWith'[j] = madeWith[j]
    BY <1>1 DEF ScheduleEffect
  <2>3. CASE j \in MergedInto(t)
    <3>1. rows'[j] = Merged(t, rows[j]) /\ asked'[j] = asked[j] \cup Asks(t)
      BY <1>1, <2>3 DEF ScheduleEffect
    <3>2. t.all => rows[j].all
      BY <1>2, <2>3 DEF MergeFails
    <3>3. /\ rows'[j].status = rows[j].status /\ rows'[j].dependsOn = rows[j].dependsOn
          /\ rows'[j].all = rows[j].all /\ rows[j].devices \subseteq rows'[j].devices
          /\ rows'[j].all \/ Asks(t) \subseteq rows'[j].devices
      BY <2>1, <3>1, <3>2, MergedRow
    <3>4. QED
      BY <2>2, <2>a, <2>b, <3>1, <3>3
  <2>4. CASE j \notin MergedInto(t)
    <3>1. rows'[j] = rows[j] /\ asked'[j] = asked[j]
      BY <1>1, <2>4 DEF ScheduleEffect
    <3>2. QED
      BY <2>2, <2>a, <2>b, <3>1
  <2>5. QED
    BY <2>3, <2>4
<1>6. ASSUME NEW j \in 1..lastId', j \notin 1..lastId
      PROVE  /\ rows'[j].status = "queued" /\ rows'[j].dependsOn = madeWith'[j]
             /\ job'[j].step = "none"
             /\ rows'[j].all \/ asked'[j] \subseteq rows'[j].devices
             /\ \/ madeWith'[j] = NoJob
                \/ madeWith'[j] \in MergedInto(t)
                \/ madeWith'[j] = lastId + 1 /\ lastId + 1 <= lastId'
  <2>1. j > lastId
    BY <1>3, <1>6
  <2>2. PICK type, tag : rows'[j] = NewRow(t, type, tag, madeWith'[j])
    BY <1>1, <2>1 DEF ScheduleEffect
  <2>3. asked'[j] = Asks(t) /\ job'[j].step = "none"
    BY <1>1, <2>1 DEF ScheduleEffect, NoObject
  <2>4. /\ rows'[j].status = "queued" /\ rows'[j].dependsOn = madeWith'[j]
        /\ rows'[j].all = t.all /\ (~t.all => rows'[j].devices = t.devices)
    BY <2>2 DEF NewRow
  <2>5. t.all \/ Asks(t) \subseteq t.devices
    BY DEF Asks
  <2>6. t.all \in BOOLEAN
    BY TemplateAssumption DEF TemplateSpace
  <2>7. rows'[j].all \/ asked'[j] \subseteq rows'[j].devices
    BY <2>3, <2>4, <2>5, <2>6
  <2>8. QED
    BY <1>1, <2>1, <2>3, <2>4, <2>7 DEF ScheduleEffect
<1>7. ASSUME NEW j \in 1..lastId', j \notin 1..lastId, madeWith'[j] # NoJob
      PROVE  rows'[madeWith'[j]].status = "queued"
  <2>1. CASE madeWith'[j] \in MergedInto(t)
    BY <1>4, <1>5, <2>1
  <2>2. CASE madeWith'[j] = lastId + 1 /\ lastId + 1 <= lastId'
    <3>1. lastId + 1 \in 1..lastId' /\ lastId + 1 \notin 1..lastId
      BY <1>3, <2>2
    <3>2. QED
      BY <1>6, <2>2, <3>1
  <2>3. QED
    BY <1>6, <1>7, <2>1, <2>2
<1>8. \A j \in 1..lastId : /\ rows[j].dependsOn # NoJob => rows[j].dependsOn \in 1..lastId
                           /\ madeWith[j] # NoJob => madeWith[j] \in 1..lastId
  BY DEF DependencyInv, DependencyOK, TypeOK, NoJob
<1>9. DependencyOK'
  <2> SUFFICES ASSUME NEW j \in 1..lastId'
               PROVE  /\ rows'[j].dependsOn # NoJob =>
                           /\ rows'[j].dependsOn = madeWith'[j]
                           /\ rows'[j].status \in {"queued", "error"}
                           /\ job'[j].step = "none"
                      /\ \/ rows'[j].dependsOn = NoJob /\ rows'[j].status = "queued"
                         \/ job'[j].step # "none"
                         => madeWith'[j] = NoJob \/ madeWith'[j] \in succeeded'
    BY DEF DependencyOK
  <2>1. CASE j \in 1..lastId
    BY <1>2, <1>5, <2>1 DEF DependencyInv, DependencyOK
  <2>2. CASE j \notin 1..lastId
    BY <1>6, <2>2
  <2>3. QED
    BY <2>1, <2>2
<1>10. NoDanglingDependency'
  <2> SUFFICES ASSUME NEW j \in 1..lastId', rows'[j].dependsOn # NoJob
               PROVE  rows'[rows'[j].dependsOn].status \in {"queued", "started"}
    BY DEF NoDanglingDependency
  <2>1. CASE j \in 1..lastId
    BY <1>5, <1>8, <2>1 DEF DependencyInv, NoDanglingDependency
  <2>2. CASE j \notin 1..lastId
    BY <1>6, <1>7, <2>2
  <2>3. QED
    BY <2>1, <2>2
<1>11. DependencySucceeded'
  <2> SUFFICES ASSUME NEW j \in 1..lastId',
                      rows'[j].status \in {"started", "success"}, madeWith'[j] # NoJob
               PROVE  madeWith'[j] \in succeeded'
    BY DEF DependencySucceeded
  <2>1. j \in 1..lastId
    BY <1>6
  <2>2. QED
    BY <1>2, <1>5, <2>1 DEF DependencyInv, DependencySucceeded
<1>12. FailureCascades'
  <2> SUFFICES ASSUME NEW j \in 1..lastId', madeWith'[j] # NoJob,
                      rows'[madeWith'[j]].status = "error",
                      madeWith'[j] \notin succeeded'
               PROVE  rows'[j].status = "error"
    BY DEF FailureCascades
  <2>1. j \in 1..lastId
    BY <1>7
  <2>2. QED
    BY <1>2, <1>5, <1>8, <2>1 DEF DependencyInv, FailureCascades
<1>13. RequestsCovered'
  BY <1>5, <1>6 DEF RequestsCovered
<1>14. QED
  BY <1>9, <1>10, <1>11, <1>12, <1>13 DEF DependencyInv

-----------------------------------------------------------------------------
(* The part of the invariant about Job objects *)

\* The four parts of ObjectInv, for one job and one type.
LEMMA ObjectFacts ==
    ASSUME ObjectInv
    PROVE  /\ \A type \in JobTypes : current[type] # NoJob =>
                 rows[current[type]].type = type /\ IsRunning(current[type])
           /\ ~up => \A j \in 1..lastId : job[j].step = "none"
           /\ ~up => \A type \in JobTypes : current[type] = NoJob
           /\ \A j \in 1..lastId :
                 /\ job[j].step = "completing" => job[j].status \in Ended
                 /\ (/\ rows[j].type = "train"
                     /\ \/ job[j].step = "completing" /\ job[j].status = "success"
                        \/ job[j].step # "none" /\ job[j].task > 4) => j \in published
                 /\ job[j].killed /\ job[j].step = "completing" => job[j].status = "error"
                 /\ job[j].step # "none" => rows[j].status \in {"started", "error"}
                 /\ IsRunning(j) => current[rows[j].type] = j /\ rows[j].status = "started"
                 /\ rows[j].type = "train" /\ rows[j].status = "success" => j \in published
BY DEF ObjectInv, CurrentOK, OutcomeOK, RunningIsCurrent, PublishedBeforeSuccess

\* Recording outcomes never touches a job that runs, if none of the recorded
\* jobs does: a job that waits has no object.
LEMMA RecordSparesRunning ==
    ASSUME TypeOK, DependencyInv, NEW S, NEW status \in Ended, RecordJobCompletion(S, status),
           NEW j \in 1..lastId
    PROVE  /\ rows'[j].type = rows[j].type
           /\ j \notin S /\ job[j].step # "none" => rows'[j].status = rows[j].status
           /\ j \in S => rows'[j].status = status
           /\ j \notin S => rows'[j].status \in {rows[j].status, "error"}
<1>1. PICK closed : RecordEffect(S, status, closed)
  BY RecordHasEffect
<1>2. j \in Waiting => job[j].step = "none"
  BY DEF Waiting, DependencyInv, DependencyOK
<1>3. QED
  BY <1>1, <1>2 DEF RecordEffect

\* Recording outcomes keeps ObjectInv when every other Job object stays as it
\* is and the jobs recorded have no object left.
LEMMA RecordKeepsObjects ==
    ASSUME TypeOK, DependencyInv, ObjectInv,
           NEW S, S \subseteq 1..lastId, NEW status \in Ended,
           RecordJobCompletion(S, status),
           UNCHANGED <<published, current>>,
           up' \/ ~up,
           \A j \in S : ~IsRunning(j) /\ (job'[j] = NoObject \/ (job'[j] = job[j] /\ status = "error")),
           \A j \in 1..lastId : j \notin S => job'[j] = job[j],
           \A j \in S : status = "success" /\ rows[j].type = "train" => j \in published
    PROVE  ObjectInv'
<1>1. lastId' = lastId
  BY DEF RecordJobCompletion
<1>2. ASSUME NEW j \in 1..lastId
      PROVE  /\ rows'[j].type = rows[j].type
             /\ j \notin S /\ job[j].step # "none" => rows'[j].status = rows[j].status
             /\ j \in S => rows'[j].status = status
             /\ j \notin S => rows'[j].status \in {rows[j].status, "error"}
  BY RecordSparesRunning
<1>3. ASSUME NEW j \in 1..lastId
      PROVE  job'[j] = job[j] \/ (j \in S /\ job'[j].step = "none")
  BY DEF NoObject
<1>4. \A j \in 1..lastId : IsRunning(j) => j \notin S /\ job'[j] = job[j]
  OBVIOUS
<1>5. CurrentOK'
  <2>1. ASSUME NEW type \in JobTypes, current'[type] # NoJob
        PROVE  rows'[current'[type]].type = type /\ job'[current'[type]].step \in RunSteps
    <3>1. current[type] \in 1..lastId /\ current' = current
      BY <2>1 DEF TypeOK, NoJob
    <3>2. rows[current[type]].type = type /\ IsRunning(current[type])
      BY <2>1, <3>1, ObjectFacts
    <3>3. QED
      BY <1>2, <1>4, <3>1, <3>2 DEF IsRunning
  <2>2. ~up' => \A j \in 1..lastId : job'[j].step = "none"
    BY <1>3, ObjectFacts
  <2>3. ~up' => \A type \in JobTypes : current'[type] = NoJob
    BY ObjectFacts
  <2>4. QED
    BY <1>1, <2>1, <2>2, <2>3 DEF CurrentOK, IsRunning
<1>6. OutcomeOK'
  <2> SUFFICES ASSUME NEW j \in 1..lastId
               PROVE  /\ job'[j].step = "completing" => job'[j].status \in Ended
                      /\ (/\ rows'[j].type = "train"
                          /\ \/ job'[j].step = "completing" /\ job'[j].status = "success"
                             \/ job'[j].step # "none" /\ job'[j].task > 4) => j \in published
                      /\ job'[j].killed /\ job'[j].step = "completing" => job'[j].status = "error"
                      /\ job'[j].step # "none" => rows'[j].status \in {"started", "error"}
    BY <1>1 DEF OutcomeOK
  <2>1. CASE job'[j].step = "none"
    BY <2>1
  <2>2. CASE job'[j].step # "none"
    <3>1. job'[j] = job[j] /\ (j \in S => status = "error")
      BY <1>3, <2>2 DEF NoObject
    <3>2. rows'[j].status \in {"started", "error"} /\ rows'[j].type = rows[j].type
      BY <1>2, <2>2, <3>1, ObjectFacts
    <3>3. QED
      BY <3>1, <3>2, ObjectFacts
  <2>3. QED
    BY <2>1, <2>2
<1>7. RunningIsCurrent'
  <2> SUFFICES ASSUME NEW j \in 1..lastId, job'[j].step \in RunSteps
               PROVE  current[rows'[j].type] = j /\ rows'[j].status = "started"
    BY <1>1 DEF RunningIsCurrent, IsRunning
  <2>1. IsRunning(j)
    BY <1>3 DEF IsRunning, RunSteps
  <2>2. j \notin S /\ job[j].step # "none"
    BY <1>4, <2>1 DEF IsRunning, RunSteps
  <2>3. QED
    BY <1>2, <2>1, <2>2, ObjectFacts
<1>8. PublishedBeforeSuccess'
  <2> SUFFICES ASSUME NEW j \in 1..lastId, rows'[j].type = "train", rows'[j].status = "success"
               PROVE  j \in published
    BY <1>1 DEF PublishedBeforeSuccess
  <2>1. QED
    BY <1>2, ObjectFacts
<1>9. QED
  BY <1>5, <1>6, <1>7, <1>8 DEF ObjectInv

\* What a step may do to one Job object and its pointer: keep it running, let
\* it complete, or drop it once it does not run.
ObjectMove(j, new) ==
    \/ current' = current /\ IsRunning(j) /\ new.step \in RunSteps
    \/ /\ current' = [current EXCEPT ![rows[j].type] = NoJob] /\ IsRunning(j)
       /\ new.step = "completing" /\ new.status \in Ended
       /\ new.killed => new.status = "error"
    \/ current' = current /\ ~IsRunning(j) /\ new.step = "none"

\* Such a step keeps ObjectInv if the train jobs past their last task have
\* published.
LEMMA MoveKeepsObjects ==
    ASSUME TypeOK, ObjectInv, up, UNCHANGED <<lastId, rows, up>>,
           published \subseteq published',
           NEW j \in 1..lastId, NEW new, job' = [job EXCEPT ![j] = new], ObjectMove(j, new),
           (/\ rows[j].type = "train"
            /\ \/ new.step = "completing" /\ new.status = "success"
               \/ new.step # "none" /\ new.task > 4) => j \in published'
    PROVE  ObjectInv'
<1>1. /\ job'[j] = new
      /\ \A k \in 1..lastId : k # j => job'[k] = job[k]
  BY DEF TypeOK
<1>2. rows[j].type \in JobTypes /\ current \in [JobTypes -> 0..lastId]
  BY DEF TypeOK, Row
<1>3. CurrentOK'
  <2>1. ASSUME NEW type \in JobTypes, current'[type] # NoJob
        PROVE  rows[current'[type]].type = type /\ job'[current'[type]].step \in RunSteps
    <3>1. current'[type] = current[type]
      BY <1>2, <2>1 DEF ObjectMove
    <3>2. current[type] \in 1..lastId
      BY <1>2, <2>1, <3>1 DEF NoJob
    <3>3. rows[current[type]].type = type /\ IsRunning(current[type])
      BY <2>1, <3>1, ObjectFacts
    <3>4. CASE current[type] # j
      BY <1>1, <3>1, <3>2, <3>3, <3>4 DEF IsRunning
    <3>5. CASE current[type] = j
      <4>1. current'[rows[j].type] # NoJob
        BY <2>1, <3>3, <3>5
      <4>2. new.step \in RunSteps
        BY <1>2, <3>3, <3>5, <4>1 DEF ObjectMove
      <4>3. QED
        BY <1>1, <3>1, <3>3, <3>5, <4>2
    <3>6. QED
      BY <3>4, <3>5
  <2>2. QED
    BY <2>1 DEF CurrentOK, IsRunning
<1>4. OutcomeOK'
  <2> SUFFICES ASSUME NEW k \in 1..lastId
               PROVE  /\ job'[k].step = "completing" => job'[k].status \in Ended
                      /\ (/\ rows[k].type = "train"
                          /\ \/ job'[k].step = "completing" /\ job'[k].status = "success"
                             \/ job'[k].step # "none" /\ job'[k].task > 4) => k \in published'
                      /\ job'[k].killed /\ job'[k].step = "completing" => job'[k].status = "error"
                      /\ job'[k].step # "none" => rows[k].status \in {"started", "error"}
    BY DEF OutcomeOK
  <2>1. CASE k # j
    BY <1>1, <2>1, ObjectFacts
  <2>2. CASE k = j
    <3>1. new.step # "none" => rows[j].status = "started"
      BY ObjectFacts DEF ObjectMove
    <3>2. new.step = "completing" =>
            new.status \in Ended /\ (new.killed => new.status = "error")
      BY DEF ObjectMove, RunSteps
    <3>3. QED
      BY <1>1, <2>2, <3>1, <3>2
  <2>3. QED
    BY <2>1, <2>2
<1>5. RunningIsCurrent'
  <2> SUFFICES ASSUME NEW k \in 1..lastId, job'[k].step \in RunSteps
               PROVE  current'[rows[k].type] = k /\ rows[k].status = "started"
    BY DEF RunningIsCurrent, IsRunning
  <2>1. CASE k # j
    <3>1. IsRunning(k)
      BY <1>1, <2>1 DEF IsRunning
    <3>2. current[rows[k].type] = k /\ rows[k].status = "started"
      BY <3>1, ObjectFacts
    <3>3. IsRunning(j) => current[rows[j].type] = j
      BY ObjectFacts
    <3>4. rows[k].type \in JobTypes
      BY DEF TypeOK, Row
    <3>5. current'[rows[k].type] = current[rows[k].type]
      BY <1>2, <2>1, <3>2, <3>3, <3>4 DEF ObjectMove
    <3>6. QED
      BY <3>2, <3>5
  <2>2. CASE k = j
    <3>1. current' = current /\ IsRunning(j)
      BY <1>1, <2>2 DEF ObjectMove, RunSteps
    <3>2. QED
      BY <2>2, <3>1, ObjectFacts
  <2>3. QED
    BY <2>1, <2>2
<1>6. PublishedBeforeSuccess'
  BY ObjectFacts DEF PublishedBeforeSuccess
<1>7. QED
  BY <1>3, <1>4, <1>5, <1>6 DEF ObjectInv

\* Losing the memory keeps ObjectInv.
LEMMA LossKeepsObjects ==
    ASSUME TypeOK, ObjectInv, LoseMemory, UNCHANGED <<lastId, rows, published>>
    PROVE  ObjectInv'
<1>1. \A j \in 1..lastId : job'[j].step = "none"
  BY DEF LoseMemory, NoObject
<1>2. CurrentOK'
  BY <1>1 DEF LoseMemory, CurrentOK
<1>3. OutcomeOK' /\ RunningIsCurrent'
  BY <1>1 DEF OutcomeOK, RunningIsCurrent, IsRunning, RunSteps
<1>4. PublishedBeforeSuccess'
  BY ObjectFacts DEF PublishedBeforeSuccess
<1>5. QED
  BY <1>2, <1>3, <1>4 DEF ObjectInv

\* A job that runs and calls Job.complete or Job.fail makes such a move.
LEMMA CompleteMoves ==
    ASSUME TypeOK, ObjectInv, NEW j \in 1..lastId, IsRunning(j),
           NEW status \in Ended, job[j].killed => status = "error", Complete(j, status)
    PROVE  \E new : /\ job' = [job EXCEPT ![j] = new] /\ ObjectMove(j, new)
                    /\ new.step = "completing" /\ new.status = status
                    /\ new.task = job[j].task
<1> DEFINE new == [job[j] EXCEPT !.step = "completing", !.status = status]
<1>1. current[rows[j].type] = j
  BY ObjectFacts
<1>2. rows[j].type \in JobTypes /\ current \in [JobTypes -> 0..lastId] /\ job[j] \in JobObject
  BY DEF TypeOK, Row
<1>3. /\ job' = [job EXCEPT ![j] = new]
      /\ current' = [current EXCEPT ![rows[j].type] = NoJob]
  BY <1>1, <1>2 DEF Complete, TypeOK
<1>4. /\ new.step = "completing" /\ new.status = status
      /\ new.task = job[j].task /\ new.killed = job[j].killed
  BY <1>2 DEF JobObject
<1>5. ObjectMove(j, new)
  BY <1>3, <1>4 DEF ObjectMove
<1>6. QED
  BY <1>3, <1>4, <1>5

-----------------------------------------------------------------------------
(* The inductive invariant, action by action *)

\* A step of one Job object that leaves the table alone keeps the invariant.
LEMMA MoveStep ==
    ASSUME TypeOK, DependencyInv, ObjectInv, up,
           UNCHANGED <<lastId, rows, up, madeWith, succeeded, asked>>,
           published \subseteq published',
           NEW j \in 1..lastId, NEW new, job' = [job EXCEPT ![j] = new], ObjectMove(j, new),
           (/\ rows[j].type = "train"
            /\ \/ new.step = "completing" /\ new.status = "success"
               \/ new.step # "none" /\ new.task > 4) => j \in published'
    PROVE  DependencyInv' /\ ObjectInv'
<1>1. ObjectInv'
  BY MoveKeepsObjects
<1>2. \A k \in 1..lastId : job'[k].step # "none" => job[k].step # "none"
  <2>1. new.step # "none" => job[j].step # "none"
    BY DEF ObjectMove, IsRunning, RunSteps
  <2>2. QED
    BY <2>1 DEF TypeOK
<1>3. DependencyInv'
  BY <1>2, MemoryKeepsDependencies
<1>4. QED
  BY <1>1, <1>3

\* The steps of _doRun keep the invariant.
LEMMA RunStep ==
    ASSUME TypeOK, DependencyInv, ObjectInv, NEW j \in 1..lastId,
           BeginTask(j) \/ TaskSpawned(j) \/ TaskDone(j) \/ TaskFailed(j)
    PROVE  DependencyInv' /\ ObjectInv'
<1>0. /\ up /\ IsRunning(j) /\ published \subseteq published'
      /\ UNCHANGED <<lastId, rows, up, madeWith, succeeded, asked>>
  BY DEF BeginTask, TaskSpawned, TaskDone, TaskFailed, IsRunning, RunSteps, dbvars, history
<1>1. job[j] \in JobObject /\ job \in [1..lastId -> JobObject] /\ rows[j].type \in JobTypes
  BY DEF TypeOK, Row
<1>2. rows[j].type = "train" /\ job[j].task > 4 => j \in published
  BY <1>0, ObjectFacts DEF IsRunning, RunSteps
<1>3. ASSUME NEW status \in Ended, job[j].killed => status = "error", Complete(j, status),
             status = "success" /\ rows[j].type = "train" => job[j].task > 4
      PROVE  DependencyInv' /\ ObjectInv'
  <2>1. PICK new : /\ job' = [job EXCEPT ![j] = new] /\ ObjectMove(j, new)
                   /\ new.step = "completing" /\ new.status = status
                   /\ new.task = job[j].task
    BY <1>0, <1>3, CompleteMoves
  <2>2. QED
    BY <1>0, <1>2, <1>3, <2>1, MoveStep DEF Ended
<1>4. ASSUME NEW step \in RunSteps, NEW task \in Nat,
             job' = [job EXCEPT ![j] = [job[j] EXCEPT !.step = step, !.task = task]],
             current' = current,
             rows[j].type = "train" /\ task > 4 => j \in published'
      PROVE  DependencyInv' /\ ObjectInv'
  <2> DEFINE new == [job[j] EXCEPT !.step = step, !.task = task]
  <2>1. new.step = step /\ new.task = task
    BY <1>1 DEF JobObject
  <2>2. job' = [job EXCEPT ![j] = new]
    BY <1>4
  <2>3. new.step # "completing"
    BY <2>1 DEF RunSteps
  <2> HIDE DEF new
  <2>4. ObjectMove(j, new)
    BY <1>0, <1>4, <2>1 DEF ObjectMove
  <2>5. QED
    BY <1>0, <1>4, <2>1, <2>2, <2>3, <2>4, MoveStep
<1>5. CASE BeginTask(j)
  <2>1. CASE StopsKilled(j)
    <3>1. Complete(j, "error")
      BY <1>5, <2>1 DEF BeginTask
    <3>2. QED
      BY <1>3, <3>1 DEF Ended
  <2>2. CASE ~StopsKilled(j) /\ job[j].task > NTasks(rows[j].type)
    <3>1. Complete(j, "success") /\ ~job[j].killed
      BY <1>5, <2>2 DEF BeginTask, StopsKilled
    <3>2. rows[j].type = "train" => job[j].task > 4
      BY <2>2 DEF NTasks
    <3>3. QED
      BY <1>3, <3>1, <3>2 DEF Ended
  <2>3. CASE ~StopsKilled(j) /\ ~(job[j].task > NTasks(rows[j].type))
    <3>1. PICK step \in {"local", "spawn"} : job' = [job EXCEPT ![j].step = step]
      BY <1>5, <2>3 DEF BeginTask
    <3>2. current' = current /\ published' = published
      BY <1>5, <2>3 DEF BeginTask, dbvars
    <3>3. [job[j] EXCEPT !.step = step] = [job[j] EXCEPT !.step = step, !.task = job[j].task]
      BY <1>1 DEF JobObject
    <3>4. job' = [job EXCEPT ![j] = [job[j] EXCEPT !.step = step, !.task = job[j].task]]
      BY <3>1, <3>3
    <3>5. job[j].task \in Nat /\ step \in RunSteps
      BY <1>1 DEF JobObject, RunSteps
    <3>6. QED
      BY <1>2, <1>4, <3>2, <3>4, <3>5
  <2>4. QED
    BY <2>1, <2>2, <2>3
<1>6. CASE TaskSpawned(j)
  <2>1. job' = [job EXCEPT ![j].step = "child"] /\ current' = current /\ published' = published
    BY <1>6 DEF TaskSpawned, dbvars
  <2>2. [job[j] EXCEPT !.step = "child"] = [job[j] EXCEPT !.step = "child", !.task = job[j].task]
    BY <1>1 DEF JobObject
  <2>3. job' = [job EXCEPT ![j] = [job[j] EXCEPT !.step = "child", !.task = job[j].task]]
    BY <2>1, <2>2
  <2>4. job[j].task \in Nat /\ "child" \in RunSteps
    BY <1>1 DEF JobObject, RunSteps
  <2>5. QED
    BY <1>2, <1>4, <2>1, <2>3, <2>4
<1>7. CASE TaskDone(j)
  <2>1. /\ job' = [job EXCEPT ![j] = [job[j] EXCEPT !.step = "begin", !.task = job[j].task + 1]]
        /\ current' = current
        /\ published' = IF IsUpload(j) THEN published \cup {j} ELSE published
    BY <1>7 DEF TaskDone
  <2>2. job[j].task \in Nat /\ job[j].task + 1 \in Nat /\ "begin" \in RunSteps
    BY <1>1 DEF JobObject, RunSteps
  <2>3. job[j].task + 1 > 4 => job[j].task = 4 \/ job[j].task > 4
    BY <2>2
  <2>4. rows[j].type = "train" /\ job[j].task + 1 > 4 => j \in published'
    BY <1>2, <2>1, <2>3 DEF IsUpload
  <2>5. QED
    BY <1>4, <2>1, <2>2, <2>4
<1>8. CASE TaskFailed(j)
  <2>1. Complete(j, "error")
    BY <1>8 DEF TaskFailed
  <2>2. QED
    BY <1>3, <2>1 DEF Ended
<1>9. QED
  BY <1>5, <1>6, <1>7, <1>8

\* The end of jobComplete, with or without its transaction, and killJob keep
\* the invariant.
LEMMA EndStep ==
    ASSUME TypeOK, DependencyInv, ObjectInv, NEW j \in 1..lastId,
           RecordCompletion(j) \/ CompletionFails(j) \/ KillCurrentJob(j) \/ KillOtherJob(j)
    PROVE  DependencyInv' /\ ObjectInv'
<1>1. job \in [1..lastId -> JobObject] /\ job[j] \in JobObject /\ rows[j].type \in JobTypes
  BY DEF TypeOK, Row
<1>2. CASE RecordCompletion(j)
  <2>1. /\ up /\ job[j].step = "completing" /\ RecordJobCompletion({j}, job[j].status)
        /\ job' = [job EXCEPT ![j] = NoObject] /\ UNCHANGED <<published, up, current>>
    BY <1>2 DEF RecordCompletion
  <2>2. job[j].status \in Ended
    BY <2>1, ObjectFacts
  <2>3. /\ job'[j] = NoObject /\ ~IsRunning(j)
        /\ \A k \in 1..lastId : k \notin {j} => job'[k] = job[k]
    BY <1>1, <2>1 DEF IsRunning, RunSteps
  <2>4. \A k \in 1..lastId : job'[k].step # "none" => job[k].step # "none"
    BY <2>1, <2>3 DEF NoObject
  <2>5. DependencyInv'
    BY <2>1, <2>2, <2>4, RecordKeepsDependencies
  <2>6. job[j].status = "success" /\ rows[j].type = "train" => j \in published
    BY <2>1, ObjectFacts
  <2>7. ObjectInv'
    BY <2>1, <2>2, <2>3, <2>6, RecordKeepsObjects
  <2>8. QED
    BY <2>5, <2>7
<1>3. CASE CompletionFails(j)
  <2>1. up /\ job[j].step = "completing" /\ UNCHANGED <<lastId, rows, published, madeWith, succeeded, asked>>
    BY <1>3 DEF CompletionFails, dbvars, history
  <2>2. CASE LoseMemory
    <3>1. \A k \in 1..lastId : job'[k].step = "none"
      BY <2>2 DEF LoseMemory, NoObject
    <3>2. QED
      BY <2>1, <2>2, <3>1, MemoryKeepsDependencies, LossKeepsObjects
  <2>3. CASE job' = [job EXCEPT ![j] = NoObject] /\ UNCHANGED <<up, current, immediates, txns>>
    <3>1. ObjectMove(j, NoObject) /\ NoObject.step = "none"
      BY <2>1, <2>3 DEF ObjectMove, NoObject, IsRunning, RunSteps
    <3>2. QED
      BY <2>1, <2>3, <3>1, MoveStep
  <2>4. QED
    BY <1>3, <2>2, <2>3 DEF CompletionFails
<1>4. CASE KillCurrentJob(j)
  <2> DEFINE new == [job[j] EXCEPT !.killed = TRUE]
  <2>1. /\ up /\ current[rows[j].type] = j /\ job' = [job EXCEPT ![j] = new]
        /\ UNCHANGED <<lastId, rows, published, up, current, madeWith, succeeded, asked>>
    BY <1>4 DEF KillCurrentJob, dbvars, history
  <2>2. new.step = job[j].step /\ new.task = job[j].task
    BY <1>1 DEF JobObject
  <2>3. IsRunning(j)
    BY <1>1, <2>1, ObjectFacts DEF NoJob
  <2>4. ObjectMove(j, new) /\ new.step # "completing"
    BY <2>1, <2>2, <2>3 DEF ObjectMove, IsRunning, RunSteps
  <2>5. rows[j].type = "train" /\ new.step # "none" /\ new.task > 4 => j \in published
    BY <2>2, ObjectFacts
  <2> HIDE DEF new
  <2>6. QED
    BY <2>1, <2>4, <2>5, MoveStep
<1>5. CASE KillOtherJob(j)
  <2>1. /\ ~(rows[j].status = "started" /\ current[rows[j].type] = j)
        /\ RecordJobCompletion({j}, "error")
        /\ UNCHANGED <<published, up, current, job>>
    BY <1>5 DEF KillOtherJob, memvars
  <2>2. ~IsRunning(j)
    BY <2>1, ObjectFacts
  <2>3. DependencyInv'
    BY <2>1, RecordKeepsDependencies DEF Ended
  <2>4. ObjectInv'
    BY <2>1, <2>2, RecordKeepsObjects DEF Ended
  <2>5. QED
    BY <2>3, <2>4
<1>6. QED
  BY <1>2, <1>3, <1>4, <1>5

\* Starting a job keeps the invariant: _currentJobs is looked at again inside
\* the transaction, so the pointer it overwrites is free.
LEMMA StartStep ==
    ASSUME TypeOK, DependencyInv, ObjectInv, NEW type \in JobTypes, StartNextJob(type)
    PROVE  DependencyInv' /\ ObjectInv'
<1>1. up /\ UNCHANGED <<lastId, published, up, madeWith, succeeded, asked>>
  BY StartHasEffect
<1>2. DependencyInv'
  BY StartKeepsDependencies
<1>3. CASE UNCHANGED <<rows, job, current>>
  <2>1. ObjectInv'
    BY <1>1, <1>3 DEF ObjectInv, CurrentOK, OutcomeOK, RunningIsCurrent, PublishedBeforeSuccess, IsRunning
  <2>2. QED
    BY <1>2, <2>1
<1>4. ASSUME NEW next, StartEffect(type, next) PROVE ObjectInv'
  <2>0. current \in [JobTypes -> 0..lastId] /\ \A k \in 1..lastId : rows[k].type \in JobTypes
    BY DEF TypeOK, Row
  <2>1. CurrentOK'
    <3>1. ASSUME NEW t \in JobTypes, current'[t] # NoJob
          PROVE  rows'[current'[t]].type = t /\ job'[current'[t]].step \in RunSteps
      <4>1. CASE t = type
        <5>1. current'[t] = next
          BY <1>4, <2>0, <4>1 DEF StartEffect
        <5>2. QED
          BY <1>4, <4>1, <5>1 DEF StartEffect, RunSteps
      <4>2. CASE t # type
        <5>1. current'[t] = current[t] /\ current[t] \in 1..lastId
          BY <1>4, <2>0, <3>1, <4>2 DEF StartEffect, NoJob
        <5>2. rows[current[t]].type = t /\ IsRunning(current[t])
          BY <3>1, <5>1, ObjectFacts
        <5>3. current[t] # next
          BY <1>4, <4>2, <5>2 DEF StartEffect
        <5>4. QED
          BY <1>4, <5>1, <5>2, <5>3 DEF StartEffect, IsRunning
      <4>3. QED
        BY <4>1, <4>2
    <3>2. QED
      BY <1>1, <3>1 DEF CurrentOK, IsRunning
  <2>2. OutcomeOK'
    <3> SUFFICES ASSUME NEW k \in 1..lastId
                 PROVE  /\ job'[k].step = "completing" => job'[k].status \in Ended
                        /\ (/\ rows'[k].type = "train"
                            /\ \/ job'[k].step = "completing" /\ job'[k].status = "success"
                               \/ job'[k].step # "none" /\ job'[k].task > 4) => k \in published
                        /\ job'[k].killed /\ job'[k].step = "completing" => job'[k].status = "error"
                        /\ job'[k].step # "none" => rows'[k].status \in {"started", "error"}
      BY <1>1 DEF OutcomeOK
    <3>1. CASE k = next
      <4>1. /\ job'[k].task = 1 /\ job'[k].step = "begin"
            /\ rows'[k].status = "started"
        BY <1>4, <3>1 DEF StartEffect
      <4>2. QED
        BY <4>1
    <3>2. CASE k # next
      <4>1. job'[k] = job[k] /\ rows'[k] = rows[k]
        BY <1>4, <3>2 DEF StartEffect
      <4>2. QED
        BY <4>1, ObjectFacts
    <3>3. QED
      BY <3>1, <3>2
  <2>3. RunningIsCurrent'
    <3> SUFFICES ASSUME NEW k \in 1..lastId, job'[k].step \in RunSteps
                 PROVE  current'[rows'[k].type] = k /\ rows'[k].status = "started"
      BY <1>1 DEF RunningIsCurrent, IsRunning
    <3>1. CASE k = next
      BY <1>4, <2>0, <3>1 DEF StartEffect
    <3>2. CASE k # next
      <4>1. job'[k] = job[k] /\ rows'[k] = rows[k] /\ IsRunning(k)
        BY <1>4, <3>2 DEF StartEffect, IsRunning
      <4>2. current[rows[k].type] = k /\ rows[k].status = "started"
        BY <4>1, ObjectFacts
      <4>3. k # NoJob /\ rows[k].type # type
        BY <1>4, <4>2 DEF StartEffect, NoJob
      <4>4. QED
        BY <1>4, <2>0, <4>1, <4>2, <4>3 DEF StartEffect
    <3>3. QED
      BY <3>1, <3>2
  <2>4. PublishedBeforeSuccess'
    BY <1>1, <1>4, ObjectFacts DEF PublishedBeforeSuccess, StartEffect
  <2>5. QED
    BY <2>1, <2>2, <2>3, <2>4 DEF ObjectInv
<1>5. QED
  BY <1>2, <1>3, <1>4, StartHasEffect

\* An accepted request keeps the invariant: merging changes neither the type
\* nor the status of a row, and new rows are queued without an object.
LEMMA ScheduleStep ==
    ASSUME TypeOK, DependencyInv, ObjectInv, NEW t \in Templates, ScheduleJob(t)
    PROVE  DependencyInv' /\ ObjectInv'
<1>1. DependencyInv'
  BY ScheduleKeepsDependencies
<1>2. ScheduleEffect(t)
  BY ScheduleHasEffect
<1>3. up /\ UNCHANGED <<published, up, current>> /\ ~MergeFails(t)
  BY Zenon DEF ScheduleJob
<1>4. lastId \in Nat /\ lastId' \in Nat /\ lastId <= lastId'
  BY <1>2 DEF ScheduleEffect, TypeOK
<1>5. ASSUME NEW j \in 1..lastId
      PROVE  /\ rows'[j].status = rows[j].status /\ rows'[j].type = rows[j].type
             /\ job'[j] = job[j] /\ j \in 1..lastId'
  <2>1. rows[j] \in Row /\ j \in 1..lastId'
    BY <1>4 DEF TypeOK
  <2>2. CASE j \in MergedInto(t)
    <3>1. rows'[j] = Merged(t, rows[j]) /\ job'[j] = job[j]
      BY <1>2, <2>2 DEF ScheduleEffect
    <3>2. t.all => rows[j].all
      BY <1>3, <2>2 DEF MergeFails
    <3>3. QED
      BY <2>1, <3>1, <3>2, MergedRow
  <2>3. CASE j \notin MergedInto(t)
    <3>1. rows'[j] = rows[j] /\ job'[j] = job[j]
      BY <1>2, <2>3 DEF ScheduleEffect
    <3>2. QED
      BY <2>1, <3>1
  <2>4. QED
    BY <2>2, <2>3
<1>6. ASSUME NEW j \in 1..lastId', j \notin 1..lastId
      PROVE  rows'[j].status = "queued" /\ job'[j].step = "none"
  <2>1. j > lastId
    BY <1>4, <1>6
  <2>2. PICK type, tag : rows'[j] = NewRow(t, type, tag, madeWith'[j])
    BY <1>2, <2>1 DEF ScheduleEffect
  <2>3. job'[j].step = "none"
    BY <1>2, <2>1 DEF ScheduleEffect, NoObject
  <2>4. QED
    BY <2>2, <2>3 DEF NewRow
<1>7. CurrentOK'
  <2>1. ASSUME NEW type \in JobTypes, current[type] # NoJob
        PROVE  rows'[current[type]].type = type /\ job'[current[type]].step \in RunSteps
    <3>1. current[type] \in 1..lastId
      BY <2>1 DEF TypeOK, NoJob
    <3>2. rows[current[type]].type = type /\ IsRunning(current[type])
      BY <2>1, <3>1, ObjectFacts
    <3>3. QED
      BY <1>5, <3>1, <3>2 DEF IsRunning
  <2>2. QED
    BY <1>3, <2>1 DEF CurrentOK, IsRunning
<1>8. OutcomeOK'
  <2> SUFFICES ASSUME NEW k \in 1..lastId'
               PROVE  /\ job'[k].step = "completing" => job'[k].status \in Ended
                      /\ (/\ rows'[k].type = "train"
                          /\ \/ job'[k].step = "completing" /\ job'[k].status = "success"
                             \/ job'[k].step # "none" /\ job'[k].task > 4) => k \in published
                      /\ job'[k].killed /\ job'[k].step = "completing" => job'[k].status = "error"
                      /\ job'[k].step # "none" => rows'[k].status \in {"started", "error"}
    BY <1>3 DEF OutcomeOK
  <2>1. CASE k \in 1..lastId
    BY <1>5, <2>1, ObjectFacts
  <2>2. CASE k \notin 1..lastId
    BY <1>6, <2>2
  <2>3. QED
    BY <2>1, <2>2
<1>9. RunningIsCurrent'
  <2> SUFFICES ASSUME NEW k \in 1..lastId', job'[k].step \in RunSteps
               PROVE  current[rows'[k].type] = k /\ rows'[k].status = "started"
    BY <1>3 DEF RunningIsCurrent, IsRunning
  <2>1. k \in 1..lastId
    BY <1>6 DEF RunSteps
  <2>2. IsRunning(k)
    BY <1>5, <2>1 DEF IsRunning
  <2>3. QED
    BY <1>5, <2>1, <2>2, ObjectFacts
<1>10. PublishedBeforeSuccess'
  <2> SUFFICES ASSUME NEW k \in 1..lastId', rows'[k].type = "train", rows'[k].status = "success"
               PROVE  k \in published
    BY <1>3 DEF PublishedBeforeSuccess
  <2>1. k \in 1..lastId
    BY <1>6
  <2>2. QED
    BY <1>5, <2>1, ObjectFacts
<1>11. QED
  BY <1>1, <1>7, <1>8, <1>9, <1>10 DEF ObjectInv

\* The restart keeps the invariant: nothing runs while the daemon is down, so
\* the jobs that checkExistingJobs fails have no object.
LEMMA RestartStep ==
    ASSUME TypeOK, DependencyInv, ObjectInv, CheckExistingJobs
    PROVE  DependencyInv' /\ ObjectInv'
<1> DEFINE S == getAllInProgress
<1>1. /\ ~up /\ up' = TRUE /\ RecordJobCompletion(S, "error")
      /\ UNCHANGED <<published, current, job>>
  BY DEF CheckExistingJobs
<1>2. S \subseteq 1..lastId
  BY DEF getAllInProgress
<1>3. \A j \in 1..lastId : job[j].step = "none"
  BY <1>1, ObjectFacts
<1> HIDE DEF S
<1>4. DependencyInv'
  BY <1>1, <1>2, RecordKeepsDependencies DEF Ended
<1>5. \A j \in S : ~IsRunning(j) /\ job'[j] = job[j]
  BY <1>1, <1>2, <1>3 DEF IsRunning, RunSteps
<1>6. up' \/ ~up
  BY <1>1
<1>7. ObjectInv'
  BY <1>1, <1>2, <1>5, <1>6, RecordKeepsObjects DEF Ended
<1>8. QED
  BY <1>4, <1>7

\* A step that changes neither the table nor the objects keeps the invariant.
LEMMA IdleStep ==
    ASSUME DependencyInv, ObjectInv,
           UNCHANGED <<lastId, rows, published, up, current, job, madeWith, succeeded, asked>>
    PROVE  DependencyInv' /\ ObjectInv'
<1>1. DependencyInv'
  BY MemoryKeepsDependencies
<1>2. ObjectInv'
  BY DEF ObjectInv, CurrentOK, OutcomeOK, RunningIsCurrent, PublishedBeforeSuccess, IsRunning
<1>3. QED
  BY <1>1, <1>2

\* Every step keeps the inductive invariant.
LEMMA InductiveStep ==
    ASSUME IInv, [Next]_vars
    PROVE  IInv'
<1>0. TypeOK /\ DependencyInv /\ ObjectInv
  BY DEF IInv
<1>1. ASSUME NEW t \in Templates, ScheduleJob(t) PROVE DependencyInv' /\ ObjectInv'
  BY <1>0, <1>1, ScheduleStep
<1>2. ASSUME NEW t \in Templates, RejectJob(t) PROVE DependencyInv' /\ ObjectInv'
  BY <1>0, <1>2, IdleStep DEF RejectJob, dbvars, memvars, history
<1>3. ASSUME RunStartAll PROVE DependencyInv' /\ ObjectInv'
  BY <1>0, <1>3, IdleStep DEF RunStartAll, dbvars, history
<1>4. ASSUME NEW type \in JobTypes, StartNextJob(type) PROVE DependencyInv' /\ ObjectInv'
  BY <1>0, <1>4, StartStep
<1>5. ASSUME NEW j \in 1..lastId, JobStep(j) PROVE DependencyInv' /\ ObjectInv'
  BY <1>0, <1>5, RunStep, EndStep DEF JobStep
<1>6. ASSUME Crash PROVE DependencyInv' /\ ObjectInv'
  <2>1. LoseMemory /\ UNCHANGED <<lastId, rows, published, madeWith, succeeded, asked>>
    BY <1>6 DEF Crash, dbvars, history
  <2>2. \A j \in 1..lastId : job'[j].step = "none"
    BY <2>1 DEF LoseMemory, NoObject
  <2>3. QED
    BY <1>0, <2>1, <2>2, MemoryKeepsDependencies, LossKeepsObjects
<1>7. ASSUME CheckExistingJobs PROVE DependencyInv' /\ ObjectInv'
  BY <1>0, <1>7, RestartStep
<1>8. ASSUME UNCHANGED vars PROVE DependencyInv' /\ ObjectInv'
  BY <1>0, <1>8, IdleStep DEF vars, dbvars, memvars, history
<1>9. TypeOK'
  BY <1>0, TypeNext
<1>10. QED
  BY <1>1, <1>2, <1>3, <1>4, <1>5, <1>6, <1>7, <1>8, <1>9 DEF Next, IInv

\* The invariant holds initially: there are no jobs.
LEMMA InductiveInit == Init => IInv
<1> SUFFICES ASSUME Init PROVE IInv
  OBVIOUS
<1>1. TypeOK
  BY TypeInit
<1>2. 1..lastId = {}
  BY DEF Init
<1>3. DependencyInv
  BY <1>2 DEF DependencyInv, DependencyOK, NoDanglingDependency, DependencySucceeded,
              FailureCascades, RequestsCovered
<1>4. CurrentOK
  BY <1>2 DEF Init, CurrentOK
<1>5. OutcomeOK /\ RunningIsCurrent /\ PublishedBeforeSuccess
  BY <1>2 DEF OutcomeOK, RunningIsCurrent, PublishedBeforeSuccess
<1>6. QED
  BY <1>1, <1>3, <1>4, <1>5 DEF IInv, ObjectInv

\* The inductive invariant is an invariant of the daemon.
LEMMA Invariance == Spec => []IInv
<1>1. IInv /\ [Next]_vars => IInv'
  BY InductiveStep
<1>2. QED
  BY <1>1, InductiveInit, PTL DEF Spec

\* However requests, kills, failures and crashes interleave, the dependency
\* machinery of scheduleJob and _recordJobCompletion is right: nobody waits
\* for a finished job, a job runs only after the job it was queued behind has
\* succeeded, failures cascade, and merged requests stay covered.
THEOREM DependenciesSafe ==
    Spec => /\ []NoDanglingDependency
            /\ []DependencySucceeded
            /\ []FailureCascades
            /\ []RequestsCovered
<1>1. IInv => /\ NoDanglingDependency /\ DependencySucceeded
              /\ FailureCascades /\ RequestsCovered
  BY DEF IInv, DependencyInv
<1>2. QED
  BY <1>1, Invariance, PTL

\* Each of the four on its own: nobody waits for a job that has ended.
THEOREM NobodyWaitsForTheEnded == Spec => []NoDanglingDependency
BY DependenciesSafe, PTL

\* A job runs only after the job it was queued behind has succeeded.
THEOREM RunsAfterItsDependency == Spec => []DependencySucceeded
BY DependenciesSafe, PTL

\* Behind a job that failed, nothing is left in the queue.
THEOREM FailuresCascade == Spec => []FailureCascades
BY DependenciesSafe, PTL

\* A job covers every request that was merged into it.
THEOREM MergedRequestsCovered == Spec => []RequestsCovered
BY DependenciesSafe, PTL

-----------------------------------------------------------------------------
(* Rows that nobody works on *)

\* A step that may raise dbFailures or stop the daemon needs no argument: what
\* remains are the steps after which the daemon runs and no transaction has
\* failed.  Each of them leaves a started row with its Job object.
LEMMA NoOrphanStep ==
    ASSUME IInv, NoOrphan, [Next]_vars
    PROVE  NoOrphan'
<1>0. TypeOK /\ DependencyInv /\ ObjectInv
  BY DEF IInv
<1> SUFFICES ASSUME up', dbFailures' = 0, NEW j \in 1..lastId', rows'[j].status = "started"
             PROVE  job'[j].step # "none"
  BY DEF NoOrphan
<1>1. \A k \in 1..lastId : up /\ dbFailures = 0 /\ rows[k].status = "started" => job[k].step # "none"
  BY DEF NoOrphan
<1>2. job \in [1..lastId -> JobObject] /\ dbFailures \in Nat
  BY <1>0, BoundAssumption DEF TypeOK
<1>3. ASSUME up, dbFailures = 0, j \in 1..lastId, rows[j].status = "started",
             job[j].step # "none" => job'[j].step # "none"
      PROVE  job'[j].step # "none"
  BY <1>1, <1>3
<1>4. ASSUME NEW t \in Templates, ScheduleJob(t) PROVE job'[j].step # "none"
  <2>1. ScheduleEffect(t) /\ ~MergeFails(t) /\ up /\ dbFailures = 0
    BY <1>0, <1>4, ScheduleHasEffect DEF ScheduleJob
  <2>2. j > lastId => rows'[j].status = "queued"
    BY <2>1 DEF ScheduleEffect, NewRow
  <2>3. j \in 1..lastId
    BY <1>0, <2>1, <2>2 DEF ScheduleEffect, TypeOK
  <2>4. rows[j] \in Row /\ (j \in MergedInto(t) => (t.all => rows[j].all))
    BY <1>0, <2>1, <2>3 DEF TypeOK, MergeFails
  <2>5. j \in MergedInto(t) => Merged(t, rows[j]).status = rows[j].status
    BY <1>4, <2>4, MergedRow
  <2>6. rows'[j] = (IF j \in MergedInto(t) THEN Merged(t, rows[j]) ELSE rows[j])
        /\ job'[j] = job[j]
    BY <2>1, <2>3 DEF ScheduleEffect
  <2>7. rows[j].status = "started"
    BY <2>5, <2>6
  <2>8. QED
    BY <1>3, <2>1, <2>3, <2>6, <2>7
<1>5. ASSUME NEW type \in JobTypes, StartNextJob(type) PROVE job'[j].step # "none"
  <2>1. up /\ lastId' = lastId /\ dbFailures = 0
    BY <1>5 DEF StartNextJob, bounds
  <2>2. CASE UNCHANGED <<rows, job, current>>
    BY <1>3, <2>1, <2>2
  <2>3. ASSUME NEW next, StartEffect(type, next) PROVE job'[j].step # "none"
    BY <1>3, <2>1, <2>3 DEF StartEffect
  <2>4. QED
    BY <1>0, <1>5, <2>2, <2>3, StartHasEffect
<1>6. ASSUME NEW S, NEW status \in Ended, RecordJobCompletion(S, status)
      PROVE  /\ lastId' = lastId /\ j \notin S /\ rows[j].status = "started"
  <2>1. lastId' = lastId
    BY <1>6 DEF RecordJobCompletion
  <2>2. /\ j \in S => rows'[j].status = status
        /\ j \notin S => rows'[j].status \in {rows[j].status, "error"}
    BY <1>0, <1>6, <2>1, RecordSparesRunning
  <2>3. QED
    BY <1>6, <2>1, <2>2 DEF Ended
<1>7. ASSUME NEW k \in 1..lastId, JobStep(k) PROVE job'[j].step # "none"
  <2>1. CASE BeginTask(k) \/ TaskSpawned(k) \/ TaskDone(k) \/ TaskFailed(k)
    <3>1. /\ up /\ dbFailures = 0 /\ lastId' = lastId /\ rows' = rows
          /\ IsRunning(k)
      BY <2>1 DEF BeginTask, TaskSpawned, TaskDone, TaskFailed, dbvars, bounds, IsRunning, RunSteps
    <3>2. current[rows[k].type] = k
      BY <1>0, <3>1, ObjectFacts
    <3>3. \E new : job' = [job EXCEPT ![k] = new] /\ new.step # "none"
      <4>1. job[k] \in JobObject
        BY <1>2
      <4>2. ASSUME NEW status, Complete(k, status)
            PROVE  \E new : job' = [job EXCEPT ![k] = new] /\ new.step # "none"
        <5> DEFINE new == [job[k] EXCEPT !.step = "completing", !.status = status]
        <5>1. job' = [job EXCEPT ![k] = new]
          BY <1>2, <3>2, <4>2 DEF Complete
        <5>2. new.step = "completing"
          BY <4>1 DEF JobObject
        <5>3. QED
          BY <5>1, <5>2
      <4>3. ASSUME NEW step \in {"local", "spawn", "child"}, job' = [job EXCEPT ![k].step = step]
            PROVE  \E new : job' = [job EXCEPT ![k] = new] /\ new.step # "none"
        <5>1. job' = [job EXCEPT ![k] = [job[k] EXCEPT !.step = step]]
          BY <1>2, <4>3
        <5>2. [job[k] EXCEPT !.step = step].step = step
          BY <4>1 DEF JobObject
        <5>3. QED
          BY <5>1, <5>2
      <4>4. CASE TaskDone(k)
        <5> DEFINE new == [job[k] EXCEPT !.step = "begin", !.task = job[k].task + 1]
        <5>1. job' = [job EXCEPT ![k] = new]
          BY <4>4 DEF TaskDone
        <5>2. new.step = "begin"
          BY <4>1 DEF JobObject
        <5>3. QED
          BY <5>1, <5>2
      <4>5. CASE BeginTask(k)
        BY <4>2, <4>3, <4>5 DEF BeginTask
      <4>6. CASE TaskSpawned(k)
        BY <4>3, <4>6 DEF TaskSpawned
      <4>7. CASE TaskFailed(k)
        BY <4>2, <4>7 DEF TaskFailed
      <4>8. QED
        BY <2>1, <4>4, <4>5, <4>6, <4>7
    <3>4. QED
      BY <1>2, <1>3, <3>1, <3>3
  <2>2. CASE RecordCompletion(k)
    <3>1. /\ up /\ dbFailures = 0 /\ job[k].step = "completing"
          /\ RecordJobCompletion({k}, job[k].status) /\ job' = [job EXCEPT ![k] = NoObject]
      BY <2>2 DEF RecordCompletion, bounds
    <3>2. job[k].status \in Ended
      BY <1>0, <3>1, ObjectFacts
    <3>3. j # k /\ lastId' = lastId /\ rows[j].status = "started"
      BY <1>6, <3>1, <3>2
    <3>4. QED
      BY <1>2, <1>3, <3>1, <3>3
  <2>3. CASE CompletionFails(k)
    BY <1>2, <2>3 DEF CompletionFails
  <2>4. CASE KillCurrentJob(k)
    <3>1. /\ up /\ dbFailures = 0 /\ lastId' = lastId /\ rows' = rows
          /\ job' = [job EXCEPT ![k].killed = TRUE]
      BY <2>4 DEF KillCurrentJob, dbvars, bounds
    <3>2. job'[j].step = job[j].step
      BY <1>2, <3>1 DEF JobObject
    <3>3. QED
      BY <1>3, <3>1, <3>2
  <2>5. CASE KillOtherJob(k)
    <3>1. up /\ dbFailures = 0 /\ job' = job /\ RecordJobCompletion({k}, "error")
      BY <2>5 DEF KillOtherJob, memvars, bounds
    <3>2. lastId' = lastId /\ rows[j].status = "started"
      BY <1>6, <3>1 DEF Ended
    <3>3. QED
      BY <1>3, <3>1, <3>2
  <2>6. QED
    BY <1>7, <2>1, <2>2, <2>3, <2>4, <2>5 DEF JobStep
<1>8. CASE CheckExistingJobs
  <2>1. lastId' = lastId /\ j \notin getAllInProgress /\ rows[j].status = "started"
    BY <1>6, <1>8 DEF CheckExistingJobs, Ended
  <2>2. QED
    BY <2>1 DEF getAllInProgress
<1>9. CASE Crash
  BY <1>9 DEF Crash, LoseMemory
<1>10. CASE UNCHANGED <<lastId, rows, job, up, dbFailures>>
  BY <1>3, <1>10
<1>11. QED
  BY <1>4, <1>5, <1>7, <1>8, <1>9, <1>10
     DEF Next, RejectJob, RunStartAll, vars, dbvars, memvars, bounds

\* After any number of crashes and restarts, a row that says started belongs
\* to a Job object of the daemon that runs, unless a completion transaction
\* has failed.
THEOREM StartedRowsAreWorkedOn == Spec => []NoOrphan
<1>1. Init => NoOrphan
  BY DEF Init, NoOrphan
<1>2. IInv /\ NoOrphan /\ [Next]_vars => NoOrphan'
  BY NoOrphanStep
<1>3. QED
  BY <1>1, <1>2, Invariance, PTL DEF Spec

\* At most one job of a type executes, and it is the one that _currentJobs
\* points to and that the table shows as started.
THEOREM OneRunningPerType == Spec => []RunningIsCurrent
<1>1. IInv => RunningIsCurrent
  BY DEF IInv, ObjectInv
<1>2. QED
  BY <1>1, Invariance, PTL

\* A train job shown as successful has published its model.
THEOREM SuccessIsPublished == Spec => []PublishedBeforeSuccess
<1>1. IInv => PublishedBeforeSuccess
  BY DEF IInv, ObjectInv
<1>2. QED
  BY <1>1, Invariance, PTL

\* Once killJob has flagged the running job it is never recorded as
\* successful: the flag is read again after the last task, the outcome is
\* fixed when the object completes, and nobody else records a success for it.
THEOREM KillIsFinal == Spec => KilledNeverSucceeds
<1> DEFINE Stays == \A j \in 1..lastId :
                       job[j].killed /\ job[j].step # "none" => rows'[j].status # "success"
<1>1. ASSUME IInv, [Next]_vars PROVE Stays
  <2>0. TypeOK /\ DependencyInv /\ ObjectInv
    BY <1>1 DEF IInv
  <2> SUFFICES ASSUME NEW j \in 1..lastId, job[j].killed, job[j].step # "none"
               PROVE  rows'[j].status # "success"
    OBVIOUS
  <2>1. /\ rows[j].status # "success"
        /\ job[j].step = "completing" => job[j].status = "error"
    BY <2>0, ObjectFacts
  <2>2. ASSUME rows'[j].status \in {rows[j].status, "started", "error"}
        PROVE  rows'[j].status # "success"
    BY <2>1, <2>2
  <2>3. ASSUME NEW S, NEW status \in Ended, RecordJobCompletion(S, status),
               status = "success" => j \notin S
        PROVE  rows'[j].status # "success"
    BY <2>0, <2>1, <2>3, RecordSparesRunning DEF Ended
  <2>4. ASSUME NEW t \in Templates, ScheduleJob(t) PROVE rows'[j].status # "success"
    <3>1. ScheduleEffect(t) /\ ~MergeFails(t)
      BY <2>0, <2>4, ScheduleHasEffect DEF ScheduleJob
    <3>2. rows[j] \in Row
      BY <2>0 DEF TypeOK
    <3>3. j \in MergedInto(t) => (t.all => rows[j].all)
      BY <3>1 DEF MergeFails
    <3>a. rows'[j] = IF j \in MergedInto(t) THEN Merged(t, rows[j]) ELSE rows[j]
      BY <3>1 DEF ScheduleEffect
    <3>b. j \in MergedInto(t) => Merged(t, rows[j]).status = rows[j].status
      BY <2>4, <3>2, <3>3, MergedRow
    <3>4. rows'[j].status = rows[j].status
      BY <3>a, <3>b
    <3>5. QED
      BY <2>1, <3>4
  <2>5. ASSUME NEW type \in JobTypes, StartNextJob(type) PROVE rows'[j].status # "success"
    <3>1. rows'[j].status \in {rows[j].status, "started"}
      BY <2>0, <2>5, StartHasEffect DEF StartEffect
    <3>2. QED
      BY <2>2, <3>1
  <2>6. ASSUME NEW k \in 1..lastId, JobStep(k) PROVE rows'[j].status # "success"
    <3>1. CASE RecordCompletion(k)
      <4>1. job[k].step = "completing" /\ RecordJobCompletion({k}, job[k].status)
        BY <3>1 DEF RecordCompletion
      <4>2. job[k].status \in Ended /\ (job[k].status = "success" => j \notin {k})
        BY <2>0, <2>1, <4>1, ObjectFacts
      <4>3. QED
        BY <2>3, <4>1, <4>2
    <3>2. CASE KillOtherJob(k)
      BY <2>3, <3>2 DEF KillOtherJob, Ended
    <3>3. CASE UNCHANGED rows
      BY <2>2, <3>3
    <3>4. QED
      BY <2>6, <3>1, <3>2, <3>3 DEF JobStep, BeginTask, TaskSpawned, TaskDone, TaskFailed,
                                   CompletionFails, KillCurrentJob, dbvars
  <2>7. CASE CheckExistingJobs
    BY <2>3, <2>7 DEF CheckExistingJobs, Ended
  <2>8. CASE UNCHANGED rows
    BY <2>2, <2>8
  <2>9. QED
    BY <1>1, <2>4, <2>5, <2>6, <2>7, <2>8
       DEF Next, RejectJob, RunStartAll, Crash, vars, dbvars
<1>2. IInv /\ [Next]_vars => [Stays]_vars
  BY <1>1
<1>3. QED
  BY <1>2, Invariance, PTL DEF Spec, KilledNeverSucceeds

=============================================================================
