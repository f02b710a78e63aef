------------------------- MODULE EngineManagerProofs -------------------------
(***************************************************************************)
(* Proofs about EngineManager for any number of users, worker processes,   *)
(* calls, crashes and restarts.  Types and the order of the operations are *)
(* proved for every instance (the invariant GInv), what the engines do in  *)
(* the instances whose users share workers (SharedOnly, the invariant      *)
(* IInv).                                                                  *)
(***************************************************************************)
EXTENDS EngineManager, TLAPS, FiniteSetTheorems

-----------------------------------------------------------------------------
(* The instances whose users share workers                                 *)

SharedOps == {"killUser", "restartUser", "restartUserWithoutCache", "sendSocket"}

\* All users are in shared workers, the website calls after the boot, and only
\* operations that keep the lock of the user and wait for what they kill.
SharedOnly ==
  Dedicated = {} /\ EarlyCalls = FALSE /\ Ops \subseteq SharedOps

-----------------------------------------------------------------------------
(* The invariant of these instances                                        *)

\* Nobody tells a worker to exit, and before the boot nothing happens.
Calm ==
  /\ stopped = FALSE
  /\ \A p \in DOMAIN procs : procs[p].dying = "no"
  /\ \A c \in ChildIds : ~children[c].told
  /\ ~booted =>
       /\ tasks = <<>> /\ listening = {}
       /\ \A u \in Users : engines[u] = 0 /\ timers[u] = 0 /\ lockTail[u] = 0
       /\ \A c \in ChildIds :
            /\ children[c].running = {}
            /\ children[c].calls = <<>> /\ children[c].replies = <<>> /\ children[c].lost = <<>>

\* The socket of a process leads to its last worker, the only one that may be
\* alive; until the process has reported an exit there is only one.
Workers ==
  /\ \A c \in ChildIds :
       /\ children[c].proc \in Shared
       /\ children[c].alive => procs[children[c].proc].sock = c
       /\ ~children[c].alive => children[c].running = {} /\ children[c].calls = <<>>
       /\ children[c].events # {} => ~children[c].alive
  /\ \A p \in Shared :
       /\ procs[p].sock # 0 => procs[p].sock \in ChildIds /\ children[procs[p].sock].proc = p
       /\ procs[p].starting = "delay" => procs[p].sock = 0 /\ procs[p].hadExit
       /\ ~procs[p].hadExit =>
            \A c, d \in ChildIds : children[c].proc = p /\ children[d].proc = p => c = d

\* Where a task is in its plan, and that only a task past its start has a
\* process.
Stages(task) ==
  /\ task.op \in SharedOps \cup {"timer", "boot"}
  /\ task.at \in {"waiting", "token", "running"} => task.todo = <<"start">>
  /\ task.at = "killing" => task.op \notin {"boot", "sendSocket"} /\ task.todo = Plan[task.op]
  /\ task.at = "rm" => task.op = "restartUserWithoutCache" /\ task.todo = <<"rm", "start">>
  /\ task.at = "idle" =>
       \/ task.op # "boot" /\ task.todo = Plan[task.op]
       \/ task.op \in {"restartUser", "timer"} /\ task.todo = <<"start">>
       \/ task.op = "restartUserWithoutCache" /\ task.todo \in {<<"rm", "start">>, <<"start">>}
  /\ task.proc # 0 => task.at \in {"token", "running", "done"} /\ task.proc \in Shared
  /\ task.at \in {"token", "running"} => task.proc # 0

\* The lock of a user: an operation that has begun has all earlier ones of
\* the user behind it. The start at boot takes no lock.
Locked(t) == tasks[t].op # "boot"
Begun(task) == task.at # "idle" \/ task.todo # Plan[task.op]
Places ==
  /\ \A t \in TaskIds : ~Locked(t) => tasks[t].user = t /\ tasks[t].at # "idle"
  /\ \A t \in TaskIds : Locked(t) => tasks[t].prev < t
  /\ \A s, t \in TaskIds :
       Locked(s) /\ Locked(t) /\ s < t /\ tasks[s].user = tasks[t].user =>
         /\ s <= tasks[t].prev /\ tasks[t].prev \in TaskIds
         /\ Locked(tasks[t].prev) /\ tasks[tasks[t].prev].user = tasks[t].user
  /\ \A t \in TaskIds : Locked(t) =>
       /\ t <= lockTail[tasks[t].user] /\ lockTail[tasks[t].user] \in TaskIds
       /\ Locked(lockTail[tasks[t].user]) /\ tasks[lockTail[tasks[t].user]].user = tasks[t].user
  /\ \A u \in Users : lockTail[u] # 0 => Locked(lockTail[u]) /\ tasks[lockTail[u]].user = u
OneBegun ==
  \A s, t \in TaskIds :
    Locked(s) /\ Locked(t) /\ s < t /\ tasks[s].user = tasks[t].user /\ Begun(tasks[t]) =>
      tasks[s].at = "done"
Locks ==
  /\ \A t \in TaskIds : Stages(tasks[t])
  /\ Places /\ OneBegun

\* A call that was not answered is the one its task waits for.
Kinds == {"calls", "lost", "replies"}
Queue(c, k) ==
  IF k = "calls" THEN children[c].calls
  ELSE IF k = "lost" THEN children[c].lost ELSE children[c].replies
Expected(c, m) ==
  /\ m.task \in TaskIds /\ m.waits /\ m.user = tasks[m.task].user
  /\ m.op = "run" => tasks[m.task].at = "running" /\ tasks[m.task].proc = children[c].proc
  /\ m.op = "kill" => tasks[m.task].at = "killing"
Awaited == \A c \in ChildIds, k \in Kinds : \A i \in 1..Len(Queue(c, k)) : Expected(c, Queue(c, k)[i])
OneCall ==
  \A c, d \in ChildIds, k, l \in Kinds :
    \A i \in 1..Len(Queue(c, k)), j \in 1..Len(Queue(d, l)) :
      Queue(c, k)[i].task = Queue(d, l)[j].task => c = d /\ k = l /\ i = j
Mapped ==
  \A c \in ChildIds : \A t \in children[c].running :
    /\ t \in TaskIds /\ tasks[t].proc = children[c].proc
    /\ children[c].map[tasks[t].user] = t
    /\ tasks[t].at \in {"running", "done"}

\* A task that may still start an engine, and one whose engine runs.
Asked(t) ==
  \E c \in ChildIds : \E i \in 1..Len(children[c].calls) :
    children[c].calls[i].op = "run" /\ children[c].calls[i].task = t
Starting(t) ==
  \/ tasks[t].at = "waiting"
  \/ tasks[t].at = "token" /\ procs[tasks[t].proc].sock # 0
  \/ Asked(t)
Runs(t) == \E c \in ChildIds : t \in children[c].running
Live(t) == Starting(t) \/ Runs(t)
Stopped(u) == \A t \in TaskIds : tasks[t].user = u => ~Live(t)

\* _engines has the engine that starts or runs.
Known ==
  /\ \A t \in TaskIds : Live(t) => engines[tasks[t].user] = t
  /\ \A u \in Users : engines[u] # 0 =>
       /\ engines[u] \in TaskIds /\ tasks[engines[u]].user = u
       /\ tasks[engines[u]].proc # 0 => engines[u] \in listening
  /\ \A t \in listening : t \in TaskIds /\ tasks[t].proc # 0

\* What a kill has done by the time it is answered, and what it still has to do.
KillDoes(c, k, m) ==
  /\ ProcOf(m.user) \in {0, children[c].proc}
  /\ k # "calls" => Stopped(m.user)
  /\ k = "calls" => \A t \in TaskIds : tasks[t].user = m.user /\ Live(t) => t \in children[c].running
Killed ==
  \A c \in ChildIds, k \in Kinds : \A i \in 1..Len(Queue(c, k)) :
    Queue(c, k)[i].op = "kill" => KillDoes(c, k, Queue(c, k)[i])

\* After the kill nothing of the user runs until the task starts it again.
PostKill(task) ==
  /\ task.op \in {"restartUser", "restartUserWithoutCache", "timer"}
  /\ \/ task.at = "rm"
     \/ task.at = "idle" /\ task.todo # Plan[task.op]
Between ==
  \A t \in TaskIds : PostKill(tasks[t]) => Stopped(tasks[t].user) /\ ProcOf(tasks[t].user) = 0

\* The start at boot, which has no lock, is over when another may begin.
BootOver ==
  \A b \in TaskIds : ~Locked(b) /\ Starting(b) =>
    /\ timers[tasks[b].user] = 0
    /\ \A t \in TaskIds : Locked(t) => tasks[t].user # tasks[b].user

IInv ==
  /\ TypeOK /\ Calm /\ Workers /\ Locks /\ Awaited /\ OneCall /\ Mapped
  /\ Known /\ Killed /\ Between /\ BootOver

-----------------------------------------------------------------------------
(* Sequences                                                               *)

LEMMA SeqUpdate ==
  ASSUME NEW S, NEW s \in Seq(S), NEW i \in 1..Len(s), NEW x \in S
  PROVE  /\ [s EXCEPT ![i] = x] \in Seq(S)
         /\ Len([s EXCEPT ![i] = x]) = Len(s)
         /\ \A j \in 1..Len(s) : [s EXCEPT ![i] = x][j] = IF j = i THEN x ELSE s[j]
OBVIOUS

LEMMA SeqOf ==
  ASSUME NEW S, NEW n \in Nat, NEW f \in [1..n -> S]
  PROVE  f \in Seq(S) /\ Len(f) = n
OBVIOUS

LEMMA SeqElement ==
  ASSUME NEW S, NEW s \in Seq(S)
  PROVE  Len(s) \in Nat /\ \A i \in 1..Len(s) : s[i] \in S
OBVIOUS

LEMMA SeqAppend ==
  ASSUME NEW S, NEW s \in Seq(S), NEW x \in S
  PROVE  /\ Append(s, x) \in Seq(S)
         /\ Len(Append(s, x)) = Len(s) + 1
         /\ \A j \in 1..(Len(s) + 1) : Append(s, x)[j] = IF j = Len(s) + 1 THEN x ELSE s[j]
OBVIOUS

LEMMA SeqTail ==
  ASSUME NEW S, NEW s \in Seq(S), s # <<>>
  PROVE  /\ Len(s) \in Nat \ {0} /\ Head(s) = s[1] /\ Head(s) \in S
         /\ Tail(s) \in Seq(S)
         /\ Len(Tail(s)) = Len(s) - 1
         /\ \A j \in 1..(Len(s) - 1) : Tail(s)[j] = s[j + 1]
OBVIOUS

LEMMA SeqConcat ==
  ASSUME NEW S, NEW s \in Seq(S), NEW r \in Seq(S)
  PROVE  /\ s \o r \in Seq(S)
         /\ Len(s \o r) = Len(s) + Len(r)
         /\ \A j \in 1..(Len(s) + Len(r)) : (s \o r)[j] = IF j <= Len(s) THEN s[j] ELSE r[j - Len(s)]
OBVIOUS

-----------------------------------------------------------------------------
(* Tasks                                                                   *)

LEMMA PlanFacts ==
  /\ DOMAIN Plan = WebOps \cup {"timer", "boot"}
  /\ WebOps = {"startUser", "killUser", "restartUser", "deleteUser", "clearCache",
               "restartUserWithoutCache", "sendSocket"}
  /\ Plan["startUser"] = <<"start">> /\ Plan["killUser"] = <<"kill">>
  /\ Plan["restartUser"] = <<"kill", "start">> /\ Plan["deleteUser"] = <<"kill", "rm">>
  /\ Plan["clearCache"] = <<"rm">> /\ Plan["restartUserWithoutCache"] = <<"kill", "rm", "start">>
  /\ Plan["sendSocket"] = <<"send">> /\ Plan["timer"] = <<"kill", "start">>
  /\ Plan["boot"] = <<"start">>
BY DEF Plan, WebOps

LEMMA TodoTyped ==
  {<<>>, <<"start">>, <<"rm", "start">>} \subseteq
    {<<>>} \cup {Plan[op] : op \in DOMAIN Plan} \cup {<<"rm", "start">>}
<1>1. "boot" \in DOMAIN Plan /\ Plan["boot"] = <<"start">>
  BY DEF Plan
<1> QED  BY <1>1

\* The types that the task records have in tasks.
LEMMA TaskTyped ==
  ASSUME NEW task \in Task
  PROVE  /\ task.op \in DOMAIN Plan /\ task.user \in Users /\ task.prev \in 0..MaxTasks
         /\ task.todo \in {<<>>} \cup {Plan[op] : op \in DOMAIN Plan} \cup {<<"rm", "start">>}
         /\ task.at \in {"idle", "killing", "rm", "waiting", "token", "running", "done"}
         /\ task.target \in 0..(NProcs + MaxTasks) /\ task.child \in 0..MaxChildren
         /\ task.proc \in 0..(NProcs + MaxTasks) /\ task.ok \in BOOLEAN
BY DEF Task

LEMMA TodoFacts ==
  /\ <<"start">> # <<>> /\ Head(<<"start">>) = "start" /\ Tail(<<"start">>) = <<>>
  /\ Len(<<"start">>) = 1
  /\ <<"kill">> # <<>> /\ Head(<<"kill">>) = "kill" /\ Tail(<<"kill">>) = <<>>
  /\ Len(<<"kill">>) = 1
  /\ <<"send">> # <<>> /\ Head(<<"send">>) = "send" /\ Tail(<<"send">>) = <<>>
  /\ Len(<<"send">>) = 1
  /\ <<"kill", "start">> # <<>> /\ Head(<<"kill", "start">>) = "kill"
  /\ Tail(<<"kill", "start">>) = <<"start">> /\ Len(<<"kill", "start">>) = 2
  /\ <<"rm", "start">> # <<>> /\ Head(<<"rm", "start">>) = "rm"
  /\ Tail(<<"rm", "start">>) = <<"start">> /\ Len(<<"rm", "start">>) = 2
  /\ <<"kill", "rm", "start">> # <<>> /\ Head(<<"kill", "rm", "start">>) = "kill"
  /\ Tail(<<"kill", "rm", "start">>) = <<"rm", "start">> /\ Len(<<"kill", "rm", "start">>) = 3
  /\ <<"kill", "start">> # <<"start">> /\ <<"kill", "rm", "start">> # <<"start">>
  /\ <<"kill", "rm", "start">> # <<"rm", "start">>
OBVIOUS

\* What a record keeps when its task goes on.
SameTask(new, task) ==
  /\ new \in Task /\ Stages(new)
  /\ new.op = task.op /\ new.user = task.user /\ new.prev = task.prev
  /\ task.at = "done" => new.at = "done"

LEMMA FailedFacts ==
  ASSUME NEW task \in Task, Stages(task)
  PROVE  /\ SameTask(Failed(task), task)
         /\ Failed(task).at = "done" /\ Failed(task).proc = task.proc
BY TaskTyped DEF Failed, SameTask, Task, Stages

\* A stage that went well was the kill, the removal, the start or the sending.
LEMMA AdvancedFacts ==
  ASSUME NEW task \in Task, Stages(task),
         \/ task.at \in {"killing", "rm", "running"}
         \/ task.at = "idle" /\ Head(task.todo) \in {"kill", "send"}
  PROVE  /\ SameTask(Advanced(task), task) /\ Advanced(task).proc = task.proc
         /\ Advanced(task).at \in {"done", "idle"} /\ Begun(Advanced(task))
         /\ PostKill(Advanced(task)) =>
              \/ PostKill(task) \/ task.at = "killing"
              \/ task.at = "idle" /\ Head(task.todo) = "kill"
         /\ task.at = "running" => Advanced(task).at = "done"
<1> DEFINE new == Advanced(task)
           at == IF Len(task.todo) = 1 THEN "done" ELSE "idle"
<1>1. /\ task.op \in SharedOps \cup {"timer", "boot"}
      /\ task.todo \in {<<>>} \cup {Plan[op] : op \in DOMAIN Plan} \cup {<<"rm", "start">>}
  BY TaskTyped DEF Stages
<1>2. CASE task.at = "running"
  <2>1. task.todo = <<"start">>
    BY <1>2 DEF Stages
  <2>2. new = [task EXCEPT !.todo = <<>>, !.at = "done"]
    BY <2>1, TodoFacts DEF Advanced
  <2> QED  BY <1>1, <1>2, <2>2, TaskTyped DEF Task, SameTask, Stages, Begun, PostKill
<1>3. CASE task.at = "rm"
  <2>1. task.todo = <<"rm", "start">> /\ task.op = "restartUserWithoutCache" /\ task.proc = 0
    BY <1>3, TaskTyped DEF Stages
  <2>2. new = [task EXCEPT !.todo = <<"start">>, !.at = "idle"]
    BY <2>1, TodoFacts DEF Advanced
  <2>3. new \in Task
    BY <2>2, TodoTyped, TaskTyped DEF Task
  <2> QED  BY <1>1, <1>3, <2>1, <2>2, <2>3, PlanFacts, TodoFacts DEF SameTask, Stages, Begun, PostKill
<1>4. CASE task.at = "killing" \/ (task.at = "idle" /\ Head(task.todo) = "kill")
  <2>1. task.todo = Plan[task.op] /\ task.op \in {"killUser", "restartUser", "restartUserWithoutCache", "timer"}
    BY <1>4, <1>1, PlanFacts, TodoFacts DEF Stages, SharedOps
  <2>2. task.proc = 0
    BY <1>4, TaskTyped DEF Stages
  <2>3. CASE task.op = "killUser"
    <3>1. new = [task EXCEPT !.todo = <<>>, !.at = "done"]
      BY <2>1, <2>3, PlanFacts, TodoFacts DEF Advanced
    <3> QED  BY <1>1, <1>4, <2>3, <3>1, TaskTyped DEF Task, SameTask, Stages, Begun, PostKill
  <2>4. CASE task.op = "restartUserWithoutCache"
    <3>1. new = [task EXCEPT !.todo = <<"rm", "start">>, !.at = "idle"]
      BY <2>1, <2>4, PlanFacts, TodoFacts DEF Advanced
    <3>2. new \in Task
      BY <3>1, TodoTyped, TaskTyped DEF Task
    <3> QED  BY <1>1, <1>4, <2>2, <2>4, <3>1, <3>2, PlanFacts, TodoFacts DEF SameTask, Stages, Begun, PostKill
  <2>5. CASE task.op \in {"restartUser", "timer"}
    <3>0. task.todo = <<"kill", "start">>
      BY <2>1, <2>5, PlanFacts
    <3>1. new = [task EXCEPT !.todo = <<"start">>, !.at = "idle"]
      BY <3>0, TodoFacts DEF Advanced
    <3>2. new \in Task
      BY <3>1, TodoTyped, TaskTyped DEF Task
    <3> QED  BY <1>1, <1>4, <2>2, <2>5, <3>1, <3>2, PlanFacts, TodoFacts DEF SameTask, Stages, Begun, PostKill
  <2> QED  BY <2>1, <2>3, <2>4, <2>5
<1>5. CASE task.at = "idle" /\ Head(task.todo) = "send"
  <2>1. task.op = "sendSocket" /\ task.todo = <<"send">>
    BY <1>5, <1>1, PlanFacts, TodoFacts DEF Stages, SharedOps
  <2>2. new = [task EXCEPT !.todo = <<>>, !.at = "done"]
    BY <2>1, TodoFacts DEF Advanced
  <2> QED  BY <1>1, <1>5, <2>1, <2>2, TaskTyped DEF Task, SameTask, Stages, Begun, PostKill
<1>6. \/ task.at = "running" \/ task.at = "rm" \/ task.at = "killing"
      \/ task.at = "idle" /\ Head(task.todo) = "kill"
      \/ task.at = "idle" /\ Head(task.todo) = "send"
  OBVIOUS
<1> QED  BY <1>2, <1>3, <1>4, <1>5, <1>6, Zenon
-----------------------------------------------------------------------------
(* The lock                                                                *)

\* A task that has the lock of its user.
Active(t) == Locked(t) /\ tasks[t].at # "done" /\ (Begun(tasks[t]) \/ Granted(t))

LEMMA OnlyOne ==
  ASSUME TypeOK, Locks, NEW s \in TaskIds, NEW t \in TaskIds, Active(s), Active(t),
         tasks[s].user = tasks[t].user
  PROVE  s = t
<1>1. ASSUME NEW a \in TaskIds, NEW b \in TaskIds, Active(a), Active(b),
             tasks[a].user = tasks[b].user, a < b
      PROVE  FALSE
  <2>1. Locked(a) /\ Locked(b) /\ tasks[a].at # "done"
    BY <1>1 DEF Active
  <2>2. ~Begun(tasks[b])
    BY <1>1, <2>1 DEF Locks, OneBegun
  <2>3. Granted(b)
    BY <1>1, <2>2 DEF Active
  <2>4. /\ a <= tasks[b].prev /\ tasks[b].prev \in TaskIds
        /\ Locked(tasks[b].prev) /\ tasks[tasks[b].prev].user = tasks[b].user
    BY <1>1, <2>1 DEF Locks, Places
  <2>5. tasks[tasks[b].prev].at = "done"
    BY <2>3, <2>4 DEF Granted, TaskIds
  <2>6. a # tasks[b].prev
    BY <2>1, <2>5
  <2>7. a < tasks[b].prev
    BY <2>4, <2>6 DEF TaskIds
  <2>8. Begun(tasks[tasks[b].prev])
    BY <2>5 DEF Begun
  <2> QED  BY <1>1, <2>1, <2>4, <2>7, <2>8 DEF Locks, OneBegun
<1> QED  BY <1>1 DEF TaskIds

LEMMA StartingAt ==
  ASSUME TypeOK, Awaited, NEW t \in TaskIds, Starting(t)
  PROVE  tasks[t].at \in {"waiting", "token", "running"}
<1>1. ASSUME NEW c \in ChildIds, NEW i \in 1..Len(children[c].calls),
             children[c].calls[i].op = "run", children[c].calls[i].task = t
      PROVE  tasks[t].at = "running"
  <2>1. Queue(c, "calls") = children[c].calls
    BY DEF Queue
  <2>2. Expected(c, children[c].calls[i])
    BY <2>1 DEF Awaited, Kinds
  <2> QED  BY <1>1, <2>2 DEF Expected
<1> QED  BY <1>1 DEF Starting, Asked

LEMMA LiveAt ==
  ASSUME TypeOK, Awaited, Mapped, NEW t \in TaskIds, Live(t)
  PROVE  tasks[t].at \in {"waiting", "token", "running", "done"}
BY StartingAt DEF Live, Runs, Mapped

LEMMA StartingActive ==
  ASSUME TypeOK, Awaited, NEW t \in TaskIds, Starting(t), Locked(t)
  PROVE  Active(t)
BY StartingAt DEF Active, Begun

\* Next to a task that has the lock nothing of its user is about to start.
LEMMA Alone ==
  ASSUME TypeOK, Locks, Awaited, BootOver, NEW t \in TaskIds, Active(t),
         NEW s \in TaskIds, s # t, tasks[s].user = tasks[t].user
  PROVE  ~Starting(s)
<1>1. CASE Locked(s)
  BY <1>1, OnlyOne, StartingActive
<1>2. CASE ~Locked(s)
  BY <1>2 DEF BootOver, Active
<1> QED  BY <1>1, <1>2

\* The steps that take tasks further and leave the locks alone.
TasksKeep ==
  /\ tasks' \in Seq(Task) /\ Len(tasks') = Len(tasks) /\ TaskIds' = TaskIds
  /\ lockTail' = lockTail
  /\ \A t \in TaskIds :
       /\ tasks'[t] \in Task
       /\ SameTask(tasks'[t], tasks[t])
       /\ Begun(tasks'[t]) => (Begun(tasks[t]) \/ Granted(t))

LEMMA StepKeeps ==
  ASSUME TypeOK, Locks, NEW t \in TaskIds, NEW new, Step(t, new), SameTask(new, tasks[t]),
         Begun(tasks[t]) \/ Granted(t)
  PROVE  /\ TasksKeep /\ up' \in BOOLEAN
         /\ \A s \in TaskIds : tasks'[s] = IF s = t THEN new ELSE tasks[s]
<1>1. tasks \in Seq(Task) /\ new \in Task
  BY DEF TypeOK, SameTask
<1>2. tasks' = [tasks EXCEPT ![t] = new]
  BY DEF Step
<1>3. /\ tasks' \in Seq(Task) /\ Len(tasks') = Len(tasks)
      /\ \A s \in TaskIds : tasks'[s] = IF s = t THEN new ELSE tasks[s]
  BY <1>1, <1>2, SeqUpdate DEF TaskIds
<1>4. TaskIds' = TaskIds
  BY <1>3 DEF TaskIds
<1>5. new.op # "deleteUser"
  BY DEF SameTask, Stages, SharedOps
<1>6. lockTail' = lockTail /\ up' \in BOOLEAN
  BY <1>5 DEF Step
<1>7. ASSUME NEW s \in TaskIds
      PROVE  /\ tasks'[s] \in Task /\ SameTask(tasks'[s], tasks[s])
             /\ Begun(tasks'[s]) => (Begun(tasks[s]) \/ Granted(s))
  <2>1. tasks[s] \in Task /\ Stages(tasks[s])
    BY <1>1, SeqElement DEF Locks, TaskIds
  <2>2. CASE s = t
    BY <1>1, <1>3, <2>2
  <2>3. CASE s # t
    BY <1>3, <2>1, <2>3 DEF SameTask
  <2> QED  BY <2>2, <2>3
<1> QED  BY <1>3, <1>4, <1>6, <1>7 DEF TasksKeep

LEMMA LocksKeep ==
  ASSUME TypeOK, Locks, TasksKeep
  PROVE  Locks'
<1>1. /\ TaskIds' = TaskIds /\ lockTail' = lockTail
      /\ \A t \in TaskIds :
           /\ Stages(tasks'[t])
           /\ tasks'[t].op = tasks[t].op /\ tasks'[t].user = tasks[t].user
           /\ tasks'[t].prev = tasks[t].prev
           /\ tasks[t].at = "done" => tasks'[t].at = "done"
           /\ Begun(tasks'[t]) => (Begun(tasks[t]) \/ Granted(t))
  BY DEF TasksKeep, SameTask
<1>2. \A t \in TaskIds : Locked(t)' = Locked(t) /\ (tasks'[t].op = "boot" => tasks'[t].at # "idle")
  BY <1>1 DEF Locked, Stages
<1>3. Places'
  <2>1. \A t \in TaskIds : ~Locked(t)' => tasks'[t].user = t /\ tasks'[t].at # "idle"
    BY <1>1, <1>2 DEF Locks, Places, Locked
  <2>2. \A t \in TaskIds : Locked(t)' => tasks'[t].prev < t
    BY <1>1, <1>2 DEF Locks, Places
  <2>3. \A s, t \in TaskIds :
          Locked(s)' /\ Locked(t)' /\ s < t /\ tasks'[s].user = tasks'[t].user =>
            /\ s <= tasks'[t].prev /\ tasks'[t].prev \in TaskIds
            /\ Locked(tasks[t].prev)' /\ tasks'[tasks[t].prev].user = tasks'[t].user
    BY <1>1, <1>2 DEF Locks, Places
  <2>4. \A t \in TaskIds : Locked(t)' =>
          /\ t <= lockTail[tasks'[t].user] /\ lockTail[tasks'[t].user] \in TaskIds
          /\ Locked(lockTail[tasks[t].user])' /\ tasks'[lockTail[tasks'[t].user]].user = tasks'[t].user
    BY <1>1, <1>2 DEF Locks, Places
  <2>5. \A u \in Users : lockTail[u] # 0 => lockTail[u] \in TaskIds
    BY SeqElement DEF TypeOK, TaskIds
  <2>6. \A u \in Users : lockTail[u] # 0 => tasks'[lockTail[u]].op # "boot" /\ tasks'[lockTail[u]].user = u
    BY <1>1, <2>5 DEF Locks, Places, Locked
  <2> QED  BY <1>1, <2>1, <2>2, <2>3, <2>4, <2>6 DEF Places, Locked
<1>4. OneBegun'
  <2>1. ASSUME NEW s \in TaskIds, NEW t \in TaskIds, Locked(s), Locked(t), s < t,
               tasks[s].user = tasks[t].user, Begun(tasks'[t])
        PROVE  tasks[s].at = "done"
    <3>1. CASE Begun(tasks[t])
      BY <2>1, <3>1 DEF Locks, OneBegun
    <3>2. CASE Granted(t)
      <4>1. /\ s <= tasks[t].prev /\ tasks[t].prev \in TaskIds
            /\ Locked(tasks[t].prev) /\ tasks[tasks[t].prev].user = tasks[t].user
        BY <2>1 DEF Locks, Places
      <4>2. tasks[tasks[t].prev].at = "done"
        BY <3>2, <4>1 DEF Granted, TaskIds
      <4>3. CASE s = tasks[t].prev
        BY <4>2, <4>3
      <4>4. CASE s < tasks[t].prev
        <5>1. Begun(tasks[tasks[t].prev])
          BY <4>2 DEF Begun
        <5> QED  BY <2>1, <4>1, <4>4, <5>1 DEF Locks, OneBegun
      <4> QED  BY <4>1, <4>3, <4>4 DEF TaskIds
    <3> QED  BY <2>1, <3>1, <3>2, <1>1
  <2> QED  BY <1>1, <1>2, <2>1 DEF OneBegun
<1> QED  BY <1>1, <1>3, <1>4 DEF Locks
-----------------------------------------------------------------------------
(* Steps that leave the calls alone                                        *)

\* The steps that send no call and handle none.
ChildrenKeep ==
  /\ ChildIds \subseteq ChildIds'
  /\ \A c \in ChildIds :
       /\ children'[c].proc = children[c].proc /\ children'[c].running = children[c].running
       /\ children'[c].map = children[c].map /\ children'[c].calls = children[c].calls
       /\ children'[c].replies = children[c].replies /\ children'[c].lost = children[c].lost
  /\ \A c \in ChildIds' \ ChildIds :
       /\ children'[c].running = {} /\ children'[c].calls = <<>>
       /\ children'[c].replies = <<>> /\ children'[c].lost = <<>>

\* The steps that leave the tasks alone whose calls are under way.
WorkKept ==
  /\ TaskIds \subseteq TaskIds'
  /\ \A t \in TaskIds :
       /\ tasks'[t].user = tasks[t].user
       /\ tasks[t].at \in {"running", "killing", "done"} =>
            tasks'[t].at = tasks[t].at /\ tasks'[t].proc = tasks[t].proc

LEMMA QueuesKeep ==
  ASSUME ChildrenKeep
  PROVE  /\ \A c \in ChildIds' : \A k \in Kinds :
              Queue(c, k)' = IF c \in ChildIds THEN Queue(c, k) ELSE <<>>
         /\ \A t : (Asked(t)' <=> Asked(t)) /\ (Runs(t)' <=> Runs(t))
<1>1. \A c \in ChildIds' : \A k \in Kinds : Queue(c, k)' = IF c \in ChildIds THEN Queue(c, k) ELSE <<>>
  BY DEF ChildrenKeep, Queue, Kinds
<1>2. ASSUME NEW t
      PROVE  (Asked(t)' <=> Asked(t)) /\ (Runs(t)' <=> Runs(t))
  <2>1. Asked(t)' => Asked(t)
    BY DEF ChildrenKeep, Asked
  <2>2. Asked(t) => Asked(t)'
    BY DEF ChildrenKeep, Asked
  <2>3. Runs(t)' <=> Runs(t)
    BY DEF ChildrenKeep, Runs
  <2> QED  BY <2>1, <2>2, <2>3
<1> QED  BY <1>1, <1>2

LEMMA CallsKeep ==
  ASSUME ChildrenKeep, WorkKept, Awaited, OneCall, Mapped
  PROVE  Awaited' /\ OneCall' /\ Mapped'
<1>1. \A c \in ChildIds' : \A k \in Kinds : Queue(c, k)' = IF c \in ChildIds THEN Queue(c, k) ELSE <<>>
  BY QueuesKeep
<1>2. ASSUME NEW c \in ChildIds', NEW k \in Kinds, NEW i \in 1..Len(Queue(c, k)')
      PROVE  c \in ChildIds /\ Queue(c, k)' = Queue(c, k)
  BY <1>1, <1>2
<1>3. ASSUME NEW c \in ChildIds', NEW k \in Kinds, NEW i \in 1..Len(Queue(c, k)')
      PROVE  Expected(c, Queue(c, k)[i])'
  <2>1. c \in ChildIds /\ Queue(c, k)' = Queue(c, k) /\ Expected(c, Queue(c, k)[i])
    BY <1>2 DEF Awaited
  <2> DEFINE m == Queue(c, k)[i]
  <2>2. m' = m
    BY <2>1
  <2> HIDE DEF m
  <2>3. Expected(c, m)
    BY <2>1 DEF m
  <2>4. Expected(c, m)'
    BY <2>1, <2>2, <2>3 DEF Expected, ChildrenKeep, WorkKept
  <2> QED  BY <2>4 DEF m
<1>4. Awaited'
  BY <1>3 DEF Awaited
<1>5. OneCall'
  BY <1>1, <1>2 DEF OneCall
<1>6. Mapped'
  BY DEF Mapped, ChildrenKeep, WorkKept
<1> QED  BY <1>4, <1>5, <1>6

\* The users for whom nothing new starts.
Quiet(u) ==
  /\ ProcOf(u)' \in {0, ProcOf(u)}
  /\ \A s \in TaskIds' : tasks'[s].user = u /\ Live(s)' => s \in TaskIds /\ tasks[s].user = u /\ Live(s)

LEMMA KillsKeep ==
  ASSUME ChildrenKeep, Awaited, Killed,
         \A u : (\E t \in TaskIds : tasks[t].user = u /\ tasks[t].at = "killing") => Quiet(u)
  PROVE  Killed'
<1> SUFFICES ASSUME NEW c \in ChildIds', NEW k \in Kinds, NEW i \in 1..Len(Queue(c, k)'),
                    Queue(c, k)'[i].op = "kill"
             PROVE  KillDoes(c, k, Queue(c, k)[i])'
  BY DEF Killed
<1>1. c \in ChildIds /\ Queue(c, k)' = Queue(c, k)
  BY QueuesKeep
<1> DEFINE m == Queue(c, k)[i]
<1>2. m' = m /\ m.op = "kill"
  BY <1>1
<1>3. Expected(c, m) /\ KillDoes(c, k, m)
  BY <1>1, <1>2 DEF Awaited, Killed
<1> HIDE DEF m
<1>4. \A u : u = m.user => Quiet(u)
  BY <1>2, <1>3 DEF Expected
<1>5. KillDoes(c, k, m)'
  BY <1>1, <1>2, <1>3, <1>4 DEF KillDoes, Quiet, Stopped, ChildrenKeep
<1> QED  BY <1>5 DEF m

LEMMA BetweenKeeps ==
  ASSUME \A u : (\E t \in TaskIds' : tasks'[t].user = u /\ PostKill(tasks'[t])) =>
           Stopped(u) /\ ProcOf(u) = 0 /\ Quiet(u)
  PROVE  Between'
<1> SUFFICES ASSUME NEW t \in TaskIds', PostKill(tasks'[t])
             PROVE  (Stopped(tasks[t].user) /\ ProcOf(tasks[t].user) = 0)'
  BY DEF Between
<1> DEFINE u == tasks'[t].user
<1>1. \A v : v = u => Stopped(v) /\ ProcOf(v) = 0 /\ Quiet(v)
  OBVIOUS
<1>2. \A v : v = u => (Stopped(v) /\ ProcOf(v) = 0)'
  BY <1>1 DEF Quiet, Stopped
<1> QED  BY <1>2

\* Boot tasks only come nearer to their end, as long as no timer is set and no
\* other task begins.
LEMMA BootKeeps ==
  ASSUME TasksKeep, BootOver, \A t \in TaskIds : ~Locked(t) /\ Starting(t)' => Starting(t),
         \A b \in TaskIds : ~Locked(b) /\ Starting(b)' => timers'[tasks[b].user] = timers[tasks[b].user]
  PROVE  BootOver'
BY DEF BootOver, Locked, TasksKeep, SameTask

LEMMA KnownKeeps ==
  ASSUME TasksKeep, Known, UNCHANGED proxies, \A t \in TaskIds : Live(t)' => Live(t),
         \A t \in TaskIds : tasks'[t].proc = tasks[t].proc
  PROVE  Known'
BY DEF Known, TasksKeep, SameTask, proxies

LEMMA KeepsWork ==
  ASSUME TasksKeep, NEW t \in TaskIds, tasks[t].at \notin {"running", "killing", "done"},
         \A s \in TaskIds : s # t => tasks'[s] = tasks[s]
  PROVE  WorkKept
BY DEF TasksKeep, SameTask, WorkKept
-----------------------------------------------------------------------------
(* The steps of a task that neither send a call nor take a process         *)

LEMMA CalmKeeps ==
  ASSUME Calm, TypeOK, TasksKeep, tasks # <<>>, UNCHANGED <<phase, processes, children>>
  PROVE  Calm'
<1>1. booted
  BY DEF Calm
<1> QED  BY <1>1 DEF Calm, phase, processes, ChildIds

LEMMA WorkersKeep ==
  ASSUME Workers, UNCHANGED <<processes, children>>
  PROVE  Workers'
BY DEF Workers, processes, ChildIds

LEMMA TaskEffect ==
  ASSUME IInv, NEW t \in TaskIds, NEW new,
         Step(t, new), SameTask(new, tasks[t]), new.proc = tasks[t].proc,
         Begun(tasks[t]) \/ Granted(t),
         tasks[t].at \in {"idle", "rm", "token"}, new.at \in {"idle", "done", "rm"},
         UNCHANGED <<phase, proxies, processes, children, timers, bounds>>,
         PostKill(new) => PostKill(tasks[t]) \/ (Stopped(tasks[t].user) /\ ProcOf(tasks[t].user) = 0)
  PROVE  IInv'
<1> USE DEF IInv
<1>1. /\ TasksKeep /\ up' \in BOOLEAN
      /\ \A s \in TaskIds : tasks'[s] = IF s = t THEN new ELSE tasks[s]
  BY StepKeeps
<1>2. TypeOK'
  BY <1>1 DEF TypeOK, TasksKeep, phase, proxies, processes, bounds, ChildIds
<1>3. ChildrenKeep /\ WorkKept
  <2>1. ChildrenKeep
    BY DEF ChildrenKeep, ChildIds
  <2>2. WorkKept
    BY <1>1, KeepsWork
  <2> QED  BY <2>1, <2>2
<1>4. Awaited' /\ OneCall' /\ Mapped' /\ \A s : (Asked(s)' <=> Asked(s)) /\ (Runs(s)' <=> Runs(s))
  BY <1>3, CallsKeep, QueuesKeep
<1>5. \A s \in TaskIds : (Starting(s)' => Starting(s)) /\ (Live(s)' => Live(s))
  <2>1. ASSUME NEW s \in TaskIds, Starting(s)'
        PROVE  Starting(s)
    BY <1>1, <1>4, <2>1 DEF Starting, processes
  <2> QED  BY <2>1, <1>4 DEF Live
<1>6. \A s \in TaskIds : tasks'[s].proc = tasks[s].proc /\ tasks'[s].user = tasks[s].user
  BY <1>1 DEF SameTask
<1>7. \A u \in Users : Quiet(u)
  <2>1. TaskIds' = TaskIds /\ engines' = engines
    BY <1>1 DEF TasksKeep, proxies
  <2>2. \A u \in Users : ProcOf(u)' = ProcOf(u)
    BY <1>6, <2>1 DEF ProcOf, Known
  <2> QED  BY <1>5, <1>6, <2>1, <2>2 DEF Quiet
<1>8. \A s \in TaskIds : tasks[s].user \in Users
  BY SeqElement, TaskTyped DEF TypeOK, TaskIds
<1>9. Killed'
  BY <1>3, <1>7, <1>8, KillsKeep
<1>10. Between'
  <2>1. ASSUME NEW u, NEW s \in TaskIds', tasks'[s].user = u, PostKill(tasks'[s])
        PROVE  Stopped(u) /\ ProcOf(u) = 0 /\ Quiet(u)
    <3>1. s \in TaskIds /\ tasks[s].user = u /\ u \in Users
      BY <1>1, <1>6, <1>8, <2>1 DEF TasksKeep
    <3>2. PostKill(tasks[s]) \/ (Stopped(tasks[s].user) /\ ProcOf(tasks[s].user) = 0)
      BY <1>1, <2>1, <3>1
    <3> QED  BY <1>7, <3>1, <3>2 DEF Between
  <2> QED  BY <2>1, BetweenKeeps
<1>11. Known' /\ BootOver'
  BY <1>1, <1>5, <1>6, KnownKeeps, BootKeeps
<1>12. Calm' /\ Workers' /\ Locks'
  <2>1. tasks # <<>>
    BY DEF TaskIds
  <2> QED  BY <1>1, <2>1, CalmKeeps, WorkersKeep, LocksKeep
<1> QED  BY <1>2, <1>4, <1>9, <1>10, <1>11, <1>12

\* What is known about a task that enters a stage.
LEMMA StageFacts ==
  ASSUME IInv, NEW t \in TaskIds, NEW stage, AtStage(t, stage)
  PROVE  /\ tasks[t] \in Task /\ Stages(tasks[t]) /\ tasks[t].user \in Users
         /\ tasks[t].at = "idle" /\ Head(tasks[t].todo) = stage /\ tasks[t].proc = 0
         /\ Locked(t) /\ Granted(t) /\ Active(t)
         /\ ~Starting(t) /\ ~Live(t)
<1> USE DEF IInv
<1>1. tasks[t] \in Task /\ Stages(tasks[t]) /\ tasks[t].user \in Users
  BY SeqElement, TaskTyped DEF TypeOK, TaskIds, Locks
<1>2. tasks[t].at = "idle" /\ Head(tasks[t].todo) = stage /\ Granted(t)
  BY DEF AtStage
<1>3. Locked(t) /\ tasks[t].proc = 0
  BY <1>1, <1>2, TaskTyped DEF Stages, Locked, Locks, Places
<1>4. Active(t)
  BY <1>2, <1>3 DEF Active
<1>5. ~Starting(t) /\ ~Live(t)
  BY <1>2, StartingAt, LiveAt DEF Live
<1> QED  BY <1>1, <1>2, <1>3, <1>4, <1>5

LEMMA SendStageKeeps ==
  ASSUME IInv, NEW t \in TaskIds, SendStage(t)
  PROVE  IInv'
<1>1. PICK new \in {Failed(tasks[t]), Advanced(tasks[t])} :
        Step(t, new) /\ UNCHANGED <<phase, proxies, processes, children, timers, bounds>>
  BY DEF SendStage
<1>2. AtStage(t, "send")
  BY DEF SendStage
<1>3. /\ tasks[t] \in Task /\ Stages(tasks[t]) /\ tasks[t].at = "idle"
      /\ Head(tasks[t].todo) = "send" /\ Granted(t)
  BY <1>2, StageFacts
<1>4. /\ SameTask(new, tasks[t]) /\ new.proc = tasks[t].proc /\ new.at \in {"idle", "done"}
      /\ PostKill(new) => PostKill(tasks[t])
  BY <1>1, <1>3, FailedFacts, AdvancedFacts DEF PostKill
<1> QED  BY <1>1, <1>3, <1>4, TaskEffect

LEMMA RmStageKeeps ==
  ASSUME IInv, NEW t \in TaskIds, RmStage(t)
  PROVE  IInv'
<1>1. AtStage(t, "rm")
  BY DEF RmStage
<1>2. /\ tasks[t] \in Task /\ Stages(tasks[t]) /\ tasks[t].at = "idle" /\ tasks[t].proc = 0
      /\ Head(tasks[t].todo) = "rm" /\ Granted(t)
  BY <1>1, StageFacts
<1>3. tasks[t].op = "restartUserWithoutCache" /\ tasks[t].todo = <<"rm", "start">>
  BY <1>2, PlanFacts, TodoFacts DEF Stages, SharedOps
<1>4. PostKill(tasks[t])
  BY <1>2, <1>3, PlanFacts, TodoFacts DEF PostKill
<1>5. ProcOf(tasks[t].user) = 0
  BY <1>4 DEF IInv, Between
<1>6. PICK new \in {Failed(tasks[t]), [tasks[t] EXCEPT !.at = "rm"]} :
        Step(t, new) /\ UNCHANGED <<phase, proxies, processes, children, timers, bounds>>
  BY <1>5 DEF RmStage, KillEngine, processes, phase
<1>7. SameTask([tasks[t] EXCEPT !.at = "rm"], tasks[t])
  BY <1>2, <1>3, TaskTyped DEF SameTask, Task, Stages
<1>8. SameTask(new, tasks[t]) /\ new.proc = tasks[t].proc /\ new.at \in {"rm", "done"}
  BY <1>2, <1>6, <1>7, FailedFacts DEF Task
<1> QED  BY <1>2, <1>4, <1>6, <1>8, TaskEffect

LEMMA RmDoneKeeps ==
  ASSUME IInv, NEW t \in TaskIds, RmDone(t)
  PROVE  IInv'
<1>1. /\ tasks[t].at = "rm" /\ Step(t, Advanced(tasks[t]))
      /\ UNCHANGED <<phase, proxies, processes, children, timers, bounds>>
  BY DEF RmDone
<1>2. tasks[t] \in Task /\ Stages(tasks[t])
  BY SeqElement DEF IInv, TypeOK, Locks, TaskIds
<1>3. PostKill(tasks[t]) /\ Begun(tasks[t])
  BY <1>1, <1>2 DEF PostKill, Begun, Stages
<1>4. SameTask(Advanced(tasks[t]), tasks[t]) /\ Advanced(tasks[t]).proc = tasks[t].proc
      /\ Advanced(tasks[t]).at \in {"idle", "done"}
  BY <1>1, <1>2, AdvancedFacts
<1> QED  BY <1>1, <1>3, <1>4, TaskEffect

\* A start that finds that the row of the user is gone.
LEMMA StartFails ==
  ASSUME IInv, NEW t \in TaskIds, AtStage(t, "start"), Step(t, Failed(tasks[t])),
         UNCHANGED <<phase, proxies, processes, children, timers, bounds>>
  PROVE  IInv'
<1>1. tasks[t] \in Task /\ Stages(tasks[t]) /\ tasks[t].at = "idle" /\ Granted(t)
  BY StageFacts
<1>2. /\ SameTask(Failed(tasks[t]), tasks[t]) /\ Failed(tasks[t]).proc = tasks[t].proc
      /\ Failed(tasks[t]).at = "done"
  BY <1>1, FailedFacts
<1> QED  BY <1>1, <1>2, TaskEffect DEF PostKill

\* A call to a worker that is gone: its socket is closed.
LEMMA TokenFails ==
  ASSUME IInv, NEW t \in TaskIds, CallRunEngine(t), procs[tasks[t].proc].sock = 0
  PROVE  IInv'
<1>1. /\ tasks[t].at = "token" /\ Step(t, Failed(tasks[t]))
      /\ UNCHANGED <<phase, proxies, processes, children, timers, bounds>>
  BY DEF CallRunEngine
<1>2. tasks[t] \in Task /\ Stages(tasks[t]) /\ Begun(tasks[t])
  BY <1>1, SeqElement DEF IInv, TypeOK, Locks, TaskIds, Begun
<1>3. /\ SameTask(Failed(tasks[t]), tasks[t]) /\ Failed(tasks[t]).proc = tasks[t].proc
      /\ Failed(tasks[t]).at = "done"
  BY <1>2, FailedFacts
<1> QED  BY <1>1, <1>2, <1>3, TaskEffect DEF PostKill

\* A kill that finds no engine: nothing of the user is running or starting.
LEMMA NothingToKill ==
  ASSUME IInv, NEW t \in TaskIds, AtStage(t, "kill"), ProcOf(tasks[t].user) = 0
  PROVE  Stopped(tasks[t].user)
<1>1. /\ Active(t) /\ ~Live(t) /\ tasks[t].user \in Users
  BY StageFacts
<1> SUFFICES ASSUME NEW s \in TaskIds, tasks[s].user = tasks[t].user, Live(s)
             PROVE  FALSE
  BY DEF Stopped
<1>2. ~Starting(s)
  BY <1>1, Alone DEF IInv
<1>3. PICK c \in ChildIds : s \in children[c].running
  BY <1>2 DEF Live, Runs
<1>4. tasks[s].proc = children[c].proc /\ children[c].proc \in Shared
  BY <1>3 DEF IInv, Mapped, Workers
<1>5. engines[tasks[s].user] = s
  BY DEF IInv, Known
<1> QED  BY <1>4, <1>5 DEF ProcOf, Shared, TaskIds

LEMMA KillDoesNothing ==
  ASSUME IInv, NEW t \in TaskIds, KillStage(t), ProcOf(tasks[t].user) = 0
  PROVE  IInv'
<1>1. AtStage(t, "kill")
  BY DEF KillStage
<1>2. Step(t, Advanced(tasks[t])) /\ UNCHANGED <<phase, proxies, processes, children, timers, bounds>>
  BY DEF KillStage, KillEngine, processes
<1>3. /\ tasks[t] \in Task /\ Stages(tasks[t]) /\ tasks[t].at = "idle"
      /\ Head(tasks[t].todo) = "kill" /\ Granted(t)
  BY <1>1, StageFacts
<1>4. SameTask(Advanced(tasks[t]), tasks[t]) /\ Advanced(tasks[t]).proc = tasks[t].proc
      /\ Advanced(tasks[t]).at \in {"idle", "done"}
  BY <1>3, AdvancedFacts
<1>5. Stopped(tasks[t].user) /\ ProcOf(tasks[t].user) = 0
  BY <1>1, NothingToKill
<1> QED  BY <1>2, <1>3, <1>4, <1>5, TaskEffect

LEMMA KillFails ==
  ASSUME IInv, NEW t \in TaskIds, KillStage(t), ProcOf(tasks[t].user) # 0,
         IsShared(ProcOf(tasks[t].user)), procs[ProcOf(tasks[t].user)].sock = 0
  PROVE  IInv'
<1>1. AtStage(t, "kill")
  BY DEF KillStage
<1>2. Step(t, Failed(tasks[t])) /\ UNCHANGED <<phase, proxies, processes, children, timers, bounds>>
  BY DEF KillStage, KillEngine, processes
<1>3. tasks[t] \in Task /\ Stages(tasks[t]) /\ tasks[t].at = "idle" /\ Granted(t)
  BY <1>1, StageFacts
<1>4. /\ SameTask(Failed(tasks[t]), tasks[t]) /\ Failed(tasks[t]).proc = tasks[t].proc
      /\ Failed(tasks[t]).at = "done"
  BY <1>3, FailedFacts
<1> QED  BY <1>2, <1>3, <1>4, TaskEffect DEF PostKill
-----------------------------------------------------------------------------
(* A task takes a shared process                                           *)

\* What a start may rely on: the kill before it left nothing of the user.
LEMMA StartFacts ==
  ASSUME IInv, NEW t \in TaskIds, AtStage(t, "start")
  PROVE  /\ PostKill(tasks[t]) /\ tasks[t].todo = <<"start">>
         /\ Stopped(tasks[t].user) /\ ProcOf(tasks[t].user) = 0
<1>1. /\ tasks[t] \in Task /\ Stages(tasks[t]) /\ tasks[t].at = "idle"
      /\ Head(tasks[t].todo) = "start" /\ Locked(t)
  BY StageFacts
<1>2. tasks[t].op \in {"restartUser", "timer", "restartUserWithoutCache"} /\ tasks[t].todo = <<"start">>
  BY <1>1, PlanFacts, TodoFacts DEF Stages, SharedOps, Locked
<1>3. PostKill(tasks[t])
  BY <1>1, <1>2, PlanFacts, TodoFacts DEF PostKill
<1> QED  BY <1>2, <1>3 DEF IInv, Between

\* The record of a task that takes process p.
LEMMA RunTaskFacts ==
  ASSUME TypeOK, NEW task \in Task, Stages(task), task.todo = <<"start">>, task.proc = 0,
         task.at = "idle", NEW p \in Shared
  PROVE  /\ SameTask(RunTask(task, p), task) /\ RunTask(task, p).at \in {"token", "waiting", "done"}
         /\ RunTask(task, p).proc = IF procs[p].starting = "none" THEN p ELSE 0
<1>1. procs[p] \in Process /\ p \in 0..(NProcs + MaxTasks)
  BY ProcAssumption, EngineBoundAssumption DEF TypeOK, Shared
<1>2. procs[p].sock \in 0..MaxChildren
  BY <1>1 DEF Process
<1> DEFINE c == procs[p].sock
<1> HIDE DEF c
<1>3. CASE procs[p].starting = "none"
  <2>1. RunTask(task, p) = [task EXCEPT !.at = "token", !.target = p, !.proc = p]
    BY <1>3 DEF RunTask
  <2>2. RunTask(task, p) \in Task
    BY <1>1, <2>1, TaskTyped DEF Task
  <2>3. /\ RunTask(task, p).op = task.op /\ RunTask(task, p).user = task.user
        /\ RunTask(task, p).prev = task.prev /\ RunTask(task, p).todo = task.todo
        /\ RunTask(task, p).at = "token" /\ RunTask(task, p).proc = p
    BY <2>1 DEF Task
  <2> QED  BY <1>3, <2>2, <2>3 DEF SameTask, Stages, Shared
<1>4. CASE procs[p].starting \notin {"none", "failed"}
  <2>1. RunTask(task, p) = [task EXCEPT !.at = "waiting", !.target = p, !.child = c]
    BY <1>4 DEF RunTask, c
  <2>2. RunTask(task, p) \in Task
    BY <1>1, <1>2, <2>1, TaskTyped DEF Task, c
  <2>3. /\ RunTask(task, p).op = task.op /\ RunTask(task, p).user = task.user
        /\ RunTask(task, p).prev = task.prev /\ RunTask(task, p).todo = task.todo
        /\ RunTask(task, p).at = "waiting" /\ RunTask(task, p).proc = 0
    BY <2>1 DEF Task
  <2> QED  BY <1>4, <2>2, <2>3 DEF SameTask, Stages
<1>5. CASE procs[p].starting = "failed"
  <2> DEFINE gone == Failed(task)
  <2>1. RunTask(task, p) = [gone EXCEPT !.target = p]
    BY <1>5 DEF RunTask
  <2>2. SameTask(gone, task) /\ gone.at = "done" /\ gone.proc = 0
    BY FailedFacts
  <2> HIDE DEF gone
  <2>3. gone \in Task
    BY <2>2 DEF SameTask
  <2>4. RunTask(task, p) \in Task
    BY <1>1, <2>1, <2>3, TaskTyped DEF Task
  <2>5. /\ RunTask(task, p).op = task.op /\ RunTask(task, p).user = task.user
        /\ RunTask(task, p).prev = task.prev /\ RunTask(task, p).todo = gone.todo
        /\ RunTask(task, p).at = "done" /\ RunTask(task, p).proc = 0
    BY <2>1, <2>2, <2>3 DEF Task, SameTask
  <2> QED  BY <1>5, <2>2, <2>4, <2>5 DEF SameTask, Stages
<1> QED  BY <1>3, <1>4, <1>5

LEMMA NextProcessTyped ==
  ASSUME NEW n \in Nat
  PROVE  (n % NProcs) + 1 \in Shared
<1>1. n % NProcs \in 0..(NProcs - 1)
  BY ProcAssumption
<1> QED  BY <1>1, ProcAssumption DEF Shared

LEMMA RunSharedKeeps ==
  ASSUME IInv, NEW t \in TaskIds, AtStage(t, "start"), RunShared(t, tasks[t].user),
         UNCHANGED <<phase, timers, bounds>>
  PROVE  IInv'
<1> DEFINE p == nextProcess
           u == tasks[t].user
           new == RunTask(tasks[t], p)
<1>1. /\ tasks[t] \in Task /\ Stages(tasks[t]) /\ u \in Users /\ tasks[t].at = "idle"
      /\ tasks[t].proc = 0 /\ Locked(t) /\ Granted(t) /\ Active(t)
  BY StageFacts
<1>2. tasks[t].todo = <<"start">> /\ Stopped(u)
  BY StartFacts
<1>3. p \in Shared /\ p # 0
  BY DEF IInv, TypeOK, Shared
<1>4. /\ SameTask(new, tasks[t]) /\ new.at \in {"token", "waiting", "done"}
      /\ new.proc = IF procs[p].starting = "none" THEN p ELSE 0
  BY <1>1, <1>2, <1>3, RunTaskFacts DEF IInv
<1>5. /\ TasksKeep /\ up' \in BOOLEAN
      /\ \A s \in TaskIds : tasks'[s] = IF s = t THEN new ELSE tasks[s]
  BY <1>1, <1>4, StepKeeps DEF IInv, RunShared
<1>6. /\ engines' = [engines EXCEPT ![u] = t] /\ UNCHANGED <<procs, registered, children>>
      /\ listening' = (IF new.proc # 0 THEN listening \cup {t} ELSE listening)
  BY <1>3, <1>4 DEF RunShared
<1> HIDE DEF new
<1>7. TypeOK'
  <2>1. nextProcess' \in Shared
    BY <1>3, NextProcessTyped DEF RunShared, Shared
  <2>2. engines' \in [Users -> 0..Len(tasks)]
    <3>1. t \in 0..Len(tasks)
      BY SeqElement DEF IInv, TypeOK, TaskIds
    <3> QED  BY <1>6, <3>1 DEF IInv, TypeOK
  <2>3. listening' \subseteq TaskIds
    BY <1>6 DEF IInv, TypeOK
  <2> QED  BY <1>5, <1>6, <2>1, <2>2, <2>3 DEF IInv, TypeOK, TasksKeep, phase, bounds, ChildIds
<1>8. ChildrenKeep /\ WorkKept
  <2>1. ChildrenKeep
    BY <1>6 DEF ChildrenKeep, ChildIds
  <2> QED  BY <1>1, <1>5, <2>1, KeepsWork
<1>9. Awaited' /\ OneCall' /\ Mapped' /\ \A s : (Asked(s)' <=> Asked(s)) /\ (Runs(s)' <=> Runs(s))
  BY <1>8, CallsKeep, QueuesKeep DEF IInv
<1>10. \A s \in TaskIds : s # t => (Starting(s)' <=> Starting(s)) /\ (Live(s)' <=> Live(s))
  BY <1>5, <1>6, <1>9 DEF Starting, Live
<1>11. TaskIds' = TaskIds /\ \A s \in TaskIds : tasks'[s].user = tasks[s].user /\ Locked(s)' = Locked(s)
  BY <1>4, <1>5 DEF SameTask, TasksKeep, Locked
<1>12. \A v \in Users : engines'[v] = IF v = u THEN t ELSE engines[v]
  BY <1>6 DEF IInv, TypeOK
<1>13. \A v \in Users : v # u => Quiet(v)
  <2>1. ASSUME NEW v \in Users, v # u
        PROVE  ProcOf(v)' = ProcOf(v)
    <3>1. engines'[v] = engines[v]
      BY <1>12, <2>1
    <3>2. engines[v] # 0 => engines[v] \in TaskIds /\ engines[v] # t
      BY <2>1 DEF IInv, Known
    <3>3. engines[v] # 0 => tasks'[engines[v]] = tasks[engines[v]]
      BY <1>5, <3>2
    <3> QED  BY <3>1, <3>3 DEF ProcOf
  <2> QED  BY <1>10, <1>11, <2>1 DEF Quiet
<1>14. \A s \in TaskIds : Active(s) /\ tasks[s].user = u => s = t
  BY <1>1, OnlyOne DEF IInv
<1>15. Killed'
  <2>1. ASSUME NEW s \in TaskIds, tasks[s].at = "killing"
        PROVE  tasks[s].user \in Users /\ tasks[s].user # u
    <3>1. tasks[s].user \in Users
      BY SeqElement, TaskTyped DEF IInv, TypeOK, TaskIds
    <3>2. Active(s)
      BY <2>1 DEF Active, IInv, Locks, Stages, Locked, Begun
    <3> QED  BY <1>1, <1>14, <2>1, <3>1, <3>2
  <2> QED  BY <1>8, <1>13, <2>1, KillsKeep DEF IInv
<1>16. Between'
  <2>1. ASSUME NEW v, NEW s \in TaskIds', tasks'[s].user = v, PostKill(tasks'[s])
        PROVE  Stopped(v) /\ ProcOf(v) = 0 /\ Quiet(v)
    <3>1. s \in TaskIds /\ s # t /\ tasks'[s] = tasks[s]
      BY <1>4, <1>5, <1>11, <2>1 DEF PostKill
    <3>2. tasks[s].user \in Users
      BY <3>1, SeqElement, TaskTyped DEF IInv, TypeOK, TaskIds
    <3>3. Active(s)
      BY <2>1, <3>1 DEF Active, PostKill, Locked, Begun
    <3>4. v # u
      BY <1>14, <2>1, <3>1, <3>3
    <3> QED  BY <1>13, <2>1, <3>1, <3>2, <3>4 DEF IInv, Between
  <2> QED  BY <2>1, BetweenKeeps
<1>17. Known'
  <2>1. ASSUME NEW s \in TaskIds, Live(s)'
        PROVE  engines'[tasks'[s].user] = s
    <3>1. tasks[s].user \in Users
      BY SeqElement, TaskTyped DEF IInv, TypeOK, TaskIds
    <3>2. s # t => tasks[s].user # u /\ engines[tasks[s].user] = s
      BY <1>2, <1>10, <2>1 DEF Stopped, IInv, Known
    <3> QED  BY <1>11, <1>12, <3>1, <3>2
  <2>2. ASSUME NEW v \in Users, engines'[v] # 0
        PROVE  /\ engines'[v] \in TaskIds /\ tasks'[engines'[v]].user = v
               /\ tasks'[engines'[v]].proc # 0 => engines'[v] \in listening'
    <3>1. CASE v = u
      BY <1>5, <1>6, <1>11, <1>12, <3>1
    <3>2. CASE v # u
      <4>1. /\ engines'[v] = engines[v] /\ engines[v] \in TaskIds /\ tasks[engines[v]].user = v
            /\ tasks[engines[v]].proc # 0 => engines[v] \in listening
        BY <1>12, <2>2, <3>2 DEF IInv, Known
      <4>2. engines[v] # t
        BY <3>2, <4>1
      <4> QED  BY <1>5, <1>6, <4>1, <4>2
    <3> QED  BY <3>1, <3>2
  <2>3. ASSUME NEW s \in listening'
        PROVE  s \in TaskIds /\ tasks'[s].proc # 0
    <3>1. CASE s = t
      BY <1>5, <1>6, <1>1, <2>3, <3>1 DEF IInv, Known
    <3>2. CASE s # t
      BY <1>5, <1>6, <2>3, <3>2 DEF IInv, Known
    <3> QED  BY <3>1, <3>2
  <2> QED  BY <1>11, <2>1, <2>2, <2>3 DEF Known
<1>18. BootOver'
  <2>1. \A b \in TaskIds : ~Locked(b) /\ Starting(b)' => Starting(b)
    BY <1>1, <1>10
  <2> QED  BY <1>5, <2>1, BootKeeps DEF IInv
<1>19. Workers' /\ Locks'
  BY <1>5, <1>6, LocksKeep DEF IInv, Workers, ChildIds
<1>20. Calm'
  <2>1. booted
    BY DEF IInv, Calm, TaskIds
  <2> QED  BY <1>6, <2>1 DEF IInv, Calm, phase, ChildIds
<1> QED  BY <1>7, <1>9, <1>15, <1>16, <1>17, <1>18, <1>19, <1>20 DEF IInv
-----------------------------------------------------------------------------
(* A call is sent                                                          *)

LEMMA ChildTyped ==
  ASSUME TypeOK, NEW c \in ChildIds
  PROVE  /\ children[c] \in Child
         /\ children[c].proc \in 1..(NProcs + MaxTasks) /\ children[c].alive \in BOOLEAN
         /\ children[c].told \in BOOLEAN /\ children[c].ready \in BOOLEAN
         /\ children[c].running \in SUBSET (1..MaxTasks)
         /\ children[c].map \in [Users -> 0..MaxTasks]
         /\ children[c].calls \in Seq(Call) /\ children[c].replies \in Seq(Call)
         /\ children[c].lost \in Seq(Call)
         /\ children[c].events \in SUBSET {"disconnect", "exit"}
<1>1. children[c] \in Child
  BY SeqElement DEF TypeOK, ChildIds
<1> QED  BY <1>1 DEF Child

\* One worker gets a new record.
LEMMA OneChild ==
  ASSUME TypeOK, NEW c \in ChildIds, NEW w \in Child, children' = [children EXCEPT ![c] = w]
  PROVE  /\ children' \in Seq(Child) /\ Len(children') = Len(children) /\ ChildIds' = ChildIds
         /\ \A d \in ChildIds : children'[d] = IF d = c THEN w ELSE children[d]
<1>1. /\ children' \in Seq(Child) /\ Len(children') = Len(children)
      /\ \A d \in ChildIds : children'[d] = IF d = c THEN w ELSE children[d]
  BY SeqUpdate DEF TypeOK, ChildIds
<1> QED  BY <1>1 DEF ChildIds

LEMMA QueueTyped ==
  ASSUME TypeOK, NEW c \in ChildIds, NEW k \in Kinds
  PROVE  Queue(c, k) \in Seq(Call) /\ \A i \in 1..Len(Queue(c, k)) : Queue(c, k)[i] \in Call
<1>1. Queue(c, k) \in Seq(Call)
  BY ChildTyped DEF Queue
<1> QED  BY <1>1, SeqElement

\* Where the call is queued.
Inbox(c) == IF children[c].alive THEN "calls" ELSE "lost"

LEMMA SentFacts ==
  ASSUME TypeOK, NEW c \in ChildIds, NEW call \in Call, children' = Sent(c, call)
  PROVE  /\ children' \in Seq(Child) /\ Len(children') = Len(children) /\ ChildIds' = ChildIds
         /\ \A d \in ChildIds :
              /\ children'[d].proc = children[d].proc /\ children'[d].alive = children[d].alive
              /\ children'[d].told = children[d].told /\ children'[d].running = children[d].running
              /\ children'[d].map = children[d].map /\ children'[d].events = children[d].events
              /\ ~children[d].alive => children'[d].calls = children[d].calls
         /\ \A d \in ChildIds, k \in Kinds :
              Queue(d, k)' = IF d = c /\ k = Inbox(c) THEN Append(Queue(d, k), call) ELSE Queue(d, k)
<1> DEFINE w == IF children[c].alive
                THEN [children[c] EXCEPT !.calls = Append(children[c].calls, call)]
                ELSE [children[c] EXCEPT !.lost = Append(children[c].lost, call)]
<1>1. children' = [children EXCEPT ![c] = w]
  BY DEF Sent
<1>2. children[c] \in Child /\ children[c].calls \in Seq(Call) /\ children[c].lost \in Seq(Call)
  BY ChildTyped
<1>3. Append(children[c].calls, call) \in Seq(Call) /\ Append(children[c].lost, call) \in Seq(Call)
  BY <1>2, SeqAppend
<1>4. w \in Child
  BY <1>2, <1>3 DEF Child
<1>5. /\ w.proc = children[c].proc /\ w.alive = children[c].alive /\ w.told = children[c].told
      /\ w.running = children[c].running /\ w.map = children[c].map /\ w.events = children[c].events
      /\ w.replies = children[c].replies
      /\ w.calls = IF children[c].alive THEN Append(children[c].calls, call) ELSE children[c].calls
      /\ w.lost = IF children[c].alive THEN children[c].lost ELSE Append(children[c].lost, call)
  BY <1>2 DEF Child
<1> HIDE DEF w
<1>6. /\ children' \in Seq(Child) /\ Len(children') = Len(children) /\ ChildIds' = ChildIds
      /\ \A d \in ChildIds : children'[d] = IF d = c THEN w ELSE children[d]
  BY <1>1, <1>4, OneChild
<1>7. \A d \in ChildIds, k \in Kinds :
        Queue(d, k)' = IF d = c /\ k = Inbox(c) THEN Append(Queue(d, k), call) ELSE Queue(d, k)
  BY <1>5, <1>6 DEF Queue, Kinds, Inbox
<1> QED  BY <1>5, <1>6, <1>7

LEMMA CallSentKeeps ==
  ASSUME IInv, NEW t \in TaskIds, NEW c \in ChildIds, NEW call \in Call, NEW new,
         call.task = t, call.user = tasks[t].user, call.waits,
         children' = Sent(c, call), Step(t, new),
         SameTask(new, tasks[t]), new.proc = tasks[t].proc,
         Begun(tasks[t]) \/ Granted(t), tasks[t].at \in {"idle", "token"},
         UNCHANGED <<phase, proxies, processes, timers, bounds>>,
         call.op = "run" => /\ tasks[t].at = "token" /\ new.at = "running"
                            /\ procs[tasks[t].proc].sock # 0 /\ tasks[t].proc = children[c].proc,
         call.op = "kill" => new.at = "killing" /\ KillDoes(c, Inbox(c), call)
  PROVE  IInv'
<1> USE DEF IInv
<1>1. /\ TasksKeep /\ up' \in BOOLEAN
      /\ \A s \in TaskIds : tasks'[s] = IF s = t THEN new ELSE tasks[s]
  BY StepKeeps
<1>2. /\ children' \in Seq(Child) /\ Len(children') = Len(children) /\ ChildIds' = ChildIds
      /\ \A d \in ChildIds :
           /\ children'[d].proc = children[d].proc /\ children'[d].alive = children[d].alive
           /\ children'[d].told = children[d].told /\ children'[d].running = children[d].running
           /\ children'[d].map = children[d].map /\ children'[d].events = children[d].events
           /\ ~children[d].alive => children'[d].calls = children[d].calls
      /\ \A d \in ChildIds, k \in Kinds :
           Queue(d, k)' = IF d = c /\ k = Inbox(c) THEN Append(Queue(d, k), call) ELSE Queue(d, k)
  BY SentFacts
<1>3. call.op \in {"run", "kill"} /\ Inbox(c) \in Kinds
  BY DEF Call, Inbox, Kinds
<1> DEFINE Sent1(d, k, i) == d = c /\ k = Inbox(c) /\ i = Len(Queue(c, Inbox(c))) + 1
<1>4. ASSUME NEW d \in ChildIds, NEW k \in Kinds, NEW i \in 1..Len(Queue(d, k)')
      PROVE  IF Sent1(d, k, i) THEN Queue(d, k)'[i] = call
             ELSE i \in 1..Len(Queue(d, k)) /\ Queue(d, k)'[i] = Queue(d, k)[i]
  <2>1. Queue(d, k) \in Seq(Call)
    BY QueueTyped
  <2>2. CASE d = c /\ k = Inbox(c)
    <3>1. Queue(d, k)' = Append(Queue(d, k), call)
      BY <1>2, <2>2
    <3>2. /\ Len(Queue(d, k)') = Len(Queue(d, k)) + 1
          /\ Queue(d, k)'[i] = IF i = Len(Queue(d, k)) + 1 THEN call ELSE Queue(d, k)[i]
      BY <2>1, <3>1, SeqAppend
    <3> QED  BY <2>1, <2>2, <3>2, SeqElement
  <2>3. CASE ~(d = c /\ k = Inbox(c))
    BY <1>2, <2>3
  <2> QED  BY <2>2, <2>3
<1>5. ASSUME NEW d \in ChildIds, NEW k \in Kinds, NEW i \in 1..Len(Queue(d, k))
      PROVE  Queue(d, k)[i].task # t
  <2>1. Queue(d, k)[i].op \in {"run", "kill"}
    BY QueueTyped DEF Call
  <2>2. Expected(d, Queue(d, k)[i])
    BY DEF Awaited
  <2> QED  BY <2>1, <2>2 DEF Expected
<1>6. WorkKept
  BY <1>1, KeepsWork
<1>7. Awaited'
  <2>1. ASSUME NEW d \in ChildIds, NEW k \in Kinds, NEW i \in 1..Len(Queue(d, k)')
        PROVE  Expected(d, Queue(d, k)[i])'
    <3>1. CASE Sent1(d, k, i)
      <4>1. Queue(d, k)'[i] = call /\ d = c
        BY <1>4, <3>1
      <4>2. Expected(c, call)'
        BY <1>1, <1>2 DEF Expected, TasksKeep, SameTask
      <4> QED  BY <4>1, <4>2 DEF Expected
    <3>2. CASE ~Sent1(d, k, i)
      <4> DEFINE m == Queue(d, k)[i]
      <4>1. m' = m /\ Expected(d, m)
        BY <1>4, <3>2 DEF Awaited
      <4> HIDE DEF m
      <4>2. Expected(d, m)'
        BY <1>2, <1>6, <4>1 DEF Expected, WorkKept
      <4> QED  BY <4>2 DEF m
    <3> QED  BY <3>1, <3>2
  <2> QED  BY <1>2, <2>1 DEF Awaited
<1>8. OneCall'
  <2>1. ASSUME NEW d \in ChildIds, NEW e \in ChildIds, NEW k \in Kinds, NEW l \in Kinds,
               NEW i \in 1..Len(Queue(d, k)'), NEW j \in 1..Len(Queue(e, l)'),
               Queue(d, k)'[i].task = Queue(e, l)'[j].task
        PROVE  d = e /\ k = l /\ i = j
    <3>1. CASE Sent1(d, k, i) /\ Sent1(e, l, j)
      BY <3>1
    <3>2. CASE Sent1(d, k, i) /\ ~Sent1(e, l, j)
      BY <1>4, <1>5, <2>1, <3>2
    <3>3. CASE ~Sent1(d, k, i) /\ Sent1(e, l, j)
      BY <1>4, <1>5, <2>1, <3>3
    <3>4. CASE ~Sent1(d, k, i) /\ ~Sent1(e, l, j)
      <4>1. /\ i \in 1..Len(Queue(d, k)) /\ Queue(d, k)'[i] = Queue(d, k)[i]
            /\ j \in 1..Len(Queue(e, l)) /\ Queue(e, l)'[j] = Queue(e, l)[j]
        BY <1>4, <3>4
      <4> QED  BY <2>1, <4>1 DEF OneCall
    <3> QED  BY <3>1, <3>2, <3>3, <3>4
  <2> QED  BY <1>2, <2>1 DEF OneCall
<1>9. Mapped'
  BY <1>2, <1>6 DEF Mapped, WorkKept
<1>10. \A s \in TaskIds : (Starting(s)' => Starting(s)) /\ (Live(s)' => Live(s))
  <2>1. ASSUME NEW s \in TaskIds, Asked(s)', ~Asked(s)
        PROVE  s = t /\ tasks[t].at = "token" /\ procs[tasks[t].proc].sock # 0
    <3>1. PICK d \in ChildIds : \E i \in 1..Len(children'[d].calls) :
            children'[d].calls[i].op = "run" /\ children'[d].calls[i].task = s
      BY <1>2, <2>1 DEF Asked
    <3>2. PICK i \in 1..Len(children'[d].calls) :
            children'[d].calls[i].op = "run" /\ children'[d].calls[i].task = s
      BY <3>1
    <3>3. Queue(d, "calls") = children[d].calls /\ Queue(d, "calls")' = children'[d].calls /\ "calls" \in Kinds
      BY DEF Queue, Kinds
    <3>4. CASE Sent1(d, "calls", i)
      BY <1>4, <3>2, <3>3, <3>4
    <3>5. CASE ~Sent1(d, "calls", i)
      BY <1>4, <2>1, <3>2, <3>3, <3>5 DEF Asked
    <3> QED  BY <3>4, <3>5
  <2>2. \A s \in TaskIds : Runs(s)' => Runs(s)
    BY <1>2 DEF Runs
  <2>3. new.at \in {"running", "killing"}
    BY <1>3
  <2>4. ASSUME NEW s \in TaskIds, Starting(s)'
        PROVE  Starting(s)
    BY <1>1, <2>1, <2>3, <2>4 DEF Starting, processes
  <2> QED  BY <2>2, <2>4 DEF Live
<1>11. \A s \in TaskIds : tasks'[s].proc = tasks[s].proc /\ tasks'[s].user = tasks[s].user
  BY <1>1 DEF SameTask
<1>12. \A u \in Users : Quiet(u)
  <2>1. TaskIds' = TaskIds /\ engines' = engines
    BY <1>1 DEF TasksKeep, proxies
  <2>2. \A u \in Users : ProcOf(u)' = ProcOf(u)
    BY <1>11, <2>1 DEF ProcOf, Known
  <2> QED  BY <1>10, <1>11, <2>1, <2>2 DEF Quiet
<1>13. \A s \in TaskIds : tasks[s].user \in Users
  BY SeqElement, TaskTyped DEF TypeOK, TaskIds
<1>14. \A d \in ChildIds, k \in Kinds : \A m :
         KillDoes(d, k, m) /\ m.user \in Users => KillDoes(d, k, m)'
  <2>1. ASSUME NEW d \in ChildIds, NEW k \in Kinds, NEW m, KillDoes(d, k, m), m.user \in Users
        PROVE  KillDoes(d, k, m)'
    <3>1. Quiet(m.user)
      BY <1>12, <2>1
    <3> QED  BY <1>2, <2>1, <3>1 DEF KillDoes, Quiet, Stopped
  <2> QED  BY <2>1
<1>15. Killed'
  <2>1. ASSUME NEW d \in ChildIds, NEW k \in Kinds, NEW i \in 1..Len(Queue(d, k)'),
               Queue(d, k)'[i].op = "kill"
        PROVE  KillDoes(d, k, Queue(d, k)[i])'
    <3> DEFINE m == Queue(d, k)'[i]
    <3>1. KillDoes(d, k, m) /\ m.user \in Users
      <4>1. CASE Sent1(d, k, i)
        BY <1>4, <1>13, <2>1, <4>1
      <4>2. CASE ~Sent1(d, k, i)
        <5>1. i \in 1..Len(Queue(d, k)) /\ m = Queue(d, k)[i] /\ m.op = "kill"
          BY <1>4, <2>1, <4>2
        <5> QED  BY <1>13, <5>1 DEF Killed, Awaited, Expected
      <4> QED  BY <4>1, <4>2
    <3>2. \A n : n = m => KillDoes(d, k, n)'
      BY <1>14, <3>1
    <3> QED  BY <3>2
  <2> QED  BY <1>2, <2>1 DEF Killed
<1>16. Between'
  <2>1. ASSUME NEW u, NEW s \in TaskIds', tasks'[s].user = u, PostKill(tasks'[s])
        PROVE  Stopped(u) /\ ProcOf(u) = 0 /\ Quiet(u)
    <3>1. s \in TaskIds /\ tasks[s].user = u /\ u \in Users
      BY <1>1, <1>11, <1>13, <2>1 DEF TasksKeep
    <3>2. s # t
      BY <1>1, <1>3, <2>1, <3>1 DEF PostKill
    <3> QED  BY <1>1, <1>12, <2>1, <3>1, <3>2 DEF Between
  <2> QED  BY <2>1, BetweenKeeps
<1>17. Known' /\ BootOver'
  BY <1>1, <1>10, <1>11, KnownKeeps, BootKeeps
<1>18. TypeOK'
  BY <1>1, <1>2 DEF TypeOK, TasksKeep, phase, proxies, processes, bounds
<1>19. Calm' /\ Locks'
  <2>1. booted
    BY DEF Calm, TaskIds
  <2> QED  BY <1>1, <1>2, <2>1, LocksKeep DEF Calm, phase, processes
<1>20. Workers'
  BY <1>2 DEF Workers, processes
<1> QED  BY <1>7, <1>8, <1>9, <1>15, <1>16, <1>17, <1>18, <1>19, <1>20

LEMMA TaskBound ==
  ASSUME TypeOK, NEW t \in TaskIds
  PROVE  t \in 1..MaxTasks
BY SeqElement, EngineBoundAssumption DEF TypeOK, TaskIds

LEMMA CallRunEngineKeeps ==
  ASSUME IInv, NEW t \in TaskIds, CallRunEngine(t)
  PROVE  IInv'
<1> DEFINE p == tasks[t].proc
           c == procs[p].sock
           new == [tasks[t] EXCEPT !.at = "running"]
           call == [op |-> "run", user |-> tasks[t].user, task |-> t, waits |-> TRUE]
<1>1. CASE c = 0
  BY <1>1, TokenFails
<1>2. CASE c # 0
  <2>1. tasks[t] \in Task /\ Stages(tasks[t]) /\ tasks[t].at = "token"
    BY SeqElement DEF CallRunEngine, IInv, TypeOK, Locks, TaskIds
  <2>2. p \in Shared
    BY <2>1 DEF Stages
  <2>3. c \in ChildIds /\ children[c].proc = p
    BY <1>2, <2>2 DEF IInv, Workers
  <2>4. SameTask(new, tasks[t]) /\ new.proc = p /\ new.at = "running" /\ Begun(tasks[t])
    <3>1. new \in Task
      BY <2>1, TaskTyped DEF Task
    <3>2. /\ new.op = tasks[t].op /\ new.user = tasks[t].user /\ new.prev = tasks[t].prev
          /\ new.todo = tasks[t].todo /\ new.proc = tasks[t].proc /\ new.at = "running"
      BY <2>1 DEF Task
    <3> QED  BY <2>1, <3>1, <3>2 DEF SameTask, Stages, Begun
  <2>5. call \in Call
    BY <2>1, TaskTyped, TaskBound DEF Call, IInv
  <2>6. /\ children' = Sent(c, call) /\ Step(t, new)
        /\ UNCHANGED <<phase, proxies, processes, timers, bounds>>
    BY <1>2 DEF CallRunEngine
  <2> HIDE DEF new, call
  <2>7. call.op = "run" /\ call.task = t /\ call.user = tasks[t].user /\ call.waits
    BY DEF call
  <2> QED  BY <1>2, <2>1, <2>3, <2>4, <2>5, <2>6, <2>7, CallSentKeeps
<1> QED  BY <1>1, <1>2

\* A kill that is sent: what runs of the user is in the worker it goes to.
LEMMA KillFinds ==
  ASSUME IInv, NEW t \in TaskIds, AtStage(t, "kill"), NEW c \in ChildIds,
         c = procs[children[c].proc].sock, ProcOf(tasks[t].user) = children[c].proc,
         NEW call, call.user = tasks[t].user
  PROVE  KillDoes(c, Inbox(c), call)
<1>1. Active(t) /\ ~Live(t) /\ tasks[t].user \in Users
  BY StageFacts
<1>2. ASSUME NEW s \in TaskIds, tasks[s].user = tasks[t].user, Live(s)
      PROVE  s \in children[c].running /\ children[c].alive
  <2>1. ~Starting(s)
    BY <1>1, <1>2, Alone DEF IInv
  <2>2. PICK d \in ChildIds : s \in children[d].running
    BY <1>2, <2>1 DEF Live, Runs
  <2>3. tasks[s].proc = children[d].proc /\ children[d].proc \in Shared /\ children[d].alive
    BY <2>2 DEF IInv, Mapped, Workers
  <2>4. engines[tasks[s].user] = s
    BY <1>2 DEF IInv, Known
  <2>5. s # 0
    BY DEF TaskIds
  <2>6. children[d].proc = children[c].proc
    BY <1>2, <2>3, <2>4, <2>5 DEF ProcOf
  <2>7. d = c
    BY <2>3, <2>6 DEF IInv, Workers
  <2> QED  BY <2>2, <2>3, <2>7
<1> QED  BY <1>2 DEF KillDoes, Inbox, Stopped

LEMMA KillStageKeeps ==
  ASSUME IInv, NEW t \in TaskIds, KillStage(t)
  PROVE  IInv'
<1> DEFINE u == tasks[t].user
           p == ProcOf(u)
           c == procs[p].sock
           new == [tasks[t] EXCEPT !.at = "killing"]
           call == [op |-> "kill", user |-> u, task |-> t, waits |-> TRUE]
<1>1. AtStage(t, "kill")
  BY DEF KillStage
<1>2. /\ tasks[t] \in Task /\ Stages(tasks[t]) /\ u \in Users /\ tasks[t].at = "idle"
      /\ Head(tasks[t].todo) = "kill" /\ tasks[t].proc = 0 /\ Granted(t)
  BY <1>1, StageFacts
<1>3. CASE p = 0
  BY <1>3, KillDoesNothing
<1>4. CASE p # 0
  <2>1. p \in Shared
    <3>1. engines[u] \in TaskIds /\ tasks[engines[u]].proc # 0 /\ p = tasks[engines[u]].proc
      BY <1>2, <1>4 DEF ProcOf, IInv, Known
    <3> QED  BY <3>1 DEF IInv, Locks, Stages
  <2>2. CASE c = 0
    BY <1>4, <2>1, <2>2, KillFails DEF IsShared
  <2>3. CASE c # 0
    <3>1. c \in ChildIds /\ children[c].proc = p
      BY <2>1, <2>3 DEF IInv, Workers
    <3>2. tasks[t].todo = Plan[tasks[t].op] /\ tasks[t].op \notin {"boot", "sendSocket"}
      BY <1>2, PlanFacts, TodoFacts DEF Stages, SharedOps
    <3>3. SameTask(new, tasks[t]) /\ new.proc = tasks[t].proc /\ new.at = "killing"
      <4>1. new \in Task
        BY <1>2, TaskTyped DEF Task
      <4>2. /\ new.op = tasks[t].op /\ new.user = tasks[t].user /\ new.prev = tasks[t].prev
            /\ new.todo = tasks[t].todo /\ new.proc = tasks[t].proc /\ new.at = "killing"
        BY <1>2 DEF Task
      <4> QED  BY <1>2, <3>2, <4>1, <4>2 DEF SameTask, Stages
    <3>4. call \in Call
      BY <1>2, TaskBound DEF Call, IInv
    <3>5. /\ children' = Sent(c, call) /\ Step(t, new)
          /\ UNCHANGED <<phase, proxies, processes, timers, bounds>>
      BY <1>4, <2>1, <2>3 DEF KillStage, KillEngine, IsShared, processes
    <3>6. call.op = "kill" /\ call.task = t /\ call.user = u /\ call.waits
      OBVIOUS
    <3> HIDE DEF new, call
    <3>7. KillDoes(c, Inbox(c), call)
      BY <1>1, <3>1, <3>6, KillFinds
    <3> QED  BY <1>2, <3>1, <3>3, <3>4, <3>5, <3>6, <3>7, CallSentKeeps
  <2> QED  BY <2>2, <2>3
<1> QED  BY <1>3, <1>4
-----------------------------------------------------------------------------
(* A call returns                                                          *)

\* The first message of queue k of worker c is taken out.
Taken(c, k) ==
  /\ children' \in Seq(Child) /\ Len(children') = Len(children) /\ ChildIds' = ChildIds
  /\ \A d \in ChildIds :
       /\ children'[d].proc = children[d].proc /\ children'[d].alive = children[d].alive
       /\ children'[d].told = children[d].told /\ children'[d].running = children[d].running
       /\ children'[d].map = children[d].map /\ children'[d].events = children[d].events
       /\ children'[d].calls = children[d].calls
  /\ \A d \in ChildIds, l \in Kinds :
       Queue(d, l)' = IF d = c /\ l = k THEN Tail(Queue(d, l)) ELSE Queue(d, l)

LEMMA TakenReply ==
  ASSUME TypeOK, NEW c \in ChildIds, children[c].replies # <<>>,
         children' = [children EXCEPT ![c].replies = Tail(@)]
  PROVE  Taken(c, "replies")
<1> DEFINE w == [children[c] EXCEPT !.replies = Tail(children[c].replies)]
<1>1. children[c] \in Child /\ children[c].replies \in Seq(Call)
  BY ChildTyped
<1>2. Tail(children[c].replies) \in Seq(Call)
  BY <1>1, SeqTail
<1>3. w \in Child
  BY <1>1, <1>2 DEF Child
<1>4. /\ w.proc = children[c].proc /\ w.alive = children[c].alive /\ w.told = children[c].told
      /\ w.running = children[c].running /\ w.map = children[c].map /\ w.events = children[c].events
      /\ w.calls = children[c].calls /\ w.lost = children[c].lost
      /\ w.replies = Tail(children[c].replies)
  BY <1>1 DEF Child
<1>5. children' = [children EXCEPT ![c] = w]
  OBVIOUS
<1> HIDE DEF w
<1>6. /\ children' \in Seq(Child) /\ Len(children') = Len(children) /\ ChildIds' = ChildIds
      /\ \A d \in ChildIds : children'[d] = IF d = c THEN w ELSE children[d]
  BY <1>3, <1>5, OneChild
<1> QED  BY <1>4, <1>6 DEF Taken, Queue, Kinds

LEMMA TakenLost ==
  ASSUME TypeOK, NEW c \in ChildIds, children[c].lost # <<>>,
         children' = [children EXCEPT ![c].lost = Tail(@)]
  PROVE  Taken(c, "lost")
<1> DEFINE w == [children[c] EXCEPT !.lost = Tail(children[c].lost)]
<1>1. children[c] \in Child /\ children[c].lost \in Seq(Call)
  BY ChildTyped
<1>2. Tail(children[c].lost) \in Seq(Call)
  BY <1>1, SeqTail
<1>3. w \in Child
  BY <1>1, <1>2 DEF Child
<1>4. /\ w.proc = children[c].proc /\ w.alive = children[c].alive /\ w.told = children[c].told
      /\ w.running = children[c].running /\ w.map = children[c].map /\ w.events = children[c].events
      /\ w.calls = children[c].calls /\ w.replies = children[c].replies
      /\ w.lost = Tail(children[c].lost)
  BY <1>1 DEF Child
<1>5. children' = [children EXCEPT ![c] = w]
  OBVIOUS
<1> HIDE DEF w
<1>6. /\ children' \in Seq(Child) /\ Len(children') = Len(children) /\ ChildIds' = ChildIds
      /\ \A d \in ChildIds : children'[d] = IF d = c THEN w ELSE children[d]
  BY <1>3, <1>5, OneChild
<1> QED  BY <1>4, <1>6 DEF Taken, Queue, Kinds

LEMMA ReturnKeeps ==
  ASSUME IInv, NEW c \in ChildIds, NEW k \in {"replies", "lost"}, Queue(c, k) # <<>>,
         NEW m \in Call, m = Head(Queue(c, k)), NEW ok \in BOOLEAN,
         CallReturns(c, m, ok), Taken(c, k)
  PROVE  IInv'
<1> USE DEF IInv
<1> DEFINE t == m.task
           u == m.user
           new == IF m.op = "run" /\ ~ok THEN Failed(tasks[t]) ELSE Advanced(tasks[t])
<1>1. k \in Kinds /\ k # "calls" /\ Queue(c, k) \in Seq(Call)
  BY QueueTyped DEF Kinds
<1>2. 1 \in 1..Len(Queue(c, k)) /\ m = Queue(c, k)[1]
  BY <1>1, SeqTail
<1>3. Expected(c, m) /\ (m.op = "kill" => KillDoes(c, k, m)) /\ m.op \in {"run", "kill"}
  BY <1>1, <1>2 DEF Awaited, Killed, Call
<1>4. /\ t \in TaskIds /\ m.waits /\ u = tasks[t].user
      /\ m.op = "run" => tasks[t].at = "running"
      /\ m.op = "kill" => tasks[t].at = "killing"
  BY <1>3 DEF Expected
<1>5. tasks[t] \in Task /\ Stages(tasks[t])
  BY <1>4, SeqElement DEF TypeOK, Locks, TaskIds
<1>6. Step(t, new)
  BY <1>4 DEF CallReturns
<1>7. /\ SameTask(new, tasks[t]) /\ new.proc = tasks[t].proc /\ new.at \in {"done", "idle"}
      /\ Begun(tasks[t])
      /\ tasks[t].at = "running" => new.at = "done"
      /\ PostKill(new) => m.op = "kill"
  <2>1. CASE new = Failed(tasks[t])
    BY <1>3, <1>4, <1>5, <2>1, FailedFacts DEF Begun, PostKill
  <2>2. CASE new = Advanced(tasks[t])
    BY <1>3, <1>4, <1>5, <2>2, AdvancedFacts DEF Begun, PostKill
  <2> QED  BY <2>1, <2>2
<1> HIDE DEF new
<1>8. /\ TasksKeep /\ up' \in BOOLEAN
      /\ \A s \in TaskIds : tasks'[s] = IF s = t THEN new ELSE tasks[s]
  BY <1>4, <1>6, <1>7, StepKeeps
<1>9. UNCHANGED <<phase, processes, timers, bounds>>
  BY DEF CallReturns
<1> DEFINE heard == {s \in listening : tasks[s].proc = children[c].proc /\ tasks[s].user = u}
<1>10. u \in Users
  BY <1>4, <1>5, TaskTyped
<1>11. IF m.op = "kill"
       THEN /\ listening' = listening \ heard
            /\ engines' \in [Users -> 0..Len(tasks)]
            /\ \A v \in Users : engines'[v] = IF v = u /\ engines[u] \in heard THEN 0 ELSE engines[v]
       ELSE UNCHANGED <<listening, engines>>
  <2>1. Len(tasks) \in Nat
    BY SeqElement DEF TypeOK
  <2>2. m.op # "kill" => UNCHANGED <<listening, engines>>
    BY DEF CallReturns
  <2>3. CASE m.op = "kill"
    <3>1. /\ listening' = listening \ heard
          /\ engines' = IF engines[u] \in heard THEN [engines EXCEPT ![u] = 0] ELSE engines
      BY <2>3 DEF CallReturns, EmitEngineRemoved
    <3> HIDE DEF heard
    <3>2. 0 \in 0..Len(tasks)
      BY <2>1
    <3> QED  BY <1>10, <2>3, <3>1, <3>2 DEF TypeOK
  <2> QED  BY <2>2, <2>3
<1>12. /\ TaskIds' = TaskIds /\ ChildIds' = ChildIds
       /\ \A s \in TaskIds : tasks'[s].proc = tasks[s].proc /\ tasks'[s].user = tasks[s].user
       /\ \A v \in Users : engines'[v] \in {0, engines[v]}
       /\ listening' \subseteq listening
  BY <1>7, <1>8, <1>11 DEF TasksKeep, Taken, SameTask
<1> DEFINE Old(d, l, i) == IF d = c /\ l = k THEN i + 1 ELSE i
<1>13. ASSUME NEW d \in ChildIds, NEW l \in Kinds, NEW i \in 1..Len(Queue(d, l)')
       PROVE  /\ Old(d, l, i) \in 1..Len(Queue(d, l)) /\ Queue(d, l)'[i] = Queue(d, l)[Old(d, l, i)]
              /\ ~(d = c /\ l = k /\ Old(d, l, i) = 1)
  <2>1. CASE d = c /\ l = k
    <3>1. Queue(d, l)' = Tail(Queue(d, l))
      BY <2>1 DEF Taken
    <3>2. /\ Len(Queue(d, l)) \in Nat \ {0} /\ Len(Queue(d, l)') = Len(Queue(d, l)) - 1
          /\ Queue(d, l)'[i] = Queue(d, l)[i + 1]
      BY <1>1, <2>1, <3>1, SeqTail
    <3> QED  BY <2>1, <3>2
  <2>2. CASE ~(d = c /\ l = k)
    BY <2>2 DEF Taken
  <2> QED  BY <2>1, <2>2
<1>14. ASSUME NEW d \in ChildIds, NEW l \in Kinds, NEW i \in 1..Len(Queue(d, l)')
       PROVE  Queue(d, l)'[i].task # t
  <2>1. /\ Old(d, l, i) \in 1..Len(Queue(d, l)) /\ Queue(d, l)'[i] = Queue(d, l)[Old(d, l, i)]
        /\ ~(d = c /\ l = k /\ Old(d, l, i) = 1)
    BY <1>13
  <2> HIDE DEF Old
  <2> QED  BY <1>1, <1>2, <2>1 DEF OneCall
<1>15. Awaited'
  <2>1. ASSUME NEW d \in ChildIds, NEW l \in Kinds, NEW i \in 1..Len(Queue(d, l)')
        PROVE  Expected(d, Queue(d, l)[i])'
    <3> DEFINE n == Queue(d, l)'[i]
    <3>1. Expected(d, n) /\ n.task # t
      BY <1>13, <1>14 DEF Awaited
    <3> HIDE DEF n
    <3>2. \A x : x = n => Expected(d, x)'
      BY <1>8, <1>12, <3>1 DEF Expected, Taken
    <3> QED  BY <3>2 DEF n
  <2> QED  BY <1>12, <2>1 DEF Awaited
<1>16. OneCall'
  <2>1. ASSUME NEW d \in ChildIds, NEW e \in ChildIds, NEW l \in Kinds, NEW n \in Kinds,
               NEW i \in 1..Len(Queue(d, l)'), NEW j \in 1..Len(Queue(e, n)'),
               Queue(d, l)'[i].task = Queue(e, n)'[j].task
        PROVE  d = e /\ l = n /\ i = j
    <3>1. d = e /\ l = n /\ Old(d, l, i) = Old(e, n, j)
      <4>1. /\ Old(d, l, i) \in 1..Len(Queue(d, l)) /\ Queue(d, l)'[i] = Queue(d, l)[Old(d, l, i)]
            /\ Old(e, n, j) \in 1..Len(Queue(e, n)) /\ Queue(e, n)'[j] = Queue(e, n)[Old(e, n, j)]
        BY <1>13
      <4> HIDE DEF Old
      <4> QED  BY <2>1, <4>1 DEF OneCall
    <3> QED  BY <3>1
  <2> QED  BY <1>12, <2>1 DEF OneCall
<1>17. Mapped'
  BY <1>4, <1>7, <1>8, <1>12, <1>3 DEF Mapped, Taken
<1>18. \A s \in TaskIds : (Starting(s)' => Starting(s)) /\ (Live(s)' => Live(s))
  <2>1. \A s : (Asked(s)' <=> Asked(s)) /\ (Runs(s)' <=> Runs(s))
    BY <1>12 DEF Asked, Runs, Taken
  <2>2. ASSUME NEW s \in TaskIds, Starting(s)'
        PROVE  Starting(s)
    BY <1>7, <1>8, <1>9, <2>1, <2>2 DEF Starting, processes
  <2> QED  BY <2>1, <2>2 DEF Live
<1>19. \A v \in Users : Quiet(v)
  <2>1. \A v \in Users : ProcOf(v)' \in {0, ProcOf(v)}
    BY <1>12 DEF ProcOf, Known
  <2> QED  BY <1>12, <1>18, <2>1 DEF Quiet
<1>20. \A s \in TaskIds : tasks[s].user \in Users
  BY SeqElement, TaskTyped DEF TypeOK, TaskIds
<1>21. Killed'
  <2>1. ASSUME NEW d \in ChildIds, NEW l \in Kinds, NEW i \in 1..Len(Queue(d, l)'),
               Queue(d, l)'[i].op = "kill"
        PROVE  KillDoes(d, l, Queue(d, l)[i])'
    <3> DEFINE n == Queue(d, l)'[i]
    <3>1. KillDoes(d, l, n) /\ n.user \in Users
      <4>1. PICK o \in 1..Len(Queue(d, l)) : n = Queue(d, l)[o]
        BY <1>13
      <4> HIDE DEF n
      <4>2. Expected(d, n) /\ KillDoes(d, l, n)
        BY <2>1, <4>1 DEF n, Killed, Awaited
      <4> QED  BY <1>20, <4>2 DEF Expected
    <3> HIDE DEF n
    <3>2. \A v : v = n.user => Quiet(v)
      BY <1>19, <3>1
    <3>3. \A x : x = n => KillDoes(d, l, x)'
      BY <1>12, <3>1, <3>2 DEF KillDoes, Quiet, Stopped, Taken
    <3> QED  BY <3>3 DEF n
  <2> QED  BY <1>12, <2>1 DEF Killed
<1>22. m.op = "kill" => Stopped(u) /\ ProcOf(u)' = 0
  <2>1. ASSUME m.op = "kill", engines[u] # 0, tasks[engines[u]].proc # 0
        PROVE  engines[u] \in heard
    <3>1. engines[u] \in listening /\ tasks[engines[u]].user = u
      BY <1>10, <2>1 DEF Known
    <3>2. ProcOf(u) = tasks[engines[u]].proc
      BY <2>1 DEF ProcOf
    <3> QED  BY <1>3, <2>1, <3>1, <3>2 DEF KillDoes
  <2>2. ASSUME m.op = "kill"
        PROVE  ProcOf(u)' = 0
    <3> HIDE DEF heard
    <3>1. engines[u] # 0 => engines[u] \in TaskIds
      BY <1>10 DEF Known
    <3>2. engines'[u] = IF engines[u] \in heard THEN 0 ELSE engines[u]
      BY <1>10, <1>11, <2>2
    <3> QED  BY <1>12, <2>1, <2>2, <3>1, <3>2 DEF ProcOf
  <2> QED  BY <1>1, <1>3, <2>2 DEF KillDoes
<1>23. Between'
  <2> SUFFICES ASSUME NEW s \in TaskIds, PostKill(tasks'[s]), NEW v, v = tasks'[s].user
               PROVE  Stopped(v)' /\ ProcOf(v)' = 0
    BY <1>12 DEF Between
  <2>1. v = tasks[s].user /\ v \in Users
    BY <1>12, <1>20
  <2>2. Stopped(v) /\ ProcOf(v)' = 0
    <3>1. CASE s = t
      BY <1>4, <1>7, <1>8, <1>22, <2>1, <3>1
    <3>2. CASE s # t
      <4>1. Stopped(v) /\ ProcOf(v) = 0
        BY <1>8, <2>1, <3>2 DEF Between
      <4> QED  BY <1>19, <2>1, <4>1 DEF Quiet
    <3> QED  BY <3>1, <3>2
  <2> QED  BY <1>12, <1>18, <2>2 DEF Stopped
<1>24. Known'
  <2> HIDE DEF heard
  <2>1. ASSUME NEW s \in TaskIds, Live(s)'
        PROVE  engines'[tasks'[s].user] = s
    <3>1. Live(s) /\ engines[tasks[s].user] = s /\ tasks[s].user \in Users
      BY <1>18, <1>20, <2>1 DEF Known
    <3>2. m.op = "kill" => tasks[s].user # u
      BY <1>22, <3>1 DEF Stopped
    <3> QED  BY <1>11, <1>12, <3>1, <3>2
  <2>2. ASSUME NEW v \in Users, engines'[v] # 0
        PROVE  /\ engines'[v] \in TaskIds /\ tasks'[engines'[v]].user = v
               /\ tasks'[engines'[v]].proc # 0 => engines'[v] \in listening'
    <3>1. /\ engines'[v] = engines[v] /\ engines[v] \in TaskIds /\ tasks[engines[v]].user = v
          /\ tasks[engines[v]].proc # 0 => engines[v] \in listening
      BY <1>12, <2>2 DEF Known
    <3>2. m.op = "kill" => engines[v] \notin heard
      BY <1>11, <2>2, <3>1 DEF heard
    <3> QED  BY <1>11, <1>12, <3>1, <3>2
  <2>3. ASSUME NEW s \in listening'
        PROVE  s \in TaskIds /\ tasks'[s].proc # 0
    BY <1>12, <2>3 DEF Known
  <2> QED  BY <1>12, <2>1, <2>2, <2>3 DEF Known
<1>25. BootOver' /\ Locks'
  BY <1>8, <1>9, <1>18, BootKeeps, LocksKeep
<1>26. TypeOK'
  <2>1. engines' \in [Users -> 0..Len(tasks)]
    BY <1>11 DEF TypeOK
  <2> QED  BY <1>8, <1>9, <1>12, <2>1 DEF TypeOK, TasksKeep, Taken, phase, processes, bounds
<1>27. Calm' /\ Workers'
  <2>1. booted
    BY <1>4 DEF Calm, TaskIds
  <2> QED  BY <1>9, <2>1 DEF Calm, Workers, Taken, phase, processes
<1> QED  BY <1>15, <1>16, <1>17, <1>21, <1>23, <1>24, <1>25, <1>26, <1>27

LEMMA ReplyKeeps ==
  ASSUME IInv, NEW c \in ChildIds, Reply(c)
  PROVE  IInv'
<1>1. Queue(c, "replies") = children[c].replies /\ Queue(c, "replies") # <<>>
  BY DEF Reply, Queue
<1>2. Head(Queue(c, "replies")) \in Call
  BY <1>1, QueueTyped, SeqTail DEF IInv, Kinds
<1>3. Taken(c, "replies")
  BY TakenReply DEF Reply, IInv
<1> QED  BY <1>1, <1>2, <1>3, ReturnKeeps DEF Reply

LEMMA CallFailsKeeps ==
  ASSUME IInv, NEW c \in ChildIds, CallFails(c)
  PROVE  IInv'
<1>1. Queue(c, "lost") = children[c].lost /\ Queue(c, "lost") # <<>>
  BY DEF CallFails, Queue
<1>2. Head(Queue(c, "lost")) \in Call
  BY <1>1, QueueTyped, SeqTail DEF IInv, Kinds
<1>3. Taken(c, "lost")
  BY TakenLost DEF CallFails, IInv
<1> QED  BY <1>1, <1>2, <1>3, ReturnKeeps DEF CallFails
-----------------------------------------------------------------------------
(* A worker handles a call, or dies                                        *)

LEMMA TasksSame ==
  ASSUME TypeOK, Locks, UNCHANGED <<tasks, lockTail>>
  PROVE  TasksKeep
BY SeqElement DEF TypeOK, Locks, TaskIds, TasksKeep, SameTask

\* While a kill is under way nothing of its user is about to start.
LEMMA KillAlone ==
  ASSUME IInv, NEW c \in ChildIds, NEW k \in Kinds, NEW i \in 1..Len(Queue(c, k)),
         Queue(c, k)[i].op = "kill", NEW s \in TaskIds, tasks[s].user = Queue(c, k)[i].user
  PROVE  ~Starting(s)
<1> DEFINE t == Queue(c, k)[i].task
<1>1. t \in TaskIds /\ tasks[t].at = "killing" /\ tasks[s].user = tasks[t].user
  BY DEF IInv, Awaited, Expected
<1> HIDE DEF t
<1>2. Active(t)
  BY <1>1 DEF Active, IInv, Locks, Stages, Locked, Begun
<1>3. CASE s = t
  BY <1>1, <1>3, StartingAt DEF IInv
<1>4. CASE s # t
  BY <1>1, <1>2, <1>4, Alone DEF IInv
<1> QED  BY <1>3, <1>4

LEMMA RunsOnce ==
  ASSUME IInv, NEW c \in ChildIds, NEW d \in ChildIds, NEW t,
         t \in children[c].running, t \in children[d].running
  PROVE  c = d
BY DEF IInv, Mapped, Workers

LEMMA HandledFacts ==
  ASSUME TypeOK, NEW c \in ChildIds, WorkerHandle(c)
  PROVE  /\ children' \in Seq(Child) /\ Len(children') = Len(children) /\ ChildIds' = ChildIds
         /\ children[c].alive /\ Queue(c, "calls") # <<>> /\ Head(Queue(c, "calls")) \in Call
         /\ \A d \in ChildIds :
              /\ children'[d].proc = children[d].proc /\ children'[d].alive = children[d].alive
              /\ children'[d].told = children[d].told /\ children'[d].events = children[d].events
              /\ d # c => children'[d] = children[d]
         /\ LET m == Head(Queue(c, "calls")) IN
            /\ children'[c].running = IF m.op = "run" THEN children[c].running \cup {m.task}
                                      ELSE children[c].running \ {children[c].map[m.user]}
            /\ children'[c].map = [children[c].map EXCEPT ![m.user] = IF m.op = "run" THEN m.task ELSE 0]
            /\ Queue(c, "calls")' = Tail(Queue(c, "calls"))
            /\ Queue(c, "replies")' = Append(Queue(c, "replies"), m)
            /\ Queue(c, "lost")' = Queue(c, "lost")
<1> DEFINE m == Head(children[c].calls)
           running == IF m.op = "run" THEN children[c].running \cup {m.task}
                      ELSE children[c].running \ {children[c].map[m.user]}
           map == [children[c].map EXCEPT ![m.user] = IF m.op = "run" THEN m.task ELSE 0]
           rest == Tail(children[c].calls)
           replies == Append(children[c].replies, m)
           w == [children[c] EXCEPT !.calls = rest, !.replies = replies,
                                    !.running = running, !.map = map]
<1>1. /\ children[c].alive /\ children[c].calls # <<>>
      /\ children' = [children EXCEPT ![c] = w]
  BY DEF WorkerHandle
<1>2. /\ children[c] \in Child /\ children[c].calls \in Seq(Call) /\ children[c].replies \in Seq(Call)
      /\ children[c].running \in SUBSET (1..MaxTasks) /\ children[c].map \in [Users -> 0..MaxTasks]
  BY ChildTyped
<1>3. m \in Call /\ rest \in Seq(Call)
  BY <1>1, <1>2, SeqTail
<1>4. replies \in Seq(Call)
  BY <1>2, <1>3, SeqAppend
<1>5. running \in SUBSET (1..MaxTasks) /\ map \in [Users -> 0..MaxTasks]
  <2>1. m.task \in 1..MaxTasks /\ m.user \in Users
    BY <1>3 DEF Call
  <2>2. (IF m.op = "run" THEN m.task ELSE 0) \in 0..MaxTasks
    BY <2>1, EngineBoundAssumption
  <2> HIDE DEF m
  <2> QED  BY <1>2, <2>1, <2>2
<1> HIDE DEF m, running, map, rest, replies
<1>6. w \in Child
  BY <1>2, <1>3, <1>4, <1>5 DEF Child
<1>7. /\ w.proc = children[c].proc /\ w.alive = children[c].alive /\ w.told = children[c].told
      /\ w.events = children[c].events /\ w.running = running /\ w.map = map
      /\ w.calls = rest /\ w.replies = replies /\ w.lost = children[c].lost
  BY <1>2 DEF Child
<1> HIDE DEF w
<1>8. /\ children' \in Seq(Child) /\ Len(children') = Len(children) /\ ChildIds' = ChildIds
      /\ \A d \in ChildIds : children'[d] = IF d = c THEN w ELSE children[d]
  BY <1>1, <1>6, OneChild
<1>9. /\ Queue(c, "calls") = children[c].calls /\ Queue(c, "replies") = children[c].replies
      /\ Queue(c, "lost") = children[c].lost /\ Queue(c, "calls")' = children'[c].calls
      /\ Queue(c, "replies")' = children'[c].replies /\ Queue(c, "lost")' = children'[c].lost
  BY DEF Queue
<1>10. m = Head(Queue(c, "calls")) /\ children'[c] = w
  BY <1>8, <1>9 DEF m
<1>11. /\ running = IF m.op = "run" THEN children[c].running \cup {m.task}
                   ELSE children[c].running \ {children[c].map[m.user]}
       /\ map = [children[c].map EXCEPT ![m.user] = IF m.op = "run" THEN m.task ELSE 0]
       /\ rest = Tail(Queue(c, "calls")) /\ replies = Append(Queue(c, "replies"), m)
  BY <1>9 DEF running, map, rest, replies, m
<1>12. /\ children'[c].running = running /\ children'[c].map = map
       /\ Queue(c, "calls")' = rest /\ Queue(c, "replies")' = replies
       /\ Queue(c, "lost")' = Queue(c, "lost")
  BY <1>7, <1>9, <1>10
<1>13. \A d \in ChildIds :
         /\ children'[d].proc = children[d].proc /\ children'[d].alive = children[d].alive
         /\ children'[d].told = children[d].told /\ children'[d].events = children[d].events
         /\ d # c => children'[d] = children[d]
  BY <1>7, <1>8
<1>14. children[c].alive /\ Queue(c, "calls") # <<>> /\ m \in Call
  BY <1>1, <1>3, <1>9
<1> QED  BY <1>8, <1>10, <1>11, <1>12, <1>13, <1>14

LEMMA WorkerHandleKeeps ==
  ASSUME IInv, NEW c \in ChildIds, WorkerHandle(c)
  PROVE  IInv'
<1> USE DEF IInv
<1> DEFINE m == Head(Queue(c, "calls"))
           t == m.task
           u == m.user
<1>1. /\ children' \in Seq(Child) /\ Len(children') = Len(children) /\ ChildIds' = ChildIds
      /\ children[c].alive /\ Queue(c, "calls") # <<>> /\ m \in Call
      /\ \A d \in ChildIds :
           /\ children'[d].proc = children[d].proc /\ children'[d].alive = children[d].alive
           /\ children'[d].told = children[d].told /\ children'[d].events = children[d].events
           /\ d # c => children'[d] = children[d]
  BY HandledFacts
<1>2. /\ children'[c].running = IF m.op = "run" THEN children[c].running \cup {t}
                                ELSE children[c].running \ {children[c].map[u]}
      /\ children'[c].map = [children[c].map EXCEPT ![u] = IF m.op = "run" THEN t ELSE 0]
      /\ Queue(c, "calls")' = Tail(Queue(c, "calls"))
      /\ Queue(c, "replies")' = Append(Queue(c, "replies"), m)
      /\ Queue(c, "lost")' = Queue(c, "lost")
  BY HandledFacts
<1>3. UNCHANGED <<up, phase, taskvars, proxies, processes, timers, bounds>>
  BY DEF WorkerHandle
<1>4. /\ Queue(c, "calls") \in Seq(Call) /\ Queue(c, "replies") \in Seq(Call)
      /\ 1 \in 1..Len(Queue(c, "calls")) /\ m = Queue(c, "calls")[1]
      /\ "calls" \in Kinds /\ "replies" \in Kinds /\ "lost" \in Kinds
  <2>1. Queue(c, "calls") \in Seq(Call) /\ Queue(c, "replies") \in Seq(Call)
    BY QueueTyped DEF Kinds
  <2> QED  BY <1>1, <2>1, SeqTail DEF Kinds
<1>5. Expected(c, m) /\ (m.op = "kill" => KillDoes(c, "calls", m)) /\ m.op \in {"run", "kill"}
  BY <1>1, <1>4 DEF Awaited, Killed, Call
<1> HIDE DEF m
<1>6. /\ t \in TaskIds /\ u = tasks[t].user /\ u \in Users
      /\ m.op = "run" => tasks[t].at = "running" /\ tasks[t].proc = children[c].proc /\ Asked(t)
  <2>1. u \in Users
    BY <1>1 DEF Call
  <2>2. m.op = "run" => Asked(t)
    BY <1>4 DEF Asked, Queue
  <2> QED  BY <1>5, <2>1, <2>2 DEF Expected
<1>7. TasksKeep /\ TaskIds' = TaskIds /\ tasks' = tasks
  <2>1. UNCHANGED <<tasks, lockTail>>
    BY <1>3 DEF taskvars
  <2> QED  BY <2>1, TasksSame DEF TaskIds
<1> DEFINE Moved(d, l, i) == d = c /\ l = "replies" /\ i = Len(Queue(c, "replies")) + 1
           OldKind(d, l, i) == IF Moved(d, l, i) THEN "calls" ELSE l
           Old(d, l, i) == IF Moved(d, l, i) THEN 1 ELSE IF d = c /\ l = "calls" THEN i + 1 ELSE i
<1>8. ASSUME NEW d \in ChildIds, NEW l \in Kinds, NEW i \in 1..Len(Queue(d, l)')
      PROVE  /\ OldKind(d, l, i) \in Kinds /\ Old(d, l, i) \in 1..Len(Queue(d, OldKind(d, l, i)))
             /\ Queue(d, l)'[i] = Queue(d, OldKind(d, l, i))[Old(d, l, i)]
  <2>1. CASE d = c /\ l = "calls"
    <3>1. /\ Len(Queue(d, l)) \in Nat \ {0} /\ Len(Queue(d, l)') = Len(Queue(d, l)) - 1
          /\ Queue(d, l)'[i] = Queue(d, l)[i + 1]
      <4>1. Queue(d, l)' = Tail(Queue(d, l)) /\ Queue(d, l) # <<>> /\ Queue(d, l) \in Seq(Call)
        BY <1>1, <1>2, <1>4, <2>1
      <4> QED  BY <4>1, SeqTail
    <3> QED  BY <2>1, <3>1
  <2>2. CASE d = c /\ l = "replies"
    <3>1. /\ Len(Queue(d, l)) \in Nat /\ Len(Queue(d, l)') = Len(Queue(d, l)) + 1
          /\ Queue(d, l)'[i] = IF i = Len(Queue(d, l)) + 1 THEN m ELSE Queue(d, l)[i]
      BY <1>1, <1>2, <1>4, <2>2, SeqAppend, SeqElement
    <3> QED  BY <1>4, <2>2, <3>1
  <2>3. CASE d # c \/ l = "lost"
    <3>1. Queue(d, l)' = Queue(d, l)
      BY <1>1, <1>2, <2>3 DEF Queue
    <3> QED  BY <2>3, <3>1
  <2> QED  BY <2>1, <2>2, <2>3 DEF Kinds
<1>9. Awaited'
  <2>1. ASSUME NEW d \in ChildIds, NEW l \in Kinds, NEW i \in 1..Len(Queue(d, l)')
        PROVE  Expected(d, Queue(d, l)[i])'
    <3> DEFINE n == Queue(d, l)'[i]
    <3>1. Expected(d, n)
      BY <1>8 DEF Awaited
    <3> HIDE DEF n
    <3>2. \A x : x = n => Expected(d, x)'
      BY <1>1, <1>7, <3>1 DEF Expected
    <3> QED  BY <3>2 DEF n
  <2> QED  BY <1>1, <2>1 DEF Awaited
<1>10. OneCall'
  <2>1. ASSUME NEW d \in ChildIds, NEW e \in ChildIds, NEW l \in Kinds, NEW n \in Kinds,
               NEW i \in 1..Len(Queue(d, l)'), NEW j \in 1..Len(Queue(e, n)'),
               Queue(d, l)'[i].task = Queue(e, n)'[j].task
        PROVE  d = e /\ l = n /\ i = j
    <3>1. d = e /\ OldKind(d, l, i) = OldKind(e, n, j) /\ Old(d, l, i) = Old(e, n, j)
      <4>1. /\ OldKind(d, l, i) \in Kinds /\ Old(d, l, i) \in 1..Len(Queue(d, OldKind(d, l, i)))
            /\ Queue(d, l)'[i] = Queue(d, OldKind(d, l, i))[Old(d, l, i)]
            /\ OldKind(e, n, j) \in Kinds /\ Old(e, n, j) \in 1..Len(Queue(e, OldKind(e, n, j)))
            /\ Queue(e, n)'[j] = Queue(e, OldKind(e, n, j))[Old(e, n, j)]
        BY <1>8
      <4> HIDE DEF Old, OldKind
      <4> QED  BY <2>1, <4>1 DEF OneCall
    <3>2. l = n
      BY <3>1
    <3>3. i = j
      BY <3>1, <3>2
    <3> QED  BY <3>1, <3>2, <3>3
  <2> QED  BY <1>1, <2>1 DEF OneCall
<1>11. Mapped'
  <2>1. ASSUME NEW d \in ChildIds, NEW s \in children'[d].running
        PROVE  /\ s \in TaskIds /\ tasks[s].proc = children[d].proc
               /\ children'[d].map[tasks[s].user] = s
               /\ tasks[s].at \in {"running", "done"}
    <3>1. CASE d # c
      BY <1>1, <2>1, <3>1 DEF Mapped
    <3>2. CASE d = c /\ m.op = "run"
      <4>1. s \in TaskIds /\ tasks[s].proc = children[d].proc /\ tasks[s].at \in {"running", "done"}
        BY <1>2, <1>6, <2>1, <3>2 DEF Mapped
      <4>2. tasks[s].user = u => s = t
        <5>1. Live(s) /\ Live(t)
          BY <1>2, <1>6, <2>1, <3>2 DEF Live, Starting, Runs
        <5> QED  BY <1>6, <4>1, <5>1 DEF Known
      <4>3. s # t => children[c].map[tasks[s].user] = s
        BY <1>2, <2>1, <3>2 DEF Mapped
      <4>4. tasks[s].user \in Users /\ children[c].map \in [Users -> 0..MaxTasks]
        BY <4>1, SeqElement, TaskTyped, ChildTyped DEF TypeOK, TaskIds
      <4> QED  BY <1>2, <1>6, <3>2, <4>1, <4>2, <4>3, <4>4
    <3>3. CASE d = c /\ m.op # "run"
      <4>1. /\ s \in children[c].running /\ s # children[c].map[u]
            /\ s \in TaskIds /\ tasks[s].proc = children[d].proc /\ tasks[s].at \in {"running", "done"}
            /\ children[c].map[tasks[s].user] = s
        BY <1>2, <2>1, <3>3 DEF Mapped
      <4>2. tasks[s].user \in Users /\ children[c].map \in [Users -> 0..MaxTasks]
        BY <4>1, SeqElement, TaskTyped, ChildTyped DEF TypeOK, TaskIds
      <4> QED  BY <1>2, <3>3, <4>1, <4>2
    <3> QED  BY <3>1, <3>2, <3>3
  <2> QED  BY <1>1, <1>7, <2>1 DEF Mapped
<1>12. \A s \in TaskIds : Runs(s)' => Runs(s) \/ (s = t /\ m.op = "run")
  BY <1>1, <1>2 DEF Runs
<1>13. \A s \in TaskIds : (Starting(s)' => Starting(s)) /\ (Live(s)' => Live(s))
  <2>1. ASSUME NEW s \in TaskIds, Asked(s)'
        PROVE  Asked(s)
    <3>0. PICK d \in ChildIds : \E i \in 1..Len(Queue(d, "calls")') :
            Queue(d, "calls")'[i].op = "run" /\ Queue(d, "calls")'[i].task = s
      BY <1>1, <2>1 DEF Asked, Queue
    <3>1. PICK i \in 1..Len(Queue(d, "calls")') :
            Queue(d, "calls")'[i].op = "run" /\ Queue(d, "calls")'[i].task = s
      BY <3>0
    <3>2. Old(d, "calls", i) \in 1..Len(Queue(d, "calls")) /\ Queue(d, "calls")'[i] = Queue(d, "calls")[Old(d, "calls", i)]
      BY <1>4, <1>8
    <3> HIDE DEF Old
    <3> QED  BY <3>1, <3>2 DEF Asked, Queue
  <2>2. ASSUME NEW s \in TaskIds, Starting(s)'
        PROVE  Starting(s)
    BY <1>3, <1>7, <2>1, <2>2 DEF Starting, processes
  <2> QED  BY <1>6, <1>12, <2>2 DEF Live, Starting
<1>14. \A v \in Users : Quiet(v) /\ ProcOf(v)' = ProcOf(v)
  BY <1>3, <1>7, <1>13 DEF Quiet, ProcOf, proxies
<1>15. \A s \in TaskIds : tasks[s].user \in Users
  BY SeqElement, TaskTyped DEF TypeOK, TaskIds
<1>16. Killed'
  <2>1. ASSUME NEW d \in ChildIds, NEW l \in Kinds, NEW i \in 1..Len(Queue(d, l)'),
               Queue(d, l)'[i].op = "kill"
        PROVE  KillDoes(d, l, Queue(d, l)[i])'
    <3> DEFINE n == Queue(d, l)'[i]
    <3> DEFINE k == OldKind(d, l, i)
               o == Old(d, l, i)
    <3>1. k \in Kinds /\ o \in 1..Len(Queue(d, k)) /\ n = Queue(d, k)[o]
      BY <1>8
    <3>7. l # k => d = c /\ k = "calls" /\ l = "replies" /\ o = 1
      OBVIOUS
    <3> HIDE DEF k, o
    <3> HIDE DEF n
    <3>2. KillDoes(d, k, n) /\ Expected(d, n) /\ n.op = "kill"
      BY <2>1, <3>1 DEF n, Killed, Awaited
    <3>3. n.user \in Users
      BY <1>15, <3>2 DEF Expected
    <3>4. ASSUME NEW s \in TaskIds, tasks[s].user = n.user, Live(s)', k = "calls"
          PROVE  s \in children'[d].running
      <4>1. ~Starting(s) /\ Live(s)
        BY <1>13, <3>1, <3>2, <3>4, KillAlone
      <4>2. s \in children[d].running
        BY <3>2, <3>4, <4>1 DEF KillDoes
      <4>3. PICK e \in ChildIds : s \in children'[e].running
        BY <1>1, <1>13, <3>4, <4>1 DEF Live, Runs
      <4>4. ~(s = t /\ m.op = "run")
        BY <1>6, <4>1 DEF Starting
      <4>5. s \in children[e].running
        BY <1>1, <1>2, <4>3, <4>4
      <4>6. e = d
        BY <4>2, <4>5, RunsOnce
      <4> QED  BY <4>3, <4>6
    <3>5. CASE l = k
      <4>1. \A v : v = n.user => Quiet(v)
        BY <1>14, <3>3
      <4>2. \A x : x = n => KillDoes(d, l, x)'
        BY <1>1, <1>7, <3>2, <3>4, <3>5, <4>1 DEF KillDoes, Quiet, Stopped
      <4> QED  BY <4>2 DEF n
    <3>6. CASE l # k
      <4>1. d = c /\ k = "calls" /\ l = "replies" /\ n = m
        BY <1>4, <3>1, <3>6, <3>7
      <4>2. ASSUME NEW s \in TaskIds, tasks[s].user = n.user, Live(s)'
            PROVE  FALSE
        <5>1. s \in children'[c].running /\ m.op # "run"
          BY <3>2, <3>4, <4>1, <4>2
        <5>2. s \in children[c].running /\ s # children[c].map[u]
          BY <1>2, <5>1
        <5>3. children[c].map[tasks[s].user] = s
          BY <5>2 DEF Mapped
        <5> QED  BY <4>1, <4>2, <5>2, <5>3
      <4>3. \A x : x = n => KillDoes(d, l, x)'
        BY <1>1, <1>7, <1>14, <3>2, <3>3, <4>1, <4>2 DEF KillDoes, Stopped
      <4> QED  BY <4>3 DEF n
    <3> QED  BY <3>5, <3>6
  <2> QED  BY <1>1, <2>1 DEF Killed
<1>17. Between'
  <2>1. ASSUME NEW v, NEW s \in TaskIds', tasks'[s].user = v, PostKill(tasks'[s])
        PROVE  Stopped(v) /\ ProcOf(v) = 0 /\ Quiet(v)
    BY <1>7, <1>14, <1>15, <2>1 DEF Between
  <2> QED  BY <2>1, BetweenKeeps
<1>18. Known' /\ BootOver' /\ Locks'
  <2>1. UNCHANGED proxies /\ timers' = timers
    BY <1>3
  <2> QED  BY <1>7, <1>13, <2>1, KnownKeeps, BootKeeps, LocksKeep
<1>19. TypeOK'
  BY <1>1, <1>3, <1>7 DEF TypeOK, TasksKeep, phase, taskvars, proxies, processes, bounds
<1>20. Calm'
  <2>1. booted
    BY <1>6 DEF Calm, TaskIds
  <2> QED  BY <1>1, <1>3, <2>1 DEF Calm, phase, processes
<1>21. Workers'
  BY <1>1, <1>3 DEF Workers, processes
<1> QED  BY <1>9, <1>10, <1>11, <1>16, <1>17, <1>18, <1>19, <1>20, <1>21

LEMMA DeadFacts ==
  ASSUME TypeOK, NEW c \in ChildIds, children' = [children EXCEPT ![c] = Dead(children[c])]
  PROVE  /\ children' \in Seq(Child) /\ Len(children') = Len(children) /\ ChildIds' = ChildIds
         /\ \A d \in ChildIds :
              /\ children'[d].proc = children[d].proc /\ children'[d].told = children[d].told
              /\ d # c => children'[d] = children[d]
         /\ ~children'[c].alive /\ children'[c].running = {}
         /\ children'[c].calls = <<>> /\ Queue(c, "calls")' = <<>>
         /\ Queue(c, "replies")' = Queue(c, "replies")
         /\ Queue(c, "lost")' = Queue(c, "lost") \o Queue(c, "calls")
<1> DEFINE lost == children[c].lost \o children[c].calls
           w == Dead(children[c])
<1>1. /\ children[c] \in Child /\ children[c].calls \in Seq(Call) /\ children[c].lost \in Seq(Call)
  BY ChildTyped
<1>2. lost \in Seq(Call)
  BY <1>1, SeqConcat
<1>3. [u \in Users |-> 0] \in [Users -> 0..MaxTasks] /\ <<>> \in Seq(Call)
  BY EngineBoundAssumption
<1>4. w = [children[c] EXCEPT !.alive = FALSE, !.running = {}, !.map = [u \in Users |-> 0],
                              !.lost = lost, !.calls = <<>>, !.events = {"disconnect", "exit"}]
  BY DEF Dead
<1> HIDE DEF lost, w
<1>5. w \in Child
  BY <1>1, <1>2, <1>3, <1>4 DEF Child
<1>6. /\ w.proc = children[c].proc /\ w.told = children[c].told /\ w.alive = FALSE
      /\ w.running = {} /\ w.calls = <<>> /\ w.lost = lost /\ w.replies = children[c].replies
  BY <1>1, <1>4 DEF Child
<1>7. /\ children' \in Seq(Child) /\ Len(children') = Len(children) /\ ChildIds' = ChildIds
      /\ \A d \in ChildIds : children'[d] = IF d = c THEN w ELSE children[d]
  BY <1>5, OneChild DEF w
<1>8. /\ Queue(c, "calls") = children[c].calls /\ Queue(c, "replies") = children[c].replies
      /\ Queue(c, "lost") = children[c].lost /\ Queue(c, "calls")' = children'[c].calls
      /\ Queue(c, "replies")' = children'[c].replies /\ Queue(c, "lost")' = children'[c].lost
  BY DEF Queue
<1> QED  BY <1>6, <1>7, <1>8 DEF lost

LEMMA CrashKeeps ==
  ASSUME IInv, NEW c \in ChildIds, Crash(c)
  PROVE  IInv'
<1> USE DEF IInv
<1>1. /\ children' \in Seq(Child) /\ Len(children') = Len(children) /\ ChildIds' = ChildIds
      /\ \A d \in ChildIds :
           /\ children'[d].proc = children[d].proc /\ children'[d].told = children[d].told
           /\ d # c => children'[d] = children[d]
      /\ ~children'[c].alive /\ children'[c].running = {}
      /\ children'[c].calls = <<>> /\ Queue(c, "calls")' = <<>>
      /\ Queue(c, "replies")' = Queue(c, "replies")
      /\ Queue(c, "lost")' = Queue(c, "lost") \o Queue(c, "calls")
  BY DeadFacts DEF Crash
<1>2. /\ children[c].alive
      /\ UNCHANGED <<up, phase, taskvars, proxies, processes, timers, calls, timeouts>>
      /\ crashes' \in 0..MaxCrashes
  BY EngineBoundAssumption DEF Crash, TypeOK
<1>3. /\ Queue(c, "calls") \in Seq(Call) /\ Queue(c, "lost") \in Seq(Call)
      /\ "calls" \in Kinds /\ "replies" \in Kinds /\ "lost" \in Kinds
  BY QueueTyped DEF Kinds
<1>4. TasksKeep /\ TaskIds' = TaskIds /\ tasks' = tasks
  <2>1. UNCHANGED <<tasks, lockTail>>
    BY <1>2 DEF taskvars
  <2> QED  BY <2>1, TasksSame DEF TaskIds
<1> DEFINE Moved(d, l, i) == d = c /\ l = "lost" /\ i > Len(Queue(c, "lost"))
           OldKind(d, l, i) == IF Moved(d, l, i) THEN "calls" ELSE l
           Old(d, l, i) == IF Moved(d, l, i) THEN i - Len(Queue(c, "lost")) ELSE i
<1>5. ASSUME NEW d \in ChildIds, NEW l \in Kinds, NEW i \in 1..Len(Queue(d, l)')
      PROVE  /\ OldKind(d, l, i) \in Kinds /\ Old(d, l, i) \in 1..Len(Queue(d, OldKind(d, l, i)))
             /\ Queue(d, l)'[i] = Queue(d, OldKind(d, l, i))[Old(d, l, i)]
  <2>1. CASE d = c /\ l = "calls"
    BY <1>1, <2>1
  <2>2. CASE d = c /\ l = "lost"
    <3>1. /\ Len(Queue(c, "lost")) \in Nat /\ Len(Queue(c, "calls")) \in Nat
          /\ i \in 1..(Len(Queue(c, "lost")) + Len(Queue(c, "calls")))
          /\ Queue(d, l)'[i] = IF i <= Len(Queue(c, "lost")) THEN Queue(c, "lost")[i]
                               ELSE Queue(c, "calls")[i - Len(Queue(c, "lost"))]
      BY <1>1, <1>3, <2>2, SeqConcat, SeqElement
    <3> QED  BY <1>3, <2>2, <3>1
  <2>3. CASE d # c \/ l = "replies"
    <3>1. Queue(d, l)' = Queue(d, l)
      BY <1>1, <2>3 DEF Queue
    <3> QED  BY <2>3, <3>1
  <2> QED  BY <2>1, <2>2, <2>3 DEF Kinds
<1>6. Awaited'
  <2>1. ASSUME NEW d \in ChildIds, NEW l \in Kinds, NEW i \in 1..Len(Queue(d, l)')
        PROVE  Expected(d, Queue(d, l)[i])'
    <3> DEFINE n == Queue(d, l)'[i]
    <3>1. Expected(d, n)
      BY <1>5 DEF Awaited
    <3> HIDE DEF n
    <3>2. \A x : x = n => Expected(d, x)'
      BY <1>1, <1>4, <3>1 DEF Expected
    <3> QED  BY <3>2 DEF n
  <2> QED  BY <1>1, <2>1 DEF Awaited
<1>7. OneCall'
  <2>1. ASSUME NEW d \in ChildIds, NEW e \in ChildIds, NEW l \in Kinds, NEW n \in Kinds,
               NEW i \in 1..Len(Queue(d, l)'), NEW j \in 1..Len(Queue(e, n)'),
               Queue(d, l)'[i].task = Queue(e, n)'[j].task
        PROVE  d = e /\ l = n /\ i = j
    <3>1. d = e /\ OldKind(d, l, i) = OldKind(e, n, j) /\ Old(d, l, i) = Old(e, n, j)
      <4>1. /\ OldKind(d, l, i) \in Kinds /\ Old(d, l, i) \in 1..Len(Queue(d, OldKind(d, l, i)))
            /\ Queue(d, l)'[i] = Queue(d, OldKind(d, l, i))[Old(d, l, i)]
            /\ OldKind(e, n, j) \in Kinds /\ Old(e, n, j) \in 1..Len(Queue(e, OldKind(e, n, j)))
            /\ Queue(e, n)'[j] = Queue(e, OldKind(e, n, j))[Old(e, n, j)]
        BY <1>5
      <4> HIDE DEF Old, OldKind
      <4> QED  BY <2>1, <4>1 DEF OneCall
    <3>2. ~(d = c /\ l = "calls") /\ ~(e = c /\ n = "calls")
      BY <1>1, <2>1
    <3>3. l = n
      BY <3>1, <3>2
    <3>4. Len(Queue(c, "lost")) \in Nat
      BY <1>3, SeqElement
    <3>5. i = j
      BY <3>1, <3>2, <3>3, <3>4
    <3> QED  BY <3>1, <3>3, <3>5
  <2> QED  BY <1>1, <2>1 DEF OneCall
<1>8. Mapped'
  BY <1>1, <1>4 DEF Mapped
<1>9. \A s : (Runs(s)' => Runs(s)) /\ (Asked(s)' => Asked(s))
  <2>1. \A s : Runs(s)' => Runs(s)
    BY <1>1 DEF Runs
  <2>2. \A s : Asked(s)' => Asked(s)
    BY <1>1 DEF Asked
  <2> QED  BY <2>1, <2>2
<1>10. \A s \in TaskIds : (Starting(s)' => Starting(s)) /\ (Live(s)' => Live(s))
  BY <1>2, <1>4, <1>9 DEF Live, Starting, processes
<1>11. \A v \in Users : Quiet(v) /\ ProcOf(v)' = ProcOf(v)
  BY <1>2, <1>4, <1>10 DEF Quiet, ProcOf, proxies
<1>12. \A s \in TaskIds : tasks[s].user \in Users
  BY SeqElement, TaskTyped DEF TypeOK, TaskIds
<1>13. Killed'
  <2>1. ASSUME NEW d \in ChildIds, NEW l \in Kinds, NEW i \in 1..Len(Queue(d, l)'),
               Queue(d, l)'[i].op = "kill"
        PROVE  KillDoes(d, l, Queue(d, l)[i])'
    <3> DEFINE n == Queue(d, l)'[i]
               k == OldKind(d, l, i)
               o == Old(d, l, i)
    <3>1. k \in Kinds /\ o \in 1..Len(Queue(d, k)) /\ n = Queue(d, k)[o]
      BY <1>5
    <3>2. l # k => d = c /\ k = "calls" /\ l = "lost"
      OBVIOUS
    <3> HIDE DEF n, k, o
    <3>3. KillDoes(d, k, n) /\ Expected(d, n) /\ n.op = "kill"
      BY <2>1, <3>1 DEF n, Killed, Awaited
    <3>4. n.user \in Users
      BY <1>12, <3>3 DEF Expected
    <3>5. ASSUME NEW s \in TaskIds, tasks[s].user = n.user, Live(s)', k = "calls"
          PROVE  s \in children[d].running /\ d # c
      <4>1. ~Starting(s) /\ Live(s)
        BY <1>10, <3>1, <3>3, <3>5, KillAlone
      <4>2. s \in children[d].running
        BY <3>3, <3>5, <4>1 DEF KillDoes
      <4>3. PICK e \in ChildIds : s \in children'[e].running
        BY <1>1, <1>10, <3>5, <4>1 DEF Live, Runs
      <4>4. e # c /\ s \in children[e].running
        BY <1>1, <4>3
      <4> QED  BY <4>2, <4>4, RunsOnce
    <3>6. CASE l = k
      <4>1. \A v : v = n.user => Quiet(v)
        BY <1>11, <3>4
      <4>2. l = "calls" => \A s \in TaskIds : tasks[s].user = n.user /\ Live(s)' => s \in children'[d].running
        BY <1>1, <3>5, <3>6
      <4>3. \A x : x = n => KillDoes(d, l, x)'
        BY <1>1, <1>4, <3>3, <3>6, <4>1, <4>2 DEF KillDoes, Quiet, Stopped
      <4> QED  BY <4>3 DEF n
    <3>7. CASE l # k
      <4>1. \A s \in TaskIds : tasks[s].user = n.user => ~Live(s)'
        BY <3>2, <3>5, <3>7
      <4>2. \A x : x = n => KillDoes(d, l, x)'
        BY <1>1, <1>4, <1>11, <3>2, <3>3, <3>4, <3>7, <4>1 DEF KillDoes, Stopped
      <4> QED  BY <4>2 DEF n
    <3> QED  BY <3>6, <3>7
  <2> QED  BY <1>1, <2>1 DEF Killed
<1>14. Between'
  <2>1. ASSUME NEW v, NEW s \in TaskIds', tasks'[s].user = v, PostKill(tasks'[s])
        PROVE  Stopped(v) /\ ProcOf(v) = 0 /\ Quiet(v)
    BY <1>4, <1>11, <1>12, <2>1 DEF Between
  <2> QED  BY <2>1, BetweenKeeps
<1>15. Known' /\ BootOver' /\ Locks'
  <2>1. UNCHANGED proxies /\ timers' = timers
    BY <1>2
  <2> QED  BY <1>4, <1>10, <2>1, KnownKeeps, BootKeeps, LocksKeep
<1>16. TypeOK'
  BY <1>1, <1>2, <1>4 DEF TypeOK, TasksKeep, phase, taskvars, proxies, processes
<1>17. Calm'
  <2>1. \A d \in ChildIds : ~booted => Queue(d, "calls") = <<>> /\ Queue(d, "lost") = <<>> /\ Queue(d, "replies") = <<>>
    BY DEF Calm, Queue
  <2>2. ~booted => children'[c].running = {} /\ children'[c].calls = <<>>
                   /\ children'[c].replies = <<>> /\ children'[c].lost = <<>>
    <3>1. <<>> \o <<>> = <<>>
      OBVIOUS
    <3>2. children'[c].replies = Queue(c, "replies")' /\ children'[c].lost = Queue(c, "lost")'
      BY DEF Queue
    <3> QED  BY <1>1, <2>1, <3>1, <3>2
  <2> QED  BY <1>1, <1>2, <1>4, <2>2 DEF Calm, phase, taskvars, proxies, processes
<1>18. Workers'
  BY <1>1, <1>2 DEF Workers, processes
<1> QED  BY <1>6, <1>7, <1>8, <1>13, <1>14, <1>15, <1>16, <1>17, <1>18
-----------------------------------------------------------------------------
(* Events of a worker                                                      *)

\* A step that changes nothing of the workers but what nobody relies on.
LEMMA MinorChild ==
  ASSUME TypeOK, NEW c \in ChildIds, NEW w \in Child, children' = [children EXCEPT ![c] = w],
         w.proc = children[c].proc, w.alive = children[c].alive, w.told = children[c].told,
         w.running = children[c].running, w.map = children[c].map, w.calls = children[c].calls,
         w.replies = children[c].replies, w.lost = children[c].lost,
         w.events \subseteq children[c].events
  PROVE  /\ children' \in Seq(Child) /\ Len(children') = Len(children) /\ ChildIds' = ChildIds
         /\ ChildrenKeep
         /\ \A d \in ChildIds :
              /\ children'[d].alive = children[d].alive /\ children'[d].told = children[d].told
              /\ children'[d].events \subseteq children[d].events
<1>1. /\ children' \in Seq(Child) /\ Len(children') = Len(children) /\ ChildIds' = ChildIds
      /\ \A d \in ChildIds : children'[d] = IF d = c THEN w ELSE children[d]
  BY OneChild
<1> QED  BY <1>1 DEF ChildrenKeep

LEMMA ReadyFacts ==
  ASSUME TypeOK, NEW c \in ChildIds, children' = [children EXCEPT ![c].ready = TRUE]
  PROVE  /\ children' \in Seq(Child) /\ Len(children') = Len(children) /\ ChildIds' = ChildIds
         /\ ChildrenKeep
         /\ \A d \in ChildIds :
              /\ children'[d].alive = children[d].alive /\ children'[d].told = children[d].told
              /\ children'[d].events \subseteq children[d].events
<1> DEFINE w == [children[c] EXCEPT !.ready = TRUE]
<1>1. children[c] \in Child
  BY ChildTyped
<1>2. w \in Child
  BY <1>1 DEF Child
<1>3. /\ w.proc = children[c].proc /\ w.alive = children[c].alive /\ w.told = children[c].told
      /\ w.running = children[c].running /\ w.map = children[c].map /\ w.calls = children[c].calls
      /\ w.replies = children[c].replies /\ w.lost = children[c].lost /\ w.events = children[c].events
  BY <1>1 DEF Child
<1>4. children' = [children EXCEPT ![c] = w]
  OBVIOUS
<1> HIDE DEF w
<1> QED  BY <1>2, <1>3, <1>4, MinorChild

LEMMA EventFacts ==
  ASSUME TypeOK, NEW c \in ChildIds, NEW e, children' = [children EXCEPT ![c].events = @ \ {e}]
  PROVE  /\ children' \in Seq(Child) /\ Len(children') = Len(children) /\ ChildIds' = ChildIds
         /\ ChildrenKeep
         /\ \A d \in ChildIds :
              /\ children'[d].alive = children[d].alive /\ children'[d].told = children[d].told
              /\ children'[d].events \subseteq children[d].events
<1> DEFINE left == children[c].events \ {e}
           w == [children[c] EXCEPT !.events = left]
<1>1. children[c] \in Child /\ left \in SUBSET {"disconnect", "exit"}
  BY ChildTyped
<1>2. left \subseteq children[c].events
  OBVIOUS
<1>3. children' = [children EXCEPT ![c] = w]
  OBVIOUS
<1> HIDE DEF left
<1>4. w \in Child
  BY <1>1 DEF Child
<1>5. /\ w.proc = children[c].proc /\ w.alive = children[c].alive /\ w.told = children[c].told
      /\ w.running = children[c].running /\ w.map = children[c].map /\ w.calls = children[c].calls
      /\ w.replies = children[c].replies /\ w.lost = children[c].lost /\ w.events = left
  BY <1>1 DEF Child
<1> HIDE DEF w
<1> QED  BY <1>2, <1>3, <1>4, <1>5, MinorChild

\* Each task keeps its record or gets a new one, and none changes but tasks
\* that wait for a worker.
LEMMA WaitersKeep ==
  ASSUME TypeOK, Locks, NEW W, lockTail' = lockTail,
         NEW f \in [TaskIds -> Task], tasks' = f,
         \A t \in TaskIds : t \notin W => f[t] = tasks[t],
         \A t \in TaskIds : t \in W => SameTask(f[t], tasks[t]) /\ tasks[t].at = "waiting"
  PROVE  /\ TasksKeep /\ WorkKept
         /\ \A t \in TaskIds : t \notin W => tasks'[t] = tasks[t]
<1>1. Len(tasks) \in Nat /\ \A t \in TaskIds : tasks[t] \in Task /\ Stages(tasks[t])
  BY SeqElement DEF TypeOK, TaskIds, Locks
<1>2. f \in [1..Len(tasks) -> Task]
  BY DEF TaskIds
<1>3. tasks' \in Seq(Task) /\ Len(tasks') = Len(tasks)
  BY <1>1, <1>2, SeqOf
<1>4. TaskIds' = TaskIds
  BY <1>3 DEF TaskIds
<1>5. \A t \in TaskIds : SameTask(f[t], tasks[t]) /\ f[t] \in Task
  BY <1>1 DEF SameTask
<1>6. \A t \in TaskIds : Begun(tasks'[t]) => (Begun(tasks[t]) \/ Granted(t))
  BY DEF Begun
<1>7. TasksKeep
  BY <1>3, <1>4, <1>5, <1>6 DEF TasksKeep
<1>8. WorkKept
  BY <1>4, <1>5 DEF WorkKept, SameTask
<1> QED  BY <1>7, <1>8

LEMMA ChildReadyKeeps ==
  ASSUME IInv, NEW c \in ChildIds, ChildReady(c)
  PROVE  IInv'
<1> USE DEF IInv
<1> DEFINE p == children[c].proc
           W == {t \in TaskIds : tasks[t].at = "waiting" /\ tasks[t].child = c}
           f == [t \in TaskIds |-> IF t \in W THEN [tasks[t] EXCEPT !.at = "token", !.proc = p]
                                   ELSE tasks[t]]
<1>1. /\ children' \in Seq(Child) /\ Len(children') = Len(children) /\ ChildIds' = ChildIds
      /\ ChildrenKeep
      /\ \A d \in ChildIds :
           /\ children'[d].alive = children[d].alive /\ children'[d].told = children[d].told
           /\ children'[d].events \subseteq children[d].events
  BY ReadyFacts DEF ChildReady
<1>2. /\ procs' = [procs EXCEPT ![p].starting = "none"]
      /\ tasks' = f /\ listening' = listening \cup W
      /\ UNCHANGED <<up, phase, lockTail, engines, registered, nextProcess, timers, bounds>>
  BY DEF ChildReady
<1>3. p \in Shared /\ p # 0 /\ p \in 0..(NProcs + MaxTasks) /\ p \in DOMAIN procs
  BY ProcAssumption, EngineBoundAssumption DEF Workers, Shared, TypeOK
<1>4. ASSUME NEW t \in W
      PROVE  SameTask(f[t], tasks[t]) /\ f[t].at = "token" /\ f[t].proc = p
  <2>1. tasks[t] \in Task /\ Stages(tasks[t]) /\ tasks[t].at = "waiting"
    BY SeqElement DEF TypeOK, TaskIds, Locks
  <2>2. f[t] = [tasks[t] EXCEPT !.at = "token", !.proc = p]
    OBVIOUS
  <2> HIDE DEF f, p
  <2>3. f[t] \in Task
    BY <1>3, <2>1, <2>2, TaskTyped DEF Task
  <2>4. /\ f[t].op = tasks[t].op /\ f[t].user = tasks[t].user /\ f[t].prev = tasks[t].prev
        /\ f[t].todo = tasks[t].todo /\ f[t].at = "token" /\ f[t].proc = p
    BY <2>1, <2>2 DEF Task
  <2> QED  BY <1>3, <2>1, <2>3, <2>4 DEF SameTask, Stages
<1>5. /\ TasksKeep /\ WorkKept
      /\ \A t \in TaskIds : tasks'[t] = f[t] /\ (t \notin W => tasks'[t] = tasks[t])
  <2>1. f \in [TaskIds -> Task]
    <3>1. \A t \in TaskIds : tasks[t] \in Task
      BY SeqElement DEF TypeOK, TaskIds
    <3>2. \A t \in TaskIds : f[t] \in Task
      BY <1>4, <3>1 DEF SameTask
    <3> QED  BY <3>2
  <2>2. \A t \in TaskIds : t \notin W => f[t] = tasks[t]
    OBVIOUS
  <2>3. \A t \in TaskIds : t \in W => SameTask(f[t], tasks[t]) /\ tasks[t].at = "waiting"
    BY <1>4
  <2>4. lockTail' = lockTail /\ tasks' = f
    BY <1>2
  <2> HIDE DEF f, W
  <2> QED  BY <2>1, <2>2, <2>3, <2>4, WaitersKeep
<1>6. \A t \in W : t \in TaskIds /\ tasks[t].at = "waiting" /\ tasks'[t].at = "token" /\ tasks'[t].proc = p
  BY <1>4, <1>5
<1> HIDE DEF W, f
<1>7. /\ procs' \in [1..(NProcs + MaxTasks) -> Process]
      /\ \A q \in DOMAIN procs :
           /\ procs'[q].sock = procs[q].sock /\ procs'[q].hadExit = procs[q].hadExit
           /\ procs'[q].dying = procs[q].dying
           /\ procs'[q].starting \in {"none", procs[q].starting}
  <2>1. procs \in [1..(NProcs + MaxTasks) -> Process]
    BY DEF TypeOK
  <2> HIDE DEF p
  <2> QED  BY <1>2, <1>3, <2>1 DEF Process
<1>8. Awaited' /\ OneCall' /\ Mapped' /\ \A s : (Asked(s)' <=> Asked(s)) /\ (Runs(s)' <=> Runs(s))
  BY <1>1, <1>5, CallsKeep, QueuesKeep
<1>9. TaskIds' = TaskIds /\ engines' = engines /\ \A s \in TaskIds : tasks'[s].user = tasks[s].user
  BY <1>2, <1>5 DEF TasksKeep, SameTask
<1>10. \A s \in TaskIds : (Starting(s)' => Starting(s)) /\ (Live(s)' => Live(s))
  <2>1. ASSUME NEW s \in TaskIds, Starting(s)'
        PROVE  Starting(s)
    <3>1. CASE s \in W
      BY <1>6, <3>1 DEF Starting
    <3>2. CASE s \notin W
      <4>1. tasks'[s] = tasks[s]
        BY <1>5, <3>2
      <4>2. tasks[s].at = "token" => tasks[s].proc \in DOMAIN procs
        BY ProcAssumption, EngineBoundAssumption DEF Locks, Stages, TypeOK, Shared
      <4> QED  BY <1>7, <1>8, <2>1, <4>1, <4>2 DEF Starting
    <3> QED  BY <3>1, <3>2
  <2> QED  BY <2>1, <1>8 DEF Live
<1>11. ASSUME NEW u \in Users, NEW k \in TaskIds, tasks[k].user = u, Active(k), tasks[k].at # "waiting"
       PROVE  Quiet(u) /\ ProcOf(u)' = ProcOf(u)
  <2>1. engines[u] \notin W
    <3>1. ASSUME engines[u] \in W
          PROVE  FALSE
      <4>1. engines[u] \in TaskIds /\ engines[u] # 0 /\ Starting(engines[u]) /\ engines[u] # k
        BY <1>6, <1>11, <3>1 DEF Starting, TaskIds
      <4>2. tasks[engines[u]].user = u
        BY <4>1 DEF Known
      <4> QED  BY <1>11, <4>1, <4>2, Alone
    <3> QED  BY <3>1
  <2>2. ProcOf(u)' = ProcOf(u)
    BY <1>5, <1>9, <2>1 DEF ProcOf, Known
  <2> QED  BY <1>9, <1>10, <2>2 DEF Quiet
<1>12. \A s \in TaskIds : tasks[s].user \in Users
  BY SeqElement, TaskTyped DEF TypeOK, TaskIds
<1>13. Killed'
  <2>1. ASSUME NEW s \in TaskIds, tasks[s].at = "killing"
        PROVE  Active(s) /\ tasks[s].at # "waiting"
    BY <2>1 DEF Active, Locks, Stages, Locked, Begun
  <2> QED  BY <1>1, <1>11, <1>12, <2>1, KillsKeep
<1>14. Between'
  <2>1. ASSUME NEW u, NEW s \in TaskIds', tasks'[s].user = u, PostKill(tasks'[s])
        PROVE  Stopped(u) /\ ProcOf(u) = 0 /\ Quiet(u)
    <3>1. s \in TaskIds /\ tasks'[s] = tasks[s] /\ u \in Users
      BY <1>5, <1>6, <1>9, <1>12, <2>1 DEF PostKill
    <3>2. Active(s) /\ tasks[s].at # "waiting"
      BY <2>1, <3>1 DEF Active, PostKill, Locked, Begun
    <3> QED  BY <1>11, <2>1, <3>1, <3>2 DEF Between
  <2> QED  BY <2>1, BetweenKeeps
<1>15. Known'
  <2>1. ASSUME NEW s \in TaskIds, Live(s)'
        PROVE  engines'[tasks'[s].user] = s
    BY <1>9, <1>10, <2>1 DEF Known
  <2>2. ASSUME NEW v \in Users, engines'[v] # 0
        PROVE  /\ engines'[v] \in TaskIds /\ tasks'[engines'[v]].user = v
               /\ tasks'[engines'[v]].proc # 0 => engines'[v] \in listening'
    BY <1>2, <1>5, <1>9, <2>2 DEF Known
  <2>3. ASSUME NEW s \in listening'
        PROVE  s \in TaskIds /\ tasks'[s].proc # 0
    BY <1>2, <1>3, <1>5, <1>6, <2>3 DEF Known
  <2> QED  BY <1>9, <2>1, <2>2, <2>3 DEF Known
<1>16. BootOver' /\ Locks'
  <2>1. timers' = timers
    BY <1>2
  <2> QED  BY <1>5, <1>10, <2>1, BootKeeps, LocksKeep
<1>17. TypeOK'
  <2>1. listening' \subseteq TaskIds
    BY <1>2, <1>6 DEF TypeOK
  <2> QED  BY <1>1, <1>2, <1>5, <1>7, <1>9, <2>1 DEF TypeOK, TasksKeep, phase, bounds
<1>18. Calm'
  <2>1. ~booted => listening' = {} /\ tasks' = <<>>
    <3>1. ~booted => tasks = <<>> /\ listening = {}
      BY DEF Calm
    <3>2. ~booted => tasks' = <<>>
      BY <1>5, <3>1 DEF TasksKeep
    <3>3. ~booted => W = {}
      BY <1>6, <3>1 DEF TaskIds
    <3> QED  BY <1>2, <3>1, <3>2, <3>3
  <2>2. stopped' = stopped /\ booted' = booted /\ timers' = timers /\ lockTail' = lockTail
    BY <1>2 DEF phase
  <2>3. DOMAIN procs' = DOMAIN procs
    BY <1>7 DEF TypeOK
  <2> QED  BY <1>1, <1>7, <1>9, <2>1, <2>2, <2>3 DEF Calm, ChildrenKeep
<1>19. Workers'
  <2>1. \A q \in Shared : q \in DOMAIN procs
    BY ProcAssumption, EngineBoundAssumption DEF TypeOK, Shared
  <2> QED  BY <1>1, <1>7, <2>1 DEF Workers, ChildrenKeep
<1> QED  BY <1>8, <1>13, <1>14, <1>15, <1>16, <1>17, <1>18, <1>19
LEMMA StartStageKeeps ==
  ASSUME SharedOnly, IInv, NEW t \in TaskIds, StartStage(t)
  PROVE  IInv'
<1>1. AtStage(t, "start") /\ UNCHANGED <<phase, timers, bounds>>
  BY DEF StartStage
<1>2. CASE tasks[t].user \in deleted
  <2>1. Step(t, Failed(tasks[t])) /\ UNCHANGED <<phase, proxies, processes, children, timers, bounds>>
    BY <1>1, <1>2 DEF StartStage
  <2> QED  BY <1>1, <2>1, StartFails
<1>3. CASE tasks[t].user \notin deleted
  <2>1. RunShared(t, tasks[t].user)
    BY <1>3 DEF StartStage, SharedOnly
  <2> QED  BY <1>1, <2>1, RunSharedKeeps
<1> QED  BY <1>2, <1>3

LEMMA SeqEmpty ==
  ASSUME NEW S, NEW s \in Seq(S), Len(s) = 0
  PROVE  s = <<>>
OBVIOUS

\* An exit ends only engines that neither start nor run any more: H are the
\* tasks whose listeners hear of it.
LEMMA EndedKeeps ==
  ASSUME IInv, ChildrenKeep, ChildIds' = ChildIds,
         children' \in Seq(Child), Len(children') = Len(children),
         \A d \in ChildIds : children'[d].told = children[d].told,
         TasksKeep, WorkKept, up' \in BOOLEAN,
         \A t \in TaskIds : \/ tasks'[t] = tasks[t]
                            \/ (tasks[t].at = "waiting" /\ tasks'[t].at = "done"
                                /\ tasks'[t].proc = tasks[t].proc),
         NEW H, listening' = listening \ H,
         engines' \in [Users -> 0..Len(tasks)],
         \A u \in Users : engines'[u] = IF engines[u] \in H THEN 0 ELSE engines[u],
         timers' \in [Users -> Nat],
         \A u \in Users : engines[u] \notin H \/ engines[u] \notin listening => timers'[u] = timers[u],
         \A t \in TaskIds : t \in H => ~Live(t)',
         procs' \in [1..(NProcs + MaxTasks) -> Process],
         \A q \in DOMAIN procs : procs'[q].sock \in {0, procs[q].sock} /\ procs'[q].dying = "no",
         Workers', registered' \in [Users -> 0..(NProcs + MaxTasks)],
         UNCHANGED <<phase, nextProcess, bounds>>
  PROVE  IInv'
<1> USE DEF IInv
<1>1. Awaited' /\ OneCall' /\ Mapped' /\ \A s : (Asked(s)' <=> Asked(s)) /\ (Runs(s)' <=> Runs(s))
  BY CallsKeep, QueuesKeep
<1>2. /\ TaskIds' = TaskIds /\ lockTail' = lockTail
      /\ \A s \in TaskIds :
           /\ tasks'[s].user = tasks[s].user /\ tasks'[s].proc = tasks[s].proc
           /\ tasks[s].user \in Users
  <2>1. \A s \in TaskIds : tasks[s].user \in Users
    BY SeqElement, TaskTyped DEF TypeOK, TaskIds
  <2> QED  BY <2>1 DEF TasksKeep, SameTask
<1>3. \A s \in TaskIds : (Starting(s)' => Starting(s)) /\ (Live(s)' => Live(s))
  <2>1. ASSUME NEW s \in TaskIds, Starting(s)'
        PROVE  Starting(s)
    <3>1. CASE tasks'[s] = tasks[s]
      <4>1. tasks[s].at = "token" => tasks[s].proc \in DOMAIN procs
        BY ProcAssumption, EngineBoundAssumption DEF Locks, Stages, TypeOK, Shared
      <4> QED  BY <1>1, <2>1, <3>1, <4>1 DEF Starting
    <3>2. CASE tasks[s].at = "waiting"
      BY <3>2 DEF Starting
    <3> QED  BY <3>1, <3>2
  <2> QED  BY <2>1, <1>1 DEF Live
<1>4. \A u \in Users : Quiet(u)
  <2>1. \A u \in Users : ProcOf(u)' \in {0, ProcOf(u)}
    BY <1>2 DEF ProcOf, Known
  <2> QED  BY <1>2, <1>3, <2>1 DEF Quiet
<1>5. Killed'
  BY <1>2, <1>4, KillsKeep
<1>6. Between'
  <2>1. ASSUME NEW u, NEW s \in TaskIds', tasks'[s].user = u, PostKill(tasks'[s])
        PROVE  Stopped(u) /\ ProcOf(u) = 0 /\ Quiet(u)
    <3>1. s \in TaskIds /\ tasks'[s] = tasks[s] /\ u \in Users
      BY <1>2, <2>1 DEF PostKill
    <3> QED  BY <1>4, <2>1, <3>1 DEF Between
  <2> QED  BY <2>1, BetweenKeeps
<1>7. Known'
  <2>1. ASSUME NEW s \in TaskIds, Live(s)'
        PROVE  engines'[tasks'[s].user] = s
    <3>1. s \notin H /\ engines[tasks[s].user] = s
      BY <1>3, <2>1 DEF Known
    <3> QED  BY <1>2, <3>1
  <2>2. ASSUME NEW v \in Users, engines'[v] # 0
        PROVE  /\ engines'[v] \in TaskIds /\ tasks'[engines'[v]].user = v
               /\ tasks'[engines'[v]].proc # 0 => engines'[v] \in listening'
    <3>1. engines[v] \notin H /\ engines'[v] = engines[v]
      BY <2>2
    <3>2. /\ engines[v] \in TaskIds /\ tasks[engines[v]].user = v
          /\ tasks[engines[v]].proc # 0 => engines[v] \in listening
      BY <2>2, <3>1 DEF Known
    <3>3. \A e : e = engines[v] => e \in TaskIds /\ tasks'[e].user = v /\ (tasks'[e].proc # 0 => e \in listening')
      BY <1>2, <3>1, <3>2
    <3> QED  BY <3>1, <3>3
  <2>3. ASSUME NEW s \in listening'
        PROVE  s \in TaskIds /\ tasks'[s].proc # 0
    BY <1>2, <2>3 DEF Known
  <2> QED  BY <1>2, <2>1, <2>2, <2>3 DEF Known
<1>8. BootOver'
  <2>1. \A b \in TaskIds : ~Locked(b) /\ Starting(b)' => Starting(b)
    BY <1>3
  <2>2. ASSUME NEW b \in TaskIds, ~Locked(b), Starting(b)'
        PROVE  timers'[tasks[b].user] = timers[tasks[b].user]
    <3>1. Live(b) /\ Live(b)'
      BY <1>3, <2>2 DEF Live
    <3>2. engines[tasks[b].user] = b /\ b \notin H
      BY <3>1 DEF Known
    <3> QED  BY <1>2, <3>2
  <2> QED  BY <2>1, <2>2, BootKeeps
<1>9. Locks'
  BY LocksKeep
<1>10. TypeOK'
  BY <1>2 DEF TypeOK, TasksKeep, phase, bounds
<1>11. Calm'
  <2>1. stopped' = stopped /\ booted' = booted
    BY DEF phase
  <2>2. DOMAIN procs' = DOMAIN procs
    BY DEF TypeOK
  <2>3. ~booted => tasks' = <<>> /\ listening' = {}
    <3>1. ~booted => tasks = <<>> /\ listening = {}
      BY DEF Calm
    <3>2. Len(tasks') = Len(tasks) /\ tasks' \in Seq(Task)
      BY DEF TasksKeep
    <3>3. ~booted => Len(tasks') = 0
      BY <3>1, <3>2
    <3>4. ~booted => tasks' = <<>>
      BY <3>2, <3>3, SeqEmpty
    <3> QED  BY <3>1, <3>4
  <2>4. ~booted => \A u \in Users : engines'[u] = 0 /\ timers'[u] = 0 /\ lockTail'[u] = 0
    BY <1>2 DEF Calm
  <2> QED  BY <2>1, <2>2, <2>3, <2>4 DEF Calm, ChildrenKeep
<1> QED  BY <1>1, <1>5, <1>6, <1>7, <1>8, <1>9, <1>10, <1>11

\* The record of a process whose worker is gone.
LEMMA ClosedTyped ==
  ASSUME NEW r \in Process
  PROVE  LET new == [r EXCEPT !.child = 0, !.sock = 0, !.starting = "delay"] IN
         new \in Process /\ new.sock = 0 /\ new.hadExit = r.hadExit /\ new.dying = r.dying
<1>1. 0 \in 0..MaxChildren
  BY EngineBoundAssumption
<1> QED  BY <1>1 DEF Process

\* The first exit that a process reports, and those after it.
LEMMA OnceExitKeeps ==
  ASSUME IInv, NEW c \in ChildIds, children[c].events # {},
         ChildrenKeep, ChildIds' = ChildIds,
         children' \in Seq(Child), Len(children') = Len(children),
         \A d \in ChildIds :
           /\ children'[d].alive = children[d].alive /\ children'[d].told = children[d].told
           /\ children'[d].events \subseteq children[d].events,
         TasksKeep, WorkKept, up' \in BOOLEAN,
         \A t \in TaskIds : \/ tasks'[t] = tasks[t]
                            \/ (tasks[t].at = "waiting" /\ tasks'[t].at = "done"
                                /\ tasks'[t].proc = tasks[t].proc),
         NEW before \in [1..(NProcs + MaxTasks) -> Process],
         \A q \in DOMAIN procs :
           /\ before[q].sock = procs[q].sock /\ before[q].hadExit = procs[q].hadExit
           /\ before[q].starting \in {procs[q].starting, "failed"} /\ before[q].dying = "no",
         OnceExit(children[c].proc, before),
         UNCHANGED <<phase, nextProcess, bounds>>
  PROVE  IInv'
<1> USE DEF IInv
<1> DEFINE p == children[c].proc
<1>1. p \in Shared /\ p # 0 /\ p \in 1..(NProcs + MaxTasks) /\ DOMAIN procs = 1..(NProcs + MaxTasks)
  BY ProcAssumption, EngineBoundAssumption DEF Workers, Shared, TypeOK
<1>2. \A q \in Shared : q \in DOMAIN procs
  BY <1>1, ProcAssumption, EngineBoundAssumption DEF Shared
<1>3. /\ ~children[c].alive /\ children[c].running = {} /\ children[c].calls = <<>>
      /\ ~stopped
  BY DEF Workers, Calm
<1>4. \A u \in Users : engines[u] \in 0..Len(tasks) /\ timers[u] \in Nat
  BY DEF TypeOK
<1>5. CASE before[p].hadExit
  <2>0. PICK H : H = {}
    OBVIOUS
  <2>1. procs' = before /\ UNCHANGED <<proxies, registered, timers>>
    BY <1>5 DEF OnceExit
  <2>2. Workers'
    BY <1>2, <2>1 DEF Workers, ChildrenKeep
  <2>3. /\ listening' = listening \ H /\ engines' \in [Users -> 0..Len(tasks)]
        /\ \A u \in Users : engines'[u] = IF engines[u] \in H THEN 0 ELSE engines[u]
        /\ timers' \in [Users -> Nat] /\ timers' = timers
        /\ registered' \in [Users -> 0..(NProcs + MaxTasks)]
    BY <2>0, <2>1 DEF TypeOK, proxies
  <2>4. /\ procs' \in [1..(NProcs + MaxTasks) -> Process]
        /\ \A q \in DOMAIN procs : procs'[q].sock \in {0, procs[q].sock} /\ procs'[q].dying = "no"
        /\ \A t \in TaskIds : t \in H => ~Live(t)'
        /\ \A u \in Users : engines[u] \notin H \/ engines[u] \notin listening => timers'[u] = timers[u]
    BY <2>0, <2>1, <2>3
  <2> QED  BY <2>2, <2>3, <2>4, EndedKeeps
<1>6. CASE ~before[p].hadExit
  <2> DEFINE H == {t \in listening : tasks[t].proc = p}
             bef == [before EXCEPT ![p].hadExit = TRUE]
  <2>1. EmitExit({p}, FALSE, stopped, bef)
    BY <1>6 DEF OnceExit
  <2>2. {t \in listening : tasks[t].proc \in {p}} = H
    OBVIOUS
  <2>3. /\ listening' = listening \ H
        /\ engines' = [u \in Users |-> IF engines[u] \in H THEN 0 ELSE engines[u]]
        /\ timers' \in [Users -> Nat]
        /\ \A u \in Users : engines[u] \notin H => timers'[u] = timers[u]
        /\ registered' = [u \in Users |-> IF registered[u] \in {p} THEN 0 ELSE registered[u]]
    <3>1. \A u \in Users : timers[u] + 1 \in Nat
      BY <1>4
    <3>2. {t \in listening : tasks[t].proc \in {p}} = H
      BY <2>2
    <3> HIDE DEF H, bef, p
    <3>3. engines' = [u \in Users |-> IF engines[u] \in H THEN 0 ELSE engines[u]]
      BY <2>1, <3>2 DEF EmitExit
    <3>4. timers' \in [Users -> Nat] /\ \A u \in Users : engines[u] \notin H => timers'[u] = timers[u]
      BY <1>4, <2>1, <3>1, <3>2 DEF EmitExit
    <3> QED  BY <2>1, <3>2, <3>3, <3>4 DEF EmitExit
  <2>4. procs' = [q \in DOMAIN bef |->
                    IF q = p THEN [bef[q] EXCEPT !.child = 0, !.sock = 0, !.starting = "delay"] ELSE bef[q]]
    <3> HIDE DEF bef, p
    <3> QED  BY <1>1, <1>3, <2>1 DEF EmitExit, IsShared
  <2>5. /\ bef \in [1..(NProcs + MaxTasks) -> Process]
        /\ \A q \in 1..(NProcs + MaxTasks) : bef[q] = IF q = p THEN [before[q] EXCEPT !.hadExit = TRUE] ELSE before[q]
        /\ bef[p].hadExit = TRUE /\ bef[p].dying = "no"
    <3> HIDE DEF p
    <3>1. before[p] \in Process
      BY <1>1
    <3>2. [before[p] EXCEPT !.hadExit = TRUE] \in Process
      BY <3>1 DEF Process
    <3> QED  BY <1>1, <3>1, <3>2 DEF Process
  <2> HIDE DEF bef
  <2>6. /\ procs' \in [1..(NProcs + MaxTasks) -> Process]
        /\ procs'[p].sock = 0 /\ procs'[p].hadExit /\ procs'[p].dying = "no"
        /\ \A q \in 1..(NProcs + MaxTasks) : q # p => procs'[q] = before[q]
    <3> DEFINE new == [bef[p] EXCEPT !.child = 0, !.sock = 0, !.starting = "delay"]
    <3> HIDE DEF p
    <3>1. bef[p] \in Process
      BY <1>1, <2>5
    <3>2. new \in Process /\ new.sock = 0 /\ new.hadExit = bef[p].hadExit /\ new.dying = bef[p].dying
      BY <3>1, ClosedTyped
    <3> HIDE DEF new
    <3>3. procs' = [q \in 1..(NProcs + MaxTasks) |-> IF q = p THEN new ELSE bef[q]]
      BY <2>4, <2>5 DEF new
    <3> QED  BY <1>1, <2>5, <3>2, <3>3
  <2>7. \A d \in ChildIds : children[d].proc = p => d = c
    BY <1>1, <1>6 DEF Workers
  <2>8. ASSUME NEW t \in TaskIds, t \in H
        PROVE  ~Live(t)'
    <3>1. tasks[t].proc = p /\ tasks[t].at # "waiting" /\ tasks'[t] = tasks[t]
      BY <1>1, <2>8 DEF Locks, Stages
    <3>2. \A s : (Asked(s)' <=> Asked(s)) /\ (Runs(s)' <=> Runs(s))
      BY QueuesKeep
    <3>3. ~Runs(t)
      BY <1>3, <2>7, <3>1 DEF Runs, Mapped
    <3>4. ~Asked(t)
      <4>1. ASSUME NEW d \in ChildIds, NEW i \in 1..Len(children[d].calls),
                   children[d].calls[i].op = "run", children[d].calls[i].task = t
            PROVE  FALSE
        <5>1. Queue(d, "calls") = children[d].calls
          BY DEF Queue
        <5>2. Expected(d, children[d].calls[i])
          BY <5>1 DEF Awaited, Kinds
        <5>3. children[d].proc = p
          BY <3>1, <4>1, <5>2 DEF Expected
        <5>4. children[d].calls = <<>>
          BY <1>3, <2>7, <5>3
        <5> QED  BY <5>4
      <4> QED  BY <4>1 DEF Asked
    <3> QED  BY <2>6, <3>1, <3>2, <3>3, <3>4 DEF Live, Starting
  <2>9. Workers'
    <3>1. \A d \in ChildIds : children'[d].proc = children[d].proc
      BY DEF ChildrenKeep
    <3>2. \A d \in ChildIds : children'[d].alive => procs'[children'[d].proc].sock = d
      <4>1. ASSUME NEW d \in ChildIds, children[d].alive
            PROVE  procs'[children[d].proc].sock = d
        <5>1. children[d].proc # p /\ children[d].proc \in Shared
          BY <1>3, <2>7, <4>1 DEF Workers
        <5>2. procs[children[d].proc].sock = d /\ children[d].proc \in 1..(NProcs + MaxTasks)
          BY <1>1, <1>2, <4>1, <5>1 DEF Workers
        <5> QED  BY <1>1, <2>6, <5>1, <5>2
      <4> QED  BY <3>1, <4>1
    <3>3. \A d \in ChildIds :
            /\ children'[d].proc \in Shared
            /\ ~children'[d].alive => children'[d].running = {} /\ children'[d].calls = <<>>
            /\ children'[d].events # {} => ~children'[d].alive
      BY DEF ChildrenKeep, Workers
    <3>4. ASSUME NEW q \in Shared
          PROVE  /\ procs'[q].sock # 0 => procs'[q].sock \in ChildIds /\ children'[procs'[q].sock].proc = q
                 /\ procs'[q].starting = "delay" => procs'[q].sock = 0 /\ procs'[q].hadExit
                 /\ ~procs'[q].hadExit =>
                      \A d, e \in ChildIds : children'[d].proc = q /\ children'[e].proc = q => d = e
      <4>1. CASE q = p
        BY <2>6, <4>1
      <4>2. CASE q # p
        <5>1. /\ procs'[q].sock = procs[q].sock /\ procs'[q].hadExit = procs[q].hadExit
              /\ procs'[q].starting \in {procs[q].starting, "failed"}
          BY <1>1, <1>2, <2>6, <4>2
        <5> QED  BY <3>1, <5>1 DEF Workers
      <4> QED  BY <4>1, <4>2
    <3> QED  BY <3>2, <3>3, <3>4 DEF Workers
  <2>10. \A q \in DOMAIN procs : procs'[q].sock \in {0, procs[q].sock} /\ procs'[q].dying = "no"
    BY <1>1, <2>6
  <2>11. engines' \in [Users -> 0..Len(tasks)] /\ \A u \in Users : engines'[u] = IF engines[u] \in H THEN 0 ELSE engines[u]
    <3>1. 0 \in 0..Len(tasks)
      BY SeqElement DEF TypeOK
    <3> QED  BY <1>4, <2>3, <3>1
  <2>12. registered' \in [Users -> 0..(NProcs + MaxTasks)]
    BY <2>3, ProcAssumption, EngineBoundAssumption DEF TypeOK
  <2>13. \A u \in Users : engines[u] \notin H \/ engines[u] \notin listening => timers'[u] = timers[u]
    BY <2>3
  <2>14. listening' = listening \ H /\ timers' \in [Users -> Nat]
    BY <2>3
  <2> HIDE DEF H, p
  <2> QED  BY <2>6, <2>8, <2>9, <2>10, <2>11, <2>12, <2>13, <2>14, EndedKeeps
<1> QED  BY <1>5, <1>6

\* The tasks that wait for a worker fail when it exits.
LEMMA WaitersFail ==
  ASSUME TypeOK, Locks, NEW c, lockTail' = lockTail,
         tasks' = [t \in TaskIds |-> IF t \in {s \in TaskIds : tasks[s].at = "waiting" /\ tasks[s].child = c}
                                     THEN Failed(tasks[t]) ELSE tasks[t]]
  PROVE  /\ TasksKeep /\ WorkKept
         /\ \A t \in TaskIds : \/ tasks'[t] = tasks[t]
                               \/ (tasks[t].at = "waiting" /\ tasks'[t].at = "done"
                                   /\ tasks'[t].proc = tasks[t].proc)
<1> DEFINE W == {s \in TaskIds : tasks[s].at = "waiting" /\ tasks[s].child = c}
           f == [t \in TaskIds |-> IF t \in W THEN Failed(tasks[t]) ELSE tasks[t]]
<1>1. \A t \in TaskIds : tasks[t] \in Task /\ Stages(tasks[t])
  BY SeqElement DEF TypeOK, TaskIds, Locks
<1>2. \A t \in TaskIds : SameTask(Failed(tasks[t]), tasks[t]) /\ Failed(tasks[t]).at = "done"
                         /\ Failed(tasks[t]).proc = tasks[t].proc
  BY <1>1, FailedFacts
<1>3. tasks' = f /\ \A t \in W : tasks[t].at = "waiting" /\ t \in TaskIds
  OBVIOUS
<1>4. \A t \in TaskIds : f[t] = IF t \in W THEN Failed(tasks[t]) ELSE tasks[t]
  OBVIOUS
<1>5. f \in [TaskIds -> Task]
  BY <1>1, <1>2 DEF SameTask
<1> HIDE DEF f, W
<1>6. /\ \A t \in TaskIds : t \notin W => f[t] = tasks[t]
      /\ \A t \in TaskIds : t \in W => SameTask(f[t], tasks[t]) /\ tasks[t].at = "waiting"
  BY <1>2, <1>3, <1>4
<1>7. TasksKeep /\ WorkKept
  BY <1>3, <1>5, <1>6, WaitersKeep
<1> QED  BY <1>2, <1>3, <1>4, <1>7

LEMMA TasksStay ==
  ASSUME TypeOK, Locks, UNCHANGED <<tasks, lockTail>>
  PROVE  /\ TasksKeep /\ WorkKept
         /\ \A t \in TaskIds : tasks'[t] = tasks[t]
<1>1. \A t \in TaskIds : tasks[t] \in Task /\ Stages(tasks[t])
  BY SeqElement DEF TypeOK, TaskIds, Locks
<1>2. TasksKeep
  BY <1>1 DEF TasksKeep, SameTask, TypeOK, TaskIds
<1> QED  BY <1>2 DEF WorkKept, TasksKeep

LEMMA DisconnectKeeps ==
  ASSUME IInv, NEW c \in ChildIds, Disconnect(c)
  PROVE  IInv'
<1>1. /\ children[c].events # {} /\ children' = [children EXCEPT ![c].events = @ \ {"disconnect"}]
      /\ OnceExit(children[c].proc, procs)
      /\ UNCHANGED <<phase, nextProcess, bounds>> /\ UNCHANGED <<tasks, lockTail>> /\ up' = up
  BY DEF Disconnect, taskvars
<1>2. /\ children' \in Seq(Child) /\ Len(children') = Len(children) /\ ChildIds' = ChildIds
      /\ ChildrenKeep
      /\ \A d \in ChildIds :
           /\ children'[d].alive = children[d].alive /\ children'[d].told = children[d].told
           /\ children'[d].events \subseteq children[d].events
  BY <1>1, EventFacts DEF IInv
<1>3. TasksKeep /\ WorkKept /\ \A t \in TaskIds : tasks'[t] = tasks[t]
  BY <1>1, TasksStay DEF IInv
<1>4. /\ up' \in BOOLEAN /\ procs \in [1..(NProcs + MaxTasks) -> Process]
      /\ \A q \in DOMAIN procs : procs[q].dying = "no"
  BY <1>1 DEF IInv, TypeOK, Calm
<1> QED  BY <1>1, <1>2, <1>3, <1>4, OnceExitKeeps

LEMMA ExitKeeps ==
  ASSUME IInv, NEW c \in ChildIds, Exit(c)
  PROVE  IInv'
<1> DEFINE p == children[c].proc
           st == IF ~children[c].ready /\ procs[p].sock = c /\ procs[p].starting = "child"
                 THEN "failed" ELSE procs[p].starting
           before == [procs EXCEPT ![p].child = 0, ![p].dying = "no", ![p].starting = st]
<1>1. /\ children[c].events # {} /\ children' = [children EXCEPT ![c].events = @ \ {"exit"}]
      /\ OnceExit(p, before)
      /\ UNCHANGED <<phase, nextProcess, bounds>>
      /\ up' \in BOOLEAN /\ lockTail' = lockTail
  BY DEF Exit
<1>2. /\ children' \in Seq(Child) /\ Len(children') = Len(children) /\ ChildIds' = ChildIds
      /\ ChildrenKeep
      /\ \A d \in ChildIds :
           /\ children'[d].alive = children[d].alive /\ children'[d].told = children[d].told
           /\ children'[d].events \subseteq children[d].events
  BY <1>1, EventFacts DEF IInv
<1>3. /\ TasksKeep /\ WorkKept
      /\ \A t \in TaskIds : \/ tasks'[t] = tasks[t]
                            \/ (tasks[t].at = "waiting" /\ tasks'[t].at = "done"
                                /\ tasks'[t].proc = tasks[t].proc)
  <2>1. CASE children[c].ready
    <3>1. UNCHANGED <<tasks, lockTail>>
      BY <2>1 DEF Exit
    <3> QED  BY <3>1, TasksStay DEF IInv
  <2>2. CASE ~children[c].ready
    <3>1. tasks' = [t \in TaskIds |-> IF t \in {s \in TaskIds : tasks[s].at = "waiting" /\ tasks[s].child = c}
                                      THEN Failed(tasks[t]) ELSE tasks[t]]
      BY <2>2 DEF Exit
    <3> QED  BY <1>1, <3>1, WaitersFail DEF IInv
  <2> QED  BY <2>1, <2>2
<1>4. p \in 1..(NProcs + MaxTasks) /\ procs \in [1..(NProcs + MaxTasks) -> Process]
      /\ (\A q \in DOMAIN procs : procs[q].dying = "no")
  BY ChildTyped DEF IInv, TypeOK, Calm
<1>5. st \in {"none", "delay", "child", "failed"} /\ st \in {procs[p].starting, "failed"}
  <2>1. procs[p] \in Process
    BY <1>4
  <2> QED  BY <2>1 DEF Process
<1> HIDE DEF st
<1>6. /\ before \in [1..(NProcs + MaxTasks) -> Process]
      /\ \A q \in DOMAIN procs :
           /\ before[q].sock = procs[q].sock /\ before[q].hadExit = procs[q].hadExit
           /\ before[q].starting \in {procs[q].starting, "failed"} /\ before[q].dying = "no"
  <2> DEFINE r == procs[p]
             new == [r EXCEPT !.child = 0, !.dying = "no", !.starting = st]
  <2>1. r \in Process
    BY <1>4
  <2>2. before = [procs EXCEPT ![p] = new]
    BY <1>4
  <2> HIDE DEF r, p, before
  <2>3. /\ new \in Process /\ new.sock = r.sock /\ new.hadExit = r.hadExit
        /\ new.starting = st /\ new.dying = "no"
    <3>1. 0 \in 0..MaxChildren
      BY EngineBoundAssumption
    <3> QED  BY <1>5, <2>1, <3>1 DEF Process
  <2> HIDE DEF new
  <2> QED  BY <1>4, <1>5, <2>2, <2>3 DEF r
<1> HIDE DEF before
<1> QED  BY <1>1, <1>2, <1>3, <1>6, OnceExitKeeps
-----------------------------------------------------------------------------
(* A worker is started again                                               *)

LEMMA NewChildFacts ==
  ASSUME NEW p \in 1..(NProcs + MaxTasks)
  PROVE  /\ NewChild(p) \in Child
         /\ NewChild(p).proc = p /\ NewChild(p).alive /\ ~NewChild(p).told
         /\ NewChild(p).running = {} /\ NewChild(p).calls = <<>> /\ NewChild(p).replies = <<>>
         /\ NewChild(p).lost = <<>> /\ NewChild(p).events = {}
<1>1. [u \in Users |-> 0] \in [Users -> 0..MaxTasks] /\ <<>> \in Seq(Call)
  BY EngineBoundAssumption
<1> QED  BY <1>1 DEF NewChild, Child

LEMMA HeardChildFacts ==
  ASSUME NEW p \in 1..(NProcs + MaxTasks), NEW h \in BOOLEAN
  PROVE  LET w == [NewChild(p) EXCEPT !.heard = h] IN
         /\ w \in Child /\ w.proc = p /\ w.alive /\ ~w.told
         /\ w.running = {} /\ w.calls = <<>> /\ w.replies = <<>>
         /\ w.lost = <<>> /\ w.events = {}
<1> DEFINE v == NewChild(p)
<1>1. /\ v \in Child /\ v.proc = p /\ v.alive /\ ~v.told /\ v.running = {}
      /\ v.calls = <<>> /\ v.replies = <<>> /\ v.lost = <<>> /\ v.events = {}
  BY NewChildFacts
<1> HIDE DEF v
<1>2. LET w == [v EXCEPT !.heard = h] IN
      /\ w \in Child /\ w.proc = p /\ w.alive /\ ~w.told
      /\ w.running = {} /\ w.calls = <<>> /\ w.replies = <<>>
      /\ w.lost = <<>> /\ w.events = {}
  BY <1>1 DEF Child
<1> QED  BY <1>2 DEF v

LEMMA StartAgainKeeps ==
  ASSUME IInv, NEW p \in Shared, StartAgain(p)
  PROVE  IInv'
<1> USE DEF IInv
<1> DEFINE n == Len(children) + 1
           W == {t \in TaskIds : tasks[t].at = "waiting" /\ tasks[t].target = p /\ tasks[t].child = 0}
           f == [t \in TaskIds |-> IF t \in W THEN [tasks[t] EXCEPT !.child = n] ELSE tasks[t]]
           h == (W # {})
           w == [NewChild(p) EXCEPT !.heard = h]
<1>1. /\ procs[p].starting = "delay" /\ Len(children) < MaxChildren
      /\ \A t \in TaskIds : tasks[t].proc = p => tasks[t].at # "token"
      /\ children' = Append(children, w)
      /\ procs' = [procs EXCEPT ![p] = [procs[p] EXCEPT !.child = n, !.sock = n, !.starting = "child"]]
      /\ UNCHANGED <<up, phase, lockTail, proxies, registered, nextProcess, timers, bounds>>
  BY DEF StartAgain
<1>2. tasks' = f
  BY DEF StartAgain
<1>3. /\ p \in 1..(NProcs + MaxTasks) /\ Len(children) \in Nat /\ n \in 1..MaxChildren
      /\ n \in 0..MaxChildren /\ n # 0
      /\ DOMAIN procs = 1..(NProcs + MaxTasks) /\ Shared \subseteq DOMAIN procs
  BY <1>1, ProcAssumption, EngineBoundAssumption, SeqElement DEF Shared, TypeOK
<1> HIDE DEF h
<1>0. /\ w \in Child /\ w.proc = p /\ w.alive /\ ~w.told /\ w.running = {}
      /\ w.calls = <<>> /\ w.replies = <<>> /\ w.lost = <<>> /\ w.events = {}
  <2>1. h \in BOOLEAN
    BY DEF h
  <2> QED  BY <1>3, <2>1, HeardChildFacts
<1> HIDE DEF w
<1>4. /\ children' \in Seq(Child) /\ Len(children') = n
      /\ \A d \in 1..n : children'[d] = IF d = n THEN w ELSE children[d]
      /\ ChildIds' = ChildIds \cup {n} /\ n \notin ChildIds
  <2>1. w \in Child /\ children \in Seq(Child)
    BY <1>3, <1>0 DEF TypeOK
  <2>2. /\ children' \in Seq(Child) /\ Len(children') = n
        /\ \A d \in 1..n : children'[d] = IF d = n THEN w ELSE children[d]
    BY <1>1, <2>1, SeqAppend
  <2> QED  BY <1>3, <2>2 DEF ChildIds
<1>5. /\ \A d \in ChildIds : children'[d] = children[d]
      /\ children'[n] = w
  BY <1>3, <1>4 DEF ChildIds
<1>6. ChildrenKeep
  BY <1>3, <1>4, <1>5, <1>0 DEF ChildrenKeep
<1>7. \A t \in W : /\ SameTask(f[t], tasks[t]) /\ f[t].at = "waiting" /\ f[t].proc = tasks[t].proc
                   /\ t \in TaskIds /\ tasks[t].at = "waiting"
  <2>1. ASSUME NEW t \in W
        PROVE  SameTask(f[t], tasks[t]) /\ f[t].at = "waiting" /\ f[t].proc = tasks[t].proc
    <3>1. tasks[t] \in Task /\ Stages(tasks[t]) /\ tasks[t].at = "waiting"
      BY SeqElement DEF TypeOK, TaskIds, Locks
    <3>2. f[t] = [tasks[t] EXCEPT !.child = n]
      OBVIOUS
    <3> HIDE DEF f, n
    <3>3. f[t] \in Task
      BY <1>3, <3>1, <3>2, TaskTyped DEF Task
    <3>4. /\ f[t].op = tasks[t].op /\ f[t].user = tasks[t].user /\ f[t].prev = tasks[t].prev
          /\ f[t].todo = tasks[t].todo /\ f[t].at = tasks[t].at /\ f[t].proc = tasks[t].proc
      BY <3>1, <3>2 DEF Task
    <3> QED  BY <3>1, <3>3, <3>4 DEF SameTask, Stages
  <2> QED  BY <2>1
<1>8. \A t \in TaskIds : tasks[t] \in Task
  BY SeqElement DEF TypeOK, TaskIds
<1>9. \A t \in TaskIds : t \notin W => f[t] = tasks[t]
  OBVIOUS
<1>10. f \in [TaskIds -> Task]
  BY <1>7, <1>8 DEF SameTask
<1> HIDE DEF f, W, n
<1>11. /\ TasksKeep /\ WorkKept /\ TaskIds' = TaskIds
       /\ \A s \in TaskIds : tasks'[s].user = tasks[s].user /\ tasks'[s].proc = tasks[s].proc
                             /\ tasks'[s].at = tasks[s].at
  <2>1. lockTail' = lockTail
    BY <1>1
  <2>2. TasksKeep /\ WorkKept
    BY <1>2, <1>7, <1>9, <1>10, <2>1, WaitersKeep
  <2>3. \A s \in TaskIds : tasks'[s].proc = tasks[s].proc /\ tasks'[s].at = tasks[s].at
    BY <1>2, <1>7, <1>9
  <2> QED  BY <2>2, <2>3 DEF TasksKeep, SameTask
<1>12. /\ procs' \in [1..(NProcs + MaxTasks) -> Process]
       /\ procs'[p].sock = n /\ procs'[p].hadExit = procs[p].hadExit
       /\ procs'[p].starting = "child" /\ procs'[p].dying = procs[p].dying
       /\ \A q \in DOMAIN procs : q # p => procs'[q] = procs[q]
  <2> DEFINE r == procs[p]
             new == [r EXCEPT !.child = n, !.sock = n, !.starting = "child"]
  <2>1. r \in Process
    BY <1>3 DEF TypeOK
  <2>2. procs' = [procs EXCEPT ![p] = new]
    BY <1>1
  <2> HIDE DEF r
  <2>3. /\ new \in Process /\ new.sock = n /\ new.hadExit = r.hadExit
        /\ new.starting = "child" /\ new.dying = r.dying
    BY <1>3, <2>1 DEF Process
  <2> HIDE DEF new
  <2> QED  BY <1>3, <2>2, <2>3 DEF r, TypeOK
<1>13. Awaited' /\ OneCall' /\ Mapped' /\ \A s : (Asked(s)' <=> Asked(s)) /\ (Runs(s)' <=> Runs(s))
  BY <1>6, <1>11, CallsKeep, QueuesKeep
<1>14. \A s \in TaskIds : (Starting(s)' => Starting(s)) /\ (Live(s)' => Live(s))
  <2>1. ASSUME NEW s \in TaskIds, Starting(s)'
        PROVE  Starting(s)
    <3>1. tasks[s].at = "token" => tasks[s].proc \in DOMAIN procs /\ tasks[s].proc # p
      BY <1>1, <1>3 DEF Locks, Stages
    <3>2. tasks[s].at = "token" => procs'[tasks'[s].proc] = procs[tasks[s].proc]
      BY <1>11, <1>12, <3>1
    <3> QED  BY <1>11, <1>13, <2>1, <3>2 DEF Starting
  <2> QED  BY <2>1, <1>13 DEF Live
<1>15. \A s \in TaskIds : tasks[s].user \in Users
  BY SeqElement, TaskTyped DEF TypeOK, TaskIds
<1>16. UNCHANGED proxies /\ timers' = timers
  BY <1>1
<1>17. \A u \in Users : Quiet(u)
  <2>1. \A u \in Users : ProcOf(u)' = ProcOf(u)
    BY <1>11, <1>16 DEF ProcOf, Known, proxies
  <2> QED  BY <1>11, <1>14, <2>1 DEF Quiet
<1>18. Killed'
  BY <1>6, <1>15, <1>17, KillsKeep
<1>19. Between'
  <2>1. ASSUME NEW u, NEW s \in TaskIds', tasks'[s].user = u, PostKill(tasks'[s])
        PROVE  Stopped(u) /\ ProcOf(u) = 0 /\ Quiet(u)
    <3>1. s \in TaskIds /\ tasks'[s] = tasks[s] /\ u \in Users
      BY <1>2, <1>7, <1>9, <1>11, <1>15, <2>1 DEF PostKill
    <3> QED  BY <1>17, <2>1, <3>1 DEF Between
  <2> QED  BY <2>1, BetweenKeeps
<1>20. Known' /\ BootOver' /\ Locks'
  BY <1>11, <1>14, <1>16, KnownKeeps, BootKeeps, LocksKeep
<1>21. TypeOK'
  <2>1. Len(children') <= MaxChildren
    BY <1>3, <1>4
  <2> QED  BY <1>1, <1>4, <1>11, <1>12, <2>1 DEF TypeOK, TasksKeep, phase, proxies, bounds
<1>22. Calm'
  <2>1. \A d \in ChildIds' : ~children'[d].told
    BY <1>3, <1>4, <1>5, <1>0 DEF Calm
  <2>2. \A q \in DOMAIN procs' : procs'[q].dying = "no"
    BY <1>3, <1>12 DEF Calm
  <2>3. ~booted => tasks' = <<>>
    <3>1. tasks' \in Seq(Task) /\ Len(tasks') = Len(tasks)
      BY <1>11 DEF TasksKeep
    <3>2. ~booted => Len(tasks') = 0
      BY <3>1 DEF Calm
    <3> QED  BY <3>1, <3>2, SeqEmpty
  <2>4. ~booted =>
          \A d \in ChildIds' :
            /\ children'[d].running = {} /\ children'[d].calls = <<>>
            /\ children'[d].replies = <<>> /\ children'[d].lost = <<>>
    BY <1>3, <1>4, <1>5, <1>0 DEF Calm
  <2> QED  BY <1>1, <2>1, <2>2, <2>3, <2>4 DEF Calm, phase, proxies
<1>23. Workers'
  <2>0. procs[p].sock = 0 /\ procs[p].hadExit
    BY <1>1 DEF Workers
  <2>1. \A d \in ChildIds : children[d].alive => children[d].proc # p
    BY <2>0 DEF Workers, ChildIds
  <2>2. ASSUME NEW d \in ChildIds'
        PROVE  /\ children'[d].proc \in Shared
               /\ children'[d].alive => procs'[children'[d].proc].sock = d
               /\ ~children'[d].alive => children'[d].running = {} /\ children'[d].calls = <<>>
               /\ children'[d].events # {} => ~children'[d].alive
    <3>1. CASE d = n
      BY <1>3, <1>5, <1>12, <3>1, <1>0
    <3>2. CASE d # n
      <4>1. d \in ChildIds /\ children'[d] = children[d]
        BY <1>4, <1>5, <3>2
      <4>2. children[d].alive => procs'[children[d].proc] = procs[children[d].proc]
        BY <1>3, <1>12, <2>1, <4>1 DEF Workers
      <4> QED  BY <4>1, <4>2 DEF Workers
    <3> QED  BY <3>1, <3>2
  <2>3. ASSUME NEW q \in Shared
        PROVE  /\ procs'[q].sock # 0 => procs'[q].sock \in ChildIds' /\ children'[procs'[q].sock].proc = q
               /\ procs'[q].starting = "delay" => procs'[q].sock = 0 /\ procs'[q].hadExit
               /\ ~procs'[q].hadExit =>
                    \A d, e \in ChildIds' : children'[d].proc = q /\ children'[e].proc = q => d = e
    <3>1. CASE q = p
      <4>1. n \in ChildIds' /\ children'[n].proc = p
        BY <1>3, <1>4, <1>5, <1>0
      <4> QED  BY <1>12, <2>0, <3>1, <4>1
    <3>2. CASE q # p
      <4>1. procs'[q] = procs[q] /\ children'[n].proc # q
        BY <1>3, <1>5, <1>12, <3>2, <1>0
      <4> QED  BY <1>4, <1>5, <4>1 DEF Workers
    <3> QED  BY <3>1, <3>2
  <2> QED  BY <2>2, <2>3 DEF Workers
<1> QED  BY <1>13, <1>18, <1>19, <1>20, <1>21, <1>22, <1>23
-----------------------------------------------------------------------------
(* An operation begins                                                     *)

LEMMA AcquireKeeps ==
  ASSUME IInv, NEW op \in SharedOps \cup {"timer"}, NEW u \in Users, Acquire(op, u), booted,
         \A b \in TaskIds : ~Locked(b) /\ tasks[b].user = u => ~Starting(b),
         UNCHANGED <<up, phase, proxies, processes, children>>,
         timers' \in [Users -> Nat], \A v \in Users : timers[v] = 0 => timers'[v] = 0,
         calls' \in 0..MaxCalls, crashes' = crashes, timeouts' = timeouts
  PROVE  IInv'
<1> USE DEF IInv
<1> DEFINE n == Len(tasks) + 1
           new == NewTask(op, u, lockTail[u])
<1>1. /\ Len(tasks) \in Nat /\ Len(tasks) < MaxTasks /\ n \notin TaskIds /\ n # 0
      /\ lockTail[u] \in 0..Len(tasks) /\ \A t \in TaskIds : t < n /\ t # 0 /\ t \in Nat
      /\ n \in Nat
  BY SeqElement DEF Acquire, TypeOK, TaskIds
<1>2. /\ new \in Task /\ Stages(new) /\ new.op # "boot" /\ new.user = u /\ new.prev = lockTail[u]
      /\ new.at = "idle" /\ new.proc = 0 /\ ~Begun(new) /\ ~PostKill(new)
  <2>1. /\ op \in DOMAIN Plan /\ op # "boot" /\ lockTail[u] \in 0..MaxTasks
        /\ 0 \in 0..(NProcs + MaxTasks) /\ 0 \in 0..MaxChildren
    BY <1>1, PlanFacts, ProcAssumption, EngineBoundAssumption DEF SharedOps
  <2>2. Plan[op] \in {<<>>} \cup {Plan[o] : o \in DOMAIN Plan} \cup {<<"rm", "start">>}
    BY <2>1
  <2> DEFINE todo == Plan[op]
             prev == lockTail[u]
  <2> HIDE DEF todo, prev
  <2>3. new = [op |-> op, user |-> u, prev |-> prev, todo |-> todo, at |-> "idle",
               target |-> 0, child |-> 0, proc |-> 0, ok |-> TRUE]
    BY DEF NewTask, todo, prev
  <2>4. new \in Task
    BY <2>1, <2>2, <2>3 DEF Task, todo, prev
  <2>5. /\ new.op = op /\ new.user = u /\ new.prev = prev /\ new.todo = todo /\ new.at = "idle"
        /\ new.proc = 0
    BY <2>3
  <2> HIDE DEF new
  <2> QED  BY <2>1, <2>4, <2>5 DEF Stages, Begun, PostKill, todo, prev
<1>3. /\ tasks' \in Seq(Task) /\ Len(tasks') = n
      /\ TaskIds' = TaskIds \cup {n}
      /\ \A t \in TaskIds : tasks'[t] = tasks[t]
      /\ tasks'[n] = new
  <2>1. tasks' = Append(tasks, new) /\ tasks \in Seq(Task)
    BY DEF Acquire, TypeOK
  <2> HIDE DEF new
  <2>2. /\ tasks' \in Seq(Task) /\ Len(tasks') = n
        /\ \A t \in 1..n : tasks'[t] = IF t = n THEN new ELSE tasks[t]
    BY <1>2, <2>1, SeqAppend
  <2> QED  BY <1>1, <2>2 DEF TaskIds
<1>4. /\ lockTail' \in [Users -> 0..n] /\ lockTail'[u] = n
      /\ \A v \in Users : v # u => lockTail'[v] = lockTail[v]
  BY <1>1 DEF Acquire, TypeOK
<1> HIDE DEF n, new
<1>5. \A t \in TaskIds : tasks[t].user \in Users
  BY SeqElement, TaskTyped DEF TypeOK, TaskIds
<1>6. \A t \in TaskIds' : /\ Locked(t)' = IF t = n THEN TRUE ELSE Locked(t)
                          /\ t # n => t \in TaskIds
  BY <1>1, <1>2, <1>3 DEF Locked
<1>6a. \A s, t \in TaskIds' : s < t => s \in TaskIds /\ s # n
  <2>1. ASSUME NEW s \in TaskIds', NEW t \in TaskIds', s < t
        PROVE  s # n
    <3>1. t \in TaskIds \/ t = n
      BY <1>3
    <3>2. CASE t = n
      BY <1>1, <2>1, <3>2
    <3>3. CASE t \in TaskIds
      <4>1. t \in Nat /\ n \in Nat /\ t < n
        BY <1>1, <3>3
      <4> QED  BY <2>1, <4>1
    <3> QED  BY <3>1, <3>2, <3>3
  <2> QED  BY <1>3, <2>1
<1>7. Places'
  <2>1. \A t \in TaskIds' : ~Locked(t)' => tasks'[t].user = t /\ tasks'[t].at # "idle"
    BY <1>3, <1>6 DEF Locks, Places
  <2>2. ASSUME NEW t \in TaskIds', Locked(t)'
        PROVE  tasks'[t].prev < t
    <3>1. lockTail[u] < n
      BY <1>1 DEF n
    <3>2. CASE t = n
      BY <1>2, <1>3, <3>1, <3>2
    <3>3. CASE t # n
      <4>1. t \in TaskIds /\ Locked(t) /\ tasks'[t] = tasks[t]
        BY <1>3, <1>6, <2>2, <3>3
      <4> QED  BY <4>1 DEF Locks, Places
    <3> QED  BY <3>2, <3>3
  <2>3. ASSUME NEW s \in TaskIds', NEW t \in TaskIds', Locked(s)', Locked(t)', s < t,
               tasks'[s].user = tasks'[t].user
        PROVE  \A q : q = tasks'[t].prev =>
                 /\ s <= q /\ q \in TaskIds /\ tasks[q].op # "boot"
                 /\ tasks[q].user = tasks'[t].user
    <3>0. s \in TaskIds /\ s # n
      BY <1>6a, <2>3
    <3>1. CASE t = n
      BY <1>2, <1>3, <1>6, <2>3, <3>0, <3>1 DEF Locks, Places, Locked
    <3>2. CASE t # n
      <4>1. t \in TaskIds /\ Locked(s) /\ Locked(t) /\ tasks'[t] = tasks[t] /\ tasks'[s] = tasks[s]
        BY <1>3, <1>6, <2>3, <3>0, <3>2
      <4> QED  BY <2>3, <3>0, <4>1 DEF Locks, Places, Locked
    <3> QED  BY <3>1, <3>2
  <2>4. ASSUME NEW s \in TaskIds', NEW t \in TaskIds', Locked(s)', Locked(t)', s < t,
               tasks'[s].user = tasks'[t].user
        PROVE  /\ s <= tasks'[t].prev /\ tasks'[t].prev \in TaskIds'
               /\ Locked(tasks[t].prev)' /\ tasks'[tasks'[t].prev].user = tasks'[t].user
    BY <1>3, <2>3, <2>4 DEF Locked
  <2>5. ASSUME NEW t \in TaskIds', Locked(t)'
        PROVE  \A q : q = lockTail'[tasks'[t].user] =>
                 /\ t <= q /\ q \in TaskIds'
                 /\ tasks'[q].op # "boot" /\ tasks'[q].user = tasks'[t].user
    <3>1. CASE tasks'[t].user = u
      BY <1>1, <1>2, <1>3, <1>4, <3>1 DEF n, TaskIds
    <3>2. CASE tasks'[t].user # u
      <4>1. t \in TaskIds /\ Locked(t) /\ tasks'[t] = tasks[t]
        BY <1>2, <1>3, <1>6, <2>5, <3>2
      <4>2. lockTail'[tasks[t].user] = lockTail[tasks[t].user]
        BY <1>4, <1>5, <3>2, <4>1
      <4> QED  BY <1>3, <4>1, <4>2 DEF Locks, Places, Locked
    <3> QED  BY <3>1, <3>2
  <2>6. ASSUME NEW t \in TaskIds', Locked(t)'
        PROVE  /\ t <= lockTail'[tasks'[t].user] /\ lockTail'[tasks'[t].user] \in TaskIds'
               /\ Locked(lockTail[tasks[t].user])'
               /\ tasks'[lockTail'[tasks'[t].user]].user = tasks'[t].user
    BY <2>5, <2>6 DEF Locked
  <2>7. ASSUME NEW v \in Users, lockTail'[v] # 0
        PROVE  \A q : q = lockTail'[v] => tasks'[q].op # "boot" /\ tasks'[q].user = v
    <3>1. CASE v = u
      BY <1>2, <1>3, <1>4, <3>1
    <3>2. CASE v # u
      <4>1. lockTail'[v] = lockTail[v] /\ lockTail[v] \in TaskIds
        BY <1>1, <1>4, <2>7, <3>2 DEF TypeOK, TaskIds
      <4> QED  BY <1>3, <2>7, <4>1 DEF Locks, Places, Locked
    <3> QED  BY <3>1, <3>2
  <2>8. ASSUME NEW v \in Users, lockTail'[v] # 0
        PROVE  Locked(lockTail[v])' /\ tasks'[lockTail'[v]].user = v
    BY <2>7, <2>8 DEF Locked
  <2> QED  BY <2>1, <2>2, <2>4, <2>6, <2>8 DEF Places
<1>8. OneBegun'
  <2>1. ASSUME NEW s \in TaskIds', NEW t \in TaskIds', Locked(s)', Locked(t)', s < t,
               tasks'[s].user = tasks'[t].user, Begun(tasks'[t])
        PROVE  tasks'[s].at = "done"
    <3>1. t \in TaskIds /\ t # n
      BY <1>2, <1>3, <1>6, <2>1
    <3>2. s \in TaskIds /\ s # n
      BY <1>6a, <2>1
    <3> QED  BY <1>3, <1>6, <2>1, <3>1, <3>2 DEF Locks, OneBegun
  <2> QED  BY <2>1 DEF OneBegun
<1>9. Locks'
  BY <1>2, <1>3, <1>7, <1>8 DEF Locks
<1>10. ChildrenKeep /\ WorkKept /\ ChildIds' = ChildIds
  BY <1>3 DEF ChildrenKeep, WorkKept, ChildIds
<1>11. Awaited' /\ OneCall' /\ Mapped' /\ \A s : (Asked(s)' <=> Asked(s)) /\ (Runs(s)' <=> Runs(s))
  BY <1>10, CallsKeep, QueuesKeep
<1>12. \A s : s = n => ~Live(s)'
  <2>1. ~Runs(n)
    BY <1>1 DEF Runs, Mapped
  <2>2. ~Asked(n)
    <3>1. ASSUME NEW c \in ChildIds, NEW i \in 1..Len(children[c].calls), children[c].calls[i].task = n
          PROVE  FALSE
      <4>1. Queue(c, "calls") = children[c].calls
        BY DEF Queue
      <4> QED  BY <1>1, <3>1, <4>1 DEF Awaited, Kinds, Expected
    <3> QED  BY <3>1 DEF Asked
  <2> QED  BY <1>2, <1>3, <1>11, <2>1, <2>2 DEF Live, Starting
<1>13. \A s \in TaskIds : (Starting(s)' <=> Starting(s)) /\ (Live(s)' <=> Live(s))
  BY <1>3, <1>11 DEF Starting, Live, processes
<1>14. \A v \in Users : Quiet(v)
  <2>1. \A v \in Users : ProcOf(v)' = ProcOf(v)
    BY <1>3 DEF ProcOf, Known, proxies
  <2> QED  BY <1>3, <1>12, <1>13, <2>1 DEF Quiet
<1>15. Killed'
  BY <1>5, <1>10, <1>14, KillsKeep
<1>16. Between'
  <2>1. ASSUME NEW v, NEW s \in TaskIds', tasks'[s].user = v, PostKill(tasks'[s])
        PROVE  Stopped(v) /\ ProcOf(v) = 0 /\ Quiet(v)
    <3>1. s \in TaskIds /\ tasks'[s] = tasks[s] /\ v \in Users
      BY <1>2, <1>3, <1>5, <2>1
    <3> QED  BY <1>14, <2>1, <3>1 DEF Between
  <2> QED  BY <2>1, BetweenKeeps
<1>17. Known'
  <2>1. engines' = engines /\ listening' = listening
    BY DEF proxies
  <2>2. ASSUME NEW s \in TaskIds', Live(s)'
        PROVE  engines'[tasks'[s].user] = s
    <3>1. s \in TaskIds /\ tasks'[s] = tasks[s] /\ Live(s)
      BY <1>3, <1>12, <1>13, <2>2
    <3> QED  BY <2>1, <3>1 DEF Known
  <2>3. ASSUME NEW v \in Users, engines[v] # 0
        PROVE  /\ engines[v] \in TaskIds' /\ tasks'[engines[v]].user = v
               /\ tasks'[engines[v]].proc # 0 => engines[v] \in listening
    <3>1. engines[v] \in TaskIds /\ tasks[engines[v]].user = v
          /\ (tasks[engines[v]].proc # 0 => engines[v] \in listening)
      BY <2>3 DEF Known
    <3> QED  BY <1>3, <3>1
  <2>4. \A s \in listening : s \in TaskIds' /\ tasks'[s].proc # 0
    BY <1>3 DEF Known
  <2> QED  BY <2>1, <2>2, <2>3, <2>4 DEF Known
<1>18. BootOver'
  <2>1. ASSUME NEW b \in TaskIds', ~Locked(b)', Starting(b)'
        PROVE  /\ timers'[tasks'[b].user] = 0
               /\ \A t \in TaskIds' : Locked(t)' => tasks'[t].user # tasks'[b].user
    <3>1. b \in TaskIds /\ ~Locked(b) /\ Starting(b) /\ tasks'[b] = tasks[b]
      BY <1>3, <1>6, <1>13, <2>1
    <3>2. tasks[b].user # u
      BY <3>1
    <3>3. timers'[tasks[b].user] = 0
      BY <1>5, <3>1 DEF BootOver
    <3>4. \A t \in TaskIds' : Locked(t)' => tasks'[t].user # tasks[b].user
      <4>1. ASSUME NEW t \in TaskIds', Locked(t)'
            PROVE  tasks'[t].user # tasks[b].user
        <5>1. CASE t = n
          BY <1>2, <1>3, <3>2, <5>1
        <5>2. CASE t # n
          <6>1. t \in TaskIds /\ Locked(t) /\ tasks'[t] = tasks[t]
            BY <1>3, <1>6, <4>1, <5>2
          <6> QED  BY <3>1, <6>1 DEF BootOver
        <5> QED  BY <5>1, <5>2
      <4> QED  BY <4>1
    <3> QED  BY <3>1, <3>3, <3>4
  <2> QED  BY <2>1 DEF BootOver
<1>19. TypeOK'
  <2>1. Len(tasks') <= MaxTasks
    BY <1>1, <1>3, EngineBoundAssumption DEF n
  <2>2. engines' \in [Users -> 0..Len(tasks')]
    <3>1. 0..Len(tasks) \subseteq 0..n
      BY <1>1 DEF n
    <3> QED  BY <1>3, <3>1 DEF TypeOK, proxies
  <2>3. listening' \subseteq TaskIds'
    BY <1>3 DEF TypeOK, proxies
  <2> QED  BY <1>3, <1>4, <2>1, <2>2, <2>3 DEF TypeOK, phase, processes
<1>20. Calm'
  BY <1>10 DEF Calm, phase, processes
<1>21. Workers'
  BY WorkersKeep
<1> QED  BY <1>9, <1>11, <1>15, <1>16, <1>17, <1>18, <1>19, <1>20, <1>21

LEMMA WebCallKeeps ==
  ASSUME SharedOnly, IInv, NEW op, NEW u \in Users, WebCall(op, u)
  PROVE  IInv'
<1>1. /\ op \in SharedOps /\ Acquire(op, u) /\ booted /\ calls < MaxCalls /\ calls' = calls + 1
      /\ \A b \in TaskIds : tasks[b].op = "boot" => tasks[b].at = "done"
      /\ UNCHANGED <<up, phase, proxies, processes, children>> /\ timers' = timers
      /\ crashes' = crashes /\ timeouts' = timeouts
  BY DEF WebCall, CallsAllowed, SharedOnly
<1>2. \A b \in TaskIds : ~Locked(b) => ~Starting(b)
  BY <1>1, StartingAt DEF IInv, Locked
<1>3. timers' \in [Users -> Nat] /\ (\A v \in Users : timers[v] = 0 => timers'[v] = 0)
      /\ calls' \in 0..MaxCalls
  BY <1>1, EngineBoundAssumption DEF IInv, TypeOK
<1> QED  BY <1>1, <1>2, <1>3, AcquireKeeps

LEMMA RestartTimerKeeps ==
  ASSUME IInv, NEW u \in Users, RestartTimer(u)
  PROVE  IInv'
<1>1. /\ timers[u] > 0 /\ timers' = [timers EXCEPT ![u] = @ - 1] /\ Acquire("timer", u)
      /\ UNCHANGED <<up, phase, proxies, processes, children>>
      /\ calls' = calls /\ crashes' = crashes /\ timeouts' = timeouts
  BY DEF RestartTimer, bounds
<1>2. timers \in [Users -> Nat] /\ calls \in 0..MaxCalls
  BY DEF IInv, TypeOK
<1>3. booted
  BY <1>1, <1>2 DEF IInv, Calm
<1>4. \A b \in TaskIds : ~Locked(b) /\ tasks[b].user = u => ~Starting(b)
  BY <1>1, <1>2 DEF IInv, BootOver
<1>5. timers' \in [Users -> Nat] /\ \A v \in Users : timers[v] = 0 => timers'[v] = 0
  BY <1>1, <1>2
<1> QED  BY <1>1, <1>2, <1>3, <1>4, <1>5, AcquireKeeps
-----------------------------------------------------------------------------
(* The boot                                                                *)

\* The record of the start of user u at boot, in shared process p.
LEMMA BootTaskFacts ==
  ASSUME TypeOK, NEW u \in Users, NEW p \in Shared
  PROVE  LET new == RunTask(NewTask("boot", u, 0), p) IN
         /\ new \in Task /\ Stages(new) /\ new.op = "boot" /\ new.user = u
         /\ new.at \in {"token", "waiting", "done"} /\ new.todo = <<"start">>
         /\ new.proc = IF procs[p].starting = "none" THEN p ELSE 0
<1>1. /\ procs[p] \in Process /\ p \in 0..(NProcs + MaxTasks) /\ p # 0 /\ p \in Shared
      /\ 0 \in 0..(NProcs + MaxTasks) /\ 0 \in 0..MaxTasks /\ 0 \in 0..MaxChildren
  BY ProcAssumption, EngineBoundAssumption DEF TypeOK, Shared
<1>2. procs[p].sock \in 0..MaxChildren
  BY <1>1 DEF Process
<1> DEFINE c == procs[p].sock
           task == NewTask("boot", u, 0)
           new == RunTask(task, p)
<1>3. task = [op |-> "boot", user |-> u, prev |-> 0, todo |-> <<"start">>, at |-> "idle",
              target |-> 0, child |-> 0, proc |-> 0, ok |-> TRUE]
  BY PlanFacts DEF NewTask
<1>4. task \in Task
  <2>1. "boot" \in DOMAIN Plan
    BY PlanFacts
  <2> DEFINE todos == {<<>>} \cup {Plan[op] : op \in DOMAIN Plan} \cup {<<"rm", "start">>}
             todo == <<"start">>
  <2>2. todo \in todos
    BY TodoTyped
  <2>3. task = [op |-> "boot", user |-> u, prev |-> 0, todo |-> todo, at |-> "idle",
                target |-> 0, child |-> 0, proc |-> 0, ok |-> TRUE]
    BY <1>3
  <2> HIDE DEF todo, todos, task
  <2>4. task \in [op : DOMAIN Plan, user : Users, prev : 0..MaxTasks, todo : todos,
                  at : {"idle", "killing", "rm", "waiting", "token", "running", "done"},
                  target : 0..(NProcs + MaxTasks), child : 0..MaxChildren,
                  proc : 0..(NProcs + MaxTasks), ok : BOOLEAN]
    BY <1>1, <2>1, <2>2, <2>3
  <2> QED  BY <2>4 DEF Task, todos
<1> HIDE DEF c, task
<1>5. CASE procs[p].starting = "none"
  <2>1. new = [task EXCEPT !.at = "token", !.target = p, !.proc = p]
    BY <1>5 DEF RunTask
  <2>2. new \in Task
    BY <1>1, <1>4, <2>1, TaskTyped DEF Task
  <2>3. /\ new.op = "boot" /\ new.user = u /\ new.todo = <<"start">> /\ new.at = "token" /\ new.proc = p
    BY <1>3, <2>1
  <2> HIDE DEF new
  <2>4. Stages(new)
    BY <1>1, <2>3 DEF Stages
  <2>5. new.at \in {"token", "waiting", "done"} /\ new.proc = IF procs[p].starting = "none" THEN p ELSE 0
    BY <1>5, <2>3
  <2> QED  BY <2>2, <2>3, <2>4, <2>5 DEF new, task
<1>6. CASE procs[p].starting \notin {"none", "failed"}
  <2>1. new = [task EXCEPT !.at = "waiting", !.target = p, !.child = c]
    BY <1>6 DEF RunTask, c
  <2>2. new \in Task
    BY <1>1, <1>2, <1>4, <2>1, TaskTyped DEF Task, c
  <2>3. /\ new.op = "boot" /\ new.user = u /\ new.todo = <<"start">> /\ new.at = "waiting" /\ new.proc = 0
    BY <1>3, <2>1
  <2> HIDE DEF new
  <2>4. Stages(new)
    BY <2>3 DEF Stages
  <2>5. new.at \in {"token", "waiting", "done"} /\ new.proc = IF procs[p].starting = "none" THEN p ELSE 0
    BY <1>6, <2>3
  <2> QED  BY <2>2, <2>3, <2>4, <2>5 DEF new, task
<1>7. CASE procs[p].starting = "failed"
  <2> DEFINE gone == Failed(task)
  <2>1. new = [gone EXCEPT !.target = p]
    BY <1>7 DEF RunTask
  <2>2. gone = [task EXCEPT !.at = "done", !.ok = FALSE]
    BY DEF Failed
  <2> HIDE DEF new, gone
  <2>3. gone \in Task
    BY <1>4, <2>2, TaskTyped DEF Task
  <2>4. gone.op = "boot" /\ gone.user = u /\ gone.todo = <<"start">> /\ gone.at = "done" /\ gone.proc = 0
    BY <1>3, <2>2
  <2>5. new \in Task
    BY <1>1, <2>1, <2>3, TaskTyped DEF Task
  <2>6. /\ new.op = "boot" /\ new.user = u /\ new.todo = <<"start">> /\ new.at = "done" /\ new.proc = 0
    BY <2>1, <2>3, <2>4 DEF Task
  <2>7. Stages(new)
    BY <2>6 DEF Stages
  <2>8. new.at \in {"token", "waiting", "done"} /\ new.proc = IF procs[p].starting = "none" THEN p ELSE 0
    BY <1>7, <2>6
  <2> QED  BY <2>5, <2>6, <2>7, <2>8 DEF new, task
<1> QED  BY <1>5, <1>6, <1>7

\* The process and the record of the start of user u, when all users are in
\* shared workers.
SlotAt(u) == ((u - 1) % NProcs) + 1
StartAt(u) == RunTask(NewTask("boot", u, 0), SlotAt(u))

LEMMA BootShared ==
  ASSUME Dedicated = {}, TypeOK, Boot
  PROVE  /\ ~booted /\ booted' = TRUE /\ stopped' = stopped /\ up' = up
         /\ UNCHANGED <<deleted, lockTail, timers, bounds>>
         /\ \A u \in Users : SlotAt(u) \in Shared /\ SlotAt(u) # 0 /\ u # 0
         /\ engines' = [u \in Users |-> u]
         /\ listening' = {u \in Users : procs[SlotAt(u)].starting = "none"}
         /\ registered' = [u \in Users |-> 0] /\ nextProcess' = (NUsers % NProcs) + 1
         /\ tasks' \in Seq(Task) /\ Len(tasks') = NUsers /\ TaskIds' = Users
         /\ \A u \in Users :
              /\ tasks'[u] = StartAt(u)
              /\ StartAt(u) \in Task /\ Stages(StartAt(u)) /\ StartAt(u).op = "boot" /\ StartAt(u).user = u
              /\ StartAt(u).at \in {"token", "waiting", "done"}
              /\ StartAt(u).proc = IF procs[SlotAt(u)].starting = "none" THEN SlotAt(u) ELSE 0
         /\ procs' = procs /\ children' = children /\ ChildIds' = ChildIds
<1>1. \A u : DedicatedUpTo(u) = 0
  <2>1. ASSUME NEW u
        PROVE  DedicatedUpTo(u) = 0
    <3>1. {v \in Dedicated : v <= u} = {}
      OBVIOUS
    <3> QED  BY <3>1, FS_EmptySet DEF DedicatedUpTo
  <2> QED  BY <2>1
<1>2. (\A u \in Users : SharedUpTo(u) = u) /\ SharedUpTo(NUsers) = NUsers
  BY <1>1, UserAssumption DEF SharedUpTo, Users
<1>3. \A u \in Users : SlotAt(u) \in Shared /\ SlotAt(u) # 0 /\ u # 0
  <2>1. \A u \in Users : u - 1 \in Nat /\ u # 0
    BY UserAssumption DEF Users
  <2>2. \A u \in Users : SlotAt(u) \in Shared
    BY <2>1, NextProcessTyped DEF SlotAt
  <2> QED  BY <2>1, <2>2 DEF Shared
<1>4. /\ ~booted /\ booted' = TRUE /\ stopped' = stopped /\ up' = up
      /\ UNCHANGED <<deleted, lockTail, timers, bounds>>
      /\ engines' = [u \in Users |-> u]
  BY DEF Boot
<1>5. tasks' = [u \in Users |-> StartAt(u)]
  <2>1. tasks' = [u \in Users |-> RunTask(NewTask("boot", u, 0), ((SharedUpTo(u) - 1) % NProcs) + 1)]
    BY DEF Boot
  <2> QED  BY <1>2, <2>1 DEF StartAt, SlotAt
<1>6. listening' = {u \in Users : procs[SlotAt(u)].starting = "none"}
  <2>1. listening' = {u \in Users \ Dedicated : procs[((SharedUpTo(u) - 1) % NProcs) + 1].starting = "none"}
    BY DEF Boot
  <2> QED  BY <1>2, <2>1 DEF SlotAt
<1>7. \A u \in Users :
        /\ StartAt(u) \in Task /\ Stages(StartAt(u)) /\ StartAt(u).op = "boot" /\ StartAt(u).user = u
        /\ StartAt(u).at \in {"token", "waiting", "done"}
        /\ StartAt(u).proc = IF procs[SlotAt(u)].starting = "none" THEN SlotAt(u) ELSE 0
  <2>1. ASSUME NEW u \in Users, NEW p \in Shared, p = SlotAt(u)
        PROVE  /\ StartAt(u) \in Task /\ Stages(StartAt(u)) /\ StartAt(u).op = "boot" /\ StartAt(u).user = u
               /\ StartAt(u).at \in {"token", "waiting", "done"}
               /\ StartAt(u).proc = IF procs[SlotAt(u)].starting = "none" THEN SlotAt(u) ELSE 0
    BY <2>1, BootTaskFacts DEF StartAt
  <2> QED  BY <1>3, <2>1
<1>8. /\ tasks' \in Seq(Task) /\ Len(tasks') = NUsers /\ TaskIds' = Users
      /\ \A u \in Users : tasks'[u] = StartAt(u)
  <2>1. [u \in Users |-> StartAt(u)] \in [1..NUsers -> Task] /\ NUsers \in Nat
    BY <1>7, UserAssumption DEF Users
  <2>2. tasks' \in Seq(Task) /\ Len(tasks') = NUsers
    BY <1>5, <2>1, SeqOf
  <2> QED  BY <1>5, <2>2 DEF TaskIds, Users
<1>9. procs' = procs
  <2>1. procs' = [p \in DOMAIN procs |-> procs[p]]
    BY DEF Boot
  <2> QED  BY <2>1 DEF TypeOK
<1>10. children' = children
  <2>1. Len(children) \in Nat /\ Cardinality(Dedicated) = 0
    BY SeqElement, FS_EmptySet DEF TypeOK
  <2>2. Len(children) + Cardinality(Dedicated) = Len(children)
    BY <2>1
  <2>3. children' = [c \in 1..Len(children) |-> children[c]]
    BY <2>2 DEF Boot, ChildIds
  <2>4. children \in Seq(Child)
    BY DEF TypeOK
  <2> QED  BY <2>3, <2>4
<1>11. ChildIds' = ChildIds
  BY <1>10 DEF ChildIds
<1>12. registered' = [u \in Users |-> 0] /\ nextProcess' = (NUsers % NProcs) + 1
  <2>1. registered' = [u \in Users |-> 0] /\ nextProcess' = (SharedUpTo(NUsers) % NProcs) + 1
    BY DEF Boot
  <2> QED  BY <1>2, <2>1
<1> QED  BY <1>3, <1>4, <1>6, <1>7, <1>8, <1>9, <1>10, <1>11, <1>12

LEMMA BootStepKeeps ==
  ASSUME SharedOnly, IInv, Boot
  PROVE  IInv'
<1> USE DEF IInv
<1>1. Dedicated = {}
  BY DEF SharedOnly
<1>2. /\ ~booted /\ booted' = TRUE /\ stopped' = stopped /\ up' = up
      /\ UNCHANGED <<deleted, lockTail, timers, bounds>>
      /\ engines' = [u \in Users |-> u]
      /\ listening' = {u \in Users : procs[SlotAt(u)].starting = "none"}
      /\ registered' = [u \in Users |-> 0] /\ nextProcess' = (NUsers % NProcs) + 1
      /\ procs' = procs /\ children' = children /\ ChildIds' = ChildIds
  BY <1>1, BootShared
<1>3. \A u \in Users : SlotAt(u) \in Shared /\ SlotAt(u) # 0 /\ u # 0
  BY <1>1, BootShared
<1>4. tasks' \in Seq(Task) /\ Len(tasks') = NUsers /\ TaskIds' = Users
  BY <1>1, BootShared
<1>5. \A u \in Users :
        /\ tasks'[u] \in Task /\ Stages(tasks'[u]) /\ tasks'[u].op = "boot" /\ tasks'[u].user = u
        /\ tasks'[u].at \in {"token", "waiting", "done"}
        /\ tasks'[u].proc = IF procs[SlotAt(u)].starting = "none" THEN SlotAt(u) ELSE 0
  BY <1>1, BootShared
<1>6. /\ tasks = <<>> /\ listening = {}
      /\ \A u \in Users : engines[u] = 0 /\ timers[u] = 0 /\ lockTail[u] = 0
      /\ \A c \in ChildIds :
           /\ children[c].running = {} /\ children[c].calls = <<>>
           /\ children[c].replies = <<>> /\ children[c].lost = <<>>
  BY <1>2 DEF Calm
<1>7. \A c \in ChildIds : \A k \in Kinds : Queue(c, k)' = <<>>
  BY <1>2, <1>6 DEF Queue, Kinds
<1>8. Awaited' /\ OneCall' /\ Killed' /\ Mapped'
  <2>1. \A c \in ChildIds : \A k \in Kinds : 1..Len(Queue(c, k)') = {}
    BY <1>7
  <2>2. Awaited' /\ OneCall' /\ Killed'
    BY <1>2, <2>1 DEF Awaited, OneCall, Killed
  <2>3. Mapped'
    BY <1>2, <1>6 DEF Mapped
  <2> QED  BY <2>2, <2>3
<1>9. \A t \in Users : ~Locked(t)' /\ tasks'[t].user = t /\ tasks'[t].at \in {"token", "waiting", "done"}
  BY <1>5 DEF Locked
<1>10. Locks'
  <2>1. \A t \in TaskIds' : Stages(tasks'[t])
    BY <1>4, <1>5
  <2>2. Places'
    <3>1. \A u \in Users : lockTail'[u] = 0
      BY <1>2, <1>6
    <3> QED  BY <1>4, <1>9, <3>1 DEF Places
  <2>3. OneBegun'
    BY <1>4, <1>9 DEF OneBegun
  <2> QED  BY <2>1, <2>2, <2>3 DEF Locks
<1>11. Between'
  BY <1>4, <1>9 DEF Between, PostKill
<1>12. BootOver'
  <2>1. \A u \in Users : timers'[u] = 0
    BY <1>2, <1>6
  <2> QED  BY <1>4, <1>9, <2>1 DEF BootOver
<1>13. Known'
  <2>1. \A t \in TaskIds' : engines'[tasks'[t].user] = t
    BY <1>2, <1>4, <1>9
  <2>2. \A u \in Users : engines'[u] \in TaskIds' /\ tasks'[engines'[u]].user = u
                         /\ (tasks'[engines'[u]].proc # 0 => engines'[u] \in listening')
    BY <1>2, <1>4, <1>5
  <2>3. \A t \in listening' : t \in TaskIds' /\ tasks'[t].proc # 0
    BY <1>2, <1>3, <1>4, <1>5
  <2> QED  BY <2>1, <2>2, <2>3 DEF Known
<1>14. TypeOK'
  <2>1. nextProcess' \in Shared
    BY <1>2, NextProcessTyped, UserAssumption
  <2>2. registered' \in [Users -> 0..(NProcs + MaxTasks)]
    BY <1>2, ProcAssumption, EngineBoundAssumption
  <2>3. engines' \in [Users -> 0..NUsers]
    BY <1>2, UserAssumption DEF Users
  <2>4. lockTail' \in [Users -> 0..NUsers]
    <3>1. lockTail \in [Users -> 0..Len(tasks)] /\ \A u \in Users : lockTail[u] = 0
      BY <1>6 DEF TypeOK
    <3> QED  BY <1>2, <3>1, UserAssumption
  <2>5. listening' \subseteq TaskIds' /\ NUsers <= MaxTasks
    BY <1>2, <1>4, UserAssumption, EngineBoundAssumption
  <2> QED  BY <1>2, <1>4, <2>1, <2>2, <2>3, <2>4, <2>5 DEF TypeOK, bounds
<1>15. Calm'
  BY <1>2 DEF Calm
<1>16. Workers'
  BY <1>2 DEF Workers
<1> QED  BY <1>8, <1>10, <1>11, <1>12, <1>13, <1>14, <1>15, <1>16
-----------------------------------------------------------------------------
(* The invariant                                                           *)

LEMMA InitInv ==
  ASSUME Init
  PROVE  IInv
<1> USE DEF Init
<1>1. /\ NProcs \in Nat \ {0} /\ MaxTasks \in Nat /\ MaxChildren \in Nat /\ NProcs <= MaxChildren
      /\ Shared \subseteq 1..(NProcs + MaxTasks) /\ Shared \subseteq 0..MaxChildren /\ 1 \in Shared
  <2>1. IsFiniteSet(Dedicated)
    <3>1. IsFiniteSet(1..NUsers)
      BY UserAssumption, FS_Interval
    <3> QED  BY <3>1, UserAssumption, FS_Subset DEF Users
  <2>2. Cardinality(Dedicated) \in Nat
    BY <2>1, FS_CardinalityType
  <2> QED  BY <2>2, ProcAssumption, EngineBoundAssumption DEF Shared
<1>2. TaskIds = {} /\ ~booted /\ ~stopped
  BY DEF TaskIds
<1>3. /\ children \in Seq(Child) /\ Len(children) = NProcs /\ ChildIds = Shared
      /\ \A c \in Shared : children[c] = NewChild(c)
  <2>1. \A c \in Shared : NewChild(c) \in Child
    BY <1>1, NewChildFacts
  <2>2. children \in [1..NProcs -> Child] /\ NProcs \in Nat
    BY <1>1, <2>1 DEF Shared
  <2>3. children \in Seq(Child) /\ Len(children) = NProcs
    BY <2>2, SeqOf
  <2> QED  BY <2>3 DEF ChildIds, Shared
<1>4. \A c \in Shared :
        /\ children[c].proc = c /\ children[c].alive /\ ~children[c].told
        /\ children[c].running = {} /\ children[c].calls = <<>> /\ children[c].replies = <<>>
        /\ children[c].lost = <<>> /\ children[c].events = {}
  BY <1>1, <1>3, NewChildFacts
<1>5. /\ procs \in [1..(NProcs + MaxTasks) -> Process]
      /\ \A p \in Shared : procs[p].sock = p /\ ~procs[p].hadExit /\ procs[p].starting = "child"
      /\ \A p \in DOMAIN procs : procs[p].dying = "no"
  <2>1. \A p \in Shared : Spawned(p) \in Process
    BY <1>1 DEF Spawned, Process
  <2>2. NoProcess \in Process
    BY <1>1 DEF NoProcess, Process
  <2> QED  BY <1>1, <2>1, <2>2 DEF Spawned, NoProcess
<1>6. TypeOK
  <2>1. tasks \in Seq(Task) /\ Len(tasks) = 0
    OBVIOUS
  <2>2. /\ lockTail \in [Users -> 0..0] /\ engines \in [Users -> 0..0]
        /\ registered \in [Users -> 0..(NProcs + MaxTasks)] /\ timers \in [Users -> Nat]
    BY <1>1
  <2>3. /\ up \in BOOLEAN /\ stopped \in BOOLEAN /\ booted \in BOOLEAN
        /\ listening \subseteq TaskIds /\ deleted \subseteq Users
    OBVIOUS
  <2>4. /\ nextProcess \in Shared
        /\ calls \in 0..MaxCalls /\ crashes \in 0..MaxCrashes /\ timeouts \in 0..MaxTimeouts
    <3>1. nextProcess = 1 /\ calls = 0 /\ crashes = 0 /\ timeouts = 0
      OBVIOUS
    <3> HIDE DEF Init
    <3> QED  BY <1>1, <3>1, EngineBoundAssumption
  <2>5. Len(tasks) <= MaxTasks /\ Len(children) <= MaxChildren
    BY <1>1, <1>3, <2>1
  <2> QED  BY <1>3, <1>5, <2>1, <2>2, <2>3, <2>5, <2>4 DEF TypeOK
<1>7. Calm
  BY <1>3, <1>4, <1>5 DEF Calm
<1>8. Workers
  <2> HIDE DEF Init
  <2>1. \A c \in Shared : procs[children[c].proc].sock = c
    BY <1>4, <1>5
  <2>2. \A p \in Shared : procs[p].sock \in ChildIds /\ children[procs[p].sock].proc = p
    BY <1>3, <1>4, <1>5
  <2>3. \A p \in Shared : procs[p].starting # "delay"
    BY <1>5
  <2> QED  BY <1>3, <1>4, <2>1, <2>2, <2>3 DEF Workers
<1>9. \A c \in ChildIds : \A k \in Kinds : 1..Len(Queue(c, k)) = {}
  <2>1. \A c \in ChildIds : \A k \in Kinds : Queue(c, k) = <<>>
    BY <1>3, <1>4 DEF Queue, Kinds
  <2> QED  BY <2>1
<1>10. Awaited /\ OneCall /\ Killed
  BY <1>9 DEF Awaited, OneCall, Killed
<1>11. Mapped
  BY <1>3, <1>4 DEF Mapped
<1>12. Locks /\ Between /\ BootOver
  BY <1>2 DEF Locks, Places, OneBegun, Between, BootOver
<1>13. Known
  BY <1>2 DEF Known
<1> QED  BY <1>6, <1>7, <1>8, <1>10, <1>11, <1>12, <1>13 DEF IInv

LEMMA TaskStepKeeps ==
  ASSUME SharedOnly, IInv, NEW t \in TaskIds, TaskStep(t)
  PROVE  IInv'
<1>1. \/ StartStage(t) \/ CallRunEngine(t)
      \/ KillStage(t) \/ RmStage(t) \/ RmDone(t) \/ SendStage(t)
  BY DEF TaskStep
<1>2. CASE StartStage(t)
  BY <1>2, StartStageKeeps
<1>3. CASE CallRunEngine(t)
  BY <1>3, CallRunEngineKeeps
<1>4. CASE KillStage(t)
  BY <1>4, KillStageKeeps
<1>5. CASE RmStage(t)
  BY <1>5, RmStageKeeps
<1>6. CASE RmDone(t)
  BY <1>6, RmDoneKeeps
<1>7. CASE SendStage(t)
  BY <1>7, SendStageKeeps
<1> QED  BY <1>1, <1>2, <1>3, <1>4, <1>5, <1>6, <1>7

LEMMA ChildStepKeeps ==
  ASSUME IInv, NEW c \in ChildIds, ChildStep(c) \/ CallFails(c) \/ Crash(c)
  PROVE  IInv'
<1>1. \/ WorkerHandle(c) \/ Reply(c) \/ CallFails(c) \/ ChildReady(c)
      \/ ChildExits(c) \/ Disconnect(c) \/ Exit(c) \/ Crash(c)
  BY DEF ChildStep
<1>2. CASE WorkerHandle(c)
  BY <1>2, WorkerHandleKeeps
<1>3. CASE Reply(c)
  BY <1>3, ReplyKeeps
<1>4. CASE CallFails(c)
  BY <1>4, CallFailsKeeps
<1>5. CASE ChildReady(c)
  BY <1>5, ChildReadyKeeps
<1>6. CASE ChildExits(c)
  BY <1>6 DEF ChildExits, IInv, Calm
<1>7. CASE Disconnect(c)
  BY <1>7, DisconnectKeeps
<1>8. CASE Exit(c)
  BY <1>8, ExitKeeps
<1>9. CASE Crash(c)
  BY <1>9, CrashKeeps
<1> QED  BY <1>1, <1>2, <1>3, <1>4, <1>5, <1>6, <1>7, <1>8, <1>9

\* What the instances of SharedOnly do not do.
LEMMA NeverTaken ==
  ASSUME SharedOnly, IInv
  PROVE  /\ ~KillAllUsers /\ ~Stop /\ ~StopDone
         /\ \A u \in Users : ~DeleteRow(u)
         /\ \A p \in DOMAIN procs : ~DyingTimeout(p)
<1>1. "killAllUsers" \notin Ops /\ "stop" \notin Ops
  BY DEF SharedOnly, SharedOps
<1>2. ~stopped /\ \A p \in DOMAIN procs : procs[p].dying = "no"
  BY DEF IInv, Calm
<1>3. \A t \in TaskIds : tasks[t].op # "deleteUser"
  BY DEF IInv, Locks, Stages, SharedOps
<1>4. ~KillAllUsers /\ ~Stop
  BY <1>1 DEF KillAllUsers, Stop
<1>5. ~StopDone /\ \A p \in DOMAIN procs : ~DyingTimeout(p)
  BY <1>2 DEF StopDone, DyingTimeout
<1>6. \A u \in Users : ~DeleteRow(u)
  BY <1>3 DEF DeleteRow
<1> QED  BY <1>4, <1>5, <1>6

LEMMA StutterKeeps ==
  ASSUME IInv, UNCHANGED vars
  PROVE  IInv'
<1> USE DEF vars, phase, taskvars, proxies, processes, bounds
<1>1. /\ TaskIds' = TaskIds /\ ChildIds' = ChildIds
      /\ \A c, k : Queue(c, k)' = Queue(c, k)
  BY DEF TaskIds, ChildIds, Queue
<1>2. /\ \A c, m : Expected(c, m)' = Expected(c, m)
      /\ \A t : Locked(t)' = Locked(t) /\ Granted(t)' = Granted(t)
  BY <1>1 DEF Expected, Locked, Granted
<1>3. \A t : (Starting(t)' <=> Starting(t)) /\ (Live(t)' <=> Live(t))
  <2>1. \A t : (Asked(t)' <=> Asked(t)) /\ (Runs(t)' <=> Runs(t))
    BY <1>1 DEF Asked, Runs
  <2> QED  BY <2>1 DEF Starting, Live
<1>4. \A u : (Stopped(u)' <=> Stopped(u)) /\ ProcOf(u)' = ProcOf(u)
  BY <1>1, <1>3 DEF Stopped, ProcOf
<1>5. TypeOK' /\ Calm' /\ Workers'
  BY <1>1 DEF IInv, TypeOK, Calm, Workers
<1>6. Locks'
  BY <1>1, <1>2 DEF IInv, Locks, Places, OneBegun, Locked
<1>7. Awaited' /\ OneCall' /\ Mapped'
  BY <1>1, <1>2 DEF IInv, Awaited, OneCall, Mapped, Queue, Expected
<1>8. Known' /\ Between'
  BY <1>1, <1>3, <1>4 DEF IInv, Known, Between, Stopped, ProcOf
<1>9. Killed'
  <2>1. \A c, k, m : KillDoes(c, k, m)' <=> KillDoes(c, k, m)
    BY <1>1, <1>3, <1>4 DEF KillDoes
  <2>2. ASSUME NEW c \in ChildIds', NEW k \in Kinds, NEW i \in 1..Len(Queue(c, k)'),
               Queue(c, k)'[i].op = "kill"
        PROVE  KillDoes(c, k, Queue(c, k)[i])'
    <3> DEFINE m == Queue(c, k)'[i]
    <3>1. c \in ChildIds /\ m = Queue(c, k)[i] /\ i \in 1..Len(Queue(c, k))
      BY <1>1
    <3>2. KillDoes(c, k, Queue(c, k)[i])
      BY <2>2, <3>1 DEF IInv, Killed
    <3>3. \A x : x = m => KillDoes(c, k, x)'
      BY <2>1, <3>1, <3>2
    <3> QED  BY <3>3
  <2> QED  BY <2>2 DEF Killed
<1>10. BootOver'
  BY <1>1, <1>2, <1>3 DEF IInv, BootOver, Locked
<1> QED  BY <1>5, <1>6, <1>7, <1>8, <1>9, <1>10 DEF IInv

\* Every step keeps the invariant.
LEMMA NextStep ==
  ASSUME SharedOnly, IInv, [Next]_vars
  PROVE  IInv'
<1>1. \/ Boot
      \/ \E op \in WebOps, u \in Users : WebCall(op, u)
      \/ \E u \in Users : RestartTimer(u)
      \/ \E t \in TaskIds : TaskStep(t)
      \/ \E c \in ChildIds : ChildStep(c) \/ CallFails(c) \/ Crash(c)
      \/ \E p \in Shared : StartAgain(p)
      \/ UNCHANGED vars
  BY NeverTaken DEF Next
<1>2. CASE Boot
  BY <1>2, BootStepKeeps
<1>3. CASE \E op \in WebOps, u \in Users : WebCall(op, u)
  BY <1>3, WebCallKeeps
<1>4. CASE \E u \in Users : RestartTimer(u)
  BY <1>4, RestartTimerKeeps
<1>5. CASE \E t \in TaskIds : TaskStep(t)
  BY <1>5, TaskStepKeeps
<1>6. CASE \E c \in ChildIds : ChildStep(c) \/ CallFails(c) \/ Crash(c)
  BY <1>6, ChildStepKeeps
<1>7. CASE \E p \in Shared : StartAgain(p)
  BY <1>7, StartAgainKeeps
<1>8. CASE UNCHANGED vars
  BY <1>8, StutterKeeps
<1> QED  BY <1>1, <1>2, <1>3, <1>4, <1>5, <1>6, <1>7, <1>8

LEMMA Invariance ==
  ASSUME SharedOnly
  PROVE  Spec => []IInv
<1>1. Init => IInv
  BY InitInv
<1>2. IInv /\ [Next]_vars => IInv'
  BY NextStep
<1> QED  BY <1>1, <1>2, PTL DEF Spec
LEMMA TasksDomain ==
  ASSUME TypeOK
  PROVE  TaskIds = DOMAIN tasks /\ \A t \in TaskIds : tasks[t] \in Task
BY SeqElement DEF TypeOK, TaskIds
-----------------------------------------------------------------------------
(* The death of a worker is noticed                                        *)

\* _hadExit tells of a worker that was replaced or whose socket was closed, and
\* a dead worker with a socket has all its events to come.
Noticed ==
  /\ \A p \in Shared : procs[p].hadExit =>
       \E c \in ChildIds : children[c].proc = p /\ ~children[c].alive /\ procs[p].sock # c
  /\ \A c \in ChildIds :
       ~children[c].alive /\ procs[children[c].proc].sock = c /\ DiedOnce(children[c].proc) =>
         children[c].events = {"disconnect", "exit"}

\* The steps that neither end nor start a worker nor handle an event.
DeathsSame ==
  /\ ChildIds' = ChildIds
  /\ \A c \in ChildIds :
       /\ children'[c].proc = children[c].proc /\ children'[c].alive = children[c].alive
       /\ children'[c].events = children[c].events
  /\ \A p \in Shared : procs'[p].sock = procs[p].sock /\ procs'[p].hadExit = procs[p].hadExit

LEMMA DeathsKeep ==
  ASSUME IInv, Noticed, DeathsSame
  PROVE  Noticed'
<1>1. \A c \in ChildIds : children[c].proc \in Shared
  BY DEF IInv, Workers
<1>2. \A p : DiedOnce(p)' <=> DiedOnce(p)
  BY DEF DiedOnce, DeathsSame
<1> QED  BY <1>1, <1>2 DEF Noticed, DeathsSame

LEMMA CrashNoticed ==
  ASSUME IInv, Noticed, NEW c \in ChildIds, Crash(c)
  PROVE  Noticed'
<1>1. /\ children[c].alive /\ procs' = procs
      /\ children' = [children EXCEPT ![c] = Dead(children[c])]
  BY DEF Crash, processes
<1>2. /\ ChildIds' = ChildIds
      /\ \A d \in ChildIds :
           /\ children'[d].proc = children[d].proc
           /\ d # c => children'[d] = children[d]
      /\ ~children'[c].alive
  BY <1>1, DeadFacts DEF IInv
<1>3. children'[c].events = {"disconnect", "exit"}
  <2>1. children[c] \in Child /\ c \in DOMAIN children
    BY ChildTyped DEF IInv, TypeOK, ChildIds
  <2> QED  BY <1>1, <2>1 DEF Dead, Child
<1>4. \A d \in ChildIds : ~children[d].alive => ~children'[d].alive
  BY <1>1, <1>2
<1>5. \A p : DiedOnce(p)' => DiedOnce(p)
  BY <1>2, <1>4 DEF DiedOnce
<1>6. \A p \in Shared : procs'[p].hadExit =>
        \E d \in ChildIds' : children'[d].proc = p /\ ~children'[d].alive /\ procs'[p].sock # d
  BY <1>1, <1>2, <1>4 DEF Noticed
<1>7. \A d \in ChildIds' :
        ~children'[d].alive /\ procs'[children'[d].proc].sock = d /\ DiedOnce(children[d].proc)' =>
          children'[d].events = {"disconnect", "exit"}
  BY <1>1, <1>2, <1>3, <1>5 DEF Noticed
<1> QED  BY <1>6, <1>7, <1>2 DEF Noticed

\* "if (!this._hadExit)": the exit that is reported closes the socket; if one was
\* reported before, the socket belongs to a later worker.
LEMMA EventNoticed ==
  ASSUME IInv, Noticed, NEW c \in ChildIds, NEW e \in {"disconnect", "exit"}, e \in children[c].events,
         children' = [children EXCEPT ![c].events = @ \ {e}],
         NEW before \in [1..(NProcs + MaxTasks) -> Process],
         \A q \in DOMAIN procs : before[q].sock = procs[q].sock /\ before[q].hadExit = procs[q].hadExit,
         OnceExit(children[c].proc, before)
  PROVE  Noticed'
<1> DEFINE p == children[c].proc
<1>1. /\ ChildIds' = ChildIds /\ ChildrenKeep
      /\ \A d \in ChildIds : children'[d].alive = children[d].alive
  BY EventFacts DEF IInv
<1>2. \A d \in ChildIds : children'[d].proc = children[d].proc
  BY <1>1 DEF ChildrenKeep
<1>3. \A d \in ChildIds : d # c => children'[d].events = children[d].events
  BY DEF IInv, TypeOK, ChildIds
<1>4. /\ ~children[c].alive /\ p \in Shared /\ Shared \subseteq DOMAIN procs
      /\ DOMAIN procs = 1..(NProcs + MaxTasks) /\ c # 0
  <2>1. Shared \subseteq 1..(NProcs + MaxTasks)
    BY ProcAssumption, EngineBoundAssumption DEF Shared
  <2> QED  BY <2>1 DEF IInv, Workers, TypeOK, ChildIds
<1>5. /\ \A q \in Shared : q # p => procs'[q].sock = procs[q].sock /\ procs'[q].hadExit = procs[q].hadExit
      /\ procs[p].hadExit => procs'[p].sock = procs[p].sock /\ procs'[p].hadExit
      /\ ~procs[p].hadExit => procs'[p].sock = 0 /\ procs'[p].hadExit
  <2>1. CASE procs[p].hadExit
    <3>1. procs' = before
      BY <1>4, <2>1 DEF OnceExit
    <3> QED  BY <1>4, <2>1, <3>1
  <2>2. CASE ~procs[p].hadExit
    <3> DEFINE b == [before EXCEPT ![p].hadExit = TRUE]
    <3>1. \A q \in Shared :
            /\ q # p => b[q] = before[q]
            /\ q = p => b[q] = [before[p] EXCEPT !.hadExit = TRUE]
      BY <1>4
    <3>2. DOMAIN b = DOMAIN procs
      BY <1>4
    <3> HIDE DEF b
    <3>3. EmitExit({p}, FALSE, stopped, b)
      BY <1>4, <2>2 DEF OnceExit, b
    <3>4. stopped = FALSE
      BY DEF IInv, Calm
    <3>5. procs' = [q \in DOMAIN b |-> IF q \in {p} /\ IsShared(q) /\ ~stopped
                                       THEN [b[q] EXCEPT !.child = 0, !.sock = 0, !.starting = "delay"]
                                       ELSE b[q]]
      BY <3>3 DEF EmitExit
    <3>6. \A q \in Shared : before[q] \in Process
      BY <1>4
    <3>7. procs'[p] = [[before[p] EXCEPT !.hadExit = TRUE]
                         EXCEPT !.child = 0, !.sock = 0, !.starting = "delay"]
      BY <1>4, <3>1, <3>2, <3>4, <3>5 DEF IsShared
    <3>8. procs'[p].sock = 0 /\ procs'[p].hadExit
      BY <1>4, <3>6, <3>7 DEF Process
    <3>9. \A q \in Shared : q # p => procs'[q] = before[q]
      BY <1>4, <3>1, <3>2, <3>5
    <3> QED  BY <1>4, <2>2, <3>8, <3>9
  <2> QED  BY <2>1, <2>2
<1>6. \A q : DiedOnce(q)' <=> DiedOnce(q)
  BY <1>1, <1>2 DEF DiedOnce
<1> HIDE DEF p
<1>7. \A q \in Shared : procs'[q].hadExit =>
        \E d \in ChildIds' : children'[d].proc = q /\ ~children'[d].alive /\ procs'[q].sock # d
  <2>1. CASE procs[p].hadExit
    BY <1>1, <1>2, <1>5, <2>1 DEF Noticed
  <2>2. CASE ~procs[p].hadExit
    BY <1>1, <1>2, <1>4, <1>5, <2>2 DEF Noticed, p
  <2> QED  BY <2>1, <2>2
<1>8. ASSUME NEW d \in ChildIds, ~children[d].alive, procs'[children[d].proc].sock = d,
             DiedOnce(children[d].proc)
      PROVE  children'[d].events = {"disconnect", "exit"}
  <2>1. children[d].proc \in Shared /\ d # 0
    BY DEF IInv, Workers, ChildIds
  <2>2. CASE children[d].proc # p
    <3>1. d # c
      BY <2>2 DEF p
    <3> QED  BY <1>3, <1>5, <1>8, <2>1, <2>2, <3>1 DEF Noticed
  <2>3. CASE children[d].proc = p
    <3>1. d = c
      BY <1>4, <1>8, <2>3 DEF DiedOnce, p
    <3>2. procs[p].hadExit /\ procs[p].sock = c
      BY <1>5, <1>8, <2>1, <2>3, <3>1
    <3>3. PICK x \in ChildIds : children[x].proc = p /\ ~children[x].alive /\ procs[p].sock # x
      BY <1>4, <3>2 DEF Noticed
    <3>4. x = c
      BY <1>4, <1>8, <2>3, <3>3 DEF DiedOnce, p
    <3> QED  BY <3>2, <3>3, <3>4
  <2> QED  BY <2>2, <2>3
<1> QED  BY <1>1, <1>2, <1>6, <1>7, <1>8 DEF Noticed

LEMMA DisconnectNoticed ==
  ASSUME IInv, Noticed, NEW c \in ChildIds, Disconnect(c)
  PROVE  Noticed'
<1>1. /\ "disconnect" \in children[c].events
      /\ children' = [children EXCEPT ![c].events = @ \ {"disconnect"}]
      /\ OnceExit(children[c].proc, procs)
  BY DEF Disconnect
<1>2. procs \in [1..(NProcs + MaxTasks) -> Process]
  BY DEF IInv, TypeOK
<1> QED  BY <1>1, <1>2, EventNoticed

LEMMA ExitNoticed ==
  ASSUME IInv, Noticed, NEW c \in ChildIds, Exit(c)
  PROVE  Noticed'
<1> DEFINE p == children[c].proc
           st == IF ~children[c].ready /\ procs[p].sock = c /\ procs[p].starting = "child"
                 THEN "failed" ELSE procs[p].starting
           before == [procs EXCEPT ![p].child = 0, ![p].dying = "no", ![p].starting = st]
<1>1. /\ "exit" \in children[c].events
      /\ children' = [children EXCEPT ![c].events = @ \ {"exit"}]
      /\ OnceExit(p, before)
  BY DEF Exit
<1>2. p \in 1..(NProcs + MaxTasks) /\ procs \in [1..(NProcs + MaxTasks) -> Process]
  BY ChildTyped DEF IInv, TypeOK
<1>3. /\ before \in [1..(NProcs + MaxTasks) -> Process]
      /\ \A q \in DOMAIN procs : before[q].sock = procs[q].sock /\ before[q].hadExit = procs[q].hadExit
  <2> DEFINE r == procs[p]
             new == [r EXCEPT !.child = 0, !.dying = "no", !.starting = st]
  <2>1. r \in Process /\ st \in {"none", "delay", "child", "failed"}
    BY <1>2 DEF Process
  <2> HIDE DEF st
  <2>2. before = [procs EXCEPT ![p] = new]
    BY <1>2
  <2> HIDE DEF r, p, before
  <2>3. new \in Process /\ new.sock = r.sock /\ new.hadExit = r.hadExit
    <3>1. 0 \in 0..MaxChildren
      BY EngineBoundAssumption
    <3> QED  BY <2>1, <3>1 DEF Process
  <2> HIDE DEF new
  <2> QED  BY <1>2, <2>2, <2>3 DEF r
<1> HIDE DEF before
<1> QED  BY <1>1, <1>3, EventNoticed

\* restart(): the socket leads to the new worker.
LEMMA StartAgainNoticed ==
  ASSUME IInv, Noticed, NEW p \in Shared, StartAgain(p)
  PROVE  Noticed'
<1> DEFINE n == Len(children) + 1
           W == {t \in TaskIds : tasks[t].at = "waiting" /\ tasks[t].target = p /\ tasks[t].child = 0}
           h == (W # {})
           w == [NewChild(p) EXCEPT !.heard = h]
<1>1. /\ children' = Append(children, w)
      /\ procs' = [procs EXCEPT ![p] = [procs[p] EXCEPT !.child = n, !.sock = n, !.starting = "child"]]
  BY DEF StartAgain
<1>2. /\ p \in 1..(NProcs + MaxTasks) /\ children \in Seq(Child) /\ Len(children) \in Nat
      /\ procs \in [1..(NProcs + MaxTasks) -> Process]
  BY ProcAssumption, EngineBoundAssumption DEF Shared, IInv, TypeOK
<1> HIDE DEF W
<1>3. /\ w \in Child /\ w.alive /\ w.proc = p
  <2>1. h \in BOOLEAN
    OBVIOUS
  <2> HIDE DEF h
  <2> QED  BY <1>2, <2>1, HeardChildFacts
<1> HIDE DEF h, w
<1>4. /\ ChildIds' = ChildIds \cup {n} /\ n \notin ChildIds
      /\ \A c \in ChildIds : children'[c] = children[c]
      /\ children'[n].alive /\ children'[n].proc = p
  BY <1>1, <1>2, <1>3, SeqAppend DEF ChildIds
<1>5. /\ procs'[p].sock = n /\ procs'[p].hadExit = procs[p].hadExit
      /\ \A q \in Shared : q # p => procs'[q] = procs[q]
  <2>1. procs[p] \in Process /\ p \in DOMAIN procs
    BY <1>2
  <2>2. procs'[p] = [procs[p] EXCEPT !.child = n, !.sock = n, !.starting = "child"]
    BY <1>1, <2>1
  <2> HIDE DEF n
  <2>3. procs'[p].sock = n /\ procs'[p].hadExit = procs[p].hadExit
    BY <2>1, <2>2 DEF Process
  <2> QED  BY <1>1, <2>3
<1> HIDE DEF n
<1>6. \A q : DiedOnce(q)' <=> DiedOnce(q)
  BY <1>4 DEF DiedOnce
<1>7. \A q \in Shared : procs'[q].hadExit =>
        \E d \in ChildIds' : children'[d].proc = q /\ ~children'[d].alive /\ procs'[q].sock # d
  BY <1>4, <1>5 DEF Noticed
<1>8. \A d \in ChildIds' :
        ~children'[d].alive /\ procs'[children'[d].proc].sock = d /\ DiedOnce(children[d].proc)' =>
          children'[d].events = {"disconnect", "exit"}
  <2>1. \A d \in ChildIds : children[d].proc \in Shared
    BY DEF IInv, Workers
  <2> QED  BY <1>4, <1>5, <1>6, <2>1 DEF Noticed
<1> QED  BY <1>7, <1>8 DEF Noticed

\* All other steps.
LEMMA OtherDeathsSame ==
  ASSUME SharedOnly, IInv,
         \/ Boot
         \/ \E op \in WebOps, u \in Users : WebCall(op, u)
         \/ \E u \in Users : RestartTimer(u)
         \/ \E t \in TaskIds : TaskStep(t)
         \/ \E c \in ChildIds : WorkerHandle(c) \/ Reply(c) \/ CallFails(c) \/ ChildReady(c)
         \/ UNCHANGED vars
  PROVE  DeathsSame
<1> USE DEF IInv
<1>1. UNCHANGED <<children, procs>> => DeathsSame
  BY DEF DeathsSame, ChildIds
<1>2. ASSUME NEW c \in ChildIds, NEW call \in Call, children' = Sent(c, call), procs' = procs
      PROVE  DeathsSame
  BY <1>2, SentFacts DEF DeathsSame
<1>3. CASE Boot
  <2>1. Len(children) \in Nat /\ Cardinality(Dedicated) = 0
    BY SeqElement, FS_EmptySet DEF TypeOK, SharedOnly
  <2>2. Len(children) + Cardinality(Dedicated) = Len(children)
    BY <2>1
  <2>3. children' = [c \in 1..Len(children) |-> children[c]]
    BY <1>3, <2>2 DEF Boot, ChildIds
  <2>4. children' = children
    BY <2>3 DEF TypeOK
  <2>5. procs' = [p \in DOMAIN procs |-> procs[p]]
    BY <1>3 DEF Boot, SharedOnly
  <2>6. procs' = procs
    BY <2>5 DEF TypeOK
  <2> QED  BY <1>1, <2>4, <2>6
<1>4. CASE \E op \in WebOps, u \in Users : WebCall(op, u)
  BY <1>1, <1>4 DEF WebCall, processes
<1>5. CASE \E u \in Users : RestartTimer(u)
  BY <1>1, <1>5 DEF RestartTimer, processes
<1>6. ASSUME NEW t \in TaskIds, TaskStep(t)
      PROVE  DeathsSame
  <2>0. t \in 1..MaxTasks /\ tasks[t] \in Task /\ tasks[t].user \in Users
    BY SeqElement, TaskTyped, EngineBoundAssumption DEF TypeOK, TaskIds
  <2>1. \A op \in {"run", "kill"}, waits \in BOOLEAN :
          [op |-> op, user |-> tasks[t].user, task |-> t, waits |-> waits] \in Call
    BY <2>0 DEF Call
  <2>2. CASE StartStage(t)
    <3>1. UNCHANGED <<children, procs>>
      BY <2>2 DEF StartStage, RunShared, SharedOnly, processes
    <3> QED  BY <1>1, <3>1
  <2>3. CASE CallRunEngine(t)
    <3>1. procs' = procs /\ ~Starting(t) => tasks[t].at # "token" \/ procs[tasks[t].proc].sock = 0
      BY DEF Starting
    <3>2. tasks[t].at = "token"
      BY <2>3 DEF CallRunEngine
    <3>3. tasks[t].proc \in Shared
      BY <3>2 DEF Locks, Stages
    <3>4. CASE procs[tasks[t].proc].sock = 0
      BY <1>1, <2>3, <3>4 DEF CallRunEngine, processes
    <3>5. CASE procs[tasks[t].proc].sock # 0
      <4>1. PICK c \in ChildIds : c = procs[tasks[t].proc].sock
        BY <3>3, <3>5 DEF Workers
      <4>2. PICK call \in Call : call = [op |-> "run", user |-> tasks[t].user, task |-> t, waits |-> TRUE]
        BY <2>1
      <4>3. children' = Sent(c, call) /\ procs' = procs
        BY <2>3, <3>5, <4>1, <4>2 DEF CallRunEngine, processes
      <4> QED  BY <1>2, <4>3
    <3> QED  BY <3>4, <3>5
  <2>4. ASSUME NEW stage, AtStage(t, stage), NEW waits \in BOOLEAN, NEW a, NEW b,
               KillEngine(t, tasks[t].user, waits, a, b)
        PROVE  DeathsSame
    <3>1. CASE ProcOf(tasks[t].user) = 0
      BY <1>1, <2>4, <3>1 DEF KillEngine
    <3>2. CASE ProcOf(tasks[t].user) # 0
      <4>1. /\ engines[tasks[t].user] \in TaskIds /\ tasks[engines[tasks[t].user]].proc # 0
            /\ ProcOf(tasks[t].user) = tasks[engines[tasks[t].user]].proc
        BY <2>0, <3>2 DEF ProcOf, Known
      <4>2. ProcOf(tasks[t].user) \in Shared
        BY <4>1 DEF Locks, Stages
      <4>3. CASE procs[ProcOf(tasks[t].user)].sock = 0
        BY <1>1, <2>4, <3>2, <4>2, <4>3 DEF KillEngine, IsShared
      <4>4. CASE procs[ProcOf(tasks[t].user)].sock # 0
        <5>1. PICK c \in ChildIds : c = procs[ProcOf(tasks[t].user)].sock
          BY <4>2, <4>4 DEF Workers
        <5>2. PICK call \in Call : call = [op |-> "kill", user |-> tasks[t].user, task |-> t, waits |-> waits]
          BY <2>1
        <5>3. children' = Sent(c, call) /\ procs' = procs
          BY <2>4, <3>2, <4>2, <4>4, <5>1, <5>2 DEF KillEngine, IsShared
        <5> QED  BY <1>2, <5>3
      <4> QED  BY <4>3, <4>4
    <3> QED  BY <3>1, <3>2
  <2>5. CASE KillStage(t)
    BY <2>4, <2>5 DEF KillStage
  <2>6. CASE RmStage(t)
    BY <2>4, <2>6 DEF RmStage
  <2>7. CASE RmDone(t) \/ SendStage(t)
    BY <1>1, <2>7 DEF RmDone, SendStage, processes
  <2> QED  BY <1>6, <2>2, <2>3, <2>5, <2>6, <2>7 DEF TaskStep
<1>7. ASSUME NEW c \in ChildIds, WorkerHandle(c) \/ Reply(c) \/ CallFails(c) \/ ChildReady(c)
      PROVE  DeathsSame
  <2>1. CASE WorkerHandle(c)
    BY <2>1, HandledFacts DEF WorkerHandle, processes, DeathsSame
  <2>2. CASE Reply(c)
    <3>1. Taken(c, "replies") /\ procs' = procs
      BY <2>2, TakenReply DEF Reply, CallReturns, processes
    <3> QED  BY <3>1 DEF Taken, DeathsSame
  <2>3. CASE CallFails(c)
    <3>1. Taken(c, "lost") /\ procs' = procs
      BY <2>3, TakenLost DEF CallFails, CallReturns, processes
    <3> QED  BY <3>1 DEF Taken, DeathsSame
  <2>4. CASE ChildReady(c)
    <3>1. ChildIds' = ChildIds
      BY <2>4, ReadyFacts DEF ChildReady
    <3>2. \A d \in ChildIds :
            /\ children'[d].proc = children[d].proc /\ children'[d].alive = children[d].alive
            /\ children'[d].events = children[d].events
      <4> DEFINE w == [children[c] EXCEPT !.ready = TRUE]
      <4>1. children' = [children EXCEPT ![c] = w] /\ c \in DOMAIN children /\ children[c] \in Child
        <5>1. children' = [children EXCEPT ![c] = w]
          BY <2>4 DEF ChildReady
        <5>2. c \in DOMAIN children /\ children[c] \in Child
          BY ChildTyped DEF TypeOK, ChildIds
        <5> QED  BY <5>1, <5>2
      <4>2. w.proc = children[c].proc /\ w.alive = children[c].alive /\ w.events = children[c].events
        BY <4>1 DEF Child
      <4> HIDE DEF w
      <4>3. \A d \in ChildIds : children'[d] = IF d = c THEN w ELSE children[d]
        BY <4>1 DEF ChildIds, TypeOK
      <4> QED  BY <4>2, <4>3
    <3>3. \A p \in Shared : procs'[p].sock = procs[p].sock /\ procs'[p].hadExit = procs[p].hadExit
      <4> DEFINE q == children[c].proc
                 r == [procs[q] EXCEPT !.starting = "none"]
      <4>1. procs' = [procs EXCEPT ![q] = r] /\ q \in DOMAIN procs /\ procs[q] \in Process
        BY <2>4, ChildTyped DEF ChildReady, TypeOK
      <4>2. r.sock = procs[q].sock /\ r.hadExit = procs[q].hadExit
        BY <4>1 DEF Process
      <4> HIDE DEF q, r
      <4> QED  BY <4>1, <4>2
    <3> QED  BY <3>1, <3>2, <3>3 DEF DeathsSame
  <2> QED  BY <1>7, <2>1, <2>2, <2>3, <2>4
<1>8. CASE UNCHANGED vars
  BY <1>1, <1>8 DEF vars, processes
<1> QED  BY <1>3, <1>4, <1>5, <1>6, <1>7, <1>8

LEMMA NextNoticed ==
  ASSUME SharedOnly, IInv, Noticed, [Next]_vars
  PROVE  Noticed'
<1>1. \/ Boot
      \/ \E op \in WebOps, u \in Users : WebCall(op, u)
      \/ \E u \in Users : RestartTimer(u)
      \/ \E t \in TaskIds : TaskStep(t)
      \/ \E c \in ChildIds : ChildStep(c) \/ CallFails(c) \/ Crash(c)
      \/ \E p \in Shared : StartAgain(p)
      \/ UNCHANGED vars
  BY NeverTaken DEF Next
<1>2. ASSUME NEW c \in ChildIds, ChildStep(c) \/ CallFails(c) \/ Crash(c)
      PROVE  Noticed'
  <2>1. ~ChildExits(c)
    BY DEF ChildExits, IInv, Calm
  <2>2. CASE Crash(c)
    BY <2>2, CrashNoticed
  <2>3. CASE Disconnect(c)
    BY <2>3, DisconnectNoticed
  <2>4. CASE Exit(c)
    BY <2>4, ExitNoticed
  <2>5. CASE WorkerHandle(c) \/ Reply(c) \/ CallFails(c) \/ ChildReady(c)
    <3>1. DeathsSame
      BY <2>5, OtherDeathsSame
    <3> QED  BY <3>1, DeathsKeep
  <2> QED  BY <1>2, <2>1, <2>2, <2>3, <2>4, <2>5 DEF ChildStep
<1>3. CASE \E p \in Shared : StartAgain(p)
  BY <1>3, StartAgainNoticed
<1>4. ASSUME \/ Boot
             \/ \E op \in WebOps, u \in Users : WebCall(op, u)
             \/ \E u \in Users : RestartTimer(u)
             \/ \E t \in TaskIds : TaskStep(t)
             \/ UNCHANGED vars
      PROVE  Noticed'
  <2>1. DeathsSame
    BY <1>4, OtherDeathsSame
  <2> QED  BY <2>1, DeathsKeep
<1> QED  BY <1>1, <1>2, <1>3, <1>4
-----------------------------------------------------------------------------
(* Whatever the website calls: types and the order of the operations       *)

\* What may be left of the plan of an operation before its end.
Left(op) ==
  {Plan[op]}
  \cup (IF op \in {"restartUser", "timer", "restartUserWithoutCache"} THEN {<<"start">>} ELSE {})
  \cup (IF op = "restartUserWithoutCache" THEN {<<"rm", "start">>} ELSE {})
  \cup (IF op = "deleteUser" THEN {<<"rm">>} ELSE {})
OnPlan(task) ==
  /\ task.at # "done" => task.todo \in Left(task.op)
  /\ task.at \in {"waiting", "token", "running"} => Head(task.todo) = "start"
  /\ task.at = "killing" => Head(task.todo) = "kill"
  /\ task.at = "rm" => Head(task.todo) = "rm"
  /\ task.op = "boot" => task.at # "idle"
Plans == \A t \in TaskIds : OnPlan(tasks[t])

\* A call whose task waits for the outcome finds it waiting, and there is only
\* one for each task.
Awaits(m) == m.waits =>
  /\ m.task \in TaskIds /\ m.user = tasks[m.task].user
  /\ m.op = "run" => tasks[m.task].at = "running"
  /\ m.op = "kill" => tasks[m.task].at = "killing"
Waits == \A c \in ChildIds, k \in Kinds : \A i \in 1..Len(Queue(c, k)) : Awaits(Queue(c, k)[i])
WaitsOnce ==
  \A c, d \in ChildIds, k, l \in Kinds :
    \A i \in 1..Len(Queue(c, k)), j \in 1..Len(Queue(d, l)) :
      Queue(c, k)[i].waits /\ Queue(d, l)[j].waits /\ Queue(c, k)[i].task = Queue(d, l)[j].task
        => c = d /\ k = l /\ i = j

\* Before the boot there are no tasks and nothing that starts one.
Young == ~booted => tasks = <<>> /\ \A u \in Users : timers[u] = 0 /\ lockTail[u] = 0

\* deleteUser drops the Lock, and with it the order: what comes before the
\* first deleteUser of a user, and that one itself, still goes in turn.
First(s) ==
  /\ Locked(s)
  /\ \A r \in TaskIds : r < s /\ tasks[r].user = tasks[s].user => tasks[r].op # "deleteUser"
Ahead(s, t) == First(s) /\ Locked(t) /\ s < t /\ tasks[s].user = tasks[t].user
Line ==
  /\ \A t \in TaskIds : ~Locked(t) => tasks[t].user = t
  /\ \A t \in TaskIds : Locked(t) /\ tasks[t].prev # 0 =>
       /\ tasks[t].prev \in TaskIds /\ tasks[t].prev < t
       /\ Locked(tasks[t].prev) /\ tasks[tasks[t].prev].user = tasks[t].user
  /\ \A u \in Users : lockTail[u] # 0 => Locked(lockTail[u]) /\ tasks[lockTail[u]].user = u
  /\ \A s, t \in TaskIds : Ahead(s, t) => tasks[s].at = "done" \/ s <= tasks[t].prev
  /\ \A s \in TaskIds : First(s) => tasks[s].at = "done" \/ s <= lockTail[tasks[s].user]
  /\ \A s, t \in TaskIds : Ahead(s, t) /\ Begun(tasks[t]) => tasks[s].at = "done"

GInv == TypeOK /\ Plans /\ Waits /\ WaitsOnce /\ Young /\ Line

-----------------------------------------------------------------------------
(* The plans                                                               *)

LEMMA TailFacts ==
  /\ <<"rm">> # <<>> /\ Head(<<"rm">>) = "rm" /\ Tail(<<"rm">>) = <<>> /\ Len(<<"rm">>) = 1
  /\ <<"kill", "rm">> # <<>> /\ Head(<<"kill", "rm">>) = "kill"
  /\ Tail(<<"kill", "rm">>) = <<"rm">> /\ Len(<<"kill", "rm">>) = 2
  /\ <<"kill", "rm">> # <<"rm">>
OBVIOUS

LEMMA LeftTyped ==
  ASSUME NEW op \in DOMAIN Plan
  PROVE  Left(op) \subseteq {<<>>} \cup {Plan[o] : o \in DOMAIN Plan} \cup {<<"rm", "start">>}
<1>1. "boot" \in DOMAIN Plan /\ Plan["boot"] = <<"start">>
      /\ "clearCache" \in DOMAIN Plan /\ Plan["clearCache"] = <<"rm">>
  BY PlanFacts
<1> QED  BY <1>1 DEF Left

\* The last stage is the end of the plan, and any other leaves a part that is
\* not the whole.
LEMMA LeftFacts ==
  ASSUME NEW op \in DOMAIN Plan, NEW s \in Left(op)
  PROVE  /\ s # <<>> /\ Len(s) \in Nat
         /\ Len(s) = 1 => Tail(s) = <<>>
         /\ Len(s) # 1 => Tail(s) \in Left(op) /\ Tail(s) # Plan[op]
         /\ op = "boot" => Len(s) = 1 /\ s = Plan[op]
<1>1. CASE op \in {"startUser", "boot"}
  <2>1. s = <<"start">>
    BY <1>1, PlanFacts DEF Left
  <2> QED  BY <1>1, <2>1, PlanFacts, TodoFacts
<1>2. CASE op = "killUser"
  <2>1. s = <<"kill">>
    BY <1>2, PlanFacts DEF Left
  <2> QED  BY <1>2, <2>1, PlanFacts, TodoFacts
<1>3. CASE op \in {"restartUser", "timer"}
  <2>1. s \in {<<"kill", "start">>, <<"start">>} /\ Left(op) = {<<"kill", "start">>, <<"start">>}
        /\ Plan[op] = <<"kill", "start">>
    BY <1>3, PlanFacts DEF Left
  <2>2. op # "boot"
    BY <1>3
  <2>3. CASE s = <<"kill", "start">>
    BY <2>1, <2>2, <2>3, TodoFacts
  <2>4. CASE s = <<"start">>
    BY <2>1, <2>2, <2>4, TodoFacts
  <2> QED  BY <2>1, <2>3, <2>4
<1>4. CASE op = "deleteUser"
  <2>1. s \in {<<"kill", "rm">>, <<"rm">>} /\ Left(op) = {<<"kill", "rm">>, <<"rm">>}
        /\ Plan[op] = <<"kill", "rm">>
    BY <1>4, PlanFacts DEF Left
  <2>2. op # "boot"
    BY <1>4
  <2>3. CASE s = <<"kill", "rm">>
    BY <2>1, <2>2, <2>3, TailFacts
  <2>4. CASE s = <<"rm">>
    BY <2>1, <2>2, <2>4, TailFacts
  <2> QED  BY <2>1, <2>3, <2>4
<1>5. CASE op = "clearCache"
  <2>1. s = <<"rm">>
    BY <1>5, PlanFacts DEF Left
  <2> QED  BY <1>5, <2>1, PlanFacts, TailFacts
<1>6. CASE op = "restartUserWithoutCache"
  <2>1. /\ s \in {<<"kill", "rm", "start">>, <<"rm", "start">>, <<"start">>}
        /\ Left(op) = {<<"kill", "rm", "start">>, <<"rm", "start">>, <<"start">>}
        /\ Plan[op] = <<"kill", "rm", "start">>
    BY <1>6, PlanFacts DEF Left
  <2>2. op # "boot"
    BY <1>6
  <2>3. CASE s = <<"kill", "rm", "start">>
    BY <2>1, <2>2, <2>3, TodoFacts
  <2>4. CASE s = <<"rm", "start">>
    BY <2>1, <2>2, <2>4, TodoFacts
  <2>5. CASE s = <<"start">>
    BY <2>1, <2>2, <2>5, TodoFacts
  <2> QED  BY <2>1, <2>3, <2>4, <2>5
<1>7. CASE op = "sendSocket"
  <2>1. s = <<"send">>
    BY <1>7, PlanFacts DEF Left
  <2> QED  BY <1>7, <2>1, PlanFacts, TodoFacts
<1> QED  BY <1>1, <1>2, <1>3, <1>4, <1>5, <1>6, <1>7, PlanFacts

\* What a record keeps when its task goes on.
Follows(new, task) ==
  /\ new \in Task /\ OnPlan(new)
  /\ new.op = task.op /\ new.user = task.user /\ new.prev = task.prev
  /\ task.at = "done" => new.at = "done"

LEMMA StaysFollows ==
  ASSUME NEW task \in Task, OnPlan(task)
  PROVE  Follows(task, task)
BY DEF Follows

LEMMA FailedFollows ==
  ASSUME NEW task \in Task, OnPlan(task)
  PROVE  Follows(Failed(task), task) /\ Failed(task).at = "done" /\ Failed(task).proc = task.proc
BY TaskTyped DEF Failed, Follows, Task, OnPlan

LEMMA AdvancedFollows ==
  ASSUME NEW task \in Task, OnPlan(task), task.at # "done"
  PROVE  /\ Follows(Advanced(task), task) /\ Begun(Advanced(task))
         /\ Advanced(task).at = IF Len(task.todo) = 1 THEN "done" ELSE "idle"
         /\ Advanced(task).todo = Tail(task.todo)
         /\ Advanced(task).proc = task.proc /\ Advanced(task).ok = task.ok
<1> DEFINE todo == Tail(task.todo)
           at == IF Len(task.todo) = 1 THEN "done" ELSE "idle"
           new == [task EXCEPT !.todo = todo, !.at = at]
<1>1. Advanced(task) = new
  BY DEF Advanced
<1>2. task.op \in DOMAIN Plan /\ task.todo \in Left(task.op)
  BY TaskTyped DEF OnPlan
<1>3. /\ Len(task.todo) = 1 => todo = <<>>
      /\ Len(task.todo) # 1 => todo \in Left(task.op) /\ todo # Plan[task.op]
      /\ task.op = "boot" => Len(task.todo) = 1
  BY <1>2, LeftFacts
<1>4. todo \in {<<>>} \cup {Plan[o] : o \in DOMAIN Plan} \cup {<<"rm", "start">>}
  <2>1. Left(task.op) \subseteq {<<>>} \cup {Plan[o] : o \in DOMAIN Plan} \cup {<<"rm", "start">>}
    BY <1>2, LeftTyped
  <2> QED  BY <1>3, <2>1
<1>5. at \in {"done", "idle"} /\ (at = "idle" => Len(task.todo) # 1)
  OBVIOUS
<1> HIDE DEF todo, at
<1>6. /\ new \in Task /\ new.todo = todo /\ new.at = at /\ new.op = task.op /\ new.user = task.user
      /\ new.prev = task.prev /\ new.proc = task.proc /\ new.ok = task.ok
  BY <1>4, <1>5, TaskTyped DEF Task
<1> HIDE DEF new
<1>7. OnPlan(new)
  BY <1>3, <1>5, <1>6 DEF OnPlan, at
<1>8. Begun(new)
  BY <1>3, <1>5, <1>6 DEF Begun, at
<1>9. Follows(new, task)
  BY <1>6, <1>7 DEF Follows
<1> QED  BY <1>1, <1>6, <1>8, <1>9 DEF todo, at

\* A stage that awaits something.
LEMMA AwaitFollows ==
  ASSUME NEW task \in Task, OnPlan(task), task.at # "done",
         NEW at \in {"killing", "rm", "running"},
         at = "killing" => Head(task.todo) = "kill",
         at = "rm" => Head(task.todo) = "rm",
         at = "running" => Head(task.todo) = "start"
  PROVE  LET new == [task EXCEPT !.at = at] IN
         /\ Follows(new, task) /\ new.at = at /\ new.proc = task.proc /\ new.ok = task.ok
         /\ new.todo = task.todo
<1> DEFINE new == [task EXCEPT !.at = at]
<1>1. /\ new \in Task /\ new.todo = task.todo /\ new.at = at /\ new.op = task.op /\ new.user = task.user
      /\ new.prev = task.prev /\ new.proc = task.proc /\ new.ok = task.ok
  BY TaskTyped DEF Task
<1> HIDE DEF new
<1>2. Follows(new, task)
  BY <1>1 DEF Follows, OnPlan
<1> QED  BY <1>1, <1>2 DEF new

-----------------------------------------------------------------------------
(* The line of each user                                                   *)

\* Who has begun or may begin has those ahead of it behind it.
LEMMA AheadDone ==
  ASSUME Line, NEW s \in TaskIds, NEW t \in TaskIds, Ahead(s, t), Begun(tasks[t]) \/ Granted(t)
  PROVE  tasks[s].at = "done"
<1>1. CASE Begun(tasks[t])
  BY <1>1 DEF Line
<1>2. CASE Granted(t) /\ tasks[s].at # "done"
  <2>1. s <= tasks[t].prev /\ s # 0
    BY <1>2 DEF Line, TaskIds
  <2>2. tasks[t].prev # 0 /\ Locked(t)
    BY <2>1 DEF TaskIds, Ahead
  <2>3. /\ tasks[t].prev \in TaskIds /\ Locked(tasks[t].prev)
        /\ tasks[tasks[t].prev].user = tasks[t].user
    BY <2>2 DEF Line
  <2>4. tasks[tasks[t].prev].at = "done"
    BY <1>2, <2>2 DEF Granted
  <2>5. Begun(tasks[tasks[t].prev])
    BY <2>4 DEF Begun
  <2>6. CASE s = tasks[t].prev
    BY <2>4, <2>6
  <2>7. CASE s < tasks[t].prev
    <3>1. \A p \in TaskIds : p = tasks[t].prev => Ahead(s, p)
      BY <2>3, <2>7 DEF Ahead
    <3> QED  BY <2>3, <2>5, <3>1 DEF Line
  <2> QED  BY <2>1, <2>3, <2>6, <2>7 DEF TaskIds
<1> QED  BY <1>1, <1>2

\* The steps of the tasks that exist: nobody begins but in turn, and only the
\* end of a deleteUser touches the locks.
TasksGo ==
  /\ tasks' \in Seq(Task) /\ Len(tasks') = Len(tasks) /\ TaskIds' = TaskIds
  /\ \A t \in TaskIds :
       /\ Follows(tasks'[t], tasks[t])
       /\ Begun(tasks'[t]) => (Begun(tasks[t]) \/ Granted(t))
  /\ lockTail' \in [Users -> 0..Len(tasks)]
  /\ \A u \in Users :
       \/ lockTail'[u] = lockTail[u]
       \/ /\ lockTail'[u] = 0
          /\ \E d \in TaskIds : /\ tasks[d].op = "deleteUser" /\ tasks[d].user = u
                                /\ tasks'[d].at = "done"

LEMMA LineKeeps ==
  ASSUME TypeOK, Line, TasksGo
  PROVE  Line' /\ Plans'
<1>1. /\ TaskIds' = TaskIds
      /\ \A t \in TaskIds :
           /\ tasks'[t].op = tasks[t].op /\ tasks'[t].user = tasks[t].user
           /\ tasks'[t].prev = tasks[t].prev
           /\ tasks[t].at = "done" => tasks'[t].at = "done"
           /\ Begun(tasks'[t]) => (Begun(tasks[t]) \/ Granted(t))
           /\ tasks[t].user \in Users
  BY TasksDomain, TaskTyped DEF TasksGo, Follows
<1>2. \A t \in TaskIds : (Locked(t)' <=> Locked(t)) /\ (First(t)' <=> First(t))
  BY <1>1 DEF Locked, First
<1>3. \A s, t \in TaskIds : Ahead(s, t)' <=> Ahead(s, t)
  BY <1>1, <1>2 DEF Ahead
<1>4. \A t \in TaskIds : ~Locked(t)' => tasks'[t].user = t
  BY <1>1, <1>2 DEF Line
<1>5. \A t \in TaskIds : Locked(t)' /\ tasks'[t].prev # 0 =>
        /\ tasks'[t].prev \in TaskIds' /\ tasks'[t].prev < t
        /\ Locked(tasks[t].prev)' /\ tasks'[tasks'[t].prev].user = tasks'[t].user
  <2> SUFFICES ASSUME NEW t \in TaskIds, Locked(t), NEW p, p = tasks[t].prev, p # 0
               PROVE  p \in TaskIds /\ p < t /\ tasks'[p].op # "boot" /\ tasks'[p].user = tasks'[t].user
    BY <1>1, <1>2 DEF Locked
  <2>1. p \in TaskIds /\ p < t /\ Locked(p) /\ tasks[p].user = tasks[t].user
    BY DEF Line
  <2> QED  BY <1>1, <2>1 DEF Locked
<1>6. \A u \in Users : lockTail'[u] # 0 =>
        tasks'[lockTail'[u]].op # "boot" /\ tasks'[lockTail'[u]].user = u
  <2> SUFFICES ASSUME NEW u \in Users, lockTail'[u] # 0
               PROVE  tasks'[lockTail'[u]].op # "boot" /\ tasks'[lockTail'[u]].user = u
    OBVIOUS
  <2>1. lockTail'[u] = lockTail[u]
    BY DEF TasksGo
  <2>2. lockTail[u] \in TaskIds
    BY <2>1, SeqElement DEF TypeOK, TaskIds
  <2> QED  BY <1>1, <2>1, <2>2 DEF Line, Locked
<1>7. \A s, t \in TaskIds : Ahead(s, t)' => tasks'[s].at = "done" \/ s <= tasks'[t].prev
  BY <1>1, <1>3 DEF Line
<1>8. ASSUME NEW s \in TaskIds, First(s)
      PROVE  tasks'[s].at = "done" \/ s <= lockTail'[tasks'[s].user]
  <2> DEFINE u == tasks[s].user
  <2>1. CASE lockTail'[u] = lockTail[u]
    BY <1>1, <1>8, <2>1 DEF Line
  <2>2. CASE lockTail'[u] # lockTail[u]
    <3>1. PICK d \in TaskIds : tasks[d].op = "deleteUser" /\ tasks[d].user = u /\ tasks'[d].at = "done"
      BY <1>1, <2>2 DEF TasksGo
    <3>2. Begun(tasks[d]) \/ Granted(d)
      BY <1>1, <3>1 DEF Begun
    <3>3. CASE s < d
      <4>1. Ahead(s, d)
        BY <1>8, <3>1, <3>3 DEF Ahead, Locked
      <4> QED  BY <1>1, <3>2, <4>1, AheadDone
    <3>4. CASE s = d
      BY <3>1, <3>4
    <3>5. CASE d < s
      BY <1>8, <3>1, <3>5 DEF First
    <3> QED  BY <3>3, <3>4, <3>5 DEF TaskIds
  <2> QED  BY <2>1, <2>2
<1>9. \A s, t \in TaskIds : Ahead(s, t)' /\ Begun(tasks'[t]) => tasks'[s].at = "done"
  BY <1>1, <1>3, AheadDone
<1>10. Line'
  BY <1>1, <1>2, <1>4, <1>5, <1>6, <1>7, <1>8, <1>9 DEF Line, Locked
<1>11. Plans'
  BY <1>1 DEF Plans, TasksGo, Follows
<1> QED  BY <1>10, <1>11

\* An operation takes its place.
LEMMA LineGrows ==
  ASSUME TypeOK, Line, Plans, NEW u \in Users, NEW op \in DOMAIN Plan \ {"boot"}, Acquire(op, u)
  PROVE  /\ tasks' \in Seq(Task) /\ Len(tasks') = Len(tasks) + 1 /\ Len(tasks') <= MaxTasks
         /\ TaskIds \subseteq TaskIds' /\ (\A t \in TaskIds : tasks'[t] = tasks[t])
         /\ lockTail' \in [Users -> 0..Len(tasks')]
         /\ Line' /\ Plans'
<1> DEFINE new == NewTask(op, u, lockTail[u])
<1>0. PICK n \in Nat : n = Len(tasks) + 1
  BY SeqElement DEF TypeOK
<1>1. /\ tasks \in Seq(Task) /\ Len(tasks) \in Nat /\ n \in Nat \ {0} /\ n \notin TaskIds
      /\ \A t \in TaskIds : t < n
      /\ lockTail[u] \in 0..Len(tasks) /\ (lockTail[u] # 0 => lockTail[u] \in TaskIds)
      /\ \A t \in TaskIds : t \in Nat /\ t # 0 /\ tasks[t].user \in Users /\ tasks[t] \in Task
  BY <1>0, TasksDomain, TaskTyped DEF TypeOK, TaskIds
<1>2. tasks' = Append(tasks, new) /\ Len(tasks) < MaxTasks /\ lockTail' = [lockTail EXCEPT ![u] = n]
  BY <1>0 DEF Acquire
<1>3. /\ lockTail[u] \in 0..Len(tasks) /\ lockTail \in [Users -> 0..Len(tasks)]
  BY DEF TypeOK
<1>4. new \in Task /\ OnPlan(new)
  <2> DEFINE todo == Plan[op]
             prev == lockTail[u]
             task == [op |-> op, user |-> u, prev |-> prev, todo |-> todo, at |-> "idle",
                      target |-> 0, child |-> 0, proc |-> 0, ok |-> TRUE]
  <2>1. new = task
    BY DEF NewTask
  <2>2. todo \in {<<>>} \cup {Plan[o] : o \in DOMAIN Plan} \cup {<<"rm", "start">>} /\ todo \in Left(op)
    BY DEF Left
  <2>3. prev \in 0..MaxTasks /\ 0 \in 0..(NProcs + MaxTasks) /\ 0 \in 0..MaxChildren
    BY <1>1, <1>2, <1>3, ProcAssumption, EngineBoundAssumption
  <2> HIDE DEF todo, prev, new
  <2>4. task \in Task
    BY <2>2, <2>3 DEF Task
  <2>5. OnPlan(task)
    BY <2>2 DEF OnPlan
  <2> QED  BY <2>1, <2>4, <2>5
<1>5. /\ new.op = op /\ new.user = u /\ new.prev = lockTail[u] /\ ~Begun(new) /\ new.at # "done"
  BY DEF NewTask, Begun
<1> HIDE DEF new
<1>6. /\ tasks' \in Seq(Task) /\ Len(tasks') = n
      /\ TaskIds' = TaskIds \cup {n}
      /\ \A t \in TaskIds : tasks'[t] = tasks[t]
      /\ tasks'[n] = new
  <2>1. /\ tasks' \in Seq(Task) /\ Len(tasks') = n
        /\ \A t \in 1..n : tasks'[t] = IF t = n THEN new ELSE tasks[t]
    BY <1>0, <1>1, <1>2, <1>4, SeqAppend
  <2> QED  BY <1>0, <1>1, <2>1 DEF TaskIds
<1>7. /\ lockTail' \in [Users -> 0..n] /\ lockTail'[u] = n
      /\ \A v \in Users : v # u => lockTail'[v] = lockTail[v]
  BY <1>0, <1>1, <1>2, <1>3
<1>8. n <= MaxTasks
  BY <1>0, <1>1, <1>2, EngineBoundAssumption
<1>9. /\ \A t \in TaskIds : (Locked(t)' <=> Locked(t))
      /\ tasks'[n].op # "boot"
  BY <1>5, <1>6 DEF Locked
<1>10. \A t \in TaskIds : First(t)' <=> First(t)
  BY <1>1, <1>6, <1>9 DEF First
<1>11. \A s, t \in TaskIds : Ahead(s, t)' <=> Ahead(s, t)
  BY <1>6, <1>9, <1>10 DEF Ahead
<1>12. ASSUME NEW s \in TaskIds, NEW t, t = n, Ahead(s, t)'
       PROVE  First(s) /\ tasks[s].user = u
  BY <1>5, <1>6, <1>10, <1>12 DEF Ahead
<1>13. ASSUME NEW s, s = n, NEW t \in TaskIds', Ahead(s, t)'
       PROVE  FALSE
  BY <1>1, <1>6, <1>13 DEF Ahead
<1>14. lockTail[u] # 0 => /\ lockTail[u] \in TaskIds /\ Locked(lockTail[u])
                          /\ tasks[lockTail[u]].user = u
  BY <1>1 DEF Line
<1>15. \A t \in TaskIds' : tasks'[t].op = "boot" => tasks'[t].user = t
  BY <1>6, <1>9 DEF Line, Locked
<1>16. \A t \in TaskIds' : Locked(t)' /\ tasks'[t].prev # 0 =>
         /\ tasks'[t].prev \in TaskIds' /\ tasks'[t].prev < t
         /\ tasks'[tasks'[t].prev].op # "boot" /\ tasks'[tasks'[t].prev].user = tasks'[t].user
  <2>1. ASSUME NEW t \in TaskIds, Locked(t), tasks[t].prev # 0
        PROVE  /\ tasks'[t].prev \in TaskIds' /\ tasks'[t].prev < t
               /\ tasks'[tasks'[t].prev].op # "boot" /\ tasks'[tasks'[t].prev].user = tasks'[t].user
    <3>1. /\ tasks[t].prev \in TaskIds /\ tasks[t].prev < t
          /\ Locked(tasks[t].prev) /\ tasks[tasks[t].prev].user = tasks[t].user
      BY <2>1 DEF Line
    <3> QED  BY <1>6, <3>1 DEF Locked
  <2>2. ASSUME lockTail[u] # 0
        PROVE  /\ tasks'[n].prev \in TaskIds' /\ tasks'[n].prev < n
               /\ tasks'[tasks'[n].prev].op # "boot" /\ tasks'[tasks'[n].prev].user = tasks'[n].user
    BY <1>1, <1>5, <1>6, <1>14, <2>2 DEF Locked
  <2> QED  BY <1>5, <1>6, <1>9, <2>1, <2>2 DEF Locked
<1>17. \A v \in Users : lockTail'[v] # 0 => tasks'[lockTail'[v]].op # "boot" /\ tasks'[lockTail'[v]].user = v
  <2>1. ASSUME NEW v \in Users, v # u, lockTail[v] # 0
        PROVE  tasks'[lockTail'[v]].op # "boot" /\ tasks'[lockTail'[v]].user = v
    <3>1. lockTail[v] \in TaskIds /\ lockTail'[v] = lockTail[v]
      BY <1>0, <1>1, <1>3, <1>7, <2>1 DEF TaskIds
    <3> QED  BY <1>6, <2>1, <3>1 DEF Line, Locked
  <2>2. tasks'[n].op # "boot" /\ tasks'[n].user = u
    BY <1>5, <1>6
  <2> QED  BY <1>7, <2>1, <2>2
<1>18. \A s, t \in TaskIds' : Ahead(s, t)' => tasks'[s].at = "done" \/ s <= tasks'[t].prev
  <2> SUFFICES ASSUME NEW s \in TaskIds', NEW t \in TaskIds', Ahead(s, t)'
               PROVE  tasks'[s].at = "done" \/ s <= tasks'[t].prev
    OBVIOUS
  <2>1. s \in TaskIds
    BY <1>6, <1>13
  <2>2. CASE t \in TaskIds
    BY <1>6, <1>11, <2>1, <2>2 DEF Line
  <2>3. CASE t = n
    <3>1. First(s) /\ tasks[s].user = u
      BY <1>12, <2>1, <2>3
    <3> QED  BY <1>5, <1>6, <2>1, <2>3, <3>1 DEF Line
  <2> QED  BY <1>6, <2>2, <2>3
<1>19. \A s \in TaskIds' : First(s)' => tasks'[s].at = "done" \/ s <= lockTail'[tasks'[s].user]
  <2>1. \A s \in TaskIds : First(s)' => tasks'[s].at = "done" \/ s <= lockTail'[tasks'[s].user]
    BY <1>1, <1>6, <1>7, <1>10 DEF Line
  <2>2. n <= lockTail'[tasks'[n].user]
    BY <1>1, <1>5, <1>6, <1>7
  <2> QED  BY <1>6, <2>1, <2>2
<1>20. \A s, t \in TaskIds' : Ahead(s, t)' /\ Begun(tasks'[t]) => tasks'[s].at = "done"
  <2> SUFFICES ASSUME NEW s \in TaskIds', NEW t \in TaskIds', Ahead(s, t)', Begun(tasks'[t])
               PROVE  tasks'[s].at = "done"
    OBVIOUS
  <2>1. s \in TaskIds
    BY <1>6, <1>13
  <2>2. t \in TaskIds
    BY <1>5, <1>6
  <2> QED  BY <1>6, <1>11, <2>1, <2>2 DEF Line
<1>21. Line'
  BY <1>15, <1>16, <1>17, <1>18, <1>19, <1>20 DEF Line, Locked
<1>22. Plans'
  BY <1>4, <1>6 DEF Plans
<1> QED  BY <1>0, <1>6, <1>7, <1>8, <1>21, <1>22

-----------------------------------------------------------------------------
(* The calls                                                               *)

Calls == Waits /\ WaitsOnce

\* The tasks that wait for a call stay as they are.
Patient ==
  /\ TaskIds \subseteq TaskIds'
  /\ \A t \in TaskIds : tasks[t].at \in {"running", "killing"} =>
       tasks'[t].at = tasks[t].at /\ tasks'[t].user = tasks[t].user

LEMMA AwaitsKeep ==
  ASSUME Patient, NEW m, Awaits(m), m.op \in {"run", "kill"}
  PROVE  Awaits(m)'
BY DEF Awaits, Patient

LEMMA CallOps ==
  ASSUME TypeOK, NEW c \in ChildIds, NEW k \in Kinds, NEW i \in 1..Len(Queue(c, k))
  PROVE  Queue(c, k)[i].op \in {"run", "kill"} /\ Queue(c, k)[i] \in Call
BY QueueTyped DEF Call

\* Nothing is sent or handled.
LEMMA SameCalls ==
  ASSUME TypeOK, Calls, Patient, ChildIds \subseteq ChildIds',
         \A c \in ChildIds' : \A k \in Kinds :
           Queue(c, k)' = IF c \in ChildIds THEN Queue(c, k) ELSE <<>>
  PROVE  Calls'
<1>1. ASSUME NEW c \in ChildIds', NEW k \in Kinds, NEW i \in 1..Len(Queue(c, k)')
      PROVE  c \in ChildIds /\ Queue(c, k)' = Queue(c, k) /\ i \in 1..Len(Queue(c, k))
  <2>1. c \in ChildIds
    OBVIOUS
  <2> QED  BY <2>1
<1>2. Waits'
  <2>1. ASSUME NEW c \in ChildIds', NEW k \in Kinds, NEW i \in 1..Len(Queue(c, k)')
        PROVE  Awaits(Queue(c, k)[i])'
    <3> DEFINE m == Queue(c, k)'[i]
    <3>1. Awaits(m) /\ m.op \in {"run", "kill"}
      BY <1>1, CallOps DEF Calls, Waits
    <3> HIDE DEF m
    <3>2. \A x : x = m => Awaits(x)'
      BY <3>1, AwaitsKeep
    <3> QED  BY <3>2 DEF m
  <2> QED  BY <2>1 DEF Waits
<1>3. WaitsOnce'
  BY <1>1 DEF Calls, WaitsOnce
<1> QED  BY <1>2, <1>3 DEF Calls

\* A call is sent by a task that was waiting for none.
LEMMA SentCalls ==
  ASSUME TypeOK, Calls, Patient, NEW c \in ChildIds, NEW call \in Call, children' = Sent(c, call),
         call.task \in TaskIds, tasks[call.task].at \notin {"running", "killing"},
         call.waits => /\ call.user = tasks'[call.task].user
                       /\ call.op = "run" => tasks'[call.task].at = "running"
                       /\ call.op = "kill" => tasks'[call.task].at = "killing"
  PROVE  Calls'
<1>1. /\ ChildIds' = ChildIds
      /\ \A d \in ChildIds, k \in Kinds :
           Queue(d, k)' = IF d = c /\ k = Inbox(c) THEN Append(Queue(d, k), call) ELSE Queue(d, k)
  BY SentFacts
<1> DEFINE New(d, k, i) == d = c /\ k = Inbox(c) /\ i = Len(Queue(c, Inbox(c))) + 1
<1>2. ASSUME NEW d \in ChildIds, NEW k \in Kinds, NEW i \in 1..Len(Queue(d, k)')
      PROVE  IF New(d, k, i) THEN Queue(d, k)'[i] = call
             ELSE i \in 1..Len(Queue(d, k)) /\ Queue(d, k)'[i] = Queue(d, k)[i]
  <2>1. Queue(d, k) \in Seq(Call)
    BY QueueTyped
  <2>2. CASE d = c /\ k = Inbox(c)
    <3>1. Queue(d, k)' = Append(Queue(d, k), call)
      BY <1>1, <2>2
    <3>2. /\ Len(Queue(d, k)') = Len(Queue(d, k)) + 1
          /\ Queue(d, k)'[i] = IF i = Len(Queue(d, k)) + 1 THEN call ELSE Queue(d, k)[i]
      BY <2>1, <3>1, SeqAppend
    <3> QED  BY <2>1, <2>2, <3>2, SeqElement
  <2>3. CASE ~(d = c /\ k = Inbox(c))
    BY <1>1, <2>3
  <2> QED  BY <2>2, <2>3
<1>3. ASSUME NEW d \in ChildIds, NEW k \in Kinds, NEW i \in 1..Len(Queue(d, k)), Queue(d, k)[i].waits
      PROVE  Queue(d, k)[i].task # call.task
  BY <1>3, CallOps DEF Calls, Waits, Awaits
<1>4. Waits'
  <2>1. ASSUME NEW d \in ChildIds, NEW k \in Kinds, NEW i \in 1..Len(Queue(d, k)')
        PROVE  Awaits(Queue(d, k)[i])'
    <3> DEFINE m == Queue(d, k)'[i]
    <3>1. \A x : x = m => Awaits(x)'
      <4>1. CASE New(d, k, i)
        <5>1. m = call
          BY <1>2, <4>1
        <5> HIDE DEF m
        <5>2. Awaits(call)'
          BY DEF Awaits, Patient
        <5> QED  BY <5>1, <5>2
      <4>2. CASE ~New(d, k, i)
        <5>1. Awaits(m) /\ m.op \in {"run", "kill"}
          BY <1>2, <4>2, CallOps DEF Calls, Waits
        <5> HIDE DEF m
        <5> QED  BY <5>1, AwaitsKeep
      <4> QED  BY <4>1, <4>2
    <3> QED  BY <3>1
  <2> QED  BY <1>1, <2>1 DEF Waits
<1>5. WaitsOnce'
  <2>1. ASSUME NEW d \in ChildIds, NEW e \in ChildIds, NEW k \in Kinds, NEW l \in Kinds,
               NEW i \in 1..Len(Queue(d, k)'), NEW j \in 1..Len(Queue(e, l)'),
               Queue(d, k)'[i].waits, Queue(e, l)'[j].waits,
               Queue(d, k)'[i].task = Queue(e, l)'[j].task
        PROVE  d = e /\ k = l /\ i = j
    <3>1. CASE New(d, k, i) /\ New(e, l, j)
      BY <3>1
    <3>2. CASE New(d, k, i) /\ ~New(e, l, j)
      BY <1>2, <1>3, <2>1, <3>2
    <3>3. CASE ~New(d, k, i) /\ New(e, l, j)
      BY <1>2, <1>3, <2>1, <3>3
    <3>4. CASE ~New(d, k, i) /\ ~New(e, l, j)
      <4>1. /\ i \in 1..Len(Queue(d, k)) /\ Queue(d, k)'[i] = Queue(d, k)[i]
            /\ j \in 1..Len(Queue(e, l)) /\ Queue(e, l)'[j] = Queue(e, l)[j]
        BY <1>2, <3>4
      <4> QED  BY <2>1, <4>1 DEF Calls, WaitsOnce
    <3> QED  BY <3>1, <3>2, <3>3, <3>4
  <2> QED  BY <1>1, <2>1 DEF WaitsOnce
<1> QED  BY <1>4, <1>5 DEF Calls

\* A call returns to its task, which goes on.
LEMMA ReturnedCalls ==
  ASSUME TypeOK, Calls, NEW c \in ChildIds, NEW k \in {"replies", "lost"}, Queue(c, k) # <<>>,
         Taken(c, k), NEW m, m = Head(Queue(c, k)), TaskIds' = TaskIds,
         \A t \in TaskIds : tasks'[t] = tasks[t] \/ (m.waits /\ t = m.task)
  PROVE  Calls'
<1>1. k \in Kinds /\ Queue(c, k) \in Seq(Call) /\ ChildIds' = ChildIds
  BY QueueTyped DEF Kinds, Taken
<1>2. 1 \in 1..Len(Queue(c, k)) /\ m = Queue(c, k)[1]
  BY <1>1, SeqTail
<1> DEFINE Old(d, l, i) == IF d = c /\ l = k THEN i + 1 ELSE i
<1>3. ASSUME NEW d \in ChildIds, NEW l \in Kinds, NEW i \in 1..Len(Queue(d, l)')
       PROVE  /\ Old(d, l, i) \in 1..Len(Queue(d, l)) /\ Queue(d, l)'[i] = Queue(d, l)[Old(d, l, i)]
              /\ ~(d = c /\ l = k /\ Old(d, l, i) = 1)
  <2>1. CASE d = c /\ l = k
    <3>1. Queue(d, l)' = Tail(Queue(d, l))
      BY <2>1 DEF Taken
    <3>2. /\ Len(Queue(d, l)) \in Nat \ {0} /\ Len(Queue(d, l)') = Len(Queue(d, l)) - 1
          /\ Queue(d, l)'[i] = Queue(d, l)[i + 1]
      BY <1>1, <2>1, <3>1, SeqTail
    <3> QED  BY <2>1, <3>2
  <2>2. CASE ~(d = c /\ l = k)
    BY <2>2 DEF Taken
  <2> QED  BY <2>1, <2>2
<1>4. ASSUME NEW d \in ChildIds, NEW l \in Kinds, NEW i \in 1..Len(Queue(d, l)'),
             m.waits, Queue(d, l)'[i].waits
      PROVE  Queue(d, l)'[i].task # m.task
  <2>1. /\ Old(d, l, i) \in 1..Len(Queue(d, l)) /\ Queue(d, l)'[i] = Queue(d, l)[Old(d, l, i)]
        /\ ~(d = c /\ l = k /\ Old(d, l, i) = 1)
    BY <1>3
  <2> HIDE DEF Old
  <2> QED  BY <1>1, <1>2, <1>4, <2>1 DEF Calls, WaitsOnce
<1>5. Waits'
  <2>1. ASSUME NEW d \in ChildIds, NEW l \in Kinds, NEW i \in 1..Len(Queue(d, l)')
        PROVE  Awaits(Queue(d, l)[i])'
    <3> DEFINE n == Queue(d, l)'[i]
    <3>1. Awaits(n) /\ (n.waits /\ m.waits => n.task # m.task)
      BY <1>3, <1>4 DEF Calls, Waits
    <3> HIDE DEF n
    <3>2. \A x : x = n => Awaits(x)'
      BY <3>1 DEF Awaits
    <3> QED  BY <3>2 DEF n
  <2> QED  BY <1>1, <2>1 DEF Waits
<1>6. WaitsOnce'
  <2>1. ASSUME NEW d \in ChildIds, NEW e \in ChildIds, NEW l \in Kinds, NEW n \in Kinds,
               NEW i \in 1..Len(Queue(d, l)'), NEW j \in 1..Len(Queue(e, n)'),
               Queue(d, l)'[i].waits, Queue(e, n)'[j].waits,
               Queue(d, l)'[i].task = Queue(e, n)'[j].task
        PROVE  d = e /\ l = n /\ i = j
    <3>1. d = e /\ l = n /\ Old(d, l, i) = Old(e, n, j)
      <4>1. /\ Old(d, l, i) \in 1..Len(Queue(d, l)) /\ Queue(d, l)'[i] = Queue(d, l)[Old(d, l, i)]
            /\ Old(e, n, j) \in 1..Len(Queue(e, n)) /\ Queue(e, n)'[j] = Queue(e, n)[Old(e, n, j)]
        BY <1>3
      <4> HIDE DEF Old
      <4> QED  BY <2>1, <4>1 DEF Calls, WaitsOnce
    <3> QED  BY <3>1
  <2> QED  BY <1>1, <2>1 DEF WaitsOnce
<1> QED  BY <1>5, <1>6 DEF Calls

\* A worker handles a call: it moves from the calls to the replies.
LEMMA HandledCalls ==
  ASSUME TypeOK, Calls, NEW c \in ChildIds, WorkerHandle(c)
  PROVE  Calls'
<1> DEFINE m == Head(Queue(c, "calls"))
<1>1. /\ ChildIds' = ChildIds /\ Queue(c, "calls") # <<>> /\ m \in Call
      /\ \A d \in ChildIds : d # c => children'[d] = children[d]
      /\ Queue(c, "calls")' = Tail(Queue(c, "calls"))
      /\ Queue(c, "replies")' = Append(Queue(c, "replies"), m)
      /\ Queue(c, "lost")' = Queue(c, "lost")
  BY HandledFacts
<1>2. tasks' = tasks
  BY DEF WorkerHandle, taskvars
<1>4. /\ Queue(c, "calls") \in Seq(Call) /\ Queue(c, "replies") \in Seq(Call)
      /\ 1 \in 1..Len(Queue(c, "calls")) /\ m = Queue(c, "calls")[1]
      /\ "calls" \in Kinds /\ "replies" \in Kinds /\ "lost" \in Kinds
  <2>1. Queue(c, "calls") \in Seq(Call) /\ Queue(c, "replies") \in Seq(Call)
    BY QueueTyped DEF Kinds
  <2> QED  BY <1>1, <2>1, SeqTail DEF Kinds
<1> HIDE DEF m
<1> DEFINE Moved(d, l, i) == d = c /\ l = "replies" /\ i = Len(Queue(c, "replies")) + 1
           OldKind(d, l, i) == IF Moved(d, l, i) THEN "calls" ELSE l
           Old(d, l, i) == IF Moved(d, l, i) THEN 1 ELSE IF d = c /\ l = "calls" THEN i + 1 ELSE i
<1>8. ASSUME NEW d \in ChildIds, NEW l \in Kinds, NEW i \in 1..Len(Queue(d, l)')
      PROVE  /\ OldKind(d, l, i) \in Kinds /\ Old(d, l, i) \in 1..Len(Queue(d, OldKind(d, l, i)))
             /\ Queue(d, l)'[i] = Queue(d, OldKind(d, l, i))[Old(d, l, i)]
  <2>1. CASE d = c /\ l = "calls"
    <3>1. /\ Len(Queue(d, l)) \in Nat \ {0} /\ Len(Queue(d, l)') = Len(Queue(d, l)) - 1
          /\ Queue(d, l)'[i] = Queue(d, l)[i + 1]
      <4>1. Queue(d, l)' = Tail(Queue(d, l)) /\ Queue(d, l) # <<>> /\ Queue(d, l) \in Seq(Call)
        BY <1>1, <1>4, <2>1
      <4> QED  BY <4>1, SeqTail
    <3> QED  BY <2>1, <3>1
  <2>2. CASE d = c /\ l = "replies"
    <3>1. /\ Len(Queue(d, l)) \in Nat /\ Len(Queue(d, l)') = Len(Queue(d, l)) + 1
          /\ Queue(d, l)'[i] = IF i = Len(Queue(d, l)) + 1 THEN m ELSE Queue(d, l)[i]
      BY <1>1, <1>4, <2>2, SeqAppend, SeqElement
    <3> QED  BY <1>4, <2>2, <3>1
  <2>3. CASE d # c \/ l = "lost"
    <3>1. Queue(d, l)' = Queue(d, l)
      BY <1>1, <2>3 DEF Queue
    <3> QED  BY <2>3, <3>1
  <2> QED  BY <2>1, <2>2, <2>3 DEF Kinds
<1>9. Waits'
  <2>1. ASSUME NEW d \in ChildIds, NEW l \in Kinds, NEW i \in 1..Len(Queue(d, l)')
        PROVE  Awaits(Queue(d, l)[i])'
    <3> DEFINE n == Queue(d, l)'[i]
    <3>1. Awaits(n)
      BY <1>8 DEF Calls, Waits
    <3> HIDE DEF n
    <3>2. \A x : x = n => Awaits(x)'
      BY <1>2, <3>1 DEF Awaits, TaskIds
    <3> QED  BY <3>2 DEF n
  <2> QED  BY <1>1, <2>1 DEF Waits
<1>10. WaitsOnce'
  <2>1. ASSUME NEW d \in ChildIds, NEW e \in ChildIds, NEW l \in Kinds, NEW n \in Kinds,
               NEW i \in 1..Len(Queue(d, l)'), NEW j \in 1..Len(Queue(e, n)'),
               Queue(d, l)'[i].waits, Queue(e, n)'[j].waits,
               Queue(d, l)'[i].task = Queue(e, n)'[j].task
        PROVE  d = e /\ l = n /\ i = j
    <3>1. d = e /\ OldKind(d, l, i) = OldKind(e, n, j) /\ Old(d, l, i) = Old(e, n, j)
      <4>1. /\ OldKind(d, l, i) \in Kinds /\ Old(d, l, i) \in 1..Len(Queue(d, OldKind(d, l, i)))
            /\ Queue(d, l)'[i] = Queue(d, OldKind(d, l, i))[Old(d, l, i)]
            /\ OldKind(e, n, j) \in Kinds /\ Old(e, n, j) \in 1..Len(Queue(e, OldKind(e, n, j)))
            /\ Queue(e, n)'[j] = Queue(e, OldKind(e, n, j))[Old(e, n, j)]
        BY <1>8
      <4> HIDE DEF Old, OldKind
      <4> QED  BY <2>1, <4>1 DEF Calls, WaitsOnce
    <3>2. l = n
      BY <3>1
    <3>3. i = j
      BY <3>1, <3>2
    <3> QED  BY <3>1, <3>2, <3>3
  <2> QED  BY <1>1, <2>1 DEF WaitsOnce
<1> QED  BY <1>9, <1>10 DEF Calls

\* A worker dies: the calls it has not handled are lost.
LEMMA DeadCalls ==
  ASSUME TypeOK, Calls, NEW c \in ChildIds, children' = [children EXCEPT ![c] = Dead(children[c])],
         UNCHANGED tasks
  PROVE  Calls'
<1>1. /\ ChildIds' = ChildIds
      /\ \A d \in ChildIds : d # c => children'[d] = children[d]
      /\ Queue(c, "calls")' = <<>>
      /\ Queue(c, "replies")' = Queue(c, "replies")
      /\ Queue(c, "lost")' = Queue(c, "lost") \o Queue(c, "calls")
  BY DeadFacts
<1>3. /\ Queue(c, "calls") \in Seq(Call) /\ Queue(c, "lost") \in Seq(Call)
      /\ "calls" \in Kinds /\ "replies" \in Kinds /\ "lost" \in Kinds
  BY QueueTyped DEF Kinds
<1> DEFINE Moved(d, l, i) == d = c /\ l = "lost" /\ i > Len(Queue(c, "lost"))
           OldKind(d, l, i) == IF Moved(d, l, i) THEN "calls" ELSE l
           Old(d, l, i) == IF Moved(d, l, i) THEN i - Len(Queue(c, "lost")) ELSE i
<1>5. ASSUME NEW d \in ChildIds, NEW l \in Kinds, NEW i \in 1..Len(Queue(d, l)')
      PROVE  /\ OldKind(d, l, i) \in Kinds /\ Old(d, l, i) \in 1..Len(Queue(d, OldKind(d, l, i)))
             /\ Queue(d, l)'[i] = Queue(d, OldKind(d, l, i))[Old(d, l, i)]
  <2>1. CASE d = c /\ l = "calls"
    BY <1>1, <2>1
  <2>2. CASE d = c /\ l = "lost"
    <3>1. /\ Len(Queue(c, "lost")) \in Nat /\ Len(Queue(c, "calls")) \in Nat
          /\ i \in 1..(Len(Queue(c, "lost")) + Len(Queue(c, "calls")))
          /\ Queue(d, l)'[i] = IF i <= Len(Queue(c, "lost")) THEN Queue(c, "lost")[i]
                               ELSE Queue(c, "calls")[i - Len(Queue(c, "lost"))]
      BY <1>1, <1>3, <2>2, SeqConcat, SeqElement
    <3> QED  BY <1>3, <2>2, <3>1
  <2>3. CASE d # c \/ l = "replies"
    <3>1. Queue(d, l)' = Queue(d, l)
      BY <1>1, <2>3 DEF Queue
    <3> QED  BY <2>3, <3>1
  <2> QED  BY <2>1, <2>2, <2>3 DEF Kinds
<1>6. Waits'
  <2>1. ASSUME NEW d \in ChildIds, NEW l \in Kinds, NEW i \in 1..Len(Queue(d, l)')
        PROVE  Awaits(Queue(d, l)[i])'
    <3> DEFINE n == Queue(d, l)'[i]
    <3>1. Awaits(n)
      BY <1>5 DEF Calls, Waits
    <3> HIDE DEF n
    <3>2. \A x : x = n => Awaits(x)'
      BY <3>1 DEF Awaits, TaskIds
    <3> QED  BY <3>2 DEF n
  <2> QED  BY <1>1, <2>1 DEF Waits
<1>7. WaitsOnce'
  <2>1. ASSUME NEW d \in ChildIds, NEW e \in ChildIds, NEW l \in Kinds, NEW n \in Kinds,
               NEW i \in 1..Len(Queue(d, l)'), NEW j \in 1..Len(Queue(e, n)'),
               Queue(d, l)'[i].waits, Queue(e, n)'[j].waits,
               Queue(d, l)'[i].task = Queue(e, n)'[j].task
        PROVE  d = e /\ l = n /\ i = j
    <3>1. d = e /\ OldKind(d, l, i) = OldKind(e, n, j) /\ Old(d, l, i) = Old(e, n, j)
      <4>1. /\ OldKind(d, l, i) \in Kinds /\ Old(d, l, i) \in 1..Len(Queue(d, OldKind(d, l, i)))
            /\ Queue(d, l)'[i] = Queue(d, OldKind(d, l, i))[Old(d, l, i)]
            /\ OldKind(e, n, j) \in Kinds /\ Old(e, n, j) \in 1..Len(Queue(e, OldKind(e, n, j)))
            /\ Queue(e, n)'[j] = Queue(e, OldKind(e, n, j))[Old(e, n, j)]
        BY <1>5
      <4> HIDE DEF Old, OldKind
      <4> QED  BY <2>1, <4>1 DEF Calls, WaitsOnce
    <3>2. ~(d = c /\ l = "calls") /\ ~(e = c /\ n = "calls")
      BY <1>1, <2>1
    <3>3. l = n
      BY <3>1, <3>2
    <3>4. Len(Queue(c, "lost")) \in Nat
      BY <1>3, SeqElement
    <3>5. i = j
      BY <3>1, <3>2, <3>3, <3>4
    <3> QED  BY <3>1, <3>3, <3>5
  <2> QED  BY <1>1, <2>1 DEF WaitsOnce
<1> QED  BY <1>6, <1>7 DEF Calls

-----------------------------------------------------------------------------
(* The steps of the tasks that exist                                       *)

\* The variables that have nothing to do with the tasks keep their types.
OthersTyped ==
  /\ up' \in BOOLEAN /\ stopped' \in BOOLEAN /\ booted' = booted
  /\ procs' \in [1..(NProcs + MaxTasks) -> Process]
  /\ registered' \in [Users -> 0..(NProcs + MaxTasks)]
  /\ nextProcess' \in Shared
  /\ timers' \in [Users -> Nat] /\ (~booted => \A u \in Users : timers'[u] = 0)
  /\ deleted' \subseteq Users
  /\ calls' \in 0..MaxCalls /\ crashes' \in 0..MaxCrashes /\ timeouts' \in 0..MaxTimeouts

LEMMA OthersSame ==
  ASSUME GInv, UNCHANGED <<phase, processes, timers, bounds>>, up' \in BOOLEAN
  PROVE  OthersTyped
BY DEF OthersTyped, GInv, TypeOK, Young, phase, processes, bounds

ProxiesTyped == engines' \in [Users -> 0..Len(tasks)] /\ listening' \subseteq TaskIds

LEMMA ProxiesSame ==
  ASSUME TypeOK, UNCHANGED proxies
  PROVE  ProxiesTyped
BY DEF ProxiesTyped, TypeOK, proxies

ChildrenTyped == children' \in Seq(Child) /\ Len(children') <= MaxChildren

LEMMA StepEnds ==
  ASSUME GInv, TasksGo, OthersTyped, ProxiesTyped, ChildrenTyped, Calls'
  PROVE  GInv'
<1>1. Line' /\ Plans'
  BY LineKeeps DEF GInv
<1>2. TypeOK'
  BY DEF GInv, TypeOK, TasksGo, OthersTyped, ProxiesTyped, ChildrenTyped
<1>3. Young'
  <2> SUFFICES ASSUME ~booted
               PROVE  tasks' = <<>> /\ \A u \in Users : timers'[u] = 0 /\ lockTail'[u] = 0
    BY DEF Young, OthersTyped
  <2>1. tasks = <<>> /\ \A u \in Users : lockTail[u] = 0
    BY DEF GInv, Young
  <2>2. tasks' = <<>>
    BY <2>1, SeqEmpty DEF TasksGo
  <2>3. \A u \in Users : lockTail'[u] = 0
    BY <2>1 DEF TasksGo
  <2> QED  BY <2>2, <2>3 DEF OthersTyped
<1> QED  BY <1>1, <1>2, <1>3 DEF GInv, Calls

\* What is known of a task.
LEMMA TaskFacts ==
  ASSUME GInv, NEW t \in TaskIds
  PROVE  /\ tasks[t] \in Task /\ OnPlan(tasks[t]) /\ tasks[t].user \in Users
         /\ t \in 1..MaxTasks /\ t \in 0..Len(tasks) /\ t \in Nat /\ t # 0
<1>1. tasks[t] \in Task /\ OnPlan(tasks[t]) /\ t \in 1..MaxTasks
  BY TasksDomain, TaskBound DEF GInv, Plans
<1>2. t \in 0..Len(tasks) /\ t \in Nat /\ t # 0
  BY SeqElement DEF GInv, TypeOK, TaskIds
<1> QED  BY <1>1, <1>2, TaskTyped

LEMMA StepGoes ==
  ASSUME GInv, NEW t \in TaskIds, NEW new, Step(t, new), Follows(new, tasks[t]),
         Begun(tasks[t]) \/ Granted(t)
  PROVE  /\ TasksGo /\ up' \in BOOLEAN
         /\ \A s \in TaskIds : tasks'[s] = IF s = t THEN new ELSE tasks[s]
<1>1. tasks \in Seq(Task) /\ new \in Task
  BY DEF GInv, TypeOK, Follows
<1>2. tasks' = [tasks EXCEPT ![t] = new] /\ up' \in BOOLEAN
  BY DEF Step
<1>3. /\ tasks' \in Seq(Task) /\ Len(tasks') = Len(tasks) /\ TaskIds' = TaskIds
      /\ \A s \in TaskIds : tasks'[s] = IF s = t THEN new ELSE tasks[s]
  BY <1>1, <1>2, SeqUpdate DEF TaskIds
<1>4. \A s \in TaskIds : Follows(tasks'[s], tasks[s]) /\ (Begun(tasks'[s]) => (Begun(tasks[s]) \/ Granted(s)))
  BY <1>3, TaskFacts, StaysFollows
<1>5. new.user \in Users /\ new.user = tasks[t].user /\ new.op = tasks[t].op
  BY <1>1, TaskTyped DEF Follows
<1>6. lockTail \in [Users -> 0..Len(tasks)] /\ 0 \in 0..Len(tasks)
  BY SeqElement DEF GInv, TypeOK
<1>7. /\ lockTail' \in [Users -> 0..Len(tasks)]
      /\ \A u \in Users :
           \/ lockTail'[u] = lockTail[u]
           \/ /\ lockTail'[u] = 0
              /\ \E d \in TaskIds : /\ tasks[d].op = "deleteUser" /\ tasks[d].user = u
                                    /\ tasks'[d].at = "done"
  <2>1. CASE new.at = "done" /\ new.op = "deleteUser"
    <3>1. lockTail' = [lockTail EXCEPT ![new.user] = 0]
      BY <2>1 DEF Step
    <3>2. tasks[t].op = "deleteUser" /\ tasks[t].user = new.user /\ tasks'[t].at = "done"
      BY <1>3, <1>5, <2>1
    <3> QED  BY <1>5, <1>6, <3>1, <3>2
  <2>2. CASE ~(new.at = "done" /\ new.op = "deleteUser")
    BY <1>6, <2>2 DEF Step
  <2> QED  BY <2>1, <2>2
<1> QED  BY <1>2, <1>3, <1>4, <1>7 DEF TasksGo

LEMMA TasksStand ==
  ASSUME GInv, UNCHANGED <<tasks, lockTail>>
  PROVE  TasksGo /\ Patient
<1>1. TasksGo
  BY TaskFacts, StaysFollows DEF TasksGo, GInv, TypeOK, TaskIds
<1> QED  BY <1>1 DEF Patient, TasksGo

\* Each task that changes gets the record that f has for it.
LEMMA TasksMap ==
  ASSUME GInv, NEW W, lockTail' = lockTail, NEW f, tasks' = [t \in TaskIds |-> f[t]],
         \A t \in TaskIds : t \notin W => f[t] = tasks[t],
         \A t \in TaskIds : t \in W => Follows(f[t], tasks[t]) /\ tasks[t].at = "waiting"
  PROVE  TasksGo /\ Patient
<1>1. Len(tasks) \in Nat /\ lockTail \in [Users -> 0..Len(tasks)]
  BY SeqElement DEF GInv, TypeOK
<1>2. \A t \in TaskIds : Follows(f[t], tasks[t])
  BY TaskFacts, StaysFollows
<1>3. \A t \in TaskIds : f[t] \in Task
  BY <1>2 DEF Follows
<1>4. tasks' \in [1..Len(tasks) -> Task]
  BY <1>3 DEF TaskIds
<1>5. tasks' \in Seq(Task) /\ Len(tasks') = Len(tasks)
  BY <1>1, <1>4, SeqOf
<1>6. TaskIds' = TaskIds /\ \A t \in TaskIds : tasks'[t] = f[t]
  BY <1>5 DEF TaskIds
<1>7. \A t \in TaskIds : Begun(tasks'[t]) => (Begun(tasks[t]) \/ Granted(t))
  BY <1>6 DEF Begun
<1>8. TasksGo
  BY <1>1, <1>2, <1>5, <1>6, <1>7 DEF TasksGo
<1>9. Patient
  BY <1>2, <1>6 DEF Patient, Follows
<1> QED  BY <1>8, <1>9

LEMMA PatientStep ==
  ASSUME TasksGo, NEW t \in TaskIds, tasks[t].at \notin {"running", "killing"},
         \A s \in TaskIds : s # t => tasks'[s] = tasks[s]
  PROVE  Patient
BY DEF Patient, TasksGo

LEMMA SameQueues ==
  ASSUME TypeOK, Calls, Patient, ChildrenKeep
  PROVE  Calls'
<1>1. /\ ChildIds \subseteq ChildIds'
      /\ \A c \in ChildIds' : \A k \in Kinds : Queue(c, k)' = IF c \in ChildIds THEN Queue(c, k) ELSE <<>>
  BY QueuesKeep DEF ChildrenKeep
<1> QED  BY <1>1, SameCalls

LEMMA ChildrenSame ==
  ASSUME TypeOK, UNCHANGED children
  PROVE  ChildrenKeep /\ ChildrenTyped
BY DEF ChildrenKeep, ChildrenTyped, TypeOK, ChildIds

LEMMA InvCalls ==
  ASSUME GInv
  PROVE  TypeOK /\ Calls
BY DEF GInv, Calls

\* A step of a task that concerns nothing else.
LEMMA StepAlone ==
  ASSUME GInv, NEW t \in TaskIds, NEW new, Step(t, new), Follows(new, tasks[t]),
         Begun(tasks[t]) \/ Granted(t), tasks[t].at \notin {"running", "killing"},
         UNCHANGED <<phase, proxies, processes, children, timers, bounds>>
  PROVE  GInv' /\ TasksGo
<1>1. TasksGo /\ up' \in BOOLEAN /\ Patient
  BY StepGoes, PatientStep
<1>2. OthersTyped /\ ProxiesTyped /\ ChildrenKeep /\ ChildrenTyped
  BY <1>1, OthersSame, ProxiesSame, ChildrenSame, InvCalls
<1>3. Calls'
  BY <1>1, <1>2, SameQueues, InvCalls
<1> QED  BY <1>1, <1>2, <1>3, StepEnds

\* A task at the beginning of a stage, and the records it may get.
LEMMA AtStageFacts ==
  ASSUME GInv, NEW t \in TaskIds, NEW stage, AtStage(t, stage)
  PROVE  /\ tasks[t].at = "idle" /\ Granted(t) /\ Head(tasks[t].todo) = stage
         /\ tasks[t] \in Task /\ OnPlan(tasks[t]) /\ tasks[t].user \in Users
         /\ Follows(Failed(tasks[t]), tasks[t]) /\ Follows(Advanced(tasks[t]), tasks[t])
<1>1. tasks[t].at = "idle" /\ Granted(t) /\ Head(tasks[t].todo) = stage
  BY DEF AtStage
<1>2. tasks[t] \in Task /\ OnPlan(tasks[t]) /\ tasks[t].user \in Users
  BY TaskFacts
<1> QED  BY <1>1, <1>2, FailedFollows, AdvancedFollows

LEMMA SendStageGoes ==
  ASSUME GInv, NEW t \in TaskIds, SendStage(t)
  PROVE  GInv' /\ TasksGo
<1>1. PICK new \in {Failed(tasks[t]), Advanced(tasks[t])} :
        Step(t, new) /\ UNCHANGED <<phase, proxies, processes, children, timers, bounds>>
  BY DEF SendStage
<1>2. AtStage(t, "send")
  BY DEF SendStage
<1>3. Granted(t) /\ tasks[t].at = "idle" /\ Follows(new, tasks[t])
  BY <1>1, <1>2, AtStageFacts
<1> QED  BY <1>1, <1>3, StepAlone

LEMMA RmDoneGoes ==
  ASSUME GInv, NEW t \in TaskIds, RmDone(t)
  PROVE  GInv' /\ TasksGo
<1>1. /\ tasks[t].at = "rm" /\ Step(t, Advanced(tasks[t]))
      /\ UNCHANGED <<phase, proxies, processes, children, timers, bounds>>
  BY DEF RmDone
<1>2. Begun(tasks[t]) /\ Follows(Advanced(tasks[t]), tasks[t])
  BY <1>1, TaskFacts, AdvancedFollows DEF Begun
<1> QED  BY <1>1, <1>2, StepAlone

\* A socket that leads to no worker, which cannot be.
LEMMA NoSuchWorker ==
  ASSUME TypeOK, NEW c, c \notin ChildIds, NEW w
  PROVE  [children EXCEPT ![c] = w] = children
BY DEF TypeOK, ChildIds

\* A task sends a call.
LEMMA StepSends ==
  ASSUME GInv, NEW t \in TaskIds, NEW new, Step(t, new), Follows(new, tasks[t]),
         Begun(tasks[t]) \/ Granted(t), tasks[t].at \notin {"running", "killing"},
         UNCHANGED <<phase, proxies, processes, timers, bounds>>,
         NEW c, NEW call \in Call, children' = Sent(c, call), call.task = t,
         call.waits => /\ call.user = tasks[t].user
                       /\ call.op = "run" => new.at = "running"
                       /\ call.op = "kill" => new.at = "killing"
  PROVE  GInv' /\ TasksGo
<1>1. /\ TasksGo /\ up' \in BOOLEAN /\ Patient
      /\ tasks'[t] = new /\ new.user = tasks[t].user
  BY StepGoes, PatientStep DEF Follows
<1>2. OthersTyped /\ ProxiesTyped
  BY <1>1, OthersSame, ProxiesSame, InvCalls
<1>3. CASE c \in ChildIds
  <2>1. ChildrenTyped
    BY <1>3, SentFacts DEF ChildrenTyped, GInv, TypeOK
  <2>2. Calls'
    BY <1>1, <1>3, SentCalls, InvCalls
  <2> QED  BY <1>1, <1>2, <2>1, <2>2, StepEnds
<1>4. CASE c \notin ChildIds
  <2>1. UNCHANGED children
    <3> DEFINE w == IF children[c].alive THEN [children[c] EXCEPT !.calls = Append(children[c].calls, call)]
                    ELSE [children[c] EXCEPT !.lost = Append(children[c].lost, call)]
    <3>1. children' = [children EXCEPT ![c] = w]
      BY DEF Sent
    <3> HIDE DEF w
    <3> QED  BY <1>4, <3>1, NoSuchWorker, InvCalls
  <2>2. ChildrenKeep /\ ChildrenTyped
    BY <2>1, ChildrenSame, InvCalls
  <2>3. Calls'
    BY <1>1, <2>2, SameQueues, InvCalls
  <2> QED  BY <1>1, <1>2, <2>2, <2>3, StepEnds
<1> QED  BY <1>3, <1>4

LEMMA CallRunEngineGoes ==
  ASSUME GInv, NEW t \in TaskIds, CallRunEngine(t)
  PROVE  GInv' /\ TasksGo
<1> DEFINE c == procs[tasks[t].proc].sock
           u == tasks[t].user
           call == [op |-> "run", user |-> u, task |-> t, waits |-> TRUE]
           new == [tasks[t] EXCEPT !.at = "running"]
<1>1. /\ tasks[t].at = "token" /\ UNCHANGED <<phase, proxies, processes, timers, bounds>>
      /\ IF c = 0 THEN Step(t, Failed(tasks[t])) /\ UNCHANGED children
         ELSE children' = Sent(c, call) /\ Step(t, new)
  BY DEF CallRunEngine
<1>2. /\ tasks[t] \in Task /\ OnPlan(tasks[t]) /\ u \in Users /\ t \in 1..MaxTasks /\ Begun(tasks[t])
      /\ Head(tasks[t].todo) = "start"
  BY <1>1, TaskFacts DEF Begun, OnPlan
<1>3. CASE c = 0
  <2>1. Follows(Failed(tasks[t]), tasks[t])
    BY <1>2, FailedFollows
  <2> QED  BY <1>1, <1>2, <1>3, <2>1, StepAlone
<1>4. CASE c # 0
  <2>1. Follows(new, tasks[t]) /\ new.at = "running"
    BY <1>1, <1>2, AwaitFollows
  <2>2. call \in Call /\ call.task = t /\ call.user = u /\ call.op = "run"
    <3> HIDE DEF u
    <3> QED  BY <1>2 DEF Call
  <2> HIDE DEF new, call, c
  <2> QED  BY <1>1, <1>2, <1>4, <2>1, <2>2, StepSends
<1> QED  BY <1>3, <1>4

-----------------------------------------------------------------------------
(* Kills                                                                   *)

\* What the listeners of an exit leave.
ExitTyped ==
  /\ listening' \subseteq TaskIds /\ engines' \in [Users -> 0..Len(tasks)]
  /\ timers' \in [Users -> Nat] /\ (~booted => \A u \in Users : timers'[u] = 0)
  /\ registered' \in [Users -> 0..(NProcs + MaxTasks)]
  /\ procs' \in [1..(NProcs + MaxTasks) -> Process]

LEMMA ExitEmitted ==
  ASSUME TypeOK, Young, NEW P, NEW manual, NEW stopping,
         NEW before \in [1..(NProcs + MaxTasks) -> Process], EmitExit(P, manual, stopping, before)
  PROVE  ExitTyped
<1> DEFINE heard == {t \in listening : tasks[t].proc \in P}
           gone == {u \in Users : engines[u] \in heard}
           Later(u) == u \in gone /\ ~manual /\ ~stopping /\ IsShared(tasks[engines[u]].proc)
<1>1. /\ listening' = listening \ heard
      /\ engines' = [u \in Users |-> IF u \in gone THEN 0 ELSE engines[u]]
      /\ timers' = [u \in Users |-> IF Later(u) THEN timers[u] + 1 ELSE timers[u]]
      /\ registered' = [u \in Users |-> IF registered[u] \in P THEN 0 ELSE registered[u]]
      /\ procs' = [p \in DOMAIN before |->
                     IF p \in P /\ IsShared(p) /\ ~stopping
                     THEN [before[p] EXCEPT !.child = 0, !.sock = 0, !.starting = "delay"]
                     ELSE before[p]]
  BY DEF EmitExit
<1>2. ~booted => \A u : ~Later(u)
  <2>1. ~booted => tasks = <<>>
    BY DEF Young
  <2>2. ~booted => listening = {}
    <3>1. tasks = <<>> => TaskIds = {}
      BY DEF TaskIds
    <3> QED  BY <2>1, <3>1 DEF TypeOK
  <2> QED  BY <2>2
<1> HIDE DEF heard, gone, Later
<1>3. /\ Len(tasks) \in Nat /\ engines \in [Users -> 0..Len(tasks)] /\ timers \in [Users -> Nat]
      /\ registered \in [Users -> 0..(NProcs + MaxTasks)] /\ NProcs + MaxTasks \in Nat
      /\ listening \subseteq TaskIds
  BY SeqElement, ProcAssumption, EngineBoundAssumption DEF TypeOK
<1>4. timers' \in [Users -> Nat] /\ (~booted => \A u \in Users : timers'[u] = 0)
  <2>1. \A u \in Users : timers[u] \in Nat /\ timers[u] + 1 \in Nat
    BY <1>3
  <2>2. timers' \in [Users -> Nat]
    BY <1>1, <2>1
  <2>3. \A u \in Users : timers'[u] = IF Later(u) THEN timers[u] + 1 ELSE timers[u]
    BY <1>1
  <2>4. ~booted => \A u \in Users : timers[u] = 0
    BY DEF Young
  <2> QED  BY <1>2, <2>2, <2>3, <2>4
<1>5. engines' \in [Users -> 0..Len(tasks)]
  <2>1. 0 \in 0..Len(tasks)
    BY <1>3
  <2> QED  BY <1>1, <1>3, <2>1
<1>6. registered' \in [Users -> 0..(NProcs + MaxTasks)]
  <2>1. 0 \in 0..(NProcs + MaxTasks)
    BY <1>3
  <2> QED  BY <1>1, <1>3, <2>1
<1>7. procs' \in [1..(NProcs + MaxTasks) -> Process]
  <2>1. DOMAIN before = 1..(NProcs + MaxTasks) /\ \A p \in DOMAIN before : before[p] \in Process
    OBVIOUS
  <2>2. \A p \in DOMAIN before : [before[p] EXCEPT !.child = 0, !.sock = 0, !.starting = "delay"] \in Process
    BY <2>1, ClosedTyped
  <2> QED  BY <1>1, <2>1, <2>2
<1> QED  BY <1>1, <1>3, <1>4, <1>5, <1>6, <1>7 DEF ExitTyped

LEMMA KilledTyped ==
  ASSUME TypeOK, Young, NEW P, P \subseteq 1..(NProcs + MaxTasks), NEW timer \in {"awaited", "alone"},
         NEW stopping, KillProcesses(P, timer, stopping)
  PROVE  ExitTyped /\ ChildrenKeep /\ ChildrenTyped
<1> DEFINE live == {p \in P : procs[p].child # 0}
           bef == [p \in DOMAIN procs |-> IF p \in live
                                          THEN [procs[p] EXCEPT !.hadExit = TRUE, !.dying = timer]
                                          ELSE procs[p]]
           Tells(c) == \E p \in live : procs[p].child = c
           told == [c \in ChildIds |-> IF Tells(c) THEN [children[c] EXCEPT !.told = TRUE] ELSE children[c]]
<1>1. children' = told /\ EmitExit(live, TRUE, stopping, bef)
  BY DEF KillProcesses
<1>2. bef \in [1..(NProcs + MaxTasks) -> Process]
  <2>1. procs \in [1..(NProcs + MaxTasks) -> Process]
    BY DEF TypeOK
  <2>2. \A p \in DOMAIN procs : [procs[p] EXCEPT !.hadExit = TRUE, !.dying = timer] \in Process
    BY <2>1 DEF Process
  <2> HIDE DEF live
  <2> QED  BY <2>1, <2>2
<1>3. ExitTyped
  <2> HIDE DEF live, bef
  <2> QED  BY <1>1, <1>2, ExitEmitted
<1> HIDE DEF Tells
<1>4. \A c \in ChildIds :
        /\ told[c] \in Child
        /\ told[c].proc = children[c].proc /\ told[c].running = children[c].running
        /\ told[c].map = children[c].map /\ told[c].calls = children[c].calls
        /\ told[c].replies = children[c].replies /\ told[c].lost = children[c].lost
  <2> SUFFICES ASSUME NEW c \in ChildIds
               PROVE  /\ told[c] \in Child
                      /\ told[c].proc = children[c].proc /\ told[c].running = children[c].running
                      /\ told[c].map = children[c].map /\ told[c].calls = children[c].calls
                      /\ told[c].replies = children[c].replies /\ told[c].lost = children[c].lost
    OBVIOUS
  <2>1. children[c] \in Child
    BY ChildTyped
  <2>2. CASE Tells(c)
    <3>1. told[c] = [children[c] EXCEPT !.told = TRUE]
      BY <2>2
    <3> HIDE DEF told
    <3> QED  BY <2>1, <3>1 DEF Child
  <2>3. CASE ~Tells(c)
    BY <2>1, <2>3
  <2> QED  BY <2>2, <2>3
<1>5. Len(children) \in Nat /\ Len(children) <= MaxChildren
  BY SeqElement DEF TypeOK
<1>6. told \in [1..Len(children) -> Child]
  BY <1>4 DEF ChildIds
<1> HIDE DEF told
<1>7. children' \in Seq(Child) /\ Len(children') = Len(children)
  BY <1>1, <1>5, <1>6, SeqOf
<1>8. ChildIds' = ChildIds
  BY <1>7 DEF ChildIds
<1>9. ChildrenKeep
  BY <1>1, <1>4, <1>8 DEF ChildrenKeep
<1>10. ChildrenTyped
  BY <1>5, <1>7 DEF ChildrenTyped
<1> QED  BY <1>3, <1>9, <1>10

LEMMA ExitOthers ==
  ASSUME GInv, ExitTyped, UNCHANGED <<booted, nextProcess>>, up' \in BOOLEAN, stopped' \in BOOLEAN,
         deleted' \subseteq Users,
         calls' \in 0..MaxCalls, crashes' \in 0..MaxCrashes, timeouts' \in 0..MaxTimeouts
  PROVE  OthersTyped /\ ProxiesTyped
<1>1. nextProcess' \in Shared
  BY DEF GInv, TypeOK
<1> QED  BY <1>1 DEF ExitTyped, OthersTyped, ProxiesTyped

\* The process of a task.
LEMMA ProcTyped ==
  ASSUME TypeOK, NEW u \in Users
  PROVE  ProcOf(u) \in 0..(NProcs + MaxTasks) /\ (ProcOf(u) # 0 => ProcOf(u) \in DOMAIN procs)
<1>1. 0 \in 0..(NProcs + MaxTasks) /\ NProcs + MaxTasks \in Nat
  BY ProcAssumption, EngineBoundAssumption
<1>2. engines[u] \in 0..Len(tasks)
  BY DEF TypeOK
<1>3. CASE engines[u] = 0
  BY <1>1, <1>3 DEF ProcOf
<1>4. CASE engines[u] # 0
  <2>1. engines[u] \in TaskIds
    BY <1>2, <1>4, SeqElement DEF TypeOK, TaskIds
  <2>2. tasks[engines[u]].proc \in 0..(NProcs + MaxTasks)
    BY <2>1, TasksDomain, TaskTyped
  <2>3. ProcOf(u) = tasks[engines[u]].proc
    BY <1>4 DEF ProcOf
  <2>4. DOMAIN procs = 1..(NProcs + MaxTasks)
    BY DEF TypeOK
  <2> HIDE DEF ProcOf
  <2> QED  BY <1>1, <2>2, <2>3, <2>4
<1> QED  BY <1>3, <1>4

LEMMA KillEngineGoes ==
  ASSUME GInv, NEW t \in TaskIds, tasks[t].at = "idle", Granted(t), NEW waits \in BOOLEAN,
         NEW awaiting, NEW next, KillEngine(t, tasks[t].user, waits, awaiting, next),
         Follows(awaiting, tasks[t]), Follows(next, tasks[t]), waits => awaiting.at = "killing",
         UNCHANGED <<phase, nextProcess, bounds>>
  PROVE  GInv' /\ TasksGo
<1> DEFINE u == tasks[t].user
           p == ProcOf(u)
           c == procs[p].sock
           call == [op |-> "kill", user |-> u, task |-> t, waits |-> waits]
<1>1. /\ tasks[t] \in Task /\ OnPlan(tasks[t]) /\ u \in Users /\ t \in 1..MaxTasks
      /\ p \in 0..(NProcs + MaxTasks) /\ (p # 0 => p \in DOMAIN procs) /\ DOMAIN procs = 1..(NProcs + MaxTasks)
  <2>1. tasks[t] \in Task /\ OnPlan(tasks[t]) /\ u \in Users /\ t \in 1..MaxTasks
    BY TaskFacts
  <2>2. DOMAIN procs = 1..(NProcs + MaxTasks)
    BY DEF GInv, TypeOK
  <2> QED  BY <2>1, <2>2, ProcTyped, InvCalls
<1>2. call \in Call /\ call.task = t /\ call.user = u /\ call.op = "kill" /\ call.waits = waits
  <2> HIDE DEF u
  <2> QED  BY <1>1 DEF Call
<1>3. \/ Step(t, next) /\ UNCHANGED <<proxies, procs, registered, children, timers>>
      \/ p # 0 /\ Step(t, next) /\ KillProcesses({p}, "alone", FALSE)
      \/ /\ UNCHANGED <<proxies, procs, registered, timers>>
         /\ \/ Step(t, Failed(tasks[t])) /\ UNCHANGED children
            \/ children' = Sent(c, call) /\ Step(t, awaiting)
  <2> HIDE DEF call, c, p
  <2> QED  BY DEF KillEngine, call, c, p
<1> HIDE DEF c, p, call
<1>4. CASE Step(t, next) /\ UNCHANGED <<proxies, procs, registered, children, timers>>
  BY <1>4, StepAlone DEF processes
<1>5. CASE p # 0 /\ Step(t, next) /\ KillProcesses({p}, "alone", FALSE)
  <2>1. TasksGo /\ up' \in BOOLEAN /\ Patient
    <3>1. /\ TasksGo /\ up' \in BOOLEAN
          /\ \A s \in TaskIds : tasks'[s] = IF s = t THEN next ELSE tasks[s]
      BY <1>5, StepGoes
    <3> QED  BY <3>1, PatientStep
  <2>2. {p} \subseteq 1..(NProcs + MaxTasks) /\ TypeOK /\ Young
    BY <1>1, <1>5 DEF GInv
  <2>3. ExitTyped /\ ChildrenKeep /\ ChildrenTyped
    BY <1>5, <2>2, KilledTyped
  <2>4. OthersTyped /\ ProxiesTyped
    <3>1. /\ UNCHANGED <<booted, nextProcess>> /\ stopped' \in BOOLEAN /\ deleted' \subseteq Users
          /\ calls' \in 0..MaxCalls /\ crashes' \in 0..MaxCrashes /\ timeouts' \in 0..MaxTimeouts
      BY <2>2 DEF TypeOK, phase, bounds
    <3> QED  BY <2>1, <2>3, <3>1, ExitOthers
  <2>5. Calls'
    BY <2>1, <2>3, SameQueues, InvCalls
  <2> QED  BY <2>1, <2>3, <2>4, <2>5, StepEnds
<1>6. CASE UNCHANGED <<proxies, procs, registered, timers>> /\ Step(t, Failed(tasks[t])) /\ UNCHANGED children
  <2>1. Follows(Failed(tasks[t]), tasks[t])
    BY <1>1, FailedFollows
  <2> QED  BY <1>6, <2>1, StepAlone DEF processes
<1>7. CASE UNCHANGED <<proxies, procs, registered, timers>> /\ children' = Sent(c, call) /\ Step(t, awaiting)
  <2>1. UNCHANGED <<phase, proxies, processes, timers, bounds>>
    BY <1>7 DEF processes
  <2>2. call.waits => /\ call.user = tasks[t].user
                      /\ call.op = "run" => awaiting.at = "running"
                      /\ call.op = "kill" => awaiting.at = "killing"
    BY <1>2
  <2> QED  BY <1>2, <1>7, <2>1, <2>2, StepSends
<1> QED  BY <1>3, <1>4, <1>5, <1>6, <1>7

LEMMA KillStageGoes ==
  ASSUME GInv, NEW t \in TaskIds, KillStage(t)
  PROVE  GInv' /\ TasksGo
<1> DEFINE awaiting == [tasks[t] EXCEPT !.at = "killing"]
<1>1. /\ AtStage(t, "kill") /\ KillEngine(t, tasks[t].user, TRUE, awaiting, Advanced(tasks[t]))
      /\ UNCHANGED <<phase, nextProcess, bounds>>
  BY DEF KillStage
<1>2. /\ tasks[t].at = "idle" /\ Granted(t) /\ Head(tasks[t].todo) = "kill" /\ tasks[t] \in Task
      /\ OnPlan(tasks[t]) /\ Follows(Advanced(tasks[t]), tasks[t])
  BY <1>1, AtStageFacts
<1>3. Follows(awaiting, tasks[t]) /\ awaiting.at = "killing"
  BY <1>2, AwaitFollows
<1> HIDE DEF awaiting
<1> QED  BY <1>1, <1>2, <1>3, KillEngineGoes

LEMMA RmStageGoes ==
  ASSUME GInv, NEW t \in TaskIds, RmStage(t)
  PROVE  GInv' /\ TasksGo
<1> DEFINE rm == [tasks[t] EXCEPT !.at = "rm"]
<1>1. PICK next \in {Failed(tasks[t]), rm} :
        /\ AtStage(t, "rm") /\ KillEngine(t, tasks[t].user, FALSE, rm, next)
        /\ UNCHANGED <<phase, nextProcess, bounds>>
  BY DEF RmStage
<1>2. /\ tasks[t].at = "idle" /\ Granted(t) /\ Head(tasks[t].todo) = "rm" /\ tasks[t] \in Task
      /\ OnPlan(tasks[t]) /\ Follows(Failed(tasks[t]), tasks[t])
  BY <1>1, AtStageFacts
<1>3. Follows(rm, tasks[t])
  BY <1>2, AwaitFollows
<1> HIDE DEF rm
<1> QED  BY <1>1, <1>2, <1>3, KillEngineGoes

-----------------------------------------------------------------------------
(* Starts and returns                                                      *)

LEMMA RunTaskFollows ==
  ASSUME TypeOK, NEW task \in Task, OnPlan(task), task.at # "done", Head(task.todo) = "start",
         NEW p \in Shared
  PROVE  Follows(RunTask(task, p), task) /\ RunTask(task, p).at \in {"waiting", "token", "done"}
<1>1. procs[p] \in Process /\ p \in 0..(NProcs + MaxTasks)
  BY ProcAssumption, EngineBoundAssumption DEF TypeOK, Shared
<1> DEFINE c == procs[p].sock
           new == RunTask(task, p)
<1>2. c \in 0..MaxChildren
  BY <1>1 DEF Process
<1>3. CASE procs[p].starting = "none"
  <2>1. new = [task EXCEPT !.at = "token", !.target = p, !.proc = p]
    BY <1>3 DEF RunTask
  <2> HIDE DEF new
  <2>2. /\ new \in Task /\ new.op = task.op /\ new.user = task.user /\ new.prev = task.prev
        /\ new.todo = task.todo /\ new.at = "token"
    BY <1>1, <2>1, TaskTyped DEF Task
  <2>3. Follows(new, task)
    BY <2>2 DEF Follows, OnPlan
  <2> QED  BY <2>2, <2>3 DEF new
<1>4. CASE procs[p].starting \notin {"none", "failed"}
  <2>1. new = [task EXCEPT !.at = "waiting", !.target = p, !.child = c]
    BY <1>4 DEF RunTask
  <2> HIDE DEF new, c
  <2>2. /\ new \in Task /\ new.op = task.op /\ new.user = task.user /\ new.prev = task.prev
        /\ new.todo = task.todo /\ new.at = "waiting"
    BY <1>1, <1>2, <2>1, TaskTyped DEF Task
  <2>3. Follows(new, task)
    BY <2>2 DEF Follows, OnPlan
  <2> QED  BY <2>2, <2>3 DEF new
<1>5. CASE procs[p].starting = "failed"
  <2> DEFINE gone == Failed(task)
  <2>1. new = [gone EXCEPT !.target = p]
    BY <1>5 DEF RunTask
  <2>2. Follows(gone, task) /\ gone.at = "done"
    BY FailedFollows
  <2> HIDE DEF new, gone
  <2>3. /\ new \in Task /\ new.op = gone.op /\ new.user = gone.user /\ new.prev = gone.prev
        /\ new.todo = gone.todo /\ new.at = "done"
    BY <1>1, <2>1, <2>2, TaskTyped DEF Task, Follows
  <2>4. Follows(new, task)
    BY <2>2, <2>3 DEF Follows, OnPlan
  <2> QED  BY <2>3, <2>4 DEF new
<1> QED  BY <1>3, <1>4, <1>5

LEMMA AppendChild ==
  ASSUME TypeOK, Len(children) < MaxChildren, NEW w \in Child, children' = Append(children, w),
         w.running = {}, w.calls = <<>>, w.replies = <<>>, w.lost = <<>>
  PROVE  ChildrenKeep /\ ChildrenTyped /\ Len(children) + 1 \in 0..MaxChildren
<1>1. /\ w \in Child /\ w.running = {} /\ w.calls = <<>> /\ w.replies = <<>> /\ w.lost = <<>>
      /\ children \in Seq(Child) /\ Len(children) \in Nat
  BY SeqElement DEF TypeOK
<1>2. PICK n \in Nat : n = Len(children) + 1
  BY <1>1
<1>3. children' = Append(children, w)
  OBVIOUS
<1>4. /\ children' \in Seq(Child) /\ Len(children') = n
      /\ \A d \in 1..n : children'[d] = IF d = n THEN w ELSE children[d]
  BY <1>1, <1>2, <1>3, SeqAppend
<1>5. ChildIds' = ChildIds \cup {n} /\ n \notin ChildIds /\ ChildIds \subseteq 1..n /\ n \in 1..n
  BY <1>1, <1>2, <1>4 DEF ChildIds
<1>6. (\A d \in ChildIds : children'[d] = children[d]) /\ children'[n] = w
  BY <1>4, <1>5
<1>7. ChildrenKeep
  BY <1>1, <1>5, <1>6 DEF ChildrenKeep
<1>8. n <= MaxChildren
  BY <1>1, <1>2, EngineBoundAssumption
<1> QED  BY <1>2, <1>4, <1>7, <1>8, EngineBoundAssumption DEF ChildrenTyped

LEMMA StartStageGoes ==
  ASSUME GInv, NEW t \in TaskIds, StartStage(t)
  PROVE  GInv' /\ TasksGo
<1> DEFINE u == tasks[t].user
<1>1. AtStage(t, "start") /\ UNCHANGED <<phase, timers, bounds>>
  BY DEF StartStage
<1>2. /\ tasks[t].at = "idle" /\ Granted(t) /\ Head(tasks[t].todo) = "start" /\ tasks[t] \in Task
      /\ OnPlan(tasks[t]) /\ u \in Users /\ Follows(Failed(tasks[t]), tasks[t])
      /\ t \in 0..Len(tasks) /\ t \in 1..MaxTasks
  BY <1>1, AtStageFacts, TaskFacts
<1>3. TypeOK /\ Young
  BY DEF GInv
<1>4. /\ up \in BOOLEAN /\ stopped' \in BOOLEAN /\ booted' = booted /\ deleted' \subseteq Users
      /\ timers' \in [Users -> Nat] /\ (~booted => \A v \in Users : timers'[v] = 0)
      /\ calls' \in 0..MaxCalls /\ crashes' \in 0..MaxCrashes /\ timeouts' \in 0..MaxTimeouts
  BY <1>1, <1>3 DEF TypeOK, Young, phase, bounds
<1>5. CASE u \in deleted
  <2>1. Step(t, Failed(tasks[t])) /\ UNCHANGED <<proxies, processes, children>>
    BY <1>5 DEF StartStage
  <2> QED  BY <1>1, <1>2, <2>1, StepAlone
<1>6. CASE u \notin deleted /\ u \notin Dedicated
  <2> DEFINE p == nextProcess
             new == RunTask(tasks[t], p)
  <2>1. /\ engines' = [engines EXCEPT ![u] = t] /\ nextProcess' = (p % NProcs) + 1
        /\ Step(t, new) /\ listening' \in {listening, listening \cup {t}}
        /\ UNCHANGED <<procs, registered, children>>
    BY <1>6 DEF StartStage, RunShared
  <2>2. p \in Shared
    BY <1>3 DEF TypeOK
  <2>3. Follows(new, tasks[t])
    BY <1>2, <1>3, <2>2, RunTaskFollows
  <2> HIDE DEF new
  <2>4. /\ TasksGo /\ up' \in BOOLEAN
        /\ \A s \in TaskIds : tasks'[s] = IF s = t THEN new ELSE tasks[s]
    BY <1>2, <2>1, <2>3, StepGoes
  <2>5. Patient
    BY <1>2, <2>4, PatientStep
  <2>6. nextProcess' \in Shared
    BY <2>1, <2>2, NextProcessTyped DEF Shared
  <2>7. OthersTyped
    BY <1>3, <1>4, <2>1, <2>4, <2>6 DEF OthersTyped, TypeOK
  <2>8. ProxiesTyped
    BY <1>2, <1>3, <2>1 DEF ProxiesTyped, TypeOK
  <2>9. ChildrenKeep /\ ChildrenTyped
    BY <1>3, <2>1, ChildrenSame
  <2>10. Calls'
    BY <2>5, <2>9, SameQueues, InvCalls
  <2> QED  BY <2>4, <2>7, <2>8, <2>9, <2>10, StepEnds
<1>7. CASE u \notin deleted /\ u \in Dedicated
  <2> DEFINE p == NProcs + t
             c == Len(children) + 1
             new == [tasks[t] EXCEPT !.at = "waiting", !.target = p, !.child = c]
  <2>1. /\ Len(children) < MaxChildren /\ engines' = [engines EXCEPT ![u] = t]
        /\ children' = Append(children, NewChild(p)) /\ procs' = [procs EXCEPT ![p] = Spawned(c)]
        /\ registered' = [registered EXCEPT ![u] = p] /\ Step(t, new)
        /\ UNCHANGED <<listening, nextProcess>>
    BY <1>7 DEF StartStage, RunDedicated
  <2>2. p \in 1..(NProcs + MaxTasks) /\ p \in 0..(NProcs + MaxTasks)
    BY <1>2, ProcAssumption, EngineBoundAssumption
  <2> HIDE DEF p
  <2>3. ChildrenKeep /\ ChildrenTyped /\ c \in 0..MaxChildren
    BY <1>3, <2>1, <2>2, NewChildFacts, AppendChild
  <2> HIDE DEF c
  <2>4. Spawned(c) \in Process
    BY <2>3 DEF Spawned, Process
  <2>5. Follows(new, tasks[t])
    <3>1. /\ new \in Task /\ new.op = tasks[t].op /\ new.user = u /\ new.prev = tasks[t].prev
          /\ new.todo = tasks[t].todo /\ new.at = "waiting"
      BY <1>2, <2>2, <2>3, TaskTyped DEF Task
    <3> HIDE DEF new
    <3> QED  BY <1>2, <3>1 DEF Follows, OnPlan
  <2> HIDE DEF new
  <2>6. /\ TasksGo /\ up' \in BOOLEAN
        /\ \A s \in TaskIds : tasks'[s] = IF s = t THEN new ELSE tasks[s]
    BY <1>2, <2>1, <2>5, StepGoes
  <2>7. Patient
    BY <1>2, <2>6, PatientStep
  <2>8. OthersTyped
    BY <1>2, <1>3, <1>4, <2>1, <2>2, <2>4, <2>6 DEF OthersTyped, TypeOK
  <2>9. ProxiesTyped
    BY <1>2, <1>3, <2>1 DEF ProxiesTyped, TypeOK
  <2>10. Calls'
    BY <2>3, <2>7, SameQueues, InvCalls
  <2> QED  BY <2>3, <2>6, <2>8, <2>9, <2>10, StepEnds
<1> QED  BY <1>5, <1>6, <1>7

LEMMA TaskStepGoes ==
  ASSUME GInv, NEW t \in TaskIds, TaskStep(t)
  PROVE  GInv' /\ TasksGo
BY StartStageGoes, CallRunEngineGoes, KillStageGoes, RmStageGoes, RmDoneGoes, SendStageGoes DEF TaskStep

LEMMA ReturnGoes ==
  ASSUME GInv, NEW c \in ChildIds, NEW k \in {"replies", "lost"}, Queue(c, k) # <<>>, Taken(c, k),
         NEW ok \in BOOLEAN, up, CallReturns(c, Head(Queue(c, k)), ok)
  PROVE  GInv' /\ TasksGo
<1> DEFINE m == Head(Queue(c, k))
           t == m.task
<1>1. k \in Kinds /\ Queue(c, k) \in Seq(Call) /\ TypeOK
  BY QueueTyped, InvCalls DEF Kinds
<1>2. 1 \in 1..Len(Queue(c, k)) /\ m = Queue(c, k)[1] /\ m \in Call
  BY <1>1, SeqTail
<1>3. Awaits(m) /\ m.op \in {"run", "kill"} /\ m.user \in Users /\ m.waits \in BOOLEAN
  BY <1>1, <1>2 DEF GInv, Waits, Call
<1>4. PICK r : r = m
  OBVIOUS
<1>5. /\ IF r.op = "kill" THEN EmitEngineRemoved(children[c].proc, r.user) ELSE UNCHANGED <<listening, engines>>
      /\ IF r.waits THEN Step(r.task, IF r.op = "run" /\ ~ok THEN Failed(tasks[r.task]) ELSE Advanced(tasks[r.task]))
         ELSE UNCHANGED <<tasks, lockTail, up>>
      /\ UNCHANGED <<phase, processes, timers, bounds>>
  BY <1>4 DEF CallReturns
<1>6. /\ TasksGo /\ up' \in BOOLEAN
      /\ \A s \in TaskIds : tasks'[s] = tasks[s] \/ (r.waits /\ s = r.task)
  <2>1. CASE r.waits
    <3>1. r.task \in TaskIds /\ tasks[r.task].at \in {"running", "killing"}
      BY <1>3, <1>4, <2>1 DEF Awaits
    <3>2. tasks[r.task] \in Task /\ OnPlan(tasks[r.task]) /\ Begun(tasks[r.task])
      BY <3>1, TaskFacts DEF Begun
    <3>3. PICK new \in {Failed(tasks[r.task]), Advanced(tasks[r.task])} : Step(r.task, new)
      BY <1>5, <2>1
    <3>4. Follows(new, tasks[r.task])
      BY <3>1, <3>2, <3>3, FailedFollows, AdvancedFollows
    <3>5. /\ TasksGo /\ up' \in BOOLEAN
          /\ \A s \in TaskIds : tasks'[s] = IF s = r.task THEN new ELSE tasks[s]
      BY <3>1, <3>2, <3>3, <3>4, StepGoes
    <3> QED  BY <2>1, <3>5
  <2>2. CASE ~r.waits
    BY <1>5, <2>2, TasksStand
  <2> QED  BY <2>1, <2>2
<1>7. TaskIds' = TaskIds
  BY <1>6 DEF TasksGo
<1>8. Calls'
  BY <1>1, <1>4, <1>6, <1>7, ReturnedCalls, InvCalls
<1>9. OthersTyped
  BY <1>5, <1>6, OthersSame
<1>10. ProxiesTyped
  <2>1. CASE r.op = "kill"
    <3>1. /\ listening' \subseteq listening
          /\ engines' \in {engines, [engines EXCEPT ![r.user] = 0]}
      BY <1>5, <2>1 DEF EmitEngineRemoved
    <3>2. 0 \in 0..Len(tasks)
      BY <1>1, SeqElement DEF TypeOK
    <3> QED  BY <1>1, <3>1, <3>2 DEF ProxiesTyped, TypeOK
  <2>2. CASE r.op # "kill"
    BY <1>1, <1>5, <2>2 DEF ProxiesTyped, TypeOK
  <2> QED  BY <2>1, <2>2
<1>11. ChildrenTyped
  BY <1>1 DEF Taken, ChildrenTyped, TypeOK
<1> QED  BY <1>6, <1>8, <1>9, <1>10, <1>11, StepEnds

LEMMA ReplyGoes ==
  ASSUME GInv, NEW c \in ChildIds, Reply(c)
  PROVE  GInv' /\ TasksGo
<1>1. Queue(c, "replies") = children[c].replies
  BY DEF Queue
<1>2. Taken(c, "replies") /\ CallReturns(c, Head(Queue(c, "replies")), TRUE) /\ Queue(c, "replies") # <<>> /\ up
  BY <1>1, TakenReply, InvCalls DEF Reply
<1> QED  BY <1>2, ReturnGoes

LEMMA CallFailsGoes ==
  ASSUME GInv, NEW c \in ChildIds, CallFails(c)
  PROVE  GInv' /\ TasksGo
<1>1. Queue(c, "lost") = children[c].lost
  BY DEF Queue
<1>2. Taken(c, "lost") /\ CallReturns(c, Head(Queue(c, "lost")), FALSE) /\ Queue(c, "lost") # <<>> /\ up
  BY <1>1, TakenLost, InvCalls DEF CallFails
<1> QED  BY <1>2, ReturnGoes

-----------------------------------------------------------------------------
(* Workers and the other processes                                         *)

\* Steps that change no task and no call.
LEMMA QuietGoes ==
  ASSUME GInv, UNCHANGED <<tasks, lockTail>>, OthersTyped, ProxiesTyped, ChildrenKeep, ChildrenTyped
  PROVE  GInv' /\ TasksGo
<1>1. TasksGo /\ Patient
  BY TasksStand
<1>2. Calls'
  BY <1>1, SameQueues, InvCalls
<1> QED  BY <1>1, <1>2, StepEnds

LEMMA WorkerHandleGoes ==
  ASSUME GInv, NEW c \in ChildIds, WorkerHandle(c)
  PROVE  GInv' /\ TasksGo
<1>1. UNCHANGED <<up, phase, taskvars, proxies, processes, timers, bounds>>
  BY DEF WorkerHandle
<1>2. TasksGo
  BY <1>1, TasksStand DEF taskvars
<1>3. OthersTyped /\ ProxiesTyped
  <2>1. up' \in BOOLEAN
    BY <1>1 DEF GInv, TypeOK
  <2> QED  BY <1>1, <2>1, OthersSame, ProxiesSame, InvCalls
<1>4. ChildrenTyped
  BY HandledFacts, InvCalls DEF ChildrenTyped, TypeOK
<1>5. Calls'
  BY HandledCalls, InvCalls
<1> QED  BY <1>2, <1>3, <1>4, <1>5, StepEnds

\* A worker dies.
LEMMA DeathGoes ==
  ASSUME GInv, NEW c \in ChildIds, children' = [children EXCEPT ![c] = Dead(children[c])],
         UNCHANGED <<taskvars, proxies>>, OthersTyped
  PROVE  GInv' /\ TasksGo
<1>1. UNCHANGED <<tasks, lockTail>>
  BY DEF taskvars
<1>2. TasksGo /\ ProxiesTyped
  BY <1>1, TasksStand, ProxiesSame, InvCalls
<1>3. ChildrenTyped
  BY DeadFacts, InvCalls DEF ChildrenTyped, TypeOK
<1>4. Calls'
  BY <1>1, DeadCalls, InvCalls
<1> QED  BY <1>2, <1>3, <1>4, StepEnds

LEMMA CrashGoes ==
  ASSUME GInv, NEW c \in ChildIds, Crash(c) \/ ChildExits(c)
  PROVE  GInv' /\ TasksGo
<1>1. /\ children' = [children EXCEPT ![c] = Dead(children[c])]
      /\ UNCHANGED <<up, phase, taskvars, proxies, processes, timers, calls, timeouts>>
      /\ crashes' = crashes \/ (crashes < MaxCrashes /\ crashes' = crashes + 1)
  BY DEF Crash, ChildExits, bounds
<1>2. crashes' \in 0..MaxCrashes
  BY <1>1, EngineBoundAssumption DEF GInv, TypeOK
<1>3. OthersTyped
  BY <1>1, <1>2 DEF OthersTyped, GInv, TypeOK, Young, phase, processes
<1> QED  BY <1>1, <1>3, DeathGoes

LEMMA ReadyFollows ==
  ASSUME NEW task \in Task, OnPlan(task), task.at = "waiting", NEW p \in 0..(NProcs + MaxTasks)
  PROVE  Follows([task EXCEPT !.at = "token", !.proc = p], task)
<1> DEFINE new == [task EXCEPT !.at = "token", !.proc = p]
<1>1. /\ new \in Task /\ new.todo = task.todo /\ new.at = "token" /\ new.op = task.op
      /\ new.user = task.user /\ new.prev = task.prev
  BY TaskTyped DEF Task
<1> HIDE DEF new
<1>2. Follows(new, task)
  BY <1>1 DEF Follows, OnPlan
<1> QED  BY <1>2 DEF new

LEMMA ChildReadyGoes ==
  ASSUME GInv, NEW c \in ChildIds, ChildReady(c)
  PROVE  GInv' /\ TasksGo
<1> DEFINE p == children[c].proc
           W == {t \in TaskIds : tasks[t].at = "waiting" /\ tasks[t].child = c}
           f == [t \in TaskIds |-> IF t \in W THEN [tasks[t] EXCEPT !.at = "token", !.proc = p] ELSE tasks[t]]
<1>1. /\ children' = [children EXCEPT ![c].ready = TRUE]
      /\ procs' = [procs EXCEPT ![p].starting = "none"]
      /\ tasks' = f /\ listening' = listening \cup W
      /\ UNCHANGED <<up, phase, lockTail, engines, registered, nextProcess, timers, bounds>>
  BY DEF ChildReady
<1>2. p \in 1..(NProcs + MaxTasks) /\ p \in 0..(NProcs + MaxTasks)
  BY ChildTyped, InvCalls
<1>3. TypeOK /\ Young
  BY DEF GInv
<1>4. /\ \A t \in TaskIds : t \notin W => f[t] = tasks[t]
      /\ \A t \in TaskIds : t \in W => Follows(f[t], tasks[t]) /\ tasks[t].at = "waiting"
  <2>1. \A t \in TaskIds : t \in W => f[t] = [tasks[t] EXCEPT !.at = "token", !.proc = p]
    OBVIOUS
  <2>2. \A t \in TaskIds : t \in W => tasks[t] \in Task /\ OnPlan(tasks[t]) /\ tasks[t].at = "waiting"
    BY TaskFacts
  <2>3. \A t \in TaskIds : t \notin W => f[t] = tasks[t]
    OBVIOUS
  <2> HIDE DEF f, W, p
  <2> QED  BY <1>2, <2>1, <2>2, <2>3, ReadyFollows
<1>5. tasks' = [t \in TaskIds |-> f[t]] /\ lockTail' = lockTail
  BY <1>1
<1>6. W \subseteq TaskIds
  OBVIOUS
<1> HIDE DEF f, W, p
<1>7. TasksGo /\ Patient
  BY <1>4, <1>5, TasksMap
<1>8. OthersTyped
  <2>1. procs' \in [1..(NProcs + MaxTasks) -> Process]
    BY <1>1, <1>2, <1>3 DEF TypeOK, Process
  <2> QED  BY <1>1, <1>3, <2>1 DEF OthersTyped, TypeOK, Young, phase, bounds
<1>9. ProxiesTyped
  BY <1>1, <1>3, <1>6 DEF ProxiesTyped, TypeOK
<1>10. ChildrenKeep /\ ChildrenTyped
  BY <1>1, <1>3, ReadyFacts DEF ChildrenTyped, TypeOK
<1>11. Calls'
  BY <1>7, <1>10, SameQueues, InvCalls
<1> QED  BY <1>7, <1>8, <1>9, <1>10, <1>11, StepEnds

LEMMA OnceExitTyped ==
  ASSUME TypeOK, Young, NEW p, NEW before \in [1..(NProcs + MaxTasks) -> Process], OnceExit(p, before)
  PROVE  ExitTyped
<1>1. CASE before[p].hadExit
  <2>1. procs' = before /\ UNCHANGED <<proxies, registered, timers>>
    BY <1>1 DEF OnceExit
  <2> QED  BY <2>1 DEF ExitTyped, TypeOK, Young, proxies
<1>2. CASE ~before[p].hadExit
  <2> DEFINE bef == [before EXCEPT ![p].hadExit = TRUE]
  <2>1. EmitExit({p}, FALSE, stopped, bef)
    BY <1>2 DEF OnceExit
  <2>2. bef \in [1..(NProcs + MaxTasks) -> Process]
    BY DEF Process
  <2> HIDE DEF bef
  <2> QED  BY <2>1, <2>2, ExitEmitted
<1> QED  BY <1>1, <1>2

LEMMA DisconnectGoes ==
  ASSUME GInv, NEW c \in ChildIds, Disconnect(c)
  PROVE  GInv' /\ TasksGo
<1>1. /\ children' = [children EXCEPT ![c].events = @ \ {"disconnect"}]
      /\ OnceExit(children[c].proc, procs)
      /\ UNCHANGED <<up, phase, taskvars, nextProcess, bounds>>
  BY DEF Disconnect
<1>2. TypeOK /\ Young
  BY DEF GInv
<1>3. ChildrenKeep /\ ChildrenTyped
  BY <1>1, <1>2, EventFacts DEF ChildrenTyped, TypeOK
<1>4. ExitTyped
  <2>1. procs \in [1..(NProcs + MaxTasks) -> Process]
    BY <1>2 DEF TypeOK
  <2> QED  BY <1>1, <1>2, <2>1, OnceExitTyped
<1>5. OthersTyped /\ ProxiesTyped
  <2>1. /\ UNCHANGED <<booted, nextProcess>> /\ stopped' \in BOOLEAN /\ deleted' \subseteq Users /\ up' \in BOOLEAN
        /\ calls' \in 0..MaxCalls /\ crashes' \in 0..MaxCrashes /\ timeouts' \in 0..MaxTimeouts
    BY <1>1, <1>2 DEF TypeOK, phase, bounds
  <2> QED  BY <1>4, <2>1, ExitOthers
<1>6. UNCHANGED <<tasks, lockTail>>
  BY <1>1 DEF taskvars
<1> QED  BY <1>3, <1>5, <1>6, QuietGoes

LEMMA ExitGoes ==
  ASSUME GInv, NEW c \in ChildIds, Exit(c)
  PROVE  GInv' /\ TasksGo
<1> DEFINE p == children[c].proc
           W == {t \in TaskIds : tasks[t].at = "waiting" /\ tasks[t].child = c}
           f == [t \in TaskIds |-> IF t \in W THEN Failed(tasks[t]) ELSE tasks[t]]
           st == IF ~children[c].ready /\ procs[p].sock = c /\ procs[p].starting = "child"
                 THEN "failed" ELSE procs[p].starting
           before == [procs EXCEPT ![p].child = 0, ![p].dying = "no", ![p].starting = st]
<1>1. /\ children' = [children EXCEPT ![c].events = @ \ {"exit"}]
      /\ OnceExit(p, before)
      /\ tasks' = tasks \/ tasks' = f
      /\ lockTail' = lockTail /\ up' \in BOOLEAN
      /\ UNCHANGED <<phase, nextProcess, bounds>>
  BY DEF Exit
<1>2. TypeOK /\ Young
  BY DEF GInv
<1>3. ChildrenKeep /\ ChildrenTyped
  BY <1>1, <1>2, EventFacts DEF ChildrenTyped, TypeOK
<1>4. ExitTyped
  <2>1. procs \in [1..(NProcs + MaxTasks) -> Process] /\ 0 \in 0..MaxChildren
    BY <1>2, EngineBoundAssumption DEF TypeOK
  <2>0. p \in 1..(NProcs + MaxTasks)
    BY <1>2, ChildTyped
  <2>2. before \in [1..(NProcs + MaxTasks) -> Process]
    <3> DEFINE r == procs[p]
    <3>1. r \in Process /\ st \in {"none", "delay", "child", "failed"}
      BY <2>0, <2>1 DEF Process
    <3> HIDE DEF st, r
    <3>2. [r EXCEPT !.child = 0, !.dying = "no", !.starting = st] \in Process
      BY <2>1, <3>1 DEF Process
    <3>3. before = [procs EXCEPT ![p] = [r EXCEPT !.child = 0, !.dying = "no", !.starting = st]]
      BY <2>0, <2>1 DEF r
    <3> QED  BY <2>0, <2>1, <3>2, <3>3
  <2> HIDE DEF before
  <2> QED  BY <1>1, <1>2, <2>2, OnceExitTyped
<1>5. OthersTyped /\ ProxiesTyped
  <2>1. /\ UNCHANGED <<booted, nextProcess>> /\ stopped' \in BOOLEAN /\ deleted' \subseteq Users /\ up' \in BOOLEAN
        /\ calls' \in 0..MaxCalls /\ crashes' \in 0..MaxCrashes /\ timeouts' \in 0..MaxTimeouts
    BY <1>1, <1>2 DEF TypeOK, phase, bounds
  <2> QED  BY <1>4, <2>1, ExitOthers
<1>6. TasksGo /\ Patient
  <2>1. CASE tasks' = tasks
    BY <1>1, <2>1, TasksStand
  <2>2. CASE tasks' = f
    <3>1. \A t \in TaskIds : t \in W => Follows(f[t], tasks[t]) /\ tasks[t].at = "waiting"
      BY TaskFacts, FailedFollows
    <3>2. \A t \in TaskIds : t \notin W => f[t] = tasks[t]
      OBVIOUS
    <3>3. tasks' = [t \in TaskIds |-> f[t]]
      BY <2>2
    <3> HIDE DEF f, W
    <3> QED  BY <1>1, <3>1, <3>2, <3>3, TasksMap
  <2> QED  BY <1>1, <2>1, <2>2
<1>7. Calls'
  BY <1>3, <1>6, SameQueues, InvCalls
<1> QED  BY <1>3, <1>5, <1>6, <1>7, StepEnds

LEMMA ChildStepGoes ==
  ASSUME GInv, NEW c \in ChildIds, ChildStep(c) \/ CallFails(c)
  PROVE  GInv' /\ TasksGo
BY WorkerHandleGoes, ReplyGoes, CallFailsGoes, ChildReadyGoes, CrashGoes, DisconnectGoes, ExitGoes
DEF ChildStep

LEMMA StartAgainGoes ==
  ASSUME GInv, NEW p \in Shared, StartAgain(p)
  PROVE  GInv' /\ TasksGo
<1> DEFINE c == Len(children) + 1
           W == {t \in TaskIds : tasks[t].at = "waiting" /\ tasks[t].target = p /\ tasks[t].child = 0}
           f == [t \in TaskIds |-> IF t \in W THEN [tasks[t] EXCEPT !.child = c] ELSE tasks[t]]
           h == (W # {})
           w == [NewChild(p) EXCEPT !.heard = h]
<1>1. /\ Len(children) < MaxChildren /\ children' = Append(children, w)
      /\ procs' = [procs EXCEPT ![p] = [procs[p] EXCEPT !.child = c, !.sock = c, !.starting = "child"]]
      /\ tasks' = f /\ UNCHANGED <<up, phase, lockTail, proxies, registered, nextProcess, timers, bounds>>
  BY DEF StartAgain
<1>2. TypeOK /\ Young
  BY DEF GInv
<1>3. p \in 1..(NProcs + MaxTasks)
  BY ProcAssumption, EngineBoundAssumption DEF Shared
<1>4. ChildrenKeep /\ ChildrenTyped /\ c \in 0..MaxChildren
  <2>1. h \in BOOLEAN
    OBVIOUS
  <2> HIDE DEF h
  <2>2. /\ w \in Child /\ w.running = {} /\ w.calls = <<>> /\ w.replies = <<>> /\ w.lost = <<>>
    BY <1>3, <2>1, HeardChildFacts
  <2> HIDE DEF w
  <2> QED  BY <1>1, <1>2, <2>2, AppendChild
<1> HIDE DEF h, w
<1> HIDE DEF c
<1>5. \A t \in TaskIds : t \in W => Follows(f[t], tasks[t]) /\ tasks[t].at = "waiting"
  <2>1. ASSUME NEW t \in TaskIds, t \in W
        PROVE  Follows([tasks[t] EXCEPT !.child = c], tasks[t]) /\ tasks[t].at = "waiting"
    <3> DEFINE new == [tasks[t] EXCEPT !.child = c]
    <3>1. tasks[t] \in Task /\ OnPlan(tasks[t]) /\ tasks[t].at = "waiting"
      BY <2>1, TaskFacts
    <3>2. /\ new \in Task /\ new.todo = tasks[t].todo /\ new.at = "waiting" /\ new.op = tasks[t].op
          /\ new.user = tasks[t].user /\ new.prev = tasks[t].prev
      BY <1>4, <3>1, TaskTyped DEF Task
    <3> HIDE DEF new
    <3>3. Follows(new, tasks[t])
      BY <3>1, <3>2 DEF Follows, OnPlan
    <3> QED  BY <3>1, <3>3 DEF new
  <2>2. \A t \in TaskIds : t \in W => f[t] = [tasks[t] EXCEPT !.child = c]
    OBVIOUS
  <2> HIDE DEF f, W
  <2> QED  BY <2>1, <2>2
<1>6. /\ \A t \in TaskIds : t \notin W => f[t] = tasks[t]
      /\ tasks' = [t \in TaskIds |-> f[t]] /\ lockTail' = lockTail
  BY <1>1
<1> HIDE DEF f, W
<1>7. TasksGo /\ Patient
  BY <1>5, <1>6, TasksMap
<1>8. OthersTyped
  <2>1. procs' \in [1..(NProcs + MaxTasks) -> Process]
    <3>1. procs \in [1..(NProcs + MaxTasks) -> Process]
      BY <1>2 DEF TypeOK
    <3>2. [procs[p] EXCEPT !.child = c, !.sock = c, !.starting = "child"] \in Process
      BY <1>3, <1>4, <3>1 DEF Process
    <3> QED  BY <1>1, <1>3, <3>1, <3>2
  <2> QED  BY <1>1, <1>2, <2>1 DEF OthersTyped, TypeOK, Young, phase, bounds
<1>9. ProxiesTyped
  BY <1>1, <1>2, ProxiesSame
<1>10. Calls'
  BY <1>4, <1>7, SameQueues, InvCalls
<1> QED  BY <1>4, <1>7, <1>8, <1>9, <1>10, StepEnds

LEMMA DyingTimeoutGoes ==
  ASSUME GInv, NEW p \in DOMAIN procs, DyingTimeout(p)
  PROVE  GInv' /\ TasksGo
<1> DEFINE c == procs[p].child
           w == IF children[c].alive THEN Dead(children[c]) ELSE children[c]
<1>1. /\ timeouts < MaxTimeouts /\ timeouts' = timeouts + 1
      /\ procs' = [procs EXCEPT ![p].dying = "no"]
      /\ children' = IF c = 0 THEN children ELSE [children EXCEPT ![c] = w]
      /\ up' \in BOOLEAN
      /\ UNCHANGED <<phase, taskvars, proxies, registered, nextProcess, timers, calls, crashes>>
  BY DEF DyingTimeout
<1>2. TypeOK /\ Young
  BY DEF GInv
<1>3. OthersTyped
  <2>1. timeouts' \in 0..MaxTimeouts
    BY <1>1, <1>2, EngineBoundAssumption DEF TypeOK
  <2>2. procs' \in [1..(NProcs + MaxTasks) -> Process]
    <3>1. procs \in [1..(NProcs + MaxTasks) -> Process]
      BY <1>2 DEF TypeOK
    <3> QED  BY <1>1, <3>1 DEF Process
  <2> QED  BY <1>1, <1>2, <2>1, <2>2 DEF OthersTyped, TypeOK, Young, phase
<1>4. CASE c \in ChildIds /\ children[c].alive
  <2>1. c # 0
    BY <1>4 DEF ChildIds
  <2>2. children' = [children EXCEPT ![c] = Dead(children[c])]
    BY <1>1, <1>4, <2>1
  <2> HIDE DEF c
  <2> QED  BY <1>1, <1>3, <1>4, <2>2, DeathGoes
<1>5. CASE ~(c \in ChildIds /\ children[c].alive)
  <2>1. children' = children
    <3>1. CASE c \notin ChildIds
      <4> HIDE DEF c, w
      <4> QED  BY <1>1, <1>2, <3>1, NoSuchWorker
    <3>2. CASE c \in ChildIds
      <4>1. w = children[c] /\ children \in Seq(Child) /\ c \in DOMAIN children
        BY <1>2, <1>5, <3>2 DEF TypeOK, ChildIds
      <4> HIDE DEF c, w
      <4> QED  BY <1>1, <4>1
    <3> QED  BY <3>1, <3>2
  <2>2. ChildrenKeep /\ ChildrenTyped
    BY <1>2, <2>1, ChildrenSame
  <2>3. ProxiesTyped
    BY <1>1, <1>2, ProxiesSame
  <2>4. UNCHANGED <<tasks, lockTail>>
    BY <1>1 DEF taskvars
  <2> QED  BY <1>3, <2>2, <2>3, <2>4, QuietGoes
<1> QED  BY <1>4, <1>5

LEMMA KillingGoes ==
  ASSUME GInv, NEW stopping, KillProcesses(InProcesses, "awaited", stopping),
         UNCHANGED <<taskvars, booted, nextProcess>>, up' \in BOOLEAN, stopped' \in BOOLEAN,
         deleted' \subseteq Users,
         calls' \in 0..MaxCalls, crashes' \in 0..MaxCrashes, timeouts' \in 0..MaxTimeouts
  PROVE  GInv' /\ TasksGo
<1>1. TypeOK /\ Young
  BY DEF GInv
<1>2. InProcesses \subseteq 1..(NProcs + MaxTasks)
  <2>1. Shared \subseteq 1..(NProcs + MaxTasks)
    BY ProcAssumption, EngineBoundAssumption DEF Shared
  <2>2. \A u \in Users : registered[u] \in 0..(NProcs + MaxTasks)
    BY <1>1 DEF TypeOK
  <2>3. \A u \in Users : registered[u] # 0 => registered[u] \in 1..(NProcs + MaxTasks)
    BY <2>2, ProcAssumption, EngineBoundAssumption
  <2> QED  BY <2>1, <2>3 DEF InProcesses
<1>3. ExitTyped /\ ChildrenKeep /\ ChildrenTyped
  BY <1>1, <1>2, KilledTyped
<1>4. OthersTyped /\ ProxiesTyped
  BY <1>3, ExitOthers
<1>5. UNCHANGED <<tasks, lockTail>>
  BY DEF taskvars
<1> QED  BY <1>3, <1>4, <1>5, QuietGoes

LEMMA KillAllUsersGoes ==
  ASSUME GInv, KillAllUsers \/ Stop
  PROVE  GInv' /\ TasksGo
<1>1. TypeOK
  BY DEF GInv
<1>2. CASE KillAllUsers
  <2>1. /\ calls < MaxCalls /\ calls' = calls + 1 /\ KillProcesses(InProcesses, "awaited", FALSE)
        /\ UNCHANGED <<up, phase, taskvars, nextProcess, crashes, timeouts>>
    BY <1>2 DEF KillAllUsers, CallsAllowed
  <2>2. calls' \in 0..MaxCalls
    BY <1>1, <2>1, EngineBoundAssumption DEF TypeOK
  <2>3. /\ booted' = booted /\ stopped' \in BOOLEAN /\ deleted' \subseteq Users /\ up' \in BOOLEAN
        /\ crashes' \in 0..MaxCrashes /\ timeouts' \in 0..MaxTimeouts
    BY <1>1, <2>1 DEF TypeOK, phase
  <2> QED  BY <2>1, <2>2, <2>3, KillingGoes
<1>3. CASE Stop
  <2>1. /\ stopped' = TRUE /\ KillProcesses(InProcesses, "awaited", TRUE)
        /\ UNCHANGED <<up, booted, deleted, taskvars, nextProcess, bounds>>
    BY <1>3 DEF Stop
  <2>2. /\ booted' = booted /\ stopped' \in BOOLEAN /\ deleted' \subseteq Users /\ up' \in BOOLEAN
        /\ calls' \in 0..MaxCalls /\ crashes' \in 0..MaxCrashes /\ timeouts' \in 0..MaxTimeouts
    BY <1>1, <2>1 DEF TypeOK, bounds
  <2> QED  BY <2>1, <2>2, KillingGoes
<1> QED  BY <1>2, <1>3

LEMMA StopDoneGoes ==
  ASSUME GInv, StopDone \/ (\E u \in Users : DeleteRow(u)) \/ UNCHANGED vars
  PROVE  GInv' /\ TasksGo
<1>1. /\ UNCHANGED <<stopped, booted, taskvars, proxies, processes, children, timers, bounds>>
      /\ up' \in {up, FALSE}
      /\ deleted' = deleted \/ \E u \in Users : deleted' = deleted \cup {u}
  BY DEF StopDone, DeleteRow, vars, phase
<1>2. TypeOK /\ Young
  BY DEF GInv
<1>3. OthersTyped
  BY <1>1, <1>2 DEF OthersTyped, TypeOK, Young, processes, bounds
<1>4. ProxiesTyped /\ ChildrenKeep /\ ChildrenTyped
  BY <1>1, <1>2, ProxiesSame, ChildrenSame
<1>5. UNCHANGED <<tasks, lockTail>>
  BY <1>1 DEF taskvars
<1> QED  BY <1>3, <1>4, <1>5, QuietGoes

-----------------------------------------------------------------------------
(* What starts tasks                                                       *)

LEMMA AcquireGoes ==
  ASSUME GInv, booted, NEW u \in Users, NEW op \in DOMAIN Plan \ {"boot"}, Acquire(op, u),
         UNCHANGED <<up, phase, proxies, processes, children>>,
         timers' \in [Users -> Nat],
         calls' \in 0..MaxCalls, crashes' \in 0..MaxCrashes, timeouts' \in 0..MaxTimeouts
  PROVE  GInv'
<1>1. TypeOK /\ Line /\ Plans
  BY DEF GInv
<1>2. /\ tasks' \in Seq(Task) /\ Len(tasks') = Len(tasks) + 1 /\ Len(tasks') <= MaxTasks
      /\ TaskIds \subseteq TaskIds' /\ (\A t \in TaskIds : tasks'[t] = tasks[t])
      /\ lockTail' \in [Users -> 0..Len(tasks')]
      /\ Line' /\ Plans'
  BY <1>1, LineGrows
<1>3. TypeOK'
  <2>1. Len(tasks) \in Nat /\ engines \in [Users -> 0..Len(tasks)]
    BY <1>1, SeqElement DEF TypeOK
  <2>2. 0..Len(tasks) \subseteq 0..Len(tasks')
    BY <1>2, <2>1
  <2>3. engines' \in [Users -> 0..Len(tasks')]
    <3>1. engines' = engines
      BY DEF proxies
    <3> QED  BY <2>1, <2>2, <3>1
  <2>4. listening' \subseteq TaskIds'
    BY <1>1, <1>2 DEF proxies, TypeOK
  <2> QED  BY <1>1, <1>2, <2>3, <2>4 DEF TypeOK, phase, processes
<1>4. Patient
  BY <1>2 DEF Patient
<1>5. Calls'
  BY <1>4, ChildrenSame, SameQueues, InvCalls
<1>6. Young'
  BY DEF Young, phase
<1> QED  BY <1>2, <1>3, <1>5, <1>6 DEF GInv, Calls

LEMMA WebCallGoes ==
  ASSUME GInv, NEW op \in WebOps, NEW u \in Users, WebCall(op, u)
  PROVE  GInv'
<1>1. /\ booted /\ calls < MaxCalls /\ calls' = calls + 1 /\ Acquire(op, u)
      /\ UNCHANGED <<up, phase, proxies, processes, children, timers, crashes, timeouts>>
  BY DEF WebCall, CallsAllowed
<1>2. op \in DOMAIN Plan \ {"boot"}
  BY DEF WebOps
<1>3. /\ calls' \in 0..MaxCalls /\ crashes' \in 0..MaxCrashes /\ timeouts' \in 0..MaxTimeouts
      /\ timers' \in [Users -> Nat]
  BY <1>1, EngineBoundAssumption DEF GInv, TypeOK
<1> QED  BY <1>1, <1>2, <1>3, AcquireGoes

LEMMA RestartTimerGoes ==
  ASSUME GInv, NEW u \in Users, RestartTimer(u)
  PROVE  GInv'
<1>1. /\ timers[u] > 0 /\ timers' = [timers EXCEPT ![u] = @ - 1] /\ Acquire("timer", u)
      /\ UNCHANGED <<up, phase, proxies, processes, children, bounds>>
  BY DEF RestartTimer
<1>2. "timer" \in DOMAIN Plan \ {"boot"}
  BY PlanFacts
<1>3. timers \in [Users -> Nat] /\ timers[u] \in Nat
  BY DEF GInv, TypeOK
<1>4. booted
  <2>1. timers[u] # 0
    BY <1>1, <1>3
  <2> QED  BY <2>1 DEF GInv, Young
<1>5. timers' \in [Users -> Nat]
  <2>1. timers[u] - 1 \in Nat
    BY <1>1, <1>3
  <2> QED  BY <1>1, <1>3, <2>1
<1>6. calls' \in 0..MaxCalls /\ crashes' \in 0..MaxCrashes /\ timeouts' \in 0..MaxTimeouts
  BY <1>1 DEF GInv, TypeOK, bounds
<1> QED  BY <1>1, <1>2, <1>4, <1>5, <1>6, AcquireGoes

\* The dedicated users are numbered from one: each place has one.
LEMMA DedicatedPlaces ==
  /\ Cardinality(Dedicated) \in Nat
  /\ \A u \in Users : DedicatedUpTo(u) \in 0..Cardinality(Dedicated)
  /\ \A i \in 1..Cardinality(Dedicated) : \E u \in Dedicated : DedicatedUpTo(u) = i
<1> DEFINE N == Cardinality(Dedicated)
           Upto(u) == {v \in Dedicated : v <= u}
<1>1. IsFiniteSet(Dedicated) /\ N \in Nat
  <2>1. IsFiniteSet(1..NUsers)
    BY UserAssumption, FS_Interval
  <2>2. IsFiniteSet(Dedicated)
    BY <2>1, UserAssumption, FS_Subset DEF Users
  <2> QED  BY <2>2, FS_CardinalityType
<1>2. \A u : IsFiniteSet(Upto(u)) /\ Cardinality(Upto(u)) \in 0..N
  <2>1. \A u : Upto(u) \in SUBSET Dedicated
    OBVIOUS
  <2>2. \A S \in SUBSET Dedicated : IsFiniteSet(S) /\ Cardinality(S) <= N
    BY <1>1, FS_Subset
  <2>3. \A S \in SUBSET Dedicated : Cardinality(S) \in Nat
    BY <2>2, FS_CardinalityType
  <2> HIDE DEF Upto, N
  <2> QED  BY <1>1, <2>1, <2>2, <2>3
<1>3. \A u : DedicatedUpTo(u) = Cardinality(Upto(u))
  BY DEF DedicatedUpTo
<1>4. \A u \in Dedicated : u \in Nat
  BY UserAssumption DEF Users
<1>5. ASSUME NEW u \in Dedicated, NEW v \in Dedicated, u < v
      PROVE  DedicatedUpTo(u) # DedicatedUpTo(v)
  <2>1. Upto(u) \in SUBSET Upto(v) /\ v \in Upto(v) /\ v \notin Upto(u)
    BY <1>4, <1>5
  <2>2. Upto(u) # Upto(v)
    BY <2>1
  <2> HIDE DEF Upto
  <2>3. Cardinality(Upto(u)) # Cardinality(Upto(v))
    BY <1>2, <2>1, <2>2, FS_Subset
  <2> QED  BY <1>3, <2>3
<1>6. \A u \in Dedicated : DedicatedUpTo(u) \in 1..N
  <2>1. ASSUME NEW u \in Dedicated
        PROVE  Cardinality(Upto(u)) # 0
    <3>1. u \in Upto(u)
      BY <1>4
    <3>2. Upto(u) # {}
      BY <3>1
    <3> HIDE DEF Upto
    <3> QED  BY <1>2, <3>2, FS_EmptySet
  <2> HIDE DEF Upto, N
  <2> QED  BY <1>1, <1>2, <1>3, <2>1
<1> DEFINE f == [u \in Dedicated |-> DedicatedUpTo(u)]
<1>7. f \in Injection(Dedicated, 1..N)
  <2>1. f \in [Dedicated -> 1..N]
    BY <1>6
  <2>2. \A a, b \in Dedicated : f[a] = f[b] => a = b
    BY <1>4, <1>5
  <2> HIDE DEF f, N
  <2>3. DOMAIN f = Dedicated
    BY <2>1
  <2> QED  BY <2>1, <2>2, <2>3 DEF Injection, IsInjective
<1>8. IsFiniteSet(1..N) /\ Cardinality(1..N) = N
  <2> HIDE DEF N
  <2> QED  BY <1>1, FS_Interval
<1>9. f \in Surjection(Dedicated, 1..N)
  <2> HIDE DEF f
  <2> QED  BY <1>7, <1>8, FS_Injection
<1>10. \A i \in 1..N : \E u \in Dedicated : DedicatedUpTo(u) = i
  BY <1>9 DEF Surjection
<1> QED  BY <1>1, <1>2, <1>3, <1>10

LEMMA EmptyTasks == tasks = <<>> => TaskIds = {}
BY DEF TaskIds

LEMMA BootGoes ==
  ASSUME GInv, Boot
  PROVE  GInv' /\ TaskIds = {} /\ (\A t \in TaskIds' : tasks'[t].op = "boot")
<1> DEFINE D == Cardinality(Dedicated)
           Slot(u) == ((SharedUpTo(u) - 1) % NProcs) + 1
           ChildOf(u) == Len(children) + DedicatedUpTo(u)
           new(u) == [NewTask("boot", u, 0) EXCEPT !.at = "waiting", !.target = NProcs + u,
                                                   !.child = ChildOf(u)]
           Task0(u) == IF u \in Dedicated THEN new(u) ELSE RunTask(NewTask("boot", u, 0), Slot(u))
           Owner(c) == CHOOSE u \in Dedicated : ChildOf(u) = c
           workers == [c \in 1..(Len(children) + D) |->
                         IF c \in ChildIds THEN children[c] ELSE NewChild(NProcs + Owner(c))]
           homes == [p \in DOMAIN procs |->
                       IF p - NProcs \in Dedicated THEN Spawned(ChildOf(p - NProcs)) ELSE procs[p]]
<1>1. /\ ~booted /\ booted' = TRUE /\ Len(children) + D <= MaxChildren
      /\ tasks' = [u \in Users |-> Task0(u)]
      /\ engines' = [u \in Users |-> u]
      /\ listening' \subseteq Users
      /\ nextProcess' = (SharedUpTo(NUsers) % NProcs) + 1
      /\ procs' = homes
      /\ registered' = [u \in Users |-> IF u \in Dedicated THEN NProcs + u ELSE 0]
      /\ children' = workers
      /\ UNCHANGED <<up, stopped, deleted, lockTail, timers, bounds>>
  BY DEF Boot
<1>2. TypeOK /\ Young
  BY DEF GInv
<1>3. tasks = <<>> /\ TaskIds = {} /\ \A u \in Users : timers[u] = 0 /\ lockTail[u] = 0
  <2>1. ~booted
    BY DEF Boot
  <2>2. tasks = <<>> /\ \A u \in Users : timers[u] = 0 /\ lockTail[u] = 0
    BY <1>2, <2>1 DEF Young
  <2>3. TaskIds = {}
    BY <2>2, EmptyTasks
  <2> QED  BY <2>2, <2>3
<1>4. /\ NUsers \in Nat /\ NProcs \in Nat \ {0} /\ MaxTasks \in Nat /\ MaxChildren \in Nat
      /\ NUsers <= MaxTasks /\ D \in Nat /\ Len(children) \in Nat /\ Dedicated \subseteq Users
      /\ Users = 1..NUsers
  <2>1. NUsers \in Nat /\ Dedicated \subseteq Users /\ Users = 1..NUsers
    BY UserAssumption DEF Users
  <2>2. MaxTasks \in Nat /\ MaxChildren \in Nat /\ NUsers <= MaxTasks
    BY <2>1, EngineBoundAssumption
  <2>3. D \in Nat /\ Len(children) \in Nat
    BY <1>2, DedicatedPlaces, SeqElement DEF TypeOK
  <2> QED  BY <2>1, <2>2, <2>3, ProcAssumption
<1>5. \A u \in Users : DedicatedUpTo(u) \in 0..D
  BY DedicatedPlaces
<1>6. \A i \in 1..D : \E u \in Dedicated : DedicatedUpTo(u) = i
  BY DedicatedPlaces
<1> HIDE DEF D
<1>7. \A u \in Users : ChildOf(u) \in 0..MaxChildren
  <2>1. Len(children) + D <= MaxChildren
    BY <1>1
  <2> SUFFICES ASSUME NEW u \in Users
               PROVE  ChildOf(u) \in 0..MaxChildren
    OBVIOUS
  <2>2. PICK d \in 0..D : d = DedicatedUpTo(u)
    BY <1>5
  <2>3. Len(children) + d \in 0..MaxChildren
    BY <1>4, <2>1
  <2> QED  BY <2>2, <2>3
<1>8. \A u \in Users : Slot(u) \in Shared
  <2>1. ASSUME NEW u \in Users
        PROVE  Slot(u) \in Shared
    <3>1. PICK n \in Int : n = SharedUpTo(u) - 1
      <4>1. DedicatedUpTo(u) \in Int /\ u \in Int
        BY <1>4, <1>5
      <4> QED  BY <4>1 DEF SharedUpTo
    <3>2. n % NProcs \in 0..(NProcs - 1)
      BY <1>4
    <3>3. (n % NProcs) + 1 \in Shared
      BY <1>4, <3>2 DEF Shared
    <3> QED  BY <3>1, <3>3
  <2> QED  BY <2>1
<1>9. nextProcess' \in Shared
  <2>1. PICK n \in Int : n = SharedUpTo(NUsers)
    <3>1. DedicatedUpTo(NUsers) \in Int
      <4>1. CASE NUsers \in Users
        BY <1>4, <1>5, <4>1
      <4>2. CASE NUsers \notin Users
        <5>1. Users = {}
          BY <1>4, <4>2
        <5>2. {v \in Dedicated : v <= NUsers} = {}
          BY <1>4, <5>1
        <5> QED  BY <5>2, FS_EmptySet DEF DedicatedUpTo
      <4> QED  BY <4>1, <4>2
    <3> QED  BY <1>4, <3>1 DEF SharedUpTo
  <2>2. n % NProcs \in 0..(NProcs - 1)
    BY <1>4
  <2>3. (n % NProcs) + 1 \in Shared
    BY <1>4, <2>2 DEF Shared
  <2> QED  BY <1>1, <2>1, <2>3
<1> HIDE DEF Slot, ChildOf
<1>10. \A u \in Users :
         /\ Task0(u) \in Task /\ OnPlan(Task0(u)) /\ Task0(u).op = "boot" /\ Task0(u).user = u
  <2>0. Plan["boot"] = <<"start">> /\ Head(<<"start">>) = "start" /\ "boot" \in DOMAIN Plan
    BY PlanFacts, TodoFacts
  <2> SUFFICES ASSUME NEW u \in Users
               PROVE  Task0(u) \in Task /\ OnPlan(Task0(u)) /\ Task0(u).op = "boot" /\ Task0(u).user = u
    OBVIOUS
  <2>1. CASE u \in Dedicated
    <3>1. NProcs + u \in 0..(NProcs + MaxTasks) /\ ChildOf(u) \in 0..MaxChildren /\ 0 \in 0..MaxTasks
          /\ 0 \in 0..(NProcs + MaxTasks)
      BY <1>4, <1>7
    <3> DEFINE target == NProcs + u
               child == ChildOf(u)
               todo == Plan["boot"]
               rec == [op |-> "boot", user |-> u, prev |-> 0, todo |-> todo, at |-> "waiting",
                       target |-> target, child |-> child, proc |-> 0, ok |-> TRUE]
    <3>2. Task0(u) = rec
      BY <2>1 DEF NewTask
    <3>3. todo \in {Plan[op] : op \in DOMAIN Plan} /\ todo \in Left("boot") /\ Head(todo) = "start"
      BY <2>0 DEF Left
    <3>4. target \in 0..(NProcs + MaxTasks) /\ child \in 0..MaxChildren
      BY <3>1
    <3> HIDE DEF target, child, todo, Task0
    <3>5. rec \in Task
      BY <2>0, <3>1, <3>3, <3>4 DEF Task
    <3>6. OnPlan(rec)
      BY <3>3 DEF OnPlan
    <3> QED  BY <3>2, <3>5, <3>6
  <2>2. CASE u \notin Dedicated
    <3>1. Task0(u) = RunTask(NewTask("boot", u, 0), Slot(u))
      BY <2>2
    <3> HIDE DEF Task0
    <3> DEFINE p == Slot(u)
               rec == RunTask(NewTask("boot", u, 0), p)
    <3>2. p \in Shared
      BY <1>8
    <3> HIDE DEF p
    <3>3. rec \in Task /\ Stages(rec) /\ rec.op = "boot" /\ rec.user = u /\ rec.at \in {"token", "waiting", "done"}
      BY <1>2, <3>2, BootTaskFacts
    <3>4. rec.todo = <<"start">>
      BY <1>2, <3>2, BootTaskFacts
    <3> HIDE DEF rec
    <3>5. OnPlan(rec)
      BY <2>0, <3>3, <3>4 DEF OnPlan, Left
    <3> QED  BY <3>1, <3>3, <3>5 DEF rec, p
  <2> QED  BY <2>1, <2>2
<1> HIDE DEF Task0
<1>11. /\ tasks' \in Seq(Task) /\ Len(tasks') = NUsers /\ TaskIds' = Users
       /\ \A u \in Users : tasks'[u] = Task0(u)
  <2>1. [u \in Users |-> Task0(u)] \in [1..NUsers -> Task]
    BY <1>4, <1>10
  <2>2. tasks' \in Seq(Task) /\ Len(tasks') = NUsers
    BY <1>1, <1>4, <2>1, SeqOf
  <2> QED  BY <1>1, <1>4, <2>2 DEF TaskIds
<1>12. \A t \in TaskIds' : OnPlan(tasks'[t]) /\ tasks'[t].op = "boot" /\ tasks'[t].user = t
  BY <1>10, <1>11
<1>13. \A c \in 1..(Len(children) + D) : c \notin ChildIds => NProcs + Owner(c) \in 1..(NProcs + MaxTasks)
  <2> SUFFICES ASSUME NEW c \in 1..(Len(children) + D), c \notin ChildIds
               PROVE  NProcs + Owner(c) \in 1..(NProcs + MaxTasks)
    OBVIOUS
  <2>1. PICK i \in 1..D : c = Len(children) + i
    <3>1. c - Len(children) \in 1..D
      BY <1>4 DEF ChildIds
    <3> QED  BY <1>4, <3>1
  <2>2. PICK u \in Dedicated : DedicatedUpTo(u) = i
    BY <1>6
  <2>3. ChildOf(u) = c
    BY <2>1, <2>2 DEF ChildOf
  <2>4. Owner(c) \in Dedicated
    BY <2>3
  <2> HIDE DEF Owner
  <2>5. PICK v \in Dedicated : v = Owner(c)
    BY <2>4
  <2>6. v \in 1..NUsers
    BY <1>4
  <2>7. NProcs + v \in 1..(NProcs + MaxTasks)
    BY <1>4, <2>6
  <2> QED  BY <2>5, <2>7
<1> HIDE DEF Owner
<1>14. /\ workers \in [1..(Len(children) + D) -> Child]
       /\ \A c \in 1..(Len(children) + D) :
            /\ c \in ChildIds => workers[c] = children[c]
            /\ c \notin ChildIds => /\ workers[c].running = {} /\ workers[c].calls = <<>>
                                    /\ workers[c].replies = <<>> /\ workers[c].lost = <<>>
  <2>1. \A c \in ChildIds : children[c] \in Child
    BY <1>2, ChildTyped
  <2>2. \A c \in 1..(Len(children) + D) : c \notin ChildIds =>
          /\ NewChild(NProcs + Owner(c)) \in Child
          /\ NewChild(NProcs + Owner(c)).running = {} /\ NewChild(NProcs + Owner(c)).calls = <<>>
          /\ NewChild(NProcs + Owner(c)).replies = <<>> /\ NewChild(NProcs + Owner(c)).lost = <<>>
    BY <1>13, NewChildFacts
  <2> QED  BY <2>1, <2>2
<1> HIDE DEF workers
<1>15. children' \in Seq(Child) /\ Len(children') = Len(children) + D /\ ChildIds \subseteq ChildIds'
       /\ ChildIds' = 1..(Len(children) + D)
  <2>0. PICK n \in Nat : n = Len(children) + D
    BY <1>4
  <2>1. children' \in Seq(Child) /\ Len(children') = n
    BY <1>1, <1>14, <2>0, SeqOf
  <2> QED  BY <1>4, <2>0, <2>1 DEF ChildIds
<1>16. ChildrenKeep
  BY <1>1, <1>14, <1>15 DEF ChildrenKeep
<1>17. procs' \in [1..(NProcs + MaxTasks) -> Process]
  <2>1. procs \in [1..(NProcs + MaxTasks) -> Process]
    BY <1>2 DEF TypeOK
  <2>2. \A u \in Dedicated : Spawned(ChildOf(u)) \in Process
    BY <1>4, <1>7 DEF Spawned, Process
  <2> QED  BY <1>1, <2>1, <2>2
<1>18. TypeOK'
  <2>1. engines' \in [Users -> 0..Len(tasks')]
    BY <1>1, <1>4, <1>11
  <2>2. lockTail' \in [Users -> 0..Len(tasks')]
    <3>1. lockTail \in [Users -> 0..Len(tasks)] /\ \A u \in Users : lockTail[u] = 0
      BY <1>2, <1>3 DEF TypeOK
    <3> QED  BY <1>1, <1>4, <1>11, <3>1
  <2>3. registered' \in [Users -> 0..(NProcs + MaxTasks)]
    BY <1>1, <1>4
  <2>4. listening' \subseteq TaskIds' /\ Len(tasks') <= MaxTasks /\ Len(children') <= MaxChildren
    BY <1>1, <1>4, <1>11, <1>15
  <2> QED  BY <1>1, <1>2, <1>9, <1>11, <1>15, <1>17, <2>1, <2>2, <2>3, <2>4 DEF TypeOK, bounds
<1>19. Calls'
  <2>1. Patient
    BY <1>3 DEF Patient
  <2> QED  BY <1>16, <2>1, SameQueues, InvCalls
<1>20. Line'
  <2>1. \A t \in TaskIds' : ~Locked(t)' /\ tasks'[t].user = t
    BY <1>12 DEF Locked
  <2>2. \A u \in Users : lockTail'[u] = 0
    BY <1>1, <1>3
  <2> QED  BY <2>1, <2>2 DEF Line, First, Ahead
<1>21. Plans' /\ Young'
  BY <1>1, <1>12 DEF Plans, Young
<1> QED  BY <1>3, <1>12, <1>18, <1>19, <1>20, <1>21 DEF GInv, Calls

LEMMA InitGoes ==
  ASSUME Init
  PROVE  GInv
<1>1. TypeOK /\ tasks = <<>> /\ \A u \in Users : timers[u] = 0 /\ lockTail[u] = 0
  BY InitInv DEF IInv, Init
<1>2. Young
  BY <1>1 DEF Young
<1>3. TaskIds = {}
  BY <1>1 DEF TaskIds
<1>4. Plans /\ Line
  BY <1>1, <1>3 DEF Plans, Line
<1>5. Waits /\ WaitsOnce
  <2>1. Awaited /\ OneCall
    BY InitInv DEF IInv
  <2>2. Waits
    BY <1>3, <2>1 DEF Waits, Awaited, Expected
  <2>3. WaitsOnce
    BY <2>1 DEF WaitsOnce, OneCall
  <2> QED  BY <2>2, <2>3
<1> QED  BY <1>1, <1>2, <1>4, <1>5 DEF GInv

LEMMA NextGoes ==
  ASSUME GInv, [Next]_vars
  PROVE  /\ GInv'
         /\ \/ TasksGo
            \/ TaskIds = {} /\ \A t \in TaskIds' : tasks'[t].op = "boot"
            \/ \E op \in WebOps \cup {"timer"}, u \in Users : Acquire(op, u) /\ (op \in Ops \/ op = "timer")
<1>1. CASE Boot
  BY <1>1, BootGoes
<1>2. CASE \E op \in WebOps, u \in Users : WebCall(op, u)
  BY <1>2, WebCallGoes DEF WebCall
<1>3. CASE \E u \in Users : RestartTimer(u)
  BY <1>3, RestartTimerGoes DEF RestartTimer
<1>4. CASE (\E u \in Users : DeleteRow(u)) \/ StopDone \/ UNCHANGED vars
  BY <1>4, StopDoneGoes
<1>5. CASE KillAllUsers \/ Stop
  BY <1>5, KillAllUsersGoes
<1>6. CASE \E t \in TaskIds : TaskStep(t)
  BY <1>6, TaskStepGoes
<1>7. CASE \E c \in ChildIds : ChildStep(c) \/ CallFails(c) \/ Crash(c)
  BY <1>7, ChildStepGoes, CrashGoes
<1>8. CASE \E p \in Shared : StartAgain(p)
  BY <1>8, StartAgainGoes
<1>9. CASE \E p \in DOMAIN procs : DyingTimeout(p)
  BY <1>9, DyingTimeoutGoes
<1> QED  BY <1>1, <1>2, <1>3, <1>4, <1>5, <1>6, <1>7, <1>8, <1>9 DEF Next

\* What is true of every reachable state, whatever the instance.
LEMMA GInvariance == Spec => []GInv
<1>1. Init => GInv
  BY InitGoes
<1>2. GInv /\ [Next]_vars => GInv'
  BY NextGoes
<1> QED  BY <1>1, <1>2, PTL DEF Spec

-----------------------------------------------------------------------------
(* The locks implement UserMutex                                           *)

\* No deleteUser has been called, which would drop the Lock.
NoDelete == \A t \in TaskIds : tasks[t].op # "deleteUser"
BootStep == TaskIds = {} /\ \A t \in TaskIds' : tasks'[t].op = "boot"
AcquireStep ==
  \E op \in WebOps \cup {"timer"}, u \in Users : Acquire(op, u) /\ (op \in Ops \/ op = "timer")

\* The new operation is the last of the sequence.
LEMMA AcquireFacts ==
  ASSUME TypeOK, NEW u \in Users, NEW op, Acquire(op, u)
  PROVE  \E n, new :
           /\ n = Len(tasks) + 1 /\ n \in 1..MaxTasks
           /\ n \notin TaskIds /\ (\A t \in TaskIds : t < n)
           /\ TaskIds' = TaskIds \cup {n}
           /\ new.op = op /\ new.user = u /\ new.at = "idle"
           /\ (\A t \in TaskIds : tasks'[t] = tasks[t]) /\ tasks'[n] = new
<1> DEFINE n == Len(tasks) + 1
           new == NewTask(op, u, lockTail[u])
<1>1. tasks \in Seq(Task) /\ Len(tasks) \in Nat /\ n \notin TaskIds /\ \A t \in TaskIds : t < n
  BY DEF TypeOK, TaskIds
<1>2. /\ tasks' = Append(tasks, new) /\ n \in 1..MaxTasks
  BY <1>1, EngineBoundAssumption DEF Acquire
<1>3. new.op = op /\ new.user = u /\ new.at = "idle"
  BY DEF NewTask
<1> HIDE DEF new
<1>4. /\ TaskIds' = TaskIds \cup {n}
      /\ \A t \in TaskIds : tasks'[t] = tasks[t]
      /\ tasks'[n] = new
  BY <1>1, <1>2 DEF TaskIds
<1> QED  BY <1>1, <1>2, <1>3, <1>4

LEMMA DeletesStay ==
  ASSUME "deleteUser" \notin Ops, TypeOK, NoDelete, TasksGo \/ BootStep \/ AcquireStep
  PROVE  NoDelete'
<1>1. CASE TasksGo
  <2>1. TaskIds' = TaskIds /\ \A t \in TaskIds : tasks'[t].op = tasks[t].op
    BY <1>1 DEF TasksGo, Follows
  <2> QED  BY <2>1 DEF NoDelete
<1>2. CASE BootStep
  BY <1>2 DEF BootStep, NoDelete
<1>3. CASE AcquireStep
  <2>1. PICK op \in WebOps \cup {"timer"}, u \in Users : Acquire(op, u) /\ op # "deleteUser"
    BY <1>3 DEF AcquireStep
  <2>2. PICK n, new :
          /\ TaskIds' = TaskIds \cup {n} /\ new.op = op
          /\ (\A t \in TaskIds : tasks'[t] = tasks[t]) /\ tasks'[n] = new
    BY <2>1, AcquireFacts
  <2> QED  BY <2>1, <2>2 DEF NoDelete
<1> QED  BY <1>1, <1>2, <1>3

\* Steps of the tasks that exist are a release of some locks by their holders.
LEMMA TurnIsLeave ==
  ASSUME Line, NoDelete, TasksGo
  PROVE  \E U \in SUBSET Users : Mutex!Leave(U)
<1> DEFINE Ends(t) == tasks[t].op # "boot" /\ tasks[t].at # "done" /\ tasks'[t].at = "done"
           U == {u \in Users : \E t \in TaskIds : tasks[t].user = u /\ Ends(t)}
<1>1. TaskIds' = TaskIds
      /\ \A t \in TaskIds : tasks'[t].op = tasks[t].op /\ tasks'[t].user = tasks[t].user
                            /\ (tasks[t].at = "done" => tasks'[t].at = "done")
  BY DEF TasksGo, Follows
<1>2. ASSUME NEW t \in TaskIds, Ends(t), NEW s \in Pending[tasks[t].user], tasks[t].user \in Users
      PROVE  t <= s
  <2>1. s \in TaskIds /\ tasks[s].user = tasks[t].user /\ Locked(s) /\ Locked(t) /\ tasks[s].at # "done"
    BY <1>2 DEF Pending, Locked
  <2>2. Begun(tasks[t]) \/ Granted(t)
    BY <1>2 DEF TasksGo, Begun
  <2>3. s < t => Ahead(s, t)
    BY <2>1 DEF Ahead, First, NoDelete
  <2>4. ~(s < t)
    BY <2>1, <2>2, <2>3, AheadDone
  <2> QED  BY <2>1, <2>4 DEF TaskIds
<1>3. ASSUME NEW t \in TaskIds, Ends(t), tasks[t].user \in Users
      PROVE  Mutex!Holder(tasks[t].user) = {t}
  <2>1. t \in Pending[tasks[t].user]
    BY <1>3 DEF Pending
  <2>2. \A s \in Pending[tasks[t].user] : s \in Nat /\ t \in Nat
    BY <1>3 DEF Pending, TaskIds
  <2>3. \A s \in Pending[tasks[t].user] : t <= s
    BY <1>2, <1>3
  <2> QED  BY <2>1, <2>2, <2>3 DEF Mutex!Holder
<1>4. \A u \in U : Mutex!Holder(u) # {}
  BY <1>3
<1>5. ASSUME NEW u \in Users
      PROVE  Pending[u]' = IF u \in U THEN Pending[u] \ Mutex!Holder(u) ELSE Pending[u]
  <2>1. Pending[u]' = {t \in Pending[u] : tasks'[t].at # "done"}
    BY <1>1 DEF Pending
  <2>2. CASE u \in U
    <3>1. PICK t \in TaskIds : tasks[t].user = u /\ Ends(t)
      BY <2>2
    <3>2. Mutex!Holder(u) = {t}
      BY <1>3, <3>1
    <3>3. \A s \in Pending[u] : tasks'[s].at = "done" => s = t
      <4>1. ASSUME NEW s \in Pending[u], tasks'[s].at = "done"
            PROVE  s = t
        <5>1. s \in TaskIds /\ tasks[s].user = u /\ Ends(s)
          BY <4>1 DEF Pending
        <5>2. Mutex!Holder(u) = {s}
          BY <1>3, <5>1
        <5> QED  BY <3>2, <5>2
      <4> QED  BY <4>1
    <3> QED  BY <2>1, <2>2, <3>1, <3>2, <3>3
  <2>3. CASE u \notin U
    <3>1. \A t \in Pending[u] : tasks'[t].at # "done"
      BY <2>3 DEF Pending
    <3> QED  BY <2>1, <2>3, <3>1
  <2> QED  BY <2>2, <2>3
<1>6. U \in SUBSET Users
  OBVIOUS
<1> HIDE DEF U
<1>7. Pending' = [u \in Users |-> IF u \in U THEN Pending[u] \ Mutex!Holder(u) ELSE Pending[u]]
  BY <1>5 DEF Pending
<1> QED  BY <1>4, <1>6, <1>7 DEF Mutex!Leave

\* A new operation is the last of its user.
LEMMA AcquireIsEnter ==
  ASSUME TypeOK, NEW u \in Users, NEW op, op # "boot", Acquire(op, u)
  PROVE  \E n \in 1..MaxTasks : Mutex!Enter(u, n)
<1>1. PICK n, new :
        /\ n \in 1..MaxTasks /\ n \notin TaskIds /\ (\A t \in TaskIds : t < n)
        /\ TaskIds' = TaskIds \cup {n}
        /\ new.op # "boot" /\ new.user = u /\ new.at # "done"
        /\ (\A t \in TaskIds : tasks'[t] = tasks[t]) /\ tasks'[n] = new
  BY AcquireFacts
<1>2. \A v \in Users : Pending[v]' = IF v = u THEN Pending[u] \cup {n} ELSE Pending[v]
  BY <1>1 DEF Pending
<1>3. Pending' = [Pending EXCEPT ![u] = Pending[u] \cup {n}]
  BY <1>2 DEF Pending
<1>4. \A other \in Pending[u] : other < n
  BY <1>1 DEF Pending
<1>5. Mutex!Enter(u, n)
  BY <1>3, <1>4 DEF Mutex!Enter
<1> QED  BY <1>1, <1>5

\* The boot takes no lock.
LEMMA BootIsStutter ==
  ASSUME BootStep
  PROVE  UNCHANGED Pending
<1>1. \A u \in Users : Pending[u] = {} /\ Pending[u]' = {}
  BY DEF Pending, BootStep
<1> QED  BY <1>1 DEF Pending

LEMMA StepMaps ==
  ASSUME TypeOK, Line, NoDelete, TasksGo \/ BootStep \/ AcquireStep
  PROVE  [Mutex!Next]_Pending
<1>1. CASE TasksGo
  BY <1>1, TurnIsLeave DEF Mutex!Next
<1>2. CASE BootStep
  BY <1>2, BootIsStutter
<1>3. CASE AcquireStep
  <2>1. PICK op \in WebOps \cup {"timer"}, u \in Users : Acquire(op, u)
    BY <1>3 DEF AcquireStep
  <2>2. op # "boot"
    BY <2>1 DEF WebOps
  <2> QED  BY <2>1, <2>2, AcquireIsEnter DEF Mutex!Next
<1> QED  BY <1>1, <1>2, <1>3

-----------------------------------------------------------------------------
(* A deleted user stays down                                               *)

DeletionOps == SharedOps \cup {"deleteUser"}

\* All users are in shared workers, and the website calls after the boot and
\* uses what holds the lock of the user until the worker has killed the engine:
\* no startUser beside an engine, no clearCache of a running user, and no
\* killAllUsers or stop.
DeletionOnly ==
  Dedicated = {} /\ EarlyCalls = FALSE /\ Ops \subseteq DeletionOps

\* No worker has died or been told to.
Healthy ==
  /\ ChildIds = Shared
  /\ \A c \in Shared :
       /\ children[c].proc = c /\ children[c].alive /\ ~children[c].told
       /\ children[c].lost = <<>> /\ children[c].events = {}
       /\ procs[c].sock = c /\ procs[c].starting \in {"none", "child"}
       /\ children[c].ready => procs[c].starting = "none"
       /\ booted => children[c].ready
  /\ \A p \in DOMAIN procs : procs[p].dying = "no"
  /\ \A u \in Users : timers[u] = 0
  /\ ~booted =>
       /\ tasks = <<>> /\ \A u \in Users : engines[u] = 0
       /\ \A c \in Shared :
            /\ children[c].running = {} /\ children[c].calls = <<>> /\ children[c].replies = <<>>
            /\ \A u \in Users : children[c].map[u] = 0

\* The calls that a worker has to handle, and those that it has answered.
Items(s) == {s[i] : i \in 1..Len(s)}
Sends(c) == Items(children[c].calls)
Answers(c) == Items(children[c].replies)

\* What is true of all users while no worker has died.
RegularTasks ==
  \A t \in TaskIds :
    /\ tasks[t].op \in DeletionOps \cup {"boot"}
    /\ tasks[t].at # "waiting"
    /\ tasks[t].at \in {"token", "running"} => tasks[t].proc \in Shared
BootsDone ==
  \A t, b \in TaskIds : Locked(t) /\ ~Locked(b) => tasks[b].at = "done"
RegularEngines ==
  \A u \in Users : engines[u] # 0 =>
    engines[u] \in listening /\ tasks[engines[u]].user = u /\ tasks[engines[u]].proc \in Shared
RegularWorkers ==
  \A c \in Shared :
    /\ children[c].running \subseteq TaskIds
    /\ \A u \in Users : children[c].map[u] # 0 =>
         children[c].map[u] \in TaskIds /\ tasks[children[c].map[u]].user = u
    /\ \A m \in Sends(c) : m.op = "run" =>
         m.waits /\ m.task \in TaskIds /\ tasks[m.task].proc = c
Regular == RegularTasks /\ BootsDone /\ RegularEngines /\ RegularWorkers

\* A task that starts an engine, or whose engine runs.
Engaged(t) == tasks[t].at \in {"token", "running"} \/ \E c \in Shared : t \in children[c].running
Resting(u) == \A t \in TaskIds : tasks[t].user = u => ~Engaged(t)

\* The kill is over, and the task has not started the user again.
Past(task) ==
  /\ task.op \in {"restartUser", "restartUserWithoutCache", "deleteUser"}
  /\ \/ task.at = "rm"
     \/ task.at = "idle" /\ task.todo # Plan[task.op]
     \/ task.at = "done" /\ task.op = "deleteUser"

\* What is true of a user that nobody asked for again after a deleteUser: only
\* the entry of _engines starts or runs, in the map of its worker; every kill is
\* awaited and goes where the entry is, and nothing starts or runs once it is
\* answered, nor while a task is past its kill.
Orderly(u) ==
  /\ \A t \in TaskIds : tasks[t].user = u /\ Engaged(t) => engines[u] = t
  /\ \A c \in Shared : \A t \in children[c].running :
       tasks[t].user = u => tasks[t].proc = c /\ children[c].map[u] = t
  /\ \A c \in Shared : \A m \in Sends(c) \cup Answers(c) :
       m.op = "kill" /\ m.user = u => m.waits /\ ProcOf(u) \in {0, c} /\ (m \in Answers(c) => Resting(u))
  /\ \A t \in TaskIds : tasks[t].user = u /\ Past(tasks[t]) => Resting(u) /\ ProcOf(u) = 0

DInv == crashes = 0 =>
  Healthy /\ Regular /\ \A u \in Users : AskedAgain(u) \/ Orderly(u)

LEMMA ItemsAppend ==
  ASSUME NEW S, NEW s \in Seq(S), NEW x \in S
  PROVE  Items(Append(s, x)) = Items(s) \cup {x}
<1>1. /\ Len(Append(s, x)) = Len(s) + 1 /\ Len(s) \in Nat
      /\ \A j \in 1..(Len(s) + 1) : Append(s, x)[j] = IF j = Len(s) + 1 THEN x ELSE s[j]
  BY SeqAppend, SeqElement
<1>2. \A y : y \in Items(Append(s, x)) => y \in Items(s) \cup {x}
  BY <1>1 DEF Items
<1>3. \A y : y \in Items(s) \cup {x} => y \in Items(Append(s, x))
  BY <1>1 DEF Items
<1> QED  BY <1>2, <1>3

LEMMA ItemsTail ==
  ASSUME NEW S, NEW s \in Seq(S), s # <<>>
  PROVE  Items(Tail(s)) \subseteq Items(s) /\ Head(s) \in Items(s) /\ Head(s) \in S
<1>1. /\ Len(s) \in Nat \ {0} /\ Head(s) = s[1] /\ Head(s) \in S
      /\ Len(Tail(s)) = Len(s) - 1
      /\ \A j \in 1..(Len(s) - 1) : Tail(s)[j] = s[j + 1]
  BY SeqTail
<1>2. \A y : y \in Items(Tail(s)) => y \in Items(s)
  BY <1>1 DEF Items
<1> QED  BY <1>1, <1>2 DEF Items

\* What GInv says of the calls.
LEMMA CallFacts ==
  ASSUME GInv, NEW c \in ChildIds
  PROVE  /\ children[c].calls \in Seq(Call) /\ children[c].replies \in Seq(Call)
         /\ Sends(c) \subseteq Call /\ Answers(c) \subseteq Call
         /\ \A m \in Sends(c) \cup Answers(c) : Awaits(m) /\ m \in Call
<1>1. /\ children[c].calls \in Seq(Call) /\ children[c].replies \in Seq(Call)
  BY ChildTyped DEF GInv
<1>2. /\ Queue(c, "calls") = children[c].calls /\ Queue(c, "replies") = children[c].replies
      /\ "calls" \in Kinds /\ "replies" \in Kinds
  BY DEF Queue, Kinds
<1>3. /\ \A i \in 1..Len(children[c].calls) : Awaits(children[c].calls[i])
      /\ \A i \in 1..Len(children[c].replies) : Awaits(children[c].replies[i])
  BY <1>2 DEF GInv, Waits
<1>4. Sends(c) \subseteq Call /\ Answers(c) \subseteq Call
  BY <1>1, SeqElement DEF Sends, Answers, Items
<1>5. \A m \in Sends(c) \cup Answers(c) : Awaits(m)
  BY <1>3 DEF Sends, Answers, Items
<1> QED  BY <1>1, <1>4, <1>5

-----------------------------------------------------------------------------
(* Only one operation of a user is under way                               *)

Restarts == {"restartUser", "restartUserWithoutCache"}

LEMMA OnlyRestart ==
  ASSUME GInv, NEW s \in TaskIds, NEW t \in TaskIds, s # t, tasks[s].user = tasks[t].user,
         ~AskedAgain(tasks[s].user), tasks[s].op \in Restarts, tasks[s].at # "done",
         Begun(tasks[s]) \/ Granted(s), Locked(t), Begun(tasks[t])
  PROVE  tasks[t].at = "done" /\ tasks[t].op # "deleteUser"
<1> DEFINE u == tasks[s].user
<1>1. u \in Users /\ s \in Nat /\ t \in Nat /\ Locked(s)
  BY TaskFacts DEF Locked, Restarts
<1>2. \A r \in TaskIds : r < s /\ tasks[r].user = u => tasks[r].op # "deleteUser"
  BY DEF AskedAgain, Restarts
<1>3. First(s)
  BY <1>1, <1>2 DEF First
<1>4. CASE s < t
  <2>1. Ahead(s, t)
    BY <1>3, <1>4 DEF Ahead
  <2> QED  BY <2>1 DEF GInv, Line
<1>5. CASE t < s
  <2>1. tasks[t].op # "deleteUser"
    BY <1>2, <1>5
  <2>2. First(t)
    <3>1. \A r \in TaskIds : r < t => r < s
      BY <1>1, <1>5 DEF TaskIds
    <3> QED  BY <1>2, <3>1 DEF First
  <2>3. Ahead(t, s)
    BY <1>1, <1>5, <2>2 DEF Ahead
  <2>4. tasks[t].at = "done"
    BY <2>3, AheadDone DEF GInv
  <2> QED  BY <2>1, <2>4
<1> QED  BY <1>1, <1>4, <1>5

\* A task at the start of its engine is a restart or the boot.
LEMMA StarterFacts ==
  ASSUME GInv, Regular, NEW t \in TaskIds, tasks[t].at # "done", Head(tasks[t].todo) = "start"
  PROVE  /\ tasks[t].op \in Restarts \cup {"boot"}
         /\ tasks[t].op \in Restarts => tasks[t].todo # Plan[tasks[t].op]
<1>1. tasks[t].op \in {"killUser", "restartUser", "restartUserWithoutCache", "sendSocket", "deleteUser", "boot"}
  BY DEF Regular, RegularTasks, DeletionOps, SharedOps
<1>2. tasks[t].todo \in Left(tasks[t].op)
  BY TaskFacts DEF OnPlan
<1>3. tasks[t].op \notin {"killUser", "sendSocket", "deleteUser"}
  <2>1. CASE tasks[t].op = "killUser"
    BY <1>2, <2>1, PlanFacts, TodoFacts DEF Left
  <2>2. CASE tasks[t].op = "sendSocket"
    BY <1>2, <2>2, PlanFacts, TodoFacts DEF Left
  <2>3. CASE tasks[t].op = "deleteUser"
    <3>1. tasks[t].todo \in {<<"kill", "rm">>, <<"rm">>}
      BY <1>2, <2>3, PlanFacts DEF Left
    <3> QED  BY <3>1, TailFacts
  <2> QED  BY <2>1, <2>2, <2>3
<1>4. tasks[t].op \in Restarts => tasks[t].todo # Plan[tasks[t].op]
  BY PlanFacts, TodoFacts DEF Restarts
<1> QED  BY <1>1, <1>3, <1>4 DEF Restarts

\* A task of a user past its kill, or at a call, has begun.
LEMMA PastFacts ==
  ASSUME NEW task, Past(task) \/ task.at \in {"killing", "token", "running"}
  PROVE  Begun(task)
BY DEF Past, Begun

-----------------------------------------------------------------------------
(* Steps that leave the engines of a user alone                            *)

\* Nothing of the user starts, and no new call kills but one to its process.
Untouched(u) ==
  /\ engines'[u] = engines[u]
  /\ \A t \in TaskIds : tasks[t].user = u =>
       /\ tasks'[t].at \in {"token", "running"} => tasks[t].at \in {"token", "running"}
       /\ Past(tasks'[t]) => Past(tasks[t]) \/ (Resting(u) /\ ProcOf(u) = 0)
  /\ \A c \in Shared :
       /\ \A t \in TaskIds : tasks[t].user = u /\ t \in children'[c].running =>
            t \in children[c].running /\ children'[c].map[u] = children[c].map[u]
       /\ \A m \in Items(children'[c].calls) : m.op = "kill" /\ m.user = u =>
            m \in Sends(c) \/ (m.waits /\ ProcOf(u) = c)
       /\ \A m \in Items(children'[c].replies) : m.op = "kill" /\ m.user = u => m \in Answers(c)

\* The tasks keep their users, and those of user u their operations and processes.
Stands(u) ==
  /\ TaskIds' = TaskIds
  /\ \A t \in TaskIds :
       /\ tasks'[t].user = tasks[t].user
       /\ tasks[t].user = u => tasks'[t].op = tasks[t].op /\ tasks'[t].proc = tasks[t].proc
SameTasks ==
  /\ TaskIds' = TaskIds
  /\ \A t \in TaskIds :
       tasks'[t].user = tasks[t].user /\ tasks'[t].op = tasks[t].op /\ tasks'[t].proc = tasks[t].proc

LEMMA ProcSame ==
  ASSUME TypeOK, RegularEngines, NEW u \in Users, Stands(u), engines'[u] = engines[u]
  PROVE  ProcOf(u)' = ProcOf(u)
<1>1. engines[u] # 0 => engines[u] \in TaskIds
  BY SeqElement DEF TypeOK, TaskIds
<1>2. engines[u] # 0 => tasks[engines[u]].user = u
  BY DEF RegularEngines
<1> QED  BY <1>1, <1>2 DEF ProcOf, Stands

LEMMA OrderlyKeeps ==
  ASSUME TypeOK, RegularEngines, NEW u \in Users, Orderly(u), Stands(u), Untouched(u),
         \A c \in Shared : children'[c].running \subseteq TaskIds
  PROVE  Orderly(u)'
<1>1. ProcOf(u)' = ProcOf(u)
  BY ProcSame DEF Untouched
<1>2. \A t \in TaskIds : tasks[t].user = u /\ Engaged(t)' => Engaged(t)
  BY DEF Untouched, Engaged
<1>3. Resting(u) => Resting(u)'
  BY <1>2 DEF Resting, Stands
<1>4. \A t \in TaskIds' : tasks'[t].user = u /\ Engaged(t)' => engines'[u] = t
  BY <1>2 DEF Orderly, Stands, Untouched
<1>5. \A c \in Shared : \A t \in children'[c].running :
        tasks'[t].user = u => tasks'[t].proc = c /\ children'[c].map[u] = t
  BY DEF Orderly, Stands, Untouched
<1>6. \A c \in Shared : \A m \in Sends(c)' \cup Answers(c)' :
        m.op = "kill" /\ m.user = u =>
          m.waits /\ ProcOf(u)' \in {0, c} /\ (m \in Answers(c)' => Resting(u)')
  <2> SUFFICES ASSUME NEW c \in Shared, NEW m \in Sends(c)' \cup Answers(c)', m.op = "kill", m.user = u
               PROVE  m.waits /\ ProcOf(u) \in {0, c} /\ (m \in Answers(c)' => Resting(u))
    BY <1>1, <1>3
  <2>1. m \in Answers(c)' => m \in Answers(c)
    BY DEF Untouched, Answers
  <2>2. m \in Sends(c)' => m \in Sends(c) \/ (m.waits /\ ProcOf(u) = c)
    BY DEF Untouched, Sends
  <2>3. m \in Sends(c) \cup Answers(c) =>
          m.waits /\ ProcOf(u) \in {0, c} /\ (m \in Answers(c) => Resting(u))
    BY DEF Orderly
  <2> QED  BY <2>1, <2>2, <2>3
<1>7. \A t \in TaskIds' : tasks'[t].user = u /\ Past(tasks'[t]) => Resting(u)' /\ ProcOf(u)' = 0
  BY <1>1, <1>3 DEF Orderly, Stands, Untouched
<1> QED  BY <1>4, <1>5, <1>6, <1>7 DEF Orderly

LEMMA AskedStays ==
  ASSUME NEW u, TaskIds \subseteq TaskIds', AskedAgain(u),
         \A t \in TaskIds : tasks'[t].user = tasks[t].user /\ tasks'[t].op = tasks[t].op
  PROVE  AskedAgain(u)'
BY DEF AskedAgain

LEMMA GoneAsked ==
  ASSUME TasksGo, NEW u, AskedAgain(u)
  PROVE  AskedAgain(u)'
BY AskedStays DEF TasksGo, Follows

-----------------------------------------------------------------------------
(* The parts about all users                                               *)

\* The workers and processes only handle calls.
Lives ==
  /\ ChildIds' = ChildIds /\ booted' = booted
  /\ \A c \in Shared :
       /\ children'[c].proc = children[c].proc /\ children'[c].alive = children[c].alive
       /\ children'[c].told = children[c].told /\ children'[c].lost = children[c].lost
       /\ children'[c].events = children[c].events /\ children'[c].ready = children[c].ready
  /\ UNCHANGED <<procs, timers>>

LEMMA HealthyKeeps ==
  ASSUME Healthy, booted, Lives
  PROVE  Healthy'
BY DEF Healthy, Lives

LEMMA BootsKeep ==
  ASSUME BootsDone, TasksGo
  PROVE  BootsDone'
<1>1. TaskIds' = TaskIds
  BY DEF TasksGo
<1>2. \A t \in TaskIds : (Locked(t)' <=> Locked(t)) /\ (tasks[t].at = "done" => tasks'[t].at = "done")
  BY DEF TasksGo, Follows, Locked
<1> QED  BY <1>1, <1>2 DEF BootsDone

LEMMA EnginesKeep ==
  ASSUME TypeOK, RegularEngines, SameTasks, UNCHANGED proxies
  PROVE  RegularEngines'
<1>1. \A u \in Users : engines[u] # 0 => engines[u] \in TaskIds
  BY SeqElement DEF TypeOK, TaskIds
<1> QED  BY <1>1 DEF RegularEngines, SameTasks, proxies

LEMMA HandlersKeep ==
  ASSUME TypeOK, RegularWorkers, SameTasks,
         \A c \in Shared :
           /\ children'[c].running = children[c].running /\ children'[c].map = children[c].map
           /\ \A m \in Items(children'[c].calls) : m.op = "run" =>
                m \in Sends(c) \/ (m.waits /\ m.task \in TaskIds /\ tasks[m.task].proc = c)
  PROVE  RegularWorkers'
<1> SUFFICES ASSUME NEW c \in Shared
             PROVE  /\ children'[c].running \subseteq TaskIds'
                    /\ \A u \in Users : children'[c].map[u] # 0 =>
                         children'[c].map[u] \in TaskIds' /\ tasks'[children'[c].map[u]].user = u
                    /\ \A m \in Sends(c)' : m.op = "run" =>
                         m.waits /\ m.task \in TaskIds' /\ tasks'[m.task].proc = c
  BY DEF RegularWorkers
<1>1. children'[c].running = children[c].running /\ children'[c].map = children[c].map
  OBVIOUS
<1>2. children'[c].running \subseteq TaskIds'
  BY <1>1 DEF RegularWorkers, SameTasks
<1>3. \A u \in Users : children'[c].map[u] # 0 =>
        children'[c].map[u] \in TaskIds' /\ tasks'[children'[c].map[u]].user = u
  BY <1>1 DEF RegularWorkers, SameTasks
<1>4. ASSUME NEW m \in Sends(c)', m.op = "run"
      PROVE  m.waits /\ m.task \in TaskIds' /\ tasks'[m.task].proc = c
  <2>1. m \in Items(children'[c].calls)
    BY <1>4 DEF Sends
  <2>2. m \in Sends(c) \/ (m.waits /\ m.task \in TaskIds /\ tasks[m.task].proc = c)
    BY <1>4, <2>1
  <2>3. m \in Sends(c) => m.waits /\ m.task \in TaskIds /\ tasks[m.task].proc = c
    BY <1>4 DEF RegularWorkers
  <2> QED  BY <2>2, <2>3 DEF SameTasks
<1> QED  BY <1>2, <1>3, <1>4

-----------------------------------------------------------------------------
(* The steps of a task that take no process                                *)

\* The calls of the workers are the old ones, but for one that task t sends to
\* the process it has, to run, or to that of its user, to kill.
SendsFor(t, call) ==
  /\ call.op \in {"run", "kill"} /\ call.user = tasks[t].user
  /\ call.op = "run" => call.waits /\ call.task = t
SentOne(c, call) ==
  /\ ChildIds' = ChildIds
  /\ \A d \in Shared :
       /\ d # c => children'[d] = children[d]
       /\ children'[d].proc = children[d].proc /\ children'[d].alive = children[d].alive
       /\ children'[d].told = children[d].told /\ children'[d].lost = children[d].lost
       /\ children'[d].events = children[d].events /\ children'[d].ready = children[d].ready
       /\ children'[d].running = children[d].running /\ children'[d].map = children[d].map
       /\ children'[d].replies = children[d].replies
       /\ Items(children'[d].calls) \subseteq IF d = c THEN Sends(d) \cup {call} ELSE Sends(d)

LEMMA SentIsOne ==
  ASSUME GInv, Healthy, NEW c \in Shared, NEW call \in Call, children' = Sent(c, call)
  PROVE  SentOne(c, call)
<1> DEFINE w == children[c]
           calls1 == Append(w.calls, call)
           new == [w EXCEPT !.calls = calls1]
<1>1. c \in ChildIds /\ w.alive /\ children \in Seq(Child)
  BY DEF Healthy, GInv, TypeOK
<1>2. children' = [children EXCEPT ![c] = new]
  BY <1>1 DEF Sent
<1>3. w \in Child /\ w.calls \in Seq(Call)
  BY <1>1, ChildTyped DEF GInv
<1>4. calls1 \in Seq(Call) /\ Items(calls1) = Sends(c) \cup {call}
  BY <1>3, SeqAppend, ItemsAppend DEF Sends
<1> HIDE DEF calls1
<1>5. /\ new.proc = w.proc /\ new.alive = w.alive /\ new.told = w.told /\ new.lost = w.lost
      /\ new.events = w.events /\ new.ready = w.ready /\ new.running = w.running
      /\ new.map = w.map /\ new.replies = w.replies /\ new.calls = calls1
      /\ new \in Child
  BY <1>3, <1>4 DEF Child
<1> HIDE DEF new
<1>6. ChildIds' = ChildIds /\ \A d \in ChildIds : children'[d] = IF d = c THEN new ELSE children[d]
  BY <1>1, <1>2, <1>5, SeqUpdate DEF ChildIds
<1>7. \A d \in Shared : d \in ChildIds
  BY DEF Healthy
<1> QED  BY <1>4, <1>5, <1>6, <1>7 DEF SentOne, Sends

LEMMA SameIsOne ==
  ASSUME children' = children, NEW c, NEW call
  PROVE  SentOne(c, call)
BY DEF SentOne, Sends, ChildIds

\* A step of task t that leaves _engines and the processes alone.
LEMMA TaskKeeps ==
  ASSUME GInv, Healthy, Regular, booted, booted' = booted, TasksGo,
         NEW t \in TaskIds, NEW u, u = tasks[t].user, NEW new,
         \A s \in TaskIds : tasks'[s] = IF s = t THEN new ELSE tasks[s],
         Follows(new, tasks[t]),
         new.proc = tasks[t].proc, new.at # "waiting",
         new.at \in {"token", "running"} => tasks[t].at \in {"token", "running"},
         UNCHANGED <<proxies, procs, timers>>,
         NEW c, NEW call, SentOne(c, call), SendsFor(t, call),
         call.op = "run" => tasks[t].proc = c
  PROVE  /\ Healthy' /\ Regular'
         /\ \A v \in Users : v # u /\ Orderly(v) => Orderly(v)'
         /\ (/\ Orderly(u)
             /\ Past(new) => (Past(tasks[t]) \/ (Resting(u) /\ ProcOf(u) = 0))
             /\ children' = children \/ (call.op = "kill" => call.waits /\ ProcOf(u) = c))
            => Orderly(u)'
<1>0. u \in Users
  BY TaskFacts
<1>1. SameTasks /\ \A v : Stands(v)
  BY DEF SameTasks, Stands, TasksGo, Follows
<1>2. Healthy'
  <2>1. Lives
    BY DEF SentOne, Lives
  <2> QED  BY <2>1, HealthyKeeps
<1>3. TypeOK /\ RegularTasks /\ BootsDone /\ RegularEngines /\ RegularWorkers
  BY DEF Regular, GInv
<1>4. RegularTasks'
  <2>1. \A s \in TaskIds :
          /\ tasks'[s].at # "waiting"
          /\ tasks'[s].at \in {"token", "running"} => tasks[s].at \in {"token", "running"}
    BY <1>3 DEF RegularTasks
  <2> QED  BY <1>1, <1>3, <2>1 DEF RegularTasks, SameTasks
<1>5. RegularWorkers'
  <2>1. \A d \in Shared :
          /\ children'[d].running = children[d].running /\ children'[d].map = children[d].map
          /\ \A m \in Items(children'[d].calls) : m.op = "run" =>
               m \in Sends(d) \/ (m.waits /\ m.task \in TaskIds /\ tasks[m.task].proc = d)
    BY DEF SentOne, SendsFor
  <2> QED  BY <1>1, <1>3, <2>1, HandlersKeep
<1>6. Regular'
  BY <1>1, <1>3, <1>4, <1>5, BootsKeep, EnginesKeep DEF Regular
<1>7. \A d \in Shared : children'[d].running \subseteq TaskIds
  BY <1>3 DEF SentOne, RegularWorkers
<1>8. \A s \in TaskIds : s # t => tasks'[s] = tasks[s]
  OBVIOUS
<1>9. \A d \in Shared : children'[d].replies = children[d].replies /\ children'[d].running = children[d].running
                        /\ children'[d].map = children[d].map
  BY DEF SentOne
<1>10. ASSUME NEW v \in Users, v # u, Orderly(v)
       PROVE  Orderly(v)'
  <2>1. \A d \in Shared : \A m \in Items(children'[d].calls) : m.op = "kill" /\ m.user = v => m \in Sends(d)
    BY <1>10 DEF SentOne, SendsFor
  <2>2. Untouched(v)
    BY <1>8, <1>9, <1>10, <2>1 DEF Untouched, Answers, proxies
  <2> QED  BY <1>1, <1>3, <1>7, <1>10, <2>2, OrderlyKeeps
<1>11. ASSUME Orderly(u),
              Past(new) => (Past(tasks[t]) \/ (Resting(u) /\ ProcOf(u) = 0)),
              children' = children \/ (call.op = "kill" => call.waits /\ ProcOf(u) = c)
       PROVE  Orderly(u)'
  <2>1. \A d \in Shared : \A m \in Items(children'[d].calls) : m.op = "kill" /\ m.user = u =>
          m \in Sends(d) \/ (m.waits /\ ProcOf(u) = d)
    <3>1. CASE children' = children
      BY <3>1 DEF Sends
    <3>2. CASE call.op = "kill" => call.waits /\ ProcOf(u) = c
      BY <3>2 DEF SentOne
    <3> QED  BY <1>11, <3>1, <3>2
  <2>2. \A s \in TaskIds :
          /\ tasks'[s].at \in {"token", "running"} => tasks[s].at \in {"token", "running"}
          /\ Past(tasks'[s]) => Past(tasks[s]) \/ (Resting(u) /\ ProcOf(u) = 0)
    BY <1>11
  <2>3. Untouched(u)
    BY <1>9, <2>1, <2>2 DEF Untouched, Answers, proxies
  <2> QED  BY <1>0, <1>1, <1>3, <1>7, <1>11, <2>3, OrderlyKeeps
<1> QED  BY <1>2, <1>6, <1>10, <1>11

-----------------------------------------------------------------------------
(* The steps of a task                                                     *)

DState == Healthy /\ Regular /\ \A u \in Users : AskedAgain(u) \/ Orderly(u)

LEMMA StageOps ==
  ASSUME GInv, Regular, NEW t \in TaskIds, tasks[t].at # "done"
  PROVE  /\ Head(tasks[t].todo) = "rm" =>
              /\ tasks[t].op \in {"restartUserWithoutCache", "deleteUser"}
              /\ tasks[t].todo # Plan[tasks[t].op]
         /\ Head(tasks[t].todo) = "send" => tasks[t].op = "sendSocket"
<1>1. tasks[t].op \in {"killUser", "restartUser", "restartUserWithoutCache", "sendSocket", "deleteUser", "boot"}
  BY DEF Regular, RegularTasks, DeletionOps, SharedOps
<1>2. tasks[t].todo \in Left(tasks[t].op)
  BY TaskFacts DEF OnPlan
<1>3. tasks[t].op \in {"killUser", "restartUser", "boot"} => Head(tasks[t].todo) \in {"kill", "start"}
  <2>1. CASE tasks[t].op = "killUser"
    BY <1>2, <2>1, PlanFacts, TodoFacts DEF Left
  <2>2. CASE tasks[t].op = "restartUser"
    <3>1. tasks[t].todo \in {<<"kill", "start">>, <<"start">>}
      BY <1>2, <2>2, PlanFacts DEF Left
    <3> QED  BY <3>1, TodoFacts
  <2>3. CASE tasks[t].op = "boot"
    BY <1>2, <2>3, PlanFacts, TodoFacts DEF Left
  <2> QED  BY <2>1, <2>2, <2>3
<1>4. tasks[t].op = "sendSocket" => Head(tasks[t].todo) = "send"
  BY <1>2, PlanFacts, TodoFacts DEF Left
<1>5. CASE tasks[t].op = "restartUserWithoutCache"
  <2>1. /\ tasks[t].todo \in {<<"kill", "rm", "start">>, <<"rm", "start">>, <<"start">>}
        /\ Plan[tasks[t].op] = <<"kill", "rm", "start">>
    BY <1>2, <1>5, PlanFacts DEF Left
  <2> QED  BY <1>5, <2>1, TodoFacts
<1>6. CASE tasks[t].op = "deleteUser"
  <2>1. tasks[t].todo \in {<<"kill", "rm">>, <<"rm">>} /\ Plan[tasks[t].op] = <<"kill", "rm">>
    BY <1>2, <1>6, PlanFacts DEF Left
  <2> QED  BY <1>6, <2>1, TailFacts
<1> QED  BY <1>1, <1>3, <1>4, <1>5, <1>6

LEMMA ProcRegular ==
  ASSUME GInv, Regular, NEW u \in Users
  PROVE  /\ ProcOf(u) \in {0} \cup Shared
         /\ ProcOf(u) = 0 <=> engines[u] = 0
         /\ engines[u] # 0 => engines[u] \in TaskIds
<1>1. 0 \notin Shared
  BY ProcAssumption DEF Shared
<1>2. engines[u] # 0 => engines[u] \in TaskIds
  BY SeqElement DEF GInv, TypeOK, TaskIds
<1> QED  BY <1>1, <1>2 DEF Regular, RegularEngines, ProcOf

LEMMA NoEntryRests ==
  ASSUME GInv, Regular, NEW u \in Users, Orderly(u), ProcOf(u) = 0
  PROVE  Resting(u)
<1>1. engines[u] = 0
  BY ProcRegular
<1>2. \A t \in TaskIds : t # 0
  BY DEF TaskIds
<1> QED  BY <1>1, <1>2 DEF Orderly, Resting

LEMMA SharedProc ==
  ASSUME Healthy, NEW p \in Shared
  PROVE  p # 0 /\ IsShared(p) /\ procs[p].sock = p /\ p \in ChildIds
BY ProcAssumption DEF Healthy, IsShared, Shared

LEMMA TaskBooted ==
  ASSUME GInv, NEW t \in TaskIds
  PROVE  booted
<1>1. tasks # <<>>
  BY EmptyTasks
<1> QED  BY <1>1 DEF GInv, Young

\* From TaskKeeps: what holds of the other users and the whole.
LEMMA TaskKeepsAll ==
  ASSUME GInv, DState, TasksGo, UNCHANGED <<phase, proxies, procs, timers>>,
         NEW t \in TaskIds, NEW u, u = tasks[t].user, NEW new,
         \A s \in TaskIds : tasks'[s] = IF s = t THEN new ELSE tasks[s],
         Follows(new, tasks[t]),
         new.proc = tasks[t].proc, new.at # "waiting",
         new.at \in {"token", "running"} => tasks[t].at \in {"token", "running"},
         NEW c, NEW call, SentOne(c, call), SendsFor(t, call),
         call.op = "run" => tasks[t].proc = c,
         ~AskedAgain(u) /\ Orderly(u) =>
           /\ Past(new) => (Past(tasks[t]) \/ (Resting(u) /\ ProcOf(u) = 0))
           /\ children' = children \/ (call.op = "kill" => call.waits /\ ProcOf(u) = c)
  PROVE  DState'
<1>1. booted /\ booted' = booted
  BY TaskBooted DEF phase
<1>2. Healthy /\ Regular
  BY DEF DState
<1>3. /\ Healthy' /\ Regular'
      /\ \A v \in Users : v # u /\ Orderly(v) => Orderly(v)'
      /\ (/\ Orderly(u)
          /\ Past(new) => (Past(tasks[t]) \/ (Resting(u) /\ ProcOf(u) = 0))
          /\ children' = children \/ (call.op = "kill" => call.waits /\ ProcOf(u) = c))
         => Orderly(u)'
  BY <1>1, <1>2, TaskKeeps
<1>4. ASSUME NEW v \in Users
      PROVE  AskedAgain(v)' \/ Orderly(v)'
  <2>1. CASE AskedAgain(v)
    BY <2>1, GoneAsked
  <2>2. CASE ~AskedAgain(v) /\ v # u
    BY <1>3, <2>2 DEF DState
  <2>3. CASE ~AskedAgain(v) /\ v = u
    <3>1. Orderly(u)
      BY <2>3 DEF DState
    <3> QED  BY <1>3, <2>3, <3>1
  <2> QED  BY <2>1, <2>2, <2>3
<1> QED  BY <1>3, <1>4 DEF DState

\* A step that sends nothing.
LEMMA SilentStep ==
  ASSUME GInv, DState, UNCHANGED <<phase, proxies, procs, timers, children>>,
         NEW t \in TaskIds, NEW new, Step(t, new), Follows(new, tasks[t]), Begun(tasks[t]) \/ Granted(t),
         new.proc = tasks[t].proc, new.at \notin {"waiting", "token", "running"},
         NEW u, u = tasks[t].user,
         Past(new) /\ ~AskedAgain(u) /\ Orderly(u) => Past(tasks[t]) \/ (Resting(u) /\ ProcOf(u) = 0)
  PROVE  DState'
<1>1. TasksGo /\ \A s \in TaskIds : tasks'[s] = IF s = t THEN new ELSE tasks[s]
  BY StepGoes
<1>2. PICK call : call = [op |-> "kill", user |-> u, task |-> t, waits |-> TRUE]
  OBVIOUS
<1>3. SendsFor(t, call) /\ call.op # "run"
  BY <1>2 DEF SendsFor
<1>4. SentOne(0, call)
  BY SameIsOne
<1> QED  BY <1>1, <1>3, <1>4, TaskKeepsAll

LEMMA SendStageDown ==
  ASSUME GInv, DState, NEW t \in TaskIds, SendStage(t)
  PROVE  DState'
<1>1. AtStage(t, "send") /\ UNCHANGED <<phase, proxies, processes, children, timers, bounds>>
  BY DEF SendStage
<1>2. PICK new \in {Failed(tasks[t]), Advanced(tasks[t])} : Step(t, new)
  BY DEF SendStage
<1>3. /\ tasks[t].at = "idle" /\ Granted(t) /\ Head(tasks[t].todo) = "send" /\ tasks[t] \in Task
      /\ OnPlan(tasks[t]) /\ Follows(Failed(tasks[t]), tasks[t]) /\ Follows(Advanced(tasks[t]), tasks[t])
  BY <1>1, AtStageFacts
<1>4. Follows(new, tasks[t]) /\ new.proc = tasks[t].proc /\ new.at \in {"done", "idle"}
  BY <1>2, <1>3, FailedFollows, AdvancedFollows
<1>5. tasks[t].op = "sendSocket"
  BY <1>3, StageOps DEF DState
<1>6. ~Past(new)
  BY <1>4, <1>5 DEF Past, Follows
<1> QED  BY <1>1, <1>2, <1>3, <1>4, <1>6, SilentStep DEF processes

LEMMA RmDoneDown ==
  ASSUME GInv, DState, NEW t \in TaskIds, RmDone(t)
  PROVE  DState'
<1>1. /\ tasks[t].at = "rm" /\ Step(t, Advanced(tasks[t]))
      /\ UNCHANGED <<phase, proxies, processes, children, timers, bounds>>
  BY DEF RmDone
<1>2. tasks[t] \in Task /\ OnPlan(tasks[t]) /\ Begun(tasks[t])
  BY <1>1, TaskFacts DEF Begun
<1>3. /\ Follows(Advanced(tasks[t]), tasks[t]) /\ Advanced(tasks[t]).proc = tasks[t].proc
      /\ Advanced(tasks[t]).at \in {"done", "idle"}
  BY <1>1, <1>2, AdvancedFollows
<1>4. Past(tasks[t])
  <2>1. Head(tasks[t].todo) = "rm"
    BY <1>1, <1>2 DEF OnPlan
  <2>2. tasks[t].op \in {"restartUserWithoutCache", "deleteUser"}
    BY <1>1, <2>1, StageOps DEF DState
  <2> QED  BY <1>1, <2>2 DEF Past
<1> QED  BY <1>1, <1>2, <1>3, <1>4, SilentStep DEF processes

LEMMA CallRunEngineDown ==
  ASSUME GInv, DState, NEW t \in TaskIds, CallRunEngine(t)
  PROVE  DState'
<1> DEFINE p == tasks[t].proc
           u == tasks[t].user
           call == [op |-> "run", user |-> u, task |-> t, waits |-> TRUE]
           new == [tasks[t] EXCEPT !.at = "running"]
<1>1. tasks[t].at = "token" /\ UNCHANGED <<phase, proxies, processes, timers, bounds>>
  BY DEF CallRunEngine
<1>2. p \in Shared /\ p # 0 /\ procs[p].sock = p
  BY <1>1, SharedProc DEF DState, Regular, RegularTasks
<1>3. children' = Sent(p, call) /\ Step(t, new)
  BY <1>2 DEF CallRunEngine
<1>4. /\ tasks[t] \in Task /\ OnPlan(tasks[t]) /\ u \in Users /\ t \in 1..MaxTasks
      /\ Begun(tasks[t]) /\ Head(tasks[t].todo) = "start"
  BY <1>1, TaskFacts DEF Begun, OnPlan
<1>5. Follows(new, tasks[t]) /\ new.at = "running" /\ new.proc = p
  BY <1>1, <1>4, AwaitFollows
<1>6. call \in Call /\ call.op = "run" /\ call.op # "kill" /\ SendsFor(t, call)
  BY <1>4 DEF Call, SendsFor
<1> HIDE DEF new, call
<1>7. SentOne(p, call)
  BY <1>2, <1>3, <1>6, SentIsOne DEF DState
<1>8. TasksGo /\ \A s \in TaskIds : tasks'[s] = IF s = t THEN new ELSE tasks[s]
  BY <1>3, <1>4, <1>5, StepGoes
<1>9. ~Past(new)
  BY <1>5 DEF Past
<1>10. UNCHANGED procs
  BY <1>1 DEF processes
<1> QED  BY <1>1, <1>5, <1>6, <1>7, <1>8, <1>9, <1>10, TaskKeepsAll

\* What KillEngine does for shared workers that live.
LEMMA KillEngineShared ==
  ASSUME GInv, DState, NEW t \in TaskIds, NEW u \in Users, NEW waits, NEW awaiting, NEW next,
         KillEngine(t, u, waits, awaiting, next)
  PROVE  /\ UNCHANGED <<proxies, procs, registered, timers>>
         /\ \/ ProcOf(u) = 0 /\ Step(t, next) /\ UNCHANGED children
            \/ /\ ProcOf(u) \in Shared /\ Step(t, awaiting)
               /\ children' = Sent(ProcOf(u), [op |-> "kill", user |-> u, task |-> t, waits |-> waits])
<1>1. ProcOf(u) \in {0} \cup Shared
  BY ProcRegular DEF DState
<1>2. ProcOf(u) \in Shared => IsShared(ProcOf(u)) /\ procs[ProcOf(u)].sock = ProcOf(u) /\ ProcOf(u) # 0
  BY SharedProc DEF DState
<1>3. CASE ProcOf(u) = 0
  BY <1>3 DEF KillEngine
<1>4. CASE ProcOf(u) \in Shared
  BY <1>2, <1>4 DEF KillEngine
<1> QED  BY <1>1, <1>3, <1>4

\* A kill is sent to the process of the user.
LEMMA KillSent ==
  ASSUME GInv, DState, UNCHANGED <<phase, proxies, procs, timers>>,
         NEW t \in TaskIds, NEW new, Step(t, new), Follows(new, tasks[t]), Begun(tasks[t]) \/ Granted(t),
         new.proc = tasks[t].proc, new.at \in {"killing", "rm"},
         NEW u, u = tasks[t].user, NEW p \in Shared, p = ProcOf(u), NEW waits \in BOOLEAN,
         children' = Sent(p, [op |-> "kill", user |-> u, task |-> t, waits |-> waits]),
         ~AskedAgain(u) /\ Orderly(u) => waits /\ new.at = "killing"
  PROVE  DState'
<1> DEFINE call == [op |-> "kill", user |-> u, task |-> t, waits |-> waits]
<1>1. TasksGo /\ \A s \in TaskIds : tasks'[s] = IF s = t THEN new ELSE tasks[s]
  BY StepGoes
<1>2. call \in Call /\ call.op = "kill" /\ call.op # "run" /\ call.waits = waits /\ SendsFor(t, call)
  BY TaskFacts DEF Call, SendsFor
<1>3. children' = Sent(p, call)
  OBVIOUS
<1> HIDE DEF call
<1>4. SentOne(p, call)
  BY <1>2, <1>3, SentIsOne DEF DState
<1>5. new.at = "killing" => ~Past(new)
  BY DEF Past
<1> QED  BY <1>1, <1>2, <1>4, <1>5, TaskKeepsAll

LEMMA KillStageDown ==
  ASSUME GInv, DState, NEW t \in TaskIds, KillStage(t)
  PROVE  DState'
<1> DEFINE awaiting == [tasks[t] EXCEPT !.at = "killing"]
           next == Advanced(tasks[t])
<1>0. PICK u : u = tasks[t].user
  OBVIOUS
<1>1. /\ AtStage(t, "kill") /\ KillEngine(t, u, TRUE, awaiting, next)
      /\ UNCHANGED <<phase, nextProcess, bounds>>
  BY <1>0 DEF KillStage
<1>2. /\ tasks[t].at = "idle" /\ Granted(t) /\ Head(tasks[t].todo) = "kill" /\ tasks[t] \in Task
      /\ OnPlan(tasks[t]) /\ u \in Users
  BY <1>0, <1>1, AtStageFacts
<1>3. Follows(awaiting, tasks[t]) /\ awaiting.at = "killing" /\ awaiting.proc = tasks[t].proc
  BY <1>2, AwaitFollows
<1>4. Follows(next, tasks[t]) /\ next.at \in {"idle", "done"} /\ next.proc = tasks[t].proc
  BY <1>2, AdvancedFollows
<1> HIDE DEF awaiting, next
<1>5. /\ UNCHANGED <<proxies, procs, registered, timers>>
      /\ \/ ProcOf(u) = 0 /\ Step(t, next) /\ UNCHANGED children
         \/ /\ ProcOf(u) \in Shared /\ Step(t, awaiting)
            /\ children' = Sent(ProcOf(u), [op |-> "kill", user |-> u, task |-> t, waits |-> TRUE])
  BY <1>1, <1>2, KillEngineShared
<1>6. CASE ProcOf(u) = 0 /\ Step(t, next) /\ UNCHANGED children
  <2>1. Orderly(u) => Resting(u)
    BY <1>2, <1>6, NoEntryRests DEF DState
  <2> QED  BY <1>0, <1>1, <1>2, <1>4, <1>5, <1>6, <2>1, SilentStep
<1>7. CASE /\ ProcOf(u) \in Shared /\ Step(t, awaiting)
           /\ children' = Sent(ProcOf(u), [op |-> "kill", user |-> u, task |-> t, waits |-> TRUE])
  <2>1. PICK p \in Shared : p = ProcOf(u)
    BY <1>7
  <2>2. children' = Sent(p, [op |-> "kill", user |-> u, task |-> t, waits |-> TRUE])
    BY <1>7, <2>1
  <2> QED  BY <1>0, <1>1, <1>2, <1>3, <1>5, <1>7, <2>1, <2>2, KillSent
<1> QED  BY <1>5, <1>6, <1>7

LEMMA RmStageDown ==
  ASSUME GInv, DState, NEW t \in TaskIds, RmStage(t)
  PROVE  DState'
<1> DEFINE rm == [tasks[t] EXCEPT !.at = "rm"]
<1>0. PICK u : u = tasks[t].user
  OBVIOUS
<1>1. /\ AtStage(t, "rm") /\ UNCHANGED <<phase, nextProcess, bounds>>
      /\ KillEngine(t, u, FALSE, rm, IF engines[u] = 0 /\ u \in deleted THEN Failed(tasks[t]) ELSE rm)
  BY <1>0 DEF RmStage
<1>2. PICK next \in {Failed(tasks[t]), rm} : KillEngine(t, u, FALSE, rm, next)
  BY <1>1
<1>3. /\ tasks[t].at = "idle" /\ Granted(t) /\ Head(tasks[t].todo) = "rm" /\ tasks[t] \in Task
      /\ OnPlan(tasks[t]) /\ u \in Users
  BY <1>0, <1>1, AtStageFacts
<1>4. Follows(rm, tasks[t]) /\ rm.at = "rm" /\ rm.proc = tasks[t].proc
  BY <1>3, AwaitFollows
<1>5. Follows(next, tasks[t]) /\ next.at \in {"rm", "done"} /\ next.proc = tasks[t].proc
  BY <1>2, <1>3, <1>4, FailedFollows
<1>6. Past(tasks[t])
  BY <1>3, StageOps DEF Past, DState
<1>7. Orderly(u) => ProcOf(u) = 0
  BY <1>0, <1>6 DEF Orderly
<1> HIDE DEF rm
<1>8. /\ UNCHANGED <<proxies, procs, registered, timers>>
      /\ \/ ProcOf(u) = 0 /\ Step(t, next) /\ UNCHANGED children
         \/ /\ ProcOf(u) \in Shared /\ Step(t, rm)
            /\ children' = Sent(ProcOf(u), [op |-> "kill", user |-> u, task |-> t, waits |-> FALSE])
  BY <1>2, <1>3, KillEngineShared
<1>9. CASE ProcOf(u) = 0 /\ Step(t, next) /\ UNCHANGED children
  BY <1>0, <1>1, <1>3, <1>5, <1>6, <1>8, <1>9, SilentStep
<1>10. CASE /\ ProcOf(u) \in Shared /\ Step(t, rm)
            /\ children' = Sent(ProcOf(u), [op |-> "kill", user |-> u, task |-> t, waits |-> FALSE])
  <2>1. PICK p \in Shared : p = ProcOf(u) /\ p # 0
    BY <1>10, SharedProc DEF DState
  <2>2. children' = Sent(p, [op |-> "kill", user |-> u, task |-> t, waits |-> FALSE])
    BY <1>10, <2>1
  <2> QED  BY <1>0, <1>1, <1>3, <1>4, <1>7, <1>8, <1>10, <2>1, <2>2, KillSent
<1> QED  BY <1>8, <1>9, <1>10

-----------------------------------------------------------------------------
(* The start of an engine                                                  *)

\* Beside a restart that has begun, no operation of its user is under way, nor
\* a deleteUser over, unless the engine was asked for after the deleteUser.
LEMMA NoneElse ==
  ASSUME GInv, Regular, NEW s \in TaskIds, NEW t \in TaskIds, s # t, tasks[s].user = tasks[t].user,
         ~AskedAgain(tasks[s].user), tasks[s].op \in Restarts, tasks[s].at # "done",
         Begun(tasks[s]) \/ Granted(s)
  PROVE  /\ ~Past(tasks[t]) /\ tasks[t].at # "killing"
         /\ tasks[t].at \notin {"token", "running"}
<1>1. Locked(s)
  BY DEF Locked, Restarts
<1>2. ~Locked(t) => tasks[t].at = "done"
  BY <1>1 DEF Regular, BootsDone
<1>3. Locked(t) /\ Begun(tasks[t]) => tasks[t].at = "done" /\ tasks[t].op # "deleteUser"
  BY OnlyRestart
<1>4. Past(tasks[t]) => Locked(t)
  BY DEF Past, Locked
<1>5. tasks[t].at = "done" /\ tasks[t].op # "deleteUser" => ~Past(tasks[t])
  BY DEF Past
<1> QED  BY <1>2, <1>3, <1>4, <1>5, PastFacts

\* The record of a task that starts an engine in a process that is ready.
LEMMA TokenFacts ==
  ASSUME NEW task \in Task, NEW p, procs[p].starting = "none"
  PROVE  /\ RunTask(task, p).at = "token" /\ RunTask(task, p).proc = p
BY TaskTyped DEF RunTask, Task

LEMMA RunSharedDown ==
  ASSUME GInv, DState, NEW t \in TaskIds, NEW u, u = tasks[t].user, AtStage(t, "start"),
         UNCHANGED <<phase, timers>>, RunShared(t, u)
  PROVE  DState'
<1> DEFINE p == nextProcess
           new == RunTask(tasks[t], p)
<1>1. /\ tasks[t].at = "idle" /\ Granted(t) /\ Head(tasks[t].todo) = "start" /\ tasks[t] \in Task
      /\ OnPlan(tasks[t]) /\ u \in Users
  BY AtStageFacts
<1>2. p \in Shared /\ TypeOK /\ booted
  BY TaskBooted DEF GInv, TypeOK
<1>3. Healthy /\ Regular /\ RegularTasks /\ BootsDone /\ RegularEngines /\ RegularWorkers
  BY DEF DState, Regular
<1>4. procs[p].starting = "none"
  BY <1>2, <1>3 DEF Healthy
<1>5. /\ engines' = [engines EXCEPT ![u] = t] /\ Step(t, new) /\ listening' = listening \cup {t}
      /\ UNCHANGED <<procs, registered, children>>
  BY <1>4 DEF RunShared
<1>6. Follows(new, tasks[t]) /\ new.at = "token" /\ new.proc = p
  BY <1>1, <1>2, <1>4, RunTaskFollows, TokenFacts
<1>7. tasks[t].op \in Restarts /\ tasks[t].todo # Plan[tasks[t].op]
  <2>1. tasks[t].op # "boot"
    BY <1>1 DEF OnPlan
  <2> QED  BY <1>1, <1>3, <2>1, StarterFacts
<1> HIDE DEF new
<1>8. TasksGo /\ \A s \in TaskIds : tasks'[s] = IF s = t THEN new ELSE tasks[s]
  BY <1>1, <1>5, <1>6, StepGoes
<1>9. TaskIds' = TaskIds /\ tasks'[t] = new /\ new.user = u /\ new.op = tasks[t].op
      /\ \A s \in TaskIds : s # t => tasks'[s] = tasks[s]
  BY <1>6, <1>8 DEF TasksGo, Follows
<1>10. engines'[u] = t /\ (\A v \in Users : v # u => engines'[v] = engines[v])
  BY <1>1, <1>2, <1>5 DEF TypeOK
<1>11. \A c \in Shared : children'[c] = children[c] /\ Sends(c)' = Sends(c) /\ Answers(c)' = Answers(c)
  BY <1>5 DEF Sends, Answers
<1>12. Healthy'
  <2>1. Lives
    BY <1>5, <1>11 DEF Lives, ChildIds, phase
  <2> QED  BY <1>2, <1>3, <2>1, HealthyKeeps
<1>13. Regular'
  <2>1. RegularTasks'
    BY <1>2, <1>3, <1>6, <1>9 DEF RegularTasks
  <2>2. BootsDone'
    BY <1>3, <1>8, BootsKeep
  <2>3. RegularEngines'
    <3>1. \A v \in Users : engines[v] # 0 => engines[v] \in TaskIds
      BY <1>3, ProcRegular
    <3>2. ASSUME NEW v \in Users, engines'[v] # 0
          PROVE  engines'[v] \in listening' /\ tasks'[engines'[v]].user = v /\ tasks'[engines'[v]].proc \in Shared
      <4>1. CASE v = u
        BY <1>2, <1>5, <1>6, <1>9, <1>10, <4>1
      <4>2. CASE v # u
        <5>1. engines'[v] = engines[v] /\ engines[v] \in TaskIds /\ engines[v] \in listening
              /\ tasks[engines[v]].user = v /\ tasks[engines[v]].proc \in Shared
          BY <1>3, <1>10, <3>1, <3>2, <4>2 DEF RegularEngines
        <5>2. engines[v] # t
          BY <4>2, <5>1
        <5> QED  BY <1>5, <1>9, <5>1, <5>2
      <4> QED  BY <4>1, <4>2
    <3> QED  BY <3>2 DEF RegularEngines
  <2>4. RegularWorkers'
    <3> SUFFICES ASSUME NEW c \in Shared
                 PROVE  /\ children'[c].running \subseteq TaskIds'
                        /\ \A v \in Users : children'[c].map[v] # 0 =>
                             children'[c].map[v] \in TaskIds' /\ tasks'[children'[c].map[v]].user = v
                        /\ \A m \in Sends(c)' : m.op = "run" =>
                             m.waits /\ m.task \in TaskIds' /\ tasks'[m.task].proc = c
      BY DEF RegularWorkers
    <3>1. children'[c].running \subseteq TaskIds'
      BY <1>3, <1>9, <1>11 DEF RegularWorkers
    <3>2. ASSUME NEW v \in Users, children'[c].map[v] # 0
          PROVE  children'[c].map[v] \in TaskIds' /\ tasks'[children'[c].map[v]].user = v
      BY <1>3, <1>9, <1>11, <3>2 DEF RegularWorkers
    <3>3. ASSUME NEW m \in Sends(c)', m.op = "run"
          PROVE  m.waits /\ m.task \in TaskIds' /\ tasks'[m.task].proc = c
      <4>1. m \in Sends(c) /\ c \in ChildIds
        BY <1>3, <1>11 DEF Healthy
      <4>2. m.waits /\ m.task \in TaskIds /\ tasks[m.task].proc = c
        BY <1>3, <3>3, <4>1 DEF RegularWorkers
      <4>3. tasks[m.task].at = "running"
        BY <3>3, <4>1, <4>2, CallFacts DEF Awaits
      <4>4. m.task # t
        BY <1>1, <4>3
      <4> QED  BY <1>9, <4>2, <4>4
    <3> QED  BY <3>1, <3>2, <3>3
  <2> QED  BY <2>1, <2>2, <2>3, <2>4 DEF Regular
<1>14. ASSUME NEW v \in Users, v # u, Orderly(v)
       PROVE  Orderly(v)'
  <2>1. Stands(v)
    BY <1>9, <1>14 DEF Stands
  <2>2. Untouched(v)
    BY <1>9, <1>10, <1>11, <1>14 DEF Untouched, Sends, Answers
  <2>3. \A c \in Shared : children'[c].running \subseteq TaskIds
    BY <1>3, <1>11 DEF RegularWorkers
  <2> QED  BY <1>2, <1>3, <1>14, <2>1, <2>2, <2>3, OrderlyKeeps
<1>15. ASSUME ~AskedAgain(u), Orderly(u)
       PROVE  Orderly(u)'
  <2>1. Resting(u)
    BY <1>1, <1>7, <1>15 DEF Orderly, Past, Restarts
  <2>2. \A s \in TaskIds : s # t /\ tasks[s].user = u => ~Past(tasks[s]) /\ tasks[s].at # "killing"
    BY <1>1, <1>3, <1>7, <1>15, NoneElse
  <2>3. \A s \in TaskIds : s # t => (Engaged(s)' <=> Engaged(s))
    BY <1>9, <1>11 DEF Engaged
  <2>4. \A s \in TaskIds' : tasks'[s].user = u /\ Engaged(s)' => engines'[u] = s
    BY <1>9, <1>10, <2>1, <2>3 DEF Resting
  <2>5. \A c \in Shared : \A s \in children'[c].running : tasks'[s].user # u
    <3>1. \A c \in Shared : \A s \in children[c].running : s \in TaskIds /\ Engaged(s)
      BY <1>3 DEF RegularWorkers, Engaged
    <3>2. \A s \in TaskIds : tasks'[s].user = tasks[s].user
      BY <1>9
    <3> QED  BY <1>11, <2>1, <3>1, <3>2 DEF Resting
  <2>6. \A c \in Shared : \A m \in Sends(c)' \cup Answers(c)' : ~(m.op = "kill" /\ m.user = u)
    <3> SUFFICES ASSUME NEW c \in Shared, NEW m \in Sends(c) \cup Answers(c), m.op = "kill", m.user = u
                 PROVE  FALSE
      BY <1>11
    <3>1. m.waits /\ c \in ChildIds
      BY <1>3, <1>15 DEF Orderly, Healthy
    <3>2. Awaits(m)
      BY <3>1, CallFacts
    <3>3. m.task \in TaskIds /\ tasks[m.task].user = u /\ tasks[m.task].at = "killing"
      BY <3>1, <3>2 DEF Awaits
    <3> QED  BY <1>1, <2>2, <3>3
  <2>7. \A s \in TaskIds' : tasks'[s].user = u => ~Past(tasks'[s])
    <3>1. ~Past(new)
      BY <1>6 DEF Past
    <3> QED  BY <1>9, <2>2, <3>1
  <2> QED  BY <2>4, <2>5, <2>6, <2>7 DEF Orderly
<1>16. ASSUME NEW v \in Users
       PROVE  AskedAgain(v)' \/ Orderly(v)'
  <2>1. CASE AskedAgain(v)
    BY <1>8, <2>1, GoneAsked
  <2>2. CASE ~AskedAgain(v) /\ v # u
    BY <1>14, <2>2 DEF DState
  <2>3. CASE ~AskedAgain(v) /\ v = u
    BY <1>15, <2>3 DEF DState
  <2> QED  BY <2>1, <2>2, <2>3
<1> QED  BY <1>12, <1>13, <1>16 DEF DState

LEMMA StartStageDown ==
  ASSUME DeletionOnly, GInv, DState, NEW t \in TaskIds, StartStage(t)
  PROVE  DState'
<1>0. PICK u : u = tasks[t].user
  OBVIOUS
<1>1. /\ AtStage(t, "start") /\ UNCHANGED <<phase, timers, bounds>>
      /\ IF u \in deleted THEN Step(t, Failed(tasks[t])) /\ UNCHANGED <<proxies, processes, children>>
         ELSE RunShared(t, u)
  BY <1>0 DEF StartStage, DeletionOnly
<1>2. CASE u \in deleted
  <2>1. Step(t, Failed(tasks[t])) /\ UNCHANGED <<phase, proxies, procs, timers, children>>
    BY <1>1, <1>2 DEF processes
  <2>2. /\ tasks[t].at = "idle" /\ Granted(t) /\ Head(tasks[t].todo) = "start" /\ tasks[t] \in Task
        /\ OnPlan(tasks[t])
    BY <1>1, AtStageFacts
  <2>3. /\ Follows(Failed(tasks[t]), tasks[t]) /\ Failed(tasks[t]).proc = tasks[t].proc
        /\ Failed(tasks[t]).at = "done"
    BY <2>2, FailedFollows
  <2>4. tasks[t].op # "deleteUser"
    BY <2>2, StarterFacts DEF DState, Restarts
  <2>5. ~Past(Failed(tasks[t]))
    BY <2>3, <2>4 DEF Past, Follows
  <2> QED  BY <1>0, <2>1, <2>2, <2>3, <2>5, SilentStep
<1>3. CASE u \notin deleted
  BY <1>0, <1>1, <1>3, RunSharedDown
<1> QED  BY <1>2, <1>3

-----------------------------------------------------------------------------
(* The worker handles a call                                               *)

\* The call moves to the answers, and only the engines of its user change.
HandledOne(c, m) ==
  /\ ChildIds' = ChildIds
  /\ \A d \in Shared :
       /\ d # c => children'[d] = children[d]
       /\ children'[d].proc = children[d].proc /\ children'[d].alive = children[d].alive
       /\ children'[d].told = children[d].told /\ children'[d].lost = children[d].lost
       /\ children'[d].events = children[d].events /\ children'[d].ready = children[d].ready
  /\ m \in Sends(c)
  /\ children'[c].running = IF m.op = "run" THEN children[c].running \cup {m.task}
                            ELSE children[c].running \ {children[c].map[m.user]}
  /\ children'[c].map = [children[c].map EXCEPT ![m.user] = IF m.op = "run" THEN m.task ELSE 0]
  /\ Items(children'[c].calls) \subseteq Sends(c)
  /\ Items(children'[c].replies) = Answers(c) \cup {m}

LEMMA HandleIsOne ==
  ASSUME GInv, Healthy, NEW c \in Shared, WorkerHandle(c)
  PROVE  \E m \in Call : HandledOne(c, m)
<1> DEFINE m == Head(children[c].calls)
           running == IF m.op = "run" THEN children[c].running \cup {m.task}
                      ELSE children[c].running \ {children[c].map[m.user]}
           map == [children[c].map EXCEPT ![m.user] = IF m.op = "run" THEN m.task ELSE 0]
           rest == Tail(children[c].calls)
           replies == Append(children[c].replies, m)
           w == [children[c] EXCEPT !.calls = rest, !.replies = replies,
                                    !.running = running, !.map = map]
<1>1. children[c].calls # <<>> /\ children' = [children EXCEPT ![c] = w]
  BY DEF WorkerHandle
<1>2. /\ c \in ChildIds /\ children[c] \in Child /\ children[c].calls \in Seq(Call)
      /\ children[c].replies \in Seq(Call) /\ children \in Seq(Child)
  BY ChildTyped DEF Healthy, GInv, TypeOK
<1>3. m \in Call /\ m \in Sends(c) /\ Items(rest) \subseteq Sends(c)
  BY <1>1, <1>2, ItemsTail DEF Sends
<1>4. Items(replies) = Answers(c) \cup {m}
  BY <1>2, <1>3, ItemsAppend DEF Answers
<1>5. PICK r : r = m
  OBVIOUS
<1>6. /\ running = (IF r.op = "run" THEN children[c].running \cup {r.task}
                    ELSE children[c].running \ {children[c].map[r.user]})
      /\ map = [children[c].map EXCEPT ![r.user] = IF r.op = "run" THEN r.task ELSE 0]
  BY <1>5
<1> HIDE DEF m, running, map, rest, replies
<1>7. /\ w.proc = children[c].proc /\ w.alive = children[c].alive /\ w.told = children[c].told
      /\ w.events = children[c].events /\ w.running = running /\ w.map = map /\ w.ready = children[c].ready
      /\ w.calls = rest /\ w.replies = replies /\ w.lost = children[c].lost
  BY <1>2 DEF Child
<1> HIDE DEF w
<1>8. ChildIds' = ChildIds /\ \A d \in ChildIds : children'[d] = IF d = c THEN w ELSE children[d]
  <2>1. Len(children') = Len(children)
    BY <1>1, <1>2
  <2> QED  BY <1>1, <1>2, <2>1 DEF ChildIds
<1>9. \A d \in Shared : d \in ChildIds
  BY DEF Healthy
<1>10. HandledOne(c, r)
  BY <1>2, <1>3, <1>4, <1>5, <1>6, <1>7, <1>8, <1>9 DEF HandledOne, Sends, Answers
<1> QED  BY <1>3, <1>5, <1>10

\* While a kill of a user is under way no task of the user starts an engine.
LEMMA KillAwaited ==
  ASSUME GInv, Regular, NEW v \in Users, ~AskedAgain(v), NEW s \in TaskIds, tasks[s].user = v,
         tasks[s].at = "killing", NEW t \in TaskIds, tasks[t].user = v
  PROVE  tasks[t].at \notin {"token", "running"}
<1> SUFFICES ASSUME tasks[t].at \in {"token", "running"}
             PROVE  FALSE
  OBVIOUS
<1>1. Begun(tasks[s]) /\ Begun(tasks[t]) /\ s # t
  BY PastFacts
<1>2. tasks[t].op \in Restarts \cup {"boot"}
  BY TaskFacts, StarterFacts DEF OnPlan
<1>3. Locked(s)
  <2>1. Head(tasks[s].todo) = "kill" /\ tasks[s].todo \in Left(tasks[s].op)
    BY TaskFacts DEF OnPlan
  <2>2. Left("boot") = {<<"start">>}
    BY PlanFacts DEF Left
  <2> QED  BY <2>1, <2>2, TodoFacts DEF Locked
<1>4. Locked(t)
  BY <1>3 DEF Regular, BootsDone
<1>5. tasks[t].op \in Restarts
  BY <1>2, <1>4 DEF Locked
<1> QED  BY <1>1, <1>5, NoneElse

LEMMA WorkerHandleDown ==
  ASSUME GInv, DState, NEW c \in Shared, WorkerHandle(c)
  PROVE  DState'
<1>1. UNCHANGED <<up, phase, taskvars, proxies, processes, timers, bounds>>
  BY DEF WorkerHandle
<1>2. Healthy /\ Regular /\ RegularTasks /\ BootsDone /\ RegularEngines /\ RegularWorkers /\ c \in ChildIds
      /\ TypeOK
  BY DEF DState, Regular, Healthy, GInv
<1>3. PICK m \in Call : HandledOne(c, m)
  BY <1>2, HandleIsOne
<1>4. booted
  BY <1>2 DEF Healthy, WorkerHandle
<1>5. UNCHANGED <<tasks, engines, listening, procs, booted>> /\ TaskIds' = TaskIds
  BY <1>1 DEF taskvars, proxies, processes, phase, TaskIds
<1>6. /\ m \in Sends(c) /\ Awaits(m) /\ m.user \in Users /\ m.op \in {"run", "kill"}
      /\ m.op = "run" => /\ m.waits /\ m.task \in TaskIds /\ tasks[m.task].proc = c
                         /\ tasks[m.task].user = m.user /\ tasks[m.task].at = "running"
  <2>1. m \in Sends(c) /\ m.user \in Users /\ m.op \in {"run", "kill"}
    BY <1>3 DEF HandledOne, Call
  <2>2. Awaits(m)
    BY <1>2, <2>1, CallFacts
  <2>3. m.op = "run" => m.waits /\ m.task \in TaskIds /\ tasks[m.task].proc = c
    BY <1>2, <2>1 DEF RegularWorkers
  <2> QED  BY <2>1, <2>2, <2>3 DEF Awaits
<1>7. \A v \in Users : children'[c].map[v] = IF v = m.user THEN (IF m.op = "run" THEN m.task ELSE 0)
                                             ELSE children[c].map[v]
  <2>1. children[c].map \in [Users -> 0..MaxTasks]
    BY <1>2, ChildTyped
  <2> QED  BY <1>3, <2>1 DEF HandledOne
<1>8. \A d \in Shared :
        /\ \A t \in children'[d].running : t \in children[d].running \/ (d = c /\ m.op = "run" /\ t = m.task)
        /\ Sends(d)' \subseteq Sends(d)
        /\ \A r \in Answers(d)' : r \in Answers(d) \/ (d = c /\ r = m)
  BY <1>3 DEF HandledOne, Sends, Answers
<1>9. Healthy'
  <2>1. Lives
    BY <1>1, <1>3, <1>5 DEF Lives, HandledOne
  <2> QED  BY <1>2, <1>4, <2>1, HealthyKeeps
<1>10. \A d \in Shared : children'[d].running \subseteq TaskIds
  BY <1>2, <1>6, <1>8 DEF RegularWorkers
<1>11. Regular'
  <2>1. RegularTasks' /\ BootsDone' /\ RegularEngines'
    BY <1>2, <1>5 DEF RegularTasks, BootsDone, RegularEngines, Locked
  <2>2. RegularWorkers'
    <3> SUFFICES ASSUME NEW d \in Shared
                 PROVE  /\ children'[d].running \subseteq TaskIds'
                        /\ \A v \in Users : children'[d].map[v] # 0 =>
                             children'[d].map[v] \in TaskIds' /\ tasks'[children'[d].map[v]].user = v
                        /\ \A r \in Sends(d)' : r.op = "run" =>
                             r.waits /\ r.task \in TaskIds' /\ tasks'[r.task].proc = d
      BY DEF RegularWorkers
    <3>1. children'[d].running \subseteq TaskIds'
      BY <1>5, <1>10
    <3>2. ASSUME NEW v \in Users, children'[d].map[v] # 0
          PROVE  children'[d].map[v] \in TaskIds' /\ tasks'[children'[d].map[v]].user = v
      <4>1. CASE d # c
        BY <1>2, <1>3, <1>5, <3>2, <4>1 DEF HandledOne, RegularWorkers
      <4>2. CASE d = c /\ v = m.user
        BY <1>5, <1>6, <1>7, <3>2, <4>2
      <4>3. CASE d = c /\ v # m.user
        BY <1>2, <1>5, <1>7, <3>2, <4>3 DEF RegularWorkers
      <4> QED  BY <4>1, <4>2, <4>3
    <3>3. ASSUME NEW r \in Sends(d)', r.op = "run"
          PROVE  r.waits /\ r.task \in TaskIds' /\ tasks'[r.task].proc = d
      BY <1>2, <1>5, <1>8, <3>3 DEF RegularWorkers
    <3> QED  BY <3>1, <3>2, <3>3
  <2> QED  BY <2>1, <2>2 DEF Regular
<1>12. ASSUME NEW v \in Users, v # m.user, Orderly(v)
       PROVE  Orderly(v)'
  <2>1. Stands(v)
    BY <1>5 DEF Stands
  <2>2. \A d \in Shared : \A t \in TaskIds : tasks[t].user = v /\ t \in children'[d].running =>
          t \in children[d].running /\ children'[d].map[v] = children[d].map[v]
    <3> SUFFICES ASSUME NEW d \in Shared, NEW t \in TaskIds, tasks[t].user = v, t \in children'[d].running
                 PROVE  t \in children[d].running /\ children'[d].map[v] = children[d].map[v]
      OBVIOUS
    <3>1. t \in children[d].running
      BY <1>6, <1>8, <1>12
    <3>2. d # c => children'[d] = children[d]
      BY <1>3 DEF HandledOne
    <3> QED  BY <1>7, <1>12, <3>1, <3>2
  <2>3. Untouched(v)
    BY <1>5, <1>8, <1>12, <2>2 DEF Untouched, Sends, Answers
  <2> QED  BY <1>2, <1>10, <1>12, <2>1, <2>3, OrderlyKeeps
<1>13. \A t \in TaskIds : Engaged(t)' => Engaged(t)
  <2> SUFFICES ASSUME NEW t \in TaskIds, Engaged(t)'
               PROVE  Engaged(t)
    OBVIOUS
  <2>1. CASE tasks'[t].at \in {"token", "running"}
    BY <1>5, <2>1 DEF Engaged
  <2>2. CASE \E d \in Shared : t \in children'[d].running
    <3>1. (\E d \in Shared : t \in children[d].running) \/ (m.op = "run" /\ t = m.task)
      BY <1>8, <2>2
    <3> QED  BY <1>6, <3>1 DEF Engaged
  <2> QED  BY <2>1, <2>2 DEF Engaged
<1>14. PICK u \in Users : u = m.user
  BY <1>6
<1>15. ProcOf(u)' = ProcOf(u) /\ (Resting(u) => Resting(u)')
  <2>1. Resting(u) => Resting(u)'
    BY <1>5, <1>13 DEF Resting
  <2>2. ProcOf(u)' = ProcOf(u)
    BY <1>5 DEF ProcOf
  <2> QED  BY <2>1, <2>2
<1>16. ASSUME ~AskedAgain(u), Orderly(u)
       PROVE  Orderly(u)'
  <2>1. \A t \in TaskIds' : tasks'[t].user = u /\ Engaged(t)' => engines'[u] = t
    BY <1>5, <1>13, <1>16 DEF Orderly
  <2>2. ASSUME NEW d \in Shared, NEW t \in children'[d].running, tasks'[t].user = u
        PROVE  tasks'[t].proc = d /\ children'[d].map[u] = t
    <3>0. tasks[t].user = u /\ t \in TaskIds /\ Engaged(t)
      BY <1>5, <1>10, <1>13, <2>2 DEF Engaged
    <3>1. CASE d # c
      <4>1. children'[d] = children[d]
        BY <1>3, <3>1 DEF HandledOne
      <4> QED  BY <1>5, <1>16, <2>2, <3>0, <4>1 DEF Orderly
    <3>2. CASE d = c /\ m.op = "run"
      <4>1. Engaged(m.task) /\ m.task \in TaskIds /\ tasks[m.task].user = u
        BY <1>6, <1>14, <3>2 DEF Engaged
      <4>2. t = m.task
        BY <1>16, <3>0, <4>1 DEF Orderly
      <4> QED  BY <1>5, <1>6, <1>7, <1>14, <3>2, <4>2
    <3>3. CASE d = c /\ m.op = "kill"
      <4>1. t \in children[c].running /\ t # children[c].map[u]
        BY <1>3, <1>14, <2>2, <3>3 DEF HandledOne
      <4> QED  BY <1>16, <3>0, <4>1 DEF Orderly
    <3> QED  BY <1>6, <3>1, <3>2, <3>3
  <2>3. m.op = "kill" => m.waits /\ ProcOf(u) \in {0, c} /\ Resting(u)'
    <3> SUFFICES ASSUME m.op = "kill"
                 PROVE  m.waits /\ ProcOf(u) \in {0, c} /\ Resting(u)'
      OBVIOUS
    <3>1. m.waits /\ ProcOf(u) \in {0, c}
      BY <1>6, <1>14, <1>16 DEF Orderly
    <3>2. m.task \in TaskIds /\ tasks[m.task].user = u /\ tasks[m.task].at = "killing"
      BY <1>6, <1>14, <3>1 DEF Awaits
    <3>3. \A t \in TaskIds : tasks[t].user = u => tasks[t].at \notin {"token", "running"}
      BY <1>2, <1>16, <3>2, KillAwaited
    <3>4. ASSUME NEW t \in TaskIds, tasks[t].user = u, NEW d \in Shared, t \in children'[d].running
          PROVE  FALSE
      <4>1. Engaged(t)
        BY <1>13, <3>4 DEF Engaged
      <4>2. engines[u] = t
        BY <1>16, <3>4, <4>1 DEF Orderly
      <4>3. tasks[t].proc = d /\ children'[d].map[u] = t
        BY <1>5, <2>2, <3>4
      <4>4. t # 0 /\ ProcOf(u) = d /\ d # 0
        BY <1>2, <4>2, <4>3, TaskFacts, SharedProc DEF ProcOf
      <4>5. d = c
        BY <3>1, <4>4
      <4>6. children'[c].map[u] = 0
        BY <1>7, <1>14
      <4> QED  BY <4>3, <4>4, <4>5, <4>6
    <3>5. Resting(u)'
      <4>1. \A t \in TaskIds : tasks[t].user = u => ~Engaged(t)'
        BY <1>5, <3>3, <3>4 DEF Engaged
      <4> QED  BY <1>5, <4>1 DEF Resting
    <3> QED  BY <3>1, <3>5
  <2>4. \A d \in Shared : \A r \in Sends(d)' \cup Answers(d)' :
          r.op = "kill" /\ r.user = u =>
            r.waits /\ ProcOf(u)' \in {0, d} /\ (r \in Answers(d)' => Resting(u)')
    <3> SUFFICES ASSUME NEW d \in Shared, NEW r \in Sends(d)' \cup Answers(d)', r.op = "kill", r.user = u
                 PROVE  r.waits /\ ProcOf(u) \in {0, d} /\ (r \in Answers(d)' => Resting(u)')
      BY <1>15
    <3>1. CASE d = c /\ r = m
      BY <2>3, <3>1
    <3>2. CASE ~(d = c /\ r = m)
      <4>1. r \in Sends(d) \cup Answers(d) /\ (r \in Answers(d)' => r \in Answers(d))
        BY <1>8, <3>2
      <4>2. r.waits /\ ProcOf(u) \in {0, d} /\ (r \in Answers(d) => Resting(u))
        BY <1>16, <4>1 DEF Orderly
      <4> QED  BY <1>15, <4>1, <4>2
    <3> QED  BY <3>1, <3>2
  <2>5. \A t \in TaskIds' : tasks'[t].user = u /\ Past(tasks'[t]) => Resting(u)' /\ ProcOf(u)' = 0
    BY <1>5, <1>15, <1>16 DEF Orderly
  <2> QED  BY <2>1, <2>2, <2>4, <2>5 DEF Orderly
<1>17. ASSUME NEW v \in Users
       PROVE  AskedAgain(v)' \/ Orderly(v)'
  <2>1. CASE AskedAgain(v)
    BY <1>5, <2>1 DEF AskedAgain
  <2>2. CASE ~AskedAgain(v) /\ v # u
    BY <1>12, <1>14, <2>2 DEF DState
  <2>3. CASE ~AskedAgain(v) /\ v = u
    BY <1>16, <2>3 DEF DState
  <2> QED  BY <2>1, <2>2, <2>3
<1> QED  BY <1>9, <1>11, <1>17 DEF DState

-----------------------------------------------------------------------------
(* An answer reaches the master                                            *)

\* Worker c has one answer less.
AnswerTaken(c) ==
  /\ ChildIds' = ChildIds
  /\ \A d \in Shared :
       /\ children'[d].proc = children[d].proc /\ children'[d].alive = children[d].alive
       /\ children'[d].told = children[d].told /\ children'[d].lost = children[d].lost
       /\ children'[d].events = children[d].events /\ children'[d].ready = children[d].ready
       /\ children'[d].running = children[d].running /\ children'[d].map = children[d].map
       /\ children'[d].calls = children[d].calls
       /\ Items(children'[d].replies) \subseteq Answers(d)

LEMMA TakenIsOne ==
  ASSUME GInv, Healthy, NEW c \in Shared, children[c].replies # <<>>,
         children' = [children EXCEPT ![c].replies = Tail(@)]
  PROVE  AnswerTaken(c)
<1> DEFINE rest == Tail(children[c].replies)
           w == [children[c] EXCEPT !.replies = rest]
<1>1. /\ c \in ChildIds /\ children[c] \in Child /\ children[c].replies \in Seq(Call)
      /\ children \in Seq(Child)
  BY ChildTyped DEF Healthy, GInv, TypeOK
<1>2. children' = [children EXCEPT ![c] = w]
  OBVIOUS
<1>3. Items(rest) \subseteq Answers(c)
  BY <1>1, ItemsTail DEF Answers
<1> HIDE DEF rest
<1>4. /\ w.proc = children[c].proc /\ w.alive = children[c].alive /\ w.told = children[c].told
      /\ w.events = children[c].events /\ w.running = children[c].running /\ w.map = children[c].map
      /\ w.ready = children[c].ready /\ w.calls = children[c].calls /\ w.replies = rest
      /\ w.lost = children[c].lost
  BY <1>1 DEF Child
<1> HIDE DEF w
<1>5. ChildIds' = ChildIds /\ \A d \in ChildIds : children'[d] = IF d = c THEN w ELSE children[d]
  <2>1. Len(children') = Len(children)
    BY <1>1, <1>2
  <2> QED  BY <1>1, <1>2, <2>1 DEF ChildIds
<1>6. \A d \in Shared : d \in ChildIds
  BY DEF Healthy
<1> QED  BY <1>3, <1>4, <1>5, <1>6 DEF AnswerTaken, Answers

\* The listeners that hear that the engine of user u is gone from process p.
LEMMA RemovedFacts ==
  ASSUME GInv, Regular, NEW p \in Shared, NEW u \in Users, EmitEngineRemoved(p, u)
  PROVE  /\ \A v \in Users : v # u => engines'[v] = engines[v]
         /\ engines'[u] \in {0, engines[u]}
         /\ ProcOf(u) \in {0, p} => engines'[u] = 0
         /\ \A v \in Users : engines'[v] # 0 => engines'[v] \in listening'
<1> DEFINE heard == {t \in listening : tasks[t].proc = p /\ tasks[t].user = u}
<1>1. /\ listening' = listening \ heard
      /\ engines' = IF engines[u] \in heard THEN [engines EXCEPT ![u] = 0] ELSE engines
  BY DEF EmitEngineRemoved
<1>2. \A t : t \in heard <=> t \in listening /\ tasks[t].proc = p /\ tasks[t].user = u
  OBVIOUS
<1> HIDE DEF heard
<1>3. engines \in [Users -> 0..Len(tasks)] /\ RegularEngines
  BY DEF GInv, TypeOK, Regular
<1>4. \A v \in Users : v # u => engines'[v] = engines[v]
  BY <1>1, <1>3
<1>5. engines'[u] = IF engines[u] \in heard THEN 0 ELSE engines[u]
  BY <1>1, <1>3
<1>6. ASSUME ProcOf(u) \in {0, p}
      PROVE  engines'[u] = 0
  <2>1. CASE engines[u] = 0
    BY <1>5, <2>1
  <2>2. CASE engines[u] # 0
    <3>1. ProcOf(u) # 0
      BY <2>2, ProcRegular
    <3>2. tasks[engines[u]].proc = p
      BY <1>6, <2>2, <3>1 DEF ProcOf
    <3>3. engines[u] \in heard
      BY <1>2, <1>3, <2>2, <3>2 DEF RegularEngines
    <3> QED  BY <1>5, <3>3
  <2> QED  BY <2>1, <2>2
<1>7. ASSUME NEW v \in Users, engines'[v] # 0
      PROVE  engines'[v] \in listening'
  <2>1. engines'[v] = engines[v] /\ (v = u => engines[v] \notin heard)
    BY <1>4, <1>5, <1>7
  <2>2. engines[v] \in listening /\ tasks[engines[v]].user = v
    BY <1>3, <1>7, <2>1 DEF RegularEngines
  <2>3. engines[v] \notin heard
    BY <1>2, <2>1, <2>2
  <2> QED  BY <1>1, <2>1, <2>2, <2>3
<1> QED  BY <1>4, <1>5, <1>6, <1>7

\* The task whose call came back goes on.
LEMMA ReturnedFacts ==
  ASSUME GInv, Regular, NEW m \in Call, m.waits, Awaits(m), Step(m.task, Advanced(tasks[m.task]))
  PROVE  /\ TasksGo /\ SameTasks /\ m.task \in TaskIds
         /\ \A s \in TaskIds : s # m.task => tasks'[s] = tasks[s]
         /\ tasks'[m.task].at \in {"idle", "done"}
         /\ m.op = "run" => ~Past(tasks'[m.task])
<1>0. PICK t : t = m.task
  OBVIOUS
<1>1. /\ t \in TaskIds /\ tasks[t].at \in {"running", "killing"} /\ m.op \in {"run", "kill"}
      /\ m.op = "run" => tasks[t].at = "running"
  BY <1>0 DEF Awaits, Call
<1>2. tasks[t] \in Task /\ OnPlan(tasks[t]) /\ Begun(tasks[t])
  BY <1>1, TaskFacts, PastFacts
<1>3. PICK new : new = Advanced(tasks[t])
  OBVIOUS
<1>4. /\ Follows(new, tasks[t]) /\ new.proc = tasks[t].proc
      /\ new.at = IF Len(tasks[t].todo) = 1 THEN "done" ELSE "idle"
  BY <1>1, <1>2, <1>3, AdvancedFollows
<1>5. Step(t, new)
  BY <1>0, <1>3
<1>6. TasksGo /\ \A s \in TaskIds : tasks'[s] = IF s = t THEN new ELSE tasks[s]
  BY <1>1, <1>2, <1>4, <1>5, StepGoes
<1>7. SameTasks
  BY <1>4, <1>6 DEF SameTasks, TasksGo, Follows
<1>8. ASSUME m.op = "run"
      PROVE  ~Past(new)
  <2>1. Head(tasks[t].todo) = "start" /\ tasks[t].todo \in Left(tasks[t].op) /\ tasks[t].at # "done"
    BY <1>1, <1>2, <1>8 DEF OnPlan
  <2>2. tasks[t].op \in Restarts \cup {"boot"}
    BY <1>1, <2>1, StarterFacts
  <2>3. Len(tasks[t].todo) = 1
    <3>1. CASE tasks[t].op = "restartUser"
      <4>1. tasks[t].todo \in {<<"kill", "start">>, <<"start">>}
        BY <2>1, <3>1, PlanFacts DEF Left
      <4> QED  BY <2>1, <4>1, TodoFacts
    <3>2. CASE tasks[t].op = "restartUserWithoutCache"
      <4>1. tasks[t].todo \in {<<"kill", "rm", "start">>, <<"rm", "start">>, <<"start">>}
        BY <2>1, <3>2, PlanFacts DEF Left
      <4> QED  BY <2>1, <4>1, TodoFacts
    <3>3. CASE tasks[t].op = "boot"
      BY <2>1, <3>3, PlanFacts, TodoFacts DEF Left
    <3> QED  BY <2>2, <3>1, <3>2, <3>3 DEF Restarts
  <2>4. new.at = "done" /\ new.op # "deleteUser"
    BY <1>4, <2>2, <2>3 DEF Follows, Restarts
  <2> QED  BY <2>4 DEF Past
<1> QED  BY <1>0, <1>1, <1>4, <1>6, <1>7, <1>8

LEMMA ReplyDown ==
  ASSUME GInv, DState, NEW c \in Shared, Reply(c)
  PROVE  DState'
<1> DEFINE h == Head(children[c].replies)
<1>1. /\ children[c].replies # <<>> /\ children' = [children EXCEPT ![c].replies = Tail(@)]
      /\ CallReturns(c, h, TRUE)
  BY DEF Reply
<1>2. Healthy /\ Regular /\ RegularTasks /\ BootsDone /\ RegularEngines /\ RegularWorkers /\ c \in ChildIds
      /\ TypeOK /\ children[c].proc = c /\ booted
  BY <1>1 DEF DState, Regular, Healthy, GInv
<1>3. h \in Call /\ h \in Answers(c)
  BY <1>1, <1>2, CallFacts, ItemsTail DEF Answers
<1>4. PICK m \in Call : m = h
  BY <1>3
<1>5. /\ IF m.op = "kill" THEN EmitEngineRemoved(c, m.user) ELSE UNCHANGED <<listening, engines>>
      /\ IF m.waits THEN Step(m.task, Advanced(tasks[m.task])) ELSE UNCHANGED <<tasks, lockTail, up>>
      /\ UNCHANGED <<phase, processes, timers, bounds>>
  BY <1>1, <1>2, <1>4 DEF CallReturns
<1> HIDE DEF h
<1>6. m \in Answers(c) /\ Awaits(m) /\ m.user \in Users /\ m.op \in {"run", "kill"}
  BY <1>2, <1>3, <1>4, CallFacts DEF Call
<1>7. PICK u \in Users : u = m.user
  BY <1>6
<1>8. AnswerTaken(c)
  BY <1>1, <1>2, TakenIsOne
<1>9. /\ TasksGo /\ SameTasks
      /\ m.waits => m.task \in TaskIds /\ tasks[m.task].user = u
      /\ \A s \in TaskIds :
           \/ tasks'[s] = tasks[s]
           \/ /\ m.waits /\ s = m.task /\ tasks'[s].at \in {"idle", "done"}
              /\ m.op = "run" => ~Past(tasks'[s])
  <2>1. CASE m.waits
    BY <1>2, <1>5, <1>6, <1>7, <2>1, ReturnedFacts DEF Awaits
  <2>2. CASE ~m.waits
    <3>1. UNCHANGED <<tasks, lockTail>>
      BY <1>5, <2>2
    <3> QED  BY <2>2, <3>1, TasksStand DEF SameTasks, TaskIds
  <2> QED  BY <2>1, <2>2
<1>10. /\ \A v \in Users : v # u => engines'[v] = engines[v]
       /\ engines'[u] \in {0, engines[u]}
       /\ m.op = "kill" /\ ProcOf(u) \in {0, c} => engines'[u] = 0
       /\ m.op = "run" => engines'[u] = engines[u]
       /\ \A v \in Users : engines'[v] # 0 => engines'[v] \in listening'
  <2>1. CASE m.op = "kill"
    BY <1>2, <1>5, <1>7, <2>1, RemovedFacts
  <2>2. CASE m.op = "run"
    BY <1>2, <1>5, <2>2 DEF RegularEngines
  <2> QED  BY <1>6, <2>1, <2>2
<1>11. Healthy'
  <2>1. Lives
    BY <1>5, <1>8 DEF Lives, AnswerTaken, phase, processes
  <2> QED  BY <1>2, <2>1, HealthyKeeps
<1>12. \A d \in Shared : children'[d].running = children[d].running /\ children'[d].map = children[d].map
                         /\ Sends(d)' = Sends(d) /\ Answers(d)' \subseteq Answers(d)
  BY <1>8 DEF AnswerTaken, Sends, Answers
<1>13. \A d \in Shared : children'[d].running \subseteq TaskIds
  BY <1>2, <1>12 DEF RegularWorkers
<1>14. Regular'
  <2>1. RegularTasks'
    <3>1. \A s \in TaskIds : /\ tasks'[s].at # "waiting"
                             /\ tasks'[s].at \in {"token", "running"} => tasks[s].at \in {"token", "running"}
      BY <1>2, <1>9 DEF RegularTasks
    <3> QED  BY <1>2, <1>9, <3>1 DEF RegularTasks, SameTasks
  <2>2. BootsDone'
    BY <1>2, <1>9, BootsKeep
  <2>3. RegularEngines'
    <3> SUFFICES ASSUME NEW v \in Users, engines'[v] # 0
                 PROVE  engines'[v] \in listening' /\ tasks'[engines'[v]].user = v
                        /\ tasks'[engines'[v]].proc \in Shared
      BY DEF RegularEngines
    <3>1. engines'[v] = engines[v] /\ engines'[v] \in listening'
      BY <1>10
    <3>2. engines[v] \in TaskIds /\ tasks[engines[v]].user = v /\ tasks[engines[v]].proc \in Shared
      BY <1>2, <3>1, ProcRegular DEF RegularEngines
    <3> QED  BY <1>9, <3>1, <3>2 DEF SameTasks
  <2>4. RegularWorkers'
    <3>1. \A d \in Shared :
            /\ children'[d].running = children[d].running /\ children'[d].map = children[d].map
            /\ \A r \in Items(children'[d].calls) : r.op = "run" =>
                 r \in Sends(d) \/ (r.waits /\ r.task \in TaskIds /\ tasks[r.task].proc = d)
      BY <1>12 DEF Sends
    <3> QED  BY <1>2, <1>9, <3>1, HandlersKeep
  <2> QED  BY <2>1, <2>2, <2>3, <2>4 DEF Regular
<1>15. \A v : Stands(v)
  BY <1>9 DEF Stands, SameTasks
<1>16. ASSUME NEW v \in Users, Orderly(v), v # u \/ m.op = "run"
       PROVE  Orderly(v)'
  <2>1. engines'[v] = engines[v]
    BY <1>10, <1>16
  <2>2. ASSUME NEW s \in TaskIds, tasks[s].user = v
        PROVE  /\ tasks'[s].at \in {"token", "running"} => tasks[s].at \in {"token", "running"}
               /\ Past(tasks'[s]) => Past(tasks[s])
    <3>1. tasks'[s] = tasks[s] \/ (tasks'[s].at \in {"idle", "done"} /\ m.op = "run" /\ ~Past(tasks'[s]))
      BY <1>9, <1>16, <2>2
    <3> QED  BY <3>1
  <2>3. Untouched(v)
    BY <1>12, <2>1, <2>2 DEF Untouched, Sends, Answers
  <2> QED  BY <1>2, <1>13, <1>15, <1>16, <2>3, OrderlyKeeps
<1>17. ASSUME Orderly(u), m.op = "kill"
       PROVE  Orderly(u)'
  <2>1. m.waits /\ ProcOf(u) \in {0, c} /\ Resting(u)
    BY <1>6, <1>7, <1>17 DEF Orderly
  <2>2. engines'[u] = 0 /\ ProcOf(u)' = 0
    BY <1>10, <1>17, <2>1 DEF ProcOf
  <2>3. \A s \in TaskIds : tasks[s].user = u => ~Engaged(s)'
    <3>1. \A s \in TaskIds : tasks'[s].at \in {"token", "running"} => tasks[s].at \in {"token", "running"}
      BY <1>9
    <3> QED  BY <1>12, <2>1, <3>1 DEF Resting, Engaged
  <2>4. Resting(u)'
    BY <1>9, <2>3 DEF Resting, SameTasks
  <2>5. \A d \in Shared : \A s \in children'[d].running : tasks'[s].user # u
    <3>1. \A d \in Shared : \A s \in children'[d].running : s \in TaskIds /\ Engaged(s)'
      BY <1>13 DEF Engaged
    <3> QED  BY <1>9, <2>3, <3>1 DEF SameTasks
  <2>6. \A d \in Shared : \A r \in Sends(d)' \cup Answers(d)' : r.op = "kill" /\ r.user = u => r.waits
    BY <1>12, <1>17 DEF Orderly
  <2>7. \A s \in TaskIds' : tasks'[s].user = u => ~Engaged(s)'
    BY <1>9, <2>3 DEF SameTasks
  <2> QED  BY <2>2, <2>4, <2>5, <2>6, <2>7 DEF Orderly
<1>18. ASSUME NEW v \in Users
       PROVE  AskedAgain(v)' \/ Orderly(v)'
  <2>1. CASE AskedAgain(v)
    BY <1>9, <2>1, GoneAsked
  <2>2. CASE ~AskedAgain(v) /\ (v # u \/ m.op = "run")
    BY <1>16, <2>2 DEF DState
  <2>3. CASE ~AskedAgain(v) /\ v = u /\ m.op = "kill"
    BY <1>17, <2>3 DEF DState
  <2> QED  BY <1>6, <2>1, <2>2, <2>3
<1> QED  BY <1>11, <1>14, <1>18 DEF DState

-----------------------------------------------------------------------------
(* The beginning                                                           *)

LEMMA NothingYet == Healthy /\ ~booted => DState
<1> SUFFICES ASSUME Healthy, ~booted
             PROVE  DState
  OBVIOUS
<1>1. /\ tasks = <<>> /\ \A u \in Users : engines[u] = 0
      /\ \A c \in Shared :
           /\ children[c].running = {} /\ children[c].calls = <<>> /\ children[c].replies = <<>>
           /\ \A u \in Users : children[c].map[u] = 0
  BY DEF Healthy
<1>2. TaskIds = {} /\ \A c \in Shared : Sends(c) = {} /\ Answers(c) = {}
  BY <1>1 DEF TaskIds, Sends, Answers, Items
<1>3. Regular
  BY <1>1, <1>2 DEF Regular, RegularTasks, BootsDone, RegularEngines, RegularWorkers
<1>4. \A u \in Users : Orderly(u)
  BY <1>1, <1>2 DEF Orderly
<1> QED  BY <1>3, <1>4 DEF DState

LEMMA InitDown ==
  ASSUME Init
  PROVE  DState
<1>1. /\ ~booted /\ tasks = <<>> /\ (\A u \in Users : engines[u] = 0 /\ timers[u] = 0)
      /\ DOMAIN procs = 1..(NProcs + MaxTasks)
  BY DEF Init
<1>2. ChildIds = Shared
  BY ProcAssumption DEF Init, ChildIds, Shared
<1>3. \A c \in Shared : children[c] = NewChild(c) /\ procs[c] = Spawned(c)
  <2>1. Shared \subseteq 1..(NProcs + MaxTasks)
    BY ProcAssumption, EngineBoundAssumption DEF Shared
  <2> QED  BY <2>1 DEF Init
<1>4. \A p \in DOMAIN procs : procs[p].dying = "no"
  BY <1>1 DEF Init, Spawned, NoProcess
<1>5. \A c :
        /\ Spawned(c).sock = c /\ Spawned(c).starting = "child"
        /\ NewChild(c).proc = c /\ NewChild(c).alive = TRUE /\ NewChild(c).told = FALSE
        /\ NewChild(c).ready = FALSE /\ NewChild(c).lost = <<>> /\ NewChild(c).events = {}
        /\ NewChild(c).running = {} /\ NewChild(c).calls = <<>> /\ NewChild(c).replies = <<>>
        /\ NewChild(c).map = [u \in Users |-> 0]
  BY DEF Spawned, NewChild
<1>6. \A c \in Shared :
        /\ procs[c].sock = c /\ procs[c].starting = "child"
        /\ children[c].proc = c /\ children[c].alive /\ ~children[c].told /\ ~children[c].ready
        /\ children[c].lost = <<>> /\ children[c].events = {}
        /\ children[c].running = {} /\ children[c].calls = <<>> /\ children[c].replies = <<>>
        /\ \A u \in Users : children[c].map[u] = 0
  BY <1>3, <1>5
<1>7. Healthy
  BY <1>1, <1>2, <1>4, <1>6 DEF Healthy
<1> QED  BY <1>1, <1>7, NothingYet

LEMMA ChildReadyDown ==
  ASSUME GInv, DState, NEW c \in Shared, ChildReady(c)
  PROVE  DState'
<1>1. Healthy /\ c \in ChildIds /\ children[c] \in Child /\ children[c].proc = c /\ TypeOK
  BY ChildTyped DEF DState, Healthy, GInv
<1>2. ~children[c].ready /\ children' = [children EXCEPT ![c].ready = TRUE]
      /\ procs' = [procs EXCEPT ![c].starting = "none"]
      /\ UNCHANGED <<phase, engines, timers>>
  BY <1>1 DEF ChildReady
<1>3. ~booted /\ ~booted'
  BY <1>1, <1>2 DEF Healthy, phase
<1>4. tasks' = <<>>
  <2>1. GInv'
    BY <1>1, ChildReadyGoes
  <2> QED  BY <1>3, <2>1 DEF GInv, Young
<1> DEFINE w == [children[c] EXCEPT !.ready = TRUE]
           q == [procs[c] EXCEPT !.starting = "none"]
<1>5. children' = [children EXCEPT ![c] = w] /\ procs' = [procs EXCEPT ![c] = q]
  BY <1>2
<1>6. /\ w.proc = children[c].proc /\ w.alive = children[c].alive /\ w.told = children[c].told
      /\ w.events = children[c].events /\ w.running = children[c].running /\ w.map = children[c].map
      /\ w.calls = children[c].calls /\ w.replies = children[c].replies /\ w.lost = children[c].lost
  BY <1>1 DEF Child
<1>7. c \in DOMAIN procs /\ procs[c] \in Process
  <2>1. c \in 1..(NProcs + MaxTasks)
    BY ProcAssumption, EngineBoundAssumption DEF Shared
  <2> QED  BY <1>1, <2>1 DEF TypeOK
<1>8. q.sock = procs[c].sock /\ q.starting = "none" /\ q.dying = procs[c].dying
  BY <1>7 DEF Process
<1> HIDE DEF w, q
<1>9. ChildIds' = ChildIds /\ \A d \in ChildIds : children'[d] = IF d = c THEN w ELSE children[d]
  <2>1. children \in Seq(Child) /\ Len(children') = Len(children)
    BY <1>1, <1>5 DEF TypeOK
  <2> QED  BY <1>1, <1>5, <2>1 DEF ChildIds
<1>10. DOMAIN procs' = DOMAIN procs /\ \A p \in DOMAIN procs : procs'[p] = IF p = c THEN q ELSE procs[p]
  BY <1>5, <1>7
<1>11. \A d \in Shared : d \in DOMAIN procs /\ d \in ChildIds
  <2>1. Shared \subseteq 1..(NProcs + MaxTasks)
    BY ProcAssumption, EngineBoundAssumption DEF Shared
  <2> QED  BY <1>1, <2>1 DEF Healthy, TypeOK
<1>12. \A d \in Shared :
         /\ children'[d].proc = d /\ children'[d].alive /\ ~children'[d].told
         /\ children'[d].lost = <<>> /\ children'[d].events = {}
         /\ procs'[d].sock = d /\ procs'[d].starting \in {"none", "child"}
         /\ children'[d].ready => procs'[d].starting = "none"
         /\ children'[d].running = {} /\ children'[d].calls = <<>> /\ children'[d].replies = <<>>
         /\ \A u \in Users : children'[d].map[u] = 0
  <2> SUFFICES ASSUME NEW d \in Shared
               PROVE  /\ children'[d].proc = d /\ children'[d].alive /\ ~children'[d].told
                      /\ children'[d].lost = <<>> /\ children'[d].events = {}
                      /\ procs'[d].sock = d /\ procs'[d].starting \in {"none", "child"}
                      /\ children'[d].ready => procs'[d].starting = "none"
                      /\ children'[d].running = {} /\ children'[d].calls = <<>> /\ children'[d].replies = <<>>
                      /\ \A u \in Users : children'[d].map[u] = 0
    OBVIOUS
  <2>1. CASE d = c
    <3>1. children'[d] = w /\ procs'[d] = q
      BY <1>9, <1>10, <1>11, <2>1
    <3> QED  BY <1>1, <1>3, <1>6, <1>8, <2>1, <3>1 DEF Healthy
  <2>2. CASE d # c
    <3>1. children'[d] = children[d] /\ procs'[d] = procs[d]
      BY <1>9, <1>10, <1>11, <2>2
    <3> QED  BY <1>1, <1>3, <3>1 DEF Healthy
  <2> QED  BY <2>1, <2>2
<1>13. \A p \in DOMAIN procs' : procs'[p].dying = "no"
  BY <1>1, <1>8, <1>10 DEF Healthy
<1>14. Healthy'
  <2>1. \A u \in Users : timers'[u] = 0 /\ engines'[u] = 0
    BY <1>1, <1>2, <1>3 DEF Healthy
  <2> QED  BY <1>1, <1>3, <1>4, <1>9, <1>12, <1>13, <2>1 DEF Healthy
<1> QED  BY <1>3, <1>14, NothingYet, PTL

LEMMA BootDown ==
  ASSUME DeletionOnly, GInv, DState, Boot
  PROVE  DState'
<1>1. Healthy /\ TypeOK /\ Dedicated = {}
  BY DEF DState, GInv, DeletionOnly
<1>2. /\ ~booted /\ booted' = TRUE /\ timers' = timers
      /\ engines' = [u \in Users |-> u] /\ TaskIds' = Users
      /\ procs' = procs /\ children' = children /\ ChildIds' = ChildIds
  BY <1>1, BootShared
<1>3. \A c \in Shared : children[c].ready /\ procs[c].starting = "none"
  BY <1>1 DEF Boot, Healthy
<1>4. \A u \in Users : /\ tasks'[u].op = "boot" /\ tasks'[u].user = u /\ tasks'[u].at \in {"token", "waiting", "done"}
                       /\ tasks'[u].proc \in Shared /\ u \in listening' /\ u # 0
  BY <1>1, <1>3, BootShared
<1>5. \A u \in Users : tasks'[u].at = "token"
  <2>1. \A u \in Users : tasks'[u] = StartAt(u) /\ procs[SlotAt(u)].starting = "none"
    BY <1>1, <1>3, BootShared
  <2>2. ASSUME NEW u \in Users
        PROVE  StartAt(u).at = "token"
    <3>1. StartAt(u) = [NewTask("boot", u, 0) EXCEPT !.at = "token", !.target = SlotAt(u), !.proc = SlotAt(u)]
      BY <2>1 DEF StartAt, RunTask
    <3> QED  BY <3>1 DEF NewTask
  <2> QED  BY <2>1, <2>2
<1>6. \A c \in Shared :
        /\ children'[c].running = {} /\ (\A u \in Users : children'[c].map[u] = 0)
        /\ Sends(c)' = {} /\ Answers(c)' = {}
  BY <1>1, <1>2 DEF Healthy, Sends, Answers, Items
<1>7. Healthy'
  BY <1>1, <1>2, <1>3 DEF Healthy
<1>8. Regular'
  <2>1. RegularTasks'
    BY <1>2, <1>4, <1>5 DEF RegularTasks
  <2>2. BootsDone'
    BY <1>2, <1>4 DEF BootsDone, Locked
  <2>3. RegularEngines'
    BY <1>2, <1>4 DEF RegularEngines
  <2>4. RegularWorkers'
    BY <1>6 DEF RegularWorkers
  <2> QED  BY <2>1, <2>2, <2>3, <2>4 DEF Regular
<1>9. ASSUME NEW u \in Users
      PROVE  Orderly(u)'
  <2>1. \A t \in TaskIds' : tasks'[t].user = u => engines'[u] = t /\ ~Past(tasks'[t])
    <3>1. \A t \in Users : tasks'[t].user = t /\ ~Past(tasks'[t])
      BY <1>4 DEF Past
    <3> QED  BY <1>2, <3>1
  <2> QED  BY <1>6, <2>1 DEF Orderly
<1> QED  BY <1>7, <1>8, <1>9 DEF DState

-----------------------------------------------------------------------------
(* A new operation                                                         *)

LEMMA WebCallDown ==
  ASSUME DeletionOnly, GInv, DState, NEW op, NEW u \in Users, WebCall(op, u)
  PROVE  DState'
<1>1. /\ op \in DeletionOps /\ Acquire(op, u) /\ booted
      /\ \A b \in TaskIds : ~Locked(b) => tasks[b].at = "done"
      /\ UNCHANGED <<booted, proxies, processes, children, timers>>
  BY DEF WebCall, CallsAllowed, DeletionOnly, Locked, phase
<1>2. Healthy /\ Regular /\ RegularTasks /\ BootsDone /\ RegularEngines /\ RegularWorkers /\ TypeOK
  BY DEF DState, Regular, GInv
<1>3. PICK n, new :
        /\ n = Len(tasks) + 1 /\ n \notin TaskIds /\ TaskIds' = TaskIds \cup {n}
        /\ new.op = op /\ new.user = u /\ new.at = "idle"
        /\ (\A t \in TaskIds : tasks'[t] = tasks[t]) /\ tasks'[n] = new
  BY <1>1, <1>2, AcquireFacts
<1>4. new.todo = Plan[op]
  <2>1. tasks' = Append(tasks, NewTask(op, u, lockTail[u]))
    BY <1>1 DEF Acquire
  <2>2. tasks'[n] = NewTask(op, u, lockTail[u])
    BY <1>2, <1>3, <2>1 DEF TypeOK
  <2> QED  BY <1>3, <2>2 DEF NewTask
<1>5. ~Past(new) /\ op # "boot"
  BY <1>1, <1>3, <1>4 DEF Past, DeletionOps, SharedOps
<1>6. \A v \in Users : engines'[v] = engines[v] /\ (engines[v] # 0 => engines[v] \in TaskIds)
  BY <1>1, <1>2, ProcRegular DEF proxies
<1>7. \A c \in Shared : /\ children'[c] = children[c] /\ Sends(c)' = Sends(c) /\ Answers(c)' = Answers(c)
                        /\ children[c].running \subseteq TaskIds
  BY <1>1, <1>2 DEF Sends, Answers, RegularWorkers
<1>8. Healthy'
  <2>1. Lives
    BY <1>1 DEF Lives, ChildIds, processes
  <2> QED  BY <1>1, <1>2, <2>1, HealthyKeeps
<1>9. Regular'
  <2>1. RegularTasks'
    BY <1>1, <1>2, <1>3 DEF RegularTasks
  <2>2. BootsDone'
    <3>1. \A b \in TaskIds' : ~Locked(b)' => b \in TaskIds /\ ~Locked(b)
      BY <1>3, <1>5 DEF Locked
    <3> QED  BY <1>1, <1>3, <3>1 DEF BootsDone
  <2>3. RegularEngines'
    BY <1>1, <1>2, <1>3, <1>6 DEF RegularEngines, proxies
  <2>4. RegularWorkers'
    <3> SUFFICES ASSUME NEW c \in Shared
                 PROVE  /\ children'[c].running \subseteq TaskIds'
                        /\ \A v \in Users : children'[c].map[v] # 0 =>
                             children'[c].map[v] \in TaskIds' /\ tasks'[children'[c].map[v]].user = v
                        /\ \A m \in Sends(c)' : m.op = "run" =>
                             m.waits /\ m.task \in TaskIds' /\ tasks'[m.task].proc = c
      BY DEF RegularWorkers
    <3>1. children'[c].running \subseteq TaskIds'
      BY <1>3, <1>7
    <3>2. \A v \in Users : children'[c].map[v] # 0 =>
             children'[c].map[v] \in TaskIds' /\ tasks'[children'[c].map[v]].user = v
      BY <1>2, <1>3, <1>7 DEF RegularWorkers
    <3>3. \A m \in Sends(c)' : m.op = "run" =>
             m.waits /\ m.task \in TaskIds' /\ tasks'[m.task].proc = c
      BY <1>2, <1>3, <1>7 DEF RegularWorkers
    <3> QED  BY <3>1, <3>2, <3>3
  <2> QED  BY <2>1, <2>2, <2>3, <2>4 DEF Regular
<1>10. ASSUME NEW v \in Users, Orderly(v)
       PROVE  Orderly(v)'
  <2>1. \A t \in TaskIds : Engaged(t)' <=> Engaged(t)
    BY <1>3, <1>7 DEF Engaged
  <2>2. ~Engaged(n)'
    BY <1>3, <1>7 DEF Engaged
  <2>3. Resting(v) => Resting(v)'
    BY <1>3, <2>1, <2>2 DEF Resting
  <2>4. ProcOf(v)' = ProcOf(v)
    BY <1>3, <1>6 DEF ProcOf
  <2>5. \A t \in TaskIds' : tasks'[t].user = v /\ Engaged(t)' => engines'[v] = t
    BY <1>3, <1>6, <1>10, <2>1, <2>2 DEF Orderly
  <2>6. \A c \in Shared : \A t \in children'[c].running :
          tasks'[t].user = v => tasks'[t].proc = c /\ children'[c].map[v] = t
    BY <1>3, <1>7, <1>10 DEF Orderly
  <2>7. \A c \in Shared : \A m \in Sends(c)' \cup Answers(c)' :
          m.op = "kill" /\ m.user = v =>
            m.waits /\ ProcOf(v)' \in {0, c} /\ (m \in Answers(c)' => Resting(v)')
    <3> SUFFICES ASSUME NEW c \in Shared, NEW m \in Sends(c) \cup Answers(c), m.op = "kill", m.user = v
                 PROVE  m.waits /\ ProcOf(v) \in {0, c} /\ (m \in Answers(c) => Resting(v))
      BY <1>7, <2>3, <2>4
    <3> QED  BY <1>10 DEF Orderly
  <2>8. \A t \in TaskIds' : tasks'[t].user = v /\ Past(tasks'[t]) => Resting(v)' /\ ProcOf(v)' = 0
    BY <1>3, <1>5, <1>10, <2>3, <2>4 DEF Orderly
  <2> QED  BY <2>5, <2>6, <2>7, <2>8 DEF Orderly
<1>11. ASSUME NEW v \in Users
       PROVE  AskedAgain(v)' \/ Orderly(v)'
  <2>1. CASE AskedAgain(v)
    <3>1. TaskIds \subseteq TaskIds'
          /\ \A t \in TaskIds : tasks'[t].user = tasks[t].user /\ tasks'[t].op = tasks[t].op
      BY <1>3
    <3> QED  BY <2>1, <3>1, AskedStays
  <2>2. CASE ~AskedAgain(v)
    BY <1>10, <2>2 DEF DState
  <2> QED  BY <2>1, <2>2
<1> QED  BY <1>8, <1>9, <1>11 DEF DState

-----------------------------------------------------------------------------
(* All steps                                                               *)

LEMMA SameStateDown ==
  ASSUME DState, UNCHANGED <<booted, taskvars, proxies, processes, children, timers>>
  PROVE  DState'
<1>1. UNCHANGED <<booted, tasks, engines, listening, procs, children, timers>>
  BY DEF taskvars, proxies, processes
<1>2. UNCHANGED <<TaskIds, ChildIds>>
  BY <1>1 DEF TaskIds, ChildIds
<1>3. Healthy'
  BY <1>1, <1>2 DEF DState, Healthy
<1>4. Regular'
  BY <1>1, <1>2 DEF DState, Regular, RegularTasks, BootsDone, RegularEngines, RegularWorkers, Locked, Sends
<1>5. ASSUME NEW u \in Users
      PROVE  AskedAgain(u)' \/ Orderly(u)'
  <2>1. AskedAgain(u)' <=> AskedAgain(u)
    BY <1>1, <1>2 DEF AskedAgain
  <2>2. Orderly(u)' <=> Orderly(u)
    BY <1>1, <1>2 DEF Orderly, Engaged, Resting, Past, Sends, Answers, ProcOf
  <2> QED  BY <2>1, <2>2 DEF DState
<1> QED  BY <1>3, <1>4, <1>5 DEF DState

\* How often a worker has died, and which rows are gone.
LEMMA CountsKeep ==
  ASSUME TypeOK, [Next]_vars
  PROVE  /\ crashes' = crashes \/ (crashes' = crashes + 1 /\ \E c \in ChildIds : Crash(c))
         /\ deleted' = deleted \/ \E u \in Users : DeleteRow(u)
<1>1. CASE Boot
  BY <1>1 DEF Boot, bounds
<1>2. CASE \E op \in WebOps, u \in Users : WebCall(op, u)
  BY <1>2 DEF WebCall, phase
<1>3. CASE \E u \in Users : RestartTimer(u) \/ DeleteRow(u)
  BY <1>3 DEF RestartTimer, DeleteRow, phase, bounds
<1>4. CASE KillAllUsers \/ Stop \/ StopDone
  BY <1>4 DEF KillAllUsers, Stop, StopDone, phase, bounds
<1>5. CASE \E t \in TaskIds : TaskStep(t)
  <2>1. PICK t \in TaskIds : TaskStep(t)
    BY <1>5
  <2>2. UNCHANGED <<phase, bounds>>
    BY <2>1 DEF TaskStep, StartStage, CallRunEngine, KillStage, RmStage, RmDone, SendStage
  <2> QED  BY <2>2 DEF phase, bounds
<1>6. CASE \E c \in ChildIds : ChildStep(c) \/ CallFails(c)
  <2>1. PICK c \in ChildIds : ChildStep(c) \/ CallFails(c)
    BY <1>6
  <2>2. UNCHANGED <<phase, bounds>>
    BY <2>1 DEF ChildStep, WorkerHandle, Reply, CallFails, CallReturns, ChildReady, ChildExits, Disconnect, Exit
  <2> QED  BY <2>2 DEF phase, bounds
<1>7. CASE \E c \in ChildIds : Crash(c)
  BY <1>7 DEF Crash, phase
<1>8. CASE \E p \in Shared : StartAgain(p)
  BY <1>8 DEF StartAgain, phase, bounds
<1>9. CASE \E p \in DOMAIN procs : DyingTimeout(p)
  BY <1>9 DEF DyingTimeout, phase
<1>10. CASE UNCHANGED vars
  BY <1>10 DEF vars, phase, bounds
<1> QED  BY <1>1, <1>2, <1>3, <1>4, <1>5, <1>6, <1>7, <1>8, <1>9, <1>10 DEF Next

LEMMA TaskStepDown ==
  ASSUME DeletionOnly, GInv, DState, NEW t \in TaskIds, TaskStep(t)
  PROVE  DState'
BY StartStageDown, CallRunEngineDown, KillStageDown, RmStageDown, RmDoneDown, SendStageDown DEF TaskStep

LEMMA ChildStepDown ==
  ASSUME GInv, DState, NEW c \in ChildIds, ChildStep(c) \/ CallFails(c)
  PROVE  DState'
<1>1. c \in Shared /\ children[c].lost = <<>> /\ ~children[c].told /\ children[c].events = {}
  BY DEF DState, Healthy
<1>2. ~CallFails(c) /\ ~ChildExits(c) /\ ~Disconnect(c) /\ ~Exit(c)
  BY <1>1 DEF CallFails, ChildExits, Disconnect, Exit
<1> QED  BY <1>1, <1>2, WorkerHandleDown, ReplyDown, ChildReadyDown DEF ChildStep

LEMMA DStateKeeps ==
  ASSUME DeletionOnly, GInv, DState, [Next]_vars
  PROVE  DState' \/ \E c \in ChildIds : Crash(c)
<1>1. CASE Boot
  BY <1>1, BootDown
<1>2. CASE \E op \in WebOps, u \in Users : WebCall(op, u)
  BY <1>2, WebCallDown
<1>3. CASE \E u \in Users : RestartTimer(u) \/ DeleteRow(u)
  <2>1. PICK u \in Users : RestartTimer(u) \/ DeleteRow(u)
    BY <1>3
  <2>2. ~RestartTimer(u)
    BY DEF RestartTimer, DState, Healthy
  <2>3. UNCHANGED <<booted, taskvars, proxies, processes, children, timers>>
    BY <2>1, <2>2 DEF DeleteRow
  <2> QED  BY <2>3, SameStateDown
<1>4. CASE KillAllUsers \/ Stop \/ StopDone
  <2>1. "killAllUsers" \notin Ops /\ "stop" \notin Ops
    BY DEF DeletionOnly, DeletionOps, SharedOps
  <2>2. UNCHANGED <<booted, taskvars, proxies, processes, children, timers>>
    BY <1>4, <2>1 DEF KillAllUsers, Stop, StopDone, phase
  <2> QED  BY <2>2, SameStateDown
<1>5. CASE \E t \in TaskIds : TaskStep(t)
  BY <1>5, TaskStepDown
<1>6. CASE \E c \in ChildIds : ChildStep(c) \/ CallFails(c) \/ Crash(c)
  BY <1>6, ChildStepDown
<1>7. CASE \E p \in Shared : StartAgain(p)
  BY <1>7 DEF StartAgain, DState, Healthy
<1>8. CASE \E p \in DOMAIN procs : DyingTimeout(p)
  BY <1>8 DEF DyingTimeout, DState, Healthy
<1>9. CASE UNCHANGED vars
  BY <1>9, SameStateDown DEF vars, phase
<1> QED  BY <1>1, <1>2, <1>3, <1>4, <1>5, <1>6, <1>7, <1>8, <1>9 DEF Next

LEMMA DownInvariance ==
  ASSUME DeletionOnly
  PROVE  Spec => []DInv
<1>1. Init => DInv
  BY InitDown DEF DInv, DState
<1>2. GInv /\ DInv /\ [Next]_vars => DInv'
  <2> SUFFICES ASSUME GInv, DInv, [Next]_vars, crashes' = 0
               PROVE  DState'
    BY DEF DInv, DState
  <2>1. crashes \in Nat
    BY EngineBoundAssumption DEF GInv, TypeOK
  <2>2. crashes' = crashes \/ (crashes' = crashes + 1 /\ \E c \in ChildIds : Crash(c))
    BY CountsKeep DEF GInv
  <2>3. crashes = 0 /\ crashes' # crashes + 1
    BY <2>1, <2>2
  <2>4. DState
    BY <2>3 DEF DInv, DState
  <2>5. \A c \in ChildIds : ~Crash(c)
    BY <2>3 DEF Crash
  <2> QED  BY <2>4, <2>5, DStateKeeps
<1> QED  BY <1>1, <1>2, GInvariance, PTL DEF Spec

\* The website deletes the row of a user after a deleteUser.
Deleters == \A u \in deleted : \E t \in TaskIds :
  tasks[t].op = "deleteUser" /\ tasks[t].user = u /\ tasks[t].at = "done"

LEMMA DeletersKeep ==
  ASSUME GInv, Deleters, [Next]_vars
  PROVE  Deleters'
<1>1. ASSUME NEW u \in deleted
      PROVE  \E t \in TaskIds' : tasks'[t].op = "deleteUser" /\ tasks'[t].user = u /\ tasks'[t].at = "done"
  <2>1. PICK t \in TaskIds : tasks[t].op = "deleteUser" /\ tasks[t].user = u /\ tasks[t].at = "done"
    BY <1>1 DEF Deleters
  <2>2. CASE TasksGo
    BY <2>1, <2>2 DEF TasksGo, Follows
  <2>3. CASE \E op \in WebOps \cup {"timer"}, v \in Users : Acquire(op, v)
    <3>1. TaskIds \subseteq TaskIds' /\ \A s \in TaskIds : tasks'[s] = tasks[s]
      BY <2>3, AcquireFacts DEF GInv
    <3> QED  BY <2>1, <3>1
  <2>4. CASE TaskIds = {}
    BY <2>1, <2>4
  <2> QED  BY <2>2, <2>3, <2>4, NextGoes
<1>2. CASE deleted' = deleted
  BY <1>1, <1>2 DEF Deleters
<1>3. CASE \E u \in Users : DeleteRow(u)
  <2>1. PICK u \in Users : DeleteRow(u)
    BY <1>3
  <2>2. deleted' = deleted \cup {u} /\ UNCHANGED tasks
    BY <2>1 DEF DeleteRow, taskvars
  <2>3. PICK t \in TaskIds : tasks[t].op = "deleteUser" /\ tasks[t].user = u /\ tasks[t].at = "done"
    BY <2>1 DEF DeleteRow
  <2>4. \E s \in TaskIds' : tasks'[s].op = "deleteUser" /\ tasks'[s].user = u /\ tasks'[s].at = "done"
    BY <2>2, <2>3 DEF TaskIds
  <2> QED  BY <1>1, <2>2, <2>4 DEF Deleters
<1> QED  BY <1>2, <1>3, CountsKeep DEF GInv
-----------------------------------------------------------------------------
(* The theorems                                                            *)

\* Every reachable state of the master and its workers has its type, whatever
\* operations the website calls and whenever, with shared and dedicated
\* processes, killAllUsers, stop, crashes and workers that do not die in time.
\* The bounds on tasks and workers are part of it, and that an entry of
\* _engines, of _locks and of the listeners is a task that exists.
THEOREM EnginesTypeCorrect == Spec => []TypeOK
<1>1. GInv => TypeOK
  BY DEF GInv
<1> QED  BY <1>1, GInvariance, PTL

\* kill, restart, crashes of workers, restarts of workers and the 10 s timers,
\* in any order and for any number of users and workers, never leave a user
\* with two engines (enginemanager.ts: _runUser, _killUserLocked, the die
\* listener).
THEOREM OneEngineAtATime ==
  ASSUME SharedOnly
  PROVE  Spec => []SingleEngine
<1>1. IInv => SingleEngine
  <2> SUFFICES ASSUME IInv, NEW u \in Users
               PROVE  Cardinality({t \in EnginesOf(u) : \E c \in RunningIn(u) : t \in children[c].running}) <= 1
    BY DEF SingleEngine
  <2> DEFINE S == {t \in EnginesOf(u) : \E c \in RunningIn(u) : t \in children[c].running}
  <2>1. S \subseteq {engines[u]}
    <3>1. ASSUME NEW t \in S
          PROVE  t = engines[u]
      <4>1. t \in TaskIds /\ tasks[t].user = u /\ Runs(t)
        BY <3>1 DEF EnginesOf, Runs
      <4> QED  BY <4>1 DEF IInv, Known, Live
    <3> QED  BY <3>1
  <2> HIDE DEF S
  <2>2. IsFiniteSet({engines[u]}) /\ Cardinality({engines[u]}) = 1
    BY FS_Singleton
  <2>3. Cardinality(S) <= 1
    BY <2>1, <2>2, FS_Subset
  <2> QED  BY <2>3 DEF S
<1> QED  BY <1>1, Invariance, PTL

\* Whatever answer, failure or event of an earlier life of the user or of the
\* worker process arrives, _engines still has every engine that runs: the
\* manager can kill it and send sockets to it.
THEOREM LiveEnginesAreKnown ==
  ASSUME SharedOnly
  PROVE  Spec => []LiveEngineKnown
<1>1. IInv => LiveEngineKnown
  <2> SUFFICES ASSUME IInv, NEW c \in ChildIds, NEW t \in children[c].running
               PROVE  engines[tasks[t].user] = t
    BY DEF LiveEngineKnown
  <2>1. t \in TaskIds /\ Runs(t)
    BY DEF IInv, Mapped, Runs
  <2> QED  BY <2>1 DEF IInv, Known, Live
<1> QED  BY <1>1, Invariance, PTL

\* No entry of _engines refers to the first worker that its process lost, once
\* the disconnect and the exit of that worker are handled, in whatever order the
\* two came and with whatever calls were under way (enginemanager.ts:475 and the
\* die listener).  Of later losses NoDeadEntry says nothing: _hadExit is not reset
\* when the process starts its next worker.
THEOREM DeadWorkersAreNoticed ==
  ASSUME SharedOnly
  PROVE  Spec => []NoDeadEntry
<1>1. Init => Noticed
  <2> SUFFICES ASSUME Init
               PROVE  Noticed
    OBVIOUS
  <2>1. /\ \A p \in Shared : procs[p].hadExit = FALSE
        /\ \A c \in ChildIds : children[c].alive = TRUE
    <3>1. Shared \subseteq 1..(NProcs + MaxTasks)
      BY ProcAssumption, EngineBoundAssumption DEF Shared
    <3>2. \A p \in Shared : procs[p] = Spawned(p)
      BY <3>1 DEF Init
    <3>3. \A c \in ChildIds : children[c] = NewChild(c)
      BY ProcAssumption DEF Init, ChildIds, Shared
    <3>4. \A p : Spawned(p).hadExit = FALSE /\ NewChild(p).alive = TRUE
      BY DEF Spawned, NewChild
    <3> QED  BY <3>2, <3>3, <3>4
  <2>2. \A p \in Shared : ~procs[p].hadExit
    BY <2>1
  <2>3. \A c \in ChildIds : ~(~children[c].alive)
    BY <2>1
  <2> QED  BY <2>2, <2>3, Zenon DEF Noticed
<1>2. IInv /\ Noticed /\ [Next]_vars => Noticed'
  BY NextNoticed
<1>3. Spec => []IInv
  BY Invariance
<1>4. IInv /\ Noticed => NoDeadEntry
  <2> SUFFICES ASSUME IInv, Noticed,
                      NEW u \in Users, NEW p, p = ProcOf(u), p # 0, procs[p].sock # 0, DiedOnce(p)
               PROVE  children[procs[p].sock].alive \/ children[procs[p].sock].events # {}
    BY DEF NoDeadEntry, EntryAlive
  <2>1. /\ engines[u] \in TaskIds /\ tasks[engines[u]].proc = p
    BY DEF ProcOf, IInv, Known
  <2>2. p \in Shared
    BY <2>1 DEF IInv, Locks, Stages
  <2>3. procs[p].sock \in ChildIds /\ children[procs[p].sock].proc = p
    BY <2>2 DEF IInv, Workers
  <2> QED  BY <2>2, <2>3 DEF Noticed
<1> QED  BY <1>1, <1>2, <1>3, <1>4, PTL DEF Spec

\* While restartUserWithoutCache removes the folder of a user
\* (enginemanager.ts:681), no engine of the user runs, and none comes up before
\* the task itself starts it again.
THEOREM FoldersRemovedWhileStopped ==
  ASSUME SharedOnly
  PROVE  Spec => []RemovedWhileStopped
<1>1. IInv => RemovedWhileStopped
  <2> SUFFICES ASSUME IInv, NEW t \in TaskIds, tasks[t].at = "rm"
               PROVE  EnginesOf(tasks[t].user) = {}
    BY DEF RemovedWhileStopped
  <2>1. Stages(tasks[t])
    BY DEF IInv, Locks
  <2>2. PostKill(tasks[t])
    BY <2>1 DEF Stages, PostKill
  <2>3. Stopped(tasks[t].user)
    BY <2>2 DEF IInv, Between
  <2> QED  BY <2>3 DEF Stopped, EnginesOf, Live, Runs
<1> QED  BY <1>1, Invariance, PTL

\* Once deleteUser has returned and the row of the user is gone
\* (enginemanager.ts:651), no engine of the user runs in a worker, unless the
\* website asked for the engine again after it called deleteUser: whatever
\* kills, restarts and deletes of the user were called before, and whichever of
\* their starts, kills and answers were still under way.  The workers have to
\* live, because the 10 s timer of a crash starts a deleted user again.
THEOREM DeletedUsersStayDown ==
  ASSUME DeletionOnly
  PROVE  Spec => [](crashes = 0 => DeletedStaysDown)
<1>1. Init => Deleters
  BY DEF Init, Deleters
<1>2. GInv /\ Deleters /\ [Next]_vars => Deleters'
  BY DeletersKeep
<1>3. GInv /\ DInv /\ Deleters => (crashes = 0 => DeletedStaysDown)
  <2> SUFFICES ASSUME GInv, DState, Deleters, NEW u \in deleted, ~AskedAgain(u), NEW c \in RunningIn(u)
               PROVE  FALSE
    BY DEF DInv, DState, DeletedStaysDown
  <2>1. Orderly(u)
    BY DEF DState, GInv, TypeOK
  <2>2. PICK t \in TaskIds : tasks[t].op = "deleteUser" /\ tasks[t].user = u /\ tasks[t].at = "done"
    BY DEF Deleters
  <2>3. Resting(u)
    BY <2>1, <2>2 DEF Orderly, Past
  <2>4. c \in Shared
    BY DEF RunningIn, DState, Healthy
  <2>5. PICK s \in children[c].running : tasks[s].user = u
    BY DEF RunningIn
  <2>6. s \in TaskIds
    BY <2>4, <2>5 DEF DState, Regular, RegularWorkers
  <2> QED  BY <2>3, <2>4, <2>5, <2>6 DEF Resting, Engaged
<1> QED  BY <1>1, <1>2, <1>3, GInvariance, DownInvariance, PTL DEF Spec

\* The chain of promises of util/lock.ts, kept in _locks by enginemanager.ts:
\* an operation of a user ends only when all earlier ones of the user have, as
\* long as none of those before it deletes the user, because deleteUser drops
\* the Lock that the later ones wait for.
THEOREM OperationsEndInTurn ==
  Spec => [](\A s, t \in TaskIds : Ahead(s, t) /\ tasks[t].at = "done" => tasks[s].at = "done")
<1>1. GInv => \A s, t \in TaskIds : Ahead(s, t) /\ tasks[t].at = "done" => tasks[s].at = "done"
  BY DEF GInv, Line, Begun
<1> QED  BY <1>1, GInvariance, PTL

\* While the website does not call deleteUser, the same chain implements the
\* mutex of UserMutex: whatever calls come, workers crash or are killed and
\* calls fail, only the operation that asked first for the lock of a user ends,
\* and the others follow in the order of their calls.
THEOREM LocksImplementMutex ==
  ASSUME "deleteUser" \notin Ops
  PROVE  Spec => ImplementsMutex
<1>1. Init => NoDelete /\ Mutex!Init
  BY DEF Init, NoDelete, Mutex!Init, Pending, TaskIds
<1>2. GInv /\ [Next]_vars => TasksGo \/ BootStep \/ AcquireStep
  BY NextGoes DEF BootStep, AcquireStep
<1>3. GInv /\ NoDelete /\ [Next]_vars => NoDelete'
  BY <1>2, DeletesStay DEF GInv
<1>4. GInv /\ NoDelete /\ [Next]_vars => [Mutex!Next]_Pending
  BY <1>2, StepMaps DEF GInv
<1>5. Spec => []GInv
  BY GInvariance
<1> QED  BY <1>1, <1>3, <1>4, <1>5, PTL DEF Spec, ImplementsMutex, Mutex!Spec
=============================================================================
