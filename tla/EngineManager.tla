---------------------------- MODULE EngineManager ----------------------------
(***************************************************************************)
(* The Web Almond master process: EngineManager and EngineProcess of       *)
(* src/src/almond/enginemanager.ts, the lock of src/src/util/lock.ts they  *)
(* serialize a user's operations with, and the part of the worker          *)
(* (src/src/almond/worker.ts) that runs and kills engines.                 *)
(*                                                                         *)
(* A task is one async call chain of the master: an operation requested    *)
(* over the control socket, the start of a user at boot, or the restart    *)
(* that is scheduled 10 s after a worker died.  Each action is the code    *)
(* between two awaits.  A task makes at most one EngineProxy (the obj of   *)
(* _runUser), so the task's number also names that object.                 *)
(***************************************************************************)
EXTENDS Integers, Sequences, FiniteSets

CONSTANTS
    NUsers,       \* the users of the shard have ids 1..NUsers
    Dedicated,    \* users that run in a process of their own
    NProcs,       \* number of shared worker processes
    Ops,          \* operations the website calls in this instance
    EarlyCalls,   \* whether it may call before the users are started at boot
    MaxCalls,     \* bound on calls from the website
    MaxTasks,     \* bound on tasks
    MaxChildren,  \* bound on worker processes ever spawned
    MaxCrashes,   \* bound on workers that die by themselves
    MaxTimeouts   \* bound on workers that do not die within 30 s

Users == 1..NUsers
Shared == 1..NProcs

\* The awaited stages of each operation.
Plan == [startUser               |-> <<"start">>,
         killUser                |-> <<"kill">>,
         restartUser             |-> <<"kill", "start">>,
         deleteUser              |-> <<"kill", "rm">>,
         clearCache              |-> <<"rm">>,
         restartUserWithoutCache |-> <<"kill", "rm", "start">>,
         sendSocket              |-> <<"send">>,
         timer                   |-> <<"kill", "start">>,
         boot                    |-> <<"start">>]

WebOps == DOMAIN Plan \ {"timer", "boot"}

ASSUME UserAssumption == NUsers \in Nat /\ Dedicated \subseteq Users
ASSUME ProcAssumption == NProcs \in Nat \ {0}
ASSUME EarlyAssumption == EarlyCalls \in BOOLEAN
ASSUME OpsAssumption == Ops \subseteq WebOps \cup {"killAllUsers", "stop"}
ASSUME EngineBoundAssumption ==
    /\ MaxCalls \in Nat /\ MaxTasks \in Nat /\ MaxCrashes \in Nat /\ MaxTimeouts \in Nat
    /\ MaxChildren \in Nat /\ MaxTasks >= NUsers
    /\ MaxChildren >= NProcs + Cardinality(Dedicated)

VARIABLES
    up,          \* the master process runs
    stopped,     \* _stopped
    booted,      \* start() has called _runUser for the users of the shard
    tasks,       \* sequence of tasks
    lockTail,    \* _locks: the last task that called acquire() on the user's
                 \* Lock; 0 if there is no Lock
    engines,     \* _engines: user -> task that made the EngineProxy, or 0
    listening,   \* tasks whose die and onRemoved listeners are installed
    procs,       \* EngineProcess objects: 1..NProcs are shared, NProcs + t is
                 \* the one that task t made for a dedicated user
    registered,  \* _processes: user -> EngineProcess or 0
    nextProcess, \* _nextProcess, counted from 1
    children,    \* sequence of worker processes
    timers,      \* user -> pending 10 s restart timers
    deleted,     \* users whose row is gone from the database
    calls, crashes, timeouts    \* how much of the bounds is used

phase == <<stopped, booted, deleted>>
taskvars == <<tasks, lockTail>>
proxies == <<engines, listening>>
processes == <<procs, registered, nextProcess>>
bounds == <<calls, crashes, timeouts>>
vars == <<up, phase, taskvars, proxies, processes, children, timers, bounds>>

Task == [op : DOMAIN Plan, user : Users, prev : 0..MaxTasks,
         todo : {<<>>} \cup {Plan[op] : op \in DOMAIN Plan}
                \cup {<<"rm", "start">>},
         at : {"idle", "killing", "rm", "waiting", "token", "running", "done"},
         target : 0..(NProcs + MaxTasks), child : 0..MaxChildren,
         proc : 0..(NProcs + MaxTasks), ok : BOOLEAN]

\* child: _child; sock: the worker that _rpcSocket talks to; starting: _starting
\* is null, the promise of restart, the promise of start, or that promise once it
\* was rejected.  dying: _dyingTimeout, armed by killAllUsers (which awaits the
\* outcome) or by killEngine (which does not).
Process == [child : 0..MaxChildren, sock : 0..MaxChildren, hadExit : BOOLEAN,
            starting : {"none", "delay", "child", "failed"},
            dying : {"no", "awaited", "alone"}]
Spawned(c) == [child |-> c, sock |-> c, hadExit |-> FALSE, starting |-> "child", dying |-> "no"]
NoProcess == [child |-> 0, sock |-> 0, hadExit |-> FALSE, starting |-> "none", dying |-> "no"]

Call == [op : {"run", "kill"}, user : Users, task : 1..MaxTasks, waits : BOOLEAN]

\* A worker: its process, the engines it runs, its _engines map, the calls sent
\* to it, the answers on their way back, the calls it died on, and the events
\* node has still to deliver for it.  heard: somebody waits for the promise of the
\* restart() that spawned it.
Child == [proc : 1..(NProcs + MaxTasks), alive : BOOLEAN, told : BOOLEAN, ready : BOOLEAN,
          heard : BOOLEAN,
          running : SUBSET (1..MaxTasks), map : [Users -> 0..MaxTasks],
          calls : Seq(Call), replies : Seq(Call), lost : Seq(Call),
          events : SUBSET {"disconnect", "exit"}]
NewChild(p) == [proc |-> p, alive |-> TRUE, told |-> FALSE, ready |-> FALSE, heard |-> FALSE,
                running |-> {}, map |-> [u \in Users |-> 0],
                calls |-> <<>>, replies |-> <<>>, lost |-> <<>>, events |-> {}]

TaskIds == 1..Len(tasks)
ChildIds == 1..Len(children)

TypeOK ==
    /\ up \in BOOLEAN /\ stopped \in BOOLEAN /\ booted \in BOOLEAN
    /\ tasks \in Seq(Task) /\ Len(tasks) <= MaxTasks
    /\ lockTail \in [Users -> 0..Len(tasks)]
    /\ engines \in [Users -> 0..Len(tasks)]
    /\ listening \subseteq TaskIds
    /\ procs \in [1..(NProcs + MaxTasks) -> Process]
    /\ registered \in [Users -> 0..(NProcs + MaxTasks)]
    /\ nextProcess \in Shared
    /\ children \in Seq(Child) /\ Len(children) <= MaxChildren
    /\ timers \in [Users -> Nat]
    /\ deleted \subseteq Users
    /\ calls \in 0..MaxCalls /\ crashes \in 0..MaxCrashes /\ timeouts \in 0..MaxTimeouts

\* start() has spawned the shared processes and waits for them.
Init ==
    /\ up = TRUE /\ stopped = FALSE /\ booted = FALSE
    /\ tasks = <<>>
    /\ lockTail = [u \in Users |-> 0]
    /\ engines = [u \in Users |-> 0]
    /\ listening = {}
    /\ procs = [p \in 1..(NProcs + MaxTasks) |->
                  IF p \in Shared THEN Spawned(p) ELSE NoProcess]
    /\ registered = [u \in Users |-> 0]
    /\ nextProcess = 1
    /\ children = [c \in Shared |-> NewChild(c)]
    /\ timers = [u \in Users |-> 0]
    /\ deleted = {}
    /\ calls = 0 /\ crashes = 0 /\ timeouts = 0

-----------------------------------------------------------------------------
(* Lock.acquire and the bookkeeping of a task *)

NewTask(op, u, prev) ==
    [op |-> op, user |-> u, prev |-> prev, todo |-> Plan[op], at |-> "idle",
     target |-> 0, child |-> 0, proc |-> 0, ok |-> TRUE]

\* Mutant of Acquire: the queue of the lock is not extended.
Acquire_NoQueue(op, u) ==
    /\ Len(tasks) < MaxTasks
    /\ tasks' = Append(tasks, NewTask(op, u, lockTail[u]))
    /\ lockTail' = [lockTail EXCEPT ![u] = IF @ = 0 THEN Len(tasks) + 1 ELSE @]

\* The operation begins: it takes its place in the queue of the user's lock,
\* behind the last task that called acquire().
Acquire(op, u) ==
    /\ Len(tasks) < MaxTasks
    /\ tasks' = Append(tasks, NewTask(op, u, lockTail[u]))
    /\ lockTail' = [lockTail EXCEPT ![u] = Len(tasks) + 1]

\* "await oldQueue": the task before us has called its unlockCallback.  A
\* start at boot takes no lock.
Granted(t) == tasks[t].prev \in {0} \cup {s \in TaskIds : tasks[s].at = "done"}

\* The task is at the beginning of this stage.
AtStage(t, stage) ==
    /\ up /\ tasks[t].at = "idle" /\ tasks[t].todo # <<>> /\ Head(tasks[t].todo) = stage
    /\ Granted(t)

\* The record of a task after a stage that went well, or after an exception.
Advanced(task) == [task EXCEPT !.todo = Tail(@),
                               !.at = IF Len(task.todo) = 1 THEN "done" ELSE "idle"]
Failed(task) == [task EXCEPT !.at = "done", !.ok = FALSE]

\* The new record of task t, and what happens when it is the last: deleteUser
\* also drops the Lock, and a failed timer task is an unhandled rejection,
\* which ends the process.
Step(t, new) ==
    /\ tasks' = [tasks EXCEPT ![t] = new]
    /\ lockTail' = IF new.at = "done" /\ new.op = "deleteUser"
                   THEN [lockTail EXCEPT ![new.user] = 0] ELSE lockTail
    /\ up' = ~(new.at = "done" /\ ~new.ok /\ new.op = "timer")

-----------------------------------------------------------------------------
(* Events of an EngineProcess *)

IsShared(p) == p \in Shared

\* Mutant of EmitExit: the timer that restarts the user is not set.
EmitExit_NoTimer(P, manual, stopping, before) ==
    LET heard == {t \in listening : tasks[t].proc \in P} IN
    /\ listening' = listening \ heard
    /\ engines' = [u \in Users |-> IF engines[u] \in heard THEN 0 ELSE engines[u]]
    /\ UNCHANGED timers
    /\ registered' = [u \in Users |-> IF registered[u] \in P THEN 0 ELSE registered[u]]
    /\ procs' = [p \in DOMAIN before |->
                   IF p \in P /\ IsShared(p) /\ ~stopping
                   THEN [before[p] EXCEPT !.child = 0, !.sock = 0, !.starting = "delay"]
                   ELSE before[p]]

\* The listeners of event 'exit' on the processes P: shared ones restart in
\* 5 s (unless the manager is stopping), a dedicated one leaves _processes, and
\* die removes the EngineProxy and, unless the kill was manual, sets the timer
\* that restarts the user.  "before": what the caller made of procs.
EmitExit(P, manual, stopping, before) ==
    LET heard == {t \in listening : tasks[t].proc \in P}
        gone == {u \in Users : engines[u] \in heard}
        RestartsLater(u) == u \in gone /\ ~manual /\ ~stopping /\ IsShared(tasks[engines[u]].proc)
    IN
    /\ listening' = listening \ heard
    /\ engines' = [u \in Users |-> IF u \in gone THEN 0 ELSE engines[u]]
    /\ timers' = [u \in Users |-> IF RestartsLater(u) THEN timers[u] + 1 ELSE timers[u]]
    /\ registered' = [u \in Users |-> IF registered[u] \in P THEN 0 ELSE registered[u]]
    /\ procs' = [p \in DOMAIN before |->
                   IF p \in P /\ IsShared(p) /\ ~stopping
                   THEN [before[p] EXCEPT !.child = 0, !.sock = 0, !.starting = "delay"]
                   ELSE before[p]]

\* Mutant of EmitEngineRemoved: the listener does not compare the user.
EmitEngineRemoved_AnyUser(p, u) ==
    LET heard == {t \in listening : tasks[t].proc = p} IN
    /\ listening' = listening \ heard
    /\ engines' = [v \in Users |-> IF engines[v] \in heard THEN 0 ELSE engines[v]]

\* Event 'engine-removed' for user u on process p.
EmitEngineRemoved(p, u) ==
    LET heard == {t \in listening : tasks[t].proc = p /\ tasks[t].user = u} IN
    /\ listening' = listening \ heard
    /\ engines' = IF engines[u] \in heard THEN [engines EXCEPT ![u] = 0] ELSE engines

\* EngineProcess.kill on the processes P that have a child: tell it to exit, arm
\* the timer, and emit 'exit' at once.
KillProcesses(P, timer, stopping) ==
    LET live == {p \in P : procs[p].child # 0} IN
    /\ children' = [c \in ChildIds |->
                      IF \E p \in live : procs[p].child = c
                      THEN [children[c] EXCEPT !.told = TRUE] ELSE children[c]]
    /\ EmitExit(live, TRUE, stopping,
                [p \in DOMAIN procs |-> IF p \in live
                                        THEN [procs[p] EXCEPT !.hadExit = TRUE, !.dying = timer]
                                        ELSE procs[p]])

-----------------------------------------------------------------------------
(* Calls to a worker *)

\* A call on the rpc socket of worker c; if the worker is dead it is lost.
Sent(c, call) ==
    LET w == children[c] IN
    [children EXCEPT ![c] = IF w.alive THEN [w EXCEPT !.calls = Append(w.calls, call)]
                            ELSE [w EXCEPT !.lost = Append(w.lost, call)]]

\* Mutant of WorkerHandle: killEngine leaves the engine running.
WorkerHandle_KeepsEngine(c) ==
    LET w == children[c]
        m == Head(w.calls)
    IN
    /\ w.alive /\ w.calls # <<>>
    /\ children' = [children EXCEPT ![c] =
         [w EXCEPT !.calls = Tail(@), !.replies = Append(@, m),
                   !.running = IF m.op = "run" THEN @ \cup {m.task} ELSE @,
                   !.map = [@ EXCEPT ![m.user] = IF m.op = "run" THEN m.task ELSE 0]]]
    /\ UNCHANGED <<up, phase, taskvars, proxies, processes, timers, bounds>>

\* The worker handles a call, in order.  runEngine replaces the entry of the
\* user's map, killEngine stops the engine found there.
WorkerHandle(c) ==
    LET w == children[c]
        m == Head(w.calls)
    IN
    /\ w.alive /\ w.calls # <<>>
    /\ children' = [children EXCEPT ![c] =
         [w EXCEPT !.calls = Tail(w.calls), !.replies = Append(w.replies, m),
                   !.running = IF m.op = "run" THEN w.running \cup {m.task}
                               ELSE w.running \ {w.map[m.user]},
                   !.map = [w.map EXCEPT ![m.user] = IF m.op = "run" THEN m.task ELSE 0]]]
    /\ UNCHANGED <<up, phase, taskvars, proxies, processes, timers, bounds>>

\* The outcome of a call reaches the master: killEngine emits engine-removed
\* whether it went well or not, runEngine fails its task if it did not.
CallReturns(c, m, ok) ==
    /\ IF m.op = "kill" THEN EmitEngineRemoved(children[c].proc, m.user)
       ELSE UNCHANGED <<listening, engines>>
    /\ IF m.waits THEN Step(m.task, IF m.op = "run" /\ ~ok THEN Failed(tasks[m.task])
                                    ELSE Advanced(tasks[m.task]))
       ELSE UNCHANGED <<tasks, lockTail, up>>
    /\ UNCHANGED <<phase, processes, timers, bounds>>

Reply(c) ==
    /\ up /\ children[c].replies # <<>>
    /\ children' = [children EXCEPT ![c].replies = Tail(@)]
    /\ CallReturns(c, Head(children[c].replies), TRUE)

\* A call to a worker that died comes back with an error.  Nothing in the master
\* makes it: ChildProcessSocket is not ended when its child dies, and restart()
\* only drops the reference to the rpc socket.  Whether the call comes back is up to
\* the RPC library, when a later message to the dead child cannot be sent, so this
\* may happen and need not.
CallFails(c) ==
    /\ up /\ children[c].lost # <<>>
    /\ children' = [children EXCEPT ![c].lost = Tail(@)]
    /\ CallReturns(c, Head(children[c].lost), FALSE)

-----------------------------------------------------------------------------
(* _runUser *)

\* The record of a task that runs an engine in shared process p: waitReady
\* returns at once, fails with the start of the worker that failed, or waits for
\* the worker that starts or is to be started.
RunTask(task, p) ==
    CASE procs[p].starting = "none" -> [task EXCEPT !.at = "token", !.target = p, !.proc = p]
      [] procs[p].starting = "failed" -> [Failed(task) EXCEPT !.target = p]
      [] OTHER -> [task EXCEPT !.at = "waiting", !.target = p, !.child = procs[p].sock]

\* Mutant of RunShared: the index of the next process does not wrap around.
RunShared_NoWrap(t, u) ==
    /\ engines' = [engines EXCEPT ![u] = t]
    /\ nextProcess' = nextProcess + 1
    /\ Step(t, RunTask(tasks[t], nextProcess))
    /\ listening' = IF procs[nextProcess].starting = "none" THEN listening \cup {t} ELSE listening
    /\ UNCHANGED <<procs, registered, children>>

\* The row of the user is loaded, and _runUser runs up to the await of
\* _findProcessForUser, which takes the next shared process or spawns one.
RunShared(t, u) ==
    LET p == nextProcess IN
    /\ engines' = [engines EXCEPT ![u] = t]
    /\ nextProcess' = (nextProcess % NProcs) + 1
    /\ Step(t, RunTask(tasks[t], p))
    /\ listening' = IF procs[p].starting = "none" THEN listening \cup {t} ELSE listening
    /\ UNCHANGED <<procs, registered, children>>

RunDedicated(t, u) ==
    LET p == NProcs + t
        c == Len(children) + 1
    IN
    /\ Len(children) < MaxChildren
    /\ engines' = [engines EXCEPT ![u] = t]
    /\ children' = Append(children, NewChild(p))
    /\ procs' = [procs EXCEPT ![p] = Spawned(c)]
    /\ registered' = [registered EXCEPT ![u] = p]
    /\ Step(t, [tasks[t] EXCEPT !.at = "waiting", !.target = p, !.child = c])
    /\ UNCHANGED <<listening, nextProcess>>

\* The row is read and _runUser called in one step.  The lock is held and the
\* worker is chosen after the read; the only thing this leaves out is a row that
\* is deleted between the read and _runUser.
StartStage(t) ==
    /\ AtStage(t, "start")
    /\ LET u == tasks[t].user IN
       IF u \in deleted
       THEN /\ Step(t, Failed(tasks[t]))
            /\ UNCHANGED <<proxies, processes, children>>
       ELSE IF u \in Dedicated THEN RunDedicated(t, u) ELSE RunShared(t, u)
    /\ UNCHANGED <<phase, timers, bounds>>

\* The access token is signed: EngineProcess.runEngine calls the worker.
CallRunEngine(t) ==
    LET c == procs[tasks[t].proc].sock IN
    /\ up /\ tasks[t].at = "token"
    /\ IF c = 0
       THEN Step(t, Failed(tasks[t])) /\ UNCHANGED children
       ELSE /\ children' = Sent(c, [op |-> "run", user |-> tasks[t].user, task |-> t, waits |-> TRUE])
            /\ Step(t, [tasks[t] EXCEPT !.at = "running"])
    /\ UNCHANGED <<phase, proxies, processes, timers, bounds>>

-----------------------------------------------------------------------------
(* The other stages *)

\* The process that _engines has for the user, or 0.
ProcOf(u) == IF engines[u] = 0 THEN 0 ELSE tasks[engines[u]].proc

\* killEngine for user u by task t: a call to a shared worker, or the end of
\* the user's own process.  "awaiting" is the record of the task when a call
\* is in flight, "next" when there is nothing to wait for.
KillEngine(t, u, waits, awaiting, next) ==
    LET p == ProcOf(u)
        c == procs[p].sock
    IN
    IF p = 0
    THEN /\ Step(t, next)
         /\ UNCHANGED <<proxies, procs, registered, children, timers>>
    ELSE IF ~IsShared(p)
    THEN Step(t, next) /\ KillProcesses({p}, "alone", FALSE)
    ELSE /\ UNCHANGED <<proxies, procs, registered, timers>>
         /\ IF c = 0
            THEN Step(t, Failed(tasks[t])) /\ UNCHANGED children
            ELSE /\ children' = Sent(c, [op |-> "kill", user |-> u, task |-> t, waits |-> waits])
                 /\ Step(t, awaiting)

\* Mutant of KillStage: the call to the worker is not awaited.
KillStage_NoAwait(t) ==
    /\ AtStage(t, "kill")
    /\ KillEngine(t, tasks[t].user, FALSE, Advanced(tasks[t]), Advanced(tasks[t]))
    /\ UNCHANGED <<phase, nextProcess, bounds>>

\* _killUserLocked
KillStage(t) ==
    /\ AtStage(t, "kill")
    /\ KillEngine(t, tasks[t].user, TRUE, [tasks[t] EXCEPT !.at = "killing"], Advanced(tasks[t]))
    /\ UNCHANGED <<phase, nextProcess, bounds>>

\* _getUserCloudIdForPath, which kills an engine without waiting for it, or
\* asks the database; then rm -rf.
RmStage(t) ==
    /\ AtStage(t, "rm")
    /\ LET u == tasks[t].user
           rm == [tasks[t] EXCEPT !.at = "rm"]
       IN KillEngine(t, u, FALSE, rm, IF engines[u] = 0 /\ u \in deleted THEN Failed(tasks[t]) ELSE rm)
    /\ UNCHANGED <<phase, nextProcess, bounds>>

RmDone(t) ==
    /\ up /\ tasks[t].at = "rm"
    /\ Step(t, Advanced(tasks[t]))
    /\ UNCHANGED <<phase, proxies, processes, children, timers, bounds>>

\* sendSocket after the await: the entry it looked at may be gone by now.
SendStage(t) ==
    LET p == ProcOf(tasks[t].user) IN
    /\ AtStage(t, "send")
    /\ Step(t, IF p = 0 THEN Failed(tasks[t])
               ELSE IF procs[p].child = 0 THEN Failed(tasks[t]) ELSE Advanced(tasks[t]))
    /\ UNCHANGED <<phase, proxies, processes, children, timers, bounds>>

-----------------------------------------------------------------------------
(* What starts tasks *)

\* The shared processes are ready: start() calls _runUser for every user, in
\* order, and without a lock.
DedicatedUpTo(u) == Cardinality({v \in Dedicated : v <= u})
SharedUpTo(u) == u - DedicatedUpTo(u)
Boot ==
    LET Slot(u) == ((SharedUpTo(u) - 1) % NProcs) + 1
        ChildOf(u) == Len(children) + DedicatedUpTo(u)
        OwnerOf(p) == p - NProcs
        BootTask(u) ==
            IF u \in Dedicated
            THEN [NewTask("boot", u, 0) EXCEPT !.at = "waiting", !.target = NProcs + u,
                                               !.child = ChildOf(u)]
            ELSE RunTask(NewTask("boot", u, 0), Slot(u))
    IN
    /\ up /\ ~booted /\ ~stopped
    /\ \A c \in Shared : children[c].ready
    /\ Len(children) + Cardinality(Dedicated) <= MaxChildren
    /\ booted' = TRUE
    /\ tasks' = [u \in Users |-> BootTask(u)]
    /\ engines' = [u \in Users |-> u]
    /\ listening' = {u \in Users \ Dedicated : procs[Slot(u)].starting = "none"}
    /\ nextProcess' = (SharedUpTo(NUsers) % NProcs) + 1
    /\ procs' = [p \in DOMAIN procs |->
                   IF OwnerOf(p) \in Dedicated THEN Spawned(ChildOf(OwnerOf(p))) ELSE procs[p]]
    /\ registered' = [u \in Users |-> IF u \in Dedicated THEN NProcs + u ELSE 0]
    /\ children' = [c \in 1..(Len(children) + Cardinality(Dedicated)) |->
                      IF c \in ChildIds THEN children[c]
                      ELSE NewChild(NProcs + (CHOOSE u \in Dedicated : ChildOf(u) = c))]
    /\ UNCHANGED <<up, stopped, deleted, lockTail, timers, bounds>>

\* The control socket listens before start() runs, so that calls can come while
\* the unlocked starts of the boot are under way.
CallsAllowed ==
    /\ up /\ booted /\ ~stopped /\ calls < MaxCalls
    /\ EarlyCalls \/ \A t \in TaskIds : tasks[t].op = "boot" => tasks[t].at = "done"

\* A call from the website over the control socket.
WebCall(op, u) ==
    /\ CallsAllowed /\ op \in Ops
    /\ op = "sendSocket" => ProcOf(u) # 0
    /\ Acquire(op, u)
    /\ calls' = calls + 1
    /\ UNCHANGED <<up, phase, proxies, processes, children, timers, crashes, timeouts>>

\* The 10 s timer set by die.
RestartTimer(u) ==
    /\ up /\ timers[u] > 0
    /\ timers' = [timers EXCEPT ![u] = @ - 1]
    /\ Acquire("timer", u)
    /\ UNCHANGED <<up, phase, proxies, processes, children, bounds>>

\* The website deletes the user's row once deleteUser has returned.
DeleteRow(u) ==
    /\ \E t \in TaskIds : tasks[t].op = "deleteUser" /\ tasks[t].user = u
                          /\ tasks[t].at = "done" /\ tasks[t].ok
    /\ u \notin deleted
    /\ deleted' = deleted \cup {u}
    /\ UNCHANGED <<up, stopped, booted, taskvars, proxies, processes, children, timers, bounds>>

\* killAllUsers goes through _processes.
InProcesses == Shared \cup ({registered[u] : u \in Users} \ {0})
KillAllUsers ==
    /\ CallsAllowed /\ "killAllUsers" \in Ops
    /\ calls' = calls + 1
    /\ KillProcesses(InProcesses, "awaited", FALSE)
    /\ UNCHANGED <<up, phase, taskvars, nextProcess, crashes, timeouts>>

\* stop(): the same, but nothing is restarted; then the process exits.
Stop ==
    /\ up /\ booted /\ ~stopped /\ "stop" \in Ops
    /\ stopped' = TRUE
    /\ KillProcesses(InProcesses, "awaited", TRUE)
    /\ UNCHANGED <<up, booted, deleted, taskvars, nextProcess, bounds>>

StopDone ==
    /\ up /\ stopped
    /\ \A p \in DOMAIN procs : procs[p].dying # "awaited"
    /\ up' = FALSE
    /\ UNCHANGED <<phase, taskvars, proxies, processes, children, timers, bounds>>

-----------------------------------------------------------------------------
(* Events of a worker process *)

\* Mutant of ChildReady: the promise of start is not resolved.
ChildReady_NoResolve(c) ==
    /\ up /\ children[c].alive /\ ~children[c].ready
    /\ children' = [children EXCEPT ![c].ready = TRUE]
    /\ procs' = [procs EXCEPT ![children[c].proc].starting = "none"]
    /\ UNCHANGED <<up, phase, taskvars, proxies, registered, nextProcess, timers, bounds>>

\* Message "ready" resolves _starting: the tasks that wait for this worker take
\* the process and install their listeners.
ChildReady(c) ==
    LET p == children[c].proc
        waiters == {t \in TaskIds : tasks[t].at = "waiting" /\ tasks[t].child = c}
    IN
    /\ up /\ children[c].alive /\ ~children[c].ready
    /\ children' = [children EXCEPT ![c].ready = TRUE]
    /\ procs' = [procs EXCEPT ![p].starting = "none"]
    /\ tasks' = [t \in TaskIds |-> IF t \in waiters THEN [tasks[t] EXCEPT !.at = "token", !.proc = p]
                                   ELSE tasks[t]]
    /\ listening' = listening \cup waiters
    /\ UNCHANGED <<up, phase, lockTail, engines, registered, nextProcess, timers, bounds>>

Dead(w) == [w EXCEPT !.alive = FALSE, !.running = {}, !.map = [u \in Users |-> 0],
                     !.lost = w.lost \o w.calls, !.calls = <<>>, !.events = {"disconnect", "exit"}]

\* The worker dies: a fatal error of one engine exits the whole process.
Crash(c) ==
    /\ children[c].alive /\ crashes < MaxCrashes
    /\ crashes' = crashes + 1
    /\ children' = [children EXCEPT ![c] = Dead(children[c])]
    /\ UNCHANGED <<up, phase, taskvars, proxies, processes, timers, calls, timeouts>>

\* The worker was told to exit, and does.
ChildExits(c) ==
    /\ children[c].alive /\ children[c].told
    /\ children' = [children EXCEPT ![c] = Dead(children[c])]
    /\ UNCHANGED <<up, phase, taskvars, proxies, processes, timers, bounds>>

\* Mutant of OnceExit: _hadExit is set before it is tested.
OnceExit_SetFirst(p, before) ==
    procs' = [before EXCEPT ![p].hadExit = TRUE] /\ UNCHANGED <<proxies, registered, timers>>

\* "if (!this._hadExit) ... this.emit('exit')"
OnceExit(p, before) ==
    IF before[p].hadExit
    THEN procs' = before /\ UNCHANGED <<proxies, registered, timers>>
    ELSE EmitExit({p}, FALSE, stopped, [before EXCEPT ![p].hadExit = TRUE])

Disconnect(c) ==
    /\ up /\ "disconnect" \in children[c].events
    /\ children' = [children EXCEPT ![c].events = @ \ {"disconnect"}]
    /\ OnceExit(children[c].proc, procs)
    /\ UNCHANGED <<up, phase, taskvars, nextProcess, bounds>>

\* Mutant of Exit: the dying process is not reported to waitDead.
Exit_NoDeadCallback(c) ==
    LET p == children[c].proc IN
    /\ up /\ "exit" \in children[c].events
    /\ children' = [children EXCEPT ![c].events = @ \ {"exit"}]
    /\ OnceExit(p, [procs EXCEPT ![p].child = 0])
    /\ up' = (children[c].ready \/ ~IsShared(p))
    /\ UNCHANGED <<phase, taskvars, nextProcess, bounds>>

\* The exit handler: _child is cleared whichever child it was, the 30 s timer is
\* cancelled, and the promise of start is rejected if it was still pending.
\* Tasks that wait for this worker fail.  The promise of restart follows that of
\* start: if nobody waits for it either, and at the first start, the rejection
\* ends the master; so does a failed timer task.
Exit(c) ==
    LET p == children[c].proc
        waiters == {t \in TaskIds : tasks[t].at = "waiting" /\ tasks[t].child = c}
        failed == ~children[c].ready /\ procs[p].sock = c /\ procs[p].starting = "child"
    IN
    /\ up /\ "exit" \in children[c].events
    /\ children' = [children EXCEPT ![c].events = @ \ {"exit"}]
    /\ OnceExit(p, [procs EXCEPT ![p].child = 0, ![p].dying = "no",
                                 ![p].starting = IF failed THEN "failed" ELSE @])
    /\ IF children[c].ready
       THEN UNCHANGED <<tasks, lockTail>>
       ELSE /\ tasks' = [t \in TaskIds |-> IF t \in waiters THEN Failed(tasks[t]) ELSE tasks[t]]
            /\ UNCHANGED lockTail
    /\ up' = /\ children[c].ready \/ ~IsShared(p) \/ children[c].heard
             /\ \A t \in waiters : tasks[t].op # "timer"
    /\ UNCHANGED <<phase, nextProcess, bounds>>

\* restart(5000): the delay is over, start() spawns the new worker.  The 5 s
\* are long enough for a token that is being signed.
StartAgain(p) ==
    LET c == Len(children) + 1
        waiters == {t \in TaskIds : tasks[t].at = "waiting" /\ tasks[t].target = p
                                    /\ tasks[t].child = 0}
    IN
    /\ up /\ IsShared(p) /\ procs[p].starting = "delay" /\ Len(children) < MaxChildren
    /\ \A t \in TaskIds : tasks[t].proc = p => tasks[t].at # "token"
    /\ children' = Append(children, [NewChild(p) EXCEPT !.heard = (waiters # {})])
    /\ procs' = [procs EXCEPT ![p] = [procs[p] EXCEPT !.child = c, !.sock = c, !.starting = "child"]]
    /\ tasks' = [t \in TaskIds |-> IF t \in waiters THEN [tasks[t] EXCEPT !.child = c]
                                   ELSE tasks[t]]
    /\ UNCHANGED <<up, phase, lockTail, proxies, registered, nextProcess, timers, bounds>>

\* The 30 s timer of kill: SIGKILL to whatever _child is now.  The rejected
\* promise is handled only when killAllUsers awaits it.
DyingTimeout(p) ==
    LET c == procs[p].child IN
    /\ up /\ procs[p].dying # "no" /\ timeouts < MaxTimeouts
    /\ timeouts' = timeouts + 1
    /\ procs' = [procs EXCEPT ![p].dying = "no"]
    /\ children' = IF c = 0 THEN children
                   ELSE [children EXCEPT ![c] = IF children[c].alive THEN Dead(children[c]) ELSE children[c]]
    /\ up' = (procs[p].dying = "awaited" /\ ~stopped)
    /\ UNCHANGED <<phase, taskvars, proxies, registered, nextProcess, timers, calls, crashes>>

-----------------------------------------------------------------------------

TaskStep(t) == \/ StartStage(t) \/ CallRunEngine(t)
               \/ KillStage(t) \/ RmStage(t) \/ RmDone(t) \/ SendStage(t)

ChildStep(c) == \/ WorkerHandle(c) \/ Reply(c) \/ ChildReady(c)
                \/ ChildExits(c) \/ Disconnect(c) \/ Exit(c)

Next ==
    \/ Boot
    \/ \E op \in WebOps, u \in Users : WebCall(op, u)
    \/ \E u \in Users : RestartTimer(u) \/ DeleteRow(u)
    \/ KillAllUsers \/ Stop \/ StopDone
    \/ \E t \in TaskIds : TaskStep(t)
    \/ \E c \in ChildIds : ChildStep(c) \/ CallFails(c) \/ Crash(c)
    \/ \E p \in Shared : StartAgain(p)
    \/ \E p \in DOMAIN procs : DyingTimeout(p)

Spec == Init /\ [][Next]_vars

\* The event loop delivers events and answers, workers handle their calls and
\* die when told to, timers fire.  The website need not call, nothing need
\* crash, a worker need not overrun the 30 s, and a call that a dead worker has
\* not answered need not fail.
Fairness ==
    /\ WF_vars(Boot) /\ WF_vars(StopDone)
    /\ \A u \in Users : WF_vars(RestartTimer(u))
    /\ \A t \in 1..MaxTasks : WF_vars(t \in TaskIds /\ TaskStep(t))
    /\ \A c \in 1..MaxChildren : WF_vars(c \in ChildIds /\ ChildStep(c))
    /\ \A p \in Shared : WF_vars(StartAgain(p))

FairSpec == Spec /\ Fairness

-----------------------------------------------------------------------------
(* Properties *)

\* The operations of each user that have called acquire() and have not ended;
\* their numbers are the order of the calls.
Pending == [u \in Users |->
    {t \in TaskIds : tasks[t].user = u /\ tasks[t].op # "boot" /\ tasks[t].at # "done"}]
Mutex == INSTANCE UserMutex WITH Operations <- 1..MaxTasks, pending <- Pending

\* The lock queues implement UserMutex: the operations of a user end in the
\* order in which they were called.
ImplementsMutex == Mutex!Spec

\* The workers in which an engine of the user runs and which nobody has told
\* to exit.
RunningIn(u) == {c \in ChildIds : ~children[c].told
                                   /\ \E t \in children[c].running : tasks[t].user = u}
EnginesOf(u) == {t \in TaskIds : tasks[t].user = u /\ \E c \in ChildIds : t \in children[c].running}

\* A user never has two engines, but for one in a worker that is being killed:
\* kill, restart, crashes of workers and the 10 s timers, in any order, do not
\* start an engine next to one that still runs.
SingleEngine ==
    \A u \in Users :
        Cardinality({t \in EnginesOf(u) : \E c \in RunningIn(u) : t \in children[c].running}) <= 1

\* An engine that runs in a shared worker is the one _engines knows: no
\* answer, failure or event of an earlier life of the user or of the worker
\* process makes the manager forget a live engine, which it could then
\* neither kill nor send sockets to.
LiveEngineKnown ==
    \A c \in ChildIds : \A t \in children[c].running :
        IsShared(children[c].proc) /\ ~children[c].told => engines[tasks[t].user] = t

\* Process p has lost one worker at most.
DiedOnce(p) ==
    LET dead == {c \in ChildIds : children[c].proc = p /\ ~children[c].alive} IN
    \A c, d \in dead : c = d

\* The entry of user u leads to a worker that runs, or that will be reported.
EntryAlive(u) ==
    LET c == procs[ProcOf(u)].sock IN
    ProcOf(u) # 0 /\ c # 0 => children[c].alive \/ children[c].events # {}

\* The first worker a process loses is noticed: once its disconnect and exit are
\* handled, in either order, no entry of _engines refers to it, so its users are
\* restarted, unless the manager is stopping.  Of a second loss of the same
\* process this says nothing.
NoDeadEntry == up /\ ~stopped => \A u \in Users : DiedOnce(ProcOf(u)) => EntryAlive(u)

\* enginemanager.ts:475: "if the process died, some user might have been killed
\* as a side effect".  That would be so for each worker a process loses, if
\* _hadExit were cleared when the process is restarted.
EveryDeathNoticed == up /\ ~stopped => \A u \in Users : EntryAlive(u)

\* enginemanager.ts:681: "restart a user with a clean cache folder": while a
\* folder is removed after the engine was killed, no engine of that user runs
\* any more that could fill the folder again.
RemovedWhileStopped ==
    \A t \in TaskIds :
        tasks[t].at = "rm" /\ tasks[t].op \in {"restartUserWithoutCache", "deleteUser"}
            => EnginesOf(tasks[t].user) = {}

\* Once deleteUser has returned and the row is gone, no engine runs for the
\* user, unless in a worker that is being killed, or because the engine was
\* asked for again after deleteUser was called.
AskedAgain(u) ==
    \E d, t \in TaskIds :
        /\ tasks[d].user = u /\ tasks[d].op = "deleteUser"
        /\ t > d /\ tasks[t].user = u /\ tasks[t].op \in {"startUser", "restartUser", "restartUserWithoutCache"}
DeletedStaysDown == \A u \in deleted : AskedAgain(u) \/ RunningIn(u) = {}

\* The worker died on a call that operation t awaits.
LostCall(t) ==
    \E c \in ChildIds : \E i \in DOMAIN children[c].lost :
        children[c].lost[i].task = t /\ children[c].lost[i].waits

\* The operation waits for ever, or is queued behind one of its user that does.
Stuck(t) ==
    \E s \in 1..t : /\ tasks[s].user = tasks[t].user /\ LostCall(s)
                    /\ s = t \/ tasks[s].op # "boot"

\* The user's lock is held by an operation that waits for ever, or the process
\* chosen for the user has lost two workers.
Abandoned(u) ==
    \/ \E t \in TaskIds : tasks[t].user = u /\ tasks[t].op # "boot" /\ LostCall(t)
    \/ engines[u] # 0 /\ ~DiedOnce(tasks[engines[u]].target)

\* Without calls that kill engines, every user's engine ends up running and
\* stays so, although workers die while they start, run or restart it, unless the
\* master went down, or the worker died on a call that an operation of the user
\* awaits with the lock, or was the second one its process lost.
EveryUserRuns ==
    <>[](up /\ ~stopped => \A u \in Users : RunningIn(u) # {} \/ Abandoned(u))

\* Every operation returns and its lock is released, whatever worker dies,
\* unless a worker died on the call that it, or an operation before it in the
\* queue of the lock, awaits: enginemanager.ts 182 handles the failure of such a
\* call, which the code does not bring about.
EveryCallReturns ==
    \A t \in 1..MaxTasks :
        <>[](t \in TaskIds => ~up \/ stopped \/ tasks[t].at = "done" \/ Stuck(t))

\* stop() returns and the master exits, whatever its workers were doing.
StopEnds == stopped ~> ~up

=============================================================================
