---------------------------- MODULE UserController ----------------------------
(***************************************************************************)
(* Engines on Kubernetes: the User resources that the website creates and  *)
(* deletes (src/src/almond/user_k8s.ts and the calls of                    *)
(* src/src/almond/enginemanagerclient_k8s.ts), the controller that         *)
(* reconciles them (src/go/k8s/controllers/user_controller.go), and the    *)
(* workers that run the engines (src/src/almond/worker_k8s.ts).            *)
(*                                                                         *)
(* The work queue of the controller holds a user once, and one user is     *)
(* reconciled at a time; a reconciliation is three steps: ask the worker,  *)
(* read the resource, act on both.                                         *)
(***************************************************************************)
EXTENDS Naturals, FiniteSets

CONSTANTS
  Absent,     \* no resource, no engine, no reconciliation
  Ids,        \* user ids, numbers
  NBackends,  \* replicas of the shared backend
  MaxEngines, \* bound: engines that are ever started
  MaxFaults,  \* bound: crashes of workers, failures of engines, rescalings
  MaxCalls    \* bound: calls of the website

Backends == 0..(NBackends - 1)
Engines == 1..MaxEngines

VARIABLES
  resource,  \* [Ids -> Absent or [backend, state, deleting]]
  queue,     \* users the controller is to look at
  timers,    \* users with a RequeueAfter
  rec,       \* the reconciliation in progress, or Absent
  ready,     \* number of ready endpoints of shared-backend
  entry,     \* [Backends -> [Ids -> Engines \cup {Absent}]]: engines of a worker
  engine,    \* [Engines -> [user, backend, phase, stopped] or Absent]
  restarts,  \* users between deleteUser and createUser of restartUser
  budget,    \* faults and calls so far
  late,      \* history: users of whom a killed engine failed
  moved      \* history: the number of endpoints changed

ucvars == <<resource, queue, timers, rec, ready, entry, engine, restarts, budget, late, moved>>

Started(n) == engine[n] # Absent
Live(n) == Started(n) /\ engine[n].phase \in {"init", "open", "running"}
\* A resource that is there and not marked for deletion.
Wanted(r) == r # Absent /\ ~r.deleting

SetEntry(b, u, v) == [entry EXCEPT ![b] = [@ EXCEPT ![u] = v]]
SetPhase(n, ph) == [engine EXCEPT ![n] = [@ EXCEPT !.phase = ph]]
Fault == budget.faults < MaxFaults /\ budget' = [budget EXCEPT !.faults = @ + 1]
Call == budget.calls < MaxCalls /\ budget' = [budget EXCEPT !.calls = @ + 1]

-----------------------------------------------------------------------------
(* The website: UserK8sApi.                                                *)

\* createUser: a resource that exists is left alone (409).
CreateUser(u) ==
  /\ resource' = IF resource[u] = Absent
                   THEN [resource EXCEPT ![u] = [backend |-> Absent, state |-> "", deleting |-> FALSE]]
                   ELSE resource
  /\ queue' = IF resource[u] = Absent THEN queue \cup {u} ELSE queue

\* deleteUser: gone at once, or marked with a deletionTimestamp.
DeleteUser(u) ==
  /\ resource[u] # Absent
  /\ \/ resource' = [resource EXCEPT ![u] = Absent]
     \/ resource' = [resource EXCEPT ![u] = [@ EXCEPT !.deleting = TRUE]]
  /\ queue' = queue \cup {u}

\* getEngine and startUser
StartUser(u) ==
  /\ Call /\ CreateUser(u)
  /\ UNCHANGED <<timers, rec, ready, entry, engine, restarts, late, moved>>
\* killUser and deleteUser
KillUser(u) ==
  /\ Call /\ DeleteUser(u)
  /\ UNCHANGED <<timers, rec, ready, entry, engine, restarts, late, moved>>
\* restartUser, restartUserWithoutCache: two calls one after the other.
RestartDelete(u) ==
  /\ u \notin restarts /\ Call /\ DeleteUser(u)
  /\ restarts' = restarts \cup {u}
  /\ UNCHANGED <<timers, rec, ready, entry, engine, late, moved>>
RestartCreate(u) ==
  /\ u \in restarts /\ CreateUser(u)
  /\ restarts' = restarts \ {u}
  /\ UNCHANGED <<timers, rec, ready, entry, engine, budget, late, moved>>
\* deleteAllUsers lists the resources and deletes them.
KillAllUsers ==
  /\ Call
  /\ resource' = [u \in Ids |-> Absent]
  /\ queue' = queue \cup {u \in Ids : resource[u] # Absent}
  /\ UNCHANGED <<timers, rec, ready, entry, engine, restarts, late, moved>>

\* The API server drops a resource that was marked.
CollectUser(u) ==
  /\ resource[u] # Absent /\ resource[u].deleting
  /\ resource' = [resource EXCEPT ![u] = Absent]
  /\ queue' = queue \cup {u}
  /\ UNCHANGED <<timers, rec, ready, entry, engine, restarts, budget, late, moved>>

-----------------------------------------------------------------------------
(* The controller: Reconcile.                                              *)

\* getBackendURL: the endpoints are ordered by name.
BackendOf(u) == u % ready

\* engineStatus of worker_k8s.ts
EngineStatus(b, u) ==
  IF entry[b][u] = Absent \/ engine[entry[b][u]].phase # "running" THEN "stopped" ELSE "running"

\* Takes a user from the queue and asks its worker. When there is none the
\* reconciliation fails, and a failed one is tried again.
RecStatus(u) ==
  /\ u \in queue /\ rec = Absent
  /\ IF ready = 0
       THEN UNCHANGED <<queue, rec>>
       ELSE /\ queue' = queue \ {u}
            /\ rec' = [user |-> u, backend |-> BackendOf(u), step |-> "get", was |-> Absent,
                       state |-> EngineStatus(BackendOf(u), u)]
  /\ UNCHANGED <<resource, timers, ready, entry, engine, restarts, budget, late, moved>>

\* Reads the resource.
RecGet ==
  /\ rec # Absent /\ rec.step = "get"
  /\ rec' = [rec EXCEPT !.step = "act", !.was = resource[rec.user]]
  /\ UNCHANGED <<resource, queue, timers, ready, entry, engine, restarts, budget, late, moved>>

\* runEngine of the worker: an engine that is there is left alone.
RunEngine_Mut(b, u) ==
  \E n \in Engines :
    /\ ~Started(n) /\ \A m \in Engines : m < n => Started(m)
    /\ engine' = [engine EXCEPT ![n] = [user |-> u, backend |-> b, phase |-> "init", stopped |-> FALSE]]
    /\ entry' = SetEntry(b, u, n)
RunEngine(b, u) ==
  \/ entry[b][u] # Absent /\ UNCHANGED <<engine, entry>>
  \/ /\ entry[b][u] = Absent
     /\ \E n \in Engines :
          /\ ~Started(n) /\ \A m \in Engines : m < n => Started(m)
          /\ engine' = [engine EXCEPT ![n] = [user |-> u, backend |-> b, phase |-> "init", stopped |-> FALSE]]
          /\ entry' = SetEntry(b, u, n)

\* killEngine of the worker: the engine is told to stop if there is one yet.
KillEngine(b, u) ==
  LET n == entry[b][u] IN
  IF n = Absent THEN UNCHANGED <<engine, entry>>
  ELSE /\ entry' = SetEntry(b, u, Absent)
       /\ engine' = [engine EXCEPT ![n] =
            [engine[n] EXCEPT !.stopped = TRUE, !.phase = IF @ = "running" THEN "closing" ELSE @]]

\* The deferred status update: refused if the resource changed since.
UpdateStatus(state) ==
  resource' = IF rec.was # Absent /\ resource[rec.user] = rec.was
                THEN [resource EXCEPT ![rec.user] = [rec.was EXCEPT !.backend = rec.backend, !.state = state]]
                ELSE resource

\* User is gone or marked: kill a running engine, and do not look again.
RecKill ==
  /\ rec # Absent /\ rec.step = "act"
  /\ ~Wanted(rec.was)
  /\ IF rec.state = "running" THEN KillEngine(rec.backend, rec.user)
                              ELSE UNCHANGED <<engine, entry>>
  /\ UpdateStatus(rec.state)
  /\ rec' = Absent
  /\ UNCHANGED <<queue, timers, ready, restarts, budget, late, moved>>

\* The engine runs: look again in 20 seconds.
RecRunning ==
  /\ rec # Absent /\ rec.step = "act"
  /\ Wanted(rec.was) /\ rec.state = "running"
  /\ UpdateStatus("running")
  /\ timers' = timers \cup {rec.user} /\ rec' = Absent
  /\ UNCHANGED <<queue, ready, entry, engine, restarts, budget, late, moved>>

\* It does not: start it, and look again in a second, or in two after an error.
RecStart_Mut ==
  /\ rec # Absent /\ rec.step = "act"
  /\ Wanted(rec.was) /\ rec.state # "running"
  /\ RunEngine(rec.backend, rec.user)
  /\ UpdateStatus("starting")
  /\ rec' = Absent
  /\ UNCHANGED <<queue, timers, ready, restarts, budget, late, moved>>
RecStart ==
  /\ rec # Absent /\ rec.step = "act"
  /\ Wanted(rec.was) /\ rec.state # "running"
  /\ RunEngine(rec.backend, rec.user)
  /\ UpdateStatus("starting")
  /\ timers' = timers \cup {rec.user} /\ rec' = Absent
  /\ UNCHANGED <<queue, ready, restarts, budget, late, moved>>

\* A request to the worker fails, or times out after ten seconds: after an
\* error of runEngine the controller looks again, after the others the queue
\* does.
RecFails ==
  /\ rec # Absent /\ rec.step = "act" /\ Fault
  /\ UpdateStatus("error")
  /\ rec' = Absent
  /\ IF Wanted(rec.was) /\ rec.state # "running"
       THEN timers' = timers \cup {rec.user} /\ UNCHANGED queue
       ELSE queue' = queue \cup {rec.user} /\ UNCHANGED timers
  /\ UNCHANGED <<ready, entry, engine, restarts, late, moved>>

\* A timer of the queue fires.
Requeue(u) ==
  /\ u \in timers
  /\ timers' = timers \ {u} /\ queue' = queue \cup {u}
  /\ UNCHANGED <<resource, rec, ready, entry, engine, restarts, budget, late, moved>>

-----------------------------------------------------------------------------
(* The workers: the promise chain of runEngine.                            *)

\* platform.init is done, then engine.open, then run; a killed engine skips
\* what is left and is closed.
Advance(n) ==
  /\ Started(n)
  /\ \/ engine[n].phase = "init" /\ engine' = SetPhase(n, IF engine[n].stopped THEN "closing" ELSE "open")
     \/ engine[n].phase = "open" /\ engine' = SetPhase(n, IF engine[n].stopped THEN "closing" ELSE "running")
     \/ engine[n].phase = "closing" /\ engine' = SetPhase(n, "closed")
  /\ UNCHANGED <<resource, queue, timers, rec, ready, entry, restarts, budget, late, moved>>

\* A fatal error, also one of close() or of an engine that was killed: the
\* entry of the user is deleted, whose ever it is.
EngineFails_Mut(n) ==
  /\ Live(n) \/ (Started(n) /\ engine[n].phase = "closing")
  /\ Fault
  /\ engine' = SetPhase(n, "closed")
  /\ UNCHANGED <<resource, queue, timers, rec, ready, entry, restarts, late, moved>>
EngineFails(n) ==
  LET u == engine[n].user IN
  /\ Live(n) \/ (Started(n) /\ engine[n].phase = "closing")
  /\ Fault
  /\ engine' = SetPhase(n, "closed")
  /\ entry' = SetEntry(engine[n].backend, u, Absent)
  /\ late' = IF entry[engine[n].backend][u] = n THEN late ELSE late \cup {u}
  /\ UNCHANGED <<resource, queue, timers, rec, ready, restarts, moved>>

\* The pod is replaced: its engines are gone.
WorkerCrash(b) ==
  /\ Fault /\ \E u \in Ids : entry[b][u] # Absent
  /\ engine' = [n \in Engines |-> IF Started(n) /\ engine[n].backend = b
                                    THEN [engine[n] EXCEPT !.phase = "closed"] ELSE engine[n]]
  /\ entry' = [entry EXCEPT ![b] = [u \in Ids |-> Absent]]
  /\ UNCHANGED <<resource, queue, timers, rec, ready, restarts, late, moved>>

\* Endpoints become ready, or a pod stops being ready.
Rescale(k) ==
  /\ k # ready /\ Fault
  /\ ready' = k
  /\ moved' = (moved \/ (k # 0 /\ k # NBackends))
  /\ UNCHANGED <<resource, queue, timers, rec, entry, engine, restarts, late>>

UCInit ==
  /\ resource = [u \in Ids |-> Absent]
  /\ queue = {} /\ timers = {}
  /\ rec = Absent
  /\ ready = NBackends
  /\ entry = [b \in Backends |-> [u \in Ids |-> Absent]]
  /\ engine = [n \in Engines |-> Absent]
  /\ restarts = {}
  /\ budget = [faults |-> 0, calls |-> 0]
  /\ late = {} /\ moved = FALSE

UCNext ==
  \/ \E u \in Ids : \/ StartUser(u) \/ KillUser(u) \/ RestartDelete(u) \/ RestartCreate(u)
                    \/ CollectUser(u) \/ RecStatus(u) \/ Requeue(u)
  \/ KillAllUsers
  \/ RecGet \/ RecKill \/ RecRunning \/ RecStart \/ RecFails
  \/ \E n \in Engines : Advance(n) \/ EngineFails(n)
  \/ \E b \in Backends : WorkerCrash(b)
  \/ \E k \in 0..NBackends : Rescale(k)

\* The controller works off its queue, a FIFO, so that a user that is queued
\* again and again is taken; timers fire and engines make progress. The
\* website's calls and the faults are not fair.
UCFairness ==
  /\ \A u \in Ids : SF_ucvars(RecStatus(u)) /\ WF_ucvars(Requeue(u))
  /\ WF_ucvars(RecGet) /\ WF_ucvars(RecKill \/ RecRunning \/ RecStart)
  /\ \A n \in Engines : WF_ucvars(Advance(n))

UCSpec == UCInit /\ [][UCNext]_ucvars /\ UCFairness

-----------------------------------------------------------------------------
(* Properties.                                                             *)

\* Type correctness.
UCTypeOK ==
  /\ queue \subseteq Ids /\ timers \subseteq Ids
  /\ ready \in 0..NBackends
  /\ \A b \in Backends, u \in Ids : entry[b][u] # Absent =>
       Live(entry[b][u]) /\ engine[entry[b][u]].user = u /\ engine[entry[b][u]].backend = b

\* A user has one engine, however creations, deletions and restarts of its
\* resource come between the steps of a reconciliation: two that are not being
\* stopped only if an engine that was killed failed later, and took the entry
\* of its successor with it, or the number of backends changed.
OneEngine ==
  \A m, n \in Engines :
    m # n /\ Live(m) /\ Live(n) /\ engine[m].user = engine[n].user
      /\ ~engine[m].stopped /\ ~engine[n].stopped
    => engine[m].user \in late \/ moved

\* A User resource gets its engine: it runs, or the resource is deleted again,
\* if there is a backend and the bound on engines leaves one to start.
UserRuns ==
  \A u \in Ids :
    Wanted(resource[u]) ~>
      \/ ~Wanted(resource[u])
      \/ ready = 0 \/ \A n \in Engines : Started(n)
      \/ \E b \in Backends : EngineStatus(b, u) = "running"
=============================================================================
