----------------------------- MODULE EngineClient -----------------------------
(***************************************************************************)
(* The website's end of the connections to the engines: the client of the  *)
(* engine managers (src/src/almond/enginemanagerclient.ts), and the one    *)
(* for Kubernetes (src/src/almond/enginemanagerclient_k8s.ts), which keeps *)
(* the same cache but asks the cluster first, so that its getEngine awaits *)
(* between looking at the cache and filling it.                            *)
(***************************************************************************)
EXTENDS Naturals, FiniteSets

CONSTANTS
  NoSocket,     \* no entry in _cachedEngines
  Callers,      \* users whose engines are asked for
  Shards, ShardOf, \* THINGENGINE_MANAGER_ADDRESS, userToShardId
  MaxSockets,   \* bound: connections to engines
  MaxDeaths     \* bound: how often an engine manager goes away

Sockets == 1..MaxSockets

VARIABLES
  mode,     \* "shards" or "k8s": which client runs, for good
  cached,   \* [Callers -> Sockets \cup {NoSocket}]: _cachedEngines
  socket,   \* [Sockets -> [user, st]]
  asking,   \* [Callers -> calls of getEngine that wait for the cluster]
  control,  \* [Shards -> state of the control channel]
  master,   \* [Shards -> BOOLEAN]: the engine manager is up
  stopping, \* _expectClose
  deaths    \* how often an engine manager went away

ecvars == <<mode, cached, socket, asking, control, master, stopping, deaths>>

Unused == [user |-> NoSocket, st |-> "none"]
Open(n) == socket[n].st \in {"opening", "ready", "failed"}
Set(n, st) == [socket[n] EXCEPT !.st = st]

\* A new connection to the engine of u takes the entry of the cache.
Connect(u) ==
  \E n \in Sockets :
    /\ socket[n] = Unused /\ \A m \in Sockets : m < n => socket[m] # Unused
    /\ socket' = [socket EXCEPT ![n] = [user |-> u, st |-> "opening"]]
    /\ cached' = [cached EXCEPT ![u] = n]

\* getEngine without an entry; with one it returns the promise of the entry.
GetEngine(u) ==
  /\ ~stopping /\ cached[u] = NoSocket
  /\ \/ mode = "shards" /\ Connect(u) /\ UNCHANGED asking
     \/ /\ mode = "k8s" /\ asking[u] < 2      \* bound: calls that wait
        /\ asking' = [asking EXCEPT ![u] = @ + 1]
        /\ UNCHANGED <<cached, socket>>
  /\ UNCHANGED <<mode, control, master, stopping, deaths>>

\* getUser, createUser, waitForUser and waitForEngine are through, or time out
\* after ten seconds each.
ClusterAnswers(u) ==
  /\ asking[u] > 0
  /\ asking' = [asking EXCEPT ![u] = @ - 1]
  /\ Connect(u) \/ UNCHANGED <<cached, socket>>
  /\ UNCHANGED <<mode, control, master, stopping, deaths>>

\* The stub's ready or error, or an error message: the promise is settled. A
\* rejected promise stays in the cache until its connection closes.
Settle(n, st) ==
  /\ socket[n].st = "opening"
  /\ socket' = [socket EXCEPT ![n] = Set(n, st)]
  /\ UNCHANGED <<mode, cached, asking, control, master, stopping, deaths>>

\* The peer ends the connection: the engine stopped, was not found, crashed.
PeerEnds(n) ==
  /\ Open(n)
  /\ socket' = [socket EXCEPT ![n] = Set(n, "closing")]
  /\ UNCHANGED <<mode, cached, asking, control, master, stopping, deaths>>

\* The close handler deletes the entry of the user, whose ever it is.
Close_Mut(n) ==
  /\ socket[n].st = "closing"
  /\ socket' = [socket EXCEPT ![n] = Set(n, "closed")]
  /\ cached' = IF stopping \/ \E m \in Sockets : m # n /\ socket[m].user = socket[n].user /\ Open(m)
                 THEN cached ELSE [cached EXCEPT ![socket[n].user] = NoSocket]
  /\ UNCHANGED <<mode, asking, control, master, stopping, deaths>>
Close(n) ==
  /\ socket[n].st = "closing"
  /\ socket' = [socket EXCEPT ![n] = Set(n, "closed")]
  /\ cached' = IF stopping THEN cached ELSE [cached EXCEPT ![socket[n].user] = NoSocket]
  /\ UNCHANGED <<mode, asking, control, master, stopping, deaths>>

\* killUser, deleteUser, clearCache, restartUser, restartUserWithoutCache: the
\* entry goes, the connection stays; then the call needs the control channel.
\* On Kubernetes they change the cluster and leave the cache alone.
Forget(u) ==
  /\ mode = "shards" /\ ~stopping /\ cached[u] # NoSocket
  /\ cached' = [cached EXCEPT ![u] = NoSocket]
  /\ UNCHANGED <<mode, socket, asking, control, master, stopping, deaths>>

\* What isRunning, getProcessId, startUser and the calls above need: a channel
\* whose end was not reported yet still passes.
CanCall(u) == mode = "shards" => control[ShardOf[u]] \in {"ready", "severed"}
\* killAllUsers goes through the shards it has a channel to.
KillAllUsersOk == \A s \in Shards : control[s] \in {"ready", "severed"}

-----------------------------------------------------------------------------
(* The control channels.                                                   *)

\* start(), and the timer ten seconds after a channel is severed. Neither asks
\* whether the client was stopped meanwhile.
ConnectControl_Mut(s) ==
  /\ mode = "shards" /\ control[s] = "new" /\ ~stopping
  /\ control' = [control EXCEPT ![s] = "connecting"]
  /\ UNCHANGED <<mode, cached, socket, asking, master, stopping, deaths>>
ConnectControl(s) ==
  /\ mode = "shards"
  /\ control[s] = "waiting" \/ (control[s] = "new" /\ ~stopping)
  /\ control' = [control EXCEPT ![s] = "connecting"]
  /\ UNCHANGED <<mode, cached, socket, asking, master, stopping, deaths>>

ControlReady(s) ==
  /\ control[s] = "connecting" /\ master[s]
  /\ control' = [control EXCEPT ![s] = "ready"]
  /\ UNCHANGED <<mode, cached, socket, asking, master, stopping, deaths>>

\* The end of the channel is reported, also when the manager is back already;
\* or it cannot be opened.
ControlClosed(s) ==
  /\ control[s] \in {"ending", "severed"} \/ (control[s] = "connecting" /\ ~master[s])
  /\ control' = [control EXCEPT ![s] = IF stopping THEN "closed" ELSE "waiting"]
  /\ UNCHANGED <<mode, cached, socket, asking, master, stopping, deaths>>

\* stop() ends the connections in the cache and the control channels.
Stop ==
  /\ ~stopping /\ stopping' = TRUE
  /\ socket' = [n \in Sockets |->
       IF Open(n) /\ cached[socket[n].user] = n THEN Set(n, "closing") ELSE socket[n]]
  /\ cached' = [u \in Callers |-> NoSocket]
  /\ control' = [s \in Shards |-> IF control[s] \in {"connecting", "ready", "severed"} THEN "ending" ELSE control[s]]
  /\ UNCHANGED <<mode, asking, master, deaths>>

\* External: the engine managers. One that dies takes its channel along.
MasterDies(s) ==
  /\ master[s] /\ deaths < MaxDeaths
  /\ master' = [master EXCEPT ![s] = FALSE] /\ deaths' = deaths + 1
  /\ control' = [control EXCEPT ![s] = IF @ \in {"connecting", "ready"} THEN "severed" ELSE @]
  /\ UNCHANGED <<mode, cached, socket, asking, stopping>>
MasterStarts(s) ==
  /\ ~master[s] /\ master' = [master EXCEPT ![s] = TRUE]
  /\ UNCHANGED <<mode, cached, socket, asking, control, stopping, deaths>>

ECInit ==
  /\ mode \in {"shards", "k8s"}
  /\ cached = [u \in Callers |-> NoSocket]
  /\ socket = [n \in Sockets |-> Unused]
  /\ asking = [u \in Callers |-> 0]
  /\ control = [s \in Shards |-> "new"]
  /\ master \in [Shards -> BOOLEAN]
  /\ stopping = FALSE
  /\ deaths = 0

ECNext ==
  \/ \E u \in Callers : GetEngine(u) \/ ClusterAnswers(u) \/ Forget(u)
  \/ \E n \in Sockets : Settle(n, "ready") \/ Settle(n, "failed") \/ PeerEnds(n) \/ Close(n)
  \/ \E s \in Shards :
       ConnectControl(s) \/ ControlReady(s) \/ ControlClosed(s) \/ MasterDies(s) \/ MasterStarts(s)
  \/ Stop

\* Sockets report what happened to them, timers fire, and an engine manager
\* that went away is started again.
ECFairness ==
  /\ \A s \in Shards :
       /\ WF_ecvars(ConnectControl(s)) /\ WF_ecvars(ControlReady(s))
       /\ WF_ecvars(ControlClosed(s)) /\ WF_ecvars(MasterStarts(s))
  /\ \A n \in Sockets : WF_ecvars(Close(n))

ECSpec == ECInit /\ [][ECNext]_ecvars /\ ECFairness

-----------------------------------------------------------------------------
(* Properties.                                                             *)

\* Type correctness.
ECTypeOK ==
  /\ cached \in [Callers -> Sockets \cup {NoSocket}]
  /\ \A n \in Sockets : socket[n].st \in {"none", "opening", "ready", "failed", "closing", "closed"}
  /\ control \in [Shards -> {"new", "connecting", "ready", "severed", "waiting", "ending", "closed"}]

\* getEngine never returns the engine of a connection that is known to be
\* closed: a request that comes after the close gets a new connection, also
\* when connections of the same user overlapped (the close handler deletes the
\* entry even when it belongs to a newer connection).
NoClosedEngine ==
  \A u \in Callers :
    ~stopping /\ cached[u] # NoSocket => socket[cached[u]].st # "closed"

\* The website reaches its engine managers again: a control channel that was
\* severed becomes ready once the manager stays up.
Reconnects ==
  \A s \in Shards :
    mode = "shards" /\ control[s] \in {"severed", "waiting"} /\ ~stopping ~> control[s] = "ready" \/ stopping
=============================================================================
