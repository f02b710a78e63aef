-------------------------- MODULE MCClusterProofs ---------------------------
(***************************************************************************)
(* Proofs about the parts that recover from processes and connections that *)
(* go away, for every set of users, jobs and runs of the watcher and for   *)
(* any number of connections, engines, messages, crashes and calls.        *)
(***************************************************************************)
EXTENDS MCCluster, TLAPS, SequenceTheorems

-----------------------------------------------------------------------------
(* The client of the engine managers                                       *)

SocketStates == {"none", "opening", "ready", "failed", "closing", "closed"}
SocketRecords == [user : Callers \cup {NoSocket}, st : SocketStates]

\* An entry of the cache is a connection of its own user that is not closed;
\* after stop() nobody may rely on the cache any more.
ClientInv ==
  /\ EC!ECTypeOK
  /\ socket \in [EC!Sockets -> SocketRecords]
  /\ \A u \in Callers :
       ~stopping /\ cached[u] # NoSocket =>
         /\ socket[cached[u]].user = u
         /\ socket[cached[u]].st \notin {"none", "closed"}

LEMMA ClientSafe == ClientInv => EC!NoClosedEngine
BY DEF ClientInv, EC!NoClosedEngine

LEMMA ClientInit == EC!ECInit => ClientInv
BY DEF EC!ECInit, ClientInv, EC!ECTypeOK, EC!Unused, SocketRecords, SocketStates

LEMMA ClientIdle == ClientInv /\ UNCHANGED clientVars => ClientInv'
BY DEF ClientInv, EC!ECTypeOK, clientVars, EC!Sockets

\* A connection that changes its state, but does not close, disturbs nothing.
LEMMA SocketMoves ==
  ASSUME ClientInv, NEW n \in EC!Sockets, NEW st \in SocketStates \ {"none", "closed"},
         socket' = [socket EXCEPT ![n] = EC!Set(n, st)],
         UNCHANGED <<cached, control, stopping>>
  PROVE  ClientInv'
<1>1. /\ EC!Set(n, st) \in SocketRecords /\ EC!Set(n, st).st = st
      /\ EC!Set(n, st).user = socket[n].user
  BY DEF ClientInv, EC!Set, SocketRecords
<1>2. socket' \in [EC!Sockets -> SocketRecords]
  BY <1>1 DEF ClientInv
<1>3. EC!ECTypeOK'
  BY <1>2 DEF ClientInv, EC!ECTypeOK, SocketRecords, SocketStates, EC!Sockets
<1>4. \A u \in Callers : cached[u] \in EC!Sockets \cup {NoSocket}
  BY DEF ClientInv, EC!ECTypeOK
<1>5. \A m \in EC!Sockets :
        /\ socket'[m].user = socket[m].user
        /\ socket'[m].st \in {"none", "closed"} => socket[m].st \in {"none", "closed"}
  BY <1>1 DEF ClientInv
<1>6. QED
  BY <1>2, <1>3, <1>4, <1>5 DEF ClientInv

LEMMA ConnectStep ==
  ASSUME ClientInv, NEW u \in Callers, EC!Connect(u), UNCHANGED <<control, stopping>>
  PROVE  ClientInv'
<1>1. PICK n \in EC!Sockets :
        /\ socket[n] = EC!Unused
        /\ socket' = [socket EXCEPT ![n] = [user |-> u, st |-> "opening"]]
        /\ cached' = [cached EXCEPT ![u] = n]
  BY DEF EC!Connect
<1>2. [user |-> u, st |-> "opening"] \in SocketRecords
  BY DEF SocketRecords, SocketStates
<1>3. /\ socket' \in [EC!Sockets -> SocketRecords]
      /\ socket'[n].user = u /\ socket'[n].st = "opening"
      /\ \A m \in EC!Sockets : m # n => socket'[m] = socket[m]
  BY <1>1, <1>2 DEF ClientInv
<1>4. /\ cached' \in [Callers -> EC!Sockets \cup {NoSocket}] /\ cached'[u] = n
      /\ \A v \in Callers : v # u => cached'[v] = cached[v]
  BY <1>1 DEF ClientInv, EC!ECTypeOK
<1>5. EC!ECTypeOK'
  BY <1>3, <1>4 DEF ClientInv, EC!ECTypeOK, SocketRecords, SocketStates, EC!Sockets
<1>6. ASSUME NEW v \in Callers, ~stopping, cached'[v] # NoSocket
      PROVE  socket'[cached'[v]].user = v /\ socket'[cached'[v]].st \notin {"none", "closed"}
  <2>1. CASE v = u
    BY <2>1, <1>3, <1>4
  <2>2. CASE v # u
    <3>1. /\ cached'[v] = cached[v] /\ cached[v] \in EC!Sockets
          /\ socket[cached[v]].user = v /\ socket[cached[v]].st \notin {"none", "closed"}
      BY <2>2, <1>4, <1>6 DEF ClientInv, EC!ECTypeOK
    <3>2. socket[n].st = "none"
      BY <1>1 DEF EC!Unused
    <3>3. QED
      BY <1>3, <3>1, <3>2
  <2>3. QED
    BY <2>1, <2>2
<1>7. QED
  BY <1>3, <1>5, <1>6 DEF ClientInv

\* The close handler deletes the entry of the user of the connection.
LEMMA CloseStep ==
  ASSUME ClientInv, NEW n \in EC!Sockets, EC!Close(n)
  PROVE  ClientInv'
<1>1. /\ socket' = [socket EXCEPT ![n] = EC!Set(n, "closed")]
      /\ cached' = IF stopping THEN cached ELSE [cached EXCEPT ![socket[n].user] = NoSocket]
      /\ UNCHANGED <<control, stopping>>
  BY DEF EC!Close
<1>2. EC!Set(n, "closed") \in SocketRecords
  BY DEF ClientInv, EC!Set, SocketRecords, SocketStates
<1>3. /\ socket' \in [EC!Sockets -> SocketRecords]
      /\ \A m \in EC!Sockets : m # n => socket'[m] = socket[m]
  BY <1>1, <1>2 DEF ClientInv
<1>4. cached' \in [Callers -> EC!Sockets \cup {NoSocket}]
  BY <1>1 DEF ClientInv, EC!ECTypeOK
<1>5. EC!ECTypeOK'
  BY <1>1, <1>3, <1>4 DEF ClientInv, EC!ECTypeOK, SocketRecords, SocketStates, EC!Sockets
<1>6. ASSUME NEW v \in Callers, ~stopping, cached'[v] # NoSocket
      PROVE  socket'[cached'[v]].user = v /\ socket'[cached'[v]].st \notin {"none", "closed"}
  <2>1. v # socket[n].user /\ cached'[v] = cached[v]
    BY <1>1, <1>6 DEF ClientInv, EC!ECTypeOK
  <2>2. /\ cached[v] \in EC!Sockets /\ socket[cached[v]].user = v
        /\ socket[cached[v]].st \notin {"none", "closed"}
    BY <1>6, <2>1 DEF ClientInv, EC!ECTypeOK
  <2>3. QED
    BY <1>3, <2>1, <2>2
<1>7. QED
  BY <1>1, <1>3, <1>5, <1>6 DEF ClientInv

LEMMA ForgetStep ==
  ASSUME ClientInv, NEW u \in Callers, EC!Forget(u)
  PROVE  ClientInv'
BY DEF EC!Forget, ClientInv, EC!ECTypeOK, EC!Sockets

LEMMA ClientStopStep ==
  ASSUME ClientInv, EC!Stop
  PROVE  ClientInv'
<1>1. socket' \in [EC!Sockets -> SocketRecords]
  <2>1. \A n \in EC!Sockets : EC!Set(n, "closing") \in SocketRecords
    BY DEF ClientInv, EC!Set, SocketRecords, SocketStates
  <2>2. QED
    BY <2>1 DEF EC!Stop, ClientInv
<1>2. /\ cached' \in [Callers -> EC!Sockets \cup {NoSocket}] /\ stopping'
      /\ control' \in [Shards -> {"new", "connecting", "ready", "severed", "waiting", "ending", "closed"}]
  BY DEF EC!Stop, ClientInv, EC!ECTypeOK
<1>3. QED
  BY <1>1, <1>2 DEF ClientInv, EC!ECTypeOK, SocketRecords, SocketStates, EC!Sockets

\* The control channels.
LEMMA ControlStep ==
  ASSUME ClientInv, NEW s \in Shards,
         \/ EC!ConnectControl(s) \/ EC!ControlReady(s) \/ EC!ControlClosed(s)
         \/ EC!MasterDies(s) \/ EC!MasterStarts(s)
  PROVE  ClientInv'
<1>1. /\ control' \in [Shards -> {"new", "connecting", "ready", "severed", "waiting", "ending", "closed"}]
      /\ UNCHANGED <<cached, socket, stopping>>
  BY DEF EC!ConnectControl, EC!ControlReady, EC!ControlClosed, EC!MasterDies,
         EC!MasterStarts, ClientInv, EC!ECTypeOK
<1>2. QED
  BY <1>1 DEF ClientInv, EC!ECTypeOK, EC!Sockets

LEMMA ClientNext == ClientInv /\ EC!ECNext => ClientInv'
<1> SUFFICES ASSUME ClientInv, EC!ECNext PROVE ClientInv'
  OBVIOUS
<1>1. ASSUME NEW u \in Callers, EC!GetEngine(u) \/ EC!ClusterAnswers(u) PROVE ClientInv'
  <2>1. CASE EC!Connect(u)
    BY <1>1, <2>1, ConnectStep DEF EC!GetEngine, EC!ClusterAnswers
  <2>2. CASE UNCHANGED <<cached, socket>>
    BY <1>1, <2>2 DEF EC!GetEngine, EC!ClusterAnswers, ClientInv, EC!ECTypeOK, EC!Sockets
  <2>3. QED
    BY <1>1, <2>1, <2>2 DEF EC!GetEngine, EC!ClusterAnswers
<1>2. ASSUME NEW n \in EC!Sockets,
             EC!Settle(n, "ready") \/ EC!Settle(n, "failed") \/ EC!PeerEnds(n)
      PROVE  ClientInv'
  <2>1. {"ready", "failed", "closing"} \subseteq SocketStates \ {"none", "closed"}
    BY DEF SocketStates
  <2>2. QED
    BY <1>2, <2>1, SocketMoves DEF EC!Settle, EC!PeerEnds
<1>3. QED
  BY <1>1, <1>2, CloseStep, ForgetStep, ControlStep, ClientStopStep DEF EC!ECNext

-----------------------------------------------------------------------------
(* The speech recognizer                                                   *)

\* The websocket is answered when it is closed, the push stream is open until
\* the audio has ended, and the service ends a session once.
SpeechInv ==
  /\ SP!STypeOK
  /\ SP!SpeechOnce
  /\ ws = "open" => answers = 0
  /\ hearing = "audio" /\ ~ended => push
  /\ hearing = "initial" => starting = "no"
  /\ starting \in {"no", "pending"} => service = "off"
  /\ service = "off" => ending = 0
  /\ service = "on" => ending <= 1

LEMMA SpeechInit == SP!SInit => SpeechInv
BY BoundsAssumption DEF SP!SInit, SpeechInv, SP!STypeOK, SP!SpeechOnce

LEMMA SpeechIdle == SpeechInv /\ UNCHANGED speechVars => SpeechInv'
BY DEF SpeechInv, SP!STypeOK, SP!SpeechOnce, speechVars

\* An answer goes to an open websocket, and closes it.
LEMMA SpeechAnswer ==
  ASSUME SpeechInv, SP!Answers
  PROVE  ws' = "closed" /\ answers' \in Nat /\ answers' <= 1
BY DEF SpeechInv, SP!STypeOK, SP!SpeechOnce, SP!Answers

LEMMA SpeechSettle ==
  ASSUME SpeechInv, NEW as \in {"text", "error"}, SP!Settle(as)
  PROVE  /\ ws' \in {"open", "closed"} /\ (ws' = "open" => answers' = 0)
         /\ answers' \in Nat /\ answers' <= 1
         /\ settled' \in {"no", "text", "error"}
BY SpeechAnswer DEF SP!Settle, SP!Answers, SpeechInv, SP!STypeOK, SP!SpeechOnce

LEMMA SpeechNext == SpeechInv /\ SP!SNext => SpeechInv'
<1> SUFFICES ASSUME SpeechInv, SP!SNext PROVE SpeechInv'
  OBVIOUS
<1>1. CASE SP!SessionTimeout \/ SP!BadPacket
  BY <1>1, SpeechAnswer
     DEF SP!SessionTimeout, SP!BadPacket, SpeechInv, SP!STypeOK, SP!SpeechOnce
<1>2. CASE SP!InitialPacket \/ SP!LastPacket \/ SP!ClientCloses
  BY <1>2 DEF SP!InitialPacket, SP!LastPacket, SP!ClientCloses, SP!Stop, SpeechInv,
              SP!STypeOK, SP!SpeechOnce
<1>3. CASE SP!Audio
  <2>1. ~broken'
    BY <1>3, Zenon DEF SP!Audio, SpeechInv, SP!SpeechOnce
  <2>2. audio' \in 0..MaxAudio /\ lastFC' \in 0..3
    BY <1>3, BoundsAssumption DEF SP!Audio, SpeechInv, SP!STypeOK
  <2>3. QED
    BY <1>3, <2>1, <2>2 DEF SP!Audio, SpeechInv, SP!STypeOK, SP!SpeechOnce
<1>4. CASE SP!Started \/ SP!Recognized
  BY <1>4 DEF SP!Started, SP!Recognized, SpeechInv, SP!STypeOK, SP!SpeechOnce
<1>5. CASE SP!Tick
  <2>1. hearing = "audio" /\ ~ended' => push'
    BY <1>5, Zenon DEF SP!Tick, SP!Stop, SpeechInv
  <2>2. lastFC' \in 0..3
    BY <1>5 DEF SP!Tick, SpeechInv, SP!STypeOK
  <2>3. QED
    BY <1>5, <2>1, <2>2 DEF SP!Tick, SpeechInv, SP!STypeOK, SP!SpeechOnce
<1>6. CASE SP!NoMatch \/ SP!SessionStopped
  BY <1>6 DEF SP!NoMatch, SP!SessionStopped, SpeechInv, SP!STypeOK, SP!SpeechOnce
<1>7. CASE SP!StartFailed
  BY <1>7, SpeechSettle DEF SP!StartFailed, SpeechInv, SP!STypeOK, SP!SpeechOnce
<1>8. CASE SP!Stopped \/ SP!StopFailed
  BY <1>8, SpeechSettle DEF SP!Stopped, SP!StopFailed, SpeechInv, SP!STypeOK, SP!SpeechOnce
<1>9. QED
  BY <1>1, <1>2, <1>3, <1>4, <1>5, <1>6, <1>7, <1>8 DEF SP!SNext

-----------------------------------------------------------------------------
(* The training jobs                                                       *)

Ends == {"succeeded", "failed", "deleted"}
Events == [task : Tasks, what : Ends]

TrainingTypes ==
  /\ TB!TBTypeOK
  /\ outcome \in [Tasks -> Ends \cup {"none"}]
  /\ events \in [Loops -> Seq(Events)]

\* A job that is there has no outcome yet or the one that it shows.
OutcomeShown ==
  \A t \in Tasks :
    /\ job[t] \in {"none", "running"} <=> outcome[t] = "none"
    /\ job[t] \in {"succeeded", "failed"} => outcome[t] = job[t]

\* What is on its way to the watches is the outcome.
EventsTrue ==
  \A l \in Loops : \A i \in 1..Len(events[l]) :
    events[l][i].what = outcome[events[l][i].task]

\* Who waits is watched for; only the end of a job, or giving up, changes that.
TrainingInv ==
  /\ TrainingTypes
  /\ OutcomeShown /\ EventsTrue
  /\ TB!Waiting(waiter) \subseteq watched
  /\ TB!OutcomeReported /\ TB!WaiterWatched

LEMMA TrainingInit == TB!TBInit => TrainingInv
<1> SUFFICES ASSUME TB!TBInit PROVE TrainingInv
  OBVIOUS
<1>1. TrainingTypes
  BY BoundsAssumption DEF TB!TBInit, TrainingTypes, TB!TBTypeOK, Ends
<1>2. EventsTrue
  BY DEF TB!TBInit, EventsTrue
<1>3. OutcomeShown /\ TB!Waiting(waiter) = {} /\ TB!OutcomeReported /\ TB!WaiterWatched
  BY DEF TB!TBInit, OutcomeShown, TB!Waiting, TB!OutcomeReported, TB!WaiterWatched
<1>4. QED
  BY <1>1, <1>2, <1>3 DEF TrainingInv

LEMMA TrainingIdle == TrainingInv /\ UNCHANGED trainingVars => TrainingInv'
BY DEF TrainingInv, TrainingTypes, TB!TBTypeOK, OutcomeShown, EventsTrue, TB!Waiting,
       TB!OutcomeReported, TB!WaiterWatched, trainingVars

\* Settling with the outcomes of jobs: nobody waits for them any more, and who
\* is told anything is told the outcome.
LEMMA Settling ==
  ASSUME TrainingInv, NEW over,
         \A t \in Tasks \cap DOMAIN over : over[t] \in Ends /\ over[t] = outcome[t]
  PROVE  /\ TB!Settle(over) \in [Tasks -> {"idle", "waiting", "ok", "error", "gone"}]
         /\ TB!Waiting(TB!Settle(over)) \subseteq TB!Waiting(waiter)
         /\ TB!Waiting(TB!Settle(over)) \subseteq watched \ DOMAIN over
         /\ \A t \in Tasks :
              /\ TB!Settle(over)[t] = "ok" => outcome[t] = "succeeded"
              /\ TB!Settle(over)[t] = "error" =>
                   outcome[t] \in {"failed", "deleted"} \/ t \in gaveUp
<1>1. /\ waiter \in [Tasks -> {"idle", "waiting", "ok", "error", "gone"}]
      /\ TB!Waiting(waiter) \subseteq watched /\ watched \subseteq Tasks
  BY DEF TrainingInv, TrainingTypes, TB!TBTypeOK
<1>2. \A t \in Tasks :
        \/ t \in TB!Waiting(waiter) /\ t \in DOMAIN over
             /\ TB!Settle(over)[t] = TB!Answer(over[t])
        \/ ~(t \in TB!Waiting(waiter) /\ t \in DOMAIN over)
             /\ TB!Settle(over)[t] = waiter[t]
  BY <1>1 DEF TB!Settle, TB!Waiting
<1>3. \A t \in Tasks \cap DOMAIN over :
        \/ TB!Answer(over[t]) = "ok" /\ outcome[t] = "succeeded"
        \/ TB!Answer(over[t]) = "error" /\ outcome[t] \in {"failed", "deleted"}
  BY DEF TB!Answer, Ends
<1>4. TB!Settle(over) \in [Tasks -> {"idle", "waiting", "ok", "error", "gone"}]
  <2>1. DOMAIN TB!Settle(over) = Tasks /\ TB!Settle(over) = [t \in Tasks |-> TB!Settle(over)[t]]
    BY DEF TB!Settle
  <2>2. \A t \in Tasks : TB!Settle(over)[t] \in {"idle", "waiting", "ok", "error", "gone"}
    BY <1>1, <1>2, <1>3
  <2>3. QED
    BY <2>1, <2>2
<1>5. \A t \in Tasks : TB!Settle(over)[t] = "waiting" =>
        t \in TB!Waiting(waiter) /\ t \notin DOMAIN over
  BY <1>2, <1>3 DEF TB!Waiting
<1>6. \A t \in TB!Waiting(TB!Settle(over)) : t \in Tasks /\ TB!Settle(over)[t] = "waiting"
  BY DEF TB!Waiting
<1>7. \A t \in Tasks :
        /\ TB!Settle(over)[t] = "ok" => outcome[t] = "succeeded"
        /\ TB!Settle(over)[t] = "error" =>
             outcome[t] \in {"failed", "deleted"} \/ t \in gaveUp
  BY <1>2, <1>3 DEF TrainingInv, TB!OutcomeReported
<1>8. QED
  BY <1>1, <1>4, <1>5, <1>6, <1>7

\* Deleting jobs that succeeded changes no outcome.
LEMMA Cleaning ==
  ASSUME TrainingInv, NEW over,
         job' = [t \in Tasks |-> IF t \in TB!Cleaned(over) THEN "deleted" ELSE job[t]],
         outcome' = outcome
  PROVE  /\ job' \in [Tasks -> {"none", "running", "succeeded", "failed", "deleted"}]
         /\ OutcomeShown'
<1>1. /\ job \in [Tasks -> {"none", "running", "succeeded", "failed", "deleted"}]
      /\ \A t \in TB!Cleaned(over) : job[t] = "succeeded"
  BY DEF TrainingInv, TrainingTypes, TB!TBTypeOK, TB!Cleaned
<1>2. QED
  BY <1>1 DEF TrainingInv, OutcomeShown

\* Closing the watcher aborts a watch, but ends none.
LEMMA Aborting ==
  ASSUME TrainingInv, NEW w
  PROVE  /\ TB!Abort(w, loop) \in [Loops -> {"off", "listing", "watching", "aborted"}]
         /\ \A l \in Loops : TB!Abort(w, loop)[l] = "off" <=> loop[l] = "off"
BY DEF TrainingInv, TrainingTypes, TB!TBTypeOK, TB!Abort

LEMMA ListedStep ==
  ASSUME TrainingInv, NEW l \in Loops, TB!Listed(l)
  PROVE  TrainingInv'
<1> DEFINE gone == {u \in Tasks : job[u] \in {"succeeded", "failed"}}
           over == [t \in gone |-> job[t]]
           w == TB!Settle(over)
           left == watched \ DOMAIN over
<1>1. /\ loop[l] = "listing"
      /\ waiter' = w /\ watched' = left
      /\ job' = [t \in Tasks |-> IF t \in TB!Cleaned(over) THEN "deleted" ELSE job[t]]
      /\ loop' = [TB!Abort(w, loop) EXCEPT ![l] = IF left = {} THEN "off" ELSE "watching"]
      /\ req' = IF left = {} THEN req ELSE l
      /\ events' = [events EXCEPT ![l] = <<>>]
      /\ UNCHANGED <<tries, drops, outcome, gaveUp, missed>>
  BY DEF TB!Listed
<1>2. \A t \in Tasks \cap DOMAIN over : over[t] \in Ends /\ over[t] = outcome[t]
  BY DEF TrainingInv, OutcomeShown, Ends
<1>3. /\ w \in [Tasks -> {"idle", "waiting", "ok", "error", "gone"}]
      /\ TB!Waiting(w) \subseteq left
      /\ \A t \in Tasks :
           /\ w[t] = "ok" => outcome[t] = "succeeded"
           /\ w[t] = "error" => outcome[t] \in {"failed", "deleted"} \/ t \in gaveUp
  BY <1>2, Settling
<1>4. /\ job' \in [Tasks -> {"none", "running", "succeeded", "failed", "deleted"}]
      /\ OutcomeShown'
  BY <1>1, Cleaning
<1>5. left \subseteq Tasks
  BY DEF TrainingInv, TrainingTypes, TB!TBTypeOK
<1> HIDE DEF over, w, left
<1>6. /\ loop' \in [Loops -> {"off", "listing", "watching", "aborted"}]
      /\ left # {} => loop'[l] = "watching"
  BY <1>1, Aborting
<1>7. events' \in [Loops -> Seq(Events)] /\ EventsTrue'
  <2>1. events \in [Loops -> Seq(Events)] /\ EventsTrue
    BY DEF TrainingInv, TrainingTypes
  <2>2. QED
    BY <1>1, <2>1 DEF EventsTrue
<1>8. TrainingTypes'
  <2>1. /\ watched' \subseteq Tasks /\ tries' \in Int /\ req' \in Loops \cup {NoLoop}
        /\ outcome' \in [Tasks -> Ends \cup {"none"}]
    BY <1>1, <1>5 DEF TrainingInv, TrainingTypes, TB!TBTypeOK
  <2>2. QED
    BY <1>1, <1>3, <1>4, <1>6, <1>7, <2>1 DEF TrainingTypes, TB!TBTypeOK
<1>9. TB!Waiting(waiter') \subseteq watched' /\ TB!OutcomeReported' /\ TB!WaiterWatched'
  BY <1>1, <1>3, <1>6 DEF TB!OutcomeReported, TB!WaiterWatched
<1>10. QED
  BY <1>4, <1>7, <1>8, <1>9 DEF TrainingInv

LEMMA EventStep ==
  ASSUME TrainingInv, NEW l \in Loops, TB!Event(l)
  PROVE  TrainingInv'
<1> DEFINE e == Head(events[l])
           over == [t \in {e.task} |-> e.what]
           w == TB!Settle(over)
<1>1. /\ loop[l] = "watching" /\ events[l] # <<>>
      /\ waiter' = w
      /\ watched' = watched \ {e.task}
      /\ job' = [t \in Tasks |-> IF t \in TB!Cleaned(over) THEN "deleted" ELSE job[t]]
      /\ loop' = TB!Abort(w, loop)
      /\ events' = [events EXCEPT ![l] = Tail(@)]
      /\ UNCHANGED <<tries, req, drops, outcome, gaveUp>>
  BY DEF TB!Event
<1>2. events \in [Loops -> Seq(Events)]
  BY DEF TrainingInv, TrainingTypes
<1>3. e = events[l][1] /\ 1 \in 1..Len(events[l]) /\ e \in Events
  BY <1>1, <1>2
<1>4. e.what \in Ends /\ e.what = outcome[e.task] /\ DOMAIN over = {e.task}
  BY <1>3 DEF TrainingInv, EventsTrue, Events
<1>5. \A t \in Tasks \cap DOMAIN over : over[t] \in Ends /\ over[t] = outcome[t]
  BY <1>4
<1>6. /\ w \in [Tasks -> {"idle", "waiting", "ok", "error", "gone"}]
      /\ TB!Waiting(w) \subseteq TB!Waiting(waiter)
      /\ TB!Waiting(w) \subseteq watched \ {e.task}
      /\ \A t \in Tasks :
           /\ w[t] = "ok" => outcome[t] = "succeeded"
           /\ w[t] = "error" => outcome[t] \in {"failed", "deleted"} \/ t \in gaveUp
  BY <1>4, <1>5, Settling
<1>7. /\ job' \in [Tasks -> {"none", "running", "succeeded", "failed", "deleted"}]
      /\ OutcomeShown'
  BY <1>1, Cleaning
<1> HIDE DEF e, over, w
<1>8. /\ loop' \in [Loops -> {"off", "listing", "watching", "aborted"}]
      /\ \A k \in Loops : loop'[k] = "off" <=> loop[k] = "off"
  BY <1>1, Aborting
<1>9. events' \in [Loops -> Seq(Events)] /\ EventsTrue'
  <2>1. /\ events' \in [Loops -> Seq(Events)]
        /\ \A k \in Loops : k # l => events'[k] = events[k]
        /\ events'[l] = Tail(events[l])
    BY <1>1, <1>2
  <2>2. /\ Len(events'[l]) = Len(events[l]) - 1
        /\ \A i \in 1..Len(events'[l]) :
             i + 1 \in 1..Len(events[l]) /\ events'[l][i] = events[l][i + 1]
    BY <1>1, <1>2, <2>1
  <2>3. QED
    BY <1>1, <2>1, <2>2 DEF TrainingInv, EventsTrue
<1>10. TrainingTypes'
  BY <1>1, <1>6, <1>7, <1>8, <1>9 DEF TrainingInv, TrainingTypes, TB!TBTypeOK
<1>11. TB!Waiting(waiter') \subseteq watched' /\ TB!OutcomeReported' /\ TB!WaiterWatched'
  BY <1>1, <1>6, <1>8 DEF TrainingInv, TB!OutcomeReported, TB!WaiterWatched
<1>12. QED
  BY <1>7, <1>9, <1>10, <1>11 DEF TrainingInv

\* The end of a watch: another one as long as somebody is watched for, unless
\* all of them are given up.
LEMMA StartOverStep ==
  ASSUME TrainingInv, NEW l \in Loops, TB!StartOver(l),
         events' = [events EXCEPT ![l] = <<>>],
         UNCHANGED <<job, watched, req, outcome>>
  PROVE  TrainingInv'
<1>1. TrainingTypes /\ TB!TBTypeOK /\ OutcomeShown /\ EventsTrue /\ TB!OutcomeReported
      /\ TB!Waiting(waiter) \subseteq watched
  BY DEF TrainingInv, TrainingTypes
<1>2. events' \in [Loops -> Seq(Events)] /\ EventsTrue' /\ OutcomeShown'
  BY <1>1 DEF TrainingTypes, EventsTrue, OutcomeShown
<1>3. /\ loop' \in [Loops -> {"off", "listing", "watching", "aborted"}]
      /\ waiter' \in [Tasks -> {"idle", "waiting", "ok", "error", "gone"}]
      /\ tries' \in Int
  BY <1>1 DEF TB!StartOver, TB!TBTypeOK
<1>4. TrainingTypes'
  BY <1>1, <1>2, <1>3 DEF TrainingTypes, TB!TBTypeOK
<1>5. CASE watched = {} \/ tries = 1
  <2>1. TB!Waiting(waiter') = {}
    BY <1>1, <1>5 DEF TB!StartOver, TB!Waiting
  <2>2. TB!OutcomeReported'
    BY <1>1, <1>5 DEF TB!StartOver, TB!OutcomeReported, TB!Waiting, TB!TBTypeOK
  <2>3. QED
    BY <1>2, <1>4, <2>1, <2>2 DEF TrainingInv, TB!WaiterWatched
<1>6. CASE watched # {} /\ tries # 1
  <2>1. waiter' = waiter /\ gaveUp' = gaveUp /\ loop'[l] = "listing"
    BY <1>1, <1>6 DEF TB!StartOver, TB!TBTypeOK
  <2>2. QED
    BY <1>1, <1>2, <1>4, <2>1 DEF TrainingInv, TB!OutcomeReported, TB!WaiterWatched
<1>7. QED
  BY <1>5, <1>6

LEMMA WaitStep ==
  ASSUME TrainingInv, NEW t \in Tasks, TB!Wait(t)
  PROVE  TrainingInv'
<1>1. /\ waiter[t] = "idle" /\ waiter' = [waiter EXCEPT ![t] = "waiting"]
      /\ watched' = watched \cup {t} /\ tries' = MaxTries
      /\ UNCHANGED <<job, events, req, drops, outcome, gaveUp>>
  BY DEF TB!Wait
<1>2. /\ waiter' \in [Tasks -> {"idle", "waiting", "ok", "error", "gone"}]
      /\ \A u \in Tasks : u # t => waiter'[u] = waiter[u]
      /\ waiter'[t] = "waiting"
  BY <1>1 DEF TrainingInv, TrainingTypes, TB!TBTypeOK
<1>3. /\ loop' \in [Loops -> {"off", "listing", "watching", "aborted"}]
      /\ \E l \in Loops : loop'[l] # "off"
  <2>1. CASE TB!Waiting(waiter) = {}
    BY <2>1 DEF TB!Wait, TrainingInv, TrainingTypes, TB!TBTypeOK
  <2>2. CASE TB!Waiting(waiter) # {}
    BY <2>2 DEF TB!Wait, TrainingInv, TrainingTypes, TB!TBTypeOK, TB!WaiterWatched
  <2>3. QED
    BY <2>1, <2>2
<1>4. TrainingTypes'
  BY <1>1, <1>2, <1>3, BoundsAssumption DEF TrainingInv, TrainingTypes, TB!TBTypeOK
<1>5. OutcomeShown' /\ EventsTrue'
  BY <1>1 DEF TrainingInv, OutcomeShown, EventsTrue
<1>6. TB!Waiting(waiter') \subseteq watched'
  BY <1>1, <1>2 DEF TrainingInv, TB!Waiting
<1>7. TB!OutcomeReported'
  BY <1>1, <1>2 DEF TrainingInv, TB!OutcomeReported
<1>8. QED
  BY <1>3, <1>4, <1>5, <1>6, <1>7 DEF TrainingInv, TB!WaiterWatched

\* A job ends, or is deleted; until then it had no outcome and no event.
LEMMA JobEndsStep ==
  ASSUME TrainingInv, NEW t \in Tasks, NEW how \in Ends,
         job[t] = "running",
         job' = [job EXCEPT ![t] = how], outcome' = [outcome EXCEPT ![t] = how],
         events' = TB!Emit(t, how),
         UNCHANGED <<waiter, watched, tries, loop, req, gaveUp>>
  PROVE  TrainingInv'
<1>1. TrainingTypes /\ TB!TBTypeOK /\ OutcomeShown /\ EventsTrue /\ TB!OutcomeReported
      /\ TB!Waiting(waiter) \subseteq watched /\ TB!WaiterWatched
  BY DEF TrainingInv, TrainingTypes
<1>2. outcome[t] = "none"
  BY <1>1 DEF OutcomeShown
<1>3. /\ job' \in [Tasks -> {"none", "running", "succeeded", "failed", "deleted"}]
      /\ outcome' \in [Tasks -> Ends \cup {"none"}]
      /\ outcome'[t] = how /\ job'[t] = how
      /\ \A u \in Tasks : u # t => outcome'[u] = outcome[u] /\ job'[u] = job[u]
  BY <1>1 DEF TrainingTypes, TB!TBTypeOK, Ends
<1>4. OutcomeShown'
  BY <1>1, <1>3 DEF OutcomeShown, Ends
<1>5. /\ events' \in [Loops -> Seq(Events)]
      /\ \A l \in Loops :
           \/ events'[l] = events[l]
           \/ events'[l] = Append(events[l], [task |-> t, what |-> how])
  <2>1. [task |-> t, what |-> how] \in Events
    BY DEF Events
  <2>2. QED
    BY <1>1, <2>1 DEF TrainingTypes, TB!Emit
<1>6. EventsTrue'
  <2> SUFFICES ASSUME NEW l \in Loops, NEW i \in 1..Len(events'[l])
               PROVE  events'[l][i].what = outcome'[events'[l][i].task]
    BY DEF EventsTrue
  <2>1. ASSUME i \in 1..Len(events[l]), events'[l][i] = events[l][i]
        PROVE  events'[l][i].what = outcome'[events'[l][i].task]
    <3>1. /\ events[l][i] \in Events
          /\ events[l][i].what = outcome[events[l][i].task]
      BY <1>1, <2>1 DEF TrainingTypes, EventsTrue
    <3>2. events[l][i].task \in Tasks /\ events[l][i].what # "none"
      BY <3>1 DEF Events, Ends
    <3>3. QED
      BY <1>2, <1>3, <2>1, <3>1, <3>2
  <2>2. CASE events'[l] = events[l]
    BY <2>1, <2>2
  <2>3. CASE events'[l] = Append(events[l], [task |-> t, what |-> how])
    <3>1. events[l] \in Seq(Events) /\ [task |-> t, what |-> how] \in Events
      BY <1>1 DEF TrainingTypes, Events
    <3>2. \/ i \in 1..Len(events[l]) /\ events'[l][i] = events[l][i]
          \/ events'[l][i] = [task |-> t, what |-> how]
      BY <2>3, <3>1
    <3>3. QED
      BY <1>3, <2>1, <3>2
  <2>4. QED
    BY <1>5, <2>2, <2>3
<1>7. TrainingTypes'
  BY <1>1, <1>3, <1>5 DEF TrainingTypes, TB!TBTypeOK
<1>8. TB!OutcomeReported'
  BY <1>1, <1>2, <1>3 DEF TB!OutcomeReported
<1>9. QED
  BY <1>1, <1>4, <1>6, <1>7, <1>8 DEF TrainingInv, TB!WaiterWatched, TB!Waiting

\* The daemon dies: nobody waits any more, and no watch is left.
LEMMA ListFailsStep ==
  ASSUME TrainingInv, NEW l \in Loops, TB!ListFails(l)
  PROVE  TrainingInv'
<1>1. /\ waiter' = [t \in Tasks |->
           IF waiter[t] = "waiting" \/ (waiter[t] = "idle" /\ job[t] # "none")
             THEN "gone" ELSE waiter[t]]
      /\ watched' = {} /\ req' = NoLoop
      /\ loop' = [k \in Loops |-> "off"] /\ events' = [k \in Loops |-> <<>>]
      /\ UNCHANGED <<job, tries, drops, outcome, gaveUp, missed>>
  BY DEF TB!ListFails
<1>2. waiter \in [Tasks -> {"idle", "waiting", "ok", "error", "gone"}]
  BY DEF TrainingInv, TrainingTypes, TB!TBTypeOK
<1>3. /\ waiter' \in [Tasks -> {"idle", "waiting", "ok", "error", "gone"}]
      /\ \A t \in Tasks :
           /\ waiter'[t] \in {"ok", "error"} => waiter'[t] = waiter[t]
           /\ waiter'[t] # "waiting"
  BY <1>1, <1>2
<1>4. TrainingTypes' /\ EventsTrue'
  BY <1>1, <1>3 DEF TrainingInv, TrainingTypes, TB!TBTypeOK, EventsTrue
<1>5. OutcomeShown'
  BY <1>1 DEF TrainingInv, OutcomeShown
<1>6. TB!Waiting(waiter') = {}
  BY <1>3 DEF TB!Waiting
<1>7. TB!OutcomeReported'
  BY <1>1, <1>3 DEF TrainingInv, TB!OutcomeReported
<1>8. QED
  BY <1>4, <1>5, <1>6, <1>7 DEF TrainingInv, TB!WaiterWatched

LEMMA TrainingNext == TrainingInv /\ TB!TBNext => TrainingInv'
<1> SUFFICES ASSUME TrainingInv, TB!TBNext PROVE TrainingInv'
  OBVIOUS
<1>1. ASSUME NEW t \in Tasks, TB!ExecTask(t) PROVE TrainingInv'
  BY <1>1 DEF TB!ExecTask, TrainingInv, TrainingTypes, TB!TBTypeOK, OutcomeShown,
              EventsTrue, TB!OutcomeReported, TB!WaiterWatched
<1>2. ASSUME NEW t \in Tasks, TB!Kill(t) PROVE TrainingInv'
  BY <1>2, JobEndsStep DEF TB!Kill, Ends
<1>3. ASSUME NEW t \in Tasks, NEW how \in {"succeeded", "failed"}, TB!Ends(t, how)
      PROVE  TrainingInv'
  BY <1>3, JobEndsStep DEF TB!Ends, Ends
<1>4. ASSUME NEW l \in Loops, TB!Drop(l) \/ TB!Aborted(l) PROVE TrainingInv'
  BY <1>4, StartOverStep DEF TB!Drop, TB!Aborted
<1>5. QED
  BY <1>1, <1>2, <1>3, <1>4, WaitStep, ListedStep, ListFailsStep, EventStep DEF TB!TBNext, TB!Run

-----------------------------------------------------------------------------
(* The User controller                                                     *)

EngineRecords ==
  [user : Ids, backend : UC!Backends,
   phase : {"init", "open", "running", "closing", "closed"}, stopped : BOOLEAN]
Resources ==
  [backend : UC!Backends \cup {Absent}, state : {"", "stopped", "starting", "running", "error"},
   deleting : BOOLEAN]
Reconciliations ==
  [user : Ids, backend : UC!Backends, step : {"get", "act"}, was : Resources \cup {Absent},
   state : {"stopped", "running"}]

\* Workers, with engines that are there and belong to who they are listed for.
EnginesTyped ==
  /\ entry \in [UC!Backends -> [Ids -> UC!Engines \cup {Absent}]]
  /\ engine \in [UC!Engines -> EngineRecords \cup {Absent}]
  /\ \A b \in UC!Backends, u \in Ids : entry[b][u] # Absent =>
       /\ UC!Live(entry[b][u])
       /\ engine[entry[b][u]].user = u /\ engine[entry[b][u]].backend = b

ControllerTypes ==
  /\ queue \subseteq Ids /\ timers \subseteq Ids /\ ready \in 0..NBackends
  /\ resource \in [Ids -> Resources \cup {Absent}]
  /\ rec \in Reconciliations \cup {Absent}
  /\ EnginesTyped

\* As long as the number of backends is the same, a user has a backend.
BackendsFixed ==
  ~moved =>
    /\ ready \in {0, NBackends}
    /\ rec # Absent => rec.backend = rec.user % NBackends

\* The engines of a worker's table were not told to stop, and an engine that was
\* not is there, at the backend of its user.
EnginesKnown ==
  /\ \A b \in UC!Backends, u \in Ids :
       entry[b][u] # Absent => ~engine[entry[b][u]].stopped
  /\ \A n \in UC!Engines :
       UC!Live(n) /\ ~engine[n].stopped /\ engine[n].user \notin late /\ ~moved =>
         /\ engine[n].backend = engine[n].user % NBackends
         /\ entry[engine[n].backend][engine[n].user] = n

ControllerInv == ControllerTypes /\ BackendsFixed /\ EnginesKnown

LEMMA AbsentNothing ==
  Absent \notin UC!Engines /\ Absent \notin EngineRecords
BY AbsentAssumption DEF UC!Engines, UC!Backends, EngineRecords

LEMMA BackendsNonempty ==
  /\ NBackends \in Nat \ {0} /\ UC!Backends = 0..(NBackends - 1)
  /\ \A u \in Ids, k \in 1..NBackends : u % k \in UC!Backends
<1>1. NBackends \in Nat \ {0} /\ Ids \subseteq Nat
  BY BackendsAssumption
<1>2. ASSUME NEW u \in Ids, NEW k \in 1..NBackends PROVE u % k \in UC!Backends
  <2>1. u \in Nat /\ k \in Nat \ {0} /\ k <= NBackends
    BY <1>1
  <2>2. u % k \in 0..(k - 1)
    BY <2>1
  <2>3. QED
    BY <1>1, <2>1, <2>2 DEF UC!Backends
<1>3. QED
  BY <1>1, <1>2 DEF UC!Backends

\* Two engines of a user that both run would have the same entry.
LEMMA ControllerSafe == ControllerInv => UC!OneEngine
BY DEF ControllerInv, EnginesKnown, UC!OneEngine

LEMMA ControllerTyped == ControllerInv => UC!UCTypeOK
BY DEF ControllerInv, ControllerTypes, EnginesTyped, UC!UCTypeOK

LEMMA ControllerInit == UC!UCInit => ControllerInv
<1> SUFFICES ASSUME UC!UCInit PROVE ControllerInv
  OBVIOUS
<1>1. ControllerTypes
  BY BackendsNonempty DEF UC!UCInit, ControllerTypes, EnginesTyped
<1>2. BackendsFixed /\ EnginesKnown
  BY DEF UC!UCInit, BackendsFixed, EnginesKnown, UC!Live, UC!Started
<1>3. QED
  BY <1>1, <1>2 DEF ControllerInv

\* What the invariant says of the engines depends on these.
LEMMA ControllerFrame ==
  ASSUME ControllerInv, UNCHANGED <<entry, engine, late, moved>>
  PROVE  EnginesKnown' /\ EnginesTyped'
BY DEF ControllerInv, ControllerTypes, EnginesTyped, EnginesKnown, UC!Live, UC!Started

LEMMA ControllerIdle == ControllerInv /\ UNCHANGED controllerVars => ControllerInv'
<1> SUFFICES ASSUME ControllerInv, UNCHANGED controllerVars PROVE ControllerInv'
  OBVIOUS
<1>1. /\ UNCHANGED <<entry, engine, late, moved>> /\ UNCHANGED <<resource, queue, timers>>
      /\ UNCHANGED <<rec, ready>>
  BY DEF controllerVars
<1>2. QED
  BY <1>1, ControllerFrame DEF ControllerInv, ControllerTypes, BackendsFixed

\* The website changes resources and the queue.
LEMMA ResourcesMove ==
  ASSUME ControllerInv, UNCHANGED <<rec, ready, entry, engine, late, moved>>,
         resource' \in [Ids -> Resources \cup {Absent}], queue' \subseteq Ids,
         timers' \subseteq Ids
  PROVE  ControllerInv'
BY ControllerFrame DEF ControllerInv, ControllerTypes, BackendsFixed

LEMMA CreateUserTypes ==
  ASSUME ControllerInv, NEW u \in Ids, UC!CreateUser(u)
  PROVE  resource' \in [Ids -> Resources \cup {Absent}] /\ queue' \subseteq Ids
<1>1. [backend |-> Absent, state |-> "", deleting |-> FALSE] \in Resources
  BY DEF Resources
<1>2. QED
  BY <1>1 DEF UC!CreateUser, ControllerInv, ControllerTypes

LEMMA DeleteUserTypes ==
  ASSUME ControllerInv, NEW u \in Ids, UC!DeleteUser(u)
  PROVE  resource' \in [Ids -> Resources \cup {Absent}] /\ queue' \subseteq Ids
<1>1. resource \in [Ids -> Resources \cup {Absent}] /\ queue \subseteq Ids
      /\ resource[u] # Absent /\ queue' = queue \cup {u}
  BY DEF UC!DeleteUser, ControllerInv, ControllerTypes
<1>2. [resource[u] EXCEPT !.deleting = TRUE] \in Resources
  BY <1>1 DEF Resources
<1>3. QED
  BY <1>1, <1>2 DEF UC!DeleteUser

LEMMA UpdateStatusTypes ==
  ASSUME ControllerInv, rec # Absent,
         NEW state \in {"", "stopped", "starting", "running", "error"}, UC!UpdateStatus(state)
  PROVE  resource' \in [Ids -> Resources \cup {Absent}]
<1>1. /\ resource \in [Ids -> Resources \cup {Absent}]
      /\ rec.user \in Ids /\ rec.backend \in UC!Backends /\ rec.was \in Resources \cup {Absent}
  BY DEF ControllerInv, ControllerTypes, Reconciliations
<1>2. ASSUME rec.was \in Resources
      PROVE  [rec.was EXCEPT !.backend = rec.backend, !.state = state] \in Resources
  BY <1>1, <1>2 DEF Resources
<1>3. QED
  BY <1>1, <1>2 DEF UC!UpdateStatus

\* The entries after the entry of a user was set.
LEMMA EntrySet ==
  ASSUME EnginesTyped, NEW b \in UC!Backends, NEW u \in Ids,
         NEW v \in UC!Engines \cup {Absent}, entry' = UC!SetEntry(b, u, v)
  PROVE  /\ entry' \in [UC!Backends -> [Ids -> UC!Engines \cup {Absent}]]
         /\ entry'[b][u] = v
         /\ \A c \in UC!Backends, w \in Ids : <<c, w>> # <<b, u>> => entry'[c][w] = entry[c][w]
<1>1. entry' = [entry EXCEPT ![b] = [entry[b] EXCEPT ![u] = v]]
  BY DEF UC!SetEntry, EnginesTyped
<1>2. /\ entry \in [UC!Backends -> [Ids -> UC!Engines \cup {Absent}]]
      /\ [entry[b] EXCEPT ![u] = v] \in [Ids -> UC!Engines \cup {Absent}]
  BY DEF EnginesTyped
<1>3. /\ entry' \in [UC!Backends -> [Ids -> UC!Engines \cup {Absent}]]
      /\ entry'[b] = [entry[b] EXCEPT ![u] = v]
      /\ \A c \in UC!Backends : c # b => entry'[c] = entry[c]
  BY <1>1, <1>2
<1>4. \A c \in UC!Backends, w \in Ids : <<c, w>> # <<b, u>> => entry'[c][w] = entry[c][w]
  BY <1>2, <1>3
<1>5. QED
  BY <1>2, <1>3, <1>4

\* An engine that is stopped loses its entry, and stays listed nowhere.
LEMMA KillEngineStep ==
  ASSUME ControllerInv, NEW b \in UC!Backends, NEW u \in Ids, UC!KillEngine(b, u),
         UNCHANGED <<late, moved>>
  PROVE  EnginesTyped' /\ EnginesKnown'
<1> DEFINE n == entry[b][u]
           row == [engine[n] EXCEPT !.stopped = TRUE,
                                    !.phase = IF @ = "running" THEN "closing" ELSE @]
<1>1. CASE n = Absent
  BY <1>1, ControllerFrame DEF UC!KillEngine
<1>2. CASE n # Absent
  <2>1. EnginesTyped /\ EnginesKnown
    BY DEF ControllerInv, ControllerTypes
  <2>2. /\ n \in UC!Engines /\ UC!Live(n) /\ engine[n].user = u /\ engine[n].backend = b
        /\ engine[n] \in EngineRecords
    BY <1>2, <2>1 DEF EnginesTyped, UC!Live, UC!Started
  <2>3. /\ row \in EngineRecords /\ row.stopped = TRUE /\ row.user = u /\ row.backend = b
    BY <2>2 DEF EngineRecords
  <2>4. engine' = [engine EXCEPT ![n] = row] /\ entry' = UC!SetEntry(b, u, Absent)
    BY <1>2, <2>1 DEF UC!KillEngine, EnginesTyped
  <2> HIDE DEF row, n
  <2>5. /\ entry' \in [UC!Backends -> [Ids -> UC!Engines \cup {Absent}]]
        /\ engine' \in [UC!Engines -> EngineRecords \cup {Absent}]
        /\ engine'[n] = row /\ entry'[b][u] = Absent
        /\ \A m \in UC!Engines : m # n => engine'[m] = engine[m]
        /\ \A c \in UC!Backends, w \in Ids : <<c, w>> # <<b, u>> => entry'[c][w] = entry[c][w]
    <3>1. Absent \in UC!Engines \cup {Absent}
      OBVIOUS
    <3>2. QED
      BY <2>1, <2>2, <2>3, <2>4, <3>1, EntrySet DEF EnginesTyped
  <2>6. ASSUME NEW c \in UC!Backends, NEW w \in Ids, entry'[c][w] # Absent
        PROVE  /\ <<c, w>> # <<b, u>> /\ entry'[c][w] = entry[c][w]
               /\ entry[c][w] \in UC!Engines /\ entry[c][w] # n
    <3>1. <<c, w>> # <<b, u>> /\ entry'[c][w] = entry[c][w]
      BY <2>5, <2>6
    <3>2. entry[c][w] \in UC!Engines /\ engine[entry[c][w]].user = w
          /\ engine[entry[c][w]].backend = c
      BY <2>1, <2>6, <3>1 DEF EnginesTyped
    <3>3. QED
      BY <2>2, <3>1, <3>2
  <2>7. EnginesTyped'
    BY <2>1, <2>5, <2>6 DEF EnginesTyped, UC!Live, UC!Started
  <2>8. EnginesKnown'
    <3>1. ASSUME NEW m \in UC!Engines, UC!Live(m)', ~engine'[m].stopped,
                 engine'[m].user \notin late, ~moved
          PROVE  /\ engine'[m].backend = engine'[m].user % NBackends
                 /\ entry'[engine'[m].backend][engine'[m].user] = m
      <4>1. m # n /\ engine'[m] = engine[m]
        BY <2>3, <2>5, <3>1
      <4>2. UC!Live(m) /\ engine[m] \in EngineRecords
        BY <2>1, <3>1, <4>1 DEF UC!Live, UC!Started, EnginesTyped
      <4>3. /\ engine[m].backend = engine[m].user % NBackends
            /\ entry[engine[m].backend][engine[m].user] = m
        BY <2>1, <3>1, <4>1, <4>2 DEF EnginesKnown
      <4>4. engine[m].backend \in UC!Backends /\ engine[m].user \in Ids
        BY <4>2 DEF EngineRecords
      <4>5. <<engine[m].backend, engine[m].user>> # <<b, u>>
        BY <4>1, <4>3 DEF n
      <4>6. QED
        BY <2>5, <4>1, <4>3, <4>4, <4>5
    <3>2. \A c \in UC!Backends, w \in Ids :
            entry'[c][w] # Absent => ~engine'[entry'[c][w]].stopped
      BY <2>1, <2>5, <2>6 DEF EnginesKnown
    <3>3. QED
      BY <3>1, <3>2 DEF EnginesKnown
  <2>9. QED
    BY <2>7, <2>8
<1>3. QED
  BY <1>1, <1>2

\* A new engine takes an entry that is free; another one that runs for the same
\* user would have it.
LEMMA RunEngineStep ==
  ASSUME ControllerInv, NEW b \in UC!Backends, NEW u \in Ids, UC!RunEngine(b, u),
         ~moved => b = u % NBackends,
         UNCHANGED <<late, moved>>
  PROVE  EnginesTyped' /\ EnginesKnown'
<1>1. CASE entry[b][u] # Absent
  BY <1>1, ControllerFrame DEF UC!RunEngine
<1>2. CASE entry[b][u] = Absent
  <2> DEFINE row == [user |-> u, backend |-> b, phase |-> "init", stopped |-> FALSE]
  <2>1. EnginesTyped /\ EnginesKnown
    BY DEF ControllerInv, ControllerTypes
  <2>2. PICK n \in UC!Engines :
          /\ engine[n] = Absent
          /\ engine' = [engine EXCEPT ![n] = row] /\ entry' = UC!SetEntry(b, u, n)
    BY <1>2 DEF UC!RunEngine, UC!Started
  <2>3. row \in EngineRecords /\ row.stopped = FALSE /\ row.user = u /\ row.backend = b
        /\ row.phase = "init"
    BY DEF EngineRecords
  <2> HIDE DEF row
  <2>4. /\ entry' \in [UC!Backends -> [Ids -> UC!Engines \cup {Absent}]]
        /\ engine' \in [UC!Engines -> EngineRecords \cup {Absent}]
        /\ engine'[n] = row /\ entry'[b][u] = n
        /\ \A m \in UC!Engines : m # n => engine'[m] = engine[m]
        /\ \A c \in UC!Backends, w \in Ids : <<c, w>> # <<b, u>> => entry'[c][w] = entry[c][w]
    <3>1. n \in UC!Engines \cup {Absent}
      OBVIOUS
    <3>2. QED
      BY <2>1, <2>2, <2>3, <3>1, EntrySet DEF EnginesTyped
  <2>5. row # Absent
    BY <2>3, AbsentNothing
  <2>6. ASSUME NEW c \in UC!Backends, NEW w \in Ids, entry'[c][w] # Absent
        PROVE  \/ <<c, w>> = <<b, u>> /\ entry'[c][w] = n
               \/ /\ entry'[c][w] = entry[c][w]
                  /\ entry[c][w] \in UC!Engines /\ entry[c][w] # n
    <3>1. CASE <<c, w>> = <<b, u>>
      BY <2>4, <3>1
    <3>2. CASE <<c, w>> # <<b, u>>
      <4>1. entry'[c][w] = entry[c][w]
        BY <2>4, <3>2
      <4>2. entry[c][w] \in UC!Engines /\ UC!Live(entry[c][w])
        BY <2>1, <2>6, <4>1 DEF EnginesTyped
      <4>3. QED
        BY <2>2, <4>1, <4>2 DEF UC!Live, UC!Started
    <3>3. QED
      BY <3>1, <3>2
  <2>7. EnginesTyped'
    <3>1. ASSUME NEW c \in UC!Backends, NEW w \in Ids, entry'[c][w] # Absent
          PROVE  /\ engine'[entry'[c][w]] # Absent
                 /\ engine'[entry'[c][w]].phase \in {"init", "open", "running"}
                 /\ engine'[entry'[c][w]].user = w /\ engine'[entry'[c][w]].backend = c
      <4>1. CASE <<c, w>> = <<b, u>> /\ entry'[c][w] = n
        BY <2>3, <2>4, <2>5, <4>1
      <4>2. CASE entry'[c][w] = entry[c][w] /\ entry[c][w] \in UC!Engines /\ entry[c][w] # n
        BY <2>1, <2>4, <3>1, <4>2 DEF EnginesTyped, UC!Live, UC!Started
      <4>3. QED
        BY <2>6, <3>1, <4>1, <4>2
    <3>2. QED
      BY <2>4, <3>1 DEF EnginesTyped, UC!Live, UC!Started
  <2>8. EnginesKnown'
    <3>1. ASSUME NEW m \in UC!Engines, UC!Live(m)', ~engine'[m].stopped,
                 engine'[m].user \notin late, ~moved
          PROVE  /\ engine'[m].backend = engine'[m].user % NBackends
                 /\ entry'[engine'[m].backend][engine'[m].user] = m
      <4>1. CASE m = n
        BY <2>3, <2>4, <3>1, <4>1
      <4>2. CASE m # n
        <5>1. engine'[m] = engine[m]
          BY <2>4, <4>2
        <5>2. UC!Live(m) /\ engine[m] \in EngineRecords
          BY <2>1, <3>1, <5>1 DEF UC!Live, UC!Started, EnginesTyped
        <5>3. /\ engine[m].backend = engine[m].user % NBackends
              /\ entry[engine[m].backend][engine[m].user] = m
          BY <2>1, <3>1, <5>1, <5>2 DEF EnginesKnown
        <5>4. engine[m].backend \in UC!Backends /\ engine[m].user \in Ids /\ m # Absent
          BY <5>2, AbsentNothing DEF EngineRecords
        <5>5. <<engine[m].backend, engine[m].user>> # <<b, u>>
          BY <1>2, <5>3, <5>4
        <5>6. QED
          BY <2>4, <5>1, <5>3, <5>4, <5>5
      <4>3. QED
        BY <4>1, <4>2
    <3>2. ASSUME NEW c \in UC!Backends, NEW w \in Ids, entry'[c][w] # Absent
          PROVE  ~engine'[entry'[c][w]].stopped
      <4>1. CASE entry'[c][w] = n
        BY <2>3, <2>4, <4>1
      <4>2. CASE entry'[c][w] = entry[c][w] /\ entry[c][w] \in UC!Engines /\ entry[c][w] # n
        BY <2>1, <2>4, <3>2, <4>2 DEF EnginesKnown
      <4>3. QED
        BY <2>6, <3>2, <4>1, <4>2
    <3>3. QED
      BY <3>1, <3>2 DEF EnginesKnown
  <2>9. QED
    BY <2>7, <2>8
<1>3. QED
  BY <1>1, <1>2

\* An engine makes progress; one that was told to stop is in no table.
LEMMA AdvanceStep ==
  ASSUME ControllerInv, NEW n \in UC!Engines, UC!Advance(n)
  PROVE  ControllerInv'
<1>1. /\ engine[n] # Absent
      /\ \/ engine[n].phase = "init" /\ engine' = UC!SetPhase(n, IF engine[n].stopped THEN "closing" ELSE "open")
         \/ engine[n].phase = "open" /\ engine' = UC!SetPhase(n, IF engine[n].stopped THEN "closing" ELSE "running")
         \/ engine[n].phase = "closing" /\ engine' = UC!SetPhase(n, "closed")
      /\ UNCHANGED <<resource, queue, timers, rec, ready, entry, late, moved>>
  BY DEF UC!Advance, UC!Started
<1>2. EnginesTyped /\ EnginesKnown
  BY DEF ControllerInv, ControllerTypes
<1>3. engine[n] \in EngineRecords
  BY <1>1, <1>2 DEF EnginesTyped
<1>4. PICK ph \in {"init", "open", "running", "closing", "closed"} :
        /\ engine' = [engine EXCEPT ![n] = [engine[n] EXCEPT !.phase = ph]]
        /\ UC!Live(n) /\ ~engine[n].stopped => ph \in {"open", "running"}
        /\ ~UC!Live(n) => ph = "closed"
        /\ engine[n].stopped => ph \in {"closing", "closed"}
  BY <1>1, <1>2 DEF UC!SetPhase, UC!Live, UC!Started, EnginesTyped
<1> DEFINE row == [engine[n] EXCEPT !.phase = ph]
<1>5. /\ row \in EngineRecords /\ row.phase = ph /\ row.stopped = engine[n].stopped
      /\ row.user = engine[n].user /\ row.backend = engine[n].backend
  BY <1>3 DEF EngineRecords
<1>6. row # Absent
  BY <1>5, AbsentNothing
<1> HIDE DEF row
<1>7. /\ engine' \in [UC!Engines -> EngineRecords \cup {Absent}]
      /\ engine'[n] = row /\ engine'[n] # Absent
      /\ \A m \in UC!Engines : m # n => engine'[m] = engine[m]
  BY <1>2, <1>4, <1>5, <1>6 DEF EnginesTyped, row
<1>8. EnginesTyped'
  <2>1. ASSUME NEW b \in UC!Backends, NEW u \in Ids, entry[b][u] # Absent
        PROVE  /\ engine'[entry[b][u]] # Absent
               /\ engine'[entry[b][u]].phase \in {"init", "open", "running"}
               /\ engine'[entry[b][u]].user = u /\ engine'[entry[b][u]].backend = b
    <3>1. /\ entry[b][u] \in UC!Engines /\ UC!Live(entry[b][u]) /\ ~engine[entry[b][u]].stopped
          /\ engine[entry[b][u]].user = u /\ engine[entry[b][u]].backend = b
      BY <1>2, <2>1 DEF EnginesTyped, EnginesKnown
    <3>2. CASE entry[b][u] = n
      BY <1>4, <1>5, <1>7, <3>1, <3>2
    <3>3. CASE entry[b][u] # n
      BY <1>7, <3>1, <3>3 DEF UC!Live, UC!Started
    <3>4. QED
      BY <3>2, <3>3
  <2>2. QED
    BY <1>1, <1>2, <1>7, <2>1 DEF EnginesTyped, UC!Live, UC!Started
<1>9. EnginesKnown'
  <2>1. ASSUME NEW m \in UC!Engines, UC!Live(m)', ~engine'[m].stopped,
               engine'[m].user \notin late, ~moved
        PROVE  /\ engine'[m].backend = engine'[m].user % NBackends
               /\ entry[engine'[m].backend][engine'[m].user] = m
    <3>1. CASE m = n
      <4>1. UC!Live(n) /\ ~engine[n].stopped /\ engine[n].user \notin late
        BY <1>4, <1>5, <1>7, <2>1, <3>1 DEF UC!Live, UC!Started
      <4>2. QED
        BY <1>2, <1>5, <1>7, <2>1, <3>1, <4>1 DEF EnginesKnown
    <3>2. CASE m # n
      BY <1>2, <1>7, <2>1, <3>2 DEF EnginesKnown, UC!Live, UC!Started
    <3>3. QED
      BY <3>1, <3>2
  <2>2. \A b \in UC!Backends, u \in Ids : entry[b][u] # Absent =>
          entry[b][u] \in UC!Engines /\ ~engine[entry[b][u]].stopped
    BY <1>2 DEF EnginesKnown, EnginesTyped
  <2>3. QED
    BY <1>1, <1>5, <1>7, <2>1, <2>2 DEF EnginesKnown
<1>10. QED
  BY <1>1, <1>8, <1>9 DEF ControllerInv, ControllerTypes, BackendsFixed

\* A fatal error deletes the entry of the user; when it was another engine's,
\* the user is one of those of whom a killed engine failed.
LEMMA EngineFailsStep ==
  ASSUME ControllerInv, NEW n \in UC!Engines, UC!EngineFails(n)
  PROVE  ControllerInv'
<1> DEFINE u == engine[n].user
           b == engine[n].backend
           row == [engine[n] EXCEPT !.phase = "closed"]
<1>1. /\ engine[n] # Absent
      /\ engine' = [engine EXCEPT ![n] = row]
      /\ entry' = UC!SetEntry(b, u, Absent)
      /\ late' = IF entry[b][u] = n THEN late ELSE late \cup {u}
      /\ UNCHANGED <<resource, queue, timers, rec, ready, moved>>
  BY DEF UC!EngineFails, UC!Live, UC!Started, UC!SetPhase, ControllerInv, ControllerTypes,
         EnginesTyped
<1>2. EnginesTyped /\ EnginesKnown
  BY DEF ControllerInv, ControllerTypes
<1>3. /\ engine[n] \in EngineRecords /\ u \in Ids /\ b \in UC!Backends
      /\ row \in EngineRecords /\ row.phase = "closed"
  BY <1>1, <1>2 DEF EnginesTyped, EngineRecords
<1> HIDE DEF row
<1>4. /\ engine' \in [UC!Engines -> EngineRecords \cup {Absent}]
      /\ engine'[n] = row
      /\ \A m \in UC!Engines : m # n => engine'[m] = engine[m]
  BY <1>1, <1>2, <1>3 DEF EnginesTyped
<1>5. /\ entry' \in [UC!Backends -> [Ids -> UC!Engines \cup {Absent}]]
      /\ entry'[b][u] = Absent
      /\ \A c \in UC!Backends, w \in Ids : <<c, w>> # <<b, u>> => entry'[c][w] = entry[c][w]
  <2>1. Absent \in UC!Engines \cup {Absent}
    OBVIOUS
  <2> HIDE DEF u, b
  <2>2. QED
    BY <1>1, <1>2, <1>3, <2>1, EntrySet
<1>6. ASSUME NEW c \in UC!Backends, NEW w \in Ids, entry'[c][w] # Absent
      PROVE  /\ entry'[c][w] = entry[c][w] /\ entry[c][w] \in UC!Engines
             /\ UC!Live(entry[c][w]) /\ engine'[entry[c][w]] = engine[entry[c][w]]
             /\ engine[entry[c][w]].user = w /\ engine[entry[c][w]].backend = c
  <2>1. <<c, w>> # <<b, u>> /\ entry'[c][w] = entry[c][w]
    BY <1>5, <1>6
  <2>2. /\ entry[c][w] \in UC!Engines /\ UC!Live(entry[c][w])
        /\ engine[entry[c][w]].user = w /\ engine[entry[c][w]].backend = c
    BY <1>2, <1>6, <2>1 DEF EnginesTyped
  <2>3. QED
    BY <1>4, <2>1, <2>2
<1>7. EnginesTyped'
  BY <1>4, <1>5, <1>6 DEF EnginesTyped, UC!Live, UC!Started
<1>8. EnginesKnown'
  <2>1. ASSUME NEW m \in UC!Engines, UC!Live(m)', ~engine'[m].stopped,
               engine'[m].user \notin late', ~moved
        PROVE  /\ engine'[m].backend = engine'[m].user % NBackends
               /\ entry'[engine'[m].backend][engine'[m].user] = m
    <3>1. m # n /\ engine'[m] = engine[m]
      BY <1>3, <1>4, <2>1 DEF UC!Live
    <3>2. UC!Live(m) /\ engine[m] \in EngineRecords /\ engine[m].user \notin late
      BY <1>1, <1>2, <2>1, <3>1 DEF UC!Live, UC!Started, EnginesTyped
    <3>3. /\ engine[m].backend = engine[m].user % NBackends
          /\ entry[engine[m].backend][engine[m].user] = m
          /\ engine[m].backend \in UC!Backends /\ engine[m].user \in Ids
      BY <1>2, <2>1, <3>1, <3>2 DEF EnginesKnown, EngineRecords
    <3>4. <<engine[m].backend, engine[m].user>> # <<b, u>>
      BY <1>1, <2>1, <3>1, <3>3
    <3>5. QED
      BY <1>5, <3>1, <3>3, <3>4
  <2>2. \A c \in UC!Backends, w \in Ids :
          entry'[c][w] # Absent => ~engine'[entry'[c][w]].stopped
    BY <1>2, <1>6 DEF EnginesKnown
  <2>3. QED
    BY <1>1, <2>1, <2>2 DEF EnginesKnown
<1>9. QED
  BY <1>1, <1>7, <1>8 DEF ControllerInv, ControllerTypes, BackendsFixed

\* A worker goes away with its engines and its table.
LEMMA WorkerCrashStep ==
  ASSUME ControllerInv, NEW b \in UC!Backends, UC!WorkerCrash(b)
  PROVE  ControllerInv'
<1>1. /\ engine' = [n \in UC!Engines |-> IF UC!Started(n) /\ engine[n].backend = b
                      THEN [engine[n] EXCEPT !.phase = "closed"] ELSE engine[n]]
      /\ entry' = [entry EXCEPT ![b] = [u \in Ids |-> Absent]]
      /\ UNCHANGED <<resource, queue, timers, rec, ready, late, moved>>
  BY DEF UC!WorkerCrash
<1>2. EnginesTyped /\ EnginesKnown
  BY DEF ControllerInv, ControllerTypes
<1>3. ASSUME NEW n \in UC!Engines
      PROVE  /\ engine'[n] \in EngineRecords \cup {Absent}
             /\ engine[n] # Absent /\ engine[n].backend = b => engine'[n].phase = "closed"
             /\ ~(engine[n] # Absent /\ engine[n].backend = b) => engine'[n] = engine[n]
  BY <1>1, <1>2 DEF EnginesTyped, EngineRecords, UC!Started
<1>4. engine' \in [UC!Engines -> EngineRecords \cup {Absent}]
  <2>1. engine' = [n \in UC!Engines |-> engine'[n]]
    BY <1>1
  <2>2. QED
    BY <1>3, <2>1
<1>5. /\ entry' \in [UC!Backends -> [Ids -> UC!Engines \cup {Absent}]]
      /\ \A u \in Ids : entry'[b][u] = Absent
      /\ \A c \in UC!Backends : c # b => entry'[c] = entry[c]
  BY <1>1, <1>2 DEF EnginesTyped
<1>6. ASSUME NEW c \in UC!Backends, NEW w \in Ids, entry'[c][w] # Absent
      PROVE  /\ entry'[c][w] = entry[c][w] /\ entry[c][w] \in UC!Engines
             /\ UC!Live(entry[c][w]) /\ engine'[entry[c][w]] = engine[entry[c][w]]
             /\ engine[entry[c][w]].user = w /\ engine[entry[c][w]].backend = c
  <2>1. c # b /\ entry'[c][w] = entry[c][w]
    BY <1>5, <1>6
  <2>2. /\ entry[c][w] \in UC!Engines /\ UC!Live(entry[c][w])
        /\ engine[entry[c][w]].user = w /\ engine[entry[c][w]].backend = c
    BY <1>2, <1>6, <2>1 DEF EnginesTyped
  <2>3. QED
    BY <1>3, <2>1, <2>2
<1>7. EnginesTyped'
  BY <1>4, <1>5, <1>6 DEF EnginesTyped, UC!Live, UC!Started
<1>8. EnginesKnown'
  <2>1. ASSUME NEW m \in UC!Engines, UC!Live(m)', ~engine'[m].stopped,
               engine'[m].user \notin late, ~moved
        PROVE  /\ engine'[m].backend = engine'[m].user % NBackends
               /\ entry'[engine'[m].backend][engine'[m].user] = m
    <3>1. engine'[m] = engine[m] /\ engine[m] # Absent /\ engine[m].backend # b
      BY <1>3, <2>1 DEF UC!Live, UC!Started
    <3>2. UC!Live(m) /\ engine[m] \in EngineRecords
      BY <1>2, <2>1, <3>1 DEF UC!Live, UC!Started, EnginesTyped
    <3>3. /\ engine[m].backend = engine[m].user % NBackends
          /\ entry[engine[m].backend][engine[m].user] = m
          /\ engine[m].backend \in UC!Backends
      BY <1>2, <2>1, <3>1, <3>2 DEF EnginesKnown, EngineRecords
    <3>4. QED
      BY <1>5, <3>1, <3>3
  <2>2. \A c \in UC!Backends, w \in Ids :
          entry'[c][w] # Absent => ~engine'[entry'[c][w]].stopped
    BY <1>2, <1>6 DEF EnginesKnown
  <2>3. QED
    BY <1>1, <2>1, <2>2 DEF EnginesKnown
<1>9. QED
  BY <1>1, <1>7, <1>8 DEF ControllerInv, ControllerTypes, BackendsFixed

\* The controller takes a user whose worker is the one of the endpoints it has.
LEMMA RecStatusStep ==
  ASSUME ControllerInv, NEW u \in Ids, UC!RecStatus(u)
  PROVE  ControllerInv'
<1>1. /\ UNCHANGED <<entry, engine, late, moved>> /\ UNCHANGED <<resource, timers, ready>>
      /\ ready # 0 => /\ queue' = queue \ {u}
                      /\ rec' = [user |-> u, backend |-> UC!BackendOf(u), step |-> "get",
                                 was |-> Absent, state |-> UC!EngineStatus(UC!BackendOf(u), u)]
      /\ ready = 0 => UNCHANGED <<queue, rec>>
  BY DEF UC!RecStatus
<1>2. ControllerTypes /\ BackendsFixed /\ EnginesKnown' /\ EnginesTyped'
  BY <1>1, ControllerFrame DEF ControllerInv
<1>3. CASE ready = 0
  BY <1>1, <1>2, <1>3 DEF ControllerInv, ControllerTypes, BackendsFixed
<1>4. CASE ready # 0
  <2>1. /\ UC!BackendOf(u) \in UC!Backends /\ (~moved => UC!BackendOf(u) = u % NBackends)
        /\ UC!EngineStatus(UC!BackendOf(u), u) \in {"stopped", "running"}
    BY <1>2, <1>4, BackendsNonempty
       DEF UC!BackendOf, UC!EngineStatus, ControllerTypes, BackendsFixed
  <2>2. rec' \in Reconciliations /\ rec'.backend = UC!BackendOf(u) /\ rec'.user = u
    BY <1>1, <1>4, <2>1 DEF Reconciliations
  <2>3. QED
    BY <1>1, <1>2, <1>4, <2>1, <2>2 DEF ControllerInv, ControllerTypes, BackendsFixed
<1>5. QED
  BY <1>3, <1>4

LEMMA RecGetStep ==
  ASSUME ControllerInv, UC!RecGet
  PROVE  ControllerInv'
<1>1. /\ UNCHANGED <<entry, engine, late, moved>> /\ UNCHANGED <<resource, queue, timers, ready>>
      /\ rec # Absent /\ rec' = [rec EXCEPT !.step = "act", !.was = resource[rec.user]]
  BY DEF UC!RecGet
<1>2. ControllerTypes /\ BackendsFixed /\ EnginesKnown' /\ EnginesTyped'
  BY <1>1, ControllerFrame DEF ControllerInv
<1>3. rec \in Reconciliations /\ resource[rec.user] \in Resources \cup {Absent}
  BY <1>1, <1>2 DEF ControllerTypes, Reconciliations
<1>4. rec' \in Reconciliations /\ rec'.backend = rec.backend /\ rec'.user = rec.user
  BY <1>1, <1>3 DEF Reconciliations
<1>5. QED
  BY <1>1, <1>2, <1>4 DEF ControllerInv, ControllerTypes, BackendsFixed

\* The end of a reconciliation, with what the worker made of it.
LEMMA RecEnds ==
  ASSUME ControllerInv, EnginesKnown', EnginesTyped',
         resource' \in [Ids -> Resources \cup {Absent}], queue' \subseteq Ids,
         timers' \subseteq Ids, rec' = Absent, UNCHANGED <<ready, moved>>
  PROVE  ControllerInv'
BY DEF ControllerInv, ControllerTypes, BackendsFixed

LEMMA ReconcileStep ==
  ASSUME ControllerInv, UC!RecKill \/ UC!RecRunning \/ UC!RecStart \/ UC!RecFails
  PROVE  ControllerInv'
<1>1. rec # Absent /\ rec' = Absent /\ UNCHANGED <<ready, late, moved>>
  BY DEF UC!RecKill, UC!RecRunning, UC!RecStart, UC!RecFails
<1>2. /\ rec.user \in Ids /\ rec.backend \in UC!Backends /\ rec.state \in {"stopped", "running"}
      /\ ~moved => rec.backend = rec.user % NBackends
      /\ queue \subseteq Ids /\ timers \subseteq Ids
  BY <1>1 DEF ControllerInv, ControllerTypes, BackendsFixed, Reconciliations
<1>3. queue' \subseteq Ids /\ timers' \subseteq Ids
  BY <1>2 DEF UC!RecKill, UC!RecRunning, UC!RecStart, UC!RecFails
<1>4. resource' \in [Ids -> Resources \cup {Absent}]
  <2>1. \E state \in {"", "stopped", "starting", "running", "error"} : UC!UpdateStatus(state)
    BY <1>2 DEF UC!RecKill, UC!RecRunning, UC!RecStart, UC!RecFails
  <2>2. QED
    BY <1>1, <2>1, UpdateStatusTypes
<1>5. EnginesKnown' /\ EnginesTyped'
  <2>1. CASE UNCHANGED <<entry, engine>>
    BY <1>1, <2>1, ControllerFrame
  <2>2. CASE UC!KillEngine(rec.backend, rec.user)
    BY <1>1, <1>2, <2>2, KillEngineStep
  <2>3. CASE UC!RunEngine(rec.backend, rec.user)
    BY <1>1, <1>2, <2>3, RunEngineStep
  <2>4. QED
    BY <2>1, <2>2, <2>3 DEF UC!RecKill, UC!RecRunning, UC!RecStart, UC!RecFails
<1>6. QED
  BY <1>1, <1>3, <1>4, <1>5, RecEnds

LEMMA ControllerNext == ControllerInv /\ UC!UCNext => ControllerInv'
<1> SUFFICES ASSUME ControllerInv, UC!UCNext PROVE ControllerInv'
  OBVIOUS
<1>0. /\ resource \in [Ids -> Resources \cup {Absent}]
      /\ queue \subseteq Ids /\ timers \subseteq Ids
  BY DEF ControllerInv, ControllerTypes
<1>1. ASSUME NEW u \in Ids, UC!StartUser(u) \/ UC!RestartCreate(u) PROVE ControllerInv'
  BY <1>0, <1>1, CreateUserTypes, ResourcesMove DEF UC!StartUser, UC!RestartCreate
<1>2. ASSUME NEW u \in Ids, UC!KillUser(u) \/ UC!RestartDelete(u) PROVE ControllerInv'
  BY <1>0, <1>2, DeleteUserTypes, ResourcesMove DEF UC!KillUser, UC!RestartDelete
<1>3. ASSUME NEW u \in Ids, UC!CollectUser(u) \/ UC!Requeue(u) PROVE ControllerInv'
  BY <1>0, <1>3, ResourcesMove DEF UC!CollectUser, UC!Requeue
<1>4. CASE UC!KillAllUsers
  BY <1>0, <1>4, ResourcesMove DEF UC!KillAllUsers
<1>5. ASSUME NEW k \in 0..NBackends, UC!Rescale(k) PROVE ControllerInv'
  <2>1. /\ UNCHANGED <<resource, queue, timers, rec>> /\ UNCHANGED <<entry, engine, late>>
        /\ ready' = k
    BY <1>5 DEF UC!Rescale
  <2>2. ~moved' => ~moved /\ k \in {0, NBackends}
    BY <1>5, Zenon DEF UC!Rescale
  <2>3. ControllerTypes'
    BY <2>1 DEF ControllerInv, ControllerTypes, EnginesTyped, UC!Live, UC!Started
  <2>4. BackendsFixed'
    BY <2>1, <2>2 DEF ControllerInv, BackendsFixed
  <2>5. EnginesKnown'
    BY <2>1, <2>2 DEF ControllerInv, EnginesKnown, UC!Live, UC!Started
  <2>6. QED
    BY <2>3, <2>4, <2>5 DEF ControllerInv
<1>6. QED
  BY <1>1, <1>2, <1>3, <1>4, <1>5, RecStatusStep, RecGetStep, ReconcileStep, AdvanceStep,
     EngineFailsStep, WorkerCrashStep DEF UC!UCNext

-----------------------------------------------------------------------------
(* The conversations                                                       *)

Stages == {"none", "asking", "opening", "open", "done"}
Pages == [ws : CV!Wss \cup {NoWs}, open : BOOLEAN, last : 0..MaxMessage, delay : 0..MaxDelay]

ConversationTypes ==
  /\ said \in 0..MaxMessage /\ engineDeaths \in 0..MaxEngineDeaths
  /\ handler \in [CV!Wss -> Stages]
  /\ output \subseteq CV!Wss /\ connected \subseteq CV!Wss /\ listening \subseteq CV!Wss
  /\ early \subseteq CV!Wss /\ deaf \subseteq CV!Wss
  /\ page \in Pages
  /\ wire \in [CV!Wss -> Seq(0..MaxMessage)]
  /\ up \in [CV!Wss -> 0..MaxMessage]
  /\ shown \in Seq(0..MaxMessage)

\* The page is connected with its own websocket at most; how far doConversation
\* is tells what it has sent, and who destroys the output.
StagesOK ==
  /\ connected \subseteq {page.ws}
  /\ \A w \in CV!Wss :
       /\ handler[w] = "none" => w \notin connected
       /\ handler[w] \in {"none", "asking"} => wire[w] = <<>> /\ w \notin listening
       /\ handler[w] = "opening" => wire[w] = <<>> \/ wire[w] = <<0>>
       /\ handler[w] \in {"asking", "opening"} => w \in connected \cup early
       /\ w \in output => handler[w] = "open"
  /\ CV!NoOrphanOutput

\* What is on a wire is numbered without gaps: it starts no later than with the
\* message that the chat needs next, and it ends with the last one said as long
\* as the websocket has an output.
WireOK ==
  \A w \in CV!Wss :
    /\ \A i \in 1..Len(wire[w]) : wire[w][i] <= said
    /\ \A i \in 1..(Len(wire[w]) - 1) : wire[w][i + 1] = wire[w][i] + 1
    /\ page.ws = w /\ wire[w] # <<>> => wire[w][1] <= page.last + 1
    /\ w \in output \cap connected =>
         IF wire[w] # <<>> THEN wire[w][Len(wire[w])] = said ELSE page.last >= said

\* The chat shows the messages up to the last one that the page knows of.
ShownOK ==
  /\ Len(shown) = page.last /\ page.last <= said
  /\ \A i \in 1..Len(shown) : shown[i] = i

ConversationInv == ConversationTypes /\ StagesOK /\ WireOK /\ ShownOK

LEMMA ConversationSafe ==
  ConversationInv => CV!CVTypeOK /\ CV!ChatIsPrefix /\ CV!NoOrphanOutput
<1> SUFFICES ASSUME ConversationInv
             PROVE  CV!CVTypeOK /\ CV!ChatIsPrefix /\ CV!NoOrphanOutput
  OBVIOUS
<1>1. CV!CVTypeOK
  BY DEF ConversationInv, ConversationTypes, Stages, Pages, CV!CVTypeOK
<1>2. CV!ChatIsPrefix
  <2>1. /\ shown \in Seq(0..MaxMessage) /\ \A i \in 1..Len(shown) : shown[i] = i
        /\ Len(shown) <= said
    BY DEF ConversationInv, ConversationTypes, ShownOK
  <2>2. shown = [i \in 1..Len(shown) |-> shown[i]]
    BY <2>1
  <2>3. QED
    BY <2>1, <2>2 DEF CV!ChatIsPrefix
<1>3. QED
  BY <1>1, <1>2 DEF ConversationInv, StagesOK

LEMMA ConversationInit == CV!CVInit => ConversationInv
<1> SUFFICES ASSUME CV!CVInit PROVE ConversationInv
  OBVIOUS
<1>1. ConversationTypes
  BY BoundsAssumption DEF CV!CVInit, ConversationTypes, Stages, Pages
<1>2. StagesOK
  BY DEF CV!CVInit, StagesOK, CV!NoOrphanOutput
<1>3. WireOK /\ ShownOK
  BY DEF CV!CVInit, WireOK, ShownOK
<1>4. QED
  BY <1>1, <1>2, <1>3 DEF ConversationInv

\* Losing outputs or connections asks for less of the wires.
LEMMA ChatFrame ==
  ASSUME ConversationInv, UNCHANGED <<said, wire, page, shown>>,
         output' \subseteq output, connected' \subseteq connected
  PROVE  WireOK' /\ ShownOK'
BY DEF ConversationInv, WireOK, ShownOK

LEMMA ConversationIdle == ConversationInv /\ UNCHANGED conversationVars => ConversationInv'
<1> SUFFICES ASSUME ConversationInv, UNCHANGED conversationVars PROVE ConversationInv'
  OBVIOUS
<1>1. /\ UNCHANGED <<said, wire, page, shown, output, connected>>
      /\ UNCHANGED <<engineDeaths, handler, listening, early, deaf, up>>
  BY DEF conversationVars
<1>2. WireOK' /\ ShownOK'
  BY <1>1, ChatFrame
<1>3. ConversationTypes' /\ StagesOK'
  BY <1>1 DEF ConversationInv, ConversationTypes, StagesOK, CV!NoOrphanOutput
<1>4. QED
  BY <1>2, <1>3 DEF ConversationInv

LEMMA ConnectWsStep ==
  ASSUME ConversationInv, NEW w \in CV!Wss, CV!Connect(w)
  PROVE  ConversationInv'
<1>1. /\ page.ws = NoWs /\ handler[w] = "none"
      /\ page' = [page EXCEPT !.ws = w]
      /\ connected' = connected \cup {w}
      /\ handler' = [handler EXCEPT ![w] = "asking"]
      /\ UNCHANGED <<engineDeaths, said, output, wire, listening, shown, early, deaf, up>>
  BY DEF CV!Connect
<1>2. ConversationTypes /\ StagesOK /\ WireOK /\ ShownOK
  BY DEF ConversationInv
<1>3. page' \in Pages /\ page'.ws = w /\ page'.last = page.last
  BY <1>1, <1>2 DEF ConversationTypes, Pages
<1>4. connected = {}
  BY <1>1, <1>2, NoWsAssumption DEF ConversationTypes, StagesOK, CV!Wss
<1>5. /\ handler' \in [CV!Wss -> Stages] /\ handler'[w] = "asking"
      /\ \A v \in CV!Wss : v # w => handler'[v] = handler[v]
  BY <1>1, <1>2 DEF ConversationTypes, Stages
<1>6. wire[w] = <<>> /\ w \notin listening /\ w \notin output
  BY <1>1, <1>2 DEF StagesOK
<1>7. ConversationTypes'
  BY <1>1, <1>2, <1>3, <1>5 DEF ConversationTypes
<1>8. StagesOK'
  BY <1>1, <1>2, <1>3, <1>4, <1>5, <1>6 DEF StagesOK, CV!NoOrphanOutput
<1>9. WireOK' /\ ShownOK'
  BY <1>1, <1>2, <1>3, <1>4, <1>6 DEF WireOK, ShownOK
<1>10. QED
  BY <1>7, <1>8, <1>9 DEF ConversationInv

\* What is sent on a wire that ends before it continues it.
LEMMA WireExtended ==
  ASSUME NEW s \in Seq(0..MaxMessage), NEW m \in Seq(0..MaxMessage),
         \A i \in 1..(Len(s) - 1) : s[i + 1] = s[i] + 1,
         \A i \in 1..(Len(m) - 1) : m[i + 1] = m[i] + 1,
         s # <<>> /\ m # <<>> => m[1] = s[Len(s)] + 1
  PROVE  /\ s \o m \in Seq(0..MaxMessage) /\ Len(s \o m) = Len(s) + Len(m)
         /\ s # <<>> => s \o m # <<>> /\ (s \o m)[1] = s[1]
         /\ m # <<>> => s \o m # <<>> /\ (s \o m)[Len(s \o m)] = m[Len(m)]
         /\ s = <<>> => s \o m = m
         /\ m = <<>> => s \o m = s
         /\ \A i \in 1..(Len(s \o m) - 1) : (s \o m)[i + 1] = (s \o m)[i] + 1
         /\ \A n \in Nat :
              (\A i \in 1..Len(s) : s[i] <= n) /\ (\A i \in 1..Len(m) : m[i] <= n)
                => \A i \in 1..Len(s \o m) : (s \o m)[i] <= n
<1> DEFINE t == s \o m
<1>1. /\ t \in Seq(0..MaxMessage) /\ Len(t) = Len(s) + Len(m)
      /\ Len(s) \in Nat /\ Len(m) \in Nat
      /\ \A i \in 1..Len(t) : t[i] = IF i <= Len(s) THEN s[i] ELSE m[i - Len(s)]
  OBVIOUS
<1>2. s = <<>> => t = m
  OBVIOUS
<1>3. m = <<>> => t = s
  OBVIOUS
<1>4. (s # <<>> <=> Len(s) > 0) /\ (m # <<>> <=> Len(m) > 0) /\ (t # <<>> <=> Len(t) > 0)
  BY <1>1, EmptySeq
<1> HIDE DEF t
<1>5. s # <<>> => t # <<>> /\ t[1] = s[1]
  BY <1>1, <1>4
<1>6. m # <<>> => t # <<>> /\ t[Len(t)] = m[Len(m)]
  BY <1>1, <1>4
<1>7. ASSUME NEW i \in 1..(Len(t) - 1) PROVE t[i + 1] = t[i] + 1
  <2>1. CASE i < Len(s)
    BY <1>1, <2>1
  <2>2. CASE i = Len(s)
    BY <1>1, <1>4, <2>2
  <2>3. CASE i > Len(s)
    <3>1. i - Len(s) \in 1..(Len(m) - 1) /\ i + 1 - Len(s) = (i - Len(s)) + 1
      BY <1>1, <2>3
    <3>2. QED
      BY <1>1, <2>3, <3>1
  <2>4. QED
    BY <1>1, <2>1, <2>2, <2>3
<1>8. ASSUME NEW n \in Nat, \A i \in 1..Len(s) : s[i] <= n, \A i \in 1..Len(m) : m[i] <= n,
             NEW i \in 1..Len(t)
      PROVE  t[i] <= n
  <2>1. CASE i <= Len(s)
    BY <1>1, <1>8, <2>1
  <2>2. CASE i > Len(s)
    <3>1. i - Len(s) \in 1..Len(m)
      BY <1>1, <2>2
    <3>2. QED
      BY <1>1, <1>8, <2>2, <3>1
  <2>3. QED
    BY <1>1, <2>1, <2>2
<1>9. QED
  BY <1>1, <1>2, <1>3, <1>5, <1>6, <1>7, <1>8 DEF t

LEMMA SendTo ==
  ASSUME ConversationTypes, NEW ws0 \in SUBSET CV!Wss, NEW m \in Seq(0..MaxMessage),
         wire' = CV!Send(ws0, m)
  PROVE  /\ wire' \in [CV!Wss -> Seq(0..MaxMessage)]
         /\ \A w \in CV!Wss : IF w \in ws0 \cap connected THEN wire'[w] = wire[w] \o m
                                                          ELSE wire'[w] = wire[w]
<1>1. \A w \in CV!Wss : wire[w] \in Seq(0..MaxMessage) /\ wire[w] \o m \in Seq(0..MaxMessage)
  BY DEF ConversationTypes
<1>2. QED
  BY <1>1 DEF CV!Send

\* A wire of which nothing is asked but that it is well numbered.
WireNumbered(w) ==
  /\ \A i \in 1..Len(wire[w]) : wire[w][i] <= said
  /\ \A i \in 1..(Len(wire[w]) - 1) : wire[w][i + 1] = wire[w][i] + 1
  /\ page.ws = w /\ wire[w] # <<>> => wire[w][1] <= page.last + 1
WireComplete(w) ==
  w \in output \cap connected =>
    IF wire[w] # <<>> THEN wire[w][Len(wire[w])] = said ELSE page.last >= said

LEMMA WireParts == WireOK <=> \A w \in CV!Wss : WireNumbered(w) /\ WireComplete(w)
BY DEF WireOK, WireNumbered, WireComplete

\* The other websockets, when something happens to one of them.
LEMMA OtherWires ==
  ASSUME ConversationInv, NEW w \in CV!Wss,
         UNCHANGED <<said, page>>,
         \A v \in CV!Wss : v # w => /\ wire'[v] = wire[v]
                                    /\ v \in output' => v \in output
                                    /\ v \in connected' => v \in connected,
         WireNumbered(w)', WireComplete(w)'
  PROVE  WireOK'
<1>1. ASSUME NEW v \in CV!Wss, v # w
      PROVE  WireNumbered(v)' /\ WireComplete(v)'
  BY <1>1 DEF ConversationInv, WireOK, WireNumbered, WireComplete
<1>2. \A v \in CV!Wss : WireNumbered(v)' /\ WireComplete(v)'
  BY <1>1
<1>3. QED
  BY <1>2 DEF WireOK, WireNumbered, WireComplete

LEMMA GotEngineStep ==
  ASSUME ConversationInv, NEW w \in CV!Wss, CV!GotEngine(w)
  PROVE  ConversationInv'
<1>1. handler[w] = "asking" /\ UNCHANGED <<engineDeaths, said, output, page, shown, early, deaf, up>>
  BY DEF CV!GotEngine
<1>2. ConversationTypes /\ StagesOK /\ WireOK /\ ShownOK
  BY DEF ConversationInv
<1>3. wire[w] = <<>> /\ w \notin output /\ w \in connected \cup early
  BY <1>1, <1>2 DEF StagesOK
<1>4. ShownOK'
  BY <1>1, <1>2 DEF ShownOK
<1>5. CASE engineUp
  <2>1. /\ handler' = [handler EXCEPT ![w] = "opening"]
        /\ listening' = listening \cup {w}
        /\ wire' = CV!Send({w}, <<0>>) /\ UNCHANGED connected
    BY <1>5 DEF CV!GotEngine, CV!Hello
  <2>2. /\ wire' \in [CV!Wss -> Seq(0..MaxMessage)]
        /\ \A v \in CV!Wss : IF v \in {w} \cap connected THEN wire'[v] = wire[v] \o <<0>>
                                                         ELSE wire'[v] = wire[v]
    <3>1. <<0>> \in Seq(0..MaxMessage) /\ {w} \in SUBSET CV!Wss
      BY BoundsAssumption
    <3>2. QED
      BY <1>2, <2>1, <3>1, SendTo
  <2>3. wire'[w] = <<>> \/ wire'[w] = <<0>>
    BY <1>3, <2>2
  <2>4. /\ handler' \in [CV!Wss -> Stages] /\ handler'[w] = "opening"
        /\ \A v \in CV!Wss : v # w => handler'[v] = handler[v]
    BY <1>2, <2>1 DEF ConversationTypes, Stages
  <2>5. ConversationTypes'
    BY <1>1, <1>2, <2>1, <2>2, <2>4 DEF ConversationTypes
  <2>6. StagesOK'
    BY <1>1, <1>2, <1>3, <2>1, <2>2, <2>3, <2>4 DEF StagesOK, CV!NoOrphanOutput
  <2>7. WireNumbered(w)' /\ WireComplete(w)'
    <3>1. said \in Nat /\ page.last \in Nat
      BY <1>2, BoundsAssumption DEF ConversationTypes, Pages
    <3>2. WireComplete(w)'
      BY <1>1, <1>3 DEF WireComplete
    <3>3. CASE wire'[w] = <<>>
      <4>1. WireNumbered(w)'
        BY <3>3 DEF WireNumbered
      <4>2. QED
        BY <3>2, <4>1
    <3>4. CASE wire'[w] = <<0>>
      <4>1. Len(wire'[w]) = 1 /\ wire'[w][1] = 0
        BY <3>4
      <4>2. WireNumbered(w)'
        BY <1>1, <3>1, <4>1 DEF WireNumbered
      <4>3. QED
        BY <3>2, <4>2
    <3>5. QED
      BY <2>3, <3>2, <3>3, <3>4
  <2>8. WireOK'
    BY <1>1, <2>1, <2>2, <2>7, OtherWires
  <2>9. QED
    BY <1>4, <2>5, <2>6, <2>8 DEF ConversationInv
<1>6. CASE ~engineUp
  <2>1. /\ handler' = [handler EXCEPT ![w] = "done"]
        /\ connected' = connected \ {w}
        /\ UNCHANGED <<listening, wire>>
    BY <1>6 DEF CV!GotEngine
  <2>2. /\ handler' \in [CV!Wss -> Stages] /\ handler'[w] = "done"
        /\ \A v \in CV!Wss : v # w => handler'[v] = handler[v]
    BY <1>2, <2>1 DEF ConversationTypes, Stages
  <2>3. ConversationTypes'
    BY <1>1, <1>2, <2>1, <2>2 DEF ConversationTypes
  <2>4. StagesOK'
    BY <1>1, <1>2, <1>3, <2>1, <2>2 DEF StagesOK, CV!NoOrphanOutput
  <2>5. WireOK'
    BY <1>1, <2>1, ChatFrame
  <2>6. QED
    BY <1>4, <2>3, <2>4, <2>5 DEF ConversationInv
<1>7. QED
  BY <1>5, <1>6

\* The output is sent the history: it continues the id, if that is on the wire.
LEMMA OpenedStep ==
  ASSUME ConversationInv, NEW w \in CV!Wss, CV!Opened(w)
  PROVE  ConversationInv'
<1>1. /\ handler[w] = "opening"
      /\ handler' = [handler EXCEPT ![w] = "open"]
      /\ output' = output \cup {w}
      /\ wire' = CV!Send({w}, CV!History)
      /\ UNCHANGED <<engineDeaths, said, connected, listening, page, shown, early, deaf, up>>
  BY DEF CV!Opened
<1>2. ConversationTypes /\ StagesOK /\ WireOK /\ ShownOK
  BY DEF ConversationInv
<1>3. /\ wire[w] \in {<<>>, <<0>>} /\ w \in connected \cup early
      /\ wire[w] \in Seq(0..MaxMessage)
  BY <1>1, <1>2 DEF StagesOK, ConversationTypes
<1>4. said \in Nat /\ said \in 0..MaxMessage /\ page.last \in Nat
  BY <1>2, BoundsAssumption DEF ConversationTypes, Pages
<1> DEFINE m == CV!History
<1>5. /\ m \in Seq(0..MaxMessage) /\ Len(m) = said
      /\ \A i \in 1..said : m[i] = i
  <2>1. /\ DOMAIN m = 1..said /\ m = [i \in 1..said |-> i]
        /\ \A i \in 1..said : i \in 0..MaxMessage
    BY <1>4, BoundsAssumption DEF CV!History
  <2>2. m \in Seq(0..MaxMessage)
    BY <1>4, <2>1
  <2>3. QED
    BY <1>4, <2>1, <2>2
<1> HIDE DEF m
<1>6. /\ wire' \in [CV!Wss -> Seq(0..MaxMessage)]
      /\ \A v \in CV!Wss : IF v \in {w} \cap connected THEN wire'[v] = wire[v] \o m
                                                       ELSE wire'[v] = wire[v]
  <2>1. {w} \in SUBSET CV!Wss /\ wire' = CV!Send({w}, m)
    BY <1>1 DEF m
  <2>2. QED
    BY <1>2, <1>5, <2>1, SendTo
<1>7. /\ handler' \in [CV!Wss -> Stages] /\ handler'[w] = "open"
      /\ \A v \in CV!Wss : v # w => handler'[v] = handler[v]
  BY <1>1, <1>2 DEF ConversationTypes, Stages
<1>8. ConversationTypes'
  BY <1>1, <1>2, <1>6, <1>7 DEF ConversationTypes
<1>9. StagesOK'
  BY <1>1, <1>2, <1>3, <1>6, <1>7 DEF StagesOK, CV!NoOrphanOutput
<1>10. WireNumbered(w)' /\ WireComplete(w)'
  <2>1. CASE w \notin connected
    <3>1. wire'[w] = wire[w]
      BY <1>6, <2>1
    <3>2. QED
      BY <1>1, <1>2, <2>1, <3>1 DEF WireOK, WireNumbered, WireComplete
  <2>2. CASE w \in connected
    <3> DEFINE s == wire[w]
               t == s \o m
    <3>1. wire'[w] = t
      BY <1>6, <2>2
    <3>2. /\ s # <<>> => Len(s) = 1 /\ s[1] = 0
          /\ \A i \in 1..(Len(s) - 1) : s[i + 1] = s[i] + 1
          /\ \A i \in 1..(Len(m) - 1) : m[i + 1] = m[i] + 1
          /\ s # <<>> /\ m # <<>> => m[1] = s[Len(s)] + 1
      <4>1. s # <<>> => Len(s) = 1 /\ s[1] = 0
        BY <1>3
      <4>2. \A i \in 1..(Len(m) - 1) : m[i + 1] = m[i] + 1
        BY <1>4, <1>5
      <4>3. m # <<>> => m[1] = 1
        BY <1>4, <1>5, EmptySeq
      <4>4. \A i \in 1..(Len(s) - 1) : s[i + 1] = s[i] + 1
        BY <1>3
      <4>5. QED
        BY <4>1, <4>2, <4>3, <4>4
    <3>3. s \in Seq(0..MaxMessage) /\ m \in Seq(0..MaxMessage)
      BY <1>3, <1>5
    <3> HIDE DEF s, t
    <3>4. /\ s # <<>> => t # <<>> /\ t[1] = s[1]
          /\ m # <<>> => t # <<>> /\ t[Len(t)] = m[Len(m)]
          /\ s = <<>> => t = m
          /\ m = <<>> => t = s
          /\ \A i \in 1..(Len(t) - 1) : t[i + 1] = t[i] + 1
          /\ \A n \in Nat :
               (\A i \in 1..Len(s) : s[i] <= n) /\ (\A i \in 1..Len(m) : m[i] <= n)
                 => \A i \in 1..Len(t) : t[i] <= n
      BY <3>2, <3>3, WireExtended DEF t
    <3>5. \A i \in 1..Len(t) : t[i] <= said
      <4>1. \A i \in 1..Len(s) : s[i] <= said
        BY <1>3, <1>4 DEF s
      <4>2. \A i \in 1..Len(m) : m[i] <= said
        BY <1>4, <1>5
      <4>3. QED
        BY <1>4, <3>4, <4>1, <4>2
    <3>6. t # <<>> => t[1] <= page.last + 1
      <4>1. CASE s # <<>>
        BY <1>4, <3>2, <3>4, <4>1
      <4>2. CASE s = <<>>
        BY <1>4, <1>5, <3>4, <4>2, EmptySeq
      <4>3. QED
        BY <4>1, <4>2
    <3>7. IF t # <<>> THEN t[Len(t)] = said ELSE page.last >= said
      <4>1. CASE m # <<>>
        BY <1>4, <1>5, <3>4, <4>1, EmptySeq
      <4>2. CASE m = <<>>
        <5>1. said = 0
          BY <1>4, <1>5, <4>2
        <5>2. QED
          BY <1>4, <3>2, <3>4, <4>2, <5>1
      <4>3. QED
        BY <4>1, <4>2
    <3>8. QED
      BY <1>1, <3>1, <3>4, <3>5, <3>6, <3>7 DEF WireNumbered, WireComplete
  <2>3. QED
    BY <2>1, <2>2
<1>11. WireOK'
  BY <1>1, <1>6, <1>10, OtherWires
<1>12. ShownOK'
  BY <1>1, <1>2 DEF ShownOK
<1>13. QED
  BY <1>8, <1>9, <1>11, <1>12 DEF ConversationInv

\* A message more: it continues the wires of the outputs, or is the next one
\* that their page needs.
LEMMA MessageStep ==
  ASSUME ConversationInv, said < MaxMessage, said' = said + 1,
         wire' = CV!Send(output, <<said + 1>>),
         UNCHANGED <<engineDeaths, output, handler, connected, listening, page, shown, early, deaf>>,
         up' \in [CV!Wss -> 0..MaxMessage]
  PROVE  ConversationInv'
<1>1. ConversationTypes /\ StagesOK /\ WireOK /\ ShownOK
  BY DEF ConversationInv
<1>2. said \in Nat /\ said + 1 \in 0..MaxMessage /\ page.last \in Nat /\ MaxMessage \in Nat
  BY <1>1, BoundsAssumption DEF ConversationTypes, Pages
<1> DEFINE m == <<said + 1>>
<1>3. m \in Seq(0..MaxMessage) /\ Len(m) = 1 /\ m[1] = said + 1 /\ m # <<>>
  BY <1>2
<1> HIDE DEF m
<1>4. /\ wire' \in [CV!Wss -> Seq(0..MaxMessage)]
      /\ \A v \in CV!Wss : IF v \in output \cap connected THEN wire'[v] = wire[v] \o m
                                                          ELSE wire'[v] = wire[v]
  <2>1. output \in SUBSET CV!Wss /\ wire' = CV!Send(output, m)
    BY <1>1 DEF ConversationTypes, m
  <2>2. QED
    BY <1>1, <1>3, <2>1, SendTo
<1>5. ConversationTypes'
  BY <1>1, <1>2, <1>4 DEF ConversationTypes
<1>6. StagesOK'
  BY <1>1, <1>4 DEF StagesOK, CV!NoOrphanOutput
<1>7. ASSUME NEW w \in CV!Wss PROVE WireNumbered(w)' /\ WireComplete(w)'
  <2>1. CASE w \notin output \cap connected
    <3>1. wire'[w] = wire[w] /\ WireNumbered(w) /\ wire[w] \in Seq(0..MaxMessage)
      BY <1>1, <1>4, <2>1 DEF WireOK, WireNumbered, ConversationTypes
    <3>2. \A i \in 1..Len(wire[w]) : wire[w][i] <= said + 1
      BY <1>2, <3>1 DEF WireNumbered
    <3>3. QED
      BY <2>1, <3>1, <3>2 DEF WireNumbered, WireComplete
  <2>2. CASE w \in output \cap connected
    <3> DEFINE s == wire[w]
               t == s \o m
    <3>1. /\ wire'[w] = t /\ s \in Seq(0..MaxMessage) /\ page.ws = w
          /\ WireNumbered(w) /\ WireComplete(w)
      BY <1>1, <1>4, <2>2 DEF ConversationTypes, StagesOK, WireOK, WireNumbered, WireComplete
    <3>2. /\ \A i \in 1..Len(s) : s[i] <= said + 1
          /\ \A i \in 1..(Len(s) - 1) : s[i + 1] = s[i] + 1
          /\ s # <<>> => s[1] <= page.last + 1
          /\ IF s # <<>> THEN s[Len(s)] = said ELSE page.last >= said
      BY <1>2, <2>2, <3>1 DEF WireNumbered, WireComplete
    <3> HIDE DEF s, t
    <3>3. /\ \A i \in 1..(Len(m) - 1) : m[i + 1] = m[i] + 1
          /\ s # <<>> /\ m # <<>> => m[1] = s[Len(s)] + 1
          /\ \A i \in 1..Len(m) : m[i] <= said + 1
      BY <1>2, <1>3, <3>2
    <3>4. /\ s # <<>> => t # <<>> /\ t[1] = s[1]
          /\ t # <<>> /\ t[Len(t)] = said + 1
          /\ s = <<>> => t = m
          /\ \A i \in 1..(Len(t) - 1) : t[i + 1] = t[i] + 1
          /\ \A n \in Nat :
               (\A i \in 1..Len(s) : s[i] <= n) /\ (\A i \in 1..Len(m) : m[i] <= n)
                 => \A i \in 1..Len(t) : t[i] <= n
      BY <1>3, <3>1, <3>2, <3>3, WireExtended DEF t
    <3>5. \A i \in 1..Len(t) : t[i] <= said + 1
      <4>1. said + 1 \in Nat
        BY <1>2
      <4>2. (\A i \in 1..Len(s) : s[i] <= said + 1) /\ (\A i \in 1..Len(m) : m[i] <= said + 1)
        BY <3>2, <3>3
      <4>3. QED
        BY <3>4, <4>1, <4>2
    <3>6. t[1] <= page.last + 1
      BY <1>2, <1>3, <3>2, <3>4
    <3>7. QED
      BY <3>1, <3>4, <3>5, <3>6 DEF WireNumbered, WireComplete
  <2>3. QED
    BY <2>1, <2>2
<1>8. WireOK'
  BY <1>7 DEF WireOK, WireNumbered, WireComplete
<1>9. ShownOK'
  BY <1>1, <1>2 DEF ShownOK
<1>10. QED
  BY <1>5, <1>6, <1>8, <1>9 DEF ConversationInv

\* The page takes the next message: it is new only if it is the one that the
\* chat needs.
LEMMA OnMessageStep ==
  ASSUME ConversationInv, NEW w \in CV!Wss, CV!OnMessage(w)
  PROVE  ConversationInv'
<1> DEFINE s == wire[w]
           id == Head(s)
           new == id # 0 /\ id > page.last
<1>1. /\ page.ws = w /\ s # <<>>
      /\ wire' = [wire EXCEPT ![w] = Tail(s)]
      /\ page' = [page EXCEPT !.open = TRUE,
                              !.delay = IF page.open THEN page.delay ELSE 0,
                              !.last = IF new THEN id ELSE page.last]
      /\ shown' = IF new THEN Append(shown, id) ELSE shown
      /\ UNCHANGED <<engineDeaths, said, output, handler, connected, listening, early, deaf, up>>
  BY DEF CV!OnMessage, CV!Fresh, CV!Hello
<1>2. ConversationTypes /\ StagesOK /\ WireOK /\ ShownOK
  BY DEF ConversationInv
<1>3. said \in Nat /\ page.last \in Nat /\ MaxMessage \in Nat /\ MaxDelay \in Nat
      /\ page \in Pages /\ shown \in Seq(0..MaxMessage)
  BY <1>2, BoundsAssumption DEF ConversationTypes, Pages
<1>4. /\ s \in Seq(0..MaxMessage) /\ Len(s) \in Nat \ {0}
      /\ id = s[1] /\ id \in 0..MaxMessage
      /\ Tail(s) \in Seq(0..MaxMessage) /\ Len(Tail(s)) = Len(s) - 1
      /\ \A i \in 1..(Len(s) - 1) : Tail(s)[i] = s[i + 1]
  <2>1. s \in Seq(0..MaxMessage) /\ Len(s) \in Nat \ {0}
    BY <1>1, <1>2, EmptySeq DEF ConversationTypes
  <2> HIDE DEF s
  <2>2. /\ Head(s) \in 0..MaxMessage
        /\ Tail(s) \in Seq(0..MaxMessage) /\ Len(Tail(s)) = Len(s) - 1
        /\ \A i \in 1..Len(Tail(s)) : Tail(s)[i] = s[i + 1]
    BY <1>1, <2>1, HeadTailProperties
  <2>3. Head(s) = s[1]
    BY <1>1, <2>1
  <2>4. QED
    BY <2>1, <2>2, <2>3
<1>5. /\ \A i \in 1..Len(s) : s[i] <= said
      /\ \A i \in 1..(Len(s) - 1) : s[i + 1] = s[i] + 1
      /\ s[1] <= page.last + 1
      /\ w \in output \cap connected => s[Len(s)] = said
  BY <1>1, <1>2 DEF WireOK
<1> DEFINE last == IF new THEN id ELSE page.last
<1>6. /\ last \in 0..MaxMessage /\ last <= said /\ id <= last
      /\ new => id = page.last + 1
  <2>1. page.last <= said /\ page.last \in 0..MaxMessage
    BY <1>2, <1>3 DEF ShownOK, Pages
  <2>2. QED
    BY <1>3, <1>4, <1>5, <2>1
<1>7. page' \in Pages /\ page'.ws = w /\ page'.last = last
  <2> DEFINE d == IF page.open THEN page.delay ELSE 0
  <2>1. page' = [page EXCEPT !.open = TRUE, !.delay = d, !.last = last]
    BY <1>1
  <2>2. d \in 0..MaxDelay
    BY <1>3 DEF Pages
  <2> HIDE DEF d, last
  <2>3. QED
    BY <1>1, <1>3, <1>6, <2>1, <2>2 DEF Pages
<1>8. /\ wire' \in [CV!Wss -> Seq(0..MaxMessage)] /\ wire'[w] = Tail(s)
      /\ \A v \in CV!Wss : v # w => wire'[v] = wire[v]
  BY <1>1, <1>2, <1>4 DEF ConversationTypes
<1>9. /\ shown' \in Seq(0..MaxMessage) /\ Len(shown') = last
      /\ \A i \in 1..Len(shown') : shown'[i] = i
  <2>1. Len(shown) = page.last /\ \A i \in 1..Len(shown) : shown[i] = i
    BY <1>2 DEF ShownOK
  <2>2. CASE new
    <3>1. shown' = Append(shown, id) /\ last = page.last + 1 /\ id = page.last + 1
      BY <1>1, <1>6, <2>2
    <3>2. QED
      BY <1>3, <1>4, <2>1, <3>1
  <2>3. CASE ~new
    BY <1>1, <1>3, <2>1, <2>3
  <2>4. QED
    BY <2>2, <2>3
<1> HIDE DEF s, id, last
<1>10. ConversationTypes'
  BY <1>1, <1>2, <1>7, <1>8, <1>9 DEF ConversationTypes
<1>11. StagesOK'
  <2>1. Tail(s) = <<>> \/ s # <<0>>
    BY <1>4
  <2>2. ASSUME NEW v \in CV!Wss
        PROVE  /\ wire[v] = <<>> => wire'[v] = <<>>
               /\ wire[v] = <<0>> => wire'[v] \in {<<>>, <<0>>}
    BY <1>1, <1>8, <2>1 DEF s
  <2>3. QED
    BY <1>1, <1>2, <1>7, <2>2 DEF StagesOK, CV!NoOrphanOutput
<1>12. ASSUME NEW v \in CV!Wss PROVE WireNumbered(v)' /\ WireComplete(v)'
  <2>1. CASE v = w
    <3> DEFINE t == Tail(s)
    <3>1. wire'[v] = t /\ t \in Seq(0..MaxMessage) /\ Len(t) = Len(s) - 1
      BY <1>4, <1>8, <2>1
    <3>2. \A i \in 1..Len(t) : t[i] = s[i + 1] /\ i \in 1..(Len(s) - 1) /\ i + 1 \in 1..Len(s)
      BY <1>4, <3>1
    <3>3. t # <<>> <=> Len(s) > 1
      BY <1>4, <3>1, EmptySeq
    <3> HIDE DEF t
    <3>4. \A i \in 1..Len(t) : t[i] <= said
      BY <1>5, <3>2
    <3>5. ASSUME NEW i \in 1..(Len(t) - 1) PROVE t[i + 1] = t[i] + 1
      <4>1. /\ i \in 1..Len(t) /\ i + 1 \in 1..Len(t)
            /\ i + 1 \in 1..(Len(s) - 1)
        BY <1>4, <3>1
      <4>2. t[i] = s[i + 1] /\ t[i + 1] = s[(i + 1) + 1]
        BY <3>2, <4>1
      <4>3. QED
        BY <1>5, <4>1, <4>2
    <3>6. t # <<>> => t[1] <= last + 1
      <4>1. t # <<>> => t[1] = s[1 + 1] /\ 1 \in 1..(Len(s) - 1) /\ 1 + 1 = 2
        BY <1>4, <3>1, <3>2, <3>3
      <4>2. t # <<>> => t[1] = id + 1
        BY <1>4, <1>5, <4>1
      <4>3. QED
        BY <1>3, <1>4, <1>6, <4>2
    <3>7. w \in output \cap connected =>
            IF t # <<>> THEN t[Len(t)] = said ELSE last >= said
      BY <1>3, <1>4, <1>5, <1>6, <3>1, <3>2, <3>3
    <3>8. QED
      BY <1>1, <1>7, <2>1, <3>1, <3>4, <3>5, <3>6, <3>7 DEF WireNumbered, WireComplete
  <2>2. CASE v # w
    <3>1. v \notin connected /\ page'.ws # v
      BY <1>1, <1>2, <1>7, <2>2 DEF StagesOK
    <3>2. QED
      BY <1>1, <1>2, <1>8, <2>2, <3>1 DEF WireOK, WireNumbered, WireComplete
  <2>3. QED
    BY <2>1, <2>2
<1>13. WireOK'
  BY <1>12 DEF WireOK, WireNumbered, WireComplete
<1>14. ShownOK'
  BY <1>1, <1>6, <1>7, <1>9 DEF ShownOK
<1>15. QED
  BY <1>10, <1>11, <1>13, <1>14 DEF ConversationInv

\* The page sees the end of its websocket, which is not connected any more.
LEMMA OnCloseStep ==
  ASSUME ConversationInv, NEW w \in CV!Wss, CV!OnClose(w)
  PROVE  ConversationInv'
<1> DEFINE d == IF page.delay < MaxDelay THEN page.delay + 1 ELSE page.delay
<1>1. /\ page.ws = w /\ w \notin connected
      /\ page' = [page EXCEPT !.ws = NoWs, !.open = FALSE, !.delay = d]
      /\ wire' = [wire EXCEPT ![w] = <<>>] /\ up' = [up EXCEPT ![w] = 0]
      /\ UNCHANGED <<engineDeaths, said, output, handler, connected, listening, shown, early, deaf>>
  BY DEF CV!OnClose
<1>2. ConversationTypes /\ StagesOK /\ WireOK /\ ShownOK
  BY DEF ConversationInv
<1>3. page' \in Pages /\ page'.ws = NoWs /\ page'.last = page.last
  <2>1. page \in Pages /\ d \in 0..MaxDelay
    BY <1>2, BoundsAssumption DEF ConversationTypes, Pages
  <2> HIDE DEF d
  <2>2. QED
    BY <1>1, <2>1 DEF Pages
<1>4. connected = {} /\ NoWs \notin CV!Wss
  BY <1>1, <1>2, NoWsAssumption DEF StagesOK, CV!Wss
<1>5. /\ wire' \in [CV!Wss -> Seq(0..MaxMessage)] /\ wire'[w] = <<>>
      /\ \A v \in CV!Wss : v # w => wire'[v] = wire[v]
      /\ up' \in [CV!Wss -> 0..MaxMessage]
  BY <1>1, <1>2, BoundsAssumption DEF ConversationTypes
<1>6. ConversationTypes'
  BY <1>1, <1>2, <1>3, <1>5 DEF ConversationTypes
<1>7. StagesOK'
  BY <1>1, <1>2, <1>3, <1>4, <1>5 DEF StagesOK, CV!NoOrphanOutput
<1>8. ASSUME NEW v \in CV!Wss PROVE WireNumbered(v)' /\ WireComplete(v)'
  <2>1. WireComplete(v)'
    BY <1>1, <1>4 DEF WireComplete
  <2>2. CASE v = w
    BY <1>5, <2>1, <2>2 DEF WireNumbered
  <2>3. CASE v # w
    BY <1>1, <1>2, <1>3, <1>4, <1>5, <2>1, <2>3 DEF WireOK, WireNumbered
  <2>4. QED
    BY <2>2, <2>3
<1>9. WireOK' /\ ShownOK'
  BY <1>1, <1>2, <1>3, <1>8 DEF WireOK, WireNumbered, WireComplete, ShownOK
<1>10. QED
  BY <1>6, <1>7, <1>9 DEF ConversationInv

LEMMA WsClosedStep ==
  ASSUME ConversationInv, NEW w \in CV!Wss, CV!WsClosed(w)
  PROVE  ConversationInv'
<1>1. /\ connected' = connected \ {w} /\ output' = CV!Ended(w)
      /\ early' = IF handler[w] = "open" THEN early ELSE early \cup {w}
      /\ UNCHANGED <<engineDeaths, said, handler, wire, listening, page, shown, deaf, up>>
  BY DEF CV!WsClosed
<1>2. ConversationTypes /\ StagesOK
  BY DEF ConversationInv
<1>3. output' \subseteq output /\ w \notin output'
  BY <1>1, <1>2 DEF CV!Ended, StagesOK
<1>4. ConversationTypes'
  BY <1>1, <1>2, <1>3 DEF ConversationTypes
<1>5. StagesOK'
  BY <1>1, <1>2, <1>3 DEF StagesOK, CV!NoOrphanOutput
<1>6. WireOK' /\ ShownOK'
  BY <1>1, <1>3, ChatFrame
<1>7. QED
  BY <1>4, <1>5, <1>6 DEF ConversationInv

\* The engine dies with its outputs; only a websocket for which the engine is
\* still asked for may stay open without a listener.
LEMMA EngineDiesStep ==
  ASSUME ConversationInv, CV!EngineDies
  PROVE  ConversationInv'
<1>1. /\ engineDeaths < MaxEngineDeaths /\ engineDeaths' = engineDeaths + 1
      /\ output' = {}
      /\ connected' = {w \in connected : w \notin listening /\ handler[w] # "opening"}
      /\ handler' = [w \in CV!Wss |-> IF handler[w] \in {"opening", "open"} THEN "done" ELSE handler[w]]
      /\ listening' = {}
      /\ UNCHANGED <<said, wire, page, shown, early, deaf, up>>
  BY DEF CV!EngineDies
<1>2. ConversationTypes /\ StagesOK
  BY DEF ConversationInv
<1>3. /\ handler' \in [CV!Wss -> Stages]
      /\ \A w \in CV!Wss : handler'[w] = handler[w] \/ handler'[w] = "done"
      /\ \A w \in CV!Wss : handler'[w] \notin {"opening", "open"}
  BY <1>1, <1>2 DEF ConversationTypes, Stages
<1>4. ConversationTypes'
  BY <1>1, <1>2, <1>3, BoundsAssumption DEF ConversationTypes
<1>5. ASSUME NEW w \in CV!Wss, handler'[w] = "asking"
      PROVE  w \in connected' \cup early'
  BY <1>1, <1>2, <1>3, <1>5 DEF StagesOK
<1>6. StagesOK'
  BY <1>1, <1>2, <1>3, <1>5 DEF StagesOK, CV!NoOrphanOutput
<1>7. WireOK' /\ ShownOK'
  BY <1>1, ChatFrame
<1>8. QED
  BY <1>4, <1>6, <1>7 DEF ConversationInv

\* Steps that move commands of the page, listeners or the engine, and nothing
\* of the chat.
LEMMA AsideStep ==
  ASSUME ConversationInv,
         UNCHANGED <<engineDeaths, said, output, handler, connected, wire, page, shown, early>>,
         up' \in [CV!Wss -> 0..MaxMessage],
         listening' \subseteq listening, deaf' \subseteq CV!Wss
  PROVE  ConversationInv'
<1>1. ConversationTypes' /\ StagesOK'
  BY DEF ConversationInv, ConversationTypes, StagesOK, CV!NoOrphanOutput
<1>2. WireOK' /\ ShownOK'
  BY ChatFrame
<1>3. QED
  BY <1>1, <1>2 DEF ConversationInv

LEMMA CommandStep ==
  ASSUME ConversationInv, NEW w \in CV!Wss, CV!SendCommand(w) \/ CV!OnCommand(w)
  PROVE  ConversationInv'
<1>1. /\ said \in Nat /\ MaxMessage \in Nat /\ up \in [CV!Wss -> 0..MaxMessage]
      /\ deaf \subseteq CV!Wss
  BY BoundsAssumption DEF ConversationInv, ConversationTypes
<1>2. up' \in [CV!Wss -> 0..MaxMessage]
  <2>1. \/ up[w] + said < MaxMessage /\ up' = [up EXCEPT ![w] = up[w] + 1]
        \/ up[w] > 0 /\ up' = [up EXCEPT ![w] = up[w] - 1]
    BY DEF CV!SendCommand, CV!OnCommand
  <2>2. up[w] \in 0..MaxMessage
    BY <1>1
  <2>3. \/ up[w] + 1 \in 0..MaxMessage /\ up' = [up EXCEPT ![w] = up[w] + 1]
        \/ up[w] - 1 \in 0..MaxMessage /\ up' = [up EXCEPT ![w] = up[w] - 1]
    BY <1>1, <2>1, <2>2
  <2>4. QED
    BY <1>1, <2>3
<1>3. CASE /\ said < MaxMessage /\ said' = said + 1 /\ wire' = CV!Send(output, <<said + 1>>)
           /\ CV!OnCommand(w)
  BY <1>2, <1>3, MessageStep DEF CV!OnCommand
<1>4. CASE UNCHANGED <<said, wire>>
  BY <1>1, <1>2, <1>4, AsideStep DEF CV!SendCommand, CV!OnCommand
<1>5. QED
  BY <1>3, <1>4 DEF CV!SendCommand, CV!OnCommand

LEMMA ConversationNext == ConversationInv /\ CV!CVNext => ConversationInv'
<1> SUFFICES ASSUME ConversationInv, CV!CVNext PROVE ConversationInv'
  OBVIOUS
<1>0. /\ up \in [CV!Wss -> 0..MaxMessage] /\ deaf \subseteq CV!Wss
      /\ listening \subseteq CV!Wss
  BY DEF ConversationInv, ConversationTypes
<1>1. CASE CV!AddMessage
  BY <1>0, <1>1, MessageStep DEF CV!AddMessage
<1>2. CASE CV!EngineStarts \/ CV!OtherEngineDies
  BY <1>0, <1>2, AsideStep DEF CV!EngineStarts, CV!OtherEngineDies
<1>3. ASSUME NEW w \in CV!Wss, CV!PageStep(w) \/ CV!SiteStep(w) PROVE ConversationInv'
  BY <1>3, ConnectWsStep, OnMessageStep, OnCloseStep, GotEngineStep, OpenedStep
     DEF CV!PageStep, CV!SiteStep
<1>4. QED
  BY <1>1, <1>2, <1>3, WsClosedStep, CommandStep, EngineDiesStep DEF CV!CVNext

-----------------------------------------------------------------------------
(* All of them                                                             *)

IInv == ClientInv /\ ControllerInv /\ ConversationInv /\ TrainingInv /\ SpeechInv

LEMMA IInvNext == IInv /\ [Next]_vars => IInv'
<1> SUFFICES ASSUME IInv, [Next]_vars PROVE IInv'
  OBVIOUS
<1>1. CASE Frame("client") /\ EC!ECNext
  <2>1. /\ UNCHANGED controllerVars /\ UNCHANGED conversationVars
        /\ UNCHANGED trainingVars /\ UNCHANGED speechVars
    BY <1>1 DEF Frame
  <2>2. QED
    BY <1>1, <2>1, ClientNext, ControllerIdle, ConversationIdle, TrainingIdle, SpeechIdle
       DEF IInv
<1>2. CASE Frame("controller") /\ UC!UCNext
  <2>1. /\ UNCHANGED clientVars /\ UNCHANGED conversationVars
        /\ UNCHANGED trainingVars /\ UNCHANGED speechVars
    BY <1>2 DEF Frame
  <2>2. QED
    BY <1>2, <2>1, ClientIdle, ControllerNext, ConversationIdle, TrainingIdle, SpeechIdle
       DEF IInv
<1>3. CASE Frame("conversation") /\ CV!CVNext
  <2>1. /\ UNCHANGED clientVars /\ UNCHANGED controllerVars
        /\ UNCHANGED trainingVars /\ UNCHANGED speechVars
    BY <1>3 DEF Frame
  <2>2. QED
    BY <1>3, <2>1, ClientIdle, ControllerIdle, ConversationNext, TrainingIdle, SpeechIdle
       DEF IInv
<1>4. CASE Frame("training") /\ TB!TBNext
  <2>1. /\ UNCHANGED clientVars /\ UNCHANGED controllerVars
        /\ UNCHANGED conversationVars /\ UNCHANGED speechVars
    BY <1>4 DEF Frame
  <2>2. QED
    BY <1>4, <2>1, ClientIdle, ControllerIdle, ConversationIdle, TrainingNext, SpeechIdle
       DEF IInv
<1>5. CASE Frame("speech") /\ SP!SNext
  <2>1. /\ UNCHANGED clientVars /\ UNCHANGED controllerVars
        /\ UNCHANGED conversationVars /\ UNCHANGED trainingVars
    BY <1>5 DEF Frame
  <2>2. QED
    BY <1>5, <2>1, ClientIdle, ControllerIdle, ConversationIdle, TrainingIdle, SpeechNext
       DEF IInv
<1>6. CASE UNCHANGED vars
  <2>1. /\ UNCHANGED clientVars /\ UNCHANGED controllerVars /\ UNCHANGED conversationVars
        /\ UNCHANGED trainingVars /\ UNCHANGED speechVars
    BY <1>6 DEF vars
  <2>2. QED
    BY <2>1, ClientIdle, ControllerIdle, ConversationIdle, TrainingIdle, SpeechIdle DEF IInv
<1>7. QED
  BY <1>1, <1>2, <1>3, <1>4, <1>5, <1>6 DEF Next

LEMMA Invariance == Spec => []IInv
<1>1. Init => IInv
  BY ClientInit, ControllerInit, ConversationInit, TrainingInit, SpeechInit DEF Init, IInv
<1>2. QED
  BY <1>1, IInvNext, PTL DEF Spec

\* Every part keeps its types, for all sets of users, jobs and runs and for any
\* number of crashes; in particular the table of a worker lists engines that
\* live, each under its own user.
THEOREM ClusterTypeCorrect == Spec => []ClusterTypes
<1>1. IInv => ClusterTypes
  BY ControllerTyped, ConversationSafe
     DEF IInv, ClientInv, TrainingInv, TrainingTypes, SpeechInv, ClusterTypes
<1>2. QED
  BY <1>1, Invariance, PTL

\* FailuresContained for all users, jobs and runs and any number of failures,
\* with the exceptions its conjuncts name: no engine of a closed connection is
\* given out before stop(); a user has one engine unless one of his that was
\* killed failed late or the number of backends changed; the chat shows a prefix of the
\* conversation and leaves no output behind but those of a websocket that
\* closed before its handler; what wait() is told is the outcome of its job
\* unless the watch gave up, and somebody watches while it waits; speech has at
\* most one answer.
THEOREM FailuresDoNoHarm == Spec => []FailuresContained
<1>1. IInv => FailuresContained
  BY ClientSafe, ControllerSafe, ConversationSafe
     DEF IInv, TrainingInv, SpeechInv, FailuresContained
<1>2. QED
  BY <1>1, Invariance, PTL

=============================================================================
