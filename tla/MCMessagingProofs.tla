-------------------------- MODULE MCMessagingProofs --------------------------
(***************************************************************************)
(* Proofs about the eight parts that carry and store what users say: what  *)
(* they agreed to is kept to, what is sent over the control socket, the    *)
(* cloud-sync websocket and the Google bridge is delivered whole and in    *)
(* order, connections of the pool are handed over clean, preferences are   *)
(* saved and a request to all replicas is handled once, for every set of   *)
(* pages, apps, handlers, keys, clients, connections and replicas and      *)
(* every bound.                                                            *)
(***************************************************************************)
EXTENDS MCMessaging, FiniteSetTheorems, TLAPS

-----------------------------------------------------------------------------
(* The recording of conversations                                          *)

\* A request to start, or the question before it, is of a page that wants the
\* recording, unless a click crossed it.
RecordingInv ==
  /\ RE!RETypeOK
  /\ exists \in BOOLEAN /\ recordingMode \in BOOLEAN /\ crossed \in BOOLEAN
  /\ wants \in [Pages -> BOOLEAN]
  /\ RE!RecordingConsent
  /\ \A p \in Pages : toggles[p] \cap {"warned", "start"} # {} => wants[p] \/ crossed

LEMMA RecordingInit == RE!REInit => RecordingInv
BY DEF RE!REInit, RecordingInv, RE!RETypeOK, RE!RecordingConsent

\* A request that joins those of its page.
LEMMA Posted ==
  ASSUME RE!RETypeOK, NEW p \in Pages, NEW what \in {"warned", "start", "stop", "status"}, RE!Post(p, what)
  PROVE  /\ toggles' \in [Pages -> SUBSET {"warned", "start", "stop", "status"}]
         /\ toggles'[p] = toggles[p] \cup {what}
         /\ \A q \in Pages : q # p => toggles'[q] = toggles[q]
BY DEF RE!RETypeOK, RE!Post

LEMMA RecordingNext ==
  RecordingInv /\ RE!RENext => RecordingInv'
<1> SUFFICES ASSUME RecordingInv, RE!RENext PROVE RecordingInv'
  OBVIOUS
<1> USE DEF RecordingInv, RE!RecordingConsent
<1>1. ASSUME NEW p \in Pages, RE!Check(p) PROVE RecordingInv'
  BY <1>1, Posted DEF RE!Check, RE!RETypeOK
<1>2. ASSUME NEW p \in Pages, RE!Uncheck(p) PROVE RecordingInv'
  <2>1. /\ toggles' \in [Pages -> SUBSET {"warned", "start", "stop", "status"}]
        /\ toggles'[p] = toggles[p] \cup {"stop"}
        /\ \A q \in Pages : q # p => toggles'[q] = toggles[q]
    BY <1>2, Posted DEF RE!Uncheck
  <2>2. /\ wants' \in [Pages -> BOOLEAN] /\ ~wants'[p] /\ checked' \in [Pages -> BOOLEAN]
        /\ \A q \in Pages : q # p => wants'[q] = wants[q]
        /\ crossed' = (crossed \/ ~RE!Quiet(p))
        /\ UNCHANGED <<exists, recordingMode, status>>
    BY <1>2 DEF RE!Uncheck, RE!RETypeOK
  <2>3. toggles[p] \cap {"warned", "start"} # {} => crossed'
    BY <2>2 DEF RE!Quiet
  <2> QED  BY <2>1, <2>2, <2>3 DEF RE!RETypeOK
<1>3. ASSUME NEW p \in Pages, RE!IdMessage(p) PROVE RecordingInv'
  <2>1. PICK what \in {"start", "status"} : RE!Post(p, what) /\ (what = "start" => checked[p])
    BY <1>3 DEF RE!IdMessage
  <2>2. /\ toggles' \in [Pages -> SUBSET {"warned", "start", "stop", "status"}]
        /\ toggles'[p] = toggles[p] \cup {what}
        /\ \A q \in Pages : q # p => toggles'[q] = toggles[q]
    BY <2>1, Posted
  <2>3. /\ wants' \in [Pages -> BOOLEAN] /\ wants'[p] = (wants[p] \/ checked[p])
        /\ \A q \in Pages : q # p => wants'[q] = wants[q]
        /\ UNCHANGED <<exists, recordingMode, checked, status, crossed>>
    BY <1>3 DEF RE!IdMessage, RE!RETypeOK
  <2> QED  BY <2>1, <2>2, <2>3 DEF RE!RETypeOK
<1>4. ASSUME NEW p \in Pages, RE!RefreshToolbar(p) PROVE RecordingInv'
  BY <1>4, Posted DEF RE!RefreshToolbar, RE!RETypeOK
<1>12. ASSUME NEW p \in Pages, RE!ServeWarned(p) PROVE RecordingInv'
  BY <1>12 DEF RE!ServeWarned, RE!RETypeOK
<1>5. ASSUME NEW p \in Pages, RE!ServeStart(p) PROVE RecordingInv'
  BY <1>5 DEF RE!ServeStart, RE!RETypeOK
<1>6. ASSUME NEW p \in Pages, RE!ServeStop(p) PROVE RecordingInv'
  BY <1>6 DEF RE!ServeStop, RE!RETypeOK
<1>7. ASSUME NEW p \in Pages, RE!ServeStatus(p) PROVE RecordingInv'
  BY <1>7 DEF RE!ServeStatus, RE!RETypeOK
<1>8. ASSUME NEW p \in Pages, NEW on \in BOOLEAN, RE!StatusArrives(p, on) PROVE RecordingInv'
  BY <1>8 DEF RE!StatusArrives, RE!RETypeOK
<1>9. ASSUME NEW p \in Pages, NEW what \in {"warned", "start", "stop", "status"}, RE!RequestFails(p, what)
      PROVE  RecordingInv'
  BY <1>9 DEF RE!RequestFails, RE!RETypeOK
<1>10. CASE RE!EngineRestarts
  BY <1>10 DEF RE!EngineRestarts, RE!RETypeOK
<1>11. CASE RE!ConversationOpens
  BY <1>11 DEF RE!ConversationOpens, RE!RETypeOK
<1> QED  BY <1>1, <1>2, <1>3, <1>4, <1>5, <1>6, <1>7, <1>8, <1>9, <1>10, <1>11, <1>12
     DEF RE!RENext

LEMMA RecordingIdle == RecordingInv /\ UNCHANGED recordingVars => RecordingInv'
BY DEF RecordingInv, RE!RETypeOK, RE!RecordingConsent, recordingVars

-----------------------------------------------------------------------------
(* Engines and apps                                                        *)

HandlerStates ==
  [kind : {"idle", "stop", "unsubscribe", "user"}, to : Addresses \cup {"none"},
   engine : AP!Engines, todo : SUBSET Nat, since : Nat]

\* A handler that is at work has dealt with those apps of its engine that ran
\* when its loop began and are not on its list; the engine is an anonymous one
\* unless the loop is the user's.
HandlerSound(h) ==
  LET r == handler[h]
  IN  /\ \A i \in r.todo : i < r.since
      /\ r.since <= nextApp
      /\ r.kind \in {"stop", "unsubscribe"} => r.engine \in Anons
      /\ r.kind = "user" => r.engine = User
      /\ r.kind # "idle" =>
           \A i \in DOMAIN app :
             /\ i \in r.todo => app[i].engine = r.engine
             /\ i < r.since /\ app[i].engine = r.engine /\ i \notin r.todo =>
                  ~AP!Selected(i, AP!BackendOf(r.kind), r.to)

AppsInv ==
  /\ nextApp \in Nat
  /\ DOMAIN app \subseteq {i \in Nat : i < nextApp}
  /\ handler \in [Handlers -> HandlerStates]
  /\ \A h \in Handlers : HandlerSound(h)
  /\ \A x \in removed :
       /\ x.app.engine = x.engine
       /\ x.engine # User => x.app.to = x.to /\ x.app.backend = AP!BackendOf(x.by)

LEMMA AppsInit == AP!APInit => AppsInv
<1> SUFFICES ASSUME AP!APInit PROVE AppsInv
  OBVIOUS
<1> USE DEF AP!APInit
<1>1. AP!Idle \in HandlerStates
  BY DEF AP!Idle, HandlerStates, AP!Engines
<1>2. DOMAIN app = {}
  OBVIOUS
<1>3. \A h \in Handlers : HandlerSound(h)
  BY <1>2 DEF HandlerSound, AP!Idle
<1> QED  BY <1>1, <1>2, <1>3 DEF AppsInv

\* While no app appears among those a handler knows, it stays sound.
LEMMA FewerApps ==
  ASSUME AppsInv, NEW h \in Handlers, handler'[h] = handler[h],
         nextApp' \in Nat, nextApp <= nextApp', DOMAIN app' \subseteq Nat,
         \A i \in DOMAIN app' : i < nextApp => i \in DOMAIN app /\ app'[i] = app[i]
  PROVE  HandlerSound(h)'
<1> USE DEF AppsInv
<1> DEFINE r == handler[h]
<1>1. HandlerSound(h) /\ r \in HandlerStates
  OBVIOUS
<1>2. r.todo \subseteq Nat /\ r.since \in Nat /\ nextApp \in Nat
  BY <1>1 DEF HandlerStates
<1>3. /\ r.since <= nextApp /\ r.since <= nextApp'
      /\ \A i \in r.todo : i < r.since
  BY <1>1, <1>2 DEF HandlerSound
<1>4. \A i \in DOMAIN app' : i < r.since => i < nextApp
  BY <1>2, <1>3
<1>5. \A i \in DOMAIN app' : i < r.since => i \in DOMAIN app /\ app'[i] = app[i]
  BY <1>4
<1> QED  BY <1>1, <1>3, <1>5 DEF HandlerSound, AP!Selected

\* A handler that begins with the apps of an engine.
LEMMA Started ==
  ASSUME AppsInv, NEW h \in Handlers, NEW k \in {"stop", "unsubscribe", "user"},
         NEW e \in AP!Engines, NEW to \in Addresses \cup {"none"},
         IF k = "user" THEN e = User ELSE e \in Anons,
         AP!Starts(h, k, e, to), UNCHANGED <<app, nextApp, removed>>
  PROVE  AppsInv'
<1> USE DEF AppsInv
<1> DEFINE new == [kind |-> k, to |-> to, engine |-> e, todo |-> AP!AppsOf(e), since |-> nextApp]
<1>1. AP!AppsOf(e) \subseteq {i \in Nat : i < nextApp}
  BY DEF AP!AppsOf
<1>2. new \in HandlerStates
  BY <1>1 DEF HandlerStates
<1>3. handler' = [handler EXCEPT ![h] = new]
  BY DEF AP!Starts
<1>4. handler' \in [Handlers -> HandlerStates] /\ handler'[h] = new
  BY <1>2, <1>3
<1>5. HandlerSound(h)'
  BY <1>1, <1>4, AnonAssumption DEF HandlerSound, AP!AppsOf
<1>6. ASSUME NEW g \in Handlers, g # h PROVE HandlerSound(g)'
  BY <1>3, <1>6, FewerApps
<1> QED  BY <1>4, <1>5, <1>6

\* A handler that is idle again.
LEMMA Ended ==
  ASSUME AppsInv, NEW h \in Handlers, handler' = [handler EXCEPT ![h] = AP!Idle],
         UNCHANGED <<app, nextApp, removed>>
  PROVE  AppsInv'
<1> USE DEF AppsInv
<1>1. AP!Idle \in HandlerStates
  BY DEF AP!Idle, HandlerStates, AP!Engines
<1>2. handler' \in [Handlers -> HandlerStates] /\ handler'[h] = AP!Idle
  BY <1>1
<1>3. HandlerSound(h)'
  BY <1>2 DEF HandlerSound, AP!Idle
<1>4. ASSUME NEW g \in Handlers, g # h PROVE HandlerSound(g)'
  BY <1>4, FewerApps
<1> QED  BY <1>2, <1>3, <1>4

\* One turn of the loop of deleteAllApps.
LEMMA DeleteNextKeeps ==
  ASSUME AppsInv, NEW h \in Handlers, NEW i \in handler[h].todo, AP!DeleteNext(h, i)
  PROVE  AppsInv'
<1> USE DEF AppsInv
<1> DEFINE r == handler[h]
           new == [r EXCEPT !.todo = r.todo \ {i}]
           hit == i \in DOMAIN app /\ AP!Selected(i, AP!BackendOf(r.kind), r.to)
<1>1. r \in HandlerStates /\ HandlerSound(h) /\ r.kind # "idle" /\ i \in r.todo
  BY DEF AP!DeleteNext
<1>2. /\ new \in HandlerStates /\ new.kind = r.kind /\ new.to = r.to /\ new.engine = r.engine
      /\ new.todo = r.todo \ {i} /\ new.since = r.since
  BY <1>1 DEF HandlerStates
<1>3. handler' = [handler EXCEPT ![h] = new] /\ nextApp' = nextApp
  BY DEF AP!DeleteNext
<1>4. handler' \in [Handlers -> HandlerStates] /\ handler'[h] = new
  BY <1>2, <1>3
<1>5. \A k \in DOMAIN app' : k \in DOMAIN app /\ app'[k] = app[k]
  BY DEF AP!DeleteNext, AP!Without
<1>6. hit => i \notin DOMAIN app'
  BY DEF AP!DeleteNext, AP!Without
<1>7. HandlerSound(h)'
  <2>1. /\ \A k \in new.todo : k < new.since
        /\ new.since <= nextApp'
        /\ new.kind \in {"stop", "unsubscribe"} => new.engine \in Anons
        /\ new.kind = "user" => new.engine = User
    BY <1>1, <1>2, <1>3 DEF HandlerSound
  <2>2. ASSUME NEW k \in DOMAIN app'
        PROVE  /\ k \in new.todo => app'[k].engine = new.engine
               /\ k < new.since /\ app'[k].engine = new.engine /\ k \notin new.todo =>
                    ~(\/ AP!BackendOf(new.kind) = "any"
                      \/ (app'[k].backend = AP!BackendOf(new.kind) /\ app'[k].to = new.to))
    <3>1. k \in DOMAIN app /\ app'[k] = app[k]
      BY <1>5
    <3>2. k \in r.todo => app[k].engine = r.engine
      BY <1>1, <3>1 DEF HandlerSound
    <3>3. ASSUME k < r.since, app[k].engine = r.engine, k \notin new.todo
          PROVE  ~AP!Selected(k, AP!BackendOf(r.kind), r.to)
      BY <1>1, <1>2, <1>6, <3>1, <3>3 DEF HandlerSound
    <3>4. k \in new.todo => k \in r.todo
      BY <1>2
    <3> HIDE DEF new
    <3> QED  BY <1>2, <3>1, <3>2, <3>3, <3>4 DEF AP!Selected
  <2> HIDE DEF new
  <2> QED  BY <1>4, <2>1, <2>2 DEF HandlerSound, AP!Selected
<1>8. ASSUME NEW g \in Handlers, g # h PROVE HandlerSound(g)'
  BY <1>3, <1>5, <1>8, FewerApps
<1>9. ASSUME NEW x \in removed'
      PROVE  /\ x.app.engine = x.engine
             /\ x.engine # User => x.app.to = x.to /\ x.app.backend = AP!BackendOf(x.by)
  <2>1. CASE x \in removed
    BY <2>1
  <2>2. CASE x \notin removed
    <3>1. hit /\ x = [app |-> app[i], by |-> r.kind, to |-> r.to, engine |-> r.engine]
      BY <2>2 DEF AP!DeleteNext
    <3>2. app[i].engine = r.engine
      BY <1>1, <3>1 DEF HandlerSound
    <3>3. r.engine # User => AP!BackendOf(r.kind) # "any"
      BY <1>1 DEF HandlerSound, HandlerStates, AP!BackendOf
    <3> QED  BY <3>1, <3>2, <3>3 DEF AP!Selected
  <2> QED  BY <2>1, <2>2
<1> QED  BY <1>3, <1>4, <1>5, <1>7, <1>8, <1>9

LEMMA AppsNext == AppsInv /\ AP!APNext => AppsInv'
<1> SUFFICES ASSUME AppsInv, AP!APNext PROVE AppsInv'
  OBVIOUS
<1>1. ASSUME NEW e \in AP!Engines, NEW b \in AP!Backends, NEW to \in Addresses, AP!CreateApp(e, b, to)
      PROVE  AppsInv'
  <2>1. /\ nextApp' \in Nat /\ nextApp < nextApp'
        /\ DOMAIN app' = DOMAIN app \cup {nextApp}
        /\ \A i \in DOMAIN app' : i # nextApp => i \in DOMAIN app /\ app'[i] = app[i]
        /\ UNCHANGED <<handler, removed>>
    BY <1>1 DEF AP!CreateApp, AppsInv
  <2>2. ASSUME NEW h \in Handlers PROVE HandlerSound(h)'
    BY <2>1, FewerApps DEF AppsInv
  <2> QED  BY <2>1, <2>2 DEF AppsInv
<1>2. ASSUME NEW i \in DOMAIN app, AP!DeleteApp(i) PROVE AppsInv'
  <2>1. /\ \A k \in DOMAIN app' : k \in DOMAIN app /\ app'[k] = app[k]
        /\ UNCHANGED <<nextApp, handler, removed>>
    BY <1>2 DEF AP!DeleteApp, AP!Without
  <2>2. ASSUME NEW h \in Handlers PROVE HandlerSound(h)'
    BY <2>1, FewerApps DEF AppsInv
  <2> QED  BY <2>1, <2>2 DEF AppsInv
<1>3. ASSUME NEW h \in Handlers, AP!LoopDone(h) PROVE AppsInv'
  <2>1. handler[h] \in HandlerStates
    BY DEF AppsInv
  <2>2. handler[h].to \in Addresses \cup {"none"}
    BY <2>1 DEF HandlerStates
  <2>3. CASE handler[h].kind = "unsubscribe" /\ handler[h].to = EmailOf
    BY <1>3, <2>2, <2>3, Started DEF AP!LoopDone, AP!Engines
  <2>4. CASE ~(handler[h].kind = "unsubscribe" /\ handler[h].to = EmailOf)
    BY <1>3, <2>4, Ended DEF AP!LoopDone
  <2> QED  BY <2>3, <2>4
<1>4. ASSUME NEW h \in Handlers, AP!CallFails(h) PROVE AppsInv'
  BY <1>4, Ended DEF AP!CallFails
<1>5. ASSUME NEW h \in Handlers, NEW a \in Anons, NEW to \in Addresses, AP!SmsStop(h, a, to)
      PROVE  AppsInv'
  BY <1>5, Started DEF AP!SmsStop, AP!Engines
<1>6. ASSUME NEW h \in Handlers, NEW a \in Anons, NEW to \in Addresses, AP!Unsubscribe(h, a, to)
      PROVE  AppsInv'
  BY <1>6, Started DEF AP!Unsubscribe, AP!Engines
<1>7. ASSUME NEW h \in Handlers, NEW i \in handler[h].todo, AP!DeleteNext(h, i) PROVE AppsInv'
  BY <1>7, DeleteNextKeeps
<1> QED  BY <1>1, <1>2, <1>3, <1>4, <1>5, <1>6, <1>7 DEF AP!APNext

LEMMA AppsHold == AppsInv => AP!UnsubscribeExact
BY DEF AppsInv, HandlerSound, AP!AppsOf, AP!UnsubscribeExact

-----------------------------------------------------------------------------
(* Database access                                                         *)

\* Who has a connection, and what is open on it.  A broken connection may reach
\* the first waiter, but never with a transaction.
Holds(p) ==
  /\ held[p] = NoConn <=> stage[p] \in {"idle", "waiting"}
  /\ stage[p] \in {"got", "work", "rollback"} => conn[held[p]] \in {"used", "destroyed"}
  /\ stage[p] = "got" => tx[held[p]] = NoClient
  /\ stage[p] \in {"work", "rollback"} => tx[held[p]] = p

DatabaseTypes ==
  /\ conn \in [Conns -> {"new", "free", "used", "destroyed"}]
  /\ tx \in [Conns -> Clients \cup {NoClient}]
  /\ stage \in [Clients -> {"idle", "waiting", "got", "work", "rollback"}]
  /\ held \in [Clients -> Conns \cup {NoConn}]
  /\ lease \in [Clients -> {"client", "transaction"}]
  /\ queue \in Seq(Clients)

InOrder ==
  /\ \A i \in 1..Len(queue) : stage[queue[i]] = "waiting"
  /\ \A i, k \in 1..Len(queue) : i # k => queue[i] # queue[k]

Distinct == \A p, q \in Clients : p # q /\ held[p] # NoConn => held[q] # held[p]

ClosedWhenFree == \A c \in Conns : conn[c] \in {"new", "free"} => tx[c] = NoClient

DatabaseInv ==
  /\ DatabaseTypes
  /\ InOrder
  /\ \A p \in Clients : Holds(p)
  /\ Distinct
  /\ ClosedWhenFree

LEMMA DatabaseInit == DB!DInit => DatabaseInv
<1> SUFFICES ASSUME DB!DInit PROVE DatabaseInv
  OBVIOUS
<1> USE DEF DB!DInit
<1>1. queue \in Seq(Clients) /\ Len(queue) = 0
  OBVIOUS
<1> QED  BY <1>1 DEF DatabaseInv, DatabaseTypes, InOrder, Holds, Distinct, ClosedWhenFree

\* The first of the queue leaves it.
LEMMA FirstLeaves ==
  ASSUME DatabaseInv, queue # <<>>
  PROVE  /\ Head(queue) \in Clients /\ stage[Head(queue)] = "waiting"
         /\ Tail(queue) \in Seq(Clients)
         /\ \A i \in 1..Len(Tail(queue)) :
              /\ stage[Tail(queue)[i]] = "waiting" /\ Tail(queue)[i] # Head(queue)
              /\ Tail(queue)[i] \in Clients
         /\ \A i, k \in 1..Len(Tail(queue)) : i # k => Tail(queue)[i] # Tail(queue)[k]
<1> USE DEF DatabaseInv, DatabaseTypes, InOrder
<1>1. queue \in Seq(Clients) /\ Len(queue) \in Nat /\ Len(queue) >= 1
  OBVIOUS
<1>2. Head(queue) = queue[1] /\ queue[1] \in Clients
  BY <1>1
<1>3. /\ Tail(queue) \in Seq(Clients) /\ Len(Tail(queue)) = Len(queue) - 1
      /\ \A i \in 1..Len(Tail(queue)) : Tail(queue)[i] = queue[i + 1]
  BY <1>1
<1>4. \A i \in 1..Len(Tail(queue)) : i + 1 \in 1..Len(queue) /\ i + 1 # 1
  BY <1>1, <1>3
<1>5. 1 \in 1..Len(queue)
  BY <1>1
<1>6. \A i \in 1..Len(queue) : queue[i] \in Clients
  BY <1>1
<1>7. ASSUME NEW i \in 1..Len(Tail(queue)), NEW k \in 1..Len(Tail(queue)), i # k
      PROVE  Tail(queue)[i] # Tail(queue)[k]
  BY <1>3, <1>4, <1>7
<1> QED  BY <1>2, <1>3, <1>4, <1>5, <1>6, <1>7

\* A connection that nobody holds and no transaction is open on.
LEMMA AvailableIsClean ==
  ASSUME DatabaseInv, NEW c \in Conns, DB!Available(c)
  PROVE  tx[c] = NoClient /\ \A p \in Clients : held[p] # c
BY NothingAssumption DEF DatabaseInv, DatabaseTypes, Holds, ClosedWhenFree, DB!Available

\* p is given c, which is clean and nobody else's, while the queue becomes s.
LEMMA Given ==
  ASSUME DatabaseInv, NEW p \in Clients, stage[p] \in {"idle", "waiting"}, NEW c \in Conns,
         tx[c] = NoClient, \A q \in Clients : held[q] # c,
         conn' = [conn EXCEPT ![c] = "used"], held' = [held EXCEPT ![p] = c],
         stage' = [stage EXCEPT ![p] = "got"], UNCHANGED tx,
         lease' \in [Clients -> {"client", "transaction"}],
         queue' \in Seq(Clients),
         \A i \in 1..Len(queue') : queue'[i] \in Clients \ {p} /\ stage[queue'[i]] = "waiting",
         \A i, k \in 1..Len(queue') : i # k => queue'[i] # queue'[k]
  PROVE  DatabaseInv'
<1> USE DEF DatabaseInv, DatabaseTypes
<1>1. DatabaseTypes'
  OBVIOUS
<1>2. InOrder'
  <2>1. ASSUME NEW i \in 1..Len(queue') PROVE stage'[queue'[i]] = "waiting"
    OBVIOUS
  <2> QED  BY <2>1 DEF InOrder
<1>3. ASSUME NEW q \in Clients PROVE Holds(q)'
  BY NothingAssumption DEF Holds
<1>4. Distinct'
  BY DEF Distinct
<1>5. ClosedWhenFree'
  BY DEF ClosedWhenFree
<1> QED  BY <1>1, <1>2, <1>3, <1>4, <1>5

\* p ends with its connection, on which no transaction is left open: it reaches
\* the first waiter, is free, or is destroyed.
LEMMA GivesKeeps ==
  ASSUME DatabaseInv, NEW p \in Clients, stage[p] \in {"got", "work", "rollback"},
         NEW broken \in BOOLEAN, DB!Gives(p, broken),
         tx' \in [Conns -> Clients \cup {NoClient}], tx'[held[p]] = NoClient,
         \A c \in Conns : c # held[p] => tx'[c] = tx[c], UNCHANGED lease
  PROVE  DatabaseInv'
<1> USE DEF DatabaseInv
<1>1. held[p] \in Conns /\ held[p] # NoConn
  BY NothingAssumption DEF DatabaseTypes, Holds
<1>2. conn' \in [Conns -> {"new", "free", "used", "destroyed"}]
  BY <1>1 DEF DB!Gives, DatabaseTypes
<1>3. /\ conn'[held[p]] \in {"free", "used", "destroyed"}
      /\ \A c \in Conns : c # held[p] => conn'[c] = conn[c]
  BY <1>1 DEF DB!Gives, DatabaseTypes
<1>4. ClosedWhenFree'
  BY <1>1, <1>3 DEF ClosedWhenFree, DatabaseTypes
<1>5. CASE queue = <<>>
  <2>1. /\ held' = [q \in Clients |-> IF q = p THEN NoConn ELSE held[q]]
        /\ stage' = [q \in Clients |-> IF q = p THEN "idle" ELSE stage[q]]
        /\ queue' = queue
    BY <1>5, NothingAssumption DEF DB!Gives, DatabaseTypes
  <2>2. DatabaseTypes'
    BY <1>2, <2>1 DEF DatabaseTypes
  <2>3. Len(queue) = 0
    BY <1>5
  <2>4. InOrder'
    BY <2>1, <2>3 DEF InOrder
  <2>5. Distinct'
    BY <2>1 DEF Distinct, DatabaseTypes
  <2>6. ASSUME NEW q \in Clients, q # p PROVE Holds(q)'
    <3>1. held'[q] = held[q] /\ stage'[q] = stage[q] /\ held[q] # held[p]
      BY <1>1, <2>1, <2>6 DEF Distinct
    <3>2. held[q] # NoConn => held[q] \in Conns
      BY DEF DatabaseTypes
    <3>3. Holds(q) /\ stage[q] \in {"idle", "waiting", "got", "work", "rollback"}
      BY DEF DatabaseTypes
    <3> QED  BY <1>3, <3>1, <3>2, <3>3 DEF Holds
  <2>7. Holds(p)'
    BY <2>1 DEF Holds
  <2> QED  BY <1>4, <2>2, <2>4, <2>5, <2>6, <2>7
<1>6. CASE queue # <<>>
  <2>0. PICK n \in Clients, s \in Seq(Clients) : n = Head(queue) /\ s = Tail(queue)
    BY <1>6, FirstLeaves
  <2>1. /\ n \in Clients /\ stage[n] = "waiting"
        /\ s \in Seq(Clients)
        /\ \A i \in 1..Len(s) : stage[s[i]] = "waiting" /\ s[i] # n /\ s[i] \in Clients
        /\ \A i, k \in 1..Len(s) : i # k => s[i] # s[k]
    BY <1>6, <2>0, FirstLeaves
  <2>2. /\ conn'[held[p]] \in {"used", "destroyed"}
        /\ held' = [q \in Clients |-> IF q = p THEN NoConn ELSE IF q = n THEN held[p] ELSE held[q]]
        /\ stage' = [q \in Clients |-> IF q = p THEN "idle" ELSE IF q = n THEN "got" ELSE stage[q]]
        /\ queue' = s
    BY <1>1, <1>6, <2>0, <2>1, NothingAssumption DEF DB!Gives, DatabaseTypes
  <2>3. DatabaseTypes'
    BY <1>1, <1>2, <2>1, <2>2 DEF DatabaseTypes
  <2>4. n # p
    BY <2>1
  <2>5. InOrder'
    <3>1. ASSUME NEW i \in 1..Len(s) PROVE stage'[s[i]] = "waiting"
      BY <2>1, <2>2
    <3> QED  BY <2>1, <2>2, <3>1 DEF InOrder
  <2>6. Distinct'
    BY <1>1, <2>1, <2>2 DEF Distinct, DatabaseTypes
  <2>7. ASSUME NEW q \in Clients, q # p, q # n PROVE Holds(q)'
    <3>1. held'[q] = held[q] /\ stage'[q] = stage[q] /\ held[q] # held[p]
      BY <1>1, <2>2, <2>7 DEF Distinct
    <3>2. held[q] # NoConn => held[q] \in Conns
      BY DEF DatabaseTypes
    <3>3. Holds(q) /\ stage[q] \in {"idle", "waiting", "got", "work", "rollback"}
      BY DEF DatabaseTypes
    <3> QED  BY <1>3, <3>1, <3>2, <3>3 DEF Holds
  <2>8. Holds(p)' /\ Holds(n)'
    BY <1>1, <2>1, <2>2, <2>4 DEF Holds
  <2> QED  BY <1>4, <2>3, <2>5, <2>6, <2>7, <2>8
<1> QED  BY <1>5, <1>6

\* p's connection is destroyed.
LEMMA DestroysKeeps ==
  ASSUME DatabaseInv, NEW p \in Clients, stage[p] \in {"got", "work", "rollback"},
         DB!Destroys(p), UNCHANGED <<tx, lease>>
  PROVE  DatabaseInv'
<1> USE DEF DatabaseInv, DatabaseTypes
<1>1. held[p] \in Conns /\ held[p] # NoConn
  BY NothingAssumption DEF Holds
<1>2. /\ conn' = [conn EXCEPT ![held[p]] = "destroyed"]
      /\ held' = [held EXCEPT ![p] = NoConn]
      /\ stage' = [stage EXCEPT ![p] = "idle"]
      /\ UNCHANGED <<tx, lease, queue>>
  BY DEF DB!Destroys
<1>3. DatabaseTypes'
  BY <1>1, <1>2
<1>4. InOrder'
  <2>1. \A i \in 1..Len(queue) : queue[i] # p /\ queue[i] \in Clients
    BY DEF InOrder
  <2> QED  BY <1>2, <2>1 DEF InOrder
<1>5. ASSUME NEW q \in Clients PROVE Holds(q)'
  BY <1>1, <1>2 DEF Holds
<1>6. Distinct'
  BY <1>2 DEF Distinct
<1>7. ClosedWhenFree'
  BY <1>1, <1>2 DEF ClosedWhenFree
<1> QED  BY <1>3, <1>4, <1>5, <1>6, <1>7

LEMMA DatabaseNext == DatabaseInv /\ DB!DNext => DatabaseInv'
<1> SUFFICES ASSUME DatabaseInv, DB!DNext PROVE DatabaseInv'
  OBVIOUS
<1> USE DEF DatabaseInv, DatabaseTypes
<1>0. \A p \in Clients : stage[p] \in {"got", "work", "rollback"} => held[p] \in Conns
  BY DEF Holds
<1>1. ASSUME NEW p \in Clients, DB!ClientDone(p) PROVE DatabaseInv'
  <2>1. stage[p] = "got" /\ tx[held[p]] = NoClient /\ UNCHANGED <<tx, lease>>
    BY <1>1 DEF DB!ClientDone, Holds
  <2>2. DB!Gives(p, FALSE) \/ DB!Destroys(p)
    BY <1>1 DEF DB!ClientDone
  <2> QED  BY <2>1, <2>2, GivesKeeps, DestroysKeeps
<1>2. ASSUME NEW p \in Clients, DB!Begin(p) PROVE DatabaseInv'
  <2>1. stage[p] = "got" /\ tx[held[p]] = NoClient /\ UNCHANGED lease
    BY <1>2 DEF DB!Begin, Holds
  <2>2. CASE DB!Destroys(p) /\ UNCHANGED tx
    BY <2>1, <2>2, DestroysKeeps
  <2>3. CASE /\ conn[held[p]] = "used" /\ tx' = [tx EXCEPT ![held[p]] = p]
             /\ stage' = [stage EXCEPT ![p] = "work"] /\ UNCHANGED <<conn, held, queue>>
    <3>1. DatabaseTypes'
      BY <1>0, <2>1, <2>3
    <3>2. InOrder'
      <4>1. \A i \in 1..Len(queue) : queue[i] # p /\ queue[i] \in Clients
        BY <2>1 DEF InOrder
      <4> QED  BY <2>3, <4>1 DEF InOrder
    <3>3. ASSUME NEW q \in Clients PROVE Holds(q)'
      BY <1>0, <2>1, <2>3 DEF Holds, Distinct
    <3>4. Distinct'
      BY <2>3 DEF Distinct
    <3>5. ClosedWhenFree'
      BY <1>0, <2>1, <2>3 DEF ClosedWhenFree
    <3> QED  BY <3>1, <3>2, <3>3, <3>4, <3>5
  <2> QED  BY <1>2, <2>2, <2>3 DEF DB!Begin
<1>3. ASSUME NEW p \in Clients, DB!Commit(p) PROVE DatabaseInv'
  <2>1. stage[p] = "work" /\ tx' = [tx EXCEPT ![held[p]] = NoClient]
        /\ DB!Gives(p, FALSE) /\ UNCHANGED lease
    BY <1>3 DEF DB!Commit
  <2> QED  BY <1>0, <2>1, GivesKeeps
<1>4. ASSUME NEW p \in Clients, DB!Throws(p) PROVE DatabaseInv'
  <2>1. stage[p] = "work" /\ stage' = [stage EXCEPT ![p] = "rollback"]
        /\ UNCHANGED <<conn, tx, held, lease, queue>>
    BY <1>4 DEF DB!Throws
  <2>2. InOrder'
    <3>1. \A i \in 1..Len(queue) : queue[i] # p /\ queue[i] \in Clients
      BY <2>1 DEF InOrder
    <3> QED  BY <2>1, <3>1 DEF InOrder
  <2>3. ASSUME NEW q \in Clients PROVE Holds(q)'
    BY <2>1 DEF Holds
  <2> QED  BY <2>1, <2>2, <2>3 DEF Distinct, ClosedWhenFree
<1>5. ASSUME NEW p \in Clients, DB!Rollback(p) PROVE DatabaseInv'
  <2>1. stage[p] = "rollback" /\ UNCHANGED lease
    BY <1>5 DEF DB!Rollback
  <2>2. CASE tx' = [tx EXCEPT ![held[p]] = NoClient] /\ DB!Gives(p, TRUE)
    BY <1>0, <2>1, <2>2, GivesKeeps
  <2>3. CASE DB!Destroys(p) /\ UNCHANGED tx
    BY <2>1, <2>3, DestroysKeeps
  <2> QED  BY <1>5, <2>2, <2>3 DEF DB!Rollback
<1>6. ASSUME NEW p \in Clients, NEW m \in {"client", "transaction"}, DB!Connect(p, m)
      PROVE  DatabaseInv'
  <2>1. stage[p] = "idle" /\ lease' \in [Clients -> {"client", "transaction"}] /\ UNCHANGED tx
    BY <1>6 DEF DB!Connect
  <2>2. CASE \E c \in Conns : /\ DB!Available(c) /\ queue = <<>>
                              /\ conn' = [conn EXCEPT ![c] = "used"]
                              /\ held' = [held EXCEPT ![p] = c]
                              /\ stage' = [stage EXCEPT ![p] = "got"]
                              /\ UNCHANGED queue
    <3>1. PICK c \in Conns : /\ DB!Available(c) /\ queue = <<>>
                             /\ conn' = [conn EXCEPT ![c] = "used"]
                             /\ held' = [held EXCEPT ![p] = c]
                             /\ stage' = [stage EXCEPT ![p] = "got"]
                             /\ UNCHANGED queue
      BY <2>2
    <3>2. Len(queue') = 0 /\ queue' \in Seq(Clients)
      BY <3>1
    <3>3. 1..Len(queue') = {}
      BY <3>2
    <3>4. tx[c] = NoClient /\ \A q \in Clients : held[q] # c
      BY <3>1, AvailableIsClean
    <3> QED  BY <2>1, <3>1, <3>2, <3>3, <3>4, Given
  <2>3. CASE /\ stage' = [stage EXCEPT ![p] = "waiting"]
             /\ queue' = Append(queue, p)
             /\ UNCHANGED <<conn, held>>
    <3>1. /\ queue' \in Seq(Clients) /\ Len(queue') = Len(queue) + 1
          /\ \A i \in 1..Len(queue) : queue'[i] = queue[i]
          /\ queue'[Len(queue) + 1] = p
      BY <2>3
    <3>2. \A i \in 1..Len(queue) : queue[i] \in Clients /\ queue[i] # p
      BY <2>1 DEF InOrder
    <3>3. \A i \in 1..Len(queue') : i \in 1..Len(queue) \/ i = Len(queue) + 1
      BY <3>1
    <3>4. \A i \in 1..Len(queue') : stage'[queue'[i]] = "waiting"
      BY <2>3, <3>1, <3>2, <3>3 DEF InOrder
    <3>5. ASSUME NEW i \in 1..Len(queue'), NEW k \in 1..Len(queue'), i # k
          PROVE  queue'[i] # queue'[k]
      BY <3>1, <3>2, <3>3, <3>5 DEF InOrder
    <3>6. ASSUME NEW q \in Clients PROVE Holds(q)'
      BY <2>1, <2>3 DEF Holds
    <3> QED  BY <2>1, <2>3, <3>1, <3>4, <3>5, <3>6 DEF InOrder, Distinct, ClosedWhenFree
  <2> QED  BY <1>6, <2>2, <2>3 DEF DB!Connect
<1>7. ASSUME NEW c \in Conns, DB!PoolOpens(c) PROVE DatabaseInv'
  <2>1. /\ queue # <<>> /\ DB!Available(c)
        /\ conn' = [conn EXCEPT ![c] = "used"]
        /\ held' = [held EXCEPT ![Head(queue)] = c]
        /\ stage' = [stage EXCEPT ![Head(queue)] = "got"]
        /\ queue' = Tail(queue)
        /\ UNCHANGED <<tx, lease>>
    BY <1>7 DEF DB!PoolOpens
  <2>2. tx[c] = NoClient /\ \A q \in Clients : held[q] # c
    BY <2>1, AvailableIsClean
  <2>3. /\ Head(queue) \in Clients /\ stage[Head(queue)] = "waiting"
        /\ queue' \in Seq(Clients)
        /\ \A i \in 1..Len(queue') :
             stage[queue'[i]] = "waiting" /\ queue'[i] \in Clients \ {Head(queue)}
        /\ \A i, k \in 1..Len(queue') : i # k => queue'[i] # queue'[k]
    BY <2>1, FirstLeaves
  <2> QED  BY <2>1, <2>2, <2>3, Given
<1> QED  BY <1>1, <1>2, <1>3, <1>4, <1>5, <1>6, <1>7 DEF DB!DNext

LEMMA DatabaseHolds == DatabaseInv => DB!CleanHandover
BY DEF DatabaseInv, DatabaseTypes, Holds, Distinct, DB!CleanHandover

-----------------------------------------------------------------------------
(* Preferences                                                             *)

\* Nothing is on its way for a key and its row is what the engine reads, or a
\* single request is and it carries that value.
Settled(k) ==
  \/ (\A f \in flights : f.key # k) /\ row[k] = data[k]
  \/ \E f \in flights : /\ f.key = k /\ f.value = data[k]
                        /\ \A g \in flights : g.key = k => g = f

PreferencesInv ==
  /\ data \in [Keys -> Values \cup {Undefined}]
  /\ row \in [Keys -> Values \cup {Undefined}]
  /\ sure \in [Keys -> BOOLEAN]
  /\ \A f \in flights : f.key \in Keys /\ f.value \in Values \cup {Undefined}
  /\ alive = "up" => \A k \in Keys : sure[k] => Settled(k)

LEMMA PreferencesInit == PR!PInit => PreferencesInv
BY DEF PR!PInit, PreferencesInv

\* A key of which nothing changes stays settled.
LEMMA StaysSettled ==
  ASSUME PreferencesInv, NEW k \in Keys, Settled(k), data'[k] = data[k], row'[k] = row[k],
         \A f : f.key = k => (f \in flights' <=> f \in flights)
  PROVE  Settled(k)'
BY DEF Settled

\* A request of a key k, with the value the engine reads from now on.
LEMMA Flushed ==
  ASSUME PreferencesInv, NEW k \in Keys, NEW v \in Values \cup {Undefined},
         alive = "up", data' = [data EXCEPT ![k] = v], PR!Flush(k, v), UNCHANGED <<alive, row>>
  PROVE  PreferencesInv'
<1> USE DEF PreferencesInv
<1> DEFINE new == [id |-> flushes, key |-> k, value |-> v]
<1>1. new.key = k /\ new.value = v
  OBVIOUS
<1>2. flights' = flights \cup {new} /\ sure' = [sure EXCEPT ![k] = (PR!InFlight(k) = {})]
  BY DEF PR!Flush
<1> HIDE DEF new
<1>3. ASSUME NEW q \in Keys, sure'[q] PROVE Settled(q)'
  <2>1. CASE q = k
    <3>1. \A f \in flights : f.key # k
      BY <1>2, <1>3, <2>1 DEF PR!InFlight
    <3>2. data'[k] = v
      OBVIOUS
    <3> QED  BY <1>1, <1>2, <2>1, <3>1, <3>2 DEF Settled
  <2>2. CASE q # k
    BY <1>1, <1>2, <1>3, <2>2, StaysSettled
  <2> QED  BY <2>1, <2>2
<1>4. sure' \in [Keys -> BOOLEAN]
  BY <1>2
<1> QED  BY <1>1, <1>2, <1>3, <1>4

LEMMA PreferencesNext == PreferencesInv /\ PR!PNext => PreferencesInv'
<1> SUFFICES ASSUME PreferencesInv, PR!PNext PROVE PreferencesInv'
  OBVIOUS
<1> USE DEF PreferencesInv
<1>1. CASE PR!Construct
  BY <1>1 DEF PR!Construct
<1>2. CASE PR!ReadRows
  <2>1. /\ data' = row /\ UNCHANGED <<row, flights>>
        /\ sure' = [k \in Keys |-> PR!InFlight(k) = {}]
    BY <1>2 DEF PR!ReadRows
  <2>2. ASSUME NEW k \in Keys, sure'[k] PROVE Settled(k)'
    BY <2>1, <2>2 DEF PR!InFlight, Settled
  <2> QED  BY <2>1, <2>2
<1>3. CASE PR!EngineDown
  BY <1>3 DEF PR!EngineDown
<1>4. ASSUME NEW k \in Keys, PR!Delete(k) PROVE PreferencesInv'
  BY <1>4, Flushed DEF PR!Delete
<1>5. ASSUME NEW k \in Keys, NEW v \in Values, PR!Set(k, v) PROVE PreferencesInv'
  BY <1>5, Flushed DEF PR!Set
<1>6. ASSUME NEW f \in flights, PR!Serve(f) PROVE PreferencesInv'
  <2>1. /\ row' = [row EXCEPT ![f.key] = f.value] /\ flights' = flights \ {f}
        /\ UNCHANGED <<alive, data, sure>>
    BY <1>6 DEF PR!Serve
  <2>2. f.key \in Keys /\ f.value \in Values \cup {Undefined}
    OBVIOUS
  <2>3. ASSUME NEW k \in Keys, sure'[k], alive' = "up" PROVE Settled(k)'
    <3>1. Settled(k)
      BY <2>1, <2>3
    <3>2. CASE k = f.key
      BY <2>1, <2>2, <3>1, <3>2 DEF Settled
    <3>3. CASE k # f.key
      BY <2>1, <2>2, <3>1, <3>3, StaysSettled
    <3> QED  BY <3>2, <3>3
  <2> QED  BY <2>1, <2>2, <2>3
<1>7. ASSUME NEW f \in flights, PR!FlushFails(f) PROVE PreferencesInv'
  <2>1. /\ flights' = flights \ {f} /\ sure' = [sure EXCEPT ![f.key] = FALSE]
        /\ UNCHANGED <<alive, data, row>>
    BY <1>7 DEF PR!FlushFails
  <2>2. f.key \in Keys
    OBVIOUS
  <2>3. ASSUME NEW k \in Keys, sure'[k], alive' = "up" PROVE Settled(k)'
    <3>1. k # f.key /\ Settled(k)
      BY <2>1, <2>2, <2>3
    <3> QED  BY <2>1, <3>1, StaysSettled
  <2> QED  BY <2>1, <2>2, <2>3
<1> QED  BY <1>1, <1>2, <1>3, <1>4, <1>5, <1>6, <1>7 DEF PR!PNext

LEMMA PreferencesHold == PreferencesInv => PR!PreferenceSaved
BY DEF PreferencesInv, Settled, PR!PreferenceSaved, PR!InFlight

-----------------------------------------------------------------------------
(* Requests to all replicas                                                *)

\* How often a request was proxied to a replica, and what came of it.
RequestSound(r) ==
  /\ asked[r] \in {"no", "listing"} =>
       listed[r] = {} /\ answered[r] = "no" /\ \A m \in inflight : m.req # r
  /\ \A p \in Replicas : /\ sent[r][p] = (IF p \in listed[r] THEN 1 ELSE 0)
                         /\ handled[r][p] \in {0, 1} /\ handled[r][p] <= sent[r][p]
  /\ answered[r] = "ok" => \E p \in listed[r] : handled[r][p] = 1
  /\ asked[r] = "sent" =>
       \A p \in listed[r] : handled[r][p] = 1 \/ \E m \in inflight : m.req = r /\ m.to = p

FanoutInv ==
  /\ FO!FOTypeOK
  /\ at \in [FO!Requests -> Replicas]
  /\ inflight \subseteq [req : FO!Requests, to : Replicas, hdr : {TRUE}]
  /\ \A m \in inflight : m.to \in listed[m.req] /\ handled[m.req][m.to] = 0
  /\ \A r \in FO!Requests : RequestSound(r)

LEMMA FanoutInit == FO!FOInit => FanoutInv
BY DEF FO!FOInit, FanoutInv, FO!FOTypeOK, FO!Count, RequestSound

\* A request to a replica is known by the two.
LEMMA OneProxied ==
  ASSUME FanoutInv, NEW m \in inflight, NEW n \in inflight, m.req = n.req, m.to = n.to
  PROVE  m = n
<1>1. m.hdr = n.hdr
  BY DEF FanoutInv
<1>2. m \in [req : FO!Requests, to : Replicas, hdr : {TRUE}] /\ n \in [req : FO!Requests, to : Replicas, hdr : {TRUE}]
  BY DEF FanoutInv
<1> QED  BY <1>1, <1>2

\* Nothing happens to the requests.
LEMMA FanoutStays ==
  ASSUME FanoutInv, up' \subseteq Replicas, endpoints' \subseteq Replicas,
         UNCHANGED <<asked, listed, at, inflight, handled, sent, answered>>
  PROVE  FanoutInv'
<1> USE DEF FanoutInv
<1>1. FO!FOTypeOK'
  BY DEF FO!FOTypeOK
<1>2. ASSUME NEW r \in FO!Requests PROVE RequestSound(r)'
  <2>1. RequestSound(r)
    OBVIOUS
  <2> QED  BY <2>1 DEF RequestSound
<1> QED  BY <1>1, <1>2

\* What a stopping replica takes with it: what it was fanning out.
LEMMA ReplicaStops ==
  ASSUME FanoutInv, NEW p \in Replicas,
         up' = up \ {p}, inflight' = {n \in inflight : at[n.req] # p},
         asked' = [r \in FO!Requests |-> IF at[r] = p /\ asked[r] # "no" THEN "lost" ELSE asked[r]],
         UNCHANGED <<endpoints, listed, at, handled, sent, answered>>
  PROVE  FanoutInv'
<1> USE DEF FanoutInv
<1>1. FO!FOTypeOK'
  BY DEF FO!FOTypeOK
<1>2. ASSUME NEW r \in FO!Requests PROVE RequestSound(r)'
  <2>1. RequestSound(r)
    OBVIOUS
  <2>2. CASE at[r] = p /\ asked[r] # "no"
    BY <2>1, <2>2 DEF RequestSound
  <2>3. CASE at[r] = p /\ asked[r] = "no"
    BY <2>1, <2>3 DEF RequestSound
  <2>4. CASE at[r] # p
    BY <2>1, <2>4 DEF RequestSound
  <2> QED  BY <2>2, <2>3, <2>4
<1> QED  BY <1>1, <1>2

LEMMA FanoutNext == FanoutInv /\ FO!FONext => FanoutInv'
<1> SUFFICES ASSUME FanoutInv, FO!FONext PROVE FanoutInv'
  OBVIOUS
<1> USE DEF FanoutInv
<1>1. ASSUME NEW r \in FO!Requests, FO!Admin(r) PROVE FanoutInv'
  <2>1. asked[r] = "no" /\ asked' = [asked EXCEPT ![r] = "listing"]
        /\ UNCHANGED <<up, endpoints, listed, at, inflight, handled, sent, answered>>
    BY <1>1 DEF FO!Admin
  <2>2. FO!FOTypeOK'
    BY <2>1 DEF FO!FOTypeOK
  <2>3. ASSUME NEW q \in FO!Requests PROVE RequestSound(q)'
    BY <2>1 DEF RequestSound, FO!FOTypeOK
  <2> QED  BY <2>1, <2>2, <2>3
<1>2. ASSUME NEW r \in FO!Requests, FO!FanOut(r) PROVE FanoutInv'
  <2>1. asked[r] = "listing" /\ asked' = [asked EXCEPT ![r] = "sent"]
        /\ UNCHANGED <<up, endpoints, at, handled>>
    BY <1>2 DEF FO!FanOut
  <2>2. CASE endpoints = {}
    <3>1. answered' = [answered EXCEPT ![r] = "error"] /\ UNCHANGED <<listed, inflight, sent>>
      BY <1>2, <2>2 DEF FO!FanOut
    <3>2. FO!FOTypeOK'
      BY <2>1, <3>1 DEF FO!FOTypeOK
    <3>3. ASSUME NEW q \in FO!Requests PROVE RequestSound(q)'
      BY <2>1, <3>1 DEF RequestSound, FO!FOTypeOK
    <3> QED  BY <2>1, <3>1, <3>2, <3>3
  <2>3. CASE endpoints # {}
    <3>1. /\ listed' = [listed EXCEPT ![r] = endpoints]
          /\ inflight' = inflight \cup {[req |-> r, to |-> p, hdr |-> TRUE] : p \in endpoints}
          /\ sent' = [sent EXCEPT ![r] = [p \in Replicas |->
                                            IF p \in endpoints THEN sent[r][p] + 1 ELSE sent[r][p]]]
          /\ UNCHANGED answered
      BY <1>2, <2>3 DEF FO!FanOut
    <3>2. RequestSound(r) /\ endpoints \subseteq Replicas /\ \A p \in Replicas : sent[r][p] = 0
      BY <2>1 DEF RequestSound, FO!FOTypeOK
    <3>3. /\ sent' \in FO!Count
          /\ \A p \in Replicas : sent'[r][p] = IF p \in endpoints THEN 1 ELSE 0
          /\ \A q \in FO!Requests : q # r => sent'[q] = sent[q]
      BY <3>1, <3>2 DEF FO!FOTypeOK, FO!Count
    <3>4. /\ listed' \in [FO!Requests -> SUBSET Replicas] /\ listed'[r] = endpoints
          /\ \A q \in FO!Requests : q # r => listed'[q] = listed[q]
      BY <3>1, <3>2 DEF FO!FOTypeOK
    <3>5. FO!FOTypeOK'
      BY <2>1, <3>1, <3>3, <3>4 DEF FO!FOTypeOK
    <3>6. \A m \in inflight' : m \in inflight \/ (m.req = r /\ m.to \in endpoints /\ m.hdr = TRUE)
      BY <3>1
    <3>7. inflight' \subseteq [req : FO!Requests, to : Replicas, hdr : {TRUE}]
      <4>1. \A p \in endpoints : [req |-> r, to |-> p, hdr |-> TRUE]
                                   \in [req : FO!Requests, to : Replicas, hdr : {TRUE}]
        BY <3>2
      <4>2. {[req |-> r, to |-> p, hdr |-> TRUE] : p \in endpoints}
              \subseteq [req : FO!Requests, to : Replicas, hdr : {TRUE}]
        BY <4>1
      <4> QED  BY <3>1, <4>2
    <3>8. ASSUME NEW p \in endpoints PROVE \E m \in inflight' : m.req = r /\ m.to = p
      <4>1. PICK m : m = [req |-> r, to |-> p, hdr |-> TRUE]
        OBVIOUS
      <4>2. m \in inflight' /\ m.req = r /\ m.to = p
        BY <3>1, <4>1
      <4> QED  BY <4>2
    <3>9. \A m \in inflight : m.req # r /\ m.req \in FO!Requests /\ m \in inflight'
      BY <2>1, <3>1, <3>2 DEF RequestSound
    <3>10. \A p \in Replicas : handled[r][p] = 0
      BY <3>2 DEF RequestSound
    <3>11. ASSUME NEW m \in inflight' PROVE m.to \in listed'[m.req] /\ handled'[m.req][m.to] = 0
      BY <2>1, <3>2, <3>4, <3>6, <3>9, <3>10
    <3>12. RequestSound(r)'
      BY <2>1, <3>1, <3>2, <3>3, <3>4, <3>8, <3>10 DEF RequestSound, FO!FOTypeOK
    <3>13. ASSUME NEW q \in FO!Requests, q # r PROVE RequestSound(q)'
      <4>1. RequestSound(q)
        OBVIOUS
      <4>2. \A m : m.req = q => (m \in inflight' <=> m \in inflight)
        BY <3>6, <3>9, <3>13
      <4> QED  BY <2>1, <3>1, <3>3, <3>4, <3>13, <4>1, <4>2 DEF RequestSound, FO!FOTypeOK
    <3> QED  BY <2>1, <3>5, <3>7, <3>11, <3>12, <3>13
  <2> QED  BY <2>2, <2>3
<1>3. ASSUME NEW r \in FO!Requests, FO!ListFails(r) PROVE FanoutInv'
  <2>1. /\ asked[r] = "listing" /\ asked' = [asked EXCEPT ![r] = "sent"]
        /\ answered' = [answered EXCEPT ![r] = "error"]
        /\ UNCHANGED <<up, endpoints, listed, at, inflight, handled, sent>>
    BY <1>3 DEF FO!ListFails
  <2>2. FO!FOTypeOK'
    BY <2>1 DEF FO!FOTypeOK
  <2>3. ASSUME NEW q \in FO!Requests PROVE RequestSound(q)'
    BY <2>1 DEF RequestSound, FO!FOTypeOK
  <2> QED  BY <2>1, <2>2, <2>3
<1>4. ASSUME NEW m \in inflight, FO!Handle(m) PROVE FanoutInv'
  <2>1. /\ m.req \in FO!Requests /\ m.to \in Replicas /\ m.hdr = TRUE
        /\ m.to \in listed[m.req] /\ handled[m.req][m.to] = 0
    OBVIOUS
  <2>2. /\ inflight' = inflight \ {m}
        /\ handled' = [handled EXCEPT ![m.req][m.to] = handled[m.req][m.to] + 1]
        /\ answered' \in {answered, [answered EXCEPT ![m.req] = "ok"]}
        /\ UNCHANGED <<up, endpoints, asked, listed, at, sent>>
    BY <1>4, <2>1 DEF FO!Handle, FO!IsProxy
  <2>3. /\ handled' \in FO!Count /\ handled'[m.req][m.to] = 1
        /\ \A q \in FO!Requests, p \in Replicas :
             ~(q = m.req /\ p = m.to) => handled'[q][p] = handled[q][p]
    BY <2>1, <2>2 DEF FO!FOTypeOK, FO!Count
  <2>4. FO!FOTypeOK'
    BY <2>1, <2>2, <2>3 DEF FO!FOTypeOK
  <2>5. \A n \in inflight' : n \in inflight /\ ~(n.req = m.req /\ n.to = m.to)
    BY <2>2, OneProxied
  <2>6. \A n \in inflight' : n.to \in listed'[n.req] /\ handled'[n.req][n.to] = 0
    BY <2>2, <2>3, <2>5
  <2>7. \A r \in FO!Requests : listed[r] \subseteq Replicas
    BY DEF FO!FOTypeOK
  <2>8. RequestSound(m.req) /\ asked[m.req] \notin {"no", "listing"}
    BY <2>1 DEF RequestSound
  <2>9. ASSUME NEW r \in FO!Requests PROVE RequestSound(r)'
    <3>1. RequestSound(r)
      OBVIOUS
    <3>2. \A n \in inflight : n \in inflight' \/ n = m
      BY <2>2
    <3>3. CASE r = m.req
      <4>1. \A p \in Replicas : /\ sent'[r][p] = (IF p \in listed'[r] THEN 1 ELSE 0)
                                /\ handled'[r][p] \in {0, 1} /\ handled'[r][p] <= sent'[r][p]
        BY <2>1, <2>2, <2>3, <3>1, <3>3 DEF RequestSound
      <4>2. answered'[r] = "ok" => \E p \in listed'[r] : handled'[r][p] = 1
        BY <2>1, <2>2, <2>3, <3>3
      <4>3. asked'[r] = "sent" =>
              \A p \in listed'[r] : handled'[r][p] = 1 \/ \E n \in inflight' : n.req = r /\ n.to = p
        BY <2>1, <2>2, <2>3, <2>7, <3>1, <3>2, <3>3 DEF RequestSound
      <4> QED  BY <2>2, <2>8, <3>3, <4>1, <4>2, <4>3 DEF RequestSound
    <3>4. CASE r # m.req
      <4>1. answered'[r] = answered[r] /\ \A p \in Replicas : handled'[r][p] = handled[r][p]
        BY <2>2, <2>3, <3>4 DEF FO!FOTypeOK
      <4>2. \A n \in inflight : n.req = r => n \in inflight'
        BY <3>2, <3>4
      <4> QED  BY <2>2, <2>5, <2>7, <3>1, <4>1, <4>2 DEF RequestSound
    <3> QED  BY <3>3, <3>4
  <2> QED  BY <2>2, <2>4, <2>5, <2>6, <2>9
<1>5. ASSUME NEW m \in inflight, FO!ProxyError(m) PROVE FanoutInv'
  <2>1. at[m.req] \in Replicas
    OBVIOUS
  <2> QED  BY <1>5, <2>1, ReplicaStops DEF FO!ProxyError
<1>6. ASSUME NEW p \in Replicas, FO!StopReplica(p) PROVE FanoutInv'
  BY <1>6, ReplicaStops DEF FO!StopReplica
<1>7. ASSUME NEW p \in Replicas, FO!StartReplica(p) PROVE FanoutInv'
  BY <1>7, FanoutStays DEF FO!StartReplica, FO!FOTypeOK
<1>8. CASE FO!UpdateEndpoints
  BY <1>8, FanoutStays DEF FO!UpdateEndpoints, FO!FOTypeOK
<1> QED  BY <1>1, <1>2, <1>3, <1>4, <1>5, <1>6, <1>7, <1>8 DEF FO!FONext

LEMMA FanoutHolds == FanoutInv => FO!FanoutOnce
BY DEF FanoutInv, RequestSound, FO!FanoutOnce, FO!FOTypeOK

LEMMA FanoutIdle == FanoutInv /\ UNCHANGED fanoutVars => FanoutInv'
BY FanoutStays DEF FanoutInv, FO!FOTypeOK, fanoutVars

LEMMA PreferencesIdle == PreferencesInv /\ UNCHANGED preferencesVars => PreferencesInv'
BY DEF PreferencesInv, Settled, preferencesVars

LEMMA DatabaseIdle == DatabaseInv /\ UNCHANGED databaseVars => DatabaseInv'
BY DEF DatabaseInv, DatabaseTypes, InOrder, Holds, Distinct, ClosedWhenFree, databaseVars

LEMMA AppsIdle == AppsInv /\ UNCHANGED appsVars => AppsInv'
<1> SUFFICES ASSUME AppsInv, UNCHANGED appsVars PROVE AppsInv'
  OBVIOUS
<1>1. UNCHANGED <<app, nextApp, handler, removed>>
  BY DEF appsVars
<1>2. ASSUME NEW h \in Handlers PROVE HandlerSound(h)'
  BY <1>1, FewerApps DEF AppsInv
<1> QED  BY <1>1, <1>2 DEF AppsInv

-----------------------------------------------------------------------------
(* The framing of the sockets                                              *)

\* The n-th byte of the connection: message i has the bytes 3i - 2 to 3i.
Byte(n) == IF n % 3 = 0 THEN FR!NL ELSE <<((n - 1) \div 3) + 1, n % 3>>

LEMMA Bytes ==
  ASSUME NEW i \in Nat
  PROVE  /\ Byte(3 * i + 1) = <<i + 1, 1>>
         /\ Byte(3 * i + 2) = <<i + 1, 2>>
         /\ Byte(3 * i + 3) = FR!NL
<1>1. (3 * i + 1) % 3 = 1 /\ (3 * i + 2) % 3 = 2 /\ (3 * i + 3) % 3 = 0
  OBVIOUS
<1>2. (3 * i) \div 3 = i /\ (3 * i + 1) \div 3 = i
  OBVIOUS
<1>3. (3 * i + 1) - 1 = 3 * i /\ (3 * i + 2) - 1 = 3 * i + 1
  OBVIOUS
<1> QED BY <1>1, <1>2, <1>3 DEF Byte

LEMMA NewlineAt ==
  ASSUME NEW n \in Nat \ {0}
  PROVE  Byte(n) = FR!NL <=> n % 3 = 0
<1>1. ((n - 1) \div 3) + 1 # 0
  OBVIOUS
<1> QED BY <1>1 DEF Byte, FR!NL

\* InOrder lists any set that is given by increasing numbers.
LEMMA Increasing ==
  ASSUME NEW n \in Nat, NEW f \in [1..n -> Int],
         \A i, j \in 1..n : i < j => f[i] < f[j]
  PROVE  FR!InOrder({f[k] : k \in 1..n}) = f
<1> DEFINE S == {f[k] : k \in 1..n}
<1>1. \A X : FR!Cardinality(X) = Cardinality(X)
  BY DEF FR!Cardinality, Cardinality
<1>2. \A k \in 0..n : Cardinality({f[i] : i \in 1..k}) = k
  <2> SUFFICES ASSUME NEW k \in 0..n PROVE Cardinality({f[i] : i \in 1..k}) = k
    OBVIOUS
  <2> DEFINE g == [i \in 1..k |-> f[i]]
             T == {f[i] : i \in 1..k}
  <2>1. g \in [1..k -> T] /\ \A i, j \in 1..k : g[i] = g[j] => i = j
    <3>1. \A i, j \in 1..k : f[i] = f[j] => i = j
      <4> SUFFICES ASSUME NEW i \in 1..k, NEW j \in 1..k, f[i] = f[j] PROVE i = j
        OBVIOUS
      <4>1. i \in 1..n /\ j \in 1..n /\ f[i] \in Int
        OBVIOUS
      <4>2. ~(i < j) /\ ~(j < i)
        BY <4>1
      <4> QED BY <4>1, <4>2
    <3> QED BY <3>1
  <2>2. \A x \in T : \E i \in 1..k : g[i] = x
    OBVIOUS
  <2>3. ExistsBijection(1..k, T)
    BY <2>1, <2>2 DEF ExistsBijection, Bijection, Injection, Surjection, IsInjective
  <2>4. IsFiniteSet(1..k) /\ Cardinality(1..k) = k
    BY FS_Interval
  <2> QED BY <2>3, <2>4, FS_Bijection
<1> DEFINE Up(k) == {f[i] : i \in 1..k}
<1>3. \A k \in 1..n : {j \in S : j <= f[k]} = Up(k)
  <2> SUFFICES ASSUME NEW k \in 1..n PROVE {j \in S : j <= f[k]} = {f[i] : i \in 1..k}
    OBVIOUS
  <2>1. \A i \in 1..n : f[i] <= f[k] <=> i <= k
    OBVIOUS
  <2> QED BY <2>1
<1>4. S = Up(n) /\ \A k \in 0..n : Cardinality(Up(k)) = k
  BY <1>2
<1>5. \A i \in S : \E k \in 1..n : i = f[k]
  OBVIOUS
<1>6. \A k \in 1..n : f[k] \in S
  OBVIOUS
<1> HIDE DEF S, Up
<1>7. \A k \in 1..n : FR!Cardinality({j \in S : j <= f[k]}) = k
  <2> SUFFICES ASSUME NEW k \in 1..n PROVE FR!Cardinality({j \in S : j <= f[k]}) = k
    OBVIOUS
  <2>1. PICK X : X = {j \in S : j <= f[k]}
    OBVIOUS
  <2>2. X = Up(k)
    BY <1>3, <2>1
  <2>3. FR!Cardinality(X) = k
    BY <1>1, <1>4, <2>2
  <2> QED BY <2>1, <2>3
<1>8. ASSUME NEW k \in 1..n
      PROVE  (CHOOSE i \in S : FR!Cardinality({j \in S : j <= i}) = k) = f[k]
  <2>1. \A i \in S : FR!Cardinality({j \in S : j <= i}) = k => i = f[k]
    BY <1>5, <1>7
  <2>2. f[k] \in S /\ FR!Cardinality({j \in S : j <= f[k]}) = k
    BY <1>6, <1>7
  <2> QED BY <2>1, <2>2
<1>9. FR!Cardinality(S) = n
  BY <1>1, <1>4
<1>10. FR!InOrder(S) = [k \in 1..n |-> CHOOSE i \in S : FR!Cardinality({j \in S : j <= i}) = k]
  BY <1>9 DEF FR!InOrder
<1>11. FR!InOrder(S) = [k \in 1..n |-> f[k]]
  BY <1>8, <1>10
<1> QED BY <1>11 DEF S

\* A piece of the stream of bytes that starts a message, or at the newline
\* before one (s = 2, after the early parse), has m newlines, and d bytes of
\* the next message.
Piece(q, s, m, d) == [k \in 1..(3 * m + d - s) |-> Byte(3 * q + s + k)]
PieceOK(q, s, m, d) ==
  /\ q \in Nat /\ s \in {0, 2} /\ m \in Nat /\ d \in {0, 1, 2} /\ 3 * m + d - s >= 1
  /\ 3 * q + 3 * m + d <= 3 * MaxMessage
\* The lines of the piece that hold a message, the first of them, and what is
\* left of it.
First(s) == IF s = 0 THEN 1 ELSE 2
Whole(m, d) == IF d = 2 THEN m + 1 ELSE m
Left(q, m, d) == IF d = 1 THEN <<Byte(3 * (q + m) + 1)>> ELSE <<>>

LEMMA Newlines ==
  ASSUME NEW q, NEW s, NEW m, NEW d, PieceOK(q, s, m, d)
  PROVE  LET t == Piece(q, s, m, d)
         IN  FR!InOrder({k \in 1..Len(t) : t[k] = FR!NL}) = [k \in 1..m |-> 3 * k - s]
<1> DEFINE t == Piece(q, s, m, d)
           L == 3 * m + d - s
           f == [k \in 1..m |-> 3 * k - s]
<1>0. q \in Nat /\ s \in {0, 2} /\ m \in Nat /\ d \in {0, 1, 2} /\ L \in Nat
  BY DEF PieceOK
<1>1. Len(t) = L /\ \A k \in 1..L : t[k] = Byte(3 * q + s + k)
  BY <1>0 DEF Piece
<1>2. \A k \in 1..L : t[k] = FR!NL <=> (3 * q + s + k) % 3 = 0
  BY <1>0, <1>1, NewlineAt
<1>3. \A k \in 1..L : (3 * q + s + k) % 3 = 0 <=> \E i \in 1..m : k = 3 * i - s
  <2> SUFFICES ASSUME NEW k \in 1..L
               PROVE  (3 * q + s + k) % 3 = 0 <=> \E i \in 1..m : k = 3 * i - s
    OBVIOUS
  <2>1. ASSUME NEW i \in 1..m, k = 3 * i - s PROVE (3 * q + s + k) % 3 = 0
    <3>1. 3 * q + s + k = 3 * (q + i) /\ q + i \in Nat
      BY <1>0, <2>1
    <3>2. (3 * (q + i)) % 3 = 0
      BY <3>1
    <3> QED BY <3>1, <3>2
  <2>2. ASSUME (3 * q + s + k) % 3 = 0 PROVE \E i \in 1..m : k = 3 * i - s
    <3>a. PICK n \in Nat : n = 3 * q + s + k
      BY <1>0
    <3>b. n % 3 = 0
      BY <2>2, <3>a
    <3>c. n = 3 * (n \div 3) /\ n \div 3 \in Nat
      BY <3>b
    <3>1. PICK x \in Nat : 3 * q + s + k = 3 * x
      BY <3>a, <3>c
    <3>2. (x - q) \in 1..m /\ k = 3 * (x - q) - s
      BY <1>0, <3>1
    <3> QED BY <3>2
  <2> QED BY <2>1, <2>2
<1>4. \A i \in 1..m : (3 * i - s) \in 1..L
  BY <1>0
<1>5. {k \in 1..Len(t) : t[k] = FR!NL} = {f[i] : i \in 1..m}
  BY <1>1, <1>2, <1>3, <1>4
<1>6. f \in [1..m -> Int] /\ \A i, j \in 1..m : i < j => f[i] < f[j]
  BY <1>0
<1> HIDE DEF f, t
<1>7. FR!InOrder({f[i] : i \in 1..m}) = f
  BY <1>0, <1>6, Increasing
<1> QED BY <1>5, <1>7 DEF f, t

LEMMA Lines ==
  ASSUME NEW q, NEW s, NEW m, NEW d, PieceOK(q, s, m, d)
  PROVE  LET lines == FR!SplitLines(Piece(q, s, m, d))
         IN  /\ DOMAIN lines = 1..(m + 1) /\ Len(lines) = m + 1
             /\ \A k \in 1..m : lines[k] = IF k < First(s) THEN <<>> ELSE FR!Text(q + k)
             /\ lines[m + 1] = IF d = 2 THEN FR!Text(q + m + 1) ELSE Left(q, m, d)
<1> DEFINE t == Piece(q, s, m, d)
           L == 3 * m + d - s
           nls == [k \in 1..m |-> 3 * k - s]
           ends == nls \o <<L + 1>>
           From(k) == IF k = 1 THEN 1 ELSE ends[k - 1] + 1
           lines == FR!SplitLines(t)
<1>0. q \in Nat /\ s \in {0, 2} /\ m \in Nat /\ d \in {0, 1, 2} /\ L \in Nat \ {0}
  BY DEF PieceOK
<1>1. Len(t) = L /\ \A k \in 1..L : t[k] = Byte(3 * q + s + k)
  BY <1>0 DEF Piece
<1>2. FR!InOrder({k \in 1..Len(t) : t[k] = FR!NL}) = nls
  BY Newlines
<1>3. /\ Len(ends) = m + 1 /\ ends[m + 1] = L + 1
      /\ \A k \in 1..m : ends[k] = 3 * k - s
  BY <1>0
<1> HIDE DEF t, nls
<1>4. lines = [k \in 1..Len(ends) |-> SubSeq(t, From(k), ends[k] - 1)]
  BY <1>1, <1>2 DEF FR!SplitLines
<1> HIDE DEF ends, lines
<1>5. DOMAIN lines = 1..(m + 1) /\ Len(lines) = m + 1
  BY <1>0, <1>3, <1>4
<1>e. \A k \in 1..(m + 1) : lines[k] = SubSeq(t, From(k), ends[k] - 1)
  BY <1>3, <1>4
<1>6. t \in Seq({Byte(n) : n \in Int})
  <2>1. t \in [1..L -> {Byte(n) : n \in Int}]
    BY <1>0, <1>1 DEF t, Piece
  <2> QED BY <1>0, <2>1
<1>7. ASSUME NEW a \in Int, NEW b \in Int, NEW c \in Nat, 1 <= a, b <= L,
             c = IF b < a THEN 0 ELSE b - a + 1
      PROVE  SubSeq(t, a, b) = [i \in 1..c |-> Byte(3 * q + s + a + i - 1)]
  <2>1. SubSeq(t, a, b) = [i \in 1..c |-> t[a + i - 1]]
    BY <1>6, <1>1, <1>7
  <2>2. \A i \in 1..c :
          /\ a + i - 1 \in 1..L /\ 3 * q + s + (a + i - 1) = 3 * q + s + a + i - 1
    BY <1>0, <1>7
  <2> QED BY <1>1, <2>1, <2>2
<1>8. ASSUME NEW k \in 1..(m + 1), k >= First(s)
      PROVE  /\ From(k) = 3 * (k - 1) - s + 1
             /\ From(k) >= 1 /\ From(k) \in Int
  BY <1>0, <1>3, <1>8 DEF First
<1>f. From(1) = 1
  OBVIOUS
<1> HIDE DEF From
<1>9. ASSUME NEW k \in 1..m, k >= First(s) PROVE lines[k] = FR!Text(q + k)
  <2> DEFINE a == From(k)
  <2>1. a = 3 * (k - 1) - s + 1 /\ a >= 1 /\ a \in Int
    BY <1>0, <1>8, <1>9
  <2>2. lines[k] = SubSeq(t, a, 3 * k - s - 1)
    BY <1>0, <1>3, <1>e
  <2> HIDE DEF a
  <2>3. lines[k] = [i \in 1..2 |-> Byte(3 * q + s + a + i - 1)]
    <3>1. PICK b \in Int : b = 3 * k - s - 1 /\ b <= L
      BY <1>0
    <3>2. 2 = IF b < a THEN 0 ELSE b - a + 1
      BY <1>0, <2>1, <3>1
    <3>3. lines[k] = SubSeq(t, a, b)
      BY <2>2, <3>1
    <3> QED BY <1>7, <2>1, <3>1, <3>2, <3>3
  <2>4. /\ 3 * q + s + a + 1 - 1 = 3 * (q + k - 1) + 1
        /\ 3 * q + s + a + 2 - 1 = 3 * (q + k - 1) + 2
        /\ q + k - 1 \in Nat
    BY <1>0, <2>1
  <2>a. lines[k][1] = Byte(3 * q + s + a + 1 - 1) /\ lines[k][2] = Byte(3 * q + s + a + 2 - 1)
    BY <2>3
  <2>b. PICK i \in Nat : i = q + k - 1
    BY <2>4
  <2>c. lines[k][1] = Byte(3 * i + 1) /\ lines[k][2] = Byte(3 * i + 2) /\ i + 1 = q + k
    BY <1>0, <2>4, <2>a, <2>b
  <2>5. lines[k][1] = <<q + k, 1>> /\ lines[k][2] = <<q + k, 2>>
    BY <2>c, Bytes
  <2>6. lines[k] = <<lines[k][1], lines[k][2]>>
    BY <2>3
  <2> QED BY <2>5, <2>6 DEF FR!Text
<1>10. ASSUME NEW k \in 1..m, k < First(s) PROVE lines[k] = <<>>
  <2>1. k = 1 /\ s = 2
    BY <1>0, <1>10 DEF First
  <2>2. lines[k] = SubSeq(t, 1, 0)
    BY <1>0, <1>3, <1>e, <1>f, <2>1
  <2> QED BY <1>6, <2>2
<1>11. lines[m + 1] = IF d = 2 THEN FR!Text(q + m + 1) ELSE Left(q, m, d)
  <2> DEFINE a == From(m + 1)
  <2>1. a = 3 * m - s + 1 /\ a >= 1 /\ a \in Int
    <3>1. m + 1 >= First(s)
      BY <1>0 DEF First
    <3> QED BY <1>0, <1>8, <3>1
  <2>2. lines[m + 1] = SubSeq(t, a, L)
    <3>1. m + 1 \in 1..(m + 1) /\ ends[m + 1] - 1 = L
      BY <1>0, <1>3
    <3> QED BY <1>e, <3>1
  <2> HIDE DEF a
  <2>3. lines[m + 1] = [i \in 1..d |-> Byte(3 * q + s + a + i - 1)]
    <3>1. PICK b \in Int : b = L
      BY <1>0
    <3>2. d = (IF b < a THEN 0 ELSE b - a + 1) /\ d \in Nat /\ b <= L
      BY <1>0, <2>1, <3>1
    <3>3. lines[m + 1] = SubSeq(t, a, b)
      BY <2>2, <3>1
    <3> QED BY <1>7, <2>1, <3>2, <3>3
  <2>4. /\ 3 * q + s + a + 1 - 1 = 3 * (q + m) + 1
        /\ 3 * q + s + a + 2 - 1 = 3 * (q + m) + 2
        /\ q + m \in Nat
    BY <1>0, <2>1
  <2>5. CASE d = 0
    BY <2>3, <2>5 DEF Left
  <2>6. CASE d = 1
    <3>1. lines[m + 1] = <<lines[m + 1][1]>> /\ lines[m + 1][1] = Byte(3 * q + s + a + 1 - 1)
      BY <2>3, <2>6
    <3> QED BY <2>4, <2>6, <3>1 DEF Left
  <2>7. CASE d = 2
    <3>1. /\ lines[m + 1] = <<lines[m + 1][1], lines[m + 1][2]>>
          /\ lines[m + 1][1] = Byte(3 * q + s + a + 1 - 1)
          /\ lines[m + 1][2] = Byte(3 * q + s + a + 2 - 1)
      BY <2>3, <2>7
    <3> QED BY <1>0, <2>4, <2>7, <3>1, Bytes DEF FR!Text
  <2> QED BY <1>0, <2>5, <2>6, <2>7
<1>12. \A k \in 1..m : lines[k] = IF k < First(s) THEN <<>> ELSE FR!Text(q + k)
  BY <1>0, <1>9, <1>10 DEF First
<1> QED BY <1>5, <1>11, <1>12 DEF lines, t

\* The message that the text is.
LEMMA TextParses ==
  ASSUME NEW i \in Nat
  PROVE  /\ FR!Parses(FR!Text(i)) <=> i \in 1..MaxMessage
         /\ FR!Text(i)[1][1] = i
<1>1. \A j : FR!Text(i) = FR!Text(j) => i = j
  BY DEF FR!Text
<1>2. FR!Text(i)[1][1] = i
  BY DEF FR!Text
<1> QED BY <1>1, <1>2 DEF FR!Parses

LEMMA TooShort ==
  ASSUME NEW q, NEW m, NEW d
  PROVE  ~FR!Parses(<<>>) /\ ~FR!Parses(Left(q, m, d))
<1>1. \A j, x : FR!Text(j) # <<>> /\ FR!Text(j) # <<x>>
  BY DEF FR!Text
<1> QED BY <1>1 DEF FR!Parses, Left

\* What a read of a piece delivers and keeps.
LEMMA Reads ==
  ASSUME MaxMessage \in Nat, NEW q, NEW s, NEW m, NEW d, PieceOK(q, s, m, d),
         NEW r, r = FR!TryReadMessage(Piece(q, s, m, d)),
         NEW b, b = q + First(s) - 1, NEW c, c = Whole(m, d) - First(s) + 1
  PROVE  /\ c \in Nat
         /\ r.msgs = [k \in 1..c |-> b + k]
         /\ r.rest = Left(q, m, d)
<1> DEFINE lines == FR!SplitLines(Piece(q, s, m, d))
           lo == First(s)
           hi == Whole(m, d)
           n == hi - lo + 1
           f == [k \in 1..n |-> lo - 1 + k]
<1>0. /\ q \in Nat /\ s \in {0, 2} /\ m \in Nat /\ d \in {0, 1, 2}
      /\ 3 * m + d - s >= 1 /\ q + m \in Nat
      /\ 3 * q + 3 * m + d <= 3 * MaxMessage
  BY DEF PieceOK
<1>1. /\ DOMAIN lines = 1..(m + 1) /\ Len(lines) = m + 1
      /\ \A k \in 1..m : lines[k] = IF k < lo THEN <<>> ELSE FR!Text(q + k)
      /\ lines[m + 1] = IF d = 2 THEN FR!Text(q + m + 1) ELSE Left(q, m, d)
  BY Lines
<1>2. /\ lo \in {1, 2} /\ hi \in {m, m + 1} /\ n \in Nat
      /\ hi = m + 1 <=> d = 2
      /\ (s = 2 => m >= 1) /\ lo <= m + 1
  BY <1>0 DEF First, Whole
<1> HIDE DEF lines, lo, hi
<1>3. \A k \in 1..(m + 1) : FR!Parses(lines[k]) <=> k \in lo..hi
  <2> SUFFICES ASSUME NEW k \in 1..(m + 1) PROVE FR!Parses(lines[k]) <=> k \in lo..hi
    OBVIOUS
  <2>1. CASE k \in 1..m /\ k < lo
    <3>1. lines[k] = <<>>
      BY <1>1, <2>1
    <3>2. k \notin lo..hi
      BY <1>0, <1>2, <2>1
    <3>3. ~FR!Parses(<<>>)
      BY TooShort
    <3> QED BY <3>1, <3>2, <3>3
  <2>2. CASE k \in 1..m /\ k >= lo
    <3>1. lines[k] = FR!Text(q + k) /\ q + k \in Nat /\ q + k \in 1..MaxMessage /\ k \in lo..hi
      BY <1>0, <1>1, <1>2, <2>2
    <3> QED BY <3>1, TextParses
  <2>3. CASE k = m + 1 /\ d = 2
    <3>1. lines[k] = FR!Text(q + m + 1) /\ q + m + 1 \in Nat /\ q + m + 1 \in 1..MaxMessage /\ k \in lo..hi
      BY <1>0, <1>1, <1>2, <2>3
    <3> QED BY <3>1, TextParses
  <2>4. CASE k = m + 1 /\ d # 2
    <3>1. lines[k] = Left(q, m, d) /\ k \notin lo..hi
      BY <1>0, <1>1, <1>2, <2>4
    <3> QED BY <3>1, TooShort
  <2> QED BY <1>0, <1>2, <2>1, <2>2, <2>3, <2>4
<1>4. {k \in DOMAIN lines : FR!Parses(lines[k])} = {f[k] : k \in 1..n}
  <2>1. {k \in DOMAIN lines : FR!Parses(lines[k])} = lo..hi
    <3>1. lo..hi \subseteq 1..(m + 1)
      BY <1>0, <1>2
    <3> QED BY <1>1, <1>3, <3>1
  <2>2. \A x \in lo..hi : x - lo + 1 \in 1..n /\ x = f[x - lo + 1]
    BY <1>0, <1>2
  <2>3. \A k \in 1..n : f[k] \in lo..hi
    BY <1>0, <1>2
  <2> QED BY <2>1, <2>2, <2>3
<1>5. f \in [1..n -> Int] /\ \A i, j \in 1..n : i < j => f[i] < f[j]
  BY <1>0, <1>2
<1> HIDE DEF f
<1>6. FR!InOrder({f[k] : k \in 1..n}) = f
  BY <1>2, <1>5, Increasing
<1>7. FR!Messages(lines) = [k \in 1..n |-> lines[f[k]][1][1]]
  BY <1>4, <1>5, <1>6 DEF FR!Messages
<1>8. \A k \in 1..n : lines[f[k]][1][1] = q + lo - 1 + k
  <2> SUFFICES ASSUME NEW k \in 1..n PROVE lines[f[k]][1][1] = q + lo - 1 + k
    OBVIOUS
  <2>1. f[k] = lo - 1 + k /\ f[k] \in 1..(m + 1) /\ f[k] >= lo /\ (f[k] = m + 1 => d = 2)
    BY <1>0, <1>2 DEF f
  <2>2. lines[f[k]] = FR!Text(q + f[k]) /\ q + f[k] \in Nat
    <3>1. PICK x \in 1..(m + 1) : x = f[k] /\ x >= lo /\ (x = m + 1 => d = 2)
      BY <2>1
    <3>2. CASE x \in 1..m
      <4>1. lines[x] = FR!Text(q + x)
        BY <1>0, <1>1, <1>2, <3>1, <3>2
      <4> QED BY <1>0, <3>1, <4>1
    <3>3. CASE x = m + 1
      <4>1. lines[x] = FR!Text(q + m + 1) /\ q + m + 1 = q + x
        BY <1>0, <1>1, <3>1, <3>3
      <4>2. lines[x] = FR!Text(q + x)
        BY <4>1
      <4> QED BY <1>0, <3>1, <4>2
    <3> QED BY <1>0, <3>2, <3>3
  <2> QED BY <1>0, <1>2, <2>1, <2>2, TextParses
<1>9. FR!Messages(lines) = [k \in 1..n |-> q + lo - 1 + k]
  BY <1>7, <1>8
<1>10. FR!Last(lines) = lines[m + 1]
  BY <1>1 DEF FR!Last
<1>11. (IF FR!Parses(FR!Last(lines)) THEN <<>> ELSE FR!Last(lines)) = Left(q, m, d)
  <2>1. m + 1 \in 1..(m + 1) /\ (m + 1 \in lo..hi <=> d = 2)
    BY <1>0, <1>2
  <2>2. FR!Parses(lines[m + 1]) <=> d = 2
    BY <1>3, <2>1
  <2>3. d = 2 => Left(q, m, d) = <<>>
    BY DEF Left
  <2> QED BY <1>1, <1>10, <2>2, <2>3
<1>12. FR!TryReadMessage(Piece(q, s, m, d)) =
         [msgs |-> FR!Messages(lines),
          rest |-> IF FR!Parses(FR!Last(lines)) THEN <<>> ELSE FR!Last(lines)]
  BY DEF FR!TryReadMessage, lines
<1>13. c = n /\ b = q + lo - 1
  BY DEF lo, hi
<1>14. r = [msgs |-> [k \in 1..n |-> q + lo - 1 + k], rest |-> Left(q, m, d)]
  BY <1>9, <1>11, <1>12
<1> QED BY <1>2, <1>13, <1>14

\* What travels are the bytes, or the frames, that follow those that arrived;
\* what the receiver keeps is the first byte of the next message, since a text
\* is taken as soon as it parses.
Unit(n) == IF kind = "datagram" THEN Byte(n) ELSE FR!Text(n)
Units == IF kind = "datagram" THEN 3 * written ELSE written
OnWire(n) ==
  /\ wire = [k \in 1..n |-> Unit(arrived + k)]
  /\ arrived + n <= Units /\ (writer => arrived + n = Units)
FramingInv ==
  /\ kind \in {"datagram", "websocket"} /\ writer \in BOOLEAN /\ reader \in BOOLEAN
  /\ written \in 0..MaxMessage /\ arrived \in Nat
  /\ \E n \in Nat : OnWire(n)
  /\ partial = IF kind = "datagram" /\ arrived % 3 = 1 THEN <<Byte(arrived)>> ELSE <<>>
  /\ FR!FramingExact

LEMMA FramingInit == MaxMessage \in Nat /\ FR!FInit => FramingInv
<1> SUFFICES ASSUME MaxMessage \in Nat, FR!FInit PROVE FramingInv
  OBVIOUS
<1>1. /\ kind \in {"datagram", "websocket"} /\ writer = TRUE /\ reader = TRUE
      /\ written = 0 /\ arrived = 0 /\ wire = <<>> /\ partial = <<>> /\ got = <<>>
  BY DEF FR!FInit
<1>2. OnWire(0)
  BY <1>1 DEF OnWire, Units
<1>3. FR!FramingExact
  <2>1. (0 + 1) \div 3 = 0
    OBVIOUS
  <2> QED BY <1>1, <2>1 DEF FR!FramingExact
<1>4. 0 % 3 = 0
  OBVIOUS
<1> QED BY <1>1, <1>2, <1>3, <1>4 DEF FramingInv

LEMMA WriteFrames ==
  ASSUME MaxMessage \in Nat, FramingInv, FR!Write
  PROVE  FramingInv'
<1>1. /\ kind = "datagram" /\ written < MaxMessage /\ writer /\ written' = written + 1
      /\ wire' = wire \o FR!Text(written + 1) \o <<FR!NL>>
      /\ UNCHANGED <<kind, writer, reader, arrived, partial, got>>
  BY DEF FR!Write
<1>2. PICK n \in Nat : OnWire(n)
  BY DEF FramingInv
<1>3. arrived + n = 3 * written /\ arrived \in Nat /\ written \in Nat /\ Len(wire) = n
      /\ \A k \in 1..n : wire[k] = Byte(arrived + k)
  BY <1>1, <1>2 DEF OnWire, Units, Unit, FramingInv
<1>4. /\ wire' = [k \in 1..(n + 3) |-> wire'[k]]
      /\ \A k \in 1..n : wire'[k] = wire[k]
      /\ wire'[n + 1] = <<written + 1, 1>> /\ wire'[n + 2] = <<written + 1, 2>>
      /\ wire'[n + 3] = FR!NL
  <2>1. PICK v : v = FR!Text(written + 1)
    OBVIOUS
  <2>2. PICK x, y, z : x = <<written + 1, 1>> /\ y = <<written + 1, 2>> /\ z = FR!NL
    OBVIOUS
  <2>3. v = <<x, y>>
    BY <2>1, <2>2 DEF FR!Text
  <2>4. wire' = (wire \o v) \o <<z>>
    BY <1>1, <2>1, <2>2
  <2>5. wire = [k \in 1..n |-> wire[k]]
    BY <1>2 DEF OnWire
  <2>6. PICK u : u = wire \o v
    OBVIOUS
  <2>7. /\ u = [k \in 1..(n + 2) |-> u[k]] /\ \A k \in 1..n : u[k] = wire[k]
        /\ u[n + 1] = x /\ u[n + 2] = y
    BY <1>3, <2>3, <2>5, <2>6
  <2>8. PICK W : W = wire'
    OBVIOUS
  <2>9. n + 2 \in Nat /\ (n + 2) + 1 = n + 3 /\ Len(u) = n + 2 /\ W = u \o <<z>>
    <3>1. n + 2 \in Nat /\ n + 2 + 1 = n + 3 /\ Len(u) = n + 2
      BY <2>7
    <3>2. W = u \o <<z>>
      BY <2>4, <2>6, <2>8
    <3> QED BY <3>1, <3>2
  <2>10. /\ W = [k \in 1..((n + 2) + 1) |-> W[k]] /\ \A k \in 1..(n + 2) : W[k] = u[k]
         /\ W[(n + 2) + 1] = z
    BY <2>7, <2>9
  <2>11. /\ \A k \in 1..n : k \in 1..(n + 2)
         /\ n + 1 \in 1..(n + 2) /\ n + 2 \in 1..(n + 2)
    BY <1>3
  <2>12. /\ W = [k \in 1..(n + 3) |-> W[k]] /\ \A k \in 1..n : W[k] = wire[k]
         /\ W[n + 1] = x /\ W[n + 2] = y /\ W[n + 3] = z
    BY <2>7, <2>9, <2>10, <2>11
  <2> QED BY <2>2, <2>8, <2>12
<1>5. /\ wire'[n + 1] = Byte(arrived + (n + 1))
      /\ wire'[n + 2] = Byte(arrived + (n + 2))
      /\ wire'[n + 3] = Byte(arrived + (n + 3))
  <2>1. /\ arrived + (n + 1) = 3 * written + 1
        /\ arrived + (n + 2) = 3 * written + 2
        /\ arrived + (n + 3) = 3 * written + 3
    BY <1>3
  <2> QED BY <1>3, <1>4, <2>1, Bytes
<1>6. wire' = [k \in 1..(n + 3) |-> Byte(arrived + k)]
  <2>1. \A k \in 1..(n + 3) : k \in 1..n \/ k = n + 1 \/ k = n + 2 \/ k = n + 3
    OBVIOUS
  <2>2. \A k \in 1..(n + 3) : wire'[k] = Byte(arrived + k)
    BY <1>3, <1>4, <1>5, <2>1
  <2> QED BY <1>4, <2>2
<1>7. OnWire(n + 3)'
  BY <1>1, <1>3, <1>6 DEF OnWire, Units, Unit
<1>8. n + 3 \in Nat /\ written' \in 0..MaxMessage
  BY <1>1, <1>3
<1> QED BY <1>1, <1>7, <1>8 DEF FramingInv, FR!FramingExact

LEMMA WriteFrameFrames ==
  ASSUME MaxMessage \in Nat, FramingInv, FR!WriteFrame
  PROVE  FramingInv'
<1>1. /\ kind = "websocket" /\ written < MaxMessage /\ writer /\ written' = written + 1
      /\ wire' = Append(wire, FR!Text(written + 1))
      /\ UNCHANGED <<kind, writer, reader, arrived, partial, got>>
  BY DEF FR!WriteFrame
<1>2. PICK n \in Nat : OnWire(n)
  BY DEF FramingInv
<1>3. arrived + n = written /\ arrived \in Nat /\ written \in Nat /\ Len(wire) = n
      /\ wire = [k \in 1..n |-> FR!Text(arrived + k)]
  BY <1>1, <1>2 DEF OnWire, Units, Unit, FramingInv
<1>4. PICK v : v = FR!Text(arrived + (n + 1))
  OBVIOUS
<1>5. wire' = Append(wire, v) /\ \A k \in 1..(n + 1) : k \in 1..n \/ k = n + 1
  BY <1>1, <1>3, <1>4
<1>6. wire' = [k \in 1..(n + 1) |-> FR!Text(arrived + k)]
  <2>1. wire' = [k \in 1..(n + 1) |-> IF k = n + 1 THEN v ELSE wire[k]]
    BY <1>3, <1>5
  <2>2. \A k \in 1..(n + 1) : (IF k = n + 1 THEN v ELSE wire[k]) = FR!Text(arrived + k)
    BY <1>3, <1>4, <1>5
  <2> QED BY <2>1, <2>2
<1>7. OnWire(n + 1)'
  BY <1>1, <1>3, <1>6 DEF OnWire, Units, Unit
<1>8. n + 1 \in Nat /\ written' \in 0..MaxMessage
  BY <1>1, <1>3
<1> QED BY <1>1, <1>7, <1>8 DEF FramingInv, FR!FramingExact

LEMMA DataFrameFrames ==
  ASSUME MaxMessage \in Nat, FramingInv, FR!DataFrame
  PROVE  FramingInv'
<1>1. /\ kind = "websocket" /\ wire # <<>> /\ got' = Append(got, Head(wire)[1][1])
      /\ arrived' = arrived + 1 /\ wire' = Tail(wire)
      /\ UNCHANGED <<kind, writer, reader, written, partial>>
  BY DEF FR!DataFrame
<1>2. PICK n \in Nat : OnWire(n)
  BY DEF FramingInv
<1>3. /\ arrived + n <= written /\ (writer => arrived + n = written)
      /\ arrived \in Nat /\ written \in Nat /\ Len(wire) = n
      /\ wire = [k \in 1..n |-> FR!Text(arrived + k)] /\ n # 0
  BY <1>1, <1>2 DEF OnWire, Units, Unit, FramingInv
<1>4. n - 1 \in Nat /\ \A k \in 1..(n - 1) : k + 1 \in 1..n /\ arrived + (k + 1) = (arrived + 1) + k
  BY <1>3
<1>5. wire' = [k \in 1..(n - 1) |-> FR!Text((arrived + 1) + k)]
  <2>1. wire' = [k \in 1..(n - 1) |-> wire[k + 1]]
    BY <1>1, <1>3
  <2> QED BY <1>3, <1>4, <2>1
<1>6. OnWire(n - 1)'
  BY <1>1, <1>3, <1>4, <1>5 DEF OnWire, Units, Unit
<1>7. Head(wire)[1][1] = arrived + 1
  <2>1. Head(wire) = FR!Text(arrived + 1)
    BY <1>3
  <2> QED BY <2>1 DEF FR!Text
<1>8. got = [k \in 1..arrived |-> k]
  BY <1>1 DEF FramingInv, FR!FramingExact
<1>9. got' = [k \in 1..(arrived + 1) |-> k]
  BY <1>1, <1>3, <1>7, <1>8
<1> QED BY <1>1, <1>3, <1>4, <1>6, <1>9 DEF FramingInv, FR!FramingExact

LEMMA Thirds ==
  ASSUME NEW n \in Nat
  PROVE  \E x \in Nat, y \in {0, 1, 2} : n = 3 * x + y
<1>1. n \div 3 \in Nat /\ n % 3 \in {0, 1, 2} /\ n = 3 * (n \div 3) + (n % 3)
  OBVIOUS
<1> QED BY <1>1

LEMMA DataFrames ==
  ASSUME MaxMessage \in Nat, FramingInv, NEW n \in 1..Len(wire), FR!Data(n)
  PROVE  FramingInv'
<1> DEFINE t == partial \o SubSeq(wire, 1, n)
<1>0. PICK r : r = FR!TryReadMessage(t)
  OBVIOUS
<1>1. /\ kind = "datagram" /\ arrived' = arrived + n /\ wire' = SubSeq(wire, n + 1, Len(wire))
      /\ got' = got \o r.msgs /\ partial' = r.rest
      /\ UNCHANGED <<kind, writer, reader, written>>
  BY <1>0 DEF FR!Data
<1>2. PICK w \in Nat : OnWire(w)
  BY DEF FramingInv
<1>3. /\ wire = [k \in 1..w |-> Byte(arrived + k)] /\ Len(wire) = w
      /\ arrived + w <= 3 * written /\ (writer => arrived + w = 3 * written)
      /\ arrived \in Nat /\ written \in 0..MaxMessage /\ n \in 1..w
  BY <1>1, <1>2 DEF OnWire, Units, Unit, FramingInv
<1>4. SubSeq(wire, 1, n) = [k \in 1..n |-> Byte(arrived + k)]
  <2>1. SubSeq(wire, 1, n) = [k \in 1..n |-> wire[k]]
    BY <1>3
  <2> QED BY <1>3, <2>1
<1>5. PICK q \in Nat, s \in {0, 2}, p \in {0, 1} :
        /\ arrived = 3 * q + s + p /\ (p = 1 => s = 0)
        /\ partial = [k \in 1..p |-> Byte(3 * q + s + k)]
  <2>0. PICK a \in Nat : a = arrived
    BY <1>3
  <2>a. PICK x \in Nat, y \in {0, 1, 2} : a = 3 * x + y
    BY Thirds
  <2>1. arrived = 3 * x \/ arrived = 3 * x + 1 \/ arrived = 3 * x + 2
    BY <2>0, <2>a
  <2>2. CASE arrived = 3 * x
    <3>1. partial = <<>>
      BY <2>1, <2>2 DEF FramingInv
    <3> QED BY <2>1, <2>2, <3>1
  <2>3. CASE arrived = 3 * x + 1
    <3>1. partial = <<Byte(arrived)>>
      BY <1>1, <2>1, <2>3 DEF FramingInv
    <3>2. <<Byte(arrived)>> = [k \in 1..1 |-> Byte(3 * x + 0 + k)]
      BY <2>1, <2>3
    <3> QED BY <2>1, <2>3, <3>1, <3>2
  <2>4. CASE arrived = 3 * x + 2
    <3>1. partial = <<>>
      BY <2>1, <2>4 DEF FramingInv
    <3> QED BY <2>1, <2>4, <3>1
  <2> QED BY <2>1, <2>2, <2>3, <2>4
<1>6. PICK m \in Nat, d \in {0, 1, 2} : p + n = 3 * m + d - s
  <2>1. p + n + s \in Nat
    BY <1>3
  <2>2. PICK x \in Nat, y \in {0, 1, 2} : p + n + s = 3 * x + y
    BY <2>1, Thirds
  <2> QED BY <1>3, <2>2
<1>7. t = Piece(q, s, m, d)
  <2>1. t = [k \in 1..(p + n) |-> IF k <= p THEN partial[k] ELSE Byte(arrived + (k - p))]
    <3>1. PICK X : X = SubSeq(wire, 1, n)
      OBVIOUS
    <3>2. X = [k \in 1..n |-> X[k]] /\ \A k \in 1..n : X[k] = Byte(arrived + k)
      BY <1>4, <3>1
    <3>3. partial = [k \in 1..p |-> partial[k]] /\ p \in Nat /\ n \in Nat
      BY <1>3, <1>5
    <3>4. partial \o X = [k \in 1..(p + n) |-> IF k <= p THEN partial[k] ELSE X[k - p]]
      BY <3>2, <3>3
    <3>5. \A k \in 1..(p + n) : ~(k <= p) => k - p \in 1..n
      BY <3>3
    <3>6. partial \o X = [k \in 1..(p + n) |-> IF k <= p THEN partial[k] ELSE Byte(arrived + (k - p))]
      BY <3>2, <3>4, <3>5
    <3> QED BY <3>1, <3>6
  <2>2. \A k \in 1..(p + n) :
          (IF k <= p THEN partial[k] ELSE Byte(arrived + (k - p))) = Byte(3 * q + s + k)
    <3> SUFFICES ASSUME NEW k \in 1..(p + n)
                 PROVE  (IF k <= p THEN partial[k] ELSE Byte(arrived + (k - p))) = Byte(3 * q + s + k)
      OBVIOUS
    <3>1. arrived + (k - p) = 3 * q + s + k
      BY <1>3, <1>5
    <3>2. k <= p => partial[k] = Byte(3 * q + s + k)
      BY <1>3, <1>5
    <3> QED BY <3>1, <3>2
  <2> HIDE DEF t
  <2> QED BY <1>6, <2>1, <2>2 DEF Piece
<1>8. PieceOK(q, s, m, d)
  BY <1>3, <1>5, <1>6 DEF PieceOK
<1>a. PICK b : b = q + First(s) - 1
  OBVIOUS
<1>b. PICK c : c = Whole(m, d) - First(s) + 1
  OBVIOUS
<1> HIDE DEF t
<1>c. r = FR!TryReadMessage(Piece(q, s, m, d))
  BY <1>0, <1>7
<1>9. /\ c \in Nat /\ r.msgs = [k \in 1..c |-> b + k]
      /\ r.rest = Left(q, m, d)
  <2>1. MaxMessage \in Nat
    OBVIOUS
  <2> QED BY ONLY <2>1, <1>8, <1>a, <1>b, <1>c, Reads
<1>10. /\ arrived + n = 3 * q + 3 * m + d /\ b \in Nat /\ c \in Nat
       /\ (arrived + 1) \div 3 = b
  <2>1. arrived + n = 3 * q + 3 * m + d
    BY <1>3, <1>5, <1>6
  <2>2. b \in Nat /\ (arrived + 1) \div 3 = b
    BY <1>3, <1>5, <1>a DEF First
  <2> QED BY <1>9, <2>1, <2>2
<1>11. /\ ((arrived + n) + 1) \div 3 = b + c
       /\ Left(q, m, d) = IF (arrived + n) % 3 = 1 THEN <<Byte(arrived + n)>> ELSE <<>>
  <2>0. PICK a : a = arrived + n
    OBVIOUS
  <2>1. /\ (a + 1) \div 3 = q + Whole(m, d)
        /\ Left(q, m, d) = IF a % 3 = 1 THEN <<Byte(a)>> ELSE <<>>
    <3>1. a = 3 * q + 3 * m + d
      BY <1>10, <2>0
    <3>2. a % 3 = d
      BY ONLY q \in Nat, m \in Nat, d \in {0, 1, 2}, <3>1
    <3>3. (a + 1) \div 3 = q + Whole(m, d)
      BY ONLY q \in Nat, m \in Nat, d \in {0, 1, 2}, <3>1 DEF Whole
    <3>4. d = 1 => a = 3 * (q + m) + 1
      BY ONLY q \in Nat, m \in Nat, <3>1
    <3> QED BY <3>2, <3>3, <3>4 DEF Left
  <2>2. Whole(m, d) \in Nat /\ First(s) \in Nat
    BY DEF Whole, First
  <2>3. q + Whole(m, d) = b + c
    BY <1>a, <1>b, <2>2
  <2> QED BY <2>0, <2>1, <2>3
<1>12. got = [k \in 1..b |-> k]
  BY <1>1, <1>10 DEF FramingInv, FR!FramingExact
<1>13. got' = [k \in 1..(b + c) |-> k]
  <2>1. got \o r.msgs = [k \in 1..(b + c) |-> IF k <= b THEN got[k] ELSE r.msgs[k - b]]
    BY <1>9, <1>10, <1>12
  <2>2. \A k \in 1..(b + c) : (IF k <= b THEN got[k] ELSE r.msgs[k - b]) = k
    <3> SUFFICES ASSUME NEW k \in 1..(b + c)
                 PROVE  (IF k <= b THEN got[k] ELSE r.msgs[k - b]) = k
      OBVIOUS
    <3>1. CASE k <= b
      BY <1>10, <1>12, <3>1
    <3>2. CASE ~(k <= b)
      <4>1. k - b \in 1..c /\ b + (k - b) = k
        BY <1>10, <3>2
      <4> QED BY <1>9, <3>2, <4>1
    <3> QED BY <3>1, <3>2
  <2> QED BY <1>1, <2>1, <2>2
<1>14. FR!FramingExact'
  BY <1>1, <1>11, <1>13 DEF FR!FramingExact
<1>15. OnWire(w - n)'
  <2>1. wire' = [k \in 1..(w - n) |-> Byte((arrived + n) + k)]
    <3>1. wire' = [k \in 1..(w - n) |-> wire[k + n]]
      BY <1>1, <1>3
    <3>2. \A k \in 1..(w - n) : k + n \in 1..w /\ arrived + (k + n) = (arrived + n) + k
      BY <1>3
    <3> QED BY <1>3, <3>1, <3>2
  <2>2. arrived + n + (w - n) = arrived + w /\ w - n \in Nat
    BY <1>3
  <2> QED BY <1>1, <1>3, <2>1, <2>2 DEF OnWire, Units, Unit
<1>16. w - n \in Nat /\ arrived' \in Nat
  BY <1>1, <1>3
<1>17. partial' = IF kind' = "datagram" /\ arrived' % 3 = 1 THEN <<Byte(arrived')>> ELSE <<>>
  BY <1>1, <1>9, <1>11
<1> QED BY <1>1, <1>14, <1>15, <1>16, <1>17 DEF FramingInv

LEMMA FramingNext == MaxMessage \in Nat /\ FramingInv /\ FR!FNext => FramingInv'
<1> SUFFICES ASSUME MaxMessage \in Nat, FramingInv, FR!FNext PROVE FramingInv'
  OBVIOUS
<1>1. CASE FR!End
  BY <1>1 DEF FR!End, FramingInv, FR!FramingExact, OnWire, Units, Unit
<1>2. CASE FR!DestroyReader
  BY <1>2 DEF FR!DestroyReader, FramingInv, FR!FramingExact, OnWire, Units, Unit
<1>3. ASSUME NEW n \in 0..Len(wire), FR!DestroyWriter(n) PROVE FramingInv'
  <2>1. /\ writer' = FALSE /\ wire' = SubSeq(wire, 1, n)
        /\ UNCHANGED <<kind, reader, written, arrived, partial, got>>
    BY <1>3 DEF FR!DestroyWriter
  <2>2. PICK w \in Nat : OnWire(w)
    BY DEF FramingInv
  <2>3. Len(wire) = w /\ n \in 0..w /\ n \in Nat /\ arrived \in Nat
    BY <2>2 DEF OnWire, FramingInv
  <2>4. wire' = [k \in 1..n |-> Unit(arrived + k)]
    <3>1. wire' = [k \in 1..n |-> wire[k]]
      BY <2>1, <2>2, <2>3 DEF OnWire
    <3>2. \A k \in 1..n : wire[k] = Unit(arrived + k)
      BY <2>2, <2>3 DEF OnWire
    <3> QED BY <3>1, <3>2
  <2>5. arrived + n <= Units
    <3>1. Units \in Int
      BY DEF Units, FramingInv
    <3> QED BY <2>2, <2>3, <3>1 DEF OnWire
  <2>6. OnWire(n)'
    BY <2>1, <2>4, <2>5 DEF OnWire, Units, Unit
  <2> QED BY <2>1, <2>3, <2>6 DEF FramingInv, FR!FramingExact
<1> QED BY <1>1, <1>2, <1>3, WriteFrames, WriteFrameFrames, DataFrameFrames, DataFrames DEF FR!FNext

LEMMA FramingIdle == FramingInv /\ UNCHANGED framingVars => FramingInv'
<1> SUFFICES ASSUME FramingInv, UNCHANGED framingVars PROVE FramingInv'
  OBVIOUS
<1> USE DEF framingVars
<1>1. PICK n \in Nat : OnWire(n)
  BY DEF FramingInv
<1>2. Units' = Units
  BY DEF Units
<1>3. OnWire(n)'
  BY <1>1, <1>2 DEF OnWire, Unit, Byte, FR!Text, FR!NL
<1>4. FR!FramingExact'
  BY DEF FramingInv, FR!FramingExact
<1>5. partial' = IF kind' = "datagram" /\ arrived' % 3 = 1 THEN <<Byte(arrived')>> ELSE <<>>
  BY DEF FramingInv
<1> QED BY <1>3, <1>4, <1>5 DEF FramingInv, Byte

LEMMA FramingTypes == MaxMessage \in Nat /\ FramingInv => FR!FTypeOK
<1> SUFFICES ASSUME MaxMessage \in Nat, FramingInv PROVE FR!FTypeOK
  OBVIOUS
<1>1. Len(partial) <= 2
  BY DEF FramingInv
<1>2. \A k \in DOMAIN got : got[k] \in 1..MaxMessage
  <2>1. PICK n \in Nat : OnWire(n)
    BY DEF FramingInv
  <2>2. CASE kind = "datagram"
    <3>1. arrived <= 3 * written /\ arrived \in Nat /\ written \in 0..MaxMessage
      BY <2>1, <2>2 DEF OnWire, Units, FramingInv
    <3>2. (arrived + 1) \div 3 <= MaxMessage /\ (arrived + 1) \div 3 \in Nat
      BY <3>1
    <3>3. got = [k \in 1..((arrived + 1) \div 3) |-> k]
      BY <2>2 DEF FramingInv, FR!FramingExact
    <3> QED BY <3>2, <3>3
  <2>3. CASE kind # "datagram"
    <3>1. arrived <= written /\ arrived \in Nat /\ written \in 0..MaxMessage
      BY <2>1, <2>3 DEF OnWire, Units, FramingInv
    <3>3. got = [k \in 1..arrived |-> k]
      BY <2>3 DEF FramingInv, FR!FramingExact
    <3> QED BY <3>1, <3>3
  <2> QED BY <2>2, <2>3
<1> QED BY <1>1, <1>2 DEF FR!FTypeOK, FramingInv

-----------------------------------------------------------------------------
(* The cloud sync channel                                                  *)

\* The calls that were served and those on their way, as one sequence: what it
\* says of a set of messages, of which the first b were buffered.
Control == {CS!NewConnection, CS!OnClose}
Trace(T, S, b) ==
  /\ \A i \in DOMAIN T : T[i] \in S \cup Control
  /\ \A x \in S : \E i \in DOMAIN T : T[i] = x
  /\ \A i, j \in DOMAIN T : T[i] \in S /\ T[i] = T[j] => i = j
  /\ \A i, j \in DOMAIN T : i < j /\ T[i] \in S /\ T[j] \in S /\ T[i] > b /\ T[j] > b => T[i] < T[j]
Calls == 0..(MaxSync + 1)
Sent == (1..flushed) \cup ((Len(buffer) + 1)..received)

Numbered == buffer = [k \in 1..Len(buffer) |-> k]
Travels == engineUp => Trace(relayed \o calls, Sent, Len(buffer))

SyncInv ==
  /\ ws \in BOOLEAN /\ listener \in BOOLEAN /\ remote \in BOOLEAN
  /\ waiting \in BOOLEAN /\ engineUp \in BOOLEAN
  /\ phase \in {"engine", "connecting", "flushing", "live", "failed"}
  /\ wrapper \in {"none", "open", "closed"}
  /\ received \in Nat /\ Len(buffer) \in Nat /\ flushed \in Nat
  /\ flushed <= Len(buffer) /\ Len(buffer) <= received /\ received <= MaxSync
  /\ Numbered
  /\ ~remote => received = Len(buffer)
  /\ relayed \in Seq(Calls) /\ calls \in Seq(Calls)
  /\ Travels

LEMMA SyncInit == MaxSync \in Nat /\ CS!CSInit => SyncInv
<1> SUFFICES ASSUME MaxSync \in Nat, CS!CSInit PROVE SyncInv
  OBVIOUS
<1>1. /\ ws = TRUE /\ phase = "engine" /\ listener = FALSE
      /\ buffer = <<>> /\ remote = FALSE /\ flushed = 0 /\ waiting = FALSE
      /\ calls = <<>> /\ engineUp = TRUE /\ wrapper = "none"
      /\ received = 0 /\ relayed = <<>>
  BY DEF CS!CSInit
<1>2. Sent = {}
  BY <1>1 DEF Sent
<1>3. DOMAIN (relayed \o calls) = {}
  BY <1>1
<1>4. Trace(relayed \o calls, Sent, Len(buffer))
  BY <1>2, <1>3 DEF Trace
<1>5. Numbered /\ Len(buffer) = 0
  BY <1>1 DEF Numbered
<1>6. relayed \in Seq(Calls) /\ calls \in Seq(Calls)
  BY <1>1
<1>7. Travels
  BY <1>4 DEF Travels
<1>8. /\ ws \in BOOLEAN /\ listener \in BOOLEAN /\ remote \in BOOLEAN
      /\ waiting \in BOOLEAN /\ engineUp \in BOOLEAN
      /\ phase \in {"engine", "connecting", "flushing", "live", "failed"}
      /\ wrapper \in {"none", "open", "closed"}
  BY <1>1
<1>9. /\ received = 0 /\ flushed = 0 /\ Len(buffer) = 0
  BY <1>1, <1>5
<1>10. /\ received \in Nat /\ Len(buffer) \in Nat /\ flushed \in Nat
       /\ flushed <= Len(buffer) /\ Len(buffer) <= received /\ received <= MaxSync
       /\ received = Len(buffer)
  BY <1>9
<1> QED BY <1>5, <1>6, <1>7, <1>8, <1>10 DEF SyncInv

\* A call joins at the end.
LEMMA JoinsControl ==
  ASSUME NEW R \in Seq(Calls), NEW C \in Seq(Calls), NEW S, NEW b, NEW x \in Control,
         Trace(R \o C, S, b), S \cap Control = {}
  PROVE  Trace(R \o Append(C, x), S, b)
<1> DEFINE T == R \o C
           U == R \o Append(C, x)
           n == Len(R) + Len(C)
<1>1. /\ n \in Nat /\ DOMAIN T = 1..n /\ DOMAIN U = 1..(n + 1)
      /\ \A i \in 1..n : U[i] = T[i]
      /\ U[n + 1] = x
  OBVIOUS
<1> HIDE DEF T, U, n
<1>2. \A i \in 1..(n + 1) : i \in 1..n \/ i = n + 1
  BY <1>1
<1>3. Trace(T, S, b)
  BY DEF T
<1>4. x \notin S /\ x \in Control
  OBVIOUS
<1>5. \A i \in DOMAIN U : U[i] \in S \cup Control /\ (U[i] \in S => i \in 1..n /\ U[i] = T[i])
  BY <1>1, <1>2, <1>3, <1>4 DEF Trace
<1>6. \A y \in S : \E i \in DOMAIN U : U[i] = y
  <2>1. \A y \in S : \E i \in 1..n : U[i] = y
    BY <1>1, <1>3 DEF Trace
  <2>2. \A i \in 1..n : i \in DOMAIN U
    BY <1>1
  <2> QED BY <2>1, <2>2
<1>7. \A i, j \in DOMAIN U : U[i] \in S /\ U[i] = U[j] => i = j
  BY <1>1, <1>3, <1>5 DEF Trace
<1>8. \A i, j \in DOMAIN U :
        i < j /\ U[i] \in S /\ U[j] \in S /\ U[i] > b /\ U[j] > b => U[i] < U[j]
  BY <1>1, <1>3, <1>5 DEF Trace
<1>9. Trace(U, S, b)
  BY <1>5, <1>6, <1>7, <1>8 DEF Trace
<1> QED BY <1>9 DEF U

LEMMA JoinsMessage ==
  ASSUME NEW R \in Seq(Calls), NEW C \in Seq(Calls), NEW S \in SUBSET Nat, NEW b \in Nat, NEW x \in Nat,
         Trace(R \o C, S, b), S \cap Control = {}, x \notin Control, x \notin S,
         x > b => \A y \in S : y < x
  PROVE  Trace(R \o Append(C, x), S \cup {x}, b)
<1> DEFINE T == R \o C
           U == R \o Append(C, x)
           n == Len(R) + Len(C)
<1>1. /\ n \in Nat /\ DOMAIN T = 1..n /\ DOMAIN U = 1..(n + 1)
      /\ \A i \in 1..n : U[i] = T[i]
      /\ U[n + 1] = x
  OBVIOUS
<1> HIDE DEF T, U, n
<1>2. \A i \in 1..(n + 1) : i \in 1..n \/ i = n + 1
  BY <1>1
<1>3. Trace(T, S, b)
  BY DEF T
<1>4. \A i \in 1..n : U[i] \in S \cup Control /\ U[i] # x
  BY <1>1, <1>3 DEF Trace
<1>5. \A i \in DOMAIN U : U[i] \in (S \cup {x}) \cup Control
  BY <1>1, <1>2, <1>4
<1>6. \A y \in S \cup {x} : \E i \in DOMAIN U : U[i] = y
  <2>1. \A y \in S : \E i \in 1..n : U[i] = y
    BY <1>1, <1>3 DEF Trace
  <2>2. n + 1 \in DOMAIN U /\ \A i \in 1..n : i \in DOMAIN U
    BY <1>1
  <2> QED BY <1>1, <2>1, <2>2
<1>7. \A i, j \in DOMAIN U : U[i] \in S \cup {x} /\ U[i] = U[j] => i = j
  <2> SUFFICES ASSUME NEW i \in DOMAIN U, NEW j \in DOMAIN U, U[i] \in S \cup {x}, U[i] = U[j]
               PROVE  i = j
    OBVIOUS
  <2>1. CASE i \in 1..n /\ j \in 1..n
    <3>1. T[i] \in S /\ T[i] = T[j]
      BY <1>1, <1>4, <2>1
    <3> QED BY <1>1, <1>3, <2>1, <3>1 DEF Trace
  <2> QED BY <1>1, <1>2, <1>4, <2>1
<1>8. ASSUME NEW i \in DOMAIN U, NEW j \in DOMAIN U, i < j,
             U[i] \in S \cup {x}, U[j] \in S \cup {x}, U[i] > b, U[j] > b
      PROVE  U[i] < U[j]
  <2>1. i \in 1..n
    BY <1>1, <1>8
  <2>2. T[i] \in S /\ U[i] = T[i]
    BY <1>1, <1>4, <1>8, <2>1
  <2>3. CASE j \in 1..n
    <3>1. T[j] \in S /\ U[j] = T[j]
      BY <1>1, <1>4, <1>8, <2>3
    <3> QED BY <1>1, <1>3, <1>8, <2>1, <2>2, <2>3, <3>1 DEF Trace
  <2>4. CASE j = n + 1
    BY <1>1, <1>8, <2>2, <2>4
  <2> QED BY <1>1, <1>2, <2>3, <2>4
<1>9. Trace(U, S \cup {x}, b)
  BY <1>5, <1>6, <1>7, <1>8 DEF Trace
<1> QED BY <1>9 DEF U

\* The next call is served: a control call leaves the sequence, a message
\* stays in its place.
LEMMA ServesControl ==
  ASSUME NEW R \in Seq(Calls), NEW C \in Seq(Calls), NEW S, NEW b, C # <<>>, Head(C) \notin S,
         Trace(R \o C, S, b)
  PROVE  Trace(R \o Tail(C), S, b)
<1> DEFINE T == R \o C
           U == R \o Tail(C)
           n == Len(R) + Len(C) - 1
           p == Len(R) + 1
           g == [i \in 1..n |-> IF i < p THEN i ELSE i + 1]
<1>1. /\ n \in Nat /\ p \in 1..(n + 1) /\ DOMAIN T = 1..(n + 1) /\ DOMAIN U = 1..n
      /\ T[p] = Head(C)
  OBVIOUS
<1>2. \A i \in 1..n : i < p => U[i] = T[i]
  OBVIOUS
<1>3. \A i \in 1..n : ~(i < p) => U[i] = T[i + 1]
  <2> SUFFICES ASSUME NEW i \in 1..n, ~(i < p) PROVE U[i] = T[i + 1]
    OBVIOUS
  <2>1. i - Len(R) \in 1..(Len(C) - 1) /\ U[i] = Tail(C)[i - Len(R)]
    OBVIOUS
  <2>2. T[i + 1] = C[(i + 1) - Len(R)]
    OBVIOUS
  <2>3. Tail(C)[i - Len(R)] = C[(i - Len(R)) + 1]
    BY <2>1
  <2> QED BY <2>1, <2>2, <2>3
<1>4. /\ \A i \in 1..n : g[i] \in 1..(n + 1) /\ g[i] # p /\ U[i] = T[g[i]]
      /\ \A i, j \in 1..n : i < j => g[i] < g[j]
      /\ \A i, j \in 1..n : g[i] = g[j] => i = j
      /\ \A k \in 1..(n + 1) : k # p => \E i \in 1..n : g[i] = k
  <2> HIDE DEF T, U, n, p
  <2>1. \A i \in 1..n : g[i] = IF i < p THEN i ELSE i + 1
    OBVIOUS
  <2>2. ASSUME NEW k \in 1..(n + 1), k # p PROVE \E i \in 1..n : g[i] = k
    <3>1. CASE k < p
      BY <1>1, <2>1, <3>1
    <3>2. CASE k > p
      <4>1. k - 1 \in 1..n /\ g[k - 1] = k
        BY <1>1, <2>1, <3>2
      <4> QED BY <4>1
    <3> QED BY <1>1, <2>2, <3>1, <3>2
  <2>3. \A i \in 1..n : g[i] \in 1..(n + 1) /\ g[i] # p
    BY <1>1, <2>1
  <2>4. \A i \in 1..n : U[i] = T[g[i]]
    BY <1>1, <1>2, <1>3, <2>1
  <2>5. \A i, j \in 1..n : i < j => g[i] < g[j]
    BY <1>1, <2>1
  <2>6. \A i, j \in 1..n : g[i] = g[j] => i = j
    BY <1>1, <2>1
  <2> QED BY <2>2, <2>3, <2>4, <2>5, <2>6
<1>5. Trace(T, S, b)
  OBVIOUS
<1> HIDE DEF T, U, n, p, g
<1>6. T[p] \notin S
  BY <1>1
<1>7. \A i \in DOMAIN U : g[i] \in DOMAIN T /\ U[i] = T[g[i]] /\ U[i] \in S \cup Control
  BY <1>1, <1>4, <1>5 DEF Trace
<1>8. \A y \in S : \E i \in DOMAIN U : U[i] = y
  <2> SUFFICES ASSUME NEW y \in S PROVE \E i \in DOMAIN U : U[i] = y
    OBVIOUS
  <2>1. PICK k \in 1..(n + 1) : T[k] = y
    BY <1>1, <1>5 DEF Trace
  <2>2. k # p
    BY <1>6, <2>1
  <2>3. PICK i \in 1..n : g[i] = k
    BY <1>4, <2>2
  <2> QED BY <1>1, <1>7, <2>1, <2>3
<1>9. \A i, j \in DOMAIN U : U[i] \in S /\ U[i] = U[j] => i = j
  <2> SUFFICES ASSUME NEW i \in DOMAIN U, NEW j \in DOMAIN U, U[i] \in S, U[i] = U[j]
               PROVE  i = j
    OBVIOUS
  <2>1. g[i] = g[j]
    BY <1>5, <1>7 DEF Trace
  <2> QED BY <1>1, <1>4, <2>1
<1>10. ASSUME NEW i \in DOMAIN U, NEW j \in DOMAIN U, i < j,
              U[i] \in S, U[j] \in S, U[i] > b, U[j] > b
       PROVE  U[i] < U[j]
  <2>1. g[i] < g[j]
    BY <1>1, <1>4, <1>10
  <2> QED BY <1>5, <1>7, <1>10, <2>1 DEF Trace
<1>11. Trace(U, S, b)
  BY <1>7, <1>8, <1>9, <1>10 DEF Trace
<1> QED BY <1>11 DEF U

LEMMA ServesMessage ==
  ASSUME NEW R \in Seq(Calls), NEW C \in Seq(Calls), C # <<>>
  PROVE  Append(R, Head(C)) \o Tail(C) = R \o C
<1>1. Len(Append(R, Head(C)) \o Tail(C)) = Len(R \o C)
  OBVIOUS
<1>2. \A i \in 1..Len(R \o C) : (Append(R, Head(C)) \o Tail(C))[i] = (R \o C)[i]
  <2> SUFFICES ASSUME NEW i \in 1..Len(R \o C)
               PROVE  (Append(R, Head(C)) \o Tail(C))[i] = (R \o C)[i]
    OBVIOUS
  <2>1. CASE i <= Len(R)
    BY <2>1
  <2>2. CASE i = Len(R) + 1
    BY <2>2
  <2>3. CASE i > Len(R) + 1
    BY <2>3
  <2> QED BY <2>1, <2>2, <2>3
<1>3. Append(R, Head(C)) \o Tail(C) \in Seq(Calls) /\ R \o C \in Seq(Calls)
  OBVIOUS
<1> QED BY <1>1, <1>2, <1>3

LEMMA Numbers ==
  ASSUME MaxSync \in Nat, SyncInv
  PROVE  /\ Control = {0, MaxSync + 1} /\ Control \subseteq Calls
         /\ Len(buffer) \in Nat /\ received \in Nat /\ flushed \in Nat
         /\ flushed <= Len(buffer) /\ Len(buffer) <= received /\ received <= MaxSync
         /\ Sent \subseteq 1..received /\ Sent \subseteq Nat /\ Sent \cap Control = {}
         /\ \A k \in 1..Len(buffer) : buffer[k] = k
<1>1. Control = {0, MaxSync + 1} /\ Control \subseteq Calls
  BY DEF Control, Calls, CS!NewConnection, CS!OnClose
<1>2. /\ Len(buffer) \in Nat /\ received \in Nat /\ flushed \in Nat
      /\ flushed <= Len(buffer) /\ Len(buffer) <= received /\ received <= MaxSync
  BY DEF SyncInv
<1>3. Sent \subseteq 1..received
  BY <1>2 DEF Sent
<1>4. \A k \in 1..Len(buffer) : buffer[k] = k
  <2>1. buffer = [k \in 1..Len(buffer) |-> k]
    BY DEF SyncInv, Numbered
  <2> QED BY <2>1
<1> QED BY <1>1, <1>2, <1>3, <1>4

\* The actions that leave the messages where they are.
LEMMA SyncSame ==
  ASSUME MaxSync \in Nat, SyncInv, UNCHANGED <<buffer, flushed, received>>,
         \/ calls' = calls
         \/ \E x \in Control : calls' = Append(calls, x)
         \/ calls' = <<>> /\ ~engineUp',
         engineUp' => engineUp, relayed' = relayed, remote => remote',
         ws' \in BOOLEAN, listener' \in BOOLEAN, remote' \in BOOLEAN,
         waiting' \in BOOLEAN, engineUp' \in BOOLEAN,
         phase' \in {"engine", "connecting", "flushing", "live", "failed"},
         wrapper' \in {"none", "open", "closed"}
  PROVE  SyncInv'
<1>1. calls' \in Seq(Calls) /\ relayed \in Seq(Calls)
  <2>1. calls \in Seq(Calls) /\ relayed \in Seq(Calls)
    BY DEF SyncInv
  <2>2. \A x \in Control : Append(calls, x) \in Seq(Calls)
    BY <2>1, Numbers
  <2>3. <<>> \in Seq(Calls)
    OBVIOUS
  <2> QED BY <2>1, <2>2, <2>3
<1>2. ASSUME engineUp' PROVE Trace(relayed \o calls', Sent, Len(buffer))
  <2>1. engineUp /\ Trace(relayed \o calls, Sent, Len(buffer))
    BY <1>2 DEF SyncInv, Travels
  <2>2. CASE calls' = calls
    BY <2>1, <2>2
  <2>3. ASSUME NEW x \in Control, calls' = Append(calls, x)
        PROVE  Trace(relayed \o calls', Sent, Len(buffer))
    <3>1. Trace(relayed \o Append(calls, x), Sent, Len(buffer))
      BY <2>1, JoinsControl, Numbers DEF SyncInv
    <3> QED BY <2>3, <3>1
  <2> QED BY <1>2, <2>2, <2>3
<1>3. Sent' = Sent /\ Len(buffer)' = Len(buffer)
  BY DEF Sent
<1>4. Travels'
  <2>1. engineUp' => Trace(relayed' \o calls', Sent', Len(buffer)')
    BY <1>2, <1>3
  <2> QED BY <2>1 DEF Travels, Trace, Control, CS!NewConnection, CS!OnClose
<1>5. Numbered'
  BY DEF SyncInv, Numbered
<1> QED BY <1>1, <1>4, <1>5 DEF SyncInv

LEMMA MessageSynced ==
  ASSUME MaxSync \in Nat, SyncInv, CS!Message
  PROVE  SyncInv'
<1>0. /\ ws /\ received < MaxSync /\ received' = received + 1
      /\ UNCHANGED <<phase, listener, remote, flushed, waiting, engineUp, wrapper, relayed>>
  BY DEF CS!Message
<1>1. CASE ~remote
  <2>1. buffer' = Append(buffer, received + 1) /\ ws' = ws /\ calls' = calls
    BY <1>1 DEF CS!Message
  <2>2. received = Len(buffer) /\ buffer = [k \in 1..Len(buffer) |-> k] /\ Len(buffer) \in Nat
    BY <1>1 DEF SyncInv, Numbered
  <2>3. PICK b \in Nat : b = Len(buffer)
    BY <2>2
  <2>4. buffer' = [k \in 1..(b + 1) |-> k] /\ Len(buffer') = b + 1
    BY <2>1, <2>2, <2>3
  <2>5. Sent' = Sent /\ \A x \in Sent : x <= b
    <3>1. Sent = 1..flushed
      BY <2>2, Numbers DEF Sent
    <3>2. Sent' = 1..flushed
      BY <1>0, <2>2, <2>3, <2>4, Numbers DEF Sent
    <3> QED BY <2>3, <3>1, <3>2, Numbers
  <2>6. ASSUME engineUp PROVE Trace(relayed \o calls, Sent, b + 1)
    <3>1. Trace(relayed \o calls, Sent, b)
      BY <2>3, <2>6 DEF SyncInv, Travels
    <3>2. \A x \in Sent : ~(x > b + 1)
      BY <2>3, <2>5, Numbers
    <3> QED BY <3>1, <3>2 DEF Trace
  <2>7. Travels'
    <3>1. engineUp' => Trace(relayed' \o calls', Sent', Len(buffer'))
      BY <1>0, <2>1, <2>4, <2>5, <2>6
    <3> QED BY <3>1 DEF Travels, Trace, Control, CS!NewConnection, CS!OnClose
  <2>8. /\ received' \in Nat /\ Len(buffer') \in Nat /\ flushed' \in Nat
        /\ flushed' <= Len(buffer') /\ Len(buffer') <= received' /\ received' <= MaxSync
        /\ received' = Len(buffer')
    BY <1>0, <2>2, <2>3, <2>4, Numbers
  <2>9. Numbered'
    BY <2>4 DEF Numbered
  <2> QED BY <1>0, <2>1, <2>7, <2>8, <2>9 DEF SyncInv
<1>2. CASE remote /\ engineUp
  <2>1. calls' = Append(calls, received + 1) /\ ws' = ws /\ buffer' = buffer
    BY <1>2 DEF CS!Message
  <2>2. Sent' = Sent \cup {received + 1}
    BY <1>0, <2>1, Numbers DEF Sent
  <2>3. Trace(relayed \o calls, Sent, Len(buffer))
    BY <1>2 DEF SyncInv, Travels
  <2>4. /\ received + 1 \in Nat /\ received + 1 \notin Control /\ received + 1 \notin Sent
        /\ \A y \in Sent : y < received + 1
    BY <1>0, Numbers
  <2>5. Trace(relayed \o Append(calls, received + 1), Sent \cup {received + 1}, Len(buffer))
    BY <2>3, <2>4, JoinsMessage, Numbers DEF SyncInv
  <2>6. Travels'
    <3>1. Trace(relayed' \o calls', Sent', Len(buffer'))
      BY <1>0, <2>1, <2>2, <2>5
    <3> QED BY <3>1 DEF Travels, Trace, Control, CS!NewConnection, CS!OnClose
  <2>7. calls' \in Seq(Calls)
    <3>1. received + 1 \in Calls
      BY <1>0, Numbers DEF Calls
    <3>2. calls \in Seq(Calls)
      BY DEF SyncInv
    <3> QED BY <2>1, <3>1, <3>2
  <2>8. received' \in Nat /\ Len(buffer) <= received' /\ received' <= MaxSync
    BY <1>0, Numbers
  <2>9. Numbered'
    BY <2>1 DEF SyncInv, Numbered
  <2> QED BY <1>0, <1>2, <2>1, <2>6, <2>7, <2>8, <2>9 DEF SyncInv
<1>3. CASE remote /\ ~engineUp
  <2>1. ws' = FALSE /\ calls' = calls /\ buffer' = buffer
    BY <1>3 DEF CS!Message
  <2>2. received' \in Nat /\ Len(buffer) <= received' /\ received' <= MaxSync
    BY <1>0, Numbers
  <2>3. Numbered'
    BY <2>1 DEF SyncInv, Numbered
  <2>4. Travels'
    BY <1>0, <1>3 DEF Travels
  <2> QED BY <1>0, <1>3, <2>1, <2>2, <2>3, <2>4 DEF SyncInv
<1> QED BY <1>1, <1>2, <1>3 DEF SyncInv

LEMMA EngineServesSynced ==
  ASSUME MaxSync \in Nat, SyncInv, CS!EngineServes
  PROVE  SyncInv'
<1>0. /\ engineUp /\ calls # <<>> /\ calls' = Tail(calls)
      /\ UNCHANGED <<ws, phase, listener, buffer, remote, flushed, engineUp, received>>
  BY DEF CS!EngineServes
<1>1. /\ calls \in Seq(Calls) /\ relayed \in Seq(Calls) /\ Head(calls) \in Calls /\ calls' \in Seq(Calls)
      /\ Trace(relayed \o calls, Sent, Len(buffer))
  <2>1. calls \in Seq(Calls) /\ relayed \in Seq(Calls)
    BY DEF SyncInv
  <2>2. Head(calls) \in Calls /\ Tail(calls) \in Seq(Calls)
    BY <1>0, <2>1
  <2> QED BY <1>0, <2>1, <2>2 DEF SyncInv, Travels
<1>4. Numbered'
  BY <1>0 DEF SyncInv, Numbered
<1>2. CASE Head(calls) \in Control
  <2>1. relayed' = relayed /\ waiting' = waiting /\ wrapper' \in {"open", "closed"}
    BY <1>2 DEF CS!EngineServes, Control
  <2>2. Trace(relayed \o Tail(calls), Sent, Len(buffer))
    BY <1>0, <1>1, <1>2, ServesControl, Numbers
  <2>3. Travels'
    <3>1. Trace(relayed' \o calls', Sent', Len(buffer'))
      BY <1>0, <2>1, <2>2 DEF Sent
    <3> QED BY <3>1 DEF Travels, Trace, Control, CS!NewConnection, CS!OnClose
  <2> QED BY <1>0, <1>1, <1>4, <2>1, <2>3 DEF SyncInv
<1>3. CASE Head(calls) \notin Control
  <2>1. /\ relayed' = Append(relayed, Head(calls)) /\ wrapper' = wrapper
        /\ waiting' = (waiting /\ Head(calls) # buffer[flushed])
    BY <1>3 DEF CS!EngineServes, Control
  <2>2. relayed' \o calls' = relayed \o calls
    BY <1>0, <1>1, <2>1, ServesMessage
  <2>3. Travels'
    <3>1. Trace(relayed' \o calls', Sent', Len(buffer'))
      BY <1>0, <1>1, <2>2 DEF Sent
    <3> QED BY <3>1 DEF Travels, Trace, Control, CS!NewConnection, CS!OnClose
  <2>4. relayed' \in Seq(Calls) /\ waiting' \in BOOLEAN
    BY <1>1, <2>1
  <2> QED BY <1>0, <1>1, <1>4, <2>1, <2>3, <2>4 DEF SyncInv
<1> QED BY <1>2, <1>3

LEMMA FlushNextSynced ==
  ASSUME MaxSync \in Nat, SyncInv, CS!FlushNext
  PROVE  SyncInv'
<1>0. /\ engineUp /\ UNCHANGED <<ws, listener, buffer, remote, engineUp, wrapper, received, relayed>>
  BY DEF CS!FlushNext
<1>1. CASE flushed < Len(buffer)
  <2>1. /\ flushed' = flushed + 1 /\ waiting' = TRUE /\ phase' = phase
        /\ calls' = Append(calls, buffer[flushed + 1])
    BY <1>1 DEF CS!FlushNext
  <2>2. buffer[flushed + 1] = flushed + 1 /\ flushed + 1 \in Nat /\ flushed + 1 \in Calls
    BY <1>1, Numbers DEF Calls
  <2>3. Trace(relayed \o calls, Sent, Len(buffer))
    BY <1>0 DEF SyncInv, Travels
  <2>4. /\ Sent' = Sent \cup {flushed + 1} /\ flushed + 1 \notin Sent /\ flushed + 1 \notin Control
        /\ ~(flushed + 1 > Len(buffer))
    BY <1>0, <1>1, <2>1, Numbers DEF Sent
  <2>5. Trace(relayed \o Append(calls, flushed + 1), Sent \cup {flushed + 1}, Len(buffer))
    BY <2>2, <2>3, <2>4, JoinsMessage, Numbers DEF SyncInv
  <2>6. Travels'
    <3>1. Trace(relayed' \o calls', Sent', Len(buffer'))
      BY <1>0, <2>1, <2>2, <2>4, <2>5
    <3> QED BY <3>1 DEF Travels, Trace, Control, CS!NewConnection, CS!OnClose
  <2>7. calls' \in Seq(Calls)
    <3>1. calls \in Seq(Calls)
      BY DEF SyncInv
    <3> QED BY <2>1, <2>2, <3>1
  <2>8. flushed' \in Nat /\ flushed' <= Len(buffer)
    BY <1>1, <2>1, Numbers
  <2>9. Numbered'
    BY <1>0 DEF SyncInv, Numbered
  <2> QED BY <1>0, <2>1, <2>6, <2>7, <2>8, <2>9 DEF SyncInv
<1>2. CASE ~(flushed < Len(buffer))
  <2>1. phase' = "live" /\ UNCHANGED <<flushed, waiting, calls>>
    BY <1>2 DEF CS!FlushNext
  <2> QED BY <1>0, <2>1, SyncSame DEF SyncInv
<1> QED BY <1>1, <1>2

LEMMA SyncNext == MaxSync \in Nat /\ SyncInv /\ CS!CSNext => SyncInv'
<1> SUFFICES ASSUME MaxSync \in Nat, SyncInv, CS!CSNext PROVE SyncInv'
  OBVIOUS
<1>0. CS!NewConnection \in Control /\ CS!OnClose \in Control
  BY DEF Control
<1>1. CASE CS!GotEngine
  BY <1>0, <1>1, SyncSame DEF CS!GotEngine, SyncInv
<1>2. CASE CS!NoEngine
  BY <1>0, <1>2, SyncSame DEF CS!NoEngine, CS!CloseWs, SyncInv
<1>3. CASE CS!SetRemote
  BY <1>0, <1>3, SyncSame DEF CS!SetRemote, SyncInv
<1>4. CASE CS!DeviceCloses
  BY <1>0, <1>4, SyncSame DEF CS!DeviceCloses, CS!CloseWs, SyncInv
<1>5. CASE CS!EngineLost
  BY <1>5, SyncSame DEF CS!EngineLost, SyncInv
<1>6. CASE CS!OtherSocketClosed
  BY <1>6, SyncSame DEF CS!OtherSocketClosed, SyncInv
<1> QED BY <1>1, <1>2, <1>3, <1>4, <1>5, <1>6, MessageSynced, EngineServesSynced, FlushNextSynced
        DEF CS!CSNext

LEMMA SyncIdle == SyncInv /\ UNCHANGED cloudsyncVars => SyncInv'
<1> SUFFICES ASSUME SyncInv, UNCHANGED cloudsyncVars PROVE SyncInv'
  OBVIOUS
<1>1. Travels => Travels'
  BY DEF Travels, Trace, Sent, Control, CS!NewConnection, CS!OnClose, cloudsyncVars
<1>2. Numbered => Numbered'
  BY DEF Numbered, cloudsyncVars
<1> QED BY <1>1, <1>2 DEF SyncInv, cloudsyncVars

LEMMA SyncHolds == MaxSync \in Nat /\ SyncInv => CS!SyncRelayed /\ CS!CSTypeOK
<1> SUFFICES ASSUME MaxSync \in Nat, SyncInv PROVE CS!SyncRelayed /\ CS!CSTypeOK
  OBVIOUS
<1>1. CS!CSTypeOK
  BY DEF CS!CSTypeOK, SyncInv
<1>2. ASSUME engineUp
      PROVE  LET trip == relayed \o calls
                 places == {i \in DOMAIN trip : trip[i] \notin Control}
                 kept == (flushed + 1)..Len(buffer)
                 Late(i) == ~CS!Contains(buffer, trip[i])
             IN  /\ {trip[i] : i \in places} \cup {buffer[k] : k \in kept} = 1..received
                 /\ \A i, j \in places : trip[i] = trip[j] => i = j
                 /\ \A j, k \in kept : buffer[j] = buffer[k] => j = k
                 /\ \A i \in places, k \in kept : trip[i] # buffer[k]
                 /\ \A i, j \in places : i < j /\ Late(i) /\ Late(j) => trip[i] < trip[j]
  <2> DEFINE trip == relayed \o calls
             places == {i \in DOMAIN trip : trip[i] \notin Control}
             kept == (flushed + 1)..Len(buffer)
             Late(i) == ~CS!Contains(buffer, trip[i])
  <2>1. Trace(trip, Sent, Len(buffer))
    BY <1>2 DEF SyncInv, Travels
  <2> HIDE DEF trip
  <2>2. \A i \in places : trip[i] \in Sent
    BY <2>1 DEF Trace
  <2>3. {trip[i] : i \in places} = Sent
    BY <2>1, <2>2, Numbers DEF Trace
  <2>4. {buffer[k] : k \in kept} = kept
    BY Numbers
  <2>5. Sent \cup kept = 1..received /\ Sent \cap kept = {}
    BY Numbers DEF Sent
  <2>6. \A i \in places : Late(i) => trip[i] > Len(buffer)
    <3> SUFFICES ASSUME NEW i \in places, ~(trip[i] > Len(buffer)) PROVE CS!Contains(buffer, trip[i])
      OBVIOUS
    <3>1. trip[i] \in 1..Len(buffer) /\ buffer[trip[i]] = trip[i]
      BY <2>2, Numbers
    <3> QED BY <3>1 DEF CS!Contains
  <2>7. \A i, j \in places : trip[i] = trip[j] => i = j
    BY <2>1, <2>2 DEF Trace
  <2>8. \A i, j \in places : i < j /\ Late(i) /\ Late(j) => trip[i] < trip[j]
    BY <2>1, <2>2, <2>6 DEF Trace
  <2>9. \A j, k \in kept : buffer[j] = buffer[k] => j = k
    BY Numbers
  <2>10. \A i \in places, k \in kept : trip[i] # buffer[k]
    BY <2>2, <2>5, Numbers
  <2>11. {trip[i] : i \in places} \cup {buffer[k] : k \in kept} = 1..received
    BY <2>3, <2>4, <2>5
  <2> QED BY <2>7, <2>8, <2>9, <2>10, <2>11 DEF trip
<1> QED BY <1>1, <1>2 DEF CS!SyncRelayed, Control

-----------------------------------------------------------------------------
(* Google Assistant                                                        *)

\* The items of a reply, and what the user is shown of the messages.
Items == [kind : {"bubble", "caption", "image", "rdl", "link", "suggestions", "close", "signin"},
          of : Seq(Nat)]
Shown == {"bubble", "image", "rdl", "link"}
Visible == GA!Texts \cup {"picture", "rdl", "link"}
Messages == [n : Nat, kind : GA!Kinds]

\* A new item is the last.
LEMMA ItemAdded ==
  ASSUME NEW T \in Seq(Items), NEW x \in Items, NEW U, U = Append(T, x)
  PROVE  /\ U \in Seq(Items) /\ Len(T) \in Nat /\ Len(U) = Len(T) + 1
         /\ DOMAIN U = 1..(Len(T) + 1) /\ DOMAIN T = 1..Len(T)
         /\ \A i \in 1..Len(T) : U[i] = T[i]
         /\ U[Len(T) + 1] = x
         /\ \A i \in DOMAIN U : i \in 1..Len(T) \/ i = Len(T) + 1
OBVIOUS

LEMMA ShowsMore ==
  ASSUME NEW T \in Seq(Items), NEW x \in Items, NEW U, U = Append(T, x), NEW n \in Nat,
         NEW K, NEW N \in SUBSET Nat, x.kind \in K, x.of = <<n>>, GA!Shows(T, K, N), \A y \in N : y < n
  PROVE  GA!Shows(U, K, N \cup {n})
<1> DEFINE L == Len(T)
<1>1. /\ L \in Nat /\ DOMAIN U = 1..(L + 1) /\ DOMAIN T = 1..L
      /\ \A i \in 1..L : U[i] = T[i] /\ i \in 1..(L + 1)
      /\ U[L + 1] = x /\ L + 1 \in 1..(L + 1)
      /\ \A i \in 1..(L + 1) : i \in 1..L \/ i = L + 1
  BY ItemAdded
<1>2. DOMAIN x.of = {1} /\ x.of[1] = n
  OBVIOUS
<1>3. \A i \in 1..L : T[i].kind \in K => \A k \in DOMAIN T[i].of : T[i].of[k] \in N
  BY <1>1 DEF GA!Shows
<1> HIDE DEF L
<1>4. \A i \in DOMAIN U : U[i].kind \in K => \A k \in DOMAIN U[i].of : U[i].of[k] \in N \cup {n}
  BY <1>1, <1>2, <1>3
<1>5. \A y \in N \cup {n} : \E i \in DOMAIN U : U[i].kind \in K /\ \E k \in DOMAIN U[i].of : U[i].of[k] = y
  <2>1. \A y \in N : \E i \in 1..L : T[i].kind \in K /\ \E k \in DOMAIN T[i].of : T[i].of[k] = y
    BY <1>1 DEF GA!Shows
  <2>2. \A y \in N : \E i \in DOMAIN U : U[i].kind \in K /\ \E k \in DOMAIN U[i].of : U[i].of[k] = y
    BY <1>1, <2>1
  <2>3. \E i \in DOMAIN U : U[i].kind \in K /\ \E k \in DOMAIN U[i].of : U[i].of[k] = n
    BY <1>1, <1>2
  <2>4. \A y \in N \cup {n} : y \in N \/ y = n
    OBVIOUS
  <2> QED BY ONLY <2>2, <2>3, <2>4
<1>6. ASSUME NEW i \in DOMAIN U, NEW j \in DOMAIN U, U[i].kind \in K, U[j].kind \in K,
             NEW k \in DOMAIN U[i].of, NEW l \in DOMAIN U[j].of, i < j \/ (i = j /\ k < l)
      PROVE  U[i].of[k] < U[j].of[l]
  <2>1. CASE i \in 1..L /\ j \in 1..L
    BY <1>1, <1>6, <2>1 DEF GA!Shows
  <2>2. CASE i \in 1..L /\ j = L + 1
    BY <1>1, <1>2, <1>3, <1>6, <2>2
  <2>3. CASE i = L + 1
    BY <1>1, <1>2, <1>6, <2>3
  <2> QED BY <1>1, <2>1, <2>2, <2>3
<1> QED BY <1>4, <1>5, <1>6 DEF GA!Shows

LEMMA ShowsSame ==
  ASSUME NEW T \in Seq(Items), NEW x \in Items, NEW U, U = Append(T, x),
         NEW K, NEW N \in SUBSET Nat, x.kind \notin K, GA!Shows(T, K, N)
  PROVE  GA!Shows(U, K, N)
<1> DEFINE L == Len(T)
<1>1. /\ L \in Nat /\ DOMAIN U = 1..(L + 1) /\ DOMAIN T = 1..L
      /\ \A i \in 1..L : U[i] = T[i] /\ i \in 1..(L + 1)
      /\ U[L + 1] = x
      /\ \A i \in 1..(L + 1) : i \in 1..L \/ i = L + 1
  BY ItemAdded
<1> HIDE DEF L
<1>2. \A i \in DOMAIN U : U[i].kind \in K => i \in DOMAIN T /\ U[i] = T[i]
  BY <1>1
<1>3. \A i \in DOMAIN T : i \in DOMAIN U /\ U[i] = T[i]
  BY <1>1
<1> QED BY <1>2, <1>3 DEF GA!Shows

\* Text joins the last item.
LEMMA ShowsJoined ==
  ASSUME NEW T, NEW U, NEW L \in Nat \ {0}, NEW w \in Seq(Nat), NEW v, NEW n \in Nat, v = Append(w, n),
         DOMAIN T = 1..L, DOMAIN U = 1..L, T[L].of = w, U[L].of = v, U[L].kind = T[L].kind,
         \A i \in 1..L : i # L => U[i] = T[i],
         NEW K, NEW N \in SUBSET Nat, T[L].kind \in K, GA!Shows(T, K, N), \A y \in N : y < n
  PROVE  GA!Shows(U, K, N \cup {n})
<1>1. w = T[L].of
  OBVIOUS
<1>3. L \in Nat /\ L \in 1..L /\ DOMAIN T = 1..L
  OBVIOUS
<1>4. /\ Len(w) \in Nat /\ DOMAIN w = 1..Len(w) /\ DOMAIN v = 1..(Len(w) + 1) /\ v \in Seq(Nat)
      /\ \A k \in 1..Len(w) : v[k] = w[k] /\ k \in 1..(Len(w) + 1)
      /\ v[Len(w) + 1] = n /\ Len(w) + 1 \in 1..(Len(w) + 1)
      /\ \A k \in 1..(Len(w) + 1) : k \in 1..Len(w) \/ k = Len(w) + 1
  OBVIOUS
<1>7. U[L].kind = T[L].kind /\ U[L].of = v
  OBVIOUS
<1>9. DOMAIN U = 1..L /\ \A i \in 1..L : i # L => U[i] = T[i]
  OBVIOUS
<1>10. \A i \in 1..L : U[i].kind = T[i].kind
  BY <1>7, <1>9
<1>11. \A i \in 1..L : T[i].kind \in K => \A k \in DOMAIN T[i].of : T[i].of[k] \in N
  BY <1>3 DEF GA!Shows
<1>12. T[L].kind \in K
  OBVIOUS
<1>13. \A i \in DOMAIN U : U[i].kind \in K => \A k \in DOMAIN U[i].of : U[i].of[k] \in N \cup {n}
  BY <1>1, <1>3, <1>4, <1>7, <1>9, <1>11, <1>12
<1>14. \A y \in N \cup {n} : \E i \in DOMAIN U : U[i].kind \in K /\ \E k \in DOMAIN U[i].of : U[i].of[k] = y
  <2>1. ASSUME NEW y \in N
        PROVE  \E i \in DOMAIN U : U[i].kind \in K /\ \E k \in DOMAIN U[i].of : U[i].of[k] = y
    <3>1. PICK i \in 1..L : T[i].kind \in K /\ \E k \in DOMAIN T[i].of : T[i].of[k] = y
      BY <1>3 DEF GA!Shows
    <3>2. PICK k \in DOMAIN T[i].of : T[i].of[k] = y
      BY <3>1
    <3>3. k \in DOMAIN U[i].of /\ U[i].of[k] = y
      BY <1>1, <1>4, <1>7, <1>9, <3>2
    <3>4. U[i].kind \in K
      BY <1>10, <3>1
    <3> QED BY <1>9, <3>3, <3>4
  <2>2. \E i \in DOMAIN U : U[i].kind \in K /\ \E k \in DOMAIN U[i].of : U[i].of[k] = n
    BY <1>3, <1>4, <1>7, <1>9, <1>12
  <2> QED BY <2>1, <2>2
<1>16. \A k, l \in 1..Len(w) : k < l => w[k] < w[l]
  <2>1. \A k, l \in DOMAIN T[L].of : k < l => T[L].of[k] < T[L].of[l]
    BY <1>3, <1>12 DEF GA!Shows
  <2> QED BY ONLY <1>1, <1>4, <2>1
<1>15. ASSUME NEW i \in DOMAIN U, NEW j \in DOMAIN U, U[i].kind \in K, U[j].kind \in K,
              NEW k \in DOMAIN U[i].of, NEW l \in DOMAIN U[j].of, i < j \/ (i = j /\ k < l)
       PROVE  U[i].of[k] < U[j].of[l]
  <2>0. i \in 1..L /\ j \in 1..L /\ T[i].kind \in K /\ T[j].kind \in K
    BY <1>9, <1>10, <1>15
  <2>1. CASE i # L
    <3>1. k \in DOMAIN T[i].of /\ U[i].of[k] = T[i].of[k] /\ T[i].of[k] \in N
      BY <1>9, <1>11, <2>0, <2>1
    <3>2. CASE j # L
      BY <1>3, <1>9, <1>15, <2>0, <3>1, <3>2 DEF GA!Shows
    <3>3. CASE j = L /\ l \in 1..Len(w)
      <4>1. l \in DOMAIN T[j].of /\ U[j].of[l] = T[j].of[l]
        BY <1>1, <1>4, <1>7, <1>9, <3>3
      <4> QED BY <1>3, <1>15, <2>0, <3>1, <4>1 DEF GA!Shows
    <3>4. CASE j = L /\ l = Len(w) + 1
      BY <1>4, <1>7, <1>9, <3>1, <3>4
    <3> QED BY <1>4, <1>7, <1>9, <1>15, <3>2, <3>3, <3>4
  <2>2. CASE i = L
    <3>a. ~(i < j)
      BY <1>3, <2>0, <2>2
    <3>1. j = L /\ k < l /\ k \in 1..(Len(w) + 1) /\ l \in 1..(Len(w) + 1)
      BY <1>4, <1>7, <1>15, <2>2, <3>a
    <3>b. k \in 1..Len(w)
      BY <1>4, <3>1
    <3>2. k \in 1..Len(w) /\ U[i].of[k] = w[k] /\ w[k] \in N
      BY <1>1, <1>4, <1>7, <1>11, <2>0, <2>2, <3>b
    <3>3. CASE l \in 1..Len(w)
      <4>1. U[j].of[l] = w[l] /\ w[k] < w[l]
        BY <1>4, <1>7, <1>16, <3>1, <3>b, <3>3
      <4> QED BY <3>2, <4>1
    <3>4. CASE l = Len(w) + 1
      BY <1>4, <1>7, <1>9, <3>1, <3>2, <3>4
    <3> QED BY <1>4, <3>1, <3>3, <3>4
  <2> QED BY <2>1, <2>2
<1> QED BY <1>13, <1>14, <1>15 DEF GA!Shows

Joins(us, ms, m) == us = Append(ms, m)

LEMMA NumbersMore ==
  ASSUME NEW ms \in Seq(Messages), NEW m \in Messages, NEW K, NEW us, Joins(us, ms, m),
         NEW N, N = GA!Numbers(ms, K), NEW n, n = m.n
  PROVE  /\ m.kind \in K => GA!Numbers(us, K) = N \cup {n}
         /\ m.kind \notin K => GA!Numbers(us, K) = N
<1> DEFINE L == Len(ms)
<1>1. /\ L \in Nat /\ DOMAIN us = 1..(L + 1) /\ DOMAIN ms = 1..L
      /\ \A i \in 1..L : us[i] = ms[i] /\ i \in 1..(L + 1)
      /\ us[L + 1] = m /\ L + 1 \in 1..(L + 1)
      /\ \A i \in 1..(L + 1) : i \in 1..L \/ i = L + 1
  BY DEF Joins
<1> HIDE DEF L
<1>2. /\ m.kind \in K => GA!Numbers(us, K) = GA!Numbers(ms, K) \cup {m.n}
      /\ m.kind \notin K => GA!Numbers(us, K) = GA!Numbers(ms, K)
  <2>1. \A y \in GA!Numbers(us, K) : y \in GA!Numbers(ms, K) \/ (m.kind \in K /\ y = m.n)
    BY <1>1 DEF GA!Numbers
  <2>2. \A y \in GA!Numbers(ms, K) : y \in GA!Numbers(us, K)
    BY <1>1 DEF GA!Numbers
  <2>3. m.kind \in K => m.n \in GA!Numbers(us, K)
    BY <1>1 DEF GA!Numbers
  <2> QED BY <2>1, <2>2, <2>3
<1> QED BY <1>2

\* The rules of Google Assistant. A caption is followed by its image, and each
\* item but a caption shows a message.
Ruled(B) ==
  /\ \A i \in DOMAIN B : /\ B[i].kind \in Shown \cup {"caption"} /\ B[i].of # <<>>
                         /\ B[i].kind = "image" => i > 1 /\ GA!IsBubble(B[i - 1])
  /\ \A i \in 2..Len(B) : ~(GA!IsBubble(B[i]) /\ GA!IsBubble(B[i - 1]))
Captioned(B) == \A i \in DOMAIN B : B[i].kind = "caption" => i < Len(B)
BufferOK(B, N) ==
  /\ B \in Seq(Items) /\ Ruled(B) /\ Captioned(B) /\ GA!Shows(B, Shown, N)

LEMMA ItemIs ==
  ASSUME NEW type \in {"bubble", "caption", "image", "rdl", "link"}, NEW n \in Nat,
         NEW x, x = GA!Item(type, n)
  PROVE  /\ x \in Items /\ x.kind = type /\ x.of = <<n>> /\ x.of # <<>>
         /\ type = "caption" \/ type \in Shown
BY DEF GA!Item, Items, Shown

LEMMA RuledMore ==
  ASSUME NEW T \in Seq(Items), NEW x \in Items, NEW U, U = Append(T, x), Ruled(T),
         x.kind \in Shown \cup {"caption"}, x.of # <<>>,
         x.kind = "image" => T # <<>> /\ GA!IsBubble(T[Len(T)]),
         GA!IsBubble(x) => ~GA!EndsInText(T)
  PROVE  Ruled(U)
<1> DEFINE L == Len(T)
<1>1. /\ L \in Nat /\ DOMAIN U = 1..(L + 1) /\ DOMAIN T = 1..L /\ Len(U) = L + 1
      /\ \A i \in 1..L : U[i] = T[i]
      /\ U[L + 1] = x
      /\ \A i \in 1..(L + 1) : i \in 1..L \/ i = L + 1
  BY ItemAdded
<1>2. GA!EndsInText(T) <=> L # 0 /\ GA!IsBubble(T[L])
  BY DEF GA!EndsInText, GA!Last
<1>3. x.kind = "image" => L # 0 /\ GA!IsBubble(T[L])
  OBVIOUS
<1> HIDE DEF L
<1>4. ASSUME NEW i \in DOMAIN U
      PROVE  /\ U[i].kind \in Shown \cup {"caption"} /\ U[i].of # <<>>
             /\ U[i].kind = "image" => i > 1 /\ GA!IsBubble(U[i - 1])
  <2>1. CASE i \in 1..L
    <3>1. /\ U[i] = T[i] /\ T[i].kind \in Shown \cup {"caption"} /\ T[i].of # <<>>
          /\ T[i].kind = "image" => i > 1 /\ GA!IsBubble(T[i - 1])
      BY <1>1, <2>1 DEF Ruled
    <3>2. i > 1 => i - 1 \in 1..L
      BY <1>1, <2>1
    <3>3. i > 1 => U[i - 1] = T[i - 1]
      BY <1>1, <3>2
    <3> QED BY <3>1, <3>3
  <2>2. CASE i = L + 1
    <3>1. U[i] = x /\ (L # 0 => i > 1 /\ U[i - 1] = T[L])
      BY <1>1, <2>2
    <3> QED BY <1>3, <3>1
  <2> QED BY <1>1, <2>1, <2>2
<1>5. ASSUME NEW i \in 2..Len(U) PROVE ~(GA!IsBubble(U[i]) /\ GA!IsBubble(U[i - 1]))
  <2>1. CASE i \in 1..L
    <3>1. i - 1 \in 1..L /\ i \in 2..Len(T)
      BY <1>1, <1>5, <2>1 DEF L
    <3>2. U[i] = T[i] /\ U[i - 1] = T[i - 1]
      BY <1>1, <2>1, <3>1
    <3> QED BY <3>1, <3>2 DEF Ruled
  <2>2. CASE i = L + 1
    <3>1. U[i] = x /\ U[i - 1] = T[L] /\ L # 0
      BY <1>1, <1>5, <2>2
    <3> QED BY <1>2, <3>1
  <2> QED BY <1>1, <1>5, <2>1, <2>2
<1> QED BY <1>4, <1>5 DEF Ruled

LEMMA ItemKeepsBuffer ==
  ASSUME NEW T, NEW N \in SUBSET Nat, BufferOK(T, N), NEW n \in Nat, \A y \in N : y < n,
         NEW type \in Shown, NEW U, U = Append(T, GA!Item(type, n)),
         type = "image" => T # <<>> /\ GA!IsBubble(T[Len(T)]),
         type = "bubble" => ~GA!EndsInText(T)
  PROVE  BufferOK(U, N \cup {n})
<1>1. PICK x : x = GA!Item(type, n)
  OBVIOUS
<1>2. /\ T \in Seq(Items) /\ Ruled(T) /\ Captioned(T) /\ GA!Shows(T, Shown, N)
  BY DEF BufferOK
<1>3. x \in Items /\ x.kind = type /\ x.of = <<n>> /\ x.of # <<>>
  BY <1>1, ItemIs DEF Shown
<1>4. GA!IsBubble(x) <=> type = "bubble"
  BY <1>3 DEF GA!IsBubble, Shown
<1>5. U = Append(T, x)
  BY <1>1
<1>6. Ruled(U)
  BY <1>2, <1>3, <1>4, <1>5, RuledMore
<1>7. GA!Shows(U, Shown, N \cup {n})
  BY <1>2, <1>3, <1>5, ShowsMore
<1>8. U \in Seq(Items) /\ Captioned(U)
  <2>1. x.kind # "caption"
    BY <1>3 DEF Shown
  <2>2. PICK L \in Nat : L = Len(T)
    BY <1>2
  <2>3. /\ U \in Seq(Items) /\ Len(U) = L + 1 /\ DOMAIN U = 1..(L + 1) /\ DOMAIN T = 1..L
        /\ \A i \in 1..L : U[i] = T[i] /\ U[L + 1] = x
        /\ \A i \in DOMAIN U : i \in 1..L \/ i = L + 1
    BY <1>2, <1>3, <1>5, <2>2, ItemAdded
  <2>4. \A i \in 1..L : T[i].kind = "caption" => i < L
    BY <1>2, <2>2, <2>3 DEF Captioned
  <2>5. U[L + 1] = x
    BY <1>2, <1>3, <1>5, <2>2, ItemAdded
  <2> QED BY <2>1, <2>2, <2>3, <2>4, <2>5 DEF Captioned
<1> QED BY <1>6, <1>7, <1>8 DEF BufferOK

LEMMA TextKeepsBuffer ==
  ASSUME NEW T, NEW N \in SUBSET Nat, BufferOK(T, N), NEW n \in Nat, \A y \in N : y < n
  PROVE  BufferOK(GA!AddText(T, n), N \cup {n})
<1>1. CASE ~GA!EndsInText(T)
  <2>1. GA!AddText(T, n) = Append(T, GA!Item("bubble", n))
    BY <1>1 DEF GA!AddText
  <2>2. "bubble" \in Shown
    BY DEF Shown
  <2> QED BY <1>1, <2>1, <2>2, ItemKeepsBuffer
<1>2. CASE GA!EndsInText(T)
  <2>1. PICK U : U = [T EXCEPT ![Len(T)].of = Append(@, n)]
    OBVIOUS
  <2>2. U = GA!AddText(T, n)
    BY <1>2, <2>1 DEF GA!AddText
  <2>3. /\ T \in Seq(Items) /\ T # <<>> /\ GA!IsBubble(T[Len(T)])
        /\ Ruled(T) /\ Captioned(T) /\ GA!Shows(T, Shown, N)
    BY <1>2 DEF GA!EndsInText, GA!Last, BufferOK
  <2>a. PICK L : L = Len(T)
    OBVIOUS
  <2>b. PICK w : w = T[L].of
    OBVIOUS
  <2>c. w \in Seq(Nat)
    <3>1. L \in DOMAIN T
      BY <2>3, <2>a
    <3>2. T[L] \in Items
      BY <2>3, <3>1
    <3> QED BY <2>b, <3>2 DEF Items
  <2>d. PICK v : v = Append(w, n)
    OBVIOUS
  <2>e. v \in Seq(Nat) /\ v # <<>>
    BY <2>c, <2>d
  <2>f. PICK x : x = [T[L] EXCEPT !.of = v]
    OBVIOUS
  <2>g. U = [T EXCEPT ![L] = x]
    BY <2>1, <2>a, <2>b, <2>d, <2>f
  <2>h. /\ L \in Nat \ {0} /\ U \in Seq(Items) /\ Len(U) = L
        /\ DOMAIN T = 1..L /\ DOMAIN U = 1..L /\ U[L].of = v /\ U[L].kind = T[L].kind
        /\ \A i \in 1..L : i # L => U[i] = T[i]
    <3>1. T \in Seq(Items) /\ L \in Nat \ {0} /\ DOMAIN T = 1..L /\ L \in 1..L
      BY <2>3, <2>a
    <3>2. PICK y : y = T[L]
      OBVIOUS
    <3>3. y \in Items
      BY <3>1, <3>2
    <3>4. x \in Items /\ x.kind = y.kind /\ x.of = v
      BY ONLY <2>e, <2>f, <3>2, <3>3 DEF Items
    <3>5. U \in Seq(Items) /\ Len(U) = L
      BY ONLY <2>a, <2>g, <3>1, <3>4
    <3>6. DOMAIN U = 1..L /\ U[L] = x /\ \A i \in 1..L : i # L => U[i] = T[i]
      BY ONLY <2>g, <3>1
    <3> QED BY ONLY <3>1, <3>2, <3>4, <3>5, <3>6
  <2>4. /\ L \in Nat \ {0} /\ w \in Seq(Nat)
        /\ L = Len(T) /\ Len(U) = L /\ U \in Seq(Items) /\ U[L].of # <<>>
        /\ DOMAIN T = 1..L /\ DOMAIN U = 1..L
        /\ T[L].of = w /\ U[L].of = v /\ U[L].kind = T[L].kind
        /\ \A i \in 1..L : i # L => U[i] = T[i]
    BY <2>a, <2>b, <2>c, <2>e, <2>h
  <2>5. T[L].kind = "bubble"
    <3>1. L \in DOMAIN T
      BY <2>4
    <3>2. T[L].kind # "caption"
      BY <2>3, <2>4, <3>1 DEF Captioned
    <3> QED BY <2>3, <2>4, <3>2 DEF GA!IsBubble
  <2>6. T[L].kind \in Shown
    BY <2>5 DEF Shown
  <2>7. GA!Shows(U, Shown, N \cup {n})
    BY ONLY <2>3, <2>4, <2>6, <2>d, n \in Nat, N \in SUBSET Nat, \A y \in N : y < n, ShowsJoined
  <2>8. \A i \in 1..L : U[i].kind = T[i].kind
    BY <2>4
  <2>9. \A i \in 1..L : T[i].of # <<>> => U[i].of # <<>>
    BY <2>4
  <2>10. Ruled(U)
    <3>1. \A i \in 1..L : GA!IsBubble(U[i]) <=> GA!IsBubble(T[i])
      BY <2>8 DEF GA!IsBubble
    <3>2. \A i \in 1..L : i > 1 => i - 1 \in 1..L
      BY <2>4
    <3>3. \A i \in 2..L : i \in 1..L /\ i - 1 \in 1..L
      BY <2>4
    <3>4. \A i \in 1..L : /\ U[i].kind \in Shown \cup {"caption"} /\ U[i].of # <<>>
                          /\ U[i].kind = "image" => i > 1 /\ GA!IsBubble(U[i - 1])
      BY <2>3, <2>4, <2>8, <2>9, <3>1, <3>2 DEF Ruled
    <3>5. \A i \in 2..L : ~(GA!IsBubble(U[i]) /\ GA!IsBubble(U[i - 1]))
      BY <2>3, <2>4, <3>1, <3>3 DEF Ruled
    <3> QED BY <2>4, <3>4, <3>5 DEF Ruled
  <2>11. Captioned(U)
    BY <2>3, <2>4, <2>8 DEF Captioned
  <2> QED BY <2>2, <2>4, <2>7, <2>10, <2>11 DEF BufferOK
<1> QED BY <1>1, <1>2

LEMMA PictureKeepsBuffer ==
  ASSUME NEW T, NEW N \in SUBSET Nat, BufferOK(T, N), NEW n \in Nat, \A y \in N : y < n
  PROVE  BufferOK(GA!AddPicture(T, n), N \cup {n})
<1>0. /\ T \in Seq(Items) /\ Ruled(T) /\ Captioned(T) /\ GA!Shows(T, Shown, N)
  BY DEF BufferOK
<1>a. "image" \in Shown
  BY DEF Shown
<1>b. PICK x : x = GA!Item("image", n)
  OBVIOUS
<1>c. x \in Items /\ x.kind = "image" /\ x.of = <<n>> /\ x.of # <<>>
  BY <1>b, ItemIs
<1>1. CASE GA!EndsInText(T)
  <2>1. T \o <<x>> = Append(T, x)
    BY <1>0, <1>c
  <2>2. GA!AddPicture(T, n) = Append(T, GA!Item("image", n))
    BY <1>1, <1>b, <2>1 DEF GA!AddPicture
  <2>3. T # <<>> /\ GA!IsBubble(T[Len(T)])
    BY <1>1 DEF GA!EndsInText, GA!Last
  <2> QED BY <1>a, <2>2, <2>3, ItemKeepsBuffer
<1>2. CASE ~GA!EndsInText(T)
  <2>1. PICK y : y = GA!Item("caption", n)
    OBVIOUS
  <2>2. y \in Items /\ y.kind = "caption" /\ y.of = <<n>> /\ y.of # <<>>
    BY <2>1, ItemIs
  <2>3. PICK V : V = Append(T, y)
    OBVIOUS
  <2>4. PICK L \in Nat : L = Len(T)
    BY <1>0
  <2>5. /\ V \in Seq(Items) /\ Len(V) = L + 1 /\ DOMAIN V = 1..(L + 1) /\ DOMAIN T = 1..L
        /\ \A i \in 1..L : V[i] = T[i]
        /\ V[L + 1] = y
        /\ \A i \in DOMAIN V : i \in 1..L \/ i = L + 1
    BY <1>0, <2>2, <2>3, <2>4, ItemAdded
  <2>6. PICK U : U = Append(V, x)
    OBVIOUS
  <2>7. GA!AddPicture(T, n) = U
    <3>1. V \o <<x>> = Append(V, x)
      BY <1>c, <2>5
    <3> QED BY <1>2, <1>b, <2>1, <2>3, <2>6, <3>1 DEF GA!AddPicture
  <2>8. Ruled(V)
    BY <1>0, <1>2, <2>2, <2>3, RuledMore
  <2>9. GA!Shows(V, Shown, N)
    <3>1. y.kind \notin Shown
      BY <2>2 DEF Shown
    <3> QED BY <1>0, <2>2, <2>3, <3>1, ShowsSame
  <2>10. Ruled(U)
    <3>1. V # <<>> /\ GA!IsBubble(V[Len(V)])
      BY <2>2, <2>5 DEF GA!IsBubble
    <3>2. ~GA!IsBubble(x)
      BY <1>c DEF GA!IsBubble
    <3> QED BY <1>a, <1>c, <2>5, <2>6, <2>8, <3>1, <3>2, RuledMore
  <2>11. GA!Shows(U, Shown, N \cup {n})
    <3>1. V \in Seq(Items) /\ x \in Items /\ x.kind \in Shown /\ x.of = <<n>>
      BY <1>a, <1>c, <2>5
    <3> QED BY ONLY <2>6, <2>9, <3>1, n \in Nat, N \in SUBSET Nat, \A z \in N : z < n, ShowsMore
  <2>12. PICK M \in Nat : M = Len(V)
    BY <2>5
  <2>13. /\ U \in Seq(Items) /\ Len(U) = M + 1 /\ DOMAIN U = 1..(M + 1) /\ DOMAIN V = 1..M
         /\ U[M + 1] = x
         /\ \A i \in DOMAIN U : i \in 1..M \/ i = M + 1
    BY <1>c, <2>5, <2>6, <2>12, ItemAdded
  <2>14. Captioned(U)
    BY <1>c, <2>13 DEF Captioned
  <2> QED BY <2>7, <2>10, <2>11, <2>13, <2>14 DEF BufferOK
<1> QED BY <1>1, <1>2

\* The buttons of a delegate, in order.
Suggested(S, N) ==
  /\ S \in Seq(Nat)
  /\ \A i \in DOMAIN S : S[i] \in N
  /\ \A y \in N : \E i \in DOMAIN S : S[i] = y
  /\ \A i, j \in DOMAIN S : i < j => S[i] < S[j]
\* A delegate holds what its engine said.
Delegates == [buffer : Seq(Items), suggestions : Seq(Nat), signin : BOOLEAN]
Sound(d, ms, c) ==
  /\ d \in Delegates /\ ms \in Seq(Messages)
  /\ \A i \in DOMAIN ms : ms[i].n <= c
  /\ BufferOK(d.buffer, GA!Numbers(ms, Visible))
  /\ Suggested(d.suggestions, GA!Numbers(ms, {"button"}))

LEMMA SuggestsMore ==
  ASSUME NEW S, NEW N \in SUBSET Nat, Suggested(S, N), NEW n \in Nat, \A y \in N : y < n
  PROVE  Suggested(Append(S, n), N \cup {n})
<1> DEFINE U == Append(S, n)
           L == Len(S)
<1>1. /\ L \in Nat /\ U \in Seq(Nat) /\ DOMAIN U = 1..(L + 1) /\ DOMAIN S = 1..L
      /\ \A i \in 1..L : U[i] = S[i] /\ i \in 1..(L + 1)
      /\ U[L + 1] = n /\ L + 1 \in 1..(L + 1)
      /\ \A i \in 1..(L + 1) : i \in 1..L \/ i = L + 1
  BY DEF Suggested
<1> HIDE DEF U, L
<1>2. \A i \in 1..L : S[i] \in N
  BY <1>1 DEF Suggested
<1>3. \A i \in DOMAIN U : U[i] \in N \cup {n}
  BY <1>1, <1>2
<1>4. \A y \in N \cup {n} : \E i \in DOMAIN U : U[i] = y
  <2>1. \A y \in N : \E i \in 1..L : S[i] = y
    BY <1>1 DEF Suggested
  <2>2. \A y \in N : \E i \in DOMAIN U : U[i] = y
    BY <1>1, <2>1
  <2>3. \E i \in DOMAIN U : U[i] = n
    BY <1>1
  <2> QED BY <2>2, <2>3
<1>5. \A i, j \in DOMAIN U : i < j => U[i] < U[j]
  <2> SUFFICES ASSUME NEW i \in DOMAIN U, NEW j \in DOMAIN U, i < j PROVE U[i] < U[j]
    OBVIOUS
  <2>1. i \in 1..L
    BY <1>1
  <2>2. CASE j \in 1..L
    BY <1>1, <2>1, <2>2 DEF Suggested
  <2>3. CASE j = L + 1
    BY <1>1, <1>2, <2>1, <2>3
  <2> QED BY <1>1, <2>2, <2>3
<1>6. Suggested(U, N \cup {n})
  BY <1>1, <1>3, <1>4, <1>5 DEF Suggested
<1> QED BY <1>6 DEF U

LEMMA NumbersBound ==
  ASSUME NEW ms \in Seq(Messages), NEW c \in Nat, \A i \in DOMAIN ms : ms[i].n <= c, NEW K
  PROVE  GA!Numbers(ms, K) \in SUBSET Nat /\ \A y \in GA!Numbers(ms, K) : y < c + 1
<1>1. \A i \in DOMAIN ms : ms[i].n \in Nat
  <2>1. \A i \in DOMAIN ms : ms[i] \in Messages
    OBVIOUS
  <2> QED BY <2>1 DEF Messages
<1> QED BY <1>1 DEF GA!Numbers

LEMMA MessageKept ==
  ASSUME NEW d, NEW ms, NEW c \in Nat, Sound(d, ms, c), NEW type \in GA!Kinds,
         NEW m, m = [n |-> c + 1, kind |-> type]
  PROVE  Sound(GA!AddMessage(d, m), Append(ms, m), c + 1)
<1>1. PICK n \in Nat : n = c + 1
  OBVIOUS
<1>2. m \in Messages /\ m.n = n /\ m.kind = type
  BY <1>1 DEF Messages
<1>3. PICK us : us = Append(ms, m)
  OBVIOUS
<1>4. PICK A : A = GA!Numbers(ms, Visible)
  OBVIOUS
<1>5. PICK B : B = GA!Numbers(ms, {"button"})
  OBVIOUS
<1>6. /\ d \in Delegates /\ ms \in Seq(Messages) /\ BufferOK(d.buffer, A) /\ Suggested(d.suggestions, B)
      /\ \A i \in DOMAIN ms : ms[i].n <= c
  BY <1>4, <1>5 DEF Sound
<1>7. /\ A \in SUBSET Nat /\ \A y \in A : y < n
      /\ B \in SUBSET Nat /\ \A y \in B : y < n
  BY <1>1, <1>4, <1>5, <1>6, NumbersBound
<1>8. GA!Numbers(us, Visible) = IF type \in Visible THEN A \cup {n} ELSE A
  <2>a. Joins(us, ms, m)
    BY <1>3 DEF Joins
  <2>0. ms \in Seq(Messages) /\ m \in Messages
    BY <1>2, <1>6
  <2>1. /\ m.kind \in Visible => GA!Numbers(us, Visible) = A \cup {n}
        /\ m.kind \notin Visible => GA!Numbers(us, Visible) = A
    BY ONLY <1>2, <1>4, <2>0, <2>a, NumbersMore
  <2> QED BY ONLY <1>2, <1>4, <2>1
<1>9. GA!Numbers(us, {"button"}) = IF type = "button" THEN B \cup {n} ELSE B
  <2>a. Joins(us, ms, m)
    BY <1>3 DEF Joins
  <2>0. ms \in Seq(Messages) /\ m \in Messages
    BY <1>2, <1>6
  <2>1. /\ m.kind \in {"button"} => GA!Numbers(us, {"button"}) = B \cup {n}
        /\ m.kind \notin {"button"} => GA!Numbers(us, {"button"}) = B
    BY ONLY <1>2, <1>5, <2>0, <2>a, NumbersMore
  <2> QED BY ONLY <1>2, <1>5, <2>1
<1>10. us \in Seq(Messages) /\ \A i \in DOMAIN us : us[i].n <= c + 1
  <2>1. /\ us \in Seq(Messages) /\ DOMAIN us = 1..(Len(ms) + 1) /\ DOMAIN ms = 1..Len(ms) /\ Len(ms) \in Nat
        /\ \A i \in 1..Len(ms) : us[i] = ms[i]
        /\ us[Len(ms) + 1] = m
        /\ \A i \in 1..(Len(ms) + 1) : i \in 1..Len(ms) \/ i = Len(ms) + 1
    BY <1>2, <1>3, <1>6
  <2>2. \A i \in 1..Len(ms) : ms[i].n \in Nat /\ ms[i].n <= c
    <3>1. \A i \in 1..Len(ms) : ms[i] \in Messages
      BY <1>6, <2>1
    <3> QED BY <1>6, <2>1, <3>1 DEF Messages
  <2> QED BY <1>1, <1>2, <2>1, <2>2
<1>11. PICK r : r = GA!AddMessage(d, m)
  OBVIOUS
<1>12. /\ d.buffer \in Seq(Items) /\ d.suggestions \in Seq(Nat) /\ d.signin \in BOOLEAN
       /\ d = [buffer |-> d.buffer, suggestions |-> d.suggestions, signin |-> d.signin]
  BY <1>6 DEF Delegates
<1>13. ASSUME NEW b, NEW s, r.buffer = b, r.suggestions = s, r \in Delegates,
              BufferOK(b, GA!Numbers(us, Visible)), Suggested(s, GA!Numbers(us, {"button"}))
       PROVE  Sound(r, us, c + 1)
  BY <1>10, <1>13 DEF Sound
<1>14. CASE type \in GA!Texts
  <2>1. PICK b : b = GA!AddText(d.buffer, n)
    OBVIOUS
  <2>2. BufferOK(b, A \cup {n})
    BY <1>6, <1>7, <2>1, TextKeepsBuffer
  <2>3. r = [d EXCEPT !.buffer = b]
    BY <1>2, <1>11, <1>14, <2>1 DEF GA!AddMessage, GA!Texts
  <2>4. b \in Seq(Items)
    BY <2>2 DEF BufferOK
  <2>5. r.buffer = b /\ r.suggestions = d.suggestions /\ r \in Delegates
    BY <1>6, <2>3, <2>4 DEF Delegates
  <2>6. type \in Visible /\ type # "button"
    BY <1>14 DEF Visible, GA!Texts
  <2> QED BY <1>3, <1>6, <1>8, <1>9, <1>11, <1>13, <2>2, <2>5, <2>6
<1>15. CASE type = "picture"
  <2>1. PICK b : b = GA!AddPicture(d.buffer, n)
    OBVIOUS
  <2>2. BufferOK(b, A \cup {n})
    BY <1>6, <1>7, <2>1, PictureKeepsBuffer
  <2>3. r = [d EXCEPT !.buffer = b]
    BY <1>2, <1>11, <1>15, <2>1 DEF GA!AddMessage, GA!Texts
  <2>4. b \in Seq(Items)
    BY <2>2 DEF BufferOK
  <2>5. r.buffer = b /\ r.suggestions = d.suggestions /\ r \in Delegates
    BY <1>6, <2>3, <2>4 DEF Delegates
  <2>6. type \in Visible /\ type # "button"
    BY <1>15 DEF Visible, GA!Texts
  <2> QED BY <1>3, <1>6, <1>8, <1>9, <1>11, <1>13, <2>2, <2>5, <2>6
<1>16. CASE type \in {"rdl", "link"}
  <2>1. PICK b : b = Append(d.buffer, GA!Item(type, n))
    OBVIOUS
  <2>0. type \in Shown /\ type # "image" /\ type # "bubble"
    BY <1>16 DEF Shown
  <2>2. BufferOK(b, A \cup {n})
    BY <1>6, <1>7, <2>0, <2>1, ItemKeepsBuffer
  <2>3. r = [d EXCEPT !.buffer = b]
    BY <1>2, <1>11, <1>16, <2>1 DEF GA!AddMessage, GA!Texts
  <2>4. b \in Seq(Items)
    BY <2>2 DEF BufferOK
  <2>5. r.buffer = b /\ r.suggestions = d.suggestions /\ r \in Delegates
    BY <1>6, <2>3, <2>4 DEF Delegates
  <2>6. type \in Visible /\ type # "button"
    BY <1>16 DEF Visible, GA!Texts
  <2> QED BY <1>3, <1>6, <1>8, <1>9, <1>11, <1>13, <2>2, <2>5, <2>6
<1>17. CASE type \in {"register", "longButton"}
  <2>1. r = d \/ r = [d EXCEPT !.signin = TRUE]
    BY <1>2, <1>11, <1>17 DEF GA!AddMessage, GA!Texts
  <2>2. r.buffer = d.buffer /\ r.suggestions = d.suggestions /\ r \in Delegates
    BY <1>6, <2>1 DEF Delegates
  <2>3. type \notin Visible /\ type # "button"
    BY <1>17 DEF Visible, GA!Texts
  <2> QED BY <1>3, <1>6, <1>8, <1>9, <1>11, <1>13, <2>2, <2>3
<1>18. CASE type = "button"
  <2>1. PICK s : s = Append(d.suggestions, n)
    OBVIOUS
  <2>2. Suggested(s, B \cup {n})
    BY <1>6, <1>7, <2>1, SuggestsMore
  <2>3. r = [d EXCEPT !.suggestions = s]
    BY <1>2, <1>11, <1>18, <2>1 DEF GA!AddMessage, GA!Texts
  <2>4. s \in Seq(Nat)
    BY <2>2 DEF Suggested
  <2>5. r.buffer = d.buffer /\ r.suggestions = s /\ r \in Delegates
    BY <1>6, <2>3, <2>4 DEF Delegates
  <2>6. type \notin Visible
    BY <1>18 DEF Visible, GA!Texts
  <2> QED BY <1>3, <1>6, <1>8, <1>9, <1>11, <1>13, <1>18, <2>2, <2>5, <2>6
<1> QED BY <1>14, <1>15, <1>16, <1>17, <1>18 DEF GA!Kinds

\* What ReplyFaithful says of one reply.
Faithful(r, shown, buttons) ==
  /\ GA!Shows(r, Shown, shown)
  /\ GA!Shows(r, {"suggestions"}, buttons)
  /\ \A i \in DOMAIN r : r[i].kind = "image" => i > 1 /\ GA!IsBubble(r[i - 1])
  /\ \A i \in 2..Len(r) : ~(GA!IsBubble(r[i]) /\ GA!IsBubble(r[i - 1]))
  /\ (\E i \in DOMAIN r : r[i].kind = "close") <=> shown \cup buttons = {}
\* The same of what is shown before the end is.
Complete(T, shown, buttons) ==
  /\ T \in Seq(Items)
  /\ GA!Shows(T, Shown, shown)
  /\ GA!Shows(T, {"suggestions"}, buttons)
  /\ \A i \in DOMAIN T : T[i].kind = "image" => i > 1 /\ GA!IsBubble(T[i - 1])
  /\ \A i \in 2..Len(T) : ~(GA!IsBubble(T[i]) /\ GA!IsBubble(T[i - 1]))
  /\ \A i \in DOMAIN T : T[i].kind # "close"
  /\ T = <<>> <=> shown \cup buttons = {}

\* An item that is neither a bubble nor an image breaks no rule.
LEMMA OtherItem ==
  ASSUME NEW T \in Seq(Items), NEW x \in Items, NEW U, U = Append(T, x),
         ~GA!IsBubble(x), x.kind # "image",
         \A i \in DOMAIN T : T[i].kind = "image" => i > 1 /\ GA!IsBubble(T[i - 1]),
         \A i \in 2..Len(T) : ~(GA!IsBubble(T[i]) /\ GA!IsBubble(T[i - 1]))
  PROVE  /\ U \in Seq(Items) /\ U # <<>>
         /\ \A i \in DOMAIN U : U[i].kind = "image" => i > 1 /\ GA!IsBubble(U[i - 1])
         /\ \A i \in 2..Len(U) : ~(GA!IsBubble(U[i]) /\ GA!IsBubble(U[i - 1]))
         /\ \A k : x.kind # k /\ (\A i \in DOMAIN T : T[i].kind # k) => \A i \in DOMAIN U : U[i].kind # k
<1>1. PICK L : L = Len(T)
  OBVIOUS
<1>2. /\ L \in Nat /\ U \in Seq(Items) /\ DOMAIN U = 1..(L + 1) /\ DOMAIN T = 1..L /\ Len(U) = L + 1
      /\ \A i \in 1..L : U[i] = T[i]
      /\ U[L + 1] = x
      /\ \A i \in 1..(L + 1) : i \in 1..L \/ i = L + 1
  BY <1>1, ItemAdded
<1>3. ASSUME NEW i \in DOMAIN U, U[i].kind = "image" PROVE i > 1 /\ GA!IsBubble(U[i - 1])
  <2>1. i \in 1..L /\ U[i] = T[i]
    BY <1>2, <1>3
  <2>2. i > 1 /\ GA!IsBubble(T[i - 1])
    BY <1>2, <1>3, <2>1
  <2>3. i - 1 \in 1..L
    BY <1>2, <2>1, <2>2
  <2> QED BY <1>2, <2>2, <2>3
<1>4. ASSUME NEW i \in 2..Len(U) PROVE ~(GA!IsBubble(U[i]) /\ GA!IsBubble(U[i - 1]))
  <2>1. CASE i \in 1..L
    <3>1. i - 1 \in 1..L /\ i \in 2..Len(T)
      BY <1>1, <1>2, <1>4, <2>1
    <3>2. U[i] = T[i] /\ U[i - 1] = T[i - 1]
      BY <1>2, <2>1, <3>1
    <3> QED BY <3>1, <3>2
  <2>2. CASE i = L + 1
    BY <1>2, <2>2
  <2> QED BY <1>2, <1>4, <2>1, <2>2
<1>5. ASSUME NEW k, x.kind # k, \A i \in DOMAIN T : T[i].kind # k, NEW i \in DOMAIN U
      PROVE  U[i].kind # k
  BY <1>2, <1>5
<1>6. U # <<>>
  BY <1>2
<1> QED BY <1>2, <1>3, <1>4, <1>5, <1>6

LEMMA BufferComplete ==
  ASSUME NEW T, NEW N, BufferOK(T, N)
  PROVE  Complete(T, N, {})
<1>1. T \in Seq(Items) /\ Ruled(T) /\ Captioned(T) /\ GA!Shows(T, Shown, N)
  BY DEF BufferOK
<1>2. \A i \in DOMAIN T : T[i].kind # "suggestions" /\ T[i].kind # "close"
  BY <1>1 DEF Ruled, Shown
<1>3. GA!Shows(T, {"suggestions"}, {})
  BY <1>2 DEF GA!Shows
<1>4. CASE T = <<>>
  <2>1. DOMAIN T = {}
    BY <1>4
  <2>2. N = {}
    BY <1>1, <2>1 DEF GA!Shows
  <2> QED BY <1>1, <1>2, <1>3, <1>4, <2>2 DEF Complete, Ruled
<1>5. CASE T # <<>>
  <2>1. PICK L : L = Len(T)
    OBVIOUS
  <2>2. L \in DOMAIN T
    BY <1>1, <1>5, <2>1
  <2>3. T[L].kind # "caption"
    BY <1>1, <2>1, <2>2 DEF Captioned
  <2>4. T[L].kind \in Shown /\ T[L].of # <<>> /\ T[L] \in Items
    BY <1>1, <2>2, <2>3 DEF Ruled
  <2>5. PICK w : w = T[L].of
    OBVIOUS
  <2>6. w \in Seq(Nat) /\ w # <<>>
    BY <2>4, <2>5 DEF Items
  <2>7. 1 \in DOMAIN w
    BY <2>6
  <2>8. w[1] \in N
    BY <1>1, <2>2, <2>4, <2>5, <2>7 DEF GA!Shows
  <2> QED BY <1>1, <1>2, <1>3, <1>5, <2>8 DEF Complete, Ruled
<1> QED BY <1>4, <1>5

LEMMA SuggestionsComplete ==
  ASSUME NEW T, NEW A, Complete(T, A, {}), NEW S, NEW B, Suggested(S, B), S # <<>>,
         A \in SUBSET Nat, NEW x, x = [kind |-> "suggestions", of |-> S]
  PROVE  Complete(Append(T, x), A, B)
<1>0. PICK U : U = Append(T, x)
  OBVIOUS
<1>1. S \in Seq(Nat) /\ x \in Items /\ x.kind = "suggestions" /\ x.of = S
  BY DEF Suggested, Items
<1>2. /\ T \in Seq(Items) /\ GA!Shows(T, Shown, A) /\ GA!Shows(T, {"suggestions"}, {})
      /\ \A i \in DOMAIN T : T[i].kind = "image" => i > 1 /\ GA!IsBubble(T[i - 1])
      /\ \A i \in 2..Len(T) : ~(GA!IsBubble(T[i]) /\ GA!IsBubble(T[i - 1]))
      /\ \A i \in DOMAIN T : T[i].kind # "close"
  BY DEF Complete
<1>3. x.kind \notin Shown /\ ~GA!IsBubble(x) /\ x.kind # "image" /\ x.kind # "close"
  BY <1>1 DEF Shown, GA!IsBubble
<1>4. GA!Shows(U, Shown, A)
  BY <1>0, <1>1, <1>2, <1>3, ShowsSame
<1>5. /\ U \in Seq(Items) /\ U # <<>>
      /\ \A i \in DOMAIN U : U[i].kind = "image" => i > 1 /\ GA!IsBubble(U[i - 1])
      /\ \A i \in 2..Len(U) : ~(GA!IsBubble(U[i]) /\ GA!IsBubble(U[i - 1]))
      /\ \A i \in DOMAIN U : U[i].kind # "close"
  BY <1>0, <1>1, <1>2, <1>3, OtherItem
<1>6. PICK L : L = Len(T)
  OBVIOUS
<1>7. /\ L \in Nat /\ DOMAIN U = 1..(L + 1) /\ DOMAIN T = 1..L /\ L + 1 \in 1..(L + 1)
      /\ \A i \in 1..L : U[i] = T[i]
      /\ U[L + 1] = x
      /\ \A i \in 1..(L + 1) : i \in 1..L \/ i = L + 1
  BY <1>0, <1>1, <1>2, <1>6, ItemAdded
<1>8. GA!Shows(U, {"suggestions"}, B)
  <2>1. \A i \in 1..L : T[i].kind = "suggestions" => DOMAIN T[i].of = {}
    BY <1>2, <1>7 DEF GA!Shows
  <2>2. \A i \in DOMAIN U : U[i].kind = "suggestions" => DOMAIN U[i].of = {} \/ (i = L + 1 /\ U[i].of = S)
    BY <1>1, <1>7, <2>1
  <2>3. L + 1 \in DOMAIN U /\ U[L + 1].kind = "suggestions" /\ U[L + 1].of = S
    BY <1>1, <1>7
  <2>4. \A i \in DOMAIN U : U[i].kind \in {"suggestions"} => \A k \in DOMAIN U[i].of : U[i].of[k] \in B
    BY <2>2 DEF Suggested
  <2>5. \A y \in B : \E i \in DOMAIN U : U[i].kind \in {"suggestions"} /\ \E k \in DOMAIN U[i].of : U[i].of[k] = y
    BY <2>3 DEF Suggested
  <2>6. ASSUME NEW i \in DOMAIN U, NEW j \in DOMAIN U,
               U[i].kind \in {"suggestions"}, U[j].kind \in {"suggestions"},
               NEW k \in DOMAIN U[i].of, NEW l \in DOMAIN U[j].of, i < j \/ (i = j /\ k < l)
        PROVE  U[i].of[k] < U[j].of[l]
    <3>1. i = L + 1 /\ j = L + 1 /\ U[i].of = S /\ U[j].of = S
      BY <2>2, <2>6
    <3>2. ~(i < j)
      BY <1>7, <3>1
    <3> QED BY <2>6, <3>1, <3>2 DEF Suggested
  <2> QED BY <2>4, <2>5, <2>6 DEF GA!Shows
<1>9. B # {}
  <2>1. 1 \in DOMAIN S
    BY <1>1
  <2> QED BY <2>1 DEF Suggested
<1> QED BY <1>0, <1>4, <1>5, <1>8, <1>9 DEF Complete

LEMMA FlushFaithful ==
  ASSUME NEW d, NEW ms, NEW c \in Nat, Sound(d, ms, c),
         NEW A, A = GA!Numbers(ms, Visible), NEW B, B = GA!Numbers(ms, {"button"})
  PROVE  /\ GA!Flushed(d) \in Seq(Items)
         /\ Faithful(GA!Flushed(d), A, B)
<1>1. /\ d \in Delegates /\ ms \in Seq(Messages) /\ BufferOK(d.buffer, A) /\ Suggested(d.suggestions, B)
      /\ \A i \in DOMAIN ms : ms[i].n <= c
  BY DEF Sound
<1>2. A \in SUBSET Nat
  BY <1>1, NumbersBound
<1>3. PICK x : x = [kind |-> "suggestions", of |-> d.suggestions]
  OBVIOUS
<1>4. PICK T : T = d.buffer \o IF d.suggestions = <<>> THEN <<>> ELSE <<x>>
  OBVIOUS
<1>5. d.buffer \in Seq(Items) /\ d.suggestions \in Seq(Nat) /\ x \in Items
  BY <1>1, <1>3 DEF Delegates, Items
<1>6. Complete(d.buffer, A, {})
  BY <1>1, BufferComplete
<1>7. Complete(T, A, B)
  <2>1. CASE d.suggestions = <<>>
    <3>1. T = d.buffer
      BY <1>4, <1>5, <2>1
    <3>2. DOMAIN d.suggestions = {}
      BY <2>1
    <3>3. B = {}
      BY <1>1, <3>2 DEF Suggested
    <3> QED BY <1>6, <3>1, <3>3
  <2>2. CASE d.suggestions # <<>>
    <3>1. T = Append(d.buffer, x)
      BY <1>4, <1>5, <2>2
    <3>2. PICK S : S = d.suggestions
      OBVIOUS
    <3> QED BY <1>1, <1>2, <1>3, <1>6, <2>2, <3>1, <3>2, SuggestionsComplete
  <2> QED BY <2>1, <2>2
<1>8. PICK r : r = GA!Flushed(d)
  OBVIOUS
<1>9. CASE T = <<>>
  <2>1. PICK y : y = [kind |-> "close", of |-> <<>>]
    OBVIOUS
  <2>2. r = <<y>>
    BY <1>3, <1>4, <1>8, <1>9, <2>1 DEF GA!Flushed
  <2>3. y \in Items /\ y.kind = "close"
    BY <2>1 DEF Items
  <2>4. A = {} /\ B = {}
    BY <1>7, <1>9 DEF Complete
  <2>5. /\ DOMAIN r = {1} /\ Len(r) = 1 /\ r[1] = y /\ r \in Seq(Items) /\ 2..Len(r) = {}
    BY <2>2, <2>3
  <2>6. GA!Shows(r, Shown, A) /\ GA!Shows(r, {"suggestions"}, B)
    BY <2>3, <2>4, <2>5 DEF GA!Shows, Shown
  <2>7. Faithful(r, A, B)
    BY <2>3, <2>4, <2>5, <2>6 DEF Faithful
  <2> QED BY <1>8, <2>5, <2>7
<1>10. CASE T # <<>> /\ ~d.signin
  <2>1. r = T \o <<>>
    BY <1>3, <1>4, <1>8, <1>10 DEF GA!Flushed
  <2>2. r = T
    BY <1>7, <2>1 DEF Complete
  <2>3. Faithful(r, A, B)
    BY <1>7, <1>10, <2>2 DEF Complete, Faithful
  <2> QED BY <1>7, <1>8, <2>2, <2>3 DEF Complete
<1>11. CASE T # <<>> /\ d.signin
  <2>1. PICK y : y = [kind |-> "signin", of |-> <<>>]
    OBVIOUS
  <2>2. y \in Items /\ y.kind = "signin"
    BY <2>1 DEF Items
  <2>3. /\ T \in Seq(Items) /\ GA!Shows(T, Shown, A) /\ GA!Shows(T, {"suggestions"}, B)
        /\ \A i \in DOMAIN T : T[i].kind = "image" => i > 1 /\ GA!IsBubble(T[i - 1])
        /\ \A i \in 2..Len(T) : ~(GA!IsBubble(T[i]) /\ GA!IsBubble(T[i - 1]))
        /\ \A i \in DOMAIN T : T[i].kind # "close"
        /\ A \cup B # {}
    BY <1>7, <1>11 DEF Complete
  <2>4. r = T \o <<y>>
    BY <1>3, <1>4, <1>8, <1>11, <2>1 DEF GA!Flushed
  <2>5. r = Append(T, y)
    BY <2>2, <2>3, <2>4
  <2>6. y.kind \notin Shown /\ y.kind \notin {"suggestions"} /\ ~GA!IsBubble(y) /\ y.kind # "image" /\ y.kind # "close"
    BY <2>2 DEF Shown, GA!IsBubble
  <2>7. B \in SUBSET Nat
    BY <1>1, NumbersBound
  <2>8. GA!Shows(r, Shown, A) /\ GA!Shows(r, {"suggestions"}, B)
    BY <1>2, <2>2, <2>3, <2>5, <2>6, <2>7, ShowsSame
  <2>9. /\ r \in Seq(Items)
        /\ \A i \in DOMAIN r : r[i].kind = "image" => i > 1 /\ GA!IsBubble(r[i - 1])
        /\ \A i \in 2..Len(r) : ~(GA!IsBubble(r[i]) /\ GA!IsBubble(r[i - 1]))
        /\ \A i \in DOMAIN r : r[i].kind # "close"
    BY <2>2, <2>3, <2>5, <2>6, OtherItem
  <2>10. Faithful(r, A, B)
    BY <2>3, <2>8, <2>9 DEF Faithful
  <2> QED BY <1>8, <2>9, <2>10
<1> QED BY <1>9, <1>10, <1>11

Turn == [pc : {"none", "retrieve", "open", "handle", "done", "failed"},
         token : BOOLEAN, engine : GA!Engines]
Empty == [buffer |-> <<>>, suggestions |-> <<>>, signin |-> FALSE]

\* While a turn is handled it is an output of its engine, and of no other; its
\* delegate holds what that engine said, and its reply shows it.
TurnSound(t) ==
  /\ Len(said[t]) \in Nat /\ Len(said[t]) <= count
  /\ turn[t].pc \in {"none", "retrieve", "open"} => said[t] = <<>> /\ delegate[t] = Empty
  /\ \A e \in GA!Engines : t \in outputs[e] => turn[t].engine = e /\ turn[t].pc \in {"handle", "done"}
  /\ turn[t].pc = "handle" => t \in outputs[turn[t].engine] /\ Sound(delegate[t], said[t], count)
  /\ turn[t].pc = "done" /\ t \in outputs[turn[t].engine] =>
       Faithful(reply[t], GA!Numbers(said[t], Visible), GA!Numbers(said[t], {"button"}))
AssistantInv ==
  /\ count \in Nat
  /\ turn \in [Turns -> Turn]
  /\ outputs \in [GA!Engines -> SUBSET Turns]
  /\ DOMAIN delegate = Turns /\ DOMAIN said = Turns /\ DOMAIN reply = Turns
  /\ \A t \in Turns : said[t] \in Seq(Messages)
  /\ \A t \in Turns : TurnSound(t)

LEMMA EmptySound == Sound(Empty, <<>>, 0) /\ \A c \in Nat : Sound(Empty, <<>>, c)
<1>1. Empty \in Delegates /\ Empty.buffer = <<>> /\ Empty.suggestions = <<>>
  BY DEF Empty, Delegates
<1>2. \A K : GA!Numbers(<<>>, K) = {}
  BY DEF GA!Numbers
<1>3. BufferOK(<<>>, {})
  BY DEF BufferOK, Ruled, Captioned, GA!Shows
<1>4. Suggested(<<>>, {})
  BY DEF Suggested
<1>5. <<>> \in Seq(Messages) /\ DOMAIN <<>> = {}
  OBVIOUS
<1> QED BY <1>1, <1>2, <1>3, <1>4, <1>5 DEF Sound

LEMMA AssistantInit == GA!GInit => AssistantInv
<1> SUFFICES ASSUME GA!GInit PROVE AssistantInv
  OBVIOUS
<1>1. /\ turn = [t \in Turns |-> [pc |-> "none", token |-> FALSE, engine |-> "anonymous"]]
      /\ outputs = [e \in GA!Engines |-> {}] /\ count = 0
      /\ said = [t \in Turns |-> <<>>] /\ delegate = [t \in Turns |-> Empty]
      /\ DOMAIN reply = Turns
  BY DEF GA!GInit, Empty
<1>2. turn \in [Turns -> Turn] /\ outputs \in [GA!Engines -> SUBSET Turns]
  BY <1>1 DEF Turn, GA!Engines
<1>3. \A t \in Turns : said[t] = <<>> /\ delegate[t] = Empty /\ turn[t].pc = "none" /\ said[t] \in Seq(Messages)
  BY <1>1
<1>4. \A t \in Turns : \A e \in GA!Engines : t \notin outputs[e]
  BY <1>1
<1>5. Len(<<>>) = 0
  OBVIOUS
<1>6. \A t \in Turns : TurnSound(t)
  BY <1>1, <1>3, <1>4, <1>5 DEF TurnSound
<1> QED BY <1>1, <1>2, <1>3, <1>6 DEF AssistantInv

\* A step of the request of t that leaves what was said and collected.
LEMMA TurnSteps ==
  ASSUME AssistantInv, NEW t \in Turns, NEW pc \in {"retrieve", "open", "handle", "done"},
         NEW v \in Turn, v.pc = pc, turn' = [turn EXCEPT ![t] = v],
         UNCHANGED <<delegate, count, said>>, DOMAIN reply' = Turns,
         outputs' \in [GA!Engines -> SUBSET Turns],
         \A u \in Turns : u # t => reply'[u] = reply[u],
         \A u \in Turns, e \in GA!Engines : u # t => (u \in outputs'[e] <=> u \in outputs[e]),
         TurnSound(t)'
  PROVE  AssistantInv'
<1>1. turn' \in [Turns -> Turn] /\ \A u \in Turns : u # t => turn'[u] = turn[u]
  BY DEF AssistantInv
<1>2. ASSUME NEW u \in Turns, u # t PROVE TurnSound(u)'
  <2>1. /\ turn'[u] = turn[u] /\ reply'[u] = reply[u] /\ delegate'[u] = delegate[u]
        /\ said'[u] = said[u] /\ count' = count /\ turn[u].engine \in GA!Engines
        /\ \A e \in GA!Engines : u \in outputs'[e] <=> u \in outputs[e]
    BY <1>1, <1>2 DEF AssistantInv, Turn
  <2>2. TurnSound(u)
    BY DEF AssistantInv
  <2> QED BY <2>1, <2>2 DEF TurnSound, GA!Engines
<1> QED BY <1>1, <1>2 DEF AssistantInv, GA!Engines

LEMMA SoundLater ==
  ASSUME NEW d, NEW ms, NEW c \in Nat, Sound(d, ms, c)
  PROVE  Sound(d, ms, c + 1)
<1>1. ms \in Seq(Messages) /\ \A i \in DOMAIN ms : ms[i].n <= c
  BY DEF Sound
<1>2. \A i \in DOMAIN ms : ms[i] \in Messages
  BY <1>1
<1>3. \A i \in DOMAIN ms : ms[i].n <= c + 1
  BY <1>1, <1>2 DEF Messages
<1> QED BY <1>3 DEF Sound

LEMMA AssistantStays ==
  ASSUME AssistantInv, UNCHANGED <<turn, delegate, outputs, reply, count, said>>
  PROVE  AssistantInv'
<1>1. ASSUME NEW t \in Turns PROVE TurnSound(t)'
  <2>0. TurnSound(t)
    BY DEF AssistantInv
  <2>1. turn[t].pc = "handle" => Sound(delegate'[t], said'[t], count')
    BY <2>0 DEF TurnSound
  <2>2. turn[t].pc = "handle" => Sound(delegate[t], said[t], count)'
    BY ONLY <2>1 DEF Sound, Delegates, Messages, BufferOK, Ruled, Captioned, Suggested, GA!Shows,
       GA!Numbers, GA!IsBubble, GA!Kinds, GA!Texts, Items, Shown, Visible
  <2>3. turn[t].pc = "done" /\ t \in outputs[turn[t].engine] =>
          Faithful(reply'[t], GA!Numbers(said'[t], Visible), GA!Numbers(said'[t], {"button"}))
    BY <2>0 DEF TurnSound
  <2>4. turn[t].pc = "done" /\ t \in outputs[turn[t].engine] =>
          Faithful(reply[t], GA!Numbers(said[t], Visible), GA!Numbers(said[t], {"button"}))'
    BY ONLY <2>3 DEF Faithful, GA!Shows, GA!IsBubble, Shown, GA!Numbers, Visible, GA!Texts
  <2> QED BY <2>0, <2>2, <2>4 DEF TurnSound
<1> QED BY <1>1 DEF AssistantInv, Turn, GA!Engines, Messages, GA!Kinds, GA!Texts

LEMMA AssistantNext == AssistantInv /\ GA!GNext => AssistantInv'
<1> SUFFICES ASSUME AssistantInv, GA!GNext PROVE AssistantInv'
  OBVIOUS
<1>0. /\ count \in Nat /\ turn \in [Turns -> Turn] /\ outputs \in [GA!Engines -> SUBSET Turns]
      /\ DOMAIN delegate = Turns /\ DOMAIN said = Turns /\ DOMAIN reply = Turns
      /\ \A t \in Turns : said[t] \in Seq(Messages)
      /\ \A t \in Turns : TurnSound(t)
  BY DEF AssistantInv
<1>1. ASSUME NEW t \in Turns, NEW token \in BOOLEAN, GA!Request(t, token) PROVE AssistantInv'
  <2>1. PICK v : v = [turn[t] EXCEPT !.pc = "retrieve", !.token = token]
    OBVIOUS
  <2>2. /\ turn[t].pc = "none" /\ turn' = [turn EXCEPT ![t] = v]
        /\ UNCHANGED <<delegate, outputs, reply, count, said>>
    BY <1>1, <2>1 DEF GA!Request
  <2>3. v \in Turn /\ v.pc = "retrieve" /\ v.engine = turn[t].engine /\ turn'[t] = v
    BY <1>0, <2>1, <2>2 DEF Turn
  <2>4. TurnSound(t)'
    BY <1>0, <2>2, <2>3 DEF TurnSound, GA!Engines
  <2> QED BY <1>0, <2>2, <2>3, <2>4, TurnSteps
<1>2. ASSUME NEW t \in Turns, NEW type, GA!NoEngine(t, type) PROVE AssistantInv'
  <2>1. PICK v : v = [turn[t] EXCEPT !.pc = "done"]
    OBVIOUS
  <2>2. /\ turn[t].pc = "retrieve" /\ turn' = [turn EXCEPT ![t] = v]
        /\ UNCHANGED <<delegate, outputs, count, said>>
    BY <1>2, <2>1 DEF GA!NoEngine
  <2>3. v \in Turn /\ v.pc = "done" /\ v.engine = turn[t].engine /\ turn'[t] = v
    BY <1>0, <2>1, <2>2 DEF Turn
  <2>4. DOMAIN reply' = Turns /\ \A u \in Turns : u # t => reply'[u] = reply[u]
    BY <1>0, <1>2 DEF GA!NoEngine
  <2>5. \A e \in GA!Engines : t \notin outputs[e]
    BY <1>0, <2>2 DEF TurnSound
  <2>6. v.engine \in GA!Engines
    BY <2>3 DEF Turn
  <2>7. TurnSound(t)'
    BY <1>0, <2>2, <2>3, <2>5, <2>6 DEF TurnSound, GA!Engines
  <2> QED BY <1>0, <2>2, <2>3, <2>4, <2>7, TurnSteps
<1>3. ASSUME NEW t \in Turns, GA!RetrieveUser(t) PROVE AssistantInv'
  <2>1. PICK e \in GA!Engines : e = IF turn[t].token /\ account THEN "user" ELSE "anonymous"
    BY DEF GA!Engines
  <2>2. PICK v : v = [turn[t] EXCEPT !.pc = "open", !.engine = e]
    OBVIOUS
  <2>3. /\ turn[t].pc = "retrieve" /\ turn' = [turn EXCEPT ![t] = v]
        /\ UNCHANGED <<delegate, outputs, reply, count, said>>
    BY <1>3, <2>1, <2>2 DEF GA!RetrieveUser
  <2>4. v \in Turn /\ v.pc = "open" /\ v.engine = e /\ turn'[t] = v
    BY <1>0, <2>2, <2>3 DEF Turn
  <2>5. \A f \in GA!Engines : t \notin outputs[f]
    BY <1>0, <2>3 DEF TurnSound
  <2>6. TurnSound(t)'
    BY <1>0, <2>3, <2>4, <2>5 DEF TurnSound, GA!Engines
  <2> QED BY <1>0, <2>3, <2>4, <2>6, TurnSteps
<1>4. ASSUME NEW t \in Turns, GA!Open(t) PROVE AssistantInv'
  <2>1. PICK e : e = turn[t].engine
    OBVIOUS
  <2>2. e \in GA!Engines
    BY <1>0, <2>1 DEF Turn
  <2>3. PICK v : v = [turn[t] EXCEPT !.pc = "handle"]
    OBVIOUS
  <2>4. /\ turn[t].pc = "open" /\ turn' = [turn EXCEPT ![t] = v]
        /\ outputs' = [outputs EXCEPT ![e] = @ \cup {t}]
        /\ UNCHANGED <<delegate, reply, count, said>>
    BY <1>4, <2>1, <2>3 DEF GA!Open
  <2>5. v \in Turn /\ v.pc = "handle" /\ v.engine = e /\ turn'[t] = v
    BY <1>0, <2>1, <2>3, <2>4 DEF Turn
  <2>6. /\ outputs' \in [GA!Engines -> SUBSET Turns]
        /\ \A u \in Turns, f \in GA!Engines : u # t => (u \in outputs'[f] <=> u \in outputs[f])
        /\ t \in outputs'[e] /\ \A f \in GA!Engines : f # e => outputs'[f] = outputs[f]
    BY <1>0, <2>2, <2>4
  <2>7. \A f \in GA!Engines : t \notin outputs[f]
    BY <1>0, <2>4 DEF TurnSound
  <2>8. Sound(delegate[t], said[t], count)
    <3>1. delegate[t] = Empty /\ said[t] = <<>>
      BY <1>0, <2>4 DEF TurnSound
    <3> QED BY <1>0, <3>1, EmptySound
  <2>9. Sound(delegate[t], said[t], count)'
    BY <2>4, <2>8 DEF Sound, Delegates, Messages, BufferOK, Ruled, Captioned, Suggested, GA!Shows, GA!Numbers,
       GA!IsBubble, GA!Kinds, GA!Texts, Items, Shown, Visible
  <2>10. \A f \in GA!Engines : t \in outputs'[f] => f = e
    BY <2>6, <2>7
  <2>11. TurnSound(t)'
    BY <1>0, <2>4, <2>5, <2>6, <2>9, <2>10 DEF TurnSound, GA!Engines
  <2> QED BY <1>0, <2>4, <2>5, <2>6, <2>11, TurnSteps
<1>5. ASSUME NEW t \in Turns, GA!Reply(t) PROVE AssistantInv'
  <2>1. PICK e : e = turn[t].engine
    OBVIOUS
  <2>2. e \in GA!Engines
    BY <1>0, <2>1 DEF Turn
  <2>3. PICK v : v = [turn[t] EXCEPT !.pc = "done"]
    OBVIOUS
  <2>a. PICK r : r = GA!Flushed(delegate[t])
    OBVIOUS
  <2>4. /\ turn[t].pc = "handle" /\ turn' = [turn EXCEPT ![t] = v]
        /\ reply' = [reply EXCEPT ![t] = r]
        /\ UNCHANGED <<delegate, outputs, count, said>>
    BY <1>5, <2>3, <2>a DEF GA!Reply
  <2>5. v \in Turn /\ v.pc = "done" /\ v.engine = e /\ turn'[t] = v
    BY <1>0, <2>1, <2>3, <2>4 DEF Turn
  <2>6. DOMAIN reply' = Turns /\ reply'[t] = r /\ \A u \in Turns : u # t => reply'[u] = reply[u]
    BY <1>0, <2>4
  <2>7. Sound(delegate[t], said[t], count)
    BY <1>0, <2>4 DEF TurnSound
  <2>b. PICK A : A = GA!Numbers(said[t], Visible)
    OBVIOUS
  <2>c. PICK B : B = GA!Numbers(said[t], {"button"})
    OBVIOUS
  <2>8. Faithful(r, A, B)
    BY <1>0, <2>7, <2>a, <2>b, <2>c, FlushFaithful
  <2>9. GA!Numbers(said'[t], Visible) = A /\ GA!Numbers(said'[t], {"button"}) = B
    BY <2>4, <2>b, <2>c
  <2>d. Faithful(reply'[t], GA!Numbers(said'[t], Visible), GA!Numbers(said'[t], {"button"}))
    BY <2>6, <2>8, <2>9
  <2>e. Faithful(reply[t], GA!Numbers(said[t], Visible), GA!Numbers(said[t], {"button"}))'
    BY ONLY <2>d DEF Faithful, GA!Shows, GA!IsBubble, Shown, GA!Numbers, Visible, GA!Texts
  <2>10. TurnSound(t)'
    <3>1. TurnSound(t)
      BY <1>0
    <3>2. turn'[t].pc = "done" /\ turn'[t].engine = turn[t].engine
      BY <2>1, <2>5
    <3>3. /\ Len(said'[t]) \in Nat /\ Len(said'[t]) <= count'
          /\ \A f \in GA!Engines : t \in outputs'[f] => turn'[t].engine = f
      BY <2>4, <3>1, <3>2 DEF TurnSound
    <3> QED BY ONLY <2>e, <3>2, <3>3 DEF TurnSound, GA!Engines
  <2> QED BY <1>0, <2>4, <2>5, <2>6, <2>10, TurnSteps
<1>6. ASSUME NEW e \in GA!Engines, NEW type \in GA!Kinds, GA!Says(e, type) PROVE AssistantInv'
  <2>1. PICK m : m = [n |-> count + 1, kind |-> type]
    OBVIOUS
  <2>2. /\ count' = count + 1 /\ DOMAIN delegate' = Turns /\ DOMAIN said' = Turns
        /\ \A t \in Turns : delegate'[t] = IF t \in outputs[e] /\ turn[t].pc = "handle"
                                             THEN GA!AddMessage(delegate[t], m) ELSE delegate[t]
        /\ \A t \in Turns : said'[t] = IF turn[t].pc = "handle" /\ turn[t].engine = e
                                         THEN Append(said[t], m) ELSE said[t]
        /\ UNCHANGED <<turn, outputs, reply>>
    BY <1>6, <2>1 DEF GA!Says
  <2>3. m \in Messages
    BY <1>0, <2>1 DEF Messages
  <2>4. ASSUME NEW t \in Turns PROVE TurnSound(t)' /\ said'[t] \in Seq(Messages)
    <3>0. TurnSound(t) /\ turn[t].engine \in GA!Engines /\ said[t] \in Seq(Messages)
      BY <1>0 DEF Turn
    <3>1. CASE turn[t].pc = "handle" /\ turn[t].engine = e
      <4>1. t \in outputs[e] /\ Sound(delegate[t], said[t], count)
        BY <3>0, <3>1 DEF TurnSound
      <4>2. delegate'[t] = GA!AddMessage(delegate[t], m) /\ said'[t] = Append(said[t], m)
        BY <2>2, <3>1, <4>1
      <4>3. Sound(GA!AddMessage(delegate[t], m), Append(said[t], m), count + 1)
        BY <1>0, <2>1, <4>1, MessageKept
      <4>4. Sound(delegate'[t], said'[t], count')
        BY <2>2, <4>2, <4>3
      <4>5. Sound(delegate[t], said[t], count)'
        BY ONLY <4>4 DEF Sound, Delegates, Messages, BufferOK, Ruled, Captioned, Suggested, GA!Shows,
           GA!Numbers, GA!IsBubble, GA!Kinds, GA!Texts, Items, Shown, Visible
      <4>6. Len(said'[t]) = Len(said[t]) + 1 /\ said'[t] \in Seq(Messages)
        BY <2>3, <3>0, <4>2
      <4>7. Len(said[t]) \in Nat /\ Len(said[t]) <= count
        BY <3>0 DEF TurnSound
      <4> QED BY <1>0, <2>2, <3>0, <3>1, <4>1, <4>5, <4>6, <4>7 DEF TurnSound, GA!Engines
    <3>2. CASE ~(turn[t].pc = "handle" /\ turn[t].engine = e)
      <4>1. said'[t] = said[t] /\ delegate'[t] = delegate[t]
        BY <2>2, <3>0, <3>2 DEF TurnSound
      <4>2. turn[t].pc = "handle" => Sound(delegate[t], said[t], count)
        BY <3>0 DEF TurnSound
      <4>3. turn[t].pc = "handle" => Sound(delegate[t], said[t], count + 1)
        BY <1>0, <4>2, SoundLater
      <4>4. turn[t].pc = "handle" => Sound(delegate'[t], said'[t], count')
        BY <2>2, <4>1, <4>3
      <4>5. turn[t].pc = "handle" => Sound(delegate[t], said[t], count)'
        BY ONLY <4>4 DEF Sound, Delegates, Messages, BufferOK, Ruled, Captioned, Suggested, GA!Shows,
           GA!Numbers, GA!IsBubble, GA!Kinds, GA!Texts, Items, Shown, Visible
      <4>6. turn[t].pc = "done" /\ t \in outputs[turn[t].engine] =>
              Faithful(reply'[t], GA!Numbers(said'[t], Visible), GA!Numbers(said'[t], {"button"}))
        BY <2>2, <3>0, <4>1 DEF TurnSound
      <4>7. turn[t].pc = "done" /\ t \in outputs[turn[t].engine] =>
              Faithful(reply[t], GA!Numbers(said[t], Visible), GA!Numbers(said[t], {"button"}))'
        BY ONLY <4>6 DEF Faithful, GA!Shows, GA!IsBubble, Shown, GA!Numbers, Visible, GA!Texts
      <4>8. Len(said'[t]) \in Nat /\ Len(said'[t]) <= count'
        BY <1>0, <2>2, <3>0, <4>1 DEF TurnSound
      <4> QED BY <2>2, <3>0, <4>1, <4>5, <4>7, <4>8 DEF TurnSound, GA!Engines
    <3> QED BY <3>1, <3>2
  <2> QED BY <1>0, <2>2, <2>4 DEF AssistantInv, GA!Engines
<1>7. ASSUME NEW e \in GA!Engines, GA!EngineDies(e) PROVE AssistantInv'
  <2>1. /\ outputs' = [outputs EXCEPT ![e] = {}]
        /\ turn' = [t \in Turns |-> IF turn[t].pc = "handle" /\ turn[t].engine = e
                                      THEN [turn[t] EXCEPT !.pc = "failed"] ELSE turn[t]]
        /\ UNCHANGED <<delegate, reply, count, said>>
    BY <1>7 DEF GA!EngineDies
  <2>2. outputs' \in [GA!Engines -> SUBSET Turns] /\ turn' \in [Turns -> Turn]
    BY <1>0, <2>1 DEF Turn
  <2>3. ASSUME NEW t \in Turns PROVE TurnSound(t)'
    <3>0. TurnSound(t) /\ turn[t] \in Turn /\ turn[t].engine \in GA!Engines
      BY <1>0 DEF Turn
    <3>1. /\ outputs'[e] = {} /\ \A f \in GA!Engines : f # e => outputs'[f] = outputs[f]
          /\ said'[t] = said[t] /\ delegate'[t] = delegate[t] /\ reply'[t] = reply[t] /\ count' = count
      BY <1>0, <2>1
    <3>2. CASE turn[t].pc = "handle" /\ turn[t].engine = e
      <4>1. turn'[t].pc = "failed" /\ turn'[t].engine = e
        BY <2>1, <3>0, <3>2 DEF Turn
      <4>2. \A f \in GA!Engines : t \notin outputs'[f]
        BY <3>0, <3>1, <3>2 DEF TurnSound
      <4> QED BY <3>0, <3>1, <4>1, <4>2 DEF TurnSound, GA!Engines
    <3>3. CASE ~(turn[t].pc = "handle" /\ turn[t].engine = e)
      <4>1. turn'[t] = turn[t]
        BY <2>1, <3>3
      <4>2. \A f \in GA!Engines : t \in outputs'[f] => t \in outputs[f]
        BY <3>1
      <4>3. turn[t].pc = "handle" => t \in outputs'[turn[t].engine]
        BY <3>0, <3>1, <3>3 DEF TurnSound
      <4>4. turn[t].pc = "handle" => Sound(delegate'[t], said'[t], count')
        BY <3>0, <3>1 DEF TurnSound
      <4>5. turn[t].pc = "handle" => Sound(delegate[t], said[t], count)'
        BY ONLY <4>4 DEF Sound, Delegates, Messages, BufferOK, Ruled, Captioned, Suggested, GA!Shows,
           GA!Numbers, GA!IsBubble, GA!Kinds, GA!Texts, Items, Shown, Visible
      <4>6. turn[t].pc = "done" /\ t \in outputs[turn[t].engine] =>
              Faithful(reply'[t], GA!Numbers(said'[t], Visible), GA!Numbers(said'[t], {"button"}))
        BY <3>0, <3>1 DEF TurnSound
      <4>7. turn[t].pc = "done" /\ t \in outputs[turn[t].engine] =>
              Faithful(reply[t], GA!Numbers(said[t], Visible), GA!Numbers(said[t], {"button"}))'
        BY ONLY <4>6 DEF Faithful, GA!Shows, GA!IsBubble, Shown, GA!Numbers, Visible, GA!Texts
      <4> QED BY <3>0, <3>1, <4>1, <4>2, <4>3, <4>5, <4>7 DEF TurnSound, GA!Engines
    <3> QED BY <3>2, <3>3
  <2> QED BY <1>0, <2>1, <2>2, <2>3 DEF AssistantInv, GA!Engines
<1>8. CASE GA!DeleteAccount
  <2>1. UNCHANGED <<turn, delegate, outputs, reply, count, said>>
    BY <1>8 DEF GA!DeleteAccount
  <2> QED BY <2>1, AssistantStays
<1> QED BY <1>1, <1>2, <1>3, <1>4, <1>5, <1>6, <1>7, <1>8 DEF GA!GNext

LEMMA AssistantIdle == AssistantInv /\ UNCHANGED assistantVars => AssistantInv'
BY AssistantStays DEF assistantVars

LEMMA AssistantHolds == AssistantInv => GA!ReplyFaithful /\ GA!GTypeOK
<1> SUFFICES ASSUME AssistantInv PROVE GA!ReplyFaithful /\ GA!GTypeOK
  OBVIOUS
<1>0. /\ turn \in [Turns -> Turn] /\ outputs \in [GA!Engines -> SUBSET Turns]
      /\ \A t \in Turns : TurnSound(t)
  BY DEF AssistantInv
<1>1. GA!GTypeOK
  BY <1>0 DEF GA!GTypeOK, Turn, TurnSound
<1>2. ASSUME NEW t \in Turns, turn[t].pc = "done", t \in UNION {outputs[e] : e \in GA!Engines}
      PROVE  Faithful(reply[t], GA!Numbers(said[t], Visible), GA!Numbers(said[t], {"button"}))
  <2>1. PICK e \in GA!Engines : t \in outputs[e]
    BY <1>2
  <2> QED BY <1>0, <1>2, <2>1 DEF TurnSound
<1>3. Shown = {"bubble", "image", "rdl", "link"} /\ Visible = GA!Texts \cup {"picture", "rdl", "link"}
  BY DEF Shown, Visible
<1>4. GA!ReplyFaithful
  BY <1>2, <1>3 DEF GA!ReplyFaithful, Faithful
<1> QED BY <1>1, <1>4

-----------------------------------------------------------------------------
(* The types that the invariants above do not hold                         *)

\* Apps are numbered from one, and no more than the bound.
AppsNumbered ==
  /\ nextApp \in Nat /\ nextApp >= 1 /\ nextApp <= MaxApp + 1
  /\ \A i \in DOMAIN app : i >= 1
PreferencesAlive == alive \in {"down", "loading", "up"}
SmallInv == AppsNumbered /\ PreferencesAlive

LEMMA SmallInit == AP!APInit /\ PR!PInit => SmallInv
<1> SUFFICES ASSUME AP!APInit, PR!PInit PROVE SmallInv
  OBVIOUS
<1>1. nextApp = 1 /\ DOMAIN app = {} /\ 1 <= MaxApp + 1
  BY BoundsAssumption DEF AP!APInit
<1> QED BY <1>1 DEF PR!PInit, SmallInv, AppsNumbered, PreferencesAlive

LEMMA NumberedNext == AppsInv /\ AppsNumbered /\ AP!APNext => AppsNumbered'
<1> SUFFICES ASSUME AppsInv, AppsNumbered, AP!APNext PROVE AppsNumbered'
  OBVIOUS
<1> USE DEF AppsNumbered
<1>1. ASSUME NEW e \in AP!Engines, NEW b \in AP!Backends, NEW to \in Addresses, AP!CreateApp(e, b, to)
      PROVE  AppsNumbered'
  <2>1. /\ nextApp <= MaxApp /\ nextApp' = nextApp + 1
        /\ DOMAIN app' = DOMAIN app \cup {nextApp}
    BY <1>1 DEF AP!CreateApp
  <2> QED BY <2>1, BoundsAssumption
<1>2. ASSUME NEW i \in DOMAIN app, AP!DeleteApp(i) PROVE AppsNumbered'
  BY <1>2 DEF AP!DeleteApp, AP!Without
<1>3. ASSUME NEW h \in Handlers, AP!LoopDone(h) PROVE AppsNumbered'
  BY <1>3 DEF AP!LoopDone
<1>4. ASSUME NEW h \in Handlers, AP!CallFails(h) PROVE AppsNumbered'
  BY <1>4 DEF AP!CallFails
<1>5. ASSUME NEW h \in Handlers, NEW a \in Anons, NEW to \in Addresses,
             AP!SmsStop(h, a, to) \/ AP!Unsubscribe(h, a, to)
      PROVE  AppsNumbered'
  BY <1>5 DEF AP!SmsStop, AP!Unsubscribe
<1>6. ASSUME NEW h \in Handlers, NEW i \in handler[h].todo, AP!DeleteNext(h, i) PROVE AppsNumbered'
  BY <1>6 DEF AP!DeleteNext, AP!Without
<1> QED BY <1>1, <1>2, <1>3, <1>4, <1>5, <1>6 DEF AP!APNext

LEMMA AliveNext == PreferencesAlive /\ PR!PNext => PreferencesAlive'
<1> SUFFICES ASSUME PreferencesAlive, PR!PNext PROVE PreferencesAlive'
  OBVIOUS
<1> USE DEF PreferencesAlive
<1>1. CASE PR!Construct
  BY <1>1 DEF PR!Construct
<1>2. CASE PR!ReadRows
  BY <1>2 DEF PR!ReadRows
<1>3. CASE PR!EngineDown
  BY <1>3 DEF PR!EngineDown
<1>4. ASSUME NEW k \in Keys, PR!Delete(k) PROVE PreferencesAlive'
  BY <1>4 DEF PR!Delete
<1>5. ASSUME NEW k \in Keys, NEW v \in Values, PR!Set(k, v) PROVE PreferencesAlive'
  BY <1>5 DEF PR!Set
<1>6. ASSUME NEW f \in flights, PR!Serve(f) \/ PR!FlushFails(f) PROVE PreferencesAlive'
  BY <1>6 DEF PR!Serve, PR!FlushFails
<1> QED BY <1>1, <1>2, <1>3, <1>4, <1>5, <1>6 DEF PR!PNext


LEMMA NumberedIdle == AppsNumbered /\ UNCHANGED appsVars => AppsNumbered'
BY DEF AppsNumbered, appsVars

LEMMA AliveIdle == PreferencesAlive /\ UNCHANGED preferencesVars => PreferencesAlive'
BY DEF PreferencesAlive, preferencesVars

LEMMA AppsTyped == AppsInv /\ AppsNumbered => AP!APTypeOK
<1> SUFFICES ASSUME AppsInv, AppsNumbered PROVE AP!APTypeOK
  OBVIOUS
<1>1. \A i \in DOMAIN app : i \in 1..MaxApp
  BY BoundsAssumption DEF AppsInv, AppsNumbered
<1>2. \A h \in Handlers : handler[h].kind \in {"idle", "stop", "unsubscribe", "user"}
  BY DEF AppsInv, HandlerStates
<1>3. nextApp \in 1..(MaxApp + 1)
  BY BoundsAssumption DEF AppsNumbered
<1> QED BY <1>1, <1>2, <1>3 DEF AP!APTypeOK

LEMMA DatabaseTyped == DatabaseInv => DB!DTypeOK
BY DEF DatabaseInv, DatabaseTypes, InOrder, DB!DTypeOK

LEMMA PreferencesTyped == PreferencesInv /\ PreferencesAlive => PR!PTypeOK
BY DEF PreferencesInv, PreferencesAlive, PR!PTypeOK

-----------------------------------------------------------------------------
(* The parts together                                                      *)

\* Each part keeps its invariant, whichever part takes the steps.
MessagingInv ==
  /\ RecordingInv /\ AppsInv /\ AssistantInv /\ PreferencesInv
  /\ FramingInv /\ SyncInv /\ DatabaseInv /\ FanoutInv
  /\ SmallInv

LEMMA MessagingInit == Init => MessagingInv
<1> SUFFICES ASSUME Init PROVE MessagingInv
  OBVIOUS
<1>1. MaxMessage \in Nat /\ MaxSync \in Nat
  BY BoundsAssumption
<1> QED
  BY <1>1, RecordingInit, AppsInit, AssistantInit, PreferencesInit, FramingInit, SyncInit, DatabaseInit, FanoutInit,
     SmallInit DEF Init, MessagingInv

LEMMA MessagingNext == MessagingInv /\ [Next]_vars => MessagingInv'
<1> SUFFICES ASSUME MessagingInv, [Next]_vars PROVE MessagingInv'
  OBVIOUS
<1>0. /\ RecordingInv /\ AppsInv /\ AssistantInv /\ PreferencesInv
      /\ FramingInv /\ SyncInv /\ DatabaseInv /\ FanoutInv
      /\ AppsNumbered /\ PreferencesAlive /\ MaxMessage \in Nat /\ MaxSync \in Nat
  BY BoundsAssumption DEF MessagingInv, SmallInv
<1> USE DEF MessagingInv, SmallInv
<1>1. CASE Frame("recording") /\ RE!RENext
  <2>1. UNCHANGED <<appsVars, assistantVars, preferencesVars, framingVars, cloudsyncVars, databaseVars, fanoutVars>>
    BY <1>1 DEF Frame
  <2> QED BY <1>0, <1>1, <2>1, RecordingNext, AppsIdle, AssistantIdle, PreferencesIdle, FramingIdle,
             SyncIdle, DatabaseIdle, FanoutIdle, NumberedIdle, AliveIdle
<1>2. CASE Frame("apps") /\ AP!APNext
  <2>1. UNCHANGED <<recordingVars, assistantVars, preferencesVars, framingVars, cloudsyncVars, databaseVars, fanoutVars>>
    BY <1>2 DEF Frame
  <2> QED BY <1>0, <1>2, <2>1, RecordingIdle, AppsNext, AssistantIdle, PreferencesIdle, FramingIdle,
             SyncIdle, DatabaseIdle, FanoutIdle, NumberedNext, AliveIdle
<1>3. CASE Frame("assistant") /\ GA!GNext
  <2>1. UNCHANGED <<recordingVars, appsVars, preferencesVars, framingVars, cloudsyncVars, databaseVars, fanoutVars>>
    BY <1>3 DEF Frame
  <2> QED BY <1>0, <1>3, <2>1, RecordingIdle, AppsIdle, AssistantNext, PreferencesIdle, FramingIdle,
             SyncIdle, DatabaseIdle, FanoutIdle, NumberedIdle, AliveIdle
<1>4. CASE Frame("preferences") /\ PR!PNext
  <2>1. UNCHANGED <<recordingVars, appsVars, assistantVars, framingVars, cloudsyncVars, databaseVars, fanoutVars>>
    BY <1>4 DEF Frame
  <2> QED BY <1>0, <1>4, <2>1, RecordingIdle, AppsIdle, AssistantIdle, PreferencesNext, FramingIdle,
             SyncIdle, DatabaseIdle, FanoutIdle, NumberedIdle, AliveNext
<1>5. CASE Frame("framing") /\ FR!FNext
  <2>1. UNCHANGED <<recordingVars, appsVars, assistantVars, preferencesVars, cloudsyncVars, databaseVars, fanoutVars>>
    BY <1>5 DEF Frame
  <2> QED BY <1>0, <1>5, <2>1, RecordingIdle, AppsIdle, AssistantIdle, PreferencesIdle, FramingNext,
             SyncIdle, DatabaseIdle, FanoutIdle, NumberedIdle, AliveIdle
<1>6. CASE Frame("cloudsync") /\ CS!CSNext
  <2>1. UNCHANGED <<recordingVars, appsVars, assistantVars, preferencesVars, framingVars, databaseVars, fanoutVars>>
    BY <1>6 DEF Frame
  <2> QED BY <1>0, <1>6, <2>1, RecordingIdle, AppsIdle, AssistantIdle, PreferencesIdle, FramingIdle,
             SyncNext, DatabaseIdle, FanoutIdle, NumberedIdle, AliveIdle
<1>7. CASE Frame("database") /\ DB!DNext
  <2>1. UNCHANGED <<recordingVars, appsVars, assistantVars, preferencesVars, framingVars, cloudsyncVars, fanoutVars>>
    BY <1>7 DEF Frame
  <2> QED BY <1>0, <1>7, <2>1, RecordingIdle, AppsIdle, AssistantIdle, PreferencesIdle, FramingIdle,
             SyncIdle, DatabaseNext, FanoutIdle, NumberedIdle, AliveIdle
<1>8. CASE Frame("fanout") /\ FO!FONext
  <2>1. UNCHANGED <<recordingVars, appsVars, assistantVars, preferencesVars, framingVars, cloudsyncVars, databaseVars>>
    BY <1>8 DEF Frame
  <2> QED BY <1>0, <1>8, <2>1, RecordingIdle, AppsIdle, AssistantIdle, PreferencesIdle, FramingIdle,
             SyncIdle, DatabaseIdle, FanoutNext, NumberedIdle, AliveIdle
<1>9. CASE UNCHANGED vars
  <2>1. UNCHANGED <<recordingVars, appsVars, assistantVars, preferencesVars, framingVars, cloudsyncVars, databaseVars, fanoutVars>>
    BY <1>9 DEF vars
  <2> QED BY <1>0, <2>1, RecordingIdle, AppsIdle, AssistantIdle, PreferencesIdle, FramingIdle,
             SyncIdle, DatabaseIdle, FanoutIdle, NumberedIdle, AliveIdle
<1> QED  BY <1>1, <1>2, <1>3, <1>4, <1>5, <1>6, <1>7, <1>8, <1>9 DEF Next

LEMMA MessagingInductive == Spec => []MessagingInv
BY MessagingInit, MessagingNext, PTL DEF Spec

(***************************************************************************)
(* Every part keeps its state within its type; in particular nothing is    *)
(* recorded of a conversation that is not there, and nobody waits for a    *)
(* connection but who is in the queue (routes/my_recording.ts,             *)
(* util/db.ts).                                                            *)
(***************************************************************************)
THEOREM MessagingTyped == Spec => []MessagingTypes
<1>1. MessagingInv => MessagingTypes
  <2> SUFFICES ASSUME MessagingInv PROVE MessagingTypes
    OBVIOUS
  <2>1. RE!RETypeOK /\ FO!FOTypeOK
    BY DEF MessagingInv, RecordingInv, FanoutInv
  <2>2. AP!APTypeOK /\ DB!DTypeOK /\ PR!PTypeOK
    BY AppsTyped, DatabaseTyped, PreferencesTyped DEF MessagingInv, SmallInv
  <2>3. FR!FTypeOK /\ CS!CSTypeOK /\ GA!GTypeOK
    BY BoundsAssumption, FramingTypes, SyncHolds, AssistantHolds DEF MessagingInv
  <2> QED BY <2>1, <2>2, <2>3 DEF MessagingTypes
<1> QED  BY <1>1, MessagingInductive, PTL

(***************************************************************************)
(* What was sent is what is read: the messages of a stream between         *)
(* processes, in order (util/json_datagram_socket.ts); the messages of a   *)
(* device, once each, in order except where one overtook the buffer        *)
(* (routes/cloud-sync.ts); the row of a preference, unless flushes of its  *)
(* key overlapped or failed (almond/preferences.ts); a request, once by    *)
(* each replica that was listed (nlp/proxy.ts); the reply of the           *)
(* assistant, once and in order, but without the limit on its bubbles      *)
(* (routes/bridges/gassistant); and a connection of the pool has no        *)
(* transaction of somebody else open (util/db.ts).                         *)
(***************************************************************************)
THEOREM WhatIsSentIsDelivered == Spec => []Delivered
<1>1. MessagingInv => Delivered
  <2> SUFFICES ASSUME MessagingInv PROVE Delivered
    OBVIOUS
  <2>1. FR!FramingExact
    BY DEF MessagingInv, FramingInv
  <2>2. CS!SyncRelayed /\ GA!ReplyFaithful
    BY BoundsAssumption, SyncHolds, AssistantHolds DEF MessagingInv
  <2>3. PR!PreferenceSaved /\ FO!FanoutOnce /\ DB!CleanHandover
    BY PreferencesHold, FanoutHolds, DatabaseHolds DEF MessagingInv
  <2> QED BY <2>1, <2>2, <2>3 DEF Delivered
<1> QED  BY <1>1, MessagingInductive, PTL

(***************************************************************************)
(* A user's click holds against requests under way: the engine records     *)
(* only while some page has its checkbox set, unless a click crossed the   *)
(* answer or a request to stop failed; and who unsubscribes is rid of      *)
(* every subscription that was there in the anonymous engine of the        *)
(* language of the request and in the user's own, at the cost of nobody    *)
(* else (routes/my_recording.ts, browser/conversation.js,                  *)
(* routes/my_api.ts, deleteAllApps of almond/engine.ts).  It says nothing  *)
(* of the anonymous engines of other languages, nor of the confirmation.   *)
(***************************************************************************)
THEOREM DecisionsAreKept == Spec => []UserConsent
<1>1. MessagingInv => UserConsent
  BY AppsHold DEF MessagingInv, RecordingInv, UserConsent
<1> QED  BY <1>1, MessagingInductive, PTL

(***************************************************************************)
(* Nobody is given a connection that somebody else holds or has a          *)
(* transaction open on, whatever fails (withTransaction and rollback,      *)
(* util/db.ts).                                                            *)
(***************************************************************************)
THEOREM ConnectionsAreClean == Spec => []DB!CleanHandover
<1>1. MessagingInv => DB!CleanHandover
  BY DatabaseHolds DEF MessagingInv
<1> QED  BY <1>1, MessagingInductive, PTL

(***************************************************************************)
(* The row of a preference is what the engine reads, once the last request *)
(* of its key was answered and neither failed nor overlapped another       *)
(* (_flush and init, almond/preferences.ts).                               *)
(***************************************************************************)
THEOREM PreferencesAreSaved == Spec => []PR!PreferenceSaved
<1>1. MessagingInv => PR!PreferenceSaved
  BY PreferencesHold DEF MessagingInv
<1> QED  BY <1>1, MessagingInductive, PTL

(***************************************************************************)
(* An administrative request is handled once by each replica that was      *)
(* listed, and answered with success only after one handled it (fanout and *)
(* isProxy, nlp/proxy.ts).                                                 *)
(***************************************************************************)
THEOREM ReplicasHandleOnce == Spec => []FO!FanoutOnce
<1>1. MessagingInv => FO!FanoutOnce
  BY FanoutHolds DEF MessagingInv
<1> QED  BY <1>1, MessagingInductive, PTL

(***************************************************************************)
(* The reader takes every message exactly once and in order, however the   *)
(* stream is cut into pieces: a whole text is taken before its newline,    *)
(* and the half of one is kept for the next piece (_tryReadMessage,        *)
(* util/json_datagram_socket.ts).                                          *)
(***************************************************************************)
THEOREM FramesStayWhole == Spec => []FR!FramingExact
<1>1. MessagingInv => FR!FramingExact
  BY DEF MessagingInv, FramingInv
<1> QED  BY <1>1, MessagingInductive, PTL

(***************************************************************************)
(* While the engine lives, every message taken from the device is emitted  *)
(* in the engine, on its way there or in the buffer, at one place only;    *)
(* those that found the engine connected keep their order (setRemote,      *)
(* routes/cloud-sync.ts).                                                  *)
(***************************************************************************)
THEOREM SyncIsRelayed == Spec => []CS!SyncRelayed
<1>1. MessagingInv => CS!SyncRelayed
  BY BoundsAssumption, SyncHolds DEF MessagingInv
<1> QED  BY <1>1, MessagingInductive, PTL

(***************************************************************************)
(* The reply to a turn shows what its engine said during the turn, once    *)
(* and in order, an image after a bubble and no two bubbles of text in a   *)
(* row, also when turns overlap; that it has two bubbles at most is not    *)
(* claimed, and does not hold (GoogleAssistantDelegate,                    *)
(* routes/bridges/gassistant).                                             *)
(***************************************************************************)
THEOREM RepliesAreFaithful == Spec => []GA!ReplyFaithful
<1>1. MessagingInv => GA!ReplyFaithful
  BY AssistantHolds DEF MessagingInv
<1> QED  BY <1>1, MessagingInductive, PTL
===============================================================================
