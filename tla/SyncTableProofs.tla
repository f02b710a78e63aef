-------------------------- MODULE SyncTableProofs --------------------------
(***************************************************************************)
(* Proofs about SyncTable: its types; that a replica follows the table but *)
(* for changes that come too late for it; and that a request replaces a    *)
(* newer record only if the record changed after it looked.                *)
(***************************************************************************)
EXTENDS SyncTable, TLAPS

\* A set of records assigns records of the table to some of the keys.
LEMMA RecordsElim ==
    ASSUME NEW f \in Records
    PROVE  DOMAIN f \subseteq Keys /\ \A k \in DOMAIN f : f[k] \in Record
<1>1. PICK K \in SUBSET Keys : f \in [K -> Record]
  BY DEF Records
<1> QED
  BY <1>1

\* Any function from some keys to records is a set of records.
LEMMA RecordsIntro ==
    ASSUME NEW K \in SUBSET Keys, NEW f \in [K -> Record]
    PROVE  f \in Records
BY DEF Records

\* The empty set of records, which a request other than SyncAt is sent.
LEMMA NoRecordsType == NoRecords \in Records /\ DOMAIN NoRecords = {}
<1>1. NoRecords \in [{} -> Record]
  BY DEF NoRecords
<1> QED
  BY <1>1, RecordsIntro

\* What a request decides to write is among the records of valid keys.
LEMMA WritesType ==
    ASSUME NEW op, NEW push \in Pushes
    PROVE  [k \in Written(op, push) |-> push[k]] \in Records
<1>1. PICK K \in SUBSET (Keys \cup {NoKey}) : push \in [K -> Record]
  BY DEF Pushes
<1>2. Written(op, push) \in SUBSET Keys
  BY <1>1 DEF Written
<1>3. \A k \in Written(op, push) : push[k] \in Record
  BY <1>1 DEF Written
<1>4. [k \in Written(op, push) |-> push[k]] \in [Written(op, push) -> Record]
  BY <1>3
<1> QED
  BY <1>2, <1>4, RecordsIntro

\* What getChangesAfter reads for the replica is a set of records.
LEMMA ChangesType ==
    ASSUME TypeOK
    PROVE  getChangesAfter(cursor) \in Records
<1> DEFINE K == {k \in Keys : journal[k] > cursor}
<1>1. \A k \in K : [time |-> journal[k], state |-> row[k]] \in Record
  BY TimeAssumption DEF TypeOK, Record, Times
<1>2. getChangesAfter(cursor) \in [K -> Record]
  BY <1>1 DEF getChangesAfter
<1> QED
  BY <1>2, RecordsIntro

\* A slot that is not idle holds a transaction; an idle one has no operation.
LEMMA Busy ==
    ASSUME TypeOK, NEW s \in Slots
    PROVE  /\ txn[s] # Idle => txn[s] \in Transaction
           /\ txn[s] # Idle => txn[s].op # "none"
           /\ Idle.op = "none"
BY DEF TypeOK, Idle, Transaction, AllOps

-----------------------------------------------------------------------------

\* A new user has tables of the right type.
LEMMA InitType == Init => TypeOK
BY TimeAssumption DEF Init, TypeOK, Times, NoEntry

\* Every step of the proxy or of the replica keeps the types.
LEMMA NextType ==
    ASSUME TypeOK, [Next]_vars
    PROVE  TypeOK'
<1>1. CASE Tick
  BY <1>1, TimeAssumption DEF Tick, TypeOK, Times, tables, replica, history
<1>2. ASSUME NEW s \in Slots, NEW op \in Ops, NEW push \in Pushes, Begin(s, op, push)
      PROVE  TypeOK'
  <2> DEFINE new == [op |-> op, writes |-> [k \in Written(op, push) |-> push[k]],
                     clears |-> op = "ReplaceAll" /\ DOMAIN push # {},
                     ourChange |-> NoRecords, lastModified |-> 0]
  <2>1. new \in Transaction
    BY WritesType, NoRecordsType, OpAssumption, TimeAssumption DEF Transaction
  <2>2. txn' = [txn EXCEPT ![s] = new]
    BY <1>2 DEF Begin
  <2> QED
    BY <1>2, <2>1, <2>2 DEF Begin, TypeOK, tables, replica, history
<1>3. ASSUME NEW s \in Slots, NEW push \in Pushes, BeginSyncAt(s, push)
      PROVE  TypeOK'
  <2>1. PICK t \in 0..MaxTime :
          txn' = [txn EXCEPT ![s] =
                   [op |-> "SyncAt", writes |-> [k \in Written("SyncAt", push) |-> push[k]],
                    clears |-> FALSE, ourChange |-> getChangesAfter(cursor), lastModified |-> t]]
    BY <1>3 DEF BeginSyncAt
  <2> DEFINE new == [op |-> "SyncAt", writes |-> [k \in Written("SyncAt", push) |-> push[k]],
                     clears |-> FALSE, ourChange |-> getChangesAfter(cursor), lastModified |-> t]
  <2>2. new \in Transaction
    BY WritesType, ChangesType DEF Transaction, AllOps
  <2> QED
    BY <1>3, <2>1, <2>2 DEF BeginSyncAt, TypeOK, tables, replica, history
<1>4. ASSUME NEW s \in Slots, Rollback(s)
      PROVE  TypeOK'
  BY <1>4 DEF Rollback, TypeOK, tables, replica
<1>5. ASSUME NEW s \in Slots, GiveUp(s)
      PROVE  TypeOK'
  <2>1. txn[s] \in Transaction
    BY <1>5, Busy DEF GiveUp
  <2>2. [op |-> "HandleChanges", writes |-> txn[s].writes, clears |-> txn[s].clears,
         ourChange |-> NoRecords, lastModified |-> 0] \in Transaction
    BY <2>1, NoRecordsType, TimeAssumption DEF Transaction, AllOps
  <2> QED
    BY <1>5, <2>2 DEF GiveUp, TypeOK, tables, replica, history
<1>6. ASSUME NEW s \in Slots, Commit(s)
      PROVE  TypeOK'
  <2> DEFINE x == txn[s]
  <2>1. x \in Transaction
    BY <1>6, Busy DEF Commit
  <2>2. \A k \in DOMAIN x.writes : x.writes[k].time \in Times /\ x.writes[k].state \in States \cup {Empty}
    BY <2>1, RecordsElim DEF Transaction, Record
  <2>3. row' \in [Keys -> States \cup {Empty}] /\ journal' \in [Keys -> 0..MaxTime]
    BY <1>6, <2>2, TimeAssumption DEF Commit, Write, TypeOK, Times, NoEntry
  <2>4. cursor' \in 0..MaxTime
    BY <1>6, <2>1 DEF Commit, Answer, TypeOK, Transaction, replica
  <2>5. mirror' \in [Keys -> [time : 0..MaxTime, state : States \cup {Empty}]]
    <3>1. \A k \in DOMAIN x.ourChange : x.ourChange[k] \in [time : 0..MaxTime, state : States \cup {Empty}]
      BY <2>1, RecordsElim, TimeAssumption DEF Transaction, Record, Times
    <3> QED
      BY <1>6, <3>1 DEF Commit, Answer, TypeOK, replica
  <2>6. late' \subseteq Keys /\ overtaken' \in [Slots -> SUBSET Keys]
    <3>1. DOMAIN x.writes \subseteq Keys
      BY <2>1, RecordsElim DEF Transaction
    <3> QED
      BY <1>6, <3>1 DEF Commit, Remember, TypeOK
  <2> QED
    BY <1>6, <2>3, <2>4, <2>5, <2>6 DEF Commit, TypeOK
<1>7. CASE UNCHANGED vars
  BY <1>7 DEF vars, TypeOK, tables, replica, history
<1> QED
  BY <1>1, <1>2, <1>3, <1>4, <1>5, <1>6, <1>7 DEF Next

\* Every variable of the proxy and of the replica keeps its type: the tables
\* only ever hold states and times, whatever the requests that interleave.
THEOREM SyncTypeCorrect == Spec => []TypeOK
<1>1. Init => TypeOK
  BY InitType
<1>2. TypeOK /\ [Next]_vars => TypeOK'
  BY NextType
<1> QED
  BY <1>1, <1>2, PTL DEF Spec

-----------------------------------------------------------------------------
(* The replica follows the table *)

Current(k) == [time |-> journal[k], state |-> row[k]]

\* The answer that x has prepared is still enough when it is delivered.
Sufficient(x) ==
    \A k \in Keys \ late :
        journal[k] # NoEntry /\ journal[k] <= x.lastModified
            => IF k \in DOMAIN x.ourChange THEN x.ourChange[k] = Current(k)
               ELSE mirror[k] = Current(k)

SyncInv == \A s \in Slots : txn[s].op = "SyncAt" => Sufficient(txn[s])

OneSyncAt == \A s, t \in Slots : txn[s].op = "SyncAt" /\ txn[t].op = "SyncAt" => s = t

FollowInv == TypeOK /\ ReplicaFollows /\ SyncInv /\ OneSyncAt

\* A replica that has not synchronized yet follows an empty table.
LEMMA InitFollow == Init => FollowInv
<1> SUFFICES ASSUME Init PROVE FollowInv
  OBVIOUS
<1>1. TypeOK
  BY InitType
<1>2. \A s \in Slots : txn[s] = Idle /\ txn[s].op # "SyncAt"
  BY DEF Init, Idle
<1> QED
  BY <1>1, <1>2 DEF Init, FollowInv, ReplicaFollows, SyncInv, OneSyncAt, NoEntry

\* A commit changes nothing up to a time that the replica has reached, or will
\* have with the answer in preparation, but for the keys it makes late.
LEMMA CommitKeepsReached ==
    ASSUME TypeOK, NEW s \in Slots, Commit(s), NEW t \in 0..MaxTime,
           t <= cursor \/ \E r \in Slots : txn[r].op = "SyncAt" /\ t <= txn[r].lastModified,
           NEW k \in Keys \ late', journal'[k] # NoEntry, journal'[k] <= t
    PROVE  k \notin late /\ journal'[k] = journal[k] /\ Current(k)' = Current(k)
<1> DEFINE x == txn[s]
<1>1. x \in Transaction
  BY Busy DEF Commit
<1>2. \A l \in DOMAIN x.writes : x.writes[l].time \in Times
  BY <1>1, RecordsElim DEF Transaction, Record
<1>3. cursor \in 0..MaxTime /\ \A r \in Slots : txn[r].op = "SyncAt" => txn[r].lastModified \in 0..MaxTime
  BY Busy DEF TypeOK, Transaction, Idle
<1>4. k \notin DOMAIN x.writes
  <2> SUFFICES ASSUME k \in DOMAIN x.writes PROVE FALSE
    OBVIOUS
  <2>1. journal'[k] = x.writes[k].time /\ x.writes[k].time \in Times
    BY <1>2 DEF Commit, Write
  <2>2. HasReached(x.writes[k].time)
    BY <1>3, <2>1, TimeAssumption DEF HasReached, Times
  <2>3. k \in late'
    BY <2>2 DEF Commit, Remember
  <2> QED
    BY <2>3
<1>5. journal'[k] = journal[k] /\ row'[k] = row[k]
  BY <1>4 DEF Commit, Write
<1>6. k \notin late
  BY <1>4 DEF Commit, Remember
<1> QED
  BY <1>5, <1>6 DEF Current

\* Every step keeps the replica and the answers in preparation sufficient.
LEMMA NextFollow ==
    ASSUME FollowInv, [Next]_vars
    PROVE  FollowInv'
<1> USE DEF FollowInv
<1>1. TypeOK'
  BY NextType
<1>2. CASE Tick
  BY <1>1, <1>2 DEF Tick, tables, replica, history, ReplicaFollows, SyncInv, OneSyncAt, Sufficient, Current
<1>3. ASSUME NEW s \in Slots, NEW op \in Ops, NEW push \in Pushes, Begin(s, op, push)
      PROVE  FollowInv'
  <2> DEFINE new == [op |-> op, writes |-> [k \in Written(op, push) |-> push[k]],
                     clears |-> op = "ReplaceAll" /\ DOMAIN push # {},
                     ourChange |-> NoRecords, lastModified |-> 0]
  <2>1. txn' = [txn EXCEPT ![s] = new] /\ txn \in [Slots -> Transaction \cup {Idle}]
    BY <1>3 DEF Begin, TypeOK
  <2>2. new.op # "SyncAt"
    BY <1>3 DEF Begin
  <2>3. UNCHANGED <<tables, replica, history>>
    BY <1>3 DEF Begin
  <2> HIDE DEF new
  <2>4. \A t \in Slots : txn'[t] = IF t = s THEN new ELSE txn[t]
    BY <2>1
  <2> QED
    BY <1>1, <2>2, <2>3, <2>4
    DEF tables, replica, history, ReplicaFollows, SyncInv, OneSyncAt, Sufficient, Current
<1>4. ASSUME NEW s \in Slots, NEW push \in Pushes, BeginSyncAt(s, push)
      PROVE  FollowInv'
  <2>1. PICK t \in 0..MaxTime :
          /\ IsLastModified(t)
          /\ txn' = [txn EXCEPT ![s] =
                      [op |-> "SyncAt", writes |-> [k \in Written("SyncAt", push) |-> push[k]],
                       clears |-> FALSE, ourChange |-> getChangesAfter(cursor), lastModified |-> t]]
    BY <1>4 DEF BeginSyncAt
  <2> DEFINE new == [op |-> "SyncAt", writes |-> [k \in Written("SyncAt", push) |-> push[k]],
                     clears |-> FALSE, ourChange |-> getChangesAfter(cursor), lastModified |-> t]
  <2>2. UNCHANGED <<tables, replica, history>>
    BY <1>4 DEF BeginSyncAt
  <2>3. new.lastModified = t /\ new.ourChange = getChangesAfter(cursor)
    OBVIOUS
  <2> HIDE DEF new
  <2>5. \A r \in Slots : txn'[r] = IF r = s THEN new ELSE txn[r]
    BY <2>1 DEF TypeOK, new
  <2>6. Sufficient(new)
    <3> SUFFICES ASSUME NEW k \in Keys \ late, journal[k] # NoEntry, journal[k] <= t
                 PROVE  IF k \in DOMAIN new.ourChange THEN new.ourChange[k] = Current(k)
                        ELSE mirror[k] = Current(k)
      BY <2>3 DEF Sufficient
    <3>1. CASE journal[k] > cursor
      BY <3>1, <2>3 DEF getChangesAfter, Current
    <3>2. CASE ~ (journal[k] > cursor)
      <4>1. k \notin DOMAIN new.ourChange
        BY <3>2, <2>3 DEF getChangesAfter
      <4>2. journal[k] <= cursor
        BY <3>2 DEF TypeOK
      <4> QED
        BY <4>1, <4>2 DEF ReplicaFollows, Current
    <3> QED
      BY <3>1, <3>2
  <2>7. \A r \in Slots : txn[r].op # "SyncAt"
    BY <1>4 DEF BeginSyncAt
  <2>8. SyncInv'
    BY <2>2, <2>3, <2>5, <2>6, <2>7 DEF SyncInv, tables, replica, history, Sufficient, Current
  <2>9. OneSyncAt'
    BY <2>5, <2>7 DEF OneSyncAt
  <2> QED
    BY <1>1, <2>2, <2>8, <2>9 DEF tables, replica, history, ReplicaFollows
<1>5. ASSUME NEW s \in Slots, Rollback(s)
      PROVE  FollowInv'
  <2>1. UNCHANGED <<tables, replica, late>>
    BY <1>5 DEF Rollback
  <2>2. \A t \in Slots : txn'[t] = IF t = s THEN Idle ELSE txn[t]
    BY <1>5 DEF Rollback, TypeOK
  <2>3. Idle.op # "SyncAt"
    BY DEF Idle
  <2> QED
    BY <1>1, <2>1, <2>2, <2>3
    DEF tables, replica, ReplicaFollows, SyncInv, OneSyncAt, Sufficient, Current
<1>6. ASSUME NEW s \in Slots, GiveUp(s)
      PROVE  FollowInv'
  <2> DEFINE new == [op |-> "HandleChanges", writes |-> txn[s].writes, clears |-> txn[s].clears,
                     ourChange |-> NoRecords, lastModified |-> 0]
  <2>1. UNCHANGED <<tables, replica, history>>
    BY <1>6 DEF GiveUp
  <2>2. new.op # "SyncAt"
    OBVIOUS
  <2> HIDE DEF new
  <2>3. \A t \in Slots : txn'[t] = IF t = s THEN new ELSE txn[t]
    BY <1>6 DEF GiveUp, TypeOK, new
  <2> QED
    BY <1>1, <2>1, <2>2, <2>3
    DEF tables, replica, history, ReplicaFollows, SyncInv, OneSyncAt, Sufficient, Current
<1>7. ASSUME NEW s \in Slots, Commit(s)
      PROVE  FollowInv'
  <2> DEFINE x == txn[s]
  <2>1. x # Idle
    BY <1>7 DEF Commit
  <2>2. \A t \in Slots : txn'[t] = IF t = s THEN Idle ELSE txn[t]
    BY <1>7 DEF Commit, TypeOK
  <2>3. Idle.op # "SyncAt"
    BY DEF Idle
  <2>4. OneSyncAt'
    BY <2>2, <2>3 DEF OneSyncAt
  <2>5. CASE x.op = "SyncAt"
    <3>1. Answer(x)
      BY <1>7, <2>5 DEF Commit
    <3>2. x.lastModified \in 0..MaxTime /\ Sufficient(x)
      BY <2>1, <2>5, Busy DEF SyncInv, Transaction
    <3>3. cursor' = x.lastModified
      BY <3>1 DEF Answer
    <3>4. ReplicaFollows'
      <4> SUFFICES ASSUME NEW k \in Keys \ late', journal'[k] # NoEntry, journal'[k] <= cursor'
                   PROVE  mirror'[k] = Current(k)'
        BY DEF ReplicaFollows, Current
      <4>1. k \notin late /\ journal'[k] = journal[k] /\ Current(k)' = Current(k)
        BY <1>7, <2>5, <3>2, <3>3, CommitKeepsReached
      <4>2. mirror'[k] = IF k \in DOMAIN x.ourChange THEN x.ourChange[k] ELSE mirror[k]
        BY <3>1 DEF Answer
      <4> QED
        BY <4>1, <4>2, <3>2, <3>3 DEF Sufficient
    <3>5. SyncInv'
      BY <2>2, <2>3, <2>5 DEF SyncInv, OneSyncAt
    <3> QED
      BY <1>1, <2>4, <3>4, <3>5
  <2>6. CASE x.op # "SyncAt"
    <3>1. cursor' = cursor /\ mirror' = mirror
      BY <1>7, <2>6 DEF Commit, replica
    <3>2. cursor \in 0..MaxTime
      BY DEF TypeOK
    <3>3. ReplicaFollows'
      <4> SUFFICES ASSUME NEW k \in Keys \ late', journal'[k] # NoEntry, journal'[k] <= cursor
                   PROVE  mirror[k] = Current(k)'
        BY <3>1 DEF ReplicaFollows, Current
      <4>1. k \notin late /\ journal'[k] = journal[k] /\ Current(k)' = Current(k)
        BY <1>7, <3>2, CommitKeepsReached
      <4> QED
        BY <4>1 DEF ReplicaFollows, Current
    <3>4. ASSUME NEW r \in Slots, r # s, txn[r].op = "SyncAt"
          PROVE  Sufficient(txn[r])'
      <4>1. txn'[r] = txn[r]
        BY <2>2, <3>4
      <4>2. txn[r].lastModified \in 0..MaxTime /\ Sufficient(txn[r])
        BY <3>4, Busy DEF SyncInv, Transaction, Idle
      <4> SUFFICES ASSUME NEW k \in Keys \ late', journal'[k] # NoEntry, journal'[k] <= txn[r].lastModified
                   PROVE  IF k \in DOMAIN txn[r].ourChange THEN txn[r].ourChange[k] = Current(k)'
                          ELSE mirror[k] = Current(k)'
        BY <3>1, <4>1 DEF Sufficient
      <4>3. k \notin late /\ journal'[k] = journal[k] /\ Current(k)' = Current(k)
        BY <1>7, <3>4, <4>2, CommitKeepsReached
      <4> QED
        BY <4>2, <4>3 DEF Sufficient
    <3>5. SyncInv'
      BY <2>2, <2>3, <3>4 DEF SyncInv
    <3> QED
      BY <1>1, <2>4, <3>3, <3>5
  <2> QED
    BY <2>5, <2>6
<1>8. CASE UNCHANGED vars
  BY <1>1, <1>8 DEF vars, tables, replica, history, ReplicaFollows, SyncInv, OneSyncAt, Sufficient, Current
<1> QED
  BY <1>2, <1>3, <1>4, <1>5, <1>6, <1>7, <1>8 DEF Next

\* SyncAt is enough to follow the table, for any operations, number of keys, of
\* requests in progress and of records pushed, and whatever clocks the times come
\* from: the replica has the current record of every key that changed no later
\* than its cursor, but for a change that was committed with a time the replica
\* had already reached.
THEOREM ReplicaIsCurrent == Spec => []ReplicaFollows
<1>1. Init => FollowInv
  BY InitFollow
<1>2. FollowInv /\ [Next]_vars => FollowInv'
  BY NextFollow
<1>3. FollowInv => ReplicaFollows
  BY DEF FollowInv
<1> QED
  BY <1>1, <1>2, <1>3, PTL DEF Spec

-----------------------------------------------------------------------------
(* A request replaces a newer record only if it changed after it looked *)

\* What a request that compares has decided to write is newer than the journal,
\* but for the keys that others have written since it looked.
StillRecent ==
    \A s \in Slots :
        txn[s].op \in IfRecent =>
            /\ ~ txn[s].clears
            /\ \A k \in DOMAIN txn[s].writes \ overtaken[s] : journal[k] < txn[s].writes[k].time

\* No request is in progress at first.
LEMMA InitRecent == Init => StillRecent
BY DEF Init, StillRecent, Idle, IfRecent

\* Every step keeps what a request saw in the journal valid, or remembers the key.
LEMMA NextRecent ==
    ASSUME TypeOK, StillRecent, [Next]_vars
    PROVE  StillRecent'
<1>0. Idle.op \notin IfRecent
  BY DEF Idle, IfRecent
<1>1. CASE Tick
  BY <1>1 DEF Tick, tables, history, StillRecent
<1>2. ASSUME NEW s \in Slots, NEW op \in Ops, NEW push \in Pushes, Begin(s, op, push)
      PROVE  StillRecent'
  <2> DEFINE new == [op |-> op, writes |-> [k \in Written(op, push) |-> push[k]],
                     clears |-> op = "ReplaceAll" /\ DOMAIN push # {},
                     ourChange |-> NoRecords, lastModified |-> 0]
  <2>1. journal' = journal /\ overtaken' = overtaken
    BY <1>2 DEF Begin, tables, history
  <2>2. new.op \in IfRecent => ~ new.clears
    BY DEF IfRecent
  <2>3. new.op \in IfRecent => \A k \in DOMAIN new.writes : journal[k] < new.writes[k].time
    BY DEF Written, Recent
  <2>4. txn' = [txn EXCEPT ![s] = new]
    BY <1>2 DEF Begin
  <2> HIDE DEF new
  <2>5. \A r \in Slots : txn'[r] = IF r = s THEN new ELSE txn[r]
    BY <2>4 DEF TypeOK
  <2> QED
    BY <2>1, <2>2, <2>3, <2>5 DEF StillRecent
<1>3. ASSUME NEW s \in Slots, NEW push \in Pushes, BeginSyncAt(s, push)
      PROVE  StillRecent'
  <2>1. PICK t \in 0..MaxTime :
          txn' = [txn EXCEPT ![s] =
                    [op |-> "SyncAt", writes |-> [k \in Written("SyncAt", push) |-> push[k]],
                     clears |-> FALSE, ourChange |-> getChangesAfter(cursor), lastModified |-> t]]
    BY <1>3 DEF BeginSyncAt
  <2> DEFINE new == [op |-> "SyncAt", writes |-> [k \in Written("SyncAt", push) |-> push[k]],
                     clears |-> FALSE, ourChange |-> getChangesAfter(cursor), lastModified |-> t]
  <2>2. journal' = journal /\ overtaken' = overtaken
    BY <1>3 DEF BeginSyncAt, tables, history
  <2>3. \A k \in Written("SyncAt", push) : journal[k] < push[k].time
    BY DEF Written, Recent, IfRecent
  <2>4. ~ new.clears /\ \A k \in DOMAIN new.writes : journal[k] < new.writes[k].time
    BY <2>3
  <2> HIDE DEF new
  <2>5. \A r \in Slots : txn'[r] = IF r = s THEN new ELSE txn[r]
    BY <2>1 DEF TypeOK, new
  <2> QED
    BY <2>2, <2>4, <2>5 DEF StillRecent
<1>4. ASSUME NEW s \in Slots, Rollback(s)
      PROVE  StillRecent'
  <2>1. journal' = journal /\ \A r \in Slots : txn'[r] = IF r = s THEN Idle ELSE txn[r]
    BY <1>4 DEF Rollback, TypeOK, tables
  <2>2. \A r \in Slots : r # s => overtaken'[r] = overtaken[r]
    BY <1>4 DEF Rollback, TypeOK
  <2> QED
    BY <1>0, <2>1, <2>2 DEF StillRecent
<1>5. ASSUME NEW s \in Slots, Commit(s)
      PROVE  StillRecent'
  <2> SUFFICES ASSUME NEW r \in Slots, txn'[r].op \in IfRecent
               PROVE  /\ ~ txn'[r].clears
                      /\ \A k \in DOMAIN txn'[r].writes \ overtaken'[r] : journal'[k] < txn'[r].writes[k].time
    BY DEF StillRecent
  <2>1. \A q \in Slots : txn'[q] = IF q = s THEN Idle ELSE txn[q]
    BY <1>5 DEF Commit, TypeOK
  <2>2. r # s /\ txn'[r] = txn[r] /\ txn[r] # Idle
    BY <1>0, <2>1
  <2>3. overtaken'[r] = overtaken[r] \cup DOMAIN txn[s].writes
    BY <1>5, <2>2 DEF Commit, Remember
  <2>4. txn[r] \in Transaction /\ DOMAIN txn[r].writes \subseteq Keys
        /\ \A k \in DOMAIN txn[r].writes : txn[r].writes[k].time \in Times
    BY <2>2, Busy, RecordsElim DEF Transaction, Record
  <2>5. ASSUME NEW k \in DOMAIN txn[r].writes \ overtaken'[r]
        PROVE  journal'[k] < txn[r].writes[k].time
    <3>1. k \in Keys /\ k \notin DOMAIN txn[s].writes /\ k \notin overtaken[r]
      BY <2>3, <2>4, <2>5
    <3>2. journal'[k] = journal[k] \/ journal'[k] = 0
      BY <1>5, <3>1 DEF Commit, Write, NoEntry
    <3>3. journal[k] < txn[r].writes[k].time
      BY <2>2, <3>1 DEF StillRecent
    <3>4. txn[r].writes[k].time \in Times
      BY <2>4
    <3> QED
      BY <3>2, <3>3, <3>4, TimeAssumption DEF Times
  <2> QED
    BY <2>2, <2>5 DEF StillRecent
<1>6. ASSUME NEW s \in Slots, GiveUp(s)
      PROVE  StillRecent'
  <2> DEFINE new == [op |-> "HandleChanges", writes |-> txn[s].writes, clears |-> txn[s].clears,
                     ourChange |-> NoRecords, lastModified |-> 0]
  <2>1. journal' = journal /\ overtaken' = overtaken /\ txn[s].op \in IfRecent
    BY <1>6 DEF GiveUp, tables, history, IfRecent
  <2>2. new.clears = txn[s].clears /\ new.writes = txn[s].writes
    OBVIOUS
  <2> HIDE DEF new
  <2>3. \A r \in Slots : txn'[r] = IF r = s THEN new ELSE txn[r]
    BY <1>6 DEF GiveUp, TypeOK, new
  <2> QED
    BY <2>1, <2>2, <2>3 DEF StillRecent
<1>7. CASE UNCHANGED vars
  BY <1>7 DEF vars, tables, history, StillRecent
<1> QED
  BY <1>1, <1>2, <1>3, <1>4, <1>5, <1>6, <1>7 DEF Next

\* A step that changes a record and does not make it newer commits a request that
\* does not look at the journal, or that was overtaken on this key.
LEMMA RecentStep ==
    ASSUME TypeOK, StillRecent, [Next]_vars, NEW k \in Keys,
           ~ (row'[k] = row[k] /\ journal'[k] = journal[k]), ~ (journal'[k] > journal[k])
    PROVE  \E s \in Slots : Excused(s, k)
<1>1. PICK s \in Slots : Commit(s)
  BY DEF Next, Tick, Begin, BeginSyncAt, Rollback, GiveUp, vars, tables
<1>2. txn[s] # Idle /\ txn'[s] = Idle /\ txn[s] \in Transaction
  BY <1>1, Busy DEF Commit, TypeOK
<1>3. ASSUME txn[s].op \in IfRecent, k \notin overtaken[s]
      PROVE  FALSE
  <2>1. k \notin DOMAIN txn[s].writes => journal'[k] = journal[k] /\ row'[k] = row[k]
    BY <1>1, <1>3 DEF Commit, Write, StillRecent
  <2>2. k \in DOMAIN txn[s].writes => journal'[k] = txn[s].writes[k].time /\ journal[k] < txn[s].writes[k].time
    BY <1>1, <1>3 DEF Commit, Write, StillRecent
  <2>3. k \in DOMAIN txn[s].writes => txn[s].writes[k].time \in Times
    BY <1>2, RecordsElim DEF Transaction, Record
  <2>4. journal[k] \in 0..MaxTime
    BY DEF TypeOK
  <2> QED
    BY <2>1, <2>2, <2>3, <2>4, TimeAssumption DEF Times
<1> QED
  BY <1>2, <1>3 DEF Excused

\* However requests overlap, a record is replaced by one that is not newer only
\* by the operations that do not look at the journal, or by a request that
\* another one overtook on that key after it had looked: its read takes no lock.
THEOREM OlderWinsOnlyIfOvertaken == Spec => RecentWins
<1>1. Init => TypeOK /\ StillRecent
  BY InitType, InitRecent
<1>2. TypeOK /\ StillRecent /\ [Next]_vars => (TypeOK /\ StillRecent)'
  BY NextType, NextRecent
<1>3. TypeOK /\ StillRecent /\ [Next]_vars
         => [\A k \in Keys :
               \/ journal'[k] > journal[k]
               \/ (row'[k] = row[k] /\ journal'[k] = journal[k])
               \/ \E s \in Slots : Excused(s, k)]_vars
  BY RecentStep
<1> QED
  BY <1>1, <1>2, <1>3, PTL DEF Spec, RecentWins

=============================================================================
