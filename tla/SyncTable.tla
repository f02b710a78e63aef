----------------------------- MODULE SyncTable -----------------------------
(***************************************************************************)
(* The journalled table of one user in the database proxy:                 *)
(* src/go/sql/sync_table.go behind the handlers of                         *)
(* src/go/dbproxy/sync_table.go, for the records of user_device.go.        *)
(*                                                                         *)
(* A request runs one transaction at the default isolation level of MySQL, *)
(* repeatable read: what it reads is a snapshot of the tables, what it     *)
(* writes goes to the rows that are there when it writes them, and a row   *)
(* it wrote stays locked until it commits.  A transaction is therefore     *)
(* two steps: Begin, with all it reads and decides, and Commit, with all   *)
(* it writes; or Rollback.                                                 *)
(*                                                                         *)
(* One replica follows the table with SyncAt: it keeps the lastModified of *)
(* the last answer and overlays the changes it is sent.                    *)
(***************************************************************************)
EXTENDS Integers, FiniteSets

CONSTANTS
    Keys,         \* values of uniqueId
    NoKey,        \* the empty uniqueId
    States,       \* values of the discriminator column, state
    Empty,        \* its empty value, which stands for a deletion in a record
    MaxTime,      \* lastModified and the clock are in 1..MaxTime
    Ops,          \* operations called in this instance
    MaxPush,      \* bound on the records of a request
    Slots         \* requests that can be in progress at the same time

AllOps == {"HandleChanges", "SyncAt", "ReplaceAll", "InsertIfRecent",
           "DeleteIfRecent", "InsertOne", "DeleteOne"}

ASSUME KeyAssumption == NoKey \notin Keys
ASSUME StateAssumption == Empty \notin States
ASSUME TimeAssumption == MaxTime \in Nat \ {0}
ASSUME OpAssumption == Ops \subseteq AllOps
ASSUME PushAssumption == MaxPush \in Nat

Times == 1..MaxTime
Record == [time : Times, state : States \cup {Empty}]

\* No row in the journal.
NoEntry == 0

VARIABLES
    now,      \* the clock of the proxy
    row,      \* table user_device: key -> state; no row reads like Empty
    journal,  \* table user_device_journal: key -> lastModified, or NoEntry
    txn,      \* slot -> the transaction in progress, or Idle
    cursor,   \* the replica: lastModified of the last answer to SyncAt
    mirror,   \* the replica: key -> the record it was last sent
    \* History, which only the properties read.
    late,     \* keys whose last change has a time the replica had already reached
    overtaken \* slot -> keys that others wrote since its transaction looked

tables == <<row, journal>>
replica == <<cursor, mirror>>
history == <<late, overtaken>>
vars == <<now, tables, txn, replica, history>>

Idle == [op |-> "none"]
NoRecords == [k \in {} |-> Empty]

\* Records by key: what a request pushes, writes or is sent.  Two changes to
\* one key in a push amount to the one that is written last.
Records == UNION {[K -> Record] : K \in SUBSET Keys}
Pushes == UNION {[K -> Record] : K \in {K \in SUBSET (Keys \cup {NoKey}) : Cardinality(K) <= MaxPush}}

\* What a transaction has decided to write, whether it clears the tables first,
\* and for SyncAt the two results it has read, ourChange and lastModified.
Transaction == [op : AllOps, writes : Records, clears : BOOLEAN,
                ourChange : Records, lastModified : 0..MaxTime]

TypeOK ==
    /\ now \in Times
    /\ row \in [Keys -> States \cup {Empty}]
    /\ journal \in [Keys -> 0..MaxTime]
    /\ txn \in [Slots -> Transaction \cup {Idle}]
    /\ cursor \in 0..MaxTime
    /\ mirror \in [Keys -> [time : 0..MaxTime, state : States \cup {Empty}]]
    /\ late \subseteq Keys
    /\ overtaken \in [Slots -> SUBSET Keys]

Init ==
    /\ now = 1
    /\ row = [k \in Keys |-> Empty]
    /\ journal = [k \in Keys |-> NoEntry]
    /\ txn = [s \in Slots |-> Idle]
    /\ cursor = 0
    /\ mirror = [k \in Keys |-> [time |-> NoEntry, state |-> Empty]]
    /\ late = {}
    /\ overtaken = [s \in Slots |-> {}]

-----------------------------------------------------------------------------
(* What a transaction reads and decides *)

\* What a request of each kind can carry.  The key of a single-row operation
\* is in its URL and not empty; InsertOne and DeleteOne take the time of the
\* proxy; a deletion carries no state.
Carries(op, push) ==
    /\ op \notin {"HandleChanges", "SyncAt", "ReplaceAll"} => \E k \in Keys : DOMAIN push = {k}
    /\ op \in {"InsertOne", "DeleteOne"} => \A k \in DOMAIN push : push[k].time = now
    /\ op \in {"DeleteIfRecent", "DeleteOne"} => \A k \in DOMAIN push : push[k].state = Empty

IfRecent == {"HandleChanges", "SyncAt", "InsertIfRecent", "DeleteIfRecent"}

\* Mutant of Recent: a record of the same time is taken as well.
Recent_NotOlder(push, k) == journal[k] <= push[k].time

\* insertIfRecent and deleteIfRecent: the journal has no entry for the key or an
\* older one.
Recent(push, k) == journal[k] < push[k].time

\* The keys the request will write.  Records without a key are skipped, and
\* ReplaceAll skips those without a state.
Written(op, push) ==
    {k \in DOMAIN push \ {NoKey} :
        /\ op \in IfRecent => Recent(push, k)
        /\ op = "ReplaceAll" => push[k].state # Empty}

\* The join of the journal with the table, for what is newer than "since".
getChangesAfter(since) ==
    [k \in {k \in Keys : journal[k] > since} |-> [time |-> journal[k], state |-> row[k]]]

\* getLastModified: the maximum of the journal, or 0.
IsLastModified(t) ==
    /\ t = 0 \/ \E k \in Keys : journal[k] = t
    /\ \A k \in Keys : journal[k] <= t

\* The transaction begins.  ReplaceAll without records does nothing, and with
\* records it deletes all rows and journal entries before it inserts.
Begin(s, op, push) ==
    /\ txn[s] = Idle
    /\ op # "SyncAt" /\ Carries(op, push)
    /\ txn' = [txn EXCEPT ![s] =
                 [op |-> op, writes |-> [k \in Written(op, push) |-> push[k]],
                  clears |-> op = "ReplaceAll" /\ DOMAIN push # {},
                  ourChange |-> NoRecords, lastModified |-> 0]]
    /\ UNCHANGED <<now, tables, replica, history>>

\* SyncAt reads the changes and the latest time before it handles the pushed
\* changes.  The replica has one request in progress at a time.
BeginSyncAt(s, push) ==
    /\ txn[s] = Idle /\ \A other \in Slots : txn[other].op # "SyncAt"
    /\ "SyncAt" \in Ops /\ Carries("SyncAt", push)
    /\ \E t \in 0..MaxTime :
          /\ IsLastModified(t)
          /\ txn' = [txn EXCEPT ![s] =
                       [op |-> "SyncAt", writes |-> [k \in Written("SyncAt", push) |-> push[k]],
                        clears |-> FALSE, ourChange |-> getChangesAfter(cursor), lastModified |-> t]]
    /\ UNCHANGED <<now, tables, replica, history>>

-----------------------------------------------------------------------------
(* How it ends *)

\* The handler answers with an error and nothing is written.
Rollback(s) ==
    /\ txn[s] # Idle
    /\ txn' = [txn EXCEPT ![s] = Idle]
    /\ overtaken' = [overtaken EXCEPT ![s] = {}]
    /\ UNCHANGED <<now, tables, replica, late>>

\* The replica does not wait for the answer any more; the transaction goes on.
GiveUp(s) ==
    /\ txn[s].op = "SyncAt"
    /\ txn' = [txn EXCEPT ![s] =
                 [op |-> "HandleChanges", writes |-> txn[s].writes, clears |-> txn[s].clears,
                  ourChange |-> NoRecords, lastModified |-> 0]]
    /\ UNCHANGED <<now, tables, replica, history>>

\* Mutant of Write: the columns of the two tables are swapped.
Write_Swapped(x) ==
    /\ row' = [k \in Keys |-> IF k \in DOMAIN x.writes THEN x.writes[k].time
                              ELSE IF x.clears THEN Empty ELSE row[k]]
    /\ journal' = [k \in Keys |-> IF k \in DOMAIN x.writes THEN x.writes[k].state
                                  ELSE IF x.clears THEN NoEntry ELSE journal[k]]

\* The statements of insert and delete for every key written.
Write(x) ==
    /\ row' = [k \in Keys |-> IF k \in DOMAIN x.writes THEN x.writes[k].state
                              ELSE IF x.clears THEN Empty ELSE row[k]]
    /\ journal' = [k \in Keys |-> IF k \in DOMAIN x.writes THEN x.writes[k].time
                                  ELSE IF x.clears THEN NoEntry ELSE journal[k]]

\* Mutant of Answer: the latest time is read after the transaction.
Answer_LateMax(x) ==
    /\ \E t \in 0..MaxTime : IsLastModified(t) /\ cursor' = t
    /\ mirror' = [k \in Keys |-> IF k \in DOMAIN x.ourChange THEN x.ourChange[k] ELSE mirror[k]]

\* The answer to SyncAt reaches the replica.
Answer(x) ==
    /\ cursor' = x.lastModified
    /\ mirror' = [k \in Keys |-> IF k \in DOMAIN x.ourChange THEN x.ourChange[k] ELSE mirror[k]]

\* The replica was answered, or is about to be answered, that it has everything
\* up to t.
HasReached(t) ==
    \/ t <= cursor
    \/ \E s \in Slots : txn[s].op = "SyncAt" /\ t <= txn[s].lastModified

\* History of a commit in slot s.  Nothing in the code keeps the times of what is
\* committed in order: they are taken before the write, or come from devices.
Remember(s) ==
    LET x == txn[s] IN
    /\ late' = {k \in Keys : IF k \in DOMAIN x.writes THEN HasReached(x.writes[k].time) ELSE k \in late}
    /\ overtaken' = [r \in Slots |-> IF r = s \/ txn[r] = Idle THEN {}
                                     ELSE overtaken[r] \cup DOMAIN x.writes]

Commit(s) ==
    /\ txn[s] # Idle
    /\ Write(txn[s])
    /\ txn' = [txn EXCEPT ![s] = Idle]
    /\ IF txn[s].op = "SyncAt" THEN Answer(txn[s]) ELSE UNCHANGED replica
    /\ Remember(s)
    /\ UNCHANGED now

Tick ==
    /\ now < MaxTime
    /\ now' = now + 1
    /\ UNCHANGED <<tables, txn, replica, history>>

Next ==
    \/ Tick
    \/ \E s \in Slots :
          \/ \E push \in Pushes : BeginSyncAt(s, push) \/ \E op \in Ops : Begin(s, op, push)
          \/ Rollback(s) \/ GiveUp(s) \/ Commit(s)

Spec == Init /\ [][Next]_vars

-----------------------------------------------------------------------------
(* Properties *)

\* What SyncAt answers is enough for a replica to follow the table: it has the
\* current record of every key that changed no later than the lastModified it
\* was given, whatever was pushed, committed or replaced while its requests were
\* in progress.  Not of a key whose last change was committed with a time that
\* the replica had reached before (late): that change is never delivered.
ReplicaFollows ==
    \A k \in Keys \ late :
        journal[k] # NoEntry /\ journal[k] <= cursor
            => mirror[k] = [time |-> journal[k], state |-> row[k]]

\* sync_table_test.go: "Test if not recent": InsertIfRecent, and so
\* DeleteIfRecent, HandleChanges and SyncAt, never replace a record by one that
\* is not newer, however requests overlap, but for the keys that another request
\* wrote after this one looked at the journal, which it reads without a lock.
\* InsertOne, DeleteOne and ReplaceAll do not look.
Excused(s, k) ==
    /\ txn[s] # Idle /\ txn'[s] = Idle
    /\ txn[s].op \notin IfRecent \/ k \in overtaken[s]
RecentWins ==
    [][\A k \in Keys :
          \/ journal'[k] > journal[k]
          \/ (row'[k] = row[k] /\ journal'[k] = journal[k])
          \/ \E s \in Slots : Excused(s, k)]_vars

=============================================================================
