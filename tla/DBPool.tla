------------------------------ MODULE DBPool ------------------------------
(***************************************************************************)
(* Database connections of the website (util/db.ts): a pool with a limit  *)
(* on the connections it keeps (external), withClient and                 *)
(* withTransaction around it.  A failed transaction is rolled back, which *)
(* releases the connection, and then destroyed by the outer handler,      *)
(* before the pool's next waiter runs.                                    *)
(***************************************************************************)
EXTENDS Naturals, Sequences, FiniteSets

CONSTANTS NoConn, NoClient,   \* model values
          Conns,              \* connections over a behaviour
          Limit,              \* connectionLimit of the pool
          Clients             \* concurrent callers of withClient and withTransaction

VARIABLES conn,          \* connection -> "new", "free", "used", "destroyed"
          tx,            \* connection -> the client whose transaction is open on it
          at,            \* client -> "idle", "waiting", "got", "work", "rollback"
          held,          \* client -> the connection it was given
          mode,          \* client -> "client" or "transaction"
          queue          \* clients waiting for a connection, in order

dvars == <<conn, tx, at, held, mode, queue>>

DTypeOK ==
    /\ conn \in [Conns -> {"new", "free", "used", "destroyed"}]
    /\ tx \in [Conns -> Clients \cup {NoClient}]
    /\ at \in [Clients -> {"idle", "waiting", "got", "work", "rollback"}]
    /\ held \in [Clients -> Conns \cup {NoConn}]
    /\ mode \in [Clients -> {"client", "transaction"}]
    /\ \A k \in DOMAIN queue : at[queue[k]] = "waiting"

DInit ==
    /\ conn = [c \in Conns |-> "new"]
    /\ tx = [c \in Conns |-> NoClient]
    /\ at = [p \in Clients |-> "idle"]
    /\ held = [p \in Clients |-> NoConn]
    /\ mode = [p \in Clients |-> "client"]
    /\ queue = <<>>

Alive == {c \in Conns : conn[c] \in {"free", "used"}}
\* A connection the pool can hand out: a free one, else a new one if the limit
\* allows it (external).
Available(c) ==
    \/ conn[c] = "free"
    \/ /\ conn[c] = "new" /\ Cardinality(Alive) < Limit
       /\ \A d \in Conns : conn[d] # "free"

\* connect(): a connection, or a place in the pool's queue.
Connect(p, m) ==
    /\ at[p] = "idle"
    /\ mode' = [mode EXCEPT ![p] = m]
    /\ \/ \E c \in Conns :
            /\ Available(c) /\ queue = <<>>
            /\ conn' = [conn EXCEPT ![c] = "used"]
            /\ held' = [held EXCEPT ![p] = c]
            /\ at' = [at EXCEPT ![p] = "got"]
            /\ UNCHANGED queue
       \/ /\ queue # <<>> \/ \A c \in Conns : ~Available(c)
          /\ at' = [at EXCEPT ![p] = "waiting"]
          /\ queue' = Append(queue, p)
          /\ UNCHANGED <<conn, held>>
    /\ UNCHANGED tx

\* The pool opens a connection for the first waiter after one was destroyed.
PoolOpens(c) ==
    /\ queue # <<>> /\ Available(c)
    /\ conn' = [conn EXCEPT ![c] = "used"]
    /\ held' = [held EXCEPT ![Head(queue)] = c]
    /\ at' = [at EXCEPT ![Head(queue)] = "got"]
    /\ queue' = Tail(queue)
    /\ UNCHANGED <<tx, mode>>

\* The end of p's use of its connection: released to the first waiter or to the
\* free ones, and destroyed afterwards when `broken`.
Gives(p, broken) ==
    LET c == held[p]
        next == IF queue = <<>> THEN NoClient ELSE Head(queue)
    IN  /\ conn' = [conn EXCEPT ![c] = CASE broken -> "destroyed"
                                         [] next = NoClient -> "free"
                                         [] OTHER -> "used"]
        /\ held' = [q \in Clients |-> CASE q = p -> NoConn
                                        [] q = next -> c
                                        [] OTHER -> held[q]]
        /\ at' = [q \in Clients |-> CASE q = p -> "idle"
                                      [] q = next -> "got"
                                      [] OTHER -> at[q]]
        /\ queue' = IF next = NoClient THEN queue ELSE Tail(queue)

\* done(error) without a release before it: destroy only.
Destroys(p) ==
    /\ conn' = [conn EXCEPT ![held[p]] = "destroyed"]
    /\ held' = [held EXCEPT ![p] = NoConn]
    /\ at' = [at EXCEPT ![p] = "idle"]
    /\ UNCHANGED queue

\* withClient: the callback runs its queries and settles either way, done(),
\* which has no effect on a destroyed connection.
ClientDone(p) ==
    /\ at[p] = "got" /\ mode[p] = "client"
    /\ IF conn[held[p]] = "used" THEN Gives(p, FALSE) ELSE Destroys(p)
    /\ UNCHANGED <<tx, mode>>

\* withTransaction: set transaction, start transaction; an error destroys the
\* connection.  Queries on a destroyed connection fail.
Begin(p) ==
    /\ at[p] = "got" /\ mode[p] = "transaction"
    /\ \/ /\ conn[held[p]] = "used"
          /\ tx' = [tx EXCEPT ![held[p]] = p]
          /\ at' = [at EXCEPT ![p] = "work"]
          /\ UNCHANGED <<conn, held, queue>>
       \/ Destroys(p) /\ UNCHANGED tx
    /\ UNCHANGED mode

\* The body and the commit succeed: done().
Commit(p) ==
    /\ at[p] = "work" /\ conn[held[p]] = "used"
    /\ tx' = [tx EXCEPT ![held[p]] = NoClient]
    /\ Gives(p, FALSE)
    /\ UNCHANGED mode

\* The body throws, or the commit fails.
Throws_Mut(p) ==
    /\ at[p] = "work"
    /\ Gives(p, FALSE)
    /\ UNCHANGED <<tx, mode>>
Throws(p) ==
    /\ at[p] = "work"
    /\ at' = [at EXCEPT ![p] = "rollback"]
    /\ UNCHANGED <<conn, tx, held, mode, queue>>

\* rollback: done() when it worked and then, from the outer handler,
\* done(error); only done(error) when it failed.
Rollback(p) ==
    /\ at[p] = "rollback"
    /\ \/ /\ conn[held[p]] = "used"
          /\ tx' = [tx EXCEPT ![held[p]] = NoClient]
          /\ Gives(p, TRUE)
       \/ Destroys(p) /\ UNCHANGED tx
    /\ UNCHANGED mode

DNext ==
    \/ \E p \in Clients :
         \/ ClientDone(p) \/ Begin(p) \/ Commit(p) \/ Throws(p) \/ Rollback(p)
         \/ \E m \in {"client", "transaction"} : Connect(p, m)
    \/ \E c \in Conns : PoolOpens(c)

DSpec == DInit /\ [][DNext]_dvars

----------------------------------------------------------------------------
\* Whoever is given a connection finds no transaction of somebody else on it,
\* and is the only one who has it: every way out of withTransaction (commit,
\* rollback, failed rollback) closes the transaction or the connection before
\* another client can use it (withTransaction and rollback, db.ts).
CleanHandover ==
    \A p \in Clients : held[p] # NoConn =>
        /\ tx[held[p]] \in {p, NoClient}
        /\ \A q \in Clients \ {p} : held[q] # held[p]
=============================================================================
