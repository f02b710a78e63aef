------------------------------ MODULE UserMutex ------------------------------
(***************************************************************************)
(* What the per-user locks of the engine manager promise: the operations   *)
(* of a user end in the order in which they asked for the lock, so that    *)
(* only the earliest of them, the holder, can end.                         *)
(***************************************************************************)
EXTENDS Naturals

CONSTANTS Users,
          Operations \* numbers of operations, in the order of their calls
VARIABLE pending     \* user -> the operations that hold or await the lock

Init == pending = [u \in Users |-> {}]

\* The one that asked first.
Holder(u) == {op \in pending[u] : \A other \in pending[u] : op <= other}

\* An operation of user u asks for the lock, after all that still wait for it.
Enter(u, op) ==
    /\ \A other \in pending[u] : other < op
    /\ pending' = [pending EXCEPT ![u] = @ \cup {op}]

\* The holders of the locks of the users U release them.
Leave(U) ==
    /\ \A u \in U : Holder(u) # {}
    /\ pending' = [u \in Users |-> IF u \in U THEN pending[u] \ Holder(u) ELSE pending[u]]

Next == \/ \E u \in Users, op \in Operations : Enter(u, op)
        \/ \E U \in SUBSET Users : Leave(U)

Spec == Init /\ [][Next]_pending

=============================================================================
