---------------------------- MODULE Preferences ----------------------------
(***************************************************************************)
(* The preferences of one engine (almond/preferences.ts): a copy in       *)
(* memory, read synchronously, and a row per key behind the database      *)
(* proxy, written by requests nobody waits for.  A request carries the    *)
(* value the key had when it was sent; requests arrive in any order, may  *)
(* be lost (the error is only logged), and outlive the process.           *)
(***************************************************************************)
EXTENDS Naturals, FiniteSets

CONSTANTS Undefined,     \* model value: no value, no row
          Keys,
          Values,
          MaxFlush,      \* requests over a behaviour
          MaxStarts      \* times the engine process is started

VARIABLES alive,         \* "down", "loading", "up"
          data,          \* _data
          row,           \* the user_preference rows
          flights,       \* requests on their way: [id, key, value]
          sure,          \* key -> its last request was alone and has not failed
          flushes, starts

pvars == <<alive, data, row, flights, sure, flushes, starts>>

PTypeOK ==
    /\ alive \in {"down", "loading", "up"}
    /\ data \in [Keys -> Values \cup {Undefined}]
    /\ row \in [Keys -> Values \cup {Undefined}]
    /\ \A f \in flights : f.key \in Keys /\ f.value \in Values \cup {Undefined}
    /\ sure \in [Keys -> BOOLEAN]

PInit ==
    /\ alive = "down"
    /\ data = [k \in Keys |-> Undefined]
    /\ row \in [Keys -> Values \cup {Undefined}]
    /\ flights = {}
    /\ sure = [k \in Keys |-> TRUE]
    /\ flushes = 0 /\ starts = 0

InFlight(k) == {f \in flights : f.key = k}

\* _flush: the value is read and put in the request before anything is awaited.
\* An undefined value becomes a DELETE, any other a POST.
Flush(k, v) ==
    /\ flushes < MaxFlush
    /\ flushes' = flushes + 1
    /\ flights' = flights \cup {[id |-> flushes, key |-> k, value |-> v]}
    /\ sure' = [sure EXCEPT ![k] = (InFlight(k) = {})]

\* The platform of a new process, with an empty cache.
Construct ==
    /\ alive = "down" /\ starts < MaxStarts
    /\ alive' = "loading"
    /\ starts' = starts + 1
    /\ data' = [k \in Keys |-> Undefined]
    /\ UNCHANGED <<row, flights, sure, flushes>>

\* Platform.init: every row is read into the cache.  A request of the previous
\* process that is still on its way is applied after this read.
ReadRows ==
    /\ alive = "loading"
    /\ alive' = "up"
    /\ data' = row
    /\ sure' = [k \in Keys |-> InFlight(k) = {}]
    /\ UNCHANGED <<row, flights, flushes, starts>>

\* set(key, value); also an object changed in place and then changed(key).
Set(k, v) ==
    /\ alive = "up"
    /\ data' = [data EXCEPT ![k] = v]
    /\ Flush(k, v)
    /\ UNCHANGED <<alive, row, starts>>

Delete_Mut(k) ==
    /\ alive = "up"
    /\ data' = [data EXCEPT ![k] = Undefined]
    /\ UNCHANGED <<alive, row, starts, flights, sure, flushes>>
Delete(k) ==
    /\ alive = "up"
    /\ data' = [data EXCEPT ![k] = Undefined]
    /\ Flush(k, Undefined)
    /\ UNCHANGED <<alive, row, starts>>

\* The database proxy serves a request (external).
Serve(f) ==
    /\ row' = [row EXCEPT ![f.key] = f.value]
    /\ flights' = flights \ {f}
    /\ UNCHANGED <<alive, data, sure, flushes, starts>>

\* A request fails: a line in the log.
FlushFails(f) ==
    /\ flights' = flights \ {f}
    /\ sure' = [sure EXCEPT ![f.key] = FALSE]
    /\ UNCHANGED <<alive, data, row, flushes, starts>>

\* The engine process dies.
EngineDown ==
    /\ alive # "down"
    /\ alive' = "down"
    /\ UNCHANGED <<data, row, flights, sure, flushes, starts>>

PNext ==
    \/ Construct \/ ReadRows \/ EngineDown
    \/ \E k \in Keys : Delete(k) \/ \E v \in Values : Set(k, v)
    \/ \E f \in flights : Serve(f) \/ FlushFails(f)

PSpec == PInit /\ [][PNext]_pvars

----------------------------------------------------------------------------
\* What the engine reads is what a restart will read: once the last request of
\* a key has been answered, and it neither failed nor overlapped another
\* request of the key (of this process or of the one before), the row holds the
\* cached value (_flush and init, preferences.ts).
PreferenceSaved ==
    \A k \in Keys : alive = "up" /\ InFlight(k) = {} /\ sure[k] => row[k] = data[k]
=============================================================================
