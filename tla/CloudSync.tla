----------------------------- MODULE CloudSync -----------------------------
(***************************************************************************)
(* The synchronization websocket of a device (routes/cloud-sync.ts) and   *)
(* its counterpart in the engine (WebSocketApi and WebSocketWrapper of    *)
(* almond/platform.ts).  The website buffers what the device sends until  *)
(* the engine has answered newConnection, then relays call by call; calls *)
(* to the engine travel in order on one socket.                           *)
(***************************************************************************)
EXTENDS Naturals, Sequences, SequencesExt

CONSTANTS MaxSync        \* messages the device sends

VARIABLES ws,            \* the device's websocket is open
          phase,         \* "engine", "connecting", "flushing", "live", "failed"
          listener,      \* onclosed is on the manager's socket-closed
          buffer,        \* _buffer
          remote,        \* _remote is set and its close handler attached
          flushed,       \* messages of the buffer handed to the engine
          waiting,       \* the flush awaits the engine's answer
          calls,         \* calls on their way to the engine
          engineUp,
          wrapper,       \* "none", "open", "closed": the engine's WebSocketWrapper
          received,      \* messages the website has taken from the device
          relayed        \* messages emitted in the engine

csvars == <<ws, phase, listener, buffer, remote, flushed, waiting, calls, engineUp,
            wrapper, received, relayed>>

\* The calls that are not onMessage.
NewConnection == 0
OnClose == MaxSync + 1

CSTypeOK ==
    /\ ws \in BOOLEAN /\ listener \in BOOLEAN /\ remote \in BOOLEAN
    /\ waiting \in BOOLEAN /\ engineUp \in BOOLEAN
    /\ phase \in {"engine", "connecting", "flushing", "live", "failed"}
    /\ wrapper \in {"none", "open", "closed"}
    /\ received \in 0..MaxSync
    /\ flushed \in 0..Len(buffer)

CSInit ==
    /\ ws = TRUE /\ phase = "engine" /\ listener = FALSE
    /\ buffer = <<>> /\ remote = FALSE /\ flushed = 0 /\ waiting = FALSE
    /\ calls = <<>> /\ engineUp = TRUE /\ wrapper = "none"
    /\ received = 0 /\ relayed = <<>>

\* The close event: the engine is told if the second handler is attached.
CloseWs(send) ==
    /\ ws' = FALSE
    /\ calls' = IF ws /\ remote /\ send THEN Append(calls, OnClose) ELSE calls

\* A message of the device: relayed if the engine is connected (a failed call
\* closes the websocket), else kept.
Message_Mut ==
    /\ ws /\ received < MaxSync
    /\ received' = received + 1
    /\ calls' = IF remote THEN Append(calls, received + 1) ELSE calls
    /\ UNCHANGED <<ws, phase, listener, buffer, remote, flushed, waiting, engineUp, wrapper, relayed>>
Message ==
    /\ ws /\ received < MaxSync
    /\ received' = received + 1
    /\ CASE ~remote ->
              /\ buffer' = Append(buffer, received + 1)
              /\ UNCHANGED <<ws, calls>>
         [] remote /\ engineUp ->
              /\ calls' = Append(calls, received + 1)
              /\ UNCHANGED <<ws, buffer>>
         [] remote /\ ~engineUp ->
              /\ ws' = FALSE
              /\ UNCHANGED <<calls, buffer>>
    /\ UNCHANGED <<phase, listener, remote, flushed, waiting, engineUp, wrapper, relayed>>

\* setUser: the engine is there, newConnection is called.
GotEngine ==
    /\ phase = "engine" /\ engineUp
    /\ phase' = "connecting" /\ listener' = TRUE
    /\ calls' = Append(calls, NewConnection)
    /\ UNCHANGED <<ws, buffer, remote, flushed, waiting, engineUp, wrapper, received, relayed>>

\* setUser: getEngine failed.
NoEngine ==
    /\ phase = "engine" /\ ~engineUp
    /\ phase' = "failed" /\ CloseWs(FALSE)
    /\ UNCHANGED <<listener, buffer, remote, flushed, waiting, engineUp, wrapper, received, relayed>>

\* The engine takes the next call: newConnection makes the wrapper, onMessage
\* emits the message, onClose frees both ends.
EngineServes ==
    /\ engineUp /\ calls # <<>>
    /\ calls' = Tail(calls)
    /\ CASE Head(calls) = NewConnection -> wrapper' = "open" /\ UNCHANGED <<relayed, waiting>>
         [] Head(calls) = OnClose -> wrapper' = "closed" /\ UNCHANGED <<relayed, waiting>>
         [] OTHER ->
              /\ relayed' = Append(relayed, Head(calls))
              /\ waiting' = (waiting /\ Head(calls) # buffer[flushed])
              /\ UNCHANGED wrapper
    /\ UNCHANGED <<ws, phase, listener, buffer, remote, flushed, engineUp, received>>

\* setRemote: from here messages go straight to the engine, and the buffer is
\* sent one answered call at a time.
SetRemote ==
    /\ phase = "connecting" /\ wrapper = "open" /\ engineUp
    /\ phase' = "flushing" /\ remote' = TRUE
    /\ UNCHANGED <<ws, listener, buffer, flushed, waiting, calls, engineUp, wrapper, received, relayed>>

FlushNext ==
    /\ phase = "flushing" /\ ~waiting /\ engineUp
    /\ IF flushed < Len(buffer)
       THEN /\ flushed' = flushed + 1
            /\ waiting' = TRUE
            /\ calls' = Append(calls, buffer[flushed + 1])
            /\ UNCHANGED phase
       ELSE /\ phase' = "live"
            /\ UNCHANGED <<flushed, waiting, calls>>
    /\ UNCHANGED <<ws, listener, buffer, remote, engineUp, wrapper, received, relayed>>

\* The device goes away, or the websocket has an error.
DeviceCloses ==
    /\ ws /\ CloseWs(engineUp)
    /\ UNCHANGED <<phase, listener, buffer, remote, flushed, waiting, engineUp, wrapper, received, relayed>>

\* The engine's socket closes: pending calls are rejected (setUser then closes
\* the websocket), and socket-closed closes it if the handler is still there.
EngineLost ==
    /\ engineUp
    /\ engineUp' = FALSE
    /\ wrapper' = IF wrapper = "open" THEN "closed" ELSE wrapper
    /\ calls' = <<>> /\ waiting' = FALSE
    /\ listener' = FALSE
    /\ IF phase \in {"connecting", "flushing"}
       THEN phase' = "failed" /\ ws' = FALSE
       ELSE phase' = phase /\ ws' = (ws /\ ~listener)
    /\ UNCHANGED <<buffer, remote, flushed, received, relayed>>

\* The socket of another user's engine closes: the handler removes itself.
OtherSocketClosed ==
    /\ listener
    /\ listener' = FALSE
    /\ UNCHANGED <<ws, phase, buffer, remote, flushed, waiting, calls, engineUp, wrapper, received, relayed>>

CSNext ==
    \/ Message \/ GotEngine \/ NoEngine \/ EngineServes \/ SetRemote \/ FlushNext
    \/ DeviceCloses \/ EngineLost \/ OtherSocketClosed

CSSpec == CSInit /\ [][CSNext]_csvars

----------------------------------------------------------------------------
\* While the engine lives, every message taken from the device is emitted in
\* the engine, on its way there, or still in the buffer, and is in one of these
\* places only; and messages that found the engine connected keep their order
\* among themselves (the message handler and setRemote, cloud-sync.ts).
SyncRelayed ==
    LET sent == relayed \o calls
        at == {i \in DOMAIN sent : sent[i] \notin {NewConnection, OnClose}}
        kept == (flushed + 1)..Len(buffer)
        Late(i) == ~Contains(buffer, sent[i])
    IN  engineUp =>
          /\ {sent[i] : i \in at} \cup {buffer[k] : k \in kept} = 1..received
          /\ \A i, j \in at : sent[i] = sent[j] => i = j
          /\ \A j, k \in kept : buffer[j] = buffer[k] => j = k
          /\ \A i \in at, k \in kept : sent[i] # buffer[k]
          /\ \A i, j \in at : i < j /\ Late(i) /\ Late(j) => sent[i] < sent[j]
=============================================================================
