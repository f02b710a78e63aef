------------------------------ MODULE Framing ------------------------------
(***************************************************************************)
(* The two adapters that carry every remote call of the system: JSON text *)
(* over a byte stream (util/json_datagram_socket.ts), cut by the network  *)
(* wherever it likes, and JSON text in WebSocket frames                   *)
(* (util/json_websocket.ts).  One direction of one connection: a writer,  *)
(* the bytes in transit, a reader.  Message i is an object, so its text   *)
(* has no proper prefix that parses; two bytes stand for it.              *)
(***************************************************************************)
EXTENDS Naturals, FiniteSets, Sequences, SequencesExt

CONSTANTS MaxMessage     \* messages written on the connection

VARIABLES kind,          \* "datagram" or "websocket"
          writer,        \* the sender still has its _writer (or socket)
          reader,        \* the receiver still has its _reader (or socket)
          sent,          \* messages written so far
          arrived,       \* bytes (or frames) the reader has been given
          wire,          \* bytes (or frames) in transit
          partial,       \* _partialMessage
          got            \* messages emitted to the receiver, in order

fvars == <<kind, writer, reader, sent, arrived, wire, partial, got>>

NL == <<0, 0>>
Text(i) == <<<<i, 1>>, <<i, 2>>>>

FTypeOK ==
    /\ kind \in {"datagram", "websocket"}
    /\ writer \in BOOLEAN /\ reader \in BOOLEAN
    /\ sent \in 0..MaxMessage
    /\ arrived \in Nat
    /\ Len(partial) <= 2
    /\ \A k \in DOMAIN got : got[k] \in 1..MaxMessage

FInit ==
    /\ kind \in {"datagram", "websocket"}
    /\ writer = TRUE /\ reader = TRUE
    /\ sent = 0 /\ arrived = 0
    /\ wire = <<>> /\ partial = <<>> /\ got = <<>>

\* JSON.parse succeeds: the text of one whole message.
Parses(t) == \E i \in 1..MaxMessage : t = Text(i)

\* The numbers of S in order: the k-th has k of them up to it.
InOrder(S) ==
    [k \in 1..Cardinality(S) |-> CHOOSE i \in S : Cardinality({j \in S : j <= i}) = k]

\* this._partialMessage.split('\n')
SplitLines(t) ==
    LET nls == InOrder({k \in 1..Len(t) : t[k] = NL})
        ends == nls \o <<Len(t) + 1>>
        From(k) == IF k = 1 THEN 1 ELSE ends[k - 1] + 1
    IN  [k \in 1..Len(ends) |-> SubSeq(t, From(k), ends[k] - 1)]

\* The lines that parse, as the messages they are: empty lines and lines that
\* do not parse are skipped.
Messages(lines) ==
    LET good == InOrder({k \in DOMAIN lines : Parses(lines[k])})
    IN  [k \in DOMAIN good |-> lines[good[k]][1][1]]

\* What a read of `t` leaves to deliver and what it keeps: every complete
\* line, and the last piece as soon as it parses without its newline.
TryReadMessage_Mut(t) ==
    LET lines == SplitLines(t)
    IN  [msgs |-> Messages(lines), rest |-> Last(lines)]
TryReadMessage(t) ==
    LET lines == SplitLines(t)
    IN  [msgs |-> Messages(lines),
         rest |-> IF Parses(Last(lines)) THEN <<>> ELSE Last(lines)]

\* JsonDatagramSocket.write: the text, then the newline; nothing once the
\* writer is gone.
Write ==
    /\ kind = "datagram" /\ sent < MaxMessage /\ writer
    /\ sent' = sent + 1
    /\ wire' = wire \o Text(sent + 1) \o <<NL>>
    /\ UNCHANGED <<kind, writer, reader, arrived, partial, got>>

\* The stream hands over the next n bytes.
Data(n) ==
    /\ kind = "datagram" /\ reader
    /\ LET r == TryReadMessage(partial \o SubSeq(wire, 1, n))
       IN  /\ got' = got \o r.msgs
           /\ partial' = r.rest
    /\ arrived' = arrived + n
    /\ wire' = SubSeq(wire, n + 1, Len(wire))
    /\ UNCHANGED <<kind, writer, reader, sent>>

\* JsonWebSocketAdapter.write: one frame per message.
WriteFrame ==
    /\ kind = "websocket" /\ sent < MaxMessage /\ writer
    /\ sent' = sent + 1
    /\ wire' = Append(wire, Text(sent + 1))
    /\ UNCHANGED <<kind, writer, reader, arrived, partial, got>>

DataFrame ==
    /\ kind = "websocket" /\ reader /\ wire # <<>>
    /\ got' = Append(got, Head(wire)[1][1])
    /\ arrived' = arrived + 1
    /\ wire' = Tail(wire)
    /\ UNCHANGED <<kind, writer, reader, sent, partial>>

\* end(): what was written is still sent.
End ==
    /\ writer
    /\ writer' = FALSE
    /\ UNCHANGED <<kind, reader, sent, arrived, wire, partial, got>>

\* destroy() on the sending side: what the socket has not sent is lost.
DestroyWriter(n) ==
    /\ writer
    /\ writer' = FALSE
    /\ wire' = SubSeq(wire, 1, n)
    /\ UNCHANGED <<kind, reader, sent, arrived, partial, got>>

\* destroy() on the receiving side: no data event after it.
DestroyReader ==
    /\ reader
    /\ reader' = FALSE
    /\ UNCHANGED <<kind, writer, sent, arrived, wire, partial, got>>

FNext ==
    \/ Write \/ WriteFrame \/ DataFrame \/ End \/ DestroyReader
    \/ \E n \in 1..Len(wire) : Data(n)
    \/ \E n \in 0..Len(wire) : DestroyWriter(n)

FSpec == FInit /\ [][FNext]_fvars

----------------------------------------------------------------------------
\* A message is delivered exactly once, in the order written, as soon as its
\* last byte is there and whatever the cuts: the early parse of a text whose
\* newline is still on its way neither repeats nor swallows a message, and a
\* connection cut in the middle of a text delivers no part of it
\* (_tryReadMessage, json_datagram_socket.ts).
FramingExact ==
    LET whole == IF kind = "datagram" THEN (arrived + 1) \div 3 ELSE arrived
    IN  got = [k \in 1..whole |-> k]
=============================================================================
