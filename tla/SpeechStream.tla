---------------------------- MODULE SpeechStream ----------------------------
(***************************************************************************)
(* One voice session: the websocket of nlp/voice/index.ts (streamSTT) and *)
(* the recognizer session of nlp/voice/backend-microsoft.ts               *)
(* (recognizeStream).  The speech service is external: it starts or fails *)
(* to start a session, recognizes text or nothing, and ends the session   *)
(* after its input is closed.                                             *)
(***************************************************************************)
EXTENDS Naturals

CONSTANTS MaxAudio       \* audio packets of the client

VARIABLES ws,            \* "open" or "closed"
          sessionTimeout,\* the 5 s timer is pending
          listening,     \* "initial", "audio", "none": the message handler
          starting,      \* "no", "pending", "started", "failed": the recognizer's start
          timer,         \* timerLastFrame is running
          lastFC,        \* ticks of it since the last audio
          ended,         \* _ended
          push,          \* the push stream is open
          service,       \* "off", "on", "over": the service's session
          stopping,      \* stopContinuousRecognitionAsync calls not answered
          text,          \* something was recognized
          settled,       \* "no", "text", "error": the promise of recognizeStream
          answers,       \* answers sent on the websocket
          audio,         \* audio packets received
          broken         \* a packet was written on a closed push stream

svars == <<ws, sessionTimeout, listening, starting, timer, lastFC, ended, push, service,
           stopping, text, settled, answers, audio, broken>>

STypeOK ==
    /\ ws \in {"open", "closed"}
    /\ listening \in {"initial", "audio", "none"}
    /\ starting \in {"no", "pending", "started", "failed"}
    /\ service \in {"off", "on", "over"}
    /\ settled \in {"no", "text", "error"}
    /\ lastFC \in 0..3 /\ stopping \in 0..2 /\ answers \in Nat /\ audio \in 0..MaxAudio

SInit ==
    /\ ws = "open" /\ sessionTimeout = TRUE /\ listening = "initial"
    /\ starting = "no" /\ timer = FALSE /\ lastFC = 0 /\ ended = FALSE
    /\ push = FALSE /\ service = "off" /\ stopping = 0 /\ text = FALSE
    /\ settled = "no" /\ answers = 0 /\ audio = 0 /\ broken = FALSE

\* errorClose, and the answer of a recognized text: only an open websocket
\* gets an answer.
Answers ==
    /\ answers' = IF ws = "open" THEN answers + 1 ELSE answers
    /\ ws' = "closed"
    /\ sessionTimeout' = FALSE

SessionTimeout ==
    /\ sessionTimeout
    /\ Answers
    /\ UNCHANGED <<listening, starting, timer, lastFC, ended, push, service, stopping,
                   text, settled, audio, broken>>

\* initialPacket with version 1: the recognizer is created and started, and the
\* audio handler attached, in the same turn.
InitialPacket ==
    /\ ws = "open" /\ listening = "initial"
    /\ sessionTimeout' = FALSE
    /\ listening' = "audio" /\ starting' = "pending" /\ push' = TRUE
    /\ UNCHANGED <<ws, timer, lastFC, ended, service, stopping, text, settled, answers, audio, broken>>

\* initialPacket that does not parse, or another version.
BadPacket ==
    /\ ws = "open" /\ listening = "initial"
    /\ listening' = "none"
    /\ Answers
    /\ UNCHANGED <<starting, timer, lastFC, ended, push, service, stopping, text, settled, audio, broken>>

\* stopRecognizer
Stop_Mut ==
    /\ timer' = FALSE /\ push' = FALSE /\ ended' = ended
Stop ==
    /\ timer' = FALSE /\ push' = FALSE /\ ended' = TRUE

\* An audio packet.
Audio ==
    /\ ws = "open" /\ listening = "audio" /\ audio < MaxAudio
    /\ audio' = audio + 1
    /\ lastFC' = 0
    /\ broken' = (broken \/ (~ended /\ ~push))
    /\ UNCHANGED <<ws, sessionTimeout, listening, starting, timer, ended, push, service,
                   stopping, text, settled, answers>>

\* The empty packet that ends the audio.
LastPacket ==
    /\ ws = "open" /\ listening = "audio"
    /\ Stop
    /\ UNCHANGED <<ws, sessionTimeout, listening, starting, lastFC, service, stopping,
                   text, settled, answers, audio, broken>>

\* The recognizer started: its timer is created, whatever happened meanwhile.
Started_Mut ==
    /\ starting = "pending"
    /\ starting' = "started" /\ service' = "on" /\ timer' = FALSE
    /\ UNCHANGED <<ws, sessionTimeout, listening, lastFC, ended, push, stopping, text,
                   settled, answers, audio, broken>>
Started ==
    /\ starting = "pending"
    /\ starting' = "started" /\ service' = "on" /\ timer' = TRUE
    /\ UNCHANGED <<ws, sessionTimeout, listening, lastFC, ended, push, stopping, text,
                   settled, answers, audio, broken>>

\* The promise settles once; its handler answers and closes the websocket.
Settle(as) ==
    IF settled = "no"
    THEN settled' = as /\ Answers
    ELSE UNCHANGED <<settled, ws, answers, sessionTimeout>>

StartFailed ==
    /\ starting = "pending"
    /\ starting' = "failed"
    /\ Settle("error")
    /\ UNCHANGED <<listening, timer, lastFC, ended, push, service, stopping, text, audio, broken>>

\* timerLastFrame, every 500 ms.
Tick ==
    /\ timer
    /\ IF lastFC >= 2 THEN Stop ELSE UNCHANGED <<timer, push, ended>>
    /\ lastFC' = IF lastFC < 3 THEN lastFC + 1 ELSE lastFC
    /\ UNCHANGED <<ws, sessionTimeout, listening, starting, service, stopping, text,
                   settled, answers, audio, broken>>

\* recognized, with text.
Recognized ==
    /\ service = "on" /\ stopping = 0
    /\ text' = TRUE
    /\ UNCHANGED <<ws, sessionTimeout, listening, starting, timer, lastFC, ended, push,
                   service, stopping, settled, answers, audio, broken>>

\* recognized, with no match: treated as the end of the session.
NoMatch ==
    /\ service = "on" /\ stopping = 0
    /\ stopping' = 1 /\ timer' = FALSE
    /\ UNCHANGED <<ws, sessionTimeout, listening, starting, lastFC, ended, push, service,
                   text, settled, answers, audio, broken>>

\* sessionStopped: the service ends the session once its input is closed or it
\* was asked to stop.
SessionStopped ==
    /\ service = "on" /\ (~push \/ stopping > 0)
    /\ service' = "over" /\ timer' = FALSE
    /\ stopping' = stopping + 1
    /\ UNCHANGED <<ws, sessionTimeout, listening, starting, lastFC, ended, push, text,
                   settled, answers, audio, broken>>

\* The answer to stopContinuousRecognitionAsync.
Stopped ==
    /\ stopping > 0
    /\ stopping' = stopping - 1
    /\ Settle(IF text THEN "text" ELSE "error")
    /\ UNCHANGED <<listening, starting, timer, lastFC, ended, push, service, text, audio, broken>>

StopFailed ==
    /\ stopping > 0
    /\ stopping' = stopping - 1
    /\ Settle("error")
    /\ UNCHANGED <<listening, starting, timer, lastFC, ended, push, service, text, audio, broken>>

\* The client leaves: the session goes on until its timer stops it.
ClientCloses ==
    /\ ws = "open"
    /\ ws' = "closed" /\ sessionTimeout' = FALSE
    /\ UNCHANGED <<listening, starting, timer, lastFC, ended, push, service, stopping, text,
                   settled, answers, audio, broken>>

SNext ==
    \/ SessionTimeout \/ InitialPacket \/ BadPacket \/ Audio \/ LastPacket
    \/ Started \/ StartFailed \/ Tick \/ Recognized \/ NoMatch \/ SessionStopped
    \/ Stopped \/ StopFailed \/ ClientCloses

\* Timers fire, and the service answers a start or a stop and ends a session
\* whose input is closed.
SFairness ==
    /\ WF_svars(SessionTimeout) /\ WF_svars(Tick) /\ WF_svars(Started \/ StartFailed)
    /\ WF_svars(SessionStopped) /\ WF_svars(Stopped \/ StopFailed)

SSpec == SInit /\ [][SNext]_svars /\ SFairness

----------------------------------------------------------------------------
\* No packet is written on a push stream that was closed, and the client gets at
\* most one answer, however the end of the audio, the timer, a session without
\* speech (reported twice) and late packets interleave (recognizeStream).
SpeechOnce == ~broken /\ answers <= 1

\* A session never hangs: the websocket is closed at last, also when the client
\* falls silent without the empty packet or the recognizer starts after it
\* (sessionTimeout, timerLastFrame).
SpeechAnswered == <>(ws = "closed")
=============================================================================
