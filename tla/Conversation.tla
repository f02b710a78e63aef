---------------------------- MODULE Conversation ----------------------------
(***************************************************************************)
(* A conversation page, its websockets, and the outputs they have in the   *)
(* user's engine (src/browser/conversation.js,                             *)
(* src/src/routes/my_conversation.ts, src/src/almond/engine.ts).           *)
(*                                                                         *)
(* The page has one websocket at a time and opens the next one when it is  *)
(* closed. The website attaches an output to the conversation for each of  *)
(* them: it waits for the engine, then for the conversation, and the       *)
(* websocket may close, and the engine die, in both waits. External: the   *)
(* conversation of Genie numbers its messages and sends its history to an  *)
(* output that is added, and then every new message.                       *)
(***************************************************************************)
EXTENDS Naturals, Sequences, SequencesExt

CONSTANTS
  NoWs,       \* no websocket
  MaxWs,      \* bound: websockets
  MaxMessage, \* bound: messages of the conversation
  MaxDeaths,  \* bound: times the engine dies
  MaxDelay    \* bound: how often the reconnection delay grows

Wss == 1..MaxWs
Hello == 0 \* the message of type 'id'; the others are numbered from 1

VARIABLES
  engine,    \* the engine of the user runs
  deaths,    \* how often it died
  said,      \* messages of the conversation
  output,    \* websockets that have an output in the engine
  handler,   \* [Wss -> how far doConversation is]
  connected, \* websockets that are open
  wire,      \* [Wss -> messages on their way to the page]
  up,        \* [Wss -> how many commands are on their way from the page]
  listening, \* websockets whose onclosed listener is registered
  page,      \* [ws, open, last, delay]: the variables of the page
  shown,     \* messages in the chat
  early,     \* history: websockets that closed before they had a wrapper
  deaf       \* history: websockets that lost their listener to the engine of
             \* another user

cvvars == <<engine, deaths, said, output, handler, connected, wire, up, listening, page,
            shown, early, deaf>>

Send(ws, msgs) == [w \in Wss |-> IF w \in ws \cap connected THEN wire[w] \o msgs ELSE wire[w]]
History == [i \in 1..said |-> i]

\* connect(), at load time and when the timer fires.
Connect(w) ==
  /\ page.ws = NoWs /\ handler[w] = "none"
  /\ \A v \in Wss : v < w => handler[v] # "none"
  /\ page' = [page EXCEPT !.ws = w]
  /\ connected' = connected \cup {w}
  /\ handler' = [handler EXCEPT ![w] = "asking"]
  /\ UNCHANGED <<engine, deaths, said, output, wire, listening, shown, early, deaf, up>>

\* getEngine came back: the listener is registered and the id sent. Without an
\* engine the websocket is closed.
GotEngine(w) ==
  /\ handler[w] = "asking"
  /\ IF engine
       THEN /\ handler' = [handler EXCEPT ![w] = "opening"]
            /\ listening' = listening \cup {w}
            /\ wire' = Send({w}, <<Hello>>)
            /\ UNCHANGED connected
       ELSE /\ handler' = [handler EXCEPT ![w] = "done"]
            /\ connected' = connected \ {w}
            /\ UNCHANGED <<listening, wire>>
  /\ UNCHANGED <<engine, deaths, said, output, page, shown, early, deaf, up>>

\* getOrOpenConversation came back with a ConversationWrapper, whose
\* constructor adds the output.
Opened(w) ==
  /\ handler[w] = "opening" /\ engine
  /\ handler' = [handler EXCEPT ![w] = "open"]
  /\ output' = output \cup {w}
  /\ wire' = Send({w}, History)
  /\ UNCHANGED <<engine, deaths, said, connected, listening, page, shown, early, deaf, up>>

\* The user sends a command, as text, parsed or as ThingTalk, on whatever
\* websocket there is.
SendCommand(w) ==
  /\ page.ws = w /\ w \in connected /\ page.open
  /\ up[w] + said < MaxMessage
  /\ up' = [up EXCEPT ![w] = @ + 1]
  /\ UNCHANGED <<engine, deaths, said, output, handler, connected, wire, listening, page, shown, early, deaf>>

\* The website handles it if the wrapper is there; a command that comes while
\* the conversation is opened meets no handler and is lost.
OnCommand(w) ==
  /\ up[w] > 0 /\ w \in connected
  /\ up' = [up EXCEPT ![w] = @ - 1]
  /\ IF handler[w] = "open" /\ said < MaxMessage
       THEN said' = said + 1 /\ wire' = Send(output, <<said + 1>>)
       ELSE UNCHANGED <<said, wire>>
  /\ UNCHANGED <<engine, deaths, output, handler, connected, listening, page, shown, early, deaf>>

\* A message of the conversation on its own.
AddMessage ==
  /\ engine /\ said < MaxMessage
  /\ said' = said + 1
  /\ wire' = Send(output, <<said + 1>>)
  /\ UNCHANGED <<engine, deaths, output, handler, connected, listening, page, shown, early, deaf, up>>

\* The websocket closes: the close handler destroys the wrapper, if there is
\* one. Nobody tells the rest of doConversation.
Ended(w) == IF handler[w] = "open" THEN output \ {w} ELSE output
WsClosed_Mut(w) ==
  /\ w \in connected
  /\ connected' = connected \ {w}
  /\ early' = IF handler[w] = "open" THEN early ELSE early \cup {w}
  /\ UNCHANGED <<engine, deaths, said, output, handler, wire, listening, page, shown, deaf, up>>
WsClosed(w) ==
  /\ w \in connected
  /\ connected' = connected \ {w}
  /\ output' = Ended(w)
  /\ early' = IF handler[w] = "open" THEN early ELSE early \cup {w}
  /\ UNCHANGED <<engine, deaths, said, handler, wire, listening, page, shown, deaf, up>>

\* ws.onmessage and onWebsocketMessage
Fresh_Mut(id) == id >= page.last
Fresh(id) == id > page.last
OnMessage(w) ==
  LET id == Head(wire[w])
      new == id # Hello /\ Fresh(id)
  IN /\ page.ws = w /\ wire[w] # <<>>
     /\ wire' = [wire EXCEPT ![w] = Tail(@)]
     /\ page' = [page EXCEPT !.open = TRUE,
                             !.delay = IF page.open THEN @ ELSE 0,
                             !.last = IF new THEN id ELSE @]
     /\ shown' = IF new THEN Append(shown, id) ELSE shown
     /\ UNCHANGED <<engine, deaths, said, output, handler, connected, listening, early, deaf, up>>

\* ws.onclose: open is cleared before it is asked for, so the delay grows each
\* time; then the timer is set. What was on the wire is lost.
OnClose(w) ==
  /\ page.ws = w /\ w \notin connected
  /\ page' = [page EXCEPT !.ws = NoWs, !.open = FALSE,
                          !.delay = IF @ < MaxDelay THEN @ + 1 ELSE @]
  /\ wire' = [wire EXCEPT ![w] = <<>>] /\ up' = [up EXCEPT ![w] = 0]
  /\ UNCHANGED <<engine, deaths, said, output, handler, connected, listening, shown, early, deaf>>

\* The engine dies: 'socket-closed' closes the websockets that listen, and
\* waits for the conversation fail, which closes theirs.
EngineDies_Mut ==
  /\ engine /\ deaths < MaxDeaths
  /\ engine' = FALSE /\ deaths' = deaths + 1
  /\ output' = {}
  /\ connected' = {w \in connected : handler[w] # "opening"}
  /\ handler' = [w \in Wss |-> IF handler[w] \in {"opening", "open"} THEN "done" ELSE handler[w]]
  /\ listening' = {}
  /\ UNCHANGED <<said, wire, page, shown, early, deaf, up>>
EngineDies ==
  /\ engine /\ deaths < MaxDeaths
  /\ engine' = FALSE /\ deaths' = deaths + 1
  /\ output' = {}
  /\ connected' = {w \in connected : w \notin listening /\ handler[w] # "opening"}
  /\ handler' = [w \in Wss |-> IF handler[w] \in {"opening", "open"} THEN "done" ELSE handler[w]]
  /\ listening' = {}
  /\ UNCHANGED <<said, wire, page, shown, early, deaf, up>>
EngineStarts ==
  /\ ~engine /\ engine' = TRUE
  /\ UNCHANGED <<deaths, said, output, handler, connected, wire, listening, page, shown, early, deaf, up>>

\* The engine of another user closes: onclosed does not close the websocket,
\* but it removes itself.
OtherEngineDies ==
  /\ listening # {}
  /\ listening' = {} /\ deaf' = deaf \cup listening
  /\ UNCHANGED <<engine, deaths, said, output, handler, connected, wire, page, shown, early, up>>

CVInit ==
  /\ engine = TRUE /\ deaths = 0 /\ said = 0
  /\ output = {} /\ connected = {} /\ listening = {}
  /\ handler = [w \in Wss |-> "none"]
  /\ wire = [w \in Wss |-> <<>>] /\ up = [w \in Wss |-> 0]
  /\ page = [ws |-> NoWs, open |-> FALSE, last |-> 0, delay |-> 0]
  /\ shown = <<>> /\ early = {} /\ deaf = {}

PageStep(w) == Connect(w) \/ OnMessage(w) \/ OnClose(w)
SiteStep(w) == GotEngine(w) \/ Opened(w)
CVNext ==
  \/ \E w \in Wss : PageStep(w) \/ SiteStep(w) \/ WsClosed(w)
                  \/ SendCommand(w) \/ OnCommand(w)
  \/ AddMessage \/ EngineDies \/ EngineStarts \/ OtherEngineDies

\* The page handles its events and its timers fire, calls to the engine are
\* answered, and an engine that died is started again.
CVFairness ==
  /\ \A w \in Wss : WF_cvvars(PageStep(w)) /\ WF_cvvars(SiteStep(w))
  /\ WF_cvvars(EngineStarts)

CVSpec == CVInit /\ [][CVNext]_cvvars /\ CVFairness

-----------------------------------------------------------------------------
(* Properties.                                                             *)

\* Type correctness.
CVTypeOK ==
  /\ said \in 0..MaxMessage /\ deaths \in 0..MaxDeaths
  /\ handler \in [Wss -> {"none", "asking", "opening", "open", "done"}]
  /\ output \cup connected \cup listening \cup early \cup deaf \subseteq Wss
  /\ page.ws \in Wss \cup {NoWs} /\ page.delay \in 0..MaxDelay
  /\ \A w \in Wss : wire[w] \in Seq(0..MaxMessage) /\ up[w] \in 0..MaxMessage

\* The chat shows every message of the conversation once and in order, across
\* any number of reconnections and replays of the history: it is a prefix of
\* the conversation.
ChatIsPrefix == shown = [i \in 1..Len(shown) |-> i] /\ Len(shown) <= said

\* An output stays in the engine no longer than its websocket, unless the
\* websocket closed while doConversation was waiting (the close handler finds
\* no wrapper then, and the one that comes later is never destroyed).
NoOrphanOutput == output \subseteq connected \cup early

\* Whatever is said reaches the chat, in spite of closed websockets and of the
\* deaths of the engine, as long as there are websockets left to connect with
\* (the bound of the model) and the page's own websocket was not made deaf by
\* the engine of another user.
NoWsLeft == page.ws = NoWs /\ \A w \in Wss : handler[w] # "none"
ChatCatchesUp == []<>(Len(shown) = said \/ NoWsLeft \/ page.ws \in deaf)
=============================================================================
