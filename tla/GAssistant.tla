----------------------------- MODULE GAssistant -----------------------------
(***************************************************************************)
(* The bridge to Google Assistant (src/src/routes/bridges/gassistant): a   *)
(* turn is one request, with a delegate that collects what the engine says *)
(* while it handles the command, and one reply. The outputs of a           *)
(* conversation are never removed. External: what the engine says, and     *)
(* that it says it to every output of the conversation.                    *)
(***************************************************************************)
EXTENDS Naturals, Sequences, SequencesExt, FiniteSets

CONSTANTS
  Turns,  \* requests of one conversationId, which may overlap
  MaxSaid \* bound: messages of the engines

Engines == {"anonymous", "user"}
Texts == {"text", "choice"}
Kinds == Texts \cup {"picture", "rdl", "link", "register", "button", "longButton"}

VARIABLES
  account,  \* the user of the access token exists
  turn,     \* [Turns -> [pc, token, engine]]
  delegate, \* [Turns -> GoogleAssistantDelegate]
  outputs,  \* [Engines -> turns that are an output of the conversation]
  reply,    \* [Turns -> what the user is shown]
  count,    \* how many messages there were
  said      \* history: [Turns -> messages of its engine during the turn]

gvars == <<account, turn, delegate, outputs, reply, count, said>>

Item(kind, n) == [kind |-> kind, of |-> <<n>>]
IsBubble(item) == item.kind \in {"bubble", "caption"}
EndsInText(buffer) == buffer # <<>> /\ IsBubble(Last(buffer))

\* Text joins the text right before it, to save bubbles.
AddText_Mut(buffer, n) == Append(buffer, Item("bubble", n))
AddText(buffer, n) ==
  IF EndsInText(buffer)
    THEN [buffer EXCEPT ![Len(buffer)].of = Append(@, n)]
    ELSE Append(buffer, Item("bubble", n))
\* A picture needs a bubble before it: its address, if there is no other.
AddPicture(buffer, n) ==
  (IF EndsInText(buffer) THEN buffer ELSE Append(buffer, Item("caption", n)))
    \o <<Item("image", n)>>

\* addMessage: the link to register asks for a sign-in, and buttons with a long
\* title are left out.
AddMessage(d, m) ==
  CASE m.kind \in Texts -> [d EXCEPT !.buffer = AddText(@, m.n)]
    [] m.kind = "picture" -> [d EXCEPT !.buffer = AddPicture(@, m.n)]
    [] m.kind \in {"rdl", "link"} -> [d EXCEPT !.buffer = Append(@, Item(m.kind, m.n))]
    [] m.kind = "register" -> [d EXCEPT !.signin = TRUE]
    [] m.kind = "button" -> [d EXCEPT !.suggestions = Append(@, m.n)]
    [] m.kind = "longButton" -> d

\* flush: nothing to show ends the conversation, also when the engine asked for
\* a sign-in.
Flushed(d) ==
  LET buffer == d.buffer \o IF d.suggestions = <<>> THEN <<>>
                            ELSE <<[kind |-> "suggestions", of |-> d.suggestions]>>
  IN IF buffer = <<>> THEN <<[kind |-> "close", of |-> <<>>]>>
     ELSE buffer \o IF d.signin THEN <<[kind |-> "signin", of |-> <<>>]>> ELSE <<>>

-----------------------------------------------------------------------------
\* POST /fulfillment: authenticate refuses the token of a user that is gone.
Request(t, token) ==
  /\ turn[t].pc = "none" /\ (token => account)
  /\ turn' = [turn EXCEPT ![t] = [@ EXCEPT !.pc = "retrieve", !.token = token]]
  /\ UNCHANGED <<account, delegate, outputs, reply, count, said>>

\* The answers that need no engine: goodbye, a request to sign in, and what
\* follows it.
NoEngine(t, kind) ==
  /\ turn[t].pc = "retrieve"
  /\ reply' = [reply EXCEPT ![t] = <<[kind |-> kind, of |-> <<>>]>>]
  /\ turn' = [turn EXCEPT ![t] = [@ EXCEPT !.pc = "done"]]
  /\ UNCHANGED <<account, delegate, outputs, count, said>>

\* retrieveUser: without a token, or when the user has gone since, the turn
\* goes to the anonymous user.
RetrieveUser(t) ==
  /\ turn[t].pc = "retrieve"
  /\ turn' = [turn EXCEPT ![t] = [@ EXCEPT !.pc = "open",
                !.engine = IF turn[t].token /\ account THEN "user" ELSE "anonymous"]]
  /\ UNCHANGED <<account, delegate, outputs, reply, count, said>>

\* getOrOpenConversation: a new output.
Open(t) ==
  /\ turn[t].pc = "open"
  /\ turn' = [turn EXCEPT ![t] = [@ EXCEPT !.pc = "handle"]]
  /\ outputs' = [outputs EXCEPT ![turn[t].engine] = @ \cup {t}]
  /\ UNCHANGED <<account, delegate, reply, count, said>>

\* External: an engine says something in the conversation. What comes to an
\* output after its reply is lost.
Says(e, kind) ==
  LET m == [n |-> count + 1, kind |-> kind] IN
  /\ count < MaxSaid /\ count' = count + 1
  /\ delegate' = [t \in Turns |-> IF t \in outputs[e] /\ turn[t].pc = "handle"
                                    THEN AddMessage(delegate[t], m) ELSE delegate[t]]
  /\ said' = [t \in Turns |-> IF turn[t].pc = "handle" /\ turn[t].engine = e
                                THEN Append(said[t], m) ELSE said[t]]
  /\ UNCHANGED <<account, turn, outputs, reply>>

\* handleCommand or handleThingTalk is over (for the welcome there is none),
\* and the reply is sent.
Reply(t) ==
  /\ turn[t].pc = "handle"
  /\ turn' = [turn EXCEPT ![t] = [@ EXCEPT !.pc = "done"]]
  /\ reply' = [reply EXCEPT ![t] = Flushed(delegate[t])]
  /\ UNCHANGED <<account, delegate, outputs, count, said>>

\* The engine dies: its turns fail, and the conversation loses its outputs.
EngineDies(e) ==
  /\ outputs[e] # {}
  /\ outputs' = [outputs EXCEPT ![e] = {}]
  /\ turn' = [t \in Turns |-> IF turn[t].pc = "handle" /\ turn[t].engine = e
                                THEN [turn[t] EXCEPT !.pc = "failed"] ELSE turn[t]]
  /\ UNCHANGED <<account, delegate, reply, count, said>>

\* External: the user is deleted, and its engine.
DeleteAccount ==
  /\ account /\ outputs["user"] = {} /\ account' = FALSE
  /\ UNCHANGED <<turn, delegate, outputs, reply, count, said>>

GInit ==
  /\ account = TRUE
  /\ turn = [t \in Turns |-> [pc |-> "none", token |-> FALSE, engine |-> "anonymous"]]
  /\ delegate = [t \in Turns |-> [buffer |-> <<>>, suggestions |-> <<>>, signin |-> FALSE]]
  /\ outputs = [e \in Engines |-> {}]
  /\ reply = [t \in Turns |-> <<>>]
  /\ count = 0 /\ said = [t \in Turns |-> <<>>]

GNext ==
  \/ \E t \in Turns : \/ \E token \in BOOLEAN : Request(t, token)
                      \/ \E kind \in {"close", "signin", "bubble"} : NoEngine(t, kind)
                      \/ RetrieveUser(t) \/ Open(t) \/ Reply(t)
  \/ \E e \in Engines : EngineDies(e) \/ \E kind \in Kinds : Says(e, kind)
  \/ DeleteAccount

GSpec == GInit /\ [][GNext]_gvars

-----------------------------------------------------------------------------
(* Properties.                                                             *)

\* Type correctness.
GTypeOK ==
  /\ \A t \in Turns : /\ turn[t].pc \in {"none", "retrieve", "open", "handle", "done", "failed"}
                      /\ turn[t].engine \in Engines
                      /\ Len(said[t]) <= count
  /\ \A e \in Engines : outputs[e] \subseteq Turns

\* The numbers of the messages of some kinds.
Numbers(ms, kinds) == {ms[i].n : i \in {j \in DOMAIN ms : ms[j].kind \in kinds}}
\* The items of some kinds stand for these numbers, each at one place, in order.
Shows(items, kinds, ns) ==
  LET shown == {i \in DOMAIN items : items[i].kind \in kinds}
  IN /\ \A i \in shown : \A k \in DOMAIN items[i].of : items[i].of[k] \in ns
     /\ \A n \in ns : \E i \in shown : \E k \in DOMAIN items[i].of : items[i].of[k] = n
     /\ \A i, j \in shown : \A k \in DOMAIN items[i].of, l \in DOMAIN items[j].of :
          i < j \/ (i = j /\ k < l) => items[i].of[k] < items[j].of[l]

\* The reply to a turn shows what its engine said during the turn, all of it
\* but long buttons, each message once, in order and nothing else, also when turns
\* overlap and a user signs in or is deleted between them. An image follows a
\* bubble, texts that follow each other share one, and the conversation is closed
\* only if there was nothing to show (GoogleAssistantDelegate). How many bubbles
\* there are is not part of it: see AtMostTwoBubbles.
ReplyFaithful ==
  \A t \in Turns :
    LET r == reply[t]
        shown == Numbers(said[t], Texts \cup {"picture", "rdl", "link"})
        buttons == Numbers(said[t], {"button"})
    IN turn[t].pc = "done" /\ t \in UNION {outputs[e] : e \in Engines} =>
         /\ Shows(r, {"bubble", "image", "rdl", "link"}, shown)
         /\ Shows(r, {"suggestions"}, buttons)
         /\ \A i \in DOMAIN r : r[i].kind = "image" => i > 1 /\ IsBubble(r[i - 1])
         /\ \A i \in 2..Len(r) : ~(IsBubble(r[i]) /\ IsBubble(r[i - 1]))
         /\ (\E i \in DOMAIN r : r[i].kind = "close") <=> shown \cup buttons = {}

\* gassistant/index.ts:77 and 97: "Google Assistant limits at most 2 chat bubbles
\* per turn", which is why texts are joined. Texts with a card or a picture between
\* them, and the addresses before pictures, are not: this does not hold.
AtMostTwoBubbles ==
  \A t \in Turns : Cardinality({i \in DOMAIN reply[t] : IsBubble(reply[t][i])}) <= 2
=============================================================================
