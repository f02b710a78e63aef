------------------------------ MODULE Recording ------------------------------
(***************************************************************************)
(* Recording a conversation: the checkbox of the pages, the requests they  *)
(* send, and the conversation of the engine that records                   *)
(* (src/browser/conversation.js, src/src/routes/my_recording.ts,           *)
(* RecordingController of src/src/almond/engine.ts). Requests are answered *)
(* in any order. External: the conversation of Genie, which forgets its    *)
(* mode with the engine.                                                   *)
(***************************************************************************)
EXTENDS Naturals

CONSTANTS
  Pages,    \* pages that show the conversation
  MaxClicks \* bound: clicks on the checkbox, and deaths of the engine

VARIABLES
  exists,  \* the conversation exists in the engine
  mode,    \* conversation.inRecordingMode
  warned,  \* the preference recording-warning-shown
  checked, \* [Pages -> BOOLEAN]: the checkbox
  sent,    \* [Pages -> requests that were not served yet]
  status,  \* [Pages -> answers about the status that did not arrive yet]
  clicks, wants, crossed
           \* history: how many clicks, whether each page wants the recording
           \* (its last click, or the checkbox it had when it reconnected), and
           \* whether a click came while something of its page was under way

revars == <<exists, mode, warned, checked, sent, status, clicks, wants, crossed>>

Quiet(p) == sent[p] = {} /\ status[p] = {}
\* A request joins those under way; one of a kind is enough to show a race.
Post(p, what) == sent' = [sent EXCEPT ![p] = @ \cup {what}]

\* A click that checks: the page asks whether the user was warned.
Check(p) ==
  /\ ~checked[p] /\ clicks < MaxClicks
  /\ clicks' = clicks + 1
  /\ checked' = [checked EXCEPT ![p] = TRUE]
  /\ wants' = [wants EXCEPT ![p] = TRUE]
  /\ crossed' = (crossed \/ ~Quiet(p))
  /\ Post(p, "warned")
  /\ UNCHANGED <<exists, mode, warned, status>>

\* GET /me/recording/warned: the route tests the promise that the engine
\* returns, not what it resolves to, so that the answer is yes whatever the
\* preference says, and the page goes on with startRecording.  The dialog that
\* asks for confirmation on a no is never shown.
ServeWarned(p) ==
  /\ "warned" \in sent[p]
  /\ sent' = [sent EXCEPT ![p] = (@ \ {"warned"}) \cup {"start"}]
  /\ UNCHANGED <<exists, mode, warned, checked, status, clicks, wants, crossed>>

\* A click that unchecks.
Uncheck(p) ==
  /\ checked[p] /\ clicks < MaxClicks
  /\ clicks' = clicks + 1
  /\ checked' = [checked EXCEPT ![p] = FALSE]
  /\ wants' = [wants EXCEPT ![p] = FALSE]
  /\ crossed' = (crossed \/ ~Quiet(p))
  /\ Post(p, "stop")
  /\ UNCHANGED <<exists, mode, warned, status>>

\* The page reconnected and is told the id of its conversation: it starts to
\* record again if the checkbox says so, before the conversation may be there.
IdMessage_Mut(p) ==
  /\ Post(p, "start")
  /\ wants' = [wants EXCEPT ![p] = @ \/ checked[p]]
  /\ UNCHANGED <<exists, mode, warned, checked, status, clicks, crossed>>
IdMessage(p) ==
  /\ IF checked[p] THEN Post(p, "start") ELSE Post(p, "status")
  /\ wants' = [wants EXCEPT ![p] = @ \/ checked[p]]
  /\ UNCHANGED <<exists, mode, warned, checked, status, clicks, crossed>>

\* refreshToolbar, at every message.
RefreshToolbar(p) ==
  /\ "status" \notin sent[p]
  /\ Post(p, "status")
  /\ UNCHANGED <<exists, mode, warned, checked, status, clicks, wants, crossed>>

\* POST /me/recording/start: the warning counts as shown; without the
\* conversation nothing else happens. Its answer refreshes the toolbar.
ServeStart_Mut(p) ==
  /\ "start" \in sent[p]
  /\ warned' = TRUE
  /\ mode' = TRUE
  /\ sent' = [sent EXCEPT ![p] = (@ \ {"start"}) \cup {"status"}]
  /\ UNCHANGED <<exists, checked, status, clicks, wants, crossed>>
ServeStart(p) ==
  /\ "start" \in sent[p]
  /\ warned' = TRUE
  /\ mode' = (mode \/ exists)
  /\ sent' = [sent EXCEPT ![p] = (@ \ {"start"}) \cup IF exists THEN {"status"} ELSE {}]
  /\ UNCHANGED <<exists, checked, status, clicks, wants, crossed>>

\* POST /me/recording/stop
ServeStop(p) ==
  /\ "stop" \in sent[p]
  /\ mode' = FALSE
  /\ sent' = [sent EXCEPT ![p] = @ \ {"stop"}]
  /\ UNCHANGED <<exists, warned, checked, status, clicks, wants, crossed>>

\* GET /me/recording/status: a missing conversation is an error, which the
\* page ignores.
ServeStatus(p) ==
  /\ "status" \in sent[p]
  /\ sent' = [sent EXCEPT ![p] = @ \ {"status"}]
  /\ status' = IF exists THEN [status EXCEPT ![p] = @ \cup {mode}] ELSE status
  /\ UNCHANGED <<exists, mode, warned, checked, clicks, wants, crossed>>

\* The page gets an answer, or never does.
StatusArrives(p, on) ==
  /\ on \in status[p]
  /\ status' = [status EXCEPT ![p] = @ \ {on}]
  /\ checked' = [checked EXCEPT ![p] = on]
  /\ UNCHANGED <<exists, mode, warned, sent, clicks, wants, crossed>>
RequestFails(p, what) ==
  /\ what \in sent[p]
  /\ sent' = [sent EXCEPT ![p] = @ \ {what}]
  \* a request to stop that fails leaves the engine recording
  /\ crossed' = (crossed \/ what = "stop")
  /\ UNCHANGED <<exists, mode, warned, checked, status, clicks, wants>>

\* External: the engine restarts, and the conversation is opened again.
EngineRestarts ==
  /\ exists /\ clicks < MaxClicks
  /\ clicks' = clicks + 1
  /\ exists' = FALSE /\ mode' = FALSE
  /\ UNCHANGED <<warned, checked, sent, status, wants, crossed>>
ConversationOpens ==
  /\ ~exists /\ exists' = TRUE
  /\ UNCHANGED <<mode, warned, checked, sent, status, clicks, wants, crossed>>

REInit ==
  /\ exists = FALSE /\ mode = FALSE /\ warned = FALSE
  /\ checked = [p \in Pages |-> FALSE]
  /\ sent = [p \in Pages |-> {}] /\ status = [p \in Pages |-> {}]
  /\ clicks = 0 /\ wants = [p \in Pages |-> FALSE] /\ crossed = FALSE

RENext ==
  \/ \E p \in Pages :
       \/ Check(p) \/ Uncheck(p) \/ IdMessage(p) \/ RefreshToolbar(p)
       \/ ServeWarned(p) \/ ServeStart(p) \/ ServeStop(p) \/ ServeStatus(p)
       \/ \E on \in BOOLEAN : StatusArrives(p, on)
       \/ \E what \in {"warned", "start", "stop", "status"} : RequestFails(p, what)
  \/ EngineRestarts \/ ConversationOpens

RESpec == REInit /\ [][RENext]_revars

-----------------------------------------------------------------------------
(* Properties.                                                             *)

\* Type correctness.
RETypeOK ==
  /\ checked \in [Pages -> BOOLEAN]
  /\ sent \in [Pages -> SUBSET {"warned", "start", "stop", "status"}]
  /\ status \in [Pages -> SUBSET BOOLEAN]
  /\ mode => exists

\* The engine records only while some page has its checkbox set by a click or
\* a request to stop is under way, also after reconnections, restarts of the
\* engine and answers that arrive late: neither a new connection nor a
\* refreshed toolbar starts a recording that no page shows. The exceptions are
\* a click that crosses a request or an answer of its page, and a request to
\* stop that fails. The click is all that is asked of the user: StartsWarned
\* does not hold.
RecordingConsent ==
  mode => \/ crossed
          \/ \E p \in Pages : wants[p] \/ "stop" \in sent[p]

\* views/my_stuff.pug:97-107 and conversation.js:736-739 show a warning with
\* Confirm and Cancel before the first recording: the answer that lets a page
\* start without it is of a user who was warned.  ServeWarned breaks this.
StartsWarned ==
  \A p \in Pages : "warned" \in sent[p] /\ "start" \in sent'[p] \ sent[p] => warned
=============================================================================
