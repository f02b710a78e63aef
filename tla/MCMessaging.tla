---------------------------- MODULE MCMessaging -----------------------------
(***************************************************************************)
(* Instances for TLC of the parts that carry what users say, see and store *)
(* between browsers, the website, the engines and the database: recording, *)
(* subscriptions, the Google assistant, preferences, the framing of the    *)
(* sockets, the cloud sync channel, the database pool and the fan-out to   *)
(* replicas. They share no state, so that each behaviour is one of a       *)
(* single part, which the first state chooses.                             *)
(***************************************************************************)
EXTENDS Naturals, FiniteSets, Sequences

CONSTANTS
  Pages, MaxClicks, Anons, User, EmailOf, Addresses, MaxApp, Handlers, Turns,
  MaxSaid, Undefined, Keys, Values, MaxFlush, MaxStarts, MaxMessage, MaxSync,
  NoConn, NoClient, Conns, Limit, Clients, Replicas, MaxRequests, MaxScale

VARIABLES
  part, exists, recordingMode, warned, checked, toggles, status, clicks,
  wants, crossed, app, nextApp, handler, removed, account, turn, delegate,
  outputs, reply, count, said, alive, data, row, flights, sure, flushes,
  starts, kind, writer, reader, written, arrived, wire, partial, got, ws,
  phase, listener, buffer, remote, flushed, waiting, calls, engineUp, wrapper,
  received, relayed, conn, tx, stage, held, lease, queue, up, endpoints,
  asked, listed, at, inflight, handled, sent, answered, scale

\* What stands for no connection and for no client is neither, and the anonymous
\* users have no account.
ASSUME NothingAssumption == NoConn \notin Conns /\ NoClient \notin Clients
ASSUME AnonAssumption == User \notin Anons
\* The bounds are numbers.
ASSUME BoundsAssumption == MaxApp \in Nat /\ MaxMessage \in Nat /\ MaxSync \in Nat

RE == INSTANCE Recording WITH mode <- recordingMode, sent <- toggles
AP == INSTANCE Apps
GA == INSTANCE GAssistant
PR == INSTANCE Preferences
FR == INSTANCE Framing WITH sent <- written
CS == INSTANCE CloudSync
DB == INSTANCE DBPool WITH mode <- lease, at <- stage
FO == INSTANCE Fanout

Parts == {"recording", "apps", "assistant", "preferences", "framing", "cloudsync", "database", "fanout"}

recordingVars == <<
  exists, recordingMode, warned, checked, toggles, status, clicks, wants,
  crossed>>
appsVars == <<app, nextApp, handler, removed>>
assistantVars == <<account, turn, delegate, outputs, reply, count, said>>
preferencesVars == <<alive, data, row, flights, sure, flushes, starts>>
framingVars == <<kind, writer, reader, written, arrived, wire, partial, got>>
cloudsyncVars == <<
  ws, phase, listener, buffer, remote, flushed, waiting, calls, engineUp,
  wrapper, received, relayed>>
databaseVars == <<conn, tx, stage, held, lease, queue>>
fanoutVars == <<
  up, endpoints, asked, listed, at, inflight, handled, sent, answered, scale>>
vars == <<
  part, recordingVars, appsVars, assistantVars, preferencesVars, framingVars,
  cloudsyncVars, databaseVars, fanoutVars>>

Init ==
  /\ part \in Parts
  /\ RE!REInit
  /\ AP!APInit
  /\ GA!GInit
  /\ PR!PInit
  /\ FR!FInit
  /\ CS!CSInit
  /\ DB!DInit
  /\ FO!FOInit
  /\ part # "preferences" => row = [k \in Keys |-> Undefined]
  /\ part # "framing" => kind = "datagram"
  /\ part # "fanout" => endpoints = {} /\ \A r \in 1..MaxRequests : at[r] = CHOOSE p \in Replicas : TRUE

\* The parts other than p stand still.
Frame(p) ==
  /\ part = p /\ part' = part
  /\ IF p = "recording" THEN TRUE ELSE UNCHANGED recordingVars
  /\ IF p = "apps" THEN TRUE ELSE UNCHANGED appsVars
  /\ IF p = "assistant" THEN TRUE ELSE UNCHANGED assistantVars
  /\ IF p = "preferences" THEN TRUE ELSE UNCHANGED preferencesVars
  /\ IF p = "framing" THEN TRUE ELSE UNCHANGED framingVars
  /\ IF p = "cloudsync" THEN TRUE ELSE UNCHANGED cloudsyncVars
  /\ IF p = "database" THEN TRUE ELSE UNCHANGED databaseVars
  /\ IF p = "fanout" THEN TRUE ELSE UNCHANGED fanoutVars

Next ==
  \/ Frame("recording") /\ RE!RENext
  \/ Frame("apps") /\ AP!APNext
  \/ Frame("assistant") /\ GA!GNext
  \/ Frame("preferences") /\ PR!PNext
  \/ Frame("framing") /\ FR!FNext
  \/ Frame("cloudsync") /\ CS!CSNext
  \/ Frame("database") /\ DB!DNext
  \/ Frame("fanout") /\ FO!FONext

Spec == Init /\ [][Next]_vars

-----------------------------------------------------------------------------
(* The properties of the run. Their conjuncts are stated in the modules of *)
(* the parts, with the code each is about.                                 *)

(***************************************************************************)
(* Every part keeps its state within its type; in particular nothing is    *)
(* recorded of a conversation that is not there (routes/my_recording.ts).  *)
(***************************************************************************)
MessagingTypes ==
  /\ RE!RETypeOK /\ AP!APTypeOK /\ GA!GTypeOK /\ PR!PTypeOK
  /\ FR!FTypeOK /\ CS!CSTypeOK /\ DB!DTypeOK /\ FO!FOTypeOK

(***************************************************************************)
(* What was sent and when it arrives:                                      *)
(* - what the other end of a socket reads is what was written, in order    *)
(*   (util/json_datagram_socket.ts);                                       *)
(* - a message of a device is emitted to the engine once or waits for it,  *)
(*   and those that came while no buffer was being sent keep their order   *)
(*   (routes/cloud-sync.ts);                                               *)
(* - the row of a preference is what the engine has, once its last flush   *)
(*   was answered, unless flushes of that key overlapped or failed         *)
(*   (almond/preferences.ts);                                              *)
(* - a request reaches each replica that was listed (nlp/proxy.ts);        *)
(* - the reply of the assistant shows the messages of its turn once and in *)
(*   order (routes/bridges/gassistant);                                    *)
(* - nobody gets a connection with the transaction of somebody else in it  *)
(*   (util/db.ts).                                                         *)
(***************************************************************************)
Delivered ==
  /\ part = "framing" => FR!FramingExact
  /\ part = "cloudsync" => CS!SyncRelayed
  /\ part = "preferences" => PR!PreferenceSaved
  /\ part = "fanout" => FO!FanoutOnce
  /\ part = "assistant" => GA!ReplyFaithful
  /\ part = "database" => DB!CleanHandover

(***************************************************************************)
(* gassistant/index.ts:77: a reply has two chat bubbles at most.           *)
(***************************************************************************)
TwoBubbles == part = "assistant" => GA!AtMostTwoBubbles

(***************************************************************************)
(* A user's click holds against requests that are still under way: the     *)
(* engine records only while some page has its checkbox set by a click     *)
(* (routes/my_recording.ts, browser/conversation.js), and who unsubscribes *)
(* is rid of every subscription that was there in the anonymous engine of  *)
(* the language of the request, at the cost of nobody else                 *)
(* (routes/my_api.ts, almond/engine.ts). The confirmation that the code    *)
(* never asks for and the anonymous engines of other languages are the two *)
(* properties below, which do not hold.                                    *)
(***************************************************************************)
UserConsent ==
  /\ part = "recording" => RE!RecordingConsent
  /\ part = "apps" => AP!UnsubscribeExact

(***************************************************************************)
(* conversation.js:736-739: a user who was not warned yet is shown the     *)
(* warning of views/my_stuff.pug before anything is recorded.              *)
(***************************************************************************)
WarnedFirst == [][RE!StartsWarned]_recordingVars

(***************************************************************************)
(* my_api.ts:124: who unsubscribes does so "from all notifications".       *)
(***************************************************************************)
UnsubscribedFromAll == part = "apps" => AP!UnsubscribedFromAll

=============================================================================
