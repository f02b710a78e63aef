-------------------------------- MODULE Apps --------------------------------
(***************************************************************************)
(* The web API of the assistant (routes/my_api.ts) and the apps it starts *)
(* and stops in the engines (almond/engine.ts): the anonymous engines, one *)
(* for each language, shared by everyone who writes by SMS or asks for    *)
(* notifications by email in that language, and the engine of a user.  A  *)
(* request has a language; an unsubscription crosses the anonymous engine *)
(* of its language and the user's in several calls; deleteAllApps removes *)
(* one app per turn from the list it took at the start.                   *)
(***************************************************************************)
EXTENDS Naturals, FiniteSets, Sequences

CONSTANTS Anons,         \* the anonymous users, one for each language
          User,          \* a user with an account
          EmailOf,       \* the address of User
          Addresses,     \* email addresses and phone numbers
          MaxApp,        \* apps created
          Handlers       \* requests in progress

Engines == Anons \cup {User}
Backends == {"email", "twilio", "none"}

VARIABLES app,           \* app id -> [engine, backend, to], for the apps that run
          nextApp,
          handler,       \* handler -> what it is doing; since: the first app
                         \* id that was free when its loop began (history)
          removed        \* [app, by, to, engine]: what a handler removed, for whom
                         \* and in the loop over which engine (history)

apvars == <<app, nextApp, handler, removed>>

Idle == [kind |-> "idle", to |-> "none", engine |-> User, todo |-> {}, since |-> 0]

APTypeOK ==
    /\ DOMAIN app \subseteq 1..MaxApp
    /\ nextApp \in 1..MaxApp + 1
    /\ \A h \in Handlers : handler[h].kind \in {"idle", "stop", "unsubscribe", "user"}

APInit ==
    /\ app = [i \in {} |-> 0]
    /\ nextApp = 1
    /\ handler = [h \in Handlers |-> Idle]
    /\ removed = {}

\* POST /apps/create, or a command of POST /converse or POST /sms that leaves an
\* app running; one with notifications has a backend and an address.
CreateApp(e, b, to) ==
    /\ nextApp <= MaxApp
    /\ app' = [i \in DOMAIN app \cup {nextApp} |->
                 IF i = nextApp THEN [engine |-> e, backend |-> b, to |-> to] ELSE app[i]]
    /\ nextApp' = nextApp + 1
    /\ UNCHANGED <<handler, removed>>

Without(i) == [k \in DOMAIN app \ {i} |-> app[k]]

\* POST /apps/delete/:appId, a 404 for an app that is gone.
DeleteApp(i) ==
    /\ i \in DOMAIN app
    /\ app' = Without(i)
    /\ UNCHANGED <<nextApp, handler, removed>>

AppsOf(e) == {i \in DOMAIN app : app[i].engine = e}

\* The filter of deleteAllApps: without a backend every app; with one, the apps
\* that notify through it, to that address.
Selected_Mut(i, b, to) == b = "any" \/ app[i].backend = b
Selected(i, b, to) == b = "any" \/ (app[i].backend = b /\ app[i].to = to)

Starts(h, k, e, to) ==
    handler' = [handler EXCEPT ![h] = [kind |-> k, to |-> to, engine |-> e,
                                       todo |-> AppsOf(e), since |-> nextApp]]

\* POST /sms with "stop", GET /notifications/unsubscribe/:email: deleteAllApps
\* takes the list of the anonymous engine of the language of the request, the
\* only one it goes to.
SmsStop(h, a, to) ==
    /\ handler[h].kind = "idle"
    /\ Starts(h, "stop", a, to)
    /\ UNCHANGED <<app, nextApp, removed>>
Unsubscribe(h, a, to) ==
    /\ handler[h].kind = "idle"
    /\ Starts(h, "unsubscribe", a, to)
    /\ UNCHANGED <<app, nextApp, removed>>

BackendOf(k) == CASE k = "stop" -> "twilio" [] k = "unsubscribe" -> "email" [] OTHER -> "any"

\* One turn of the loop of deleteAllApps.
DeleteNext(h, i) ==
    LET r == handler[h]
    IN  /\ r.kind # "idle" /\ i \in r.todo
        /\ handler' = [handler EXCEPT ![h].todo = @ \ {i}]
        /\ IF i \in DOMAIN app /\ Selected(i, BackendOf(r.kind), r.to)
           THEN /\ app' = Without(i)
                /\ removed' = removed \cup
                     {[app |-> app[i], by |-> r.kind, to |-> r.to, engine |-> r.engine]}
           ELSE UNCHANGED <<app, removed>>
        /\ UNCHANGED nextApp

\* The anonymous engine is done.  An unsubscription goes on with the engine of
\* the user who has the address, if there is one, and removes all of its apps.
LoopDone(h) ==
    LET r == handler[h]
    IN  /\ r.kind # "idle" /\ r.todo = {}
        /\ IF r.kind = "unsubscribe" /\ r.to = EmailOf
           THEN Starts(h, "user", User, r.to)
           ELSE handler' = [handler EXCEPT ![h] = Idle]
        /\ UNCHANGED <<app, nextApp, removed>>

\* The engine dies under a call: the request fails with what it has removed.
CallFails(h) ==
    /\ handler[h].kind # "idle"
    /\ handler' = [handler EXCEPT ![h] = Idle]
    /\ UNCHANGED <<app, nextApp, removed>>

APNext ==
    \/ \E e \in Engines, b \in Backends, to \in Addresses : CreateApp(e, b, to)
    \/ \E i \in DOMAIN app : DeleteApp(i)
    \/ \E h \in Handlers :
         \/ LoopDone(h) \/ CallFails(h)
         \/ \E a \in Anons, to \in Addresses : SmsStop(h, a, to) \/ Unsubscribe(h, a, to)
         \/ \E i \in handler[h].todo : DeleteNext(h, i)

APSpec == APInit /\ [][APNext]_apvars

----------------------------------------------------------------------------
\* When a loop is done, every app that ran in its engine when it began and
\* notifies the address is gone, whatever was created or deleted meanwhile; and
\* nobody who shares an anonymous engine loses an app to somebody else's
\* address (deleteAllApps, engine.ts; /sms and /notifications/unsubscribe,
\* my_api.ts).  The loop is over one engine: the anonymous engines of the other
\* languages keep their apps, and UnsubscribedFromAll does not hold.
UnsubscribeExact ==
    /\ \A h \in Handlers :
         LET r == handler[h]
         IN  r.kind # "idle" /\ r.todo = {} =>
               \A i \in AppsOf(r.engine) :
                 i < r.since => ~Selected(i, BackendOf(r.kind), r.to)
    /\ \A x \in removed :
         /\ x.app.engine = x.engine
         /\ x.engine # User => x.app.to = x.to /\ x.app.backend = BackendOf(x.by)

\* my_api.ts:124 answers "You have successfully unsubscribed %s from all
\* notifications": no anonymous engine goes on notifying the address.  Those of
\* other languages do.
UnsubscribedFromAll ==
    \A h \in Handlers :
      LET r == handler[h]
      IN  r.kind = "unsubscribe" /\ r.todo = {} =>
            \A i \in DOMAIN app :
              i < r.since /\ app[i].engine \in Anons => ~Selected(i, "email", r.to)
=============================================================================
