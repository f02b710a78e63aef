------------------------------- MODULE Fanout -------------------------------
(***************************************************************************)
(* Administrative requests to the inference service on Kubernetes: the    *)
(* replica that gets one asks the API server for the service's endpoints  *)
(* and proxies the request to each of them, itself included, with a       *)
(* header that stops the recursion (nlp/proxy.ts, the gate of             *)
(* nlp/admin.ts).  All the answers go to the same client.  The cluster    *)
(* and the proxy library are external.                                    *)
(***************************************************************************)
EXTENDS Naturals, FiniteSets

CONSTANTS Replicas,
          MaxRequests,   \* administrative requests
          MaxScale       \* replicas started or stopped

VARIABLES up,            \* replicas that run
          endpoints,     \* replicas the API server lists; it lags behind
          asked,         \* request -> the state of its fan-out; "lost" with its replica
          listed,        \* request -> endpoints it was sent to
          at,            \* request -> replica that fans it out
          inflight,      \* proxied requests on their way: [req, to, hdr]
          handled,       \* request -> replica -> times it was handled
          sent,          \* request -> replica -> times it was proxied there
          answered,      \* request -> "no", "ok", "error": what the client got
          scale

fovars == <<up, endpoints, asked, listed, at, inflight, handled, sent, answered, scale>>

Requests == 1..MaxRequests
Count == [Requests -> [Replicas -> Nat]]

FOTypeOK ==
    /\ up \subseteq Replicas /\ endpoints \subseteq Replicas
    /\ asked \in [Requests -> {"no", "listing", "sent", "lost"}]
    /\ listed \in [Requests -> SUBSET Replicas]
    /\ handled \in Count /\ sent \in Count
    /\ answered \in [Requests -> {"no", "ok", "error"}]

FOInit ==
    /\ up = Replicas /\ endpoints \in SUBSET Replicas
    /\ asked = [r \in Requests |-> "no"]
    /\ listed = [r \in Requests |-> {}]
    /\ at \in [Requests -> Replicas]
    /\ inflight = {}
    /\ handled = [r \in Requests |-> [p \in Replicas |-> 0]]
    /\ sent = [r \in Requests |-> [p \in Replicas |-> 0]]
    /\ answered = [r \in Requests |-> "no"]
    /\ scale = 0

\* The gate: a request with the header is handled, one without is fanned out.
IsProxy_Mut(msg) == FALSE
IsProxy(msg) == msg.hdr

\* The request of the training daemon reaches a replica.
Admin(r) ==
    /\ asked[r] = "no" /\ at[r] \in up
    /\ asked' = [asked EXCEPT ![r] = "listing"]
    /\ UNCHANGED <<up, endpoints, listed, at, inflight, handled, sent, answered, scale>>

\* fanout: the endpoints are listed, and the request proxied to all of them; an
\* empty list, or a failing API server, is a 500.
FanOut(r) ==
    /\ asked[r] = "listing" /\ at[r] \in up
    /\ IF endpoints = {}
       THEN /\ answered' = [answered EXCEPT ![r] = "error"]
            /\ UNCHANGED <<listed, inflight, sent>>
       ELSE /\ listed' = [listed EXCEPT ![r] = endpoints]
            /\ inflight' = inflight \cup {[req |-> r, to |-> p, hdr |-> TRUE] : p \in endpoints}
            /\ sent' = [sent EXCEPT ![r] = [p \in Replicas |->
                                              IF p \in endpoints THEN @[p] + 1 ELSE @[p]]]
            /\ UNCHANGED answered
    /\ asked' = [asked EXCEPT ![r] = "sent"]
    /\ UNCHANGED <<up, endpoints, at, handled, scale>>

ListFails(r) ==
    /\ asked[r] = "listing" /\ at[r] \in up
    /\ asked' = [asked EXCEPT ![r] = "sent"]
    /\ answered' = [answered EXCEPT ![r] = "error"]
    /\ UNCHANGED <<up, endpoints, listed, at, inflight, handled, sent, scale>>

\* A replica gets a proxied request: it handles it, and the first answer is the
\* client's.  Without the gate it would fan it out again.
Handle(m) ==
    /\ m.to \in up
    /\ inflight' = (inflight \ {m}) \cup
                     (IF IsProxy(m) THEN {} ELSE {[m EXCEPT !.to = p] : p \in endpoints})
    /\ handled' = IF IsProxy(m) THEN [handled EXCEPT ![m.req][m.to] = @ + 1] ELSE handled
    /\ sent' = IF IsProxy(m) THEN sent
               ELSE [sent EXCEPT ![m.req] = [p \in Replicas |->
                                               IF p \in endpoints THEN @[p] + 1 ELSE @[p]]]
    /\ answered' = IF answered[m.req] = "no" /\ at[m.req] \in up
                   THEN [answered EXCEPT ![m.req] = "ok"] ELSE answered
    /\ UNCHANGED <<up, endpoints, asked, listed, at, scale>>

\* A proxied request finds its replica gone: nobody listens to the proxy's
\* error event, so the replica that fans out dies of it, and its other requests
\* with it, handled or not.
ProxyError(m) ==
    /\ m.to \notin up /\ at[m.req] \in up
    /\ up' = up \ {at[m.req]}
    /\ inflight' = {n \in inflight : at[n.req] # at[m.req]}
    /\ asked' = [r \in Requests |-> IF at[r] = at[m.req] /\ asked[r] # "no"
                                    THEN "lost" ELSE asked[r]]
    /\ UNCHANGED <<endpoints, listed, at, handled, sent, answered, scale>>

\* Kubernetes stops a replica, starts one, or brings the endpoints up to date.
StopReplica(p) ==
    /\ p \in up /\ scale < MaxScale
    /\ up' = up \ {p} /\ scale' = scale + 1
    /\ inflight' = {n \in inflight : at[n.req] # p}
    /\ asked' = [r \in Requests |-> IF at[r] = p /\ asked[r] # "no" THEN "lost" ELSE asked[r]]
    /\ UNCHANGED <<endpoints, listed, at, handled, sent, answered>>
StartReplica(p) ==
    /\ p \notin up /\ scale < MaxScale
    /\ up' = up \cup {p} /\ scale' = scale + 1
    /\ UNCHANGED <<endpoints, asked, listed, at, inflight, handled, sent, answered>>
UpdateEndpoints ==
    /\ endpoints # up
    /\ endpoints' = up
    /\ UNCHANGED <<up, asked, listed, at, inflight, handled, sent, answered, scale>>

FONext ==
    \/ \E r \in Requests : Admin(r) \/ FanOut(r) \/ ListFails(r)
    \/ \E m \in inflight : Handle(m) \/ ProxyError(m)
    \/ \E p \in Replicas : StopReplica(p) \/ StartReplica(p)
    \/ UpdateEndpoints

FOSpec == FOInit /\ [][FONext]_fovars

----------------------------------------------------------------------------
\* A request is handled at most once by a replica, by listed replicas only, and
\* the client is told of success only after a replica handled it; and unless
\* the replica that fans it out dies, every listed replica handles it in the
\* end (fanout and isProxy, proxy.ts; the gate of admin.ts).
FanoutOnce ==
    \A r \in Requests :
        /\ \A p \in Replicas : /\ sent[r][p] <= 1
                               /\ handled[r][p] <= sent[r][p]
        /\ answered[r] = "ok" => \E p \in listed[r] : handled[r][p] = 1
        /\ asked[r] = "sent" /\ (\A m \in inflight : m.req # r) =>
             \A p \in listed[r] : handled[r][p] = 1
=============================================================================
