---------------------------- MODULE Organizations ----------------------------
(***************************************************************************)
(* Developer organizations: how users found, join and leave them, and the  *)
(* engines that are restarted with the developer key of the organization   *)
(* (src/src/routes/developer_console.ts, the user and organization parts   *)
(* of src/src/routes/admin.ts, /request-developer and /delete of           *)
(* src/src/routes/user.ts, src/src/model/organization.ts).                 *)
(*                                                                         *)
(* A request reads its user when it comes in (deserializeUser and the      *)
(* require* middleware), then runs one serializable transaction, then, in  *)
(* most handlers, restarts an engine: three steps that other requests may  *)
(* come between. The requests of the site's administrators use nothing of  *)
(* what they read but their roles, which no request changes, so that their *)
(* first two steps are one.                                                *)
(***************************************************************************)
EXTENDS Naturals, FiniteSets

CONSTANTS
  NoOrg,      \* null in users.developer_org
  Members,    \* users
  Orgs,       \* rows of organizations, never deleted
  Verified,   \* users with a verified email address
  SiteAdmins, \* users with the roles ADMIN and THINGPEDIA_ADMIN
  Invited,    \* statuses that invitations offer
  Pinned,     \* users other rows hold on to (likes of examples, blog posts)
  Handlers    \* bound: requests that are handled at once

Statuses == 0..2        \* USER, DEVELOPER, ORG_ADMIN
ORG_ADMIN == 2

VARIABLES
  rows,    \* users that exist
  org,     \* [Members -> Orgs \cup {NoOrg}]: developer_org
  status,  \* [Members -> Statuses]: developer_status
  orgs,    \* organizations that were created
  invites, \* org_invitations: triples of user, organization, status
  engine,  \* [Members -> Orgs \cup {NoOrg, "down"}]: what the engine read
  request, \* [Handlers -> a request and the user row it read, or Free]
  joined,  \* history: members whose current membership was an invitation
  stale    \* history: members whose last restart was lost or came too early

ovars == <<rows, org, status, orgs, invites, engine, request, joined, stale>>

Free == [phase |-> "free"]

\* Requests whose transaction uses what was read of the user before it: the
\* check of the middleware and of the head of the handler, and developer_org.
MemberOps == {"add", "rescind", "remove", "promote", "demote"}

requireDeveloper(u) == org[u] # NoOrg /\ status[u] >= ORG_ADMIN
Allowed(op, u, target) ==
  \/ op \in MemberOps /\ requireDeveloper(u)
  \/ op \in {"found", "accept"} /\ target = u /\ org[u] = NoOrg

Begin(h, op, u, target, o, st) ==
  /\ request[h] = Free /\ u \in rows /\ Allowed(op, u, target)
  /\ request' = [request EXCEPT ![h] =
       [phase |-> "tx", op |-> op, user |-> u, target |-> target, myorg |-> org[u],
        org |-> o, status |-> st]]
  /\ UNCHANGED <<rows, org, status, orgs, invites, engine, joined, stale>>

Done(h) == request' = [request EXCEPT ![h] = Free]
\* The transaction committed and the handler goes on to restart an engine.
ThenRestart(h, u) == request' = [request EXCEPT ![h] = [phase |-> "restart", target |-> u]]

Transaction(h, op) == request[h].phase = "tx" /\ request[h].op = op
Target(h) == request[h].target
\* organization.rescindAllInvitations
InvitesOf(u) == {i \in invites : i[1] = u}

\* makeDeveloper: no organization, no status.
MakeDeveloper_Mut(u, o, st) ==
  /\ org' = [org EXCEPT ![u] = o]
  /\ status' = IF o = NoOrg THEN status ELSE [status EXCEPT ![u] = st]
MakeDeveloper(u, o, st) ==
  /\ org' = [org EXCEPT ![u] = o]
  /\ status' = [status EXCEPT ![u] = IF o = NoOrg THEN 0 ELSE st]

\* The transaction changes nothing: an error page.
Refused(h) ==
  /\ Done(h)
  /\ UNCHANGED <<rows, org, status, orgs, invites, engine, joined, stale>>

-----------------------------------------------------------------------------
(* The organization's own console.                                         *)

\* POST /developers/organization/add-member: only someone who is in no
\* organization can be invited, and only once.
AddMember_Mut(h) ==
  LET u == Target(h)
      mine == request[h].myorg
  IN /\ Transaction(h, "add")
     /\ IF u \in rows /\ u \in Verified
              /\ \A i \in InvitesOf(u) : i[2] # mine
          THEN /\ invites' = invites \cup {<<u, mine, request[h].status>>}
               /\ Done(h)
               /\ UNCHANGED <<rows, org, status, orgs, engine, joined, stale>>
          ELSE Refused(h)
AddMember(h) ==
  LET u == Target(h)
      mine == request[h].myorg
  IN /\ Transaction(h, "add")
     /\ IF u \in rows /\ org[u] = NoOrg /\ u \in Verified
              /\ \A i \in InvitesOf(u) : i[2] # mine
          THEN /\ invites' = invites \cup {<<u, mine, request[h].status>>}
               /\ Done(h)
               /\ UNCHANGED <<rows, org, status, orgs, engine, joined, stale>>
          ELSE Refused(h)

\* GET /developers/organization/accept-invitation: whether the user is in an
\* organization is asked of what was read before the transaction.
AcceptInvitation_Mut(h) ==
  LET u == request[h].user IN
  /\ Transaction(h, "accept")
  /\ IF \A i \in InvitesOf(u) : i[2] # request[h].org
       THEN Refused(h)
       ELSE \E i \in InvitesOf(u) :
              /\ i[2] = request[h].org
              /\ MakeDeveloper(u, i[2], i[3])
              /\ invites' = invites \ InvitesOf(u)
              /\ joined' = joined \cup {u}
              /\ Done(h)
              /\ UNCHANGED <<rows, orgs, engine, stale>>
AcceptInvitation(h) ==
  LET u == request[h].user IN
  /\ Transaction(h, "accept")
  /\ IF \A i \in InvitesOf(u) : i[2] # request[h].org
       THEN Refused(h)
       ELSE \E i \in InvitesOf(u) :
              /\ i[2] = request[h].org
              \* an update of a user that was deleted meanwhile changes no row
              /\ IF u \in rows THEN MakeDeveloper(u, i[2], i[3]) /\ joined' = joined \cup {u}
                               ELSE UNCHANGED <<org, status, joined>>
              /\ invites' = invites \ InvitesOf(u)
              /\ ThenRestart(h, u)
              /\ UNCHANGED <<rows, orgs, engine, stale>>

\* POST /developers/organization/rescind-invitation
RescindInvitation(h) ==
  /\ Transaction(h, "rescind")
  /\ invites' = {i \in invites : Target(h) \in rows => i[1] # Target(h) \/ i[2] # request[h].myorg}
  /\ Done(h)
  /\ UNCHANGED <<rows, org, status, orgs, engine, joined, stale>>

\* POST /developers/organization/remove-member: the restart comes inside the
\* transaction, before the commit, so the new engine reads the old row.
RemoveMember(h) ==
  LET u == Target(h) IN
  /\ Transaction(h, "remove")
  /\ IF u \in rows /\ u # request[h].user /\ org[u] = request[h].myorg
       THEN /\ MakeDeveloper(u, NoOrg, 0)
            /\ joined' = joined \ {u}
            /\ engine' = [engine EXCEPT ![u] = org[u]]
            /\ stale' = stale \cup {u}
            /\ Done(h)
            /\ UNCHANGED <<rows, orgs, invites>>
       ELSE Refused(h)

\* POST /developers/organization/promote and demote
ChangeStatus(h) ==
  LET u == Target(h)
      up == request[h].op = "promote"
  IN /\ Transaction(h, "promote") \/ Transaction(h, "demote")
     /\ IF /\ u \in rows /\ org[u] = request[h].myorg
           /\ IF up THEN status[u] < ORG_ADMIN ELSE u # request[h].user /\ status[u] > 0
          THEN /\ status' = [status EXCEPT ![u] = IF up THEN @ + 1 ELSE @ - 1]
               /\ Done(h)
               /\ UNCHANGED <<rows, org, orgs, invites, engine, joined, stale>>
          ELSE Refused(h)

-----------------------------------------------------------------------------
(* Founding an organization, and the site's administrators.                *)

\* organization.create and makeDeveloper
NewOrg(h, u) ==
  \E o \in Orgs \ orgs :
    /\ orgs' = orgs \cup {o}
    /\ IF u \in rows THEN MakeDeveloper(u, o, ORG_ADMIN) ELSE UNCHANGED <<org, status>>
    /\ joined' = joined \ {u}
    /\ ThenRestart(h, u)
    /\ UNCHANGED <<rows, invites, engine, stale>>

\* POST /user/request-developer
RequestDeveloper(h) == Transaction(h, "found") /\ NewOrg(h, request[h].user)

IsAdmin(a) == a \in rows \cap SiteAdmins

\* POST /admin/users/promote
AdminPromote(h, a, u) ==
  /\ request[h] = Free /\ IsAdmin(a)
  /\ \/ u \in rows /\ status[u] < ORG_ADMIN /\ org[u] = NoOrg /\ NewOrg(h, u)
     \/ /\ u \in rows /\ status[u] < ORG_ADMIN /\ org[u] # NoOrg
        /\ status' = [status EXCEPT ![u] = @ + 1]
        /\ UNCHANGED <<rows, org, orgs, invites, engine, request, joined, stale>>

\* POST /admin/users/demote
AdminDemote(h, a, u) ==
  /\ request[h] = Free /\ IsAdmin(a) /\ a # u
  /\ u \in rows /\ status[u] > 0
  /\ status' = [status EXCEPT ![u] = @ - 1]
  /\ UNCHANGED <<rows, org, orgs, invites, engine, request, joined, stale>>

\* POST /admin/users/revoke-developer
AdminRevoke(h, a, u) ==
  /\ request[h] = Free /\ IsAdmin(a) /\ a # u
  /\ u \in rows
  /\ MakeDeveloper(u, NoOrg, 0) /\ joined' = joined \ {u}
  /\ ThenRestart(h, u)
  /\ UNCHANGED <<rows, orgs, invites, engine, stale>>

\* POST /admin/organizations/add-member
AdminAddMember(h, a, u, o, asDeveloper) ==
  /\ request[h] = Free /\ IsAdmin(a)
  /\ u \in rows /\ org[u] \in {NoOrg, o}
  /\ MakeDeveloper(u, o, IF asDeveloper THEN 1 ELSE 0)
  /\ joined' = joined \ {u}
  /\ ThenRestart(h, u)
  /\ UNCHANGED <<rows, orgs, invites, engine, stale>>

\* POST /user/delete and POST /admin/users/delete: the engine goes first. The
\* user's own request drops its likes; the administrator's fails on them, after
\* the engine is gone.
DeleteUser(a, u) ==
  /\ a \in rows /\ (a = u \/ IsAdmin(a))
  /\ engine' = [engine EXCEPT ![u] = "down"]
  /\ IF a # u /\ u \in Pinned
       THEN UNCHANGED <<rows, org, status, joined>>
       ELSE /\ rows' = rows \ {u}
            /\ org' = [org EXCEPT ![u] = NoOrg]
            /\ status' = [status EXCEPT ![u] = 0]
            /\ joined' = joined \ {u}
  /\ UNCHANGED <<orgs, invites, request, stale>>

-----------------------------------------------------------------------------
(* Engines.                                                                *)

\* What an engine reads when it starts; an engine of no user does not start.
EngineOf(u) == IF u \in rows THEN org[u] ELSE "down"

\* restartUser, after the commit.
Restart(h) ==
  /\ request[h].phase = "restart"
  /\ engine' = [engine EXCEPT ![Target(h)] = EngineOf(Target(h))]
  /\ stale' = stale \ {Target(h)}
  /\ Done(h)
  /\ UNCHANGED <<rows, org, status, orgs, invites, joined>>

\* The website stops between the commit and the restart.
Lost(h) ==
  /\ request[h] # Free
  /\ stale' = IF request[h].phase = "restart" THEN stale \cup {Target(h)} ELSE stale
  /\ Done(h)
  /\ UNCHANGED <<rows, org, status, orgs, invites, engine, joined>>

\* POST /admin/users/kill and start: started only if it is not running.
KillOrStart(u) ==
  /\ engine' = [engine EXCEPT ![u] = IF @ = "down" THEN EngineOf(u) ELSE "down"]
  /\ engine' # engine
  /\ stale' = stale \ {u}
  /\ UNCHANGED <<rows, org, status, orgs, invites, request, joined>>

OInit ==
  /\ rows = Members
  /\ org = [u \in Members |-> NoOrg]
  /\ status = [u \in Members |-> 0]
  /\ orgs = {} /\ invites = {}
  /\ engine = [u \in Members |-> NoOrg]
  /\ request = [h \in Handlers |-> Free]
  /\ joined = {} /\ stale = {}

ONext ==
  \/ \E h \in Handlers :
       \/ \E u, t \in Members :
            \/ \E op \in (MemberOps \ {"add"}) \cup {"found"} : Begin(h, op, u, t, NoOrg, 0)
            \/ \E st \in Invited : Begin(h, "add", u, t, NoOrg, st)
            \/ \E o \in orgs : Begin(h, "accept", u, t, o, 0)
            \/ AdminPromote(h, u, t) \/ AdminDemote(h, u, t) \/ AdminRevoke(h, u, t)
            \/ \E o \in orgs, dev \in BOOLEAN : AdminAddMember(h, u, t, o, dev)
       \/ AddMember(h) \/ AcceptInvitation(h) \/ RescindInvitation(h) \/ RemoveMember(h)
       \/ ChangeStatus(h) \/ RequestDeveloper(h) \/ Restart(h) \/ Lost(h)
  \/ \E u, t \in Members : DeleteUser(u, t)
  \/ \E u \in Members : KillOrStart(u)

OSpec == OInit /\ [][ONext]_ovars

-----------------------------------------------------------------------------
(* Properties.                                                             *)

\* Type correctness.
OTypeOK ==
  /\ rows \subseteq Members
  /\ org \in [Members -> orgs \cup {NoOrg}]
  /\ status \in [Members -> Statuses]
  /\ invites \subseteq Members \X orgs \X Statuses
  /\ engine \in [Members -> Orgs \cup {NoOrg, "down"}]

\* Whoever has a developer status has an organization, whatever requests of
\* members, administrators and the user itself come between one another: the
\* status alone opens the developer routes of the site (makeDeveloper).
StatusNeedsOrg == \A u \in Members : status[u] > 0 => org[u] # NoOrg

\* An invitation is good for one membership: who joined by invitation holds no
\* other invitation, so that a member that is removed cannot come back by
\* itself (accept-invitation rescinds them all, add-member invites nobody who
\* is in an organization).
InvitationOnce == \A u \in joined : InvitesOf(u) = {}

\* An engine that runs with the developer key of another organization than the
\* row of its user is about to be restarted by a request that committed, unless
\* that restart was lost or made too early.
EngineFollows ==
  \A u \in rows :
    engine[u] \notin {"down", org[u]} /\ u \notin stale =>
      \E h \in Handlers : request[h].phase = "restart" /\ Target(h) = u
=============================================================================
