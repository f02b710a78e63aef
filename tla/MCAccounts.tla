----------------------------- MODULE MCAccounts -----------------------------
(***************************************************************************)
(* Instances for TLC of what decides who may do what: accounts and their   *)
(* sessions, the developer organizations, and the OAuth 2.0 server. They   *)
(* share no state but the users, whose life each of them has, so that each *)
(* behaviour is one of a single part, which the first state chooses.       *)
(***************************************************************************)
EXTENDS Naturals, FiniteSets, Sequences, TLC

CONSTANTS
  NoUser, Uids, Emails, Passwords, Browsers, Google, Github, FederatedEmail,
  NoOrg, Members, Orgs, Verified, SiteAdmins, Invited, Pinned, Handlers,
  NoRow, Clients, Owners, Scopes, AdminScopes, Magic, MaxTokens

VARIABLES
  part, users, used, session, skip2fa, mail, proof, rows, org, status, orgs,
  invites, engine, request, joined, stale, clients, permission, owners,
  asking, tokens, access, agreed

\* What the constants of the parts are, beyond their comments there.
ASSUME FederatedAssumption ==
  FederatedEmail \in [Google \cup Github -> Emails \cup {NoUser}]
ASSUME InvitedAssumption == Invited \subseteq 0..2

AC == INSTANCE Accounts
OR == INSTANCE Organizations
OA == INSTANCE OAuth2 WITH accounts <- owners

Parts == {"accounts", "organizations", "oauth2"}

accountsVars == <<users, used, session, skip2fa, mail, proof>>
organizationsVars == <<
  rows, org, status, orgs, invites, engine, request, joined, stale>>
oauth2Vars == <<
  clients, permission, owners, asking, tokens, access, agreed>>
vars == <<
  part, accountsVars, organizationsVars, oauth2Vars>>

Init ==
  /\ part \in Parts
  /\ AC!AInit
  /\ OR!OInit
  /\ OA!O2Init

\* The parts other than p stand still.
Frame(p) ==
  /\ part = p /\ part' = part
  /\ IF p = "accounts" THEN TRUE ELSE UNCHANGED accountsVars
  /\ IF p = "organizations" THEN TRUE ELSE UNCHANGED organizationsVars
  /\ IF p = "oauth2" THEN TRUE ELSE UNCHANGED oauth2Vars

Next ==
  \/ Frame("accounts") /\ AC!ANext
  \/ Frame("organizations") /\ OR!ONext
  \/ Frame("oauth2") /\ OA!O2Next

Spec == Init /\ [][Next]_vars

-----------------------------------------------------------------------------
(* The properties of the run. Their conjuncts are stated in the modules of *)
(* the parts, with the code each is about.                                 *)

(***************************************************************************)
(* Every part keeps its state within its type; in particular an            *)
(* application always has the scope profile (developer_oauth2.ts), and     *)
(* rows that refer to a user go with it.                                   *)
(***************************************************************************)
AccountTypes == AC!ATypeOK /\ OR!OTypeOK /\ OA!O2TypeOK

(***************************************************************************)
(* A password alone, by whatever way, does not open a session for a user   *)
(* with two-factor authentication (util/passport.ts, routes/user.ts).      *)
(***************************************************************************)
SecondFactor == part = "accounts" => AC!TwoFactorHolds

(***************************************************************************)
(* The refresh tokens that an application kept give it no access after the *)
(* user revoked it; codes and access tokens that were out at that moment   *)
(* do until they expire, and a permission that such a code makes again     *)
(* stays (util/oauth2.ts, /revoke-oauth2 of routes/user.ts).               *)
(***************************************************************************)
AccessWithdrawn == part = "oauth2" => OA!RevocationHolds

(***************************************************************************)
(* Membership of an organization stays coherent while requests, each of    *)
(* which read its user before its transaction, overlap: a status comes     *)
(* with an organization, an invitation is good for one membership, and     *)
(* engines are restarted after what they read changed                      *)
(* (routes/developer_console.ts, routes/admin.ts).                         *)
(***************************************************************************)
Membership ==
  part = "organizations" => OR!StatusNeedsOrg /\ OR!InvitationOnce /\ OR!EngineFollows

-----------------------------------------------------------------------------
(* Values of the constants.                                                *)

MailOf == [f \in Google \cup Github |-> IF f \in Google THEN "e1" ELSE NoUser]

Symmetry == Permutations(Uids) \cup Permutations(Browsers) \cup Permutations(Handlers)
=============================================================================
