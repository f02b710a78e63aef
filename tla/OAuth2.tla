------------------------------- MODULE OAuth2 -------------------------------
(***************************************************************************)
(* The OAuth 2.0 server: applications that developers register, what users *)
(* grant them, and the tokens they get (src/src/routes/developer_oauth2.ts,*)
(* src/src/routes/my_oauth2.ts, src/src/util/oauth2.ts,                    *)
(* src/src/model/oauth2.ts, /revoke-oauth2 of src/src/routes/user.ts, the  *)
(* bearer strategy of src/src/util/passport.ts).                           *)
(*                                                                         *)
(* Codes, refresh tokens and access tokens are signed and kept by the      *)
(* application; the server only keeps oauth2_permissions, and looks at it  *)
(* when a refresh token is used, and only then.                            *)
(***************************************************************************)
EXTENDS Naturals, FiniteSets

CONSTANTS
  NoRow,       \* no row
  Clients,     \* applications
  Owners,      \* users that have granted or may grant access
  Scopes,      \* scopes an application may ask for, profile among them
  AdminScopes, \* user-sync: only an administrator registers it
  Magic,       \* applications with magic_power: users are not asked
  MaxTokens    \* bound: codes and refresh tokens that are out at once

Profile == "profile"

VARIABLES
  clients,    \* [Clients -> allowed_scopes or NoRow]
  permission, \* [Clients -> [Owners -> scopes or NoRow]]: oauth2_permissions
  accounts,   \* users that exist
  asking,     \* authorization transactions: [client, user, scope]
  tokens,     \* codes and refresh tokens that are out and have not expired
  access,     \* [Clients -> [Owners -> SUBSET Scopes]]: scopes of the access
              \* tokens that are out and have not expired
  agreed      \* history: scopes of the codes that the user granted since the
              \* last revocation, and of the codes and access tokens that were
              \* out at that moment

o2vars == <<clients, permission, accounts, asking, tokens, access, agreed>>

Token(type, c, u, scope) == [grant_type |-> type, sub |-> c, user |-> u, scope |-> scope]
Pair(f, c, u, v) == [f EXCEPT ![c] = [@ EXCEPT ![u] = v]]

\* POST /developers/oauth/create
CreateClient_Mut(c, scopes, admin) ==
  /\ clients[c] = NoRow
  /\ scopes \cap AdminScopes # {} => admin
  /\ clients' = [clients EXCEPT ![c] = scopes]
  /\ UNCHANGED <<permission, accounts, asking, tokens, access, agreed>>
CreateClient(c, scopes, admin) ==
  /\ clients[c] = NoRow
  /\ scopes \cap AdminScopes # {} => admin
  /\ clients' = [clients EXCEPT ![c] = scopes \cup {Profile}]
  /\ UNCHANGED <<permission, accounts, asking, tokens, access, agreed>>

\* server.grant: a code for ten minutes.
Grant(c, u, scope) ==
  /\ tokens' = tokens \cup {Token("code", c, u, scope)}
  /\ Cardinality(tokens') <= MaxTokens
  /\ agreed' = Pair(agreed, c, u, agreed[c][u] \cup scope)

\* GET /me/api/oauth2/authorize: verifyScope, and no question for applications
\* with magic powers.
Authorize(c, u, scope) ==
  /\ clients[c] # NoRow /\ u \in accounts
  /\ scope # {} /\ scope \subseteq clients[c]
  /\ IF c \in Magic THEN Grant(c, u, scope) /\ UNCHANGED asking
                    ELSE /\ asking' = asking \cup {[client |-> c, user |-> u]}
                         /\ UNCHANGED <<tokens, agreed>>
  /\ UNCHANGED <<clients, permission, accounts, access>>

\* POST /me/api/oauth2/authorize: the scope is the one the form sends back.
Decide(t, scope, allow) ==
  /\ t \in asking /\ t.user \in accounts
  /\ asking' = asking \ {t}
  /\ IF allow THEN Grant(t.client, t.user, scope) ELSE UNCHANGED <<tokens, agreed>>
  /\ UNCHANGED <<clients, permission, accounts, access>>

\* An access token for one hour. The bearer strategy of passport.ts takes it
\* as long as it has not expired and the user exists; it reads no permission.
Issue(c, u, scope) == access' = Pair(access, c, u, access[c][u] \cup scope)

\* exchange.code: the scopes are added to the permission, which is made again
\* if the user revoked it: a code works until it expires, any number of times.
\* For a user that is gone the insertion fails.
ExchangeCode(tok) ==
  LET c == tok.sub
      u == tok.user
      old == IF permission[c][u] = NoRow THEN {} ELSE permission[c][u]
  IN /\ tok \in tokens /\ tok.grant_type = "code" /\ u \in accounts
     /\ tokens' = tokens \cup {Token("refresh", c, u, tok.scope)}
     /\ Cardinality(tokens') <= MaxTokens
     /\ permission' = Pair(permission, c, u, old \cup tok.scope)
     /\ Issue(c, u, tok.scope)
     /\ UNCHANGED <<clients, accounts, asking, agreed>>

\* exchange.refreshToken: the permission must still cover the token. The
\* handler does not ask for the type of the token it verifies.
Refresh_Mut(tok) ==
  /\ tok \in tokens
  /\ Issue(tok.sub, tok.user, tok.scope)
  /\ UNCHANGED <<clients, permission, accounts, asking, tokens, agreed>>
Refresh(tok) ==
  /\ tok \in tokens
  /\ permission[tok.sub][tok.user] # NoRow
  /\ tok.scope \subseteq permission[tok.sub][tok.user]
  /\ Issue(tok.sub, tok.user, tok.scope)
  /\ UNCHANGED <<clients, permission, accounts, asking, tokens, agreed>>

\* What the application has that expires by itself only.
CodesOf(c, u) == {tok \in tokens : tok.grant_type = "code" /\ tok.sub = c /\ tok.user = u}
Unexpired(c, u) == access[c][u] \cup UNION {tok.scope : tok \in CodesOf(c, u)}

\* POST /user/revoke-oauth2
Revoke(c, u) ==
  /\ u \in accounts /\ permission[c][u] # NoRow
  /\ permission' = Pair(permission, c, u, NoRow)
  /\ agreed' = Pair(agreed, c, u, Unexpired(c, u))
  /\ UNCHANGED <<clients, accounts, asking, tokens, access>>

\* The user is deleted, and its permissions with it (a foreign key).
DeleteAccount(u) ==
  /\ u \in accounts /\ accounts' = accounts \ {u}
  /\ permission' = [c \in Clients |-> [permission[c] EXCEPT ![u] = NoRow]]
  /\ agreed' = [c \in Clients |-> [agreed[c] EXCEPT ![u] = Unexpired(c, u)]]
  /\ UNCHANGED <<clients, asking, tokens, access>>

\* A code expires after ten minutes, the last access token with a scope one
\* hour after it was issued; refresh tokens never do.
ExpireCode(tok) ==
  /\ tok \in tokens /\ tok.grant_type = "code"
  /\ tokens' = tokens \ {tok}
  /\ UNCHANGED <<clients, permission, accounts, asking, access, agreed>>

ExpireAccess(c, u, s) ==
  /\ s \in access[c][u]
  /\ access' = Pair(access, c, u, access[c][u] \ {s})
  /\ UNCHANGED <<clients, permission, accounts, asking, tokens, agreed>>

O2Init ==
  /\ clients = [c \in Clients |-> NoRow]
  /\ permission = [c \in Clients |-> [u \in Owners |-> NoRow]]
  /\ accounts = Owners
  /\ asking = {} /\ tokens = {}
  /\ access = [c \in Clients |-> [u \in Owners |-> {}]]
  /\ agreed = [c \in Clients |-> [u \in Owners |-> {}]]

O2Next ==
  \/ \E c \in Clients :
       \/ \E s \in SUBSET Scopes, admin \in BOOLEAN : CreateClient(c, s, admin)
       \/ \E u \in Owners : Revoke(c, u) \/ \E s \in SUBSET Scopes : Authorize(c, u, s)
       \/ \E u \in Owners, s \in Scopes : ExpireAccess(c, u, s)
  \/ \E t \in asking, s \in SUBSET Scopes, allow \in BOOLEAN : s # {} /\ Decide(t, s, allow)
  \/ \E tok \in tokens : ExchangeCode(tok) \/ Refresh(tok) \/ ExpireCode(tok)
  \/ \E u \in Owners : DeleteAccount(u)

O2Spec == O2Init /\ [][O2Next]_o2vars

-----------------------------------------------------------------------------
(* Properties.                                                             *)

\* Type correctness.
O2TypeOK ==
  /\ \A c \in Clients :
       /\ clients[c] = NoRow \/ Profile \in clients[c]
       /\ \A u \in Owners : permission[c][u] # NoRow => u \in accounts /\ clients[c] # NoRow
  /\ \A tok \in tokens : tok.grant_type \in {"code", "refresh"} /\ tok.scope \subseteq Scopes

\* "check that the permission is still in the database (has not been revoked or
\* superseded)" (util/oauth2.ts:154): once a user revoked an application, or went
\* away, the refresh tokens it keeps, which never expire, give it no access
\* token. What it can use are the scopes of codes that the user granted since,
\* and of the codes and access tokens that had not expired at the revocation:
\* those are honoured, and such a code makes the permission again, which
\* refresh tokens of its scopes then outlive.
RevocationHolds == \A c \in Clients, u \in Owners : access[c][u] \subseteq agreed[c][u]
=============================================================================
