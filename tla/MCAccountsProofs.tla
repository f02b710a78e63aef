-------------------------- MODULE MCAccountsProofs --------------------------
(***************************************************************************)
(* Proofs about the accounts, the organizations and the OAuth 2.0 server,  *)
(* for every set of users, browsers, organizations, applications and       *)
(* scopes, and for any number of requests that are handled at once.        *)
(***************************************************************************)
EXTENDS MCAccounts, TLAPS

-----------------------------------------------------------------------------
(* The OAuth 2.0 server                                                    *)

ScopeSets == SUBSET Scopes
OAuthTokens == [grant_type : {"code", "refresh"}, sub : Clients, user : Owners,
                scope : ScopeSets]

OAuthTypes ==
  /\ clients \in [Clients -> (SUBSET (Scopes \cup {OA!Profile})) \cup {NoRow}]
  /\ permission \in [Clients -> [Owners -> ScopeSets \cup {NoRow}]]
  /\ owners \subseteq Owners
  /\ asking \subseteq [client : Clients, user : Owners]
  /\ tokens \subseteq OAuthTokens
  /\ access \in [Clients -> [Owners -> ScopeSets]]
  /\ agreed \in [Clients -> [Owners -> ScopeSets]]

\* Only applications that exist have questions to ask and tokens; what an
\* application is permitted, and what its codes are good for, is what
\* its user agreed to since the last revocation or what was out at that moment.
OAuthInv ==
  /\ OAuthTypes
  /\ OA!O2TypeOK
  /\ \A t \in asking : clients[t.client] # NoRow
  /\ \A tok \in tokens : clients[tok.sub] # NoRow
  /\ \A c \in Clients, u \in Owners :
       permission[c][u] # NoRow => permission[c][u] \subseteq agreed[c][u]
  /\ \A tok \in tokens :
       tok.grant_type = "code" => tok.scope \subseteq agreed[tok.sub][tok.user]
  /\ OA!RevocationHolds

\* The three matrices of the invariant, whose entries Pair changes.
LEMMA Matrices ==
  ASSUME OAuthInv
  PROVE  /\ permission \in [Clients -> [Owners -> ScopeSets \cup {NoRow}]]
         /\ access \in [Clients -> [Owners -> ScopeSets]]
         /\ agreed \in [Clients -> [Owners -> ScopeSets]]
BY DEF OAuthInv, OAuthTypes

LEMMA WithinAgreed ==
  ASSUME OAuthInv
  PROVE  \A c \in Clients, u \in Owners :
           /\ permission[c][u] # NoRow => permission[c][u] \subseteq agreed[c][u]
           /\ access[c][u] \subseteq agreed[c][u]
BY DEF OAuthInv, OA!RevocationHolds

\* What an application has that expires are scopes.
LEMMA UnexpiredScopes ==
  ASSUME OAuthInv, NEW c \in Clients, NEW u \in Owners
  PROVE  /\ OA!Unexpired(c, u) \in ScopeSets
         /\ access[c][u] \subseteq OA!Unexpired(c, u)
         /\ \A tok \in OA!CodesOf(c, u) : tok.scope \subseteq OA!Unexpired(c, u)
<1>1. access[c][u] \in ScopeSets
  BY DEF OAuthInv, OAuthTypes
<1>2. \A tok \in OA!CodesOf(c, u) : tok.scope \in ScopeSets
  BY DEF OA!CodesOf, OAuthInv, OAuthTypes, OAuthTokens
<1>3. QED
  BY <1>1, <1>2 DEF OA!Unexpired, ScopeSets

\* Granting a code: one more token, of an application that exists and with
\* scopes that the user agrees to.
LEMMA GrantToken ==
  ASSUME OAuthInv, NEW c \in Clients, NEW u \in Owners, NEW s \in ScopeSets,
         OA!Grant(c, u, s), clients[c] # NoRow
  PROVE  /\ tokens' \subseteq OAuthTokens
         /\ \A tok \in tokens' : clients[tok.sub] # NoRow
         /\ agreed' \in [Clients -> [Owners -> ScopeSets]]
         /\ \A d \in Clients, w \in Owners : agreed[d][w] \subseteq agreed'[d][w]
         /\ \A tok \in tokens' :
              tok.grant_type = "code" => tok.scope \subseteq agreed'[tok.sub][tok.user]
<1> DEFINE new == OA!Token("code", c, u, s)
<1>1. new \in OAuthTokens /\ new.sub = c /\ new.user = u /\ new.scope = s
  BY DEF OA!Token, OAuthTokens
<1>2. /\ tokens \subseteq OAuthTokens /\ \A tok \in tokens : clients[tok.sub] # NoRow
      /\ \A tok \in tokens :
           tok.grant_type = "code" => tok.scope \subseteq agreed[tok.sub][tok.user]
      /\ agreed[c][u] \cup s \in ScopeSets
  BY DEF OAuthInv, OAuthTypes, ScopeSets
<1>3. tokens' = tokens \cup {new} /\ agreed' = OA!Pair(agreed, c, u, agreed[c][u] \cup s)
  BY DEF OA!Grant
<1> HIDE DEF new
<1>4. /\ agreed' \in [Clients -> [Owners -> ScopeSets]]
      /\ \A d \in Clients, w \in Owners :
           agreed'[d][w] = IF d = c /\ w = u THEN agreed[c][u] \cup s ELSE agreed[d][w]
  BY <1>2, <1>3, Matrices DEF OA!Pair
<1>5. \A d \in Clients, w \in Owners : agreed[d][w] \subseteq agreed'[d][w]
  BY <1>4
<1>6. ASSUME NEW tok \in tokens', tok.grant_type = "code"
      PROVE  tok.scope \subseteq agreed'[tok.sub][tok.user]
  <2>1. CASE tok \in tokens
    BY <1>2, <1>5, <1>6, <2>1 DEF OAuthTokens
  <2>2. CASE tok = new
    BY <1>1, <1>4, <2>2
  <2>3. QED
    BY <1>3, <2>1, <2>2
<1>7. QED
  BY <1>1, <1>2, <1>3, <1>4, <1>5, <1>6

\* The types of the tokens are those that the server knows.
LEMMA TokenTypes ==
  ASSUME OAuthTypes,
         \A c \in Clients :
           /\ clients[c] = NoRow \/ OA!Profile \in clients[c]
           /\ \A u \in Owners : permission[c][u] # NoRow => u \in owners /\ clients[c] # NoRow
  PROVE  OA!O2TypeOK
BY DEF OAuthTypes, OA!O2TypeOK, OAuthTokens, ScopeSets

\* What a request that may grant a code leaves.
Granted ==
  /\ tokens' \subseteq OAuthTokens
  /\ \A tok \in tokens' : clients[tok.sub] # NoRow
  /\ agreed' \in [Clients -> [Owners -> ScopeSets]]
  /\ \A d \in Clients, w \in Owners : agreed[d][w] \subseteq agreed'[d][w]
  /\ \A tok \in tokens' :
       tok.grant_type = "code" => tok.scope \subseteq agreed'[tok.sub][tok.user]

LEMMA GrantedKeeps ==
  ASSUME OAuthInv, Granted, UNCHANGED <<clients, permission, owners, access>>,
         asking' \subseteq [client : Clients, user : Owners],
         \A t \in asking' : clients[t.client] # NoRow
  PROVE  OAuthInv'
<1>1. OAuthTypes'
  BY DEF OAuthInv, OAuthTypes, Granted
<1>2. OA!O2TypeOK'
  BY DEF OAuthInv, OA!O2TypeOK, OAuthTokens, ScopeSets, Granted
<1>3. OA!RevocationHolds'
  BY DEF OAuthInv, OA!RevocationHolds, Granted
<1>4. \A c \in Clients, u \in Owners :
        permission'[c][u] # NoRow => permission'[c][u] \subseteq agreed'[c][u]
  BY DEF OAuthInv, Granted
<1>5. QED
  BY <1>1, <1>2, <1>3, <1>4 DEF OAuthInv, Granted

LEMMA OAuthInit == OA!O2Init => OAuthInv
BY DEF OA!O2Init, OAuthInv, OAuthTypes, OA!O2TypeOK, OA!RevocationHolds, ScopeSets

LEMMA CreateClientStep ==
  ASSUME OAuthInv, NEW c \in Clients, NEW s \in SUBSET Scopes, NEW admin \in BOOLEAN,
         OA!CreateClient(c, s, admin)
  PROVE  OAuthInv'
<1>1. /\ clients[c] = NoRow /\ clients' = [clients EXCEPT ![c] = s \cup {OA!Profile}]
      /\ UNCHANGED <<permission, owners, asking, tokens, access, agreed>>
  BY DEF OA!CreateClient
<1>2. OAuthTypes'
  BY <1>1 DEF OAuthInv, OAuthTypes
<1>3. /\ \A t \in asking : t.client \in Clients /\ t.client # c
      /\ \A tok \in tokens : tok.sub \in Clients /\ tok.sub # c
  BY <1>1 DEF OAuthInv, OAuthTypes, OAuthTokens
<1>4. OA!O2TypeOK'
  BY <1>1 DEF OAuthInv, OAuthTypes, OA!O2TypeOK
<1>5. QED
  BY <1>1, <1>2, <1>3, <1>4 DEF OAuthInv, OAuthTypes, OA!RevocationHolds

LEMMA AuthorizeStep ==
  ASSUME OAuthInv, NEW c \in Clients, NEW u \in Owners, NEW s \in SUBSET Scopes,
         OA!Authorize(c, u, s)
  PROVE  OAuthInv'
<1>1. /\ clients[c] # NoRow
      /\ \/ OA!Grant(c, u, s) /\ UNCHANGED asking
         \/ asking' = asking \cup {[client |-> c, user |-> u]} /\ UNCHANGED <<tokens, agreed>>
      /\ UNCHANGED <<clients, permission, owners, access>>
  BY DEF OA!Authorize
<1>2. Granted
  BY <1>1, GrantToken DEF ScopeSets, OAuthInv, OAuthTypes, Granted
<1>3. /\ asking' \subseteq [client : Clients, user : Owners]
      /\ \A t \in asking' : clients[t.client] # NoRow
  BY <1>1 DEF OAuthInv, OAuthTypes
<1>4. QED
  BY <1>1, <1>2, <1>3, GrantedKeeps

LEMMA DecideStep ==
  ASSUME OAuthInv, NEW t \in asking, NEW s \in SUBSET Scopes, NEW allow \in BOOLEAN,
         OA!Decide(t, s, allow)
  PROVE  OAuthInv'
<1>1. /\ asking' = asking \ {t}
      /\ OA!Grant(t.client, t.user, s) \/ UNCHANGED <<tokens, agreed>>
      /\ UNCHANGED <<clients, permission, owners, access>>
  BY DEF OA!Decide
<1>2. t.client \in Clients /\ t.user \in Owners /\ clients[t.client] # NoRow
  BY DEF OAuthInv, OAuthTypes
<1>3. Granted
  BY <1>1, <1>2, GrantToken DEF ScopeSets, OAuthInv, OAuthTypes, Granted
<1>4. /\ asking' \subseteq [client : Clients, user : Owners]
      /\ \A x \in asking' : clients[x.client] # NoRow
  BY <1>1 DEF OAuthInv, OAuthTypes
<1>5. QED
  BY <1>1, <1>3, <1>4, GrantedKeeps

\* A code adds scopes that the user agreed to, to the permission and to the
\* access tokens.
LEMMA ExchangeStep ==
  ASSUME OAuthInv, NEW tok \in tokens, OA!ExchangeCode(tok)
  PROVE  OAuthInv'
<1> DEFINE c == tok.sub
           u == tok.user
           old == IF permission[c][u] = NoRow THEN {} ELSE permission[c][u]
<1>1. /\ c \in Clients /\ u \in Owners /\ tok.scope \in ScopeSets
      /\ clients[c] # NoRow
  BY DEF OAuthInv, OAuthTypes, OAuthTokens
<1>2. /\ u \in owners
      /\ tokens' = tokens \cup {OA!Token("refresh", c, u, tok.scope)}
      /\ permission' = OA!Pair(permission, c, u, old \cup tok.scope)
      /\ access' = OA!Pair(access, c, u, access[c][u] \cup tok.scope)
      /\ UNCHANGED <<clients, owners, asking, agreed>>
  BY DEF OA!ExchangeCode, OA!Issue
<1>3. /\ permission[c][u] \in ScopeSets \cup {NoRow}
      /\ access[c][u] \in ScopeSets /\ agreed[c][u] \in ScopeSets
      /\ old \in ScopeSets /\ old \subseteq agreed[c][u]
      /\ tok.scope \subseteq agreed[c][u]
  BY <1>1 DEF OAuthInv, OAuthTypes, ScopeSets, OA!ExchangeCode
<1>4. /\ old \cup tok.scope \in ScopeSets \cup {NoRow}
      /\ access[c][u] \cup tok.scope \in ScopeSets
  BY <1>1, <1>3 DEF ScopeSets
<1> HIDE DEF c, u, old
<1>5. /\ permission' \in [Clients -> [Owners -> ScopeSets \cup {NoRow}]]
      /\ \A d \in Clients, w \in Owners :
           permission'[d][w] = IF d = c /\ w = u THEN old \cup tok.scope ELSE permission[d][w]
  BY <1>1, <1>2, <1>4, Matrices DEF OA!Pair
<1>6. /\ access' \in [Clients -> [Owners -> ScopeSets]]
      /\ \A d \in Clients, w \in Owners :
           access'[d][w] = IF d = c /\ w = u THEN access[c][u] \cup tok.scope ELSE access[d][w]
  BY <1>1, <1>2, <1>4, Matrices DEF OA!Pair
<1>7. \A t \in tokens' :
        t.grant_type = "code" => t.scope \subseteq agreed'[t.sub][t.user]
  BY <1>2 DEF OAuthInv, OA!Token
<1>8. /\ tokens' \subseteq OAuthTokens
      /\ \A t \in tokens' : clients[t.sub] # NoRow
  BY <1>1, <1>2 DEF OAuthInv, OAuthTypes, OAuthTokens, OA!Token
<1>9. OAuthTypes'
  BY <1>2, <1>5, <1>6, <1>8 DEF OAuthInv, OAuthTypes
<1>10. \A d \in Clients :
         /\ clients[d] = NoRow \/ OA!Profile \in clients[d]
         /\ \A w \in Owners : permission'[d][w] # NoRow => w \in owners /\ clients[d] # NoRow
  <2>1. \A d \in Clients :
          /\ clients[d] = NoRow \/ OA!Profile \in clients[d]
          /\ \A w \in Owners : permission[d][w] # NoRow => w \in owners /\ clients[d] # NoRow
    BY DEF OAuthInv, OA!O2TypeOK
  <2>2. QED
    BY <1>1, <1>2, <1>5, <2>1
<1>11. OA!O2TypeOK'
  BY <1>2, <1>8, <1>10 DEF OA!O2TypeOK, OAuthTokens, ScopeSets
<1>12. \A d \in Clients, w \in Owners :
         permission'[d][w] # NoRow => permission'[d][w] \subseteq agreed'[d][w]
  BY <1>2, <1>3, <1>5, WithinAgreed
<1>13. OA!RevocationHolds'
  BY <1>2, <1>3, <1>6, WithinAgreed DEF OA!RevocationHolds
<1>14. QED
  BY <1>2, <1>7, <1>8, <1>9, <1>11, <1>12, <1>13 DEF OAuthInv

\* A token that the permission covers gives what the user agreed to.
LEMMA RefreshStep ==
  ASSUME OAuthInv, NEW tok \in tokens, OA!Refresh(tok)
  PROVE  OAuthInv'
<1> DEFINE c == tok.sub
           u == tok.user
<1>1. c \in Clients /\ u \in Owners /\ tok.scope \in ScopeSets
  BY DEF OAuthInv, OAuthTypes, OAuthTokens
<1>2. /\ permission[c][u] # NoRow /\ tok.scope \subseteq permission[c][u]
      /\ access' = OA!Pair(access, c, u, access[c][u] \cup tok.scope)
      /\ UNCHANGED <<clients, permission, owners, asking, tokens, agreed>>
  BY DEF OA!Refresh, OA!Issue
<1>3. tok.scope \subseteq agreed[c][u] /\ access[c][u] \cup tok.scope \in ScopeSets
  BY <1>1, <1>2 DEF OAuthInv, OAuthTypes, ScopeSets
<1> HIDE DEF c, u
<1>4. /\ access' \in [Clients -> [Owners -> ScopeSets]]
      /\ \A d \in Clients, w \in Owners :
           access'[d][w] = IF d = c /\ w = u THEN access[c][u] \cup tok.scope ELSE access[d][w]
  BY <1>1, <1>2, <1>3, Matrices DEF OA!Pair
<1>5. OA!RevocationHolds'
  BY <1>2, <1>3, <1>4, WithinAgreed DEF OA!RevocationHolds
<1>6. OAuthTypes' /\ OA!O2TypeOK'
  BY <1>2, <1>4 DEF OAuthInv, OAuthTypes, OA!O2TypeOK
<1>7. QED
  BY <1>2, <1>5, <1>6 DEF OAuthInv

LEMMA RevokeStep ==
  ASSUME OAuthInv, NEW c \in Clients, NEW u \in Owners, OA!Revoke(c, u)
  PROVE  OAuthInv'
<1>1. /\ permission' = OA!Pair(permission, c, u, NoRow)
      /\ agreed' = OA!Pair(agreed, c, u, OA!Unexpired(c, u))
      /\ UNCHANGED <<clients, owners, asking, tokens, access>>
  BY DEF OA!Revoke
<1>2. NoRow \in ScopeSets \cup {NoRow} /\ OA!Unexpired(c, u) \in ScopeSets
  BY UnexpiredScopes
<1>3. /\ permission' \in [Clients -> [Owners -> ScopeSets \cup {NoRow}]]
      /\ \A d \in Clients, w \in Owners :
           permission'[d][w] = IF d = c /\ w = u THEN NoRow ELSE permission[d][w]
  BY <1>1, <1>2, Matrices DEF OA!Pair
<1>4. /\ agreed' \in [Clients -> [Owners -> ScopeSets]]
      /\ \A d \in Clients, w \in Owners :
           agreed'[d][w] = IF d = c /\ w = u THEN OA!Unexpired(c, u) ELSE agreed[d][w]
  BY <1>1, <1>2, Matrices DEF OA!Pair
<1>5. OAuthTypes'
  BY <1>1, <1>3, <1>4 DEF OAuthInv, OAuthTypes
<1>6. OA!O2TypeOK'
  BY <1>1, <1>3 DEF OAuthInv, OA!O2TypeOK
<1>7. \A d \in Clients, w \in Owners :
        permission'[d][w] # NoRow => permission'[d][w] \subseteq agreed'[d][w]
  BY <1>3, <1>4 DEF OAuthInv
<1>8. ASSUME NEW tok \in tokens, tok.grant_type = "code"
      PROVE  tok.scope \subseteq agreed'[tok.sub][tok.user]
  <2>1. tok.sub \in Clients /\ tok.user \in Owners /\ tok.scope \subseteq agreed[tok.sub][tok.user]
    BY <1>8 DEF OAuthInv, OAuthTypes, OAuthTokens
  <2>2. tok.sub = c /\ tok.user = u => tok.scope \subseteq OA!Unexpired(c, u)
    BY <1>8, UnexpiredScopes DEF OA!CodesOf
  <2>3. QED
    BY <1>4, <2>1, <2>2
<1>9. OA!RevocationHolds'
  BY <1>1, <1>4, UnexpiredScopes DEF OAuthInv, OA!RevocationHolds
<1>10. QED
  BY <1>1, <1>5, <1>6, <1>7, <1>8, <1>9 DEF OAuthInv

LEMMA DeleteAccountStep ==
  ASSUME OAuthInv, NEW u \in Owners, OA!DeleteAccount(u)
  PROVE  OAuthInv'
<1>1. /\ owners' = owners \ {u}
      /\ permission' = [c \in Clients |-> [permission[c] EXCEPT ![u] = NoRow]]
      /\ agreed' = [c \in Clients |-> [agreed[c] EXCEPT ![u] = OA!Unexpired(c, u)]]
      /\ UNCHANGED <<clients, asking, tokens, access>>
  BY DEF OA!DeleteAccount
<1>2. /\ permission' \in [Clients -> [Owners -> ScopeSets \cup {NoRow}]]
      /\ \A d \in Clients, w \in Owners :
           permission'[d][w] = IF w = u THEN NoRow ELSE permission[d][w]
  BY <1>1 DEF OAuthInv, OAuthTypes
<1>3. \A d \in Clients : OA!Unexpired(d, u) \in ScopeSets
  BY UnexpiredScopes
<1>4. /\ agreed' \in [Clients -> [Owners -> ScopeSets]]
      /\ \A d \in Clients, w \in Owners :
           agreed'[d][w] = IF w = u THEN OA!Unexpired(d, u) ELSE agreed[d][w]
  BY <1>1, <1>3, Matrices
<1>5. OAuthTypes'
  BY <1>1, <1>2, <1>4 DEF OAuthInv, OAuthTypes
<1>6. OA!O2TypeOK'
  BY <1>1, <1>2 DEF OAuthInv, OA!O2TypeOK
<1>7. \A d \in Clients, w \in Owners :
        permission'[d][w] # NoRow => permission'[d][w] \subseteq agreed'[d][w]
  BY <1>2, <1>4 DEF OAuthInv
<1>8. ASSUME NEW tok \in tokens, tok.grant_type = "code"
      PROVE  tok.scope \subseteq agreed'[tok.sub][tok.user]
  <2>1. tok.sub \in Clients /\ tok.user \in Owners /\ tok.scope \subseteq agreed[tok.sub][tok.user]
    BY <1>8 DEF OAuthInv, OAuthTypes, OAuthTokens
  <2>2. tok.user = u => tok.scope \subseteq OA!Unexpired(tok.sub, u)
    BY <1>8, <2>1, UnexpiredScopes DEF OA!CodesOf
  <2>3. QED
    BY <1>4, <2>1, <2>2
<1>9. OA!RevocationHolds'
  BY <1>1, <1>4, UnexpiredScopes DEF OAuthInv, OA!RevocationHolds
<1>10. QED
  BY <1>1, <1>5, <1>6, <1>7, <1>8, <1>9 DEF OAuthInv

LEMMA ExpireCodeStep ==
  ASSUME OAuthInv, NEW tok \in tokens, OA!ExpireCode(tok)
  PROVE  OAuthInv'
BY DEF OA!ExpireCode, OAuthInv, OAuthTypes, OA!O2TypeOK, OA!RevocationHolds

LEMMA ExpireAccessStep ==
  ASSUME OAuthInv, NEW c \in Clients, NEW u \in Owners, NEW s \in Scopes,
         OA!ExpireAccess(c, u, s)
  PROVE  OAuthInv'
<1>1. /\ access' = OA!Pair(access, c, u, access[c][u] \ {s})
      /\ UNCHANGED <<clients, permission, owners, asking, tokens, agreed>>
  BY DEF OA!ExpireAccess
<1>2. access[c][u] \ {s} \in ScopeSets
  BY Matrices DEF ScopeSets
<1>3. /\ access' \in [Clients -> [Owners -> ScopeSets]]
      /\ \A d \in Clients, w \in Owners :
           access'[d][w] = IF d = c /\ w = u THEN access[c][u] \ {s} ELSE access[d][w]
  BY <1>1, <1>2, Matrices DEF OA!Pair
<1>4. OA!RevocationHolds'
  BY <1>1, <1>3 DEF OAuthInv, OA!RevocationHolds
<1>5. QED
  BY <1>1, <1>3, <1>4 DEF OAuthInv, OAuthTypes, OA!O2TypeOK

\* The invariant of the server.
LEMMA OAuthNext == OAuthInv /\ OA!O2Next => OAuthInv'
BY CreateClientStep, AuthorizeStep, DecideStep, ExchangeStep, RefreshStep, RevokeStep,
   DeleteAccountStep, ExpireCodeStep, ExpireAccessStep DEF OA!O2Next

LEMMA OAuthIdle == OAuthInv /\ UNCHANGED oauth2Vars => OAuthInv'
BY DEF OAuthInv, OAuthTypes, OA!O2TypeOK, OA!RevocationHolds, oauth2Vars

-----------------------------------------------------------------------------
(* Accounts and sessions                                                   *)

UserRows == [email : Emails \cup {NoUser}, verified : BOOLEAN,
             password : Passwords \cup {AC!ShortPassword, NoUser}, totp : BOOLEAN,
             federated : SUBSET AC!Federated]
Shown == {"registered", "password", "code", "federated", "mail"}
Sessions == [user : Uids \cup {NoUser}, done2fa : BOOLEAN]

AccountsTypes ==
  /\ users \in [Uids -> UserRows \cup {NoUser}]
  /\ used \subseteq Uids
  /\ session \in [Browsers -> Sessions]
  /\ skip2fa \subseteq Browsers
  /\ proof \in [Browsers -> SUBSET Shown]

\* The flag completed2fa is what TwoFactorHolds rests on: a session that showed
\* a password only has it when the browser has the cookie. That the user set up
\* a second factor later, or elsewhere, makes no difference to it.
FlagEarned ==
  \A b \in Browsers : session[b].done2fa /\ b \notin skip2fa => proof[b] # {"password"}

AccountsInv ==
  /\ AccountsTypes
  /\ \A u \in AC!Existing : u \in used
  /\ FlagEarned

\* The session of a browser after it logged in.
LEMMA LoginSession ==
  ASSUME AccountsTypes, NEW b \in Browsers, NEW u \in Uids \cup {NoUser}, NEW flag \in BOOLEAN,
         NEW what \in SUBSET Shown, AC!Login(b, u, flag), AC!Shows(b, what),
         skip2fa \subseteq skip2fa', FlagEarned,
         flag /\ b \notin skip2fa' => what # {"password"}
  PROVE  /\ session' \in [Browsers -> Sessions]
         /\ proof' \in [Browsers -> SUBSET Shown]
         /\ FlagEarned'
<1>1. [user |-> u, done2fa |-> flag] \in Sessions
  BY DEF Sessions
<1>2. session' = [session EXCEPT ![b] = [user |-> u, done2fa |-> flag]]
      /\ proof' = [proof EXCEPT ![b] = what]
  BY DEF AC!Login, AC!Shows
<1>3. session' \in [Browsers -> Sessions] /\ proof' \in [Browsers -> SUBSET Shown]
  BY <1>1, <1>2 DEF AccountsTypes
<1>4. /\ session'[b].done2fa = flag /\ proof'[b] = what
      /\ \A c \in Browsers : c # b => session'[c] = session[c] /\ proof'[c] = proof[c]
  BY <1>1, <1>2 DEF AccountsTypes
<1>5. QED
  BY <1>3, <1>4 DEF FlagEarned

\* A row that is written belongs to a user that exists or to an id that was
\* given out.
LEMMA RowWritten ==
  ASSUME AccountsInv, NEW u \in Uids, NEW row \in UserRows \cup {NoUser},
         users' = [users EXCEPT ![u] = row], used \subseteq used', used' \subseteq Uids,
         row = NoUser \/ u \in AC!Existing \/ u \in used'
  PROVE  /\ users' \in [Uids -> UserRows \cup {NoUser}]
         /\ \A v \in AC!Existing' : v \in used'
BY DEF AccountsInv, AccountsTypes, AC!Existing

\* Who exists has a row.
LEMMA ExistingRow ==
  ASSUME AccountsInv, NEW u \in AC!Existing
  PROVE  u \in Uids /\ users[u] \in UserRows
BY DEF AccountsInv, AccountsTypes, AC!Existing

LEMMA AccountsInit == AC!AInit => AccountsInv
BY DEF AC!AInit, AccountsInv, AccountsTypes, AC!Existing, FlagEarned, AC!LoggedOut, Sessions

\* The row of a new user.
LEMMA NewUserRow ==
  ASSUME NEW email \in Emails \cup {NoUser}, NEW verified \in BOOLEAN,
         NEW pw \in Passwords \cup {AC!ShortPassword, NoUser}, NEW fed \in SUBSET AC!Federated
  PROVE  AC!NewUser(email, verified, pw, fed) \in UserRows
BY DEF AC!NewUser, UserRows

LEMMA RegisterStep ==
  ASSUME AccountsInv, NEW b \in Browsers, NEW u \in Uids, NEW e \in Emails,
         NEW pw \in Passwords \cup {AC!ShortPassword}, AC!Register(b, u, e, pw)
  PROVE  AccountsInv'
<1>1. /\ users' = [users EXCEPT ![u] = AC!NewUser(e, FALSE, pw, {})]
      /\ used' = used \cup {u} /\ skip2fa' = skip2fa
      /\ AC!Login(b, u, TRUE) /\ AC!Shows(b, {"registered"})
  BY DEF AC!Register
<1>2. AC!NewUser(e, FALSE, pw, {}) \in UserRows
  BY NewUserRow
<1>3. /\ users' \in [Uids -> UserRows \cup {NoUser}]
      /\ \A v \in AC!Existing' : v \in used'
      /\ used' \subseteq Uids
  BY <1>1, <1>2, RowWritten DEF AccountsInv, AccountsTypes
<1>4. /\ {"registered"} \in SUBSET Shown /\ {"registered"} # {"password"}
  BY DEF Shown
<1>5. /\ session' \in [Browsers -> Sessions] /\ proof' \in [Browsers -> SUBSET Shown]
      /\ FlagEarned'
  BY <1>1, <1>4, LoginSession DEF AccountsInv
<1>6. QED
  BY <1>1, <1>3, <1>5 DEF AccountsInv, AccountsTypes

\* A step that writes no row.
LEMMA RowsUnchanged ==
  ASSUME AccountsInv, UNCHANGED <<users, used>>,
         skip2fa' \subseteq Browsers,
         session' \in [Browsers -> Sessions], proof' \in [Browsers -> SUBSET Shown],
         FlagEarned'
  PROVE  AccountsInv'
BY DEF AccountsInv, AccountsTypes, AC!Existing

\* A step that changes no session.
LEMMA SessionsUnchanged ==
  ASSUME AccountsInv, UNCHANGED <<session, skip2fa, proof, used>>,
         users' \in [Uids -> UserRows \cup {NoUser}],
         \A v \in AC!Existing' : v \in used'
  PROVE  AccountsInv'
BY DEF AccountsInv, AccountsTypes, FlagEarned

\* A step that writes the row of a user that exists.
LEMMA RowUpdated ==
  ASSUME AccountsInv, NEW u \in AC!Existing, NEW row \in UserRows \cup {NoUser},
         users' = [users EXCEPT ![u] = row], used' = used
  PROVE  /\ users' \in [Uids -> UserRows \cup {NoUser}]
         /\ \A v \in AC!Existing' : v \in used'
BY ExistingRow, RowWritten DEF AccountsInv, AccountsTypes

LEMMA LoginPasswordStep ==
  ASSUME AccountsInv, NEW b \in Browsers, NEW u \in Uids,
         NEW pw \in Passwords \cup {AC!ShortPassword}, AC!LoginPassword(b, u, pw)
  PROVE  AccountsInv'
<1>1. /\ AC!Login(b, u, b \in skip2fa) /\ AC!Shows(b, {"password"})
      /\ UNCHANGED <<users, used, skip2fa>>
  BY DEF AC!LoginPassword
<1> DEFINE flag == b \in skip2fa
<1>a. /\ {"password"} \in SUBSET Shown /\ flag \in BOOLEAN /\ u \in Uids \cup {NoUser}
      /\ flag => b \in skip2fa'
  BY <1>1 DEF Shown
<1>b. AC!Login(b, u, flag)
  BY <1>1, Zenon
<1> HIDE DEF flag
<1>2. /\ session' \in [Browsers -> Sessions] /\ proof' \in [Browsers -> SUBSET Shown]
      /\ FlagEarned'
  BY <1>1, <1>a, <1>b, LoginSession DEF AccountsInv
<1>3. QED
  BY <1>1, <1>2, RowsUnchanged DEF AccountsInv, AccountsTypes

\* What a browser showed before and a code are not a password alone.
LEMMA ShowsMore ==
  ASSUME AccountsTypes, NEW b \in Browsers, NEW what \in Shown, what # "password"
  PROVE  /\ proof[b] \cup {what} \in SUBSET Shown
         /\ proof[b] \cup {what} # {"password"}
BY DEF AccountsTypes, Shown

LEMMA Login2faStep ==
  ASSUME AccountsInv, NEW b \in Browsers, NEW remember \in BOOLEAN, AC!Login2fa(b, remember)
  PROVE  AccountsInv'
<1> DEFINE u == AC!ReqUser(b)
           what == proof[b] \cup {"code"}
<1>1. /\ AC!Login(b, u, TRUE) /\ AC!Shows(b, what)
      /\ u \in Uids \cup {NoUser}
      /\ skip2fa \subseteq skip2fa' /\ skip2fa' \subseteq Browsers
      /\ UNCHANGED <<users, used>>
  BY DEF AC!Login2fa, AC!ReqUser, AccountsInv, AccountsTypes, Sessions
<1>2. what \in SUBSET Shown /\ what # {"password"}
  BY ShowsMore DEF AccountsInv, Shown
<1> HIDE DEF u, what
<1>3. /\ session' \in [Browsers -> Sessions] /\ proof' \in [Browsers -> SUBSET Shown]
      /\ FlagEarned'
  BY <1>1, <1>2, LoginSession DEF AccountsInv
<1>4. QED
  BY <1>1, <1>3, RowsUnchanged

\* Who is authenticated exists.
LEMMA Authenticated ==
  ASSUME AccountsInv, NEW b \in Browsers, AC!IsAuthenticated(b) \/ AC!HasUser(b)
  PROVE  /\ AC!ReqUser(b) \in AC!Existing /\ AC!ReqUser(b) \in Uids
         /\ users[AC!ReqUser(b)] \in UserRows
BY ExistingRow DEF AC!IsAuthenticated, AC!HasUser

LEMMA Setup2faStep ==
  ASSUME AccountsInv, NEW b \in Browsers, AC!Setup2fa(b)
  PROVE  AccountsInv'
<1> DEFINE u == AC!ReqUser(b)
           what == proof[b] \cup {"code"}
           row == [users[u] EXCEPT !.totp = TRUE]
<1>1. /\ u \in AC!Existing /\ u \in Uids /\ users[u] \in UserRows
  BY Authenticated DEF AC!Setup2fa
<1>2. /\ AC!Login(b, u, TRUE) /\ AC!Shows(b, what)
      /\ users' = [users EXCEPT ![u] = row]
      /\ UNCHANGED <<used, skip2fa>>
  BY DEF AC!Setup2fa
<1>3. row \in UserRows
  BY <1>1 DEF UserRows
<1>4. what \in SUBSET Shown /\ what # {"password"}
  BY ShowsMore DEF AccountsInv, Shown
<1> HIDE DEF u, what, row
<1>5. /\ session' \in [Browsers -> Sessions] /\ proof' \in [Browsers -> SUBSET Shown]
      /\ FlagEarned'
  BY <1>1, <1>2, <1>4, LoginSession DEF AccountsInv
<1>6. /\ users' \in [Uids -> UserRows \cup {NoUser}]
      /\ \A v \in AC!Existing' : v \in used'
  BY <1>1, <1>2, <1>3, RowUpdated
<1>7. QED
  BY <1>2, <1>5, <1>6 DEF AccountsInv, AccountsTypes

\* Linking an account of Google or GitHub writes the row of a user.
LEMMA LinkedRow ==
  ASSUME AccountsInv, NEW u \in AC!Existing, NEW f \in AC!Federated,
         users' = AC!Linked(u, f), used' = used
  PROVE  /\ users' \in [Uids -> UserRows \cup {NoUser}]
         /\ \A v \in AC!Existing' : v \in used'
<1> DEFINE fed == (users[u].federated \ IF f \in Google THEN Google ELSE Github) \cup {f}
           row == [users[u] EXCEPT !.federated = fed]
<1>1. u \in Uids /\ users[u] \in UserRows
  BY ExistingRow
<1>2. users' = [users EXCEPT ![u] = row]
  BY DEF AC!Linked
<1>3. row \in UserRows
  BY <1>1 DEF UserRows
<1> HIDE DEF row
<1>4. QED
  BY <1>2, <1>3, RowUpdated

\* A login with an account of Google or GitHub: an existing user or a new one,
\* and a session that showed that account.
LEMMA AuthenticateStep ==
  ASSUME AccountsInv, NEW b \in Browsers, NEW f \in AC!Federated, AC!Authenticate(b, f)
  PROVE  AccountsInv'
<1> DEFINE e == FederatedEmail[f]
<1>0. AC!Shows(b, {"federated"}) /\ skip2fa' = skip2fa
  BY DEF AC!Authenticate
<1>1. /\ {"federated"} \in SUBSET Shown /\ {"federated"} # {"password"}
      /\ e \in Emails \cup {NoUser}
  BY FederatedAssumption DEF Shown, AC!Federated
<1>2. ASSUME NEW u \in Uids, AC!Login(b, u, TRUE)
      PROVE  /\ session' \in [Browsers -> Sessions] /\ proof' \in [Browsers -> SUBSET Shown]
             /\ FlagEarned'
  BY <1>0, <1>1, <1>2, LoginSession DEF AccountsInv
<1>3. ASSUME NEW u \in AC!ByFederated(f), AC!Login(b, u, TRUE), UNCHANGED <<users, used>>
      PROVE  AccountsInv'
  <2>1. u \in Uids
    BY ExistingRow DEF AC!ByFederated
  <2>2. QED
    BY <1>0, <1>2, <1>3, <2>1, RowsUnchanged DEF AccountsInv, AccountsTypes
<1>4. ASSUME NEW u \in AC!ByEmail(e), AC!Login(b, u, TRUE), users' = AC!Linked(u, f), used' = used
      PROVE  AccountsInv'
  <2>1. u \in AC!Existing /\ u \in Uids
    BY ExistingRow DEF AC!ByEmail
  <2>2. /\ users' \in [Uids -> UserRows \cup {NoUser}]
        /\ \A v \in AC!Existing' : v \in used'
    BY <1>4, <2>1, LinkedRow
  <2>3. QED
    BY <1>0, <1>2, <1>4, <2>1, <2>2 DEF AccountsInv, AccountsTypes
<1>5. ASSUME NEW u \in Uids \ used, AC!Login(b, u, TRUE), used' = used \cup {u},
             users' = [users EXCEPT ![u] = AC!NewUser(e, e # NoUser, NoUser, {f})]
      PROVE  AccountsInv'
  <2>1. AC!NewUser(e, e # NoUser, NoUser, {f}) \in UserRows
    BY <1>1 DEF AC!NewUser, UserRows
  <2>2. /\ users' \in [Uids -> UserRows \cup {NoUser}]
        /\ \A v \in AC!Existing' : v \in used'
        /\ used' \subseteq Uids
    BY <1>5, <2>1, RowWritten DEF AccountsInv, AccountsTypes
  <2>3. QED
    BY <1>0, <1>2, <1>5, <2>2 DEF AccountsInv, AccountsTypes
<1>6. QED
  BY <1>3, <1>4, <1>5 DEF AC!Authenticate

LEMMA AssociateGoogleStep ==
  ASSUME AccountsInv, NEW b \in Browsers, NEW f \in AC!Federated, AC!AssociateGoogle(b, f)
  PROVE  AccountsInv'
<1> DEFINE u == AC!ReqUser(b)
           what == proof[b] \cup {"federated"}
<1>1. u \in AC!Existing /\ u \in Uids
  BY Authenticated DEF AC!AssociateGoogle
<1>2. /\ users' = AC!Linked(u, f) /\ UNCHANGED <<used, skip2fa>>
      /\ AC!Login(b, u, TRUE) /\ AC!Shows(b, what)
  BY DEF AC!AssociateGoogle
<1>3. what \in SUBSET Shown /\ what # {"password"}
  BY ShowsMore DEF AccountsInv, Shown
<1> HIDE DEF u, what
<1>4. /\ session' \in [Browsers -> Sessions] /\ proof' \in [Browsers -> SUBSET Shown]
      /\ FlagEarned'
  BY <1>1, <1>2, <1>3, LoginSession DEF AccountsInv
<1>5. /\ users' \in [Uids -> UserRows \cup {NoUser}]
      /\ \A v \in AC!Existing' : v \in used'
  BY <1>1, <1>2, LinkedRow
<1>6. QED
  BY <1>2, <1>4, <1>5 DEF AccountsInv, AccountsTypes

LEMMA LogoutStep ==
  ASSUME AccountsInv, NEW b \in Browsers, AC!Logout(b)
  PROVE  AccountsInv'
<1>1. /\ session' = [session EXCEPT ![b] = AC!LoggedOut] /\ AC!Shows(b, {})
      /\ UNCHANGED <<users, used, skip2fa>>
  BY DEF AC!Logout
<1>2. AC!Login(b, NoUser, FALSE)
  BY <1>1 DEF AC!Login, AC!LoggedOut
<1>3. /\ session' \in [Browsers -> Sessions] /\ proof' \in [Browsers -> SUBSET Shown]
      /\ FlagEarned'
  BY <1>1, <1>2, LoginSession DEF AccountsInv
<1>4. QED
  BY <1>1, <1>3, RowsUnchanged DEF AccountsInv, AccountsTypes

\* The handlers that write the row of the user of the session.
LEMMA ProfileStep ==
  ASSUME AccountsInv, NEW b \in Browsers,
         \/ \E tok \in mail : AC!VerifyEmail(b, tok)
         \/ \E e \in Emails : AC!UpdateProfile(b, e)
         \/ \E old \in Passwords, pw \in Passwords : AC!ChangePassword(b, old, pw)
  PROVE  AccountsInv'
<1> DEFINE u == AC!ReqUser(b)
<1>1. /\ u \in AC!Existing /\ u \in Uids /\ users[u] \in UserRows
      /\ UNCHANGED <<used, session, skip2fa, proof>>
  BY Authenticated DEF AC!VerifyEmail, AC!UpdateProfile, AC!ChangePassword
<1>2. \E row \in UserRows : users' = [users EXCEPT ![u] = row]
  <2>1. ASSUME NEW tok \in mail, AC!VerifyEmail(b, tok)
        PROVE  \E row \in UserRows : users' = [users EXCEPT ![u] = row]
    <3> DEFINE row == [users[u] EXCEPT !.verified = @ \/ users[u].email = tok.email]
    <3>1. users' = [users EXCEPT ![u] = row]
      BY <2>1 DEF AC!VerifyEmail
    <3>2. row \in UserRows
      BY <1>1 DEF UserRows
    <3>3. QED
      BY <3>1, <3>2
  <2>2. ASSUME NEW e \in Emails, AC!UpdateProfile(b, e)
        PROVE  \E row \in UserRows : users' = [users EXCEPT ![u] = row]
    <3> DEFINE row == [users[u] EXCEPT !.email = e, !.verified = ~(e # users[u].email)]
    <3>1. users' = [users EXCEPT ![u].email = e, ![u].verified = ~(e # users[u].email)]
      BY <2>2 DEF AC!UpdateProfile
    <3>2. users' = [users EXCEPT ![u] = row]
      BY <1>1, <3>1 DEF AccountsInv, AccountsTypes
    <3>3. row \in UserRows
      BY <1>1 DEF UserRows
    <3>4. QED
      BY <3>2, <3>3
  <2>3. ASSUME NEW old \in Passwords, NEW pw \in Passwords, AC!ChangePassword(b, old, pw)
        PROVE  \E row \in UserRows : users' = [users EXCEPT ![u] = row]
    <3> DEFINE row == [users[u] EXCEPT !.password = pw]
    <3>1. users' = [users EXCEPT ![u] = row]
      BY <2>3 DEF AC!ChangePassword
    <3>2. row \in UserRows
      BY <1>1 DEF UserRows
    <3>3. QED
      BY <3>1, <3>2
  <2>4. QED
    BY <2>1, <2>2, <2>3
<1> HIDE DEF u
<1>3. /\ users' \in [Uids -> UserRows \cup {NoUser}]
      /\ \A v \in AC!Existing' : v \in used'
  BY <1>1, <1>2, RowUpdated
<1>4. QED
  BY <1>1, <1>3, SessionsUnchanged

\* Mails are no part of the invariant.
LEMMA MailStep ==
  ASSUME AccountsInv, UNCHANGED <<users, used, session, skip2fa, proof>>
  PROVE  AccountsInv'
BY DEF AccountsInv, AccountsTypes, AC!Existing, FlagEarned

LEMMA RecoveryStep ==
  ASSUME AccountsInv, NEW b \in Browsers, NEW tok \in mail,
         NEW pw \in Passwords \cup {AC!ShortPassword}, AC!RecoveryContinue(b, tok, pw)
  PROVE  AccountsInv'
<1> DEFINE u == tok.sub
           row == [users[u] EXCEPT !.password = pw]
           what == {"mail"} \cup IF users[u].totp THEN {"code"} ELSE {}
<1>1. /\ u \in AC!Existing /\ users' = [users EXCEPT ![u] = row]
      /\ AC!Login(b, u, TRUE) /\ AC!Shows(b, what)
      /\ UNCHANGED <<used, skip2fa>>
  BY DEF AC!RecoveryContinue
<1>2. u \in Uids /\ users[u] \in UserRows
  BY <1>1, ExistingRow
<1>3. row \in UserRows
  BY <1>2 DEF UserRows
<1>4. what \in SUBSET Shown /\ what # {"password"}
  BY DEF Shown
<1> HIDE DEF u, row, what
<1>5. /\ session' \in [Browsers -> Sessions] /\ proof' \in [Browsers -> SUBSET Shown]
      /\ FlagEarned'
  BY <1>1, <1>2, <1>4, LoginSession DEF AccountsInv
<1>6. /\ users' \in [Uids -> UserRows \cup {NoUser}]
      /\ \A v \in AC!Existing' : v \in used'
  BY <1>1, <1>3, RowUpdated
<1>7. QED
  BY <1>1, <1>5, <1>6 DEF AccountsInv, AccountsTypes

\* Deletion leaves the flag in the session, but shows nothing any more.
LEMMA DeleteUserStep ==
  ASSUME AccountsInv, NEW b \in Browsers, AC!DeleteUser(b)
  PROVE  AccountsInv'
<1> DEFINE u == AC!ReqUser(b)
           flag == session[b].done2fa
<1>1. u \in AC!Existing
  BY Authenticated DEF AC!DeleteUser
<1>2. /\ users' = [users EXCEPT ![u] = NoUser] /\ UNCHANGED <<used, skip2fa>>
      /\ AC!Login(b, NoUser, flag) /\ AC!Shows(b, {})
  BY DEF AC!DeleteUser
<1>3. flag \in BOOLEAN
  BY DEF AccountsInv, AccountsTypes, Sessions
<1> HIDE DEF u, flag
<1>4. /\ session' \in [Browsers -> Sessions] /\ proof' \in [Browsers -> SUBSET Shown]
      /\ FlagEarned'
  BY <1>2, <1>3, LoginSession DEF AccountsInv
<1>5. /\ users' \in [Uids -> UserRows \cup {NoUser}]
      /\ \A v \in AC!Existing' : v \in used'
  BY <1>1, <1>2, RowUpdated
<1>6. QED
  BY <1>2, <1>4, <1>5 DEF AccountsInv, AccountsTypes

\* The invariant of the accounts.
LEMMA AccountsNext == AccountsInv /\ AC!ANext => AccountsInv'
<1> SUFFICES ASSUME AccountsInv, AC!ANext PROVE AccountsInv'
  OBVIOUS
<1>1. ASSUME NEW b \in Browsers, NEW u \in Uids,
             NEW pw \in Passwords \cup {AC!ShortPassword}, NEW e \in Emails,
             AC!Register(b, u, e, pw) \/ AC!LoginPassword(b, u, pw)
      PROVE  AccountsInv'
  BY <1>1, RegisterStep, LoginPasswordStep
<1>2. ASSUME NEW b \in Browsers, NEW remember \in BOOLEAN, AC!Login2fa(b, remember)
      PROVE  AccountsInv'
  BY <1>2, Login2faStep
<1>3. ASSUME NEW b \in Browsers,
             \/ AC!Setup2fa(b) \/ AC!Logout(b) \/ AC!ResendVerification(b) \/ AC!DeleteUser(b)
      PROVE  AccountsInv'
  BY <1>3, Setup2faStep, LogoutStep, DeleteUserStep, MailStep DEF AC!ResendVerification
<1>4. ASSUME NEW b \in Browsers, NEW f \in AC!Federated,
             AC!LoginGoogle(b, f) \/ AC!LoginGithub(b, f) \/ AC!AssociateGoogle(b, f)
      PROVE  AccountsInv'
  BY <1>4, AuthenticateStep, AssociateGoogleStep DEF AC!LoginGoogle, AC!LoginGithub
<1>5. ASSUME NEW b \in Browsers, NEW tok \in mail,
             NEW pw \in Passwords \cup {AC!ShortPassword}, AC!RecoveryContinue(b, tok, pw)
      PROVE  AccountsInv'
  BY <1>5, RecoveryStep
<1>6. ASSUME NEW u \in Uids, AC!RecoveryStart(u) PROVE AccountsInv'
  BY <1>6, MailStep DEF AC!RecoveryStart
<1>7. ASSUME NEW tok \in mail, AC!Expire(tok) PROVE AccountsInv'
  BY <1>7, MailStep DEF AC!Expire
<1>8. ASSUME NEW b \in Browsers, NEW u \in Uids,
             NEW pw \in Passwords \cup {AC!ShortPassword}, AC!LoginPassword(b, u, pw)
      PROVE  AccountsInv'
  BY <1>8, LoginPasswordStep
<1>9. QED
  BY <1>1, <1>2, <1>3, <1>4, <1>5, <1>6, <1>7, <1>8, ProfileStep DEF AC!ANext

LEMMA AccountsIdle == AccountsInv /\ UNCHANGED accountsVars => AccountsInv'
BY MailStep DEF accountsVars

\* What the invariant says of a session that is authenticated.
LEMMA AccountsSafe == AccountsInv => AC!ATypeOK /\ AC!TwoFactorHolds
<1>1. AccountsInv => AC!TwoFactorHolds
  BY DEF AccountsInv, FlagEarned, AC!TwoFactorHolds, AC!IsAuthenticated, AC!ReqUser
<1>2. AccountsInv => AC!ATypeOK
  BY ExistingRow DEF AccountsInv, AccountsTypes, AC!ATypeOK, UserRows, Sessions
<1>3. QED
  BY <1>1, <1>2

-----------------------------------------------------------------------------
(* Developer organizations                                                 *)

MaybeOrg == Orgs \cup {NoOrg}
FoundOps == {"found", "accept"}
FreeRequests == {OR!Free}
TxRequests == [phase : {"tx"}, op : OR!MemberOps \cup FoundOps, user : Members, target : Members,
               myorg : MaybeOrg, org : MaybeOrg, status : OR!Statuses]
RestartRequests == [phase : {"restart"}, target : Members]
Requests == FreeRequests \cup TxRequests \cup RestartRequests

OrgTypes ==
  /\ OR!OTypeOK
  /\ orgs \subseteq Orgs
  /\ request \in [Handlers -> Requests]
  /\ joined \subseteq Members /\ stale \subseteq Members

\* What a request read of its user before its transaction: the organization it
\* acts for is one that was created.
RequestsActForOrgs ==
  \A h \in Handlers :
    request[h].phase = "tx" /\ request[h].op \in OR!MemberOps => request[h].myorg \in orgs \ {NoOrg}

\* Invitations are of organizations, and who joined by one still is in one.
InvitesOfOrgs == \A i \in invites : i[2] # NoOrg
JoinedHaveOrg == \A u \in joined : org[u] # NoOrg

OrgInv ==
  /\ OrgTypes
  /\ RequestsActForOrgs
  /\ InvitesOfOrgs
  /\ JoinedHaveOrg
  /\ OR!StatusNeedsOrg
  /\ OR!InvitationOnce
  /\ OR!EngineFollows

\* Whose engine a request that committed is about to restart.
Pending(u) == \E h \in Handlers : request[h].phase = "restart" /\ request[h].target = u

\* The three kinds of requests are told apart by their phase.
LEMMA RequestPhase ==
  ASSUME OrgTypes, NEW h \in Handlers
  PROVE  /\ request[h].phase = "free" <=> request[h] = OR!Free
         /\ request[h].phase = "tx" <=> request[h] \in TxRequests
         /\ request[h].phase = "restart" <=> request[h] \in RestartRequests
BY DEF OrgTypes, Requests, FreeRequests, TxRequests, RestartRequests, OR!Free

\* The fields of a request whose transaction is to come.
LEMMA TxFields ==
  ASSUME OrgTypes, NEW h \in Handlers, request[h].phase = "tx"
  PROVE  /\ request[h].user \in Members /\ request[h].target \in Members
         /\ request[h].myorg \in MaybeOrg /\ request[h].status \in OR!Statuses
         /\ request[h].op \in OR!MemberOps \cup FoundOps
BY RequestPhase DEF TxRequests

\* A request ends, and it had no engine to restart.
LEMMA RequestDone ==
  ASSUME OrgTypes, RequestsActForOrgs, NEW h \in Handlers, request[h].phase # "restart",
         OR!Done(h), orgs \subseteq orgs'
  PROVE  /\ request' \in [Handlers -> Requests]
         /\ RequestsActForOrgs'
         /\ \A u : Pending(u)' <=> Pending(u)
<1>1. request' = [request EXCEPT ![h] = OR!Free] /\ request \in [Handlers -> Requests]
  BY DEF OR!Done, OrgTypes
<1>2. /\ request' \in [Handlers -> Requests]
      /\ request'[h].phase = "free"
      /\ \A k \in Handlers : k # h => request'[k] = request[k]
  BY <1>1 DEF Requests, FreeRequests, OR!Free
<1>3. RequestsActForOrgs'
  BY <1>2 DEF RequestsActForOrgs
<1>4. \A u : Pending(u)' <=> Pending(u)
  BY <1>2 DEF Pending
<1>5. QED
  BY <1>2, <1>3, <1>4

\* A request commits and is about to restart the engine of v.
LEMMA RequestRestarts ==
  ASSUME OrgTypes, RequestsActForOrgs, NEW h \in Handlers, request[h].phase # "restart",
         NEW v \in Members, OR!ThenRestart(h, v), orgs \subseteq orgs'
  PROVE  /\ request' \in [Handlers -> Requests]
         /\ RequestsActForOrgs'
         /\ \A u : Pending(u)' <=> Pending(u) \/ u = v
<1> DEFINE new == [phase |-> "restart", target |-> v]
<1>1. request' = [request EXCEPT ![h] = new] /\ request \in [Handlers -> Requests]
  BY DEF OR!ThenRestart, OrgTypes
<1>2. new \in Requests /\ new.phase = "restart" /\ new.target = v
  BY DEF Requests, RestartRequests
<1> HIDE DEF new
<1>3. /\ request' \in [Handlers -> Requests]
      /\ request'[h] = new
      /\ \A k \in Handlers : k # h => request'[k] = request[k]
  BY <1>1, <1>2
<1>4. RequestsActForOrgs'
  BY <1>2, <1>3 DEF RequestsActForOrgs
<1>5. \A u : Pending(u)' <=> Pending(u) \/ u = v
  BY <1>2, <1>3 DEF Pending
<1>6. QED
  BY <1>3, <1>4, <1>5

\* The parts of OTypeOK.
LEMMA OrgFacts ==
  ASSUME OrgTypes
  PROVE  /\ rows \subseteq Members
         /\ org \in [Members -> orgs \cup {NoOrg}]
         /\ status \in [Members -> OR!Statuses]
         /\ invites \subseteq Members \X orgs \X OR!Statuses
         /\ engine \in [Members -> Orgs \cup {NoOrg, "down"}]
         /\ orgs \subseteq Orgs
BY DEF OrgTypes, OR!OTypeOK

\* makeDeveloper: the user gets the organization and the status, and no
\* status without an organization.
LEMMA MakeDeveloperRow ==
  ASSUME OrgInv, NEW v \in Members, NEW o, o \in orgs' \cup {NoOrg}, NEW st \in OR!Statuses,
         OR!MakeDeveloper(v, o, st), orgs \subseteq orgs'
  PROVE  /\ org' \in [Members -> orgs' \cup {NoOrg}]
         /\ status' \in [Members -> OR!Statuses]
         /\ OR!StatusNeedsOrg'
         /\ org'[v] = o
         /\ \A u \in Members : u # v => org'[u] = org[u]
<1>1. /\ org' = [org EXCEPT ![v] = o]
      /\ status' = [status EXCEPT ![v] = IF o = NoOrg THEN 0 ELSE st]
  BY DEF OR!MakeDeveloper
<1>2. /\ org \in [Members -> orgs \cup {NoOrg}]
      /\ status \in [Members -> OR!Statuses] /\ 0 \in OR!Statuses
  BY OrgFacts DEF OrgInv, OR!Statuses
<1>3. /\ org' \in [Members -> orgs' \cup {NoOrg}] /\ org'[v] = o
      /\ \A u \in Members : u # v => org'[u] = org[u]
  BY <1>1, <1>2
<1>4. /\ status' \in [Members -> OR!Statuses]
      /\ status'[v] = IF o = NoOrg THEN 0 ELSE st
      /\ \A u \in Members : u # v => status'[u] = status[u]
  BY <1>1, <1>2
<1>5. OR!StatusNeedsOrg'
  BY <1>3, <1>4 DEF OrgInv, OR!StatusNeedsOrg
<1>6. QED
  BY <1>3, <1>4, <1>5

\* A transaction that gives v another organization, or none, and is followed
\* by the restart of its engine.
LEMMA MemberMoved ==
  ASSUME OrgInv, NEW h \in Handlers, request[h].phase # "restart", NEW v \in Members,
         NEW o, o \in orgs' \cup {NoOrg}, NEW st \in OR!Statuses,
         OR!MakeDeveloper(v, o, st) \/ UNCHANGED <<org, status>>,
         OR!ThenRestart(h, v),
         orgs \subseteq orgs', orgs' \subseteq Orgs,
         joined' = joined \ {v}, invites' = invites,
         UNCHANGED <<rows, engine, stale>>
  PROVE  OrgInv'
<1>1. /\ request' \in [Handlers -> Requests] /\ RequestsActForOrgs'
      /\ \A u : Pending(u)' <=> Pending(u) \/ u = v
  BY RequestRestarts DEF OrgInv
<1>2. /\ org' \in [Members -> orgs' \cup {NoOrg}]
      /\ status' \in [Members -> OR!Statuses]
      /\ OR!StatusNeedsOrg'
      /\ \A u \in Members : u # v => org'[u] = org[u]
  <2>1. CASE OR!MakeDeveloper(v, o, st)
    BY <2>1, MakeDeveloperRow
  <2>2. CASE UNCHANGED <<org, status>>
    BY <2>2, OrgFacts DEF OrgInv, OR!StatusNeedsOrg
  <2>3. QED
    BY <2>1, <2>2
<1>3. /\ rows \subseteq Members /\ joined \subseteq Members /\ stale \subseteq Members
      /\ invites \subseteq Members \X orgs \X OR!Statuses
      /\ engine \in [Members -> Orgs \cup {NoOrg, "down"}]
  BY OrgFacts DEF OrgInv, OrgTypes
<1>4. invites' \subseteq Members \X orgs' \X OR!Statuses
  BY <1>3
<1>5. OrgTypes'
  BY <1>1, <1>2, <1>3, <1>4 DEF OrgTypes, OR!OTypeOK
<1>6. InvitesOfOrgs' /\ JoinedHaveOrg' /\ OR!InvitationOnce'
  BY <1>2, <1>3 DEF OrgInv, InvitesOfOrgs, JoinedHaveOrg, OR!InvitationOnce, OR!InvitesOf
<1>7. OR!EngineFollows'
  <2> SUFFICES ASSUME NEW u \in rows', engine'[u] \notin {"down", org'[u]}, u \notin stale'
               PROVE  Pending(u)'
    BY DEF OR!EngineFollows, Pending, OR!Target
  <2>1. CASE u = v
    BY <1>1, <2>1
  <2>2. CASE u # v
    <3>1. Pending(u)
      BY <1>2, <1>3, <2>2 DEF OrgInv, OR!EngineFollows, Pending, OR!Target
    <3>2. QED
      BY <1>1, <3>1
  <2>3. QED
    BY <2>1, <2>2
<1>8. QED
  BY <1>1, <1>2, <1>5, <1>6, <1>7 DEF OrgInv

\* A step that changes nothing but a request, whose restart, if it is about to
\* make one, remains to be made.
LEMMA RequestMoves ==
  ASSUME OrgInv, request' \in [Handlers -> Requests], RequestsActForOrgs',
         \A u : Pending(u) => Pending(u)',
         UNCHANGED <<rows, org, status, orgs, invites, engine, joined, stale>>
  PROVE  OrgInv'
<1>1. OrgTypes'
  BY DEF OrgInv, OrgTypes, OR!OTypeOK
<1>2. InvitesOfOrgs' /\ JoinedHaveOrg' /\ OR!InvitationOnce' /\ OR!StatusNeedsOrg'
  BY DEF OrgInv, InvitesOfOrgs, JoinedHaveOrg, OR!InvitationOnce, OR!InvitesOf, OR!StatusNeedsOrg
<1>3. OR!EngineFollows'
  BY DEF OrgInv, OR!EngineFollows, Pending, OR!Target
<1>4. QED
  BY <1>1, <1>2, <1>3 DEF OrgInv

LEMMA RefusedStep ==
  ASSUME OrgInv, NEW h \in Handlers, request[h].phase = "tx", OR!Refused(h)
  PROVE  OrgInv'
<1>1. /\ request' \in [Handlers -> Requests] /\ RequestsActForOrgs'
      /\ \A u : Pending(u)' <=> Pending(u)
  BY RequestDone DEF OrgInv, OR!Refused
<1>2. QED
  BY <1>1, RequestMoves DEF OR!Refused

\* A request comes in: what it reads of its user is an organization that
\* exists, if its user may do what it asks for.
LEMMA BeginStep ==
  ASSUME OrgInv, NEW h \in Handlers, NEW op \in OR!MemberOps \cup FoundOps,
         NEW u \in Members, NEW t \in Members, NEW o \in orgs \cup {NoOrg},
         NEW st \in OR!Statuses, OR!Begin(h, op, u, t, o, st)
  PROVE  OrgInv'
<1> DEFINE new == [phase |-> "tx", op |-> op, user |-> u, target |-> t, myorg |-> org[u],
                   org |-> o, status |-> st]
<1>1. /\ request[h] = OR!Free /\ OR!Allowed(op, u, t)
      /\ request' = [request EXCEPT ![h] = new]
      /\ UNCHANGED <<rows, org, status, orgs, invites, engine, joined, stale>>
  BY DEF OR!Begin
<1>2. org[u] \in orgs \cup {NoOrg} /\ orgs \subseteq Orgs
  BY OrgFacts DEF OrgInv
<1>3. new \in Requests /\ new.phase = "tx" /\ new.op = op /\ new.myorg = org[u]
  BY <1>2 DEF Requests, TxRequests, MaybeOrg
<1>4. op \in OR!MemberOps => org[u] # NoOrg
  BY <1>1 DEF OR!Allowed, OR!requireDeveloper, OR!MemberOps
<1> HIDE DEF new
<1>5. /\ request' \in [Handlers -> Requests] /\ request'[h] = new
      /\ \A k \in Handlers : k # h => request'[k] = request[k]
  BY <1>1, <1>3 DEF OrgInv, OrgTypes
<1>6. RequestsActForOrgs'
  BY <1>1, <1>2, <1>3, <1>4, <1>5 DEF OrgInv, RequestsActForOrgs
<1>7. \A v : Pending(v) => Pending(v)'
  BY <1>1, <1>5 DEF Pending, OR!Free
<1>8. QED
  BY <1>1, <1>5, <1>6, <1>7, RequestMoves

LEMMA AddMemberStep ==
  ASSUME OrgInv, NEW h \in Handlers, OR!AddMember(h)
  PROVE  OrgInv'
<1> DEFINE v == OR!Target(h)
           mine == request[h].myorg
           i == <<v, mine, request[h].status>>
<1>1. request[h].phase = "tx" /\ request[h].op = "add"
  BY DEF OR!AddMember, OR!Transaction
<1>2. CASE OR!Refused(h)
  BY <1>1, <1>2, RefusedStep
<1>3. CASE /\ org[v] = NoOrg /\ invites' = invites \cup {i} /\ OR!Done(h)
           /\ UNCHANGED <<rows, org, status, orgs, engine, joined, stale>>
  <2>1. /\ request' \in [Handlers -> Requests] /\ RequestsActForOrgs'
        /\ \A u : Pending(u)' <=> Pending(u)
    BY <1>1, <1>3, RequestDone DEF OrgInv
  <2>2. v \in Members /\ mine \in orgs \ {NoOrg} /\ request[h].status \in OR!Statuses
    BY <1>1, TxFields DEF OrgInv, OR!Target, RequestsActForOrgs, OR!MemberOps
  <2>3. invites' \subseteq Members \X orgs' \X OR!Statuses
    BY <1>3, <2>2, OrgFacts DEF OrgInv
  <2>4. OrgTypes'
    BY <1>3, <2>1, <2>3 DEF OrgInv, OrgTypes, OR!OTypeOK
  <2>5. i[1] = v /\ i[2] = mine
    OBVIOUS
  <2> HIDE DEF i, v, mine
  <2>6. InvitesOfOrgs'
    BY <1>3, <2>2, <2>5 DEF OrgInv, InvitesOfOrgs
  <2>7. OR!InvitationOnce'
    BY <1>3, <2>5 DEF OrgInv, JoinedHaveOrg, OR!InvitationOnce, OR!InvitesOf
  <2>8. JoinedHaveOrg' /\ OR!StatusNeedsOrg'
    BY <1>3 DEF OrgInv, JoinedHaveOrg, OR!StatusNeedsOrg
  <2>9. OR!EngineFollows'
    BY <1>3, <2>1 DEF OrgInv, OR!EngineFollows, Pending, OR!Target
  <2>10. QED
    BY <2>1, <2>4, <2>6, <2>7, <2>8, <2>9 DEF OrgInv
<1>4. QED
  BY <1>2, <1>3 DEF OR!AddMember

LEMMA RescindStep ==
  ASSUME OrgInv, NEW h \in Handlers, OR!RescindInvitation(h)
  PROVE  OrgInv'
<1>1. /\ request[h].phase = "tx" /\ OR!Done(h)
      /\ invites' \subseteq invites
      /\ UNCHANGED <<rows, org, status, orgs, engine, joined, stale>>
  BY DEF OR!RescindInvitation, OR!Transaction
<1>2. /\ request' \in [Handlers -> Requests] /\ RequestsActForOrgs'
      /\ \A u : Pending(u)' <=> Pending(u)
  BY <1>1, RequestDone DEF OrgInv
<1>3. OrgTypes'
  BY <1>1, <1>2 DEF OrgInv, OrgTypes, OR!OTypeOK
<1>4. InvitesOfOrgs' /\ OR!InvitationOnce'
  BY <1>1 DEF OrgInv, InvitesOfOrgs, OR!InvitationOnce, OR!InvitesOf
<1>5. JoinedHaveOrg' /\ OR!StatusNeedsOrg'
  BY <1>1 DEF OrgInv, JoinedHaveOrg, OR!StatusNeedsOrg
<1>6. OR!EngineFollows'
  BY <1>1, <1>2 DEF OrgInv, OR!EngineFollows, Pending, OR!Target
<1>7. QED
  BY <1>2, <1>3, <1>4, <1>5, <1>6 DEF OrgInv

\* Accepting an invitation uses up all of them.
LEMMA AcceptStep ==
  ASSUME OrgInv, NEW h \in Handlers, OR!AcceptInvitation(h)
  PROVE  OrgInv'
<1> DEFINE v == request[h].user
<1>1. request[h].phase = "tx"
  BY DEF OR!AcceptInvitation, OR!Transaction
<1>2. v \in Members
  BY <1>1, TxFields DEF OrgInv
<1>3. CASE OR!Refused(h)
  BY <1>1, <1>3, RefusedStep
<1>4. ASSUME NEW i \in OR!InvitesOf(v),
             IF v \in rows THEN OR!MakeDeveloper(v, i[2], i[3]) /\ joined' = joined \cup {v}
                           ELSE UNCHANGED <<org, status, joined>>,
             invites' = invites \ OR!InvitesOf(v), OR!ThenRestart(h, v),
             UNCHANGED <<rows, orgs, engine, stale>>
      PROVE  OrgInv'
  <2>1. i \in invites /\ i[2] \in orgs' \cup {NoOrg} /\ i[2] # NoOrg /\ i[3] \in OR!Statuses
    BY <1>4, OrgFacts DEF OR!InvitesOf, OrgInv, InvitesOfOrgs
  <2>2. /\ request' \in [Handlers -> Requests] /\ RequestsActForOrgs'
        /\ \A u : Pending(u)' <=> Pending(u) \/ u = v
    BY <1>1, <1>2, <1>4, RequestRestarts DEF OrgInv
  <2>3. /\ org' \in [Members -> orgs' \cup {NoOrg}]
        /\ status' \in [Members -> OR!Statuses]
        /\ OR!StatusNeedsOrg'
        /\ \A u \in Members : u # v => org'[u] = org[u]
        /\ joined' \subseteq joined \cup {v}
        /\ v \in joined' => org'[v] # NoOrg
    <3>1. CASE v \in rows
      <4>1. OR!MakeDeveloper(v, i[2], i[3]) /\ joined' = joined \cup {v}
        BY <1>4, <3>1
      <4>2. QED
        BY <1>2, <1>4, <2>1, <4>1, MakeDeveloperRow
    <3>2. CASE v \notin rows
      BY <1>2, <1>4, <3>2, OrgFacts DEF OrgInv, OR!StatusNeedsOrg, JoinedHaveOrg
    <3>3. QED
      BY <3>1, <3>2
  <2>4. OrgTypes'
    BY <1>2, <1>4, <2>2, <2>3, OrgFacts DEF OrgInv, OrgTypes, OR!OTypeOK
  <2>5. InvitesOfOrgs' /\ OR!InvitationOnce'
    BY <1>4, <2>3 DEF OrgInv, InvitesOfOrgs, OR!InvitationOnce, OR!InvitesOf
  <2>6. JoinedHaveOrg'
    BY <1>2, <2>3 DEF OrgInv, OrgTypes, JoinedHaveOrg
  <2>7. OR!EngineFollows'
    <3> SUFFICES ASSUME NEW u \in rows', engine'[u] \notin {"down", org'[u]}, u \notin stale'
                 PROVE  Pending(u)'
      BY DEF OR!EngineFollows, Pending, OR!Target
    <3>1. u # v => Pending(u)
      BY <1>4, <2>3, OrgFacts DEF OrgInv, OR!EngineFollows, Pending, OR!Target
    <3>2. QED
      BY <2>2, <3>1
  <2>8. QED
    BY <2>2, <2>3, <2>4, <2>5, <2>6, <2>7 DEF OrgInv
<1>5. QED
  BY <1>3, <1>4 DEF OR!AcceptInvitation

\* Removal restarts the engine before the commit: the engine is stale.
LEMMA RemoveStep ==
  ASSUME OrgInv, NEW h \in Handlers, OR!RemoveMember(h)
  PROVE  OrgInv'
<1> DEFINE v == OR!Target(h)
<1>1. request[h].phase = "tx"
  BY DEF OR!RemoveMember, OR!Transaction
<1>2. v \in Members
  BY <1>1, TxFields DEF OrgInv, OR!Target
<1>3. CASE OR!Refused(h)
  BY <1>1, <1>3, RefusedStep
<1>4. CASE /\ OR!MakeDeveloper(v, NoOrg, 0) /\ joined' = joined \ {v}
           /\ engine' = [engine EXCEPT ![v] = org[v]]
           /\ stale' = stale \cup {v} /\ OR!Done(h)
           /\ UNCHANGED <<rows, orgs, invites>>
  <2>1. /\ request' \in [Handlers -> Requests] /\ RequestsActForOrgs'
        /\ \A u : Pending(u)' <=> Pending(u)
    BY <1>1, <1>4, RequestDone DEF OrgInv
  <2>2. /\ org' \in [Members -> orgs' \cup {NoOrg}]
        /\ status' \in [Members -> OR!Statuses]
        /\ OR!StatusNeedsOrg'
        /\ \A u \in Members : u # v => org'[u] = org[u]
    BY <1>2, <1>4, MakeDeveloperRow DEF OR!Statuses
  <2>3. org[v] \in Orgs \cup {NoOrg, "down"} /\ engine \in [Members -> Orgs \cup {NoOrg, "down"}]
    BY <1>2, OrgFacts DEF OrgInv
  <2>4. /\ engine' \in [Members -> Orgs \cup {NoOrg, "down"}]
        /\ \A u \in Members : u # v => engine'[u] = engine[u]
    BY <1>4, <2>3
  <2>5. OrgTypes'
    BY <1>2, <1>4, <2>1, <2>2, <2>4 DEF OrgInv, OrgTypes, OR!OTypeOK
  <2>6. InvitesOfOrgs' /\ JoinedHaveOrg' /\ OR!InvitationOnce'
    BY <1>4, <2>2 DEF OrgInv, OrgTypes, InvitesOfOrgs, JoinedHaveOrg, OR!InvitationOnce, OR!InvitesOf
  <2>7. OR!EngineFollows'
    <3> SUFFICES ASSUME NEW u \in rows', engine'[u] \notin {"down", org'[u]}, u \notin stale'
                 PROVE  Pending(u)'
      BY DEF OR!EngineFollows, Pending, OR!Target
    <3>1. u \in rows /\ u # v /\ u \in Members
      BY <1>4, OrgFacts DEF OrgInv
    <3>2. Pending(u)
      BY <1>4, <2>2, <2>4, <3>1 DEF OrgInv, OR!EngineFollows, Pending, OR!Target
    <3>3. QED
      BY <2>1, <3>2
  <2>8. QED
    BY <2>1, <2>2, <2>5, <2>6, <2>7 DEF OrgInv
<1>5. QED
  BY <1>3, <1>4 DEF OR!RemoveMember

\* A step that changes the status of a user that is in an organization, or
\* lowers it.
LEMMA StatusMoves ==
  ASSUME OrgInv, NEW v \in Members, NEW n \in OR!Statuses,
         status' = [status EXCEPT ![v] = n], org[v] # NoOrg \/ n <= status[v],
         request' \in [Handlers -> Requests], RequestsActForOrgs',
         \A u : Pending(u) => Pending(u)',
         UNCHANGED <<rows, org, orgs, invites, engine, joined, stale>>
  PROVE  OrgInv'
<1>1. /\ status \in [Members -> OR!Statuses] /\ \A u \in Members : status[u] \in Nat
      /\ n \in Nat
  BY OrgFacts DEF OrgInv, OR!Statuses
<1>2. status' \in [Members -> OR!Statuses] /\ OR!StatusNeedsOrg'
  BY <1>1 DEF OrgInv, OR!StatusNeedsOrg
<1>3. OrgTypes'
  BY <1>2 DEF OrgInv, OrgTypes, OR!OTypeOK
<1>4. InvitesOfOrgs' /\ JoinedHaveOrg' /\ OR!InvitationOnce'
  BY DEF OrgInv, InvitesOfOrgs, JoinedHaveOrg, OR!InvitationOnce, OR!InvitesOf
<1>5. OR!EngineFollows'
  BY DEF OrgInv, OR!EngineFollows, Pending, OR!Target
<1>6. QED
  BY <1>2, <1>3, <1>4, <1>5 DEF OrgInv

LEMMA ChangeStatusStep ==
  ASSUME OrgInv, NEW h \in Handlers, OR!ChangeStatus(h)
  PROVE  OrgInv'
<1> DEFINE v == OR!Target(h)
           up == request[h].op = "promote"
           n == IF up THEN status[v] + 1 ELSE status[v] - 1
<1>1. request[h].phase = "tx" /\ request[h].op \in OR!MemberOps
  BY DEF OR!ChangeStatus, OR!Transaction, OR!MemberOps
<1>2. CASE OR!Refused(h)
  BY <1>1, <1>2, RefusedStep
<1>3. CASE /\ org[v] = request[h].myorg
           /\ IF up THEN status[v] < OR!ORG_ADMIN ELSE v # request[h].user /\ status[v] > 0
           /\ status' = [status EXCEPT ![v] = n] /\ OR!Done(h)
           /\ UNCHANGED <<rows, org, orgs, invites, engine, joined, stale>>
  <2>1. v \in Members /\ org[v] # NoOrg
    BY <1>1, <1>3, TxFields DEF OrgInv, OR!Target, RequestsActForOrgs
  <2>2. status[v] \in 0..2
    BY <2>1, OrgFacts DEF OrgInv, OR!Statuses
  <2>3. n \in OR!Statuses
    BY <1>3, <2>2 DEF OR!Statuses, OR!ORG_ADMIN
  <2>4. /\ request' \in [Handlers -> Requests] /\ RequestsActForOrgs'
        /\ \A u : Pending(u)' <=> Pending(u)
    BY <1>1, <1>3, RequestDone DEF OrgInv
  <2> HIDE DEF n, v, up
  <2>5. QED
    BY <1>3, <2>1, <2>3, <2>4, StatusMoves
<1>4. QED
  BY <1>2, <1>3 DEF OR!ChangeStatus

\* A new organization, whose founder the request moves there.
LEMMA NewOrgStep ==
  ASSUME OrgInv, NEW h \in Handlers, request[h].phase # "restart", NEW v \in Members,
         OR!NewOrg(h, v)
  PROVE  OrgInv'
<1>1. PICK o \in Orgs \ orgs :
        /\ orgs' = orgs \cup {o}
        /\ IF v \in rows THEN OR!MakeDeveloper(v, o, OR!ORG_ADMIN) ELSE UNCHANGED <<org, status>>
        /\ joined' = joined \ {v}
        /\ OR!ThenRestart(h, v)
        /\ UNCHANGED <<rows, invites, engine, stale>>
  BY DEF OR!NewOrg
<1>2. orgs \subseteq orgs' /\ orgs' \subseteq Orgs /\ o \in orgs' \cup {NoOrg}
  BY <1>1, OrgFacts DEF OrgInv
<1>3. OR!ORG_ADMIN \in OR!Statuses
  BY DEF OR!ORG_ADMIN, OR!Statuses
<1>4. QED
  BY <1>1, <1>2, <1>3, MemberMoved

LEMMA RequestDeveloperStep ==
  ASSUME OrgInv, NEW h \in Handlers, OR!RequestDeveloper(h)
  PROVE  OrgInv'
<1>1. request[h].phase = "tx" /\ OR!NewOrg(h, request[h].user)
  BY DEF OR!RequestDeveloper, OR!Transaction
<1>2. request[h].user \in Members
  BY <1>1, TxFields DEF OrgInv
<1>3. QED
  BY <1>1, <1>2, NewOrgStep

LEMMA AdminPromoteStep ==
  ASSUME OrgInv, NEW h \in Handlers, NEW a \in Members, NEW v \in Members,
         OR!AdminPromote(h, a, v)
  PROVE  OrgInv'
<1>1. request[h].phase # "restart" /\ status[v] \in 0..2 /\ status[v] < 2
  BY OrgFacts DEF OR!AdminPromote, OR!Free, OrgInv, OR!Statuses, OR!ORG_ADMIN
<1>2. CASE OR!NewOrg(h, v)
  BY <1>1, <1>2, NewOrgStep
<1>3. CASE /\ org[v] # NoOrg /\ status' = [status EXCEPT ![v] = status[v] + 1]
           /\ UNCHANGED <<rows, org, orgs, invites, engine, request, joined, stale>>
  <2>1. status[v] + 1 \in OR!Statuses
    BY <1>1 DEF OR!Statuses
  <2>2. /\ request' \in [Handlers -> Requests] /\ RequestsActForOrgs'
        /\ \A u : Pending(u) => Pending(u)'
    BY <1>3 DEF OrgInv, OrgTypes, RequestsActForOrgs, Pending
  <2>3. QED
    BY <1>3, <2>1, <2>2, StatusMoves
<1>4. QED
  BY <1>2, <1>3 DEF OR!AdminPromote

LEMMA AdminDemoteStep ==
  ASSUME OrgInv, NEW h \in Handlers, NEW a \in Members, NEW v \in Members,
         OR!AdminDemote(h, a, v)
  PROVE  OrgInv'
<1> DEFINE n == status[v] - 1
<1>1. /\ status[v] > 0 /\ status' = [status EXCEPT ![v] = n]
      /\ UNCHANGED <<rows, org, orgs, invites, engine, request, joined, stale>>
  BY DEF OR!AdminDemote
<1>2. status[v] \in 0..2
  BY OrgFacts DEF OrgInv, OR!Statuses
<1>3. n \in OR!Statuses /\ n <= status[v]
  BY <1>1, <1>2 DEF OR!Statuses
<1>4. /\ request' \in [Handlers -> Requests] /\ RequestsActForOrgs'
      /\ \A u : Pending(u) => Pending(u)'
  BY <1>1 DEF OrgInv, OrgTypes, RequestsActForOrgs, Pending
<1> HIDE DEF n
<1>5. QED
  BY <1>1, <1>3, <1>4, StatusMoves

LEMMA AdminMoveStep ==
  ASSUME OrgInv, NEW h \in Handlers, NEW a \in Members, NEW v \in Members,
         \/ OR!AdminRevoke(h, a, v)
         \/ \E o \in orgs, dev \in BOOLEAN : OR!AdminAddMember(h, a, v, o, dev)
  PROVE  OrgInv'
<1>1. orgs \subseteq Orgs /\ 0 \in OR!Statuses /\ 1 \in OR!Statuses
  BY OrgFacts DEF OrgInv, OR!Statuses
<1>2. PICK o \in orgs \cup {NoOrg}, st \in OR!Statuses :
        /\ request[h] = OR!Free /\ OR!MakeDeveloper(v, o, st) /\ joined' = joined \ {v}
        /\ OR!ThenRestart(h, v) /\ UNCHANGED <<rows, orgs, invites, engine, stale>>
  BY <1>1 DEF OR!AdminRevoke, OR!AdminAddMember
<1>3. request[h].phase # "restart"
  BY <1>2 DEF OR!Free
<1>4. QED
  BY <1>1, <1>2, <1>3, MemberMoved

\* The engine of the user goes first, and there is nothing for it to follow.
LEMMA OrgDeleteStep ==
  ASSUME OrgInv, NEW a \in Members, NEW v \in Members, OR!DeleteUser(a, v)
  PROVE  OrgInv'
<1>1. /\ engine' = [engine EXCEPT ![v] = "down"]
      /\ rows' \subseteq rows
      /\ joined' \subseteq joined
      /\ \/ UNCHANGED <<org, status>>
         \/ org' = [org EXCEPT ![v] = NoOrg] /\ status' = [status EXCEPT ![v] = 0]
            /\ joined' = joined \ {v}
      /\ UNCHANGED <<orgs, invites, request, stale>>
  BY DEF OR!DeleteUser
<1>2. 0 \in OR!Statuses
  BY DEF OR!Statuses
<1>3. /\ org' \in [Members -> orgs' \cup {NoOrg}]
      /\ status' \in [Members -> OR!Statuses]
      /\ OR!StatusNeedsOrg'
      /\ \A u \in Members : u # v => org'[u] = org[u]
      /\ \A u \in joined' : org'[u] = org[u]
  BY <1>1, <1>2, OrgFacts DEF OrgInv, OrgTypes, OR!StatusNeedsOrg
<1>4. /\ engine' \in [Members -> Orgs \cup {NoOrg, "down"}] /\ engine'[v] = "down"
      /\ \A u \in Members : u # v => engine'[u] = engine[u]
  BY <1>1, OrgFacts DEF OrgInv
<1>5. OrgTypes'
  BY <1>1, <1>3, <1>4 DEF OrgInv, OrgTypes, OR!OTypeOK
<1>6. InvitesOfOrgs' /\ JoinedHaveOrg' /\ OR!InvitationOnce' /\ RequestsActForOrgs'
  BY <1>1, <1>3 DEF OrgInv, InvitesOfOrgs, JoinedHaveOrg, OR!InvitationOnce, OR!InvitesOf,
                    RequestsActForOrgs
<1>7. OR!EngineFollows'
  BY <1>1, <1>3, <1>4, OrgFacts DEF OrgInv, OR!EngineFollows, OR!Target
<1>8. QED
  BY <1>3, <1>5, <1>6, <1>7 DEF OrgInv

\* What an engine reads is the row of its user.
LEMMA EngineStarts ==
  ASSUME OrgInv, NEW v \in Members
  PROVE  /\ OR!EngineOf(v) \in Orgs \cup {NoOrg, "down"}
         /\ v \in rows => OR!EngineOf(v) = org[v]
BY OrgFacts DEF OrgInv, OR!EngineOf

LEMMA RestartStep ==
  ASSUME OrgInv, NEW h \in Handlers, OR!Restart(h)
  PROVE  OrgInv'
<1> DEFINE v == OR!Target(h)
<1>1. /\ request[h].phase = "restart"
      /\ engine' = [engine EXCEPT ![v] = OR!EngineOf(v)]
      /\ stale' = stale \ {v} /\ request' = [request EXCEPT ![h] = OR!Free]
      /\ UNCHANGED <<rows, org, status, orgs, invites, joined>>
  BY DEF OR!Restart, OR!Done
<1>2. v \in Members
  BY <1>1, RequestPhase DEF OrgInv, OR!Target, RestartRequests
<1>3. /\ request' \in [Handlers -> Requests] /\ request'[h].phase = "free"
      /\ \A k \in Handlers : k # h => request'[k] = request[k]
  BY <1>1 DEF OrgInv, OrgTypes, Requests, FreeRequests, OR!Free
<1>4. RequestsActForOrgs'
  BY <1>1, <1>3 DEF OrgInv, RequestsActForOrgs
<1>5. \A u : u # v => (Pending(u) => Pending(u)')
  BY <1>1, <1>3 DEF Pending, OR!Target
<1> HIDE DEF v
<1>6. /\ engine' \in [Members -> Orgs \cup {NoOrg, "down"}] /\ engine'[v] = OR!EngineOf(v)
      /\ \A u \in Members : u # v => engine'[u] = engine[u]
  BY <1>1, <1>2, EngineStarts, OrgFacts DEF OrgInv
<1>7. OrgTypes'
  BY <1>1, <1>3, <1>6 DEF OrgInv, OrgTypes, OR!OTypeOK
<1>8. InvitesOfOrgs' /\ JoinedHaveOrg' /\ OR!InvitationOnce' /\ OR!StatusNeedsOrg'
  BY <1>1 DEF OrgInv, InvitesOfOrgs, JoinedHaveOrg, OR!InvitationOnce, OR!InvitesOf,
              OR!StatusNeedsOrg
<1>9. OR!EngineFollows'
  <2> SUFFICES ASSUME NEW u \in rows', engine'[u] \notin {"down", org'[u]}, u \notin stale'
               PROVE  Pending(u)'
    BY DEF OR!EngineFollows, Pending, OR!Target
  <2>1. u # v /\ u \in Members
    BY <1>1, <1>2, <1>6, EngineStarts, OrgFacts DEF OrgInv
  <2>2. Pending(u)
    BY <1>1, <1>6, <2>1 DEF OrgInv, OR!EngineFollows, Pending, OR!Target
  <2>3. QED
    BY <1>5, <2>1, <2>2
<1>10. QED
  BY <1>4, <1>7, <1>8, <1>9 DEF OrgInv

LEMMA LostStep ==
  ASSUME OrgInv, NEW h \in Handlers, OR!Lost(h)
  PROVE  OrgInv'
<1> DEFINE v == OR!Target(h)
<1>1. /\ request' = [request EXCEPT ![h] = OR!Free]
      /\ stale' = IF request[h].phase = "restart" THEN stale \cup {v} ELSE stale
      /\ UNCHANGED <<rows, org, status, orgs, invites, engine, joined>>
  BY DEF OR!Lost, OR!Done
<1>2. request[h].phase = "restart" => v \in Members
  BY <1>1, RequestPhase DEF OrgInv, OR!Target, RestartRequests
<1>3. /\ request' \in [Handlers -> Requests] /\ request'[h].phase = "free"
      /\ \A k \in Handlers : k # h => request'[k] = request[k]
  BY <1>1 DEF OrgInv, OrgTypes, Requests, FreeRequests, OR!Free
<1>4. RequestsActForOrgs'
  BY <1>1, <1>3 DEF OrgInv, RequestsActForOrgs
<1>5. \A u : u \notin stale' /\ Pending(u) => Pending(u)'
  BY <1>1, <1>3 DEF Pending, OR!Target
<1> HIDE DEF v
<1>6. OrgTypes'
  BY <1>1, <1>2, <1>3 DEF OrgInv, OrgTypes, OR!OTypeOK
<1>7. InvitesOfOrgs' /\ JoinedHaveOrg' /\ OR!InvitationOnce' /\ OR!StatusNeedsOrg'
  BY <1>1 DEF OrgInv, InvitesOfOrgs, JoinedHaveOrg, OR!InvitationOnce, OR!InvitesOf,
              OR!StatusNeedsOrg
<1>8. OR!EngineFollows'
  BY <1>1, <1>5 DEF OrgInv, OR!EngineFollows, Pending, OR!Target
<1>9. QED
  BY <1>4, <1>6, <1>7, <1>8 DEF OrgInv

LEMMA KillOrStartStep ==
  ASSUME OrgInv, NEW v \in Members, OR!KillOrStart(v)
  PROVE  OrgInv'
<1> DEFINE e == IF engine[v] = "down" THEN OR!EngineOf(v) ELSE "down"
<1>1. /\ engine' = [engine EXCEPT ![v] = e] /\ stale' = stale \ {v}
      /\ UNCHANGED <<rows, org, status, orgs, invites, request, joined>>
  BY DEF OR!KillOrStart
<1>2. e \in Orgs \cup {NoOrg, "down"} /\ (v \in rows => e \in {"down", org[v]})
  BY EngineStarts
<1> HIDE DEF e
<1>3. /\ engine' \in [Members -> Orgs \cup {NoOrg, "down"}] /\ engine'[v] = e
      /\ \A u \in Members : u # v => engine'[u] = engine[u]
  BY <1>1, <1>2, OrgFacts DEF OrgInv
<1>4. OrgTypes'
  BY <1>1, <1>3 DEF OrgInv, OrgTypes, OR!OTypeOK
<1>5. /\ InvitesOfOrgs' /\ JoinedHaveOrg' /\ OR!InvitationOnce' /\ OR!StatusNeedsOrg'
      /\ RequestsActForOrgs'
  BY <1>1 DEF OrgInv, InvitesOfOrgs, JoinedHaveOrg, OR!InvitationOnce, OR!InvitesOf,
              OR!StatusNeedsOrg, RequestsActForOrgs
<1>6. OR!EngineFollows'
  BY <1>1, <1>2, <1>3, OrgFacts DEF OrgInv, OR!EngineFollows, OR!Target
<1>7. QED
  BY <1>4, <1>5, <1>6 DEF OrgInv

LEMMA OrgInit == OR!OInit => OrgInv
<1> SUFFICES ASSUME OR!OInit PROVE OrgInv
  OBVIOUS
<1>1. OrgTypes
  BY DEF OR!OInit, OrgTypes, OR!OTypeOK, OR!Statuses, Requests, FreeRequests
<1>2. RequestsActForOrgs
  BY DEF OR!OInit, RequestsActForOrgs, OR!Free
<1>3. InvitesOfOrgs /\ JoinedHaveOrg /\ OR!InvitationOnce
  BY DEF OR!OInit, InvitesOfOrgs, JoinedHaveOrg, OR!InvitationOnce
<1>4. OR!StatusNeedsOrg /\ OR!EngineFollows
  BY DEF OR!OInit, OR!StatusNeedsOrg, OR!EngineFollows
<1>5. QED
  BY <1>1, <1>2, <1>3, <1>4 DEF OrgInv

\* The invariant of the organizations.
LEMMA OrgNext == OrgInv /\ OR!ONext => OrgInv'
<1> SUFFICES ASSUME OrgInv, OR!ONext PROVE OrgInv'
  OBVIOUS
<1>0. 0 \in OR!Statuses /\ Invited \subseteq OR!Statuses
  BY InvitedAssumption DEF OR!Statuses
<1>1. ASSUME NEW h \in Handlers, NEW u \in Members, NEW t \in Members,
             \/ \E op \in (OR!MemberOps \ {"add"}) \cup {"found"} : OR!Begin(h, op, u, t, NoOrg, 0)
             \/ \E st \in Invited : OR!Begin(h, "add", u, t, NoOrg, st)
             \/ \E o \in orgs : OR!Begin(h, "accept", u, t, o, 0)
      PROVE  OrgInv'
  <2>1. /\ (OR!MemberOps \ {"add"}) \cup {"found"} \subseteq OR!MemberOps \cup FoundOps
        /\ "add" \in OR!MemberOps \cup FoundOps /\ "accept" \in OR!MemberOps \cup FoundOps
    BY DEF OR!MemberOps, FoundOps
  <2>2. QED
    BY <1>0, <1>1, <2>1, BeginStep
<1>2. ASSUME NEW h \in Handlers, NEW u \in Members, NEW t \in Members,
             \/ OR!AdminPromote(h, u, t) \/ OR!AdminDemote(h, u, t) \/ OR!AdminRevoke(h, u, t)
             \/ \E o \in orgs, dev \in BOOLEAN : OR!AdminAddMember(h, u, t, o, dev)
      PROVE  OrgInv'
  BY <1>2, AdminPromoteStep, AdminDemoteStep, AdminMoveStep
<1>3. ASSUME NEW h \in Handlers,
             \/ OR!AddMember(h) \/ OR!AcceptInvitation(h) \/ OR!RescindInvitation(h)
             \/ OR!RemoveMember(h) \/ OR!ChangeStatus(h) \/ OR!RequestDeveloper(h)
             \/ OR!Restart(h) \/ OR!Lost(h)
      PROVE  OrgInv'
  BY <1>3, AddMemberStep, AcceptStep, RescindStep, RemoveStep, ChangeStatusStep,
     RequestDeveloperStep, RestartStep, LostStep
<1>4. QED
  BY <1>1, <1>2, <1>3, OrgDeleteStep, KillOrStartStep DEF OR!ONext

LEMMA OrgIdle == OrgInv /\ UNCHANGED organizationsVars => OrgInv'
<1> SUFFICES ASSUME OrgInv, UNCHANGED organizationsVars PROVE OrgInv'
  OBVIOUS
<1>1. /\ request' \in [Handlers -> Requests] /\ RequestsActForOrgs'
      /\ \A u : Pending(u) => Pending(u)'
  BY DEF OrgInv, OrgTypes, RequestsActForOrgs, Pending, organizationsVars
<1>2. QED
  BY <1>1, RequestMoves DEF organizationsVars

-----------------------------------------------------------------------------
(* The three together                                                      *)

IInv == AccountsInv /\ OrgInv /\ OAuthInv

LEMMA IInvNext == IInv /\ [Next]_vars => IInv'
<1> SUFFICES ASSUME IInv, [Next]_vars PROVE IInv'
  OBVIOUS
<1>1. CASE Frame("accounts") /\ AC!ANext
  <2>1. UNCHANGED organizationsVars /\ UNCHANGED oauth2Vars
    BY <1>1 DEF Frame
  <2>2. QED
    BY <1>1, <2>1, AccountsNext, OrgIdle, OAuthIdle DEF IInv
<1>2. CASE Frame("organizations") /\ OR!ONext
  <2>1. UNCHANGED accountsVars /\ UNCHANGED oauth2Vars
    BY <1>2 DEF Frame
  <2>2. QED
    BY <1>2, <2>1, AccountsIdle, OrgNext, OAuthIdle DEF IInv
<1>3. CASE Frame("oauth2") /\ OA!O2Next
  <2>1. UNCHANGED accountsVars /\ UNCHANGED organizationsVars
    BY <1>3 DEF Frame
  <2>2. QED
    BY <1>3, <2>1, AccountsIdle, OrgIdle, OAuthNext DEF IInv
<1>4. CASE UNCHANGED vars
  <2>1. UNCHANGED accountsVars /\ UNCHANGED organizationsVars /\ UNCHANGED oauth2Vars
    BY <1>4 DEF vars
  <2>2. QED
    BY <2>1, AccountsIdle, OrgIdle, OAuthIdle DEF IInv
<1>5. QED
  BY <1>1, <1>2, <1>3, <1>4 DEF Next

LEMMA Invariance == Spec => []IInv
<1>1. Init => IInv
  BY AccountsInit, OrgInit, OAuthInit DEF Init, IInv
<1>2. QED
  BY <1>1, IInvNext, PTL DEF Spec

\* Accounts, organizations and the OAuth 2.0 server keep their types, for all
\* sets of users, browsers, applications and requests; in particular a
\* permission goes with its user and its application.
THEOREM AccountsTypeCorrect == Spec => []AccountTypes
<1>1. IInv => AccountTypes
  BY AccountsSafe DEF IInv, OrgInv, OrgTypes, OAuthInv, AccountTypes
<1>2. QED
  BY <1>1, Invariance, PTL

\* A password alone never opens a session of a user with two-factor
\* authentication.
THEOREM TwoFactorsAreNeeded == Spec => []SecondFactor
<1>1. IInv => SecondFactor
  BY AccountsSafe DEF IInv, SecondFactor
<1>2. QED
  BY <1>1, Invariance, PTL

\* The access that an application has is within the scopes of codes that the
\* user granted since the last revocation and of the codes and access tokens
\* that were out at that moment: the refresh tokens it kept add nothing.
THEOREM RevokedRefreshGivesNothing == Spec => []AccessWithdrawn
<1>1. IInv => AccessWithdrawn
  BY DEF IInv, OAuthInv, AccessWithdrawn
<1>2. QED
  BY <1>1, Invariance, PTL

\* However requests that change organizations overlap, a status comes with an
\* organization, an invitation is good for one membership, and an engine with
\* another organization than its user is about to be restarted.
THEOREM MembershipCoherent == Spec => []Membership
<1>1. IInv => Membership
  BY DEF IInv, OrgInv, Membership
<1>2. QED
  BY <1>1, Invariance, PTL

=============================================================================
