------------------------------ MODULE Accounts ------------------------------
(***************************************************************************)
(* User accounts and web sessions: registration, the ways to log in        *)
(* (password, one time code, Google, GitHub), email verification, password *)
(* recovery, profile, and deletion (src/src/routes/user.ts,                *)
(* src/src/util/user.ts, src/src/util/passport.ts, src/src/model/user.ts). *)
(* Every handler is one transaction and one action.                        *)
(***************************************************************************)
EXTENDS Naturals, FiniteSets

CONSTANTS
  NoUser,        \* no user, no password, no account
  Uids,          \* rows of users, which are never reused
  Emails, Passwords, \* Passwords: of 8 to 255 characters
  Browsers,      \* each has a session and cookies
  Google, Github, \* accounts there, which are different values
  FederatedEmail \* [Google \cup Github -> Emails \cup {NoUser}]

Federated == Google \cup Github
ShortPassword == "short"

VARIABLES
  users,   \* [Uids -> row or NoUser]
  used,    \* ids that were given out
  session, \* [Browsers -> [user, done2fa]]: the express session
  skip2fa, \* browsers with the signed cookie almond.skip2fa
  mail,    \* signed tokens that were mailed and have not expired
  proof    \* history: what the current session of a browser showed

avars == <<users, used, session, skip2fa, mail, proof>>

NewUser(email, verified, pw, fed) ==
  [email |-> email, verified |-> verified, password |-> pw, totp |-> FALSE,
   federated |-> fed]
Existing == {u \in Uids : users[u] # NoUser}
ByEmail(e) == {u \in Existing : e # NoUser /\ users[u].email = e}
ByFederated(f) == {u \in Existing : f \in users[u].federated}

LoggedOut == [user |-> NoUser, done2fa |-> FALSE]
\* req.user, which passport reads from the database at every request.
ReqUser(b) == session[b].user
HasUser(b) == ReqUser(b) \in Existing
\* Every request of a browser whose user is gone fails, that to log out too.
Broken(b) == ReqUser(b) # NoUser /\ ~HasUser(b)

\* isAuthenticated: no need for a code when 2FA is not set up.
IsAuthenticated(b) ==
  HasUser(b) /\ (~users[ReqUser(b)].totp \/ session[b].done2fa)

\* A row has one google_id and one github_id: a new one replaces the old one.
Linked(u, f) ==
  [users EXCEPT ![u].federated = (@ \ IF f \in Google THEN Google ELSE Github) \cup {f}]

Login(b, u, done2fa) == session' = [session EXCEPT ![b] = [user |-> u, done2fa |-> done2fa]]
Shows(b, what) == proof' = [proof EXCEPT ![b] = what]

VerifyToken(u, e) == [aud |-> "email-verify", sub |-> u, email |-> e]
RecoveryToken(u) == [aud |-> "pw-recovery", sub |-> u, email |-> NoUser]

-----------------------------------------------------------------------------
(* Registration and login.                                                 *)

\* POST /user/register: name and email must be new; the new user is logged
\* in, skips 2FA, and is sent the verification email.
Register(b, u, email, pw) ==
  /\ ~Broken(b) /\ u \notin used /\ ByEmail(email) = {} /\ pw \in Passwords
  /\ users' = [users EXCEPT ![u] = NewUser(email, FALSE, pw, {})]
  /\ used' = used \cup {u}
  /\ mail' = mail \cup {VerifyToken(u, email)}
  /\ Login(b, u, TRUE) /\ Shows(b, {"registered"})
  /\ UNCHANGED skip2fa

\* The local strategy: a user without a password cannot log in this way.
PasswordMatches(u, pw) == u \in Existing /\ users[u].password = pw
\* POST /user/login: a password, and the skip cookie instead of a code.
LoginPassword_Mut(b, u, pw) ==
  /\ ~Broken(b) /\ PasswordMatches(u, pw)
  /\ Login(b, u, session[b].done2fa \/ b \in skip2fa) /\ Shows(b, {"password"})
  /\ UNCHANGED <<users, used, skip2fa, mail>>
LoginPassword(b, u, pw) ==
  /\ ~Broken(b) /\ PasswordMatches(u, pw)
  /\ Login(b, u, b \in skip2fa) /\ Shows(b, {"password"})
  /\ UNCHANGED <<users, used, skip2fa, mail>>

\* POST /user/2fa/login
Login2fa(b, remember) ==
  /\ HasUser(b) /\ users[ReqUser(b)].totp
  /\ Login(b, ReqUser(b), TRUE) /\ Shows(b, proof[b] \cup {"code"})
  /\ skip2fa' = IF remember THEN skip2fa \cup {b} ELSE skip2fa
  /\ UNCHANGED <<users, used, mail>>

\* POST /user/2fa/setup, which asks for a code of the new key.
Setup2fa(b) ==
  /\ IsAuthenticated(b)
  /\ users' = [users EXCEPT ![ReqUser(b)].totp = TRUE]
  /\ Login(b, ReqUser(b), TRUE) /\ Shows(b, proof[b] \cup {"code"})
  /\ UNCHANGED <<used, skip2fa, mail>>

\* authenticateGoogle and authenticateGithub: an account that is linked, an
\* account with the same address if it was verified, or a new account. GitHub
\* may give no address, and getByEmail of null finds nobody.
Authenticate(b, f) ==
  LET e == FederatedEmail[f]
      linked == ByFederated(f)
      known == ByEmail(e)
  IN /\ \/ \E u \in linked :
             /\ Login(b, u, TRUE)
             /\ UNCHANGED <<users, used>>
        \/ \E u \in known :
             /\ linked = {} /\ users[u].verified
             /\ users' = Linked(u, f)
             /\ Login(b, u, TRUE)
             /\ UNCHANGED used
        \/ \E u \in Uids \ used :
             /\ linked = {} /\ known = {}
             /\ users' = [users EXCEPT ![u] = NewUser(e, e # NoUser, NoUser, {f})]
             /\ used' = used \cup {u}
             /\ Login(b, u, TRUE)
     /\ Shows(b, {"federated"})
     /\ UNCHANGED <<skip2fa, mail>>

\* The callback of Google authenticates without a session only; that of GitHub
\* always does, and may leave the session as another user.
LoginGoogle(b, f) == f \in Google /\ ReqUser(b) = NoUser /\ Authenticate(b, f)
LoginGithub(b, f) == f \in Github /\ ~Broken(b) /\ Authenticate(b, f)

\* associateGoogle: the callback of Google inside a session.
AssociateGoogle(b, f) ==
  /\ f \in Google /\ HasUser(b) /\ ByFederated(f) \subseteq {ReqUser(b)}
  /\ users' = Linked(ReqUser(b), f)
  /\ Login(b, ReqUser(b), TRUE) /\ Shows(b, proof[b] \cup {"federated"})
  /\ UNCHANGED <<used, skip2fa, mail>>

\* GET /user/logout
Logout(b) ==
  /\ HasUser(b)
  /\ session' = [session EXCEPT ![b] = LoggedOut] /\ Shows(b, {})
  /\ UNCHANGED <<users, used, skip2fa, mail>>

-----------------------------------------------------------------------------
(* Email, password, profile.                                               *)

\* GET /user/verify-email/:token: for the user of the session, and only if it
\* still has the address that the token was sent to.
VerifyEmail(b, tok) ==
  /\ IsAuthenticated(b) /\ tok \in mail
  /\ tok.aud = "email-verify" /\ tok.sub = ReqUser(b)
  /\ users' = [users EXCEPT ![ReqUser(b)].verified = @ \/ users[ReqUser(b)].email = tok.email]
  /\ UNCHANGED <<used, session, skip2fa, mail, proof>>

\* POST /user/resend-verification
ResendVerification(b) ==
  /\ IsAuthenticated(b)
  /\ ~users[ReqUser(b)].verified /\ users[ReqUser(b)].email # NoUser
  /\ mail' = mail \cup {VerifyToken(ReqUser(b), users[ReqUser(b)].email)}
  /\ UNCHANGED <<users, used, session, skip2fa, proof>>

\* POST /user/recovery/start
RecoveryStart(u) ==
  /\ u \in Existing /\ users[u].verified
  /\ mail' = mail \cup {RecoveryToken(u)}
  /\ UNCHANGED <<users, used, session, skip2fa, proof>>

\* POST /user/recovery/continue: a password that is too short is answered with
\* an error page, but nothing stops the handler, which goes on and sets it.
\* A user with 2FA has to give a code.
RecoveryContinue(b, tok, pw) ==
  /\ ~Broken(b) /\ tok \in mail /\ tok.aud = "pw-recovery" /\ tok.sub \in Existing
  /\ users' = [users EXCEPT ![tok.sub].password = pw]
  /\ Login(b, tok.sub, TRUE)
  /\ Shows(b, {"mail"} \cup IF users[tok.sub].totp THEN {"code"} ELSE {})
  /\ UNCHANGED <<used, skip2fa, mail>>

\* Signed tokens expire after twenty minutes.
Expire(tok) ==
  /\ tok \in mail /\ mail' = mail \ {tok}
  /\ UNCHANGED <<users, used, session, skip2fa, proof>>

\* POST /user/profile: the address counts as verified unless it changes.
UpdateProfile(b, email) ==
  LET u == ReqUser(b)
      mustSendEmail == email # users[u].email
  IN /\ IsAuthenticated(b) /\ ByEmail(email) \subseteq {u}
     /\ users' = [users EXCEPT ![u].email = email, ![u].verified = ~mustSendEmail]
     /\ mail' = IF mustSendEmail THEN mail \cup {VerifyToken(u, email)} ELSE mail
     /\ UNCHANGED <<used, session, skip2fa, proof>>

\* POST /user/change-password: with the old one, if there is one.
ChangePassword(b, old, pw) ==
  LET u == ReqUser(b) IN
  /\ IsAuthenticated(b) /\ pw \in Passwords
  /\ users[u].password # NoUser => old = users[u].password
  /\ users' = [users EXCEPT ![u].password = pw]
  /\ UNCHANGED <<used, session, skip2fa, mail, proof>>

\* POST /user/delete, which logs out but leaves completed2fa in the session.
DeleteUser(b) ==
  /\ IsAuthenticated(b)
  /\ users' = [users EXCEPT ![ReqUser(b)] = NoUser]
  /\ Login(b, NoUser, session[b].done2fa) /\ Shows(b, {})
  /\ UNCHANGED <<used, skip2fa, mail>>

AInit ==
  /\ users = [u \in Uids |-> NoUser]
  /\ used = {}
  /\ session = [b \in Browsers |-> LoggedOut]
  /\ skip2fa = {}
  /\ mail = {}
  /\ proof = [b \in Browsers |-> {}]

ANext ==
  \/ \E b \in Browsers :
       \/ \E u \in Uids, pw \in Passwords \cup {ShortPassword} :
            \/ \E e \in Emails : Register(b, u, e, pw)
            \/ LoginPassword(b, u, pw)
       \/ \E remember \in BOOLEAN : Login2fa(b, remember)
       \/ Setup2fa(b) \/ Logout(b) \/ ResendVerification(b) \/ DeleteUser(b)
       \/ \E f \in Federated : LoginGoogle(b, f) \/ LoginGithub(b, f) \/ AssociateGoogle(b, f)
       \/ \E tok \in mail :
            \/ VerifyEmail(b, tok)
            \/ \E pw \in Passwords \cup {ShortPassword} : RecoveryContinue(b, tok, pw)
       \/ \E e \in Emails : UpdateProfile(b, e)
       \/ \E old \in Passwords, pw \in Passwords : ChangePassword(b, old, pw)
  \/ \E u \in Uids : RecoveryStart(u)
  \/ \E tok \in mail : Expire(tok)

ASpec == AInit /\ [][ANext]_avars

-----------------------------------------------------------------------------
(* Properties.                                                             *)

\* Type correctness.
ATypeOK ==
  /\ \A u \in Existing : /\ u \in used
                         /\ users[u].email \in Emails \cup {NoUser}
                         /\ users[u].password \in Passwords \cup {ShortPassword, NoUser}
                         /\ users[u].federated \subseteq Federated
  /\ \A b \in Browsers : session[b].user \in Uids \cup {NoUser}
  /\ skip2fa \subseteq Browsers

\* A session that showed nothing but a password is not authenticated for a
\* user that set up two-factor authentication, also when it was set up from
\* another browser, or when the browser was logged in as somebody else before
\* (isAuthenticated, and the resets of completed2fa); the remember-me cookie of
\* the browser is the exception the code makes.
TwoFactorHolds ==
  \A b \in Browsers :
    IsAuthenticated(b) /\ users[ReqUser(b)].totp /\ b \notin skip2fa =>
      proof[b] # {"password"}
=============================================================================
