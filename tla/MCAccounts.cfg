SPECIFICATION Spec
CONSTANTS
  \* Accounts
  NoUser = NoUser
  Uids = {u1, u2}
  Emails = {"e1"}
  Passwords = {"p1"}
  Browsers = {b1, b2}
  Google = {g1}
  Github = {h1}
  FederatedEmail <- MailOf
  \* Organizations
  NoOrg = NoOrg
  Members = {m1, m2}
  Orgs = {o1}
  Verified = {m1, m2}
  SiteAdmins = {m1}
  Invited = {1}
  Pinned = {m2}
  Handlers = {r1, r2}
  \* OAuth2
  NoRow = NoRow
  Clients = {c1, c2}
  Owners = {w1}
  Scopes = {"profile", "user-sync"}
  AdminScopes = {"user-sync"}
  Magic = {c2}
  MaxTokens = 4
INVARIANTS
  AccountTypes
  SecondFactor
  AccessWithdrawn
  Membership
SYMMETRY Symmetry
CHECK_DEADLOCK FALSE
