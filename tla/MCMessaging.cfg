SPECIFICATION Spec
CONSTANTS
  \* Recording
  Pages = {p1, p2}
  MaxClicks = 4
  \* Apps
  Anons = {"anonymous", "anonymous-it"}
  User = "user"
  EmailOf = "m1"
  Addresses = {"m1", "m2"}
  MaxApp = 2
  Handlers = {h1, h2}
  \* GAssistant
  Turns = {t1, t2}
  MaxSaid = 3
  \* Preferences
  Undefined = Undefined
  Keys = {"a", "b"}
  Values = {"v1", "v2"}
  MaxFlush = 3
  MaxStarts = 2
  \* Framing
  MaxMessage = 4
  \* CloudSync
  MaxSync = 4
  \* DBPool
  NoConn = NoConn
  NoClient = NoClient
  Conns = {k1, k2, k3, k4}
  Limit = 2
  Clients = {c1, c2, c3}
  \* Fanout
  Replicas = {n1, n2, n3}
  MaxRequests = 2
  MaxScale = 2
INVARIANTS
  MessagingTypes
  Delivered
  UserConsent
CHECK_DEADLOCK FALSE
