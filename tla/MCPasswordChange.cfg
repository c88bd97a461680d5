CONSTANTS
  u1 = u1 u2 = u2 org = org app = app token = token secret = secret
  NoRow = NoRow
  User = {u1, u2}
  Organization = {org}
  Application = {app}
  OwnerOf <- Owners
  Session = {s1, s2}
  Pair = {p1, p2}
  Key = {token, secret}
  Scope <- Scopes
  Request = {r1, c1}
  Calls = {c1}
  Update = {q1}
  Asked <- AskedFor
  Founders <- Founded
  MasterEnabled = FALSE
  AccessLifetime = 1
  RefreshLifetime = 2
  LinkLifetime = 0
  SecretLifetime = 1
  GracePeriod = 0
  ReportAndDelete = TRUE
  MaxTime = 2
SPECIFICATION Spec
CONSTRAINT Apart
SYMMETRY Symmetry
PROPERTY OthersStaySignedIn
CHECK_DEADLOCK FALSE
