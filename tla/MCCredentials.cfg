CONSTANTS
  u1 = u1 u2 = u2 org = org app = app token = token secret = secret
  NoRow = NoRow
  User = {u1}
  Organization = {org}
  Application = {app}
  OwnerOf <- Owners
  Session = {s1}
  Pair = {p1, p2}
  Key = {token, secret}
  Scope <- Scopes
  Request = {r1, r2, c1, c2}
  Calls = {c1, c2}
  Update = {q1}
  Asked <- AskedFor
  Founders <- Founded
  MasterEnabled = TRUE
  AccessLifetime = 1
  RefreshLifetime = 2
  LinkLifetime = 0
  SecretLifetime = 1
  GracePeriod = 0
  ReportAndDelete = TRUE
  MaxTime = 2
SPECIFICATION Spec
CONSTRAINTS FewEdits Apart
SYMMETRY Symmetry
INVARIANTS
  EndedSessionsStayEnded
  RefreshTokensRotate
  RightsAreRecent
  SecretsFade
\* time comes to an end
CHECK_DEADLOCK FALSE
