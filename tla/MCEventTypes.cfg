CONSTANTS
  NoRow = NoRow
  EventType = {t1, t2, t3, t4}
  Subscription = {s1}
  Instance = {i1}
  Required = {t1, t2}
  Retries = 1
  Request = {r1, r2}
  ApplicationLimits <- NoLimits
  PlanLimits <- NoLimits
  GlobalLimits <- Limits
  QuotaEnforcement = TRUE
  I32Max = 1000
SPECIFICATION FairSpec
INVARIANTS
  DeclaredNearQuota
  UpsertsAreComplete
PROPERTIES
  UpsertsEnd
\* upserts come to an end
CHECK_DEADLOCK FALSE
