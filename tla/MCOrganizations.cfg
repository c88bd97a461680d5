CONSTANTS
  u1 = u1 u2 = u2 free = free paid = paid x1 = x1 x2 = x2 x3 = x3
  User = {u1, u2}
  Organization = {free, paid}
  Application = {x1, x2, x3}
  OwnerOf <- Owners
  Priced = {paid}
  PlanApplications <- Plans
  GlobalApplications = 1
  ReportAndDelete = TRUE
  MaxInFlight = 2
  QuotaEnforcement = TRUE
  I32Max = 1000
SPECIFICATION FairSpec
CONSTRAINT Related
INVARIANTS
  TypeOK
  ApplicationsNearQuota
  NoOrphans
PROPERTIES
  CleanUpIsHarmless
  UnreachableOrganizationsGo
\* every user may leave, and every organization may go
CHECK_DEADLOCK FALSE
