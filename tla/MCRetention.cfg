CONSTANTS
  app1 = app1 org = org c1 = c1 c2 = c2
  Organization = {org}
  OrganizationOf <- OneOrganization
  Client = {c1}
  Application = {app1}
  CanExceed = {}
  ApplicationEventsPerDay <- NoLimits
  PlanEventsPerDay <- NoLimits
  GlobalEventsPerDay = 5
  Threshold = 80
  EmailNotifications = FALSE
  ApplicationRetention <- NoLimits
  PlanRetention <- NoLimits
  GlobalRetention = 1
  GracePeriod = 3
  ReportAndDelete = TRUE
  LastDay = 4
  MaxEvents = 2
  QuotaEnforcement = TRUE
  I32Max = 1000
SPECIFICATION FairSpec
INVARIANTS
  CountsAreReal
  NoDayIsForgotten
PROPERTY EveryDayIsBackedUp
\* the days come to an end
CHECK_DEADLOCK FALSE
