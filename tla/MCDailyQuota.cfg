CONSTANTS
  app1 = app1 org = org c1 = c1 c2 = c2
  Organization = {org}
  OrganizationOf <- OneOrganization
  Client = {c1, c2}
  Application = {app1}
  CanExceed = {}
  ApplicationEventsPerDay <- NoLimits
  PlanEventsPerDay <- NoLimits
  GlobalEventsPerDay = 2
  Threshold = 40
  EmailNotifications = TRUE
  ApplicationRetention <- NoLimits
  PlanRetention <- NoLimits
  GlobalRetention = 1
  GracePeriod = 2
  ReportAndDelete = FALSE
  LastDay = 1
  MaxEvents = 5
  QuotaEnforcement = TRUE
  I32Max = 1000
SPECIFICATION Spec
SYMMETRY Symmetry
INVARIANTS
  TypeOK
  QuotaClosesBehindRequests
  NotificationsAreFew
  NotificationsAreDeserved
  AboveThresholdIsWarned
\* the days come to an end
CHECK_DEADLOCK FALSE
