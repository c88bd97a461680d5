CONSTANTS
  app1 = app1 app2 = app2 s1 = s1 s2 = s2 e1 = e1 e2 = e2
  u1 = u1 u2 = u2 u3 = u3 p1 = p1 p2 = p2 p3 = p3 kind = kind
  private = private public = public other = other
  NoRow = NoRow
  Kind = {kind}
  Worker = {private, public, other}
  KindOf <- OneKind
  U32Modulus = 8
  I16Max = 3
  Application = {app1}
  Subscription = {s1}
  Event = {e1}
  Process = {p1, p2, p3}
  PrivateWorker = {private, other}
  ApplicationOf <- OneApplication
  DefaultWorkers <- PrivateByDefault
  AllowedWorkers <- AllButOther
  ProcessOf <- ThreeProcesses
  WorkerOf <- NamedWorkers
  Unit = {u1, u2, u3}
  RequestAttempt = {a1, a2, a3}
  Body <- Dedicated
  Unstorable = {}
  MaxFastRetries = 1
  MaxSlowRetries = 1
  MaxAborts = 1
  MaxInFlight = 1
  MaxDispatches = 1
SPECIFICATION FairSpec
INVARIANT PrivateWorkersAreReserved
PROPERTY AttemptsSettle
CHECK_DEADLOCK FALSE
