CONSTANTS
  app1 = app1 app2 = app2 s1 = s1 s2 = s2 e1 = e1 e2 = e2
  u1 = u1 u2 = u2 u3 = u3 p1 = p1 p2 = p2 p3 = p3 kind = kind
  private = private public = public other = other
  NoRow = NoRow
  Kind = {kind}
  Worker = {private, public}
  KindOf <- OneKind
  U32Modulus = 8
  I16Max = 3
  Application = {app1}
  Subscription = {s1, s2}
  Event = {e1}
  Process = {p1}
  PrivateWorker = {private}
  ApplicationOf <- OneApplication
  DefaultWorkers <- NoWorkers
  AllowedWorkers <- NoWorkers
  ProcessOf <- OneProcess
  WorkerOf <- AnonymousWorkers
  Unit = {u1, u2}
  RequestAttempt = {a1, a2, a3}
  Body <- Enabled
  Unstorable = {s2}
  MaxFastRetries = 1
  MaxSlowRetries = 1
  MaxAborts = 1
  MaxInFlight = 1
  MaxDispatches = 2
SPECIFICATION Spec
SYMMETRY Symmetry
INVARIANTS
  TypeOK
  ExclusivePick
  ChainsAreLinear
  ChainsDoNotBreakOff
  SuccessWasAnswered
  DuplicatesAreAccountedFor
PROPERTIES
  SettledIsFinal
  ImplementsDelivery
\* once everything is settled and no client calls, nothing happens
CHECK_DEADLOCK FALSE
