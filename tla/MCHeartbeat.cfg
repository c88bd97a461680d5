CONSTANTS
  Unit = {u1, u2, u3, u4}
  Capacity = 3
  MinPeriod = 2
  MaxRounds = 8
SPECIFICATION FairSpec
INVARIANTS
  BackPressure
PROPERTIES
  UnitsComeThrough
  HeartbeatsKeepComing
  SilenceIsNoticed
