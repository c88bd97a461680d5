CONSTANTS
  U32Modulus = 200
  I16Max = 127
  FastLimits <- MCFastLimits
  SlowLimits <- MCSlowLimits
SPECIFICATION FairSpec
INVARIANTS
  TypeOK
  ChainLength
  NeverTooMany
PROPERTIES
  DelaysGrow
  ChainEnds
\* a chain that is over stops
CHECK_DEADLOCK FALSE
