SPECIFICATION Spec
CONSTANTS
  a1 = a1  a2 = a2  n1 = n1
  Callers = {c1, c2}
  Presentations <- Hops
  Key <- MCKey
  IssuedAt <- MCIssuedAt
  Sound <- Hops
  Window = 1
  Skew = 1
  MaxClock = 4
  MaxRequests = 3
INVARIANTS
  SpentMeansHonoured
PROPERTIES
  ReplayOnlyAcrossASweep
CHECK_DEADLOCK FALSE
