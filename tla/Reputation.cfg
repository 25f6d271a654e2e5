SPECIFICATION Spec
CONSTANTS
  Callers = {c1, c2}
  Agents = {a1}
  Nobody = Nobody
  Top = 2
  Threshold <- MCThreshold
  Dwell <- MCDwell
  Ceiling <- MCCeiling
  Start = 4
  Baseline = 4
  MinScore = 0
  MaxScore = 22
  Rise = 7
  Fall = 11
  Decay = 3
  DecayFloor = 5
  Place = 2
  Grain = 4
  BlockAfter = 2
  Amounts = {1, 2}
  MaxStall = 1
  MaxClock = 5
  MaxCalls = 4
SYMMETRY CallersAreAlike
INVARIANTS
  StandingIsSound
  StandingIsRecorded
PROPERTIES
  ClimbsAreServed
  GateIsNotBehind
CHECK_DEADLOCK FALSE
