SPECIFICATION Spec
CONSTANTS
  Callers = {c1, c2}
  Wire <- MCWire
  Claims <- MCClaims
  Asks <- MCAsks
  CloseAmounts <- MCCloseAmounts
  Decimals <- MCDecimals
  Limit <- MCLimit
  AgentKey <- MCAgentKey
  MandateOf <- MCMandateOf
  Altered <- MCAltered
  Grants <- MCGrants
  MaxClock = 1
  MaxNesting = 10
SYMMETRY CallersAreAlike
INVARIANTS
  CeilingIsTheMandates
  PassesWhatWasGranted
  ForecastsHold
PROPERTIES
  CheckThreeAnswers
