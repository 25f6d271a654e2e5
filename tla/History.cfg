SPECIFICATION HistorySpec
CONSTANTS
  Callers = {c1, c2}
  Agents = {ann}
  ann = ann
  small = small
  large = large
  forged = forged
  Presentations <- MCPresentations
  ClaimedBy <- MCClaimedBy
  Authentic <- MCAuthentic
  Within = {small}
  Checkout <- MCCheckout
  Payment <- MCPayment
  Amount <- MCAmount
  HeldBy <- MCHeldBy
  Granted <- MCPresentations
  Expires <- MCExpires
  Key <- MCKey
  IssuedAt <- MCIssuedAt
  Sound <- MCPresentations
  Window = 1
  Skew = 0
  MaxClock = 0
  MaxRequests = 6
  HistoryWindow = 2
  BaselineMin = 1
  Requests = {small, large, forged}
  MaxRuns = 2
SYMMETRY CallersAreAlike
INVARIANTS
  AloneIsToldTrue
  BaselineWasAuthorised
CHECK_DEADLOCK FALSE
