SPECIFICATION SpineSpec
CONSTANTS
  Callers = {c1, c2}
  Agents = {ann, bob}
  Requests = {whole, twice, borrowed, forged, priceless}
  Presentations = {checkout, payment, reused}
  ann = ann
  bob = bob
  checkout = checkout
  payment = payment
  reused = reused
  whole = whole
  twice = twice
  borrowed = borrowed
  forged = forged
  priceless = priceless
  ClaimedBy <- MCClaimedBy
  Authentic <- MCAuthentic
  Within <- MCAuthentic
  Checkout <- MCCheckout
  Payment <- MCPayment
  Amount <- MCAmount
  HeldBy <- MCHeldBy
  Granted = {checkout, payment, reused}
  Expires <- MCExpires
  Key <- MCKey
  IssuedAt <- MCIssuedAt
  Sound = {checkout, payment, reused}
  Window = 1
  Skew = 0
  MaxClock = 2
  MaxRequests = 4
  MaxRuns = 2
SYMMETRY CallersAreAlike
INVARIANTS
  RunsAreInOrder
  RefusalsSpendNothing
  ANoncePassesOnce
PROPERTIES
  ChecksFreshness
CHECK_DEADLOCK FALSE
