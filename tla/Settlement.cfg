SPECIFICATION Spec
CONSTANTS
  c1 = c1  c2 = c2  c3 = c3  d1 = d1  d2 = d2  k1 = k1  k2 = k2
  p1 = p1  p2 = p2  p3 = p3  p4 = p4
  Deals = {d1, d2}
  Checkouts = {k1, k2}
  Payments = {p1, p2, p3, p4}
  CheckoutOf <- MCCheckoutOf
  RefersTo <- MCRefersTo
  Amount <- MCAmount
  Ceiling <- MCCeiling
  Nobody = Nobody
  Callers = {c1, c2}
  PoolSize = 2
  MaxCalls = 3
  AdapterAnswers = TRUE
  Faults = TRUE
  Drawable = {p1, p2, p3}
INVARIANTS
  LedgerMatchesReceipts
  MoneyIsAccountedFor
PROPERTIES
  SettledDealsAreNotCharged
  SettlesAtomically
CHECK_DEADLOCK FALSE
