SPECIFICATION Spec
CONSTANTS
  plain = plain
  exponent = exponent
  Writers = {w1, w2, w3}
  Payloads = {plain, exponent}
  Jsonb <- MCJsonb
  Genesis = Genesis
  Nobody = Nobody
  MaxOps = 3
  MaxRecords = 2
SYMMETRY WritersAreAlike
INVARIANTS
  HonestTrailVerifies
  StateMatchesTrail
  TailMissesNothing
  TamperingShows
CHECK_DEADLOCK FALSE
