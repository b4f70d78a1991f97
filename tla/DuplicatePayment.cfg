SPECIFICATION KeySpec
SYMMETRY Symmetry
CHECK_DEADLOCK FALSE
CONSTANTS
  Attempts = {r1, r2, r3}
  Hashes = {h1, h2}
  Nobody = Nobody
  ReserveFirst = FALSE
INVARIANTS
  AtMostOneEffect
