CONSTANTS
  w1 = w1
  j1 = j1
  j2 = j2
  alice = alice
  eve = eve
  s1 = s1
  s2 = s2
  s3 = s3
  nobody = nobody
  Nobody = nobody
  NumParts = 2
  Contents = {0, 1}
  Reverts = FALSE
  Works = {w1}
  Jobs = {j1, j2}
  Actors = {alice, eve}
  Sessions = {s1, s2, s3}
  Kinds = {"counterexamples"}
  MinHackers = 1
  MaxLeases = 3
  MaxFreezes = 2
SPECIFICATION Spec
SYMMETRY Sym
INVARIANTS TypeOK FailureIsFinal IndependentlyVerified
PROPERTIES NamesOneProduct
CHECK_DEADLOCK FALSE
