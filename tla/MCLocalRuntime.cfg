CONSTANTS
  r1 = r1
  t1 = t1
  d1 = d1
  d2 = d2
  k1 = k1
  none = none
  nocause = nocause
  Runs = {r1}
  Tasks = {t1}
  RunOf <- MCRunOf
  Adapter <- MCAdapter
  ControllerOf <- MCControllerOf
  NoTask = none
  RunCap <- MCRunCap
  Caps = {1}
  Bounded = FALSE
  MaxGeneration = 2
  Causes = {}
  NoCause = nocause
  Specs = {0}
  Dispatchers = {d1, d2}
  Commands = {k1}
  NoLeaseHeld = none
  LedgerFails = TRUE
SPECIFICATION LocalSpec
SYMMETRY Sym
CHECK_DEADLOCK FALSE
PROPERTIES ImplementsLedger
