CONSTANTS
  r1 = r1
  r2 = r2
  t1 = t1
  t2 = t2
  t3 = t3
  a = a
  n = n
  h = h
  none = none
  c1 = c1
  nocause = nocause
  Runs = {r1, r2}
  Tasks = {t1, t2, n, h}
  RunOf <- MCRunOf
  Adapter <- MCAdapter
  ControllerOf <- MCControllerOf
  NoTask = none
  RunCap <- MCRunCap
  Caps = {1, 2}
  Bounded = FALSE
  MaxGeneration = 1
  Causes = {}
  NoCause = nocause
  Specs = {0}
  Instances <- Pair
SPECIFICATION MCSpec
SYMMETRY Sym
INVARIANTS TypeOK AcceptedRunIsDone BackendsHoldSlots OneStart
PROPERTIES ImplementsAdmission
