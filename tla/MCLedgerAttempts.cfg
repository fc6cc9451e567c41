CONSTANTS
  r1 = r1
  r2 = r2
  t1 = t1
  t2 = t2
  t3 = t3
  a = a
  n = n
  h = h
  none = none
  c1 = c1
  nocause = nocause
  Runs = {r1}
  Tasks = {t3, a}
  RunOf <- MCRunOf
  Adapter <- MCAdapter
  ControllerOf <- MCControllerOf
  NoTask = none
  RunCap <- MCRunCap
  Caps = {2}
  Bounded = FALSE
  MaxGeneration = 3
  Causes = {c1}
  NoCause = nocause
  Specs = {0, 1}
  Instances <- Alone
SPECIFICATION MCSpec
CHECK_DEADLOCK FALSE
INVARIANTS Valid DeliveredWork
PROPERTIES CancelIsKept 
