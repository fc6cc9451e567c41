CONSTANTS
  t1 = t1
  t2 = t2
  QueuedTasks = {t1, t2}
  TaskOrder <- MCTaskOrder
  SpecsOf <- MCSpecs
  Callers = {"a"}
  Target = 2
  RunLimit = 2
SPECIFICATION QueueSpec
INVARIANT NoCircularWait
CHECK_DEADLOCK FALSE
