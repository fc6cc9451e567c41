CONSTANTS
  q1 = q1
  q2 = q2
  k1 = k1
  k2 = k2
  t1 = t1
  t2 = t2
  t3 = t3
  u1 = u1
  u2 = u2
  FileContents = {"c1", "c2"}
  MaxLines = 4
  MaxChanges = 2
  Calls = {q1, q2}
  MaxFrames = 5
  MaxQueue = 2
  Watermark = 1
  MaxNoise = 1
  HostOrder <- MCHostOrder
  SessionHosts = {"claude", "codex"}
  CostCap = 1
  MaxCost = 1
  DryRuns = {TRUE, FALSE}
  MaxIncidents = 2
  MaxFailures = 1
  MaxKills = 1
  QueuedTasks = {t1, t2, t3}
  TaskOrder <- MCTaskOrder
  SpecsOf <- MCSpecs
  Callers = {"a", "b"}
  Target = 2
  RunLimit = 2
  ChildTasks = {k1, k2}
  Tabs = {u1, u2}
  MaxVisits = 3
  MaxIterations = 3
SPECIFICATION UnionSpec
INVARIANTS FeedIsTrue TransportIsSound RescuesAreBounded  NobodyIsCutOff ReleasedMeansStopped
 
CHECK_DEADLOCK FALSE
