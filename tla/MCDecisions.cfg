CONSTANTS
  UserNodes = {1, 2, 3}
  PlanShapes <- MCShapes
  MaxRevisions = 2
  Signals <- MCSignals
  Probes <- MCProbes
  Hosts <- MCHosts
  MaxConcurrencies = {2, 16}
  PlanHackers = 2
  Disabled <- MCDisabled
  Customs <- MCCustoms
  Offers <- MCOffers
  MaxOffers = 3
  ChoiceRoles = {"orchestrator", "researcher", "implementer", "reviewer", "advisor"}
  MaxSpends = 2
  Components = {1, 2}
  Grouped = {1, 2}
  Values = {0, 3}
  Stages = {1, 2}
  JudgeSessions = {"a", "b"}
  MaxJudgments = 2
  PricedRuns = {"r1"}
  Adapters = {"native", "host-managed"}
  MaxApprovals = 2
  MaxFeeds = 1
  MaxPolicyEdits = 1
  MaxHeader = 3
  Corpora <- MCCorpora
  DocBudgets <- MCDocBudgets
  ByteBudgets <- MCByteBudgets
SPECIFICATION UnionSpec
INVARIANTS GraphsRunInOrder  PoolIsSteady KnowledgeReadsTrue
PROPERTIES ModelsFit 
CHECK_DEADLOCK FALSE
