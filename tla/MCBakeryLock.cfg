CONSTANTS
  Attempts = {1, 2, 3}
  Unverifiable = {2}
  MaxTicket = 2
SPECIFICATION FairSpec
INVARIANTS TypeOK MutualExclusion NoOvertaking
PROPERTIES ImplementsAtomicLock CallsComplete
CHECK_DEADLOCK FALSE
