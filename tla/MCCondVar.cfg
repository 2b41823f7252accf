SPECIFICATION FairSpec
CONSTANTS
  Threads = {t1, t2, t3, t4}
  M = 5
INVARIANTS
  Balanced
  NobodySleepsUncounted
PROPERTIES
  KeepsPromise
CHECK_DEADLOCK FALSE
