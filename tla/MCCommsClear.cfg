SPECIFICATION Spec
CONSTANTS
  MaxRetries = 3
  MaxStreak = 7
INVARIANT
  NotUsedAfterClear
CHECK_DEADLOCK FALSE
