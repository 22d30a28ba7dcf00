SPECIFICATION ExecutorFairSpec
CONSTANTS
  Task = {t1, t2}
  Histories <- MCHistories
  Capacity = 2
  MaxAttempts = 2
  MaxFaults = 1
INVARIANTS OneEpochInFlight SlotsExact FinishedAfterEffects HandoffOfThisBatch
PROPERTIES  TasksFinish
CHECK_DEADLOCK FALSE
