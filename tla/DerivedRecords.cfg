SPECIFICATION DerivedFairSpec
CONSTANTS
  Worker = {w1}
  Janitor = {j1}
  MaxVersion = 6
  MaxCrashes = 2
PROPERTIES ActiveTasksKept 
CHECK_DEADLOCK FALSE
