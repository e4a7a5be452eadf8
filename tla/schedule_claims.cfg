SPECIFICATION FairSpec
CONSTANTS
  s1 = s1
  s2 = s2
  w1 = w1
  w2 = w2
  x1 = x1
  x2 = x2
  None = None
  Schedules <- OneSchedule
  Workers <- TwoWorkers
  Runs <- TwoRuns
  MaxConcurrent = 2
  MaxFailures = 2
  MaxCrashes = 1
  Happens = {"crash", "stop"}
INVARIANTS NoOverlap OnceFiresOnce
PROPERTIES ImplementsContract DueFires OnceCompletes
CHECK_DEADLOCK FALSE
