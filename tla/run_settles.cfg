SPECIFICATION FairSpec
CONSTANTS
  r1 = r1
  r2 = r2
  Runs <- MCRuns
  MaxWorkers = 1
  Faults <- OutsideFaults
INVARIANTS OutcomeIsTrue NotificationMatchesRow
PROPERTIES ImplementsLifecycle EveryRunSettles CancelStopsWork
CHECK_DEADLOCK FALSE
