SPECIFICATION FairSpec
CONSTANTS
  w1 = w1
  w2 = w2
  t1 = t1
  t2 = t2
  x1 = x1
  x2 = x2
  None = None
  Nodes <- LoneNodes
  TypeOf <- LoneTypes
  Edges <- LoneEdges
  Walkers <- TwoWalkers
  Tasks <- OneTask
  Runs <- OneRun
  RetryTargets = {None}
  Happens = {"crash", "stale", "recover", "dberror"}
PROPERTIES RecoveryEndsFlow
CHECK_DEADLOCK FALSE
