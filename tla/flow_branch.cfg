SPECIFICATION Spec
CONSTANTS
  w1 = w1
  w2 = w2
  t1 = t1
  t2 = t2
  x1 = x1
  x2 = x2
  None = None
  Nodes <- ChainNodes
  TypeOf <- ChainTypes
  Edges <- ChainEdges
  Walkers <- TwoWalkers
  Tasks <- OneTask
  Runs <- TwoRuns
  RetryTargets = {None}
  Happens = {"crash", "timeout"}
SYMMETRY WalkerSymmetry
INVARIANTS BranchIsTrue OneActiveRun CompletedMeansDone
CHECK_DEADLOCK FALSE
