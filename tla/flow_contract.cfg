SPECIFICATION Spec
CONSTANTS
  w1 = w1
  w2 = w2
  t1 = t1
  t2 = t2
  x1 = x1
  x2 = x2
  None = None
  Nodes <- AskNodes
  TypeOf <- AskTypes
  Edges <- AskEdges
  Walkers <- TwoWalkers
  Tasks <- TwoTasks
  Runs <- OneRun
  RetryTargets = {None}
  Happens = {"crash", "retry"}
SYMMETRY WalkerSymmetry
INVARIANT ApprovalResumesOnce
PROPERTY ImplementsFlow
CHECK_DEADLOCK FALSE
