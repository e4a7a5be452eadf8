SPECIFICATION FairSpec
CONSTANTS
  p1 = p1
  t1 = t1
  w1 = w1
  w2 = w2
  v1 = v1
  int = int
  str = str
  None = None
  Playbooks <- OnePlaybook
  Tasks <- OneTask
  Workers <- TwoWorkers
  VariableNames <- OneName
  Types <- TwoTypes
  Files <- FileOrNone
  Happens = {"crash", "pullfail", "overlap"}
INVARIANT DriftIsFlagged
PROPERTY FlagsSettle
