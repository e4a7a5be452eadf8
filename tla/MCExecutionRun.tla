--------------------------- MODULE MCExecutionRun ---------------------------
(* Instances of ExecutionRun for TLC: two runs share one worker slot.       *)
EXTENDS ExecutionRun, TLC

CONSTANTS r1, r2

MCRuns == {r1, r2}

\* Every fault but a failing statement, after which nothing is promised.
OutsideFaults == FaultKinds \ {"dberror"}
=============================================================================
