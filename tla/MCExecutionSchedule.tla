------------------------ MODULE MCExecutionSchedule ------------------------
(* Instances of ExecutionSchedule for TLC.                                  *)
EXTENDS ExecutionSchedule, TLC

CONSTANTS s1, s2, w1, w2, x1, x2

OneSchedule == {s1}
TwoSchedules == {s1, s2}
TwoWorkers == {w1, w2}
TwoRuns == {x1, x2}

Interchangeable == Permutations(Workers) \cup Permutations(Runs)
=============================================================================
