---------------------------- MODULE RunLifecycle ----------------------------
(***************************************************************************)
(* What an execution run promises to everybody who reads its row: it is    *)
(* created pending, is started at most once, and reaches a terminal status *)
(* that it keeps, except that a recorded outcome becomes failed when what   *)
(* was left to do for the run panics.  Nothing is said of workers, contexts *)
(* or crashes: a run may stay where it is for ever.  ExecutionRun is shown  *)
(* to implement this specification.                                        *)
(***************************************************************************)
CONSTANT Runs    \* identifiers of execution_runs rows

VARIABLE status  \* execution_runs.status, "none" before the row exists

Outcomes == {"success", "failed", "partial"}  \* what resolveRunStatus yields
Active   == {"pending", "running"}
Terminal == Outcomes \cup {"cancelled"}
Statuses == {"none"} \cup Active \cup Terminal

Init == status = [r \in Runs |-> "none"]

Create(r) == /\ status[r] = "none"
             /\ status' = [status EXCEPT ![r] = "pending"]

Begin(r)  == /\ status[r] = "pending"
             /\ status' = [status EXCEPT ![r] = "running"]

\* A run that never started can only end failed: nothing else was observed.
Abandon(r) == /\ status[r] = "pending"
              /\ status' = [status EXCEPT ![r] = "failed"]

Finish(r) == /\ status[r] = "running"
             /\ \E o \in Outcomes : status' = [status EXCEPT ![r] = o]

Panic(r)  == /\ status[r] \in Outcomes
             /\ status' = [status EXCEPT ![r] = "failed"]

Cancel(r) == /\ status[r] \in Active
             /\ status' = [status EXCEPT ![r] = "cancelled"]

Next == \E r \in Runs : \/ Create(r)
                        \/ Begin(r)
                        \/ Abandon(r)
                        \/ Finish(r)
                        \/ Panic(r)
                        \/ Cancel(r)

Spec == Init /\ [][Next]_status
=============================================================================
