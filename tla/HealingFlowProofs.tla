------------------------ MODULE HealingFlowProofs ------------------------
(***************************************************************************)
(* Theorems about HealingFlow for any graph, any numbers of goroutines,    *)
(* tasks and runs, and any set of outside events unless one is excluded.   *)
(***************************************************************************)
EXTENDS HealingFlow, WellFoundedInduction, TLAPS

\* The cancel request works on a row it has already cancelled.
CancelInv == cancelling # "idle" => status = "cancelled"

\* Only the row, and nothing of goroutines or tasks, decides what the incident is.
IncidentInv == CancelInv /\ IncidentAgrees

\* The steps of a goroutine that leave the status alone, and the incident and the
\* cancel request with it.
KeepsStatus == UNCHANGED <<status, incident, cancelling>>
-----------------------------------------------------------------------------
\* Walking a graph, and everything a goroutine does for its nodes, keeps the
\* status, but for entering and leaving waiting_approval.
LEMMA WalkingKeepsStatus ==
  ASSUME NEW w \in Walkers,
         \/ EnterNode(w) \/ BeginNode(w) \/ FinishNode(w) \/ NodeFails(w)
         \/ StatementInterrupted(w) \/ EnsureWaitingApprovalStatus(w)
         \/ PersistWaiting(w) \/ ApproveTask(w) \/ ReadForResume(w)
         \/ RecordDecision(w) \/ LaunchFails(w) \/ LaunchRun(w) \/ LaunchRefused(w)
         \/ PollRun(w) \/ AwaitInterrupted(w) \/ RecordOutcome(w)
         \/ PersistContext(w) \/ TakeBranch(w) \/ LeaveFlow(w)
         \/ ReadStatusForError(w) \/ RunRecoveryAttempt(w)
  PROVE  KeepsStatus
<1> USE DEF KeepsStatus, row, mem, seen
<1>1. CASE EnterNode(w) \/ BeginNode(w) \/ FinishNode(w) \/ NodeFails(w)
  BY <1>1 DEF EnterNode, BeginNode, FinishNode, NodeFails
<1>2. CASE StatementInterrupted(w) \/ EnsureWaitingApprovalStatus(w) \/ PersistWaiting(w)
  BY <1>2 DEF StatementInterrupted, EnsureWaitingApprovalStatus, PersistWaiting
<1>3. CASE ApproveTask(w) \/ ReadForResume(w) \/ RecordDecision(w)
  BY <1>3 DEF ApproveTask, Decide, ReadForResume, RecordDecision
<1>4. CASE LaunchFails(w) \/ LaunchRun(w) \/ LaunchRefused(w)
  BY <1>4 DEF LaunchFails, LaunchRun, LaunchRefused
<1>5. CASE PollRun(w) \/ AwaitInterrupted(w) \/ RecordOutcome(w)
  BY <1>5 DEF PollRun, AwaitInterrupted, RecordOutcome
<1>6. CASE PersistContext(w) \/ TakeBranch(w) \/ LeaveFlow(w)
  BY <1>6 DEF PersistContext, TakeBranch, LeaveFlow
<1>7. CASE ReadStatusForError(w) \/ RunRecoveryAttempt(w)
  BY <1>7 DEF ReadStatusForError, RunRecoveryAttempt
<1>8. QED
  BY <1>1, <1>2, <1>3, <1>4, <1>5, <1>6, <1>7

\* The requests that only start a goroutine, and the world outside.
LEMMA RequestsKeepStatus ==
  ASSUME \/ \E w \in Walkers : \/ RecoverInstance(w) \/ ContextExpires(w)
                               \/ \E t \in Tasks : LoadPendingApprovalTask(t, w)
                                                   \/ RejectTask(t, w)
                               \/ \E n \in RetryTargets : RetryInstance(n, w)
         \/ ExpireTimedOut
         \/ \E r \in Runs : RunEnds(r)
  PROVE  KeepsStatus
<1> USE DEF KeepsStatus, row, mem, seen
<1>1. ASSUME NEW w \in Walkers, NEW t \in Tasks,
             LoadPendingApprovalTask(t, w) \/ RejectTask(t, w)
      PROVE  KeepsStatus
  BY <1>1 DEF LoadPendingApprovalTask, RejectTask, Decide
<1>2. ASSUME NEW w \in Walkers, NEW n \in RetryTargets, RetryInstance(n, w)
      PROVE  KeepsStatus
  BY <1>2 DEF RetryInstance
<1>3. ASSUME NEW w \in Walkers, RecoverInstance(w) \/ ContextExpires(w)
      PROVE  KeepsStatus
  BY <1>3 DEF RecoverInstance, ContextExpires
<1>4. CASE ExpireTimedOut
  BY <1>4 DEF ExpireTimedOut
<1>5. ASSUME NEW r \in Runs, RunEnds(r) PROVE KeepsStatus
  BY <1>5 DEF RunEnds
<1>6. QED
  BY <1>1, <1>2, <1>3, <1>4, <1>5

\* Every step that does write the status, or the incident, is one of the
\* contract's, or finds a status that its guard does not accept.
LEMMA StepImplements ==
  ASSUME CancelInv, [Next]_vars
  PROVE  [Lifecycle!Next]_<<status, incident>>
<1> DEFINE Promised == [Lifecycle!Next]_<<status, incident>>
<1> USE DEF Lifecycle!Goes, Lifecycle!Active, Active, row, Becomes,
            BecomesWithIncident
<1>0. KeepsStatus => Promised
  BY DEF KeepsStatus
<1>1. CASE UNCHANGED vars
  BY <1>1 DEF vars
<1>2. ASSUME NEW w \in Walkers, CreateInstance(w) PROVE Promised
  <2>1. Lifecycle!Create
    BY <1>2 DEF CreateInstance, Lifecycle!Create
  <2>2. QED
    BY <2>1 DEF Lifecycle!Next
<1>3. ASSUME NEW w \in Walkers, Step(w) PROVE Promised
  <2>1. CASE StartFlow(w)
    <3>1. Lifecycle!Start \/ UNCHANGED <<status, incident>>
      BY <2>1 DEF StartFlow, Lifecycle!Start
    <3>2. QED
      BY <3>1 DEF Lifecycle!Next
  <2>2. CASE CompleteInstance(w)
    <3>1. Lifecycle!Finish \/ UNCHANGED <<status, incident>>
      BY <2>2 DEF CompleteInstance, Lifecycle!Finish
    <3>2. QED
      BY <3>1 DEF Lifecycle!Next
  <2>3. CASE FailInstance(w) \/ FailOnError(w) \/ FailApprovalResume(w)
    <3>1. Lifecycle!Fail \/ UNCHANGED <<status, incident>>
      BY <2>3 DEF FailInstance, FailOnError, FailApprovalResume, Lifecycle!Fail
    <3>2. QED
      BY <3>1 DEF Lifecycle!Next
  <2>4. CASE CreateAndEnterWaiting(w)
    <3>1. Lifecycle!Wait \/ UNCHANGED <<status, incident>>
      BY <2>4 DEF CreateAndEnterWaiting, Lifecycle!Wait
    <3>2. QED
      BY <3>1 DEF Lifecycle!Next
  <2>5. CASE ResumeRunning(w)
    <3>1. Lifecycle!Resume \/ UNCHANGED <<status, incident>>
      BY <2>5 DEF ResumeRunning, Lifecycle!Resume
    <3>2. QED
      BY <3>1 DEF Lifecycle!Next
  <2>6. CASE RestartFailedInstance(w)
    <3>1. Lifecycle!Retry \/ UNCHANGED <<status, incident>>
      BY <2>6 DEF RestartFailedInstance, Lifecycle!Retry
    <3>2. QED
      BY <3>1 DEF Lifecycle!Next
  <2>7. CASE ResetForRecovery(w)
    <3>1. Lifecycle!Recover \/ UNCHANGED <<status, incident>>
      BY <2>7 DEF ResetForRecovery, Lifecycle!Recover
    <3>2. QED
      BY <3>1 DEF Lifecycle!Next
  <2>8. QED
    BY <1>0, <1>3, <2>1, <2>2, <2>3, <2>4, <2>5, <2>6, <2>7, WalkingKeepsStatus
       DEF Step
<1>4. CASE CancelInstance
  <2>1. Lifecycle!Cancel
    BY <1>4 DEF CancelInstance, Lifecycle!Cancel
  <2>2. QED
    BY <2>1 DEF Lifecycle!Next
<1>5. CASE CancelPendingTasks \/ CancelContext \/ Crash
  BY <1>5 DEF CancelPendingTasks, CancelContext, Crash
<1>6. CASE DismissIncident
  <2>1. Lifecycle!Dismiss
    BY <1>6 DEF DismissIncident, Lifecycle!Dismiss, CancelInv
  <2>2. QED
    BY <2>1 DEF Lifecycle!Next
<1>7. ASSUME NEW t \in Tasks, FailExpiredApproval(t) PROVE Promised
  <2>1. Lifecycle!Fail \/ UNCHANGED <<status, incident>>
    BY <1>7 DEF FailExpiredApproval, Lifecycle!Fail
  <2>2. QED
    BY <2>1 DEF Lifecycle!Next
<1>8. QED
  BY <1>0, <1>1, <1>2, <1>3, <1>4, <1>5, <1>6, <1>7, RequestsKeepStatus DEF Next

\* Nothing leaves the cancelled status, and only a cancelled row has a request at
\* work on it.
LEMMA CancelStep ==
  ASSUME CancelInv, [Next]_vars
  PROVE  /\ CancelInv'
         /\ status = "cancelled" => status' = "cancelled"
<1> USE DEF CancelInv
<1>1. status = "cancelled" => status' = "cancelled"
  BY StepImplements
     DEF Lifecycle!Next, Lifecycle!Create, Lifecycle!Start, Lifecycle!Wait,
         Lifecycle!Resume, Lifecycle!Finish, Lifecycle!Fail, Lifecycle!Retry,
         Lifecycle!Recover, Lifecycle!Cancel, Lifecycle!Dismiss, Lifecycle!Goes,
         Lifecycle!Active
<1>2. \/ cancelling' = cancelling
      \/ status' = "cancelled"
      \/ cancelling' = "idle"
      \/ cancelling # "idle"
  <2>1. CASE UNCHANGED vars
    BY <2>1 DEF vars, mem
  <2>2. ASSUME NEW w \in Walkers, CreateInstance(w) PROVE cancelling' = cancelling
    BY <2>2 DEF CreateInstance, mem
  <2>3. ASSUME NEW w \in Walkers, Step(w) PROVE cancelling' = cancelling
    <3>1. CASE \/ StartFlow(w) \/ CompleteInstance(w) \/ FailInstance(w)
               \/ FailOnError(w) \/ FailApprovalResume(w) \/ CreateAndEnterWaiting(w)
               \/ ResumeRunning(w) \/ RestartFailedInstance(w) \/ ResetForRecovery(w)
      BY <3>1 DEF StartFlow, CompleteInstance, FailInstance, FailOnError,
                  FailApprovalResume, CreateAndEnterWaiting, ResumeRunning,
                  RestartFailedInstance, ResetForRecovery, mem
    <3>2. QED
      BY <2>3, <3>1, WalkingKeepsStatus DEF Step, KeepsStatus
  <2>4. CASE CancelInstance
    BY <2>4 DEF CancelInstance
  <2>5. CASE CancelPendingTasks \/ CancelContext \/ DismissIncident \/ Crash
    BY <2>5 DEF CancelPendingTasks, CancelContext, DismissIncident, Crash
  <2>6. ASSUME NEW t \in Tasks, FailExpiredApproval(t) PROVE cancelling' = cancelling
    BY <2>6 DEF FailExpiredApproval
  <2>7. QED
    BY <2>1, <2>2, <2>3, <2>4, <2>5, <2>6, RequestsKeepStatus DEF Next, KeepsStatus
<1>3. QED
  BY <1>1, <1>2

\* The contract alone makes the incident agree with the status.
LEMMA IncidentStep ==
  ASSUME IncidentAgrees, [Lifecycle!Next]_<<status, incident>>
  PROVE  IncidentAgrees'
BY DEF IncidentAgrees, Lifecycle!Next, Lifecycle!Create, Lifecycle!Start,
       Lifecycle!Wait, Lifecycle!Resume, Lifecycle!Finish, Lifecycle!Fail,
       Lifecycle!Retry, Lifecycle!Recover, Lifecycle!Cancel, Lifecycle!Dismiss,
       Lifecycle!Goes, Lifecycle!Active

LEMMA IncidentInvHolds == Spec => []IncidentInv
<1>1. Init => IncidentInv
  BY DEF Init, IncidentInv, CancelInv, IncidentAgrees
<1>2. IncidentInv /\ [Next]_vars => IncidentInv'
  BY StepImplements, CancelStep, IncidentStep DEF IncidentInv
<1>3. QED
  BY <1>1, <1>2, PTL DEF Spec

\* The incident says healed exactly when the flow completed, failed when it
\* failed, and dismissed only when it was cancelled, whatever the goroutines, the
\* scans and the requests do and wherever the process dies.
THEOREM IncidentsCorrect == Spec => []IncidentAgrees
<1>1. IncidentInv => IncidentAgrees
  BY DEF IncidentInv
<1>2. QED
  BY <1>1, IncidentInvHolds, PTL

\* An instance and its incident only ever take the steps of FlowLifecycle: a
\* completed or cancelled flow is closed for good, and a failed one comes back
\* only by a retry or a recovery.
THEOREM FlowImplemented == Spec => ImplementsFlow
<1>1. Init => Lifecycle!Init
  BY DEF Init, Lifecycle!Init
<1>2. IncidentInv /\ [Next]_vars => [Lifecycle!Next]_<<status, incident>>
  BY StepImplements DEF IncidentInv
<1>3. QED
  BY <1>1, <1>2, IncidentInvHolds, PTL
     DEF Spec, ImplementsFlow, Lifecycle!Spec, Lifecycle!vars

\* A completed or cancelled flow stays so and a healed incident stays healed, whatever goroutine,
\* request or scan still works on it: none of their writes comes through.
THEOREM EndedFlowsStay ==
  Spec => [][/\ status \in {"completed", "cancelled"} => status' = status
             /\ incident = "healed" => incident' = "healed"]_vars
<1>1. IncidentInv /\ [Next]_vars
        => [/\ status \in {"completed", "cancelled"} => status' = status
            /\ incident = "healed" => incident' = "healed"]_vars
  <2> SUFFICES ASSUME IncidentInv, [Next]_vars
               PROVE  /\ status \in {"completed", "cancelled"} => status' = status
                      /\ incident = "healed" => incident' = "healed"
    OBVIOUS
  <2>1. [Lifecycle!Next]_<<status, incident>>
    BY StepImplements DEF IncidentInv
  <2>2. incident = "healed" => status = "completed"
    BY DEF IncidentInv, IncidentAgrees
  <2> QED
    BY <2>1, <2>2 DEF Lifecycle!Next, Lifecycle!Create, Lifecycle!Start, Lifecycle!Wait,
       Lifecycle!Resume, Lifecycle!Finish, Lifecycle!Fail, Lifecycle!Retry, Lifecycle!Recover,
       Lifecycle!Cancel, Lifecycle!Dismiss, Lifecycle!Goes, Lifecycle!Active
<1> QED
  BY <1>1, IncidentInvHolds, PTL DEF Spec
-----------------------------------------------------------------------------
(* Approval tasks of an instance whose process does not die *)

\* A row of approval_tasks is a record of two columns.
TaskShape ==
  /\ task = [t \in Tasks |-> task[t]]
  /\ \A t \in Tasks : task[t] = [node |-> task[t].node, status |-> task[t].status]

TaskInv == IncidentInv /\ TaskShape /\ CancelledHasNoPendingTask /\ NeverWaitsForNobody

\* The steps the approval tasks are none of the business of.
LeavesTasks ==
  /\ UNCHANGED <<task, expiring, cancelling>>
  /\ status' \in {"waiting_approval", "cancelled"} => status' = status

\* The steps the task invariants depend on.
TouchesTasks ==
  \/ \E w \in Walkers : CreateAndEnterWaiting(w) \/ ApproveTask(w)
                        \/ \E t \in Tasks : RejectTask(t, w)
  \/ CancelInstance \/ CancelPendingTasks \/ CancelContext \/ DismissIncident
  \/ ExpireTimedOut
  \/ \E t \in Tasks : FailExpiredApproval(t)

\* No other step of a goroutine touches a task, starts a wait or cancels the row.
LEMMA WalkersLeaveTasks ==
  ASSUME NEW w \in Walkers, Step(w)
  PROVE  LeavesTasks \/ CreateAndEnterWaiting(w) \/ ApproveTask(w)
<1> USE DEF LeavesTasks, row, mem, seen, Becomes, BecomesWithIncident
<1>1. CASE EnterNode(w) \/ BeginNode(w) \/ FinishNode(w) \/ NodeFails(w)
  BY <1>1 DEF EnterNode, BeginNode, FinishNode, NodeFails
<1>2. CASE StatementInterrupted(w) \/ EnsureWaitingApprovalStatus(w) \/ PersistWaiting(w)
  BY <1>2 DEF StatementInterrupted, EnsureWaitingApprovalStatus, PersistWaiting
<1>3. CASE ReadForResume(w) \/ RecordDecision(w) \/ RunRecoveryAttempt(w)
  BY <1>3 DEF ReadForResume, RecordDecision, RunRecoveryAttempt
<1>4. CASE LaunchFails(w) \/ LaunchRun(w) \/ LaunchRefused(w)
  BY <1>4 DEF LaunchFails, LaunchRun, LaunchRefused
<1>5. CASE PollRun(w) \/ AwaitInterrupted(w) \/ RecordOutcome(w)
  BY <1>5 DEF PollRun, AwaitInterrupted, RecordOutcome
<1>6. CASE PersistContext(w) \/ TakeBranch(w) \/ LeaveFlow(w) \/ ReadStatusForError(w)
  BY <1>6 DEF PersistContext, TakeBranch, LeaveFlow, ReadStatusForError
<1>7. CASE StartFlow(w) \/ CompleteInstance(w) \/ FailInstance(w)
  BY <1>7 DEF StartFlow, CompleteInstance, FailInstance
<1>8. CASE FailOnError(w) \/ FailApprovalResume(w) \/ ResumeRunning(w)
  BY <1>8 DEF FailOnError, FailApprovalResume, ResumeRunning
<1>9. CASE RestartFailedInstance(w) \/ ResetForRecovery(w)
  BY <1>9 DEF RestartFailedInstance, ResetForRecovery
<1>10. QED
  BY <1>1, <1>2, <1>3, <1>4, <1>5, <1>6, <1>7, <1>8, <1>9 DEF Step

LEMMA StepsLeaveTasks ==
  ASSUME "crash" \notin Happens, [Next]_vars
  PROVE  LeavesTasks \/ TouchesTasks
<1>1. CASE UNCHANGED vars
  BY <1>1 DEF vars, mem, row, LeavesTasks
<1>2. ASSUME NEW w \in Walkers, Step(w) PROVE LeavesTasks \/ TouchesTasks
  BY <1>2, WalkersLeaveTasks DEF TouchesTasks
<1>3. ASSUME NEW w \in Walkers,
             CreateInstance(w) \/ RecoverInstance(w) \/ ContextExpires(w)
      PROVE  LeavesTasks
  BY <1>3 DEF CreateInstance, RecoverInstance, ContextExpires, LeavesTasks, row, mem
<1>4. ASSUME NEW w \in Walkers, NEW t \in Tasks, LoadPendingApprovalTask(t, w)
      PROVE  LeavesTasks
  BY <1>4 DEF LoadPendingApprovalTask, LeavesTasks, row, mem
<1>5. ASSUME NEW w \in Walkers, NEW n \in RetryTargets, RetryInstance(n, w)
      PROVE  LeavesTasks
  BY <1>5 DEF RetryInstance, LeavesTasks, row, mem
<1>6. ASSUME NEW r \in Runs, RunEnds(r) PROVE LeavesTasks
  BY <1>6 DEF RunEnds, LeavesTasks, row, mem
<1>7. ~Crash
  BY DEF Crash
<1>8. QED
  BY <1>1, <1>2, <1>3, <1>4, <1>5, <1>6, <1>7 DEF Next, TouchesTasks

\* A decision changes the status of one task, to the decision.
LEMMA DecideChangesOne ==
  ASSUME TaskShape, NEW u, NEW w, NEW d \in {"approved", "rejected"}, Decide(u, d, w)
  PROVE  /\ TaskShape'
         /\ UNCHANGED <<status, expiring, cancelling>>
         /\ \A t \in Tasks : \/ task'[t].status = task[t].status
                             \/ task'[t].status = d
<1>1. task' = [t \in Tasks |-> IF t = u THEN [task[t] EXCEPT !.status = d] ELSE task[t]]
  BY DEF Decide, TaskShape
<1>2. QED
  BY <1>1 DEF Decide, TaskShape, row, mem

\* Each step that touches tasks keeps their invariants.
LEMMA TaskStep ==
  ASSUME "crash" \notin Happens, TaskInv, [Next]_vars
  PROVE  TaskShape' /\ CancelledHasNoPendingTask' /\ NeverWaitsForNobody'
<1> DEFINE Kept == TaskShape' /\ CancelledHasNoPendingTask' /\ NeverWaitsForNobody'
<1> USE DEF TaskInv, IncidentInv, CancelInv, CancelledHasNoPendingTask, NeverWaitsForNobody
<1>1. CASE LeavesTasks
  BY <1>1 DEF LeavesTasks, TaskShape
<1>2. ASSUME NEW w \in Walkers, CreateAndEnterWaiting(w) PROVE Kept
  <2>1. CASE status = "running"
    <3>1. PICK t \in Tasks :
            task' = [task EXCEPT ![t] = [node |-> walker[w].node, status |-> "pending"]]
      BY <1>2, <2>1 DEF CreateAndEnterWaiting
    <3>2. status' = "waiting_approval"
      BY <1>2, <2>1 DEF CreateAndEnterWaiting
    <3>3. task'[t].status = "pending"
      BY <3>1 DEF TaskShape
    <3>4. TaskShape'
      BY <3>1 DEF TaskShape
    <3>5. QED
      BY <3>2, <3>3, <3>4
  <2>2. CASE status # "running"
    BY <1>2, <2>2 DEF CreateAndEnterWaiting, row, mem, TaskShape
  <2>3. QED
    BY <2>1, <2>2
<1>3. ASSUME NEW w \in Walkers, NEW u, NEW d \in {"approved", "rejected"}, Decide(u, d, w)
      PROVE  Kept
  BY <1>3, DecideChangesOne
<1>4. ASSUME NEW w \in Walkers, ApproveTask(w) PROVE Kept
  <2>1. CASE Decide(walker[w].task, "approved", w)
    BY <1>3, <2>1
  <2>2. CASE UNCHANGED <<row, task, mem>>
    BY <2>2 DEF row, mem, TaskShape
  <2>3. QED
    BY <1>4, <2>1, <2>2 DEF ApproveTask
<1>5. ASSUME NEW w \in Walkers, NEW t \in Tasks, RejectTask(t, w) PROVE Kept
  BY <1>3, <1>5 DEF RejectTask
<1>6. CASE CancelInstance
  BY <1>6 DEF CancelInstance, TaskShape
<1>7. CASE CancelPendingTasks
  BY <1>7 DEF CancelPendingTasks, row, TaskShape
<1>8. CASE CancelContext \/ DismissIncident
  BY <1>8 DEF CancelContext, DismissIncident, row, TaskShape
<1>9. CASE ExpireTimedOut
  <2>1. PICK T \in SUBSET {t \in Tasks : task[t].status = "pending"},
             R \in SUBSET {t \in Tasks : task[t].status = "expired"} :
          /\ T \cup R # {}
          /\ task' = [t \in Tasks |-> IF t \in T
                                      THEN [task[t] EXCEPT !.status = "expired"]
                                      ELSE task[t]]
          /\ expiring' = T \cup R
    BY <1>9 DEF ExpireTimedOut
  <2>2. UNCHANGED <<status, cancelling>>
    BY <1>9 DEF ExpireTimedOut, row
  <2>3. TaskShape' /\ CancelledHasNoPendingTask'
    BY <2>1, <2>2 DEF TaskShape
  <2>4. QED
    BY <2>1, <2>3
<1>10. ASSUME NEW t \in Tasks, FailExpiredApproval(t) PROVE Kept
  BY <1>10 DEF FailExpiredApproval, Becomes, BecomesWithIncident, TaskShape
<1>11. QED
  BY <1>1, <1>2, <1>4, <1>5, <1>6, <1>7, <1>8, <1>9, <1>10, StepsLeaveTasks
     DEF TouchesTasks

LEMMA TaskInvHolds ==
  ASSUME "crash" \notin Happens
  PROVE  Spec => []TaskInv
<1>1. Init => TaskInv
  BY DEF Init, TaskInv, IncidentInv, CancelInv, IncidentAgrees, TaskShape,
         CancelledHasNoPendingTask, NeverWaitsForNobody
<1>2. TaskInv /\ [Next]_vars => TaskInv'
  BY TaskStep, StepImplements, CancelStep, IncidentStep DEF TaskInv, IncidentInv
<1>3. QED
  BY <1>1, <1>2, PTL DEF Spec

\* While the process lives, a cancelled flow has no pending approval once the
\* request closed them (CancelInstance): none survives, and no goroutine that had
\* not noticed the cancellation creates another (CreateAndEnterWaiting).
THEOREM CancelledTasksClosed ==
  ASSUME "crash" \notin Happens
  PROVE  Spec => []CancelledHasNoPendingTask
<1>1. TaskInv => CancelledHasNoPendingTask
  BY DEF TaskInv
<1>2. QED
  BY <1>1, TaskInvHolds, PTL

\* While the process lives, no flow waits for an approval that nobody can give any
\* more: the scan that expires a task (processExpiredApprovals) also fails the
\* flow, and a decided task stays for the scheduler to find.  A process that dies
\* between the two updates leaves a flow waiting for an expired task.
THEOREM SomebodyToWaitFor ==
  ASSUME "crash" \notin Happens
  PROVE  Spec => []NeverWaitsForNobody
<1>1. TaskInv => NeverWaitsForNobody
  BY DEF TaskInv
<1>2. QED
  BY <1>1, TaskInvHolds, PTL
-----------------------------------------------------------------------------
(* Goroutines one by one, and what they leave behind them *)

\* Nodes, tasks, runs and handles that a goroutine has wherever its code uses them.
Fitting ==
  {x \in Walker :
     /\ x.pc \in {"node", "begin", "work", "wait", "ensure", "persist", "launch", "await",
                  "record", "context", "branch"} => x.node \in Nodes
     /\ x.pc \in {"begin", "work"} => TypeOf[x.node] # "approval"
     /\ x.pc = "work" => TypeOf[x.node] # "execution"
     /\ x.pc \in {"launch", "await", "record", "context", "branch"} =>
          TypeOf[x.node] = "execution"
     /\ x.pc \in {"resume", "decide"} => x.node \in Nodes /\ TypeOf[x.node] = "approval"
     /\ x.pc \in {"approve", "read", "resume", "decide"} => x.task \in Tasks
     /\ x.pc \in {"read", "resume", "decide"} => x.handle \in {"approved", "rejected"}
     /\ x.pc \in {"record", "context", "branch"} => x.handle \in Outcomes
     /\ x.pc = "await" => x.run \in Runs}

FlowTypeOK == TypeOK /\ \A w \in Walkers : walker[w] \in Fitting
-----------------------------------------------------------------------------
(* Behind an approval *)

\* The nodes of B, all executions among them, are entered from outside B only by an approval
\* that was not rejected, and nobody asks for a retry from them.
Fenced(B) ==
  /\ \A n \in Nodes : TypeOf[n] = "execution" => n \in B
  /\ B \subseteq Nodes /\ StartNode \notin B /\ RetryTargets \cap B = {}
  /\ \A n \in Nodes \ B :
       IF TypeOf[n] = "approval"
       THEN FindNextNodeByHandle(n, "rejected") \notin B
       ELSE FindNextNode(n) \notin B /\ FindNextNodeByHandle(n, "default") \notin B

\* An edge that may be followed although nobody approved: any but an approval's, and of those
\* the rejected.
Free(i) == TypeOf[Edges[i].source] = "approval" => Edges[i].handle = "rejected"

\* The nodes reached along such edges from where the flow starts or is asked to retry.
Unapproved ==
  {n \in Nodes : \A T \in SUBSET Nodes :
     /\ ({StartNode} \cup RetryTargets) \cap Nodes \subseteq T
     /\ \A i \in DOMAIN Edges : Free(i) /\ Edges[i].source \in T => Edges[i].target \in T
     => n \in T}

Approved == \E t \in Tasks : task[t].status = "approved"

\* A goroutine that is not behind the fence and not about to cross it.
Outside(B, x) == /\ x.node \notin B
                 /\ x.pc \in {"read", "resume", "decide"} => x.handle = "rejected"

FenceInv(B) ==
  Approved \/ /\ current \notin B
              /\ \A w \in Walkers : Outside(B, walker[w])
              /\ \A r \in Runs : run[r] = "none"
-----------------------------------------------------------------------------
(* One goroutine at work *)

WorkPCs == {"node", "begin", "work", "wait", "launch", "await", "record", "context",
            "branch", "complete", "decide"}

Working(x) == x.pc \in WorkPCs

\* Nobody retries or recovers the instance.
Undisturbed == {"retry", "recover", "stale"} \cap Happens = {}

\* One goroutine walks the graph, and none while the instance waits or after it completed.
OneWorks ==
  /\ \A w \in Walkers : walker[w].pc \notin {"restart", "reset", "recover"}
  /\ \A w, v \in Walkers : Working(walker[w]) /\ Working(walker[v]) => w = v
  /\ status \in {"none", "pending", "waiting_approval", "completed"} =>
       \A w \in Walkers : ~Working(walker[w])

\* A playbook at work has the instance's goroutine waiting for it, unless that one's context
\* is done or it is gone; nobody waits for an approval then, and nothing has completed.
RunIsAwaited ==
  \A r \in Runs : run[r] = "active" =>
    /\ status \notin {"none", "pending", "waiting_approval", "completed"}
    /\ \A w \in Walkers : Working(walker[w]) =>
         \/ walker[w].done
         \/ walker[w].pc = "await" /\ walker[w].run = r

WorkInv == OneWorks /\ RunIsAwaited /\ OneActiveRun

\* From launching to branching, a goroutine's node has not been left; what it takes for the
\* success of its playbook is that one's outcome.
OutcomePCs == {"launch", "await", "record", "context", "branch"}

OutcomeIsTrue(x) ==
  x.pc \in OutcomePCs =>
    /\ taken[x.node] = "none"
    /\ x.handle \in {"success", "partial"} =>
         /\ x.pc = "record" => x.run \in Runs /\ run[x.run] = x.handle
         /\ x.pc \in {"context", "branch"} => did[x.node] = x.handle

BranchInv == BranchIsTrue /\ \A w \in Walkers : OutcomeIsTrue(walker[w])
-----------------------------------------------------------------------------
(* One decision, one goroutine *)

Waking(x, t) == x.pc \in {"read", "resume"} /\ x.task = t

\* A task that was decided has been resumed for, or has one goroutine that is about to.
DecisionInv ==
  /\ \A w \in Walkers : walker[w].pc \notin {"reset", "recover"}
  /\ \A t \in Tasks :
       /\ resumed[t] \in 0 .. 1
       /\ task[t].status \in {"none", "pending"} => resumed[t] = 0
       /\ \A w \in Walkers : Waking(walker[w], t) =>
            /\ task[t].status \notin {"none", "pending"} /\ resumed[t] = 0
            /\ \A v \in Walkers \ {w} : ~Waking(walker[v], t)
-----------------------------------------------------------------------------
(* Routing *)

Below == {p \in Nat \X Nat : p[1] < p[2]}

\* A set of positions has a least one.
LEMMA LeastPosition ==
  ASSUME NEW I \in SUBSET Nat, I # {}
  PROVE  \E i \in I : \A j \in I : i <= j
<1>1. IsWellFoundedOn(Below, Nat)
  <2>1. OpToRel(<, Nat) = Below
    BY DEF OpToRel, Below
  <2> QED
    BY <2>1, NatLessThanWellFounded
<1>2. PICK i \in I : \A j \in I : <<j, i>> \notin Below
  BY <1>1, WFMin
<1>3. ASSUME NEW j \in I
      PROVE  i <= j
  <2>1. <<j, i>> \in Nat \X Nat /\ <<j, i>>[1] = j /\ <<j, i>>[2] = i
    BY <1>3
  <2> QED
    BY <1>2, <1>3, <2>1 DEF Below
<1> QED
  BY <1>3

\* Every route leads to a node, or nowhere.
LEMMA RoutesLead ==
  /\ \A n : FindNextNode(n) \in Nodes \cup {None}
  /\ \A n, h : FindNextNodeByHandle(n, h) \in Nodes \cup {None}
  /\ StartNode \in Nodes \cup {None}
<1>1. ASSUME NEW I \in SUBSET DOMAIN Edges
      PROVE  FirstTarget(I) \in Nodes \cup {None}
  <2>1. CASE I = {}
    BY <2>1 DEF FirstTarget
  <2>2. CASE I # {}
    <3>1. I \subseteq Nat
      BY GraphConstants
    <3>2. \E i \in I : \A j \in I : i <= j
      BY <2>2, <3>1, LeastPosition
    <3>3. (CHOOSE i \in I : \A j \in I : i <= j) \in DOMAIN Edges
      BY <3>2
    <3>4. \A i \in DOMAIN Edges : Edges[i] \in [source : Nodes, handle : Handles, target : Nodes]
      <4>1. \A S : \A s \in Seq(S) : \A i \in DOMAIN s : s[i] \in S
        OBVIOUS
      <4> QED
        BY <4>1, GraphConstants
    <3>5. \A i \in DOMAIN Edges : Edges[i].target \in Nodes
      BY <3>4
    <3> QED
      BY <2>2, <3>3, <3>5 DEF FirstTarget
  <2> QED
    BY <2>1, <2>2
<1>2. \A n : From(n) \subseteq DOMAIN Edges
  BY DEF From
<1>3. \A n, h : /\ MatchNodeByHandle(n, h) \in Nodes \cup {None}
                /\ MatchDefaultNodeByHandle(n, h) \in Nodes \cup {None}
                /\ MatchUnnamedNodeByHandle(n, h) \in Nodes \cup {None}
  <2> SUFFICES ASSUME NEW n, NEW h
               PROVE  /\ MatchNodeByHandle(n, h) \in Nodes \cup {None}
                      /\ MatchDefaultNodeByHandle(n, h) \in Nodes \cup {None}
                      /\ MatchUnnamedNodeByHandle(n, h) \in Nodes \cup {None}
    OBVIOUS
  <2>1. /\ {i \in From(n) : GetSourceHandle(Edges[i]) = h} \subseteq DOMAIN Edges
        /\ {i \in From(n) : GetSourceHandle(Edges[i]) = "default"} \subseteq DOMAIN Edges
        /\ {i \in From(n) : Edges[i].handle = ""} \subseteq DOMAIN Edges
    BY <1>2
  <2> QED
    BY <1>1, <2>1 DEF MatchNodeByHandle, MatchDefaultNodeByHandle, MatchUnnamedNodeByHandle
<1>4. \A n, h : FindNextNodeByHandle(n, h) \in Nodes \cup {None}
  BY <1>3 DEF FindNextNodeByHandle
<1>5. StartNode \in Nodes \cup {None}
  BY DEF StartNode
<1> QED
  BY <1>1, <1>2, <1>4, <1>5 DEF FindNextNode

\* A route follows an edge out of its node; a rejection or a failure follows no edge but one
\* of that handle, while other handles may fall back on the default edge.
LEMMA RoutesFollowEdges ==
  /\ \A n : FindNextNode(n) # None => \E i \in From(n) : FindNextNode(n) = Edges[i].target
  /\ \A n, h : FindNextNodeByHandle(n, h) # None =>
       \E i \in From(n) : /\ FindNextNodeByHandle(n, h) = Edges[i].target
                          /\ h \in {"rejected", "failed"} => Edges[i].handle = h
<1>1. ASSUME NEW I \in SUBSET DOMAIN Edges, FirstTarget(I) # None
      PROVE  \E i \in I : FirstTarget(I) = Edges[i].target
  <2>1. I # {} /\ I \subseteq Nat
    BY <1>1, GraphConstants DEF FirstTarget
  <2>2. \E i \in I : \A j \in I : i <= j
    BY <2>1, LeastPosition
  <2> QED
    BY <2>1, <2>2 DEF FirstTarget
<1>2. ASSUME NEW n, FindNextNode(n) # None
      PROVE  \E i \in From(n) : FindNextNode(n) = Edges[i].target
  BY <1>1, <1>2 DEF FindNextNode, From
<1>3. ASSUME NEW n, NEW h, FindNextNodeByHandle(n, h) # None
      PROVE  \E i \in From(n) : /\ FindNextNodeByHandle(n, h) = Edges[i].target
                                /\ h \in {"rejected", "failed"} => Edges[i].handle = h
  <2> DEFINE m == FindNextNodeByHandle(n, h)
  <2>1. \/ m = MatchNodeByHandle(n, h) /\ m # None
        \/ m = MatchDefaultNodeByHandle(n, h) /\ m # None
        \/ m = MatchUnnamedNodeByHandle(n, h) /\ m # None
    BY <1>3 DEF FindNextNodeByHandle
  <2> HIDE DEF m
  <2>2. CASE m = MatchNodeByHandle(n, h) /\ m # None
    <3>1. \E i \in {j \in From(n) : GetSourceHandle(Edges[j]) = h} : m = Edges[i].target
      BY <1>1, <2>2 DEF MatchNodeByHandle, From
    <3> QED
      BY <3>1 DEF m, GetSourceHandle
  <2>3. CASE m = MatchDefaultNodeByHandle(n, h) /\ m # None
    <3>1. /\ h \notin {"rejected", "failed"}
          /\ \E i \in {j \in From(n) : GetSourceHandle(Edges[j]) = "default"} : m = Edges[i].target
      BY <1>1, <2>3 DEF MatchDefaultNodeByHandle, From
    <3> QED
      BY <3>1 DEF m
  <2>4. CASE m = MatchUnnamedNodeByHandle(n, h) /\ m # None
    <3>1. /\ h \notin {"rejected", "failed"}
          /\ \E i \in {j \in From(n) : Edges[j].handle = ""} : m = Edges[i].target
      BY <1>1, <2>4 DEF MatchUnnamedNodeByHandle, From
    <3> QED
      BY <3>1 DEF m
  <2> QED
    BY <2>1, <2>2, <2>3, <2>4
<1> QED
  BY <1>2, <1>3
-----------------------------------------------------------------------------
(* Records of goroutines *)

\* One with the fields of the other, but for its place and its copy of the node states.
Alike(x, y) ==
  /\ y.kind = x.kind /\ y.node = x.node /\ y.result = x.result /\ y.run = x.run
  /\ y.handle = x.handle /\ y.task = x.task /\ y.done = x.done /\ y.stored = x.stored
  /\ y.err = x.err /\ y.saw = x.saw

LEMMA IdleIs ==
  /\ IdleWalker \in Fitting /\ IdleWalker.pc = "idle" /\ IdleWalker.node = None
  /\ IdleWalker.done = FALSE
BY DEF IdleWalker, Fitting, Walker, PCs, Kinds, NoStates, NodeStates, Outcomes, Handles, Statuses

LEMMA GoToIs ==
  ASSUME NEW x \in Walker, NEW l \in PCs
  PROVE  GoTo(x, l) \in Walker /\ GoTo(x, l).pc = l /\ Alike(x, GoTo(x, l))
BY DEF GoTo, Walker, Alike

LEMMA KeepIs ==
  ASSUME NEW x \in Walker, NEW n, NEW s \in NodeStates
  PROVE  /\ KeepStates(x, n, s) \in Walker /\ KeepStates(x, n, s).pc = x.pc
         /\ Alike(x, KeepStates(x, n, s))
<1> DEFINE kept == [x.states EXCEPT ![n] = s]
<1>1. x.states \in [Nodes -> NodeStates] /\ kept \in [Nodes -> NodeStates]
  BY DEF Walker
<1>2. KeepStates(x, n, s) = [x EXCEPT !.states = kept]
  BY DEF KeepStates, Walker
<1> HIDE DEF kept
<1> QED
  BY <1>1, <1>2 DEF Walker, Alike

LEMMA EnterIs ==
  ASSUME NEW x \in Walker, NEW n \in Nodes
  PROVE  /\ Enter(x, n) \in Fitting /\ Enter(x, n).pc = "node" /\ Enter(x, n).node = n
         /\ Enter(x, n).done = x.done
<1>1. "node" \in PCs /\ "default" \in Handles
  BY DEF PCs, Handles
<1>2. /\ Enter(x, n) \in Walker /\ Enter(x, n).pc = "node" /\ Enter(x, n).node = n
      /\ Enter(x, n).done = x.done
  BY <1>1 DEF Enter, Walker
<1> QED
  BY <1>2 DEF Fitting

LEMMA EndingIs ==
  ASSUME NEW x \in Walker, NEW l \in {"leave", "fail", "complete", "reject"}, NEW e \in BOOLEAN
  PROVE  /\ Ending(x, l, e) \in Fitting /\ Ending(x, l, e).pc = l
         /\ Ending(x, l, e).node = None /\ Ending(x, l, e).done = x.done
<1>1. IdleWalker \in Walker
  BY IdleIs DEF Fitting
<1>2. l \in PCs
  BY DEF PCs
<1>3. /\ Ending(x, l, e) \in Walker /\ Ending(x, l, e).pc = l
      /\ Ending(x, l, e).node = IdleWalker.node /\ Ending(x, l, e).done = x.done
  BY ZenonT(40), <1>1, <1>2 DEF Ending, Walker
<1> QED
  BY <1>3, IdleIs DEF Fitting

\* Where a goroutine goes that leaves its node, or the graph.
LeavesNode(x, y) ==
  /\ y \in Fitting /\ y.done = x.done
  /\ \/ y.pc = "node" /\ y.node \in Nodes
     \/ y.pc \in {"leave", "fail", "complete", "reject"} /\ y.node = None

LEMMA Leaving ==
  ASSUME NEW x \in Walker
  PROVE  /\ \A n \in Nodes : LeavesNode(x, Enter(x, n))
         /\ \A e \in BOOLEAN : /\ LeavesNode(x, Leave(x, e)) /\ Leave(x, e).pc = "leave"
                               /\ LeavesNode(x, FailWith(x, e)) /\ FailWith(x, e).pc = "fail"
                               /\ LeavesNode(x, Ending(x, "reject", e))
                               /\ Ending(x, "reject", e).pc = "reject"
         /\ LeavesNode(x, Complete(x))
BY ZenonT(40), EnterIs, EndingIs DEF LeavesNode, Leave, FailWith, Complete
-----------------------------------------------------------------------------
(* Steps of one goroutine that concern only its record, and its own columns of the row *)

Moves(w) ==
  /\ walker' = [walker EXCEPT ![w] = walker'[w]]
  /\ walker'[w] \in Fitting

\* It goes on with what it was at, or stops.
GoesOn(x, y) ==
  /\ Working(y) => Working(x) /\ y.done = x.done
  /\ x.pc # "await" /\ y.pc # "await"
  /\ y.pc \notin {"restart", "reset", "recover", "approve"}
  /\ y.pc \in {"read", "resume"} => x.pc \in {"read", "resume"} /\ y.task = x.task

WalkerSteps(w) ==
  \/ EnterNode(w) \/ BeginNode(w) \/ FinishNode(w) \/ NodeFails(w)
  \/ StatementInterrupted(w) \/ EnsureWaitingApprovalStatus(w) \/ PersistWaiting(w)
  \/ ReadForResume(w) \/ RecordDecision(w) \/ LaunchFails(w) \/ LaunchRefused(w)
  \/ RecordOutcome(w) \/ PersistContext(w) \/ TakeBranch(w)
  \/ LeaveFlow(w) \/ ReadStatusForError(w)

LEMMA SetMoves ==
  ASSUME FlowTypeOK, NEW w \in Walkers, NEW y \in Fitting, Set(w, y)
  PROVE  Moves(w) /\ walker'[w] = y /\ \A v \in Walkers \ {w} : walker'[v] = walker[v]
BY DEF FlowTypeOK, TypeOK, Set, Moves

\* Leaving a node, or the graph, goes on.
LEMMA LeavingGoesOn ==
  ASSUME NEW x \in Fitting, NEW y, LeavesNode(x, y), x.pc # "await",
         Working(y) => Working(x)
  PROVE  GoesOn(x, y)
BY DEF LeavesNode, GoesOn, Working, WorkPCs

LEMMA WalkerMoves ==
  ASSUME FlowTypeOK, NEW w \in Walkers, WalkerSteps(w)
  PROVE  Moves(w) /\ GoesOn(walker[w], walker'[w])
<1> DEFINE x == walker[w]
           Goes(y) == y \in Fitting /\ GoesOn(x, y)
<1>x. x \in Fitting /\ x \in Walker
  BY DEF FlowTypeOK, Fitting
<1>y. ASSUME NEW y, Goes(y), Set(w, y)
      PROVE  Moves(w) /\ GoesOn(x, walker'[w])
  BY <1>y, SetMoves
<1>a. x.pc # "await"
  BY DEF WalkerSteps, EnterNode, BeginNode, FinishNode, NodeFails, StatementInterrupted,
     EnsureWaitingApprovalStatus, PersistWaiting, ReadForResume, RecordDecision, LaunchFails,
     LaunchRefused, RecordOutcome, PersistContext, TakeBranch, LeaveFlow, ReadStatusForError, At
<1>l. /\ \A n \in Nodes : LeavesNode(x, Enter(x, n))
      /\ \A e \in BOOLEAN : /\ LeavesNode(x, Leave(x, e)) /\ LeavesNode(x, FailWith(x, e))
                            /\ Leave(x, e).pc = "leave" /\ FailWith(x, e).pc = "fail"
      /\ LeavesNode(x, Complete(x))
  BY <1>x, Leaving
\* What the end of a goroutine, or a pause of it, is like.
<1>s. ASSUME NEW e \in BOOLEAN
      PROVE  Goes(Leave(x, e)) /\ Goes(FailWith(x, e))
  BY <1>x, <1>a, <1>l, <1>s, LeavingGoesOn DEF LeavesNode, Working, WorkPCs
<1>n. Outcomes \subseteq NodeStates /\ {"approved", "rejected"} \subseteq NodeStates
  BY DEF NodeStates, Outcomes
\* A goroutine that writes a node state and leaves the node.
<1>k. ASSUME NEW s \in NodeStates, Working(x)
      PROVE  LET k == KeepStates(x, x.node, s)
             IN  /\ \A n \in Nodes : Goes(Enter(k, n))
                 /\ \A e \in BOOLEAN : Goes(FailWith(k, e)) /\ Goes(Ending(k, "reject", e))
                 /\ Goes(Complete(k))
  <2> DEFINE k == KeepStates(x, x.node, s)
  <2>1. k \in Walker /\ k.done = x.done
    BY <1>x, <1>k, KeepIs DEF Alike
  <2> HIDE DEF k
  <2>2. /\ \A n \in Nodes : LeavesNode(k, Enter(k, n))
        /\ \A e \in BOOLEAN : LeavesNode(k, FailWith(k, e)) /\ LeavesNode(k, Ending(k, "reject", e))
        /\ LeavesNode(k, Complete(k))
    BY <2>1, Leaving
  <2>3. \A y : LeavesNode(k, y) => LeavesNode(x, y)
    BY <2>1 DEF LeavesNode
  <2>4. \A y : LeavesNode(x, y) => Goes(y)
    BY <1>x, <1>a, <1>k, LeavingGoesOn DEF LeavesNode
  <2> QED
    BY <2>2, <2>3, <2>4 DEF k
<1>1. CASE EnterNode(w)
  <2> DEFINE l == IF TypeOf[x.node] = "approval" THEN "wait" ELSE "begin"
  <2>1. At(w, "node") /\ (Set(w, Leave(x, FALSE)) \/ Set(w, GoTo(x, l)))
    BY <1>1 DEF EnterNode
  <2>2. /\ GoTo(x, l) \in Walker /\ GoTo(x, l).pc = l /\ Alike(x, GoTo(x, l))
    <3>1. l \in PCs
      BY DEF PCs
    <3> QED
      BY <1>x, <3>1, GoToIs
  <2>3. Goes(GoTo(x, l))
    BY <1>x, <2>1, <2>2 DEF At, Alike, Fitting, GoesOn, Working, WorkPCs
  <2> QED
    BY <1>y, <1>s, <2>1, <2>3
<1>2. CASE BeginNode(w)
  <2> DEFINE k == KeepStates(x, x.node, "running")
             l == IF TypeOf[x.node] = "execution" THEN "launch" ELSE "work"
  <2>1. At(w, "begin") /\ Set(w, GoTo(k, l))
    BY <1>2 DEF BeginNode
  <2>2. k \in Walker /\ Alike(x, k)
    BY <1>x, KeepIs DEF NodeStates
  <2> HIDE DEF k
  <2>3. l \in PCs
    BY DEF PCs
  <2>4. GoTo(k, l) \in Walker /\ GoTo(k, l).pc = l /\ Alike(k, GoTo(k, l))
    BY <2>2, <2>3, GoToIs
  <2>5. GoTo(k, l) \in Fitting
    BY <1>x, <2>1, <2>2, <2>4 DEF At, Alike, Fitting
  <2>6. GoesOn(x, GoTo(k, l))
    BY <2>1, <2>2, <2>4 DEF At, Alike, GoesOn, Working, WorkPCs
  <2> QED
    BY <1>y, <2>1, <2>5, <2>6
<1>3. CASE FinishNode(w)
  <2> DEFINE k == KeepStates(x, x.node, "completed")
             n == FindNextNode(x.node)
  <2>1. At(w, "work") /\ (Set(w, Complete(k)) \/ Set(w, EnterOr(k, n, Complete(k))))
    BY <1>3 DEF FinishNode
  <2>2. Goes(Complete(k)) /\ (n \in Nodes => Goes(Enter(k, n)))
    BY <1>k, <2>1 DEF At, NodeStates, Working, WorkPCs
  <2>3. Goes(EnterOr(k, n, Complete(k)))
    BY <2>2, RoutesLead DEF EnterOr
  <2> QED
    BY <1>y, <2>1, <2>2, <2>3
<1>4. CASE NodeFails(w)
  <2> DEFINE k == KeepStates(x, x.node, "failed")
  <2>1. At(w, "work") /\ Set(w, FailWith(k, TRUE))
    BY <1>4 DEF NodeFails
  <2>2. Goes(FailWith(k, TRUE))
    BY <1>k, <2>1 DEF At, NodeStates, Outcomes, Working, WorkPCs
  <2> QED
    BY <1>y, <2>1, <2>2
<1>5. CASE StatementInterrupted(w)
  BY <1>5, <1>s, <1>y DEF StatementInterrupted
<1>6. CASE EnsureWaitingApprovalStatus(w)
  <2>1. At(w, "ensure") /\ (Set(w, GoTo(x, "persist")) \/ Set(w, Leave(x, TRUE)))
    BY <1>6 DEF EnsureWaitingApprovalStatus
  <2>2. GoTo(x, "persist") \in Walker /\ GoTo(x, "persist").pc = "persist"
        /\ Alike(x, GoTo(x, "persist"))
    BY <1>x, GoToIs DEF PCs
  <2>3. Goes(GoTo(x, "persist"))
    BY <1>x, <2>1, <2>2 DEF At, Alike, Fitting, GoesOn, Working, WorkPCs
  <2> QED
    BY <1>y, <1>s, <2>1, <2>3
<1>7. CASE PersistWaiting(w)
  BY <1>7, <1>s, <1>y DEF PersistWaiting
<1>8. CASE ReadForResume(w)
  <2> DEFINE k == [x EXCEPT !.node = current, !.states = states, !.result = result]
  <2>1. At(w, "read") /\ Set(w, CASE current = None -> Ending(k, "reject", FALSE)
                                  [] current # None /\ TypeOf[current] # "approval" -> Leave(k, TRUE)
                                  [] OTHER -> GoTo(k, "resume"))
    BY <1>8 DEF ReadForResume
  <2>2. /\ k \in Walker /\ k.node = current /\ k.task = x.task /\ k.handle = x.handle
        /\ k.done = x.done
    <3>1. states \in [Nodes -> NodeStates] /\ result \in {"none"} \cup Outcomes
          /\ current \in Nodes \cup {None}
      BY DEF FlowTypeOK, TypeOK
    <3> QED
      BY <1>x, <3>1 DEF Walker
  <2> HIDE DEF k
  <2>3. GoTo(k, "resume") \in Walker /\ GoTo(k, "resume").pc = "resume"
        /\ Alike(k, GoTo(k, "resume"))
    BY <2>2, GoToIs DEF PCs
  <2>4. CASE current = None
    <3>1. Set(w, Ending(k, "reject", FALSE)) /\ LeavesNode(k, Ending(k, "reject", FALSE))
          /\ Ending(k, "reject", FALSE).pc = "reject"
      BY <2>1, <2>2, <2>4, Leaving
    <3>2. LeavesNode(x, Ending(k, "reject", FALSE))
      BY <2>2, <3>1 DEF LeavesNode
    <3>3. Goes(Ending(k, "reject", FALSE))
      BY <1>x, <1>a, <3>1, <3>2, LeavingGoesOn DEF LeavesNode, Working, WorkPCs
    <3> QED
      BY <1>y, <3>1, <3>3
  <2>5. CASE current # None /\ TypeOf[current] # "approval"
    <3>1. Set(w, Leave(k, TRUE)) /\ LeavesNode(k, Leave(k, TRUE)) /\ Leave(k, TRUE).pc = "leave"
      BY <2>1, <2>2, <2>5, Leaving
    <3>2. LeavesNode(x, Leave(k, TRUE))
      BY <2>2, <3>1 DEF LeavesNode
    <3>3. Goes(Leave(k, TRUE))
      BY <1>x, <1>a, <3>1, <3>2, LeavingGoesOn DEF LeavesNode, Working, WorkPCs
    <3> QED
      BY <1>y, <3>1, <3>3
  <2>6. CASE current # None /\ TypeOf[current] = "approval"
    <3>1. Set(w, GoTo(k, "resume"))
      BY <2>1, <2>6
    <3>2. current \in Nodes
      BY <2>6 DEF FlowTypeOK, TypeOK
    <3>3. x.task \in Tasks /\ x.handle \in {"approved", "rejected"}
      BY <1>x, <2>1 DEF At, Fitting
    <3>4. Goes(GoTo(k, "resume"))
      BY <1>x, <2>1, <2>2, <2>3, <2>6, <3>2, <3>3 DEF At, Alike, Fitting, GoesOn, Working, WorkPCs
    <3> QED
      BY <1>y, <3>1, <3>4
  <2> QED
    BY <2>4, <2>5, <2>6
<1>9. CASE RecordDecision(w)
  <2> DEFINE k == KeepStates(x, x.node, x.handle)
             n == FindNextNodeByHandle(k.node, k.handle)
  <2>1. At(w, "decide")
        /\ Set(w, IF k.kind = "recover" THEN FollowRecovered(k, k.handle)
                  ELSE EnterOr(k, n, IF k.handle = "rejected" THEN Ending(k, "reject", FALSE)
                                                              ELSE Complete(k)))
    BY <1>9 DEF RecordDecision
  <2>2. x.handle \in NodeStates /\ Working(x)
    BY <1>x, <1>n, <2>1 DEF At, Fitting, Working, WorkPCs
  <2>3. /\ \A m \in Nodes : Goes(Enter(k, m))
        /\ \A e \in BOOLEAN : Goes(FailWith(k, e)) /\ Goes(Ending(k, "reject", e))
        /\ Goes(Complete(k))
    BY <1>k, <2>2
  <2>4. \A m \in Nodes \cup {None} : \A y : Goes(y) => Goes(EnterOr(k, m, y))
    BY <2>3 DEF EnterOr
  <2>5. Goes(FollowRecovered(k, k.handle))
    BY <2>3, <2>4, RoutesLead DEF FollowRecovered
  <2>6. Goes(EnterOr(k, n, IF k.handle = "rejected" THEN Ending(k, "reject", FALSE) ELSE Complete(k)))
    BY <2>3, <2>4, RoutesLead
  <2> QED
    BY <1>y, <2>1, <2>5, <2>6
<1>10. CASE LaunchFails(w)
  <2> DEFINE h == OutputHandle(x, TRUE)
             k == [x EXCEPT !.pc = "branch", !.handle = h]
  <2>1. At(w, "launch") /\ Set(w, k)
    BY <1>10 DEF LaunchFails
  <2>2. h \in Outcomes /\ h \in Handles
    BY <1>x DEF OutputHandle, Walker, Outcomes, Handles
  <2> HIDE DEF h
  <2>3. /\ k \in Walker /\ k.pc = "branch" /\ k.handle = h /\ k.node = x.node
        /\ k.done = x.done
    <3>1. "branch" \in PCs
      BY DEF PCs
    <3> QED
      BY <1>x, <2>2, <3>1 DEF Walker
  <2> HIDE DEF k
  <2>4. Goes(k)
    BY <1>x, <2>1, <2>2, <2>3 DEF At, Fitting, GoesOn, Working, WorkPCs
  <2> QED
    BY <1>y, <2>1, <2>4
<1>11. CASE LaunchRefused(w)
  <2> DEFINE k == [x EXCEPT !.pc = "record", !.handle = "failed"]
  <2>1. At(w, "launch") /\ Set(w, k)
    BY <1>11 DEF LaunchRefused
  <2>2. /\ k \in Walker /\ k.pc = "record" /\ k.handle = "failed" /\ k.node = x.node
        /\ k.done = x.done
    <3>1. "record" \in PCs /\ "failed" \in Handles
      BY DEF PCs, Handles
    <3> QED
      BY <1>x, <3>1 DEF Walker
  <2> HIDE DEF k
  <2>3. Goes(k)
    BY <1>x, <2>1, <2>2 DEF At, Fitting, GoesOn, Working, WorkPCs, Outcomes
  <2> QED
    BY <1>y, <2>1, <2>3
<1>12. CASE RecordOutcome(w)
  <2> DEFINE k == KeepStates(x, x.node, "recorded")
  <2>1. At(w, "record") /\ Set(w, GoTo(k, "context"))
    BY <1>12 DEF RecordOutcome
  <2>2. k \in Walker /\ Alike(x, k)
    BY <1>x, KeepIs DEF NodeStates
  <2> HIDE DEF k
  <2>3. GoTo(k, "context") \in Walker /\ GoTo(k, "context").pc = "context"
        /\ Alike(k, GoTo(k, "context"))
    BY <2>2, GoToIs DEF PCs
  <2>4. Goes(GoTo(k, "context"))
    BY <1>x, <2>1, <2>2, <2>3 DEF At, Alike, Fitting, GoesOn, Working, WorkPCs
  <2> QED
    BY <1>y, <2>1, <2>4
<1>13. CASE PersistContext(w)
  <2> DEFINE k == [x EXCEPT !.pc = "branch", !.result = x.handle]
  <2>1. At(w, "context") /\ Set(w, k)
    BY <1>13 DEF PersistContext
  <2>2. x.handle \in Outcomes
    BY <1>x, <2>1 DEF At, Fitting
  <2>3. /\ k \in Walker /\ k.pc = "branch" /\ k.handle = x.handle /\ k.node = x.node
        /\ k.done = x.done
    <3>1. "branch" \in PCs
      BY DEF PCs
    <3> QED
      BY <1>x, <2>2, <3>1 DEF Walker
  <2> HIDE DEF k
  <2>4. Goes(k)
    BY <1>x, <2>1, <2>2, <2>3 DEF At, Fitting, GoesOn, Working, WorkPCs
  <2> QED
    BY <1>y, <2>1, <2>4
<1>14. CASE TakeBranch(w)
  <2> DEFINE k == KeepStates(x, x.node, x.handle)
  <2>1. At(w, "branch") /\ Set(w, FollowBranch(k, k.handle))
    BY <1>14 DEF TakeBranch
  <2>2. x.handle \in NodeStates /\ Working(x)
    BY <1>x, <1>n, <2>1 DEF At, Fitting, Working, WorkPCs
  <2>3. /\ \A m \in Nodes : Goes(Enter(k, m))
        /\ \A e \in BOOLEAN : Goes(FailWith(k, e))
        /\ Goes(Complete(k))
    BY <1>k, <2>2
  <2>4. Goes(FollowBranch(k, k.handle))
    BY <2>3, RoutesLead DEF FollowBranch, EnterOr
  <2> QED
    BY <1>y, <2>1, <2>4
<1>15. CASE LeaveFlow(w)
  <2>1. At(w, "leave") /\ (Set(w, GoTo(x, "errcheck")) \/ Set(w, IdleWalker))
    BY <1>15 DEF LeaveFlow
  <2>2. GoTo(x, "errcheck") \in Walker /\ GoTo(x, "errcheck").pc = "errcheck"
    BY <1>x, GoToIs DEF PCs
  <2>3. Goes(GoTo(x, "errcheck"))
    BY <1>a, <2>2 DEF Fitting, GoesOn, Working, WorkPCs
  <2>4. Goes(IdleWalker)
    BY <1>a, IdleIs DEF GoesOn, Working, WorkPCs
  <2> QED
    BY <1>y, <2>1, <2>3, <2>4
<1>16. CASE ReadStatusForError(w)
  <2>1. Set(w, GoTo(x, "errfail")) \/ Set(w, IdleWalker)
    BY <1>16 DEF ReadStatusForError
  <2>2. GoTo(x, "errfail") \in Walker /\ GoTo(x, "errfail").pc = "errfail"
    BY <1>x, GoToIs DEF PCs
  <2>3. Goes(GoTo(x, "errfail"))
    BY <1>a, <2>2 DEF Fitting, GoesOn, Working, WorkPCs
  <2>4. Goes(IdleWalker)
    BY <1>a, IdleIs DEF GoesOn, Working, WorkPCs
  <2> QED
    BY <1>y, <2>1, <2>3, <2>4
<1> QED
  BY <1>1, <1>2, <1>3, <1>4, <1>5, <1>6, <1>7, <1>8, <1>9, <1>10, <1>11, <1>12, <1>13, <1>14,
     <1>15, <1>16 DEF WalkerSteps

\* The steps of a goroutine that change its instance's status.
LEMMA StatusMoves ==
  ASSUME FlowTypeOK, NEW w \in Walkers
  PROVE  /\ StartFlow(w) =>
              /\ Moves(w) /\ walker'[w].pc \in {"node", "fail", "leave"}
              /\ status # "pending" => walker'[w].pc = "leave"
              /\ walker'[w].node \in {StartNode, None}
         /\ CompleteInstance(w) \/ FailInstance(w) \/ FailApprovalResume(w) =>
              Moves(w) /\ walker'[w].pc = "leave" /\ walker'[w].node = None
         /\ FailOnError(w) => Moves(w) /\ walker'[w] = IdleWalker
         /\ RestartFailedInstance(w) =>
              /\ walker[w].pc = "restart"
              /\ Moves(w) /\ walker'[w].pc \in {"node", "fail", "idle"}
              /\ walker'[w].node \in {walker[w].node, None}
         /\ ResetForRecovery(w) =>
              /\ walker[w].pc = "reset"
              /\ Moves(w) /\ walker'[w].pc \in {"recover", "leave"}
              /\ walker'[w].node \in {walker[w].node, None}
<1> DEFINE x == walker[w]
<1>x. x \in Fitting /\ x \in Walker
  BY DEF FlowTypeOK, Fitting
<1>l. /\ \A n \in Nodes : LeavesNode(x, Enter(x, n))
      /\ \A e \in BOOLEAN : /\ LeavesNode(x, Leave(x, e)) /\ LeavesNode(x, FailWith(x, e))
                            /\ Leave(x, e).pc = "leave" /\ FailWith(x, e).pc = "fail"
                            /\ Leave(x, e).node = None
  BY <1>x, Leaving DEF LeavesNode
<1>y. ASSUME NEW y \in Fitting, Set(w, y)
      PROVE  Moves(w) /\ walker'[w] = y
  BY <1>y, SetMoves
<1>1. ASSUME StartFlow(w)
      PROVE  /\ Moves(w) /\ walker'[w].pc \in {"node", "fail", "leave"}
             /\ status # "pending" => walker'[w].pc = "leave"
             /\ walker'[w].node \in {StartNode, None}
  <2> DEFINE k == [x EXCEPT !.stored = TRUE]
             y == IF status = "pending" THEN EnterOr(k, StartNode, FailWith(k, FALSE))
                                        ELSE Leave(k, FALSE)
  <2>1. Set(w, y)
    BY <1>1 DEF StartFlow
  <2>2. k \in Walker
    BY <1>x DEF Walker
  <2> HIDE DEF k
  <2>3. /\ \A n \in Nodes : Enter(k, n) \in Fitting /\ Enter(k, n).pc = "node" /\ Enter(k, n).node = n
        /\ FailWith(k, FALSE) \in Fitting /\ FailWith(k, FALSE).pc = "fail" /\ FailWith(k, FALSE).node = None
        /\ Leave(k, FALSE) \in Fitting /\ Leave(k, FALSE).pc = "leave" /\ Leave(k, FALSE).node = None
    BY <2>2, EnterIs, EndingIs DEF FailWith, Leave
  <2>4. /\ y \in Fitting /\ y.pc \in {"node", "fail", "leave"} /\ y.node \in {StartNode, None}
        /\ status # "pending" => y.pc = "leave"
    BY <2>3, RoutesLead DEF EnterOr
  <2> HIDE DEF y
  <2> QED
    BY <1>y, <2>1, <2>4
<1>2. ASSUME CompleteInstance(w) \/ FailInstance(w) \/ FailApprovalResume(w)
      PROVE  Moves(w) /\ walker'[w].pc = "leave" /\ walker'[w].node = None
  <2>1. \E e \in BOOLEAN : Set(w, Leave(x, e))
    BY <1>2, <1>x DEF CompleteInstance, FailInstance, FailApprovalResume, Walker
  <2> QED
    BY <1>l, <1>y, <2>1 DEF LeavesNode
<1>3. ASSUME FailOnError(w)
      PROVE  Moves(w) /\ walker'[w] = IdleWalker
  BY <1>3, <1>y, IdleIs DEF FailOnError
<1>4. ASSUME RestartFailedInstance(w)
      PROVE  /\ walker[w].pc = "restart"
             /\ Moves(w) /\ walker'[w].pc \in {"node", "fail", "idle"}
             /\ walker'[w].node \in {walker[w].node, None}
  <2> DEFINE k == [x EXCEPT !.stored = TRUE]
  <2>1. x.pc = "restart" /\ (\/ k.node = None /\ Set(w, FailWith(k, TRUE))
                             \/ k.node # None /\ Set(w, Enter(k, k.node))
                             \/ Set(w, IdleWalker))
    BY <1>4 DEF RestartFailedInstance, At
  <2>2. k \in Walker /\ k.node = x.node /\ k.node \in Nodes \cup {None}
    BY <1>x DEF Walker
  <2> HIDE DEF k
  <2>3. /\ \A n \in Nodes : Enter(k, n) \in Fitting /\ Enter(k, n).pc = "node" /\ Enter(k, n).node = n
        /\ FailWith(k, TRUE) \in Fitting /\ FailWith(k, TRUE).pc = "fail" /\ FailWith(k, TRUE).node = None
    BY <2>2, EnterIs, EndingIs DEF FailWith
  <2> QED
    BY <1>y, <2>1, <2>2, <2>3, IdleIs
<1>5. ASSUME ResetForRecovery(w)
      PROVE  /\ walker[w].pc = "reset"
             /\ Moves(w) /\ walker'[w].pc \in {"recover", "leave"}
             /\ walker'[w].node \in {walker[w].node, None}
  <2> DEFINE k == [x EXCEPT !.pc = "recover", !.saw = "running"]
  <2>1. x.pc = "reset" /\ (Set(w, k) \/ Set(w, Leave(x, TRUE)))
    BY <1>5 DEF ResetForRecovery, At
  <2>2. k \in Walker /\ k.pc = "recover" /\ k.node = x.node
    <3>1. "recover" \in PCs /\ "running" \in Statuses
      BY DEF PCs, Statuses, Active
    <3> QED
      BY <1>x, <3>1 DEF Walker
  <2> HIDE DEF k
  <2>3. k \in Fitting
    BY <2>2 DEF Fitting
  <2> QED
    BY <1>l, <1>y, <2>1, <2>2, <2>3 DEF LeavesNode
<1> QED
  BY <1>1, <1>2, <1>3, <1>4, <1>5

\* Entering an approval, and leaving it again.
LEMMA ApprovalMoves ==
  ASSUME FlowTypeOK, NEW w \in Walkers
  PROVE  /\ CreateAndEnterWaiting(w) =>
              /\ Moves(w) /\ walker[w].pc = "wait" /\ ~walker[w].done
              /\ walker'[w].pc \in {"ensure", "leave"}
              /\ walker'[w].node \in {walker[w].node, None}
         /\ ResumeRunning(w) =>
              /\ Moves(w) /\ walker[w].pc = "resume" /\ walker[w].task \in Tasks
              /\ status = "waiting_approval" =>
                   /\ walker'[w].pc = "decide" /\ walker'[w].handle = walker[w].handle
                   /\ walker'[w].node = walker[w].node
              /\ status # "waiting_approval" =>
                   walker'[w].pc = "leave" /\ walker'[w].node = None
<1> DEFINE x == walker[w]
<1>x. x \in Fitting /\ x \in Walker
  BY DEF FlowTypeOK, Fitting
<1>l. \A e \in BOOLEAN : Leave(x, e) \in Fitting /\ Leave(x, e).pc = "leave" /\ Leave(x, e).node = None
  BY <1>x, EndingIs DEF Leave
<1>y. ASSUME NEW y \in Fitting, Set(w, y)
      PROVE  Moves(w) /\ walker'[w] = y
  BY <1>y, SetMoves
<1>1. ASSUME CreateAndEnterWaiting(w)
      PROVE  /\ Moves(w) /\ x.pc = "wait" /\ ~x.done
             /\ walker'[w].pc \in {"ensure", "leave"} /\ walker'[w].node \in {x.node, None}
  <2>1. x.pc = "wait" /\ ~x.done /\ (Set(w, GoTo(x, "ensure")) \/ Set(w, Leave(x, TRUE)))
    BY <1>1 DEF CreateAndEnterWaiting, At
  <2>2. GoTo(x, "ensure") \in Walker /\ GoTo(x, "ensure").pc = "ensure"
        /\ GoTo(x, "ensure").node = x.node
    BY <1>x, GoToIs DEF PCs, Alike
  <2>3. GoTo(x, "ensure") \in Fitting
    BY <1>x, <2>1, <2>2 DEF Fitting
  <2> QED
    BY <1>l, <1>y, <2>1, <2>2, <2>3
<1>2. ASSUME ResumeRunning(w)
      PROVE  /\ Moves(w) /\ x.pc = "resume" /\ x.task \in Tasks
             /\ status = "waiting_approval" =>
                  /\ walker'[w].pc = "decide" /\ walker'[w].handle = x.handle
                  /\ walker'[w].node = x.node
             /\ status # "waiting_approval" => walker'[w].pc = "leave" /\ walker'[w].node = None
  <2> DEFINE k == [x EXCEPT !.pc = "decide", !.stored = TRUE]
  <2>1. /\ x.pc = "resume" /\ (status = "waiting_approval" => Set(w, k))
        /\ status # "waiting_approval" => Set(w, Leave(x, TRUE))
    BY <1>2 DEF ResumeRunning, At
  <2>2. /\ k \in Walker /\ k.pc = "decide" /\ k.node = x.node /\ k.handle = x.handle
        /\ k.task = x.task
    <3>1. "decide" \in PCs
      BY DEF PCs
    <3> QED
      BY <1>x, <3>1 DEF Walker
  <2> HIDE DEF k
  <2>3. k \in Fitting /\ x.task \in Tasks
    BY <1>x, <2>1, <2>2 DEF Fitting
  <2> QED
    BY <1>l, <1>y, <2>1, <2>2, <2>3
<1> QED
  BY <1>1, <1>2

\* Starting a playbook, and waiting for it.
LEMMA RunMoves ==
  ASSUME FlowTypeOK, NEW w \in Walkers
  PROVE  /\ LaunchRun(w) =>
              /\ Moves(w) /\ walker[w].pc = "launch" /\ ~walker[w].done
              /\ walker'[w].pc = "await" /\ walker'[w].node = walker[w].node
              /\ ~walker'[w].done
              /\ walker'[w].run \in Runs /\ run[walker'[w].run] = "none"
              /\ run' = [run EXCEPT ![walker'[w].run] = "active"]
         /\ PollRun(w) \/ AwaitInterrupted(w) =>
              /\ Moves(w) /\ walker[w].pc = "await" /\ walker[w].run \in Runs
              /\ walker'[w].pc = "record" /\ walker'[w].node = walker[w].node
              /\ walker'[w].done = walker[w].done /\ walker'[w].run = walker[w].run
              /\ \/ walker'[w].handle = "failed"
                 \/ run[walker[w].run] = walker'[w].handle
              /\ ~walker[w].done => run'[walker[w].run] # "active"
              /\ run' \in [Runs -> RunStatuses]
              /\ \A r \in Runs : run'[r] = run[r] \/ (run[r] = "active" /\ run'[r] = "cancelled")
         /\ ContextExpires(w) =>
              /\ Moves(w) /\ walker[w].pc = "await" /\ walker'[w].pc = "await"
              /\ walker'[w].node = walker[w].node /\ walker'[w].done
              /\ walker'[w].run = walker[w].run
<1> DEFINE x == walker[w]
<1>x. x \in Fitting /\ x \in Walker /\ run \in [Runs -> RunStatuses]
  BY DEF FlowTypeOK, TypeOK, Fitting
<1>y. ASSUME NEW y \in Fitting, Set(w, y)
      PROVE  Moves(w) /\ walker'[w] = y
  BY <1>y, SetMoves
<1>1. ASSUME LaunchRun(w)
      PROVE  /\ Moves(w) /\ x.pc = "launch" /\ ~x.done
             /\ walker'[w].pc = "await" /\ walker'[w].node = x.node
             /\ ~walker'[w].done
             /\ walker'[w].run \in Runs /\ run[walker'[w].run] = "none"
             /\ run' = [run EXCEPT ![walker'[w].run] = "active"]
  <2>1. PICK r \in Runs : /\ run[r] = "none" /\ run' = [run EXCEPT ![r] = "active"]
                          /\ Set(w, [x EXCEPT !.pc = "await", !.run = r])
    BY <1>1 DEF LaunchRun
  <2>2. x.pc = "launch" /\ ~x.done
    BY <1>1 DEF LaunchRun, At
  <2> DEFINE k == [x EXCEPT !.pc = "await", !.run = r]
  <2>3. k \in Walker /\ k.pc = "await" /\ k.node = x.node /\ k.done = x.done /\ k.run = r
    <3>1. "await" \in PCs
      BY DEF PCs
    <3> QED
      BY <1>x, <3>1 DEF Walker
  <2>4. Set(w, k)
    BY <2>1
  <2> HIDE DEF k
  <2>5. k \in Fitting
    BY <1>x, <2>2, <2>3 DEF Fitting
  <2> QED
    BY <1>y, <2>1, <2>2, <2>3, <2>4, <2>5
<1>2. ASSUME PollRun(w) \/ AwaitInterrupted(w)
      PROVE  /\ Moves(w) /\ x.pc = "await" /\ x.run \in Runs
             /\ walker'[w].pc = "record" /\ walker'[w].node = x.node
             /\ walker'[w].done = x.done /\ walker'[w].run = x.run
             /\ walker'[w].handle = "failed" \/ run[x.run] = walker'[w].handle
             /\ ~x.done => run'[x.run] # "active"
             /\ run' \in [Runs -> RunStatuses]
             /\ \A r \in Runs : run'[r] = run[r] \/ (run[r] = "active" /\ run'[r] = "cancelled")
  <2>1. x.pc = "await" /\ x.run \in Runs
    BY <1>2, <1>x DEF PollRun, AwaitInterrupted, At, Fitting
  <2>2. \E h \in Outcomes : /\ Set(w, [x EXCEPT !.pc = "record", !.handle = h])
                            /\ h = "failed" \/ run[x.run] = h
    BY <1>2 DEF PollRun, AwaitInterrupted, Outcomes
  <2>3. PICK h \in Outcomes : /\ Set(w, [x EXCEPT !.pc = "record", !.handle = h])
                              /\ h = "failed" \/ run[x.run] = h
    BY <2>2
  <2> DEFINE k == [x EXCEPT !.pc = "record", !.handle = h]
  <2>4. /\ k \in Walker /\ k.pc = "record" /\ k.node = x.node /\ k.done = x.done
        /\ k.run = x.run /\ k.handle = h
    <3>1. "record" \in PCs /\ h \in Handles
      BY DEF PCs, Handles, Outcomes
    <3> QED
      BY <1>x, <3>1 DEF Walker
  <2>5. Set(w, k)
    BY <2>3
  <2> HIDE DEF k
  <2>6. k \in Fitting
    BY <1>x, <2>1, <2>4 DEF Fitting
  <2>7. CancelOwnRun(w) \/ run' = run
    BY <1>2 DEF PollRun, AwaitInterrupted
  <2>8. /\ run' \in [Runs -> RunStatuses]
        /\ \A r \in Runs : run'[r] = run[r] \/ (run[r] = "active" /\ run'[r] = "cancelled")
    <3>1. CASE CancelOwnRun(w)
      <4>1. /\ run' = [r \in Runs |-> IF r = x.run /\ run[r] = "active" THEN "cancelled" ELSE run[r]]
            /\ "cancelled" \in RunStatuses
        BY <3>1 DEF CancelOwnRun, RunStatuses
      <4>2. \A r \in Runs : \/ run'[r] = run[r]
                            \/ run[r] = "active" /\ run'[r] = "cancelled"
        BY <4>1
      <4>3. \A r \in Runs : (IF r = x.run /\ run[r] = "active" THEN "cancelled" ELSE run[r])
                            \in RunStatuses
        BY <1>x, <4>1
      <4> QED
        BY <4>1, <4>2, <4>3
    <3> QED
      BY <1>x, <2>7, <3>1
  <2>9. ~x.done => run'[x.run] # "active"
    BY <1>2, <1>x, <2>1 DEF PollRun, AwaitInterrupted, CancelOwnRun, Outcomes
  <2> QED
    BY <1>y, <2>1, <2>3, <2>4, <2>5, <2>6, <2>8, <2>9
<1>3. ASSUME ContextExpires(w)
      PROVE  /\ Moves(w) /\ x.pc = "await" /\ walker'[w].pc = "await"
             /\ walker'[w].node = x.node /\ walker'[w].done /\ walker'[w].run = x.run
  <2> DEFINE k == [x EXCEPT !.done = TRUE]
  <2>1. x.pc = "await" /\ Set(w, k)
    BY <1>3 DEF ContextExpires, At
  <2>2. /\ k \in Walker /\ k.pc = x.pc /\ k.node = x.node /\ k.done /\ k.run = x.run
    BY <1>x DEF Walker
  <2> HIDE DEF k
  <2>3. k \in Fitting
    BY <1>x, <2>1, <2>2 DEF Fitting
  <2> QED
    BY <1>y, <2>1, <2>2, <2>3
<1> QED
  BY <1>1, <1>2, <1>3

\* The goroutines that requests and scans start.
LEMMA RequestMoves ==
  ASSUME FlowTypeOK, NEW w \in Walkers
  PROVE  /\ CreateInstance(w) =>
              Moves(w) /\ walker'[w].pc = "start" /\ walker'[w].node = None /\ ~walker'[w].done
         /\ \A t \in Tasks : LoadPendingApprovalTask(t, w) =>
              Moves(w) /\ walker'[w].pc = "approve" /\ walker'[w].node = None
         /\ \A t \in Tasks : RejectTask(t, w) =>
              /\ Moves(w) /\ walker'[w].pc = "read" /\ walker'[w].node = None
              /\ walker'[w].task = t /\ walker'[w].handle = "rejected"
              /\ task' = [task EXCEPT ![t].status = "rejected"]
         /\ ApproveTask(w) =>
              /\ Moves(w) /\ walker[w].pc = "approve" /\ walker[w].task \in Tasks
              /\ walker'[w].node = None
              /\ \/ /\ walker'[w].pc = "read"
                    /\ walker'[w].task = walker[w].task
                    /\ task[walker[w].task].status = "pending"
                    /\ task' = [task EXCEPT ![walker[w].task].status = "approved"]
                 \/ walker'[w] = IdleWalker /\ task' = task
         /\ \A n \in RetryTargets : RetryInstance(n, w) =>
              /\ "retry" \in Happens
              /\ Moves(w) /\ walker'[w].pc = "restart" /\ walker'[w].node \in {current, n}
         /\ RecoverInstance(w) =>
              /\ "recover" \in Happens \/ "stale" \in Happens
              /\ Moves(w) /\ walker'[w].pc \in {"reset", "recover"}
              /\ walker'[w].node = current
<1>0. IdleWalker \in Walker /\ IdleWalker.node = None /\ IdleWalker.done = FALSE
  BY IdleIs DEF Fitting
<1>p. /\ {"start", "approve", "read", "restart", "reset", "recover"} \subseteq PCs
      /\ {"resume", "retry", "recover"} \subseteq Kinds
      /\ {"approved", "rejected"} \subseteq Handles
  BY DEF PCs, Kinds, Handles
<1>y. ASSUME NEW y \in Fitting, Set(w, y)
      PROVE  Moves(w) /\ walker'[w] = y
  BY <1>y, SetMoves
<1>d. ASSUME NEW t \in Tasks, NEW h \in {"approved", "rejected"}, Decide(t, h, w)
      PROVE  /\ Moves(w) /\ walker'[w].pc = "read" /\ walker'[w].node = None
             /\ walker'[w].task = t /\ walker'[w].handle = h
             /\ task' = [task EXCEPT ![t].status = h]
  <2> DEFINE k == [IdleWalker EXCEPT !.pc = "read", !.kind = "resume", !.handle = h, !.task = t]
  <2>1. Set(w, k) /\ task' = [task EXCEPT ![t].status = h]
    BY <1>d DEF Decide
  <2>2. k \in Walker /\ k.pc = "read" /\ k.node = IdleWalker.node /\ k.task = t /\ k.handle = h
    BY <1>0, <1>p DEF Walker
  <2> HIDE DEF k
  <2>3. k \in Fitting
    BY <2>2 DEF Fitting
  <2> QED
    BY <1>0, <1>y, <2>1, <2>2, <2>3
<1>1. ASSUME CreateInstance(w)
      PROVE  Moves(w) /\ walker'[w].pc = "start" /\ walker'[w].node = None /\ ~walker'[w].done
  <2>1. /\ GoTo(IdleWalker, "start") \in Walker /\ GoTo(IdleWalker, "start").pc = "start"
        /\ Alike(IdleWalker, GoTo(IdleWalker, "start"))
    BY <1>0, <1>p, GoToIs
  <2>2. GoTo(IdleWalker, "start") \in Fitting
    BY <2>1 DEF Fitting
  <2> QED
    BY <1>0, <1>1, <1>y, <2>1, <2>2 DEF CreateInstance, Alike
<1>2. ASSUME NEW t \in Tasks, LoadPendingApprovalTask(t, w)
      PROVE  Moves(w) /\ walker'[w].pc = "approve" /\ walker'[w].node = None
  <2> DEFINE k == [IdleWalker EXCEPT !.pc = "approve", !.kind = "resume", !.task = t]
  <2>1. Set(w, k)
    BY <1>2 DEF LoadPendingApprovalTask
  <2>2. k \in Walker /\ k.pc = "approve" /\ k.node = IdleWalker.node /\ k.task = t
    BY <1>0, <1>p DEF Walker
  <2> HIDE DEF k
  <2>3. k \in Fitting
    BY <2>2 DEF Fitting
  <2> QED
    BY <1>0, <1>y, <2>1, <2>2, <2>3
<1>3. ASSUME NEW t \in Tasks, RejectTask(t, w)
      PROVE  /\ Moves(w) /\ walker'[w].pc = "read" /\ walker'[w].node = None
             /\ walker'[w].task = t /\ walker'[w].handle = "rejected"
             /\ task' = [task EXCEPT ![t].status = "rejected"]
  BY <1>3, <1>d DEF RejectTask
<1>4. ASSUME ApproveTask(w)
      PROVE  /\ Moves(w) /\ walker[w].pc = "approve" /\ walker[w].task \in Tasks
             /\ walker'[w].node = None
             /\ \/ /\ walker'[w].pc = "read"
                   /\ walker'[w].task = walker[w].task
                   /\ task[walker[w].task].status = "pending"
                   /\ task' = [task EXCEPT ![walker[w].task].status = "approved"]
                \/ walker'[w] = IdleWalker /\ task' = task
  <2>1. walker[w].pc = "approve" /\ walker[w].task \in Tasks
    BY <1>4 DEF ApproveTask, At, FlowTypeOK, Fitting
  <2>2. \/ task[walker[w].task].status = "pending" /\ Decide(walker[w].task, "approved", w)
        \/ Set(w, IdleWalker) /\ task' = task
    BY <1>4 DEF ApproveTask
  <2> QED
    BY <1>0, <1>d, <1>y, <2>1, <2>2, IdleIs
<1>5. ASSUME NEW n \in RetryTargets, RetryInstance(n, w)
      PROVE  /\ "retry" \in Happens
             /\ Moves(w) /\ walker'[w].pc = "restart" /\ walker'[w].node \in {current, n}
  <2> DEFINE target == IF n = None THEN current ELSE n
             k == [IdleWalker EXCEPT !.pc = "restart", !.kind = "retry",
                     !.node = target, !.states = states, !.result = result]
  <2>1. "retry" \in Happens /\ Set(w, k)
    BY <1>5 DEF RetryInstance
  <2>2. target \in Nodes \cup {None} /\ target \in {current, n}
    BY FlowConstants DEF FlowTypeOK, TypeOK
  <2> HIDE DEF target
  <2>3. k \in Walker /\ k.pc = "restart" /\ k.node = target
    <3>1. states \in [Nodes -> NodeStates] /\ result \in {"none"} \cup Outcomes
      BY DEF FlowTypeOK, TypeOK
    <3> QED
      BY <1>0, <1>p, <2>2, <3>1 DEF Walker
  <2> HIDE DEF k
  <2>4. k \in Fitting
    BY <2>3 DEF Fitting
  <2> QED
    BY <1>y, <2>1, <2>2, <2>3, <2>4
<1>6. ASSUME RecoverInstance(w)
      PROVE  /\ "recover" \in Happens \/ "stale" \in Happens
             /\ Moves(w) /\ walker'[w].pc \in {"reset", "recover"} /\ walker'[w].node = current
  <2> DEFINE l == IF status = "failed" THEN "reset" ELSE "recover"
             k == [IdleWalker EXCEPT !.pc = l, !.kind = "recover", !.saw = status,
                     !.node = current, !.states = states, !.result = result]
  <2>1. ("recover" \in Happens \/ "stale" \in Happens) /\ Set(w, k)
    BY <1>6 DEF RecoverInstance
  <2>2. l \in {"reset", "recover"}
    OBVIOUS
  <2> HIDE DEF l
  <2>3. k \in Walker /\ k.pc = l /\ k.node = current
    <3>1. /\ states \in [Nodes -> NodeStates] /\ result \in {"none"} \cup Outcomes
          /\ current \in Nodes \cup {None} /\ status \in Statuses
      BY DEF FlowTypeOK, TypeOK
    <3> QED
      BY <1>0, <1>p, <2>2, <3>1 DEF Walker
  <2> HIDE DEF k
  <2>4. k \in Fitting
    BY <2>2, <2>3 DEF Fitting
  <2> QED
    BY <1>y, <2>1, <2>2, <2>3, <2>4
<1> QED
  BY <1>1, <1>2, <1>3, <1>4, <1>5, <1>6

\* Where a recovery goes on: a route of its node, if that one is no approval; the node; nowhere.
Resumes(x, y) ==
  /\ y.pc \in {"node", "leave", "fail", "complete", "wait", "read", "decide"}
  /\ y.done = x.done
  /\ \/ y.node \in {None, StartNode, x.node}
     \/ /\ x.node \in Nodes /\ TypeOf[x.node] # "approval"
        /\ \E h \in Handles : /\ TypeOf[x.node] = "execution" \/ h = "default"
                              /\ y.node = FindNextNodeByHandle(x.node, h)
  /\ y.pc \in {"read", "decide"} => y.handle = "rejected" \/ Approved

LEMMA FollowRecoveredIs ==
  ASSUME NEW x \in Walker, NEW h, x.node \in Nodes
  PROVE  /\ FollowRecovered(x, h) \in Fitting
         /\ FollowRecovered(x, h).pc \in {"node", "fail", "complete"}
         /\ FollowRecovered(x, h).done = x.done
         /\ FollowRecovered(x, h).node \in {None, FindNextNodeByHandle(x.node, h)}
<1> DEFINE n == FindNextNodeByHandle(x.node, h)
<1>1. n \in Nodes \cup {None}
  BY RoutesLead
<1>2. FollowRecovered(x, h) \in {Enter(x, n), FailWith(x, TRUE), Complete(x)}
      /\ (n = None => FollowRecovered(x, h) \in {FailWith(x, TRUE), Complete(x)})
  BY DEF FollowRecovered, EnterOr
<1> HIDE DEF n
<1>3. /\ n \in Nodes => /\ Enter(x, n) \in Fitting /\ Enter(x, n).pc = "node"
                        /\ Enter(x, n).node = n /\ Enter(x, n).done = x.done
      /\ FailWith(x, TRUE) \in Fitting /\ FailWith(x, TRUE).pc = "fail"
      /\ FailWith(x, TRUE).node = None /\ FailWith(x, TRUE).done = x.done
      /\ Complete(x) \in Fitting /\ Complete(x).pc = "complete"
      /\ Complete(x).node = None /\ Complete(x).done = x.done
  BY EnterIs, EndingIs DEF FailWith, Complete
<1> QED
  BY <1>1, <1>2, <1>3 DEF n

LEMMA RecoveredIs ==
  ASSUME FlowTypeOK, NEW w \in Walkers, walker[w].pc = "recover", NEW y \in Recovered(walker[w])
  PROVE  y \in Fitting /\ Resumes(walker[w], y)
<1> DEFINE x == walker[w]
           found == {t \in Tasks : task[t].node = x.node /\ task[t].status # "none"}
           Ok(z) == z \in Fitting /\ Resumes(x, z)
<1>x. x \in Fitting /\ x \in Walker /\ x.node \in Nodes \cup {None}
  BY DEF FlowTypeOK, Fitting, Walker
<1>l. /\ Leave(x, FALSE) \in Fitting /\ Leave(x, FALSE).pc = "leave"
      /\ Leave(x, FALSE).node = None /\ Leave(x, FALSE).done = x.done
  BY <1>x, EndingIs DEF Leave
<1>1. Ok(Leave(x, FALSE))
  BY <1>l DEF Resumes
<1>2. \A n \in Nodes : n \in {StartNode, x.node} => Ok(Enter(x, n))
  BY <1>x, EnterIs DEF Resumes
<1>3. ASSUME x.node \in Nodes, TypeOf[x.node] # "approval", NEW h \in Handles,
             TypeOf[x.node] = "execution" \/ h = "default"
      PROVE  Ok(FollowRecovered(x, h))
  <2> HIDE DEF x
  <2> QED
    BY <1>x, <1>3, FollowRecoveredIs DEF Resumes
<1>4. CASE x.saw \in {"completed", "cancelled"}
  BY <1>1, <1>4 DEF Recovered
<1>5. CASE x.saw \notin {"completed", "cancelled"} /\ x.node = None
  <2>1. y = Leave(x, FALSE) \/ (StartNode # None /\ y = Enter(x, StartNode))
    BY <1>5 DEF Recovered
  <2> QED
    BY <1>1, <1>2, <2>1, RoutesLead
<1>6. CASE x.saw \notin {"completed", "cancelled"} /\ x.node # None
  <2>n. x.node \in Nodes
    BY <1>x, <1>6
  <2>1. CASE TypeOf[x.node] = "approval"
    <3>1. CASE found = {}
      <4>1. y = GoTo(x, "wait")
        BY <1>6, <2>1, <3>1 DEF Recovered
      <4>2. /\ GoTo(x, "wait") \in Walker /\ GoTo(x, "wait").pc = "wait"
            /\ Alike(x, GoTo(x, "wait"))
        BY <1>x, GoToIs DEF PCs
      <4>3. GoTo(x, "wait") \in Fitting
        BY <2>n, <4>2 DEF Fitting, Alike
      <4> QED
        BY <4>1, <4>2, <4>3 DEF Resumes, Alike
    <3>2. CASE found # {}
      <4> DEFINE decided(t) == [x EXCEPT !.task = t, !.handle = task[t].status]
      <4>1. PICK t \in found :
              y = IF task[t].status \notin {"approved", "rejected"} THEN Leave(x, FALSE)
                  ELSE IF x.saw = "waiting_approval"
                  THEN [decided(t) EXCEPT !.pc = "read", !.kind = "resume"]
                  ELSE GoTo(decided(t), "decide")
        BY <1>6, <2>1, <3>2 DEF Recovered
      <4>2. t \in Tasks
        OBVIOUS
      <4>3. CASE task[t].status \notin {"approved", "rejected"}
        BY <1>1, <4>1, <4>3
      <4>4. CASE task[t].status \in {"approved", "rejected"}
        <5> DEFINE h == task[t].status
        <5>1. h \in {"approved", "rejected"} /\ (h = "rejected" \/ Approved)
          BY <4>2, <4>4 DEF Approved
        <5> HIDE DEF h
        <5>2. /\ {"read", "decide"} \subseteq PCs /\ "resume" \in Kinds
              /\ {"approved", "rejected"} \subseteq Handles
          BY DEF PCs, Kinds, Handles
        <5> DEFINE d == [x EXCEPT !.task = t, !.handle = h]
        <5>3. /\ d \in Walker /\ d.task = t /\ d.handle = h /\ d.node = x.node
              /\ d.done = x.done
          BY <1>x, <4>2, <5>1, <5>2 DEF Walker
        <5> HIDE DEF d
        <5>4. y = [d EXCEPT !.pc = "read", !.kind = "resume"] \/ y = GoTo(d, "decide")
          BY <4>1, <4>4 DEF d, h
        <5>5. /\ y \in Walker /\ y.pc \in {"read", "decide"} /\ y.task = t /\ y.handle = h
              /\ y.node = x.node /\ y.done = x.done
          <6>1. CASE y = [d EXCEPT !.pc = "read", !.kind = "resume"]
            BY <5>2, <5>3, <6>1 DEF Walker
          <6>2. CASE y = GoTo(d, "decide")
            BY <5>2, <5>3, <6>2, GoToIs DEF Alike
          <6> QED
            BY <5>4, <6>1, <6>2
        <5>6. y \in Fitting
          BY <2>n, <2>1, <4>2, <5>1, <5>5 DEF Fitting
        <5> QED
          BY <5>1, <5>5, <5>6 DEF Resumes
      <4> QED
        BY <4>3, <4>4
    <3> QED
      BY <3>1, <3>2
  <2>2. CASE TypeOf[x.node] = "execution"
    <3>1. y = FollowRecovered(x, RecoveredHandle(x))
      BY <1>6, <2>2 DEF Recovered
    <3>2. RecoveredHandle(x) \in Handles
      BY <1>x DEF RecoveredHandle, OutputHandle, Walker, Outcomes, Handles
    <3> QED
      BY <1>3, <2>n, <2>2, <3>1, <3>2
  <2>3. CASE TypeOf[x.node] = "end"
    <3>1. y = Complete(x)
      BY <1>6, <2>3 DEF Recovered
    <3> QED
      BY <1>x, <3>1, EndingIs DEF Complete, Resumes
  <2>4. CASE TypeOf[x.node] \notin {"approval", "execution", "end"}
    <3>1. y = FollowRecovered(x, "default") \/ y = Enter(x, x.node)
      BY <1>6, <2>4 DEF Recovered
    <3> QED
      BY <1>2, <1>3, <2>n, <2>4, <3>1 DEF Handles
  <2> QED
    BY <2>1, <2>2, <2>3, <2>4
<1> QED
  BY <1>4, <1>5, <1>6

LEMMA RecoveryMoves ==
  ASSUME FlowTypeOK, NEW w \in Walkers, RunRecoveryAttempt(w)
  PROVE  Moves(w) /\ walker[w].pc = "recover" /\ Resumes(walker[w], walker'[w])
<1>1. walker[w].pc = "recover"
  BY DEF RunRecoveryAttempt, At
<1>2. PICK y \in Recovered(walker[w]) : Set(w, [y EXCEPT !.saw = "none"])
  BY DEF RunRecoveryAttempt
<1>3. y \in Fitting /\ Resumes(walker[w], y)
  BY <1>1, RecoveredIs
<1> DEFINE k == [y EXCEPT !.saw = "none"]
<1>4. "none" \in Statuses /\ y \in Walker
  BY <1>3 DEF Statuses, Fitting
<1>5. k \in Walker /\ k.pc = y.pc /\ Alike(y, [k EXCEPT !.saw = y.saw])
  BY <1>4 DEF Walker, Alike
<1>6. /\ k.node = y.node /\ k.handle = y.handle /\ k.task = y.task /\ k.done = y.done
      /\ k.run = y.run
  BY <1>4 DEF Walker
<1>7. Set(w, k)
  BY <1>2
<1> HIDE DEF k
<1>8. k \in Fitting
  BY <1>3, <1>5, <1>6 DEF Fitting
<1>9. Resumes(walker[w], k)
  BY <1>3, <1>5, <1>6 DEF Resumes
<1>10. Moves(w) /\ walker'[w] = k
  BY <1>7, <1>8, SetMoves
<1> QED
  BY <1>1, <1>9, <1>10
-----------------------------------------------------------------------------
(* Types *)

TaskRow == [node : Nodes \cup {None}, status : TaskStatuses]

\* What TypeOK says of the row, of the rows around it and of the observers.
Columns ==
  /\ status \in Statuses /\ incident \in HealingStates
  /\ current \in Nodes \cup {None} /\ result \in {"none"} \cup Outcomes
  /\ states \in [Nodes -> NodeStates]
  /\ task \in [Tasks -> TaskRow]
  /\ run \in [Runs -> RunStatuses]
  /\ resumed \in [Tasks -> 0..2]
  /\ did \in [Nodes -> {"none"} \cup Outcomes]
  /\ taken \in [Nodes -> {"none"} \cup Outcomes]

\* What it says of the memory of the process.
Memory ==
  /\ registered \in Walkers \cup {None} /\ recovering \in Walkers \cup {None}
  /\ cancelling \in {"idle", "close", "signal", "dismiss"}
  /\ expiring \subseteq Tasks

\* A decision or an expiry leaves every task a task.
LEMMA TaskTyped ==
  ASSUME Columns
  PROVE  /\ \A t \in Tasks, s \in TaskStatuses :
              [task EXCEPT ![t].status = s] \in
                [Tasks -> TaskRow]
         /\ \A t \in Tasks, n \in Nodes, s \in TaskStatuses :
              [task EXCEPT ![t] = [node |-> n, status |-> s]] \in
                [Tasks -> TaskRow]
         /\ \A T \in SUBSET Tasks, s \in TaskStatuses :
              [t \in Tasks |-> IF t \in T THEN [task[t] EXCEPT !.status = s] ELSE task[t]] \in
                [Tasks -> TaskRow]
<1>1. task \in [Tasks -> TaskRow]
  BY DEF Columns
<1>2. \A r \in TaskRow, s \in TaskStatuses : [r EXCEPT !.status = s] \in TaskRow
  BY DEF TaskRow
<1>3. \A n \in Nodes, s \in TaskStatuses : [node |-> n, status |-> s] \in TaskRow
  BY DEF TaskRow
<1> QED
  BY <1>1, <1>2, <1>3

LEMMA StepColumns ==
  ASSUME FlowTypeOK, NEW w \in Walkers, Step(w)
  PROVE  Columns'
<1> DEFINE x == walker[w]
<1>x. x \in Fitting /\ x \in Walker /\ Columns
  BY DEF FlowTypeOK, TypeOK, Columns, Fitting, TaskRow
<1>s. Statuses = {"none", "completed", "failed", "cancelled", "pending", "running", "waiting_approval"}
  BY DEF Statuses, Active
<1> USE DEF row, mem, seen
\* The tables that most steps leave alone.
<1>w. ASSUME NEW n, NEW s \in NodeStates, WriteStates(w, n, s)
      PROVE  states' \in [Nodes -> NodeStates]
  BY <1>x, <1>w DEF WriteStates, Walker
<1>1. CASE StartFlow(w) \/ ResetForRecovery(w)
  BY <1>1, <1>x, <1>s DEF StartFlow, ResetForRecovery, Becomes, Columns
<1>2. CASE CompleteInstance(w) \/ FailInstance(w) \/ FailApprovalResume(w)
           \/ FailOnError(w) \/ RestartFailedInstance(w)
  BY <1>2, <1>x, <1>s DEF CompleteInstance, FailInstance, FailApprovalResume, FailOnError,
     RestartFailedInstance, BecomesWithIncident, Becomes, Columns, HealingStates
<1>3. CASE StatementInterrupted(w) \/ EnsureWaitingApprovalStatus(w) \/ ReadForResume(w)
           \/ LaunchRefused(w) \/ LeaveFlow(w) \/ ReadStatusForError(w)
  BY <1>3, <1>x DEF StatementInterrupted, EnsureWaitingApprovalStatus, ReadForResume,
     LaunchRefused, LeaveFlow, ReadStatusForError, Columns
<1>4. CASE EnterNode(w)
  BY <1>4, <1>x DEF EnterNode, Columns, Walker
<1>5. CASE BeginNode(w)
  <2>1. WriteStates(w, x.node, "running") /\ "running" \in NodeStates
    BY <1>5 DEF BeginNode, NodeStates
  <2> QED
    BY <1>5, <1>x, <1>w, <2>1 DEF BeginNode, Columns
<1>6. CASE FinishNode(w) \/ NodeFails(w)
  <2>1. \E s \in NodeStates : WriteStates(w, x.node, s)
    BY <1>6 DEF FinishNode, NodeFails, NodeStates, Outcomes
  <2> QED
    BY <1>6, <1>x, <1>w, <2>1 DEF FinishNode, NodeFails, Columns
<1>7. CASE CreateAndEnterWaiting(w)
  <2>1. x.node \in Nodes /\ "pending" \in TaskStatuses
    BY <1>7, <1>x DEF CreateAndEnterWaiting, At, Fitting, TaskStatuses
  <2>2. task' \in [Tasks -> TaskRow]
    <3>1. \/ task' = task
          \/ \E t \in Tasks : task' = [task EXCEPT ![t] = [node |-> x.node, status |-> "pending"]]
      BY <1>7 DEF CreateAndEnterWaiting
    <3> QED
      BY <1>x, <2>1, <3>1, TaskTyped DEF Columns
  <2> QED
    BY <1>7, <1>x, <1>s, <2>2 DEF CreateAndEnterWaiting, Columns
<1>8. CASE PersistWaiting(w)
  <2>1. WriteStates(w, x.node, "waiting_approval") /\ "waiting_approval" \in NodeStates
    BY <1>8 DEF PersistWaiting, NodeStates
  <2> QED
    BY <1>8, <1>x, <1>w, <2>1 DEF PersistWaiting, Columns
<1>9. CASE ApproveTask(w)
  <2>1. x.task \in Tasks /\ "approved" \in TaskStatuses
    BY <1>9, <1>x DEF ApproveTask, At, Fitting, TaskStatuses
  <2>2. task' = task \/ task' = [task EXCEPT ![x.task].status = "approved"]
    BY <1>9 DEF ApproveTask, Decide
  <2>3. task' \in [Tasks -> TaskRow]
    BY <1>x, <2>1, <2>2, TaskTyped DEF Columns
  <2> QED
    BY <1>9, <1>x, <2>3 DEF ApproveTask, Decide, Columns
<1>10. CASE ResumeRunning(w)
  <2>1. resumed' \in [Tasks -> 0..2]
    <3>1. \/ resumed' = resumed
          \/ resumed' = [resumed EXCEPT ![x.task] = IF @ = 2 THEN 2 ELSE @ + 1]
      BY <1>10 DEF ResumeRunning
    <3>2. resumed \in [Tasks -> 0..2] /\ x.task \in Tasks
      BY <1>10, <1>x DEF ResumeRunning, At, Fitting, Columns
    <3> QED
      BY <3>1, <3>2
  <2> QED
    BY <1>10, <1>x, <1>s, <2>1 DEF ResumeRunning, Becomes, Columns
<1>11. CASE RecordDecision(w)
  <2>1. WriteStates(w, x.node, x.handle)
    <3>1. KeepStates(x, x.node, x.handle).node = x.node
          /\ KeepStates(x, x.node, x.handle).handle = x.handle
      BY <1>x DEF KeepStates, Walker
    <3> QED
      BY <1>11, <3>1 DEF RecordDecision
  <2>2. x.handle \in NodeStates
    BY <1>11, <1>x DEF RecordDecision, At, Fitting, NodeStates
  <2> QED
    BY <1>11, <1>x, <1>w, <2>1, <2>2 DEF RecordDecision, Columns
<1>12. CASE LaunchFails(w)
  <2>1. did' = [did EXCEPT ![x.node] = "failed"]
    BY <1>12 DEF LaunchFails
  <2>2. did' \in [Nodes -> {"none"} \cup Outcomes]
    BY <1>x, <2>1 DEF Columns, Outcomes
  <2> QED
    BY <1>12, <1>x, <2>2 DEF LaunchFails, Columns
<1>13. CASE LaunchRun(w) \/ PollRun(w) \/ AwaitInterrupted(w)
  <2>1. run' \in [Runs -> RunStatuses]
    BY <1>13, <1>x, RunMoves DEF Columns, RunStatuses
  <2> QED
    BY <1>13, <1>x, <2>1 DEF LaunchRun, PollRun, AwaitInterrupted, Columns
<1>14. CASE RecordOutcome(w)
  <2>1. WriteStates(w, x.node, "recorded") /\ "recorded" \in NodeStates
    BY <1>14 DEF RecordOutcome, NodeStates
  <2>2. did' = [did EXCEPT ![x.node] = Ended(x.run)] /\ Ended(x.run) \in Outcomes
    BY <1>14 DEF RecordOutcome, Ended, Outcomes
  <2>3. did' \in [Nodes -> {"none"} \cup Outcomes]
    BY <1>x, <2>2 DEF Columns
  <2> QED
    BY <1>14, <1>x, <1>w, <2>1, <2>3 DEF RecordOutcome, Columns
<1>15. CASE PersistContext(w)
  <2>1. x.handle \in Outcomes /\ x.node \in Nodes
    BY <1>15, <1>x DEF PersistContext, At, Fitting
  <2> QED
    BY <1>15, <1>x, <2>1 DEF PersistContext, Columns
<1>16. CASE TakeBranch(w)
  <2>1. WriteStates(w, x.node, x.handle) /\ taken' = [taken EXCEPT ![x.node] = x.handle]
    <3>1. KeepStates(x, x.node, x.handle).node = x.node
          /\ KeepStates(x, x.node, x.handle).handle = x.handle
      BY <1>x DEF KeepStates, Walker
    <3> QED
      BY <1>16, <3>1 DEF TakeBranch
  <2>2. x.handle \in Outcomes /\ x.handle \in NodeStates
    BY <1>16, <1>x DEF TakeBranch, At, Fitting, NodeStates
  <2>3. taken' \in [Nodes -> {"none"} \cup Outcomes]
    BY <1>x, <2>1, <2>2 DEF Columns
  <2> QED
    BY <1>16, <1>x, <1>w, <2>1, <2>2, <2>3 DEF TakeBranch, Columns
<1>17. CASE RunRecoveryAttempt(w)
  <2>1. RecoveredHandle(x) \in Outcomes
    BY <1>x DEF RecoveredHandle, OutputHandle, Walker, Outcomes
  <2>2. taken' = taken \/ taken' = [taken EXCEPT ![x.node] = RecoveredHandle(x)]
    BY <1>17 DEF RunRecoveryAttempt
  <2>3. taken' \in [Nodes -> {"none"} \cup Outcomes]
    BY <1>x, <2>1, <2>2 DEF Columns
  <2> QED
    BY <1>17, <1>x, <2>3 DEF RunRecoveryAttempt, Columns
<1> QED
  BY <1>1, <1>2, <1>3, <1>4, <1>5, <1>6, <1>7, <1>8, <1>9, <1>10, <1>11, <1>12, <1>13, <1>14,
     <1>15, <1>16, <1>17 DEF Step

\* The steps of Step, told apart by what is known of the goroutine afterwards.
LEMMA StepIs ==
  ASSUME NEW w \in Walkers, Step(w)
  PROVE  \/ WalkerSteps(w)
         \/ StartFlow(w)
         \/ CompleteInstance(w) \/ FailInstance(w) \/ FailApprovalResume(w)
         \/ FailOnError(w) \/ RestartFailedInstance(w) \/ ResetForRecovery(w)
         \/ CreateAndEnterWaiting(w) \/ ResumeRunning(w)
         \/ ApproveTask(w)
         \/ LaunchRun(w)
         \/ PollRun(w) \/ AwaitInterrupted(w)
         \/ RunRecoveryAttempt(w)
BY DEF Step, WalkerSteps

LEMMA StepFits ==
  ASSUME FlowTypeOK, NEW w \in Walkers, Step(w)
  PROVE  Moves(w)
BY StepIs, WalkerMoves, StatusMoves, ApprovalMoves, RequestMoves, RunMoves, RecoveryMoves

\* The process's memory, in every step of a goroutine.
LEMMA StepMemory ==
  ASSUME Memory, NEW w \in Walkers, Step(w)
  PROVE  Memory' /\ cancelling' = cancelling /\ expiring' = expiring
<1> USE DEF row, mem, seen, Memory
<1>1. CASE StartFlow(w) \/ ResumeRunning(w) \/ RestartFailedInstance(w)
  BY <1>1 DEF StartFlow, ResumeRunning, RestartFailedInstance
<1>2. CASE LeaveFlow(w) \/ ReadStatusForError(w) \/ FailOnError(w)
  BY <1>2 DEF LeaveFlow, ReadStatusForError, FailOnError, Unlock
<1>3. CASE EnterNode(w) \/ BeginNode(w) \/ FinishNode(w) \/ NodeFails(w)
           \/ CompleteInstance(w) \/ FailInstance(w) \/ StatementInterrupted(w)
  BY <1>3 DEF EnterNode, BeginNode, FinishNode, NodeFails, CompleteInstance, FailInstance,
     StatementInterrupted
<1>4. CASE CreateAndEnterWaiting(w) \/ EnsureWaitingApprovalStatus(w) \/ PersistWaiting(w)
           \/ ApproveTask(w) \/ ReadForResume(w) \/ RecordDecision(w) \/ FailApprovalResume(w)
  BY <1>4 DEF CreateAndEnterWaiting, EnsureWaitingApprovalStatus, PersistWaiting, ApproveTask,
     Decide, ReadForResume, RecordDecision, FailApprovalResume
<1>5. CASE LaunchFails(w) \/ LaunchRun(w) \/ LaunchRefused(w) \/ PollRun(w) \/ AwaitInterrupted(w)
  BY <1>5 DEF LaunchFails, LaunchRun, LaunchRefused, PollRun, AwaitInterrupted
<1>6. CASE RecordOutcome(w) \/ PersistContext(w) \/ TakeBranch(w)
           \/ ResetForRecovery(w) \/ RunRecoveryAttempt(w)
  BY <1>6 DEF RecordOutcome, PersistContext, TakeBranch, ResetForRecovery, RunRecoveryAttempt
<1> QED
  BY <1>1, <1>2, <1>3, <1>4, <1>5, <1>6 DEF Step

\* The requests, the scans and the world outside.
Outsiders ==
  \/ \E w \in Walkers : \/ CreateInstance(w) \/ RecoverInstance(w) \/ ContextExpires(w)
                        \/ \E t \in Tasks : LoadPendingApprovalTask(t, w) \/ RejectTask(t, w)
                        \/ \E n \in RetryTargets : RetryInstance(n, w)
  \/ CancelInstance \/ CancelPendingTasks \/ CancelContext \/ DismissIncident
  \/ ExpireTimedOut
  \/ \E t \in Tasks : FailExpiredApproval(t)
  \/ \E r \in Runs : RunEnds(r)
  \/ Crash

LEMMA OutsidersTyped ==
  ASSUME FlowTypeOK, Outsiders
  PROVE  /\ Columns' /\ Memory'
         /\ \/ \E w \in Walkers : Moves(w)
            \/ walker' = walker
            \/ CancelContext
            \/ walker' = [w \in Walkers |-> IdleWalker]
<1>x. Columns /\ Memory
  BY DEF FlowTypeOK, TypeOK, Columns, Memory, TaskRow
<1>s. Statuses = {"none", "completed", "failed", "cancelled", "pending", "running", "waiting_approval"}
  BY DEF Statuses, Active
<1>t. {"rejected", "cancelled", "expired"} \subseteq TaskStatuses
  BY DEF TaskStatuses
<1> USE DEF row, mem, seen, Memory
<1>1. ASSUME NEW w \in Walkers, CreateInstance(w) \/ RecoverInstance(w) \/ ContextExpires(w)
      PROVE  Columns' /\ Memory' /\ Moves(w)
  <2>1. Moves(w)
    BY <1>1, RequestMoves, RunMoves
  <2> QED
    BY <1>1, <1>x, <1>s, <2>1 DEF CreateInstance, RecoverInstance, ContextExpires, Columns, HealingStates
<1>2. ASSUME NEW w \in Walkers, NEW t \in Tasks, LoadPendingApprovalTask(t, w) \/ RejectTask(t, w)
      PROVE  Columns' /\ Memory' /\ Moves(w)
  <2>1. Moves(w)
    BY <1>2, RequestMoves
  <2>2. task' = task \/ task' = [task EXCEPT ![t].status = "rejected"]
    BY <1>2 DEF LoadPendingApprovalTask, RejectTask, Decide
  <2>3. task' \in [Tasks -> TaskRow]
    BY <1>x, <1>t, <2>2, TaskTyped DEF Columns
  <2> QED
    BY <1>2, <1>x, <2>1, <2>3 DEF LoadPendingApprovalTask, RejectTask, Decide, Columns
<1>3. ASSUME NEW w \in Walkers, NEW n \in RetryTargets, RetryInstance(n, w)
      PROVE  Columns' /\ Memory' /\ Moves(w)
  <2>1. Moves(w)
    BY <1>3, RequestMoves
  <2> QED
    BY <1>3, <1>x, <2>1 DEF RetryInstance, Columns
<1>4. CASE CancelInstance \/ DismissIncident
  BY <1>4, <1>x, <1>s DEF CancelInstance, DismissIncident, Columns, HealingStates
<1>5. CASE CancelPendingTasks \/ ExpireTimedOut
  <2>1. \E T \in SUBSET Tasks, s \in {"cancelled", "expired"} :
          task' = [t \in Tasks |-> IF t \in T THEN [task[t] EXCEPT !.status = s] ELSE task[t]]
    <3>1. CASE CancelPendingTasks
      <4> DEFINE T == {t \in Tasks : task[t].status = "pending"}
      <4>1. task' = [t \in Tasks |-> IF t \in T THEN [task[t] EXCEPT !.status = "cancelled"]
                                                ELSE task[t]]
        BY <3>1 DEF CancelPendingTasks
      <4> QED
        BY <4>1
    <3>2. CASE ExpireTimedOut
      <4>1. PICK T \in SUBSET {t \in Tasks : task[t].status = "pending"} :
              task' = [t \in Tasks |-> IF t \in T THEN [task[t] EXCEPT !.status = "expired"]
                                                  ELSE task[t]]
        BY <3>2 DEF ExpireTimedOut
      <4>2. T \in SUBSET Tasks
        OBVIOUS
      <4> QED
        BY <4>1, <4>2
    <3> QED
      BY <1>5, <3>1, <3>2
  <2>2. task' \in [Tasks -> TaskRow]
    BY <1>x, <1>t, <2>1, TaskTyped
  <2> QED
    BY <1>5, <1>x, <2>2 DEF CancelPendingTasks, ExpireTimedOut, Columns
<1>6. CASE CancelContext
  BY <1>6, <1>x DEF CancelContext, Columns
<1>7. ASSUME NEW t \in Tasks, FailExpiredApproval(t)
      PROVE  Columns' /\ Memory' /\ walker' = walker
  BY <1>7, <1>x, <1>s DEF FailExpiredApproval, BecomesWithIncident, Becomes, Columns, HealingStates
<1>8. ASSUME NEW r \in Runs, RunEnds(r)
      PROVE  Columns' /\ Memory' /\ walker' = walker
  <2>1. run' \in [Runs -> RunStatuses]
    <3>1. \E o \in RunStatuses : run' = [run EXCEPT ![r] = o]
      BY <1>8 DEF RunEnds, RunStatuses, Outcomes
    <3> QED
      BY <1>x, <3>1 DEF Columns
  <2> QED
    BY <1>8, <1>x, <2>1 DEF RunEnds, Columns
<1>9. CASE Crash
  <2>1. run' \in [Runs -> RunStatuses]
    <3>1. run' = [r \in Runs |-> IF run[r] = "active" THEN "lost" ELSE run[r]]
          /\ "lost" \in RunStatuses
      BY <1>9 DEF Crash, RunStatuses
    <3> QED
      BY <1>x, <3>1 DEF Columns
  <2> QED
    BY <1>9, <1>x, <2>1 DEF Crash, Columns
<1> QED
  BY <1>1, <1>2, <1>3, <1>4, <1>5, <1>6, <1>7, <1>8, <1>9 DEF Outsiders, CancelInstance,
     DismissIncident, CancelPendingTasks, ExpireTimedOut, Crash

\* A cancelled context is the only thing a goroutine's record learns from outside.
LEMMA CancelContextKeeps ==
  ASSUME FlowTypeOK, CancelContext, NEW w \in Walkers
  PROVE  /\ walker'[w] \in Fitting
         /\ walker'[w].pc = walker[w].pc /\ walker'[w].node = walker[w].node
         /\ walker'[w].run = walker[w].run /\ walker'[w].handle = walker[w].handle
         /\ walker'[w].task = walker[w].task
         /\ walker[w].done => walker'[w].done
<1> DEFINE x == walker[w]
           k == [x EXCEPT !.done = TRUE]
<1>1. x \in Fitting /\ x \in Walker
  BY DEF FlowTypeOK, Fitting
<1>2. walker'[w] = k \/ walker'[w] = x
  BY DEF CancelContext
<1>3. /\ k \in Walker /\ k.pc = x.pc /\ k.node = x.node /\ k.run = x.run
      /\ k.handle = x.handle /\ k.task = x.task /\ k.done
  BY <1>1 DEF Walker
<1> HIDE DEF k
<1>4. k \in Fitting
  BY <1>1, <1>3 DEF Fitting
<1> QED
  BY <1>1, <1>2, <1>3, <1>4

LEMMA TypeStep ==
  ASSUME FlowTypeOK, [Next]_vars
  PROVE  FlowTypeOK'
<1>x. Columns /\ Memory /\ walker \in [Walkers -> Walker] /\ \A w \in Walkers : walker[w] \in Fitting
  BY DEF FlowTypeOK, TypeOK, Columns, Memory, TaskRow
<1>t. SUFFICES /\ Columns' /\ Memory'
               /\ walker' \in [Walkers -> Fitting]
  BY DEF FlowTypeOK, TypeOK, Columns, Memory, TaskRow, Fitting
<1>m. ASSUME NEW w \in Walkers, Moves(w)
      PROVE  walker' \in [Walkers -> Fitting]
  BY <1>m, <1>x DEF Moves
<1>1. ASSUME NEW w \in Walkers, Step(w)
      PROVE  Columns' /\ Memory' /\ walker' \in [Walkers -> Fitting]
  BY <1>1, <1>m, <1>x, StepColumns, StepMemory, StepFits
<1>2. CASE Outsiders
  <2>1. Columns' /\ Memory'
    BY <1>2, OutsidersTyped
  <2>2. CASE CancelContext
    <3>1. walker' = [w \in Walkers |-> walker'[w]]
      BY <2>2 DEF CancelContext
    <3> QED
      BY <2>1, <2>2, <3>1, CancelContextKeeps
  <2>3. CASE walker' = [w \in Walkers |-> IdleWalker]
    BY <2>1, <2>3, IdleIs
  <2>4. CASE walker' = walker
    BY <1>x, <2>1, <2>4
  <2> QED
    BY <1>2, <1>m, <2>1, <2>2, <2>3, <2>4, OutsidersTyped
<1>3. CASE UNCHANGED vars
  <2>1. walker' = walker
    BY <1>3 DEF vars
  <2>2. Columns' /\ Memory'
    BY <1>3, <1>x DEF vars, row, mem, seen, Columns, Memory
  <2> QED
    BY <1>x, <2>1, <2>2
<1>4. [Next]_vars => Outsiders \/ (\E w \in Walkers : Step(w)) \/ UNCHANGED vars
  BY DEF Next, Outsiders
<1> QED
  BY <1>1, <1>2, <1>3, <1>4

LEMMA TypeInit == Init => FlowTypeOK
<1> SUFFICES ASSUME Init PROVE FlowTypeOK
  OBVIOUS
<1>1. walker \in [Walkers -> Walker] /\ \A w \in Walkers : walker[w] \in Fitting
  BY IdleIs DEF Init, Fitting
<1>2. task \in [Tasks -> [node : Nodes \cup {None}, status : TaskStatuses]]
  BY DEF Init, TaskStatuses
<1> QED
  BY <1>1, <1>2 DEF Init, FlowTypeOK, TypeOK, Statuses, Active, HealingStates, Outcomes, NoStates,
     NodeStates, RunStatuses

\* Every row, task, run and goroutine keeps the columns, fields and values its code knows,
\* and a goroutine has what the statements it stands at use.
THEOREM FlowTypesCorrect == Spec => []FlowTypeOK
<1>1. FlowTypeOK /\ [Next]_vars => FlowTypeOK'
  BY TypeStep
<1> QED
  BY <1>1, TypeInit, PTL DEF Spec
-----------------------------------------------------------------------------
(* One decision wakes its instance once *)

\* What the steps of a goroutine leave alone.
LEMMA StepsLeaveRows ==
  ASSUME NEW w \in Walkers, Step(w)
  PROVE  /\ run' = run \/ LaunchRun(w) \/ PollRun(w) \/ AwaitInterrupted(w)
         /\ resumed' = resumed \/ ResumeRunning(w)
         /\ current' = current \/ EnterNode(w) \/ PersistContext(w)
         /\ \/ did' = did /\ taken' = taken
            \/ BeginNode(w) \/ LaunchFails(w) \/ RecordOutcome(w) \/ TakeBranch(w)
            \/ RunRecoveryAttempt(w)
<1> USE DEF row, mem, seen
<1>1. CASE StartFlow(w) \/ ResumeRunning(w) \/ RestartFailedInstance(w)
           \/ LeaveFlow(w) \/ ReadStatusForError(w) \/ FailOnError(w)
  BY <1>1 DEF StartFlow, ResumeRunning, RestartFailedInstance, LeaveFlow, ReadStatusForError,
     FailOnError
<1>2. CASE EnterNode(w) \/ BeginNode(w) \/ FinishNode(w) \/ NodeFails(w)
           \/ CompleteInstance(w) \/ FailInstance(w) \/ StatementInterrupted(w)
  BY <1>2 DEF EnterNode, BeginNode, FinishNode, NodeFails, CompleteInstance, FailInstance,
     StatementInterrupted
<1>3. CASE CreateAndEnterWaiting(w) \/ EnsureWaitingApprovalStatus(w) \/ PersistWaiting(w)
           \/ ApproveTask(w) \/ ReadForResume(w) \/ RecordDecision(w) \/ FailApprovalResume(w)
  BY <1>3 DEF CreateAndEnterWaiting, EnsureWaitingApprovalStatus, PersistWaiting, ApproveTask,
     Decide, ReadForResume, RecordDecision, FailApprovalResume
<1>4. CASE LaunchFails(w) \/ LaunchRun(w) \/ LaunchRefused(w) \/ PollRun(w) \/ AwaitInterrupted(w)
  BY <1>4 DEF LaunchFails, LaunchRun, LaunchRefused, PollRun, AwaitInterrupted
<1>5. CASE RecordOutcome(w) \/ PersistContext(w) \/ TakeBranch(w)
           \/ ResetForRecovery(w) \/ RunRecoveryAttempt(w)
  BY <1>5 DEF RecordOutcome, PersistContext, TakeBranch, ResetForRecovery, RunRecoveryAttempt
<1> QED
  BY <1>1, <1>2, <1>3, <1>4, <1>5 DEF Step

\* No decision, and nobody new who is about to wake the instance.
Calm ==
  /\ resumed' = resumed
  /\ \A t \in Tasks : task'[t].status \in {"none", "pending"} => task[t].status \in {"none", "pending"}
  /\ \A w \in Walkers : walker'[w].pc \notin {"reset", "recover"}
  /\ \A w \in Walkers, t \in Tasks : Waking(walker'[w], t) => Waking(walker[w], t)

LEMMA CalmKeepsDecisions ==
  ASSUME DecisionInv, Calm
  PROVE  DecisionInv'
BY DEF DecisionInv, Calm, Waking

\* A goroutine's step is calm if its own record is.
LEMMA CalmMove ==
  ASSUME DecisionInv, NEW w \in Walkers, Moves(w), FlowTypeOK,
         resumed' = resumed,
         \A t \in Tasks : task'[t].status \in {"none", "pending"} => task[t].status \in {"none", "pending"},
         walker'[w].pc \notin {"reset", "recover"},
         \A t \in Tasks : Waking(walker'[w], t) => Waking(walker[w], t)
  PROVE  DecisionInv'
<1>1. \A v \in Walkers \ {w} : walker'[v] = walker[v]
  BY DEF Moves, FlowTypeOK, TypeOK
<1>2. \A v \in Walkers : walker[v].pc \notin {"reset", "recover"}
  BY DEF DecisionInv
<1>3. Calm
  BY <1>1, <1>2 DEF Calm
<1> QED
  BY <1>3, CalmKeepsDecisions

\* A task that was pending is decided, by the goroutine that is to resume for it.
LEMMA DecidedOnce ==
  ASSUME FlowTypeOK, DecisionInv, NEW w \in Walkers, NEW u \in Tasks, NEW d \in {"approved", "rejected"},
         Moves(w), walker'[w].pc = "read", walker'[w].task = u,
         task[u].status = "pending", task' = [task EXCEPT ![u].status = d], resumed' = resumed
  PROVE  DecisionInv'
<1>1. \A v \in Walkers \ {w} : walker'[v] = walker[v]
  BY DEF Moves, FlowTypeOK, TypeOK
<1>2. /\ task'[u].status = d
      /\ \A t \in Tasks \ {u} : task'[t] = task[t]
  BY DEF FlowTypeOK, TypeOK
<1>3. resumed[u] = 0 /\ \A v \in Walkers : ~Waking(walker[v], u)
  BY DEF DecisionInv
<1>4. \A v \in Walkers, t \in Tasks : Waking(walker'[v], t) =>
        (v = w /\ t = u) \/ (v # w /\ t # u /\ Waking(walker[v], t))
  BY <1>1, <1>3 DEF Waking
<1>5. \A v \in Walkers : walker'[v].pc \notin {"reset", "recover"}
  BY <1>1 DEF DecisionInv
<1>6. ASSUME NEW t \in Tasks
      PROVE  /\ resumed'[t] \in 0 .. 1
             /\ task'[t].status \in {"none", "pending"} => resumed'[t] = 0
             /\ \A v \in Walkers : Waking(walker'[v], t) =>
                  /\ task'[t].status \notin {"none", "pending"} /\ resumed'[t] = 0
                  /\ \A v2 \in Walkers \ {v} : ~Waking(walker'[v2], t)
  <2>1. CASE t = u
    BY <1>2, <1>3, <1>4, <2>1 DEF DecisionInv
  <2>2. CASE t # u
    BY <1>2, <1>4, <2>2 DEF DecisionInv
  <2> QED
    BY <2>1, <2>2
<1> QED
  BY <1>5, <1>6 DEF DecisionInv

LEMMA DecisionStep ==
  ASSUME {"recover", "stale"} \cap Happens = {}, FlowTypeOK, DecisionInv, [Next]_vars
  PROVE  DecisionInv'
<1> DEFINE Undecided(t) == task[t].status \in {"none", "pending"}
           Fresh(t) == task'[t].status \in {"none", "pending"}
<1>f. \A v \in Walkers : walker[v].pc \notin {"reset", "recover"}
  BY DEF DecisionInv
<1>1. ASSUME NEW w \in Walkers, Step(w)
      PROVE  DecisionInv'
  <2>1. CASE ResumeRunning(w)
    <3> DEFINE u == walker[w].task
    <3>1. /\ Moves(w) /\ walker[w].pc = "resume" /\ u \in Tasks
          /\ walker'[w].pc \in {"decide", "leave"}
      BY <2>1, ApprovalMoves
    <3>2. /\ task' = task
          /\ \/ resumed' = resumed
             \/ resumed' = [resumed EXCEPT ![u] = IF @ = 2 THEN 2 ELSE @ + 1]
      BY <2>1 DEF ResumeRunning
    <3>3. CASE resumed' = resumed
      BY <3>1, <3>2, <3>3, CalmMove DEF Waking
    <3>4. CASE resumed' = [resumed EXCEPT ![u] = IF @ = 2 THEN 2 ELSE @ + 1]
      <4>1. Waking(walker[w], u)
        BY <3>1 DEF Waking
      <4>2. resumed[u] = 0 /\ task[u].status \notin {"none", "pending"}
            /\ \A v \in Walkers \ {w} : ~Waking(walker[v], u)
        BY <3>1, <4>1 DEF DecisionInv
      <4>3. \A v \in Walkers \ {w} : walker'[v] = walker[v]
        BY <3>1 DEF Moves, FlowTypeOK, TypeOK
      <4>4. \A v \in Walkers, t \in Tasks : Waking(walker'[v], t) => t # u /\ Waking(walker[v], t)
        BY <3>1, <4>2, <4>3 DEF Waking
      <4>5. resumed'[u] = 1 /\ \A t \in Tasks \ {u} : resumed'[t] = resumed[t]
        BY <3>1, <3>4, <4>2 DEF FlowTypeOK, TypeOK
      <4>6. \A v \in Walkers : walker'[v].pc \notin {"reset", "recover"}
        BY <1>f, <3>1, <4>3
      <4>7. ASSUME NEW t \in Tasks
            PROVE  /\ resumed'[t] \in 0 .. 1
                   /\ task'[t].status \in {"none", "pending"} => resumed'[t] = 0
                   /\ \A v \in Walkers : Waking(walker'[v], t) =>
                        /\ task'[t].status \notin {"none", "pending"} /\ resumed'[t] = 0
                        /\ \A v2 \in Walkers \ {v} : ~Waking(walker'[v2], t)
        <5>1. CASE t = u
          BY <3>2, <4>2, <4>4, <4>5, <5>1
        <5>2. CASE t # u
          BY <3>2, <4>4, <4>5, <5>2 DEF DecisionInv
        <5> QED
          BY <5>1, <5>2
      <4> QED
        BY <4>6, <4>7 DEF DecisionInv
    <3> QED
      BY <3>2, <3>3, <3>4
  <2>2. CASE ApproveTask(w)
    <3>1. resumed' = resumed
      BY <2>2 DEF ApproveTask, Decide, seen
    <3>2. CASE walker'[w] = IdleWalker /\ task' = task
      BY <2>2, <3>1, <3>2, CalmMove, RequestMoves, IdleIs DEF Waking
    <3> QED
      BY <2>2, <3>1, <3>2, DecidedOnce, RequestMoves
  <2>3. CASE CreateAndEnterWaiting(w)
    <3>1. Moves(w) /\ walker'[w].pc \in {"ensure", "leave"}
      BY <2>3, ApprovalMoves
    <3>2. \A t \in Tasks : Fresh(t) => Undecided(t)
      BY <2>3 DEF CreateAndEnterWaiting, FlowTypeOK, TypeOK
    <3>3. resumed' = resumed
      BY <2>3 DEF CreateAndEnterWaiting, seen
    <3> QED
      BY <3>1, <3>2, <3>3, CalmMove DEF Waking
  <2>4. CASE ~ResumeRunning(w) /\ ~ApproveTask(w) /\ ~CreateAndEnterWaiting(w)
    <3>1. task' = task /\ resumed' = resumed
      BY <1>1, <2>4, StepsLeaveRows, WalkersLeaveTasks DEF LeavesTasks
    <3>2. ~RunRecoveryAttempt(w) /\ ~ResetForRecovery(w)
      BY <1>f, RecoveryMoves, StatusMoves
    <3>3. CASE WalkerSteps(w)
      <4>1. Moves(w) /\ GoesOn(walker[w], walker'[w])
        BY <3>3, WalkerMoves
      <4> QED
        BY <3>1, <4>1, CalmMove DEF GoesOn, Waking
    <3>4. CASE \/ StartFlow(w) \/ CompleteInstance(w) \/ FailInstance(w) \/ FailApprovalResume(w)
               \/ RestartFailedInstance(w)
      <4>1. Moves(w) /\ walker'[w].pc \in {"node", "fail", "leave", "idle"}
        BY <3>4, StatusMoves
      <4> QED
        BY <3>1, <4>1, CalmMove DEF Waking
    <3>5. CASE FailOnError(w)
      BY <3>1, <3>5, CalmMove, StatusMoves, IdleIs DEF Waking
    <3>6. CASE LaunchRun(w) \/ PollRun(w) \/ AwaitInterrupted(w)
      <4>1. Moves(w) /\ walker'[w].pc \in {"await", "record"}
        BY <3>6, RunMoves
      <4> QED
        BY <3>1, <4>1, CalmMove DEF Waking
    <3> QED
      BY <1>1, <2>4, <3>2, <3>3, <3>4, <3>5, <3>6, StepIs
  <2> QED
    BY <2>1, <2>2, <2>3, <2>4
<1>2. CASE Outsiders
  <2> USE DEF row, mem, seen
  <2>1. ASSUME NEW w \in Walkers, CreateInstance(w) \/ ContextExpires(w)
        PROVE  DecisionInv'
    <3>1. Moves(w) /\ walker'[w].pc \in {"start", "await"}
      BY <2>1, RequestMoves, RunMoves
    <3>2. task' = task /\ resumed' = resumed
      BY <2>1 DEF CreateInstance, ContextExpires
    <3> QED
      BY <3>1, <3>2, CalmMove DEF Waking
  <2>2. ASSUME NEW w \in Walkers PROVE ~RecoverInstance(w)
    BY RequestMoves
  <2>3. ASSUME NEW w \in Walkers, NEW t \in Tasks, LoadPendingApprovalTask(t, w)
        PROVE  DecisionInv'
    <3>1. Moves(w) /\ walker'[w].pc = "approve"
      BY <2>3, RequestMoves
    <3>2. task' = task /\ resumed' = resumed
      BY <2>3 DEF LoadPendingApprovalTask
    <3> QED
      BY <3>1, <3>2, CalmMove DEF Waking
  <2>4. ASSUME NEW w \in Walkers, NEW t \in Tasks, RejectTask(t, w)
        PROVE  DecisionInv'
    <3>1. task[t].status = "pending" /\ resumed' = resumed
      BY <2>4 DEF RejectTask, Decide
    <3> QED
      BY <2>4, <3>1, DecidedOnce, RequestMoves
  <2>5. ASSUME NEW w \in Walkers, NEW n \in RetryTargets, RetryInstance(n, w)
        PROVE  DecisionInv'
    <3>1. Moves(w) /\ walker'[w].pc = "restart"
      BY <2>5, RequestMoves
    <3>2. task' = task /\ resumed' = resumed
      BY <2>5 DEF RetryInstance
    <3> QED
      BY <3>1, <3>2, CalmMove DEF Waking
  <2>6. CASE \/ CancelInstance \/ DismissIncident
             \/ (\E t \in Tasks : FailExpiredApproval(t)) \/ (\E r \in Runs : RunEnds(r))
    <3>1. task' = task /\ resumed' = resumed /\ walker' = walker
      BY <2>6 DEF CancelInstance, DismissIncident, FailExpiredApproval, RunEnds
    <3>2. Calm
      BY <1>f, <3>1 DEF Calm
    <3> QED
      BY <3>2, CalmKeepsDecisions
  <2>7. CASE CancelPendingTasks \/ ExpireTimedOut
    <3>1. resumed' = resumed /\ walker' = walker
      BY <2>7 DEF CancelPendingTasks, ExpireTimedOut
    <3>2. \A t \in Tasks : Fresh(t) => Undecided(t)
      BY <2>7 DEF CancelPendingTasks, ExpireTimedOut, FlowTypeOK, TypeOK
    <3>3. Calm
      BY <1>f, <3>1, <3>2 DEF Calm
    <3> QED
      BY <3>3, CalmKeepsDecisions
  <2>8. CASE CancelContext
    <3>1. task' = task /\ resumed' = resumed
      BY <2>8 DEF CancelContext
    <3>2. Calm
      BY <1>f, <2>8, <3>1, CancelContextKeeps DEF Calm, Waking
    <3> QED
      BY <3>2, CalmKeepsDecisions
  <2>9. CASE Crash
    <3>1. task' = task /\ resumed' = resumed /\ \A w \in Walkers : walker'[w] = IdleWalker
      BY <2>9 DEF Crash
    <3>2. Calm
      BY <3>1, IdleIs DEF Calm, Waking
    <3> QED
      BY <3>2, CalmKeepsDecisions
  <2> QED
    BY <1>2, <2>1, <2>2, <2>3, <2>4, <2>5, <2>6, <2>7, <2>8, <2>9 DEF Outsiders
<1>3. CASE UNCHANGED vars
  <2>1. Calm
    BY <1>f, <1>3 DEF vars, seen, Calm
  <2> QED
    BY <2>1, CalmKeepsDecisions
<1> QED
  BY <1>1, <1>2, <1>3 DEF Next, Outsiders

\* One decision of an approval wakes the waiting instance at most once (ApproveTask, RejectTask
\* and ResumeAfterApproval), whatever users retry, whatever expires, is cancelled or crashes in
\* between, on any graph and with any number of tasks and goroutines, as long as no recovery
\* takes the decision of another task of the node for it.
THEOREM DecisionsCorrect ==
  ASSUME {"recover", "stale"} \cap Happens = {}
  PROVE  Spec => []ApprovalResumesOnce
<1>1. Init => DecisionInv
  BY IdleIs DEF Init, DecisionInv, Waking
<1>2. FlowTypeOK /\ DecisionInv /\ [Next]_vars => DecisionInv'
  BY DecisionStep
<1>3. DecisionInv => ApprovalResumesOnce
  BY DEF DecisionInv, ApprovalResumesOnce
<1> QED
  BY <1>1, <1>2, <1>3, FlowTypesCorrect, PTL DEF Spec
-----------------------------------------------------------------------------
(* Nothing runs before somebody approved *)

\* Where the steps of a goroutine can take it: its node, the row's, nowhere, or along the
\* graph; only a decision leaves an approval.
Walks(x, y) ==
  /\ \/ y.node \in {x.node, None}
     \/ y.node = current /\ x.pc = "read"
     \/ /\ x.node \in Nodes /\ TypeOf[x.node] # "approval"
        /\ \/ y.node = FindNextNode(x.node)
           \/ /\ TypeOf[x.node] = "execution"
              /\ \E h \in Handles : y.node = FindNextNodeByHandle(x.node, h)
     \/ /\ x.pc = "decide" /\ x.node \in Nodes
        /\ y.node = FindNextNodeByHandle(x.node, x.handle)
  /\ y.pc # "decide"
  /\ y.pc \in {"read", "resume"} => x.pc \in {"read", "resume"} /\ y.handle = x.handle

LEMMA WalkingWalks ==
  ASSUME FlowTypeOK, NEW w \in Walkers, WalkerSteps(w)
  PROVE  Walks(walker[w], walker'[w])
<1> DEFINE x == walker[w]
<1>x. x \in Fitting /\ x \in Walker /\ walker'[w] \in Fitting
  BY WalkerMoves DEF FlowTypeOK, Fitting, Moves
<1>y. ASSUME NEW y \in Fitting, Set(w, y)
      PROVE  walker'[w] = y
  BY <1>y, SetMoves
<1>l. ASSUME NEW k \in Walker, k.node = x.node, k.handle = x.handle
      PROVE  /\ \A n \in Nodes : Enter(k, n) \in Fitting /\ Enter(k, n).pc = "node" /\ Enter(k, n).node = n
             /\ \A e \in BOOLEAN : /\ Leave(k, e) \in Fitting /\ Leave(k, e).pc = "leave"
                                   /\ Leave(k, e).node = None
                                   /\ FailWith(k, e) \in Fitting /\ FailWith(k, e).pc = "fail"
                                   /\ FailWith(k, e).node = None
                                   /\ Ending(k, "reject", e) \in Fitting
                                   /\ Ending(k, "reject", e).pc = "reject"
                                   /\ Ending(k, "reject", e).node = None
             /\ Complete(k) \in Fitting /\ Complete(k).pc = "complete" /\ Complete(k).node = None
  BY ZenonT(40), EnterIs, EndingIs DEF Leave, FailWith, Complete
<1>k. ASSUME NEW s
      PROVE  KeepStates(x, x.node, s).node = x.node /\ KeepStates(x, x.node, s).handle = x.handle
             /\ KeepStates(x, x.node, s).kind = x.kind
  BY <1>x DEF KeepStates, Walker
<1>e. /\ \A e \in BOOLEAN : Leave(x, e) \in Fitting /\ Leave(x, e).pc = "leave" /\ Leave(x, e).node = None
  BY <1>x, <1>l
\* Leaving the graph, a pause and an idle goroutine.
<1>i. ASSUME walker'[w].pc \in {"idle", "leave", "fail", "reject", "complete", "errcheck", "errfail",
                                "node", "ensure", "persist", "wait", "begin", "work", "launch",
                                "record", "context", "branch"},
             walker'[w].node \in {x.node, None}
      PROVE  Walks(x, walker'[w])
  BY <1>i DEF Walks
<1>1. CASE EnterNode(w)
  <2> DEFINE l == IF TypeOf[x.node] = "approval" THEN "wait" ELSE "begin"
  <2>1. Set(w, Leave(x, FALSE)) \/ Set(w, GoTo(x, l))
    BY <1>1 DEF EnterNode
  <2>2. GoTo(x, l).pc = l /\ GoTo(x, l).node = x.node
    BY <1>x DEF GoTo, Walker
  <2>3. walker'[w].pc \in {"leave", "wait", "begin"} /\ walker'[w].node \in {x.node, None}
    BY <1>x, <1>e, <2>1, <2>2 DEF FlowTypeOK, TypeOK, Set
  <2> QED
    BY <1>i, <2>3
<1>2. CASE BeginNode(w)
  <2> DEFINE k == KeepStates(x, x.node, "running")
             l == IF TypeOf[x.node] = "execution" THEN "launch" ELSE "work"
  <2>1. Set(w, GoTo(k, l))
    BY <1>2 DEF BeginNode
  <2>2. k \in Walker /\ k.node = x.node
    BY <1>x, <1>k, KeepIs DEF NodeStates
  <2> HIDE DEF k
  <2>3. GoTo(k, l).pc = l /\ GoTo(k, l).node = x.node
    BY <2>2 DEF GoTo, Walker
  <2>4. walker'[w].pc \in {"launch", "work"} /\ walker'[w].node = x.node
    BY <2>1, <2>3 DEF FlowTypeOK, TypeOK, Set
  <2> QED
    BY <1>i, <2>4
<1>3. CASE FinishNode(w)
  <2> DEFINE k == KeepStates(x, x.node, "completed")
             n == FindNextNode(x.node)
  <2>1. x.node \in Nodes /\ TypeOf[x.node] # "approval"
    BY <1>3, <1>x DEF FinishNode, At, Fitting
  <2>2. Set(w, Complete(k)) \/ Set(w, EnterOr(k, n, Complete(k)))
    BY <1>3 DEF FinishNode
  <2>3. k \in Walker /\ k.node = x.node /\ k.handle = x.handle
    BY <1>x, <1>k, KeepIs DEF NodeStates
  <2> HIDE DEF k
  <2>4. \/ Set(w, Complete(k))
        \/ n \in Nodes /\ Set(w, Enter(k, n))
    BY <2>2, RoutesLead DEF EnterOr
  <2>5. \/ walker'[w].pc = "complete" /\ walker'[w].node = None
        \/ walker'[w].pc = "node" /\ walker'[w].node = n
    BY <1>l, <1>y, <2>3, <2>4
  <2> QED
    BY <2>1, <2>5 DEF Walks
<1>4. CASE NodeFails(w)
  <2> DEFINE k == KeepStates(x, x.node, "failed")
  <2>1. Set(w, FailWith(k, TRUE))
    BY <1>4 DEF NodeFails
  <2>2. k \in Walker /\ k.node = x.node /\ k.handle = x.handle
    BY <1>x, <1>k, KeepIs DEF NodeStates, Outcomes
  <2> HIDE DEF k
  <2>l. FailWith(k, TRUE) \in Fitting /\ FailWith(k, TRUE).pc = "fail" /\ FailWith(k, TRUE).node = None
    BY <1>l, <2>2
  <2>3. walker'[w].pc = "fail" /\ walker'[w].node = None
    BY <1>y, <2>l, <2>1
  <2> QED
    BY <1>i, <2>3
<1>5. CASE StatementInterrupted(w) \/ PersistWaiting(w)
  <2>1. walker'[w].pc = "leave" /\ walker'[w].node = None
    BY <1>5, <1>e, <1>y DEF StatementInterrupted, PersistWaiting
  <2> QED
    BY <1>i, <2>1
<1>6. CASE EnsureWaitingApprovalStatus(w)
  <2>1. Set(w, GoTo(x, "persist")) \/ Set(w, Leave(x, TRUE))
    BY <1>6 DEF EnsureWaitingApprovalStatus
  <2>2. GoTo(x, "persist").pc = "persist" /\ GoTo(x, "persist").node = x.node
    BY <1>x DEF GoTo, Walker
  <2>3. walker'[w].pc \in {"leave", "persist"} /\ walker'[w].node \in {x.node, None}
    BY <1>e, <2>1, <2>2 DEF FlowTypeOK, TypeOK, Set
  <2> QED
    BY <1>i, <2>3
<1>7. CASE ReadForResume(w)
  <2> DEFINE k == [x EXCEPT !.node = current, !.states = states, !.result = result]
  <2>1. x.pc = "read" /\ \/ Set(w, Ending(k, "reject", FALSE))
                         \/ Set(w, Leave(k, TRUE))
                         \/ Set(w, GoTo(k, "resume"))
    BY <1>7 DEF ReadForResume, At
  <2>2. k \in Walker /\ k.node = current /\ k.handle = x.handle
    <3>1. states \in [Nodes -> NodeStates] /\ result \in {"none"} \cup Outcomes
          /\ current \in Nodes \cup {None}
      BY DEF FlowTypeOK, TypeOK
    <3> QED
      BY <1>x, <3>1 DEF Walker
  <2> HIDE DEF k
  <2>3. /\ GoTo(k, "resume").pc = "resume" /\ GoTo(k, "resume").node = current
        /\ GoTo(k, "resume").handle = x.handle
    BY <2>2 DEF GoTo, Walker
  <2>4. /\ Ending(k, "reject", FALSE).pc = "reject" /\ Ending(k, "reject", FALSE).node = None
        /\ Leave(k, TRUE).pc = "leave" /\ Leave(k, TRUE).node = None
    BY <2>2, EndingIs DEF Leave
  <2>5. \/ walker'[w].pc \in {"reject", "leave"} /\ walker'[w].node = None
        \/ walker'[w].pc = "resume" /\ walker'[w].node = current /\ walker'[w].handle = x.handle
    BY <2>1, <2>3, <2>4 DEF FlowTypeOK, TypeOK, Set
  <2> QED
    BY <2>1, <2>5 DEF Walks
<1>8. CASE RecordDecision(w)
  <2> DEFINE k == KeepStates(x, x.node, x.handle)
             n == FindNextNodeByHandle(k.node, k.handle)
  <2>1. /\ x.pc = "decide" /\ x.node \in Nodes
        /\ Set(w, IF k.kind = "recover" THEN FollowRecovered(k, k.handle)
                  ELSE EnterOr(k, n, IF k.handle = "rejected" THEN Ending(k, "reject", FALSE)
                                                              ELSE Complete(k)))
    BY <1>8, <1>x DEF RecordDecision, At, Fitting
  <2>2. k \in Walker /\ k.node = x.node /\ k.handle = x.handle
    BY <1>x, <1>k, <2>1, KeepIs DEF Fitting, NodeStates
  <2> HIDE DEF k
  <2>3. \/ Set(w, Complete(k)) \/ Set(w, FailWith(k, TRUE)) \/ Set(w, Ending(k, "reject", FALSE))
        \/ n \in Nodes /\ Set(w, Enter(k, n))
    BY <2>1, RoutesLead DEF FollowRecovered, EnterOr
  <2>l. /\ \A m \in Nodes : Enter(k, m) \in Fitting /\ Enter(k, m).pc = "node" /\ Enter(k, m).node = m
        /\ FailWith(k, TRUE) \in Fitting /\ FailWith(k, TRUE).pc = "fail"
        /\ FailWith(k, TRUE).node = None
        /\ Ending(k, "reject", FALSE) \in Fitting /\ Ending(k, "reject", FALSE).pc = "reject"
        /\ Ending(k, "reject", FALSE).node = None
        /\ Complete(k) \in Fitting /\ Complete(k).pc = "complete" /\ Complete(k).node = None
    BY <1>l, <2>2
  <2>4. \/ walker'[w].pc \in {"complete", "fail", "reject"} /\ walker'[w].node = None
        \/ walker'[w].pc = "node" /\ walker'[w].node = n
    BY <1>y, <2>l, <2>3
  <2> QED
    BY <2>1, <2>2, <2>4 DEF Walks
<1>9. CASE LaunchFails(w)
  <2> DEFINE h == OutputHandle(x, TRUE)
  <2>1. Set(w, [x EXCEPT !.pc = "branch", !.handle = h])
    BY <1>9 DEF LaunchFails
  <2> HIDE DEF h
  <2>2. walker'[w].pc = "branch" /\ walker'[w].node = x.node
    BY <1>x, <2>1 DEF FlowTypeOK, TypeOK, Set, Walker
  <2> QED
    BY <1>i, <2>2
<1>10. CASE LaunchRefused(w)
  <2>1. walker'[w].pc = "record" /\ walker'[w].node = x.node
    BY <1>10, <1>x DEF LaunchRefused, FlowTypeOK, TypeOK, Set, Walker
  <2> QED
    BY <1>i, <2>1
<1>11. CASE RecordOutcome(w)
  <2> DEFINE k == KeepStates(x, x.node, "recorded")
  <2>1. Set(w, GoTo(k, "context"))
    BY <1>11 DEF RecordOutcome
  <2>2. k \in Walker /\ k.node = x.node
    BY <1>x, <1>k, KeepIs DEF NodeStates
  <2> HIDE DEF k
  <2>3. walker'[w].pc = "context" /\ walker'[w].node = x.node
    BY <2>1, <2>2 DEF GoTo, FlowTypeOK, TypeOK, Set, Walker
  <2> QED
    BY <1>i, <2>3
<1>12. CASE PersistContext(w)
  <2>1. walker'[w].pc = "branch" /\ walker'[w].node = x.node
    BY <1>12, <1>x DEF PersistContext, FlowTypeOK, TypeOK, Set, Walker
  <2> QED
    BY <1>i, <2>1
<1>13. CASE TakeBranch(w)
  <2> DEFINE k == KeepStates(x, x.node, x.handle)
             n == FindNextNodeByHandle(k.node, k.handle)
  <2>1. /\ x.node \in Nodes /\ TypeOf[x.node] = "execution" /\ x.handle \in Outcomes
        /\ Set(w, FollowBranch(k, k.handle))
    BY <1>13, <1>x DEF TakeBranch, At, Fitting
  <2>2. k \in Walker /\ k.node = x.node /\ k.handle = x.handle
    BY <1>x, <1>k, <2>1, KeepIs DEF NodeStates
  <2> HIDE DEF k
  <2>3. \/ Set(w, Complete(k)) \/ Set(w, FailWith(k, TRUE))
        \/ n \in Nodes /\ Set(w, Enter(k, n))
    BY <2>1, RoutesLead DEF FollowBranch, EnterOr
  <2>l. /\ \A m \in Nodes : Enter(k, m) \in Fitting /\ Enter(k, m).pc = "node" /\ Enter(k, m).node = m
        /\ FailWith(k, TRUE) \in Fitting /\ FailWith(k, TRUE).pc = "fail"
        /\ FailWith(k, TRUE).node = None
        /\ Ending(k, "reject", FALSE) \in Fitting /\ Ending(k, "reject", FALSE).pc = "reject"
        /\ Ending(k, "reject", FALSE).node = None
        /\ Complete(k) \in Fitting /\ Complete(k).pc = "complete" /\ Complete(k).node = None
    BY <1>l, <2>2
  <2>4. \/ walker'[w].pc \in {"complete", "fail"} /\ walker'[w].node = None
        \/ walker'[w].pc = "node" /\ walker'[w].node = n
    BY <1>y, <2>l, <2>3
  <2>5. x.handle \in Handles
    BY <2>1 DEF Outcomes, Handles
  <2> QED
    BY <2>1, <2>2, <2>4, <2>5 DEF Walks
<1>14. CASE LeaveFlow(w) \/ ReadStatusForError(w)
  <2>1. \/ Set(w, IdleWalker)
        \/ \E l \in {"errcheck", "errfail"} : Set(w, GoTo(x, l))
    BY <1>14 DEF LeaveFlow, ReadStatusForError
  <2>2. walker'[w].pc \in {"idle", "errcheck", "errfail"} /\ walker'[w].node \in {x.node, None}
    BY <1>x, <2>1, IdleIs DEF GoTo, FlowTypeOK, TypeOK, Set, Walker
  <2> QED
    BY <1>i, <2>2
<1> QED
  BY <1>1, <1>2, <1>3, <1>4, <1>5, <1>6, <1>7, <1>8, <1>9, <1>10, <1>11, <1>12, <1>13, <1>14
     DEF WalkerSteps

\* A decided task stays as it is: the requests that approve and reject it, the cancel request
\* and the scan for expired ones never decide it again.
LEMMA DecidedStays ==
  ASSUME FlowTypeOK, [Next]_vars, NEW t \in Tasks, task[t].status \notin {"none", "pending"}
  PROVE  task'[t] = task[t]
<1>t. task \in [Tasks -> [node : Nodes \cup {None}, status : TaskStatuses]]
  BY DEF FlowTypeOK, TypeOK
<1>d. ASSUME NEW u \in Tasks, NEW d, task[u].status = "pending", task' = [task EXCEPT ![u].status = d]
      PROVE  task'[t] = task[t]
  <2>1. u # t
    BY <1>d
  <2> QED
    BY <1>t, <1>d, <2>1
<1>1. CASE task' = task
  BY <1>1
<1>3. ASSUME NEW w \in Walkers, Step(w)
      PROVE  task'[t] = task[t]
  <2>1. CASE CreateAndEnterWaiting(w)
    <3>1. \/ task' = task
          \/ \E u \in Tasks : /\ task[u].status = "none"
                             /\ task' = [task EXCEPT ![u] = [node |-> walker[w].node,
                                                             status |-> "pending"]]
      BY <2>1 DEF CreateAndEnterWaiting
    <3> QED
      BY <1>1, <1>t, <3>1
  <2>2. CASE ApproveTask(w)
    BY <1>d, <2>2, RequestMoves
  <2> QED
    BY <1>1, <1>3, <2>1, <2>2, WalkersLeaveTasks DEF LeavesTasks
<1>4. ASSUME NEW w \in Walkers, NEW u \in Tasks, RejectTask(u, w)
      PROVE  task'[t] = task[t]
  BY <1>d, <1>4, RequestMoves DEF RejectTask
<1>5. CASE CancelPendingTasks \/ ExpireTimedOut
  <2>1. CASE CancelPendingTasks
    BY <2>1 DEF CancelPendingTasks
  <2>2. CASE ExpireTimedOut
    <3>1. PICK T \in SUBSET {u \in Tasks : task[u].status = "pending"} :
            task' = [u \in Tasks |-> IF u \in T THEN [task[u] EXCEPT !.status = "expired"] ELSE task[u]]
      BY <2>2 DEF ExpireTimedOut
    <3>2. t \notin T
      OBVIOUS
    <3> QED
      BY <3>1, <3>2
  <2> QED
    BY <1>5, <2>1, <2>2
<1>6. ASSUME \/ \E w \in Walkers : \/ CreateInstance(w) \/ RecoverInstance(w) \/ ContextExpires(w)
                                   \/ \E u \in Tasks : LoadPendingApprovalTask(u, w)
                                   \/ \E n \in RetryTargets : RetryInstance(n, w)
             \/ CancelInstance \/ CancelContext \/ DismissIncident
             \/ \E u \in Tasks : FailExpiredApproval(u)
             \/ \E r \in Runs : RunEnds(r)
             \/ Crash
             \/ UNCHANGED vars
      PROVE  task' = task
  BY <1>6 DEF CreateInstance, RecoverInstance, ContextExpires, LoadPendingApprovalTask, RetryInstance,
     CancelInstance, CancelContext, DismissIncident, FailExpiredApproval, RunEnds, Crash, vars
<1> QED
  BY <1>1, <1>3, <1>4, <1>5, <1>6 DEF Next

\* One decision of a task counts, whoever else approves, rejects, cancels or expires it at the
\* same time, and whatever is retried, recovered or crashes.
THEOREM DecisionsStay ==
  Spec => [][\A t \in Tasks : task[t].status \notin {"none", "pending"} => task'[t] = task[t]]_vars
<1>1. FlowTypeOK /\ [Next]_vars
        => [\A t \in Tasks : task[t].status \notin {"none", "pending"} => task'[t] = task[t]]_vars
  BY DecidedStays
<1> QED
  BY <1>1, FlowTypesCorrect, PTL DEF Spec

\* An approved task stays approved.
LEMMA ApprovedStays ==
  ASSUME FlowTypeOK, Approved, [Next]_vars
  PROVE  Approved'
BY DecidedStays DEF Approved

\* Before the first approval nobody is behind the fence, and nothing runs.
Before(B) ==
  /\ current \notin B
  /\ \A w \in Walkers : Outside(B, walker[w])
  /\ \A r \in Runs : run[r] = "none"

LEMMA FenceMove ==
  ASSUME FlowTypeOK, NEW B, Before(B), NEW w \in Walkers, Moves(w),
         current' \notin B, run' = run, Outside(B, walker'[w])
  PROVE  Before(B)'
<1>1. \A v \in Walkers \ {w} : walker'[v] = walker[v]
  BY DEF Moves, FlowTypeOK, TypeOK
<1>3. ASSUME NEW v \in Walkers
      PROVE  Outside(B, walker'[v])
  BY <1>1 DEF Before
<1>4. \A r \in Runs : run'[r] = "none"
  BY DEF Before
<1> QED
  BY <1>3, <1>4 DEF Before, Outside

LEMMA FenceStep ==
  ASSUME FlowTypeOK, NEW B, Fenced(B), FenceInv(B), [Next]_vars
  PROVE  FenceInv(B)'
<1>1. CASE Approved
  BY <1>1, ApprovedStays DEF FenceInv
<1>2. CASE Before(B) /\ Approved'
  BY <1>2 DEF FenceInv
<1>3. CASE Before(B) /\ ~Approved /\ ~Approved'
  <2> SUFFICES Before(B)'
    BY DEF Before, FenceInv
  <2>b. /\ B \subseteq Nodes /\ None \notin B /\ StartNode \notin B /\ RetryTargets \cap B = {}
        /\ \A n \in Nodes : TypeOf[n] = "execution" => n \in B
        /\ \A n \in Nodes \ B : TypeOf[n] # "approval" =>
             FindNextNode(n) \notin B /\ FindNextNodeByHandle(n, "default") \notin B
        /\ \A n \in Nodes \ B : TypeOf[n] = "approval" => FindNextNodeByHandle(n, "rejected") \notin B
    BY GraphConstants DEF Fenced
  <2>o. \A w \in Walkers : Outside(B, walker[w])
    BY <1>3 DEF Before
  <2>c. current \notin B /\ \A r \in Runs : run[r] = "none"
    BY <1>3 DEF Before
  <2>1. ASSUME NEW w \in Walkers, Step(w)
        PROVE  Before(B)'
    <3> DEFINE x == walker[w]
    <3>x. x \in Fitting /\ x \in Walker /\ x.node \notin B
          /\ (x.pc \in {"read", "resume", "decide"} => x.handle = "rejected")
      BY <2>o DEF FlowTypeOK, Fitting, Outside
    <3>1. CASE LaunchRun(w) \/ PollRun(w) \/ AwaitInterrupted(w)
      <4>1. x.pc \in {"launch", "await"}
        BY <3>1, RunMoves
      <4> QED
        BY <2>b, <3>x, <4>1 DEF Fitting
    <3>2. CASE ~(LaunchRun(w) \/ PollRun(w) \/ AwaitInterrupted(w))
      <4>r. run' = run
        BY <2>1, <3>2, StepsLeaveRows
      <4>c. current' \notin B
        <5>1. current' = current \/ current' = x.node
          BY <2>1, StepsLeaveRows DEF EnterNode, PersistContext
        <5> QED
          BY <2>c, <3>x, <5>1
      <4>m. ASSUME Moves(w), Outside(B, walker'[w])
            PROVE  Before(B)'
        BY <1>3, <4>c, <4>m, <4>r, FenceMove
      <4>1. CASE WalkerSteps(w)
        <5>1. Moves(w) /\ Walks(x, walker'[w])
          BY <4>1, WalkerMoves, WalkingWalks
        <5>2. walker'[w].node \notin B
          <6>1. CASE walker'[w].node \in {x.node, None, current}
            BY <2>b, <2>c, <3>x, <6>1
          <6>2. CASE /\ x.node \in Nodes /\ TypeOf[x.node] # "approval"
                     /\ \/ walker'[w].node = FindNextNode(x.node)
                        \/ TypeOf[x.node] = "execution"
            BY <2>b, <3>x, <6>2
          <6>3. CASE /\ x.pc = "decide" /\ x.node \in Nodes
                     /\ walker'[w].node = FindNextNodeByHandle(x.node, x.handle)
            <7>1. x.handle = "rejected" /\ TypeOf[x.node] = "approval"
              BY <3>x, <6>3 DEF Fitting
            <7> QED
              BY <2>b, <3>x, <6>3, <7>1
          <6> QED
            BY <5>1, <6>1, <6>2, <6>3 DEF Walks
        <5>3. walker'[w].pc \in {"read", "resume", "decide"} => walker'[w].handle = "rejected"
          BY <3>x, <5>1 DEF Walks
        <5> QED
          BY <4>m, <5>1, <5>2, <5>3 DEF Outside
      <4>2. CASE \/ StartFlow(w) \/ CompleteInstance(w) \/ FailInstance(w) \/ FailApprovalResume(w)
                 \/ RestartFailedInstance(w) \/ ResetForRecovery(w) \/ CreateAndEnterWaiting(w)
        <5>1. /\ Moves(w) /\ walker'[w].node \in {StartNode, x.node, None}
              /\ walker'[w].pc \notin {"read", "resume", "decide"}
          BY <4>2, StatusMoves, ApprovalMoves
        <5> QED
          BY <2>b, <3>x, <4>m, <5>1 DEF Outside
      <4>3. CASE FailOnError(w)
        BY <2>b, <4>3, <4>m, StatusMoves, IdleIs DEF Outside
      <4>4. CASE ResumeRunning(w)
        BY <2>b, <3>x, <4>4, <4>m, ApprovalMoves DEF Outside
      <4>5. CASE ApproveTask(w)
        <5>1. CASE /\ x.task \in Tasks /\ task' = [task EXCEPT ![x.task].status = "approved"]
          <6>1. task'[x.task].status = "approved"
            BY <5>1 DEF FlowTypeOK, TypeOK
          <6> QED
            BY <1>3, <5>1, <6>1 DEF Approved
        <5>2. CASE walker'[w] = IdleWalker
          BY <2>b, <4>5, <4>m, <5>2, RequestMoves, IdleIs DEF Outside
        <5> QED
          BY <4>5, <5>1, <5>2, RequestMoves
      <4>6. CASE RunRecoveryAttempt(w)
        <5>1. Moves(w) /\ Resumes(x, walker'[w])
          BY <4>6, RecoveryMoves
        <5>2. walker'[w].node \notin B
          <6>1. CASE walker'[w].node \in {None, StartNode, x.node}
            BY <2>b, <3>x, <6>1
          <6>2. CASE /\ x.node \in Nodes /\ TypeOf[x.node] # "approval"
                     /\ \/ TypeOf[x.node] = "execution"
                        \/ walker'[w].node = FindNextNodeByHandle(x.node, "default")
            BY <2>b, <3>x, <6>2
          <6> QED
            BY <5>1, <6>1, <6>2 DEF Resumes
        <5>3. walker'[w].pc \in {"read", "resume", "decide"} => walker'[w].handle = "rejected"
          BY <1>3, <5>1 DEF Resumes
        <5> QED
          BY <4>m, <5>1, <5>2, <5>3 DEF Outside
      <4> QED
        BY <2>1, <3>2, <4>1, <4>2, <4>3, <4>4, <4>5, <4>6, StepIs
    <3> QED
      BY <3>1, <3>2
  <2>2. CASE Outsiders
    <3> USE DEF row, mem, seen
    <3>m. ASSUME NEW w \in Walkers, Moves(w), Outside(B, walker'[w]), UNCHANGED <<current, run>>
          PROVE  Before(B)'
      BY <1>3, <2>c, <3>m, FenceMove
    <3>1. ASSUME NEW w \in Walkers, CreateInstance(w) \/ RecoverInstance(w) \/ ContextExpires(w)
          PROVE  Before(B)'
      <4>1. UNCHANGED <<current, run>>
        BY <3>1 DEF CreateInstance, RecoverInstance, ContextExpires
      <4>2. /\ Moves(w) /\ walker'[w].node \in {None, current, walker[w].node}
            /\ walker'[w].pc \notin {"read", "resume", "decide"}
        BY <3>1, RequestMoves, RunMoves
      <4> QED
        BY <2>b, <2>c, <2>o, <3>m, <4>1, <4>2 DEF Outside
    <3>2. ASSUME NEW w \in Walkers, NEW t \in Tasks, LoadPendingApprovalTask(t, w) \/ RejectTask(t, w)
          PROVE  Before(B)'
      <4>1. UNCHANGED <<current, run>>
        BY <3>2 DEF LoadPendingApprovalTask, RejectTask, Decide
      <4>2. /\ Moves(w) /\ walker'[w].node = None
            /\ \/ walker'[w].pc = "approve"
               \/ walker'[w].pc = "read" /\ walker'[w].handle = "rejected"
        BY <3>2, RequestMoves
      <4> QED
        BY <2>b, <3>m, <4>1, <4>2 DEF Outside
    <3>3. ASSUME NEW w \in Walkers, NEW n \in RetryTargets, RetryInstance(n, w)
          PROVE  Before(B)'
      <4>1. UNCHANGED <<current, run>>
        BY <3>3 DEF RetryInstance
      <4>2. Moves(w) /\ walker'[w].pc = "restart" /\ walker'[w].node \in {current, n}
        BY <3>3, RequestMoves
      <4>3. n \notin B
        BY <2>b
      <4> QED
        BY <2>c, <3>m, <4>1, <4>2, <4>3 DEF Outside
    <3>4. CASE \/ CancelInstance \/ CancelPendingTasks \/ DismissIncident \/ ExpireTimedOut
               \/ \E t \in Tasks : FailExpiredApproval(t)
      <4>1. UNCHANGED <<current, run, walker>>
        BY <3>4 DEF CancelInstance, CancelPendingTasks, DismissIncident, ExpireTimedOut,
           FailExpiredApproval
      <4> QED
        BY <1>3, <4>1 DEF Before
    <3>5. CASE CancelContext
      <4>1. UNCHANGED <<current, run>>
        BY <3>5 DEF CancelContext
      <4>2. \A w \in Walkers : Outside(B, walker'[w])
        BY <2>o, <3>5, CancelContextKeeps DEF Outside
      <4> QED
        BY <1>3, <4>1, <4>2 DEF Before, Outside
    <3>6. ASSUME NEW r \in Runs PROVE ~RunEnds(r)
      BY <2>c DEF RunEnds
    <3>7. CASE Crash
      <4>1. current' = current /\ \A w \in Walkers : walker'[w] = IdleWalker
        BY <3>7 DEF Crash
      <4>2. \A r \in Runs : run'[r] = "none"
        BY <2>c, <3>7 DEF Crash
      <4>3. Outside(B, IdleWalker)
        BY <2>b, IdleIs DEF Outside
      <4> QED
        BY <2>c, <4>1, <4>2, <4>3 DEF Before, Outside
    <3> QED
      BY <2>2, <3>1, <3>2, <3>3, <3>4, <3>5, <3>6, <3>7 DEF Outsiders
  <2>3. CASE UNCHANGED vars
    <3>1. UNCHANGED <<current, run, walker>>
      BY <2>3 DEF vars, row
    <3> QED
      BY <1>3, <3>1 DEF Before
  <2> QED
    BY <2>1, <2>2, <2>3 DEF Next, Outsiders
<1> QED
  BY <1>1, <1>2, <1>3 DEF FenceInv, Before

\* Behind a fence nothing is executed before somebody approved.
LEMMA FenceHolds ==
  ASSUME NEW B, Fenced(B)
  PROVE  Spec => []ApprovalGuardsExecution
<1>1. Init => FenceInv(B)
  BY IdleIs, GraphConstants DEF Init, FenceInv, Outside, Fenced
<1>2. FlowTypeOK /\ FenceInv(B) /\ [Next]_vars => FenceInv(B)'
  BY FenceStep
<1>3. FenceInv(B) => ApprovalGuardsExecution
  BY DEF FenceInv, ApprovalGuardsExecution, Approved
<1> QED
  BY <1>1, <1>2, <1>3, FlowTypesCorrect, PTL DEF Spec

\* What cannot be reached without an approval is behind a fence.
LEMMA EdgesFence ==
  ASSUME \A n \in Unapproved : TypeOf[n] # "execution"
  PROVE  Fenced(Nodes \ Unapproved)
<1> DEFINE Entries == ({StartNode} \cup RetryTargets) \cap Nodes
<1>1. Entries \subseteq Unapproved /\ Unapproved \subseteq Nodes
  BY DEF Unapproved
<1>2. ASSUME NEW i \in DOMAIN Edges, Free(i), Edges[i].source \in Unapproved
      PROVE  Edges[i].target \in Unapproved
  <2>1. Edges[i].target \in Nodes
    <3>1. \A S : \A s \in Seq(S) : \A j \in DOMAIN s : s[j] \in S
      OBVIOUS
    <3>2. Edges[i] \in [source : Nodes, handle : Handles, target : Nodes]
      BY <3>1, GraphConstants
    <3> QED
      BY <3>2
  <2>2. ASSUME NEW T \in SUBSET Nodes, Entries \subseteq T,
               \A j \in DOMAIN Edges : Free(j) /\ Edges[j].source \in T => Edges[j].target \in T
        PROVE  Edges[i].target \in T
    BY <1>2, <2>2 DEF Unapproved
  <2> QED
    BY <2>1, <2>2 DEF Unapproved
<1>3. ASSUME NEW n \in Unapproved, TypeOf[n] = "approval"
      PROVE  FindNextNodeByHandle(n, "rejected") \notin Nodes \ Unapproved
  <2>1. CASE FindNextNodeByHandle(n, "rejected") = None
    BY <2>1, GraphConstants
  <2>2. CASE FindNextNodeByHandle(n, "rejected") # None
    <3>1. PICK i \in From(n) : /\ FindNextNodeByHandle(n, "rejected") = Edges[i].target
                              /\ Edges[i].handle = "rejected"
      BY <2>2, RoutesFollowEdges
    <3> QED
      BY <1>2, <3>1 DEF From, Free
  <2> QED
    BY <2>1, <2>2
<1>4. ASSUME NEW n \in Unapproved, TypeOf[n] # "approval"
      PROVE  /\ FindNextNode(n) \notin Nodes \ Unapproved
             /\ FindNextNodeByHandle(n, "default") \notin Nodes \ Unapproved
  <2>1. \A i \in From(n) : Edges[i].target \in Unapproved
    BY <1>2, <1>4 DEF From, Free
  <2>2. None \notin Nodes
    BY GraphConstants
  <2> QED
    BY <2>1, <2>2, RoutesFollowEdges
<1> QED
  BY <1>1, <1>3, <1>4, RoutesLead DEF Fenced

\* On a graph none of whose executions can be reached from the start, or from a node of which a
\* retry is asked, without the approved side of an approval, nothing is executed before somebody
\* approved: whatever recovers, expires, times out, crashes or interleaves.
THEOREM ApprovalsGuard ==
  ASSUME \A n \in Unapproved : TypeOf[n] # "execution"
  PROVE  Spec => []ApprovalGuardsExecution
BY EdgesFence, FenceHolds
-----------------------------------------------------------------------------
(* One playbook at a time *)

\* A step of a goroutine that does not begin to work keeps the others in place.
LEMMA WorkMove ==
  ASSUME FlowTypeOK, WorkInv, NEW w \in Walkers, Moves(w),
         walker'[w].pc \notin {"restart", "reset", "recover"},
         Working(walker'[w]) => \/ Working(walker[w])
                                \/ \A v \in Walkers : ~Working(walker[v]),
         status' \in {"none", "pending", "waiting_approval", "completed"} =>
           /\ ~Working(walker'[w])
           /\ \/ Working(walker[w])
              \/ status \in {"none", "pending", "waiting_approval", "completed"}
              \/ \A v \in Walkers : ~Working(walker[v])
  PROVE  OneWorks'
<1>1. \A v \in Walkers \ {w} : walker'[v] = walker[v]
  BY DEF Moves, FlowTypeOK, TypeOK
<1>2. \A v \in Walkers : walker'[v].pc \notin {"restart", "reset", "recover"}
  BY <1>1 DEF WorkInv, OneWorks
<1>3. \A v, u \in Walkers : Working(walker'[v]) /\ Working(walker'[u]) => v = u
  BY <1>1 DEF WorkInv, OneWorks, Working
<1>4. status' \in {"none", "pending", "waiting_approval", "completed"} =>
        \A v \in Walkers : ~Working(walker'[v])
  BY <1>1 DEF WorkInv, OneWorks, Working
<1> QED
  BY <1>2, <1>3, <1>4 DEF OneWorks, Working

\* No playbook is at work: then none begins to by a step that starts none.
LEMMA NoneAwaited ==
  ASSUME \A r \in Runs : run'[r] # "active"
  PROVE  RunIsAwaited' /\ OneActiveRun'
BY DEF RunIsAwaited, OneActiveRun

\* The runs at work stay the ones that are awaited.
LEMMA AwaitedMove ==
  ASSUME FlowTypeOK, WorkInv, NEW w \in Walkers, Moves(w),
         \A r \in Runs : run'[r] = "active" => run[r] = "active",
         status' \in {"none", "pending", "waiting_approval", "completed"} =>
           status \in {"none", "pending", "waiting_approval", "completed"},
         \A r \in Runs : run'[r] = "active" /\ Working(walker'[w]) =>
           \/ walker'[w].done
           \/ walker'[w].pc = "await" /\ walker'[w].run = r
  PROVE  RunIsAwaited' /\ OneActiveRun'
<1>1. \A v \in Walkers \ {w} : walker'[v] = walker[v]
  BY DEF Moves, FlowTypeOK, TypeOK
<1>2. ASSUME NEW r \in Runs, run'[r] = "active"
      PROVE  /\ status' \notin {"none", "pending", "waiting_approval", "completed"}
             /\ \A v \in Walkers : Working(walker'[v]) =>
                  \/ walker'[v].done
                  \/ walker'[v].pc = "await" /\ walker'[v].run = r
  BY <1>1, <1>2 DEF WorkInv, RunIsAwaited, Working
<1>3. OneActiveRun'
  BY DEF WorkInv, OneActiveRun
<1>4. RunIsAwaited'
  BY <1>2 DEF RunIsAwaited, Working
<1> QED
  BY <1>3, <1>4

\* A goroutine at work with a live context that awaits nothing leaves no playbook at work.
LEMMA NothingRuns ==
  ASSUME WorkInv, NEW w \in Walkers, Working(walker[w]), ~walker[w].done, walker[w].pc # "await"
  PROVE  \A r \in Runs : run[r] # "active"
BY DEF WorkInv, RunIsAwaited

LEMMA WorkStep ==
  ASSUME FlowTypeOK, WorkInv, Undisturbed, [Next]_vars
  PROVE  WorkInv'
<1> DEFINE Resting(s) == s \in {"none", "pending", "waiting_approval", "completed"}
<1>f. \A v \in Walkers : walker[v].pc \notin {"restart", "reset", "recover"}
  BY DEF WorkInv, OneWorks
<1>i. OneActiveRun /\ OneWorks /\ RunIsAwaited
  BY DEF WorkInv
<1>s. SUFFICES OneWorks' /\ RunIsAwaited' /\ OneActiveRun'
  BY DEF WorkInv
<1>1. ASSUME NEW w \in Walkers, Step(w)
      PROVE  OneWorks' /\ RunIsAwaited' /\ OneActiveRun'
  <2> DEFINE x == walker[w]
             y == walker'[w]
  <2>1. CASE WalkerSteps(w)
    <3>1. Moves(w) /\ GoesOn(x, y)
      BY <2>1, WalkerMoves
    <3>2. status' = status
      BY <2>1, WalkingKeepsStatus DEF WalkerSteps, KeepsStatus
    <3>3. run' = run
      <4>1. x.pc # "await" /\ y.pc # "await"
        BY <3>1 DEF GoesOn
      <4>2. ~(LaunchRun(w) \/ PollRun(w) \/ AwaitInterrupted(w))
        BY <4>1, RunMoves
      <4> QED
        BY <1>1, <4>2, StepsLeaveRows
    <3>4. OneWorks'
      <4>1. y.pc \notin {"restart", "reset", "recover"} /\ (Working(y) => Working(x))
        BY <3>1 DEF GoesOn
      <4>2. Resting(status') => ~Working(y)
        BY <1>i, <3>2, <4>1 DEF OneWorks
      <4> QED
        BY <3>1, <3>2, <4>1, <4>2, WorkMove
    <3>5. \A r \in Runs : run'[r] = "active" /\ Working(y) => y.done
      BY <1>i, <3>1, <3>3 DEF GoesOn, RunIsAwaited
    <3> QED
      BY <3>1, <3>2, <3>3, <3>4, <3>5, AwaitedMove
  <2>2. CASE StartFlow(w)
    <3>1. Moves(w) /\ y.pc \in {"node", "fail", "leave"} /\ (status # "pending" => y.pc = "leave")
      BY <2>2, StatusMoves
    <3>2. /\ run' = run
          /\ status = "pending" => status' = "running"
          /\ status # "pending" => status' = status
      BY <2>2 DEF StartFlow, Becomes
    <3>3. CASE status = "pending"
      <4>1. (\A v \in Walkers : ~Working(walker[v])) /\ \A r \in Runs : run[r] # "active"
        BY <1>i, <3>3 DEF OneWorks, RunIsAwaited
      <4>2. OneWorks'
        BY <3>1, <3>2, <3>3, <4>1, WorkMove
      <4> QED
        BY <3>2, <4>1, <4>2, NoneAwaited
    <3>4. CASE status # "pending"
      <4>1. ~Working(y)
        BY <3>1, <3>4 DEF Working, WorkPCs
      <4>2. OneWorks'
        BY <3>1, <3>2, <3>4, <4>1, WorkMove
      <4> QED
        BY <3>1, <3>2, <3>4, <4>1, <4>2, AwaitedMove
    <3> QED
      BY <3>3, <3>4
  <2>3. CASE CompleteInstance(w)
    <3>1. Moves(w) /\ ~Working(y) /\ y.pc = "leave"
      BY <2>3, StatusMoves DEF Working, WorkPCs
    <3>2. /\ run' = run /\ x.pc = "complete" /\ ~x.done /\ (status' = status \/ status' = "completed")
      BY <2>3 DEF CompleteInstance, BecomesWithIncident, Becomes, At
    <3>3. Working(x) /\ \A r \in Runs : run'[r] # "active"
      BY <3>2, NothingRuns DEF Working, WorkPCs
    <3>4. OneWorks'
      BY <3>1, <3>3, WorkMove
    <3> QED
      BY <3>3, <3>4, NoneAwaited
  <2>4. CASE FailInstance(w) \/ FailApprovalResume(w) \/ FailOnError(w)
    <3>1. Moves(w) /\ y.pc \in {"leave", "idle"}
      BY <2>4, StatusMoves, IdleIs
    <3>2. ~Working(y)
      BY <3>1 DEF Working, WorkPCs
    <3>3. run' = run /\ (status' = status \/ status' = "failed")
      BY <2>4 DEF FailInstance, FailApprovalResume, FailOnError, BecomesWithIncident, Becomes
    <3>4. OneWorks'
      BY <3>1, <3>2, <3>3, WorkMove
    <3> QED
      BY <3>1, <3>2, <3>3, <3>4, AwaitedMove
  <2>5. CASE CreateAndEnterWaiting(w)
    <3>1. Moves(w) /\ x.pc = "wait" /\ ~x.done /\ y.pc \in {"ensure", "leave"}
      BY <2>5, ApprovalMoves
    <3>2. Working(x) /\ ~Working(y)
      BY <3>1 DEF Working, WorkPCs
    <3>3. run' = run
      BY <2>5 DEF CreateAndEnterWaiting
    <3>4. \A r \in Runs : run'[r] # "active"
      BY <3>1, <3>2, <3>3, NothingRuns
    <3>5. OneWorks'
      BY <3>1, <3>2, WorkMove
    <3> QED
      BY <3>4, <3>5, NoneAwaited
  <2>6. CASE ResumeRunning(w)
    <3>1. Moves(w) /\ (status # "waiting_approval" => y.pc = "leave")
          /\ y.pc \in {"decide", "leave"}
      BY <2>6, ApprovalMoves
    <3>2. /\ run' = run
          /\ status = "waiting_approval" => status' = "running"
          /\ status # "waiting_approval" => status' = status
      BY <2>6 DEF ResumeRunning, Becomes
    <3>3. CASE status = "waiting_approval"
      <4>1. (\A v \in Walkers : ~Working(walker[v])) /\ \A r \in Runs : run[r] # "active"
        BY <1>i, <3>3 DEF OneWorks, RunIsAwaited
      <4>2. OneWorks'
        BY <3>1, <3>2, <3>3, <4>1, WorkMove
      <4> QED
        BY <3>2, <4>1, <4>2, NoneAwaited
    <3>4. CASE status # "waiting_approval"
      <4>1. ~Working(y)
        BY <3>1, <3>4 DEF Working, WorkPCs
      <4>2. OneWorks'
        BY <3>1, <3>2, <3>4, <4>1, WorkMove
      <4> QED
        BY <3>1, <3>2, <3>4, <4>1, <4>2, AwaitedMove
    <3> QED
      BY <3>3, <3>4
  <2>7. CASE ApproveTask(w)
    <3>1. Moves(w) /\ y.pc \in {"read", "idle"}
      BY <2>7, RequestMoves, IdleIs
    <3>2. ~Working(y)
      BY <3>1 DEF Working, WorkPCs
    <3>3. run' = run /\ status' = status
      BY <2>7 DEF ApproveTask, Decide, row
    <3>4. OneWorks'
      BY <3>1, <3>2, <3>3, WorkMove
    <3> QED
      BY <3>1, <3>2, <3>3, <3>4, AwaitedMove
  <2>8. CASE LaunchRun(w)
    <3>1. /\ Moves(w) /\ x.pc = "launch" /\ ~x.done /\ y.pc = "await"
          /\ y.run \in Runs /\ run' = [run EXCEPT ![y.run] = "active"]
      BY <2>8, RunMoves
    <3>2. Working(x) /\ \A r \in Runs : run[r] # "active"
      BY <3>1, NothingRuns DEF Working, WorkPCs
    <3>3. \A r \in Runs : run'[r] = "active" => r = y.run
      BY <3>1, <3>2 DEF FlowTypeOK, TypeOK
    <3>4. status' = status /\ ~Resting(status)
      <4>1. status' = status
        BY <2>8 DEF LaunchRun, row
      <4> QED
        BY <1>i, <3>2, <4>1 DEF OneWorks
    <3>5. OneWorks'
      BY <3>1, <3>2, <3>4, WorkMove
    <3>6. \A v \in Walkers : Working(walker'[v]) => v = w
      <4>1. Working(y)
        BY <3>1 DEF Working, WorkPCs
      <4> QED
        BY <3>5, <4>1 DEF OneWorks, Working
    <3>7. RunIsAwaited'
      <4>1. \A v \in Walkers : Working(walker'[v]) => walker'[v].pc = "await" /\ walker'[v].run = y.run
        BY <3>1, <3>6
      <4> QED
        BY <3>3, <3>4, <4>1 DEF RunIsAwaited, Working
    <3>8. OneActiveRun'
      BY <3>3 DEF OneActiveRun
    <3> QED
      BY <3>5, <3>7, <3>8
  <2>9. CASE PollRun(w) \/ AwaitInterrupted(w)
    <3>1. /\ Moves(w) /\ x.pc = "await" /\ y.pc = "record" /\ y.done = x.done
          /\ ~x.done => run'[x.run] # "active"
          /\ \A r \in Runs : run'[r] = "active" => run[r] = "active"
      BY <2>9, RunMoves
    <3>2. Working(x) /\ status' = status
      BY <2>9, <3>1 DEF PollRun, AwaitInterrupted, row, Working, WorkPCs
    <3>3. ~Resting(status)
      BY <1>i, <3>2 DEF OneWorks
    <3>4. OneWorks'
      BY <3>1, <3>2, <3>3, WorkMove
    <3>5. \A r \in Runs : run'[r] = "active" => y.done
      <4>1. ASSUME NEW r \in Runs, run'[r] = "active", ~x.done
            PROVE  FALSE
        <5>1. x.run = r
          BY <1>i, <3>1, <3>2, <4>1 DEF RunIsAwaited
        <5> QED
          BY <3>1, <4>1, <5>1
      <4> QED
        BY <3>1, <4>1
    <3> QED
      BY <3>1, <3>2, <3>4, <3>5, AwaitedMove
  <2>10. ~RunRecoveryAttempt(w) /\ ~RestartFailedInstance(w) /\ ~ResetForRecovery(w)
    BY <1>f, StatusMoves, RecoveryMoves
  <2> QED
    BY <1>1, <2>1, <2>2, <2>3, <2>4, <2>5, <2>6, <2>7, <2>8, <2>9, <2>10, StepIs
<1>2. CASE Outsiders
  <2> USE DEF row, mem, seen
  <2>1. ASSUME NEW w \in Walkers, CreateInstance(w)
        PROVE  OneWorks' /\ RunIsAwaited' /\ OneActiveRun'
    <3>1. Moves(w) /\ walker'[w].pc = "start"
      BY <2>1, RequestMoves
    <3>2. status = "none" /\ run' = run
      BY <2>1 DEF CreateInstance
    <3>3. ~Working(walker'[w])
      BY <3>1 DEF Working, WorkPCs
    <3>4. OneWorks'
      BY <3>1, <3>2, <3>3, WorkMove
    <3> QED
      BY <1>i, <3>2, <3>4, NoneAwaited DEF RunIsAwaited
  <2>2. ASSUME NEW w \in Walkers, ContextExpires(w)
        PROVE  OneWorks' /\ RunIsAwaited' /\ OneActiveRun'
    <3>1. Moves(w) /\ walker[w].pc = "await" /\ walker'[w].pc = "await" /\ walker'[w].done
      BY <2>2, RunMoves
    <3>2. status' = status /\ run' = run
      BY <2>2 DEF ContextExpires
    <3>3. Working(walker[w])
      BY <3>1 DEF Working, WorkPCs
    <3>4. ~Resting(status)
      BY <1>i, <3>3 DEF OneWorks
    <3>5. OneWorks'
      BY <3>1, <3>2, <3>3, <3>4, WorkMove
    <3> QED
      BY <3>1, <3>2, <3>5, AwaitedMove
  <2>3. ASSUME NEW w \in Walkers
        PROVE  ~RecoverInstance(w) /\ \A n \in RetryTargets : ~RetryInstance(n, w)
    BY RequestMoves DEF Undisturbed
  <2>4. ASSUME NEW w \in Walkers, NEW t \in Tasks, LoadPendingApprovalTask(t, w) \/ RejectTask(t, w)
        PROVE  OneWorks' /\ RunIsAwaited' /\ OneActiveRun'
    <3>1. Moves(w) /\ walker'[w].pc \in {"approve", "read"}
      BY <2>4, RequestMoves
    <3>2. status' = status /\ run' = run
      BY <2>4 DEF LoadPendingApprovalTask, RejectTask, Decide
    <3>3. ~Working(walker'[w])
      BY <3>1 DEF Working, WorkPCs
    <3>4. OneWorks'
      BY <3>1, <3>2, <3>3, WorkMove
    <3> QED
      BY <3>1, <3>2, <3>3, <3>4, AwaitedMove
  <2>5. CASE \/ CancelInstance \/ CancelPendingTasks \/ DismissIncident \/ ExpireTimedOut
             \/ \E t \in Tasks : FailExpiredApproval(t)
    <3>1. walker' = walker /\ run' = run /\ (status' = status \/ status' \in {"cancelled", "failed"})
      BY <2>5 DEF CancelInstance, CancelPendingTasks, DismissIncident, ExpireTimedOut,
         FailExpiredApproval, BecomesWithIncident, Becomes
    <3> QED
      BY <1>i, <3>1 DEF OneWorks, RunIsAwaited, OneActiveRun, Working
  <2>6. CASE CancelContext
    <3>1. /\ run' = run /\ status' = status
          /\ \A v \in Walkers : /\ walker'[v].pc = walker[v].pc /\ walker'[v].run = walker[v].run
                                /\ walker[v].done => walker'[v].done
      BY <2>6, CancelContextKeeps DEF CancelContext
    <3> QED
      BY <1>i, <3>1 DEF OneWorks, RunIsAwaited, OneActiveRun, Working
  <2>7. ASSUME NEW r \in Runs, RunEnds(r)
        PROVE  OneWorks' /\ RunIsAwaited' /\ OneActiveRun'
    <3>1. /\ walker' = walker /\ status' = status
          /\ \A q \in Runs : run'[q] = "active" => run[q] = "active"
      BY <2>7 DEF RunEnds, FlowTypeOK, TypeOK, Outcomes
    <3> QED
      BY <1>i, <3>1 DEF OneWorks, RunIsAwaited, OneActiveRun, Working
  <2>8. CASE Crash
    <3>1. /\ \A v \in Walkers : walker'[v].pc = "idle"
          /\ \A r \in Runs : run'[r] # "active"
      BY <2>8, IdleIs DEF Crash
    <3>2. OneWorks'
      BY <3>1 DEF OneWorks, Working, WorkPCs
    <3> QED
      BY <3>1, <3>2, NoneAwaited
  <2> QED
    BY <1>2, <2>1, <2>2, <2>3, <2>4, <2>5, <2>6, <2>7, <2>8 DEF Outsiders
<1>3. CASE UNCHANGED vars
  <2>1. walker' = walker /\ run' = run /\ status' = status
    BY <1>3 DEF vars, row
  <2> QED
    BY <1>i, <2>1 DEF OneWorks, RunIsAwaited, OneActiveRun, Working
<1> QED
  BY <1>1, <1>2, <1>3 DEF Next, Outsiders

LEMMA WorkInvHolds ==
  ASSUME Undisturbed
  PROVE  Spec => []WorkInv
<1>1. Init => WorkInv
  BY IdleIs DEF Init, WorkInv, OneWorks, RunIsAwaited, OneActiveRun, Working, WorkPCs
<1>2. FlowTypeOK /\ WorkInv /\ [Next]_vars => WorkInv'
  BY WorkStep
<1> QED
  BY <1>1, <1>2, FlowTypesCorrect, PTL DEF Spec

\* An instance that nobody retries or recovers never has two playbooks running at once,
\* whatever else happens to it: one goroutine walks its graph, and it waits for the run it
\* started (waitForRunCompletion) before it starts another.
THEOREM OneRunCorrect ==
  ASSUME Undisturbed
  PROVE  Spec => []OneActiveRun
<1>1. WorkInv => OneActiveRun
  BY DEF WorkInv
<1> QED
  BY <1>1, WorkInvHolds, PTL

\* Such an instance is not reported as completed while something runs for it (complete).
THEOREM CompletionCorrect ==
  ASSUME Undisturbed
  PROVE  Spec => []CompletedMeansDone
<1>1. WorkInv => CompletedMeansDone
  BY DEF WorkInv, RunIsAwaited, CompletedMeansDone
<1> QED
  BY <1>1, WorkInvHolds, PTL
-----------------------------------------------------------------------------
(* A branch says how its playbook ended *)

\* What the steps of a goroutine make of a node's outcome.
OutcomeWalks(w) ==
  \/ walker'[w].pc \notin OutcomePCs /\ did' = did /\ taken' = taken
  \/ /\ BeginNode(w) /\ Working(walker[w]) /\ walker[w].node \in Nodes
     /\ walker'[w].pc \notin {"record", "context", "branch"}
     /\ walker'[w].node = walker[w].node
  \/ /\ LaunchRefused(w) /\ walker[w].pc = "launch" /\ walker'[w].handle = "failed"
     /\ walker'[w].pc = "record" /\ walker'[w].node = walker[w].node
  \/ /\ RecordOutcome(w) /\ walker[w].pc = "record" /\ walker[w].node \in Nodes
     /\ walker'[w].pc = "context" /\ walker'[w].node = walker[w].node
     /\ walker'[w].handle = walker[w].handle
  \/ /\ PersistContext(w) /\ walker[w].pc = "context"
     /\ walker'[w].pc = "branch" /\ walker'[w].node = walker[w].node
     /\ walker'[w].handle = walker[w].handle
  \/ /\ TakeBranch(w) /\ walker[w].pc = "branch" /\ walker[w].node \in Nodes
     /\ walker'[w].pc \notin OutcomePCs
     /\ taken' = [taken EXCEPT ![walker[w].node] = walker[w].handle]

LEMMA WalkingOutcomes ==
  ASSUME FlowTypeOK, NEW w \in Walkers, WalkerSteps(w), ~LaunchFails(w)
  PROVE  OutcomeWalks(w)
<1> DEFINE x == walker[w]
<1>x. x \in Fitting /\ x \in Walker
  BY DEF FlowTypeOK, Fitting
<1>y. ASSUME NEW y, Set(w, y)
      PROVE  walker'[w] = y
  BY <1>y DEF Set, FlowTypeOK, TypeOK
<1>k. ASSUME NEW s
      PROVE  KeepStates(x, x.node, s).node = x.node /\ KeepStates(x, x.node, s).handle = x.handle
  BY <1>x DEF KeepStates, Walker
<1>o. Step(w)
  BY DEF WalkerSteps, Step
<1>1. CASE BeginNode(w)
  <2> DEFINE k == KeepStates(x, x.node, "running")
             l == IF TypeOf[x.node] = "execution" THEN "launch" ELSE "work"
  <2>1. x.pc = "begin" /\ Set(w, GoTo(k, l))
    BY <1>1 DEF BeginNode, At
  <2>2. k \in Walker /\ k.node = x.node
    BY <1>x, <1>k, KeepIs DEF NodeStates
  <2> HIDE DEF k
  <2>3. GoTo(k, l).pc = l /\ GoTo(k, l).node = x.node
    BY <2>2 DEF GoTo, Walker
  <2>4. walker'[w].pc \in {"launch", "work"} /\ walker'[w].node = x.node
    BY <1>y, <2>1, <2>3
  <2> QED
    BY <1>1, <1>x, <2>1, <2>4 DEF OutcomeWalks, Working, WorkPCs, Fitting
<1>2. CASE LaunchRefused(w)
  <2>1. x.pc = "launch"
    BY <1>2 DEF LaunchRefused, At
  <2>2. walker'[w].pc = "record" /\ walker'[w].node = x.node /\ walker'[w].handle = "failed"
    BY <1>2, <1>x DEF LaunchRefused, FlowTypeOK, TypeOK, Set, Walker
  <2> QED
    BY <1>2, <2>1, <2>2 DEF OutcomeWalks
<1>3. CASE RecordOutcome(w)
  <2> DEFINE k == KeepStates(x, x.node, "recorded")
  <2>1. x.pc = "record" /\ Set(w, GoTo(k, "context"))
    BY <1>3 DEF RecordOutcome, At
  <2>2. k \in Walker /\ k.node = x.node /\ k.handle = x.handle
    BY <1>x, <1>k, KeepIs DEF NodeStates
  <2> HIDE DEF k
  <2>3. walker'[w].pc = "context" /\ walker'[w].node = x.node /\ walker'[w].handle = x.handle
    BY <2>1, <2>2 DEF GoTo, FlowTypeOK, TypeOK, Set, Walker
  <2> QED
    BY <1>3, <1>x, <2>1, <2>3 DEF OutcomeWalks, Fitting
<1>4. CASE PersistContext(w)
  <2>1. x.pc = "context"
    BY <1>4 DEF PersistContext, At
  <2>2. walker'[w].pc = "branch" /\ walker'[w].node = x.node /\ walker'[w].handle = x.handle
    BY <1>4, <1>x DEF PersistContext, FlowTypeOK, TypeOK, Set, Walker
  <2> QED
    BY <1>4, <2>1, <2>2 DEF OutcomeWalks
<1>5. CASE TakeBranch(w)
  <2> DEFINE k == KeepStates(x, x.node, x.handle)
             n == FindNextNodeByHandle(k.node, k.handle)
  <2>1. /\ x.pc = "branch" /\ x.node \in Nodes
        /\ taken' = [taken EXCEPT ![k.node] = k.handle]
        /\ Set(w, FollowBranch(k, k.handle))
    BY <1>5, <1>x DEF TakeBranch, At, Fitting
  <2>2. k \in Walker /\ k.node = x.node /\ k.handle = x.handle
    BY <1>x, <1>k, <2>1, KeepIs DEF Fitting, NodeStates
  <2> HIDE DEF k
  <2>3. \/ Set(w, Complete(k)) \/ Set(w, FailWith(k, TRUE))
        \/ n \in Nodes /\ Set(w, Enter(k, n))
    BY <2>1, RoutesLead DEF FollowBranch, EnterOr
  <2>4. /\ Complete(k).pc = "complete" /\ FailWith(k, TRUE).pc = "fail"
        /\ \A m \in Nodes : Enter(k, m).pc = "node"
    BY <2>2, EnterIs, EndingIs DEF Complete, FailWith
  <2>5. walker'[w].pc \in {"complete", "fail", "node"}
    BY <1>y, <2>3, <2>4
  <2> QED
    BY <1>5, <2>1, <2>2, <2>5 DEF OutcomeWalks, OutcomePCs
<1>6. CASE ~(BeginNode(w) \/ LaunchRefused(w) \/ RecordOutcome(w) \/ PersistContext(w) \/ TakeBranch(w))
  <2>1. did' = did /\ taken' = taken
    <3>1. ~RunRecoveryAttempt(w)
      <4>1. x.pc # "recover"
        BY DEF WalkerSteps, EnterNode, BeginNode, FinishNode, NodeFails, StatementInterrupted,
           EnsureWaitingApprovalStatus, PersistWaiting, ReadForResume, RecordDecision, LaunchRefused,
           RecordOutcome, PersistContext, TakeBranch, LeaveFlow, ReadStatusForError, At
      <4> QED
        BY <4>1 DEF RunRecoveryAttempt, At
    <3> QED
      BY <1>o, <1>6, <3>1, StepsLeaveRows
  <2>2. Moves(w) /\ GoesOn(x, walker'[w])
    BY WalkerMoves
  <2>3. walker'[w].pc \notin OutcomePCs
    <3>l. \A e \in BOOLEAN : Leave(x, e).pc = "leave"
      BY <1>x, Leaving
    <3>e. ASSUME NEW k \in Walker
          PROVE  /\ \A n \in Nodes : Enter(k, n).pc = "node"
                 /\ \A e \in BOOLEAN : /\ FailWith(k, e).pc = "fail"
                                       /\ Ending(k, "reject", e).pc = "reject"
                                       /\ Leave(k, e).pc = "leave"
                 /\ Complete(k).pc = "complete"
      BY EnterIs, EndingIs DEF FailWith, Complete, Leave
    <3>1. CASE EnterNode(w)
      <4> DEFINE l == IF TypeOf[x.node] = "approval" THEN "wait" ELSE "begin"
      <4>1. Set(w, Leave(x, FALSE)) \/ Set(w, GoTo(x, l))
        BY <3>1 DEF EnterNode
      <4>2. GoTo(x, l).pc = l
        BY <1>x DEF GoTo, Walker
      <4> QED
        BY <1>y, <3>l, <4>1, <4>2 DEF OutcomePCs
    <3>2. CASE FinishNode(w) \/ NodeFails(w)
      <4>1. PICK s \in {"completed", "failed"} :
              LET k == KeepStates(x, x.node, s)
              IN  \/ Set(w, Complete(k)) \/ Set(w, FailWith(k, TRUE))
                  \/ Set(w, EnterOr(k, FindNextNode(x.node), Complete(k)))
        BY <3>2 DEF FinishNode, NodeFails
      <4> DEFINE k == KeepStates(x, x.node, s)
      <4>2. k \in Walker
        BY <1>x, KeepIs DEF NodeStates, Outcomes
      <4>3. \/ Set(w, Complete(k)) \/ Set(w, FailWith(k, TRUE))
            \/ \E n \in Nodes : Set(w, Enter(k, n))
        BY <4>1, RoutesLead DEF EnterOr
      <4> HIDE DEF k
      <4>4. /\ \A n \in Nodes : Enter(k, n).pc = "node"
            /\ FailWith(k, TRUE).pc = "fail" /\ Complete(k).pc = "complete"
        BY <3>e, <4>2
      <4> QED
        BY <1>y, <4>3, <4>4 DEF OutcomePCs
    <3>3. CASE StatementInterrupted(w) \/ PersistWaiting(w)
      BY <1>y, <3>l, <3>3 DEF StatementInterrupted, PersistWaiting, OutcomePCs
    <3>4. CASE EnsureWaitingApprovalStatus(w)
      <4>1. Set(w, GoTo(x, "persist")) \/ Set(w, Leave(x, TRUE))
        BY <3>4 DEF EnsureWaitingApprovalStatus
      <4>2. GoTo(x, "persist").pc = "persist"
        BY <1>x DEF GoTo, Walker
      <4> QED
        BY <1>y, <3>l, <4>1, <4>2 DEF OutcomePCs
    <3>5. CASE ReadForResume(w)
      <4> DEFINE k == [x EXCEPT !.node = current, !.states = states, !.result = result]
      <4>1. \/ Set(w, Ending(k, "reject", FALSE))
            \/ Set(w, Leave(k, TRUE))
            \/ Set(w, GoTo(k, "resume"))
        BY <3>5 DEF ReadForResume
      <4>2. k \in Walker
        <5>1. states \in [Nodes -> NodeStates] /\ result \in {"none"} \cup Outcomes
              /\ current \in Nodes \cup {None}
          BY DEF FlowTypeOK, TypeOK
        <5> QED
          BY <1>x, <5>1 DEF Walker
      <4> HIDE DEF k
      <4>3. /\ GoTo(k, "resume").pc = "resume" /\ Ending(k, "reject", FALSE).pc = "reject"
            /\ Leave(k, TRUE).pc = "leave"
        BY <3>e, <4>2 DEF GoTo, Walker
      <4> QED
        BY <1>y, <4>1, <4>3 DEF OutcomePCs
    <3>6. CASE RecordDecision(w)
      <4> DEFINE k == KeepStates(x, x.node, x.handle)
                 n == FindNextNodeByHandle(k.node, k.handle)
      <4>1. /\ x.pc = "decide"
            /\ Set(w, IF k.kind = "recover" THEN FollowRecovered(k, k.handle)
                      ELSE EnterOr(k, n, IF k.handle = "rejected" THEN Ending(k, "reject", FALSE)
                                                                  ELSE Complete(k)))
        BY <3>6 DEF RecordDecision, At
      <4>2. k \in Walker
        BY <1>x, <4>1, KeepIs DEF Fitting, NodeStates
      <4> HIDE DEF k
      <4>3. \/ Set(w, Complete(k)) \/ Set(w, FailWith(k, TRUE)) \/ Set(w, Ending(k, "reject", FALSE))
            \/ n \in Nodes /\ Set(w, Enter(k, n))
        BY <4>1, RoutesLead DEF FollowRecovered, EnterOr
      <4>4. /\ \A m \in Nodes : Enter(k, m).pc = "node"
            /\ FailWith(k, TRUE).pc = "fail" /\ Complete(k).pc = "complete"
            /\ Ending(k, "reject", FALSE).pc = "reject"
        BY <3>e, <4>2
      <4> QED
        BY <1>y, <4>3, <4>4 DEF OutcomePCs
    <3>7. CASE LeaveFlow(w) \/ ReadStatusForError(w)
      <4>1. \/ Set(w, IdleWalker)
            \/ \E l \in {"errcheck", "errfail"} : Set(w, GoTo(x, l))
        BY <3>7 DEF LeaveFlow, ReadStatusForError
      <4> QED
        BY <1>x, <4>1, IdleIs DEF GoTo, FlowTypeOK, TypeOK, Set, Walker, OutcomePCs
    <3> QED
      BY <1>6, <3>1, <3>2, <3>3, <3>4, <3>5, <3>6, <3>7 DEF WalkerSteps
  <2> QED
    BY <2>1, <2>3 DEF OutcomeWalks
<1> QED
  BY <1>1, <1>2, <1>3, <1>4, <1>5, <1>6

\* While one goroutine works, nobody else is at the outcome of a node.
LEMMA OthersAreNotAtOutcomes ==
  ASSUME WorkInv, NEW w \in Walkers, Working(walker[w]), NEW v \in Walkers \ {w}
  PROVE  walker[v].pc \notin OutcomePCs
BY DEF WorkInv, OneWorks, Working, WorkPCs, OutcomePCs

\* The outcomes stay what they are: no observer changes, and a run that has ended keeps its end.
LEMMA OutcomeMove ==
  ASSUME FlowTypeOK, BranchInv, NEW w \in Walkers, Moves(w),
         did' = did, taken' = taken,
         \A r \in Runs : run[r] \in {"success", "partial"} => run'[r] = run[r],
         walker'[w].pc \notin OutcomePCs
           \/ /\ walker'[w].pc \in OutcomePCs => taken[walker'[w].node] = "none"
              /\ walker'[w].pc \notin {"context", "branch"}
              /\ walker'[w].pc = "record" /\ walker'[w].handle \in {"success", "partial"} =>
                   walker'[w].run \in Runs /\ run[walker'[w].run] = walker'[w].handle
  PROVE  BranchInv'
<1>1. \A v \in Walkers \ {w} : walker'[v] = walker[v]
  BY DEF Moves, FlowTypeOK, TypeOK
<1>2. BranchIsTrue'
  BY DEF BranchInv, BranchIsTrue
<1>3. ASSUME NEW v \in Walkers
      PROVE  walker'[v].pc \in OutcomePCs =>
               /\ taken'[walker'[v].node] = "none"
               /\ walker'[v].handle \in {"success", "partial"} =>
                    /\ walker'[v].pc = "record" =>
                         walker'[v].run \in Runs /\ run'[walker'[v].run] = walker'[v].handle
                    /\ walker'[v].pc \in {"context", "branch"} =>
                         did'[walker'[v].node] = walker'[v].handle
  <2>1. CASE v = w
    BY <2>1
  <2>2. CASE v # w
    BY <1>1, <2>2 DEF BranchInv, OutcomeIsTrue
  <2> QED
    BY <2>1, <2>2
<1> QED
  BY <1>2, <1>3 DEF BranchInv, OutcomeIsTrue

LEMMA BranchStep ==
  ASSUME FlowTypeOK, WorkInv, BranchInv, Undisturbed, "dberror" \notin Happens, [Next]_vars
  PROVE  BranchInv'
<1>f. \A v \in Walkers : walker[v].pc \notin {"restart", "reset", "recover"}
  BY DEF WorkInv, OneWorks
<1>b. BranchIsTrue /\ \A v \in Walkers : OutcomeIsTrue(walker[v])
  BY DEF BranchInv
<1>1. ASSUME NEW w \in Walkers, Step(w)
      PROVE  BranchInv'
  <2> DEFINE x == walker[w]
             y == walker'[w]
  <2>x. x \in Fitting
    BY DEF FlowTypeOK
  <2>1. CASE WalkerSteps(w)
    <3>1. Moves(w) /\ GoesOn(x, y)
      BY <2>1, WalkerMoves
    <3>2. run' = run
      <4>1. x.pc # "await" /\ y.pc # "await"
        BY <3>1 DEF GoesOn
      <4>2. ~(LaunchRun(w) \/ PollRun(w) \/ AwaitInterrupted(w))
        BY <4>1, RunMoves
      <4> QED
        BY <1>1, <4>2, StepsLeaveRows
    <3>3. OutcomeWalks(w)
      <4>1. ~LaunchFails(w)
        BY DEF LaunchFails
      <4> QED
        BY <2>1, <4>1, WalkingOutcomes
    <3>o. \A v \in Walkers \ {w} : walker'[v] = walker[v]
      BY <3>1 DEF Moves, FlowTypeOK, TypeOK
    <3>v. ASSUME Working(x)
          PROVE  \A v \in Walkers \ {w} : walker'[v].pc \notin OutcomePCs
      BY <3>o, <3>v, OthersAreNotAtOutcomes
    <3>q. ASSUME Working(x), BranchIsTrue',
                 y.pc \in OutcomePCs =>
                    /\ taken'[y.node] = "none"
                    /\ y.handle \in {"success", "partial"} =>
                         /\ y.pc = "record" => y.run \in Runs /\ run'[y.run] = y.handle
                         /\ y.pc \in {"context", "branch"} => did'[y.node] = y.handle
          PROVE  BranchInv'
      BY <3>q, <3>v DEF BranchInv, OutcomeIsTrue
    <3>4. CASE y.pc \notin OutcomePCs /\ did' = did /\ taken' = taken
      BY <3>1, <3>2, <3>4, OutcomeMove
    <3>5. CASE /\ BeginNode(w) /\ Working(x) /\ x.node \in Nodes
               /\ y.pc \notin {"record", "context", "branch"} /\ y.node = x.node
      <4>1. did' = [did EXCEPT ![x.node] = "none"] /\ taken' = [taken EXCEPT ![x.node] = "none"]
        BY <3>5 DEF BeginNode
      <4>2. taken'[x.node] = "none" /\ BranchIsTrue'
        BY <1>b, <3>5, <4>1 DEF FlowTypeOK, TypeOK, BranchIsTrue
      <4> QED
        BY <3>q, <3>5, <4>2
    <3>6. CASE /\ LaunchRefused(w) /\ x.pc = "launch" /\ y.handle = "failed"
               /\ y.pc = "record" /\ y.node = x.node
      <4>1. did' = did /\ taken' = taken
        BY <3>6 DEF LaunchRefused, seen
      <4>2. taken[x.node] = "none"
        BY <1>b, <3>6 DEF OutcomeIsTrue, OutcomePCs
      <4> QED
        BY <3>1, <3>2, <3>6, <4>1, <4>2, OutcomeMove
    <3>7. CASE /\ RecordOutcome(w) /\ x.pc = "record" /\ x.node \in Nodes
               /\ y.pc = "context" /\ y.node = x.node /\ y.handle = x.handle
      <4>1. did' = [did EXCEPT ![x.node] = Ended(x.run)] /\ taken' = taken
        BY <3>7 DEF RecordOutcome
      <4>2. /\ taken[x.node] = "none"
            /\ x.handle \in {"success", "partial"} => x.run \in Runs /\ run[x.run] = x.handle
        BY <1>b, <3>7 DEF OutcomeIsTrue, OutcomePCs
      <4>3. x.handle \in {"success", "partial"} => Ended(x.run) = x.handle
        <5>1. None \notin Runs
          BY FlowConstants
        <5> QED
          BY <4>2, <5>1 DEF Ended, Outcomes
      <4>4. did'[x.node] = Ended(x.run) /\ BranchIsTrue'
        BY <1>b, <3>7, <4>1, <4>2 DEF FlowTypeOK, TypeOK, BranchIsTrue
      <4>5. Working(x)
        BY <3>7 DEF Working, WorkPCs
      <4> QED
        BY <3>q, <3>7, <4>1, <4>2, <4>3, <4>4, <4>5
    <3>8. CASE /\ PersistContext(w) /\ x.pc = "context"
               /\ y.pc = "branch" /\ y.node = x.node /\ y.handle = x.handle
      <4>1. did' = did /\ taken' = taken
        BY <3>8 DEF PersistContext, seen
      <4>2. /\ taken[x.node] = "none"
            /\ x.handle \in {"success", "partial"} => did[x.node] = x.handle
        BY <1>b, <3>8 DEF OutcomeIsTrue, OutcomePCs
      <4>3. Working(x) /\ BranchIsTrue'
        BY <1>b, <3>8, <4>1 DEF Working, WorkPCs, BranchIsTrue
      <4> QED
        BY <3>q, <3>8, <4>1, <4>2, <4>3
    <3>9. CASE /\ TakeBranch(w) /\ x.pc = "branch" /\ x.node \in Nodes /\ y.pc \notin OutcomePCs
               /\ taken' = [taken EXCEPT ![x.node] = x.handle]
      <4>1. did' = did
        BY <3>9 DEF TakeBranch
      <4>2. x.handle \in {"success", "partial"} => did[x.node] = x.handle
        BY <1>b, <3>9 DEF OutcomeIsTrue, OutcomePCs
      <4>3. Working(x) /\ BranchIsTrue'
        BY <1>b, <3>9, <4>1, <4>2 DEF Working, WorkPCs, BranchIsTrue, FlowTypeOK, TypeOK
      <4> QED
        BY <3>q, <3>9, <4>3
    <3> QED
      BY <3>3, <3>4, <3>5, <3>6, <3>7, <3>8, <3>9 DEF OutcomeWalks
  <2>2. CASE \/ StartFlow(w) \/ CompleteInstance(w) \/ FailInstance(w) \/ FailApprovalResume(w)
             \/ FailOnError(w) \/ CreateAndEnterWaiting(w) \/ ResumeRunning(w) \/ ApproveTask(w)
    <3>1. /\ Moves(w)
          /\ walker'[w].pc \in {"node", "fail", "leave", "idle", "ensure", "decide", "read"}
      BY <2>2, StatusMoves, ApprovalMoves, RequestMoves, IdleIs
    <3>2. did' = did /\ taken' = taken /\ run' = run
      BY <2>2 DEF StartFlow, CompleteInstance, FailInstance, FailApprovalResume, FailOnError,
         CreateAndEnterWaiting, ResumeRunning, ApproveTask, Decide, seen
    <3> QED
      BY <3>1, <3>2, OutcomeMove DEF OutcomePCs
  <2>3. CASE LaunchRun(w)
    <3>1. /\ Moves(w) /\ x.pc = "launch" /\ y.pc = "await" /\ y.node = x.node
          /\ y.run \in Runs /\ run[y.run] = "none" /\ run' = [run EXCEPT ![y.run] = "active"]
      BY <2>3, RunMoves
    <3>2. did' = did /\ taken' = taken
      BY <2>3 DEF LaunchRun, seen
    <3>3. taken[x.node] = "none"
      BY <1>b, <3>1 DEF OutcomeIsTrue, OutcomePCs
    <3>4. \A r \in Runs : run[r] \in {"success", "partial"} => run'[r] = run[r]
      BY <3>1 DEF FlowTypeOK, TypeOK
    <3> QED
      BY <3>1, <3>2, <3>3, <3>4, OutcomeMove
  <2>4. CASE PollRun(w) \/ AwaitInterrupted(w)
    <3>1. /\ Moves(w) /\ x.pc = "await" /\ x.run \in Runs /\ y.pc = "record" /\ y.node = x.node
          /\ y.run = x.run /\ (y.handle = "failed" \/ run[x.run] = y.handle)
          /\ \A r \in Runs : run'[r] = run[r] \/ (run[r] = "active" /\ run'[r] = "cancelled")
      BY <2>4, RunMoves
    <3>2. did' = did /\ taken' = taken
      BY <2>4 DEF PollRun, AwaitInterrupted, seen
    <3>3. taken[x.node] = "none"
      BY <1>b, <3>1 DEF OutcomeIsTrue, OutcomePCs
    <3>4. \A r \in Runs : run[r] \in {"success", "partial"} => run'[r] = run[r]
      BY <3>1
    <3> QED
      BY <3>1, <3>2, <3>3, <3>4, OutcomeMove
  <2>5. ~RunRecoveryAttempt(w) /\ ~RestartFailedInstance(w) /\ ~ResetForRecovery(w)
    BY <1>f, StatusMoves, RecoveryMoves
  <2> QED
    BY <1>1, <2>1, <2>2, <2>3, <2>4, <2>5, StepIs
<1>2. CASE Outsiders
  <2> USE DEF row, mem, seen
  <2>1. ASSUME NEW w \in Walkers,
               \/ CreateInstance(w)
               \/ \E t \in Tasks : LoadPendingApprovalTask(t, w) \/ RejectTask(t, w)
        PROVE  BranchInv'
    <3>1. Moves(w) /\ walker'[w].pc \in {"start", "approve", "read"}
      BY <2>1, RequestMoves
    <3>2. did' = did /\ taken' = taken /\ run' = run
      BY <2>1 DEF CreateInstance, LoadPendingApprovalTask, RejectTask, Decide
    <3> QED
      BY <3>1, <3>2, OutcomeMove DEF OutcomePCs
  <2>2. ASSUME NEW w \in Walkers, ContextExpires(w)
        PROVE  BranchInv'
    <3>1. /\ Moves(w) /\ walker[w].pc = "await" /\ walker'[w].pc = "await"
          /\ walker'[w].node = walker[w].node
      BY <2>2, RunMoves
    <3>2. did' = did /\ taken' = taken /\ run' = run
      BY <2>2 DEF ContextExpires
    <3>3. taken[walker[w].node] = "none"
      BY <1>b, <3>1 DEF OutcomeIsTrue, OutcomePCs
    <3> QED
      BY <3>1, <3>2, <3>3, OutcomeMove
  <2>3. ASSUME NEW w \in Walkers
        PROVE  ~RecoverInstance(w) /\ \A n \in RetryTargets : ~RetryInstance(n, w)
    BY RequestMoves DEF Undisturbed
  <2>4. CASE \/ CancelInstance \/ CancelPendingTasks \/ DismissIncident \/ ExpireTimedOut
             \/ \E t \in Tasks : FailExpiredApproval(t)
    <3>1. UNCHANGED <<did, taken, run, walker>>
      BY <2>4 DEF CancelInstance, CancelPendingTasks, DismissIncident, ExpireTimedOut,
         FailExpiredApproval
    <3> QED
      BY <1>b, <3>1 DEF BranchInv, BranchIsTrue, OutcomeIsTrue
  <2>5. CASE CancelContext
    <3>1. UNCHANGED <<did, taken, run>>
      BY <2>5 DEF CancelContext
    <3>2. \A v \in Walkers : /\ walker'[v].pc = walker[v].pc /\ walker'[v].node = walker[v].node
                             /\ walker'[v].run = walker[v].run /\ walker'[v].handle = walker[v].handle
      BY <2>5, CancelContextKeeps
    <3> QED
      BY <1>b, <3>1, <3>2 DEF BranchInv, BranchIsTrue, OutcomeIsTrue
  <2>6. ASSUME NEW r \in Runs, RunEnds(r)
        PROVE  BranchInv'
    <3>1. UNCHANGED <<did, taken, walker>>
      BY <2>6 DEF RunEnds
    <3>2. \A q \in Runs : run[q] \in {"success", "partial"} => run'[q] = run[q]
      BY <2>6 DEF RunEnds, FlowTypeOK, TypeOK
    <3> QED
      BY <1>b, <3>1, <3>2 DEF BranchInv, BranchIsTrue, OutcomeIsTrue
  <2>7. CASE Crash
    <3>1. UNCHANGED <<did, taken>> /\ \A v \in Walkers : walker'[v].pc = "idle"
      BY <2>7, IdleIs DEF Crash
    <3> QED
      BY <1>b, <3>1 DEF BranchInv, BranchIsTrue, OutcomeIsTrue, OutcomePCs
  <2> QED
    BY <1>2, <2>1, <2>2, <2>3, <2>4, <2>5, <2>6, <2>7 DEF Outsiders
<1>3. CASE UNCHANGED vars
  <2>1. UNCHANGED <<did, taken, run, walker>>
    BY <1>3 DEF vars, seen
  <2> QED
    BY <1>b, <2>1 DEF BranchInv, BranchIsTrue, OutcomeIsTrue
<1> QED
  BY <1>1, <1>2, <1>3 DEF Next, Outsiders

\* The success or partial branch of an execution node is taken only if its playbook ended that
\* way (waitForRunCompletion, resolveExecutionOutputHandle), however contexts expire, requests
\* cancel and processes die, for instances nobody retries or recovers and as long as the
\* statement that marks an execution running does not fail.  Recovery leaves a node by what the
\* copied context holds, be it the result of another node (flow_stale_branch), and so does a
\* goroutine whose execution could not be marked.
THEOREM BranchesCorrect ==
  ASSUME Undisturbed, "dberror" \notin Happens
  PROVE  Spec => []BranchIsTrue
<1>1. Init => BranchInv
  BY IdleIs DEF Init, BranchInv, BranchIsTrue, OutcomeIsTrue, OutcomePCs
<1>2. FlowTypeOK /\ WorkInv /\ BranchInv /\ [Next]_vars => BranchInv'
  BY BranchStep
<1>3. BranchInv => BranchIsTrue
  BY DEF BranchInv
<1> QED
  BY <1>1, <1>2, <1>3, FlowTypesCorrect, WorkInvHolds, PTL DEF Spec
=============================================================================
