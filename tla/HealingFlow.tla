---------------------------- MODULE HealingFlow ----------------------------
(***************************************************************************)
(* One healing flow instance: the goroutines that walk its graph (Execute, *)
(* ResumeAfterApproval, RetryFromNode, RecoverInstance), the approval tasks *)
(* and execution runs they create, and the requests and scans that act on  *)
(* the same rows while they do: approve, reject, cancel, retry, recover,   *)
(* the expiry of approvals, the death of the process.                      *)
(*                                                                         *)
(* A goroutine works on a copy of the row that it read when it began and   *)
(* writes parts of that copy back; only the status column is guarded by    *)
(* its old value.  One action is one statement against the database, with  *)
(* the local work up to the next.  Time is abstracted: anything that waits *)
(* for a clock may happen as soon as it is enabled.                        *)
(***************************************************************************)
EXTENDS FlowGraph, FiniteSets

CONSTANTS Walkers,       \* goroutines that may work for the instance
          Tasks,         \* approval_tasks rows
          Runs,          \* execution_runs rows
          RetryTargets,  \* from_node_id of retry requests, None when left out
          Happens        \* which outside events this instance meets

EventKinds == {"crash",    \* the process dies and is started again
               "dberror",  \* the statement that marks an execution running fails
               "timeout",  \* a node's 30-minute context expires
               "retry",    \* a user retries the failed instance
               "recover",  \* a user asks for recovery, at any time
               "stale"}    \* the scheduler recovers an instance left unchanged

ASSUME FlowConstants ==
  /\ RetryTargets \subseteq Nodes \cup {None}
  /\ Happens \subseteq EventKinds
  /\ None \notin Walkers \cup Tasks \cup Runs
  /\ IsFiniteSet(Walkers) /\ IsFiniteSet(Tasks) /\ IsFiniteSet(Runs)

VARIABLES
  status, current, states, result, \* the flow_instances row
  incident,    \* healing_status of its incident
  task,        \* approval_tasks: node and status of each
  run,         \* execution_runs: status of each, "lost" if its worker died
  walker,      \* the goroutines
  registered,  \* whose cancel function runningFlowCancels holds
  recovering,  \* who holds the recovery lock of the instance
  cancelling,  \* where the cancel request stands
  expiring,    \* expired tasks whose instance the scan has not failed yet
  resumed,     \* how often each task's decision woke the waiting instance
  did,         \* how the last execution of each node really ended
  taken        \* the handle by which each execution node was left

row  == <<status, current, states, result>>
mem  == <<registered, recovering, cancelling, expiring>>
seen == <<resumed, did, taken>>
vars == <<row, incident, task, run, walker, mem, seen>>

Active        == {"pending", "running", "waiting_approval"}
Statuses      == {"none", "completed", "failed", "cancelled"} \cup Active
Outcomes      == {"success", "partial", "failed"}
NodeStates    == {"none", "running", "waiting_approval", "approved", "rejected",
                  "completed", "recorded"} \cup Outcomes
TaskStatuses  == {"none", "pending", "approved", "rejected", "cancelled", "expired"}
RunStatuses   == {"none", "active", "cancelled", "lost"} \cup Outcomes
HealingStates == {"pending", "processing", "healed", "failed", "dismissed"}
Kinds         == {"execute", "resume", "retry", "recover"}
PCs == {"idle", "start", "approve", "read", "resume", "decide", "reject", "restart",
        "recover", "reset", "node", "begin", "work", "wait", "ensure", "persist",
        "launch", "await", "record", "context", "branch", "complete", "fail",
        "leave", "errcheck", "errfail"}

NoStates == [n \in Nodes |-> "none"]

\* A goroutine: what it runs, its copy of the row (of the status, only while a
\* recovery decides by it), the task it resumes for, the run it waits for, whether
\* its context is done, whether it stored its cancel function, and whether it is
\* about to return an error.
IdleWalker == [pc |-> "idle", kind |-> "execute", node |-> None,
               states |-> NoStates, result |-> "none", run |-> None,
               handle |-> "default", task |-> None, done |-> FALSE,
               stored |-> FALSE, err |-> FALSE, saw |-> "none"]

Walker == [pc : PCs, kind : Kinds, node : Nodes \cup {None},
           states : [Nodes -> NodeStates], result : {"none"} \cup Outcomes,
           run : Runs \cup {None}, handle : Handles, task : Tasks \cup {None},
           done : BOOLEAN, stored : BOOLEAN, err : BOOLEAN, saw : Statuses]

TypeOK ==
  /\ status \in Statuses
  /\ current \in Nodes \cup {None}
  /\ states \in [Nodes -> NodeStates]
  /\ result \in {"none"} \cup Outcomes
  /\ incident \in HealingStates
  /\ task \in [Tasks -> [node : Nodes \cup {None}, status : TaskStatuses]]
  /\ run \in [Runs -> RunStatuses]
  /\ walker \in [Walkers -> Walker]
  /\ registered \in Walkers \cup {None}
  /\ recovering \in Walkers \cup {None}
  /\ cancelling \in {"idle", "close", "signal", "dismiss"}
  /\ expiring \subseteq Tasks
  /\ resumed \in [Tasks -> 0..2]
  /\ did \in [Nodes -> {"none"} \cup Outcomes]
  /\ taken \in [Nodes -> {"none"} \cup Outcomes]

Init ==
  /\ status = "none" /\ current = None /\ states = NoStates /\ result = "none"
  /\ incident = "pending"
  /\ task = [t \in Tasks |-> [node |-> None, status |-> "none"]]
  /\ run = [r \in Runs |-> "none"]
  /\ walker = [w \in Walkers |-> IdleWalker]
  /\ registered = None /\ recovering = None
  /\ cancelling = "idle" /\ expiring = {}
  /\ resumed = [t \in Tasks |-> 0]
  /\ did = [n \in Nodes |-> "none"] /\ taken = [n \in Nodes |-> "none"]
-----------------------------------------------------------------------------
(* Where a goroutine goes next *)

At(w, l) == walker[w].pc = l
Set(w, x) == walker' = [walker EXCEPT ![w] = x]

\* A copy that is not read any more is dropped.
GoTo(x, l)      == [x EXCEPT !.pc = l]
Enter(x, n)     == [x EXCEPT !.pc = "node", !.node = n, !.handle = "default",
                             !.task = None, !.run = None]
Ending(x, l, e) == [IdleWalker EXCEPT !.pc = l, !.kind = x.kind, !.done = x.done,
                                      !.stored = x.stored, !.err = e]
Leave(x, e)     == Ending(x, "leave", e)
FailWith(x, e)  == Ending(x, "fail", e)
Complete(x)     == Ending(x, "complete", FALSE)
EnterOr(x, n, otherwise) == IF n = None THEN otherwise ELSE Enter(x, n)

\* continueExecutionBranch
FollowBranch(x, h) ==
  EnterOr(x, FindNextNodeByHandle(x.node, h),
          IF h = "success" THEN Complete(x) ELSE FailWith(x, TRUE))

\* resumeFromHandle and finishRecoveredBranch: a missing branch completes the
\* flow, unless an execution failed.
FollowRecovered(x, h) ==
  EnterOr(x, FindNextNodeByHandle(x.node, h),
          IF h \in {"failed", "partial"} THEN FailWith(x, TRUE)
                                         ELSE Complete(x))

StartNode ==
  LET starts == {n \in Nodes : TypeOf[n] = "start"}
  IN  IF starts = {} THEN None ELSE CHOOSE n \in starts : TRUE

\* UpdateStatusIfCurrent, and its form that also sets the incident in the same
\* transaction.
Becomes(from, to) ==
  status' = IF status \in from THEN to ELSE status
BecomesWithIncident(from, to, healing) ==
  /\ Becomes(from, to)
  /\ incident' = IF status \in from THEN healing ELSE incident

WriteStates(w, n, s) == states' = [walker[w].states EXCEPT ![n] = s]
KeepStates(x, n, s) == [x EXCEPT !.states[n] = s]

\* CancelRun on the run a goroutine waits for.
CancelOwnRun(w) ==
  run' = [r \in Runs |-> IF r = walker[w].run /\ run[r] = "active"
                         THEN "cancelled" ELSE run[r]]
-----------------------------------------------------------------------------
(* Execute: the scheduler creates the instance and a goroutine for it *)

CreateInstance(w) ==
  /\ status = "none"
  /\ At(w, "idle")
  /\ status' = "pending" /\ incident' = "processing"
  /\ Set(w, GoTo(IdleWalker, "start"))
  /\ UNCHANGED <<current, states, result, task, run, mem, seen>>

\* Mutant: the status is set without looking at the old one.
StartFlowBlindly(w) ==
  /\ At(w, "start")
  /\ status' = "running"
  /\ registered' = w
  /\ LET x == [walker[w] EXCEPT !.stored = TRUE]
     IN  Set(w, EnterOr(x, StartNode, FailWith(x, FALSE)))
  /\ UNCHANGED <<current, states, result, incident, task, run, recovering,
                 cancelling, expiring, seen>>

\* The goroutine waited for one of the scheduler's slots; other instances hold
\* them for as long as they like.
StartFlow(w) ==
  /\ At(w, "start")
  /\ Becomes({"pending"}, "running")
  /\ registered' = w
  /\ LET x == [walker[w] EXCEPT !.stored = TRUE]
     IN  Set(w, IF status = "pending"
                THEN EnterOr(x, StartNode, FailWith(x, FALSE))
                ELSE Leave(x, FALSE))
  /\ UNCHANGED <<current, states, result, incident, task, run, recovering,
                 cancelling, expiring, seen>>
-----------------------------------------------------------------------------
(* Walking the graph *)

\* executeNode: stop if the context is done or the row cancelled, else write the
\* current node, and the whole context of this goroutine's copy with it.
EnterNode(w) ==
  /\ At(w, "node")
  /\ LET x == walker[w]
     IN  IF x.done \/ status = "cancelled"
         THEN /\ Set(w, Leave(x, FALSE))
              /\ UNCHANGED <<current, result>>
         ELSE /\ current' = x.node
              /\ result' = x.result
              /\ Set(w, GoTo(x, IF TypeOf[x.node] = "approval" THEN "wait"
                                                               ELSE "begin"))
  /\ UNCHANGED <<status, states, incident, task, run, mem, seen>>

BeginNode(w) ==
  /\ At(w, "begin")
  /\ LET x == walker[w]
     IN  /\ ~x.done
         /\ WriteStates(w, x.node, "running")
         /\ Set(w, GoTo(KeepStates(x, x.node, "running"),
                        IF TypeOf[x.node] = "execution" THEN "launch" ELSE "work"))
         /\ did' = [did EXCEPT ![x.node] = "none"]
         /\ taken' = [taken EXCEPT ![x.node] = "none"]
  /\ UNCHANGED <<status, current, result, incident, task, run, mem, resumed>>

\* A regular node did its work: start, end, or a step such as host extraction.
FinishNode(w) ==
  /\ At(w, "work")
  /\ LET x == walker[w]
         y == KeepStates(x, x.node, "completed")
     IN  /\ ~x.done
         /\ WriteStates(w, x.node, "completed")
         /\ Set(w, IF TypeOf[x.node] = "end"
                   THEN Complete(y)
                   ELSE EnterOr(y, FindNextNode(x.node), Complete(y)))
  /\ UNCHANGED <<status, current, result, incident, task, run, mem, seen>>

NodeFails(w) ==
  /\ At(w, "work")
  /\ LET x == walker[w]
     IN  /\ ~x.done
         /\ TypeOf[x.node] = "task"
         /\ WriteStates(w, x.node, "failed")
         /\ Set(w, FailWith(KeepStates(x, x.node, "failed"), TRUE))
  /\ UNCHANGED <<status, current, result, incident, task, run, mem, seen>>

\* complete and fail: conditional updates under the goroutine's own context.
CompleteInstance(w) ==
  /\ At(w, "complete")
  /\ ~walker[w].done
  /\ BecomesWithIncident(Active, "completed", "healed")
  /\ Set(w, Leave(walker[w], FALSE))
  /\ UNCHANGED <<current, states, result, task, run, mem, seen>>

FailInstance(w) ==
  /\ At(w, "fail")
  /\ IF walker[w].done
     THEN UNCHANGED <<status, incident>>
     ELSE BecomesWithIncident(Active, "failed", "failed")
  /\ Set(w, Leave(walker[w], walker[w].err))
  /\ UNCHANGED <<current, states, result, task, run, mem, seen>>

\* A statement fails because the context is done; the error is returned.
StatementInterrupted(w) ==
  /\ walker[w].pc \in {"begin", "work", "wait", "ensure", "persist", "decide",
                       "record", "context", "branch", "complete"}
  /\ walker[w].done
  /\ Set(w, Leave(walker[w], TRUE))
  /\ UNCHANGED <<row, incident, task, run, mem, seen>>
-----------------------------------------------------------------------------
(* An approval node *)

\* Mutant: the task is created whether or not the instance enters the status.
CreateThenEnterWaiting(w) ==
  /\ At(w, "wait")
  /\ ~walker[w].done
  /\ \E t \in Tasks :
       /\ task[t].status = "none"
       /\ task' = [task EXCEPT ![t] = [node |-> walker[w].node, status |-> "pending"]]
       /\ Becomes({"running"}, "waiting_approval")
       /\ Set(w, GoTo(walker[w], "ensure"))
  /\ UNCHANGED <<current, states, result, incident, run, mem, seen>>

\* One transaction: the instance enters waiting_approval and the task exists.
CreateAndEnterWaiting(w) ==
  /\ At(w, "wait")
  /\ ~walker[w].done
  /\ IF status = "running"
     THEN \E t \in Tasks :
            /\ task[t].status = "none"
            /\ task' = [task EXCEPT ![t] = [node |-> walker[w].node,
                                            status |-> "pending"]]
            /\ status' = "waiting_approval"
            /\ Set(w, GoTo(walker[w], "ensure"))
     ELSE /\ Set(w, Leave(walker[w], TRUE))
          /\ UNCHANGED <<status, task>>
  /\ UNCHANGED <<current, states, result, incident, run, mem, seen>>

EnsureWaitingApprovalStatus(w) ==
  /\ At(w, "ensure")
  /\ ~walker[w].done
  /\ Set(w, IF status = "waiting_approval" THEN GoTo(walker[w], "persist")
                                           ELSE Leave(walker[w], TRUE))
  /\ UNCHANGED <<row, incident, task, run, mem, seen>>

PersistWaiting(w) ==
  /\ At(w, "persist")
  /\ ~walker[w].done
  /\ WriteStates(w, walker[w].node, "waiting_approval")
  /\ Set(w, Leave(walker[w], FALSE))
  /\ UNCHANGED <<status, current, result, incident, task, run, mem, seen>>

\* ApproveTask finds the instance waiting, then decides the task if it is pending:
\* two statements.  RejectTask only does the second.
LoadPendingApprovalTask(t, w) ==
  /\ task[t].status = "pending"
  /\ status = "waiting_approval"
  /\ At(w, "idle")
  /\ Set(w, [IdleWalker EXCEPT !.pc = "approve", !.kind = "resume", !.task = t])
  /\ UNCHANGED <<row, incident, task, run, mem, seen>>

Decide(t, decision, w) ==
  /\ task' = [task EXCEPT ![t].status = decision]
  /\ Set(w, [IdleWalker EXCEPT !.pc = "read", !.kind = "resume",
                               !.handle = decision, !.task = t])
  /\ UNCHANGED <<row, incident, run, mem, seen>>

\* Mutant: a task that is decided is decided again.
ApproveTaskAgain(w) ==
  /\ At(w, "approve")
  /\ Decide(walker[w].task, "approved", w)

ApproveTask(w) ==
  /\ At(w, "approve")
  /\ IF task[walker[w].task].status = "pending"
     THEN Decide(walker[w].task, "approved", w)
     ELSE Set(w, IdleWalker) /\ UNCHANGED <<row, incident, task, run, mem, seen>>

RejectTask(t, w) ==
  /\ task[t].status = "pending"
  /\ At(w, "idle")
  /\ Decide(t, "rejected", w)

\* ResumeAfterApproval reads the row, whose current node must be an approval.
ReadForResume(w) ==
  /\ At(w, "read")
  /\ LET x == [walker[w] EXCEPT !.node = current, !.states = states,
                                !.result = result]
     IN  Set(w, CASE current = None -> Ending(x, "reject", FALSE)
                  [] current # None /\ TypeOf[current] # "approval" -> Leave(x, TRUE)
                  [] OTHER -> GoTo(x, "resume"))
  /\ UNCHANGED <<row, incident, task, run, mem, seen>>

ResumeRunning(w) ==
  /\ At(w, "resume")
  /\ Becomes({"waiting_approval"}, "running")
  /\ IF status = "waiting_approval"
     THEN /\ registered' = w
          /\ resumed' = [resumed EXCEPT ![walker[w].task] = IF @ = 2 THEN 2 ELSE @ + 1]
          /\ Set(w, [walker[w] EXCEPT !.pc = "decide", !.stored = TRUE])
     ELSE /\ Set(w, Leave(walker[w], TRUE))
          /\ UNCHANGED <<registered, resumed>>
  /\ UNCHANGED <<current, states, result, incident, task, run, recovering,
                 cancelling, expiring, did, taken>>

\* Mutant: the way on is the first edge, whatever was decided.
FollowFirstEdge(w) ==
  /\ At(w, "decide")
  /\ LET x == KeepStates(walker[w], walker[w].node, walker[w].handle)
     IN  /\ ~x.done
         /\ WriteStates(w, x.node, x.handle)
         /\ Set(w, EnterOr(x, FindNextNode(x.node), Complete(x)))
  /\ UNCHANGED <<status, current, result, incident, task, run, mem, seen>>

\* recordApprovalResume, and the way on.  A rejection without a branch fails the
\* flow; when recovery goes on from a running row it completes it.
RecordDecision(w) ==
  /\ At(w, "decide")
  /\ LET x == KeepStates(walker[w], walker[w].node, walker[w].handle)
     IN  /\ ~x.done
         /\ WriteStates(w, x.node, x.handle)
         /\ Set(w, IF x.kind = "recover" THEN FollowRecovered(x, x.handle)
                   ELSE EnterOr(x, FindNextNodeByHandle(x.node, x.handle),
                                IF x.handle = "rejected" THEN Ending(x, "reject", FALSE)
                                                         ELSE Complete(x)))
  /\ UNCHANGED <<status, current, result, incident, task, run, mem, seen>>

\* Mutant: only a waiting instance is failed, but this one was set running.
FailApprovalResumeIfWaiting(w) ==
  /\ At(w, "reject")
  /\ BecomesWithIncident({"waiting_approval"}, "failed", "failed")
  /\ Set(w, Leave(walker[w], FALSE))
  /\ UNCHANGED <<current, states, result, task, run, mem, seen>>

FailApprovalResume(w) ==
  /\ At(w, "reject")
  /\ BecomesWithIncident({"waiting_approval", "running"}, "failed", "failed")
  /\ Set(w, Leave(walker[w], FALSE))
  /\ UNCHANGED <<current, states, result, task, run, mem, seen>>
-----------------------------------------------------------------------------
(* An execution node *)

\* resolveExecutionOutputHandle: whatever result the copy of the context holds,
\* be it that of another node; without one, the error decides.
OutputHandle(x, failed) ==
  IF x.result # "none" THEN x.result ELSE IF failed THEN "failed" ELSE "success"

\* markExecutionNodeRunning fails before anything was run.
LaunchFails(w) ==
  /\ "dberror" \in Happens
  /\ At(w, "launch")
  /\ LET x == walker[w]
     IN  /\ did' = [did EXCEPT ![x.node] = "failed"]
         /\ Set(w, [x EXCEPT !.pc = "branch", !.handle = OutputHandle(x, TRUE)])
  /\ UNCHANGED <<row, incident, task, run, mem, resumed, taken>>

\* Mutant: the run is started and taken for done.
LaunchAndForget(w) ==
  /\ At(w, "launch")
  /\ ~walker[w].done
  /\ \E r \in Runs :
       /\ run[r] = "none"
       /\ run' = [run EXCEPT ![r] = "active"]
       /\ Set(w, [walker[w] EXCEPT !.pc = "record", !.handle = "success"])
  /\ UNCHANGED <<row, incident, task, mem, seen>>

LaunchRun(w) ==
  /\ At(w, "launch")
  /\ ~walker[w].done
  /\ \E r \in Runs :
       /\ run[r] = "none"
       /\ run' = [run EXCEPT ![r] = "active"]
       /\ Set(w, [walker[w] EXCEPT !.pc = "await", !.run = r])
  /\ UNCHANGED <<row, incident, task, mem, seen>>

\* ExecuteTask refuses (a deleted template, a done context): a failed outcome.
LaunchRefused(w) ==
  /\ At(w, "launch")
  /\ Set(w, [walker[w] EXCEPT !.pc = "record", !.handle = "failed"])
  /\ UNCHANGED <<row, incident, task, run, mem, seen>>

\* Mutants of the poll: a cancelled run passes for a success, as it does in
\* summarizeExecutionOutcome; no wait for a terminal status; no look at the flow.
PollCancelledAsSuccess(w) ==
  /\ At(w, "await")
  /\ ~walker[w].done
  /\ run[walker[w].run] \in Outcomes \cup {"cancelled"}
  /\ Set(w, [walker[w] EXCEPT !.pc = "record",
               !.handle = IF run[walker[w].run] \in Outcomes
                          THEN run[walker[w].run] ELSE "success"])
  /\ UNCHANGED <<row, incident, task, run, mem, seen>>

PollWithoutWaiting(w) ==
  /\ At(w, "await")
  /\ ~walker[w].done
  /\ Set(w, [walker[w] EXCEPT !.pc = "record",
               !.handle = IF run[walker[w].run] \in {"failed", "cancelled"}
                          THEN "failed" ELSE "success"])
  /\ UNCHANGED <<row, incident, task, run, mem, seen>>

PollWithoutStatus(w) ==
  /\ At(w, "await")
  /\ ~walker[w].done
  /\ run[walker[w].run] \in Outcomes \cup {"cancelled"}
  /\ Set(w, [walker[w] EXCEPT !.pc = "record",
               !.handle = IF run[walker[w].run] \in Outcomes
                          THEN run[walker[w].run] ELSE "failed"])
  /\ UNCHANGED <<row, incident, task, run, mem, seen>>

\* waitForRunCompletion, a poll with a live context.
PollRun(w) ==
  /\ At(w, "await")
  /\ ~walker[w].done
  /\ IF status = "cancelled"
     THEN /\ CancelOwnRun(w)
          /\ Set(w, [walker[w] EXCEPT !.pc = "record", !.handle = "failed"])
     ELSE /\ run[walker[w].run] \in Outcomes \cup {"cancelled"}
          /\ Set(w, [walker[w] EXCEPT !.pc = "record",
                       !.handle = IF run[walker[w].run] \in Outcomes
                                  THEN run[walker[w].run] ELSE "failed"])
          /\ UNCHANGED run
  /\ UNCHANGED <<row, incident, task, mem, seen>>

\* The context is done: between two polls the run is cancelled; in the middle of
\* a poll the statement fails and the run is left alone.
AwaitInterrupted(w) ==
  /\ At(w, "await")
  /\ walker[w].done
  /\ CancelOwnRun(w) \/ UNCHANGED run
  /\ Set(w, [walker[w] EXCEPT !.pc = "record", !.handle = "failed"])
  /\ UNCHANGED <<row, incident, task, mem, seen>>

\* How an execution really ended, by the row of its run.
Ended(r) == IF r # None /\ run[r] \in Outcomes THEN run[r] ELSE "failed"

\* recordExecutionOutcome: the node state, then the context.
RecordOutcome(w) ==
  /\ At(w, "record")
  /\ ~walker[w].done
  /\ LET x == walker[w]
     IN  /\ WriteStates(w, x.node, "recorded")
         /\ did' = [did EXCEPT ![x.node] = Ended(x.run)]
         /\ Set(w, GoTo(KeepStates(x, x.node, "recorded"), "context"))
  /\ UNCHANGED <<status, current, result, incident, task, run, mem, resumed, taken>>

PersistContext(w) ==
  /\ At(w, "context")
  /\ ~walker[w].done
  /\ current' = walker[w].node
  /\ result' = walker[w].handle
  /\ Set(w, [walker[w] EXCEPT !.pc = "branch", !.result = walker[w].handle])
  /\ UNCHANGED <<status, states, incident, task, run, mem, seen>>

\* The output handle goes into the node state and the branch is followed.
TakeBranch(w) ==
  /\ At(w, "branch")
  /\ ~walker[w].done
  /\ LET x == KeepStates(walker[w], walker[w].node, walker[w].handle)
     IN  /\ WriteStates(w, x.node, x.handle)
         /\ taken' = [taken EXCEPT ![x.node] = x.handle]
         /\ Set(w, FollowBranch(x, x.handle))
  /\ UNCHANGED <<status, current, result, incident, task, run, mem, resumed, did>>
-----------------------------------------------------------------------------
(* The end of a goroutine *)

\* The deferred clean-up removes whichever cancel function is stored.  Then an
\* error reaches handleExecuteError, which ignores done contexts, or
\* handleApprovalResumeError, which does not; the others only return it.
LeaveFlow(w) ==
  /\ At(w, "leave")
  /\ LET x == walker[w]
         handled == x.err /\ (x.kind = "resume" \/ (x.kind = "execute" /\ ~x.done))
     IN  /\ registered' = IF x.stored THEN None ELSE registered
         /\ Set(w, IF handled THEN GoTo(x, "errcheck") ELSE IdleWalker)
         /\ recovering' = IF recovering = w /\ ~handled THEN None ELSE recovering
  /\ UNCHANGED <<row, incident, task, run, cancelling, expiring, seen>>

Unlock(w) == recovering' = IF recovering = w THEN None ELSE recovering

ReadStatusForError(w) ==
  /\ At(w, "errcheck")
  /\ IF status \in (IF walker[w].kind = "execute" THEN Active
                    ELSE {"waiting_approval", "running"})
     THEN Set(w, GoTo(walker[w], "errfail")) /\ UNCHANGED recovering
     ELSE Set(w, IdleWalker) /\ Unlock(w)
  /\ UNCHANGED <<row, incident, task, run, registered, cancelling, expiring, seen>>

FailOnError(w) ==
  /\ At(w, "errfail")
  /\ BecomesWithIncident(IF walker[w].kind = "execute" THEN Active
                         ELSE {"waiting_approval", "running"}, "failed", "failed")
  /\ Set(w, IdleWalker)
  /\ Unlock(w)
  /\ UNCHANGED <<current, states, result, task, run, registered, cancelling,
                 expiring, seen>>
-----------------------------------------------------------------------------
(* Retry *)

\* RetryInstance hands the row as it is now to a goroutine of its own.  Without
\* a from_node_id it will start at the current node of that copy.
RetryInstance(from, w) ==
  /\ "retry" \in Happens
  /\ status # "none"
  /\ At(w, "idle")
  /\ LET target == IF from = None THEN current ELSE from
     IN  Set(w, [IdleWalker EXCEPT !.pc = "restart", !.kind = "retry",
                   !.node = target, !.states = states, !.result = result])
  /\ UNCHANGED <<row, incident, task, run, mem, seen>>

RestartFailedInstance(w) ==
  /\ At(w, "restart")
  /\ BecomesWithIncident({"failed"}, "running", "processing")
  /\ LET x == [walker[w] EXCEPT !.stored = TRUE]
     IN  IF status = "failed"
         THEN /\ registered' = w
              /\ Set(w, IF x.node = None THEN FailWith(x, TRUE) ELSE Enter(x, x.node))
         ELSE /\ Set(w, IdleWalker)
              /\ UNCHANGED registered
  /\ UNCHANGED <<current, states, result, task, run, recovering, cancelling,
                 expiring, seen>>
-----------------------------------------------------------------------------
(* Recovery *)

\* executionNodeOutputHandle: never empty, "success" when nothing is known.
RecoveredHandle(x) ==
  IF x.states[x.node] \in Outcomes THEN x.states[x.node] ELSE OutputHandle(x, FALSE)

\* runRecoveryAttempt: where the goroutine x may go by its copy of the row.  The
\* approval task is the first by identifier, which says nothing of its age.
Recovered(x) ==
  LET found == {t \in Tasks : task[t].node = x.node /\ task[t].status # "none"}
      decided(t) == [x EXCEPT !.task = t, !.handle = task[t].status]
  IN  IF x.saw \in {"completed", "cancelled"} THEN {Leave(x, FALSE)}
      ELSE IF x.node = None
      THEN {IF x.saw = "pending" /\ StartNode # None THEN Enter(x, StartNode)
                                                     ELSE Leave(x, FALSE)}
      ELSE CASE TypeOf[x.node] = "approval" ->
                  IF found = {} THEN {GoTo(x, "wait")}
                  ELSE {IF task[t].status \notin {"approved", "rejected"}
                        THEN Leave(x, FALSE)
                        ELSE IF x.saw = "waiting_approval"
                        THEN [decided(t) EXCEPT !.pc = "read", !.kind = "resume"]
                        ELSE GoTo(decided(t), "decide") : t \in found}
             [] TypeOf[x.node] = "execution" ->
                  {FollowRecovered(x, RecoveredHandle(x))}
             [] TypeOf[x.node] = "end" -> {Complete(x)}
             [] OTHER ->
                  {IF x.states[x.node] = "completed"
                   THEN FollowRecovered(x, "default") ELSE Enter(x, x.node)}

\* No goroutine of the instance can move without something slow: a slot, a
\* playbook, a step of a regular node.  Then its row is unchanged for minutes.
Quiet == \A w \in Walkers : walker[w].pc \in {"idle", "start", "await", "work"}

\* Mutant: a pending row is left to the goroutine that was started for it.
StuckRunning ==
  /\ Quiet
  /\ \/ status = "running"
     \/ /\ status = "waiting_approval"
        /\ \E t \in Tasks : task[t].status \in {"approved", "rejected"}

\* What the scheduler lists: pending and running rows left unchanged, and waiting
\* ones with a decided task.
Stuck ==
  /\ Quiet
  /\ \/ status \in {"pending", "running"}
     \/ /\ status = "waiting_approval"
        /\ \E t \in Tasks : task[t].status \in {"approved", "rejected"}

\* RecoverInstance takes the lock and reads the row.
RecoverInstance(w) ==
  /\ status # "none"
  /\ \/ "recover" \in Happens
     \/ "stale" \in Happens /\ Stuck
  /\ At(w, "idle")
  /\ recovering = None
  /\ recovering' = w
  /\ Set(w, [IdleWalker EXCEPT !.pc = IF status = "failed" THEN "reset" ELSE "recover",
                               !.kind = "recover", !.saw = status, !.node = current,
                               !.states = states, !.result = result])
  /\ UNCHANGED <<row, incident, task, run, registered, cancelling, expiring, seen>>

\* prepareInstanceForRecovery: the incident keeps its failed status.
ResetForRecovery(w) ==
  /\ At(w, "reset")
  /\ Becomes({"failed"}, "running")
  /\ Set(w, IF status = "failed" THEN [walker[w] EXCEPT !.pc = "recover", !.saw = "running"]
                                 ELSE Leave(walker[w], TRUE))
  /\ UNCHANGED <<current, states, result, incident, task, run, mem, seen>>

\* An execution node that recovery leaves is left by the handle recovery found.
RunRecoveryAttempt(w) ==
  /\ At(w, "recover")
  /\ \E y \in Recovered(walker[w]) : Set(w, [y EXCEPT !.saw = "none"])
  /\ LET x == walker[w]
     IN  taken' = IF /\ x.saw \notin {"completed", "cancelled"}
                     /\ x.node # None
                     /\ TypeOf[x.node] = "execution"
                  THEN [taken EXCEPT ![x.node] = RecoveredHandle(x)] ELSE taken
  /\ UNCHANGED <<row, incident, task, run, mem, resumed, did>>
-----------------------------------------------------------------------------
(* Cancellation, expiry, the world outside *)

\* CancelInstance: the row, the tasks, the context, the incident.
CancelInstance ==
  /\ cancelling = "idle"
  /\ status \in Active
  /\ status' = "cancelled"
  /\ cancelling' = "close"
  /\ UNCHANGED <<current, states, result, incident, task, run, walker, registered,
                 recovering, expiring, seen>>

CancelPendingTasks ==
  /\ cancelling = "close"
  /\ task' = [t \in Tasks |-> IF task[t].status = "pending"
                              THEN [task[t] EXCEPT !.status = "cancelled"]
                              ELSE task[t]]
  /\ cancelling' = "signal"
  /\ UNCHANGED <<row, incident, run, walker, registered, recovering, expiring, seen>>

CancelContext ==
  /\ cancelling = "signal"
  /\ walker' = [w \in Walkers |-> IF w = registered
                                  THEN [walker[w] EXCEPT !.done = TRUE]
                                  ELSE walker[w]]
  /\ cancelling' = "dismiss"
  /\ UNCHANGED <<row, incident, task, run, registered, recovering, expiring, seen>>

DismissIncident ==
  /\ cancelling = "dismiss"
  /\ incident' = "dismissed"
  /\ cancelling' = "idle"
  /\ UNCHANGED <<row, task, run, walker, registered, recovering, expiring, seen>>

\* processExpiredApprovals: one update for the tasks that timed out, T, then one per
\* instance of every task that expired within the last minute: R again, from earlier
\* scans.  T is empty when only a task of another flow timed out.
ExpireTimedOut ==
  /\ expiring = {}
  /\ \E T \in SUBSET {t \in Tasks : task[t].status = "pending"},
       R \in SUBSET {t \in Tasks : task[t].status = "expired"} :
       /\ T \cup R # {}
       /\ task' = [t \in Tasks |-> IF t \in T
                                   THEN [task[t] EXCEPT !.status = "expired"]
                                   ELSE task[t]]
       /\ expiring' = T \cup R
  /\ UNCHANGED <<row, incident, run, walker, registered, recovering, cancelling, seen>>

\* Mutant: the wrong status is expected.
FailExpiredApprovalIfRunning(t) ==
  /\ t \in expiring
  /\ BecomesWithIncident({"running"}, "failed", "failed")
  /\ expiring' = expiring \ {t}
  /\ UNCHANGED <<current, states, result, task, run, walker, registered,
                 recovering, cancelling, seen>>

FailExpiredApproval(t) ==
  /\ t \in expiring
  /\ BecomesWithIncident({"waiting_approval"}, "failed", "failed")
  /\ expiring' = expiring \ {t}
  /\ UNCHANGED <<current, states, result, task, run, walker, registered,
                 recovering, cancelling, seen>>

\* The execution service ends a run, or a user cancels it there.
RunEnds(r) ==
  /\ run[r] = "active"
  /\ \E o \in Outcomes \cup {"cancelled"} : run' = [run EXCEPT ![r] = o]
  /\ UNCHANGED <<row, incident, task, walker, mem, seen>>

\* The 30 minutes of a node are over; the nodes behind it share its context.
ContextExpires(w) ==
  /\ "timeout" \in Happens
  /\ At(w, "await")
  /\ ~walker[w].done
  /\ Set(w, [walker[w] EXCEPT !.done = TRUE])
  /\ UNCHANGED <<row, incident, task, run, mem, seen>>

Crash ==
  /\ "crash" \in Happens
  /\ \/ \E w \in Walkers : walker[w].pc # "idle"
     \/ cancelling # "idle"
     \/ expiring # {}
  /\ walker' = [w \in Walkers |-> IdleWalker]
  /\ registered' = None /\ recovering' = None
  /\ cancelling' = "idle" /\ expiring' = {}
  /\ run' = [r \in Runs |-> IF run[r] = "active" THEN "lost" ELSE run[r]]
  /\ UNCHANGED <<row, incident, task, seen>>
-----------------------------------------------------------------------------
Step(w) ==
  \/ StartFlow(w)
  \/ EnterNode(w) \/ BeginNode(w) \/ FinishNode(w) \/ NodeFails(w)
  \/ CompleteInstance(w) \/ FailInstance(w) \/ StatementInterrupted(w)
  \/ CreateAndEnterWaiting(w) \/ EnsureWaitingApprovalStatus(w) \/ PersistWaiting(w)
  \/ ApproveTask(w) \/ ReadForResume(w) \/ ResumeRunning(w) \/ RecordDecision(w) \/ FailApprovalResume(w)
  \/ LaunchFails(w) \/ LaunchRun(w) \/ LaunchRefused(w)
  \/ PollRun(w) \/ AwaitInterrupted(w)
  \/ RecordOutcome(w) \/ PersistContext(w) \/ TakeBranch(w)
  \/ LeaveFlow(w) \/ ReadStatusForError(w) \/ FailOnError(w)
  \/ RestartFailedInstance(w) \/ ResetForRecovery(w) \/ RunRecoveryAttempt(w)

Next ==
  \/ \E w \in Walkers : \/ CreateInstance(w) \/ Step(w)
                        \/ RecoverInstance(w) \/ ContextExpires(w)
                        \/ \E t \in Tasks : LoadPendingApprovalTask(t, w)
                                            \/ RejectTask(t, w)
                        \/ \E n \in RetryTargets : RetryInstance(n, w)
  \/ CancelInstance \/ CancelPendingTasks \/ CancelContext \/ DismissIncident
  \/ ExpireTimedOut
  \/ \E t \in Tasks : FailExpiredApproval(t)
  \/ \E r \in Runs : RunEnds(r)
  \/ Crash

Spec == Init /\ [][Next]_vars

\* Goroutines, requests and the scheduler's scans keep running, slots come free
\* and every approval has a time limit, after which the next scan takes it whatever
\* else it lists.  Nothing makes a person decide, cancel or retry, and nothing makes
\* a playbook end.
Fairness ==
  /\ \A w \in Walkers : WF_vars(Step(w))
  /\ WF_vars(CancelPendingTasks) /\ WF_vars(CancelContext) /\ WF_vars(DismissIncident)
  /\ SF_vars(ExpireTimedOut /\ task' # task) /\ \A t \in Tasks : WF_vars(FailExpiredApproval(t))

FairSpec == Spec /\ Fairness

\* The execution service ends every run (EveryRunSettles in ExecutionRun).
EveryRunEnds == \A r \in Runs : WF_vars(RunEnds(r))
-----------------------------------------------------------------------------
(* Properties *)

\* What the incident says agrees with its flow: healed if and only if the flow
\* completed, failed with a failed flow, dismissed once the cancel request is
\* through.  complete, fail and restartFailedInstance write both in one
\* transaction; CancelInstance does not.
IncidentAgrees ==
  /\ status = "completed" <=> incident = "healed"
  /\ status = "failed" => incident = "failed"
  /\ incident = "dismissed" => status = "cancelled"

\* Nothing is executed on the hosts before somebody approved, on a graph whose
\* executions all lie behind an approval: whatever is retried, recovered,
\* repeated, expires or crashes in between.
ApprovalGuardsExecution ==
  (\E r \in Runs : run[r] # "none") => \E t \in Tasks : task[t].status = "approved"

\* The success or partial branch of an execution node is taken only when its run
\* ended that way: no error, interruption or leftover of another node passes for
\* a success.
BranchIsTrue ==
  \A n \in Nodes : taken[n] \in {"success", "partial"} => did[n] = taken[n]

\* One decision wakes a waiting instance at most once, however often it is given and
\* whatever is retried, and never answers for a later task of the node; but for recovery,
\* which takes any task of the node (recoverApprovalNode, flow_old_decision).
ApprovalResumesOnce == \A t \in Tasks : resumed[t] <= 1

\* An instance never has two playbooks running at once.
OneActiveRun == \A r, q \in Runs : run[r] = "active" /\ run[q] = "active" => r = q

\* A flow is reported as completed only when nothing runs for it any more.
CompletedMeansDone == status = "completed" => \A r \in Runs : run[r] # "active"

\* A waiting instance has something to wait for: a task somebody can decide, a
\* decision that is about to resume it or that the scheduler will find, or an
\* expiry about to fail it.
NeverWaitsForNobody ==
  status = "waiting_approval" =>
    \/ \E t \in Tasks : task[t].status \in {"pending", "approved", "rejected"}
    \/ expiring # {}

\* Once the cancel request closed the tasks, none is pending, and none is created
\* afterwards by a goroutine that had not noticed.
CancelledHasNoPendingTask ==
  status = "cancelled" /\ cancelling # "close" =>
    \A t \in Tasks : task[t].status # "pending"

\* Cancelling a flow also stops the playbook it started: when nobody works for it
\* any more, none is left running.
CancelledLeavesNoRun ==
  status = "cancelled" /\ (\A w \in Walkers : At(w, "idle")) =>
    \A r \in Runs : run[r] # "active"

\* If its runs end, every flow that was created ends, decided by somebody or not.
EveryFlowEnds ==
  EveryRunEnds => (status = "pending" ~> status \in {"completed", "failed", "cancelled"})

\* A flow whose goroutines died with the process still ends: once the process stays
\* up, the scheduler's recovery finds the row and walks it to its end, whatever
\* users recover meanwhile.
RecoveryEndsFlow ==
  /\ EveryRunEnds
  /\ WF_vars(\E w \in Walkers : RecoverInstance(w) /\ Stuck)
  /\ <>[][~Crash]_vars
  => (status = "pending" ~> status \in {"completed", "failed", "cancelled"})

\* Cancelling a flow ends the goroutines that work for it, even if the playbook
\* they wait for never ends, and whoever's cancel function the request found.
CancelStopsWork == status = "cancelled" ~> \A w \in Walkers : At(w, "idle")

\* The instance and its incident go through the contract's steps and no other.
Lifecycle == INSTANCE FlowLifecycle WITH status <- status, incident <- incident
ImplementsFlow == Lifecycle!Spec
=============================================================================
