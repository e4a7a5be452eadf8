---------------------------- MODULE ExecutionRun ----------------------------
(***************************************************************************)
(* The life of an Ansible execution run inside one execution Service:      *)
(* ExecuteTask creates the row and a goroutine, the goroutine waits for a  *)
(* worker slot, starts the run, prepares the workspace, plays the playbook *)
(* and writes the result, while users cancel it (through this Service, or  *)
(* through another one that only shares the database), a watcher polls the *)
(* row, the Service is shut down or the process dies.                      *)
(*                                                                         *)
(* One action is one statement against the database, or the local work     *)
(* between two of them.  Time is abstracted: a poll may happen at any      *)
(* moment, a playbook may return at any moment with any outcome.           *)
(***************************************************************************)
EXTENDS Naturals, FiniteSets

CONSTANTS Runs,        \* identifiers of execution_runs rows
          MaxWorkers,  \* capacity of the Service's worker semaphore
          Faults       \* the faults this instance exhibits

FaultKinds == {"crash",     \* the process dies and is started again
               "panic",     \* a goroutine panics while it executes a run
               "dberror",   \* a statement of the worker fails
               "stop"}      \* the Service is shut down

ASSUME RunConstants == /\ MaxWorkers \in Nat \ {0}
                       /\ IsFiniteSet(Runs)
                       /\ Faults \subseteq FaultKinds

VARIABLES
  status,      \* execution_runs.status, "none" before the row exists
  pc,          \* where the goroutine of the run stands
  registered,  \* runs whose cancel function is in runningExecutions
  ctxDone,     \* runs whose own cancel function was called
  watching,    \* runs whose status watcher is alive
  cancelling,  \* CancelRun calls that wrote the row but have not signalled yet
  outcome,     \* what the playbook of the run really did, "none" before it ended
  notified,    \* the status the completion notification reported, or "none"
  stopping     \* the lifecycle's root context is cancelled

vars == <<status, pc, registered, ctxDone, watching, cancelling, outcome,
          notified, stopping>>

Outcomes == {"success", "failed", "partial"}
Active   == {"pending", "running"}
Terminal == Outcomes \cup {"cancelled"}
Statuses == {"none"} \cup Active \cup Terminal

Waiting  == {"queued", "skip"}                    \* before a worker slot is held
Starting == {"bind", "start"}                     \* slot held, row still pending
Working  == {"prepare", "playing", "returned", "interrupt", "persist"}
Holding  == Starting \cup Working \cup {"notify", "exit"}
PCs      == {"none", "done", "lost"} \cup Waiting \cup Holding

TypeOK ==
  /\ status \in [Runs -> Statuses]
  /\ pc \in [Runs -> PCs]
  /\ registered \subseteq Runs
  /\ ctxDone \subseteq Runs
  /\ watching \subseteq Runs
  /\ cancelling \subseteq Runs
  /\ outcome \in [Runs -> {"none"} \cup Outcomes]
  /\ notified \in [Runs -> {"none"} \cup Statuses]
  /\ stopping \in BOOLEAN

Init ==
  /\ status = [r \in Runs |-> "none"]
  /\ pc = [r \in Runs |-> "none"]
  /\ registered = {}
  /\ ctxDone = {}
  /\ watching = {}
  /\ cancelling = {}
  /\ outcome = [r \in Runs |-> "none"]
  /\ notified = [r \in Runs |-> "none"]
  /\ stopping = FALSE
-----------------------------------------------------------------------------
\* ctx.Err() # nil: the run's context is a child of the lifecycle's.
ContextDone(r) == stopping \/ r \in ctxDone

GoTo(r, l) == pc' = [pc EXCEPT ![r] = l]

\* A statement of the worker that uses the run's context fails when the
\* context is done, or when the database does.
StatementFails(r) == ContextDone(r) \/ "dberror" \in Faults
StatementSucceeds(r) == ~ContextDone(r)

\* UpdateRunStatus(cancelled): pending or running only.
CancelRow(r) ==
  /\ status[r] \in Active
  /\ status' = [status EXCEPT ![r] = "cancelled"]

\* UpdateRunResult without a list of current statuses: anything but cancelled.
WriteResult(r, s) ==
  status' = [status EXCEPT ![r] = IF @ = "cancelled" THEN @ ELSE s]

\* UpdateRunResultIfCurrent: only from the given status.
WriteResultIfCurrent(r, current, s) ==
  status' = [status EXCEPT ![r] = IF @ = current THEN s ELSE @]

\* A write with a detached context fails only when the database does; the error
\* is logged and the goroutine goes on.
Detached(write) == write \/ ("dberror" \in Faults /\ UNCHANGED status)

\* cancelRunningExecution: call and forget the stored cancel function, if any.
SignalStoredCancel(r) ==
  /\ ctxDone' = IF r \in registered THEN ctxDone \cup {r} ELSE ctxDone
  /\ registered' = registered \ {r}
-----------------------------------------------------------------------------
(* The goroutine of a run *)

\* The row is created pending and a goroutine starts waiting for a slot.  The
\* HTTP server is down before the Service is, so no call arrives once it stops.
ExecuteTask(r) ==
  /\ status[r] = "none"
  /\ ~stopping
  /\ status' = [status EXCEPT ![r] = "pending"]
  /\ GoTo(r, "queued")
  /\ UNCHANGED <<registered, ctxDone, watching, cancelling, outcome, notified,
                 stopping>>

\* A slot is taken.  The select of Acquire has no priority: a slot may be taken
\* although the lifecycle is already stopping.
Acquire(r) ==
  /\ pc[r] = "queued"
  /\ Cardinality({q \in Runs : pc[q] \in Holding}) < MaxWorkers
  /\ GoTo(r, "bind")
  /\ UNCHANGED <<status, registered, ctxDone, watching, cancelling, outcome,
                 notified, stopping>>

AcquireStopped(r) ==
  /\ pc[r] = "queued"
  /\ stopping
  /\ GoTo(r, "skip")
  /\ UNCHANGED <<status, registered, ctxDone, watching, cancelling, outcome,
                 notified, stopping>>

MarkPendingRunInterrupted(r) ==
  /\ pc[r] = "skip"
  /\ Detached(WriteResultIfCurrent(r, "pending", "failed"))
  /\ GoTo(r, "done")
  /\ UNCHANGED <<registered, ctxDone, watching, cancelling, outcome, notified,
                 stopping>>

BindRunContext(r) ==
  /\ pc[r] = "bind"
  /\ registered' = registered \cup {r}
  /\ GoTo(r, "start")
  /\ UNCHANGED <<status, ctxDone, watching, cancelling, outcome, notified,
                 stopping>>

\* Mutant: the update to running is not conditional on pending.
StartRunBlindly(r) ==
  /\ pc[r] = "start"
  /\ StatementSucceeds(r)
  /\ status' = [status EXCEPT ![r] = "running"]
  /\ watching' = watching \cup {r}
  /\ GoTo(r, "prepare")
  /\ UNCHANGED <<registered, ctxDone, cancelling, outcome, notified, stopping>>

\* pending -> running, and the watcher of the row starts.
StartRun(r) ==
  /\ pc[r] = "start"
  /\ StatementSucceeds(r)
  /\ IF status[r] = "pending"
     THEN /\ status' = [status EXCEPT ![r] = "running"]
          /\ watching' = watching \cup {r}
          /\ GoTo(r, "prepare")
     ELSE /\ GoTo(r, "exit")
          /\ UNCHANGED <<status, watching>>
  /\ UNCHANGED <<registered, ctxDone, cancelling, outcome, notified, stopping>>

\* The statement fails: the error is logged and the goroutine gives up.
StartRunFails(r) ==
  /\ pc[r] = "start"
  /\ StatementFails(r)
  /\ GoTo(r, "exit")
  /\ UNCHANGED <<status, registered, ctxDone, watching, cancelling, outcome,
                 notified, stopping>>

\* Workspace, security scan and inventory are ready.
PrepareRun(r) ==
  /\ pc[r] = "prepare"
  /\ GoTo(r, "playing")
  /\ UNCHANGED <<status, registered, ctxDone, watching, cancelling, outcome,
                 notified, stopping>>

\* One of them failed: finalizeRunFailure writes with a detached context.
PrepareRunFails(r) ==
  /\ pc[r] = "prepare"
  /\ Detached(WriteResult(r, "failed"))
  /\ GoTo(r, "exit")
  /\ UNCHANGED <<registered, ctxDone, watching, cancelling, outcome, notified,
                 stopping>>

\* The playbook ended by itself (or by its own 30-minute timeout).
PlaybookEnds(r) ==
  /\ pc[r] = "playing"
  /\ ~ContextDone(r)
  /\ \E o \in Outcomes : outcome' = [outcome EXCEPT ![r] = o]
  /\ GoTo(r, "returned")
  /\ UNCHANGED <<status, registered, ctxDone, watching, cancelling, notified,
                 stopping>>

\* The playbook was killed because its context is done.
PlaybookKilled(r) ==
  /\ pc[r] = "playing"
  /\ ContextDone(r)
  /\ outcome' = [outcome EXCEPT ![r] = "failed"]
  /\ GoTo(r, "returned")
  /\ UNCHANGED <<status, registered, ctxDone, watching, cancelling, notified,
                 stopping>>

\* if ctx.Err() != nil after the playbook returned.
CheckContext(r) ==
  /\ pc[r] = "returned"
  /\ GoTo(r, IF ContextDone(r) THEN "interrupt" ELSE "persist")
  /\ UNCHANGED <<status, registered, ctxDone, watching, cancelling, outcome,
                 notified, stopping>>

InterruptRunningRun(r) ==
  /\ pc[r] = "interrupt"
  /\ Detached(WriteResultIfCurrent(r, "running", "failed"))
  /\ GoTo(r, "exit")
  /\ UNCHANGED <<registered, ctxDone, watching, cancelling, outcome, notified,
                 stopping>>

\* Mutant: a playbook that returned without an error counts as a success.
PersistSuccess(r) ==
  /\ pc[r] = "persist"
  /\ StatementSucceeds(r)
  /\ WriteResult(r, "success")
  /\ GoTo(r, "notify")
  /\ UNCHANGED <<registered, ctxDone, watching, cancelling, outcome, notified,
                 stopping>>

PersistRunResult(r) ==
  /\ pc[r] = "persist"
  /\ StatementSucceeds(r)
  /\ WriteResult(r, outcome[r])
  /\ GoTo(r, "notify")
  /\ UNCHANGED <<registered, ctxDone, watching, cancelling, outcome, notified,
                 stopping>>

\* The write uses the run's context: when that is done it fails, and the error
\* is only logged.
PersistRunResultFails(r) ==
  /\ pc[r] = "persist"
  /\ StatementFails(r)
  /\ GoTo(r, "notify")
  /\ UNCHANGED <<status, registered, ctxDone, watching, cancelling, outcome,
                 notified, stopping>>

\* Mutant: the notification reports the result at hand instead of the row.
NotifyWithoutReading(r) ==
  /\ pc[r] = "notify"
  /\ notified' = IF StatementSucceeds(r)
                 THEN [notified EXCEPT ![r] = outcome[r]]
                 ELSE notified
  /\ GoTo(r, "exit")
  /\ UNCHANGED <<status, registered, ctxDone, watching, cancelling, outcome,
                 stopping>>

\* The notification reports the row as it is read now; a failed read skips it.
SendRunCompletionNotification(r) ==
  /\ pc[r] = "notify"
  /\ notified' = IF StatementSucceeds(r)
                 THEN [notified EXCEPT ![r] = status[r]]
                 ELSE notified
  /\ GoTo(r, "exit")
  /\ UNCHANGED <<status, registered, ctxDone, watching, cancelling, outcome,
                 stopping>>

\* Mutant: the release of the slot is not deferred.
ExitRunKeepingSlot(r) ==
  /\ pc[r] = "exit"
  /\ watching' = watching \ {r}
  /\ registered' = registered \ {r}
  /\ ctxDone' = ctxDone \cup {r}
  /\ UNCHANGED <<status, pc, cancelling, outcome, notified, stopping>>

\* The deferred calls: stop the watcher, forget and call the cancel function,
\* release the slot.
ExitRun(r) ==
  /\ pc[r] = "exit"
  /\ watching' = watching \ {r}
  /\ registered' = registered \ {r}
  /\ ctxDone' = ctxDone \cup {r}
  /\ GoTo(r, "done")
  /\ UNCHANGED <<status, cancelling, outcome, notified, stopping>>

\* recoverRunPanic: whatever the goroutine was doing, the row becomes failed
\* unless it is cancelled.  The completion notification may have left before.
PanicRun(r) ==
  /\ "panic" \in Faults
  /\ pc[r] \in (Working \cup {"start", "notify"})
  /\ Detached(WriteResult(r, "failed"))
  /\ notified' \in {notified} \cup (IF pc[r] = "notify" /\ StatementSucceeds(r)
                                    THEN {[notified EXCEPT ![r] = status[r]]} ELSE {})
  /\ GoTo(r, "exit")
  /\ UNCHANGED <<registered, ctxDone, watching, cancelling, outcome, stopping>>
-----------------------------------------------------------------------------
(* Cancellation, the watcher, the end of the Service *)

\* CancelRun through this Service, up to the write of the row.
CancelRun(r) ==
  /\ CancelRow(r)
  /\ cancelling' = cancelling \cup {r}
  /\ UNCHANGED <<pc, registered, ctxDone, watching, outcome, notified, stopping>>

CancelRunSignal(r) ==
  /\ r \in cancelling
  /\ SignalStoredCancel(r)
  /\ cancelling' = cancelling \ {r}
  /\ UNCHANGED <<status, pc, watching, outcome, notified, stopping>>

\* CancelRun through another Service: the scheduler's, or another process.  The
\* cancel function of the run is not in that Service's map.
CancelRunElsewhere(r) ==
  /\ CancelRow(r)
  /\ UNCHANGED <<pc, registered, ctxDone, watching, cancelling, outcome,
                 notified, stopping>>

\* Mutant: the watcher stops at any terminal row and tells nobody.
WatchWithoutSignal(r) ==
  /\ r \in watching
  /\ status[r] \in Terminal
  /\ watching' = watching \ {r}
  /\ UNCHANGED <<status, pc, registered, ctxDone, cancelling, outcome, notified,
                 stopping>>

\* A poll of the watcher that finds the row terminal.
WatchRunStatus(r) ==
  /\ r \in watching
  /\ status[r] \in Terminal
  /\ IF status[r] = "cancelled"
     THEN SignalStoredCancel(r)
     ELSE UNCHANGED <<ctxDone, registered>>
  /\ watching' = watching \ {r}
  /\ UNCHANGED <<status, pc, cancelling, outcome, notified, stopping>>

Shutdown ==
  /\ "stop" \in Faults
  /\ ~stopping
  /\ stopping' = TRUE
  /\ UNCHANGED <<status, pc, registered, ctxDone, watching, cancelling, outcome,
                 notified>>

\* The process dies; everything but the rows is gone.  Nothing looks for the
\* rows it leaves pending or running when it is started again.
Crash ==
  /\ "crash" \in Faults
  /\ \E r \in Runs : pc[r] \in Waiting \cup Holding
  /\ pc' = [r \in Runs |-> IF pc[r] \in Waiting \cup Holding THEN "lost" ELSE pc[r]]
  /\ registered' = {}
  /\ ctxDone' = {}
  /\ watching' = {}
  /\ cancelling' = {}
  /\ stopping' = FALSE
  /\ UNCHANGED <<status, outcome, notified>>

Worker(r) ==
  \/ Acquire(r) \/ AcquireStopped(r) \/ MarkPendingRunInterrupted(r)
  \/ BindRunContext(r) \/ StartRun(r) \/ StartRunFails(r)
  \/ PrepareRun(r) \/ PrepareRunFails(r)
  \/ PlaybookKilled(r)
  \/ CheckContext(r) \/ InterruptRunningRun(r)
  \/ PersistRunResult(r) \/ PersistRunResultFails(r)
  \/ SendRunCompletionNotification(r) \/ ExitRun(r)

Next ==
  \/ \E r \in Runs : \/ ExecuteTask(r)
                     \/ Worker(r)
                     \/ PlaybookEnds(r)
                     \/ PanicRun(r)
                     \/ CancelRun(r)
                     \/ CancelRunSignal(r)
                     \/ CancelRunElsewhere(r)
                     \/ WatchRunStatus(r)
  \/ Shutdown
  \/ Crash

Spec == Init /\ [][Next]_vars

\* Goroutines, tickers and requests keep running.  A blocked send on the
\* semaphore is served in arrival order, so a waiting run that finds a slot free
\* again and again takes one.  Nothing makes a playbook end.
Fairness == \A r \in Runs : /\ WF_vars(Worker(r))
                            /\ SF_vars(Acquire(r))
                            /\ WF_vars(CancelRunSignal(r))
                            /\ WF_vars(WatchRunStatus(r))

FairSpec == Spec /\ Fairness

\* The executor's 30-minute timeout ends every playbook.
PlaybooksEnd == \A r \in Runs : WF_vars(PlaybookEnds(r))
-----------------------------------------------------------------------------
(* Properties *)

\* A run recorded as success or partial is one whose playbook ended that way:
\* no failure path, interruption or restart can invent a success.
OutcomeIsTrue ==
  \A r \in Runs : status[r] \in {"success", "partial"} => outcome[r] = status[r]

\* The completion notification tells the receivers the status the row keeps: it is
\* never sent for a row that is still running or changes afterwards, unless the
\* goroutine panics with the notification sent.
NotificationMatchesRow ==
  \A r \in Runs : notified[r] # "none" =>
    notified[r] = status[r] \/ ("panic" \in Faults /\ status[r] = "failed")

\* A goroutine that ends while the Service is not shut down leaves its row in a
\* terminal status; otherwise the row says pending or running for ever, since
\* nothing else would end it.
NoOrphanedRun ==
  [][\A r \in Runs : pc[r] # "done" /\ pc'[r] = "done" /\ ~stopping
                       => status'[r] \in Terminal]_vars

\* Cancelling a run ends the work done for it and gives its slot back, even if
\* the playbook hangs and even if the call reached a Service that does not own
\* the goroutine.  (A run cancelled in the queue may wait there behind others.)
CancelStopsWork ==
  \A r \in Runs : status[r] = "cancelled" ~> pc[r] \notin Holding

\* If playbooks end, every run that was accepted ends, although workers are fewer
\* than runs and goroutines may panic; only a crash or a shutdown cuts it short.
EveryRunSettles ==
  PlaybooksEnd =>
    \A r \in Runs : pc[r] = "queued" ~> \/ status[r] \in Terminal
                                        \/ pc[r] = "lost" \/ stopping

\* The row of a run goes through the contract's steps and no other.
Lifecycle == INSTANCE RunLifecycle WITH Runs <- Runs, status <- status
ImplementsLifecycle == Lifecycle!Spec
=============================================================================
