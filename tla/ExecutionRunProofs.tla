------------------------- MODULE ExecutionRunProofs -------------------------
(***************************************************************************)
(* Theorems about ExecutionRun for any set of runs, any number of workers  *)
(* and any set of faults.                                                  *)
(***************************************************************************)
EXTENDS ExecutionRun, TLAPS

USE DEF Outcomes, Active, Terminal, Statuses, Waiting, Starting, Working,
        Holding, PCs

\* The row and the place of the goroutine: a goroutine that has not written the
\* start finds its row pending, one that has finds it running, and in between
\* only a cancellation may have come.
RowFollowsGoroutine ==
  \A r \in Runs :
    /\ pc[r] \in Waiting \cup Starting => status[r] \in {"pending", "cancelled"}
    /\ pc[r] \in Working => status[r] \in {"running", "cancelled"}
    /\ pc[r] \in {"returned", "interrupt", "persist"} => outcome[r] \in Outcomes
    /\ pc[r] = "none" <=> status[r] = "none"

IInv == TypeOK /\ RowFollowsGoroutine /\ OutcomeIsTrue

\* A cancellation signal is only ever sent to a cancelled run, so a context that
\* is done while its goroutine is at work belongs to a cancelled run.
OnlyCancelledAreSignalled ==
  \A r \in Runs :
    /\ r \in cancelling => status[r] = "cancelled"
    /\ r \in ctxDone /\ pc[r] \notin {"exit", "done", "lost"}
         => status[r] = "cancelled"

\* Only a shutdown makes a goroutine give up on a row that is not terminal.
FinishedAreTerminal ==
  \A r \in Runs : pc[r] \in {"notify", "exit"} /\ ~stopping => status[r] \in Terminal

\* A notification leaves once nothing but a panic can change the row.
NotifiedAreFinal ==
  \A r \in Runs : notified[r] # "none" =>
    /\ pc[r] \in {"exit", "done", "lost"}
    /\ status[r] \in Terminal
    /\ notified[r] = status[r] \/ ("panic" \in Faults /\ status[r] = "failed")

SettleInv == /\ IInv
             /\ OnlyCancelledAreSignalled
             /\ FinishedAreTerminal
             /\ NotifiedAreFinal
-----------------------------------------------------------------------------
LEMMA TypeStep == TypeOK /\ [Next]_vars => TypeOK'
<1> SUFFICES ASSUME TypeOK, [Next]_vars PROVE TypeOK'
  OBVIOUS
<1> USE DEF TypeOK, GoTo
<1>1. CASE UNCHANGED vars
  BY <1>1 DEF vars
<1>2. ASSUME NEW r \in Runs, ExecuteTask(r) PROVE TypeOK'
  BY <1>2 DEF ExecuteTask
<1>3. ASSUME NEW r \in Runs, Worker(r) PROVE TypeOK'
  <2>1. CASE Acquire(r) \/ AcquireStopped(r) \/ MarkPendingRunInterrupted(r)
    BY <2>1 DEF Acquire, AcquireStopped, MarkPendingRunInterrupted, Detached,
                WriteResultIfCurrent
  <2>2. CASE BindRunContext(r) \/ StartRun(r) \/ StartRunFails(r)
    BY <2>2 DEF BindRunContext, StartRun, StartRunFails
  <2>3. CASE PrepareRun(r) \/ PrepareRunFails(r) \/ PlaybookKilled(r)
    BY <2>3 DEF PrepareRun, PrepareRunFails, PlaybookKilled, Detached, WriteResult
  <2>4. CASE CheckContext(r) \/ InterruptRunningRun(r)
    BY <2>4 DEF CheckContext, InterruptRunningRun, Detached, WriteResultIfCurrent
  <2>5. CASE PersistRunResult(r) \/ PersistRunResultFails(r)
    BY <2>5 DEF PersistRunResult, PersistRunResultFails, WriteResult
  <2>6. CASE SendRunCompletionNotification(r) \/ ExitRun(r)
    BY <2>6 DEF SendRunCompletionNotification, ExitRun
  <2>7. QED
    BY <1>3, <2>1, <2>2, <2>3, <2>4, <2>5, <2>6 DEF Worker
<1>4. ASSUME NEW r \in Runs, PlaybookEnds(r) \/ PanicRun(r) PROVE TypeOK'
  BY <1>4 DEF PlaybookEnds, PanicRun, Detached, WriteResult
<1>5. ASSUME NEW r \in Runs,
             CancelRun(r) \/ CancelRunSignal(r) \/ CancelRunElsewhere(r)
               \/ WatchRunStatus(r)
      PROVE  TypeOK'
  BY <1>5 DEF CancelRun, CancelRunSignal, CancelRunElsewhere, WatchRunStatus,
              CancelRow, SignalStoredCancel
<1>6. CASE Shutdown \/ Crash
  BY <1>6 DEF Shutdown, Crash
<1>7. QED
  BY <1>1, <1>2, <1>3, <1>4, <1>5, <1>6 DEF Next

\* Every variable keeps its type (in particular the status of a row is one of
\* the documented ones).
THEOREM TypeCorrect == Spec => []TypeOK
<1>1. Init => TypeOK
  BY DEF Init, TypeOK
<1>2. QED
  BY <1>1, TypeStep, PTL DEF Spec
-----------------------------------------------------------------------------
LEMMA IInvStep == IInv /\ [Next]_vars => IInv'
<1> SUFFICES ASSUME IInv, [Next]_vars PROVE RowFollowsGoroutine' /\ OutcomeIsTrue'
  BY TypeStep DEF IInv
<1> USE DEF IInv, TypeOK, RowFollowsGoroutine, OutcomeIsTrue, GoTo
<1>1. CASE UNCHANGED vars
  BY <1>1 DEF vars
<1>2. ASSUME NEW r \in Runs, ExecuteTask(r) PROVE RowFollowsGoroutine' /\ OutcomeIsTrue'
  BY <1>2 DEF ExecuteTask
<1>3. ASSUME NEW r \in Runs, Worker(r) PROVE RowFollowsGoroutine' /\ OutcomeIsTrue'
  <2>1. CASE Acquire(r) \/ AcquireStopped(r)
    BY <2>1 DEF Acquire, AcquireStopped
  <2>2. CASE MarkPendingRunInterrupted(r)
    BY <2>2 DEF MarkPendingRunInterrupted, Detached, WriteResultIfCurrent
  <2>3. CASE BindRunContext(r) \/ StartRun(r) \/ StartRunFails(r)
    BY <2>3 DEF BindRunContext, StartRun, StartRunFails
  <2>4. CASE PrepareRun(r) \/ PlaybookKilled(r) \/ CheckContext(r)
    BY <2>4 DEF PrepareRun, PlaybookKilled, CheckContext
  <2>5. CASE PrepareRunFails(r)
    BY <2>5 DEF PrepareRunFails, Detached, WriteResult
  <2>6. CASE InterruptRunningRun(r)
    BY <2>6 DEF InterruptRunningRun, Detached, WriteResultIfCurrent
  <2>7. CASE PersistRunResult(r) \/ PersistRunResultFails(r)
    BY <2>7 DEF PersistRunResult, PersistRunResultFails, WriteResult
  <2>8. CASE SendRunCompletionNotification(r) \/ ExitRun(r)
    BY <2>8 DEF SendRunCompletionNotification, ExitRun
  <2>9. QED
    BY <1>3, <2>1, <2>2, <2>3, <2>4, <2>5, <2>6, <2>7, <2>8 DEF Worker
<1>4. ASSUME NEW r \in Runs, PlaybookEnds(r) PROVE RowFollowsGoroutine' /\ OutcomeIsTrue'
  BY <1>4 DEF PlaybookEnds
<1>5. ASSUME NEW r \in Runs, PanicRun(r) PROVE RowFollowsGoroutine' /\ OutcomeIsTrue'
  BY <1>5 DEF PanicRun, Detached, WriteResult
<1>6. ASSUME NEW r \in Runs, CancelRun(r) \/ CancelRunElsewhere(r)
      PROVE  RowFollowsGoroutine' /\ OutcomeIsTrue'
  BY <1>6 DEF CancelRun, CancelRunElsewhere, CancelRow
<1>7. ASSUME NEW r \in Runs, CancelRunSignal(r) \/ WatchRunStatus(r)
      PROVE  RowFollowsGoroutine' /\ OutcomeIsTrue'
  BY <1>7 DEF CancelRunSignal, WatchRunStatus
<1>8. CASE Shutdown \/ Crash
  BY <1>8 DEF Shutdown, Crash
<1>9. QED
  BY <1>1, <1>2, <1>3, <1>4, <1>5, <1>6, <1>7, <1>8 DEF Next

LEMMA IInvCorrect == Spec => []IInv
<1>1. Init => IInv
  BY DEF Init, IInv, TypeOK, RowFollowsGoroutine, OutcomeIsTrue
<1>2. QED
  BY <1>1, IInvStep, PTL DEF Spec

\* A success or partial in the row is what the playbook did: UpdateRunResult is
\* the only writer of those two, and it writes the outcome it was handed.
THEOREM OutcomeCorrect == Spec => []OutcomeIsTrue
<1>1. IInv => OutcomeIsTrue
  BY DEF IInv
<1>2. QED
  BY <1>1, IInvCorrect, PTL

-----------------------------------------------------------------------------
\* While its statements succeed, a goroutine comes to its end with a terminal row
\* unless the Service is shut down: every early return of executeInBackground comes
\* after a write of the row or after somebody else's cancellation.
LEMMA SettleStep ==
  ASSUME "dberror" \notin Faults
  PROVE  SettleInv /\ [Next]_vars => SettleInv'
<1> SUFFICES ASSUME SettleInv, [Next]_vars
             PROVE  /\ OnlyCancelledAreSignalled' /\ FinishedAreTerminal'
                    /\ NotifiedAreFinal'
  BY IInvStep DEF SettleInv
<1> DEFINE Goal == /\ OnlyCancelledAreSignalled' /\ FinishedAreTerminal'
                   /\ NotifiedAreFinal'
<1> USE DEF SettleInv, IInv, TypeOK, RowFollowsGoroutine,
            OnlyCancelledAreSignalled, FinishedAreTerminal, NotifiedAreFinal, GoTo
<1>1. CASE UNCHANGED vars
  BY <1>1 DEF vars
<1>2. ASSUME NEW r \in Runs, ExecuteTask(r) PROVE Goal
  BY <1>2 DEF ExecuteTask
<1>3. ASSUME NEW r \in Runs, Worker(r) PROVE Goal
  <2>1. CASE Acquire(r) \/ AcquireStopped(r) \/ BindRunContext(r)
    BY <2>1 DEF Acquire, AcquireStopped, BindRunContext
  <2>2. CASE MarkPendingRunInterrupted(r)
    BY <2>2 DEF MarkPendingRunInterrupted, Detached, WriteResultIfCurrent
  <2>3. CASE StartRun(r) \/ StartRunFails(r)
    BY <2>3 DEF StartRun, StartRunFails, StatementFails, ContextDone
  <2>4. CASE PrepareRun(r) \/ PlaybookKilled(r)
    BY <2>4 DEF PrepareRun, PlaybookKilled
  <2>5. CASE PrepareRunFails(r)
    BY <2>5 DEF PrepareRunFails, Detached, WriteResult
  <2>6. CASE CheckContext(r)
    BY <2>6 DEF CheckContext
  <2>7. CASE InterruptRunningRun(r)
    BY <2>7 DEF InterruptRunningRun, Detached, WriteResultIfCurrent
  <2>8. CASE PersistRunResult(r)
    BY <2>8 DEF PersistRunResult, WriteResult
  <2>9. CASE PersistRunResultFails(r)
    BY <2>9 DEF PersistRunResultFails, StatementFails, ContextDone
  <2>10. CASE SendRunCompletionNotification(r)
    BY <2>10 DEF SendRunCompletionNotification, StatementSucceeds, ContextDone
  <2>11. CASE ExitRun(r)
    BY <2>11 DEF ExitRun
  <2>12. QED
    BY <1>3, <2>1, <2>2, <2>3, <2>4, <2>5, <2>6, <2>7, <2>8, <2>9, <2>10, <2>11
       DEF Worker
<1>4. ASSUME NEW r \in Runs, PlaybookEnds(r) PROVE Goal
  BY <1>4 DEF PlaybookEnds
<1>5. ASSUME NEW r \in Runs, PanicRun(r) PROVE Goal
  <2>1. status' = [status EXCEPT ![r] = IF @ = "cancelled" THEN @ ELSE "failed"]
    BY <1>5 DEF PanicRun, Detached, WriteResult
  <2>2. pc' = [pc EXCEPT ![r] = "exit"] /\ "panic" \in Faults /\ notified[r] = "none"
    BY <1>5 DEF PanicRun
  <2>3. CASE notified' = notified
    BY <1>5, <2>1, <2>2, <2>3 DEF PanicRun
  <2>4. CASE notified' = [notified EXCEPT ![r] = status[r]]
             /\ pc[r] = "notify" /\ ~stopping
    BY <1>5, <2>1, <2>2, <2>4 DEF PanicRun
  <2>5. QED
    BY <1>5, <2>3, <2>4 DEF PanicRun, StatementSucceeds, ContextDone
<1>6. ASSUME NEW r \in Runs, CancelRun(r) \/ CancelRunElsewhere(r) PROVE Goal
  BY <1>6 DEF CancelRun, CancelRunElsewhere, CancelRow
<1>7. ASSUME NEW r \in Runs, CancelRunSignal(r) \/ WatchRunStatus(r) PROVE Goal
  BY <1>7 DEF CancelRunSignal, WatchRunStatus, SignalStoredCancel
<1>8. CASE Shutdown
  BY <1>8 DEF Shutdown
<1>9. CASE Crash
  BY <1>9 DEF Crash
<1>10. QED
  BY <1>1, <1>2, <1>3, <1>4, <1>5, <1>6, <1>7, <1>8, <1>9 DEF Next

LEMMA SettleCorrect ==
  ASSUME "dberror" \notin Faults
  PROVE  Spec => []SettleInv
<1>1. Init => SettleInv
  BY DEF Init, SettleInv, IInv, TypeOK, RowFollowsGoroutine, OutcomeIsTrue,
         OnlyCancelledAreSignalled, FinishedAreTerminal, NotifiedAreFinal
<1>2. QED
  BY <1>1, SettleStep, PTL DEF Spec

\* The receivers of a notification were told what the row says, or the goroutine
\* panicked after it had told them.
THEOREM NotificationCorrect ==
  ASSUME "dberror" \notin Faults
  PROVE  Spec => []NotificationMatchesRow
<1>1. SettleInv => NotificationMatchesRow
  BY DEF SettleInv, NotifiedAreFinal, NotificationMatchesRow
<1>2. QED
  BY <1>1, SettleCorrect, PTL

\* No goroutine ends with its row open, short of a shutdown and of failing
\* statements, whatever panics and crashes come between.
THEOREM NoOrphanWithoutStop ==
  ASSUME "dberror" \notin Faults
  PROVE  Spec => NoOrphanedRun
<1> DEFINE Ends(r) == pc[r] # "done" /\ pc'[r] = "done" /\ ~stopping
<1>1. ASSUME SettleInv, [Next]_vars, NEW r \in Runs, Ends(r)
      PROVE  status'[r] \in Terminal
  <2> USE <1>1 DEF SettleInv, IInv, TypeOK, GoTo
  <2>1. ASSUME NEW q \in Runs, ExitRun(q) PROVE status'[r] \in Terminal
    BY <2>1 DEF ExitRun, FinishedAreTerminal
  <2>2. ASSUME NEW q \in Runs, MarkPendingRunInterrupted(q)
        PROVE  status'[r] \in Terminal
    BY <2>2 DEF MarkPendingRunInterrupted, Detached, WriteResultIfCurrent,
                RowFollowsGoroutine
  <2>3. ASSUME NEW q \in Runs, Worker(q) PROVE status'[r] \in Terminal
    BY <2>1, <2>2, <2>3 DEF Worker, Acquire, AcquireStopped, BindRunContext, StartRun,
       StartRunFails, PrepareRun, PrepareRunFails, PlaybookKilled, CheckContext,
       InterruptRunningRun, PersistRunResult, PersistRunResultFails,
       SendRunCompletionNotification
  <2>4. ASSUME NEW q \in Runs,
               ExecuteTask(q) \/ PlaybookEnds(q) \/ PanicRun(q) \/ CancelRun(q)
                 \/ CancelRunSignal(q) \/ CancelRunElsewhere(q) \/ WatchRunStatus(q)
        PROVE  FALSE
    BY <2>4 DEF ExecuteTask, PlaybookEnds, PanicRun, CancelRun, CancelRunSignal,
       CancelRunElsewhere, WatchRunStatus
  <2>5. CASE Shutdown \/ Crash \/ UNCHANGED vars
    BY <2>5 DEF Shutdown, Crash, vars
  <2>6. QED
    BY <2>3, <2>4, <2>5 DEF Next
<1>2. SettleInv /\ [Next]_vars => [\A r \in Runs : Ends(r) => status'[r] \in Terminal]_vars
  BY <1>1
<1>3. QED
  BY <1>2, SettleCorrect, PTL DEF Spec, NoOrphanedRun

\* A step of the contract, a panic's only where goroutines panic.
Advances ==
  \/ status' = status
  \/ \E r \in Runs : \/ Lifecycle!Create(r) \/ Lifecycle!Begin(r) \/ Lifecycle!Abandon(r)
                     \/ Lifecycle!Finish(r) \/ Lifecycle!Cancel(r)
                     \/ "panic" \in Faults /\ Lifecycle!Panic(r)

LEMMA LifecycleStep ==
  ASSUME IInv, [Next]_vars
  PROVE  Advances
<1> USE DEF Advances, Lifecycle!Create, Lifecycle!Begin, Lifecycle!Abandon, Lifecycle!Finish,
            Lifecycle!Panic, Lifecycle!Cancel, Lifecycle!Outcomes, Lifecycle!Active
<1> USE DEF IInv, TypeOK, RowFollowsGoroutine
<1>1. CASE UNCHANGED vars
  BY <1>1 DEF vars
<1>2. ASSUME NEW r \in Runs, ExecuteTask(r) PROVE Advances
  BY <1>2 DEF ExecuteTask
<1>3. ASSUME NEW r \in Runs, Worker(r) PROVE Advances
  <2>1. CASE MarkPendingRunInterrupted(r)
    <3>1. status' = status \/ Lifecycle!Abandon(r)
      BY <2>1 DEF MarkPendingRunInterrupted, Detached, WriteResultIfCurrent
    <3>2. QED
      BY <3>1
  <2>2. CASE StartRun(r)
    <3>1. status' = status \/ Lifecycle!Begin(r)
      BY <2>2 DEF StartRun
    <3>2. QED
      BY <3>1
  <2>3. CASE PrepareRunFails(r)
    <3>1. status' = status \/ Lifecycle!Finish(r)
      BY <2>3 DEF PrepareRunFails, Detached, WriteResult
    <3>2. QED
      BY <3>1
  <2>4. CASE InterruptRunningRun(r)
    <3>1. status' = status \/ Lifecycle!Finish(r)
      BY <2>4 DEF InterruptRunningRun, Detached, WriteResultIfCurrent
    <3>2. QED
      BY <3>1
  <2>5. CASE PersistRunResult(r)
    <3>1. status' = status \/ Lifecycle!Finish(r)
      BY <2>5 DEF PersistRunResult, WriteResult
    <3>2. QED
      BY <3>1
  <2>6. QED
    BY <1>3, <2>1, <2>2, <2>3, <2>4, <2>5
       DEF Worker, Acquire, AcquireStopped, BindRunContext, StartRunFails,
           PrepareRun, PlaybookKilled, CheckContext, PersistRunResultFails,
           SendRunCompletionNotification, ExitRun
<1>4. ASSUME NEW r \in Runs, PlaybookEnds(r) \/ PanicRun(r)
      PROVE  Advances
  <2>1. CASE PanicRun(r)
    <3>1. \/ status' = status
          \/ Lifecycle!Abandon(r) \/ Lifecycle!Finish(r)
          \/ "panic" \in Faults /\ Lifecycle!Panic(r)
      BY <2>1 DEF PanicRun, Detached, WriteResult
    <3>2. QED
      BY <3>1
  <2>2. QED
    BY <1>4, <2>1 DEF PlaybookEnds
<1>5. ASSUME NEW r \in Runs, CancelRun(r) \/ CancelRunElsewhere(r)
      PROVE  Advances
  BY <1>5 DEF CancelRun, CancelRunElsewhere, CancelRow
<1>6. ASSUME NEW r \in Runs, CancelRunSignal(r) \/ WatchRunStatus(r)
      PROVE  Advances
  BY <1>6 DEF CancelRunSignal, WatchRunStatus
<1>7. CASE Shutdown \/ Crash
  BY <1>7 DEF Shutdown, Crash
<1>8. QED
  BY <1>1, <1>2, <1>3, <1>4, <1>5, <1>6, <1>7 DEF Next

\* The row of a run follows the contract of RunLifecycle, whatever fails: every
\* write of the Service is one of its steps, and none leaves cancelled.
THEOREM LifecycleImplemented == Spec => ImplementsLifecycle
<1>1. Init => Lifecycle!Init
  BY DEF Init, Lifecycle!Init
<1>2. IInv /\ [Next]_vars => [Lifecycle!Next]_status
  BY LifecycleStep DEF Advances, Lifecycle!Next
<1>3. QED
  BY <1>1, <1>2, IInvCorrect, PTL DEF Spec, ImplementsLifecycle, Lifecycle!Spec

\* What flows, schedules and notices take from the row of an ended run stays true of it: it
\* never changes again, whoever still cancels, interrupts, times out or writes a result, but for
\* an outcome that becomes failed where a goroutine panics after it wrote it.
THEOREM EndsAreFinal ==
  Spec => [][\A r \in Runs : status[r] \in Terminal =>
               \/ status'[r] = status[r]
               \/ "panic" \in Faults /\ status[r] # "cancelled" /\ status'[r] = "failed"]_vars
<1> DEFINE Final == \A r \in Runs : status[r] \in Terminal =>
                      \/ status'[r] = status[r]
                      \/ "panic" \in Faults /\ status[r] # "cancelled" /\ status'[r] = "failed"
<1>1. IInv /\ [Next]_vars => Final
  <2> SUFFICES ASSUME IInv, [Next]_vars PROVE Final
    OBVIOUS
  <2>1. Advances /\ status \in [Runs -> Statuses]
    BY LifecycleStep DEF IInv, TypeOK
  <2> QED
    BY <2>1 DEF Advances, Terminal, Outcomes, Lifecycle!Create, Lifecycle!Begin, Lifecycle!Abandon,
       Lifecycle!Finish, Lifecycle!Panic, Lifecycle!Cancel, Lifecycle!Outcomes, Lifecycle!Active
<1> QED
  BY <1>1, IInvCorrect, PTL DEF Spec
=============================================================================
