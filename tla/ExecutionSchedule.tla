-------------------------- MODULE ExecutionSchedule --------------------------
(***************************************************************************)
(* The execution scheduler: a scan lists the due schedules, claims each by *)
(* a lease on next_run_at and hands it to a goroutine, which starts a run, *)
(* notes the trigger, waits for the run and writes the result, while users *)
(* edit the schedules, the scheduler is stopped or the process dies.       *)
(*                                                                         *)
(* Times are abstracted to what the code compares: next_run_at is null,    *)
(* later, due, or the end of a lease.  A lease (40 minutes) outlives the   *)
(* wait for a run (35 minutes), so it ends only when no goroutine of this  *)
(* claim is left, unless the goroutine was detached by a stop.             *)
(***************************************************************************)
EXTENDS Naturals, FiniteSets

CONSTANTS Schedules,      \* identifiers of execution_schedules rows
          Workers,        \* goroutines that may follow a schedule at once
          Runs,           \* execution runs that may be of interest at once
          MaxConcurrent,  \* capacity of the scheduler's semaphore
          MaxFailures,    \* max_failures of every schedule
          MaxCrashes,     \* bound: lives of the process, less one
          Happens,        \* the events this instance exhibits
          None            \* no snapshot, no run

EventKinds == {"crash",    \* the process dies and is started again
               "stop",     \* the scheduler is stopped, then the process ends
               "dberror",  \* a statement of the scheduler fails
               "timeout",  \* a run is not over after 35 minutes
               "rearm"}    \* a user edits a schedule the scheduler holds

ASSUME ScheduleConstants == /\ MaxConcurrent \in Nat \ {0}
                            /\ MaxFailures \in Nat
                            /\ MaxCrashes \in Nat
                            /\ Happens \subseteq EventKinds
                            /\ None \notin Runs
                            /\ IsFiniteSet(Workers)

VARIABLES
  row,       \* the rows: see Rows
  run,       \* the runs: whose they are, and where they stand
  scan,      \* checkAndExecute: its place, the list it goes through, the one in hand
  job,       \* the goroutines of executeSchedule and detachScheduleCompletion
  inFlight,  \* InFlightSet
  sem,       \* tokens taken from the semaphore
  stopped,   \* the lifecycle's context is cancelled
  crashes,   \* lives of the process so far, less one
  fired,     \* runs started since a user armed the schedule, in this life (history)
  streak     \* failures recorded since the last success or arming (history)

vars == <<row, run, scan, job, inFlight, sem, stopped, crashes, fired, streak>>
memory == <<scan, job, inFlight, sem, stopped, crashes>>
history == <<fired, streak>>

Types     == {"cron", "once"}
Statuses  == {"running", "pending", "completed", "disabled", "auto_paused"}
Times     == {"null", "later", "due", "lease"}

\* What a goroutine keeps of the row it was started for.
Snapshots == [id : Schedules, type : Types, failures : Nat]

ASSUME NoneIsNoSnapshot == None \notin Snapshots

Rows == [exists : BOOLEAN, type : Types, at : {"null", "future", "past"},
         enabled : BOOLEAN, status : Statuses, next : Times, ran : BOOLEAN,
         failures : Nat]

NoRow == [exists |-> FALSE, type |-> "cron", at |-> "null", enabled |-> FALSE,
          status |-> "disabled", next |-> "null", ran |-> FALSE, failures |-> 0]

Places == {"idle", "launch", "lastrun", "nextrun", "wait", "fail", "restore",
           "succeed", "complete", "exit"}

Jobs == [pc : Places, sched : Snapshots \cup {None}, run : Runs \cup {None},
         started : BOOLEAN, unsaved : BOOLEAN, detached : BOOLEAN]

IdleJob == [pc |-> "idle", sched |-> None, run |-> None, started |-> FALSE,
            unsaved |-> FALSE, detached |-> FALSE]

NoRun == [of |-> None, status |-> "free"]
NoScan == [pc |-> "scan", due |-> {}, sched |-> None]

TypeOK ==
  /\ row \in [Schedules -> Rows]
  /\ run \in [Runs -> [of : Schedules \cup {None},
                       status : {"free", "open", "success", "failed"}]]
  /\ scan \in [pc : {"scan", "dispatch", "rollback"}, due : SUBSET Snapshots,
               sched : Snapshots \cup {None}]
  /\ job \in [Workers -> Jobs]
  /\ inFlight \subseteq Schedules
  /\ sem \in 0..MaxConcurrent
  /\ stopped \in BOOLEAN
  /\ crashes \in 0..MaxCrashes
  /\ fired \in [Schedules -> 0..2]
  /\ streak \in [Schedules -> Nat]

Init ==
  /\ row = [s \in Schedules |-> NoRow]
  /\ run = [x \in Runs |-> NoRun]
  /\ scan = NoScan
  /\ job = [w \in Workers |-> IdleJob]
  /\ inFlight = {}
  /\ sem = 0
  /\ stopped = FALSE
  /\ crashes = 0
  /\ fired = [s \in Schedules |-> 0]
  /\ streak = [s \in Schedules |-> 0]
-----------------------------------------------------------------------------
(* Users. *)

\* CalculateStatus.
CalculateStatus(r) ==
  CASE ~r.enabled        -> "disabled"
    [] r.type = "cron"   -> "running"
    [] r.type = "once"   -> IF r.ran THEN "completed" ELSE "pending"

\* prepareScheduleForSave: a schedule that is switched off has no next run, and
\* the time of an enabled once schedule must lie ahead.
Acceptable(r) == r.enabled /\ r.type = "once" => r.at = "future"
Prepared(r) == [r EXCEPT !.next = IF r.enabled THEN "later" ELSE "null"]

\* The scheduler has the schedule in its list, in its hand or in flight.
InHand(s) == scan.sched # None /\ scan.sched.id = s
Held(s) == s \in inFlight \/ InHand(s) \/ \E d \in scan.due : d.id = s

\* Rows are read and written by two statements; the update does not depend on
\* what the scheduler writes in between, so they are one step.
MayEdit(s) == row[s].exists /\ (Held(s) => "rearm" \in Happens)

Armed(s) ==
  /\ fired' = [fired EXCEPT ![s] = 0]
  /\ streak' = [streak EXCEPT ![s] = 0]

\* Service.Create.  Bound: an identifier is used again once its row is gone.
Create(s) ==
  /\ ~row[s].exists
  /\ ~Held(s)
  /\ \A x \in Runs : run[x].of # s
  /\ \E ty \in Types, on \in BOOLEAN :
       LET r == [NoRow EXCEPT !.exists = TRUE, !.type = ty, !.enabled = on,
                              !.at = IF ty = "once" THEN "future" ELSE "null"]
       IN  row' = [row EXCEPT ![s] = [Prepared(r) EXCEPT !.status = CalculateStatus(r)]]
  /\ Armed(s)
  /\ UNCHANGED <<run, memory>>

\* Service.Enable.
Enable(s) ==
  /\ MayEdit(s)
  /\ LET r == [row[s] EXCEPT !.enabled = TRUE, !.failures = 0,
                             !.ran = IF row[s].type = "once" THEN FALSE ELSE @]
     IN  /\ Acceptable(r)
         /\ row' = [row EXCEPT ![s] = [Prepared(r) EXCEPT !.status = CalculateStatus(r)]]
  /\ Armed(s)
  /\ UNCHANGED <<run, memory>>

\* Service.Disable, at any moment.
Disable(s) ==
  /\ row[s].exists
  /\ row' = [row EXCEPT ![s].enabled = FALSE, ![s].status = "disabled", ![s].next = "null"]
  /\ UNCHANGED <<run, memory, history>>

\* Service.Update gives the schedule a new time, or saves it as it is; the status
\* and the failure counter stay.
Update(s) ==
  /\ MayEdit(s)
  /\ \E at \in {row[s].at} \cup (IF row[s].type = "once" THEN {"future"} ELSE {}) :
       LET r == [row[s] EXCEPT !.at = at]
       IN  Acceptable(r) /\ row' = [row EXCEPT ![s] = Prepared(r)]
  /\ fired' = [fired EXCEPT ![s] = 0]
  /\ UNCHANGED <<run, memory, streak>>

\* Service.Delete: disabled schedules only.
Delete(s) ==
  /\ row[s].exists
  /\ ~row[s].enabled
  /\ row' = [row EXCEPT ![s] = NoRow]
  /\ UNCHANGED <<run, memory, history>>
-----------------------------------------------------------------------------
(* Time. *)

\* The time of a schedule comes; the scheduled_at of a once schedule with it.
TimeComes(s) ==
  /\ row[s].next = "later" \/ row[s].at = "future"
  /\ row' = [row EXCEPT ![s].next = IF @ = "later" THEN "due" ELSE @,
                        ![s].at = IF @ = "future" THEN "past" ELSE @]
  /\ UNCHANGED <<run, memory, history>>

\* Forty minutes after a claim; the scan hands it over at once, and a goroutine
\* gives up waiting after thirty-five.
LeaseExpires(s) ==
  /\ row[s].next = "lease"
  /\ ~InHand(s)
  /\ \A w \in Workers : job[w].pc # "idle" /\ job[w].sched.id = s => job[w].detached
  /\ row' = [row EXCEPT ![s].next = "due"]
  /\ UNCHANGED <<run, memory, history>>
-----------------------------------------------------------------------------
(* The scan. *)

Writes(s, r) == row' = IF row[s].exists THEN [row EXCEPT ![s] = r] ELSE row

\* A statement with the lifecycle's context.
MaySucceed == ~stopped
MayFail == stopped \/ "dberror" \in Happens

\* The list of due schedules, with the values the rows have now.
CheckAndExecute ==
  /\ scan = NoScan
  /\ ~stopped
  /\ LET due == {s \in Schedules : row[s].enabled /\ row[s].next = "due"}
     IN  /\ due # {}
         /\ scan' = [scan EXCEPT !.due =
                {[id |-> s, type |-> row[s].type, failures |-> row[s].failures] : s \in due}]
  /\ UNCHANGED <<row, run, job, inFlight, sem, stopped, crashes, history>>

\* Mutant: whoever lists a schedule may claim it.
ClaimListed(d) ==
  /\ scan.pc = "scan"
  /\ d \in scan.due
  /\ Writes(d.id, [row[d.id] EXCEPT !.next = "lease"])
  /\ scan' = [pc |-> "dispatch", due |-> scan.due \ {d}, sched |-> d]
  /\ UNCHANGED <<run, job, inFlight, sem, stopped, crashes, history>>

\* claimSchedule: an update that finds the row enabled and still due, or does not.
ClaimSchedule(d) ==
  /\ scan.pc = "scan"
  /\ d \in scan.due
  /\ \/ /\ MaySucceed
        /\ row[d.id].enabled
        /\ row[d.id].next = "due"
        /\ row' = [row EXCEPT ![d.id].next = "lease"]
        /\ scan' = [pc |-> "dispatch", due |-> scan.due \ {d}, sched |-> d]
     \/ /\ MayFail \/ ~row[d.id].enabled \/ row[d.id].next # "due"
        /\ scan' = [scan EXCEPT !.due = @ \ {d}]
        /\ UNCHANGED row
  /\ UNCHANGED <<run, job, inFlight, sem, stopped, crashes, history>>

NewJob(d) == [IdleJob EXCEPT !.pc = "launch", !.sched = d]

\* Mutant: nobody asks whether the schedule is in flight.
DispatchUnchecked(d) ==
  IF sem < MaxConcurrent
  THEN /\ \E w \in Workers : /\ job[w].pc = "idle"
                             /\ job' = [job EXCEPT ![w] = NewJob(d)]
       /\ inFlight' = inFlight \cup {d.id}
       /\ sem' = sem + 1
       /\ scan' = [scan EXCEPT !.pc = "scan", !.sched = None]
  ELSE /\ scan' = [scan EXCEPT !.pc = "rollback"]
       /\ UNCHANGED <<job, inFlight, sem>>

\* The select of checkAndExecute and dispatchScheduledExecution: no token, a
\* schedule that is in flight, or a stopped lifecycle end in a rollback.
Dispatch(d) ==
  IF sem < MaxConcurrent /\ d.id \notin inFlight /\ ~stopped
  THEN /\ \E w \in Workers : /\ job[w].pc = "idle"
                             /\ job' = [job EXCEPT ![w] = NewJob(d)]
       /\ inFlight' = inFlight \cup {d.id}
       /\ sem' = sem + 1
       /\ scan' = [scan EXCEPT !.pc = "scan", !.sched = None]
  ELSE /\ scan' = [scan EXCEPT !.pc = "rollback", !.due = IF stopped THEN {} ELSE @]
       /\ UNCHANGED <<job, inFlight, sem>>

DispatchScheduledExecution ==
  /\ scan.pc = "dispatch"
  /\ Dispatch(scan.sched)
  /\ UNCHANGED <<row, run, stopped, crashes, history>>

\* rollbackExecutionClaim writes the old, due time whatever the row says now.
RollbackExecutionClaim ==
  /\ scan.pc = "rollback"
  /\ \/ MaySucceed /\ LET s == scan.sched.id
                      IN  Writes(s, [row[s] EXCEPT !.next = "due"])
     \/ MayFail /\ UNCHANGED row
  /\ scan' = [scan EXCEPT !.pc = "scan", !.sched = None]
  /\ UNCHANGED <<run, job, inFlight, sem, stopped, crashes, history>>
-----------------------------------------------------------------------------
(* executeSchedule and detachScheduleCompletion. *)

At(w, l) == job[w].pc = l
GoTo(w, l) == job' = [job EXCEPT ![w].pc = l]
Sched(w) == job[w].sched
IsCron(w) == job[w].sched.type = "cron"
Row(w) == row[job[w].sched.id]
Untouched == UNCHANGED <<scan, inFlight, stopped, crashes>>

\* A detached goroutine has a context that is never cancelled.
Succeeds(w) == ~stopped \/ job[w].detached
Fails(w) == (stopped /\ ~job[w].detached) \/ "dberror" \in Happens

\* executeTask starts a run, or refuses: the template needs a review, a parameter
\* is invalid, the context is done.
ExecuteTask(w) ==
  /\ At(w, "launch")
  /\ \/ /\ ~stopped
        /\ \E x \in Runs :
             /\ run[x] = NoRun
             /\ run' = [run EXCEPT ![x] = [of |-> Sched(w).id, status |-> "open"]]
             /\ job' = [job EXCEPT ![w].pc = "lastrun", ![w].run = x, ![w].started = TRUE]
        /\ fired' = [fired EXCEPT ![Sched(w).id] = IF @ = 2 THEN @ ELSE @ + 1]
     \/ GoTo(w, "fail") /\ UNCHANGED <<run, fired>>
  /\ Untouched
  /\ UNCHANGED <<row, sem, streak>>

\* A statement of markScheduleTriggered; when it fails the goroutine waits for
\* the run all the same and reports the failure afterwards.
Mark(w, r, next) ==
  /\ \/ Succeeds(w) /\ Writes(Sched(w).id, r) /\ GoTo(w, next)
     \/ Fails(w) /\ job' = [job EXCEPT ![w].pc = "wait", ![w].unsaved = TRUE] /\ UNCHANGED row
  /\ Untouched
  /\ UNCHANGED <<run, sem, history>>

UpdateLastRunAt(w) ==
  /\ At(w, "lastrun")
  /\ Mark(w, [Row(w) EXCEPT !.ran = TRUE], "nextrun")

\* Mutant: every schedule gets a next time.
MarkTriggeredAsCron(w) ==
  /\ At(w, "nextrun")
  /\ Mark(w, [Row(w) EXCEPT !.next = "later"], "wait")

\* A cron schedule gets its next time, a once schedule is running.
MarkScheduleTriggered(w) ==
  /\ At(w, "nextrun")
  /\ Mark(w, IF IsCron(w) THEN [Row(w) EXCEPT !.next = "later"]
                          ELSE [Row(w) EXCEPT !.status = "running", !.ran = TRUE,
                                              !.next = "null"], "wait")

RunIsOver(w) == run[job[w].run].status \in {"success", "failed"}

\* waitForRunTerminalStatus returns: the run is over, 35 minutes are, a poll fails,
\* or the scheduler is stopped and another goroutine goes on waiting.
WaitForRun(w) ==
  /\ At(w, "wait")
  /\ Succeeds(w)
  /\ \/ /\ RunIsOver(w)
        /\ GoTo(w, IF run[job[w].run].status = "success" /\ ~job[w].unsaved
                   THEN "succeed" ELSE "fail")
     \/ /\ (~RunIsOver(w) /\ "timeout" \in Happens) \/ "dberror" \in Happens
        /\ GoTo(w, IF job[w].detached THEN "exit" ELSE "fail")
  /\ Untouched
  /\ UNCHANGED <<row, run, sem, history>>

\* afterScheduleTriggered when the scheduler stops: the schedule stays in flight
\* (Retain, then Finish) and the token is given back.
DetachScheduleCompletion(w) ==
  /\ At(w, "wait")
  /\ stopped
  /\ ~job[w].detached
  /\ IF job[w].unsaved
     THEN GoTo(w, "fail") /\ UNCHANGED sem
     ELSE job' = [job EXCEPT ![w].detached = TRUE] /\ sem' = sem - 1
  /\ Untouched
  /\ UNCHANGED <<row, run, history>>

\* The counter the schedule had when it was listed, plus this failure.
NewCount(w) == Sched(w).failures + 1
Pauses(w) == IsCron(w) /\ MaxFailures > 0 /\ NewCount(w) >= MaxFailures

\* The row a failure leaves.
FailedRow(w) ==
  LET r == [Row(w) EXCEPT !.failures = NewCount(w)]
      Off(status) == [r EXCEPT !.enabled = FALSE, !.status = status, !.next = "null"]
  IN  CASE ~IsCron(w) /\ ~job[w].started -> Off("disabled")
        [] Pauses(w)                     -> Off("auto_paused")
        [] OTHER                         -> r

\* Mutant: a once schedule whose run failed is not marked completed.
FailWithoutCompleting(w) ==
  /\ At(w, "fail")
  /\ \/ /\ Succeeds(w)
        /\ Writes(Sched(w).id, FailedRow(w))
        /\ streak' = [streak EXCEPT ![Sched(w).id] = @ + 1]
     \/ Fails(w) /\ UNCHANGED <<row, streak>>
  /\ GoTo(w, "exit")
  /\ Untouched
  /\ UNCHANGED <<run, sem, fired>>

HandleScheduledExecutionError(w) ==
  /\ At(w, "fail")
  /\ \/ /\ Succeeds(w)
        /\ Writes(Sched(w).id, FailedRow(w))
        /\ streak' = [streak EXCEPT ![Sched(w).id] = @ + 1]
        /\ GoTo(w, CASE IsCron(w) /\ ~job[w].started /\ ~Pauses(w) -> "restore"
                     [] ~IsCron(w) /\ job[w].started -> "complete"
                     [] OTHER -> "exit")
     \/ Fails(w) /\ GoTo(w, "exit") /\ UNCHANGED <<row, streak>>
  /\ Untouched
  /\ UNCHANGED <<run, sem, fired>>

\* restoreCronNextRun calls a tenant-scoped update with the scheduler's context,
\* which carries no tenant: it fails, and the lease stays.
RestoreCronNextRun(w) ==
  /\ At(w, "restore")
  /\ GoTo(w, "exit")
  /\ Untouched
  /\ UNCHANGED <<row, run, sem, history>>

HandleScheduledExecutionSuccess(w) ==
  /\ At(w, "succeed")
  /\ \/ /\ Succeeds(w)
        /\ Writes(Sched(w).id, [Row(w) EXCEPT !.failures = 0])
        /\ streak' = [streak EXCEPT ![Sched(w).id] = 0]
        /\ GoTo(w, IF IsCron(w) THEN "exit" ELSE "complete")
     \/ Fails(w) /\ GoTo(w, "exit") /\ UNCHANGED <<row, streak>>
  /\ Untouched
  /\ UNCHANGED <<run, sem, fired>>

\* Service.MarkCompleted.
MarkCompleted(w) ==
  /\ At(w, "complete")
  /\ \/ Succeeds(w) /\ Writes(Sched(w).id, [Row(w) EXCEPT !.enabled = FALSE,
                                                          !.status = "completed"])
     \/ Fails(w) /\ UNCHANGED row
  /\ GoTo(w, "exit")
  /\ Untouched
  /\ UNCHANGED <<run, sem, history>>

\* Mutant: an early return keeps the schedule in flight.
ExitInFlight(w) ==
  /\ At(w, "exit")
  /\ job' = [job EXCEPT ![w] = IdleJob]
  /\ inFlight' = IF job[w].started THEN inFlight \ {Sched(w).id} ELSE inFlight
  /\ sem' = IF job[w].detached THEN sem ELSE sem - 1
  /\ run' = [x \in Runs |-> IF x = job[w].run /\ RunIsOver(w) THEN NoRun ELSE run[x]]
  /\ UNCHANGED <<row, scan, stopped, crashes, history>>

\* The deferred Finish and, of a goroutine of the pool, the token.
Exit(w) ==
  /\ At(w, "exit")
  /\ job' = [job EXCEPT ![w] = IdleJob]
  /\ inFlight' = inFlight \ {Sched(w).id}
  /\ sem' = IF job[w].detached THEN sem ELSE sem - 1
  /\ run' = [x \in Runs |-> IF x = job[w].run /\ RunIsOver(w) THEN NoRun ELSE run[x]]
  /\ UNCHANGED <<row, scan, stopped, crashes, history>>
-----------------------------------------------------------------------------
(* Outside. *)

\* The execution service ends a run; nobody keeps what nobody waits for.
RunEnds(x) ==
  /\ run[x].status = "open"
  /\ IF \E w \in Workers : job[w].run = x
     THEN \E o \in {"success", "failed"} : run' = [run EXCEPT ![x].status = o]
     ELSE run' = [run EXCEPT ![x] = NoRun]
  /\ UNCHANGED <<row, memory, history>>

\* Bound: a stop needs a life of the process to follow.
Stop ==
  /\ "stop" \in Happens
  /\ crashes < MaxCrashes
  /\ ~stopped
  /\ stopped' = TRUE
  /\ UNCHANGED <<row, run, scan, job, inFlight, sem, crashes, history>>

\* The process dies, by itself or after a stop, and with it every run.
Crash ==
  /\ "crash" \in Happens \/ stopped
  /\ crashes < MaxCrashes
  /\ crashes' = crashes + 1
  /\ scan' = NoScan
  /\ job' = [w \in Workers |-> IdleJob]
  /\ inFlight' = {}
  /\ sem' = 0
  /\ stopped' = FALSE
  /\ run' = [x \in Runs |-> NoRun]
  /\ fired' = [s \in Schedules |-> 0]
  /\ UNCHANGED <<row, streak>>

User(s) == Create(s) \/ Enable(s) \/ Disable(s) \/ Update(s) \/ Delete(s)

Clock(s) == TimeComes(s) \/ LeaseExpires(s)

Scan == \/ CheckAndExecute
        \/ \E d \in scan.due : ClaimSchedule(d)
        \/ DispatchScheduledExecution
        \/ RollbackExecutionClaim

Step(w) == \/ ExecuteTask(w)
           \/ UpdateLastRunAt(w)
           \/ MarkScheduleTriggered(w)
           \/ WaitForRun(w)
           \/ DetachScheduleCompletion(w)
           \/ HandleScheduledExecutionError(w)
           \/ RestoreCronNextRun(w)
           \/ HandleScheduledExecutionSuccess(w)
           \/ MarkCompleted(w)
           \/ Exit(w)

Next == \/ \E s \in Schedules : User(s) \/ Clock(s)
        \/ Scan
        \/ \E w \in Workers : Step(w)
        \/ \E x \in Runs : RunEnds(x)
        \/ Stop
        \/ Crash

Spec == Init /\ [][Next]_vars

\* Clocks run, the scan and its goroutines are scheduled, and a process whose
\* scheduler was stopped ends.
FairSpec == /\ Spec
            /\ \A s \in Schedules : WF_vars(TimeComes(s)) /\ WF_vars(LeaseExpires(s))
            /\ WF_vars(Scan)
            /\ \A w \in Workers : WF_vars(Step(w))
            /\ WF_vars(stopped /\ Crash)
-----------------------------------------------------------------------------
(* What the scheduler owes its users. *)

AtWork(s) == {x \in Runs : run[x].of = s /\ run[x].status = "open"}

\* While a run of a schedule is at work no other is started for it: a cron time
\* that comes during a run, or a lease that ends, waits for it (inFlight.Start); and the
\* schedule is not marked completed (afterScheduleTriggered waits before
\* markCompletedSchedule).
NoOverlap ==
  \A s \in Schedules : /\ \A x, y \in AtWork(s) : x = y
                       /\ row[s].exists /\ row[s].status = "completed" => AtWork(s) = {}

\* A once schedule starts one run per arming; only a restart between the start of
\* the run and the note of it may repeat it (claimSchedule, markScheduleTriggered).
OnceFiresOnce ==
  \A s \in Schedules : row[s].exists /\ row[s].type = "once" => fired[s] <= 1

\* The failure counter is the number of failures since the last success or arming,
\* and a schedule pauses itself only when that many failed in a row, although the
\* counter is computed from a row read before the run.
FailuresAreCounted ==
  \A s \in Schedules : row[s].exists /\ s \notin inFlight =>
     /\ row[s].failures = streak[s]
     /\ row[s].status = "auto_paused" => streak[s] >= MaxFailures

\* The scheduler implements ScheduleContract: it fires what it claimed and claims
\* what is armed, one goroutine per schedule.
Contract == INSTANCE ScheduleContract
  WITH armed   <- {s \in Schedules : row[s].enabled},
       claimed <- IF scan.pc = "dispatch" THEN {scan.sched.id} ELSE {},
       firing  <- inFlight

ImplementsContract == Contract!Spec

Starting(s) == \E w \in Workers : job[w].pc = "launch" /\ job[w].sched.id = s
Pending(s) == row[s].enabled /\ row[s].next # "null"
EveryRunEnds == \A x \in Runs : (run[x].status = "open") ~> (run[x].status # "open")

\* Users may put off a schedule for ever; it is only promised if they leave it alone.
UsersRest == <>[][\A s \in Schedules : ~User(s)]_vars

\* Whatever happens to a claim (a rollback, a full pool, a restart), a schedule that
\* is enabled and has a time comes to a start, unless it is switched off.
DueFires == EveryRunEnds /\ UsersRest =>
  \A s \in Schedules : Pending(s) ~> (Starting(s) \/ ~Pending(s))

\* A once schedule comes to its end unless the process does first.
OnceCompletes == EveryRunEnds /\ UsersRest =>
  \A s \in Schedules : (row[s].enabled /\ row[s].type = "once")
                          ~> (~row[s].enabled \/ crashes > 0 \/ stopped)
=============================================================================
