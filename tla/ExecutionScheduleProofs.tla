------------------------ MODULE ExecutionScheduleProofs ------------------------
(***************************************************************************)
(* Theorems about ExecutionSchedule: its types and its semaphore, one run   *)
(* of a schedule at a time, one run per arming of a once schedule, and the  *)
(* refinement of ScheduleContract, for any schedules, goroutines and runs.  *)
(***************************************************************************)
EXTENDS ExecutionSchedule, FiniteSetTheorems, TLAPS

-----------------------------------------------------------------------------
(* The invariants. *)

Active(w) == job[w].pc # "idle"
Following == {"lastrun", "nextrun", "wait"}
Holders == {w \in Workers : Active(w) /\ ~job[w].detached}

\* A goroutine at work has its schedule, and one that started a run has the run.
JobFits(j) == /\ j.pc # "idle" => j.sched \in Snapshots
              /\ j.pc \in Following \cup {"succeed"} => j.run \in Runs
              /\ j.pc \in {"idle", "launch"} => j.run = None /\ ~j.detached

\* What the scan and the goroutines carry: the schedule in hand, and the run.
CarriedOK ==
  /\ scan.pc # "scan" => scan.sched \in Snapshots
  /\ scan.pc = "scan" => scan.sched = None
  /\ \A w \in Workers : JobFits(job[w])

\* The semaphore holds one token for each goroutine of the pool.
TokensOK == sem = Cardinality(Holders)

TypeInv == TypeOK /\ CarriedOK /\ TokensOK

\* One goroutine follows a schedule, and only a stop detaches it.
OneJob ==
  /\ \A w \in Workers : Active(w) => Sched(w).id \in inFlight
  /\ \A v, w \in Workers : Active(v) /\ Active(w) /\ Sched(v).id = Sched(w).id => v = w
  /\ \A w \in Workers : job[w].detached => stopped
  /\ \A w \in Workers : job[w].unsaved => stopped

InTheHand(s) == scan.pc # "scan" /\ scan.sched.id = s

\* While a once schedule is in hand or in flight its time does not come again.
HandFit ==
  /\ scan.pc # "scan" /\ scan.sched.type = "once" /\ row[scan.sched.id].exists =>
       row[scan.sched.id].next \notin {"due", "later"}
  /\ \A w \in Workers : Active(w) /\ ~IsCron(w) =>
       /\ ~InTheHand(Sched(w).id)
       /\ row[Sched(w).id].exists /\ ~stopped => row[Sched(w).id].next \notin {"due", "later"}

\* The type of a row does not change under a goroutine.
TypesFit ==
  /\ scan.pc # "scan" /\ row[scan.sched.id].exists => row[scan.sched.id].type = scan.sched.type
  /\ \A d \in scan.due : row[d.id].exists => row[d.id].type = d.type
  /\ \A w \in Workers : Active(w) /\ row[Sched(w).id].exists => row[Sched(w).id].type = Sched(w).type
  /\ \A w \in Workers : At(w, "complete") => ~IsCron(w)

Follows(w, x) == /\ job[w].run = x /\ Sched(w).id = run[x].of
                 /\ job[w].pc \in Following

\* The scheduler was stopped before the trigger was noted: nobody will follow the run.
Abandoned(x) == /\ stopped
                /\ \A w \in Workers : Active(w) /\ Sched(w).id = run[x].of =>
                     job[w].pc \in {"fail", "exit"} /\ ~job[w].detached

\* A run at work is followed or abandoned.
Followed ==
  \A x \in Runs : run[x].status = "open" =>
    run[x].of \in Schedules /\ ((\E w \in Workers : Follows(w, x)) \/ Abandoned(x))

\* A completed schedule is off, and nobody is about to start it.
CompletedRests ==
  \A s \in Schedules : row[s].exists /\ row[s].status = "completed" =>
    /\ ~row[s].enabled
    /\ ~InTheHand(s)
    /\ \A w \in Workers : At(w, "launch") => Sched(w).id # s

\* A once schedule that fired is not claimed and has no time to come.
FiredRests ==
  \A s \in Schedules : row[s].exists /\ row[s].type = "once" /\ fired[s] # 0 =>
    /\ fired[s] = 1
    /\ ~stopped =>
         /\ ~InTheHand(s)
         /\ \A w \in Workers : At(w, "launch") => Sched(w).id # s
         /\ \/ row[s].next = "null"
            \/ /\ row[s].next = "lease"
               /\ \E w \in Workers : Active(w) /\ Sched(w).id = s /\ job[w].pc \in {"lastrun", "nextrun"}

\* No row, nothing in it.
GoneIsGone == \A s \in Schedules : ~row[s].exists => row[s] = NoRow

\* Runs of a schedule are one at a time, unless one outlasts the wait for it.
Together == "timeout" \notin Happens => Followed /\ NoOverlap

OverlapInv == /\ TypeInv /\ GoneIsGone /\ OneJob /\ HandFit /\ TypesFit /\ Together
              /\ CompletedRests /\ FiredRests

USE ScheduleConstants, NoneIsNoSnapshot
    DEF Types, Statuses, Times, Places, EventKinds

-----------------------------------------------------------------------------
(* Types. *)

\* The rows a user may save.
LEMMA PreparedType ==
  ASSUME NEW r \in Rows
  PROVE  /\ Prepared(r) \in Rows
         /\ CalculateStatus(r) \in Statuses
         /\ [Prepared(r) EXCEPT !.status = CalculateStatus(r)] \in Rows
<1>1. Prepared(r) \in Rows
  BY DEF Prepared, Rows
<1>2. CalculateStatus(r) \in Statuses
  BY DEF CalculateStatus, Rows
<1> QED
  BY <1>1, <1>2 DEF Rows

\* Users and clocks keep the types, and touch nothing but rows and history.
LEMMA UserTypes ==
  ASSUME TypeOK, NEW s \in Schedules, User(s) \/ Clock(s)
  PROVE  /\ row' \in [Schedules -> Rows]
         /\ fired' \in [Schedules -> 0..2]
         /\ streak' \in [Schedules -> Nat]
         /\ UNCHANGED <<run, memory>>
<1> USE DEF TypeOK, history
<1>0. row[s] \in Rows
  OBVIOUS
<1>1. CASE Create(s)
  <2>1. PICK ty \in Types, on \in BOOLEAN :
          LET r == [NoRow EXCEPT !.exists = TRUE, !.type = ty, !.enabled = on,
                              !.at = IF ty = "once" THEN "future" ELSE "null"]
          IN  row' = [row EXCEPT ![s] = [Prepared(r) EXCEPT !.status = CalculateStatus(r)]]
    BY <1>1 DEF Create
  <2> DEFINE r == [NoRow EXCEPT !.exists = TRUE, !.type = ty, !.enabled = on,
                              !.at = IF ty = "once" THEN "future" ELSE "null"]
  <2>2. r \in Rows
    BY DEF Rows, NoRow
  <2>3. [Prepared(r) EXCEPT !.status = CalculateStatus(r)] \in Rows
    BY <2>2, PreparedType
  <2> HIDE DEF r
  <2>4. row' \in [Schedules -> Rows]
    BY <2>1, <2>3 DEF r
  <2> QED
    BY <1>1, <2>4 DEF Create, Armed
<1>2. CASE Enable(s)
  <2> DEFINE r == [row[s] EXCEPT !.enabled = TRUE, !.failures = 0,
                             !.ran = IF row[s].type = "once" THEN FALSE ELSE @]
  <2>1. r \in Rows
    <3> DEFINE ran == IF row[s].type = "once" THEN FALSE ELSE row[s].ran
    <3>1. row[s] \in Rows /\ ran \in BOOLEAN
      BY DEF Rows
    <3>2. r = [row[s] EXCEPT !.enabled = TRUE, !.failures = 0, !.ran = ran]
      OBVIOUS
    <3> HIDE DEF ran, r
    <3> QED
      BY <3>1, <3>2 DEF Rows
  <2>2. [Prepared(r) EXCEPT !.status = CalculateStatus(r)] \in Rows
    BY <2>1, PreparedType
  <2>3. row' = [row EXCEPT ![s] = [Prepared(r) EXCEPT !.status = CalculateStatus(r)]]
    BY <1>2 DEF Enable
  <2> HIDE DEF r
  <2> QED
    BY <1>2, <2>2, <2>3 DEF Enable, Armed
<1>3. CASE Update(s)
  <2>1. PICK at \in {"null", "future", "past"} : row' = [row EXCEPT ![s] = Prepared([row[s] EXCEPT !.at = at])]
    BY <1>3 DEF Update, Rows
  <2>2. [row[s] EXCEPT !.at = at] \in Rows
    BY DEF Rows
  <2>3. row' \in [Schedules -> Rows]
    BY <2>1, <2>2, PreparedType
  <2> QED
    BY <1>3, <2>3 DEF Update
<1>4. CASE Disable(s)
  <2>1. row' = [row EXCEPT ![s] = [row[s] EXCEPT !.enabled = FALSE, !.status = "disabled", !.next = "null"]]
    BY <1>4 DEF Disable, Rows
  <2>2. [row[s] EXCEPT !.enabled = FALSE, !.status = "disabled", !.next = "null"] \in Rows
    BY <1>0 DEF Rows
  <2>3. row' \in [Schedules -> Rows]
    BY <2>1, <2>2
  <2> QED
    BY <1>4, <2>3 DEF Disable
<1>5. CASE Delete(s)
  BY <1>5 DEF Delete, Rows, NoRow
<1>6. CASE TimeComes(s)
  <2> DEFINE next == IF row[s].next = "later" THEN "due" ELSE row[s].next
             at == IF row[s].at = "future" THEN "past" ELSE row[s].at
  <2>1. row[s] \in Rows /\ next \in Times /\ at \in {"null", "future", "past"}
    BY DEF Rows
  <2>2. row' = [row EXCEPT ![s] = [row[s] EXCEPT !.next = next, !.at = at]]
    BY <1>6, <2>1 DEF TimeComes, Rows
  <2> HIDE DEF next, at
  <2>3. [row[s] EXCEPT !.next = next, !.at = at] \in Rows
    BY <2>1 DEF Rows
  <2>4. row' \in [Schedules -> Rows]
    BY <2>2, <2>3
  <2> QED
    BY <1>6, <2>4 DEF TimeComes
<1>7. CASE LeaseExpires(s)
  <2>1. row' = [row EXCEPT ![s] = [row[s] EXCEPT !.next = "due"]]
    BY <1>7 DEF LeaseExpires
  <2>2. [row[s] EXCEPT !.next = "due"] \in Rows
    BY DEF Rows
  <2> QED
    BY <1>7, <2>1, <2>2 DEF LeaseExpires
<1> QED
  BY <1>1, <1>2, <1>3, <1>4, <1>5, <1>6, <1>7 DEF User, Clock

\* An update of a row finds the row or does nothing.
LEMMA WritesType ==
  ASSUME TypeOK, NEW s \in Schedules, NEW r \in Rows, Writes(s, r)
  PROVE  /\ row' \in [Schedules -> Rows]
         /\ \A t \in Schedules : t # s \/ ~row[s].exists => row'[t] = row[t]
         /\ row[s].exists => row'[s] = r
BY DEF TypeOK, Writes

\* A goroutine that takes a step goes on with what it carries.
LEMMA JobSet ==
  ASSUME TypeOK, CarriedOK, NEW w \in Workers, NEW j \in Jobs, JobFits(j),
         job' = [job EXCEPT ![w] = j], UNCHANGED scan
  PROVE  /\ job' \in [Workers -> Jobs] /\ CarriedOK'
         /\ \A v \in Workers : v # w => job'[v] = job[v]
BY DEF TypeOK, CarriedOK, JobFits

\* The row a failure leaves is a row.
LEMMA FailedRowType ==
  ASSUME TypeOK, CarriedOK, NEW w \in Workers, Active(w)
  PROVE  FailedRow(w) \in Rows
<1>1. /\ Row(w) \in Rows
      /\ NewCount(w) \in Nat
  BY DEF TypeOK, CarriedOK, JobFits, Active, Row, NewCount, Sched, Snapshots
<1>2. [Row(w) EXCEPT !.failures = NewCount(w)] \in Rows
  BY <1>1 DEF Rows
<1> DEFINE r == [Row(w) EXCEPT !.failures = NewCount(w)]
<1> HIDE DEF r
<1>3. \A status \in Statuses :
        [r EXCEPT !.enabled = FALSE, !.status = status, !.next = "null"] \in Rows
  BY <1>2 DEF Rows, r
<1> QED
  BY <1>2, <1>3 DEF FailedRow, r

\* A step of a goroutine concerns itself and the row of its schedule.
Local(w) == /\ UNCHANGED <<scan, stopped, crashes>>
            /\ job' \in [Workers -> Jobs]
            /\ \A v \in Workers : v # w => job'[v] = job[v]
            /\ row' \in [Schedules -> Rows]
            /\ \A s \in Schedules : s # Sched(w).id => row'[s] = row[s]
            /\ fired' \in [Schedules -> 0..2]
            /\ streak' \in [Schedules -> Nat]
            /\ inFlight' \subseteq Schedules
            /\ run' \in [Runs -> [of : Schedules \cup {None},
                                  status : {"free", "open", "success", "failed"}]]

\* Going on with the run one has, or giving it up.
LEMMA Goes ==
  ASSUME TypeOK, CarriedOK, NEW w \in Workers, Active(w), UNCHANGED scan,
         NEW l \in Places \ {"idle", "launch"}, GoTo(w, l),
         l \in Following \cup {"succeed"} => job[w].run \in Runs
  PROVE  /\ job' \in [Workers -> Jobs] /\ CarriedOK'
         /\ \A v \in Workers : v # w => job'[v] = job[v]
<1> DEFINE j == [job[w] EXCEPT !.pc = l]
<1>0. job[w] \in Jobs /\ JobFits(job[w])
  BY DEF TypeOK, CarriedOK
<1>1. j \in Jobs
  BY <1>0 DEF Jobs
<1>2. JobFits(j)
  BY <1>0, <1>1 DEF Active, JobFits, Jobs
<1>3. job' = [job EXCEPT ![w] = j]
  BY <1>0 DEF GoTo, TypeOK
<1> HIDE DEF j
<1> QED
  BY <1>1, <1>2, <1>3, JobSet

LEMMA StepTypes ==
  ASSUME TypeOK, CarriedOK, NEW w \in Workers, Step(w)
  PROVE  /\ Active(w) /\ Sched(w) \in Snapshots /\ Sched(w).id \in Schedules
         /\ Local(w)
         /\ CarriedOK'
<1> USE DEF At
<1>0. /\ Active(w) /\ Sched(w) \in Snapshots /\ Sched(w).id \in Schedules
      /\ job[w] \in Jobs /\ Row(w) \in Rows /\ row[Sched(w).id] = Row(w)
      /\ JobFits(job[w])
  <2>1. Active(w)
    BY DEF Step, ExecuteTask, UpdateLastRunAt, MarkScheduleTriggered, WaitForRun, Active,
           DetachScheduleCompletion, HandleScheduledExecutionError, RestoreCronNextRun,
           HandleScheduledExecutionSuccess, MarkCompleted, Exit
  <2> QED
    BY <2>1 DEF TypeOK, CarriedOK, JobFits, Snapshots, Row, Sched, Active
<1> SUFFICES Local(w) /\ CarriedOK'
  BY <1>0
<1>1. ASSUME job' \in [Workers -> Jobs],
             \A v \in Workers : v # w => job'[v] = job[v],
             UNCHANGED <<scan, stopped, crashes>>,
             UNCHANGED inFlight \/ inFlight' \subseteq inFlight,
             UNCHANGED row \/ \E r \in Rows : Writes(Sched(w).id, r),
             UNCHANGED fired \/ fired' \in [Schedules -> 0..2],
             UNCHANGED streak \/ streak' \in [Schedules -> Nat],
             UNCHANGED run \/ run' \in [Runs -> [of : Schedules \cup {None},
                                status : {"free", "open", "success", "failed"}]]
      PROVE  Local(w)
  <2>1. UNCHANGED row => /\ row' \in [Schedules -> Rows]
                         /\ \A s \in Schedules : s # Sched(w).id => row'[s] = row[s]
    BY DEF TypeOK
  <2>2. ASSUME NEW r \in Rows, Writes(Sched(w).id, r)
        PROVE  /\ row' \in [Schedules -> Rows]
               /\ \A s \in Schedules : s # Sched(w).id => row'[s] = row[s]
    BY <2>2, <1>0, WritesType
  <2> QED
    BY <1>1, <2>1, <2>2 DEF Local, TypeOK
<1>2. CASE ExecuteTask(w)
  <2>1. ASSUME NEW x \in Runs, run[x] = NoRun,
               run' = [run EXCEPT ![x] = [of |-> Sched(w).id, status |-> "open"]],
               job' = [job EXCEPT ![w].pc = "lastrun", ![w].run = x, ![w].started = TRUE]
        PROVE  /\ job' \in [Workers -> Jobs] /\ CarriedOK'
               /\ \A v \in Workers : v # w => job'[v] = job[v]
               /\ run' \in [Runs -> [of : Schedules \cup {None},
                                  status : {"free", "open", "success", "failed"}]]
    <3> DEFINE j == [job[w] EXCEPT !.pc = "lastrun", !.run = x, !.started = TRUE]
    <3>1. j \in Jobs /\ JobFits(j)
      BY <1>0, <1>2 DEF Jobs, JobFits, ExecuteTask, Following
    <3>2. job' = [job EXCEPT ![w] = j]
      BY <2>1, <1>0 DEF TypeOK
    <3>3. UNCHANGED scan
      BY <1>2 DEF ExecuteTask, Untouched
    <3> HIDE DEF j
    <3>4. job' \in [Workers -> Jobs] /\ CarriedOK'
      BY <3>1, <3>2, <3>3, JobSet
    <3> QED
      BY <3>4, <3>2, <2>1, <1>0 DEF TypeOK
  <2>2. ASSUME GoTo(w, "fail"), UNCHANGED run
        PROVE  /\ job' \in [Workers -> Jobs] /\ CarriedOK'
               /\ \A v \in Workers : v # w => job'[v] = job[v]
               /\ run' \in [Runs -> [of : Schedules \cup {None},
                                  status : {"free", "open", "success", "failed"}]]
    BY <1>0, <1>2, <2>2, Goes DEF ExecuteTask, Untouched, TypeOK, Following, GoTo
  <2>3. /\ job' \in [Workers -> Jobs] /\ CarriedOK'
        /\ \A v \in Workers : v # w => job'[v] = job[v]
        /\ run' \in [Runs -> [of : Schedules \cup {None},
                              status : {"free", "open", "success", "failed"}]]
    BY <2>1, <2>2, <1>2 DEF ExecuteTask
  <2>4. fired' \in [Schedules -> 0..2]
    <3>1. fired[Sched(w).id] \in 0..2
      BY <1>0 DEF TypeOK
    <3> DEFINE n == IF fired[Sched(w).id] = 2 THEN fired[Sched(w).id] ELSE fired[Sched(w).id] + 1
    <3>2. n \in 0..2
      BY <3>1
    <3>3. UNCHANGED fired \/ fired' = [fired EXCEPT ![Sched(w).id] = n]
      BY <1>2 DEF ExecuteTask
    <3> HIDE DEF n
    <3> QED
      BY <3>2, <3>3 DEF TypeOK
  <2> QED
    BY <1>0, <1>1, <2>3, <2>4, <1>2 DEF ExecuteTask, Untouched, TypeOK
<1>3. ASSUME NEW r \in Rows, NEW next \in {"nextrun", "wait"}, Mark(w, r, next),
             At(w, "lastrun") \/ At(w, "nextrun")
      PROVE  Local(w) /\ CarriedOK'
  <2>0. UNCHANGED scan /\ job[w].run \in Runs
    BY <1>3, <1>0 DEF Mark, Untouched, JobFits, Following
  <2>1. ASSUME GoTo(w, next)
        PROVE  /\ job' \in [Workers -> Jobs] /\ CarriedOK'
               /\ \A v \in Workers : v # w => job'[v] = job[v]
    BY <2>0, <2>1, <1>0, Goes
  <2>2. ASSUME job' = [job EXCEPT ![w].pc = "wait", ![w].unsaved = TRUE]
        PROVE  /\ job' \in [Workers -> Jobs] /\ CarriedOK'
               /\ \A v \in Workers : v # w => job'[v] = job[v]
    <3> DEFINE j == [job[w] EXCEPT !.pc = "wait", !.unsaved = TRUE]
    <3>1. j \in Jobs /\ JobFits(j)
      BY <1>0, <2>0, <1>3 DEF Jobs, JobFits, Following
    <3>2. job' = [job EXCEPT ![w] = j]
      BY <2>2, <1>0 DEF TypeOK
    <3> HIDE DEF j
    <3> QED
      BY <3>1, <3>2, <2>0, JobSet
  <2>3. /\ job' \in [Workers -> Jobs] /\ CarriedOK'
        /\ \A v \in Workers : v # w => job'[v] = job[v]
    BY <2>1, <2>2, <1>3 DEF Mark
  <2> QED
    BY <2>3, <1>1, <1>3 DEF Mark, Untouched, history
<1>4. CASE UpdateLastRunAt(w)
  <2>1. [Row(w) EXCEPT !.ran = TRUE] \in Rows
    BY <1>0 DEF Rows
  <2> QED
    BY <1>4, <2>1, <1>3 DEF UpdateLastRunAt
<1>5. CASE MarkScheduleTriggered(w)
  <2>1. /\ [Row(w) EXCEPT !.next = "later"] \in Rows
        /\ [Row(w) EXCEPT !.status = "running", !.ran = TRUE, !.next = "null"] \in Rows
    BY <1>0 DEF Rows
  <2> QED
    BY <1>5, <2>1, <1>3 DEF MarkScheduleTriggered
<1>6. CASE WaitForRun(w)
  <2>1. job[w].run \in Runs /\ UNCHANGED scan
    BY <1>0, <1>6 DEF WaitForRun, JobFits, Following, Untouched
  <2>2. PICK l \in {"succeed", "fail", "exit"} : GoTo(w, l)
    BY <1>6 DEF WaitForRun
  <2>3. /\ job' \in [Workers -> Jobs] /\ CarriedOK'
        /\ \A v \in Workers : v # w => job'[v] = job[v]
    BY <1>0, <2>1, <2>2, Goes
  <2> QED
    BY <1>1, <1>6, <2>2, <2>3 DEF WaitForRun, Untouched, history
<1>7. CASE DetachScheduleCompletion(w)
  <2>1. CASE job[w].unsaved
    <3>1. GoTo(w, "fail") /\ UNCHANGED scan
      BY <2>1, <1>7 DEF DetachScheduleCompletion, Untouched
    <3>2. /\ job' \in [Workers -> Jobs] /\ CarriedOK'
          /\ \A v \in Workers : v # w => job'[v] = job[v]
      BY <1>0, <3>1, Goes DEF Following
    <3> QED
      BY <1>1, <1>7, <3>1, <3>2 DEF DetachScheduleCompletion, Untouched, history
  <2>2. CASE ~job[w].unsaved
    <3> DEFINE j == [job[w] EXCEPT !.detached = TRUE]
    <3>1. j \in Jobs /\ JobFits(j)
      BY <1>0, <1>7 DEF Jobs, JobFits, Following, DetachScheduleCompletion
    <3>2. job' = [job EXCEPT ![w] = j] /\ UNCHANGED scan
      BY <2>2, <1>7, <1>0 DEF TypeOK, DetachScheduleCompletion, Untouched
    <3> HIDE DEF j
    <3>3. /\ job' \in [Workers -> Jobs] /\ CarriedOK'
          /\ \A v \in Workers : v # w => job'[v] = job[v]
      BY <3>1, <3>2, JobSet
    <3> QED
      BY <1>1, <1>7, <3>2, <3>3 DEF DetachScheduleCompletion, Untouched, history
  <2> QED
    BY <2>1, <2>2
<1>8. CASE HandleScheduledExecutionError(w)
  <2>1. PICK l \in {"restore", "complete", "exit"} : GoTo(w, l)
    BY <1>8 DEF HandleScheduledExecutionError
  <2>2. /\ job' \in [Workers -> Jobs] /\ CarriedOK'
        /\ \A v \in Workers : v # w => job'[v] = job[v]
    BY <1>0, <1>8, <2>1, Goes DEF Following, HandleScheduledExecutionError, Untouched
  <2>3. UNCHANGED row \/ \E r \in Rows : Writes(Sched(w).id, r)
    BY <1>8, <1>0, FailedRowType DEF HandleScheduledExecutionError
  <2>4. streak' \in [Schedules -> Nat]
    BY <1>8, <1>0 DEF HandleScheduledExecutionError, TypeOK
  <2> QED
    BY <1>1, <1>8, <2>1, <2>2, <2>3, <2>4
       DEF HandleScheduledExecutionError, Untouched
<1>9. CASE RestoreCronNextRun(w)
  <2>1. /\ job' \in [Workers -> Jobs] /\ CarriedOK'
        /\ \A v \in Workers : v # w => job'[v] = job[v]
    BY <1>0, <1>9, Goes DEF Following, RestoreCronNextRun, Untouched
  <2> QED
    BY <1>1, <1>9, <2>1 DEF RestoreCronNextRun, Untouched, history
<1>10. CASE HandleScheduledExecutionSuccess(w)
  <2>1. PICK l \in {"complete", "exit"} : GoTo(w, l)
    BY <1>10 DEF HandleScheduledExecutionSuccess
  <2>2. /\ job' \in [Workers -> Jobs] /\ CarriedOK'
        /\ \A v \in Workers : v # w => job'[v] = job[v]
    BY <1>0, <1>10, <2>1, Goes DEF Following, HandleScheduledExecutionSuccess, Untouched
  <2>3. [Row(w) EXCEPT !.failures = 0] \in Rows
    BY <1>0 DEF Rows
  <2>4. UNCHANGED row \/ \E r \in Rows : Writes(Sched(w).id, r)
    BY <1>10, <2>3 DEF HandleScheduledExecutionSuccess
  <2>5. streak' \in [Schedules -> Nat]
    BY <1>10, <1>0 DEF HandleScheduledExecutionSuccess, TypeOK
  <2> QED
    BY <1>1, <1>10, <2>1, <2>2, <2>4, <2>5
       DEF HandleScheduledExecutionSuccess, Untouched
<1>11. CASE MarkCompleted(w)
  <2>1. /\ job' \in [Workers -> Jobs] /\ CarriedOK'
        /\ \A v \in Workers : v # w => job'[v] = job[v]
    BY <1>0, <1>11, Goes DEF Following, MarkCompleted, Untouched
  <2>2. [Row(w) EXCEPT !.enabled = FALSE, !.status = "completed"] \in Rows
    BY <1>0 DEF Rows
  <2>3. UNCHANGED row \/ \E r \in Rows : Writes(Sched(w).id, r)
    BY <1>11, <2>2 DEF MarkCompleted
  <2> QED
    BY <1>1, <1>11, <2>1, <2>3 DEF MarkCompleted, Untouched, history
<1>12. CASE Exit(w)
  <2>1. IdleJob \in Jobs /\ JobFits(IdleJob)
    BY DEF IdleJob, Jobs, JobFits, Following
  <2>2. /\ job' \in [Workers -> Jobs] /\ CarriedOK'
        /\ \A v \in Workers : v # w => job'[v] = job[v]
    BY <2>1, <1>12, JobSet DEF Exit
  <2>3. run' \in [Runs -> [of : Schedules \cup {None},
                           status : {"free", "open", "success", "failed"}]]
    BY <1>12 DEF Exit, TypeOK, NoRun
  <2> QED
    BY <1>1, <1>12, <2>2, <2>3 DEF Exit, history
<1> QED
  BY <1>0, <1>2, <1>4, <1>5, <1>6, <1>7, <1>8, <1>9, <1>10, <1>11, <1>12 DEF Step

\* A row given another time is a row.
LEMMA NextTyped ==
  ASSUME NEW r \in Rows, NEW next \in Times
  PROVE  [r EXCEPT !.next = next] \in Rows
BY DEF Rows

\* The scan keeps the types; it takes a goroutine and a token when it hands one over.
LEMMA ScanTypes ==
  ASSUME TypeOK, CarriedOK, Scan
  PROVE  /\ row' \in [Schedules -> Rows]
         /\ scan' \in [pc : {"scan", "dispatch", "rollback"}, due : SUBSET Snapshots,
                       sched : Snapshots \cup {None}]
         /\ inFlight' \subseteq Schedules
         /\ \/ UNCHANGED <<job, sem>>
            \/ /\ sem < MaxConcurrent /\ sem' = sem + 1
               /\ \E w \in Workers : ~Active(w) /\ job' = [job EXCEPT ![w] = NewJob(scan.sched)]
         /\ job' \in [Workers -> Jobs]
         /\ CarriedOK'
         /\ UNCHANGED <<run, stopped, crashes, history>>
<1> USE DEF TypeOK
<1>0. \A d \in Snapshots : d.id \in Schedules
  BY DEF Snapshots
<1>1. CASE CheckAndExecute
  <2> DEFINE due == {[id |-> s, type |-> row[s].type, failures |-> row[s].failures] :
                       s \in {t \in Schedules : row[t].enabled /\ row[t].next = "due"}}
  <2>1. due \subseteq Snapshots
    BY DEF Rows, Snapshots
  <2>2. scan' = [scan EXCEPT !.due = due] /\ scan = NoScan
    BY <1>1 DEF CheckAndExecute
  <2> HIDE DEF due
  <2>3. CarriedOK'
    BY <1>1, <2>2 DEF CarriedOK, CheckAndExecute, NoScan
  <2> QED
    BY <1>1, <2>1, <2>2, <2>3 DEF CheckAndExecute
<1>2. ASSUME NEW d \in scan.due, ClaimSchedule(d)
      PROVE  /\ row' \in [Schedules -> Rows]
             /\ scan' \in [pc : {"scan", "dispatch", "rollback"}, due : SUBSET Snapshots,
                           sched : Snapshots \cup {None}]
             /\ inFlight' \subseteq Schedules
             /\ UNCHANGED <<job, sem>>
             /\ job' \in [Workers -> Jobs]
             /\ CarriedOK'
             /\ UNCHANGED <<run, stopped, crashes, history>>
  <2>0. d \in Snapshots /\ d.id \in Schedules
    BY <1>0
  <2>1. [row[d.id] EXCEPT !.next = "lease"] \in Rows
    BY <2>0, NextTyped
  <2>2. row' \in [Schedules -> Rows]
    BY <1>2, <2>0, <2>1 DEF ClaimSchedule
  <2>3. CASE scan' = [pc |-> "dispatch", due |-> scan.due \ {d}, sched |-> d]
    BY <1>2, <2>0, <2>2, <2>3 DEF ClaimSchedule, CarriedOK
  <2>4. CASE scan' = [scan EXCEPT !.due = @ \ {d}]
    BY <1>2, <2>0, <2>2, <2>4 DEF ClaimSchedule, CarriedOK
  <2> QED
    BY <1>2, <2>3, <2>4 DEF ClaimSchedule
<1>3. CASE DispatchScheduledExecution
  <2>0. scan.sched \in Snapshots /\ scan.sched.id \in Schedules
    BY <1>0, <1>3 DEF DispatchScheduledExecution, CarriedOK
  <2>1. CASE sem < MaxConcurrent /\ scan.sched.id \notin inFlight /\ ~stopped
    <3>1. PICK w \in Workers : job[w].pc = "idle" /\ job' = [job EXCEPT ![w] = NewJob(scan.sched)]
      BY <1>3, <2>1 DEF DispatchScheduledExecution, Dispatch
    <3>2. NewJob(scan.sched) \in Jobs /\ JobFits(NewJob(scan.sched))
      BY <2>0 DEF NewJob, IdleJob, Jobs, JobFits, Following
    <3>3. scan' = [scan EXCEPT !.pc = "scan", !.sched = None]
      BY <1>3, <2>1 DEF DispatchScheduledExecution, Dispatch
    <3>4. job' \in [Workers -> Jobs] /\ CarriedOK'
      BY <3>1, <3>2, <3>3 DEF CarriedOK
    <3>5. inFlight' \subseteq Schedules /\ sem' = sem + 1
      BY <1>3, <2>0, <2>1 DEF DispatchScheduledExecution, Dispatch
    <3> QED
      BY <1>3, <2>1, <3>1, <3>3, <3>4, <3>5 DEF DispatchScheduledExecution, Active
  <2>2. CASE ~(sem < MaxConcurrent /\ scan.sched.id \notin inFlight /\ ~stopped)
    <3>1. /\ scan' = [scan EXCEPT !.pc = "rollback", !.due = IF stopped THEN {} ELSE @]
          /\ UNCHANGED <<row, job, inFlight, sem, run, stopped, crashes, history>>
      BY <1>3, <2>2 DEF DispatchScheduledExecution, Dispatch
    <3>2. scan' \in [pc : {"scan", "dispatch", "rollback"}, due : SUBSET Snapshots,
                     sched : Snapshots \cup {None}]
      BY <3>1
    <3>3. CarriedOK'
      BY <3>1, <1>3 DEF CarriedOK, DispatchScheduledExecution
    <3> QED
      BY <3>1, <3>2, <3>3
  <2> QED
    BY <2>1, <2>2
<1>4. CASE RollbackExecutionClaim
  <2>0. scan.sched.id \in Schedules /\ scan' = [scan EXCEPT !.pc = "scan", !.sched = None]
    BY <1>0, <1>4 DEF RollbackExecutionClaim, CarriedOK
  <2>1. [row[scan.sched.id] EXCEPT !.next = "due"] \in Rows
    BY <2>0, NextTyped
  <2>2. row' \in [Schedules -> Rows]
    BY <1>4, <2>0, <2>1, WritesType DEF RollbackExecutionClaim
  <2>3. CarriedOK'
    BY <1>4, <2>0 DEF RollbackExecutionClaim, CarriedOK
  <2> QED
    BY <1>4, <2>0, <2>2, <2>3 DEF RollbackExecutionClaim
<1> QED
  BY <1>1, <1>2, <1>3, <1>4 DEF Scan

LEMMA HoldersFinite == IsFiniteSet(Holders) /\ Cardinality(Holders) \in Nat
<1>1. Holders \in SUBSET Workers
  BY DEF Holders
<1> QED
  BY <1>1, FS_Subset, FS_CardinalityType

\* A goroutine that goes on keeps its token; it gives it back at its end, or when
\* it is detached.
LEMMA StepTokens ==
  ASSUME TypeInv, NEW w \in Workers, Step(w)
  PROVE  sem' \in 0..MaxConcurrent /\ TokensOK'
<1> USE DEF TypeInv, At
<1>1. sem \in Nat /\ sem = Cardinality(Holders) /\ sem \in 0..MaxConcurrent
  BY HoldersFinite DEF TokensOK, TypeOK
<1>2. /\ Active(w) /\ job[w] \in Jobs /\ JobFits(job[w])
      /\ \A v \in Workers : v # w => job'[v] = job[v]
      /\ job' \in [Workers -> Jobs]
  BY StepTypes DEF TypeOK, CarriedOK, Local
<1>3. CASE UNCHANGED sem /\ Active(w)' /\ job'[w].detached = job[w].detached
  <2>1. Holders' = Holders
    BY <1>2, <1>3 DEF Holders, Active
  <2> QED
    BY <2>1, <1>1, <1>3 DEF TokensOK
<1>4. CASE UNCHANGED sem /\ job[w].detached /\ ~Active(w)'
  <2>1. Holders' = Holders
    BY <1>2, <1>4 DEF Holders, Active
  <2> QED
    BY <2>1, <1>1, <1>4 DEF TokensOK
<1>5. CASE sem' = sem - 1 /\ ~job[w].detached /\ ~(Active(w)' /\ ~job'[w].detached)
  <2>1. Holders' = Holders \ {w} /\ w \in Holders
    BY <1>2, <1>5 DEF Holders, Active
  <2>2. Cardinality(Holders') = Cardinality(Holders) - 1 /\ IsFiniteSet(Holders')
    BY <2>1, HoldersFinite, FS_RemoveElement
  <2>3. Cardinality(Holders') \in Nat
    BY <2>2, FS_CardinalityType
  <2> QED
    BY <2>2, <2>3, <1>1, <1>5 DEF TokensOK
<1>6. CASE Exit(w)
  <2>1. job'[w] = IdleJob /\ sem' = IF job[w].detached THEN sem ELSE sem - 1
    BY <1>6 DEF Exit, TypeOK
  <2> QED
    BY <2>1, <1>4, <1>5 DEF Active, IdleJob
<1>7. CASE DetachScheduleCompletion(w)
  <2>1. CASE job[w].unsaved
    <3>1. UNCHANGED sem /\ GoTo(w, "fail")
      BY <2>1, <1>7 DEF DetachScheduleCompletion
    <3> QED
      BY <1>2, <3>1, <1>3 DEF GoTo, Active, TypeOK, Jobs
  <2>2. CASE ~job[w].unsaved
    <3>1. job'[w].detached /\ ~job[w].detached /\ sem' = sem - 1
      BY <1>2, <2>2, <1>7 DEF DetachScheduleCompletion, TypeOK, Jobs
    <3> QED
      BY <3>1, <1>5
  <2> QED
    BY <2>1, <2>2
<1>8. CASE ExecuteTask(w)
  <2>1. UNCHANGED sem
    BY <1>8 DEF ExecuteTask
  <2>2. job' = [job EXCEPT ![w].pc = "fail"] \/
        \E x \in Runs : job' = [job EXCEPT ![w].pc = "lastrun", ![w].run = x, ![w].started = TRUE]
    BY <1>8 DEF ExecuteTask, GoTo
  <2>3. job'[w] = [job[w] EXCEPT !.pc = "fail"] \/
        \E x \in Runs : job'[w] = [job[w] EXCEPT !.pc = "lastrun", !.run = x, !.started = TRUE]
    BY <2>2 DEF TypeOK
  <2>4. Active(w)' /\ job'[w].detached = job[w].detached
    BY ZenonT(40), <1>2, <2>3 DEF Active, Jobs
  <2> QED
    BY <2>1, <2>4, <1>3
<1>9. CASE UpdateLastRunAt(w) \/ MarkScheduleTriggered(w)
  BY <1>2, <1>9, <1>3 DEF UpdateLastRunAt, MarkScheduleTriggered, Mark, GoTo, Active, TypeOK, Jobs
<1>10. CASE \/ WaitForRun(w) \/ HandleScheduledExecutionError(w) \/ RestoreCronNextRun(w)
            \/ HandleScheduledExecutionSuccess(w) \/ MarkCompleted(w)
  <2>1. UNCHANGED sem /\ \E l \in Places \ {"idle"} : GoTo(w, l)
    BY <1>10 DEF WaitForRun, HandleScheduledExecutionError, RestoreCronNextRun,
                 HandleScheduledExecutionSuccess, MarkCompleted
  <2> QED
    BY <1>2, <2>1, <1>3 DEF GoTo, Active, TypeOK, Jobs
<1> QED
  BY <1>6, <1>7, <1>8, <1>9, <1>10 DEF Step

LEMMA FirstValues ==
  /\ NoRow \in Rows /\ IdleJob \in Jobs
  /\ NoRun \in [of : Schedules \cup {None}, status : {"free", "open", "success", "failed"}]
  /\ NoScan \in [pc : {"scan", "dispatch", "rollback"}, due : SUBSET Snapshots,
                 sched : Snapshots \cup {None}]
BY DEF Rows, NoRow, NoRun, NoScan, IdleJob, Jobs

\* Every step keeps the types, what is carried, and the tokens.
LEMMA TypesKept ==
  ASSUME TypeInv, [Next]_vars
  PROVE  TypeInv'
<1> USE DEF TypeInv
<1>1. ASSUME NEW s \in Schedules, User(s) \/ Clock(s)
      PROVE  TypeInv'
  BY <1>1, UserTypes DEF memory, TypeOK, CarriedOK, TokensOK, Holders, Active
<1>2. CASE Scan
  <2>1. TypeOK' /\ CarriedOK'
    BY <1>2, ScanTypes DEF TypeOK, history
  <2>2. CASE UNCHANGED <<job, sem>>
    BY <2>1, <2>2 DEF TokensOK, Holders, Active
  <2>3. ASSUME NEW w \in Workers, ~Active(w), job' = [job EXCEPT ![w] = NewJob(scan.sched)],
               sem' = sem + 1
        PROVE  TokensOK'
    <3>1. Holders' = Holders \cup {w} /\ w \notin Holders
      BY <2>3 DEF TypeOK, Holders, Active, NewJob, IdleJob
    <3>2. Cardinality(Holders') = Cardinality(Holders) + 1
      BY <3>1, HoldersFinite, FS_AddElement
    <3> QED
      BY <2>3, <3>2 DEF TokensOK
  <2> QED
    BY <1>2, <2>1, <2>2, <2>3, ScanTypes
<1>3. ASSUME NEW w \in Workers, Step(w)
      PROVE  TypeInv'
  BY <1>3, StepTypes, StepTokens DEF Local, TypeOK
<1>4. ASSUME NEW x \in Runs, RunEnds(x)
      PROVE  TypeInv'
  <2>1. run' \in [Runs -> [of : Schedules \cup {None},
                           status : {"free", "open", "success", "failed"}]]
    BY <1>4 DEF RunEnds, TypeOK, NoRun
  <2> QED
    BY <1>4, <2>1 DEF RunEnds, memory, history, TypeOK, CarriedOK, TokensOK, Holders, Active
<1>5. CASE Stop
  BY <1>5 DEF Stop, history, TypeOK, CarriedOK, TokensOK, Holders, Active
<1>6. CASE Crash
  <2>1. TypeOK'
    <3>1. run' \in [Runs -> [of : Schedules \cup {None},
                             status : {"free", "open", "success", "failed"}]]
      BY <1>6, FirstValues DEF Crash
    <3>2. job' \in [Workers -> Jobs]
      BY <1>6, FirstValues DEF Crash
    <3>3. scan' \in [pc : {"scan", "dispatch", "rollback"}, due : SUBSET Snapshots,
                     sched : Snapshots \cup {None}]
      BY <1>6, FirstValues DEF Crash
    <3>4. fired' \in [Schedules -> 0..2] /\ sem' \in 0..MaxConcurrent /\ crashes' \in 0..MaxCrashes
      BY <1>6 DEF Crash, TypeOK
    <3>5. row' \in [Schedules -> Rows] /\ streak' \in [Schedules -> Nat] /\ stopped' \in BOOLEAN
          /\ inFlight' \subseteq Schedules
      BY <1>6 DEF Crash, TypeOK
    <3> QED
      BY <3>1, <3>2, <3>3, <3>4, <3>5 DEF TypeOK
  <2>2. CarriedOK'
    BY <1>6 DEF Crash, CarriedOK, JobFits, NoScan, IdleJob, Following
  <2>3. Holders' = {}
    BY <1>6 DEF Crash, Holders, Active, IdleJob
  <2> QED
    BY <1>6, <2>1, <2>2, <2>3, FS_EmptySet DEF Crash, TokensOK
<1>7. CASE UNCHANGED vars
  BY <1>7 DEF vars, TypeOK, CarriedOK, TokensOK, Holders, Active
<1> QED
  BY <1>1, <1>2, <1>3, <1>4, <1>5, <1>6, <1>7 DEF Next

LEMMA TypesInitially == Init => TypeInv
<1> SUFFICES ASSUME Init PROVE TypeInv
  OBVIOUS
<1>1. TypeOK
  <2>1. run \in [Runs -> [of : Schedules \cup {None},
                          status : {"free", "open", "success", "failed"}]]
    BY FirstValues DEF Init
  <2>2. job \in [Workers -> Jobs] /\ row \in [Schedules -> Rows]
    BY FirstValues DEF Init
  <2>3. scan \in [pc : {"scan", "dispatch", "rollback"}, due : SUBSET Snapshots,
                  sched : Snapshots \cup {None}]
    BY FirstValues DEF Init
  <2>4. fired \in [Schedules -> 0..2] /\ sem \in 0..MaxConcurrent /\ crashes \in 0..MaxCrashes
    BY DEF Init
  <2>5. streak \in [Schedules -> Nat] /\ stopped \in BOOLEAN /\ inFlight \subseteq Schedules
    BY DEF Init
  <2> QED
    BY <2>1, <2>2, <2>3, <2>4, <2>5 DEF TypeOK
<1>2. CarriedOK
  BY DEF Init, CarriedOK, JobFits, NoScan, IdleJob, Following
<1>3. Holders = {}
  BY DEF Init, Holders, Active, IdleJob
<1> QED
  BY <1>1, <1>2, <1>3, FS_EmptySet DEF Init, TypeInv, TokensOK

\* The rows, the runs, the scan, the goroutines, the pool and the counters are of
\* their types, the scan and the goroutines carry what they need, and the semaphore
\* holds one token for each goroutine of the pool (acquire, Release, Retain).
THEOREM TypesCorrect == Spec => []TypeInv
<1>1. Init => TypeInv
  BY TypesInitially
<1>2. TypeInv /\ [Next]_vars => TypeInv'
  BY TypesKept
<1> QED
  BY <1>1, <1>2, PTL DEF Spec

-----------------------------------------------------------------------------
(* What a step does to the row it is about. *)

\* A goroutine writes the row of its schedule when it may, and only the end of a run
\* of a once schedule completes it.
LEMMA StepRow ==
  ASSUME TypeInv, NEW w \in Workers, Step(w)
  PROVE  LET s == Sched(w).id
         IN  /\ row'[s].exists = row[s].exists
             /\ row'[s].type = row[s].type
             /\ row'[s].enabled => row[s].enabled
             /\ row'[s].next # row[s].next =>
                  row'[s].next = "null" \/ (IsCron(w) /\ At(w, "nextrun"))
             /\ row'[s].status = "completed" =>
                  row[s].status = "completed" \/ (At(w, "complete") /\ ~row'[s].enabled)
             /\ row'[s] # row[s] => Succeeds(w) /\ row[s].exists
<1> DEFINE s == Sched(w).id
<1> USE DEF TypeInv
<1>0. /\ s \in Schedules /\ row[s] \in Rows /\ Row(w) = row[s] /\ Active(w)
  BY StepTypes DEF Row, Sched, TypeOK
<1>1. ASSUME NEW r \in Rows, Writes(s, r), Succeeds(w),
             r.exists = row[s].exists, r.type = row[s].type, r.enabled => row[s].enabled,
             r.next # row[s].next => r.next = "null" \/ (IsCron(w) /\ At(w, "nextrun")),
             r.status = "completed" =>
               row[s].status = "completed" \/ (At(w, "complete") /\ ~r.enabled)
      PROVE  /\ row'[s].exists = row[s].exists
             /\ row'[s].type = row[s].type
             /\ row'[s].enabled => row[s].enabled
             /\ row'[s].next # row[s].next =>
                  row'[s].next = "null" \/ (IsCron(w) /\ At(w, "nextrun"))
             /\ row'[s].status = "completed" =>
                  row[s].status = "completed" \/ (At(w, "complete") /\ ~row'[s].enabled)
             /\ row'[s] # row[s] => Succeeds(w) /\ row[s].exists
  BY <1>0, <1>1, WritesType
<1>2. CASE UNCHANGED row
  BY <1>0, <1>2
<1>3. CASE UpdateLastRunAt(w)
  <2>1. [Row(w) EXCEPT !.ran = TRUE] \in Rows
    BY <1>0 DEF Rows
  <2> QED
    BY <1>0, <1>1, <1>2, <1>3, <2>1 DEF UpdateLastRunAt, Mark, Rows
<1>4. CASE MarkScheduleTriggered(w)
  <2>1. /\ [Row(w) EXCEPT !.next = "later"] \in Rows
        /\ [Row(w) EXCEPT !.status = "running", !.ran = TRUE, !.next = "null"] \in Rows
    BY <1>0 DEF Rows
  <2>2. CASE IsCron(w)
    <3>1. UNCHANGED row \/ (Succeeds(w) /\ Writes(s, [Row(w) EXCEPT !.next = "later"]))
      BY <1>4, <2>2 DEF MarkScheduleTriggered, Mark
    <3> QED
      BY SMTT(20), ZenonT(30), <1>0, <1>1, <1>2, <1>4, <2>1, <2>2, <3>1 DEF MarkScheduleTriggered, Rows
  <2>3. CASE ~IsCron(w)
    <3> DEFINE r == [Row(w) EXCEPT !.status = "running", !.ran = TRUE, !.next = "null"]
    <3>1. UNCHANGED row \/ (Succeeds(w) /\ Writes(s, r))
      BY <1>4, <2>3 DEF MarkScheduleTriggered, Mark
    <3>2. /\ r \in Rows /\ r.exists = row[s].exists /\ r.type = row[s].type
          /\ r.enabled = row[s].enabled /\ r.next = "null" /\ r.status = "running"
      BY <1>0, <2>1 DEF Rows
    <3> HIDE DEF r
    <3> QED
      BY <1>1, <1>2, <3>1, <3>2
  <2> QED
    BY <2>2, <2>3
<1>5. CASE HandleScheduledExecutionError(w)
  <2>1. FailedRow(w) \in Rows
    BY <1>0, FailedRowType
  <2>2. /\ FailedRow(w).exists = row[s].exists /\ FailedRow(w).type = row[s].type
        /\ FailedRow(w).enabled => row[s].enabled
        /\ FailedRow(w).next \in {row[s].next, "null"}
        /\ FailedRow(w).status = "completed" => row[s].status = "completed"
    BY <1>0 DEF FailedRow, Rows
  <2> QED
    BY <1>0, <1>1, <1>2, <1>5, <2>1, <2>2 DEF HandleScheduledExecutionError
<1>6. CASE HandleScheduledExecutionSuccess(w)
  <2>1. [Row(w) EXCEPT !.failures = 0] \in Rows
    BY <1>0 DEF Rows
  <2> QED
    BY <1>0, <1>1, <1>2, <1>6, <2>1 DEF HandleScheduledExecutionSuccess, Rows
<1>7. CASE MarkCompleted(w)
  <2>1. [Row(w) EXCEPT !.enabled = FALSE, !.status = "completed"] \in Rows
    BY <1>0 DEF Rows
  <2> QED
    BY SMTT(20), ZenonT(30), <1>0, <1>1, <1>2, <1>7, <2>1 DEF MarkCompleted, Rows
<1> QED
  BY <1>2, <1>3, <1>4, <1>5, <1>6, <1>7
     DEF Step, ExecuteTask, WaitForRun, DetachScheduleCompletion, RestoreCronNextRun, Exit, history

\* What is saved is what the user asked for, with its status.
LEMMA SavedRow ==
  ASSUME NEW r \in Rows
  PROVE  LET n == [Prepared(r) EXCEPT !.status = CalculateStatus(r)]
         IN  n.exists = r.exists /\ n.type = r.type /\ n.status = CalculateStatus(r)
<1> DEFINE c == CalculateStatus(r)
           p == Prepared(r)
<1>1. p \in Rows /\ p.exists = r.exists /\ p.type = r.type
  BY DEF Prepared, Rows
<1> HIDE DEF c, p
<1>2. [p EXCEPT !.status = c].exists = p.exists /\ [p EXCEPT !.status = c].type = p.type
      /\ [p EXCEPT !.status = c].status = c
  BY <1>1 DEF Rows
<1> QED
  BY <1>1, <1>2 DEF c, p

\* Whoever edits a schedule that the scheduler may hold disables or deletes it;
\* whoever arms it finds it at rest.
LEMMA UserEdits ==
  ASSUME TypeInv, "rearm" \notin Happens, NEW s \in Schedules, User(s)
  PROVE  /\ \A t \in Schedules : t # s => row'[t] = row[t] /\ fired'[t] = fired[t]
         /\ \/ ~Held(s) /\ fired'[s] = 0 /\ row'[s].exists
            \/ Disable(s) /\ row'[s].next = "null" /\ row'[s].exists /\ fired' = fired
            \/ row'[s] = NoRow
         /\ row[s].exists /\ row'[s].exists => row'[s].type = row[s].type
         /\ row'[s].exists /\ row'[s].status = "completed" =>
              /\ row[s].exists /\ row[s].status = "completed"
              /\ row'[s].enabled = row[s].enabled
         /\ UNCHANGED <<run, memory>>
<1> USE DEF TypeInv, TypeOK, history
<1>0. row[s] \in Rows
  OBVIOUS
<1>1. CASE Create(s)
  <2>1. PICK ty \in Types, on \in BOOLEAN :
          LET r == [NoRow EXCEPT !.exists = TRUE, !.type = ty, !.enabled = on,
                              !.at = IF ty = "once" THEN "future" ELSE "null"]
          IN  row' = [row EXCEPT ![s] = [Prepared(r) EXCEPT !.status = CalculateStatus(r)]]
    BY <1>1 DEF Create
  <2> DEFINE r == [NoRow EXCEPT !.exists = TRUE, !.type = ty, !.enabled = on,
                              !.at = IF ty = "once" THEN "future" ELSE "null"]
  <2>2. r \in Rows /\ r.exists /\ ~r.ran
    BY DEF Rows, NoRow
  <2> HIDE DEF r
  <2>3. CalculateStatus(r) # "completed"
    BY <2>2 DEF CalculateStatus, Rows
  <2>4. row'[s] = [Prepared(r) EXCEPT !.status = CalculateStatus(r)]
    BY <2>1 DEF r
  <2>5. row'[s].exists /\ row'[s].status # "completed"
    BY <2>2, <2>3, <2>4, SavedRow
  <2> QED
    BY <1>1, <2>1, <2>5 DEF Create, Armed
<1>2. CASE Enable(s)
  <2> DEFINE ran == IF row[s].type = "once" THEN FALSE ELSE row[s].ran
             r == [row[s] EXCEPT !.enabled = TRUE, !.failures = 0, !.ran = ran]
  <2>1. ran \in BOOLEAN /\ (row[s].type = "once" => ~ran)
    BY <1>0 DEF Rows
  <2>2. row' = [row EXCEPT ![s] = [Prepared(r) EXCEPT !.status = CalculateStatus(r)]]
    BY <1>2 DEF Enable
  <2> HIDE DEF ran
  <2>3. r \in Rows /\ r.type = row[s].type /\ r.exists = row[s].exists /\ r.ran = ran
    BY <1>0, <2>1 DEF Rows
  <2> HIDE DEF r
  <2>4. CalculateStatus(r) # "completed"
    BY <2>1, <2>3 DEF CalculateStatus, Rows
  <2>5. /\ row'[s].type = row[s].type /\ row'[s].exists = row[s].exists
        /\ row'[s].status # "completed"
    <3>1. row'[s] = [Prepared(r) EXCEPT !.status = CalculateStatus(r)]
      BY <2>2
    <3> QED
      BY <3>1, <2>3, <2>4, SavedRow
  <2> QED
    BY <1>2, <2>2, <2>5 DEF Enable, Armed, MayEdit
<1>3. CASE Update(s)
  <2>1. PICK at \in {"null", "future", "past"} : row' = [row EXCEPT ![s] = Prepared([row[s] EXCEPT !.at = at])]
    BY SMTT(20), ZenonT(30), <1>3, <1>0 DEF Update, Rows
  <2>2. /\ row'[s].type = row[s].type /\ row'[s].exists = row[s].exists
        /\ row'[s].status = row[s].status /\ row'[s].enabled = row[s].enabled
    BY <1>0, <2>1 DEF Prepared, Rows
  <2> QED
    BY <1>3, <2>1, <2>2 DEF Update, MayEdit
<1>4. CASE Disable(s)
  <2>1. row' = [row EXCEPT ![s] = [row[s] EXCEPT !.enabled = FALSE, !.status = "disabled", !.next = "null"]]
    BY <1>4 DEF Disable, Rows
  <2> QED
    BY <1>0, <1>4, <2>1 DEF Disable, Rows
<1>5. CASE Delete(s)
  BY <1>5 DEF Delete, NoRow
<1> QED
  BY <1>1, <1>2, <1>3, <1>4, <1>5 DEF User

-----------------------------------------------------------------------------
(* One run at a time.  Statements succeed, and a schedule the scheduler holds  *)
(* is not armed again.                                                         *)

Quiet == Happens \cap {"dberror", "rearm"} = {}

\* Users, while the scheduler is at work on other schedules.
LEMMA UserKeeps ==
  ASSUME OverlapInv, Quiet, NEW s \in Schedules, User(s)
  PROVE  OverlapInv'
<1> USE DEF OverlapInv
<1>0. TypeInv'
  BY TypesKept DEF Next
<1>1. /\ UNCHANGED <<run, memory>>
      /\ \A t \in Schedules : t # s => row'[t] = row[t] /\ fired'[t] = fired[t]
      /\ \/ ~Held(s) /\ fired'[s] = 0 /\ row'[s].exists
         \/ Disable(s) /\ row'[s].next = "null" /\ row'[s].exists /\ fired' = fired
         \/ row'[s] = NoRow
      /\ row[s].exists /\ row'[s].exists => row'[s].type = row[s].type
      /\ row'[s].exists /\ row'[s].status = "completed" =>
           row[s].exists /\ row[s].status = "completed" /\ row'[s].enabled = row[s].enabled
  BY UserEdits DEF Quiet
<1>2. /\ ~NoRow.exists /\ UNCHANGED <<scan, job, inFlight, stopped>>
      /\ row[s] \in Rows
  BY <1>1 DEF NoRow, memory, TypeInv, TypeOK
<1>3. Disable(s) => row[s].exists
  BY DEF Disable
<1>4. GoneIsGone'
  BY <1>1 DEF GoneIsGone
<1>5. OneJob'
  BY <1>2 DEF OneJob, Active, Sched
<1>6. ~Held(s) => /\ scan.pc # "scan" => scan.sched.id # s
                  /\ \A d \in scan.due : d.id # s
                  /\ \A w \in Workers : Active(w) => Sched(w).id # s
  BY NoneIsNoSnapshot DEF Held, InHand, OneJob, TypeInv, CarriedOK
<1>7. /\ scan.pc # "scan" => scan.sched.id \in Schedules
      /\ \A d \in scan.due : d.id \in Schedules
      /\ \A w \in Workers : Active(w) => Sched(w).id \in Schedules
  BY DEF TypeInv, TypeOK, CarriedOK, JobFits, Active, Sched, Snapshots
<1>8. HandFit'
  BY <1>1, <1>2, <1>3, <1>6, <1>7 DEF HandFit, InTheHand, Active, Sched, IsCron
<1>9. TypesFit'
  BY <1>1, <1>2, <1>3, <1>6, <1>7 DEF TypesFit, Active, Sched, IsCron, At
<1>10. Together'
  <2> SUFFICES ASSUME "timeout" \notin Happens PROVE Followed' /\ NoOverlap'
    BY DEF Together
  <2> Followed /\ NoOverlap
    BY DEF Together
  <2>1. Followed'
    BY <1>1, <1>2 DEF Followed, Abandoned, Follows, Active, Sched
  <2>2. NoOverlap'
    BY <1>1 DEF NoOverlap, AtWork
  <2> QED
    BY <2>1, <2>2
<1>11. CompletedRests'
  BY <1>1, <1>2 DEF CompletedRests, InTheHand, At, Sched
<1>12. FiredRests'
  BY <1>1, <1>2, <1>3 DEF FiredRests, InTheHand, At, Sched, Active
<1> QED
  BY <1>0, <1>4, <1>5, <1>8, <1>9, <1>10, <1>11, <1>12

\* Time passes; a lease does not end in the hand, nor under a goroutine of the pool.
LEMMA ClockKeeps ==
  ASSUME OverlapInv, NEW s \in Schedules, Clock(s)
  PROVE  OverlapInv'
<1> USE DEF OverlapInv
<1>0. TypeInv' /\ row[s] \in Rows /\ row' \in [Schedules -> Rows]
  BY TypesKept DEF Next, TypeInv, TypeOK
<1>1. /\ UNCHANGED <<run, memory, history>>
      /\ \A t \in Schedules : t # s => row'[t] = row[t]
      /\ row'[s].exists = row[s].exists /\ row'[s].type = row[s].type
      /\ row'[s].status = row[s].status /\ row'[s].enabled = row[s].enabled
      /\ row'[s].next = row[s].next \/ row'[s].next = "due"
  BY <1>0 DEF Clock, TimeComes, LeaseExpires, Rows, TypeInv, TypeOK
<1>2. UNCHANGED <<scan, job, inFlight, stopped, fired>>
  BY <1>1 DEF memory, history
<1>3. row'[s].next # row[s].next =>
        \/ row[s].next = "later"
        \/ /\ row[s].next = "lease" /\ ~InHand(s)
           /\ \A w \in Workers : Active(w) /\ Sched(w).id = s => job[w].detached
  BY <1>0, <1>1 DEF Clock, TimeComes, LeaseExpires, Rows, TypeInv, TypeOK, Active, Sched
<1>4. /\ row[s].exists \/ UNCHANGED row
      /\ scan.pc # "scan" => scan.sched.id \in Schedules /\ scan.sched # None
      /\ \A d \in scan.due : d.id \in Schedules
      /\ \A w \in Workers : Active(w) => Sched(w).id \in Schedules
  BY NoneIsNoSnapshot DEF GoneIsGone, Clock, TimeComes, LeaseExpires, NoRow,
     TypeInv, TypeOK, CarriedOK, JobFits, Active, Sched, Snapshots
<1>5. GoneIsGone'
  BY <1>1, <1>4 DEF GoneIsGone
<1>6. OneJob'
  BY <1>2 DEF OneJob, Active, Sched
<1>7. HandFit'
  BY <1>1, <1>2, <1>3, <1>4 DEF HandFit, InTheHand, Active, Sched, IsCron, InHand, OneJob
<1>8. TypesFit'
  BY <1>1, <1>2, <1>4 DEF TypesFit, Active, Sched, IsCron, At
<1>9. Together'
  <2> SUFFICES ASSUME "timeout" \notin Happens PROVE Followed' /\ NoOverlap'
    BY DEF Together
  <2> Followed /\ NoOverlap
    BY DEF Together
  <2>1. Followed'
    BY <1>1, <1>2 DEF Followed, Abandoned, Follows, Active, Sched
  <2>2. NoOverlap'
    BY <1>1 DEF NoOverlap, AtWork
  <2> QED
    BY <2>1, <2>2
<1>10. CompletedRests'
  BY <1>1, <1>2 DEF CompletedRests, InTheHand, At, Sched
<1>11. FiredRests'
  BY <1>1, <1>2, <1>3 DEF FiredRests, InTheHand, At, Sched, Active, OneJob
<1> QED
  BY <1>0, <1>5, <1>6, <1>7, <1>8, <1>9, <1>10, <1>11

\* The scan claims what is due and hands over what nobody follows.
LEMMA ScanKeeps ==
  ASSUME OverlapInv, Quiet, Scan
  PROVE  OverlapInv'
<1> USE DEF OverlapInv
<1>0. TypeInv' /\ UNCHANGED <<run, stopped, fired>> /\ TypeOK /\ CarriedOK
  BY TypesKept, ScanTypes DEF Next, TypeInv, history
<1>1. /\ \A d \in scan.due : d \in Snapshots /\ d.id \in Schedules
      /\ scan.pc # "scan" => scan.sched.id \in Schedules
      /\ \A w \in Workers : Active(w) => Sched(w).id \in Schedules
      /\ row \in [Schedules -> Rows]
  BY <1>0 DEF TypeOK, CarriedOK, JobFits, Active, Sched, Snapshots
<1>2. CASE CheckAndExecute
  <2>1. UNCHANGED <<row, job, inFlight>> /\ scan.pc = "scan" /\ scan'.pc = "scan"
    BY <1>2 DEF CheckAndExecute, NoScan
  <2>2. \A d \in scan'.due : row[d.id].type = d.type
    BY <1>2 DEF CheckAndExecute, NoScan
  <2>3. GoneIsGone' /\ OneJob' /\ HandFit'
    BY <2>1, <1>0 DEF GoneIsGone, OneJob, HandFit, InTheHand, Active, Sched, IsCron
  <2>4. TypesFit'
    BY <2>1, <2>2 DEF TypesFit, Active, Sched, IsCron, At
  <2>5. Together' /\ CompletedRests' /\ FiredRests'
    BY <1>0, <2>1 DEF Together, Followed, Abandoned, Follows, NoOverlap, AtWork, CompletedRests, FiredRests,
                      InTheHand, At, Active, Sched
  <2> QED
    BY <1>0, <2>3, <2>4, <2>5
<1>3. ASSUME NEW d \in scan.due, ClaimSchedule(d)
      PROVE  OverlapInv'
  <2>1. UNCHANGED <<job, inFlight>> /\ scan.pc = "scan"
    BY <1>3 DEF ClaimSchedule
  <2>2. CASE UNCHANGED row /\ scan' = [scan EXCEPT !.due = @ \ {d}]
    <3>1. scan'.pc = "scan" /\ scan'.due \subseteq scan.due
      BY <2>1, <2>2, <1>0 DEF TypeOK
    <3>2. GoneIsGone' /\ OneJob' /\ HandFit' /\ TypesFit'
      BY <1>0, <2>1, <2>2, <3>1
         DEF GoneIsGone, OneJob, HandFit, TypesFit, InTheHand, Active, Sched, IsCron, At
    <3>3. Together' /\ CompletedRests' /\ FiredRests'
      BY <1>0, <2>1, <2>2, <3>1 DEF Together, Followed, Abandoned, Follows, NoOverlap, AtWork, CompletedRests,
                                    FiredRests, InTheHand, At, Active, Sched
    <3> QED
      BY <1>0, <3>2, <3>3
  <2>3. CASE /\ ~stopped /\ row[d.id].enabled /\ row[d.id].next = "due"
             /\ row' = [row EXCEPT ![d.id].next = "lease"]
             /\ scan' = [pc |-> "dispatch", due |-> scan.due \ {d}, sched |-> d]
    <3>1. /\ \A t \in Schedules : t # d.id => row'[t] = row[t]
          /\ row'[d.id].exists = row[d.id].exists /\ row'[d.id].type = row[d.id].type
          /\ row'[d.id].status = row[d.id].status /\ row'[d.id].enabled = row[d.id].enabled
          /\ row'[d.id].next = "lease"
      <4>1. d.id \in Schedules /\ row[d.id] \in Rows
        BY <1>1
      <4>2. row' = [row EXCEPT ![d.id] = [row[d.id] EXCEPT !.next = "lease"]]
        BY <2>3
      <4>3. row'[d.id] = [row[d.id] EXCEPT !.next = "lease"]
        BY <1>1, <4>1, <4>2
      <4> QED
        BY <1>1, <4>1, <4>2, <4>3 DEF Rows
    <3>2. row[d.id].exists
      BY <1>1, <2>3 DEF GoneIsGone, NoRow
    <3>3. scan'.sched = d /\ scan'.pc = "dispatch" /\ scan'.due \subseteq scan.due
      BY <2>3
    <3>4. GoneIsGone' /\ OneJob'
      BY <1>1, <2>1, <1>0, <3>1, <3>2 DEF GoneIsGone, OneJob, Active, Sched
    <3>5. HandFit'
      BY <1>1, <2>1, <2>3, <1>0, <3>1, <3>2, <3>3
         DEF HandFit, InTheHand, Active, Sched, IsCron
    <3>6. TypesFit'
      BY <1>1, <2>1, <3>1, <3>2, <3>3 DEF TypesFit, Active, Sched, IsCron, At
    <3>7. Together'
      BY <1>0, <1>1, <2>1, <3>1 DEF Together, Followed, Abandoned, Follows, NoOverlap, AtWork, Active, Sched
    <3>8. CompletedRests'
      BY <1>1, <2>1, <2>3, <3>1, <3>2, <3>3 DEF CompletedRests, InTheHand, At, Sched
    <3>9. FiredRests'
      BY <1>0, <1>1, <2>1, <2>3, <3>1, <3>2, <3>3 DEF FiredRests, InTheHand, At, Sched, Active
    <3> QED
      BY <1>0, <3>4, <3>5, <3>6, <3>7, <3>8, <3>9
  <2> QED
    BY <1>3, <2>2, <2>3 DEF ClaimSchedule, MaySucceed
<1>4. CASE DispatchScheduledExecution
  <2>0. scan.pc = "dispatch" /\ UNCHANGED row
    BY <1>4 DEF DispatchScheduledExecution
  <2> DEFINE id == scan.sched.id
  <2>1. CASE sem < MaxConcurrent /\ id \notin inFlight /\ ~stopped
    <3>1. PICK w \in Workers : job[w].pc = "idle" /\ job' = [job EXCEPT ![w] = NewJob(scan.sched)]
      BY <1>4, <2>1 DEF DispatchScheduledExecution, Dispatch
    <3>2. /\ inFlight' = inFlight \cup {id}
          /\ scan'.pc = "scan" /\ scan'.due = scan.due
      BY <1>4, <2>1, <1>0 DEF DispatchScheduledExecution, Dispatch, TypeOK
    <3>3. /\ job'[w].pc = "launch" /\ job'[w].sched = scan.sched
          /\ ~job'[w].detached /\ ~job'[w].unsaved
          /\ \A v \in Workers : v # w => job'[v] = job[v]
      BY <3>1, <1>0 DEF TypeOK, NewJob, IdleJob
    <3>4. GoneIsGone' /\ OneJob'
      BY <2>0, <1>0, <1>1, <2>1, <3>1, <3>2, <3>3 DEF GoneIsGone, OneJob, Active, Sched
    <3>5. scan.sched \in Snapshots /\ scan.sched.type \in Types
      BY <2>0, <1>0 DEF CarriedOK, Snapshots
    <3>6. HandFit'
      BY <1>0, <1>1, <2>0, <2>1, <3>2, <3>3, <3>5 DEF HandFit, InTheHand, Active, Sched, IsCron
    <3>7. TypesFit'
      BY <1>0, <1>1, <2>0, <2>1, <3>2, <3>3 DEF TypesFit, Active, Sched, IsCron, At
    <3>8. Together'
      BY <1>0, <2>0, <2>1, <3>1, <3>3
         DEF Together, Followed, Abandoned, Follows, Following, NoOverlap, AtWork, Active, Sched
    <3>9. CompletedRests'
      BY <1>1, <2>0, <3>2, <3>3 DEF CompletedRests, InTheHand, At, Sched
    <3>10. FiredRests'
      BY <1>0, <1>1, <2>0, <2>1, <3>1, <3>2, <3>3
         DEF FiredRests, InTheHand, At, Sched, Active
    <3> QED
      BY <1>0, <3>4, <3>6, <3>7, <3>8, <3>9, <3>10
  <2>2. CASE ~(sem < MaxConcurrent /\ id \notin inFlight /\ ~stopped)
    <3>1. /\ scan'.pc = "rollback" /\ scan'.sched = scan.sched /\ scan'.due \subseteq scan.due
          /\ UNCHANGED <<job, inFlight>>
      BY <1>4, <2>2, <1>0 DEF DispatchScheduledExecution, Dispatch, TypeOK
    <3>2. GoneIsGone' /\ OneJob' /\ HandFit' /\ TypesFit'
      BY <1>0, <2>0, <3>1
         DEF GoneIsGone, OneJob, HandFit, TypesFit, InTheHand, Active, Sched, IsCron, At
    <3>3. Together' /\ CompletedRests' /\ FiredRests'
      BY <1>0, <2>0, <3>1 DEF Together, Followed, Abandoned, Follows, NoOverlap, AtWork, CompletedRests,
                              FiredRests, InTheHand, At, Active, Sched
    <3> QED
      BY <1>0, <3>2, <3>3
  <2> QED
    BY <2>1, <2>2
<1>5. CASE RollbackExecutionClaim
  <2> DEFINE id == scan.sched.id
  <2>0. /\ scan.pc = "rollback" /\ id \in Schedules /\ UNCHANGED <<job, inFlight>>
        /\ scan'.pc = "scan" /\ scan'.due = scan.due
    BY <1>5, <1>0, <1>1 DEF RollbackExecutionClaim, TypeOK
  <2>1. UNCHANGED row \/ (~stopped /\ Writes(id, [row[id] EXCEPT !.next = "due"]))
    BY <1>5 DEF RollbackExecutionClaim, MaySucceed
  <2>2. /\ \A t \in Schedules : t # id \/ ~row[t].exists => row'[t] = row[t]
        /\ row'[id].exists = row[id].exists /\ row'[id].type = row[id].type
        /\ row'[id].status = row[id].status /\ row'[id].enabled = row[id].enabled
        /\ row'[id] # row[id] => ~stopped
    BY <2>0, <2>1, <1>1 DEF Writes, Rows
  <2> HIDE DEF id
  <2>3. GoneIsGone' /\ OneJob'
    BY <2>0, <1>0, <2>2 DEF GoneIsGone, OneJob, Active, Sched
  <2>4. HandFit'
    BY ZenonT(40), <1>0, <1>1, <2>0, <2>2 DEF HandFit, InTheHand, Active, Sched, IsCron, id
  <2>5. TypesFit'
    BY <1>1, <2>0, <2>2 DEF TypesFit, Active, Sched, IsCron, At
  <2>6. Together'
    BY <1>0, <2>0, <2>2 DEF Together, Followed, Abandoned, Follows, NoOverlap, AtWork, Active, Sched
  <2>7. CompletedRests'
    BY <2>0, <2>2 DEF CompletedRests, InTheHand, At, Sched
  <2>8. FiredRests'
    BY <1>0, <1>1, <2>0, <2>2 DEF FiredRests, InTheHand, At, Sched, Active, id
  <2> QED
    BY <1>0, <2>3, <2>4, <2>5, <2>6, <2>7, <2>8
<1> QED
  BY <1>2, <1>3, <1>4, <1>5 DEF Scan

\* Where a step of a goroutine leads, while statements succeed.
LEMMA StepPaths ==
  ASSUME OverlapInv, Quiet, NEW w \in Workers, Step(w)
  PROVE  \/ /\ Exit(w) /\ job'[w] = IdleJob /\ inFlight' = inFlight \ {Sched(w).id}
         \/ /\ ~At(w, "exit")
            /\ inFlight' = inFlight
            /\ Sched(w)' = Sched(w) /\ Active(w)' /\ job'[w].pc # "launch"
            /\ job'[w].detached => stopped
            /\ job'[w].detached = job[w].detached \/ At(w, "wait")
            /\ job'[w].unsaved => stopped
            /\ At(w, "complete")' => ~IsCron(w)
            /\ \/ At(w, "launch")
               \/ job'[w].run = job[w].run /\ UNCHANGED <<run, fired>>
            /\ \/ Follows(w, job[w].run) => Follows(w, job[w].run)'
               \/ At(w, "wait") /\ RunIsOver(w)
               \/ stopped /\ At(w, "wait") /\ At(w, "fail")' /\ ~job'[w].detached
               \/ "timeout" \in Happens
            /\ At(w, "fail") => At(w, "exit")' \/ ~stopped \/ job[w].detached
<1> USE DEF OverlapInv, At
<1>0. /\ job[w] \in Jobs /\ Active(w) /\ TypeOK /\ JobFits(job[w])
      /\ "dberror" \notin Happens
      /\ Sched(w) \in Snapshots
      /\ job[w].detached => stopped
      /\ job[w].unsaved => stopped
  BY StepTypes DEF TypeInv, TypeOK, CarriedOK, Quiet, OneJob
<1>1. CASE Exit(w)
  BY <1>0, <1>1 DEF Exit, TypeOK
<1>2. ASSUME NEW l \in Places, GoTo(w, l)
      PROVE  job'[w] = [job[w] EXCEPT !.pc = l] /\ job'[w].pc = l /\ job'[w].run = job[w].run
             /\ job'[w].detached = job[w].detached /\ job'[w].unsaved = job[w].unsaved
             /\ job'[w].sched = job[w].sched
  BY <1>0, <1>2 DEF GoTo, TypeOK, Jobs
<1>3. CASE ExecuteTask(w)
  <2>1. ASSUME NEW x \in Runs,
               job' = [job EXCEPT ![w].pc = "lastrun", ![w].run = x, ![w].started = TRUE]
        PROVE  job'[w].pc = "lastrun" /\ job'[w].detached = job[w].detached
               /\ job'[w].unsaved = job[w].unsaved /\ job'[w].sched = job[w].sched
    <3>1. job'[w] = [job[w] EXCEPT !.pc = "lastrun", !.run = x, !.started = TRUE]
      BY <1>0, <2>1 DEF TypeOK
    <3> QED
      BY <1>0, <3>1 DEF Jobs
  <2>2. GoTo(w, "fail") \/ \E x \in Runs :
               job' = [job EXCEPT ![w].pc = "lastrun", ![w].run = x, ![w].started = TRUE]
    BY <1>3 DEF ExecuteTask
  <2>3. job'[w].pc \in {"lastrun", "fail"} /\ job'[w].detached = job[w].detached
               /\ job'[w].unsaved = job[w].unsaved /\ job'[w].sched = job[w].sched
    BY <2>1, <2>2, <1>2
  <2> QED
    BY <1>0, <1>3, <2>3 DEF ExecuteTask, Untouched, Sched, Active, Follows, Following
<1>4. CASE UpdateLastRunAt(w) \/ MarkScheduleTriggered(w)
  <2>1. ASSUME job' = [job EXCEPT ![w].pc = "wait", ![w].unsaved = TRUE]
        PROVE  job'[w].pc = "wait" /\ job'[w].detached = job[w].detached
               /\ job'[w].sched = job[w].sched /\ job'[w].run = job[w].run
    <3>1. job'[w] = [job[w] EXCEPT !.pc = "wait", !.unsaved = TRUE]
      BY <1>0, <2>1 DEF TypeOK
    <3> QED
      BY <1>0, <3>1 DEF Jobs
  <2>2. \/ \E l \in {"nextrun", "wait"} : GoTo(w, l)
        \/ /\ job' = [job EXCEPT ![w].pc = "wait", ![w].unsaved = TRUE]
           /\ stopped
    BY <1>0, <1>4 DEF UpdateLastRunAt, MarkScheduleTriggered, Mark, Fails
  <2>3. job'[w].pc \in {"nextrun", "wait"} /\ job'[w].detached = job[w].detached
               /\ (job'[w].unsaved => stopped) /\ job'[w].sched = job[w].sched
               /\ job'[w].run = job[w].run
    BY <2>1, <2>2, <1>2, <1>0
  <2>4. UNCHANGED <<run, fired, inFlight>> /\ job[w].pc \in {"lastrun", "nextrun"}
    BY <1>4 DEF UpdateLastRunAt, MarkScheduleTriggered, Mark, history, Untouched
  <2> QED
    BY <1>0, <2>3, <2>4 DEF Sched, Active, Follows, Following
<1>5. CASE WaitForRun(w)
  <2>1. /\ RunIsOver(w) \/ "timeout" \in Happens
        /\ \E l \in {"succeed", "fail", "exit"} : GoTo(w, l)
    BY <1>0, <1>5 DEF WaitForRun
  <2> QED
    BY <1>0, <1>2, <1>5, <2>1 DEF WaitForRun, Untouched, history, Sched, Active
<1>6. CASE DetachScheduleCompletion(w)
  <2>0. At(w, "wait") /\ stopped /\ ~job[w].detached /\ UNCHANGED <<run, fired, inFlight>>
    BY <1>6 DEF DetachScheduleCompletion, history, Untouched
  <2>1. CASE job[w].unsaved
    <3>1. GoTo(w, "fail")
      BY <1>6, <2>1 DEF DetachScheduleCompletion
    <3> QED
      BY <1>0, <1>2, <2>0, <3>1 DEF Sched, Active
  <2>2. CASE ~job[w].unsaved
    <3>1. job'[w] = [job[w] EXCEPT !.detached = TRUE]
      BY <1>0, <1>6, <2>2 DEF DetachScheduleCompletion, TypeOK
    <3>2. job'[w].pc = "wait" /\ job'[w].sched = job[w].sched /\ job'[w].run = job[w].run
      BY <1>0, <2>0, <3>1 DEF Jobs
    <3> QED
      BY <1>0, <2>0, <3>2 DEF Sched, Active, Follows, Following
  <2> QED
    BY <2>1, <2>2
<1>7. CASE HandleScheduledExecutionError(w)
  <2>1. \E l \in {"restore", "complete", "exit"} :
          GoTo(w, l) /\ (l = "complete" => ~IsCron(w)) /\ (l = "exit" \/ ~stopped \/ job[w].detached)
    BY <1>0, <1>7 DEF HandleScheduledExecutionError, Succeeds
  <2> QED
    BY <1>0, <1>2, <1>7, <2>1
       DEF HandleScheduledExecutionError, Untouched, Sched, Active, Follows, Following
<1>8. CASE RestoreCronNextRun(w) \/ MarkCompleted(w)
  <2>1. GoTo(w, "exit") /\ UNCHANGED <<run, fired, inFlight>> /\ job[w].pc \in {"restore", "complete"}
    BY <1>8 DEF RestoreCronNextRun, MarkCompleted, history, Untouched
  <2> QED
    BY <1>0, <1>2, <2>1 DEF Sched, Active, Follows, Following
<1>9. CASE HandleScheduledExecutionSuccess(w)
  <2>1. \E l \in {"complete", "exit"} : GoTo(w, l) /\ (l = "complete" => ~IsCron(w))
    BY <1>9 DEF HandleScheduledExecutionSuccess
  <2> QED
    BY <1>0, <1>2, <1>9, <2>1
       DEF HandleScheduledExecutionSuccess, Untouched, Sched, Active, Follows, Following
<1> QED
  BY <1>1, <1>3, <1>4, <1>5, <1>6, <1>7, <1>8, <1>9 DEF Step

\* A goroutine starts a run, follows it, and writes what became of it.
LEMMA StepKeeps ==
  ASSUME OverlapInv, Quiet, NEW w \in Workers, Step(w)
  PROVE  OverlapInv'
<1> USE DEF OverlapInv
<1> DEFINE id == Sched(w).id
<1>0. /\ TypeInv' /\ Local(w) /\ Active(w) /\ id \in Schedules /\ TypeOK /\ TypeOK'
      /\ CarriedOK
  BY TypesKept, StepTypes DEF Next, TypeInv
<1>1. /\ \A v \in Workers : v # w => job'[v] = job[v]
      /\ \A s \in Schedules : s # id => row'[s] = row[s]
      /\ UNCHANGED <<scan, stopped>>
  BY <1>0 DEF Local
<1>2. /\ row'[id].exists = row[id].exists
      /\ row'[id].type = row[id].type
      /\ row'[id].enabled => row[id].enabled
      /\ row'[id].next # row[id].next => row'[id].next = "null" \/ (IsCron(w) /\ At(w, "nextrun"))
      /\ row'[id].status = "completed" =>
           row[id].status = "completed" \/ (At(w, "complete") /\ ~row'[id].enabled)
      /\ row'[id] # row[id] => Succeeds(w) /\ row[id].exists
  BY StepRow
<1>3. \/ /\ Exit(w) /\ job'[w] = IdleJob /\ inFlight' = inFlight \ {id}
      \/ /\ ~At(w, "exit")
         /\ inFlight' = inFlight
         /\ Sched(w)' = Sched(w) /\ Active(w)' /\ job'[w].pc # "launch"
         /\ job'[w].detached => stopped
         /\ job'[w].detached = job[w].detached \/ At(w, "wait")
         /\ job'[w].unsaved => stopped
         /\ At(w, "complete")' => ~IsCron(w)
         /\ \/ At(w, "launch")
            \/ job'[w].run = job[w].run /\ UNCHANGED <<run, fired>>
         /\ \/ Follows(w, job[w].run) => Follows(w, job[w].run)'
            \/ At(w, "wait") /\ RunIsOver(w)
            \/ stopped /\ At(w, "wait") /\ At(w, "fail")' /\ ~job'[w].detached
            \/ "timeout" \in Happens
         /\ At(w, "fail") => At(w, "exit")' \/ ~stopped \/ job[w].detached
  BY StepPaths
<1>4. /\ IdleJob.pc = "idle" /\ ~IdleJob.detached /\ ~IdleJob.unsaved
      /\ \A v \in Workers : Active(v) => Sched(v).id \in Schedules /\ Sched(v).type \in Types
      /\ scan.pc # "scan" => scan.sched.id \in Schedules /\ scan.sched.type \in Types
      /\ \A d \in scan.due : d.id \in Schedules
      /\ \A v \in Workers : Active(v) /\ Sched(v).id = id => v = w
  BY <1>0 DEF IdleJob, TypeOK, CarriedOK, JobFits, Active, Sched, Snapshots, OneJob
<1>5. GoneIsGone'
  BY <1>0, <1>1, <1>2 DEF GoneIsGone
<1>a. \A v \in Workers : /\ Active(v)' => Active(v) /\ Sched(v)' = Sched(v)
                         /\ At(v, "launch")' => At(v, "launch") /\ v # w
  BY <1>0, <1>1, <1>3, <1>4 DEF Active, Sched, At
<1>b. \A v \in Workers : At(v, "complete")' => ~IsCron(v)
  BY <1>0, <1>1, <1>3, <1>4 DEF TypesFit, At
<1>6. OneJob'
  <2>1. \A v \in Workers : /\ Active(v)' => Active(v) /\ Sched(v)' = Sched(v)
                           /\ Active(v)' => Sched(v)'.id \in inFlight'
                           /\ job'[v].detached \/ job'[v].unsaved => stopped
    BY <1>0, <1>1, <1>3, <1>4 DEF OneJob, Active, Sched
  <2> QED
    BY <1>1, <2>1 DEF OneJob, Active
\* A time that comes under a goroutine is a cron schedule's.
<1>c. \A v \in Workers : Active(v)' /\ ~IsCron(v)' =>
        LET s == Sched(v).id
        IN  /\ Active(v) /\ ~IsCron(v) /\ Sched(v)' = Sched(v) /\ s \in Schedules
            /\ row'[s].exists = row[s].exists
            /\ row'[s].next \in {row[s].next, "null"}
  <2> SUFFICES ASSUME NEW v \in Workers, Active(v)', ~IsCron(v)'
               PROVE  LET s == Sched(v).id
                      IN  /\ Active(v) /\ ~IsCron(v) /\ Sched(v)' = Sched(v) /\ s \in Schedules
                          /\ row'[s].exists = row[s].exists
                          /\ row'[s].next \in {row[s].next, "null"}
    OBVIOUS
  <2>1. Active(v) /\ Sched(v)' = Sched(v) /\ Sched(v).id \in Schedules
    BY <1>4, <1>a
  <2>2. ~IsCron(v)
    BY <2>1 DEF IsCron, Sched
  <2>3. CASE Sched(v).id # id
    BY <1>1, <2>1, <2>2, <2>3
  <2>4. CASE Sched(v).id = id
    <3>1. v = w
      BY <1>4, <2>1, <2>4
    <3> QED
      BY <1>2, <2>1, <2>2, <2>4, <3>1
  <2> QED
    BY <2>3, <2>4
<1>7. HandFit'
  <2>1. ASSUME scan.pc # "scan", scan.sched.type = "once", row'[scan.sched.id].exists
        PROVE  row'[scan.sched.id].next \notin {"due", "later"}
    <3>1. CASE scan.sched.id # id
      BY <1>1, <1>4, <2>1, <3>1 DEF HandFit
    <3>2. CASE scan.sched.id = id
      <4>1. row[id].exists /\ row[id].next \notin {"due", "later"} /\ row[id].type = "once"
        BY <1>2, <2>1, <3>2 DEF HandFit, TypesFit
      <4>2. ~IsCron(w)
        BY <1>0, <4>1 DEF TypesFit, IsCron, Sched
      <4> QED
        BY <1>2, <3>2, <4>1, <4>2
    <3> QED
      BY <3>1, <3>2
  <2>2. ASSUME NEW v \in Workers, Active(v)', ~IsCron(v)'
        PROVE  /\ ~InTheHand(Sched(v).id)
               /\ row'[Sched(v).id].exists /\ ~stopped =>
                    row'[Sched(v).id].next \notin {"due", "later"}
    BY <1>c, <2>2 DEF HandFit
  <2>3. \A v \in Workers : Active(v)' /\ ~IsCron(v)' => Sched(v)' = Sched(v)
    BY <1>c
  <2> QED
    BY <1>1, <2>1, <2>2, <2>3 DEF HandFit, InTheHand
<1>8. TypesFit'
  <2>1. \A s \in Schedules : row'[s].exists = row[s].exists /\ row'[s].type = row[s].type
    BY <1>1, <1>2
  <2>2. /\ scan.pc # "scan" /\ row'[scan.sched.id].exists =>
             row'[scan.sched.id].type = scan.sched.type
        /\ \A d \in scan.due : row'[d.id].exists => row'[d.id].type = d.type
    BY <1>4, <2>1 DEF TypesFit
  <2>3. \A v \in Workers : Active(v)' /\ row'[Sched(v)'.id].exists =>
                           row'[Sched(v)'.id].type = Sched(v)'.type
    BY <1>4, <1>a, <2>1 DEF TypesFit
  <2>4. \A v \in Workers : At(v, "complete")' => ~IsCron(v)'
    BY <1>a, <1>b DEF IsCron, Sched, Active, At
  <2> QED
    BY <1>1, <2>2, <2>3, <2>4 DEF TypesFit
<1>9. CompletedRests'
  <2> SUFFICES ASSUME NEW s \in Schedules, row'[s].exists, row'[s].status = "completed"
               PROVE  /\ ~row'[s].enabled
                      /\ ~InTheHand(s)
                      /\ \A v \in Workers : At(v, "launch")' => Sched(v)'.id # s
    BY <1>1 DEF CompletedRests, InTheHand
  <2>1. \A v \in Workers : At(v, "launch")' =>
          v # w /\ At(v, "launch") /\ Sched(v)' = Sched(v)
    BY <1>a DEF Active, At
  <2>2. CASE row[s].exists /\ row[s].status = "completed"
    BY <1>1, <1>2, <2>1, <2>2 DEF CompletedRests
  <2>3. CASE s = id /\ At(w, "complete") /\ ~row'[id].enabled
    <3>1. ~InTheHand(id)
      BY <1>0, <2>3 DEF TypesFit, HandFit
    <3>2. \A v \in Workers : At(v, "launch") /\ Sched(v).id = id => v = w
      BY <1>4 DEF Active, At
    <3> QED
      BY <2>1, <2>3, <3>1, <3>2
  <2> QED
    BY <1>1, <1>2, <2>2, <2>3
<1>10. Together'
  <2> SUFFICES ASSUME "timeout" \notin Happens PROVE Followed' /\ NoOverlap'
    BY DEF Together
  <2> Followed /\ NoOverlap
    BY DEF Together
  <2>0. \A v \in Workers : Active(v)' => Active(v) /\ Sched(v)' = Sched(v)
    BY <1>0, <1>1, <1>3, <1>4 DEF Active, Sched
  <2>1. CASE ExecuteTask(w) /\ ~UNCHANGED run
    <3>1. PICK x \in Runs : /\ run[x] = NoRun /\ ~stopped
                            /\ run' = [run EXCEPT ![x] = [of |-> id, status |-> "open"]]
                            /\ job' = [job EXCEPT ![w].pc = "lastrun", ![w].run = x, ![w].started = TRUE]
      BY <2>1 DEF ExecuteTask
    <3>2. /\ job'[w].pc = "lastrun" /\ job'[w].run = x /\ job'[w].sched = job[w].sched
      <4>1. job'[w] = [job[w] EXCEPT !.pc = "lastrun", !.run = x, !.started = TRUE]
        BY <1>0, <3>1 DEF TypeOK
      <4> QED
        BY <1>0, <4>1 DEF TypeOK, Jobs
    <3>3. /\ run'[x].of = id /\ run'[x].status = "open"
          /\ \A y \in Runs : y # x => run'[y] = run[y]
      BY <1>0, <3>1 DEF TypeOK
    <3>4. At(w, "launch") /\ \A y \in Runs : ~Follows(w, y)
      BY <2>1 DEF ExecuteTask, At, Follows, Following
    <3>5. \A y \in Runs : run[y].status = "open" => run[y].of # id
      <4> SUFFICES ASSUME NEW y \in Runs, run[y].status = "open", run[y].of = id PROVE FALSE
        OBVIOUS
      <4>1. PICK v \in Workers : Follows(v, y)
        BY <3>1, <3>4, <1>0 DEF Followed, Abandoned, At
      <4>2. v = w
        BY <4>1, <1>4 DEF Follows, Following, Active
      <4> QED
        BY <4>1, <4>2, <3>4
    <3>6. Followed'
      <4>1. Follows(w, x)'
        BY <3>2, <3>3 DEF Follows, Following, Sched
      <4>2. ASSUME NEW y \in Runs, y # x, run[y].status = "open"
            PROVE  \E v \in Workers : Follows(v, y)'
        <5>1. PICK v \in Workers : Follows(v, y)
          BY <4>2, <3>1 DEF Followed, Abandoned
        <5>2. v # w
          BY <5>1, <3>4
        <5> QED
          BY <1>1, <3>3, <4>2, <5>1, <5>2 DEF Follows, Sched
      <4> QED
        BY <1>0, <3>3, <4>1, <4>2 DEF Followed
    <3>7. row[id].exists => row[id].status # "completed"
      BY <1>0, <3>4 DEF CompletedRests
    <3>8. NoOverlap'
      <4>1. ASSUME NEW s \in Schedules, s # id
            PROVE  AtWork(s)' = AtWork(s)
        BY <4>1, <3>1, <3>3 DEF AtWork, NoRun
      <4>2. ASSUME NEW s \in Schedules, s = id
            PROVE  AtWork(s)' = {x}
        BY <4>2, <3>3, <3>5 DEF AtWork
      <4>3. UNCHANGED row
        BY <2>1 DEF ExecuteTask
      <4> QED
        BY <4>1, <4>2, <4>3, <3>7 DEF NoOverlap
    <3> QED
      BY <3>6, <3>8
  <2>2. CASE UNCHANGED run /\ ~At(w, "exit")
    <3>1. Followed'
      <4> SUFFICES ASSUME NEW y \in Runs, run[y].status = "open"
                   PROVE  /\ run[y].of \in Schedules
                          /\ (\E v \in Workers : Follows(v, y)') \/ Abandoned(y)'
        BY <2>2 DEF Followed
      <4>1. ASSUME NEW v \in Workers, v # w, Follows(v, y)
            PROVE  Follows(v, y)'
        BY <1>1, <2>2, <4>1 DEF Follows, Sched
      <4>2. CASE Follows(w, y)
        <5>1. job[w].run = y /\ id = run[y].of /\ ~At(w, "launch")
          BY <4>2 DEF Follows, Following, At
        <5>2. CASE Follows(w, job[w].run)'
          BY <1>3, <2>2, <4>2, <5>1, <5>2 DEF Follows, Followed, Exit, At
        <5>3. CASE ~Follows(w, job[w].run)'
          <6>1. stopped /\ At(w, "fail")' /\ ~job'[w].detached
            BY <1>3, <2>2, <4>2, <5>1, <5>3 DEF RunIsOver, Exit
          <6>2. Abandoned(y)'
            BY <1>1, <1>4, <2>0, <2>2, <5>1, <6>1 DEF Abandoned, At
          <6> QED
            BY <6>2, <4>2 DEF Followed
        <5> QED
          BY <5>2, <5>3, <4>2 DEF Followed
      <4>3. CASE Abandoned(y)
        <5>1. id = run[y].of => At(w, "fail") /\ ~job[w].detached
          BY <4>3, <1>0, <2>2 DEF Abandoned, At
        <5>2. id = run[y].of => At(w, "exit")' /\ ~job'[w].detached
          BY <5>1, <1>3, <4>3 DEF Abandoned, At, Exit
        <5> QED
          BY <1>1, <2>0, <2>2, <4>3, <5>2 DEF Abandoned, At, Followed
      <4> QED
        BY <4>1, <4>2, <4>3 DEF Followed
    <3>2. \A y \in Runs : At(w, "complete") /\ run[y].status = "open" => run[y].of # id
      BY <1>0, <1>4 DEF Followed, Abandoned, Follows, Active, Following, At
    <3>3. NoOverlap'
      BY <1>0, <1>1, <1>2, <2>2, <3>2 DEF NoOverlap, AtWork
    <3> QED
      BY <3>1, <3>3
  <2>3. CASE Exit(w)
    <3>1. \A y \in Runs : run'[y] \in {run[y], NoRun}
      BY <2>3 DEF Exit
    <3>2. At(w, "exit") /\ \A y \in Runs : ~Follows(w, y)
      BY <2>3 DEF Exit, At, Follows, Following
    <3>3. Followed'
      <4> SUFFICES ASSUME NEW y \in Runs, run'[y].status = "open"
                   PROVE  /\ run'[y].of \in Schedules
                          /\ (\E v \in Workers : Follows(v, y)') \/ Abandoned(y)'
        BY DEF Followed
      <4>1. run'[y] = run[y]
        BY <3>1 DEF NoRun
      <4>2. CASE \E v \in Workers : Follows(v, y)
        BY <1>1, <3>2, <4>1, <4>2 DEF Followed, Follows, Sched
      <4>3. CASE Abandoned(y)
        <5>1. \A v \in Workers : Active(v)' => v # w
          BY <1>3, <1>4, <3>2 DEF Active
        <5> QED
          BY <1>1, <2>0, <4>1, <4>3, <5>1 DEF Abandoned, Followed
      <4> QED
        BY <4>1, <4>2, <4>3 DEF Followed
    <3>4. NoOverlap'
      <4>1. \A s \in Schedules : AtWork(s)' \subseteq AtWork(s)
        BY <3>1 DEF AtWork, NoRun
      <4>2. UNCHANGED row
        BY <2>3 DEF Exit
      <4> QED
        BY <4>1, <4>2 DEF NoOverlap
    <3> QED
      BY <3>3, <3>4
  <2>4. ExecuteTask(w) \/ UNCHANGED run \/ Exit(w)
    BY <1>3 DEF Step, UpdateLastRunAt, MarkScheduleTriggered, Mark, WaitForRun, history,
                DetachScheduleCompletion, HandleScheduledExecutionError, RestoreCronNextRun,
                HandleScheduledExecutionSuccess, MarkCompleted
  <2>5. ExecuteTask(w) => ~At(w, "exit")
    BY DEF ExecuteTask, At
  <2> QED
    BY <1>3, <2>1, <2>2, <2>3, <2>4, <2>5
<1>11. FiredRests'
  <2> SUFFICES ASSUME NEW s \in Schedules, row'[s].exists, row'[s].type = "once", fired'[s] # 0
               PROVE  /\ fired'[s] = 1
                      /\ ~stopped' =>
                           /\ ~InTheHand(s)'
                           /\ \A v \in Workers : At(v, "launch")' => Sched(v)'.id # s
                           /\ \/ row'[s].next = "null"
                              \/ /\ row'[s].next = "lease"
                                 /\ \E v \in Workers : Active(v)' /\ Sched(v)'.id = s
                                                       /\ job'[v].pc \in {"lastrun", "nextrun"}
    BY DEF FiredRests
  <2>1. row[s].exists /\ row[s].type = "once"
    BY <1>1, <1>2
  <2>2. \A v \in Workers : At(v, "launch")' => v # w /\ At(v, "launch") /\ Sched(v)' = Sched(v)
    BY <1>1, <1>3, <1>4 DEF At, Sched
  <2>3. CASE s # id
    <3>1. fired'[s] = fired[s]
      BY <1>0, <2>3 DEF Step, ExecuteTask, UpdateLastRunAt, MarkScheduleTriggered, Mark, WaitForRun,
                   history, DetachScheduleCompletion, HandleScheduledExecutionError,
                   RestoreCronNextRun, HandleScheduledExecutionSuccess, MarkCompleted, Exit, TypeOK
    <3> QED
      BY <1>1, <2>1, <2>2, <2>3, <3>1 DEF FiredRests, InTheHand, Active, Sched
  <2>4. CASE s = id
    <3>1. ~IsCron(w) /\ ~InTheHand(s)
      BY <1>0, <1>4, <2>1, <2>4 DEF TypesFit, HandFit, IsCron, Sched
    <3>2. \A v \in Workers : At(v, "launch")' => Sched(v)'.id # s
      BY <2>2, <2>4, <1>4 DEF Active, At
    <3>3. ~InTheHand(s)'
      BY <3>1, <1>1 DEF InTheHand
    <3>4. CASE ExecuteTask(w) /\ fired' # fired
      <4>1. /\ ~stopped /\ job'[w].pc = "lastrun" /\ UNCHANGED row /\ At(w, "launch")
            /\ fired' = [fired EXCEPT ![id] = IF @ = 2 THEN @ ELSE @ + 1]
        <5>1. PICK x \in Runs :
                job' = [job EXCEPT ![w].pc = "lastrun", ![w].run = x, ![w].started = TRUE]
          BY <3>4 DEF ExecuteTask
        <5>2. job'[w] = [job[w] EXCEPT !.pc = "lastrun", !.run = x, !.started = TRUE]
          BY <1>0, <5>1 DEF TypeOK
        <5>3. job'[w].pc = "lastrun"
          BY <1>0, <5>2 DEF TypeOK, Jobs
        <5> QED
          BY <3>4, <5>3 DEF ExecuteTask
      <4>2. fired[s] = 0
        BY <4>1, <2>1, <2>4 DEF FiredRests
      <4>3. row[s].next \in {"null", "lease"}
        BY <1>0, <2>1, <2>4, <3>1, <4>1 DEF HandFit, TypeOK, Rows
      <4>4. Active(w)' /\ Sched(w)'.id = s
        BY <1>3, <2>4, <4>1 DEF At, Exit
      <4> QED
        BY <1>0, <2>4, <3>2, <3>3, <4>1, <4>2, <4>3, <4>4 DEF TypeOK
    <3>5. CASE UNCHANGED fired
      <4>1. fired[s] = 1 /\ (~stopped => row[s].next = "null" \/ (row[s].next = "lease" /\
              \E v \in Workers : Active(v) /\ Sched(v).id = s /\ job[v].pc \in {"lastrun", "nextrun"}))
        BY <2>1, <3>5 DEF FiredRests
      <4>2. row'[s].next = row[s].next \/ row'[s].next = "null"
        BY <1>2, <2>4, <3>1
      <4>3. ~stopped /\ job[w].pc \in {"lastrun", "nextrun"} =>
              row'[s].next = "null" \/ (Active(w)' /\ Sched(w)'.id = s /\ job'[w].pc = "nextrun")
        <5>0. Fails(w) => stopped
          BY DEF Fails, Quiet
        <5>1. At(w, "lastrun") /\ ~stopped => job'[w].pc = "nextrun"
          BY <1>0, <5>0 DEF Step, ExecuteTask, UpdateLastRunAt, MarkScheduleTriggered, Mark, WaitForRun,
             DetachScheduleCompletion, HandleScheduledExecutionError, RestoreCronNextRun, GoTo,
             HandleScheduledExecutionSuccess, MarkCompleted, Exit, At, TypeOK, Jobs
        <5>2. At(w, "nextrun") /\ ~stopped => row'[s].next = "null"
          <6> SUFFICES ASSUME At(w, "nextrun"), ~stopped PROVE row'[s].next = "null"
            OBVIOUS
          <6>1. MarkScheduleTriggered(w)
            BY DEF Step, ExecuteTask, UpdateLastRunAt, WaitForRun, DetachScheduleCompletion,
                   HandleScheduledExecutionError, RestoreCronNextRun,
                   HandleScheduledExecutionSuccess, MarkCompleted, Exit, At
          <6>2. Writes(id, [Row(w) EXCEPT !.status = "running", !.ran = TRUE, !.next = "null"])
            BY <3>1, <5>0, <6>1 DEF MarkScheduleTriggered, Mark
          <6> QED
            BY SMTT(20), ZenonT(30), <1>0, <2>1, <2>4, <6>2 DEF Writes, TypeOK, Rows, Row, Sched
        <5> QED
          BY <1>3, <2>4, <5>1, <5>2 DEF At, Exit
      <4> QED
        BY <1>1, <1>4, <2>4, <3>2, <3>3, <3>5, <4>1, <4>2, <4>3
    <3>6. ExecuteTask(w) \/ UNCHANGED fired
      BY DEF Step, UpdateLastRunAt, MarkScheduleTriggered, Mark, WaitForRun, history,
             DetachScheduleCompletion, HandleScheduledExecutionError, RestoreCronNextRun,
             HandleScheduledExecutionSuccess, MarkCompleted, Exit
    <3> QED
      BY <3>4, <3>5, <3>6
  <2> QED
    BY <2>3, <2>4
<1> QED
  BY <1>0, <1>5, <1>6, <1>7, <1>8, <1>9, <1>10, <1>11

LEMMA OverlapKept ==
  ASSUME OverlapInv, Quiet, [Next]_vars
  PROVE  OverlapInv'
<1> USE DEF OverlapInv
<1>0. TypeInv' /\ TypeOK
  BY TypesKept DEF TypeInv
<1>1. ASSUME NEW x \in Runs, RunEnds(x)
      PROVE  OverlapInv'
  <2>1. /\ UNCHANGED <<row, scan, job, inFlight, stopped, fired>>
        /\ \A y \in Runs : y # x => run'[y] = run[y]
        /\ run'[x].status # "open"
    BY <1>0, <1>1 DEF RunEnds, memory, history, TypeOK, NoRun
  <2>2. GoneIsGone' /\ OneJob' /\ HandFit' /\ TypesFit' /\ CompletedRests' /\ FiredRests'
    BY <2>1 DEF GoneIsGone, OneJob, HandFit, TypesFit, CompletedRests, FiredRests,
                InTheHand, Active, Sched, IsCron, At
  <2>3. Followed => Followed'
    BY <2>1 DEF Followed, Abandoned, Follows, Active, Sched
  <2>4. NoOverlap => NoOverlap'
    BY <2>1 DEF NoOverlap, AtWork
  <2> QED
    BY <1>0, <2>2, <2>3, <2>4 DEF Together
<1>2. CASE Stop
  <2>1. /\ UNCHANGED <<row, run, scan, job, inFlight, fired>> /\ stopped' /\ ~stopped
    BY <1>2 DEF Stop, history
  <2>2. GoneIsGone' /\ OneJob' /\ HandFit' /\ TypesFit' /\ CompletedRests' /\ FiredRests'
    BY <2>1 DEF GoneIsGone, OneJob, HandFit, TypesFit, CompletedRests, FiredRests,
                InTheHand, Active, Sched, IsCron, At
  <2>3. Together'
    BY <2>1 DEF Together, Followed, Abandoned, Follows, Active, Sched, NoOverlap, AtWork
  <2> QED
    BY <1>0, <2>2, <2>3
<1>3. CASE Crash
  <2>1. /\ \A w \in Workers : job'[w] = IdleJob
        /\ scan'.pc = "scan" /\ scan'.due = {}
        /\ \A x \in Runs : run'[x].status = "free"
        /\ \A s \in Schedules : fired'[s] = 0
        /\ UNCHANGED row
    BY <1>3 DEF Crash, NoScan, NoRun
  <2>2. IdleJob.pc = "idle" /\ ~IdleJob.detached /\ ~IdleJob.unsaved
    BY DEF IdleJob
  <2>3. GoneIsGone' /\ OneJob' /\ HandFit' /\ TypesFit' /\ CompletedRests' /\ FiredRests'
    BY <2>1, <2>2 DEF GoneIsGone, OneJob, HandFit, TypesFit, CompletedRests, FiredRests,
                      InTheHand, Active, At
  <2>4. Together'
    BY <2>1 DEF Together, Followed, NoOverlap, AtWork
  <2> QED
    BY <1>0, <2>3, <2>4
<1>4. CASE UNCHANGED vars
  BY SMTT(20), ZenonT(30), <1>0, <1>4 DEF vars, GoneIsGone, OneJob, HandFit, TypesFit, CompletedRests, FiredRests,
     InTheHand, Active, Sched, IsCron, At, Together, Followed, Abandoned, Follows, NoOverlap, AtWork
<1> QED
  BY <1>1, <1>2, <1>3, <1>4, UserKeeps, ClockKeeps, ScanKeeps, StepKeeps DEF Next

LEMMA OverlapInitially == Init => OverlapInv
<1> SUFFICES ASSUME Init PROVE OverlapInv
  OBVIOUS
<1>1. /\ \A w \in Workers : job[w] = IdleJob
      /\ scan.pc = "scan" /\ scan.due = {}
      /\ \A x \in Runs : run[x].status = "free"
      /\ \A s \in Schedules : row[s] = NoRow
  BY DEF Init, NoScan, NoRun
<1>2. IdleJob.pc = "idle" /\ ~IdleJob.detached /\ ~IdleJob.unsaved /\ ~NoRow.exists
  BY DEF IdleJob, NoRow
<1>3. GoneIsGone /\ OneJob /\ HandFit /\ TypesFit /\ CompletedRests /\ FiredRests
  BY <1>1, <1>2 DEF GoneIsGone, OneJob, HandFit, TypesFit, CompletedRests, FiredRests,
                    InTheHand, Active, At
<1>4. Together
  BY <1>1, <1>2 DEF Together, Followed, NoOverlap, AtWork
<1> QED
  BY <1>3, <1>4, TypesInitially DEF OverlapInv

LEMMA OverlapInvariant ==
  ASSUME Quiet
  PROVE  Spec => []OverlapInv
<1>1. Init => OverlapInv
  BY OverlapInitially
<1>2. OverlapInv /\ [Next]_vars => OverlapInv'
  BY OverlapKept
<1> QED
  BY <1>1, <1>2, PTL DEF Spec

\* While a run of a schedule is at work no other is started for it, and the schedule is
\* not marked completed, as long as statements succeed, a run ends before the wait for it
\* does, and nobody arms a schedule that the scheduler holds (inFlight.Start, the
\* claim's lease, afterScheduleTriggered); stops and crashes may come at any time.
THEOREM OverlapCorrect ==
  ASSUME Quiet, "timeout" \notin Happens
  PROVE  Spec => []NoOverlap
<1>1. OverlapInv => NoOverlap
  BY DEF OverlapInv, Together
<1> QED
  BY <1>1, OverlapInvariant, PTL

\* A once schedule starts one run per arming in a life of the process, also when the run
\* outlasts the wait for it, unless statements fail or it is edited while held: its time
\* is gone before the goroutine that follows it is (markScheduleTriggered), and a rollback
\* never brings it back.
THEOREM OnceCorrect ==
  ASSUME Quiet
  PROVE  Spec => []OnceFiresOnce
<1>1. OverlapInv => OnceFiresOnce
  <2> SUFFICES ASSUME OverlapInv, NEW s \in Schedules, row[s].exists, row[s].type = "once"
               PROVE  fired[s] <= 1
    BY DEF OnceFiresOnce
  <2>1. fired[s] = 0 \/ fired[s] = 1
    BY DEF OverlapInv, FiredRests
  <2> QED
    BY <2>1
<1> QED
  BY <1>1, OverlapInvariant, PTL

-----------------------------------------------------------------------------
(* The scheduler implements ScheduleContract, whatever fails. *)

ArmedNow == {s \in Schedules : row[s].enabled}
ClaimedNow == IF scan.pc = "dispatch" THEN {scan.sched.id} ELSE {}

\* A user arms or disarms one schedule.
LEMMA UserArms ==
  ASSUME TypeInv, NEW s \in Schedules, User(s) \/ Clock(s)
  PROVE  /\ ArmedNow' \in {ArmedNow, ArmedNow \cup {s}, ArmedNow \ {s}}
         /\ UNCHANGED <<ClaimedNow, inFlight>>
<1>1. /\ \A t \in Schedules : t # s => row'[t] = row[t]
      /\ UNCHANGED <<scan, inFlight>>
  BY UserTypes DEF memory, User, Clock, Create, Enable, Disable, Update, Delete, TimeComes,
     LeaseExpires, TypeInv, TypeOK
<1>2. UNCHANGED <<ClaimedNow, inFlight>>
  BY <1>1 DEF ClaimedNow
<1>3. CASE row'[s].enabled
  <2>1. ArmedNow' = ArmedNow \cup {s}
    BY <1>1, <1>3 DEF ArmedNow
  <2> QED
    BY <2>1, <1>2
<1>4. CASE ~row'[s].enabled
  <2>1. ArmedNow' = ArmedNow \ {s}
    BY <1>1, <1>4 DEF ArmedNow
  <2> QED
    BY <2>1, <1>2
<1> QED
  BY <1>3, <1>4

\* The scan claims what is armed and fires what it claimed, unless it is fired already.
LEMMA ScanClaims ==
  ASSUME TypeInv, Scan
  PROVE  /\ UNCHANGED ArmedNow
         /\ \/ UNCHANGED <<ClaimedNow, inFlight>>
            \/ /\ UNCHANGED inFlight
               /\ \E s \in ArmedNow \ ClaimedNow : ClaimedNow' = ClaimedNow \cup {s}
            \/ /\ UNCHANGED inFlight
               /\ \E s \in Schedules : ClaimedNow' = ClaimedNow \ {s}
            \/ \E s \in ClaimedNow \ inFlight : /\ s \in Schedules
                                                /\ ClaimedNow' = ClaimedNow \ {s}
                                                /\ inFlight' = inFlight \cup {s}
<1> USE DEF TypeInv
<1>0. /\ row \in [Schedules -> Rows] /\ TypeOK
      /\ \A d \in scan.due : d.id \in Schedules
      /\ scan.pc # "scan" => scan.sched.id \in Schedules
  BY DEF TypeOK, CarriedOK, Snapshots
<1>1. CASE CheckAndExecute
  BY <1>0, <1>1 DEF CheckAndExecute, NoScan, ArmedNow, ClaimedNow
<1>2. ASSUME NEW d \in scan.due, ClaimSchedule(d)
      PROVE  /\ UNCHANGED <<ArmedNow, inFlight>>
             /\ \/ UNCHANGED ClaimedNow
                \/ \E s \in ArmedNow \ ClaimedNow : ClaimedNow' = ClaimedNow \cup {s}
  <2>1. scan.pc = "scan" /\ UNCHANGED inFlight
    BY <1>2 DEF ClaimSchedule
  <2>2. CASE UNCHANGED row /\ scan' = [scan EXCEPT !.due = @ \ {d}]
    BY <1>0, <2>1, <2>2 DEF ArmedNow, ClaimedNow, TypeOK
  <2>3. CASE /\ row[d.id].enabled /\ row' = [row EXCEPT ![d.id].next = "lease"]
             /\ scan' = [pc |-> "dispatch", due |-> scan.due \ {d}, sched |-> d]
    <3>1. d.id \in Schedules /\ row[d.id] \in Rows
      BY <1>0
    <3>2. \A s \in Schedules : row'[s].enabled = row[s].enabled
      BY <1>0, <3>1, <2>3 DEF Rows
    <3>3. UNCHANGED ArmedNow /\ d.id \in ArmedNow
      BY <2>3, <3>1, <3>2 DEF ArmedNow
    <3>4. ClaimedNow = {} /\ ClaimedNow' = {d.id}
      BY <2>1, <2>3 DEF ClaimedNow
    <3> QED
      BY <2>1, <3>3, <3>4
  <2> QED
    BY <1>2, <2>2, <2>3 DEF ClaimSchedule
<1>3. CASE DispatchScheduledExecution
  <2>0. scan.pc = "dispatch" /\ UNCHANGED row
    BY <1>3 DEF DispatchScheduledExecution
  <2>1. ClaimedNow = {scan.sched.id} /\ UNCHANGED ArmedNow
    BY <2>0 DEF ClaimedNow, ArmedNow
  <2>2. scan'.pc # "dispatch"
    BY <1>3, <1>0 DEF DispatchScheduledExecution, Dispatch, TypeOK
  <2>3. ClaimedNow' = {}
    BY <2>2 DEF ClaimedNow
  <2>4. UNCHANGED inFlight \/ (scan.sched.id \notin inFlight /\ inFlight' = inFlight \cup {scan.sched.id})
    BY <1>3 DEF DispatchScheduledExecution, Dispatch
  <2>5. ClaimedNow' = ClaimedNow \ {scan.sched.id} /\ scan.sched.id \in Schedules
    BY <2>0, <2>1, <2>3, <1>0
  <2> QED
    BY <2>1, <2>4, <2>5
<1>4. CASE RollbackExecutionClaim
  <2>1. /\ scan.pc = "rollback" /\ UNCHANGED inFlight /\ scan'.pc = "scan"
        /\ UNCHANGED row \/ Writes(scan.sched.id, [row[scan.sched.id] EXCEPT !.next = "due"])
    BY <1>4, <1>0 DEF RollbackExecutionClaim, TypeOK
  <2>2. \A s \in Schedules : row'[s].enabled = row[s].enabled
    BY <1>0, <2>1 DEF Writes, Rows
  <2> QED
    BY <2>1, <2>2 DEF ArmedNow, ClaimedNow
<1> QED
  BY <1>1, <1>2, <1>3, <1>4 DEF Scan

\* The scheduler fires what it claimed and claims what is armed, one goroutine per
\* schedule, whatever fails and whoever edits (claimSchedule, inFlight.Start,
\* inFlight.Finish): each of its steps is one of ScheduleContract's or none.
THEOREM ContractImplemented == Spec => ImplementsContract
<1> USE DEF Contract!Arm, Contract!Disarm, Contract!Claim, Contract!Drop, Contract!Fire,
            Contract!End, Contract!Restart
<1>1. Init => Contract!Init
  BY DEF Init, Contract!Init, NoRow, NoScan
<1>2. TypeInv /\ [Next]_vars => [Contract!Next]_Contract!vars
  <2> SUFFICES ASSUME TypeInv, [Next]_vars PROVE [Contract!Next]_<<ArmedNow, ClaimedNow, inFlight>>
    BY DEF Contract!vars, ArmedNow, ClaimedNow
  <2>1. ASSUME NEW s \in Schedules, User(s) \/ Clock(s)
        PROVE  Contract!Next \/ UNCHANGED <<ArmedNow, ClaimedNow, inFlight>>
    BY <2>1, UserArms DEF Contract!Next, ArmedNow, ClaimedNow
  <2>2. CASE Scan
    BY <2>2, ScanClaims DEF Contract!Next, ArmedNow, ClaimedNow
  <2>3. ASSUME NEW w \in Workers, Step(w)
        PROVE  Contract!Next \/ UNCHANGED <<ArmedNow, ClaimedNow, inFlight>>
    <3>1. /\ UNCHANGED scan /\ Sched(w).id \in Schedules
          /\ \A s \in Schedules : s # Sched(w).id => row'[s] = row[s]
          /\ row'[Sched(w).id].enabled => row[Sched(w).id].enabled
      BY <2>3, StepTypes, StepRow DEF TypeInv, Local
    <3>2. ArmedNow' = ArmedNow \/ ArmedNow' = ArmedNow \ {Sched(w).id}
      BY <3>1 DEF ArmedNow
    <3>3. UNCHANGED ClaimedNow
      BY <3>1 DEF ClaimedNow
    <3>4. UNCHANGED inFlight \/ (UNCHANGED row /\ inFlight' = inFlight \ {Sched(w).id})
      BY <2>3 DEF Step, ExecuteTask, UpdateLastRunAt, MarkScheduleTriggered, Mark, WaitForRun,
         DetachScheduleCompletion, HandleScheduledExecutionError, RestoreCronNextRun, Untouched,
         HandleScheduledExecutionSuccess, MarkCompleted, Exit
    <3>5. UNCHANGED row => UNCHANGED ArmedNow
      BY DEF ArmedNow
    <3> QED
      BY <3>1, <3>2, <3>3, <3>4, <3>5 DEF Contract!Next, ArmedNow, ClaimedNow
  <2>4. CASE Stop \/ (\E x \in Runs : RunEnds(x)) \/ UNCHANGED vars
    <3>1. UNCHANGED <<row, scan, inFlight>>
      BY <2>4 DEF Stop, RunEnds, memory, vars
    <3> QED
      BY <3>1 DEF ArmedNow, ClaimedNow
  <2>5. CASE Crash
    <3>1. UNCHANGED row /\ scan'.pc = "scan" /\ inFlight' = {}
      BY <2>5 DEF Crash, NoScan
    <3>2. ArmedNow' = ArmedNow /\ ClaimedNow' = {}
      BY <3>1 DEF ArmedNow, ClaimedNow
    <3> QED
      BY <3>1, <3>2 DEF Contract!Next, ArmedNow, ClaimedNow
  <2> QED
    BY <2>1, <2>2, <2>3, <2>4, <2>5 DEF Next
<1> QED
  BY <1>1, <1>2, TypesCorrect, PTL DEF Spec, ImplementsContract, Contract!Spec
=============================================================================
