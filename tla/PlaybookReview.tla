---------------------------- MODULE PlaybookReview ----------------------------
(***************************************************************************)
(* How a change of a playbook's code reaches the task templates made from  *)
(* it: a sync changes the local copy of the repository; the playbooks in it *)
(* are checked and scanned; the variables found are merged with the users'; *)
(* and every task whose snapshot of the variables differs is flagged for   *)
(* review, which keeps it from running.  Syncs, scans, edits, reviews and  *)
(* status changes run side by side with no common lock.                    *)
(*                                                                         *)
(* One repository, cloned.  A sync, whether a user or the scheduler asks   *)
(* for it, is a worker that may begin at any time.  A playbook's files are *)
(* what a scan finds in them, read as one.                                 *)
(***************************************************************************)
EXTENDS Null, FiniteSets

CONSTANTS Playbooks,  \* identifiers of playbooks rows of the repository
          Tasks,      \* identifiers of execution_tasks rows
          Workers,    \* requests and goroutines at work at once
          VariableNames,  \* names of variables
          Types,      \* types of variables
          Files,      \* what may lie in the repository at a playbook's path
          Happens     \* the events this instance exhibits

EventKinds == {"crash",     \* the process dies and is started again
               "pullfail",  \* a clone or a pull fails, perhaps half way
               "overlap",   \* two writers are at work on one playbook's tasks
               "edit"}      \* a user edits a task that awaits its review

\* The variables of a playbook: the type of each, None where there is none.
Variables == [VariableNames -> Types \cup {None}]

\* What a scan finds: the same, and whether the type is stated or inferred.
Contents == [VariableNames -> [type : Types \cup {None}, sure : BOOLEAN]]

ASSUME ReviewConstants == /\ Files \subseteq Contents \cup {None}
                          /\ Happens \subseteq EventKinds
                          /\ None \notin Types \cup Contents \cup Playbooks

VARIABLES
  dir,       \* what the local copy holds at each playbook's path
  ready,     \* the repository's status is ready
  playbook,  \* the playbooks rows
  task,      \* the execution_tasks rows
  job,       \* what each worker is at
  trust      \* whether a playbook's flags are up to date (history)

vars == <<dir, ready, playbook, task, job, trust>>
copy == <<dir, ready>>
reviewed == <<playbook, task>>

NoVariables == [n \in VariableNames |-> None]

NoPlaybook == [exists |-> FALSE, status |-> "pending", vars |-> NoVariables]
NoTask == [exists |-> FALSE, playbook |-> None, snapshot |-> NoVariables, review |-> FALSE]

Places == {"idle", "pull",                            \* a sync
           "playbooks", "check", "missing",           \* its check
           "load", "read", "merge", "tasks", "flag",  \* a scan
           "online", "offline",                       \* a status change
           "vars", "save"}                            \* a task change

\* todo is the playbooks a check has left; raise, clear and save are the tasks
\* still to be written.
Jobs == [pc : Places, p : Playbooks \cup {None}, todo : SUBSET Playbooks,
         found : Files \cup {None}, fresh : BOOLEAN, vars : Variables,
         raise : SUBSET Tasks, clear : SUBSET Tasks, save : SUBSET Tasks]

IdleJob == [pc |-> "idle", p |-> None, todo |-> {}, found |-> None, fresh |-> FALSE,
            vars |-> NoVariables, raise |-> {}, clear |-> {}, save |-> {}]

TypeOK ==
  /\ dir \in [Playbooks -> Files]
  /\ ready \in BOOLEAN
  /\ playbook \in [Playbooks -> [exists : BOOLEAN, vars : Variables,
                     status : {"pending", "scanned", "ready", "invalid"}]]
  /\ task \in [Tasks -> [exists : BOOLEAN, playbook : Playbooks \cup {None},
                         snapshot : Variables, review : BOOLEAN]]
  /\ job \in [Workers -> Jobs]
  /\ trust \in [Playbooks -> {"kept", "lost", "regaining"}]

\* CreateRepo has made its first clone and left the repository ready.
Init ==
  /\ dir \in [Playbooks -> Files]
  /\ ready = TRUE
  /\ playbook = [p \in Playbooks |-> NoPlaybook]
  /\ task = [t \in Tasks |-> NoTask]
  /\ job = [w \in Workers |-> IdleJob]
  /\ trust = [p \in Playbooks |-> "kept"]
-----------------------------------------------------------------------------
(* Helpers. *)

At(w, pc) == job[w].pc = pc
Free(w) == job[w] = IdleJob
Of(p) == {t \in Tasks : task[t].exists /\ task[t].playbook = p}
Holds(w, t) == t \in job[w].raise \cup job[w].clear \cup job[w].save

\* mergeVariables: what is no longer in the code goes; a type the user keeps
\* stays, unless the enhanced configuration states another.
Merge(user, found) ==
  [n \in VariableNames |-> IF found[n].type = None THEN None
                   ELSE IF user[n] = None \/ found[n].sure THEN found[n].type
                   ELSE user[n]]

\* detectChangedVariables.
Changed(snapshot, now) == {n \in VariableNames : snapshot[n] # now[n]}

\* A worker between a change of the variables and its last flag, or between its
\* read of a row and its write.
Busy(w, p) == /\ job[w].pc \in {"tasks", "flag", "vars", "save"}
              /\ \/ job[w].p = p
                 \/ \E t \in Tasks : Holds(w, t) /\ task[t].playbook = p

Disputed(w, p) == \E v \in Workers \ {w} : Busy(v, p)
MayWrite(w, p) == Disputed(w, p) => "overlap" \in Happens

\* The history: two writers at once may leave flags wrong, until a scan that has
\* the playbook to itself has gone through its tasks.
EntersReview(w, P) == trust' = [p \in Playbooks |->
                            IF p \in P /\ (\E q \in P : Disputed(w, q)) THEN "lost"
                            ELSE trust[p]]
Rewrites(w, p) == trust' = [trust EXCEPT ![p] =
                              IF Disputed(w, p) THEN "lost"
                              ELSE IF @ = "lost" THEN "regaining" ELSE @]
Restores(p) == trust' = [trust EXCEPT ![p] = IF @ = "regaining" THEN "kept" ELSE @]

\* The end of a scan: a check goes on to its next playbook.
Scanned(j) == IF j.todo = {} THEN IdleJob
              ELSE [IdleJob EXCEPT !.pc = "check", !.todo = j.todo]
-----------------------------------------------------------------------------
(* Syncs. *)

\* SyncRepoWithTrigger, for the scheduler or a user, and runRepoSync's first step.
SyncRepo(w) ==
  /\ Free(w)
  /\ job' = [job EXCEPT ![w].pc = "pull"]
  /\ ready' = FALSE
  /\ UNCHANGED <<dir, reviewed, trust>>

\* The copy becomes what the origin holds by then, and the check starts.
Pull(w) ==
  /\ At(w, "pull")
  /\ dir' \in [Playbooks -> Files]
  /\ ready' = TRUE
  /\ job' = [job EXCEPT ![w].pc = "playbooks"]
  /\ UNCHANGED <<reviewed, trust>>

\* It may fail before, after or while it changes the working tree; nothing is checked,
\* and recordFailedSync leaves the repository in error.
PullFails(w) ==
  /\ "pullfail" \in Happens
  /\ At(w, "pull")
  /\ dir' \in [Playbooks -> Files]
  /\ ready' = FALSE
  /\ job' = [job EXCEPT ![w] = IdleJob]
  /\ UNCHANGED <<reviewed, trust>>

\* To pending or error: the service never asks again how it came about.
ResetStatus ==
  /\ ready' = FALSE
  /\ UNCHANGED <<dir, reviewed, job, trust>>
-----------------------------------------------------------------------------
(* The check of a repository's playbooks, and the scan of one. *)

ListPlaybooks(w) ==
  /\ At(w, "playbooks")
  /\ LET P == {p \in Playbooks : playbook[p].exists}
     IN  job' = [job EXCEPT ![w] = Scanned([@ EXCEPT !.todo = P])]
  /\ UNCHANGED <<copy, reviewed, trust>>

\* Mutant: a playbook in use is not scanned again.
CheckUnlessReady(w, p) ==
  /\ At(w, "check")
  /\ p \in job[w].todo
  /\ job' = [job EXCEPT ![w] =
       IF dir[p] = None THEN [@ EXCEPT !.pc = "missing", !.p = p, !.todo = @ \ {p}]
       ELSE IF playbook[p].status = "ready" THEN Scanned([@ EXCEPT !.todo = @ \ {p}])
       ELSE [@ EXCEPT !.pc = "load", !.p = p, !.todo = @ \ {p}]]
  /\ UNCHANGED <<copy, reviewed, trust>>

CheckPlaybook(w, p) ==
  /\ At(w, "check")
  /\ p \in job[w].todo
  /\ job' = [job EXCEPT ![w].pc = IF dir[p] = None THEN "missing" ELSE "load",
                        ![w].p = p, ![w].todo = @ \ {p}]
  /\ UNCHANGED <<copy, reviewed, trust>>

\* UpdateStatus, whatever the row has become; no row, no effect.
SetStatus(p, s) ==
  playbook' = [playbook EXCEPT ![p].status = IF playbook[p].exists THEN s ELSE @]

\* A playbook whose files are missing is invalid.
MarkInvalid(w) ==
  /\ At(w, "missing")
  /\ SetStatus(job[w].p, "invalid")
  /\ job' = [job EXCEPT ![w] = Scanned(@)]
  /\ UNCHANGED <<copy, task, trust>>

\* A user asks for a scan.
ScanVariables(w, p) ==
  /\ Free(w)
  /\ playbook[p].exists
  /\ job' = [job EXCEPT ![w].pc = "load", ![w].p = p]
  /\ UNCHANGED <<copy, reviewed, trust>>

LoadPlaybook(w) ==
  /\ At(w, "load")
  /\ LET row == playbook[job[w].p]
     IN  job' = [job EXCEPT ![w] =
           IF row.exists THEN [@ EXCEPT !.pc = "read", !.fresh = row.status = "pending"]
           ELSE Scanned(@)]
  /\ UNCHANGED <<copy, reviewed, trust>>

ScanFiles(w) ==
  /\ At(w, "read")
  /\ LET found == dir[job[w].p]
     IN  job' = [job EXCEPT ![w] =
           IF found # None THEN [@ EXCEPT !.pc = "merge", !.found = found]
           ELSE Scanned(@)]
  /\ UNCHANGED <<copy, reviewed, trust>>

\* PersistScanOutcome: merged under the row's lock, the status by the earlier read.
PersistScan(w) ==
  LET p == job[w].p
      merged == Merge(playbook[p].vars, job[w].found)
  IN  /\ At(w, "merge")
      /\ playbook[p].exists
      /\ MayWrite(w, p)
      /\ playbook' = [playbook EXCEPT ![p].vars = merged,
                                      ![p].status = IF job[w].fresh THEN "scanned" ELSE @]
      /\ job' = [job EXCEPT ![w].pc = "tasks", ![w].vars = merged, ![w].found = None,
                            ![w].fresh = FALSE]
      /\ Rewrites(w, p)
      /\ UNCHANGED <<copy, task>>

ScanLost(w) ==
  /\ At(w, "merge")
  /\ ~playbook[job[w].p].exists
  /\ job' = [job EXCEPT ![w] = Scanned(@)]
  /\ UNCHANGED <<copy, reviewed, trust>>

UpdateUserVariables(w, p) ==
  /\ Free(w)
  /\ playbook[p].exists
  /\ MayWrite(w, p)
  /\ \E v \in Variables :
       /\ playbook' = [playbook EXCEPT ![p].vars = v]
       /\ job' = [job EXCEPT ![w].pc = "tasks", ![w].p = p, ![w].vars = v]
  /\ Rewrites(w, p)
  /\ UNCHANGED <<copy, task>>

\* notifyRelatedTasks: the tasks are read once, then written one by one.
ListRelatedTasks(w) ==
  LET j == job[w]
      raise == {t \in Of(j.p) : Changed(task[t].snapshot, j.vars) # {}}
      clear == {t \in Of(j.p) \ raise : task[t].review}
  IN  /\ At(w, "tasks")
      /\ job' = [job EXCEPT ![w] = IF raise \cup clear = {} THEN Scanned(@)
                 ELSE [@ EXCEPT !.pc = "flag", !.raise = raise, !.clear = clear,
                                !.vars = NoVariables]]
      /\ IF raise \cup clear = {} THEN Restores(j.p) ELSE UNCHANGED trust
      /\ UNCHANGED <<copy, reviewed>>

SyncTaskReviewStatus(w, t) ==
  LET j == job[w]
      left == [j EXCEPT !.raise = @ \ {t}, !.clear = @ \ {t}]
      over == left.raise \cup left.clear = {}
  IN  /\ At(w, "flag")
      /\ t \in j.raise \cup j.clear
      /\ task' = [task EXCEPT ![t].review = IF task[t].exists THEN t \in j.raise ELSE @]
      /\ job' = [job EXCEPT ![w] = IF over THEN Scanned(left) ELSE left]
      /\ IF over THEN Restores(j.p) ELSE UNCHANGED trust
      /\ UNCHANGED <<copy, playbook>>
-----------------------------------------------------------------------------
(* Users of playbooks. *)

\* Bound: an identifier is used again once nothing refers to its old row.
CreatePlaybook(p) ==
  /\ ready
  /\ dir[p] # None
  /\ ~playbook[p].exists
  /\ \A w \in Workers : job[w].p # p /\ p \notin job[w].todo
  /\ playbook' = [playbook EXCEPT ![p] = [NoPlaybook EXCEPT !.exists = TRUE]]
  /\ trust' = [trust EXCEPT ![p] = "kept"]
  /\ UNCHANGED <<copy, task, job>>

\* The count, and the foreign key behind it.
DeletePlaybook(p) ==
  /\ playbook[p].exists
  /\ Of(p) = {}
  /\ playbook' = [playbook EXCEPT ![p] = NoPlaybook]
  /\ UNCHANGED <<copy, task, job, trust>>

\* SetReady and SetOffline read the status and write the next by another statement.
SetReady(w, p) ==
  /\ Free(w)
  /\ playbook[p].exists
  /\ playbook[p].status = "scanned"
  /\ job' = [job EXCEPT ![w].pc = "online", ![w].p = p]
  /\ UNCHANGED <<copy, reviewed, trust>>

SetOffline(w, p) ==
  /\ Free(w)
  /\ playbook[p].exists
  /\ playbook[p].status = "ready"
  /\ job' = [job EXCEPT ![w].pc = "offline", ![w].p = p]
  /\ UNCHANGED <<copy, reviewed, trust>>

WriteStatus(w) ==
  /\ job[w].pc \in {"online", "offline"}
  /\ SetStatus(job[w].p, IF At(w, "online") THEN "ready" ELSE "scanned")
  /\ job' = [job EXCEPT ![w] = IdleJob]
  /\ UNCHANGED <<copy, task, trust>>
-----------------------------------------------------------------------------
(* Users of task templates. *)

\* CreateTask reads the playbook, checks the rest and inserts the row.
\* Bound: an identifier is used again once nobody holds its old row.
CreateTask(w, t, p) ==
  /\ Free(w)
  /\ ~task[t].exists
  /\ \A v \in Workers : ~Holds(v, t)
  /\ playbook[p].exists
  /\ playbook[p].status = "ready"
  /\ MayWrite(w, p)
  /\ job' = [job EXCEPT ![w].pc = "save", ![w].p = p, ![w].save = {t},
                        ![w].fresh = TRUE, ![w].vars = playbook[p].vars]
  /\ EntersReview(w, {p})
  /\ UNCHANGED <<copy, reviewed>>

\* The row is not referred to by schedules and flows.
DeleteTask(t) ==
  /\ task[t].exists
  /\ task' = [task EXCEPT ![t] = NoTask]
  /\ UNCHANGED <<copy, playbook, job, trust>>

\* UpdateTask reads the row, and the playbook if it is another one.
UpdateTask(w, t, p) ==
  LET q == task[t].playbook
  IN  /\ Free(w)
      /\ task[t].exists
      /\ task[t].review => "edit" \in Happens
      /\ playbook[p].exists
      /\ MayWrite(w, p) /\ MayWrite(w, q)
      /\ job' = [job EXCEPT ![w].pc = IF p = q THEN "save" ELSE "vars", ![w].p = p,
                            ![w].save = {t},
                            ![w].vars = IF p = q THEN task[t].snapshot ELSE @]
      /\ EntersReview(w, {p, q})
      /\ UNCHANGED <<copy, reviewed>>

\* ConfirmReview of one flagged task, BatchConfirmReview of some of a playbook's.
ConfirmTaskReview(w, p) ==
  /\ Free(w)
  /\ MayWrite(w, p)
  /\ \E S \in SUBSET {t \in Of(p) : task[t].review} \ {{}} :
       job' = [job EXCEPT ![w].pc = "vars", ![w].p = p, ![w].save = S]
  /\ EntersReview(w, {p})
  /\ UNCHANGED <<copy, reviewed>>

LoadVariables(w) ==
  /\ At(w, "vars")
  /\ LET row == playbook[job[w].p]
     IN  job' = [job EXCEPT ![w] =
           IF row.exists THEN [@ EXCEPT !.pc = "save", !.vars = row.vars] ELSE IdleJob]
  /\ UNCHANGED <<copy, reviewed, trust>>

\* Mutant: the review is lifted and the snapshot left as it is.
SaveOldSnapshot(w, t) ==
  LET j == job[w]
      left == [j EXCEPT !.save = @ \ {t}]
  IN  /\ At(w, "save")
      /\ t \in j.save
      /\ task' = IF (j.fresh \/ task[t].exists) /\ playbook[j.p].exists
                 THEN [task EXCEPT ![t] = [exists |-> TRUE, playbook |-> j.p, review |-> FALSE,
                                           snapshot |-> IF j.fresh THEN j.vars ELSE @.snapshot]]
                 ELSE task
      /\ job' = [job EXCEPT ![w] = IF left.save = {} THEN IdleJob ELSE left]
      /\ UNCHANGED <<copy, playbook, trust>>

\* The whole row is written as it was read, but for the snapshot and the review,
\* which is never left standing.  A row of a playbook that is gone is refused.
SaveTask(w, t) ==
  LET j == job[w]
      left == [j EXCEPT !.save = @ \ {t}]
  IN  /\ At(w, "save")
      /\ t \in j.save
      /\ task' = IF (j.fresh \/ task[t].exists) /\ playbook[j.p].exists
                 THEN [task EXCEPT ![t] = [exists |-> TRUE, playbook |-> j.p,
                                           snapshot |-> j.vars, review |-> FALSE]]
                 ELSE task
      /\ job' = [job EXCEPT ![w] = IF left.save = {} THEN IdleJob ELSE left]
      /\ UNCHANGED <<copy, playbook, trust>>
-----------------------------------------------------------------------------
Crash ==
  /\ "crash" \in Happens
  /\ job' = [w \in Workers |-> IdleJob]
  /\ trust' = [p \in Playbooks |->
                 IF \E w \in Workers : Busy(w, p) THEN "lost" ELSE trust[p]]
  /\ UNCHANGED <<copy, reviewed>>

User == \/ ResetStatus
        \/ \E t \in Tasks : DeleteTask(t)
        \/ \E p \in Playbooks : CreatePlaybook(p) \/ DeletePlaybook(p)
        \/ \E w \in Workers :
             \E p \in Playbooks :
               \/ ScanVariables(w, p)
               \/ UpdateUserVariables(w, p)
               \/ SetReady(w, p)
               \/ SetOffline(w, p)
               \/ ConfirmTaskReview(w, p)
               \/ \E t \in Tasks : CreateTask(w, t, p) \/ UpdateTask(w, t, p)

Sync == \E w \in Workers : SyncRepo(w)

Step(w) == \/ Pull(w)
           \/ PullFails(w)
           \/ ListPlaybooks(w)
           \/ \E p \in Playbooks : CheckPlaybook(w, p)
           \/ MarkInvalid(w)
           \/ LoadPlaybook(w)
           \/ ScanFiles(w)
           \/ PersistScan(w)
           \/ ScanLost(w)
           \/ ListRelatedTasks(w)
           \/ WriteStatus(w)
           \/ LoadVariables(w)
           \/ \E t \in Tasks : SyncTaskReviewStatus(w, t) \/ SaveTask(w, t)

Next == \/ User
        \/ Sync
        \/ \E w \in Workers : Step(w)
        \/ Crash

Spec == Init /\ [][Next]_vars

\* Workers are scheduled, and syncs come again: the scheduler's interval or, once it
\* paused the repository for its failures, a user's request.
FairSpec == /\ Spec
            /\ WF_vars(Sync)
            /\ \A w \in Workers : WF_vars(Step(w))
-----------------------------------------------------------------------------
(* What a change of the code must do to the tasks made from it. *)

\* ExecuteTask lets a task run.
Executable(t) == task[t].exists /\ ~task[t].review /\ playbook[task[t].playbook].status = "ready"

Drifted(t) == Changed(task[t].snapshot, playbook[task[t].playbook].vars) # {}

\* A task whose playbook's variables are not those it was made for does not run
\* before a review, as long as the writers of its playbook took turns since the
\* last full scan (notifyRelatedTasks, ConfirmReview, UpdateTask, ExecuteTask).
DriftIsFlagged ==
  \A t \in Tasks : task[t].exists =>
    LET p == task[t].playbook
    IN  trust[p] = "kept" /\ (\A w \in Workers : ~Busy(w, p)) =>
          ~(Executable(t) /\ Drifted(t))

\* From some moment on users rest, the origin stays as it is, and nothing fails.
Quiet == <>[][/\ dir' = dir
              /\ ~User /\ ~Crash
              /\ \A w \in Workers : ~PullFails(w)]_vars

\* Whatever flags a race of writers, a crash or a failed pull left wrong, the next syncs
\* put right: every drifted task ends up kept from running, and a playbook whose file is
\* gone invalid, even if it was being set ready (markPlaybookInvalidIfMissing, SetReady).
FlagsSettle ==
  Quiet =>
    /\ \A t \in Tasks : <>[](task[t].exists => ~(Executable(t) /\ Drifted(t)))
    /\ \A p \in Playbooks :
         <>[](playbook[p].exists /\ dir[p] = None => playbook[p].status = "invalid")
=============================================================================
