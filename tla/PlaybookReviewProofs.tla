-------------------------- MODULE PlaybookReviewProofs --------------------------
(***************************************************************************)
(* Theorems about PlaybookReview: with any numbers of playbooks, tasks and  *)
(* workers no task runs whose playbook's variables are not those it was    *)
(* made for, unless a user edits a task that awaits its review.            *)
(***************************************************************************)
EXTENDS PlaybookReview, TLAPS

\* The places of a worker between a change of the variables and its last flag, or
\* between its read of a row and its write.
Writing == {"tasks", "flag", "vars", "save"}

\* A task's playbook is there: the foreign key, and the count of DeletePlaybook.
TaskFits(t) ==
  IF task[t].exists
  THEN task[t].playbook \in Playbooks /\ playbook[task[t].playbook].exists
  ELSE task[t] = NoTask

\* What a worker carries goes with its place; nobody else has the task it creates.
JobFits(j) ==
  /\ j.pc \notin {"idle", "pull", "playbooks", "check"} => j.p \in Playbooks
  /\ j.pc # "flag" => j.raise = {} /\ j.clear = {}
  /\ j.pc \notin {"vars", "save"} => j.save = {}
  /\ j.pc = "merge" => j.found \in Contents
  /\ j.pc = "vars" => ~j.fresh

CreationFits(w) ==
  job[w].pc = "save" /\ job[w].fresh =>
    \A t \in job[w].save : ~task[t].exists /\ \A v \in Workers \ {w} : ~Holds(v, t)

\* A drifted task that is not flagged, and a worker that is about to flag it.
Exposed(t) == /\ task[t].snapshot # playbook[task[t].playbook].vars
              /\ ~task[t].review
Owns(w, p) == job[w].pc \in Writing /\ job[w].p = p
Catches(w, t) == \/ job[w].pc = "tasks"
                 \/ job[w].pc = "flag" /\ t \in job[w].raise

\* Of a playbook whose writers took turns:

\* - whoever is at work on it is alone;
Alone(p) == \A w \in Workers : Owns(w, p) => ~Disputed(w, p)

\* - a task that should be flagged will be;
Caught(p) == \A t \in Of(p) : Exposed(t) => \E w \in Workers : Owns(w, p) /\ Catches(w, t)

\* - a flag about to be taken away is not needed;
ClearsTrue(p) ==
  \A w \in Workers : job[w].pc = "flag" =>
    \A t \in job[w].clear \cap Of(p) : task[t].snapshot = playbook[p].vars

\* - the variables a worker has read or written are those of the row;
CopiesTrue(p) ==
  \A w \in Workers : Owns(w, p) /\ job[w].pc \in {"tasks", "save"} /\ playbook[p].exists =>
    job[w].vars = playbook[p].vars

\* - a scan has it to itself, and is on its way through the tasks;
Regains(p) ==
  trust[p] = "regaining" => \E w \in Workers : Owns(w, p) /\ job[w].pc \in {"tasks", "flag"}

\* - only a task that is saved alone changes its playbook.
SavesFit(p) ==
  \A w \in Workers : Owns(w, p) /\ job[w].pc \in {"vars", "save"} =>
    \A t \in job[w].save : job[w].save # {t} =>
      ~job[w].fresh /\ (task[t].exists => task[t].playbook = p)

Kept(p) == /\ Alone(p)
           /\ Caught(p)
           /\ ClearsTrue(p)
           /\ CopiesTrue(p)
           /\ Regains(p)
           /\ SavesFit(p)

RowsFit == /\ \A t \in Tasks : TaskFits(t)
           /\ \A w \in Workers : JobFits(job[w]) /\ CreationFits(w)

DriftInv == /\ TypeOK
            /\ RowsFit
            /\ \A p \in Playbooks : trust[p] # "lost" => Kept(p)

LEMMA MergeTyped ==
  ASSUME NEW user \in Variables, NEW found \in Contents
  PROVE  Merge(user, found) \in Variables
BY DEF Merge, Variables, Contents

LEMMA ChangedIs ==
  ASSUME NEW a \in Variables, NEW b \in Variables
  PROVE  Changed(a, b) = {} <=> a = b
BY DEF Changed, Variables

-----------------------------------------------------------------------------
(* Steps that leave the tasks, their variables and the writers alone. *)

PlaybooksOK == playbook \in [Playbooks -> [exists : BOOLEAN, vars : Variables,
                                status : {"pending", "scanned", "ready", "invalid"}]]

SameRows == /\ task' = task
            /\ \A p \in Playbooks : /\ playbook'[p].exists = playbook[p].exists
                                    /\ playbook'[p].vars = playbook[p].vars

\* A worker that was not writing goes where it is not writing.
LEMMA OthersKeep ==
  ASSUME DriftInv, SameRows, trust' = trust,
         dir' \in [Playbooks -> Files], ready' \in BOOLEAN, PlaybooksOK',
         NEW w \in Workers, NEW j \in Jobs, job' = [job EXCEPT ![w] = j],
         JobFits(j), job[w].pc \notin Writing, j.pc \notin Writing
  PROVE  DriftInv'
<1>1. TypeOK'
  BY DEF DriftInv, TypeOK, PlaybooksOK, SameRows
<1>2. /\ job'[w] = j
      /\ \A v \in Workers \ {w} : job'[v] = job[v]
  BY DEF DriftInv, TypeOK
<1>3. \A t \in Tasks : TaskFits(t)'
  BY DEF DriftInv, RowsFit, TaskFits, SameRows
<1>4. /\ j.raise = {} /\ j.clear = {} /\ j.save = {}
      /\ job[w].raise = {} /\ job[w].clear = {} /\ job[w].save = {}
  BY DEF DriftInv, RowsFit, JobFits, Writing
<1>5. \A v \in Workers, t \in Tasks : Holds(v, t)' <=> Holds(v, t)
  BY <1>2, <1>4 DEF Holds
<1>6. \A v \in Workers : JobFits(job[v])'
  BY <1>2 DEF DriftInv, RowsFit, JobFits
<1>7. \A v \in Workers : CreationFits(v)'
  <2> SUFFICES ASSUME NEW v \in Workers, (job[v].pc = "save")', job[v].fresh',
                      NEW t \in job'[v].save
               PROVE  ~task'[t].exists /\ \A u \in Workers \ {v} : ~Holds(u, t)'
    BY DEF CreationFits
  <2>1. v # w
    BY <1>2 DEF Writing
  <2>2. t \in Tasks
    BY <1>2, <2>1 DEF DriftInv, TypeOK, Jobs
  <2> QED
    BY <1>2, <1>5, <2>1, <2>2 DEF DriftInv, RowsFit, CreationFits, SameRows
<1>8. \A p \in Playbooks : trust'[p] # "lost" => Kept(p)'
  <2> SUFFICES ASSUME NEW p \in Playbooks, trust'[p] # "lost"
               PROVE  Kept(p)'
    OBVIOUS
  <2>1. Kept(p)
    BY DEF DriftInv
  <2>2. \A v \in Workers : /\ Owns(v, p)' <=> Owns(v, p)
                           /\ Busy(v, p)' <=> Busy(v, p)
    BY <1>2, <1>4, <1>5 DEF Owns, Busy, Writing, SameRows
  <2>3. Of(p)' = Of(p)
    BY DEF Of, SameRows
  <2>4. Alone(p)'
    BY <2>1, <2>2 DEF Kept, Alone, Disputed
  <2>5. Caught(p)'
    <3> SUFFICES ASSUME NEW t \in Of(p), Exposed(t)'
                 PROVE  \E v \in Workers : Owns(v, p)' /\ Catches(v, t)'
      BY <2>3 DEF Caught
    <3>1. Exposed(t)
      BY DEF Exposed, SameRows, Of
    <3>2. PICK v \in Workers : Owns(v, p) /\ Catches(v, t)
      BY <2>1, <3>1 DEF Kept, Caught
    <3> QED
      BY <1>2, <2>2, <3>2 DEF Owns, Catches
  <2>6. ClearsTrue(p)'
    BY <1>2, <1>4, <2>1, <2>3 DEF Kept, ClearsTrue, SameRows
  <2>7. CopiesTrue(p)'
    BY <1>2, <2>1 DEF Kept, CopiesTrue, SameRows, Owns, Writing
  <2>8. Regains(p)'
    BY <1>2, <2>1 DEF Kept, Regains, Owns, Writing
  <2>9. SavesFit(p)'
    BY <1>2, <2>1 DEF Kept, SavesFit, SameRows, Owns, Writing
  <2> QED
    BY <2>4, <2>5, <2>6, <2>7, <2>8, <2>9 DEF Kept
<1> QED
  BY <1>1, <1>3, <1>6, <1>7, <1>8 DEF DriftInv, RowsFit
-----------------------------------------------------------------------------
(* Steps of one writer that leave the tasks alone. *)

\* The rows and the workers fit, whatever the writer takes up.
LEMMA RowsKeep ==
  ASSUME DriftInv, task' = task, NEW w \in Workers, NEW j \in Jobs, job' = [job EXCEPT ![w] = j],
         \A p \in Playbooks : playbook'[p].exists = playbook[p].exists,
         JobFits(j),
         \A t \in j.raise \cup j.clear \cup j.save :
           Holds(w, t) \/ task[t].exists \/ \A v \in Workers \ {w} : ~Holds(v, t),
         j.pc = "save" /\ j.fresh =>
           \A t \in j.save : ~task[t].exists /\ \A v \in Workers \ {w} : ~Holds(v, t)
  PROVE  RowsFit'
<1>1. /\ job'[w] = j
      /\ \A v \in Workers \ {w} : job'[v] = job[v]
  BY DEF DriftInv, TypeOK
<1>2. \A t \in Tasks : TaskFits(t)'
  BY DEF DriftInv, RowsFit, TaskFits
<1>3. \A v \in Workers : JobFits(job[v])'
  BY <1>1 DEF DriftInv, RowsFit, JobFits
<1>4. \A v \in Workers \ {w}, t \in Tasks : Holds(v, t)' <=> Holds(v, t)
  BY <1>1 DEF Holds
<1>5. \A v \in Workers : CreationFits(v)'
  <2> SUFFICES ASSUME NEW v \in Workers, (job[v].pc = "save")', job[v].fresh',
                      NEW t \in job'[v].save
               PROVE  ~task'[t].exists /\ \A u \in Workers \ {v} : ~Holds(u, t)'
    BY DEF CreationFits
  <2>1. t \in Tasks
    BY <1>1 DEF DriftInv, TypeOK, Jobs
  <2>2. CASE v = w
    BY <1>1, <1>4, <2>1, <2>2
  <2>3. CASE v # w
    <3>1. ~task[t].exists /\ \A u \in Workers \ {v} : ~Holds(u, t)
      BY <1>1, <2>3 DEF DriftInv, RowsFit, CreationFits
    <3>2. Holds(v, t)
      BY <1>1, <2>3 DEF Holds
    <3>3. ~Holds(w, t)'
      BY <1>1, <2>3, <3>1, <3>2 DEF Holds
    <3> QED
      BY <1>4, <2>1, <3>1, <3>3
  <2> QED
    BY <2>2, <2>3
<1> QED
  BY <1>2, <1>3, <1>5 DEF RowsFit

\* A playbook that the writer has nothing to do with.
LEMMA ElsewhereKept ==
  ASSUME DriftInv, task' = task, NEW w \in Workers, NEW j \in Jobs, job' = [job EXCEPT ![w] = j],
         NEW p \in Playbooks, playbook'[p].exists = playbook[p].exists,
         playbook'[p].vars = playbook[p].vars, trust'[p] = trust[p], trust[p] # "lost",
         ~Owns(w, p), j.pc \in Writing => j.p # p, j.clear \cap Of(p) = {},
         \A t \in j.raise \cup j.clear \cup j.save : t \notin Of(p) \/ Holds(w, t)
  PROVE  Kept(p)'
<1>1. /\ job'[w] = j
      /\ \A v \in Workers \ {w} : job'[v] = job[v]
  BY DEF DriftInv, TypeOK
<1>2. Kept(p)
  BY DEF DriftInv
<1>3. Of(p)' = Of(p)
  BY DEF Of
<1>4. \A v \in Workers \ {w} : /\ Owns(v, p)' <=> Owns(v, p)
                              /\ Busy(v, p)' <=> Busy(v, p)
  BY <1>1 DEF Owns, Busy, Holds
<1>5. ~Owns(w, p)'
  BY <1>1 DEF Owns
<1>6. Busy(w, p)' => Busy(w, p)
  <2> SUFFICES ASSUME j.pc \in Writing, NEW t \in Tasks, Holds(w, t)', task[t].playbook = p
               PROVE  Busy(w, p)
    BY <1>1 DEF Busy, Writing
  <2>1. t \in j.raise \cup j.clear \cup j.save
    BY <1>1 DEF Holds
  <2>2. t \in Of(p)
    BY ReviewConstants DEF DriftInv, RowsFit, TaskFits, NoTask, Of
  <2> QED
    BY <2>1, <2>2 DEF DriftInv, RowsFit, JobFits, Busy, Holds
<1>7. Alone(p)'
  BY <1>2, <1>4, <1>5, <1>6 DEF Kept, Alone, Disputed, Owns
<1>8. Caught(p)'
  <2> SUFFICES ASSUME NEW t \in Of(p), Exposed(t)'
               PROVE  \E v \in Workers : Owns(v, p)' /\ Catches(v, t)'
    BY <1>3 DEF Caught
  <2>1. Exposed(t)
    BY DEF Exposed, Of
  <2>2. PICK v \in Workers : Owns(v, p) /\ Catches(v, t)
    BY <1>2, <2>1 DEF Kept, Caught
  <2> QED
    BY <1>1, <1>4, <2>2 DEF Catches, Owns
<1>9. ClearsTrue(p)'
  BY <1>1, <1>2, <1>3 DEF Kept, ClearsTrue
<1>10. CopiesTrue(p)'
  BY <1>1, <1>2, <1>4, <1>5 DEF Kept, CopiesTrue, Owns
<1>11. Regains(p)'
  BY <1>1, <1>2, <1>4 DEF Kept, Regains, Owns
<1>12. SavesFit(p)'
  BY <1>1, <1>2, <1>4, <1>5 DEF Kept, SavesFit, Owns
<1> QED
  BY <1>7, <1>8, <1>9, <1>10, <1>11, <1>12 DEF Kept

\* A playbook that the writer alone is at work on, and stays at work on.
LEMMA OwnerKeeps ==
  ASSUME DriftInv, task' = task, NEW w \in Workers, NEW j \in Jobs, job' = [job EXCEPT ![w] = j],
         NEW p \in Playbooks, ~Disputed(w, p), j.pc \in Writing, j.p = p, TypeOK',
         j.pc \in {"tasks", "save"} /\ playbook'[p].exists => j.vars = playbook'[p].vars,
         trust'[p] = "regaining" => j.pc \in {"tasks", "flag"},
         \A t \in Of(p) : Exposed(t)' => j.pc = "tasks" \/ (j.pc = "flag" /\ t \in j.raise),
         j.pc = "flag" => \A t \in j.clear \cap Of(p) : task[t].snapshot = playbook'[p].vars,
         j.pc \in {"vars", "save"} => \A t \in j.save : j.save # {t} =>
           ~j.fresh /\ (task[t].exists => task[t].playbook = p)
  PROVE  Kept(p)'
<1>1. /\ job'[w] = j
      /\ \A v \in Workers \ {w} : job'[v] = job[v]
  BY DEF DriftInv, TypeOK
<1>2. Of(p)' = Of(p)
  BY DEF Of
<1>3. \A v \in Workers \ {w} : ~Busy(v, p) /\ ~Busy(v, p)' /\ ~Owns(v, p)'
  BY <1>1 DEF Disputed, Busy, Owns, Holds, Writing
<1>4. Owns(w, p)'
  BY <1>1 DEF Owns
<1>5. Alone(p)'
  BY <1>3 DEF Alone, Disputed
<1>6. Caught(p)'
  BY <1>1, <1>2, <1>4 DEF Caught, Catches
<1>7. ClearsTrue(p)'
  <2> SUFFICES ASSUME NEW v \in Workers, v # w, job[v].pc = "flag", NEW t \in job[v].clear, t \in Of(p)
               PROVE  FALSE
    BY <1>1, <1>2 DEF ClearsTrue
  <2>1. Holds(v, t) /\ t \in Tasks /\ task[t].playbook = p
    BY DEF Holds, Of
  <2> QED
    BY <1>3, <2>1 DEF Busy
<1>8. CopiesTrue(p)'
  BY <1>1, <1>3 DEF CopiesTrue
<1>9. Regains(p)'
  BY <1>1, <1>4 DEF Regains
<1>10. SavesFit(p)'
  BY <1>1, <1>3 DEF SavesFit
<1> QED
  BY <1>5, <1>6, <1>7, <1>8, <1>9, <1>10 DEF Kept
-----------------------------------------------------------------------------
(* Syncs, checks, the first steps of a scan, and changes of a status. *)

LEMMA IdleJobTyped == IdleJob \in Jobs /\ JobFits(IdleJob)
BY DEF IdleJob, Jobs, Places, NoVariables, Variables, JobFits

LEMMA FreeIs ==
  ASSUME NEW w \in Workers, Free(w)
  PROVE  /\ job[w].pc = "idle" /\ ~job[w].fresh
         /\ job[w].raise = {} /\ job[w].clear = {} /\ job[w].save = {}
BY DEF Free, IdleJob

LEMMA ScannedFits ==
  ASSUME NEW j \in Jobs
  PROVE  Scanned(j) \in Jobs /\ JobFits(Scanned(j)) /\ Scanned(j).pc \notin Writing
<1>1. [IdleJob EXCEPT !.pc = "check", !.todo = j.todo] \in Jobs
  BY IdleJobTyped DEF Jobs, Places
<1> QED
  BY <1>1, IdleJobTyped DEF Scanned, IdleJob, JobFits, Writing

\* SetStatus changes no more than a status.
LEMMA StatusKeeps ==
  ASSUME TypeOK, NEW p \in Playbooks, NEW s \in {"pending", "scanned", "ready", "invalid"},
         SetStatus(p, s), task' = task
  PROVE  PlaybooksOK' /\ SameRows
BY DEF TypeOK, SetStatus, PlaybooksOK, SameRows

LEMMA ResetKeeps == DriftInv /\ ResetStatus => DriftInv'
<1> SUFFICES ASSUME DriftInv, ResetStatus
             PROVE  DriftInv'
  OBVIOUS
<1>1. TypeOK'
  BY DEF DriftInv, TypeOK, ResetStatus, reviewed
<1>2. RowsFit'
  BY DEF DriftInv, ResetStatus, reviewed, RowsFit, TaskFits, CreationFits, Holds
<1>3. \A p \in Playbooks : trust'[p] # "lost" => Kept(p)'
  <2> SUFFICES ASSUME NEW p \in Playbooks, trust[p] # "lost"
               PROVE  Kept(p)'
    BY DEF ResetStatus
  <2>1. Kept(p)
    BY DEF DriftInv
  <2>2. Alone(p)' /\ Regains(p)'
    BY <2>1 DEF Kept, Alone, Regains, Owns, Disputed, Busy, Holds, ResetStatus, reviewed
  <2>3. Caught(p)'
    BY <2>1 DEF Kept, Caught, Of, Exposed, Owns, Catches, ResetStatus, reviewed
  <2>4. ClearsTrue(p)' /\ CopiesTrue(p)' /\ SavesFit(p)'
    BY <2>1 DEF Kept, ClearsTrue, CopiesTrue, SavesFit, Of, Owns, ResetStatus, reviewed
  <2> QED
    BY <2>2, <2>3, <2>4 DEF Kept
<1> QED
  BY <1>1, <1>2, <1>3 DEF DriftInv

\* The steps of a worker that is not writing, of which only its place and a status change.
Aside(w) == \/ SyncRepo(w)
            \/ Pull(w)
            \/ PullFails(w)
            \/ ListPlaybooks(w)
            \/ \E p \in Playbooks : \/ CheckPlaybook(w, p)
                                  \/ ScanVariables(w, p)
                                  \/ SetReady(w, p)
                                  \/ SetOffline(w, p)
            \/ MarkInvalid(w)
            \/ LoadPlaybook(w)
            \/ ScanFiles(w)
            \/ ScanLost(w)
            \/ WriteStatus(w)

LEMMA AsideKeeps ==
  ASSUME DriftInv, NEW w \in Workers, Aside(w)
  PROVE  DriftInv'
<1> DEFINE Goes(j) == /\ j \in Jobs
                      /\ job' = [job EXCEPT ![w] = j]
                      /\ JobFits(j)
                      /\ job[w].pc \notin Writing
                      /\ j.pc \notin Writing
           Stays == /\ SameRows
                    /\ trust' = trust
                    /\ dir' \in [Playbooks -> Files]
                    /\ ready' \in BOOLEAN
                    /\ PlaybooksOK'
           Result == Stays /\ \E j : Goes(j)
<1> USE DEF Writing
<1>0. /\ job \in [Workers -> Jobs]
      /\ job[w] \in Jobs
      /\ JobFits(job[w])
      /\ dir \in [Playbooks -> Files] /\ ready \in BOOLEAN
  BY DEF DriftInv, TypeOK, RowsFit
<1>00. playbook' = playbook /\ task' = task => PlaybooksOK' /\ SameRows
  BY DEF DriftInv, TypeOK, PlaybooksOK, SameRows
<1> HIDE DEF Stays, Goes
<1>1. ASSUME SyncRepo(w) PROVE Result
  <2>1. Goes([job[w] EXCEPT !.pc = "pull"])
    BY <1>0, <1>1, FreeIs DEF SyncRepo, Goes, Jobs, Places, JobFits
  <2>2. Stays
    BY <1>0, <1>00, <1>1 DEF SyncRepo, Stays, reviewed
  <2> QED
    BY <2>1, <2>2
<1>2. ASSUME Pull(w) PROVE Result
  <2>1. Goes([job[w] EXCEPT !.pc = "playbooks"])
    BY <1>0, <1>2 DEF Pull, Goes, At, Jobs, Places, JobFits
  <2>2. Stays
    BY <1>0, <1>00, <1>2 DEF Pull, Stays, reviewed
  <2> QED
    BY <2>1, <2>2
<1>3. ASSUME PullFails(w) PROVE Result
  <2>1. Goes(IdleJob)
    BY <1>0, <1>3, IdleJobTyped DEF PullFails, Goes, At, IdleJob
  <2>2. Stays
    BY <1>0, <1>00, <1>3 DEF PullFails, Stays, reviewed
  <2> QED
    BY <2>1, <2>2
<1>4. ASSUME ListPlaybooks(w) PROVE Result
  <2> DEFINE P == {p \in Playbooks : playbook[p].exists}
             k == [job[w] EXCEPT !.todo = P]
  <2>1. k \in Jobs
    BY <1>0 DEF Jobs
  <2>2. Goes(Scanned(k))
    BY <1>0, <1>4, <2>1, ScannedFits DEF ListPlaybooks, Goes, At
  <2>3. Stays
    BY <1>0, <1>00, <1>4 DEF ListPlaybooks, Stays, reviewed, copy
  <2> QED
    BY <2>2, <2>3
<1>5. ASSUME NEW p \in Playbooks,
             CheckPlaybook(w, p) \/ ScanVariables(w, p) \/ SetReady(w, p) \/ SetOffline(w, p)
      PROVE  Result
  <2>1. Stays
    BY <1>0, <1>00, <1>5 DEF CheckPlaybook, ScanVariables, SetReady, SetOffline, Stays, reviewed, copy
  <2>2. CASE CheckPlaybook(w, p)
    <3> DEFINE k == [job[w] EXCEPT !.pc = IF dir[p] = None THEN "missing" ELSE "load",
                                   !.p = p, !.todo = @ \ {p}]
    <3>1. k \in Jobs
      BY <1>0 DEF Jobs, Places
    <3>2. JobFits(k)
      BY <1>0, <2>2 DEF JobFits, CheckPlaybook, At, Jobs
    <3>3. Goes(k)
      BY <1>0, <2>2, <3>1, <3>2 DEF CheckPlaybook, Goes, At, Jobs
    <3> QED
      BY <2>1, <3>3
  <2>3. CASE ScanVariables(w, p)
    <3>1. Goes([job[w] EXCEPT !.pc = "load", !.p = p])
      BY <1>0, <2>3, FreeIs DEF ScanVariables, Goes, Jobs, Places, JobFits
    <3> QED
      BY <2>1, <3>1
  <2>4. CASE SetReady(w, p)
    <3>1. Goes([job[w] EXCEPT !.pc = "online", !.p = p])
      BY <1>0, <2>4, FreeIs DEF SetReady, Goes, Jobs, Places, JobFits
    <3> QED
      BY <2>1, <3>1
  <2>5. CASE SetOffline(w, p)
    <3>1. Goes([job[w] EXCEPT !.pc = "offline", !.p = p])
      BY <1>0, <2>5, FreeIs DEF SetOffline, Goes, Jobs, Places, JobFits
    <3> QED
      BY <2>1, <3>1
  <2> QED
    BY <1>5, <2>2, <2>3, <2>4, <2>5
<1>6. ASSUME MarkInvalid(w) PROVE Result
  <2>1. Goes(Scanned(job[w]))
    BY <1>0, <1>6, ScannedFits DEF MarkInvalid, Goes, At
  <2>2. job[w].p \in Playbooks
    BY <1>0, <1>6 DEF MarkInvalid, At, JobFits
  <2>3. PlaybooksOK' /\ SameRows
    BY <1>6, <2>2, StatusKeeps DEF MarkInvalid, DriftInv
  <2>4. Stays
    BY <1>0, <1>6, <2>3 DEF MarkInvalid, Stays, copy
  <2> QED
    BY <2>1, <2>4
<1>7. ASSUME LoadPlaybook(w) PROVE Result
  <2> DEFINE fresh == playbook[job[w].p].status = "pending"
             k == [job[w] EXCEPT !.pc = "read", !.fresh = fresh]
  <2>1. k \in Jobs /\ JobFits(k)
    BY <1>0, <1>7 DEF LoadPlaybook, At, Jobs, Places, JobFits
  <2>2. Goes(k) \/ Goes(Scanned(job[w]))
    BY <1>0, <1>7, <2>1, ScannedFits DEF LoadPlaybook, Goes, At, Jobs
  <2>3. Stays
    BY <1>0, <1>00, <1>7 DEF LoadPlaybook, Stays, reviewed, copy
  <2> QED
    BY <2>2, <2>3
<1>8. ASSUME ScanFiles(w) PROVE Result
  <2> DEFINE found == dir[job[w].p]
             k == [job[w] EXCEPT !.pc = "merge", !.found = found]
  <2>1. job[w].p \in Playbooks
    BY <1>0, <1>8 DEF ScanFiles, At, JobFits
  <2>2. found # None => found \in Files /\ found \in Contents
    BY <1>0, <2>1, ReviewConstants
  <2>3. found # None => k \in Jobs /\ JobFits(k)
    BY <1>0, <1>8, <2>2 DEF ScanFiles, At, Jobs, Places, JobFits
  <2>4. Goes(k) \/ Goes(Scanned(job[w]))
    BY <1>0, <1>8, <2>3, ScannedFits DEF ScanFiles, Goes, At, Jobs
  <2>5. Stays
    BY <1>0, <1>00, <1>8 DEF ScanFiles, Stays, reviewed, copy
  <2> QED
    BY <2>4, <2>5
<1>9. ASSUME ScanLost(w) PROVE Result
  <2>1. Goes(Scanned(job[w]))
    BY <1>0, <1>9, ScannedFits DEF ScanLost, Goes, At
  <2>2. Stays
    BY <1>0, <1>00, <1>9 DEF ScanLost, Stays, reviewed, copy
  <2> QED
    BY <2>1, <2>2
<1>10. ASSUME WriteStatus(w) PROVE Result
  <2>1. Goes(IdleJob)
    BY <1>0, <1>10, IdleJobTyped DEF WriteStatus, Goes, IdleJob
  <2>2. job[w].p \in Playbooks
    BY <1>0, <1>10 DEF WriteStatus, JobFits
  <2>3. PlaybooksOK' /\ SameRows
    BY <1>10, <2>2, StatusKeeps DEF WriteStatus, DriftInv
  <2>4. Stays
    BY <1>0, <1>10, <2>3 DEF WriteStatus, Stays, copy
  <2> QED
    BY <2>1, <2>4
<1>11. Result
  BY <1>1, <1>2, <1>3, <1>4, <1>5, <1>6, <1>7, <1>8, <1>9, <1>10 DEF Aside
<1>12. PICK j : Goes(j)
  BY <1>11
<1> QED
  BY <1>11, <1>12, OthersKeep DEF Goes, Stays
-----------------------------------------------------------------------------
(* What becomes of the history. *)

Trusts == {"kept", "lost", "regaining"}

LEMMA RewriteIs ==
  ASSUME TypeOK, NEW w \in Workers, NEW p \in Playbooks, Rewrites(w, p)
  PROVE  /\ trust' \in [Playbooks -> Trusts]
         /\ \A q \in Playbooks \ {p} : trust'[q] = trust[q]
         /\ trust'[p] # "lost" => ~Disputed(w, p)
BY DEF TypeOK, Rewrites, Trusts

LEMMA RestoreIs ==
  ASSUME TypeOK, NEW p \in Playbooks, Restores(p)
  PROVE  /\ trust' \in [Playbooks -> Trusts]
         /\ \A q \in Playbooks \ {p} : trust'[q] = trust[q]
         /\ trust'[p] # "regaining"
         /\ trust'[p] # "lost" => trust[p] # "lost"
BY DEF TypeOK, Restores, Trusts

LEMMA EntryIs ==
  ASSUME TypeOK, NEW w \in Workers, NEW P \in SUBSET Playbooks, EntersReview(w, P)
  PROVE  /\ trust' \in [Playbooks -> Trusts]
         /\ \A q \in Playbooks : trust'[q] # "lost" =>
              /\ trust'[q] = trust[q]
              /\ q \in P => \A r \in P : ~Disputed(w, r)
BY DEF TypeOK, EntersReview, Trusts

\* A playbook that nobody is at work on: none of its tasks is exposed, nothing is regained.
LEMMA RestIsSafe ==
  ASSUME NEW p \in Playbooks, Kept(p), \A w \in Workers : ~Owns(w, p)
  PROVE  /\ \A t \in Of(p) : ~Exposed(t)
         /\ trust[p] # "regaining"
BY DEF Kept, Caught, Regains

LEMMA UndisputedAlone ==
  ASSUME NEW w \in Workers, NEW p \in Playbooks, ~Disputed(w, p)
  PROVE  \A v \in Workers \ {w} : ~Busy(v, p) /\ ~Owns(v, p)
BY DEF Disputed, Busy, Owns, Writing
-----------------------------------------------------------------------------
(* Steps of scans and edits that leave the tasks alone. *)

\* The variables of a playbook change, by a scan or by a user.
LEMMA VariablesKeep ==
  ASSUME DriftInv, UNCHANGED <<copy, task>>, PlaybooksOK',
         NEW w \in Workers, NEW j \in Jobs, job' = [job EXCEPT ![w] = j], JobFits(j),
         NEW p \in Playbooks, job[w].pc \notin Writing, j.pc = "tasks", j.p = p,
         j.vars = playbook'[p].vars,
         \A q \in Playbooks : playbook'[q].exists = playbook[q].exists,
         \A q \in Playbooks \ {p} : playbook'[q].vars = playbook[q].vars,
         Rewrites(w, p)
  PROVE  DriftInv'
<1>1. /\ trust' \in [Playbooks -> Trusts]
      /\ \A q \in Playbooks \ {p} : trust'[q] = trust[q]
      /\ \A q \in Playbooks : q = p /\ trust'[q] # "lost" => ~Disputed(w, q)
  BY RewriteIs DEF DriftInv
<1>2. TypeOK'
  BY <1>1 DEF DriftInv, TypeOK, copy, PlaybooksOK, Trusts
<1>3. j.raise = {} /\ j.clear = {} /\ j.save = {}
  BY DEF JobFits
<1>4. RowsFit'
  BY <1>3, RowsKeep
<1>5. ASSUME NEW q \in Playbooks, trust'[q] # "lost"
      PROVE  Kept(q)'
  <2>1. CASE q = p
    <3>1. ~Disputed(w, q) /\ j.p = q /\ j.vars = playbook'[q].vars
      BY <1>1, <1>5, <2>1
    <3>2. /\ \A t \in Of(q) : Exposed(t)' => j.pc = "tasks" \/ (j.pc = "flag" /\ t \in j.raise)
          /\ j.pc = "flag" => \A t \in j.clear \cap Of(q) : task[t].snapshot = playbook'[q].vars
          /\ j.pc \in {"vars", "save"} => \A t \in j.save : j.save # {t} =>
               ~j.fresh /\ (task[t].exists => task[t].playbook = q)
      OBVIOUS
    <3>3. task' = task /\ j.pc \in Writing
      BY DEF Writing
    <3> QED
      BY <1>2, <3>1, <3>2, <3>3, OwnerKeeps
  <2>2. CASE q # p
    BY <1>1, <1>3, <1>5, <2>2, ElsewhereKept DEF Owns
  <2> QED
    BY <2>1, <2>2
<1> QED
  BY <1>2, <1>4, <1>5 DEF DriftInv

LEMMA PersistScanKeeps ==
  ASSUME DriftInv, NEW w \in Workers, PersistScan(w)
  PROVE  DriftInv'
<1> DEFINE p == job[w].p
           merged == Merge(playbook[p].vars, job[w].found)
           k == [job[w] EXCEPT !.pc = "tasks", !.vars = merged, !.found = None, !.fresh = FALSE]
<1>1. /\ job \in [Workers -> Jobs] /\ job[w] \in Jobs /\ JobFits(job[w]) /\ job[w].pc = "merge"
      /\ playbook \in [Playbooks -> [exists : BOOLEAN, vars : Variables,
                                status : {"pending", "scanned", "ready", "invalid"}]]
  BY DEF DriftInv, RowsFit, TypeOK, PersistScan, At
<1>2. p \in Playbooks /\ job[w].found \in Contents
  BY <1>1 DEF JobFits
<1>3. merged \in Variables
  BY <1>1, <1>2, MergeTyped
<1>4. k \in Jobs /\ JobFits(k)
  BY <1>1, <1>3 DEF Jobs, Places, JobFits
<1>5. job' = [job EXCEPT ![w] = k]
  BY <1>1 DEF PersistScan, Jobs
<1>6. playbook' = [playbook EXCEPT ![p].vars = merged,
                                   ![p].status = IF job[w].fresh THEN "scanned" ELSE @]
  BY DEF PersistScan
<1>7. /\ PlaybooksOK'
      /\ playbook'[p].vars = merged
      /\ \A q \in Playbooks : playbook'[q].exists = playbook[q].exists
      /\ \A q \in Playbooks \ {p} : playbook'[q].vars = playbook[q].vars
  BY <1>1, <1>2, <1>3, <1>6 DEF PlaybooksOK
<1>8. /\ k.pc = "tasks" /\ k.p = p /\ k.vars = merged
      /\ Rewrites(w, p) /\ UNCHANGED <<copy, task>>
  BY <1>1 DEF PersistScan, Jobs
<1> HIDE DEF p, k, merged
<1> QED
  BY <1>1, <1>2, <1>4, <1>5, <1>7, <1>8, VariablesKeep DEF Writing

LEMMA UpdateUserVariablesKeeps ==
  ASSUME DriftInv, NEW w \in Workers, NEW p \in Playbooks, UpdateUserVariables(w, p)
  PROVE  DriftInv'
<1>1. PICK vs \in Variables :
        /\ playbook' = [playbook EXCEPT ![p].vars = vs]
        /\ job' = [job EXCEPT ![w].pc = "tasks", ![w].p = p, ![w].vars = vs]
  BY DEF UpdateUserVariables
<1> DEFINE k == [job[w] EXCEPT !.pc = "tasks", !.p = p, !.vars = vs]
<1>2. /\ job \in [Workers -> Jobs] /\ job[w] \in Jobs /\ job[w].pc = "idle"
      /\ playbook \in [Playbooks -> [exists : BOOLEAN, vars : Variables,
                                status : {"pending", "scanned", "ready", "invalid"}]]
  BY FreeIs DEF DriftInv, TypeOK, UpdateUserVariables
<1>3. k \in Jobs /\ JobFits(k)
  BY <1>2, FreeIs DEF Jobs, Places, JobFits, UpdateUserVariables
<1>4. job' = [job EXCEPT ![w] = k]
  BY <1>1, <1>2 DEF Jobs
<1>5. /\ PlaybooksOK'
      /\ playbook'[p].vars = vs
      /\ \A q \in Playbooks : playbook'[q].exists = playbook[q].exists
      /\ \A q \in Playbooks \ {p} : playbook'[q].vars = playbook[q].vars
  BY <1>1, <1>2 DEF PlaybooksOK
<1>6. /\ k.pc = "tasks" /\ k.p = p /\ k.vars = vs
      /\ Rewrites(w, p) /\ UNCHANGED <<copy, task>>
  BY <1>2 DEF UpdateUserVariables, Jobs
<1> HIDE DEF k
<1> QED
  BY <1>2, <1>3, <1>4, <1>5, <1>6, VariablesKeep DEF Writing

\* What keeps a playbook whose writer goes on or leaves it.
LEMMA GoesOn ==
  ASSUME NEW p \in Playbooks, Kept(p),
         \A u, v \in Workers : Owns(u, p)' /\ u # v /\ Busy(v, p)' => Owns(u, p) /\ Busy(v, p),
         \A t \in Of(p)' : Exposed(t)' => t \in Of(p) /\ Exposed(t),
         \A v \in Workers : \A t \in Of(p)' :
           Exposed(t)' /\ Owns(v, p) /\ Catches(v, t) => Owns(v, p)' /\ Catches(v, t)',
         trust'[p] = "regaining" =>
           /\ trust[p] = "regaining"
           /\ \A v \in Workers : Owns(v, p) /\ job[v].pc \in {"tasks", "flag"} =>
                Owns(v, p)' /\ job'[v].pc \in {"tasks", "flag"},
         ClearsTrue(p)', CopiesTrue(p)', SavesFit(p)'
  PROVE  Kept(p)'
<1>1. Alone(p)'
  BY DEF Kept, Alone, Disputed
<1>2. Caught(p)'
  <2> SUFFICES ASSUME NEW t \in Of(p)', Exposed(t)'
               PROVE  \E v \in Workers : Owns(v, p)' /\ Catches(v, t)'
    BY DEF Caught
  <2>1. PICK v \in Workers : Owns(v, p) /\ Catches(v, t)
    BY DEF Kept, Caught
  <2> QED
    BY <2>1
<1>3. Regains(p)'
  BY DEF Kept, Regains
<1> QED
  BY <1>1, <1>2, <1>3 DEF Kept

LEMMA ListRelatedTasksKeeps ==
  ASSUME DriftInv, NEW w \in Workers, ListRelatedTasks(w)
  PROVE  DriftInv'
<1>0. PICK p \in Playbooks : p = job[w].p
  BY DEF DriftInv, RowsFit, JobFits, ListRelatedTasks, At
<1> DEFINE raise == {t \in Of(p) : Changed(task[t].snapshot, job[w].vars) # {}}
           clear == {t \in Of(p) \ raise : task[t].review}
           k == IF raise \cup clear = {} THEN Scanned(job[w])
                ELSE [job[w] EXCEPT !.pc = "flag", !.raise = raise, !.clear = clear,
                                    !.vars = NoVariables]
<1>1. /\ job \in [Workers -> Jobs] /\ job[w] \in Jobs /\ JobFits(job[w]) /\ job[w].pc = "tasks"
      /\ playbook \in [Playbooks -> [exists : BOOLEAN, vars : Variables,
                                status : {"pending", "scanned", "ready", "invalid"}]]
      /\ task \in [Tasks -> [exists : BOOLEAN, playbook : Playbooks \cup {None},
                             snapshot : Variables, review : BOOLEAN]]
  BY DEF DriftInv, RowsFit, TypeOK, ListRelatedTasks, At
<1>2. job[w].save = {} /\ job[w].vars \in Variables
  BY <1>1 DEF JobFits, Jobs
<1>3. raise \subseteq Of(p) /\ clear \subseteq Of(p) /\ Of(p) \subseteq Tasks
  BY DEF Of
<1>4. k \in Jobs /\ JobFits(k)
  <2>1. CASE raise \cup clear = {}
    BY <1>1, <2>1, ScannedFits
  <2>2. CASE raise \cup clear # {}
    <3>1. NoVariables \in Variables
      BY DEF NoVariables, Variables
    <3>2. k = [job[w] EXCEPT !.pc = "flag", !.raise = raise, !.clear = clear,
                             !.vars = NoVariables]
      BY <2>2
    <3>3. raise \in SUBSET Tasks /\ clear \in SUBSET Tasks
      BY <1>3
    <3> HIDE DEF raise, clear, k
    <3> QED
      BY <1>1, <1>2, <3>1, <3>2, <3>3 DEF Jobs, Places, JobFits
  <2> QED
    BY <2>1, <2>2
<1>5. job' = [job EXCEPT ![w] = k]
  BY <1>0 DEF ListRelatedTasks
<1>6. /\ UNCHANGED <<copy, reviewed>>
      /\ IF raise \cup clear = {} THEN Restores(p) ELSE UNCHANGED trust
  BY <1>0 DEF ListRelatedTasks
<1>7. /\ k.raise \subseteq raise /\ k.clear \subseteq clear /\ k.save = {}
      /\ raise \cup clear = {} => k.pc \notin Writing /\ k.raise = {} /\ k.clear = {}
      /\ raise \cup clear # {} => k.pc = "flag" /\ k.p = p /\ k.raise = raise /\ k.clear = clear
  <2>1. CASE raise \cup clear = {}
    BY <1>1, <1>4, <2>1, ScannedFits DEF JobFits, Writing
  <2>2. CASE raise \cup clear # {}
    <3>1. k = [job[w] EXCEPT !.pc = "flag", !.raise = raise, !.clear = clear,
                             !.vars = NoVariables]
      BY <2>2
    <3> HIDE DEF raise, clear, k
    <3> QED
      BY <1>0, <1>1, <1>2, <2>2, <3>1 DEF Jobs
  <2> QED
    BY <2>1, <2>2
<1>8. /\ trust' \in [Playbooks -> Trusts]
      /\ \A q \in Playbooks \ {p} : trust'[q] = trust[q]
      /\ trust'[p] # "lost" => trust[p] # "lost"
      /\ raise \cup clear = {} => trust'[p] # "regaining"
  <2>1. CASE raise \cup clear = {}
    BY <1>2, <1>6, <2>1, RestoreIs DEF DriftInv
  <2>2. CASE raise \cup clear # {}
    BY <1>6, <2>2 DEF DriftInv, TypeOK, Trusts
  <2> QED
    BY <2>1, <2>2
<1>9. /\ \A t \in Of(p) : t \in raise <=> task[t].snapshot # job[w].vars
      /\ Owns(w, p)
      /\ \A t \in Of(p) : task[t].playbook = p /\ playbook[p].exists
  <2>1. \A t \in Of(p) : task[t].snapshot \in Variables
    BY <1>1 DEF Of
  <2>2. \A t \in Of(p) : Changed(task[t].snapshot, job[w].vars) = {} <=>
                       task[t].snapshot = job[w].vars
    BY <1>2, <2>1, ChangedIs
  <2>3. \A t \in Of(p) : task[t].playbook = p /\ playbook[p].exists
    BY DEF DriftInv, RowsFit, TaskFits, Of
  <2> QED
    BY <1>0, <1>1, <2>2, <2>3 DEF Owns, Writing
<1>10. task' = task /\ playbook' = playbook /\ dir' = dir /\ ready' = ready
  BY <1>6 DEF copy, reviewed
<1> HIDE DEF raise, clear, k
<1>11. TypeOK'
  BY <1>1, <1>4, <1>5, <1>8, <1>10 DEF DriftInv, TypeOK, Trusts
<1>12. RowsFit'
  <2>1. \A t \in k.raise \cup k.clear \cup k.save : task[t].exists
    BY <1>3, <1>7 DEF Of
  <2>2. ~(k.pc = "save")
    BY <1>7 DEF Writing
  <2> QED
    BY <1>4, <1>5, <1>10, <2>1, <2>2, RowsKeep
<1>13. ASSUME NEW q \in Playbooks, q # p, trust'[q] # "lost"
       PROVE  Kept(q)'
  <2>1. Of(p) \cap Of(q) = {}
    BY <1>13 DEF Of
  <2>2. ~Owns(w, q) /\ (k.pc \in Writing => k.p # q)
    BY <1>0, <1>7, <1>13 DEF Owns
  <2>3. k.clear \cap Of(q) = {} /\ \A t \in k.raise \cup k.clear \cup k.save : t \notin Of(q)
    BY <1>3, <1>7, <2>1
  <2> QED
    BY <1>4, <1>5, <1>8, <1>10, <1>13, <2>2, <2>3, ElsewhereKept
<1>14. ASSUME trust'[p] # "lost"
       PROVE  Kept(p)'
  <2>1. Kept(p)
    BY <1>2, <1>8, <1>14 DEF DriftInv
  <2>2. ~Disputed(w, p)
    BY <1>9, <2>1 DEF Kept, Alone
  <2>3. \A t \in Of(p) : t \in raise <=> task[t].snapshot # playbook[p].vars
    BY <1>1, <1>9, <2>1 DEF Kept, CopiesTrue, Owns
  <2>4. \A t \in Of(p) : Exposed(t)' => t \in raise
    BY <1>9, <1>10, <2>3 DEF Exposed
  <2>5. CASE raise \cup clear = {}
    <3>1. job'[w] = k /\ \A v \in Workers \ {w} : job'[v] = job[v]
      BY <1>1, <1>5
    <3>2. \A v \in Workers : ~Busy(v, p)' /\ ~Owns(v, p)'
      BY <1>7, <1>10, <2>2, <2>5, <3>1 DEF Disputed, Busy, Owns, Holds, Writing
    <3>3. Of(p)' = Of(p)
      BY <1>10 DEF Of
    <3>4. ClearsTrue(p)'
      BY <1>7, <1>10, <2>1, <2>5, <3>1, <3>3 DEF Kept, ClearsTrue
    <3>5. CopiesTrue(p)' /\ SavesFit(p)'
      BY <3>2 DEF CopiesTrue, SavesFit
    <3> QED
      BY <1>2, <1>8, <2>1, <2>4, <2>5, <3>2, <3>3, <3>4, <3>5, GoesOn
  <2>6. CASE raise \cup clear # {}
    <3>1. /\ k.pc = "flag" /\ k.pc \in Writing /\ k.p = p
          /\ \A t \in Of(p) : Exposed(t)' => k.pc = "tasks" \/ (k.pc = "flag" /\ t \in k.raise)
      BY <1>7, <2>4, <2>6 DEF Writing
    <3>2. \A t \in k.clear \cap Of(p) : task[t].snapshot = playbook'[p].vars
      BY <1>7, <1>10, <2>3, <2>6 DEF clear
    <3> QED
      BY <1>2, <1>4, <1>5, <1>10, <1>11, <2>2, <3>1, <3>2, OwnerKeeps
  <2> QED
    BY <2>5, <2>6
<1>15. \A q \in Playbooks : trust'[q] # "lost" => Kept(q)'
  BY <1>13, <1>14
<1> QED
  BY <1>11, <1>12, <1>15 DEF DriftInv
-----------------------------------------------------------------------------
(* Requests on tasks, up to their writes. *)

\* A request takes tasks of the playbooks P to write them for p; of the other one of P a
\* task is to be taken away.
LEMMA EntryKeeps ==
  ASSUME DriftInv, UNCHANGED <<copy, reviewed>>, NEW w \in Workers, Free(w),
         NEW j \in Jobs, job' = [job EXCEPT ![w] = j],
         NEW P \in SUBSET Playbooks, EntersReview(w, P), NEW p \in P,
         j.pc \in {"vars", "save"}, j.p = p, JobFits(j),
         \A t \in j.save : IF j.fresh THEN ~task[t].exists /\ \A v \in Workers \ {w} : ~Holds(v, t)
                          ELSE task[t].exists /\ task[t].playbook \in P,
         \A t \in j.save : j.save # {t} => ~j.fresh /\ task[t].playbook = p,
         trust'[p] # "lost" /\ j.pc = "save" => j.vars = playbook[p].vars
  PROVE  DriftInv'
<1>1. /\ trust' \in [Playbooks -> Trusts]
      /\ \A q \in Playbooks : trust'[q] # "lost" =>
           /\ trust'[q] = trust[q]
           /\ q \in P => \A r \in P : ~Disputed(w, r)
  BY EntryIs DEF DriftInv
<1>2. /\ task' = task /\ playbook' = playbook /\ dir' = dir /\ ready' = ready
      /\ job'[w] = j /\ \A v \in Workers \ {w} : job'[v] = job[v]
  BY DEF copy, reviewed, DriftInv, TypeOK
<1>3. TypeOK'
  BY <1>1, <1>2 DEF DriftInv, TypeOK, Trusts
<1>4. j.raise = {} /\ j.clear = {} /\ j.save \subseteq Tasks
  BY DEF JobFits, Jobs
<1>5. RowsFit'
  <2>1. \A t \in j.raise \cup j.clear \cup j.save :
          Holds(w, t) \/ task[t].exists \/ \A v \in Workers \ {w} : ~Holds(v, t)
    BY <1>4
  <2>2. j.pc = "save" /\ j.fresh =>
          \A t \in j.save : ~task[t].exists /\ \A v \in Workers \ {w} : ~Holds(v, t)
    OBVIOUS
  <2> QED
    BY <1>2, <2>1, <2>2, RowsKeep
<1>6. job[w].pc \notin Writing /\ job[w].save = {}
  BY FreeIs DEF Writing
<1>7. ASSUME NEW q \in Playbooks, trust'[q] # "lost"
      PROVE  Kept(q)'
  <2>1. Kept(q)
    BY <1>1, <1>7 DEF DriftInv
  <2>2. CASE q \notin P
    <3>1. ~Owns(w, q) /\ (j.pc \in Writing => j.p # q)
      BY <1>6, <2>2 DEF Owns
    <3>2. j.clear \cap Of(q) = {} /\ \A t \in j.raise \cup j.clear \cup j.save : t \notin Of(q) \/ Holds(w, t)
      BY <1>4, <2>2 DEF Of
    <3> QED
      BY <1>1, <1>2, <1>7, <3>1, <3>2, ElsewhereKept
  <2>3. CASE q \in P
    <3>1. ~Disputed(w, q)
      BY <1>1, <1>7, <2>3
    <3>2. \A v \in Workers : ~Owns(v, q)
      BY <1>6, <3>1, UndisputedAlone DEF Owns
    <3>3. (\A t \in Of(q) : ~Exposed(t)) /\ trust[q] # "regaining"
      BY <2>1, <3>2, RestIsSafe
    <3>4. Of(q)' = Of(q) /\ \A t \in Of(q) : ~Exposed(t)'
      BY <1>2, <3>3 DEF Of, Exposed
    <3>5. CASE q = p
      <4>1. /\ j.p = q /\ j.pc \in Writing
            /\ j.pc \in {"tasks", "save"} /\ playbook'[q].exists => j.vars = playbook'[q].vars
        BY <1>2, <1>7, <3>5 DEF Writing
      <4>2. trust'[q] = "regaining" => j.pc \in {"tasks", "flag"}
        BY <1>1, <1>7, <3>3
      <4>3. \A t \in Of(q) : Exposed(t)' => j.pc = "tasks" \/ (j.pc = "flag" /\ t \in j.raise)
        BY <3>4
      <4>4. j.pc = "flag" => \A t \in j.clear \cap Of(q) : task[t].snapshot = playbook'[q].vars
        OBVIOUS
      <4>5. \A t \in j.save : j.save # {t} => ~j.fresh /\ (task[t].exists => task[t].playbook = q)
        BY <3>5
      <4> QED
        BY <1>2, <1>3, <3>1, <4>1, <4>2, <4>3, <4>4, <4>5, OwnerKeeps
    <3>6. CASE q # p
      <4>1. \A v \in Workers : ~Owns(v, q)'
        BY <1>2, <3>2, <3>6 DEF Owns
      <4>2. ClearsTrue(q)'
        BY <1>2, <1>4, <2>1, <3>4 DEF Kept, ClearsTrue
      <4>3. CopiesTrue(q)' /\ SavesFit(q)'
        BY <4>1 DEF CopiesTrue, SavesFit
      <4>4. trust'[q] # "regaining"
        BY <1>1, <1>7, <3>3
      <4> QED
        BY <2>1, <3>4, <4>1, <4>2, <4>3, <4>4, GoesOn
    <3> QED
      BY <3>5, <3>6
  <2> QED
    BY <2>2, <2>3
<1> QED
  BY <1>3, <1>5, <1>7 DEF DriftInv

LEMMA CreateTaskKeeps ==
  ASSUME DriftInv, NEW w \in Workers, NEW t \in Tasks, NEW p \in Playbooks, CreateTask(w, t, p)
  PROVE  DriftInv'
<1> DEFINE k == [job[w] EXCEPT !.pc = "save", !.p = p, !.save = {t}, !.fresh = TRUE,
                               !.vars = playbook[p].vars]
<1>1. /\ job \in [Workers -> Jobs] /\ job[w] \in Jobs
      /\ playbook[p].vars \in Variables
      /\ job[w].raise = {} /\ job[w].clear = {}
  BY FreeIs DEF DriftInv, TypeOK, CreateTask
<1>2. k \in Jobs /\ JobFits(k)
  BY <1>1 DEF Jobs, Places, JobFits
<1>3. job' = [job EXCEPT ![w] = k]
  BY <1>1 DEF CreateTask, Jobs
<1>4. k.pc = "save" /\ k.p = p /\ k.save = {t} /\ k.fresh /\ k.vars = playbook[p].vars
  BY <1>1 DEF Jobs
<1> DEFINE P == {p}
<1>5. /\ P \in SUBSET Playbooks /\ p \in P /\ EntersReview(w, P)
      /\ Free(w) /\ UNCHANGED <<copy, reviewed>>
  BY DEF CreateTask
<1>6. \A x \in k.save : IF k.fresh THEN ~task[x].exists /\ \A v \in Workers \ {w} : ~Holds(v, x)
                        ELSE task[x].exists /\ task[x].playbook \in P
  BY <1>4 DEF CreateTask
<1>7. /\ \A x \in k.save : k.save # {x} => ~k.fresh /\ task[x].playbook = p
      /\ k.pc \in {"vars", "save"}
      /\ trust'[p] # "lost" /\ k.pc = "save" => k.vars = playbook[p].vars
  BY <1>4
<1>8. k.p = p
  BY <1>4
<1> HIDE DEF k, P
<1> QED
  BY ZenonT(40), <1>2, <1>3, <1>5, <1>6, <1>7, <1>8, EntryKeeps

LEMMA UpdateTaskKeeps ==
  ASSUME "edit" \notin Happens, DriftInv,
         NEW w \in Workers, NEW t \in Tasks, NEW p \in Playbooks, UpdateTask(w, t, p)
  PROVE  DriftInv'
<1> DEFINE k == [job[w] EXCEPT !.pc = IF p = task[t].playbook THEN "save" ELSE "vars", !.p = p,
                               !.save = {t},
                               !.vars = IF p = task[t].playbook THEN task[t].snapshot ELSE @]
<1>1. /\ job \in [Workers -> Jobs] /\ job[w] \in Jobs
      /\ task[t].snapshot \in Variables /\ task[t].playbook \in Playbooks
      /\ job[w].pc = "idle" /\ job[w].raise = {} /\ job[w].clear = {} /\ ~job[w].fresh
  BY FreeIs DEF DriftInv, TypeOK, UpdateTask, RowsFit, TaskFits
<1>2. k \in Jobs /\ JobFits(k)
  BY <1>1 DEF Jobs, Places, JobFits
<1>3. job' = [job EXCEPT ![w] = k]
  BY <1>1 DEF UpdateTask, Jobs
<1>4. /\ k.pc \in {"vars", "save"} /\ k.p = p /\ k.save = {t} /\ ~k.fresh
      /\ k.pc = "save" => p = task[t].playbook /\ k.vars = task[t].snapshot
  BY <1>1 DEF Jobs
<1>5. PICK q \in Playbooks : q = task[t].playbook
  BY <1>1
<1>6. EntersReview(w, {p, q}) /\ Free(w) /\ UNCHANGED <<copy, reviewed>> /\ ~task[t].review /\ task[t].exists
  BY <1>5 DEF UpdateTask
<1>7. trust'[p] # "lost" /\ k.pc = "save" => k.vars = playbook[p].vars
  <2> SUFFICES ASSUME trust'[p] # "lost", k.pc = "save"
               PROVE  task[t].snapshot = playbook[p].vars
    BY <1>4
  <2>1. trust'[p] = trust[p] /\ ~Disputed(w, p)
    BY <1>6, EntryIs DEF DriftInv
  <2>2. Kept(p) /\ \A v \in Workers : ~Owns(v, p)
    BY <1>1, <2>1, UndisputedAlone DEF DriftInv, Owns, Writing
  <2>3. t \in Of(p)
    BY <1>4, <1>6 DEF Of
  <2>4. ~Exposed(t)
    BY <2>2, <2>3, RestIsSafe
  <2> QED
    BY <1>4, <1>6, <2>4 DEF Exposed
<1> DEFINE P == {p, q}
<1>8. /\ P \in SUBSET Playbooks /\ p \in P /\ EntersReview(w, P)
      /\ Free(w) /\ UNCHANGED <<copy, reviewed>>
  BY <1>6
<1>9. \A x \in k.save : IF k.fresh THEN ~task[x].exists /\ \A v \in Workers \ {w} : ~Holds(v, x)
                        ELSE task[x].exists /\ task[x].playbook \in P
  BY <1>4, <1>5, <1>6
<1>10. /\ \A x \in k.save : k.save # {x} => ~k.fresh /\ task[x].playbook = p
      /\ k.pc \in {"vars", "save"}
      /\ trust'[p] # "lost" /\ k.pc = "save" => k.vars = playbook[p].vars
  BY <1>4, <1>7
<1> HIDE DEF k, P
<1> QED
  BY <1>2, <1>3, <1>4, <1>8, <1>9, <1>10, EntryKeeps

LEMMA ConfirmTaskReviewKeeps ==
  ASSUME DriftInv, NEW w \in Workers, NEW p \in Playbooks, ConfirmTaskReview(w, p)
  PROVE  DriftInv'
<1>1. PICK S \in SUBSET {t \in Of(p) : task[t].review} \ {{}} :
        job' = [job EXCEPT ![w].pc = "vars", ![w].p = p, ![w].save = S]
  BY DEF ConfirmTaskReview
<1> DEFINE k == [job[w] EXCEPT !.pc = "vars", !.p = p, !.save = S]
<1>2. /\ job \in [Workers -> Jobs] /\ job[w] \in Jobs /\ S \in SUBSET Tasks
      /\ job[w].raise = {} /\ job[w].clear = {} /\ ~job[w].fresh
  BY FreeIs DEF DriftInv, TypeOK, ConfirmTaskReview, Of
<1>3. k \in Jobs /\ JobFits(k)
  BY <1>2 DEF Jobs, Places, JobFits
<1>4. job' = [job EXCEPT ![w] = k]
  BY <1>1, <1>2 DEF Jobs
<1>5. k.pc = "vars" /\ k.p = p /\ k.save = S /\ ~k.fresh
  BY <1>2 DEF Jobs
<1>6. \A t \in S : task[t].exists /\ task[t].playbook = p
  BY DEF Of
<1> DEFINE P == {p}
<1>7. /\ P \in SUBSET Playbooks /\ p \in P /\ EntersReview(w, P)
      /\ Free(w) /\ UNCHANGED <<copy, reviewed>>
  BY DEF ConfirmTaskReview
<1>8. \A x \in k.save : IF k.fresh THEN ~task[x].exists /\ \A v \in Workers \ {w} : ~Holds(v, x)
                        ELSE task[x].exists /\ task[x].playbook \in P
  BY <1>5, <1>6
<1>9. /\ \A x \in k.save : k.save # {x} => ~k.fresh /\ task[x].playbook = p
      /\ k.pc \in {"vars", "save"}
      /\ trust'[p] # "lost" /\ k.pc = "save" => k.vars = playbook[p].vars
  BY <1>5, <1>6
<1> HIDE DEF k, P
<1> QED
  BY ZenonT(40), <1>3, <1>4, <1>5, <1>7, <1>8, <1>9, EntryKeeps

LEMMA LoadVariablesKeeps ==
  ASSUME DriftInv, NEW w \in Workers, LoadVariables(w)
  PROVE  DriftInv'
<1>0. PICK p \in Playbooks : p = job[w].p
  BY DEF DriftInv, RowsFit, JobFits, LoadVariables, At
<1> DEFINE k == IF playbook[p].exists
                THEN [job[w] EXCEPT !.pc = "save", !.vars = playbook[p].vars] ELSE IdleJob
<1>1. /\ job \in [Workers -> Jobs] /\ job[w] \in Jobs /\ JobFits(job[w]) /\ job[w].pc = "vars"
      /\ playbook[p].vars \in Variables
  BY DEF DriftInv, RowsFit, TypeOK, LoadVariables, At
<1>2. /\ job' = [job EXCEPT ![w] = k]
      /\ task' = task /\ playbook' = playbook /\ dir' = dir /\ ready' = ready /\ trust' = trust
  BY <1>0 DEF LoadVariables, copy, reviewed
<1>3. k \in Jobs /\ JobFits(k)
  BY ZenonT(40), <1>0, <1>1, IdleJobTyped DEF Jobs, Places, JobFits
<1>4. /\ k.raise = {} /\ k.clear = {} /\ k.save \subseteq job[w].save
      /\ k.pc \in {"save", "idle"} /\ ~k.fresh
      /\ playbook[p].exists => /\ k.pc = "save" /\ k.p = p /\ k.vars = playbook[p].vars
                              /\ k.save = job[w].save
      /\ ~playbook[p].exists => k.pc = "idle"
  BY <1>0, <1>1 DEF Jobs, JobFits, IdleJob
<1> HIDE DEF k
<1>5. TypeOK'
  BY <1>1, <1>2, <1>3 DEF DriftInv, TypeOK
<1>6. RowsFit'
  <2>1. \A t \in k.raise \cup k.clear \cup k.save : Holds(w, t)
    BY <1>4 DEF Holds
  <2> QED
    BY <1>2, <1>3, <1>4, <2>1, RowsKeep
<1>7. ASSUME NEW q \in Playbooks, q # p, trust[q] # "lost"
      PROVE  Kept(q)'
  <2>1. /\ ~Owns(w, q) /\ (k.pc \in Writing => k.p # q)
        /\ k.clear \cap Of(q) = {}
        /\ \A t \in k.raise \cup k.clear \cup k.save : t \notin Of(q) \/ Holds(w, t)
    BY <1>0, <1>4, <1>7 DEF Owns, Writing, Holds
  <2> QED
    BY <1>2, <1>3, <1>7, <2>1, ElsewhereKept
<1>8. ASSUME trust[p] # "lost"
      PROVE  Kept(p)'
  <2>1. Kept(p) /\ Owns(w, p)
    BY <1>0, <1>1, <1>8 DEF DriftInv, Owns, Writing
  <2>2. ~Disputed(w, p)
    BY <2>1 DEF Kept, Alone
  <2>3. \A v \in Workers : Owns(v, p) => v = w
    BY <2>2, UndisputedAlone
  <2>4. (\A t \in Of(p) : ~Exposed(t)) /\ trust[p] # "regaining"
    BY <1>1, <2>1, <2>3 DEF Kept, Caught, Regains, Catches
  <2>5. CASE playbook[p].exists
    <3>1. /\ k.p = p /\ k.pc \in Writing
          /\ k.pc \in {"tasks", "save"} /\ playbook'[p].exists => k.vars = playbook'[p].vars
          /\ trust'[p] = "regaining" => k.pc \in {"tasks", "flag"}
      BY <1>2, <1>4, <2>4, <2>5 DEF Writing
    <3>2. \A t \in Of(p) : Exposed(t)' => k.pc = "tasks" \/ (k.pc = "flag" /\ t \in k.raise)
      BY <1>2, <2>4 DEF Exposed
    <3>3. k.pc = "flag" => \A t \in k.clear \cap Of(p) : task[t].snapshot = playbook'[p].vars
      BY <1>4
    <3>4. \A t \in k.save : k.save # {t} => ~k.fresh /\ (task[t].exists => task[t].playbook = p)
      BY <1>1, <1>4, <2>1, <2>5 DEF Kept, SavesFit
    <3> QED
      BY <1>2, <1>3, <1>5, <2>2, <3>1, <3>2, <3>3, <3>4, OwnerKeeps
  <2>6. CASE ~playbook[p].exists
    <3>1. job'[w] = k /\ \A v \in Workers \ {w} : job'[v] = job[v]
      BY <1>1, <1>2
    <3>2. \A v \in Workers : ~Owns(v, p)'
      BY <1>4, <2>3, <2>6, <3>1 DEF Owns, Writing
    <3>3. Of(p)' = {}
      BY <1>2, <2>6 DEF Of, DriftInv, RowsFit, TaskFits
    <3>4. ClearsTrue(p)' /\ CopiesTrue(p)' /\ SavesFit(p)'
      BY <3>2, <3>3 DEF ClearsTrue, CopiesTrue, SavesFit
    <3> QED
      BY <1>2, <2>1, <2>4, <3>2, <3>3, <3>4, GoesOn
  <2> QED
    BY <2>5, <2>6
<1>9. \A q \in Playbooks : trust'[q] # "lost" => Kept(q)'
  BY <1>2, <1>7, <1>8
<1> QED
  BY <1>5, <1>6, <1>9 DEF DriftInv
-----------------------------------------------------------------------------
(* The writes of tasks. *)

\* A worker goes on with some of what it had, after a write to one of its tasks.
LEMMA RowsShrink ==
  ASSUME DriftInv, NEW w \in Workers, NEW j \in Jobs, job' = [job EXCEPT ![w] = j], JobFits(j),
         \A t \in Tasks : TaskFits(t)',
         \A t \in Tasks : task'[t] = task[t] \/ Holds(w, t),
         j.raise \subseteq job[w].raise, j.clear \subseteq job[w].clear, j.save \subseteq job[w].save,
         j.pc = "save" /\ j.fresh =>
           job[w].pc = "save" /\ job[w].fresh /\ \A t \in j.save : task'[t] = task[t]
  PROVE  RowsFit'
<1>1. /\ job'[w] = j
      /\ \A v \in Workers \ {w} : job'[v] = job[v]
  BY DEF DriftInv, TypeOK
<1>2. \A v \in Workers : JobFits(job[v])'
  BY <1>1 DEF DriftInv, RowsFit, JobFits
<1>3. \A v \in Workers, t \in Tasks : Holds(v, t)' => Holds(v, t)
  BY <1>1 DEF Holds
<1>4. \A v \in Workers : CreationFits(v)'
  <2> SUFFICES ASSUME NEW v \in Workers, (job[v].pc = "save")', job[v].fresh',
                      NEW t \in job'[v].save
               PROVE  ~task'[t].exists /\ \A u \in Workers \ {v} : ~Holds(u, t)'
    BY DEF CreationFits
  <2>1. t \in Tasks
    BY <1>1 DEF DriftInv, TypeOK, Jobs
  <2>2. job[v].pc = "save" /\ job[v].fresh /\ t \in job[v].save
    BY <1>1
  <2>3. ~task[t].exists /\ \A u \in Workers \ {v} : ~Holds(u, t)
    BY <2>2 DEF DriftInv, RowsFit, CreationFits
  <2>4. task'[t] = task[t]
    BY <1>1, <2>1, <2>3
  <2> QED
    BY <1>3, <2>1, <2>3, <2>4
<1> QED
  BY <1>2, <1>4 DEF RowsFit

LEMMA SyncTaskReviewStatusKeeps ==
  ASSUME DriftInv, NEW w \in Workers, NEW t \in Tasks, SyncTaskReviewStatus(w, t)
  PROVE  DriftInv'
<1>0. PICK p \in Playbooks : p = job[w].p
  BY DEF DriftInv, RowsFit, JobFits, SyncTaskReviewStatus, At
<1> DEFINE left == [job[w] EXCEPT !.raise = @ \ {t}, !.clear = @ \ {t}]
           over == left.raise \cup left.clear = {}
           k == IF over THEN Scanned(left) ELSE left
<1>1. /\ job \in [Workers -> Jobs] /\ job[w] \in Jobs /\ JobFits(job[w]) /\ job[w].pc = "flag"
      /\ t \in job[w].raise \cup job[w].clear
      /\ task \in [Tasks -> [exists : BOOLEAN, playbook : Playbooks \cup {None},
                             snapshot : Variables, review : BOOLEAN]]
  BY DEF DriftInv, RowsFit, TypeOK, SyncTaskReviewStatus, At
<1>2. left \in Jobs /\ JobFits(left)
  BY <1>1 DEF Jobs, JobFits
<1>3. /\ left.pc = "flag" /\ left.p = p /\ left.save = {}
      /\ left.raise = job[w].raise \ {t} /\ left.clear = job[w].clear \ {t}
  BY <1>0, <1>1 DEF Jobs, JobFits
<1>4. k \in Jobs /\ JobFits(k)
  BY <1>2, ScannedFits
<1>5. /\ k.raise \subseteq left.raise /\ k.clear \subseteq left.clear /\ k.save = {}
      /\ over => k.pc \notin Writing
      /\ ~over => k = left
      /\ k.pc # "save"
  BY <1>2, <1>3, ScannedFits DEF JobFits, Writing
<1>6. /\ job' = [job EXCEPT ![w] = k]
      /\ task' = [task EXCEPT ![t].review = IF task[t].exists THEN t \in job[w].raise ELSE @]
      /\ playbook' = playbook /\ dir' = dir /\ ready' = ready
      /\ IF over THEN Restores(p) ELSE UNCHANGED trust
  BY <1>0 DEF SyncTaskReviewStatus, copy
<1> HIDE DEF left, over, k
<1>7. /\ trust' \in [Playbooks -> Trusts]
      /\ \A q \in Playbooks \ {p} : trust'[q] = trust[q]
      /\ trust'[p] # "lost" => trust[p] # "lost"
      /\ over => trust'[p] # "regaining"
      /\ ~over => trust' = trust
  BY <1>6, RestoreIs DEF DriftInv, TypeOK, Trusts
<1>8. /\ \A x \in Tasks \ {t} : task'[x] = task[x]
      /\ \A x \in Tasks : /\ task'[x].exists = task[x].exists
                         /\ task'[x].playbook = task[x].playbook
                         /\ task'[x].snapshot = task[x].snapshot
      /\ task[t].exists => task'[t].review = (t \in job[w].raise)
      /\ ~task[t].exists => task'[t] = task[t]
      /\ task' \in [Tasks -> [exists : BOOLEAN, playbook : Playbooks \cup {None},
                             snapshot : Variables, review : BOOLEAN]]
  <2>1. PICK r \in BOOLEAN : /\ task' = [task EXCEPT ![t].review = r]
                             /\ task[t].exists => r = (t \in job[w].raise)
                             /\ ~task[t].exists => r = task[t].review
    <3>1. CASE task[t].exists /\ t \in job[w].raise
      <4>1. task' = [task EXCEPT ![t].review = TRUE]
        BY <1>6, <3>1
      <4> QED
        BY <3>1, <4>1
    <3>2. CASE task[t].exists /\ t \notin job[w].raise
      <4>1. (t \in job[w].raise) = FALSE
        BY <3>2
      <4>2. task' = [task EXCEPT ![t].review = FALSE]
        BY <1>6, <3>2, <4>1
      <4> QED
        BY <3>2, <4>1, <4>2
    <3>3. CASE ~task[t].exists
      BY <1>1, <1>6, <3>3
    <3> QED
      BY <3>1, <3>2, <3>3
  <2>2. task'[t] = [task[t] EXCEPT !.review = r] /\ \A x \in Tasks \ {t} : task'[x] = task[x]
    BY <1>1, <2>1
  <2>3. ~task[t].exists => task'[t] = task[t]
    BY <1>1, <2>1, <2>2
  <2>4. task' \in [Tasks -> [exists : BOOLEAN, playbook : Playbooks \cup {None},
                             snapshot : Variables, review : BOOLEAN]]
    BY <1>1, <2>1
  <2> QED
    BY <1>1, <2>1, <2>2, <2>3, <2>4
<1>9. TypeOK'
  BY <1>1, <1>4, <1>6, <1>7, <1>8 DEF DriftInv, TypeOK, Trusts
<1>10. RowsFit'
  <2>1. \A x \in Tasks : TaskFits(x)'
    BY <1>6, <1>8 DEF DriftInv, RowsFit, TaskFits
  <2>2. \A x \in Tasks : task'[x] = task[x] \/ Holds(w, x)
    BY <1>1, <1>8 DEF Holds
  <2>3. k.raise \subseteq job[w].raise /\ k.clear \subseteq job[w].clear /\ k.save \subseteq job[w].save
    BY <1>3, <1>5
  <2> QED
    BY <1>4, <1>5, <1>6, <2>1, <2>2, <2>3, RowsShrink
<1>11. /\ job'[w] = k /\ \A v \in Workers \ {w} : job'[v] = job[v]
  BY <1>1, <1>6
<1>12. /\ \A v \in Workers, x \in Tasks : Holds(v, x)' => Holds(v, x)
       /\ \A v \in Workers : job'[v].clear \subseteq job[v].clear
       /\ \A v \in Workers : job'[v].pc \in Writing => job'[v].pc = job[v].pc
       /\ \A v \in Workers, q \in Playbooks : Owns(v, q)' =>
            /\ Owns(v, q) /\ job'[v].pc = job[v].pc /\ job'[v].vars = job[v].vars
            /\ job'[v].save = job[v].save /\ job'[v].fresh = job[v].fresh
  <2>1. k.pc \in Writing =>
          /\ k.pc = job[w].pc /\ k.p = job[w].p /\ k.vars = job[w].vars
          /\ k.save = job[w].save /\ k.fresh = job[w].fresh
    BY <1>1, <1>5 DEF left, Jobs
  <2>2. k.raise \subseteq job[w].raise /\ k.clear \subseteq job[w].clear /\ k.save \subseteq job[w].save
    BY <1>3, <1>5
  <2> QED
    BY <1>11, <2>1, <2>2 DEF Holds, Owns
<1>13. ASSUME NEW q \in Playbooks, trust'[q] # "lost"
       PROVE  Kept(q)'
  <2>1. Kept(q)
    BY <1>7, <1>13 DEF DriftInv
  <2>2. Of(q)' = Of(q)
    BY <1>8 DEF Of
  <2>3. \A v \in Workers : Busy(v, q)' => Busy(v, q)
    BY <1>8, <1>12 DEF Busy, Owns, Writing
  <2>4. \A u, v \in Workers : Owns(u, q)' /\ u # v /\ Busy(v, q)' => Owns(u, q) /\ Busy(v, q)
    BY <1>12, <2>3
  <2>5. \A x \in Of(q)' : Exposed(x)' => x \in Of(q) /\ Exposed(x) /\ x # t
    <3> SUFFICES ASSUME NEW x \in Of(q), Exposed(x)'
                 PROVE  Exposed(x) /\ x # t
      BY <2>2
    <3>1. x \in Tasks /\ task[x].exists /\ task[x].playbook = q
      BY DEF Of
    <3>2. task[x].snapshot # playbook[q].vars /\ ~task'[x].review
      BY <1>6, <1>8, <3>1 DEF Exposed
    <3>3. x # t
      BY <1>1, <1>8, <2>1, <3>1, <3>2 DEF Kept, ClearsTrue
    <3> QED
      BY <1>8, <3>1, <3>2, <3>3 DEF Exposed
  <2>6. ASSUME NEW v \in Workers, NEW x \in Of(q)', Exposed(x)', Owns(v, q), Catches(v, x)
        PROVE  Owns(v, q)' /\ Catches(v, x)'
    <3>1. CASE v # w
      BY <1>11, <2>6, <3>1 DEF Owns, Catches
    <3>2. CASE v = w
      <4>1. x \in left.raise
        BY <1>1, <1>3, <2>5, <2>6, <3>2 DEF Catches
      <4>2. k = left
        BY <1>5, <4>1 DEF over
      <4> QED
        BY <1>0, <1>1, <1>3, <1>11, <2>6, <3>2, <4>1, <4>2 DEF Owns, Catches
    <3> QED
      BY <3>1, <3>2
  <2>7. ASSUME trust'[q] = "regaining"
        PROVE  /\ trust[q] = "regaining"
               /\ \A v \in Workers : Owns(v, q) /\ job[v].pc \in {"tasks", "flag"} =>
                    Owns(v, q)' /\ job'[v].pc \in {"tasks", "flag"}
    <3>1. q = p => ~over
      BY <1>7, <2>7
    <3>2. trust[q] = "regaining"
      BY <1>7, <2>7, <3>1
    <3>3. Owns(w, q) => k = left
      BY <1>0, <1>5, <3>1 DEF Owns
    <3> QED
      BY <1>1, <1>3, <1>0, <1>11, <3>2, <3>3 DEF Owns
  <2>8. ClearsTrue(q)'
    BY <1>6, <1>8, <1>12, <2>1, <2>2 DEF Kept, ClearsTrue, Of, Writing
  <2>9. CopiesTrue(q)'
    BY <1>6, <1>12, <2>1 DEF Kept, CopiesTrue
  <2>10. SavesFit(q)'
    <3> SUFFICES ASSUME NEW v \in Workers, Owns(v, q)', (job[v].pc \in {"vars", "save"})',
                        NEW x \in job'[v].save, job'[v].save # {x}
                 PROVE  ~job'[v].fresh /\ (task'[x].exists => task'[x].playbook = q)
      BY DEF SavesFit
    <3>1. x \in Tasks
      BY <1>9 DEF TypeOK, Jobs
    <3> QED
      BY <1>8, <1>12, <2>1, <3>1 DEF Kept, SavesFit
  <2> QED
    BY <2>1, <2>4, <2>5, <2>6, <2>7, <2>8, <2>9, <2>10, GoesOn
<1> QED
  BY <1>9, <1>10, <1>13 DEF DriftInv

LEMMA SaveTaskKeeps ==
  ASSUME DriftInv, NEW w \in Workers, NEW t \in Tasks, SaveTask(w, t)
  PROVE  DriftInv'
<1>0. PICK p \in Playbooks : p = job[w].p
  BY DEF DriftInv, RowsFit, JobFits, SaveTask, At
<1> DEFINE left == [job[w] EXCEPT !.save = @ \ {t}]
           k == IF left.save = {} THEN IdleJob ELSE left
           written == (job[w].fresh \/ task[t].exists) /\ playbook[p].exists
           row == [exists |-> TRUE, playbook |-> p, snapshot |-> job[w].vars, review |-> FALSE]
<1>1. /\ job \in [Workers -> Jobs] /\ job[w] \in Jobs /\ JobFits(job[w]) /\ job[w].pc = "save"
      /\ t \in job[w].save
      /\ task \in [Tasks -> [exists : BOOLEAN, playbook : Playbooks \cup {None},
                             snapshot : Variables, review : BOOLEAN]]
  BY DEF DriftInv, RowsFit, TypeOK, SaveTask, At
<1>2. left \in Jobs /\ JobFits(left)
  BY <1>1 DEF Jobs, JobFits
<1>3. k \in Jobs /\ JobFits(k)
  BY <1>2, IdleJobTyped
<1>4. /\ k.raise = {} /\ k.clear = {} /\ k.save = job[w].save \ {t}
      /\ k.pc \in Writing =>
           /\ k.pc = "save" /\ k.p = p /\ k.vars = job[w].vars /\ k.fresh = job[w].fresh
           /\ job[w].save # {t}
      /\ k.pc \in {"save", "idle"}
  BY <1>0, <1>1 DEF Jobs, JobFits, IdleJob, Writing
<1>5. /\ job' = [job EXCEPT ![w] = k]
      /\ task' = IF written THEN [task EXCEPT ![t] = row] ELSE task
      /\ playbook' = playbook /\ dir' = dir /\ ready' = ready /\ trust' = trust
  BY <1>0 DEF SaveTask, copy
<1>6. row \in [exists : BOOLEAN, playbook : Playbooks \cup {None}, snapshot : Variables,
              review : BOOLEAN]
  BY <1>1 DEF Jobs
<1>7. /\ row.exists /\ row.playbook = p /\ row.snapshot = job[w].vars
      /\ written => playbook[p].exists /\ (job[w].fresh \/ task[t].exists)
  OBVIOUS
<1> HIDE DEF left, k, written, row
<1>8. /\ task' \in [Tasks -> [exists : BOOLEAN, playbook : Playbooks \cup {None},
                             snapshot : Variables, review : BOOLEAN]]
      /\ \A x \in Tasks : task'[x] = task[x] \/ (x = t /\ written /\ task'[x] = row)
  BY <1>1, <1>5, <1>6
<1>9. TypeOK'
  BY <1>1, <1>3, <1>5, <1>8 DEF DriftInv, TypeOK
<1>10. RowsFit'
  <2>1. \A x \in Tasks : TaskFits(x)'
    BY <1>5, <1>7, <1>8 DEF DriftInv, RowsFit, TaskFits
  <2>2. \A x \in Tasks : task'[x] = task[x] \/ Holds(w, x)
    BY <1>1, <1>8 DEF Holds
  <2>3. k.raise \subseteq job[w].raise /\ k.clear \subseteq job[w].clear /\ k.save \subseteq job[w].save
    BY <1>4
  <2>4. k.pc = "save" /\ k.fresh =>
          job[w].pc = "save" /\ job[w].fresh /\ \A x \in k.save : task'[x] = task[x]
    BY <1>1, <1>4, <1>8 DEF Writing, Jobs
  <2> QED
    BY <1>3, <1>5, <2>1, <2>2, <2>3, <2>4, RowsShrink
<1>11. /\ job'[w] = k /\ \A v \in Workers \ {w} : job'[v] = job[v]
  BY <1>1, <1>5
<1>12. /\ \A v \in Workers, x \in Tasks : Holds(v, x)' => Holds(v, x)
       /\ \A v \in Workers : job'[v].pc = "flag" => job'[v] = job[v]
       /\ \A v \in Workers, q \in Playbooks : Owns(v, q)' =>
            /\ Owns(v, q) /\ job'[v].pc = job[v].pc /\ job'[v].vars = job[v].vars
            /\ job'[v].fresh = job[v].fresh
            /\ \A x \in job'[v].save : x \in job[v].save /\ (job'[v].save # {x} => job[v].save # {x})
  BY <1>0, <1>1, <1>4, <1>11 DEF Holds, Owns, Writing
<1>13. ASSUME NEW q \in Playbooks, q # p, trust[q] # "lost"
       PROVE  Kept(q)'
  <2>1. Kept(q) /\ ~Owns(w, q)
    BY <1>0, <1>13 DEF DriftInv, Owns
  <2>2. \A x \in Tasks : task'[x].playbook = q => task'[x] = task[x]
    BY <1>7, <1>8, <1>13
  <2>3. \A x \in Of(q)' : x \in Of(q) /\ task'[x] = task[x]
    BY <2>2 DEF Of
  <2>4. \A v \in Workers : Busy(v, q)' => Busy(v, q)
    <3> SUFFICES ASSUME NEW v \in Workers, Busy(v, q)'
                 PROVE  Busy(v, q)
      OBVIOUS
    <3>1. CASE v # w
      BY <1>11, <1>12, <2>2, <3>1 DEF Busy
    <3>2. CASE v = w
      <4>1. PICK x \in Tasks : Holds(w, x)' /\ task'[x].playbook = q
        BY <1>4, <1>11, <1>13, <3>2 DEF Busy, Writing
      <4> QED
        BY <1>1, <1>12, <2>2, <3>2, <4>1 DEF Busy
    <3> QED
      BY <3>1, <3>2
  <2>5. \A u, v \in Workers : Owns(u, q)' /\ u # v /\ Busy(v, q)' => Owns(u, q) /\ Busy(v, q)
    BY <1>12, <2>4
  <2>6. \A x \in Of(q)' : Exposed(x)' => x \in Of(q) /\ Exposed(x)
    BY <1>5, <2>3 DEF Exposed
  <2>7. \A v \in Workers : \A x \in Of(q)' :
          Exposed(x)' /\ Owns(v, q) /\ Catches(v, x) => Owns(v, q)' /\ Catches(v, x)'
    BY <1>11, <2>1 DEF Owns, Catches
  <2>8. \A v \in Workers : Owns(v, q) /\ job[v].pc \in {"tasks", "flag"} =>
          Owns(v, q)' /\ job'[v].pc \in {"tasks", "flag"}
    BY <1>11, <2>1 DEF Owns
  <2>9. ClearsTrue(q)'
    BY <1>5, <1>12, <2>1, <2>3 DEF Kept, ClearsTrue
  <2>10. CopiesTrue(q)'
    BY <1>5, <1>12, <2>1 DEF Kept, CopiesTrue
  <2>11. SavesFit(q)'
    <3> SUFFICES ASSUME NEW v \in Workers, Owns(v, q)', (job[v].pc \in {"vars", "save"})',
                        NEW x \in job'[v].save, job'[v].save # {x}
                 PROVE  ~job'[v].fresh /\ (task'[x].exists => task'[x].playbook = q)
      BY DEF SavesFit
    <3>0. /\ Owns(v, q) /\ job'[v].pc = job[v].pc
          /\ \A y \in job'[v].save : y \in job[v].save /\ (job'[v].save # {y} => job[v].save # {y})
      BY <1>12
    <3>1. Owns(v, q) /\ v # w /\ x \in job[v].save /\ job[v].save # {x} /\ job[v].pc \in {"vars", "save"}
      BY <2>1, <3>0 DEF Owns
    <3>2. ~job[v].fresh /\ (task[x].exists => task[x].playbook = q) /\ x \in Tasks
      BY <1>1, <2>1, <3>1 DEF Kept, SavesFit, Jobs
    <3>3. task'[x] = task[x]
      <4>1. SUFFICES ASSUME x = t, written PROVE FALSE
        BY <1>8, <3>2
      <4>2. Holds(v, x) /\ Holds(w, x)
        BY <1>1, <3>1, <4>1 DEF Holds
      <4>3. CASE task[x].exists
        BY <1>1, <2>1, <3>1, <3>2, <4>2, <4>3 DEF Kept, Alone, Disputed, Busy
      <4>4. CASE job[w].fresh
        BY <1>1, <3>1, <4>1, <4>2, <4>4 DEF DriftInv, RowsFit, CreationFits
      <4> QED
        BY <1>7, <4>1, <4>3, <4>4
    <3> QED
      BY <1>12, <3>2, <3>3
  <2> QED
    BY <1>5, <2>1, <2>5, <2>6, <2>7, <2>8, <2>9, <2>10, <2>11, GoesOn
<1>14. ASSUME trust[p] # "lost"
       PROVE  Kept(p)'
  <2>1. Kept(p) /\ Owns(w, p)
    BY <1>0, <1>1, <1>14 DEF DriftInv, Owns, Writing
  <2>2. ~Disputed(w, p)
    BY <2>1 DEF Kept, Alone
  <2>3. \A v \in Workers : Owns(v, p) => v = w
    BY <2>2, UndisputedAlone
  <2>4. (\A x \in Of(p) : ~Exposed(x)) /\ trust[p] # "regaining"
    BY <1>1, <2>1, <2>3 DEF Kept, Caught, Regains, Catches
  <2>5. written => job[w].vars = playbook[p].vars
    BY <1>1, <1>7, <2>1 DEF Kept, CopiesTrue
  <2>6. \A x \in Of(p)' : task'[x].snapshot = playbook[p].vars \/ (x \in Of(p) /\ task'[x] = task[x])
    BY <1>7, <1>8, <2>5 DEF Of
  <2>7. \A x \in Of(p)' : ~Exposed(x)'
    <3> SUFFICES ASSUME NEW x \in Of(p)', Exposed(x)'
                 PROVE  FALSE
      OBVIOUS
    <3>1. task'[x].playbook = p
      BY DEF Of
    <3> QED
      BY <1>5, <2>4, <2>6, <3>1 DEF Exposed
  <2>8. ASSUME NEW u \in Workers, NEW v \in Workers, Owns(u, p)', u # v, Busy(v, p)'
        PROVE  Owns(u, p) /\ Busy(v, p)
    <3>1. Owns(u, p) /\ u = w
      BY <1>12, <2>3, <2>8
    <3>2. job[w].save # {t}
      BY <1>4, <1>11, <2>8, <3>1 DEF Owns
    <3>3. ~job[w].fresh /\ (task[t].exists => task[t].playbook = p)
      BY <1>1, <2>1, <3>2 DEF Kept, SavesFit
    <3>4. \A x \in Tasks : task'[x].playbook = p => task[x].playbook = p
      BY <1>7, <1>8, <3>3
    <3>5. job'[v] = job[v]
      BY <1>11, <2>8, <3>1
    <3> QED
      BY <1>12, <2>8, <3>1, <3>4, <3>5 DEF Busy
  <2>9. ClearsTrue(p)'
    <3> SUFFICES ASSUME NEW v \in Workers, (job[v].pc = "flag")', NEW x \in job'[v].clear, x \in Of(p)'
                 PROVE  task'[x].snapshot = playbook'[p].vars
      BY DEF ClearsTrue
    <3> QED
      BY <1>5, <1>12, <2>1, <2>6 DEF Kept, ClearsTrue
  <2>10. CopiesTrue(p)'
    BY <1>5, <1>12, <2>1 DEF Kept, CopiesTrue
  <2>11. SavesFit(p)'
    <3> SUFFICES ASSUME NEW v \in Workers, Owns(v, p)', (job[v].pc \in {"vars", "save"})',
                        NEW x \in job'[v].save, job'[v].save # {x}
                 PROVE  ~job'[v].fresh /\ (task'[x].exists => task'[x].playbook = p)
      BY DEF SavesFit
    <3>0. /\ Owns(v, p) /\ job'[v].pc = job[v].pc
          /\ \A y \in job'[v].save : y \in job[v].save /\ (job'[v].save # {y} => job[v].save # {y})
      BY <1>12
    <3>1. Owns(v, p) /\ x \in job[v].save /\ job[v].save # {x} /\ job[v].pc \in {"vars", "save"}
      BY <3>0
    <3>2. ~job[v].fresh /\ (task[x].exists => task[x].playbook = p) /\ x \in Tasks
      BY <1>1, <2>1, <3>1 DEF Kept, SavesFit, Jobs
    <3> QED
      BY <1>7, <1>8, <1>12, <3>2
  <2> QED
    BY <1>5, <2>1, <2>4, <2>7, <2>8, <2>9, <2>10, <2>11, GoesOn
<1>15. \A q \in Playbooks : trust'[q] # "lost" => Kept(q)'
  BY <1>5, <1>13, <1>14
<1> QED
  BY <1>9, <1>10, <1>15 DEF DriftInv
-----------------------------------------------------------------------------
(* Rows that come and go, and the death of the process. *)

\* The workers stay where they are.
LEMMA DeleteTaskKeeps ==
  ASSUME DriftInv, NEW t \in Tasks, DeleteTask(t)
  PROVE  DriftInv'
<1>1. /\ job' = job /\ playbook' = playbook /\ dir' = dir /\ ready' = ready /\ trust' = trust
      /\ task' = [task EXCEPT ![t] = NoTask]
      /\ task \in [Tasks -> [exists : BOOLEAN, playbook : Playbooks \cup {None},
                             snapshot : Variables, review : BOOLEAN]]
  BY DEF DeleteTask, copy, DriftInv, TypeOK
<1>2. NoTask \in [exists : BOOLEAN, playbook : Playbooks \cup {None}, snapshot : Variables,
                 review : BOOLEAN]
  BY DEF NoTask, NoVariables, Variables
<1>3. /\ \A x \in Tasks : task'[x] = IF x = t THEN NoTask ELSE task[x]
      /\ ~NoTask.exists /\ NoTask.playbook = None
  BY <1>1 DEF NoTask
<1>4. TypeOK'
  BY <1>1, <1>2 DEF DriftInv, TypeOK
<1>5. RowsFit'
  <2>1. \A x \in Tasks : TaskFits(x)'
    BY <1>1, <1>3 DEF DriftInv, RowsFit, TaskFits
  <2>2. \A w \in Workers : CreationFits(w)'
    BY <1>1, <1>3 DEF DriftInv, RowsFit, CreationFits, Holds, TypeOK, Jobs
  <2> QED
    BY <1>1, <2>1, <2>2 DEF DriftInv, RowsFit
<1>6. ASSUME NEW p \in Playbooks, trust[p] # "lost"
      PROVE  Kept(p)'
  <2>1. Kept(p)
    BY <1>6 DEF DriftInv
  <2>2. \A x \in Tasks : task'[x].playbook = p => task'[x] = task[x]
    BY <1>3, ReviewConstants
  <2>3. \A x \in Of(p)' : x \in Of(p) /\ task'[x] = task[x]
    BY <2>2 DEF Of
  <2>4. \A v \in Workers : (Busy(v, p)' => Busy(v, p)) /\ (Owns(v, p)' <=> Owns(v, p))
    BY <1>1, <2>2 DEF Busy, Owns, Holds
  <2>5. \A u, v \in Workers : Owns(u, p)' /\ u # v /\ Busy(v, p)' => Owns(u, p) /\ Busy(v, p)
    BY <2>4
  <2>6. \A x \in Of(p)' : Exposed(x)' => x \in Of(p) /\ Exposed(x)
    BY <1>1, <2>3 DEF Exposed
  <2>7. \A v \in Workers : \A x \in Of(p)' :
          Exposed(x)' /\ Owns(v, p) /\ Catches(v, x) => Owns(v, p)' /\ Catches(v, x)'
    BY <1>1 DEF Owns, Catches
  <2>8. ClearsTrue(p)'
    BY <1>1, <2>1, <2>3 DEF Kept, ClearsTrue
  <2>9. CopiesTrue(p)'
    BY <1>1, <2>1 DEF Kept, CopiesTrue, Owns
  <2>10. SavesFit(p)'
    BY <1>1, <1>3, <2>1 DEF Kept, SavesFit, Owns, DriftInv, TypeOK, Jobs
  <2>11. \A v \in Workers : Owns(v, p) /\ job[v].pc \in {"tasks", "flag"} =>
           Owns(v, p)' /\ job'[v].pc \in {"tasks", "flag"}
    BY <1>1 DEF Owns
  <2> QED
    BY <1>1, <2>1, <2>5, <2>6, <2>7, <2>8, <2>9, <2>10, <2>11, GoesOn
<1> QED
  BY <1>1, <1>4, <1>5, <1>6 DEF DriftInv

\* A playbook of which the row did not change, while tasks and workers stay as they are.
LEMMA RestKept ==
  ASSUME task' = task, job' = job, NEW p \in Playbooks, Kept(p), trust'[p] = trust[p],
         playbook'[p].exists => playbook'[p] = playbook[p], ~playbook'[p].exists => Of(p) = {}
  PROVE  Kept(p)'
<1>1. Of(p)' = Of(p)
  BY DEF Of
<1>2. Alone(p)' /\ Regains(p)'
  BY DEF Kept, Alone, Regains, Owns, Disputed, Busy, Holds
<1>3. Caught(p)'
  <2> SUFFICES ASSUME NEW t \in Of(p), Exposed(t)'
               PROVE  \E w \in Workers : Owns(w, p)' /\ Catches(w, t)'
    BY <1>1 DEF Caught
  <2>1. Exposed(t)
    BY DEF Exposed, Of
  <2> QED
    BY <2>1 DEF Kept, Caught, Owns, Catches
<1>4. ClearsTrue(p)'
  BY <1>1 DEF Kept, ClearsTrue
<1>5. CopiesTrue(p)' /\ SavesFit(p)'
  BY DEF Kept, CopiesTrue, SavesFit, Owns
<1> QED
  BY <1>2, <1>3, <1>4, <1>5 DEF Kept

LEMMA CreatePlaybookKeeps ==
  ASSUME DriftInv, NEW p \in Playbooks, CreatePlaybook(p)
  PROVE  DriftInv'
<1>1. /\ job' = job /\ task' = task /\ dir' = dir /\ ready' = ready
      /\ trust' = [trust EXCEPT ![p] = "kept"]
      /\ playbook' = [playbook EXCEPT ![p] = [NoPlaybook EXCEPT !.exists = TRUE]]
      /\ ~playbook[p].exists /\ \A w \in Workers : job[w].p # p
  BY DEF CreatePlaybook, copy
<1>2. [NoPlaybook EXCEPT !.exists = TRUE] \in
        [exists : BOOLEAN, vars : Variables, status : {"pending", "scanned", "ready", "invalid"}]
  BY DEF NoPlaybook, NoVariables, Variables
<1>3. TypeOK'
  BY <1>1, <1>2 DEF DriftInv, TypeOK
<1>4. \A q \in Playbooks : q # p => playbook'[q] = playbook[q] /\ trust'[q] = trust[q]
  BY <1>1 DEF DriftInv, TypeOK
<1>5. playbook'[p].exists /\ trust'[p] = "kept"
  BY <1>1 DEF DriftInv, TypeOK, NoPlaybook
<1>6. RowsFit'
  BY <1>1, <1>4, <1>5 DEF DriftInv, RowsFit, TaskFits, CreationFits, Holds
<1>7. Of(p) = {} /\ \A t \in Tasks : task[t].playbook # p
  BY <1>1, ReviewConstants DEF DriftInv, RowsFit, TaskFits, Of, NoTask
<1>8. Kept(p)'
  <2>1. \A w \in Workers : ~Busy(w, p)' /\ ~Owns(w, p)'
    BY <1>1, <1>7 DEF Busy, Owns
  <2>2. Of(p)' = {}
    BY <1>1, <1>7 DEF Of
  <2> QED
    BY <1>5, <2>1, <2>2 DEF Kept, Alone, Caught, ClearsTrue, CopiesTrue, Regains, SavesFit
<1>9. ASSUME NEW q \in Playbooks, q # p, trust'[q] # "lost"
      PROVE  Kept(q)'
  <2>1. Kept(q) /\ playbook'[q] = playbook[q] /\ trust'[q] = trust[q]
    BY <1>4, <1>9 DEF DriftInv
  <2>2. ~playbook'[q].exists => Of(q) = {}
    BY <2>1 DEF DriftInv, RowsFit, TaskFits, Of
  <2> QED
    BY <1>1, <2>1, <2>2, RestKept
<1>10. \A q \in Playbooks : trust'[q] # "lost" => Kept(q)'
  BY <1>8, <1>9
<1> QED
  BY <1>3, <1>6, <1>10 DEF DriftInv

LEMMA DeletePlaybookKeeps ==
  ASSUME DriftInv, NEW p \in Playbooks, DeletePlaybook(p)
  PROVE  DriftInv'
<1>1. /\ job' = job /\ task' = task /\ dir' = dir /\ ready' = ready /\ trust' = trust
      /\ playbook' = [playbook EXCEPT ![p] = NoPlaybook]
      /\ Of(p) = {}
  BY DEF DeletePlaybook, copy
<1>2. NoPlaybook \in
        [exists : BOOLEAN, vars : Variables, status : {"pending", "scanned", "ready", "invalid"}]
  BY DEF NoPlaybook, NoVariables, Variables
<1>3. TypeOK'
  BY <1>1, <1>2 DEF DriftInv, TypeOK
<1>4. /\ \A q \in Playbooks : q # p => playbook'[q] = playbook[q]
      /\ ~playbook'[p].exists
  BY <1>1 DEF DriftInv, TypeOK, NoPlaybook
<1>5. RowsFit'
  BY <1>1, <1>4 DEF DriftInv, RowsFit, TaskFits, CreationFits, Holds, Of
<1>6. ASSUME NEW q \in Playbooks, trust'[q] # "lost"
      PROVE  Kept(q)'
  <2>1. Kept(q) /\ trust'[q] = trust[q]
    BY <1>1, <1>6 DEF DriftInv
  <2>2. playbook'[q].exists => playbook'[q] = playbook[q]
    BY <1>4
  <2>3. ~playbook'[q].exists => Of(q) = {}
    BY <1>1, <1>4 DEF DriftInv, RowsFit, TaskFits, Of
  <2> QED
    BY <1>1, <2>1, <2>2, <2>3, RestKept
<1> QED
  BY <1>3, <1>5, <1>6 DEF DriftInv

LEMMA CrashKeeps ==
  ASSUME DriftInv, Crash
  PROVE  DriftInv'
<1>1. /\ job' = [w \in Workers |-> IdleJob]
      /\ trust' = [p \in Playbooks |->
                     IF \E w \in Workers : Busy(w, p) THEN "lost" ELSE trust[p]]
      /\ task' = task /\ playbook' = playbook /\ dir' = dir /\ ready' = ready
  BY DEF Crash, copy, reviewed
<1>2. TypeOK'
  BY <1>1, IdleJobTyped DEF DriftInv, TypeOK
<1>3. \A w \in Workers : job'[w] = IdleJob
  BY <1>1
<1>4. RowsFit'
  <2>1. \A t \in Tasks : TaskFits(t)'
    BY <1>1 DEF DriftInv, RowsFit, TaskFits
  <2>2. \A w \in Workers : JobFits(job[w])' /\ CreationFits(w)'
    BY <1>3 DEF JobFits, CreationFits, IdleJob
  <2> QED
    BY <2>1, <2>2 DEF RowsFit
<1>5. ASSUME NEW p \in Playbooks, trust'[p] # "lost"
      PROVE  Kept(p)'
  <2>1. trust'[p] = trust[p] /\ Kept(p) /\ \A w \in Workers : ~Busy(w, p)
    BY <1>1, <1>5 DEF DriftInv
  <2>2. \A w \in Workers : ~Owns(w, p)
    BY <2>1 DEF Busy, Owns, Writing
  <2>3. (\A t \in Of(p) : ~Exposed(t)) /\ trust[p] # "regaining"
    BY <2>1, <2>2, RestIsSafe
  <2>4. \A w \in Workers : ~Owns(w, p)' /\ job'[w].pc = "idle"
    BY <1>3 DEF Owns, IdleJob, Writing
  <2>5. Of(p)' = Of(p) /\ \A t \in Of(p) : ~Exposed(t)'
    BY <1>1, <2>3 DEF Of, Exposed
  <2>6. ClearsTrue(p)' /\ CopiesTrue(p)' /\ SavesFit(p)'
    BY <2>4 DEF ClearsTrue, CopiesTrue, SavesFit
  <2> QED
    BY <2>1, <2>3, <2>4, <2>5, <2>6, GoesOn
<1> QED
  BY <1>2, <1>4, <1>5 DEF DriftInv
-----------------------------------------------------------------------------
(* The theorems. *)

LEMMA DriftInit == Init => DriftInv
<1> SUFFICES ASSUME Init
             PROVE  DriftInv
  OBVIOUS
<1>1. TypeOK
  BY IdleJobTyped DEF Init, TypeOK, NoPlaybook, NoTask, NoVariables, Variables
<1>2. RowsFit
  BY DEF Init, RowsFit, TaskFits, JobFits, CreationFits, IdleJob, NoTask
<1>3. ASSUME NEW p \in Playbooks
      PROVE  Kept(p)
  <2>1. \A w \in Workers : ~Busy(w, p) /\ ~Owns(w, p)
    BY DEF Init, Busy, Owns, IdleJob, Writing
  <2>2. Of(p) = {} /\ trust[p] = "kept"
    BY DEF Init, Of, NoTask
  <2> QED
    BY <2>1, <2>2 DEF Kept, Alone, Caught, ClearsTrue, CopiesTrue, Regains, SavesFit
<1> QED
  BY <1>1, <1>2, <1>3 DEF DriftInv

LEMMA DriftStep ==
  ASSUME "edit" \notin Happens
  PROVE  DriftInv /\ [Next]_vars => DriftInv'
<1> SUFFICES ASSUME DriftInv, [Next]_vars
             PROVE  DriftInv'
  OBVIOUS
<1>1. ASSUME NEW w \in Workers, Aside(w)
      PROVE  DriftInv'
  BY <1>1, AsideKeeps
<1>2. CASE User
  <2>1. CASE ResetStatus
    BY <2>1, ResetKeeps
  <2>2. ASSUME NEW t \in Tasks, DeleteTask(t)
        PROVE  DriftInv'
    BY <2>2, DeleteTaskKeeps
  <2>3. ASSUME NEW p \in Playbooks, CreatePlaybook(p) \/ DeletePlaybook(p)
        PROVE  DriftInv'
    BY <2>3, CreatePlaybookKeeps, DeletePlaybookKeeps
  <2>4. ASSUME NEW w \in Workers, NEW p \in Playbooks,
               ScanVariables(w, p) \/ SetReady(w, p) \/ SetOffline(w, p)
        PROVE  DriftInv'
    BY <1>1, <2>4 DEF Aside
  <2>5. ASSUME NEW w \in Workers, NEW p \in Playbooks,
               UpdateUserVariables(w, p) \/ ConfirmTaskReview(w, p)
        PROVE  DriftInv'
    BY <2>5, UpdateUserVariablesKeeps, ConfirmTaskReviewKeeps
  <2>6. ASSUME NEW w \in Workers, NEW p \in Playbooks, NEW t \in Tasks,
               CreateTask(w, t, p) \/ UpdateTask(w, t, p)
        PROVE  DriftInv'
    BY <2>6, CreateTaskKeeps, UpdateTaskKeeps
  <2> QED
    BY <1>2, <2>1, <2>2, <2>3, <2>4, <2>5, <2>6 DEF User
<1>3. CASE Sync
  BY <1>1, <1>3 DEF Sync, Aside
<1>4. ASSUME NEW w \in Workers, Step(w)
      PROVE  DriftInv'
  <2>1. CASE PersistScan(w)
    BY <2>1, PersistScanKeeps
  <2>2. CASE ListRelatedTasks(w)
    BY <2>2, ListRelatedTasksKeeps
  <2>3. CASE LoadVariables(w)
    BY <2>3, LoadVariablesKeeps
  <2>4. ASSUME NEW t \in Tasks, SyncTaskReviewStatus(w, t) \/ SaveTask(w, t)
        PROVE  DriftInv'
    BY <2>4, SyncTaskReviewStatusKeeps, SaveTaskKeeps
  <2> QED
    BY <1>1, <1>4, <2>1, <2>2, <2>3, <2>4 DEF Step, Aside
<1>5. CASE Crash
  BY <1>5, CrashKeeps
<1>6. CASE UNCHANGED vars
  <2>1. /\ UNCHANGED <<dir, ready, playbook, task, job, trust>>
    BY <1>6 DEF vars
  <2>2. TypeOK' /\ RowsFit'
    BY <2>1 DEF DriftInv, TypeOK, RowsFit, TaskFits, CreationFits, Holds
  <2>3. ASSUME NEW p \in Playbooks, trust[p] # "lost"
        PROVE  Kept(p)'
    BY <2>1, <2>3, RestKept DEF DriftInv, RowsFit, TaskFits, Of
  <2> QED
    BY <2>1, <2>2, <2>3 DEF DriftInv
<1> QED
  BY <1>2, <1>3, <1>4, <1>5, <1>6 DEF Next

\* As long as nobody edits a task that awaits its review, no task runs whose playbook's
\* variables are not those it was made for, once the writers of its playbook are done: for any
\* numbers of playbooks, tasks and workers, and whatever syncs, scans, reviews and crashes come.
THEOREM ReviewsCorrect ==
  ASSUME "edit" \notin Happens
  PROVE  Spec => []DriftIsFlagged
<1>1. DriftInv => DriftIsFlagged
  <2> SUFFICES ASSUME DriftInv, NEW t \in Tasks, task[t].exists, NEW p \in Playbooks,
                      p = task[t].playbook, trust[p] = "kept", \A w \in Workers : ~Busy(w, p),
                      ~task[t].review, Drifted(t)
               PROVE  FALSE
    BY DEF DriftIsFlagged, Executable, DriftInv, RowsFit, TaskFits
  <2>1. Kept(p) /\ \A w \in Workers : ~Owns(w, p)
    BY DEF DriftInv, Busy, Owns, Writing
  <2>2. t \in Of(p)
    BY DEF Of
  <2>3. ~Exposed(t)
    BY <2>1, <2>2, RestIsSafe
  <2>4. task[t].snapshot \in Variables /\ playbook[p].vars \in Variables
    BY DEF DriftInv, TypeOK
  <2> QED
    BY <2>3, <2>4, ChangedIs DEF Exposed, Drifted
<1>2. Init => DriftInv
  BY DriftInit
<1>3. DriftInv /\ [Next]_vars => DriftInv'
  BY DriftStep
<1> QED
  BY <1>1, <1>2, <1>3, PTL DEF Spec
=============================================================================
