------------------------------- MODULE References -------------------------------
(***************************************************************************)
(* The rows that name one another across the system's parts: a task names   *)
(* its playbook, secrets sources, templates and channels, a flow its tasks, *)
(* templates, channels and solution template, and so on.  Most of these     *)
(* names stand in JSON columns, which no database guards.  Who saves a row  *)
(* looks first whether what it names is there, who deletes a row counts     *)
(* first who names it, and nothing holds between the look and the write.    *)
(*                                                                         *)
(* Plain references are also foreign keys if the tables were made by the    *)
(* files of migrations/, and are not if AutoMigrate made them (database.go).*)
(* Notifications that are switched off are not validated, and name nothing  *)
(* here.                                                                    *)
(***************************************************************************)
EXTENDS Null, FiniteSets

CONSTANTS Objects,  \* identifiers of rows
          KindOf,   \* the table of each
          Editors,  \* requests at work at once
          Worlds    \* the sets of identifiers a behaviour may be about

Kinds == {"repo", "playbook", "task", "schedule", "source", "template", "channel",
          "solution", "flow", "rule"}

ASSUME ReferenceConstants ==
  /\ KindOf \in [Objects -> Kinds]
  /\ Worlds \subseteq SUBSET Objects
  /\ None \notin Objects

\* Who names whom: in a column of its own, by what its foreign key does when the
\* row named is deleted, or in JSON.
Cascade  == {<<"playbook", "repo">>, <<"schedule", "task">>}
Restricting == {<<"task", "playbook">>}
SetNull  == {<<"rule", "flow">>}
InJSON   == {<<"task", "source">>, <<"task", "template">>, <<"task", "channel">>,
             <<"schedule", "source">>,
             <<"flow", "task">>, <<"flow", "template">>, <<"flow", "channel">>,
             <<"flow", "solution">>}
Columns == Cascade \cup Restricting \cup SetNull

Pair(o, t) == <<KindOf[o], KindOf[t]>>

VARIABLES
  ids,    \* the identifiers of this behaviour
  keys,   \* the tables have foreign keys
  rows,   \* the rows that are there
  names,  \* what each row names, and the templates it names in notification_configs
  edit,   \* what each request is at
  raced   \* rows named by one request while another was deleting them (history)

references == <<ids, keys, rows, names, edit, raced>>

Names == [to : SUBSET Objects, listed : SUBSET Objects]
Nothing == [to |-> {}, listed |-> {}]
NoEdit == [at |-> "idle", id |-> None, names |-> Nothing]

ReferencesTypeOK ==
  /\ ids \in Worlds
  /\ keys \in BOOLEAN
  /\ rows \subseteq ids
  /\ names \in [Objects -> Names]
  /\ \A o \in Objects : names[o].listed \subseteq names[o].to
  /\ edit \in [Editors -> [at : {"idle", "create", "update", "delete"},
                           id : Objects \cup {None}, names : Names]]
  /\ raced \subseteq Objects

ReferencesInit ==
  /\ ids \in Worlds
  /\ keys \in BOOLEAN
  /\ rows = {}
  /\ names = [o \in Objects |-> Nothing]
  /\ edit = [u \in Editors |-> NoEdit]
  /\ raced = {}
-----------------------------------------------------------------------------
OfKind(T, k) == {t \in T : KindOf[t] = k}

\* A playbook has one repository, a task one playbook, a schedule one task, a rule
\* at most one flow, and a notification has a template and a channel.
WellFormed(o, T) ==
  /\ \A k \in {p[2] : p \in {q \in Columns : q[1] = KindOf[o]}} :
       Cardinality(OfKind(T, k)) \in (IF KindOf[o] = "rule" THEN {0, 1} ELSE {1})
  /\ OfKind(T, "template") = {} <=> OfKind(T, "channel") = {}

MayName(o) == {T \in SUBSET {t \in ids : Pair(o, t) \in Columns \cup InJSON} : WellFormed(o, T)}

\* Only flows have notification_configs.
MayList(o, T) == IF KindOf[o] = "flow" THEN SUBSET OfKind(T, "template") ELSE {{}}

BeingDeleted(t) == \E u \in Editors : edit[u].at = "delete" /\ edit[u].id = t
BeingNamed(t) == \E u \in Editors : t \in edit[u].names.to

\* Bound: an identifier is used again once nothing mentions it.
Unmentioned(o) == /\ \A x \in rows : o \notin names[x].to
                  /\ \A u \in Editors : o # edit[u].id /\ o \notin edit[u].names.to
-----------------------------------------------------------------------------
(* Saves. *)

\* The request is between its look and its write.
Enters(u, at, o, N) ==
  /\ edit' = [edit EXCEPT ![u] = [at |-> at, id |-> o, names |-> N]]
  /\ raced' = raced \cup {t \in N.to : BeingDeleted(t)}
  /\ UNCHANGED <<ids, keys, rows, names>>

\* What a create looks at; in a source, template or channel also that it is active.
Create(u, o) ==
  /\ edit[u] = NoEdit
  /\ o \in ids \ rows
  /\ Unmentioned(o)
  /\ \E T \in MayName(o) : \E L \in MayList(o, T) :
       /\ T \subseteq rows
       /\ Enters(u, "create", o, [to |-> T, listed |-> L])

\* A task's playbook is looked at if it is another one, a schedule's task is never
\* another, and a playbook's repository neither.
Update(u, o) ==
  /\ edit[u] = NoEdit
  /\ o \in rows
  /\ \E T \in MayName(o) : \E L \in MayList(o, T) :
       LET kept == {t \in T \cap names[o].to : Pair(o, t) \in Cascade \cup Restricting}
       IN  /\ T \ kept \subseteq rows
           /\ KindOf[o] \in {"schedule", "playbook"}
                => \A t \in T : Pair(o, t) \in Columns => t \in kept
           /\ Enters(u, "update", o, [to |-> T, listed |-> L])

\* Reads the whole task and writes it back, but for what the review says.
ConfirmReview(u, o) ==
  /\ edit[u] = NoEdit
  /\ o \in rows
  /\ KindOf[o] = "task"
  /\ OfKind(names[o].to, "playbook") \subseteq rows
  /\ Enters(u, "update", o, names[o])

\* With foreign keys a column cannot name what is gone; an update of a row that is
\* gone writes nothing.
Save(u) ==
  LET o == edit[u].id
  IN  /\ edit[u].at \in {"create", "update"}
      /\ keys => \A t \in edit[u].names.to : Pair(o, t) \in Columns => t \in rows
      /\ IF edit[u].at = "create" \/ o \in rows
         THEN rows' = rows \cup {o} /\ names' = [names EXCEPT ![o] = edit[u].names]
         ELSE UNCHANGED <<rows, names>>
      /\ edit' = [edit EXCEPT ![u] = NoEdit]
      /\ raced' = IF edit[u].at = "create" THEN raced \ {o} ELSE raced
      /\ UNCHANGED <<ids, keys>>
-----------------------------------------------------------------------------
(* Deletes. *)

\* What the counts before a delete find: everything but what is in a flow's
\* notification_configs (CountFlowsUsingTemplate).
NamedBy(o) == {x \in rows : o \in names[x].to \ names[x].listed}

BeginDelete(u, o) ==
  /\ edit' = [edit EXCEPT ![u] = [NoEdit EXCEPT !.at = "delete", !.id = o]]
  /\ raced' = IF BeingNamed(o) THEN raced \cup {o} ELSE raced
  /\ UNCHANGED <<ids, keys, rows, names>>

\* Mutant: nobody is counted.
DeleteUncounted(u, o) ==
  /\ edit[u] = NoEdit
  /\ o \in rows
  /\ BeginDelete(u, o)

\* A schedule must be off besides, a flow not running, a channel never used.
CountUsers(u, o) ==
  /\ edit[u] = NoEdit
  /\ o \in rows
  /\ NamedBy(o) = {}
  /\ BeginDelete(u, o)

\* What goes with a row: with foreign keys those that cascade.
GoWith(o) ==
  {o} \cup {x \in rows : keys /\ o \in names[x].to /\ Pair(x, o) \in Cascade}

Delete(u) ==
  LET o    == edit[u].id
      gone == GoWith(o)
  IN  /\ edit[u].at = "delete"
      /\ keys => \A x \in rows \ gone : \A t \in names[x].to \cap gone :
                   Pair(x, t) \notin Restricting
      /\ rows' = rows \ gone
      /\ names' = [x \in Objects |->
                     IF x \in gone THEN Nothing
                     ELSE [names[x] EXCEPT !.to = {t \in @ : ~(/\ keys
                                                               /\ t \in gone
                                                               /\ Pair(x, t) \in SetNull)}]]
      /\ edit' = [edit EXCEPT ![u] = NoEdit]
      /\ UNCHANGED <<ids, keys, raced>>

\* A check fails, the database refuses, or the process dies.
EditFails(u) ==
  /\ edit[u] # NoEdit
  /\ edit' = [edit EXCEPT ![u] = NoEdit]
  /\ UNCHANGED <<ids, keys, rows, names, raced>>

ReferencesNext ==
  \E u \in Editors : \/ \E o \in Objects : \/ Create(u, o)
                                           \/ Update(u, o)
                                           \/ ConfirmReview(u, o)
                                           \/ CountUsers(u, o)
                     \/ Save(u)
                     \/ Delete(u)
                     \/ EditFails(u)

ReferencesSpec == ReferencesInit /\ [][ReferencesNext]_references
-----------------------------------------------------------------------------
(* What the looks and counts are worth. *)

\* Whatever a row names is there, whoever saved or deleted what: with foreign keys
\* each column, and everything else but what was named while it was being deleted,
\* and a template that only a flow's notification_configs name (validateFlowGraph,
\* validateTaskForSave, DeleteTask, DeleteChannel, DeleteSource and the like).
ReferencesExist ==
  \A o \in rows : \A t \in names[o].to :
    \/ t \in rows
    \/ /\ ~(keys /\ Pair(o, t) \in Columns)
       /\ t \in raced \/ t \in names[o].listed
=============================================================================
