---------------------------- MODULE IncidentIntake ----------------------------
(***************************************************************************)
(* From an incident that arrived to the flow that heals it: the scan of the *)
(* healing scheduler, the pool of incidents that wait for a user, and the   *)
(* requests of users on one incident.  Some statements set a few columns of *)
(* the row, others write the whole row as it was read before a call to the  *)
(* ticket system.                                                          *)
(*                                                                         *)
(* How a flow runs is HealingFlow's matter; here it is live or over.  The   *)
(* tables are those of migrations/, with their foreign keys.                *)
(***************************************************************************)
EXTENDS Null

CONSTANTS Incidents,  \* identifiers of incidents rows
          Rules,      \* identifiers of healing_rules rows
          Instances,  \* identifiers of flow_instances rows
          Users       \* requests at work at once

ASSUME IntakeConstants == None \notin Incidents \cup Rules \cup Instances

VARIABLES
  incident,  \* the incidents rows
  rules,     \* the healing_rules rows
  flow,      \* of each flow_instances row, its incident and whether it is live
  todo,      \* the incidents a scan has listed and not processed
  req,       \* what each request is at
  orderly    \* whether an incident's writers kept out of each other's way (history)

intake == <<incident, rules, flow, todo, req, orderly>>

HealingStatuses == {"pending", "processing", "healed", "failed", "skipped", "dismissed"}

IncidentRows == [exists : BOOLEAN, scanned : BOOLEAN, status : HealingStatuses,
                 rule : Rules \cup {None}, instance : Instances \cup {None}]

NoIncident == [exists |-> FALSE, scanned |-> FALSE, status |-> "pending",
               rule |-> None, instance |-> None]
NoFlow == [of |-> None, live |-> FALSE]
NoRequest == [at |-> "idle", id |-> None, rule |-> None, row |-> NoIncident]

Requests == [at : {"idle", "trigger", "restore", "cancelled", "save"},
             id : Incidents \cup {None}, rule : Rules \cup {None}, row : IncidentRows]

IntakeTypeOK ==
  /\ incident \in [Incidents -> IncidentRows]
  /\ rules \subseteq Rules
  /\ flow \in [Instances -> [of : Incidents \cup {None}, live : BOOLEAN]]
  /\ todo \subseteq Incidents
  /\ req \in [Users -> Requests]
  /\ orderly \in [Incidents -> BOOLEAN]

IntakeInit ==
  /\ incident = [i \in Incidents |-> NoIncident]
  /\ rules \in SUBSET Rules
  /\ flow = [j \in Instances |-> NoFlow]
  /\ todo = {}
  /\ req = [u \in Users |-> NoRequest]
  /\ orderly = [i \in Incidents |-> TRUE]
-----------------------------------------------------------------------------
Live(i) == {j \in Instances : flow[j].live /\ flow[j].of = i}
AtWork(i) == \E u \in Users : req[u].id = i

\* Bound: an identifier is used again once nothing refers to its old row.
Unused(j) == /\ flow[j] = NoFlow
             /\ \A i \in Incidents : incident[i].instance # j
             /\ \A u \in Users : req[u].row.instance # j

Disturb(I) == orderly' = [i \in Incidents |-> orderly[i] /\ i \notin I]

\* A request on an incident another request is at work on.
Enter(i) == Disturb(IF AtWork(i) THEN {i} ELSE {})
-----------------------------------------------------------------------------
(* The scan. *)

\* saveIncident.  A later sync touches none of these columns.
Arrive(i) ==
  /\ ~incident[i].exists
  /\ incident' = [incident EXCEPT ![i].exists = TRUE]
  /\ UNCHANGED <<rules, flow, todo, req, orderly>>

\* Whatever their status.
ListUnscanned ==
  /\ todo = {}
  /\ todo' = {i \in Incidents : incident[i].exists /\ ~incident[i].scanned}
  /\ todo' # {}
  /\ UNCHANGED <<incident, rules, flow, req, orderly>>

\* No rule, or none that matches.
SkipIncident(i) ==
  /\ i \in todo
  /\ todo' = todo \ {i}
  /\ incident' = [incident EXCEPT ![i].status = "skipped", ![i].scanned = TRUE]
  /\ UNCHANGED <<rules, flow, req, orderly>>

\* A rule to be triggered by hand, or whose flow could not be created.
AwaitTrigger(i, r) ==
  /\ i \in todo
  /\ r \in rules
  /\ todo' = todo \ {i}
  /\ incident' = [incident EXCEPT ![i].scanned = TRUE, ![i].rule = r]
  /\ UNCHANGED <<rules, flow, req, orderly>>

\* Mutant: the incident is not marked scanned.
StartsUnscanned(i, r, j) ==
  /\ flow' = [flow EXCEPT ![j] = [of |-> i, live |-> TRUE]]
  /\ incident' = [incident EXCEPT ![i].status = "processing", ![i].rule = r,
                                  ![i].instance = j]

\* CreateWithIncidentSync: one transaction, whatever the row has become.
Starts(i, r, j) ==
  /\ flow' = [flow EXCEPT ![j] = [of |-> i, live |-> TRUE]]
  /\ incident' = [incident EXCEPT ![i].scanned = TRUE, ![i].status = "processing",
                                  ![i].rule = r, ![i].instance = j]

CreateFlow(i, r, j) ==
  /\ i \in todo
  /\ r \in rules
  /\ Unused(j)
  /\ todo' = todo \ {i}
  /\ Starts(i, r, j)
  /\ UNCHANGED <<rules, req, orderly>>

\* No statement succeeds, perhaps since the rule is gone: the next scan finds it.
ScanFails(i) ==
  /\ i \in todo
  /\ todo' = todo \ {i}
  /\ UNCHANGED <<incident, rules, flow, req, orderly>>
-----------------------------------------------------------------------------
(* Requests on one incident: a read with its checks, then a write without any. *)

\* Mutant: it may have been triggered before.
TriggerAgain(u, i) ==
  /\ req[u] = NoRequest
  /\ incident[i].exists
  /\ incident[i].rule # None
  /\ req' = [req EXCEPT ![u] = [NoRequest EXCEPT !.at = "trigger", !.id = i,
                                                 !.rule = incident[i].rule]]
  /\ Enter(i)
  /\ UNCHANGED <<incident, rules, flow, todo>>

TriggerIncidentManually(u, i) ==
  /\ req[u] = NoRequest
  /\ incident[i].exists
  /\ incident[i].rule # None
  /\ incident[i].instance = None
  /\ req' = [req EXCEPT ![u] = [NoRequest EXCEPT !.at = "trigger", !.id = i,
                                                 !.rule = incident[i].rule]]
  /\ Enter(i)
  /\ UNCHANGED <<incident, rules, flow, todo>>

\* TriggerManual reads the incident and the rule again, and checks neither.
CreateTriggered(u, j) ==
  /\ req[u].at = "trigger"
  /\ req[u].rule \in rules
  /\ Unused(j)
  /\ Starts(req[u].id, req[u].rule, j)
  /\ req' = [req EXCEPT ![u] = NoRequest]
  /\ UNCHANGED <<rules, todo, orderly>>

\* The rule is gone, has no flow, or the transaction fails.
TriggerFails(u) ==
  /\ req[u].at = "trigger"
  /\ req' = [req EXCEPT ![u] = NoRequest]
  /\ UNCHANGED <<incident, rules, flow, todo, orderly>>

RestorePendingTriggerIncident(u, i) ==
  /\ req[u] = NoRequest
  /\ incident[i].exists
  /\ incident[i].status = "dismissed"
  /\ incident[i].instance = None
  /\ incident[i].rule # None
  /\ req' = [req EXCEPT ![u] = [NoRequest EXCEPT !.at = "restore", !.id = i]]
  /\ Enter(i)
  /\ UNCHANGED <<incident, rules, flow, todo>>

RestorePendingTrigger(u) ==
  /\ req[u].at = "restore"
  /\ incident' = [incident EXCEPT ![req[u].id].status = "pending",
                                  ![req[u].id].scanned = TRUE,
                                  ![req[u].id].instance = None]
  /\ req' = [req EXCEPT ![u] = NoRequest]
  /\ UNCHANGED <<rules, flow, todo, orderly>>

\* Reads the row, changes its status and writes all of it later; a row the scan
\* has not decided yet is written back undecided.
Load(u, i, status) ==
  /\ req' = [req EXCEPT ![u] = [NoRequest EXCEPT !.at = "save", !.id = i,
                                  !.row = [incident[i] EXCEPT !.status = status]]]
  /\ Disturb(IF (\E v \in Users \ {u} : req[v].id = i) \/ ~incident[i].scanned
             THEN {i} ELSE {})
  /\ UNCHANGED <<incident, rules, flow, todo>>

DismissIncident(u, i) ==
  /\ req[u] = NoRequest
  /\ incident[i].exists
  /\ incident[i].status = "pending"
  /\ Load(u, i, "dismissed")

\* A user, or a flow that ended well; between read and write the ticket system is
\* told, and where that fails nothing is written.
CloseIncident(u, i) ==
  /\ req[u] = NoRequest
  /\ incident[i].exists
  /\ Load(u, i, "healed")

LoadCancelled(u) ==
  /\ req[u].at = "cancelled"
  /\ Load(u, req[u].id, "dismissed")

SaveRow(u) ==
  /\ req[u].at = "save"
  /\ req[u].row.rule \in rules \cup {None}
  /\ incident' = [incident EXCEPT ![req[u].id] = req[u].row]
  /\ req' = [req EXCEPT ![u] = NoRequest]
  /\ UNCHANGED <<rules, flow, todo, orderly>>

\* The ticket system refuses a close, or the foreign key a rule that is gone.
WritebackFails(u) ==
  /\ req[u].at = "save"
  /\ req[u].row.status = "healed" \/ req[u].row.rule \notin rules \cup {None}
  /\ req' = [req EXCEPT ![u] = NoRequest]
  /\ UNCHANGED <<incident, rules, flow, todo, orderly>>
-----------------------------------------------------------------------------
(* Resets, rules, and the ends of flows. *)

\* ResetScan of one row, BatchResetScan of those in a set.
BatchResetScan(I) ==
  /\ \A i \in I : incident[i].exists
  /\ incident' = [i \in Incidents |->
                    IF i \in I THEN [NoIncident EXCEPT !.exists = TRUE] ELSE incident[i]]
  /\ orderly' = [i \in Incidents |->
                   IF i \in I THEN Live(i) = {} /\ ~AtWork(i) ELSE orderly[i]]
  /\ UNCHANGED <<rules, flow, todo, req>>

CreateRule(r) ==
  /\ r \notin rules
  /\ \A u \in Users : r \notin {req[u].rule, req[u].row.rule}
  /\ rules' = rules \cup {r}
  /\ UNCHANGED <<incident, flow, todo, req, orderly>>

InPool(row) == /\ row.exists /\ row.scanned
               /\ row.rule # None /\ row.instance = None
               /\ row.status \notin {"skipped", "dismissed"}

\* Only instances keep a rule from being deleted, and not with force; the foreign
\* key takes it out of the incidents, those in the pool included.
DeleteRule(r) ==
  /\ r \in rules
  /\ rules' = rules \ {r}
  /\ incident' = [i \in Incidents |-> IF incident[i].rule = r
                                      THEN [incident[i] EXCEPT !.rule = None] ELSE incident[i]]
  /\ Disturb({i \in Incidents : incident[i].rule = r})
  /\ UNCHANGED <<flow, todo, req>>

\* UpdateStatusWithIncidentSync: the incident of the flow, whatever that points at.
EndFlow(j, status) ==
  /\ flow[j].live
  /\ flow' = [flow EXCEPT ![j] = IF status = "failed" THEN [@ EXCEPT !.live = FALSE]
                                 ELSE NoFlow]
  /\ incident' = [incident EXCEPT ![flow[j].of].status = status]
  /\ UNCHANGED <<rules, todo, req, orderly>>

\* CancelInstance, its last part as a request of its own.
CancelFlow(u, j) ==
  /\ req[u] = NoRequest
  /\ flow[j].live
  /\ flow' = [flow EXCEPT ![j] = NoFlow]
  /\ req' = [req EXCEPT ![u] = [NoRequest EXCEPT !.at = "cancelled", !.id = flow[j].of]]
  /\ Enter(flow[j].of)
  /\ UNCHANGED <<incident, rules, todo>>

RetryFlow(j) ==
  /\ flow[j].of # None
  /\ ~flow[j].live
  /\ flow' = [flow EXCEPT ![j].live = TRUE]
  /\ incident' = [incident EXCEPT ![flow[j].of].status = "processing"]
  /\ Disturb({i \in {flow[j].of} : incident[i].instance # j \/ AtWork(i)})
  /\ UNCHANGED <<rules, todo, req>>

\* A failed instance nobody retries any more.
Forget(j) ==
  /\ flow[j].of # None
  /\ ~flow[j].live
  /\ flow' = [flow EXCEPT ![j] = NoFlow]
  /\ UNCHANGED <<incident, rules, todo, req, orderly>>

IntakeCrash ==
  /\ todo' = {}
  /\ req' = [u \in Users |-> NoRequest]
  /\ Disturb({i \in Incidents : AtWork(i)})
  /\ UNCHANGED <<incident, rules, flow>>

ScanStep(i) == \/ SkipIncident(i)
               \/ \E r \in Rules : AwaitTrigger(i, r)
               \/ \E r \in Rules, j \in Instances : CreateFlow(i, r, j)

RequestStep(u) == \/ \E j \in Instances : CreateTriggered(u, j)
                  \/ TriggerFails(u)
                  \/ RestorePendingTrigger(u)
                  \/ LoadCancelled(u)
                  \/ SaveRow(u)
                  \/ WritebackFails(u)

IntakeUser == \/ \E u \in Users, i \in Incidents : \/ TriggerIncidentManually(u, i)
                                                  \/ RestorePendingTriggerIncident(u, i)
                                                  \/ DismissIncident(u, i)
                                                  \/ CloseIncident(u, i)
              \/ \E u \in Users, j \in Instances : CancelFlow(u, j)
              \/ \E j \in Instances : RetryFlow(j)
              \/ \E I \in SUBSET Incidents \ {{}} : BatchResetScan(I)
              \/ \E r \in Rules : CreateRule(r) \/ DeleteRule(r)

IntakeNext == \/ IntakeUser
              \/ \E u \in Users : RequestStep(u)
              \/ ListUnscanned
              \/ \E i \in Incidents : Arrive(i) \/ ScanStep(i) \/ ScanFails(i)
              \/ \E j \in Instances, s \in {"healed", "failed"} : EndFlow(j, s)
              \/ \E j \in Instances : Forget(j)
              \/ IntakeCrash

IntakeSpec == IntakeInit /\ [][IntakeNext]_intake

\* The scheduler's ticker, its loop over the list, and the server's goroutines.
FairIntakeSpec == /\ IntakeSpec
                  /\ WF_intake(ListUnscanned)
                  /\ \A i \in Incidents : WF_intake(ScanStep(i))
                  /\ \A u \in Users : WF_intake(RequestStep(u))
-----------------------------------------------------------------------------
(* What becomes of an incident. *)

\* No flow heals an incident beside the one its row names, as long as requests on
\* it take turns, leave it alone before its first scan, and it is not reset while
\* its flow is live (createFlowInstance, TriggerIncidentManually, Restore).
OneLiveFlow ==
  \A i \in Incidents : orderly[i] => \A j \in Live(i) : incident[i].instance = j

\* An incident is scanned, waits where users see it if it is pending, and has a
\* live flow if it is processing.
Decided(i) ==
  LET row == incident[i]
  IN  /\ row.scanned
      /\ row.status = "pending" => InPool(row)
      /\ row.status = "processing" => Live(i) # {}

\* Once users rest and no statement fails, every incident is decided: none is left
\* where neither the scan nor a user will find it (scan, MarkScanned, ResetScan).
EveryIncidentIsDecided ==
  <>[][/\ ~IntakeUser /\ ~IntakeCrash
       /\ \A i \in Incidents : ~ScanFails(i)]_intake
    => \A i \in Incidents : <>[](incident[i].exists /\ orderly[i] => Decided(i))
=============================================================================
