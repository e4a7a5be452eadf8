--------------------------- MODULE FlowLifecycle ---------------------------
(***************************************************************************)
(* What a flow instance promises to the people and programs that read it:  *)
(* the steps its status may take, and the healing status its incident gets *)
(* in the same step.  Nothing is said of goroutines, approval tasks or     *)
(* crashes.  HealingFlow is shown to implement this specification.         *)
(***************************************************************************)
VARIABLES status,   \* flow_instances.status, "none" before the row exists
          incident  \* healing_status of the incident the instance is for

vars == <<status, incident>>

Active == {"pending", "running", "waiting_approval"}

Init == status = "none" /\ incident = "pending"

Goes(from, to) == status \in from /\ status' = to

Create  == Goes({"none"}, "pending") /\ incident' = "processing"
Start   == Goes({"pending"}, "running") /\ UNCHANGED incident
Wait    == Goes({"running"}, "waiting_approval") /\ UNCHANGED incident
Resume  == Goes({"waiting_approval"}, "running") /\ UNCHANGED incident
Finish  == Goes(Active, "completed") /\ incident' = "healed"
Fail    == Goes(Active, "failed") /\ incident' = "failed"
Retry   == Goes({"failed"}, "running") /\ incident' = "processing"
Recover == Goes({"failed"}, "running") /\ UNCHANGED incident
Cancel  == Goes(Active, "cancelled") /\ UNCHANGED incident
Dismiss == Goes({"cancelled"}, "cancelled") /\ incident' = "dismissed"

Next == \/ Create \/ Start \/ Wait \/ Resume \/ Finish \/ Fail
        \/ Retry \/ Recover \/ Cancel \/ Dismiss

Spec == Init /\ [][Next]_vars
=============================================================================
