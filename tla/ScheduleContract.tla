-------------------------- MODULE ScheduleContract --------------------------
(***************************************************************************)
(* What the scheduler promises about the schedules of a tenant: only a     *)
(* schedule its user armed is claimed, only a claimed one is fired, and    *)
(* while it is being followed it is not fired again.  A claim may be       *)
(* dropped, a disarming may come too late for a claim, and a restart       *)
(* forgets claims and fires.  Only a user arms.                            *)
(***************************************************************************)
CONSTANT Schedules

VARIABLES armed,    \* schedules that are enabled
          claimed,  \* schedules the scan has claimed and not yet handed over
          firing    \* schedules whose trigger or run is being followed

vars == <<armed, claimed, firing>>

Init == armed = {} /\ claimed = {} /\ firing = {}

Arm(s)    == armed' = armed \cup {s} /\ UNCHANGED <<claimed, firing>>
Disarm(s) == armed' = armed \ {s} /\ UNCHANGED <<claimed, firing>>

Claim(s) == /\ s \in armed \ claimed
            /\ claimed' = claimed \cup {s}
            /\ UNCHANGED <<armed, firing>>

Drop(s) == claimed' = claimed \ {s} /\ UNCHANGED <<armed, firing>>

Fire(s) == /\ s \in claimed \ firing
           /\ claimed' = claimed \ {s}
           /\ firing' = firing \cup {s}
           /\ UNCHANGED armed

End(s) == firing' = firing \ {s} /\ UNCHANGED <<armed, claimed>>

Restart == claimed' = {} /\ firing' = {} /\ UNCHANGED armed

Next == Restart \/ \E s \in Schedules : \/ Arm(s) \/ Disarm(s)
                                        \/ Claim(s) \/ Drop(s)
                                        \/ Fire(s) \/ End(s)

Spec == Init /\ [][Next]_vars
=============================================================================
