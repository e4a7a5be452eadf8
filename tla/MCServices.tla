----------------------------- MODULE MCServices -----------------------------
(* Instances for TLC of three modules that share no variable: a behaviour is  *)
(* of one of them, chosen at the start, while the others stay where they are.*)
EXTENDS IncidentIntake, SourceSync, NotificationDelivery, TLC

CONSTANTS w1, w2, x1, x2, j1, j2, rule1

TwoWorkers == {w1, w2}
OneItem == {x1}
TwoItems == {x1, x2}
OneRule == {rule1}
TwoInstances == {j1, j2}

VARIABLE part   \* the module a behaviour is of

services == <<part, intake, syncing, delivery>>

ServicesInit ==
  /\ part \in {"intake", "sync", "delivery"}
  /\ IntakeInit /\ (part # "intake" => rules = {})
  /\ SyncInit /\ (part # "sync" => ~plugin.enabled /\ due = Records)
  /\ DeliveryInit

Intakes == part = "intake" /\ UNCHANGED <<part, syncing, delivery>>
Syncings == part = "sync" /\ UNCHANGED <<part, intake, delivery>>
Deliveries == part = "delivery" /\ UNCHANGED <<part, intake, syncing>>

ServicesNext == \/ Intakes /\ IntakeNext
                \/ Syncings /\ SyncNext
                \/ Deliveries /\ DeliveryNext

\* The fairness of the three modules: since a behaviour is of one of them,
\* one condition serves a step of each.
ServicesSpec ==
  /\ ServicesInit /\ [][ServicesNext]_services
  /\ WF_services(Syncings /\ Tick)
  /\ WF_services(\/ Intakes /\ ListUnscanned
                 \/ Syncings /\ Scheduling
                 \/ Deliveries /\ RetryStep)
  /\ \A w \in TwoWorkers : WF_services(\/ Intakes /\ RequestStep(w)
                                       \/ Syncings /\ SyncStep(w)
                                       \/ Deliveries /\ SenderStep(w))
  /\ WF_services(\/ Intakes /\ ScanStep(x1)
                 \/ Deliveries /\ RetryComes(x1))
  /\ WF_services(Deliveries /\ RetryComes(x2))

\* The variables of every module have their types.
ServicesTypeOK == IntakeTypeOK /\ SyncTypeOK /\ DeliveryTypeOK
=============================================================================
