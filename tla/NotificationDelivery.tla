------------------------- MODULE NotificationDelivery -------------------------
(***************************************************************************)
(* Notifications of one channel: a log is written, the message is sent to   *)
(* the provider if the channel's rate allows, the outcome is written to the *)
(* log, and a loop sends again what failed, as often as the channel's retry *)
(* configuration says.  The provider may accept a message and its answer be *)
(* lost; a write may fail; the process may die between the two.             *)
(*                                                                         *)
(* A failed log is written by the retry loop alone, so the copies the loop  *)
(* has listed are the rows.                                                 *)
(***************************************************************************)
EXTENDS Null, Naturals

CONSTANTS Notices,     \* identifiers of notification_logs rows
          Senders,     \* calls of Send at work at once
          MaxRetries,  \* retry_config.max_retries; 0 also stands for none
          RateLimit    \* rate_limit_per_minute; 0 is no limit

ASSUME DeliveryConstants == /\ MaxRetries \in Nat
                            /\ RateLimit \in Nat
                            /\ None \notin Notices

VARIABLES
  channel,   \* the channel: switched on or off, or deleted
  window,    \* the messages of the last minute the rate limiter counts
  log,       \* the notification_logs rows
  sender,    \* what each call of Send is at
  retry,     \* the retry loop: the logs it has left, the one in hand
  accepted,  \* how often the provider accepted a message, to 2 (history)
  lost,      \* an answer or an outcome of the message was lost (history)
  excused    \* failed for good for another reason than its budget (history)

delivery == <<channel, window, log, sender, retry, accepted, lost, excused>>

Logs == [status : {"none", "pending", "sent", "failed"}, tries : 0 .. MaxRetries,
         next : {"none", "later", "due"}]
NoLog == [status |-> "none", tries |-> 0, next |-> "none"]

Calls == {"idle", "logged", "sending", "sent", "refused"}
NoCall == [at |-> "idle", id |-> None]

DeliveryTypeOK ==
  /\ channel \in {"on", "off", "gone"}
  /\ window \in 0 .. RateLimit
  /\ log \in [Notices -> Logs]
  /\ sender \in [Senders -> [at : Calls, id : Notices \cup {None}]]
  /\ retry \in [at : Calls \ {"logged"}, id : Notices \cup {None}, todo : SUBSET Notices]
  /\ accepted \in [Notices -> 0 .. 2]
  /\ lost \subseteq Notices /\ excused \subseteq Notices

DeliveryInit ==
  /\ channel = "on"
  /\ window = 0
  /\ log = [n \in Notices |-> NoLog]
  /\ sender = [w \in Senders |-> NoCall]
  /\ retry = [at |-> "idle", id |-> None, todo |-> {}]
  /\ accepted = [n \in Notices |-> 0]
  /\ lost = {} /\ excused = {}
-----------------------------------------------------------------------------
(* The provider, outside the program: an answer may be lost on its way. *)

Accept(n) == accepted' = [accepted EXCEPT ![n] = IF @ = 2 THEN 2 ELSE @ + 1]

Answers(n, call, next) ==
  \/ Accept(n) /\ next = [call EXCEPT !.at = "sent"] /\ UNCHANGED lost
  \/ next = [call EXCEPT !.at = "refused"] /\ UNCHANGED <<accepted, lost>>
  \/ Accept(n) /\ next = [call EXCEPT !.at = "refused"] /\ lost' = lost \cup {n}
-----------------------------------------------------------------------------
(* sendToChannel. *)

CreateLog(w, n) ==
  /\ sender[w] = NoCall
  /\ channel = "on"
  /\ log[n].status = "none"
  /\ log' = [log EXCEPT ![n].status = "pending"]
  /\ sender' = [sender EXCEPT ![w] = [at |-> "logged", id |-> n]]
  /\ UNCHANGED <<channel, window, retry, accepted, lost, excused>>

Allow(w) ==
  /\ sender[w].at = "logged"
  /\ RateLimit > 0 => window < RateLimit
  /\ window' = IF RateLimit > 0 THEN window + 1 ELSE window
  /\ sender' = [sender EXCEPT ![w].at = "sending"]
  /\ UNCHANGED <<channel, log, retry, accepted, lost, excused>>

\* No time for a retry is set.
RateLimited(w) ==
  /\ sender[w].at = "logged"
  /\ RateLimit > 0
  /\ window = RateLimit
  /\ log' = [log EXCEPT ![sender[w].id].status = "failed"]
  /\ excused' = excused \cup {sender[w].id}
  /\ sender' = [sender EXCEPT ![w] = NoCall]
  /\ UNCHANGED <<channel, window, retry, accepted, lost>>

SendMessage(w) ==
  /\ sender[w].at = "sending"
  /\ \E call \in [at : Calls, id : {sender[w].id}] :
       /\ Answers(sender[w].id, sender[w], call)
       /\ sender' = [sender EXCEPT ![w] = call]
  /\ UNCHANGED <<channel, window, log, retry, excused>>

\* Mutant: the last retry is not planned.
PlanFewer(tries) == IF tries + 1 < MaxRetries THEN "later" ELSE "none"

\* scheduleNextRetry, and its copy in the retry loop.
PlanRetry(tries) == IF tries < MaxRetries THEN "later" ELSE "none"

ApplySendResponse(w) ==
  LET n == sender[w].id
  IN  /\ sender[w].at \in {"sent", "refused"}
      /\ log' = [log EXCEPT ![n] = IF sender[w].at = "sent" THEN [@ EXCEPT !.status = "sent"]
                                   ELSE [@ EXCEPT !.status = "failed",
                                                  !.next = PlanRetry(log[n].tries)]]
      /\ sender' = [sender EXCEPT ![w] = NoCall]
      /\ UNCHANGED <<channel, window, retry, accepted, lost, excused>>

\* A write of the log fails: it stays pending for good.
OutcomeLost(w) ==
  /\ sender[w].at \in {"logged", "sent", "refused"}
  /\ lost' = lost \cup {sender[w].id}
  /\ sender' = [sender EXCEPT ![w] = NoCall]
  /\ UNCHANGED <<channel, window, log, retry, accepted, excused>>
-----------------------------------------------------------------------------
(* RetryFailed. *)

ListRetries ==
  /\ retry.at = "idle"
  /\ retry.todo = {}
  /\ \E n \in Notices : log[n].status = "failed" /\ log[n].next = "due"
  /\ retry' = [retry EXCEPT !.todo = {n \in Notices : /\ log[n].status = "failed"
                                                      /\ log[n].next = "due"}]
  /\ UNCHANGED <<channel, window, log, sender, accepted, lost, excused>>

NoMoreRetries(n) ==
  /\ retry.at = "idle"
  /\ n \in retry.todo
  /\ log' = [log EXCEPT ![n].next = "none"]
  /\ retry' = [retry EXCEPT !.todo = @ \ {n}]
  /\ excused' = excused \cup {n}
  /\ UNCHANGED <<channel, window, sender, accepted, lost>>

RetryInactive(n) ==
  /\ channel = "off"
  /\ NoMoreRetries(n)

\* ErrNotificationChannelNotFound: the channel was deleted.
RetryOrphan(n) ==
  /\ channel = "gone"
  /\ NoMoreRetries(n)

\* The format stands in a template that is gone or cannot be read: no more retries.
FormatLost(n) ==
  /\ retry.at = "idle"
  /\ n \in retry.todo
  /\ channel = "on"
  /\ log' = [log EXCEPT ![n].next = "none", ![n].tries = @ + 1]
  /\ retry' = [retry EXCEPT !.todo = @ \ {n}]
  /\ excused' = excused \cup {n}
  /\ UNCHANGED <<channel, window, sender, accepted, lost>>

\* The rate is not asked.
RetryMessage(n) ==
  /\ retry.at = "idle"
  /\ n \in retry.todo
  /\ channel = "on"
  /\ retry' = [at |-> "sending", id |-> n, todo |-> retry.todo \ {n}]
  /\ UNCHANGED <<channel, window, log, sender, accepted, lost, excused>>

RetryAnswered ==
  /\ retry.at = "sending"
  /\ \E call \in [at : Calls, id : {retry.id}, todo : {retry.todo}] :
       /\ Answers(retry.id, retry, call)
       /\ retry' = call
  /\ UNCHANGED <<channel, window, log, sender, excused>>

\* Mutant: only failures are written.
WriteRefusals ==
  LET n == retry.id
      tries == log[n].tries + 1
  IN  /\ retry.at \in {"sent", "refused"}
      /\ log' = IF retry.at = "sent" THEN log
                ELSE [log EXCEPT ![n].tries = tries, ![n].next = PlanRetry(tries)]
      /\ retry' = [retry EXCEPT !.at = "idle", !.id = None]
      /\ UNCHANGED <<channel, window, sender, accepted, lost, excused>>

WriteRetry ==
  LET n == retry.id
      tries == log[n].tries + 1
  IN  /\ retry.at \in {"sent", "refused"}
      /\ log' = [log EXCEPT ![n] = IF retry.at = "sent"
                                   THEN [status |-> "sent", tries |-> tries, next |-> "none"]
                                   ELSE [@ EXCEPT !.tries = tries, !.next = PlanRetry(tries)]]
      /\ retry' = [retry EXCEPT !.at = "idle", !.id = None]
      /\ UNCHANGED <<channel, window, sender, accepted, lost, excused>>

\* The row keeps its count and its time: the message is sent once more.
RetryLost ==
  /\ retry.at \in {"sent", "refused"}
  /\ lost' = lost \cup {retry.id}
  /\ retry' = [retry EXCEPT !.at = "idle", !.id = None]
  /\ UNCHANGED <<channel, window, log, sender, accepted, excused>>

\* The channel cannot be read.
RetrySkips(n) ==
  /\ retry.at = "idle"
  /\ n \in retry.todo
  /\ retry' = [retry EXCEPT !.todo = @ \ {n}]
  /\ UNCHANGED <<channel, window, log, sender, accepted, lost, excused>>
-----------------------------------------------------------------------------
\* UpdateChannel.
SwitchChannel ==
  /\ channel # "gone"
  /\ channel' = IF channel = "on" THEN "off" ELSE "on"
  /\ UNCHANGED <<window, log, sender, retry, accepted, lost, excused>>

\* The channel's logs are not asked for, and no foreign key keeps it; whoever is sending has
\* read it before.
DeleteChannel ==
  /\ channel # "gone"
  /\ channel' = "gone"
  /\ UNCHANGED <<window, log, sender, retry, accepted, lost, excused>>

RetryComes(n) ==
  /\ log[n].next = "later"
  /\ log' = [log EXCEPT ![n].next = "due"]
  /\ UNCHANGED <<channel, window, sender, retry, accepted, lost, excused>>

MinuteEnds ==
  /\ window > 0
  /\ window' = window - 1
  /\ UNCHANGED <<channel, log, sender, retry, accepted, lost, excused>>

DeliveryCrash ==
  /\ lost' = lost \cup {n \in Notices : \/ retry.id = n
                                       \/ \E w \in Senders : sender[w].id = n}
  /\ sender' = [w \in Senders |-> NoCall]
  /\ retry' = [at |-> "idle", id |-> None, todo |-> {}]
  /\ window' = 0
  /\ UNCHANGED <<channel, log, accepted, excused>>

SenderStep(w) == Allow(w) \/ RateLimited(w) \/ SendMessage(w) \/ ApplySendResponse(w)

RetryStep == \/ ListRetries
             \/ \E n \in Notices : \/ RetryInactive(n)
                                 \/ RetryOrphan(n)
                                 \/ FormatLost(n)
                                 \/ RetryMessage(n)
             \/ RetryAnswered
             \/ WriteRetry

DeliveryFault == \/ \E w \in Senders : OutcomeLost(w)
                 \/ RetryLost
                 \/ \E n \in Notices : RetrySkips(n)
                 \/ DeliveryCrash

DeliveryNext == \/ \E w \in Senders : SenderStep(w) \/ (\E n \in Notices : CreateLog(w, n))
                \/ RetryStep
                \/ SwitchChannel
                \/ DeleteChannel
                \/ \E n \in Notices : RetryComes(n)
                \/ MinuteEnds
                \/ DeliveryFault

DeliverySpec == DeliveryInit /\ [][DeliveryNext]_delivery

\* Providers are called with time limits; the loop's ticker and time go on.
FairDeliverySpec == /\ DeliverySpec
                    /\ \A w \in Senders : WF_delivery(SenderStep(w))
                    /\ WF_delivery(RetryStep)
                    /\ \A n \in Notices : WF_delivery(RetryComes(n))
-----------------------------------------------------------------------------
(* What becomes of a notification. *)

\* Nobody gets a message twice unless its acceptance was not known: an answer or the
\* write of an outcome was lost, or the process died in between (RetryFailed).
DeliveredOnce == \A n \in Notices : accepted[n] = 2 => n \in lost

\* Once writes succeed and the process stays alive, every message whose outcome was
\* never lost is sent, or was tried as often as the channel says, but for one the rate
\* held back, or due for a retry when its channel was off or deleted or its template away.
EveryNoticeSettles ==
  <>[][~DeliveryFault]_delivery
    => \A n \in Notices :
         <>[](log[n].status # "none" /\ n \notin lost =>
                \/ log[n].status = "sent"
                \/ log[n].status = "failed" /\ (log[n].tries = MaxRetries \/ n \in excused))
=============================================================================
