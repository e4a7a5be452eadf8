----------------------------- MODULE ServicesProofs -----------------------------
(***************************************************************************)
(* Theorems about the modules that MCServices checks: one live flow of an   *)
(* incident, no change of a source missed, no notification sent twice, for  *)
(* any numbers of rows, requests, syncs and senders.                        *)
(***************************************************************************)
EXTENDS IncidentIntake, SourceSync, NotificationDelivery, TLAPS

-----------------------------------------------------------------------------
(* Incidents. *)

\* A request is at work on an incident, and a live flow heals one.
RequestsFit ==
  /\ \A u \in Users : IF req[u].at = "idle" THEN req[u] = NoRequest
                                            ELSE req[u].id \in Incidents
  /\ \A j \in Instances : flow[j].live => flow[j].of \in Incidents

\* What the writers of an incident find while they keep out of each other's way: the scan
\* a row nothing has touched, a request a row that is as it was read, and a live flow is
\* the one the row names.
Undisturbed(i) ==
  /\ i \in todo \/ ~incident[i].scanned =>
       /\ ~incident[i].scanned /\ incident[i].rule = None /\ incident[i].instance = None
       /\ Live(i) = {} /\ ~AtWork(i)
  /\ \A u, v \in Users : req[u].id = i /\ req[v].id = i => u = v
  /\ \A u \in Users : req[u].id = i =>
       /\ req[u].at \in {"trigger", "restore"} => incident[i].instance = None
       /\ req[u].at = "save" => req[u].row.instance = incident[i].instance /\ req[u].row.scanned
  /\ \A j \in Live(i) : incident[i].instance = j

IntakeInv ==
  /\ IntakeTypeOK
  /\ RequestsFit
  /\ \A i \in Incidents : orderly[i] => Undisturbed(i)

-----------------------------------------------------------------------------
(* Syncs. *)

\* What is behind, and was missed neither by the last day nor by changing late, is among what
\* a sync is to fetch, and, unless a record could not be saved, among what it has still to
\* save.
SyncCovers ==
  \A w \in Syncs :
    /\ sync[w].at = "fetch" => behind \subseteq sync[w].since \cup late \cup old
    /\ sync[w].at = "save" => sync[w].todo \subseteq sync[w].good \cup late
    /\ sync[w].at = "save" /\ ~sync[w].failed =>
         behind \subseteq sync[w].todo \cup late \cup old

SyncInv == SyncTypeOK /\ SyncCovers /\ NothingIsMissed

-----------------------------------------------------------------------------
(* Notifications. *)

\* A log is in the hands of the call that wrote it, or of the retry loop, or of nobody.
HandsFit ==
  /\ \A w \in Senders : IF sender[w].at = "idle" THEN sender[w].id = None
                        ELSE sender[w].id \in Notices /\ log[sender[w].id].status = "pending"
  /\ \A v, w \in Senders : sender[v].id = sender[w].id /\ sender[v].id # None => v = w
  /\ IF retry.at = "idle" THEN retry.id = None ELSE retry.id \in Notices \ retry.todo
  /\ \A n \in Notices : n \in retry.todo \/ n = retry.id =>
       log[n].status = "failed" /\ log[n].next # "none"

\* A retry is planned while the budget lasts.
BudgetHolds == \A n \in Notices : log[n].next # "none" => log[n].tries < MaxRetries

\* Its log, or whoever is about to write it, knows that the message was accepted.
Known(n) == \/ log[n].status = "sent"
            \/ \E w \in Senders : sender[w].at = "sent" /\ sender[w].id = n
            \/ retry.at = "sent" /\ retry.id = n

AcceptedIsKnown ==
  \A n \in Notices \ lost : accepted[n] = 0 \/ (accepted[n] = 1 /\ Known(n))

DeliveryInv == DeliveryTypeOK /\ HandsFit /\ BudgetHolds /\ AcceptedIsKnown

\* A log is marked sent only if the provider accepted its message, and given up, failed with
\* no time for a retry, only once all retries of the channel were made, or for another reason
\* than their number; and then the message was not accepted, unless an answer was lost.
LogIsTrue ==
  \A n \in Notices :
    /\ log[n].status = "sent" => accepted[n] > 0
    /\ log[n].status = "failed" /\ log[n].next = "none" =>
         /\ log[n].tries = MaxRetries \/ n \in excused
         /\ accepted[n] > 0 => n \in lost

\* What is marked sent, or about to be, was accepted.
SentIsAccepted ==
  /\ \A n \in Notices : log[n].status = "sent" => accepted[n] > 0
  /\ \A w \in Senders : sender[w].at = "sent" => accepted[sender[w].id] > 0
  /\ retry.at = "sent" => accepted[retry.id] > 0

\* A log without a plan has no retries left, or another reason.
GivenUpRightly ==
  \A n \in Notices : log[n].status = "failed" /\ log[n].next = "none" =>
                        log[n].tries = MaxRetries \/ n \in excused

OutcomesInv == DeliveryInv /\ SentIsAccepted /\ GivenUpRightly

-----------------------------------------------------------------------------
(* No change of a source is missed. *)

USE SyncConstants

LEMMA CountBounds ==
  /\ Limit \in Nat
  /\ \A n \in Nat : Count(n) \in 0 .. Limit
<1>1. Limit \in Nat
  BY DEF Limit
<1> QED
  BY <1>1 DEF Count

\* A job that neither fetches nor saves has nothing to cover; one that does goes on
\* covering when less is behind.
LEMMA JobChanges ==
  ASSUME SyncInv, NEW w \in Syncs, NEW job \in SyncJobs, Go(w, job),
         job.at = "fetch" => behind' \subseteq job.since \cup late' \cup old',
         job.at = "save" => job.todo \subseteq job.good \cup late',
         job.at = "save" /\ ~job.failed => behind' \subseteq job.todo \cup late' \cup old',
         late' = late, old' = old, behind' \subseteq behind \cup late
  PROVE  sync' \in [Syncs -> SyncJobs] /\ SyncCovers'
BY DEF SyncInv, SyncTypeOK, SyncCovers, Go

\* A record that is saved as it was fetched is no longer behind; the cursor moves when
\* nothing is left to save.
LEMMA SyncKept ==
  ASSUME SyncInv, [SyncNext]_syncing
  PROVE  SyncInv'
<1> USE DEF SyncInv, SyncTypeOK, NothingIsMissed, source
<1>0. Limit \in Nat /\ 0 \in 0 .. Limit /\ NoSync \in SyncJobs /\ NoSync.at = "idle"
  BY CountBounds DEF NoSync, SyncJobs, SyncPlaces
<1>1. ASSUME NEW r \in Records, Change(r)
      PROVE  SyncInv'
  <2>1. /\ \A w \in Syncs : sync[w].at = "fetch" => sync'[w] = [sync[w] EXCEPT !.since = @ \cup {r}]
        /\ \A w \in Syncs : sync[w].at # "fetch" => sync'[w] = [sync[w] EXCEPT !.good = @ \ {r}]
    BY <1>1 DEF Change
  <2>2. \A w \in Syncs : sync[w].at = "save" => r \in late'
    BY <1>1 DEF Change, Holding
  <2>3. late \subseteq late' \cup {r} /\ late' \subseteq late \cup {r}
    BY <1>1 DEF Change
  <2>4. sync' \in [Syncs -> SyncJobs]
    BY <1>1, <2>1 DEF Change, SyncJobs
  <2>5. SyncCovers'
    BY <1>1, <2>1, <2>2, <2>3 DEF Change, SyncCovers, SyncJobs
  <2> QED
    BY <1>1, <2>3, <2>4, <2>5 DEF Change
<1>1a. ASSUME NEW r \in Records, Age(r)
       PROVE  SyncInv'
  <2>1. PICK W \in SUBSET {w \in Syncs : sync[w].at = "fetch"} :
          sync' = [w \in Syncs |-> IF w \in W THEN [sync[w] EXCEPT !.since = @ \ {r}]
                                   ELSE sync[w]]
    BY <1>1a DEF Age
  <2>2. /\ UNCHANGED <<plugin, behind, late, loop>> /\ due' = due \ {r}
        /\ old' = IF r \in behind THEN old \cup {r} ELSE old
    BY <1>1a DEF Age
  <2>3. \A w \in Syncs :
          /\ sync'[w] \in SyncJobs /\ sync'[w].at = sync[w].at /\ sync'[w].todo = sync[w].todo
          /\ sync'[w].good = sync[w].good /\ sync'[w].failed = sync[w].failed
          /\ sync[w].since \subseteq sync'[w].since \cup {r}
    BY <2>1 DEF SyncJobs
  <2>4. sync' \in [Syncs -> SyncJobs]
    BY <2>1, <2>3
  <2>5. SyncCovers'
    BY <2>2, <2>3 DEF SyncCovers
  <2> QED
    BY <2>2, <2>4, <2>5
<1>2. CASE Tick
  <2>1. plugin' \in Plugins
    BY <1>2 DEF Tick, Plugins
  <2> QED
    BY <1>2, <2>1 DEF Tick, SyncCovers
<1>3. CASE ListDue \/ ClaimPlugin \/ RollbackClaim
  <2>1. plugin' \in Plugins /\ loop' \in [at : {"idle", "listed", "claimed"}, failures : 0 .. Limit]
    BY <1>0, <1>3 DEF ListDue, ClaimPlugin, RollbackClaim, Plugins, NoLoop
  <2>2. UNCHANGED <<source, sync>>
    BY <1>3 DEF ListDue, ClaimPlugin, RollbackClaim
  <2> QED
    BY <2>1, <2>2 DEF SyncCovers
<1>4. ASSUME NEW w \in Syncs, NEW job \in SyncJobs, Go(w, job), job.at \notin {"fetch", "save"},
             UNCHANGED <<old, behind, late>>,
             due' = due \/ (due' = {} /\ behind \subseteq late \cup old),
             plugin' = plugin \/ plugin' \in Plugins, loop' = loop \/ loop' = NoLoop
      PROVE  SyncInv'
  <2>1. sync' \in [Syncs -> SyncJobs] /\ SyncCovers'
    BY <1>4, JobChanges
  <2> QED
    BY <1>0, <1>4, <2>1 DEF NoLoop
<1>5. ASSUME NEW w \in Syncs, Dispatch(w)
      PROVE  SyncInv'
  <2> DEFINE job == [NoSync EXCEPT !.at = "prepare", !.scheduled = TRUE, !.failures = loop.failures]
  <2>1. job \in SyncJobs /\ job.at = "prepare"
    BY <1>0 DEF NoSync, SyncJobs, SyncPlaces
  <2>2. Go(w, job) /\ UNCHANGED <<plugin, source>> /\ loop' = NoLoop
    BY <1>5 DEF Dispatch, Go
  <2> HIDE DEF job
  <2> QED
    BY <1>4, <2>1, <2>2
<1>6. ASSUME NEW w \in Syncs, PrepareSync(w) \/ TriggerSync(w)
      PROVE  SyncInv'
  <2> DEFINE job == Begin(w)
  <2>1. job \in SyncJobs /\ job.at = "fetch" /\ job.since = due
    BY <1>0 DEF Begin, SyncJobs, SyncPlaces
  <2>2. Go(w, job) /\ UNCHANGED <<plugin, source, loop>>
    BY <1>6 DEF PrepareSync, TriggerSync
  <2> HIDE DEF job
  <2>3. sync' \in [Syncs -> SyncJobs] /\ SyncCovers'
    BY <2>1, <2>2, JobChanges
  <2> QED
    BY <2>2, <2>3
<1>7. ASSUME NEW w \in Syncs, NEW failed \in BOOLEAN, Over(w, failed)
      PROVE  \E job \in SyncJobs : Go(w, job) /\ job.at \notin {"fetch", "save"}
  <2> DEFINE job == [NoSync EXCEPT !.at = "result", !.scheduled = TRUE,
                                   !.failures = sync[w].failures, !.failed = failed]
  <2>1. job \in SyncJobs /\ job.at = "result"
    BY <1>0 DEF NoSync, SyncJobs, SyncPlaces
  <2>2. Go(w, job) \/ Go(w, NoSync)
    BY <1>7 DEF Over
  <2> HIDE DEF job
  <2> QED
    BY <1>0, <2>1, <2>2
<1>8. ASSUME NEW w \in Syncs, SyncFails(w) \/ KeepCursor(w) \/ CursorLost(w)
      PROVE  SyncInv'
  <2>1. UNCHANGED <<plugin, source, loop>> /\ (Over(w, TRUE) \/ Over(w, FALSE))
    BY <1>8 DEF SyncFails, KeepCursor, CursorLost
  <2> QED
    BY <1>4, <1>7, <2>1
<1>9. ASSUME NEW w \in Syncs, AdvanceCursor(w)
      PROVE  SyncInv'
  <2>1. Over(w, FALSE) /\ UNCHANGED <<old, behind, late, loop>> /\ due' = {}
    BY <1>9 DEF AdvanceCursor
  <2>2. behind \subseteq late \cup old
    BY <1>9 DEF AdvanceCursor, SyncCovers
  <2>3. plugin' \in Plugins
    BY <1>0, <1>9 DEF AdvanceCursor, Plugins
  <2> QED
    BY <1>4, <1>7, <2>1, <2>2, <2>3
<1>10. ASSUME NEW w \in Syncs, FetchData(w)
      PROVE  SyncInv'
  <2> DEFINE job == [sync[w] EXCEPT !.at = "save", !.since = {}, !.todo = sync[w].since,
                                    !.good = sync[w].since]
  <2>1. /\ job \in SyncJobs
        /\ job.at = "save" /\ job.todo = sync[w].since /\ job.good = sync[w].since
    BY ZenonT(40) DEF SyncJobs, SyncPlaces
  <2>2. Go(w, job) /\ UNCHANGED <<plugin, source, loop>> /\ sync[w].at = "fetch"
    BY <1>10 DEF FetchData
  <2> HIDE DEF job
  <2>3. sync' \in [Syncs -> SyncJobs] /\ SyncCovers'
    BY <2>1, <2>2, JobChanges DEF SyncCovers
  <2> QED
    BY <2>2, <2>3
<1>11. ASSUME NEW w \in Syncs, NEW r \in Records, SaveRecord(w, r)
      PROVE  SyncInv'
  <2> DEFINE job == [sync[w] EXCEPT !.todo = @ \ {r}]
  <2>0. /\ sync[w].at = "save" /\ r \in sync[w].todo /\ Go(w, job)
        /\ UNCHANGED <<plugin, due, old, late, loop>>
        /\ behind' = IF r \in sync[w].good THEN behind \ {r} ELSE behind \cup {r}
    BY <1>11 DEF SaveRecord
  <2>1. /\ job \in SyncJobs /\ job.at = sync[w].at /\ job.failed = sync[w].failed
        /\ job.todo = sync[w].todo \ {r} /\ job.good = sync[w].good
    BY DEF SyncJobs, SyncPlaces
  <2> HIDE DEF job
  <2>2. r \notin sync[w].good => r \in late
    BY <2>0 DEF SyncCovers
  <2>3. behind' \subseteq behind \cup late /\ behind' \subseteq Records
    BY <2>0, <2>2
  <2>4. sync[w].todo \subseteq sync[w].good \cup late
    BY <2>0 DEF SyncCovers
  <2>5. ~sync[w].failed => behind' \subseteq job.todo \cup late \cup old
    BY <2>0, <2>1, <2>2 DEF SyncCovers
  <2>6. sync' \in [Syncs -> SyncJobs] /\ SyncCovers'
    BY <2>0, <2>1, <2>3, <2>4, <2>5, JobChanges
  <2> QED
    BY <2>0, <2>3, <2>6
<1>12. ASSUME NEW w \in Syncs, NEW r \in Records, SaveFails(w, r)
      PROVE  SyncInv'
  <2> DEFINE job == [sync[w] EXCEPT !.todo = @ \ {r}, !.failed = TRUE]
  <2>0. sync[w].at = "save" /\ Go(w, job) /\ UNCHANGED <<plugin, source, loop>>
    BY <1>12 DEF SaveFails
  <2>1. /\ job \in SyncJobs /\ job.at = "save" /\ job.failed
        /\ job.todo = sync[w].todo \ {r} /\ job.good = sync[w].good
    BY <2>0 DEF SyncJobs, SyncPlaces
  <2> HIDE DEF job
  <2>2. sync' \in [Syncs -> SyncJobs] /\ SyncCovers'
    BY <2>0, <2>1, JobChanges DEF SyncCovers
  <2> QED
    BY <2>0, <2>2
<1>13. ASSUME NEW w \in Syncs, Succeeded(w) \/ Failed(w) \/ ResultLost(w) \/ UpdateConfig(w)
      PROVE  SyncInv'
  <2>1. Go(w, NoSync) /\ UNCHANGED <<source, loop>>
    BY <1>13 DEF Succeeded, Failed, ResultLost, UpdateConfig
  <2>2. sync[w] \in SyncJobs /\ Count(sync[w].failures + 1) \in 0 .. Limit
    BY CountBounds DEF SyncJobs
  <2>3. plugin' \in Plugins
    BY ZenonT(40), <1>0, <1>13, <2>2 DEF Succeeded, Failed, ResultLost, UpdateConfig, Plugins, SyncJobs
  <2> QED
    BY <1>0, <1>4, <2>1, <2>3
<1>14. ASSUME NEW w \in Syncs, LoadPlugin(w)
      PROVE  SyncInv'
  <2>1. PICK e \in BOOLEAN : Go(w, [NoSync EXCEPT !.at = "config", !.enabled = e])
    BY <1>14 DEF LoadPlugin
  <2> DEFINE job == [NoSync EXCEPT !.at = "config", !.enabled = e]
  <2>2. job \in SyncJobs /\ job.at = "config"
    BY <1>0 DEF NoSync, SyncJobs, SyncPlaces
  <2> HIDE DEF job
  <2> QED
    BY <1>4, <1>14, <2>1, <2>2 DEF LoadPlugin, job
<1>15. ASSUME NEW on \in BOOLEAN, UpdateStatus(on)
      PROVE  SyncInv'
  <2>1. plugin' \in Plugins
    BY <1>15 DEF UpdateStatus, Plugins
  <2> QED
    BY <1>15, <2>1 DEF UpdateStatus, SyncCovers
<1>16. CASE SyncCrash
  BY <1>0, <1>16 DEF SyncCrash, SyncCovers, NoLoop
<1>17. CASE UNCHANGED syncing
  BY <1>17 DEF syncing, SyncCovers
<1> QED
  BY <1>1, <1>2, <1>3, <1>5, <1>6, <1>8, <1>9, <1>10, <1>11, <1>12, <1>13, <1>14, <1>15,
     <1>16, <1>17, <1>1a DEF SyncNext, SyncUser, Scheduling, SyncStep, SyncFault

LEMMA SyncInvariant == SyncSpec => []SyncInv
<1>1. SyncInit => SyncInv
  BY CountBounds DEF SyncInit, SyncInv, SyncTypeOK, SyncCovers, NothingIsMissed, Plugins, NoLoop,
     NoSync, SyncJobs, SyncPlaces
<1> QED
  BY <1>1, SyncKept, PTL DEF SyncSpec

\* Whatever fails, dies or runs side by side, a record whose row is not what the source has
\* will be fetched again: its change is after the cursor, which completeSync moves only when
\* every record was saved, or, while no sync has completed, less than a day old (syncSince).
\* Two exceptions: a record that changed while a sync had it in hand, and one whose change
\* grew older than a day before any sync completed.
THEOREM NothingMissedCorrect == SyncSpec => []NothingIsMissed
<1>1. SyncInv => NothingIsMissed
  BY DEF SyncInv
<1> QED
  BY <1>1, SyncInvariant, PTL

-----------------------------------------------------------------------------
(* No notification is sent twice. *)

USE DeliveryConstants

\* Every plan for a retry keeps to the budget.
LEMMA PlanKeepsBudget ==
  \A tries \in 0 .. MaxRetries : /\ PlanRetry(tries) \in {"none", "later"}
                                 /\ PlanRetry(tries) # "none" => tries < MaxRetries
BY DEF PlanRetry

\* What nobody knows to be accepted was not: so a message is sent by the one who has it in
\* hand, and its log says whom to believe afterwards.
LEMMA InHand ==
  ASSUME DeliveryInv, NEW n \in Notices, n \notin lost
  PROVE  /\ \A w \in Senders : sender[w].id = n /\ sender[w].at # "sent" => accepted[n] = 0
         /\ retry.id = n /\ retry.at # "sent" => accepted[n] = 0
BY DEF DeliveryInv, DeliveryTypeOK, HandsFit, AcceptedIsKnown, Known

\* The provider's answer ends up with the call it was given to.
LEMMA AnswerKept ==
  ASSUME DeliveryInv, NEW n \in Notices, NEW call, NEW next, Answers(n, call, next)
  PROVE  /\ accepted' \in [Notices -> 0 .. 2] /\ lost \subseteq lost' /\ lost' \subseteq Notices
         /\ next = [call EXCEPT !.at = "sent"] \/ next = [call EXCEPT !.at = "refused"]
         /\ \A m \in Notices \ {n} : accepted'[m] = accepted[m] /\ (m \in lost' => m \in lost)
         /\ n \notin lost' /\ accepted[n] = 0 =>
              accepted'[n] = 0 \/ (accepted'[n] = 1 /\ next = [call EXCEPT !.at = "sent"])
<1>1. ASSUME Accept(n)
      PROVE  /\ accepted' \in [Notices -> 0 .. 2]
             /\ \A m \in Notices \ {n} : accepted'[m] = accepted[m]
             /\ accepted[n] = 0 => accepted'[n] = 1
  BY <1>1 DEF Accept, DeliveryInv, DeliveryTypeOK
<1> QED
  BY <1>1 DEF Answers, DeliveryInv, DeliveryTypeOK

LEMMA DeliveryKept ==
  ASSUME DeliveryInv, [DeliveryNext]_delivery
  PROVE  DeliveryInv'
<1> USE DEF DeliveryInv, DeliveryTypeOK
<1>0. NoCall \in [at : Calls, id : Notices \cup {None}] /\ NoCall.at = "idle" /\ NoCall.id = None
  BY DEF NoCall, Calls
<1>1. ASSUME NEW w \in Senders, NEW n \in Notices, CreateLog(w, n)
      PROVE  DeliveryInv'
  <2> DEFINE row == [log[n] EXCEPT !.status = "pending"]
             call == [at |-> "logged", id |-> n]
  <2>1. /\ row \in Logs /\ row.status = "pending" /\ row.next = log[n].next
        /\ row.tries = log[n].tries
        /\ call \in [at : Calls, id : Notices \cup {None}] /\ call.at = "logged" /\ call.id = n
    BY DEF Logs, Calls
  <2>2. /\ sender[w].at = "idle" /\ log[n].status = "none"
        /\ log' = [log EXCEPT ![n] = row] /\ sender' = [sender EXCEPT ![w] = call]
        /\ UNCHANGED <<channel, window, retry, accepted, lost, excused>>
    BY <1>0, <1>1 DEF CreateLog
  <2> HIDE DEF row, call
  <2>3. DeliveryTypeOK'
    BY <2>1, <2>2
  <2>4. HandsFit' /\ BudgetHolds'
    BY <2>1, <2>2 DEF HandsFit, BudgetHolds
  <2>5. AcceptedIsKnown'
    BY <2>1, <2>2 DEF HandsFit, AcceptedIsKnown, Known
  <2> QED
    BY <2>3, <2>4, <2>5
<1>2. ASSUME NEW w \in Senders, NEW call \in [at : Calls, id : {sender[w].id}],
             sender[w].at # "idle", call.at # "idle",
             sender' = [sender EXCEPT ![w] = call], UNCHANGED <<log, retry, channel, excused>>,
             window' \in 0 .. RateLimit, accepted' \in [Notices -> 0 .. 2],
             lost' \subseteq Notices, AcceptedIsKnown'
      PROVE  DeliveryInv'
  <2>1. DeliveryTypeOK'
    BY <1>2
  <2>2. HandsFit' /\ BudgetHolds'
    BY <1>2 DEF HandsFit, BudgetHolds
  <2> QED
    BY <1>2, <2>1, <2>2
<1>3. ASSUME NEW w \in Senders, Allow(w)
      PROVE  DeliveryInv'
  <2> DEFINE call == [sender[w] EXCEPT !.at = "sending"]
  <2>1. call \in [at : Calls, id : {sender[w].id}] /\ call.at = "sending"
    BY DEF Calls
  <2>2. /\ sender[w].at = "logged" /\ sender' = [sender EXCEPT ![w] = call]
        /\ window' \in 0 .. RateLimit
        /\ UNCHANGED <<channel, log, retry, accepted, lost, excused>>
    BY <1>3 DEF Allow
  <2> HIDE DEF call
  <2>3. AcceptedIsKnown'
    BY <2>1, <2>2 DEF AcceptedIsKnown, Known
  <2> QED
    BY <1>2, <2>1, <2>2, <2>3
<1>4. ASSUME NEW w \in Senders, SendMessage(w)
      PROVE  DeliveryInv'
  <2>1. PICK call \in [at : Calls, id : {sender[w].id}] :
          Answers(sender[w].id, sender[w], call) /\ sender' = [sender EXCEPT ![w] = call]
    BY <1>4 DEF SendMessage
  <2> DEFINE n == sender[w].id
  <2>2. /\ sender[w].at = "sending" /\ UNCHANGED <<channel, window, log, retry, excused>>
        /\ n \in Notices
    BY <1>4 DEF SendMessage, HandsFit
  <2>3. /\ accepted' \in [Notices -> 0 .. 2] /\ lost \subseteq lost' /\ lost' \subseteq Notices
        /\ call = [sender[w] EXCEPT !.at = "sent"] \/ call = [sender[w] EXCEPT !.at = "refused"]
        /\ \A m \in Notices \ {n} : accepted'[m] = accepted[m] /\ (m \in lost' => m \in lost)
        /\ n \notin lost' /\ accepted[n] = 0 =>
             accepted'[n] = 0 \/ (accepted'[n] = 1 /\ call = [sender[w] EXCEPT !.at = "sent"])
    BY <2>1, <2>2, AnswerKept
  <2>4. call.at # "idle" /\ call.id = n /\ (call = [sender[w] EXCEPT !.at = "sent"] => call.at = "sent")
    BY <2>3
  <2>5. n \notin lost => accepted[n] = 0
    BY <2>2, InHand
  <2>6. ASSUME NEW m \in Notices, m \notin lost'
        PROVE  accepted'[m] = 0 \/ (accepted'[m] = 1 /\ Known(m)')
    <3>1. CASE m = n
      BY <2>1, <2>3, <2>4, <2>5, <2>6, <3>1 DEF Known
    <3>2. CASE m # n
      BY <2>1, <2>2, <2>3, <2>4, <2>6, <3>2 DEF AcceptedIsKnown, Known
    <3> QED
      BY <3>1, <3>2
  <2> QED
    BY <1>2, <2>1, <2>2, <2>3, <2>4, <2>6 DEF AcceptedIsKnown
<1>5. ASSUME NEW w \in Senders, NEW row \in Logs, sender[w].at # "idle",
             log' = [log EXCEPT ![sender[w].id] = row] \/ log' = log,
             log' # log /\ row.next # "none" => row.tries < MaxRetries,
             sender' = [sender EXCEPT ![w] = NoCall], UNCHANGED <<channel, window, retry, accepted>>,
             lost' \subseteq Notices, lost \subseteq lost', excused' \subseteq Notices,
             \/ sender[w].id \in lost'
             \/ log' = [log EXCEPT ![sender[w].id] = row] /\
                (sender[w].at # "sent" \/ row.status = "sent")
      PROVE  DeliveryInv'
  <2> DEFINE n == sender[w].id
  <2>1. n \in Notices /\ log[n].status = "pending" /\ retry.id # n /\ n \notin retry.todo
    BY <1>5 DEF HandsFit
  <2>2. DeliveryTypeOK'
    BY <1>0, <1>5
  <2>3. HandsFit'
    BY <1>0, <1>5, <2>1 DEF HandsFit
  <2>4. BudgetHolds'
    BY <1>5, <2>1 DEF BudgetHolds
  <2>5. ASSUME NEW m \in Notices, m \notin lost'
        PROVE  accepted'[m] = 0 \/ (accepted'[m] = 1 /\ Known(m)')
    <3>1. CASE m = n
      BY <1>5, <2>1, <2>5, <3>1, InHand DEF AcceptedIsKnown, Known
    <3>2. CASE m # n
      BY <1>5, <2>1, <2>5, <3>2 DEF AcceptedIsKnown, Known
    <3> QED
      BY <3>1, <3>2
  <2> QED
    BY <2>2, <2>3, <2>4, <2>5 DEF AcceptedIsKnown
<1>6. ASSUME NEW w \in Senders, RateLimited(w)
      PROVE  DeliveryInv'
  <2> DEFINE row == [log[sender[w].id] EXCEPT !.status = "failed"]
  <2>1. sender[w].id \in Notices /\ sender[w].at = "logged"
    BY <1>6 DEF RateLimited, HandsFit
  <2>2. /\ row \in Logs /\ row.next = log[sender[w].id].next
        /\ row.tries = log[sender[w].id].tries
    BY <2>1 DEF Logs
  <2>3. /\ log' = [log EXCEPT ![sender[w].id] = row] /\ sender' = [sender EXCEPT ![w] = NoCall]
        /\ excused' \subseteq Notices
        /\ UNCHANGED <<channel, window, retry, accepted, lost>>
    BY <1>6, <2>1 DEF RateLimited
  <2> HIDE DEF row
  <2> QED
    BY <1>5, <2>1, <2>2, <2>3 DEF BudgetHolds
<1>7. ASSUME NEW w \in Senders, ApplySendResponse(w)
      PROVE  DeliveryInv'
  <2> DEFINE n == sender[w].id
             plan == PlanRetry(log[n].tries)
             row == IF sender[w].at = "sent" THEN [log[n] EXCEPT !.status = "sent"]
                    ELSE [log[n] EXCEPT !.status = "failed", !.next = plan]
  <2>1. n \in Notices /\ sender[w].at \in {"sent", "refused"}
    BY <1>7 DEF ApplySendResponse, HandsFit
  <2>2. plan \in {"none", "later"} /\ (plan # "none" => log[n].tries < MaxRetries)
    BY <2>1, PlanKeepsBudget DEF Logs
  <2>3. /\ log' = [log EXCEPT ![n] = row] /\ sender' = [sender EXCEPT ![w] = NoCall]
        /\ UNCHANGED <<channel, window, retry, accepted, lost, excused>>
    BY <1>7 DEF ApplySendResponse
  <2> HIDE DEF plan
  <2>4. /\ row \in Logs /\ row.tries = log[n].tries
        /\ sender[w].at = "sent" => row.status = "sent" /\ row.next = log[n].next
        /\ sender[w].at # "sent" => row.next = plan
    <3>1. log[n] \in Logs
      BY <2>1
    <3>2. CASE sender[w].at = "sent"
      BY <3>1, <3>2 DEF Logs
    <3>3. CASE sender[w].at # "sent"
      BY <3>1, <3>3, <2>2 DEF Logs
    <3> QED
      BY <3>2, <3>3
  <2> HIDE DEF row
  <2> QED
    BY <1>5, <2>1, <2>2, <2>3, <2>4 DEF BudgetHolds
<1>8. ASSUME NEW w \in Senders, OutcomeLost(w)
      PROVE  DeliveryInv'
  <2>1. /\ sender[w].id \in Notices /\ sender[w].at # "idle" /\ log[sender[w].id] \in Logs
    BY <1>8 DEF OutcomeLost, HandsFit
  <2>2. /\ lost' = lost \cup {sender[w].id} /\ sender' = [sender EXCEPT ![w] = NoCall]
        /\ UNCHANGED <<channel, window, log, retry, accepted, excused>>
    BY <1>8 DEF OutcomeLost
  <2> QED
    BY <1>5, <2>1, <2>2
<1>9. ASSUME retry' \in [at : Calls \ {"logged"}, id : Notices \cup {None}, todo : SUBSET Notices],
             IF retry'.at = "idle" THEN retry'.id = None ELSE retry'.id \in Notices \ retry'.todo,
             \A n \in Notices : n \in retry'.todo \/ n = retry'.id =>
               \/ n \in retry.todo \cup {retry.id}
               \/ log[n].status = "failed" /\ log[n].next # "none",
             log' \in [Notices -> Logs],
             \A n \in Notices : log'[n] # log[n] =>
               /\ n \in retry.todo \cup {retry.id} /\ n \notin retry'.todo \cup {retry'.id}
               /\ log'[n].next # "none" => log'[n].tries < MaxRetries,
             UNCHANGED <<channel, window, sender>>, accepted' \in [Notices -> 0 .. 2],
             lost' \subseteq Notices, excused' \subseteq Notices, AcceptedIsKnown'
      PROVE  DeliveryInv'
  <2>1. DeliveryTypeOK'
    BY <1>9
  <2>2. HandsFit'
    <3>1. \A w \in Senders : sender[w].id \in Notices => log'[sender[w].id] = log[sender[w].id]
      BY <1>9 DEF HandsFit
    <3>2. \A n \in Notices : n \in retry.todo \/ n = retry.id =>
            log[n].status = "failed" /\ log[n].next # "none"
      BY DEF HandsFit
    <3> QED
      BY <1>9, <3>1, <3>2 DEF HandsFit
  <2>3. BudgetHolds'
    BY <1>9 DEF BudgetHolds
  <2> QED
    BY <1>9, <2>1, <2>2, <2>3
<1> DEFINE Loops == [at : Calls \ {"logged"}, id : Notices \cup {None}, todo : SUBSET Notices]
<1>10. CASE ListRetries
  <2> DEFINE list == {n \in Notices : log[n].status = "failed" /\ log[n].next = "due"}
             job == [retry EXCEPT !.todo = list]
  <2>1. job \in Loops /\ job.at = retry.at /\ job.id = retry.id /\ job.todo = list
    OBVIOUS
  <2>2. retry' = job /\ retry.at = "idle" /\ UNCHANGED <<channel, window, log, sender, accepted, lost, excused>>
    BY <1>10 DEF ListRetries
  <2> HIDE DEF job
  <2>3. AcceptedIsKnown'
    BY <2>1, <2>2 DEF AcceptedIsKnown, Known
  <2>4. retry.id = None
    BY <2>2 DEF HandsFit
  <2> QED
    BY <1>9, <2>1, <2>2, <2>3, <2>4
<1>11. ASSUME NEW n \in Notices, RetryInactive(n) \/ RetryOrphan(n) \/ FormatLost(n) \/ RetrySkips(n)
       PROVE  DeliveryInv'
  <2> DEFINE job == [retry EXCEPT !.todo = @ \ {n}]
  <2>1. job \in Loops /\ job.at = retry.at /\ job.id = retry.id /\ job.todo = retry.todo \ {n}
    OBVIOUS
  <2>2. /\ retry' = job /\ retry.at = "idle" /\ n \in retry.todo
        /\ UNCHANGED <<channel, window, sender, accepted, lost>> /\ excused' \subseteq Notices
        /\ log' = [log EXCEPT ![n].next = "none"] \/
           log' = [log EXCEPT ![n].next = "none", ![n].tries = @ + 1] \/ log' = log
    BY <1>11 DEF RetryInactive, RetryOrphan, NoMoreRetries, FormatLost, RetrySkips
  <2> HIDE DEF job
  <2>3. retry.id = None /\ log[n].next # "none" /\ log[n].tries < MaxRetries
    BY <2>2 DEF HandsFit, BudgetHolds
  <2>4. /\ log' \in [Notices -> Logs] /\ \A m \in Notices \ {n} : log'[m] = log[m]
        /\ log'[n].status = log[n].status
        /\ log'[n].next # "none" => log'[n].tries < MaxRetries
    BY <2>2, <2>3 DEF Logs
  <2>5. AcceptedIsKnown'
    BY <2>1, <2>2, <2>4 DEF AcceptedIsKnown, Known
  <2> QED
    BY <1>9, <2>1, <2>2, <2>3, <2>4, <2>5
<1>12. ASSUME NEW n \in Notices, RetryMessage(n)
       PROVE  DeliveryInv'
  <2> DEFINE job == [at |-> "sending", id |-> n, todo |-> retry.todo \ {n}]
  <2>1. job \in Loops /\ job.at = "sending" /\ job.id = n /\ job.todo = retry.todo \ {n}
    BY DEF Calls
  <2>2. /\ retry' = job /\ retry.at = "idle" /\ n \in retry.todo
        /\ UNCHANGED <<channel, window, log, sender, accepted, lost, excused>>
    BY <1>12 DEF RetryMessage
  <2> HIDE DEF job
  <2>3. AcceptedIsKnown'
    BY <2>1, <2>2 DEF AcceptedIsKnown, Known
  <2> QED
    BY <1>9, <2>1, <2>2, <2>3
<1>13. CASE RetryAnswered
  <2>1. PICK call \in [at : Calls, id : {retry.id}, todo : {retry.todo}] :
          Answers(retry.id, retry, call) /\ retry' = call
    BY <1>13 DEF RetryAnswered
  <2> DEFINE n == retry.id
  <2>2. /\ retry.at = "sending" /\ UNCHANGED <<channel, window, log, sender, excused>>
        /\ n \in Notices \ retry.todo
    BY <1>13 DEF RetryAnswered, HandsFit
  <2>3. /\ accepted' \in [Notices -> 0 .. 2] /\ lost \subseteq lost' /\ lost' \subseteq Notices
        /\ call = [retry EXCEPT !.at = "sent"] \/ call = [retry EXCEPT !.at = "refused"]
        /\ \A m \in Notices \ {n} : accepted'[m] = accepted[m] /\ (m \in lost' => m \in lost)
        /\ n \notin lost' /\ accepted[n] = 0 =>
             accepted'[n] = 0 \/ (accepted'[n] = 1 /\ call = [retry EXCEPT !.at = "sent"])
    BY <2>1, <2>2, AnswerKept
  <2>4. /\ call \in Loops /\ call.at # "idle" /\ call.id = n /\ call.todo = retry.todo
        /\ call = [retry EXCEPT !.at = "sent"] => call.at = "sent"
    BY <2>3
  <2>5. n \notin lost => accepted[n] = 0
    BY <2>2, InHand
  <2>6. ASSUME NEW m \in Notices, m \notin lost'
        PROVE  accepted'[m] = 0 \/ (accepted'[m] = 1 /\ Known(m)')
    <3>1. CASE m = n
      BY <2>1, <2>3, <2>4, <2>5, <2>6, <3>1 DEF Known
    <3>2. CASE m # n
      BY <2>1, <2>2, <2>3, <2>4, <2>6, <3>2 DEF AcceptedIsKnown, Known
    <3> QED
      BY <3>1, <3>2
  <2> QED
    BY <1>9, <2>1, <2>2, <2>3, <2>4, <2>6 DEF AcceptedIsKnown
<1>14. CASE WriteRetry \/ RetryLost
  <2> DEFINE n == retry.id
             tries == log[n].tries + 1
             plan == PlanRetry(tries)
             job == [retry EXCEPT !.at = "idle", !.id = None]
             row == IF retry.at = "sent" THEN [status |-> "sent", tries |-> tries, next |-> "none"]
                    ELSE [log[n] EXCEPT !.tries = tries, !.next = plan]
  <2>1. /\ retry.at \in {"sent", "refused"} /\ retry' = job
        /\ UNCHANGED <<channel, window, sender, accepted, excused>>
        /\ \/ log' = [log EXCEPT ![n] = row] /\ lost' = lost
           \/ log' = log /\ lost' = lost \cup {n}
    BY <1>14 DEF WriteRetry, RetryLost
  <2>2. job \in Loops /\ job.at = "idle" /\ job.id = None /\ job.todo = retry.todo
    BY DEF Calls
  <2>3. /\ n \in Notices \ retry.todo /\ log[n].tries < MaxRetries
    BY <2>1 DEF HandsFit, BudgetHolds
  <2>4. tries \in 0 .. MaxRetries
    BY <2>3 DEF Logs
  <2>5. plan \in {"none", "later"} /\ (plan # "none" => tries < MaxRetries)
    BY <2>4, PlanKeepsBudget
  <2> HIDE DEF job, plan
  <2>6. /\ row \in Logs /\ (row.next # "none" => row.tries < MaxRetries)
        /\ retry.at = "sent" => row.status = "sent"
    <3>1. log[n] \in Logs
      BY <2>3
    <3>2. CASE retry.at = "sent"
      BY <3>2, <2>4 DEF Logs
    <3>3. CASE retry.at # "sent"
      <4>1. row = [log[n] EXCEPT !.tries = tries, !.next = plan]
        BY <3>3
      <4> QED
        BY <3>1, <3>3, <4>1, <2>4, <2>5 DEF Logs
    <3> QED
      BY <3>2, <3>3
  <2> HIDE DEF row
  <2>7. /\ log' \in [Notices -> Logs] /\ \A m \in Notices \ {n} : log'[m] = log[m]
        /\ log'[n].next # "none" => log'[n].tries < MaxRetries
        /\ n \in lost' \/ (retry.at = "sent" => log'[n].status = "sent")
    BY <2>1, <2>3, <2>6 DEF Logs
  <2>8. ASSUME NEW m \in Notices, m \notin lost'
        PROVE  accepted'[m] = 0 \/ (accepted'[m] = 1 /\ Known(m)')
    <3>1. CASE m = n
      BY <2>1, <2>3, <2>7, <2>8, <3>1, InHand DEF AcceptedIsKnown, Known
    <3>2. CASE m # n
      BY <2>1, <2>2, <2>3, <2>7, <2>8, <3>2 DEF AcceptedIsKnown, Known
    <3> QED
      BY <3>1, <3>2
  <2>9. AcceptedIsKnown'
    BY <2>8 DEF AcceptedIsKnown
  <2>10. {n} \subseteq Notices /\ lost' \subseteq Notices
    BY <2>1, <2>3
  <2> QED
    BY <1>9, <2>1, <2>2, <2>3, <2>7, <2>9, <2>10
<1>15. ASSUME NEW n \in Notices, RetryComes(n)
       PROVE  DeliveryInv'
  <2> DEFINE row == [log[n] EXCEPT !.next = "due"]
  <2>1. row \in Logs /\ row.status = log[n].status /\ row.tries = log[n].tries /\ row.next = "due"
    BY DEF Logs
  <2>2. /\ log[n].next = "later" /\ log' = [log EXCEPT ![n] = row]
        /\ UNCHANGED <<channel, window, sender, retry, accepted, lost, excused>>
    BY <1>15 DEF RetryComes
  <2> HIDE DEF row
  <2>3. DeliveryTypeOK'
    BY <2>1, <2>2
  <2>4. HandsFit'
    BY <2>1, <2>2 DEF HandsFit
  <2>5. BudgetHolds' /\ AcceptedIsKnown'
    BY <2>1, <2>2 DEF BudgetHolds, AcceptedIsKnown, Known
  <2> QED
    BY <2>3, <2>4, <2>5
<1>16. CASE SwitchChannel \/ DeleteChannel \/ MinuteEnds \/ UNCHANGED delivery
  <2>1. UNCHANGED <<log, sender, retry, accepted, lost, excused>>
    BY <1>16 DEF SwitchChannel, DeleteChannel, MinuteEnds, delivery
  <2>2. channel' \in {"on", "off", "gone"}
    BY <1>16 DEF SwitchChannel, DeleteChannel, MinuteEnds, delivery
  <2>3. window' \in 0 .. RateLimit
    BY <1>16 DEF SwitchChannel, DeleteChannel, MinuteEnds, delivery
  <2> QED
    BY <2>1, <2>2, <2>3 DEF HandsFit, BudgetHolds, AcceptedIsKnown, Known
<1>17. CASE DeliveryCrash
  <2> DEFINE job == [at |-> "idle", id |-> None, todo |-> {}]
  <2>1. job \in Loops /\ job.at = "idle" /\ job.id = None /\ job.todo = {}
    BY DEF Calls
  <2>2. /\ retry' = job /\ sender' = [w \in Senders |-> NoCall] /\ window' = 0
        /\ lost' = lost \cup {n \in Notices : retry.id = n \/ \E w \in Senders : sender[w].id = n}
        /\ UNCHANGED <<channel, log, accepted, excused>>
    BY <1>17 DEF DeliveryCrash
  <2> HIDE DEF job
  <2>3. DeliveryTypeOK'
    BY <1>0, <2>1, <2>2
  <2>4. HandsFit' /\ BudgetHolds'
    BY <1>0, <2>1, <2>2 DEF HandsFit, BudgetHolds
  <2>5. AcceptedIsKnown'
    BY <1>0, <2>1, <2>2 DEF AcceptedIsKnown, Known
  <2> QED
    BY <2>3, <2>4, <2>5
<1> QED
  BY <1>1, <1>3, <1>4, <1>6, <1>7, <1>8, <1>10, <1>11, <1>12, <1>13, <1>14, <1>15, <1>16, <1>17
     DEF DeliveryNext, SenderStep, RetryStep, DeliveryFault

LEMMA DeliveryInvariant == DeliverySpec => []DeliveryInv
<1>1. DeliveryInit => DeliveryInv
  BY DEF DeliveryInit, DeliveryInv, DeliveryTypeOK, HandsFit, BudgetHolds, AcceptedIsKnown, Known,
     Logs, NoLog, NoCall, Calls
<1> QED
  BY <1>1, DeliveryKept, PTL DEF DeliverySpec

\* However many calls send, and whatever the retry loop does beside them, the provider accepts
\* a message twice only if an answer or the write of an outcome was lost (sendToChannel,
\* RetryFailed).
THEOREM DeliveredOnceCorrect == DeliverySpec => []DeliveredOnce
<1>1. DeliveryInv => DeliveredOnce
  BY DEF DeliveryInv, DeliveryTypeOK, AcceptedIsKnown, DeliveredOnce
<1> QED
  BY <1>1, DeliveryInvariant, PTL

-----------------------------------------------------------------------------
(* What the logs of notifications say. *)

\* A retry that is not planned has no budget left.
LEMMA NoPlanNoBudget ==
  \A tries \in 0 .. MaxRetries : PlanRetry(tries) = "none" => tries = MaxRetries
BY DEF PlanRetry

\* What was accepted stays so, and who has a positive answer has it from the provider.
LEMMA AnswerIsTrue ==
  ASSUME DeliveryTypeOK, NEW n \in Notices, NEW call, call.at # "sent", NEW next,
         Answers(n, call, next)
  PROVE  /\ \A m \in Notices : accepted[m] > 0 => accepted'[m] > 0
         /\ next.at = "sent" => accepted'[n] > 0
<1>1. ASSUME Accept(n)
      PROVE  accepted'[n] > 0 /\ \A m \in Notices : accepted[m] > 0 => accepted'[m] > 0
  BY <1>1 DEF Accept, DeliveryTypeOK
<1>2. CASE Accept(n)
  BY <1>1, <1>2
<1>3. CASE UNCHANGED accepted /\ next = [call EXCEPT !.at = "refused"]
  BY <1>3
<1> QED
  BY <1>2, <1>3 DEF Answers

LEMMA OutcomesKept ==
  ASSUME OutcomesInv, [DeliveryNext]_delivery
  PROVE  SentIsAccepted' /\ GivenUpRightly'
<1> USE DEF OutcomesInv, DeliveryInv
<1>0. NoCall.at = "idle"
  BY DEF NoCall
<1>1. ASSUME NEW w \in Senders, NEW n \in Notices, CreateLog(w, n)
      PROVE  SentIsAccepted' /\ GivenUpRightly'
  BY <1>1 DEF CreateLog, SentIsAccepted, GivenUpRightly, DeliveryTypeOK, Logs
<1>2. ASSUME NEW w \in Senders, Allow(w)
      PROVE  SentIsAccepted' /\ GivenUpRightly'
  BY <1>2 DEF Allow, SentIsAccepted, GivenUpRightly, DeliveryTypeOK
<1>3. ASSUME NEW w \in Senders, SendMessage(w)
      PROVE  SentIsAccepted' /\ GivenUpRightly'
  <2>1. PICK call \in [at : Calls, id : {sender[w].id}] :
          Answers(sender[w].id, sender[w], call) /\ sender' = [sender EXCEPT ![w] = call]
    BY <1>3 DEF SendMessage
  <2>2. /\ sender[w].at = "sending" /\ UNCHANGED <<log, retry, excused>>
        /\ sender[w].id \in Notices
    BY <1>3 DEF SendMessage, HandsFit
  <2>3. /\ \A m \in Notices : accepted[m] > 0 => accepted'[m] > 0
        /\ call.at = "sent" => accepted'[call.id] > 0
    BY <2>1, <2>2, AnswerIsTrue
  <2> QED
    BY <2>1, <2>2, <2>3 DEF SentIsAccepted, GivenUpRightly, HandsFit, DeliveryTypeOK
<1>4. ASSUME NEW w \in Senders, RateLimited(w)
      PROVE  SentIsAccepted' /\ GivenUpRightly'
  <2>1. sender[w].id \in Notices
    BY <1>4 DEF RateLimited, HandsFit
  <2> QED
    BY <1>0, <1>4, <2>1 DEF RateLimited, SentIsAccepted, GivenUpRightly, DeliveryTypeOK, Logs
<1>5. ASSUME NEW w \in Senders, ApplySendResponse(w)
      PROVE  SentIsAccepted' /\ GivenUpRightly'
  <2> DEFINE n == sender[w].id
             plan == PlanRetry(log[n].tries)
  <2>1. n \in Notices /\ log[n].tries \in 0 .. MaxRetries
    BY <1>5 DEF ApplySendResponse, HandsFit, DeliveryTypeOK, Logs
  <2>2. plan = "none" => log[n].tries = MaxRetries
    BY <2>1, NoPlanNoBudget
  <2>3. /\ sender' = [sender EXCEPT ![w] = NoCall] /\ UNCHANGED <<retry, accepted, excused>>
        /\ \/ sender[w].at = "sent" /\ log' = [log EXCEPT ![n].status = "sent"]
           \/ log' = [log EXCEPT ![n].status = "failed", ![n].next = plan]
    BY <1>5 DEF ApplySendResponse
  <2> HIDE DEF plan
  <2>4. /\ \A m \in Notices \ {n} : log'[m] = log[m]
        /\ \/ sender[w].at = "sent" /\ log'[n].status = "sent"
           \/ log'[n].status = "failed" /\ log'[n].next = plan /\ log'[n].tries = log[n].tries
    BY <2>1, <2>3 DEF DeliveryTypeOK, Logs
  <2> QED
    BY <1>0, <2>1, <2>2, <2>3, <2>4 DEF SentIsAccepted, GivenUpRightly, DeliveryTypeOK
<1>6. ASSUME NEW w \in Senders, OutcomeLost(w)
      PROVE  SentIsAccepted' /\ GivenUpRightly'
  BY <1>0, <1>6 DEF OutcomeLost, SentIsAccepted, GivenUpRightly, DeliveryTypeOK
<1>7. CASE ListRetries
  BY <1>7 DEF ListRetries, SentIsAccepted, GivenUpRightly, DeliveryTypeOK
<1>8. ASSUME NEW n \in Notices, RetryInactive(n) \/ RetryOrphan(n) \/ FormatLost(n)
      PROVE  SentIsAccepted' /\ GivenUpRightly'
  <2>1. /\ log' = [log EXCEPT ![n].next = "none"] \/
           log' = [log EXCEPT ![n].next = "none", ![n].tries = @ + 1]
        /\ retry' = [retry EXCEPT !.todo = @ \ {n}] /\ excused' = excused \cup {n}
        /\ UNCHANGED <<sender, accepted>>
    BY <1>8 DEF RetryInactive, RetryOrphan, NoMoreRetries, FormatLost
  <2>2. /\ \A m \in Notices : log'[m].status = log[m].status
        /\ \A m \in Notices \ {n} : log'[m] = log[m]
    BY <2>1 DEF DeliveryTypeOK, Logs
  <2>3. SentIsAccepted'
    BY <2>1, <2>2 DEF SentIsAccepted
  <2>4. GivenUpRightly'
    BY <2>1, <2>2 DEF GivenUpRightly
  <2> QED
    BY <2>3, <2>4
<1>9. ASSUME NEW n \in Notices, RetryMessage(n) \/ RetrySkips(n)
      PROVE  SentIsAccepted' /\ GivenUpRightly'
  BY <1>9 DEF RetryMessage, RetrySkips, SentIsAccepted, GivenUpRightly, DeliveryTypeOK
<1>10. CASE RetryAnswered
  <2>1. PICK call \in [at : Calls, id : {retry.id}, todo : {retry.todo}] :
          Answers(retry.id, retry, call) /\ retry' = call
    BY <1>10 DEF RetryAnswered
  <2>2. /\ retry.at = "sending" /\ UNCHANGED <<log, sender, excused>>
        /\ retry.id \in Notices
    BY <1>10 DEF RetryAnswered, HandsFit
  <2>3. /\ \A m \in Notices : accepted[m] > 0 => accepted'[m] > 0
        /\ call.at = "sent" => accepted'[call.id] > 0
    BY <2>1, <2>2, AnswerIsTrue
  <2> QED
    BY <2>1, <2>2, <2>3 DEF SentIsAccepted, GivenUpRightly, HandsFit, DeliveryTypeOK
<1>11. CASE WriteRetry
  <2> DEFINE n == retry.id
             tries == log[n].tries + 1
             plan == PlanRetry(tries)
             row == [log[n] EXCEPT !.tries = tries, !.next = plan]
  <2>1. n \in Notices /\ tries \in 0 .. MaxRetries /\ log[n].status = "failed"
    BY <1>11 DEF WriteRetry, HandsFit, BudgetHolds, DeliveryTypeOK, Logs
  <2>2. plan = "none" => tries = MaxRetries
    BY <2>1, NoPlanNoBudget
  <2>3. /\ retry' = [retry EXCEPT !.at = "idle", !.id = None]
        /\ UNCHANGED <<sender, accepted, excused>>
        /\ \/ /\ retry.at = "sent"
              /\ log' = [log EXCEPT ![n] = [status |-> "sent", tries |-> tries, next |-> "none"]]
           \/ log' = [log EXCEPT ![n] = row]
    BY <1>11 DEF WriteRetry
  <2>4. row.status = "failed" /\ row.next = plan /\ row.tries = tries
    BY <2>1 DEF DeliveryTypeOK, Logs
  <2> HIDE DEF plan, tries, row
  <2>5. /\ \A m \in Notices \ {n} : log'[m] = log[m]
        /\ \/ retry.at = "sent" /\ log'[n].status = "sent"
           \/ log'[n].status = "failed" /\ log'[n].next = plan /\ log'[n].tries = tries
    BY <2>1, <2>3, <2>4 DEF DeliveryTypeOK
  <2> QED
    BY <2>1, <2>2, <2>3, <2>5 DEF SentIsAccepted, GivenUpRightly, DeliveryTypeOK
<1>12. CASE RetryLost
  BY <1>12 DEF RetryLost, SentIsAccepted, GivenUpRightly, DeliveryTypeOK
<1>13. ASSUME NEW n \in Notices, RetryComes(n)
       PROVE  SentIsAccepted' /\ GivenUpRightly'
  BY <1>13 DEF RetryComes, SentIsAccepted, GivenUpRightly, DeliveryTypeOK, Logs
<1>14. CASE SwitchChannel \/ DeleteChannel \/ MinuteEnds \/ UNCHANGED delivery
  BY <1>14 DEF SwitchChannel, DeleteChannel, MinuteEnds, delivery, SentIsAccepted, GivenUpRightly
<1>15. CASE DeliveryCrash
  BY <1>0, <1>15 DEF DeliveryCrash, SentIsAccepted, GivenUpRightly
<1> QED
  BY <1>1, <1>2, <1>3, <1>4, <1>5, <1>6, <1>7, <1>8, <1>9, <1>10, <1>11, <1>12, <1>13, <1>14, <1>15
     DEF DeliveryNext, SenderStep, RetryStep, DeliveryFault

\* Whatever answers and writes are lost and whenever the process dies, a log that says "sent" is of
\* an accepted message, and one that is given up had all its retries and was not accepted, but for
\* the reasons named (applySendResponse, RetryFailed).
THEOREM LogCorrect == DeliverySpec => []LogIsTrue
<1>1. DeliveryInit => SentIsAccepted /\ GivenUpRightly
  BY DEF DeliveryInit, SentIsAccepted, GivenUpRightly, NoLog, NoCall
<1>2. OutcomesInv => LogIsTrue
  <2> SUFFICES ASSUME OutcomesInv, NEW n \in Notices PROVE LogIsTrue!(n)
    BY DEF LogIsTrue
  <2>1. ASSUME log[n].status = "failed", log[n].next = "none", n \notin lost
        PROVE  accepted[n] = 0
    BY <2>1 DEF OutcomesInv, DeliveryInv, HandsFit, AcceptedIsKnown, Known
  <2> QED
    BY <2>1 DEF OutcomesInv, DeliveryInv, DeliveryTypeOK, SentIsAccepted, GivenUpRightly
<1>3. DeliveryInv /\ DeliveryInv' /\ (SentIsAccepted /\ GivenUpRightly) /\ [DeliveryNext]_delivery
        => (SentIsAccepted /\ GivenUpRightly)'
  BY OutcomesKept DEF OutcomesInv
<1>4. DeliverySpec => [](DeliveryInv /\ SentIsAccepted /\ GivenUpRightly)
  BY <1>1, <1>3, DeliveryInvariant, PTL DEF DeliverySpec
<1> QED
  BY <1>2, <1>4, PTL DEF OutcomesInv

-----------------------------------------------------------------------------
(* One live flow of an incident. *)

USE IntakeConstants

\* A step that leaves an incident's writers what they know of it.
LEMMA LeftAlone ==
  ASSUME IntakeInv, NEW i \in Incidents, orderly'[i],
         orderly[i],
         incident'[i].instance = incident[i].instance,
         i \in todo' \/ ~incident'[i].scanned =>
           /\ i \in todo \/ ~incident[i].scanned
           /\ ~incident'[i].scanned /\ incident'[i].rule \in {incident[i].rule, None},
         \A j \in Instances : flow'[j].live /\ flow'[j].of = i => flow[j].live /\ flow[j].of = i,
         \A u \in Users : req'[u].id = i => req'[u] = req[u]
  PROVE  Undisturbed(i)'
BY DEF IntakeInv, Undisturbed, Live, AtWork

\* A request that finds the incident for itself, and scanned.
LEMMA Entered ==
  ASSUME IntakeInv, NEW u \in Users, NEW i \in Incidents, NEW job \in Requests,
         job.id = i, job.at # "idle", req[u].id \in {None, i}, req' = [req EXCEPT ![u] = job],
         UNCHANGED <<incident, rules, todo>>, flow' \in [Instances -> [of : Incidents \cup {None}, live : BOOLEAN]],
         \A j \in Instances : flow'[j].live => flow'[j] = flow[j],
         orderly' \in [Incidents -> BOOLEAN],
         \A k \in Incidents : orderly'[k] => orderly[k],
         orderly'[i] => /\ incident[i].scanned /\ i \notin todo
                        /\ \A v \in Users \ {u} : req[v].id # i
                        /\ job.at \in {"trigger", "restore"} => incident[i].instance = None
                        /\ job.at = "save" => job.row.instance = incident[i].instance /\ job.row.scanned
  PROVE  IntakeInv'
<1>1. IntakeTypeOK' /\ RequestsFit'
  BY DEF IntakeInv, IntakeTypeOK, RequestsFit
<1>2. ASSUME NEW k \in Incidents, k # i, orderly'[k]
      PROVE  Undisturbed(k)'
  <2>1. orderly[k] /\ Undisturbed(k)
    BY <1>2 DEF IntakeInv
  <2>2. k \in todo \/ ~incident[k].scanned => ~incident[k].scanned
    BY <2>1 DEF Undisturbed
  <2>3. \A v \in Users : req'[v].id = k => req'[v] = req[v]
    BY <1>2 DEF IntakeInv, IntakeTypeOK
  <2> QED
    BY <1>2, <2>1, <2>2, <2>3, LeftAlone
<1>3. ASSUME orderly'[i]
      PROVE  Undisturbed(i)'
  BY <1>3 DEF IntakeInv, IntakeTypeOK, Undisturbed, Live, AtWork
<1> QED
  BY <1>1, <1>2, <1>3 DEF IntakeInv

\* Setting columns of a row leaves a row.
LEMMA RowChanges ==
  ASSUME NEW row \in IncidentRows, NEW s \in HealingStatuses, NEW r \in Rules \cup {None},
         NEW j \in Instances \cup {None}
  PROVE  /\ [row EXCEPT !.exists = TRUE] \in IncidentRows
         /\ [row EXCEPT !.status = s] \in IncidentRows
         /\ [row EXCEPT !.rule = r] \in IncidentRows
         /\ [row EXCEPT !.status = s, !.scanned = TRUE] \in IncidentRows
         /\ [row EXCEPT !.scanned = TRUE, !.rule = r] \in IncidentRows
         /\ [row EXCEPT !.status = s, !.scanned = TRUE, !.instance = j] \in IncidentRows
         /\ [row EXCEPT !.scanned = TRUE, !.status = s, !.rule = r, !.instance = j]
               \in IncidentRows
BY DEF IncidentRows

\* A flow starts where there is none, and the row names it.
LEMMA Started ==
  ASSUME IntakeInv, NEW i \in Incidents, NEW r \in Rules, NEW j \in Instances, Unused(j),
         Starts(i, r, j), todo' \subseteq todo, UNCHANGED <<rules, orderly>>,
         req' \in [Users -> Requests], \A u \in Users : req'[u] \in {req[u], NoRequest},
         orderly[i] => i \notin todo' /\ Live(i) = {} /\ \A u \in Users : req'[u].id # i
  PROVE  IntakeInv'
<1> DEFINE row == [incident[i] EXCEPT !.scanned = TRUE, !.status = "processing",
                                      !.rule = r, !.instance = j]
           new == [of |-> i, live |-> TRUE]
<1>0. incident[i] \in IncidentRows
  BY DEF IntakeInv, IntakeTypeOK
<1>1. /\ row \in IncidentRows /\ row.scanned /\ row.instance = j
      /\ new \in [of : Incidents \cup {None}, live : BOOLEAN] /\ new.of = i
  <2>1. row \in IncidentRows
    BY <1>0, RowChanges DEF HealingStatuses
  <2>2. row.scanned /\ row.instance = j
    BY <1>0 DEF IncidentRows
  <2> QED
    BY <2>1, <2>2
<1>2. incident' = [incident EXCEPT ![i] = row] /\ flow' = [flow EXCEPT ![j] = new]
  BY DEF Starts
<1>3. NoRequest.id = None /\ NoRequest.at = "idle"
  BY DEF NoRequest
<1> HIDE DEF row, new
<1>4. IntakeTypeOK' /\ RequestsFit'
  BY <1>1, <1>2, <1>3 DEF IntakeInv, IntakeTypeOK, RequestsFit
<1>5. ASSUME NEW k \in Incidents, k # i, orderly'[k]
      PROVE  Undisturbed(k)'
  <2>1. incident'[k] = incident[k]
    BY <1>2, <1>5 DEF IntakeInv, IntakeTypeOK
  <2>2. \A f \in Instances : flow'[f].live /\ flow'[f].of = k => flow[f].live /\ flow[f].of = k
    BY <1>1, <1>2, <1>5 DEF IntakeInv, IntakeTypeOK
  <2>3. \A u \in Users : req'[u].id = k => req'[u] = req[u]
    BY <1>3
  <2>4. orderly[k] /\ Undisturbed(k)
    BY <1>5 DEF IntakeInv, Starts
  <2>5. k \in todo' \/ ~incident'[k].scanned =>
          /\ k \in todo \/ ~incident[k].scanned
          /\ ~incident'[k].scanned /\ incident'[k].rule \in {incident[k].rule, None}
    BY <2>1, <2>4 DEF Undisturbed
  <2> QED
    BY <1>5, <2>1, <2>2, <2>3, <2>4, <2>5, LeftAlone
<1>6. ASSUME orderly'[i]
      PROVE  Undisturbed(i)'
  BY <1>1, <1>2, <1>6 DEF IntakeInv, IntakeTypeOK, Undisturbed, Live, AtWork
<1> QED
  BY <1>4, <1>5, <1>6 DEF IntakeInv

LEMMA DisturbOnly ==
  ASSUME IntakeTypeOK, NEW I, Disturb(I)
  PROVE  /\ orderly' \in [Incidents -> BOOLEAN]
         /\ \A i \in Incidents : orderly'[i] => orderly[i] /\ i \notin I
BY DEF IntakeTypeOK, Disturb

LEMMA IntakeKept ==
  ASSUME IntakeInv, [IntakeNext]_intake
  PROVE  IntakeInv'
<1> USE DEF IntakeInv, IntakeTypeOK
<1>0. /\ NoRequest \in Requests /\ NoRequest.at = "idle" /\ NoRequest.id = None
      /\ NoFlow \in [of : Incidents \cup {None}, live : BOOLEAN] /\ ~NoFlow.live
      /\ NoIncident \in IncidentRows
  BY DEF NoRequest, Requests, NoFlow, NoIncident, IncidentRows, HealingStatuses
<1>1. ASSUME NEW i \in Incidents, NEW row \in IncidentRows, incident' = [incident EXCEPT ![i] = row],
             rules' \subseteq Rules, todo' \subseteq todo,
             flow' \in [Instances -> [of : Incidents \cup {None}, live : BOOLEAN]],
             \A j \in Instances : flow'[j].live => flow'[j] = flow[j],
             req' \in [Users -> Requests], \A u \in Users : req'[u] \in {req[u], NoRequest},
             UNCHANGED orderly,
             orderly[i] => /\ row.instance = incident[i].instance
                           /\ i \in todo' \/ ~row.scanned =>
                                /\ i \in todo \/ ~incident[i].scanned
                                /\ ~row.scanned /\ row.rule \in {incident[i].rule, None}
      PROVE  IntakeInv'
  <2>1. IntakeTypeOK' /\ RequestsFit'
    BY <1>0, <1>1 DEF RequestsFit
  <2>2. ASSUME NEW k \in Incidents, orderly'[k]
        PROVE  Undisturbed(k)'
    <3>1. \A u \in Users : req'[u].id = k => req'[u] = req[u]
      BY <1>0, <1>1
    <3>2. /\ incident'[k].instance = incident[k].instance
          /\ k \in todo' \/ ~incident'[k].scanned =>
               /\ k \in todo \/ ~incident[k].scanned
               /\ ~incident'[k].scanned /\ incident'[k].rule \in {incident[k].rule, None}
      <4>1. k # i => incident'[k] = incident[k]
        BY <1>1
      <4>2. orderly[k] /\ Undisturbed(k)
        BY <1>1, <2>2
      <4> QED
        BY <1>1, <4>1, <4>2 DEF Undisturbed
    <3> QED
      BY <1>1, <2>2, <3>1, <3>2, LeftAlone
  <2> QED
    BY <2>1, <2>2
<1>2. ASSUME UNCHANGED incident, rules' \subseteq Rules, todo' \subseteq Incidents,
             \A i \in todo' : i \in todo \/ ~incident[i].scanned,
             flow' \in [Instances -> [of : Incidents \cup {None}, live : BOOLEAN]],
             \A j \in Instances : flow'[j].live => flow'[j] = flow[j],
             req' \in [Users -> Requests], \A u \in Users : req'[u] \in {req[u], NoRequest},
             orderly' \in [Incidents -> BOOLEAN], \A i \in Incidents : orderly'[i] => orderly[i]
      PROVE  IntakeInv'
  <2>1. IntakeTypeOK' /\ RequestsFit'
    BY <1>0, <1>2 DEF RequestsFit
  <2>2. ASSUME NEW k \in Incidents, orderly'[k]
        PROVE  Undisturbed(k)'
    <3>1. \A u \in Users : req'[u].id = k => req'[u] = req[u]
      BY <1>0, <1>2
    <3>2. orderly[k] /\ Undisturbed(k)
      BY <1>2, <2>2
    <3>3. k \in todo \/ ~incident[k].scanned => ~incident[k].scanned
      BY <3>2 DEF Undisturbed
    <3> QED
      BY <1>2, <2>2, <3>1, <3>2, <3>3, LeftAlone
  <2> QED
    BY <2>1, <2>2
\* The scan.
<1>3. ASSUME NEW i \in Incidents, Arrive(i)
      PROVE  IntakeInv'
  <2> DEFINE row == [incident[i] EXCEPT !.exists = TRUE]
  <2>0. incident[i] \in IncidentRows
    OBVIOUS
  <2>1. /\ row \in IncidentRows /\ row.scanned = incident[i].scanned /\ row.rule = incident[i].rule
        /\ row.instance = incident[i].instance
    <3>1. row \in IncidentRows
      BY <2>0, RowChanges DEF HealingStatuses
    <3> QED
      BY <2>0, <3>1 DEF IncidentRows
  <2>2. incident' = [incident EXCEPT ![i] = row] /\ UNCHANGED <<rules, flow, todo, req, orderly>>
    BY <1>3 DEF Arrive
  <2> HIDE DEF row
  <2> QED
    BY <1>1, <2>1, <2>2 DEF Undisturbed
<1>4. CASE ListUnscanned
  BY <1>2, <1>4 DEF ListUnscanned
<1>5. ASSUME NEW i \in Incidents, SkipIncident(i)
      PROVE  IntakeInv'
  <2> DEFINE row == [incident[i] EXCEPT !.status = "skipped", !.scanned = TRUE]
  <2>0. incident[i] \in IncidentRows
    OBVIOUS
  <2>1. row \in IncidentRows
    BY <2>0, RowChanges DEF HealingStatuses
  <2>2. row.scanned /\ row.instance = incident[i].instance
    BY <2>0 DEF IncidentRows
  <2>3. /\ incident' = [incident EXCEPT ![i] = row] /\ todo' = todo \ {i}
        /\ UNCHANGED <<rules, flow, req, orderly>>
    BY <1>5 DEF SkipIncident
  <2> HIDE DEF row
  <2> QED
    BY <1>1, <2>1, <2>2, <2>3
<1>6. ASSUME NEW i \in Incidents, NEW r \in Rules, AwaitTrigger(i, r)
      PROVE  IntakeInv'
  <2> DEFINE row == [incident[i] EXCEPT !.scanned = TRUE, !.rule = r]
  <2>0. incident[i] \in IncidentRows
    OBVIOUS
  <2>1. row \in IncidentRows
    BY <2>0, RowChanges DEF HealingStatuses
  <2>2. row.scanned /\ row.instance = incident[i].instance
    BY <2>0 DEF IncidentRows
  <2>3. /\ incident' = [incident EXCEPT ![i] = row] /\ todo' = todo \ {i}
        /\ UNCHANGED <<rules, flow, req, orderly>>
    BY <1>6 DEF AwaitTrigger
  <2> HIDE DEF row
  <2> QED
    BY <1>1, <2>1, <2>2, <2>3
<1>7. ASSUME NEW i \in Incidents, NEW r \in Rules, NEW j \in Instances, CreateFlow(i, r, j)
      PROVE  IntakeInv'
  <2>1. /\ i \in todo /\ Unused(j) /\ todo' = todo \ {i} /\ Starts(i, r, j)
        /\ UNCHANGED <<rules, req, orderly>>
    BY <1>7 DEF CreateFlow
  <2>2. orderly[i] => i \notin todo' /\ Live(i) = {} /\ \A u \in Users : req'[u].id # i
    BY <2>1 DEF Undisturbed, AtWork
  <2> QED
    BY <2>1, <2>2, Started
<1>8. ASSUME NEW i \in Incidents, ScanFails(i)
      PROVE  IntakeInv'
  BY <1>2, <1>8 DEF ScanFails
\* Requests.
<1>9. ASSUME NEW u \in Users, NEW i \in Incidents,
             TriggerIncidentManually(u, i) \/ RestorePendingTriggerIncident(u, i)
      PROVE  IntakeInv'
  <2>0. \E job \in Requests : /\ req' = [req EXCEPT ![u] = job]
                              /\ job.id = i /\ job.at \in {"trigger", "restore"}
    <3> DEFINE trigger == [NoRequest EXCEPT !.at = "trigger", !.id = i, !.rule = incident[i].rule]
               restore == [NoRequest EXCEPT !.at = "restore", !.id = i]
    <3>1. /\ trigger \in Requests /\ trigger.id = i /\ trigger.at = "trigger"
          /\ restore \in Requests /\ restore.id = i /\ restore.at = "restore"
      BY <1>0 DEF NoRequest, Requests, IncidentRows
    <3>2. req' = [req EXCEPT ![u] = trigger] \/ req' = [req EXCEPT ![u] = restore]
      BY <1>9 DEF TriggerIncidentManually, RestorePendingTriggerIncident
    <3> HIDE DEF trigger, restore
    <3> QED
      BY <3>1, <3>2
  <2>1. PICK job \in Requests : /\ req' = [req EXCEPT ![u] = job]
                                /\ job.id = i /\ job.at \in {"trigger", "restore"}
    BY <2>0
  <2>2. /\ req[u].id = None /\ incident[i].rule # None /\ incident[i].instance = None
        /\ UNCHANGED <<incident, rules, flow, todo>>
        /\ Disturb(IF AtWork(i) THEN {i} ELSE {})
    BY <1>0, <1>9 DEF TriggerIncidentManually, RestorePendingTriggerIncident, Enter
  <2>3. /\ orderly' \in [Incidents -> BOOLEAN] /\ \A k \in Incidents : orderly'[k] => orderly[k]
        /\ orderly'[i] => ~AtWork(i)
    BY <2>2, DisturbOnly
  <2>4. orderly'[i] => /\ incident[i].scanned /\ i \notin todo
                       /\ \A v \in Users \ {u} : req[v].id # i
    BY <2>2, <2>3 DEF Undisturbed, AtWork
  <2> QED
    BY <2>1, <2>2, <2>3, <2>4, Entered
<1>10. ASSUME NEW u \in Users, NEW i \in Incidents, NEW s \in HealingStatuses, Load(u, i, s),
              req[u].id \in {None, i}
       PROVE  IntakeInv'
  <2> DEFINE row == [incident[i] EXCEPT !.status = s]
             job == [NoRequest EXCEPT !.at = "save", !.id = i, !.row = row]
  <2>1. /\ row \in IncidentRows /\ row.instance = incident[i].instance
        /\ row.scanned = incident[i].scanned
    BY DEF IncidentRows
  <2>2. req' = [req EXCEPT ![u] = job] /\ UNCHANGED <<incident, rules, flow, todo>>
    BY <1>10 DEF Load
  <2> HIDE DEF row
  <2>3. job \in Requests /\ job.id = i /\ job.at = "save" /\ job.row = row
    BY <1>0, <2>1 DEF NoRequest, Requests
  <2> HIDE DEF job
  <2> DEFINE I == IF (\E v \in Users \ {u} : req[v].id = i) \/ ~incident[i].scanned THEN {i} ELSE {}
  <2>4. Disturb(I)
    BY <1>10 DEF Load
  <2>5. /\ orderly' \in [Incidents -> BOOLEAN] /\ \A k \in Incidents : orderly'[k] => orderly[k]
        /\ orderly'[i] => i \notin I
    BY <2>4, DisturbOnly
  <2>6. orderly'[i] => /\ incident[i].scanned /\ i \notin todo
                       /\ \A v \in Users \ {u} : req[v].id # i
    BY <2>5 DEF Undisturbed
  <2> HIDE DEF I
  <2> QED
    BY <1>10, <2>1, <2>2, <2>3, <2>5, <2>6, Entered
<1>11. ASSUME NEW u \in Users, NEW i \in Incidents, DismissIncident(u, i) \/ CloseIncident(u, i)
       PROVE  IntakeInv'
  BY <1>0, <1>10, <1>11 DEF DismissIncident, CloseIncident, HealingStatuses
<1>12. ASSUME NEW u \in Users, LoadCancelled(u)
       PROVE  IntakeInv'
  <2>1. req[u].id \in Incidents /\ Load(u, req[u].id, "dismissed")
    BY <1>12 DEF LoadCancelled, RequestsFit
  <2> QED
    BY <1>10, <2>1 DEF HealingStatuses
<1>13. ASSUME NEW u \in Users, NEW j \in Instances, CreateTriggered(u, j)
       PROVE  IntakeInv'
  <2> DEFINE i == req[u].id
             r == req[u].rule
  <2>1. /\ req[u].at = "trigger" /\ r \in Rules /\ Unused(j) /\ Starts(i, r, j)
        /\ req' = [req EXCEPT ![u] = NoRequest] /\ UNCHANGED <<rules, todo, orderly>>
    BY <1>13 DEF CreateTriggered
  <2>2. i \in Incidents
    BY <2>1 DEF RequestsFit
  <2>3. orderly[i] => /\ Live(i) = {} /\ i \notin todo
                      /\ \A v \in Users : req'[v].id # i
    BY <1>0, <2>1, <2>2 DEF Undisturbed, AtWork, Live
  <2> QED
    BY <1>0, <2>1, <2>2, <2>3, Started
<1>14. ASSUME NEW u \in Users, TriggerFails(u) \/ WritebackFails(u)
       PROVE  IntakeInv'
  <2>1. req' = [req EXCEPT ![u] = NoRequest] /\ UNCHANGED <<incident, rules, flow, todo, orderly>>
    BY <1>14 DEF TriggerFails, WritebackFails
  <2> QED
    BY <1>0, <1>2, <2>1
<1>15. ASSUME NEW u \in Users, RestorePendingTrigger(u)
       PROVE  IntakeInv'
  <2> DEFINE i == req[u].id
             row == [incident[i] EXCEPT !.status = "pending", !.scanned = TRUE, !.instance = None]
  <2>1. i \in Incidents /\ req[u].at = "restore"
    BY <1>15 DEF RestorePendingTrigger, RequestsFit
  <2>2. row \in IncidentRows /\ row.scanned /\ row.instance = None
    <3>0. incident[i] \in IncidentRows
      BY <2>1
    <3>1. row \in IncidentRows
      BY <3>0, RowChanges DEF HealingStatuses
    <3>2. row.scanned /\ row.instance = None
      BY <3>0 DEF IncidentRows
    <3> QED
      BY <3>1, <3>2
  <2>3. /\ incident' = [incident EXCEPT ![i] = row] /\ req' = [req EXCEPT ![u] = NoRequest]
        /\ UNCHANGED <<rules, flow, todo, orderly>>
    BY ZenonT(40), <1>15 DEF RestorePendingTrigger
  <2> HIDE DEF row
  <2>4. orderly[i] => incident[i].instance = None /\ i \notin todo
    BY <2>1 DEF Undisturbed, AtWork
  <2> QED
    BY <1>0, <1>1, <2>1, <2>2, <2>3, <2>4
<1>16. ASSUME NEW u \in Users, SaveRow(u)
       PROVE  IntakeInv'
  <2> DEFINE i == req[u].id
             row == req[u].row
  <2>1. i \in Incidents /\ req[u].at = "save"
    BY <1>16 DEF SaveRow, RequestsFit
  <2>2. row \in IncidentRows
    BY DEF Requests
  <2>3. /\ incident' = [incident EXCEPT ![i] = row] /\ req' = [req EXCEPT ![u] = NoRequest]
        /\ UNCHANGED <<rules, flow, todo, orderly>>
    BY <1>16 DEF SaveRow
  <2>4. orderly[i] => row.instance = incident[i].instance /\ row.scanned /\ i \notin todo
    BY <2>1 DEF Undisturbed, AtWork
  <2> QED
    BY <1>0, <1>1, <2>1, <2>2, <2>3, <2>4
\* Resets, rules, and the ends of flows.
<1>17. ASSUME NEW I \in SUBSET Incidents, BatchResetScan(I)
       PROVE  IntakeInv'
  <2> DEFINE row == [NoIncident EXCEPT !.exists = TRUE]
  <2>1. row \in IncidentRows /\ ~row.scanned /\ row.rule = None /\ row.instance = None
    BY <1>0 DEF NoIncident, IncidentRows
  <2>2. /\ \A i \in Incidents : incident'[i] = IF i \in I THEN row ELSE incident[i]
        /\ \A i \in Incidents : orderly'[i] = IF i \in I THEN Live(i) = {} /\ ~AtWork(i) ELSE orderly[i]
        /\ UNCHANGED <<rules, flow, todo, req>>
    BY <1>17 DEF BatchResetScan
  <2> HIDE DEF row
  <2>3. incident' \in [Incidents -> IncidentRows]
    BY <1>17, <2>1, <2>2 DEF BatchResetScan
  <2>4. orderly' \in [Incidents -> BOOLEAN]
    BY <1>17 DEF BatchResetScan
  <2>5. ASSUME NEW k \in Incidents, orderly'[k]
        PROVE  Undisturbed(k)'
    <3>1. CASE k \in I
      <4>1. incident'[k] = row /\ Live(k) = {} /\ ~AtWork(k)
        BY <2>2, <2>5, <3>1
      <4>2. /\ \A j \in Instances : ~(flow'[j].live /\ flow'[j].of = k)
            /\ \A u \in Users : req'[u].id # k
        BY <2>2, <4>1 DEF Live, AtWork
      <4> QED
        BY <2>1, <4>1, <4>2 DEF Undisturbed, Live, AtWork
    <3>2. CASE k \notin I
      <4>1. orderly[k] /\ incident'[k] = incident[k]
        BY <2>2, <2>5, <3>2
      <4>2. k \in todo \/ ~incident[k].scanned => ~incident[k].scanned
        BY <4>1 DEF Undisturbed
      <4> QED
        BY <2>2, <2>5, <4>1, <4>2, LeftAlone
    <3> QED
      BY <3>1, <3>2
  <2> QED
    BY <2>2, <2>3, <2>4, <2>5 DEF RequestsFit
<1>1a. ASSUME NEW r \in Rules, CreateRule(r)
       PROVE  IntakeInv'
  BY <1>2, <1>1a DEF CreateRule
<1>19. ASSUME NEW r \in Rules, DeleteRule(r)
       PROVE  IntakeInv'
  <2>1. /\ \A i \in Incidents : incident'[i] = IF incident[i].rule = r
                                THEN [incident[i] EXCEPT !.rule = None] ELSE incident[i]
        /\ rules' = rules \ {r} /\ UNCHANGED <<flow, todo, req>>
    BY <1>19 DEF DeleteRule
  <2>2. incident' \in [Incidents -> IncidentRows]
    <3>1. \A i \in Incidents : [incident[i] EXCEPT !.rule = None] \in IncidentRows
      BY RowChanges DEF HealingStatuses
    <3> QED
      BY <1>19, <3>1 DEF DeleteRule
  <2>3. orderly' \in [Incidents -> BOOLEAN] /\ \A i \in Incidents : orderly'[i] => orderly[i]
    BY <1>19, DisturbOnly DEF DeleteRule
  <2>4. ASSUME NEW k \in Incidents, orderly'[k]
        PROVE  Undisturbed(k)'
    <3>1. /\ incident'[k].instance = incident[k].instance
          /\ incident'[k].scanned = incident[k].scanned
          /\ incident'[k].rule \in {incident[k].rule, None}
      BY ZenonT(40), <2>1 DEF IncidentRows
    <3>2. orderly[k] /\ Undisturbed(k)
      BY <2>3, <2>4
    <3>3. k \in todo \/ ~incident[k].scanned => ~incident[k].scanned
      BY <3>2 DEF Undisturbed
    <3> QED
      BY <2>1, <2>4, <3>1, <3>2, <3>3, LeftAlone
  <2> QED
    BY <2>1, <2>2, <2>3, <2>4 DEF RequestsFit
<1>20. ASSUME NEW j \in Instances, NEW s \in {"healed", "failed"}, EndFlow(j, s)
       PROVE  IntakeInv'
  <2> DEFINE i == flow[j].of
             row == [incident[i] EXCEPT !.status = s]
             over == IF s = "failed" THEN [flow[j] EXCEPT !.live = FALSE] ELSE NoFlow
  <2>1. i \in Incidents
    BY <1>20 DEF EndFlow, RequestsFit
  <2>2. /\ row \in IncidentRows /\ row.instance = incident[i].instance
        /\ row.scanned = incident[i].scanned /\ row.rule = incident[i].rule
    BY SMTT(20), <2>1 DEF IncidentRows, HealingStatuses
  <2>3. over \in [of : Incidents \cup {None}, live : BOOLEAN] /\ ~over.live
    BY <1>0
  <2>4. /\ incident' = [incident EXCEPT ![i] = row] /\ flow' = [flow EXCEPT ![j] = over]
        /\ UNCHANGED <<rules, todo, req, orderly>>
    BY <1>20 DEF EndFlow
  <2> HIDE DEF row, over
  <2> QED
    BY <1>1, <2>1, <2>2, <2>3, <2>4 DEF Undisturbed
<1>21. ASSUME NEW u \in Users, NEW j \in Instances, CancelFlow(u, j)
       PROVE  IntakeInv'
  <2> DEFINE i == flow[j].of
             job == [NoRequest EXCEPT !.at = "cancelled", !.id = i]
  <2>1. i \in Incidents /\ req[u].id = None /\ flow[j].live
    BY <1>0, <1>21 DEF CancelFlow, RequestsFit
  <2>2. job \in Requests /\ job.id = i /\ job.at = "cancelled"
    BY <1>0, <2>1 DEF NoRequest, Requests
  <2>3. /\ req' = [req EXCEPT ![u] = job] /\ flow' = [flow EXCEPT ![j] = NoFlow]
        /\ UNCHANGED <<incident, rules, todo>> /\ Disturb(IF AtWork(i) THEN {i} ELSE {})
    BY <1>21 DEF CancelFlow, Enter
  <2> HIDE DEF job
  <2>4. /\ orderly' \in [Incidents -> BOOLEAN] /\ \A k \in Incidents : orderly'[k] => orderly[k]
        /\ orderly'[i] => ~AtWork(i)
    BY <2>1, <2>3, DisturbOnly
  <2>5. orderly'[i] => /\ incident[i].scanned /\ i \notin todo
                       /\ \A v \in Users \ {u} : req[v].id # i
    BY <2>1, <2>4 DEF Undisturbed, AtWork, Live
  <2>6. /\ flow' \in [Instances -> [of : Incidents \cup {None}, live : BOOLEAN]]
        /\ \A f \in Instances : flow'[f].live => flow'[f] = flow[f]
    BY <1>0, <2>3
  <2> QED
    BY <2>1, <2>2, <2>3, <2>4, <2>5, <2>6, Entered
<1>22. ASSUME NEW j \in Instances, RetryFlow(j)
       PROVE  IntakeInv'
  <2>0. PICK i \in Incidents : i = flow[j].of
    BY <1>22 DEF RetryFlow
  <2> DEFINE row == [incident[i] EXCEPT !.status = "processing"]
             again == [flow[j] EXCEPT !.live = TRUE]
  <2>2. /\ row \in IncidentRows /\ row.instance = incident[i].instance
        /\ row.scanned = incident[i].scanned /\ row.rule = incident[i].rule
    BY SMTT(20), ZenonT(30) DEF IncidentRows, HealingStatuses
  <2>3. again \in [of : Incidents \cup {None}, live : BOOLEAN] /\ again.of = i
    BY <2>0
  <2>4. /\ incident' = [incident EXCEPT ![i] = row] /\ flow' = [flow EXCEPT ![j] = again]
        /\ Disturb({k \in {i} : incident[k].instance # j \/ AtWork(k)})
        /\ UNCHANGED <<rules, todo, req>>
    BY <1>22, <2>0 DEF RetryFlow
  <2> HIDE DEF row, again
  <2>5. /\ orderly' \in [Incidents -> BOOLEAN] /\ \A k \in Incidents : orderly'[k] => orderly[k]
        /\ orderly'[i] => incident[i].instance = j /\ ~AtWork(i)
    BY <2>4, DisturbOnly
  <2>6. IntakeTypeOK' /\ RequestsFit'
    BY <2>2, <2>3, <2>4, <2>5 DEF RequestsFit
  <2>7. ASSUME NEW k \in Incidents, k # i, orderly'[k]
        PROVE  Undisturbed(k)'
    <3>1. incident'[k] = incident[k]
      BY <2>4, <2>7
    <3>2. k \in todo \/ ~incident[k].scanned => ~incident[k].scanned
      BY <2>5, <2>7 DEF Undisturbed
    <3>3. \A f \in Instances : flow'[f].live /\ flow'[f].of = k => flow[f].live /\ flow[f].of = k
      BY <2>3, <2>4, <2>7
    <3> QED
      BY <2>4, <2>5, <2>7, <3>1, <3>2, <3>3, LeftAlone
  <2>8. ASSUME orderly'[i]
        PROVE  Undisturbed(i)'
    <3>1. orderly[i] /\ Undisturbed(i) /\ incident[i].instance = j /\ ~AtWork(i)
      BY <2>5, <2>8
    <3>2. incident'[i].instance = j /\ incident'[i].scanned /\ i \notin todo' /\ ~AtWork(i)'
      BY <2>2, <2>4, <3>1 DEF Undisturbed, AtWork
    <3>3. \A f \in Instances : flow'[f].live /\ flow'[f].of = i => f = j
      BY <2>4, <3>1 DEF Undisturbed, Live
    <3> QED
      BY <2>4, <3>2, <3>3 DEF Undisturbed, Live, AtWork
  <2> QED
    BY <2>6, <2>7, <2>8
<1>23. ASSUME NEW j \in Instances, Forget(j)
       PROVE  IntakeInv'
  <2>1. flow' = [flow EXCEPT ![j] = NoFlow] /\ UNCHANGED <<incident, rules, todo, req, orderly>>
    BY <1>23 DEF Forget
  <2> QED
    BY <1>0, <1>2, <2>1
<1>24. CASE IntakeCrash
  <2>1. /\ todo' = {} /\ req' = [u \in Users |-> NoRequest] /\ UNCHANGED <<incident, rules, flow>>
        /\ Disturb({i \in Incidents : AtWork(i)})
    BY <1>24 DEF IntakeCrash
  <2>2. orderly' \in [Incidents -> BOOLEAN] /\ \A i \in Incidents : orderly'[i] => orderly[i]
    BY <2>1, DisturbOnly
  <2> QED
    BY <1>0, <1>2, <2>1, <2>2
<1>25. CASE UNCHANGED intake
  BY <1>2, <1>25 DEF intake
<1> QED
  BY <1>3, <1>4, <1>5, <1>6, <1>7, <1>8, <1>9, <1>11, <1>12, <1>13, <1>14, <1>15, <1>16, <1>17,
     <1>1a, <1>19, <1>20, <1>21, <1>22, <1>23, <1>24, <1>25
     DEF IntakeNext, IntakeUser, RequestStep, ScanStep

LEMMA IntakeInvariant == IntakeSpec => []IntakeInv
<1>1. IntakeInit => IntakeInv
  BY DEF IntakeInit, IntakeInv, IntakeTypeOK, RequestsFit, Undisturbed, Live, AtWork, NoIncident,
     NoFlow, NoRequest, IncidentRows, Requests, HealingStatuses
<1> QED
  BY <1>1, IntakeKept, PTL DEF IntakeSpec

\* However many incidents, rules, flows and requests there are, no flow heals an incident beside
\* the one its row names, while its writers keep out of each other's way (createFlowInstance,
\* TriggerIncidentManually, RestorePendingTrigger).
THEOREM OneLiveFlowCorrect == IntakeSpec => []OneLiveFlow
<1>1. IntakeInv => OneLiveFlow
  BY DEF IntakeInv, Undisturbed, OneLiveFlow
<1> QED
  BY <1>1, IntakeInvariant, PTL
=============================================================================
