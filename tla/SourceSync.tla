------------------------------ MODULE SourceSync ------------------------------
(***************************************************************************)
(* How the records of an ITSM or CMDB source become rows: the scheduler     *)
(* claims a plugin that is due, a sync fetches what changed at the source   *)
(* since the plugin's cursor and saves it record by record, and the cursor  *)
(* moves only when every record was saved.  Until a sync has completed      *)
(* there is no cursor, and a sync takes the last day's changes.  A user may *)
(* start a sync at any time, edit the plugin or switch it off; a source     *)
(* that fails too often is paused.                                          *)
(*                                                                         *)
(* One plugin, whose source is asked by its since_param; plugins share      *)
(* nothing but the loop that claims them.  What its filter drops is no      *)
(* record here.  Of its times the model keeps whether they have come.       *)
(***************************************************************************)
EXTENDS Null, Naturals

CONSTANTS Records,      \* records of the source
          Syncs,        \* syncs and requests at work at once
          MaxFailures   \* max_failures; 0 is no limit

ASSUME SyncConstants == MaxFailures \in Nat

VARIABLES
  plugin,   \* the plugins row
  due,      \* the records a sync would ask for: changed after the cursor or, without
            \* one, in the last day
  old,      \* those the last day left behind, unsaved, before there was a cursor (history)
  behind,   \* the records whose row does not hold what the source has
  late,     \* those changed while a sync had them in hand already (history)
  loop,     \* the scheduler's loop and the copy of the plugin it holds
  sync      \* what each sync or request is at

syncing == <<plugin, due, old, behind, late, loop, sync>>
source == <<due, old, behind, late>>

\* Bound: counts of failures after which one more pauses the plugin are one.
Limit == IF MaxFailures = 0 THEN 0 ELSE MaxFailures - 1
Count(n) == IF n > Limit THEN Limit ELSE n

Plugins == [enabled : BOOLEAN, active : BOOLEAN, failures : 0 .. Limit,
            cooling : BOOLEAN, synced : BOOLEAN, next : {"none", "due", "later"}]

SyncPlaces == {"idle", "prepare", "fetch", "save", "result", "config"}

\* since is what a sync asks the source for, as the records it would get; todo those it
\* has fetched and not saved, good those still as they were fetched.
SyncJobs == [at : SyncPlaces, scheduled : BOOLEAN, failures : 0 .. Limit,
             since : SUBSET Records, todo : SUBSET Records, good : SUBSET Records,
             failed : BOOLEAN, enabled : BOOLEAN]

NoSync == [at |-> "idle", scheduled |-> FALSE, failures |-> 0, since |-> {}, todo |-> {},
           good |-> {}, failed |-> FALSE, enabled |-> FALSE]

SyncTypeOK ==
  /\ plugin \in Plugins
  /\ due \subseteq Records /\ old \subseteq Records
  /\ behind \subseteq Records /\ late \subseteq Records
  /\ loop \in [at : {"idle", "listed", "claimed"}, failures : 0 .. Limit]
  /\ sync \in [Syncs -> SyncJobs]

NoLoop == [at |-> "idle", failures |-> 0]

\* CreatePlugin: nothing was saved yet, and some records changed longer ago than a day.
SyncInit ==
  /\ \E e \in BOOLEAN :
       plugin = [enabled |-> e, active |-> FALSE, failures |-> 0, cooling |-> FALSE,
                 synced |-> FALSE, next |-> IF e THEN "later" ELSE "none"]
  /\ due \in SUBSET Records /\ old = Records \ due
  /\ behind = Records /\ late = {}
  /\ loop = NoLoop
  /\ sync = [w \in Syncs |-> NoSync]
-----------------------------------------------------------------------------
InFlight == \E w \in Syncs : sync[w].scheduled
Holding == \E w \in Syncs : sync[w].at = "save"

\* The source, a service outside the program: a record appears or changes.
Change(r) ==
  /\ due' = due \cup {r}
  /\ old' = old \ {r}
  /\ behind' = behind \cup {r}
  /\ late' = IF Holding THEN late \cup {r} ELSE late \ {r}
  /\ sync' = [w \in Syncs |->
                IF sync[w].at = "fetch" THEN [sync[w] EXCEPT !.since = @ \cup {r}]
                ELSE [sync[w] EXCEPT !.good = @ \ {r}]]
  /\ UNCHANGED <<plugin, loop>>

\* syncSince: a day passes since a record changed, and no sync has completed yet.  Of the
\* syncs just begun, some have not looked at the clock and will not ask for it either.
Age(r) ==
  /\ ~plugin.synced
  /\ r \in due
  /\ due' = due \ {r}
  /\ old' = IF r \in behind THEN old \cup {r} ELSE old
  /\ \E W \in SUBSET {w \in Syncs : sync[w].at = "fetch"} :
       sync' = [w \in Syncs |-> IF w \in W THEN [sync[w] EXCEPT !.since = @ \ {r}]
                                ELSE sync[w]]
  /\ UNCHANGED <<plugin, behind, late, loop>>

Tick ==
  /\ plugin.next = "later" \/ plugin.cooling
  /\ plugin' = [plugin EXCEPT !.next = IF @ = "later" THEN "due" ELSE @, !.cooling = FALSE]
  /\ UNCHANGED <<source, loop, sync>>
-----------------------------------------------------------------------------
(* The scheduler. *)

\* getPluginsNeedSync, with what is still cooling down left out.
ListDue ==
  /\ loop = NoLoop
  /\ plugin.enabled /\ plugin.active
  /\ plugin.next = "due"
  /\ ~plugin.cooling
  /\ loop' = [at |-> "listed", failures |-> plugin.failures]
  /\ UNCHANGED <<plugin, source, sync>>

\* The row must still be enabled, active and due; the claim is a lease on next_sync_at.
ClaimPlugin ==
  LET claimed == plugin.enabled /\ plugin.active /\ plugin.next = "due"
  IN  /\ loop.at = "listed"
      /\ loop' = IF claimed THEN [loop EXCEPT !.at = "claimed"] ELSE NoLoop
      /\ plugin' = IF claimed THEN [plugin EXCEPT !.next = "later"] ELSE plugin
      /\ UNCHANGED <<source, sync>>

Dispatch(w) ==
  /\ loop.at = "claimed"
  /\ ~InFlight
  /\ sync[w] = NoSync
  /\ sync' = [sync EXCEPT ![w] = [NoSync EXCEPT !.at = "prepare", !.scheduled = TRUE,
                                                !.failures = loop.failures]]
  /\ loop' = NoLoop
  /\ UNCHANGED <<plugin, source>>

\* Mutant: the claim is kept as it is when a sync is in flight.
KeepClaim ==
  /\ loop.at = "claimed"
  /\ InFlight
  /\ plugin' = [plugin EXCEPT !.next = "none"]
  /\ loop' = NoLoop
  /\ UNCHANGED <<source, sync>>

\* The time that had come is written back, whatever the row has become.
RollbackClaim ==
  /\ loop.at = "claimed"
  /\ InFlight
  /\ plugin' = [plugin EXCEPT !.next = "due"]
  /\ loop' = NoLoop
  /\ UNCHANGED <<source, sync>>
-----------------------------------------------------------------------------
(* A sync. *)

Begin(w) == [sync[w] EXCEPT !.at = "fetch", !.since = due]
Go(w, job) == sync' = [sync EXCEPT ![w] = job]

\* performSync returned, and the scheduler looks at the log's status.
Over(w, failed) ==
  Go(w, IF sync[w].scheduled
        THEN [NoSync EXCEPT !.at = "result", !.scheduled = TRUE,
                            !.failures = sync[w].failures, !.failed = failed]
        ELSE NoSync)

PrepareSync(w) ==
  /\ sync[w].at = "prepare"
  /\ Go(w, Begin(w))
  /\ UNCHANGED <<plugin, source, loop>>

TriggerSync(w) ==
  /\ sync[w] = NoSync
  /\ Go(w, Begin(w))
  /\ UNCHANGED <<plugin, source, loop>>

\* The plugin cannot be read or the log not written, the source does not answer,
\* its answer cannot be mapped, or the sync panics.
SyncFails(w) ==
  /\ sync[w].at \in {"prepare", "fetch", "save"}
  /\ Over(w, TRUE)
  /\ UNCHANGED <<plugin, source, loop>>

FetchData(w) ==
  /\ sync[w].at = "fetch"
  /\ Go(w, [sync[w] EXCEPT !.at = "save", !.since = {}, !.todo = sync[w].since,
                           !.good = sync[w].since])
  /\ UNCHANGED <<plugin, source, loop>>

\* UpsertByExternalID: no version is compared.
SaveRecord(w, r) ==
  /\ sync[w].at = "save"
  /\ r \in sync[w].todo
  /\ behind' = IF r \in sync[w].good THEN behind \ {r} ELSE behind \cup {r}
  /\ Go(w, [sync[w] EXCEPT !.todo = @ \ {r}])
  /\ UNCHANGED <<plugin, due, old, late, loop>>

\* Also when another sync inserts the same record first.
SaveFails(w, r) ==
  /\ sync[w].at = "save"
  /\ r \in sync[w].todo
  /\ Go(w, [sync[w] EXCEPT !.todo = @ \ {r}, !.failed = TRUE])
  /\ UNCHANGED <<plugin, source, loop>>

\* Mutant: the cursor moves whatever could not be saved.
AdvanceAnyway(w) ==
  /\ sync[w].at = "save"
  /\ sync[w].todo = {}
  /\ due' = {}
  /\ plugin' = [plugin EXCEPT !.failures = 0, !.cooling = TRUE, !.synced = TRUE,
                              !.next = IF plugin.enabled THEN "later" ELSE @]
  /\ Over(w, sync[w].failed)
  /\ UNCHANGED <<old, behind, late, loop>>

\* completeSync: to the time of completion, not of the fetch.
AdvanceCursor(w) ==
  /\ sync[w].at = "save"
  /\ sync[w].todo = {}
  /\ ~sync[w].failed
  /\ due' = {}
  /\ plugin' = [plugin EXCEPT !.failures = 0, !.cooling = TRUE, !.synced = TRUE,
                              !.next = IF plugin.enabled THEN "later" ELSE @]
  /\ Over(w, FALSE)
  /\ UNCHANGED <<old, behind, late, loop>>

KeepCursor(w) ==
  /\ sync[w].at = "save"
  /\ sync[w].todo = {}
  /\ sync[w].failed
  /\ Over(w, TRUE)
  /\ UNCHANGED <<plugin, source, loop>>

\* The plugin cannot be read again, or not written; the log says success.
CursorLost(w) ==
  /\ sync[w].at = "save"
  /\ sync[w].todo = {}
  /\ ~sync[w].failed
  /\ Over(w, FALSE)
  /\ UNCHANGED <<plugin, source, loop>>

\* handlePluginSyncResult.
Succeeded(w) ==
  /\ sync[w].at = "result"
  /\ ~sync[w].failed
  /\ plugin' = [plugin EXCEPT !.failures = 0, !.next = "later"]
  /\ Go(w, NoSync)
  /\ UNCHANGED <<source, loop>>

Pauses(n) == MaxFailures > 0 /\ n >= MaxFailures

\* The count is the one of the copy the scheduler listed.
Failed(w) ==
  LET n == sync[w].failures + 1
  IN
  /\ sync[w].at = "result"
  /\ sync[w].failed
  /\ plugin' = [plugin EXCEPT !.failures = Count(n), !.enabled = @ /\ ~Pauses(n),
                              !.next = IF Pauses(n) THEN "none" ELSE "later"]
  /\ Go(w, NoSync)
  /\ UNCHANGED <<source, loop>>

\* The state is not written; the lease is what brings the plugin back.
ResultLost(w) ==
  /\ sync[w].at = "result"
  /\ Go(w, NoSync)
  /\ UNCHANGED <<plugin, source, loop>>
-----------------------------------------------------------------------------
(* Users. *)

\* UpdatePlugin reads the row; what the user does not change is written as read.  Where
\* the plugin is enabled its failures are forgotten.
LoadPlugin(w) ==
  /\ sync[w] = NoSync
  /\ \E e \in BOOLEAN : Go(w, [NoSync EXCEPT !.at = "config", !.enabled = e])
  /\ UNCHANGED <<plugin, source, loop>>

UpdateConfig(w) ==
  /\ sync[w].at = "config"
  /\ plugin' = [plugin EXCEPT !.enabled = sync[w].enabled,
                              !.failures = IF sync[w].enabled THEN 0 ELSE @,
                              !.next = IF sync[w].enabled THEN "later" ELSE "none"]
  /\ Go(w, NoSync)
  /\ UNCHANGED <<source, loop>>

\* Activate, once the connection was tried, or its failure; Deactivate.
UpdateStatus(active) ==
  /\ plugin' = [plugin EXCEPT !.active = active]
  /\ UNCHANGED <<source, loop, sync>>

SyncCrash ==
  /\ loop' = NoLoop
  /\ sync' = [w \in Syncs |-> NoSync]
  /\ UNCHANGED <<plugin, source>>

SyncUser == \/ \E w \in Syncs : TriggerSync(w) \/ LoadPlugin(w)
            \/ \E active \in BOOLEAN : UpdateStatus(active)

SyncStep(w) == \/ PrepareSync(w)
               \/ FetchData(w)
               \/ \E r \in Records : SaveRecord(w, r)
               \/ AdvanceCursor(w)
               \/ KeepCursor(w)
               \/ Succeeded(w)
               \/ Failed(w)
               \/ UpdateConfig(w)

SyncFault == \/ \E w \in Syncs : SyncFails(w) \/ CursorLost(w) \/ ResultLost(w)
             \/ \E w \in Syncs, r \in Records : SaveFails(w, r)
             \/ SyncCrash

Scheduling == \/ ListDue
              \/ ClaimPlugin
              \/ \E w \in Syncs : Dispatch(w)
              \/ RollbackClaim

SyncNext == \/ SyncUser
            \/ \E r \in Records : Change(r) \/ Age(r)
            \/ Tick
            \/ Scheduling
            \/ \E w \in Syncs : SyncStep(w)
            \/ SyncFault

SyncSpec == SyncInit /\ [][SyncNext]_syncing

\* Time passes, the ticker ticks, and goroutines are scheduled.
FairSyncSpec == /\ SyncSpec
                /\ WF_syncing(Tick)
                /\ WF_syncing(Scheduling)
                /\ \A w \in Syncs : WF_syncing(SyncStep(w))
-----------------------------------------------------------------------------
(* What a sync promises. *)

\* A record whose row is not what the source has will be fetched again: the cursor
\* passes nothing that was not saved, whatever fails, dies or runs side by side, but for
\* a record that changed after a sync had fetched it (completeSync).  The day that is
\* taken instead of a cursor before any sync has completed passes what it passes.
NothingIsMissed == behind \subseteq due \cup late \cup old

\* Once users rest, the source stays as it is and nothing fails, the rows become what the
\* source has, but for what was missed in those two ways, if the plugin is still to be
\* synchronised: no claim, lease, rollback, edit or crash before has taken it out of the
\* scheduler's sight.
ChangesArrive ==
  <>[][/\ ~SyncUser /\ ~SyncFault
       /\ \A r \in Records : ~Change(r)]_syncing
    => <>[](plugin.enabled /\ plugin.active => behind \subseteq late \cup old)
=============================================================================
