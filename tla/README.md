# auto-healing in TLA+

A formal model of the auto-healing server: the places where goroutines, requests
and scheduler scans write the same database rows, lose, repeat or reorder what
they do, and die in the middle. The modules are translated from the Go sources.
Paths below are relative to the repository; `A/` stands for
`src/internal/modules/automation/`, `I/` for `.../integrations/`, `E/` for
`.../engagement/`, `X/` for `.../access/`. `PROJECT.json` maps every definition to
the lines it stands for, and lists the hazards, each at its line with the
properties that would catch it going wrong.

## 1. The system

The server takes incidents from monitoring and ITSM plugins, matches them with
healing rules and walks a *healing flow*, a small graph with approval and
execution nodes, for each of them. Execution nodes start Ansible playbooks, which
come from Git repositories; the same playbooks are also started by hand and by
schedules. One process holds the HTTP API, the schedulers and all workers;
PostgreSQL holds all that survives it, Redis the revoked tokens.

| Component | State | Operations | Correct when |
|---|---|---|---|
| **Execution runs** `A/service/execution` | `execution_runs.status`; per Service the worker slots, the stored cancel functions, a goroutine and a status watcher per run | execute, start, prepare, play, write the result, notify, cancel here or through another Service, interrupt, recover a panic, shut down | a cancelled run stays cancelled; a recorded success is one; the notice agrees with the row; no goroutine leaves an open row; slots come back |
| **Flow executor** `A/service/healing/executor*.go`, `A/httpapi/healing_handler_*.go` | `flow_instances`, `approval_tasks`, `incidents.healing_status`; goroutines with copies of the row | execute, resume, retry, recover, approve, reject, cancel | the status takes legal steps and the incident with it; nothing is executed before its approval; the branch taken is the true one; a waiting flow has something to wait for |
| **Flow graph routing** `A/service/healing/executor_graph.go` | the snapshot in the instance | next node, next node by handle | failures do not fall through to the default edge |
| **Healing scheduler** `A/service/healing/scheduler*.go` | ten slots, a ticker | scan incidents, expire approvals, recover stuck instances | an incident gets one live flow, and every pending one is decided |
| **Execution schedules** `A/scheduler`, `A/service/schedule` | `execution_schedules`, the in-flight set | claim by lease, trigger, wait, record, roll back, enable, edit | a due time fires once; a once schedule ends with its run |
| **Event bus and SSE** `A/service/healing/event_bus.go`, `src/internal/platform/events` | bounded channels | publish, subscribe, stream, close | nobody who waits for an end or a message waits in vain |
| **Tasks and reviews** `A/service/execution`, **Git and playbooks** `I/service/{git,playbook}` | tasks with a snapshot of variables and a review flag; repositories, playbooks | sync, scan, edit, confirm, run | a task whose playbook changed is not executed unreviewed |
| **Plugins** `I/service/plugin` | cursor, failure count, records | claim, fetch, save, advance, pause | no record changed since the cursor is missed |
| **Notifications, site messages** `E/` | delivery logs, channels, messages | send, retry, broadcast, switch and delete a channel | a message is delivered once, and retried until it settles |
| **What names what** `A/`, `I/`, `E/`, secrets | references between tasks, schedules, flows, rules, playbooks, channels, templates, sources | create, edit, delete | what is named exists |
| **Access** `X/` | accounts, platform roles, tokens; requests to enter a tenant; tenants, seats, invitations | log in, refresh, log out, administer, enter, leave, invite, register | logging out ends a session; somebody holds `platform_admin`; inside was granted; an invitation is true |
| **Dry run** `A/service/healing/dryrun*.go` | a walk over the saved graph | run a node, choose the next, report the skipped | it follows the executor's routing |
| **Ansible engine** `A/engine/provider/ansible`, `A/service/execution/service_{background,inventory}.go` | a workspace with keys in it, a process or a container, a pipe and its reader | copy, scan, fetch credentials, start, read, wait, kill, parse, clean up | the verdict is the play's; a play has its workspace |
| **Command blacklist** `src/internal/modules/ops` | rules, a tenant's settings of system rules, exemptions | edit, switch, ask, approve, reject, expire, scan | a dangerous command is stopped unless its exemption was granted |
| Regular nodes, the rest of ops | context data; settings, audit | see section 6 | |

How they interact. The flow executor calls `ExecuteTask` and then *polls* the run's
row and its own instance's row (`waitForRunCompletion`); requests write rows and call
stored cancel functions; the schedulers look at rows only. There are two
execution Services in the process, one of the HTTP module and one of the execution
scheduler (`A/scheduler/constructors.go:13-23`): a cancel request reaches the first,
so the watcher's poll of the row is all that tells the second. Syncs change playbooks,
whose scans flag tasks, which guards what schedules and flows may execute. Whoever
ends a flow writes its row and then publishes to the streams that wait for it.

What is hard: writers that hold an old copy of a row; updates guarded by the old
status beside whole-row writes that are not; requests of several statements without
a transaction; contexts that end in the middle of one; counts checked before and
written after; leases and tokens that run out; channels that drop; the death of the
process between any two statements.

## 2. The modules

```
RunLifecycle     <-implements-  ExecutionRun       <- MCExecutionRun,      ExecutionRunProofs
FlowLifecycle    <-implements-  HealingFlow        <- MCHealingFlow,       HealingFlowProofs
                                  | EXTENDS
                                FlowGraph  <-INSTANCE- DryRun
ScheduleContract <-implements-  ExecutionSchedule  <- MCExecutionSchedule, ExecutionScheduleProofs
                                PlaybookReview     <- MCPlaybookReview,    PlaybookReviewProofs
MCServices, ServicesProofs -> IncidentIntake, SourceSync, NotificationDelivery
MCPlatform -> Accounts (<- AccountsProofs), TenantAccess and Tenancy (<- TenantAccessProofs),
              DryRun, and References, EventStreams, CommandGuard, RunEngine (<- OperationsProofs)
```

`Null` declares the one model value for "no row". The modules of `MCServices` share no
variable, nor do those of `MCPlatform`: `part` says which a behaviour is
of, and the others stay where they are, so that one run checks several modules without
multiplying their states.

An action is one statement, or the local work between two; the guards of a statement
are those in its `WHERE` clause and the checks made just before it. What a request read
earlier is kept in a record of its own (`walker`, `job`, `call`, `desk`, ...), so that it
can be old when it is used.

### ExecutionRun

`status` is the row; `pc` where the goroutine stands; `registered` is
`runningExecutions`; `ctxDone` the contexts whose cancel function was called; `watching`
the watchers; `cancelling` the cancel requests between their write and their signal;
`stopping` the end of the root context. `outcome` and `notified` are for properties only.

| Code | Actions |
|---|---|
| `ExecuteTask`, `scheduleExecution`, `Acquire` | `ExecuteTask`, `Acquire`, `AcquireStopped`, `MarkPendingRunInterrupted` |
| `executeInBackground` | `BindRunContext`, `StartRun`, `StartRunFails`, `PrepareRun`, `PrepareRunFails`, `PlaybookEnds`, `PlaybookKilled`, `CheckContext`, `InterruptRunningRun`, `PersistRunResult`, `PersistRunResultFails`, `SendRunCompletionNotification`, `ExitRun`, `PanicRun` |
| `CancelRun`, `cancelRunningExecution` | `CancelRun`, `CancelRunSignal`; `CancelRunElsewhere` for another Service |
| `watchRunCancellation` | `WatchRunStatus` (a poll that finds a terminal row) |
| `Shutdown`, death of the process | `Shutdown`, `Crash` |

### FlowGraph, HealingFlow

`FlowGraph` has the routing: first edge in list order, the named handle first, then the
default edge unless the handle is `rejected` or `failed`, then an edge without handle
where the code allows it. `HealingFlow` is one instance and everything that writes its
rows. `walker` holds the goroutines: each a place, the kind of call, its *copy* of node
states and result, the run it waits for, whether its context is done. `registered` is
the instance's entry in `runningFlowCancels`: one, whoever stored it last.
`resumed`, `did` and `taken` are for properties only.

| Code | Actions |
|---|---|
| `createFlowInstance`, `Execute` | `CreateInstance`, `StartFlow` |
| `executeNode`, `executeRegularNode` | `EnterNode`, `BeginNode`, `FinishNode`, `NodeFails` |
| `executeApproval` | `CreateAndEnterWaiting`, `EnsureWaitingApprovalStatus`, `PersistWaiting` |
| `ApproveTask`, `RejectTask`, `ResumeAfterApproval` | `LoadPendingApprovalTask`, `ApproveTask`, `RejectTask`, `ReadForResume`, `ResumeRunning`, `RecordDecision`, `FailApprovalResume` |
| `executeExecutionWithBranch`, `waitForRunCompletion`, `recordExecutionOutcome` | `LaunchRun`, `LaunchRefused`, `LaunchFails`, `PollRun`, `AwaitInterrupted`, `RecordOutcome`, `PersistContext`, `TakeBranch` |
| `complete`, `fail`, clean-up, error handlers | `CompleteInstance`, `FailInstance`, `StatementInterrupted`, `LeaveFlow`, `ReadStatusForError`, `FailOnError` |
| `RetryInstance`, `RecoverInstance` | `RetryInstance`, `RestartFailedInstance`, `RecoverInstance`, `ResetForRecovery`, `RunRecoveryAttempt` |
| `CancelInstance` | `CancelInstance`, `CancelPendingTasks`, `CancelContext`, `DismissIncident` |
| `processExpiredApprovals` | `ExpireTimedOut` with `ListRecentlyExpired`, `FailExpiredApproval` |
| outside | `RunEnds`, `ContextExpires`, `Crash` |

### ExecutionSchedule

`row` is `execution_schedules`, with its time as null, future or past; `scan` the list a
tick has read; `job` the goroutines with the row they were dispatched with; `inFlight`
and `sem` what the process keeps. `fired` and `streak` are for properties only.

| Code | Actions |
|---|---|
| requests of users | `Create`, `Enable`, `Disable`, `Update`, `Delete` |
| time | `TimeComes`, `LeaseExpires` |
| `checkAndExecute` | `CheckAndExecute`, `ClaimSchedule`, `DispatchScheduledExecution`, `RollbackExecutionClaim` |
| the goroutine of a trigger | `ExecuteTask`, `UpdateLastRunAt`, `MarkScheduleTriggered`, `WaitForRun`, `DetachScheduleCompletion`, `HandleScheduledExecutionError`, `RestoreCronNextRun`, `HandleScheduledExecutionSuccess`, `MarkCompleted`, `Exit` |
| outside | `RunEnds`, `Stop`, `Crash` |

### PlaybookReview

Repositories with what the origin and the clone hold, playbooks with the variables last
scanned, tasks with their snapshot and flag.

| Code | Actions |
|---|---|
| `SyncRepo` and its check | `SyncRepo`, `Pull`, `PullFails`, `ListPlaybooks`, `CheckPlaybook`, `MarkInvalid` |
| a scan | `LoadPlaybook`, `ScanFiles`, `PersistScan`, `ScanLost`, `ListRelatedTasks`, `SyncTaskReviewStatus` |
| requests on playbooks | `UpdateUserVariables`, `SetReady`, `SetOffline`, `WriteStatus`, creation and deletion |
| requests on tasks | `CreateTask`, `UpdateTask`, `DeleteTask`, `ConfirmTaskReview` with `LoadVariables` and `SaveTask` |
| start and death of the process | `ResetStatus`, `Crash` |

### IncidentIntake, SourceSync, NotificationDelivery; References, EventStreams

| Code | Actions |
|---|---|
| the scan of incidents | `Arrive`, `ListUnscanned`, `SkipIncident`, `AwaitTrigger`, `CreateFlow`, `ScanFails` |
| trigger by hand | `TriggerIncidentManually`, `CreateTriggered`, `TriggerFails`, `RestorePendingTriggerIncident`, `RestorePendingTrigger` |
| other requests on an incident | `DismissIncident`, `CloseIncident`, `LoadCancelled`, `SaveRow`, `WritebackFails`, `BatchResetScan`, `CreateRule`, `DeleteRule` |
| its flow, the process | `EndFlow`, `CancelFlow`, `RetryFlow`, `Forget`, `IntakeCrash` |
| a plugin's schedule | `Change` (at the source), `Age` (out of `syncSince`'s last day), `Tick`, `ListDue`, `ClaimPlugin`, `Dispatch`, `RollbackClaim` |
| a sync | `Begin`, `SaveRecord`, `AdvanceCursor`, `KeepCursor`, `Succeeded`, `Failed`, and the steps in which one of them is lost; `UpdateConfig` and the switching of the plugin |
| `Send` | `CreateLog`, `Allow`, `RateLimited`, `SendMessage`, `ApplySendResponse`, `OutcomeLost` |
| the retry scan | `ListRetries`, `RetryInactive`, `RetryOrphan`, `FormatLost`, `RetryMessage`, `RetryAnswered`, `WriteRetry`, `RetryLost`, `RetrySkips`; `SwitchChannel`, `DeleteChannel`, `RetryComes`, `MinuteEnds`, `DeliveryCrash` |
| ten tables and their deletions | `Create`, `Update`, `ConfirmReview`, `Save`, `CountUsers`, `Delete`, `EditFails` |
| the end of a flow and its event | `EndInstance`, `PublishFlowComplete`, `PublishNode`, `EndSilently`, `CancelPendingFails`, `Restart` |
| `InstanceEvents` | `InstanceEvents`, `Subscribe`, `writeInitialInstanceEvents`, `streamInstanceEvents`, `Disconnect` |
| site messages | `CreateMessage`, `Broadcast`, `Events`, `pushInitialUnreadCount`, `InitialCountFails`, `streamSiteMessageEvents`, `GetUnreadCount` (of the client, as `docs/api/site-messages.md:203` tells it to), `Unsubscribe` |

In `SourceSync` the cursor is the set `due` of records that a sync asks for: those changed since or,
before any sync has completed, within a day. `old`, `behind` and `late` are for properties only. In
`References` a row is an identifier, `keys` are the references the database enforces (the SQL
migrations' foreign keys), `names` those kept in JSON or checked by the code alone.

### CommandGuard, RunEngine

`CommandGuard` is the blacklist as one tenant sees it. Whether a rule's pattern occurs in a
workspace is a bit of the rule, changed with its pattern. `approvals`, `denials` and `armed`
are for properties only. `RunEngine` is the inside of `PrepareRun`, `PlaybookEnds` and
`PlaybookKilled` of `ExecutionRun`: `call` is the run's goroutine, `command` the process it started,
`play` what Ansible does in it or in a container of its own, `pipe`, `hand` and `heard` the
lines of the recap on their way. `cut` and `left` are for properties only.

| Code | Actions |
|---|---|
| requests on rules | `CreateRule`, `DeleteRule`, `GetRuleByID` with `UpdateRule` or `ToggleActive`, `BatchToggle`, `BatchToggleSystem` |
| exemptions | `AskExemption`, `CreateExemption`, `GetExemption`, `DecideExemption`, `ValidityEnds`, `ExpireOverdue` |
| `ScanWorkspace`, `filterExemptedViolations` | `ListTenantActiveRules`, `ListSystemRules`, `FilterExempted` |
| `prepareRunWorkspace`, `prepareRunInventory` | `PrepareWorkspace`, `ScanWorkspace`, `LoadSecretProvider`, `ProvidersLoaded`, `ResolveHostCredential`, `WriteInventory`; `SwitchVault` by a user |
| `executeWithStreaming` | `StartCommand`, `KillCommand`, `WaitReturns`, `ReadChunk`, `CollectLine`, `TakeCancelled`, `TakeEnded`, `StopContainer`, `CancelledResult`, `BuildResult` |
| the result, the clean-up | `PersistRunResult`, `ReleaseWorkspace`, `ContextEnds` |
| ansible-playbook, docker | `PlaySays`, `PlayEnds`, `CommandExits` |

### Accounts, TenantAccess, Tenancy, DryRun

| Code | Actions |
|---|---|
| login, tokens | `Login`, `RecordSuccessfulLogin`, `IncrementFailedLogin`, `RefreshToken`, `RefreshUserInfo`, `Rotate`, `Logout`, `BlacklistSession`, `Expire` |
| administration of accounts | `CreateUser`, `UpdateUser`, `UpdateProfile`, `UpdatePlatformUserWithRole`, `AssignUserRoles`, `AssignRoles`, `DeleteUser`, `Delete`, `CallFails` |
| a request to enter a tenant | `CreateRequest`, `Insert`, `LoadForDecision`, `UpdateStatus`, `CancelRequest`, `EnterTenant`, `StartOrResumeSession`, `ExitTenant`, `PauseOrCompleteSession`, `TerminateSession`, `CompleteSession`, `HandlerFails`, `ExpireOverdueSessions`, `Lapse`, `SetApprovers` |
| a tenant, its own role | `CreateTenant`, `UpdateTenant`, `SaveTenant`, `DeleteTenant`, `CreateRole`, `DeleteRole` |
| seats | `AddMember`, `InsertMember`, `SetTenantAdmin`, `assignTenantAdmin`, `UpdateMemberRole`, `UpdateTenantUser`, `WriteMemberRole`, `RemoveMember`, `DeleteTenantUser`, `DeleteMember`, `CreateTenantUser`, `DeleteAccount` |
| invitations | `InviteToTenant`, `CreateInvitation`, `CancelInvitation`, `WriteCancelled`, `Age`, `ExpireOldInvitations`, `loadValidInvitation`, `InvitationTooLate`, `ensureInvitationTargetsValid`, `registerTx`, `JoinTenant`, `Accept`, `CompletionFails`, `RollbackMember`, `RollbackUser`, `CutOff` |
| the dry run | `RunNode`, `RunFails`, with `getSkippedBranchNodes` and `nextDryRunNode` |

### The contracts

`RunLifecycle`: a run is created pending, started at most once, ends once.
`FlowLifecycle`: the steps a flow's status may take, and the healing status of the
incident that goes with each. `ScheduleContract`: a schedule is armed by its users,
claimed only while armed, and at work for one claim at a time. `ImplementsLifecycle`,
`ImplementsFlow` and `ImplementsContract` are the refinements. For runs and flows the
mapping is the identity on the shared variables; for schedules `armed`, `claimed` and
`firing` are read off the row, the scan and the goroutines. All else is a stutter.

## 3. The runs

`Faults` and `Happens` choose which outside events an instance of a module meets, so that
a property is stated together with the events it survives.

| Run | Instance, events | What it shows |
|---|---|---|
| `run_settles` | two runs, one slot; crashes, panics, a shutdown, two Services; statements fail only because a context is done | `OutcomeIsTrue`: no success is recorded that was not. `NotificationMatchesRow`: what receivers are told is what the row keeps saying. `ImplementsLifecycle`. `EveryRunSettles`: every accepted run ends if playbooks do. `CancelStopsWork`: a cancellation ends the goroutine even if the playbook hangs, or another Service took the call |
| `flow_contract` | graph *Ask*, two tasks; crash, retry | `ImplementsFlow`: flow and incident take only the steps of `FlowLifecycle`, together. `ApprovalResumesOnce`: one decision wakes the flow once, also when a retry opened a second task |
| `flow_branch` | *Chain*; crash, contexts that end | `BranchIsTrue`: the branch taken is the outcome of the run. `OneActiveRun`: playbooks of a flow do not overlap. `CompletedMeansDone` |
| `flow_settles` | *Approval*; recovery by the scheduler | `ApprovalGuardsExecution`: no playbook before the approval. `NeverWaitsForNobody`: a waiting flow has a task, a decision or an expiry to wait for. `CancelledHasNoPendingTask`. `EveryFlowEnds`, decided or not. `CancelStopsWork` |
| `flow_recovers` | *Lone*; crash, both recoveries, a failing statement | `RecoveryEndsFlow`: once the process stays up the flow ends |
| `flow_stale_branch` | *Chain*; recovery by the scheduler | counterexample to `BranchIsTrue` (section 4) |
| `flow_old_decision` | *Ask*, two tasks; retry, recovery by the scheduler | counterexample to `ApprovalResumesOnce` (section 4) |
| `schedule_claims` | one schedule, two goroutines, two runs; crash, stop | `NoOverlap`: one run of a schedule at a time, and none of a completed one. `OnceFiresOnce`. `ImplementsContract`. `DueFires`: what is due comes to a start. `OnceCompletes` |
| `review_settles` | one playbook, two workers; crash, failed pull, overlapping writers | `DriftIsFlagged`: no task whose playbook's variables changed is executed unreviewed, once the writers that overlapped are done and a full scan has followed. `FlagsSettle`: once users rest the next syncs put every flag right, and mark a playbook whose file is gone |
| `review_edit_drift` | one playbook, edits | counterexample to `DriftIsFlagged` (section 4) |
| `services` | the three modules of `MCServices`, one to a behaviour | `OneLiveFlow`, `EveryIncidentIsDecided`; `NothingIsMissed`, `ChangesArrive`: whatever fails, a record changed since the cursor is saved or will be, but for those `late` and `old` name (section 4); `DeliveredOnce`, `EveryNoticeSettles` |
| `platform` | the eight modules of `MCPlatform`, one to a behaviour; the one role `platform_admin` | `LogoutEndsSession`; `AdminRemains`: somebody holds that role whose account was not disabled; `InsideWasGranted`, `SessionEndsForGood`; `InvitationIsTrue`; `DryRunFollowsExecutor`, for every graph of up to five nodes and nine possible edges, with a condition that names a target, names one that is not there, or names none; `ReferencesExist`: what is named exists; `NobodyWaitsInVain`: a stream is closed with an end the flow had, and no client that could be told of the end, or of a message, waits in vain; `DangerIsStopped`: a run that goes on broke no rule in force without a granted exemption; `VerdictIsThePlays`: the status is what the play left its hosts in; `PlayHasItsWorkspace`: a play that runs has its workspace and keys |

Every property has a mutant in `PROJECT.json`: a definition changed the way a plausible bug
would change it, under which the property's run fails.

Deadlock is checked in the `review_*` runs, where something can always happen. In the others
the system comes to rest: all runs are over, the flow has ended, all requests are used up.

**Bounds.** *ExecutionRun*: two runs and one slot, the least for which a run waits for
another's slot and a cancellation, a panic or a stop can meet either place. *HealingFlow*: two
goroutines at once, enough for every race of a walker with a decision, a retry, a recovery
or a second decision; one approval task, two where a retry makes a second one; one or two runs; `resumed` counts to two, enough to
tell "once" from "more"; one cancel request at a time, since a second finds the status
cancelled. When tasks or runs are used up, a further visit of the approval node stays where
it is and a launch can only be refused. The graphs: *Approval*, `begin → ask –approved→ exec
–success→ end`, has a rejection and a failure without branch; *Chain*, `begin → hosts → exec1
→ exec2`, a regular node that can fail, two executions in a row, and an end without end node;
*Lone*, one execution; *Ask*, an approval and an end.
*ExecutionSchedule*: two goroutines and runs, so that a claim can come
during a run; failures and crashes are counted to two and one. *PlaybookReview*: one variable
of two types; a scan and a request, or two of either. *MCServices*: one incident with two
instances and two requests; one record, two syncs, one failure until the pause; two messages,
two senders, two retries, one message a minute. *MCPlatform*: ten tables in six worlds, two editors; one
stream, two who end the flow, one watcher, two messages, and one place in a channel, so that
every second event finds it full; a system rule and one of the tenant, two exemptions, two
users, two requests, one scan, with either the rules or the exemptions changing; two hosts, two vaults of
which the second knows both; two users, three sessions (two while accounts are
administered), two calls, a lock at the first wrong password, with
accounts and sessions taken in order (`TakenInOrder`: unused ones are alike, so every behaviour
is one of these after a renaming); two requests to enter a tenant;
two accounts for one email, one invitation, two requests at work. Larger instances without
liveness passed as well: two schedules, two records, two streams and watchers with two
places, two playbooks with a task moved between them, two seat requests beside each other.

Goroutines, users and rows that no definition tells apart are symmetric; symmetry is used
in safety runs only.

**Fairness.** `WF` of every goroutine's step and of requests and scans that have begun: the Go scheduler
runs them and their statements return. `SF` of `Acquire`: senders blocked on a channel are served in
order, so a run that finds a free slot again and again gets one. `SF` of an expiry with a task that
timed out: every scan takes all of these, and what it lists again from earlier scans it lists for a
minute. The cancellation watcher has fairness of its own, being a goroutine beside the worker. A flow's
goroutine taking one of the ten slots is under `WF(Step)`: other instances end too. In
*ExecutionSchedule*: time passes, leases run out, the ticker ticks, a stopped process ends; in
*PlaybookReview* repositories are synced again and again (`WF(Sync)`): by the scheduler or, once it has
paused a repository after `max_failures` (`I/scheduler/git_sync.go:19-23`), at a user's request; in
*MCServices* the tickers and the retry times come, and since a behaviour is of one module one condition
serves a step of each. Nothing makes a person decide, cancel, retry or edit. That playbooks end is not
part of any specification but a premise of the properties that need it (`PlaybooksEnd`, `EveryRunEnds`),
and so are "users rest" and "no statement fails from now on": without them nothing of the kind is
promised.

## 4. What the code does otherwise, and what the properties exempt

Three runs end in a counterexample; `PROJECT.json` quotes the sentences they contradict.

- `flow_stale_branch`: the scheduler recovers an instance whose playbook takes longer than
  two minutes and follows `success` while it is at work, since the recovered handle is never
  empty.
- `flow_old_decision`: after a retry of an approval node the scheduler lists the waiting flow
  because its earlier task is decided, takes the first task of the node, and resumes the flow
  with the earlier decision while the new task is open.
- `review_edit_drift`: editing anything of a flagged task lifts its flag without renewing
  its snapshot, and the drifted task runs.

The following was seen with the same modules under other events, or is exempted in a
property by a premise, a history variable or a constant. It marks how far the passing runs go.

*Runs.* On a stop, a run can take a slot although the context is done, cannot write and leaves
its row open (`service_background.go:87`): `NoOrphanedRun` is about a Service that is not
stopped and writes that succeed. A panic after the result was written turns a finished run into a
failed one; `RunLifecycle` allows it, as `recoverRunPanic` means it. A log stream reads logs and
then the row, so it can miss the last lines.

*Flows.* Without these restrictions there are counterexamples: `OneActiveRun` with retries (the error
handler of a failed attempt fails the retried instance under its goroutine, and a second retry runs the
playbook twice); `BranchIsTrue` with a failing `markExecutionNodeRunning` (the earlier result decides
the branch, `executor_execution.go:60-88`); `NeverWaitsForNobody` with a crash between expiring a task
and failing its flow (`scheduler_maintenance.go:14-33`). That scan lists every task that expired within
the last minute, whenever a task of any flow expires: a flow that was retried meanwhile and waits for a
new task is failed for its earlier one. It is in the model, and breaks no property: flow and incident
fail together. A cancellation that meets the poll in the middle leaves the playbook running
(`CancelledLeavesNoRun`, in no run). A retry without a node starts at the current node
(`executor_run.go:164`), where `docs/api/healing.md:383` says from the beginning.

*Schedules.* The failure counter is computed from the row as listed, up to half an hour before
(`FailuresAreCounted`, in no run, `execution_run.go:155`; the checklist
`docs/final-acceptance-test-checklist-2026-03-22.md:289` counts real outcomes). A run that is not
over after the 35 minutes of waiting is left to itself and its once schedule marked
completed. A rollback writes the next time whatever the row says, and fails when the context
ended with the stop. A once schedule whose process dies while it is followed stays as it is. Enabling a
schedule during its run is undone by the completion. When all eight slots are always taken a due
schedule can wait for ever.

*Tasks and playbooks.* Two writers of one playbook at once can leave a flag or a snapshot wrong until
the next full scan: `trust` says for which playbooks that is so. A playbook once `invalid` stays so when
its file returns (`docs/api/playbooks.md:285-300`). A failed pull leaves the repository in `error`, from
which a later sync returns it; after `max_failures` the scheduler leaves it to users. A death during a
sync leaves the repository `syncing`, until the start resets it.

*Incidents.* Deleting a rule leaves incidents that wait for its trigger where nobody finds them.
A cancel whose last write is lost leaves `processing`. An incident dismissed before its first scan is
healed all the same (`docs/api/incidents.md:201`; `incident_repository.go:49`). Dismissing and closing
save the whole row and can undo what a scan wrote, which then heals it a second time; so can a reset
while the flow is live. `orderly` says which incidents were spared this.

*Plugins.* The cursor moves to the time the sync ended, so a record changed between fetch and end is
missed (`late`; `docs/auto_healing_project_intro.md:156`). Until a sync has completed there is no cursor
and each takes the last day's changes (`service_sync.go:102-107`): what changed before slides out of
reach, while the source is down or the plugin not activated, and is fetched only if it changes again
(`old`). A count read before a sync can pause the plugin too early; saving the configuration writes back
an old `enabled`, and with it on forgets the failures.

*Notifications.* A message above the rate is never retried. Nor is one whose template cannot be read when its
retry is due, or whose channel is off or gone by then: a channel is deleted without asking for its logs
(`service_channels.go:164-180`), which the foreign key of the SQL migrations would refuse, but the server's
AutoMigrate makes none. `excused` has these. A death in between leaves `pending`, and an answer that is lost
leads to a second delivery (`lost`).

*References.* A row that is named while another request deletes it dangles (`raced`); so does a template
that only `notification_configs` of a flow name, since `CountFlowsUsingTemplate` looks at
`config.template_id` alone (`listed`; `healing_validation.go:385-405`). `keys` is whether the foreign keys
of the SQL migrations are there: the server's own AutoMigrate makes none
(`database.go:45`, `cmd/server/main.go:78`), and then columns dangle too.

*Command blacklist.* A scan that cannot read the rules lets the run go on
(`service_background.go:141-150`). Saving a system rule changes nothing and is answered with success. The
whole-row write of an edit can undo a switch made meanwhile. Two requests that cross leave two
pending exemptions of one rule.

*Engine.* `cmd.Wait` closes the pipe on a reader that lags behind, and the reader writes two database
rows per line: the recap may be cut, and a run be recorded failed, or a success if only a failed host's
line is lost (`cut`; `local_executor_stream_test.go:25` wants the last line kept). A container is left
when it cannot be stopped, when its command dies, or when that is noticed before the cancellation
(`left`). Of a local play it is assumed that it is over with `ansible-playbook`: the kill reaches that
process only (`local_executor_stream.go:31`), and its forked workers end because it does. The exit code
plays no part in the status, and a play that skips everything is recorded failed. Nothing removes the
workspaces of a process that died.

*Streams.* An end published between the reading of the row and the subscription is missed, the hundred-and-first
event is dropped, and three ends have no event: an approval that ran out, a failed
resumption, and a cancellation whose tasks could not be closed. Each leaves a stream open, where the
checklist (`docs/final-acceptance-test-checklist-2026-03-22.md:248-274`) wants it closed; `missed` has
these connections. A `failed` published after a retry closes a new stream of a flow that runs again:
the end told is one the flow had, not the one it has. If the first count of messages fails nothing is
pushed (`"blind"`).

*Accounts.* A login's last write can undo a disabling; whole-row saves can bring back a password, a lock or
roles, and a deleted user; five wrong passwords lock even the last administrator. Two administrators
who demote each other at once leave none: `orderly` says that requests took turns. Even then one can do it
alone: the check for the last platform administrator counts active accounts of the platform whatever
roles they have (`isLastPlatformAdmin`, `user_handler_user_mutation_helpers.go:161-175`), so with
`Roles = {"platform_admin", "platform_auditor"}` the run finds the only holder of `platform_admin` who makes an
auditor and then gives its own account another role. Nobody holds the role any more that
`docs/platform-admin-boundary.md:13` says is kept, and the refusals in lines 79 and 138 name. With `platform_admin` as the
only role, as `platform` has it, the same checks do what they say. A refresh that
crosses a logout, and two that cross each other, leave a new session open; `LogoutEndsSession` is about the
session that logged out.

*Access to a tenant.* A termination that crosses an entry leaves the request active; two entries that
cross extend its time; an administrator's double click makes two open requests
(`impersonation_handler_platform.go:46-65`). `turns` says that the handlers of one request, and those in
which one administrator makes requests, took turns. Permissions are cached for thirty seconds in every
process.

*Tenants.* A cancellation or an expiry that crosses a registration overwrites `accepted`; a registration
cut off, or failed in its last read, leaves an account without seat whose email is taken
(`spoiled`). A token checked before the first account was deleted makes a second one. A
change of role can take the last administrator's; a seat whose account or role was deleted makes
`ListMembers` fail. Saving a tenant can bring back a deleted one.

*Dry run.* Condition nodes always take the true branch (`docs/auto_healing_project_intro.md:131`). An
edge without handle out of an execution or approval node, or labelled `default`, is followed by the
executor but reported as skipped, and where branches join again behind it the walk stops with success; an
error ends the dry run where the executor takes `failed`. `BranchesNamed` and `"error"` leave these out.

## 5. The proofs

TLAPS proves these for all values of the constants: any numbers of runs, goroutines, tasks, requests,
hosts and connections, any graph, any choice of events unless a premise is named. A premise on events is
needed: with any of the events it excludes TLC finds the property violated.

`ExecutionRunProofs`
- `TypeCorrect`, `OutcomeCorrect`. The inductive invariant `IInv` is `TypeOK /\ RowFollowsGoroutine /\
  OutcomeIsTrue`. The middle part ties the row to the place of the goroutine: pending or cancelled until
  it starts, running or cancelled while it works, and an outcome once the playbook returned. Without it
  `OutcomeIsTrue` is not inductive: `PersistRunResult` writes `outcome[r]`, known to be an outcome
  only because the playbook returned.
- `NotificationCorrect`, `NoOrphanWithoutStop`, from `"dberror" \notin Faults`: a goroutine past its result
  has a terminal row, which nobody changes any more, so the notice says what it keeps saying, and leaving
  cannot leave it open.
- `EndsAreFinal`, an action property without premise: the row of an ended run never changes again, but for an
  outcome that a panic after it turns into `failed`. Flows, schedules and notices rely on that when they
  take an outcome from the row once. It follows from `LifecycleStep`, which says of every action what it
  does to the row.
- `LifecycleImplemented`, without premise: each step is one of `RunLifecycle` or leaves the status
  alone. It needs the invariant, since the contract lets a result follow `running` only and the code's
  guard alone says "not cancelled".

`HealingFlowProofs`
- `IncidentsCorrect`, `FlowImplemented`, without premise. `IncidentInv` is `IncidentAgrees` with "while a
  cancel request is under way the row is cancelled", which is why dismissing the incident at the end of the
  request cannot contradict it. `StepImplements` maps every action to a step of the contract or a stutter.
- `CancelledTasksClosed`, `SomebodyToWaitFor`, from `"crash" \notin Happens`. `TaskInv` is both properties
  with `IncidentInv` and the shape of a task row. `CreateAndEnterWaiting` preserves both because
  task and status change in one transaction; a decision replaces a pending task by one the scheduler
  will find (`DecideChangesOne`); an expiry keeps its tasks in `expiring` until their flow is failed,
  which is what a crash breaks.
- `FlowTypesCorrect`, without premise. `FlowTypeOK` adds to `TypeOK` that a goroutine has the local state of its
  place (`Fitting`): a node of the graph, a task, a run, a handle. Everything below rests on it.
- `DecisionsCorrect`, without recoveries (`"recover"`, `"stale"`). `DecisionInv`: a decided task was resumed for
  once, or one goroutine is about to, and no undecided one has been.
- `DecisionsStay`, an action property without premise: the row of a decided task never changes again, so of all
  who approve, reject, expire and cancel at once one counts. `EndedFlowsStay`: neither does a completed or
  cancelled flow, nor a healed incident.
- `ApprovalsGuard`, whatever happens, on every graph none of whose executions is in `Unapproved`: the nodes
  reached from the start, or from a node a retry may ask for, without an edge an approval takes only when
  approved, its default one included. The complement of `Unapproved` is a *fence* (`EdgesFence`): a set of nodes that is entered from outside by the
  approved side of an approval only, whichever way the routing takes (`RoutesFollowEdges`). Until a
  task is approved all goroutines, and the node a retry or a recovery would start at, are outside
  (`FenceHolds`).
- `OneRunCorrect`, `CompletionCorrect`, unless the instance is retried or recovered (`Undisturbed`). `WorkInv`:
  one goroutine works, and none while the instance waits or is completed; a playbook at work has it waiting
  for it, or its context is done. Crashes, cancellations and timeouts are all allowed.
- `BranchesCorrect`, from the same premise and no failing statement. `BranchInv` follows the outcome from
  the run through the goroutine's handle to the branch.

`ExecutionScheduleProofs`
- `TypesCorrect`, whatever happens. `TypeInv` holds what scan and goroutines carry and that the semaphore has a
  token for each goroutine of the pool, so no statement gives back a token that was not taken.
- `OverlapCorrect`, `OnceCorrect`, from `Quiet`: no statement fails, and nobody edits a schedule the scheduler
  holds; the first also from "no run outlasts the wait for it". `OverlapInv`: one goroutine follows a
  schedule, only a stop detaches it, every open run is followed or was abandoned by a stop, a completed
  schedule is at rest, and a once schedule that fired has no time to come but a lease its goroutine is about to
  take away. Edits of a schedule at rest, crashes, stops and leases that run out are all in it.
- `ContractImplemented`, whatever happens: the refinement of `ScheduleContract`, from `TypeInv` alone.

`PlaybookReviewProofs`
- `ReviewsCorrect`, from `"edit" \notin Happens`; with edits `review_edit_drift` shows the opposite.
  `DriftInv` says of every playbook whose writers took turns (`Kept`): its writer is alone; every drifted
  task that is not flagged is about to be; no flag about to be taken away is needed; what a worker copied is
  what the row says; and only a full scan that has it to itself brings it back to this state.

`ServicesProofs`, all without premises beyond the exemptions in the properties
- `OneLiveFlowCorrect`. `IntakeInv`: what the writers of an `orderly` incident find. The scan has a row
  nothing has touched, a request the row it read, and a live flow is the one the row names.
- `NothingMissedCorrect`. `SyncInv`: while a sync fetches, all that is behind is among what it will get; while it
  saves, among what it has still to save, unless one could not be saved, and then the cursor stays. What is
  `late` or `old` is left out throughout.
- `DeliveredOnceCorrect`. `DeliveryInv`: a log is in one hand, the sender's or the retry loop's or nobody's,
  and whoever has it knows that the message was accepted.
- `LogCorrect`, the safety half of `EveryNoticeSettles`: a log says sent only if its message was accepted, and is given
  up only with its retries used up, or for a reason other than their number; then it was not accepted,
  unless an answer was lost. `OutcomesInv` adds to `DeliveryInv` that whoever is about to write `sent` has it from the
  provider, and that a log without a plan has no retries left. That a log given up was not accepted
  needs `DeliveryInv`: what was accepted and not lost is known to somebody, and nobody has this log in hand.

`AccountsProofs`
- `LogoutCorrect`, `AccountsTypesCorrect`. `AccountsInv` is `SessionsFit /\ CallsFit /\ EndedAreRevoked`: an
  issued session belongs to an account and its access token does not outlive its refresh token; what a
  request is at says what it was begun with; and while a logged-out session has an unexpired refresh
  token, the key that revokes it is still in Redis, because it was written with the refresh token's end.
  Without the second part a logout at work could blacklist something else.
- `AdminCorrect`, from `Roles = {"platform_admin"}`; with a second role the opposite is so
  (section 4). `TurnsInv` is about behaviours whose requests took turns (`orderly`): one writes at a time, who
  has the administrator's role is flagged a platform user, and what a request checked, that somebody else
  remains, still holds when it writes. The flag and the role are written by different statements and
  counted by different checks, which is why they must be shown to agree.

`TenantAccessProofs`
- `AccessTypeCorrect`, `InsideCorrect`. `AccessInv` is `AccessTypeOK /\ LoadsFit /\ StatusKeepsDecision`: what
  a handler is at says what it was loaded with, and the status keeps what became of a request: nothing
  while it waits, granted once entered, refused once rejected or cancelled. It is needed because some
  handlers write without looking again: they have loaded a granted row, and granted it stays.
- `SessionsCorrect`, an action property. `TurnsInv`: while handlers of one request take turns (`turns`), an
  administrator has one open request, none while it makes one, and a handler has loaded the row as it still is, but for its time
  running out and a list ending it.
- `InvitationsCorrect`. `TenancyFits`: a registration under way is of an account its invitation made; whoever came
  by an invitation, and is not at it any more, was accepted and has the seat or had it taken; behind an
  accepted invitation there is such an account.

`OperationsProofs`
- `DryRunCorrect`. `TrialInv` says that the graph is a saved one, and that nothing reported as skipped lies ahead of
  the walk (`NothingSkippedAhead`): skipped nodes leave out all that the branch taken leads to, and what
  lies ahead of the next node lay ahead of this one. Then the next node is none the walk has left out, and both
  ways of choosing it, written separately in the code, find the same edge (`NextIs`, `NextByHandleIs`).
- `StreamsTypeCorrect`, `StreamsCorrect`. `StreamsInv` is `StreamsTypeOK /\ EndsAreTrue /\ NobodyWaitsInVain`:
  every end that was told, is queued, or is about to be published is one the row had. Without it a
  connection could be closed with an end from the queue of which nothing is known. `Published` says what
  an event does to the channels, full or not.
- `DangerStoppedCorrect`. `GuardInv`: a scan has found what it broke all along as far as it has looked, and the
  row of an exemption says truly who decided what, although requests decide on rows read before.
- `VerdictCorrect`, `WorkspaceCorrect`. `EngineInv`: every line the play said is in the output, the reader's
  hand or the pipe unless it was cut; the play is over behind the command, or its container was left; the
  credentials found are those of the vaults asked.
- `NamesCorrect`. `RowsInv`: what a request is about to write was there when it looked, and a row about to be
  deleted is named by nobody, unless the two ran beside one another (`raced`) or a foreign key stands guard.

Only model-checked: all liveness (`EveryRunSettles`, `CancelStopsWork`, `EveryFlowEnds`, `RecoveryEndsFlow`,
`DueFires`, `OnceCompletes`, `FlagsSettle`, `EveryIncidentIsDecided`, `ChangesArrive`, `EveryNoticeSettles`), since
fairness and `ENABLED` are beyond the prover. Every other property of the passing runs, invariant, action property
or refinement, is a theorem; no run is spent on a module's type invariant.

## 6. What is not modelled

- Of the Ansible engine: the arguments of the command, `ansible.cfg`, how lines are cleaned and logged,
  execution without a log callback, the list of tasks parsed from the output. `ExecutionRun`
  takes what `RunEngine` describes as one step with any outcome.
- What regular nodes compute: host extraction, CMDB validation, set-variable and compute nodes,
  expressions and conditions; a regular node completes or fails. The matching of rules with incidents,
  a plugin's filters and field mappings, and the variables a scan finds are choices.
- Database errors in the flow executor, but for the one with a consequence of its own (`LaunchFails`); the
  shutdown of the healing scheduler, the pass over orphans at start-up and the panic handler of a
  flow; closing the source incident.
- Schedules: an update that changes the type. Plugins: their deletion, CMDB items and their
  maintenance. Engagement: rendering, providers, reading and expiry of messages, dashboards, search.
- Access: passwords, the permissions of a role and their checks in middleware, the tenant's own pages.
- Secrets: the clients of outside stores and the default source. Ops: audit, dictionaries, settings, the
  simulation of a rule: single-statement CRUD and matching of text.
- Start-up, wiring, migrations and configuration, other than the death and the stop of the process.

Most of the repository's lines are such CRUD, queries, conversions and input and output, where a
model would repeat the code; the share of lines that `PROJECT.json` maps reflects it.

## 7. What could come next

Start-up and shutdown of the healing scheduler with the orphans' pass, and with it the liveness of a
pending instance that lost its goroutine.
