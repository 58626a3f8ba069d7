# Orchestration of HiveWard: models, checks and proofs

HiveWard lets agents work for agents. A coordinator breaks a Run into tasks, the
runtime dispatches each task to a terminal or to a supervised worker that it starts
itself, possibly on another machine, and workers report back through a command line.
All of this is decided in one SQLite database per runtime
(`src/src/main/runtime/orchestration/db`), by short write transactions that RPC
handlers, a relay between machines, timers, terminal exit events and restarts interleave
freely. That database and the protocols around it are the logic this project models: the
life of dispatches, the relay of reports, the pointer that announces mail to a
coordinator, and the custody of a worker's terminal. Of the cloud services it models the
durable queue of the push gateway. The rest of the repository (editor, terminals, user
interfaces, cloud relay, mobile applications) is listed below and left out with a reason.

## 1. Inventory

Paths are relative to `src/src/main/runtime/orchestration` unless they start with `src/`.

| Component | State | Operations that change it | What makes it correct |
|---|---|---|---|
| Task store (`db/tasks`) | `tasks.status`, dependencies | createTask, updateTaskStatus, promoteReadyTasks | a task is never settled or reopened under a live worker; no pending task is stranded |
| Dispatch contexts (`db/dispatch-context`, `dispatch-row-writer.ts`) | task, assignee, status, failure count | createDispatchContext, failDispatch, settleActiveDispatchesForTask, releaseContextOnlyDispatch | at most one active dispatch per task and per terminal; settled is final; the breaker counts real failures |
| Supervised workers (`db/worker-dispatch`) | `worker_dispatches.state`, runtime epoch, federated pin | start, retry, place, ready, fail, unknown, stop, abandon, recover, repair on open | the worker row, the dispatch row and the task row agree; a stop in flight keeps its verdict |
| Worker reports (`worker-report-settlement.ts`, `worker-report-admission.ts`) | the three rows above | worker_done | a worker that lives, or is only lost from sight, is heard |
| Transition table (`db/lifecycle-transition.ts`) | none | transitionLifecycle throws on an illegal edge | no legal sequence of calls asks for an illegal edge |
| Decision gates (`db/decision-gates`, `coordinator-decision-gates.ts`) | `decision_gates.status` | createGate, resolveGate, re-blocking | a gate never blocks a task under a running worker |
| Federation relay (`db/federation`, `federation-sync.ts`) | item log per dispatch and direction, import cursor, acknowledgments | enqueue, pull and import, acknowledge, capability checks | a report is settled once, in order, and not lost to a full queue or a lost acknowledgment |
| Remote dispatch attachments (`db/federation/remote-dispatch-attachment-*.ts`) | attachment state on the execution host | create, ready, release, stop | the peer agrees with the home about the worker |
| Coordinator loop (`coordinator.ts`, `coordinator-task-dispatch.ts`) | lists read at the start of a tick | tick, poll messages, triage, dispatch | retired: `orchestration.run` and `runStop` are refused (`src/src/shared/orchestration-rpc-contract.ts:46`, tested in `orchestration-contract-fence.test.ts:106`), so nothing starts it |
| Mailbox deliveries (`db/messages`) | `messages.read`, batches left outstanding by older builds | take, reply, fence on a change of coordinator | mail is marked read only by the consumer that read it |
| Mailbox pointer to the PTY (`mailbox-pointer-*.ts`) | claim columns of the messages, the flight and the watermark in memory | stage, write, defer, submit, settle, recover, retire | a coordinator is told once of its mail, and is told; mail never typed does not count as delivered |
| Questions (`db/questions`, `remote-question-store.ts`) | thread state | ask, answer, close | an answer reaches the worker that asked |
| Mutation receipts (`db/mutation-receipts`) | pending and completed receipts | claim, complete, evict | a retried mutation runs at most once |
| Worker terminal custody (`db/worker-terminal`, `rpc/methods/orchestration/worker`) | owner, release state, deadline, output archive | arm, suspend, transfer, keep, retain, request, commit, close, settle, recover | a terminal in use is not closed; what a closed worker wrote stays readable; a release ends |
| Runs and binding (`db/runs`) | coordinator of a Run | create, bind, adopt | one coordinator per Run |
| Legacy migration, reset, crew read model | | one-way migration, deletion, views | |
| Terminal runtime, PTY daemon (`src/src/main/daemon`), automations | processes, schedules | I/O | |
| HiveWard server (`src/hiveward/server`) | LAN membership, clipboard writes, quota stops; its view of dispatches is read-only | joins, writes, timers | a write is told from its own echo; a removed member stays out |
| Cloud push gateway (`src/cloud/apps/push/src`) | queued batches, recipients, leases, dismissals | submit, claim, lease, renew, finish, retry, dismiss, prune | one sender per phone; what was dismissed stays dismissed; every delivery settles |
| User interfaces, cloud relay and connector, mobile clients | | | |

`PROJECT.json` repeats the list with sources and status.

### How the components meet

* Every change of the first six components is one `BEGIN IMMEDIATE` transaction on one
  database, so transactions are atomic and everything between them is not.
* A handler that awaits is several transactions. `worker-start` inserts the rows, awaits a
  terminal, records it, awaits the first turn of the agent and gives a verdict.
  `worker-stop` records the intent, awaits the inspection and the close of a terminal and
  gives a verdict. Anything may commit in between.
* A runtime that restarts keeps the rows and loses the handlers. The runtime epoch stored
  in a worker row says whether the handler that owns a `starting` or `stopping` can still
  be alive.
* A federated worker runs on a peer. Its home learns of it from answers to `worker-show`
  and from reports that the relay delivers late, repeatedly, and after the fact.
* A terminal release awaits a look at the terminal, the capture of its output and its
  close, and a pointer awaits two writes, half a second and a probe. Timers, users, agents
  and other handlers change the rows in each of these gaps.
* The push gateway runs several drains in several processes on one PostgreSQL database;
  a claim is a transaction of several statements under row locks with SKIP LOCKED.

### What is hard here

Interleaving of the handlers above on the same three rows; verdicts that arrive after
the fact was settled otherwise; a restart between two transactions of one handler; a
worker that is lost from sight and reports after all; a retry of an attempt whose worker
may still run; counting failures over attempts made on different paths; reports that meet
a stop; queues at their limit with acknowledgments missing; writes to a terminal whose
outcome nobody learns, followed by a restart or a change of owner; a close that is
already awaited when the user keeps the terminal; drains that claim the same phone, or
outlive their lease. `PROJECT.json` lists each hazard at its line with the properties
that would notice it going wrong, or with the reason why none does yet.

## 2. Modules

| Module | Role |
|---|---|
| `DispatchLifecycle` | tasks, dispatches, workers, reports and gates: the first six components of the table |
| `TaskCustody` | what dispatching promises: exclusive custody of a task, taken once by each dispatch |
| `DispatchLifecycleProofs` | the inductive invariant of `DispatchLifecycle` and the theorems that follow from it |
| `DispatchStepProofs` | what one transaction may do to the row of a dispatch; the action properties, terminal exclusivity and the failure count |
| `TaskCustodyProofs` | that no pending task is stranded, and that `DispatchLifecycle` implements `TaskCustody` |
| `MCDispatchLifecycle`, `MCPushDelivery`, `MCMailboxPointer`, `MCWorkerTerminal` | model values, dependency graphs and symmetry for TLC |
| `FederationRelay` | the reports of one dispatch on another machine: queue, pull, import, settlement, acknowledgment, stop; two databases, lost messages, restarts |
| `ReportDelivery` | what the relay promises: in-order delivery, late confirmation, a verdict taken over unchanged |
| `MailboxPointer` | the pointer that announces a Run's mail in its coordinator's terminal: two writes of possibly unknown outcome, probes, restarts, changes of coordinator |
| `WorkerTerminal` | custody of one worker's terminal: countdown, Keep open, follow-up, release step by step, stop, crash and recovery |
| `PushDelivery` | the push gateway's durable queue: claims statement by statement, leases, retries, dismissals, crashed and late drains |
| `FederationRelayProofs` | the invariant of the relay, its theorems, and that it implements `ReportDelivery` |
| `MailboxPointerProofs`, `WorkerTerminalProofs`, `PushDeliveryProofs` | the inductive invariants of these modules and the theorems that follow |

### Model and code in `DispatchLifecycle`

Rows become functions over their numbers. `Dispatch == 1..MaxDispatches` is the rowid of
`dispatch_contexts`, so "the latest dispatch" of the code (`ORDER BY rowid DESC`) is the
largest number.

| Variable | Code |
|---|---|
| `taskStatus` | `tasks.status`; `"absent"` before the insert |
| `last` | rows of `dispatch_contexts` so far |
| `dispTask`, `dispStatus`, `failCount`, `assignee` | columns of `dispatch_contexts` |
| `promptStalled` | `last_failure` is the `agent_prompt_stalled` error, the one fact about the error text that a transaction reads |
| `worker` | `worker_dispatches.state`; `"none"` for a context-only dispatch |
| `ownEpoch` | `worker_dispatches.runtime_epoch` equals the epoch of the running process |
| `federated` | a `federated_dispatches` row exists |
| `lastGate`, `gateTask`, `gateStatus` | `decision_gates` |

| Action | Transaction |
|---|---|
| `CreateTask`, `UpdateTaskStatus` | `createTask`; `updateTaskStatus` as `orchestration.taskUpdate` calls it, with promotion and settlement |
| `CreateDispatchContext` | `createDispatchContext`, used by `dispatch` |
| `StartWorker`, `StartInlineTask`, `RetryWorker` | the branches of `createStartingWorkerDispatch` |
| `AttachTerminal`, `MarkReady`, `FailWorkerStart`, `MarkStartUnknown` | the later transactions of the start handler; the last two also from `worker-show` and `send` after a restart |
| `FedStartConfirmed`, `FedStartUncertain`, `FedStartEnded`, `FedStopConfirmed`, `FedResume` | the branches of `reconcileFederatedWorkerStart` and `reconcileFederatedWorkerStop`, and `resumeFederatedWorkerForTerminalRelay` |
| `Report` | `settleWorkerReportInTransaction`, admission included |
| `BeginStop`, `SettleWorkerStop`, `MarkStopUnknown` | `beginWorkerStop`, `settleWorkerStop`, `markWorkerStopUnknown` |
| `AbandonWorker`, `ReconcileMissingTerminal` | `abandonWorkerDispatch`, `reconcileMissingWorkerTerminal` |
| `AgentExits`, `FailContextOnly`, `ReleaseContextOnly` | a confirmed process exit; escalation, failed prompts and injections; `releaseContextOnlyDispatch` |
| `CreateGate`, `ResolveGate`, `ReblockGatedTasks` | `createGate`, `resolveGate` with the task update its handler makes, `reblockTasksWithPendingGates` |
| `Restart` | a new process opens the database: epochs become foreign, workers of settled dispatches are repaired |

An action may interleave with any other, which is what the awaits allow. Answers of a
terminal or of a peer are nondeterministic.

Left out, because no state change of these tables depends on it: texts, results and
timestamps; who may call (the identity of the Run's coordinator, nesting depth, the
capability checks of a peer); messages and mailboxes; questions. Because nesting and
identity are left out, the model lets more calls happen than the code, which can only
add behaviours to those a safety property covers.

### Model and code in `FederationRelay`

Two processes with a database each: the execution host queues, the Run home pulls. The
module follows one dispatch, because every sequence, cursor and receipt is per dispatch
and one sync per dispatch is in flight at a time (`runtime-orchestration-federation.ts`).

| Variable | Code |
|---|---|
| `protocol` | `protocol_version` pinned on both sides |
| `log` | `federation_relay_items` of the direction `to_home`; the position is `sequence`, `id` the message id, `named` whether the report names the home's task |
| `attach` | `remote_dispatch_attachments.state` |
| `receipts` | `mutation_receipts` of acknowledgments; the request id is the cursor it contains |
| `hostEpoch` | the host's runtime id |
| `home` | `worker_dispatches.state` at the home |
| `agreed` | whether `tasks.status` is the status the dispatch ended with: the test by which a repeated report is taken for the verdict already given |
| `inbox`, `imported`, `acknowledged`, `seenEpoch` | messages of the dispatch and the cursors of `federated_dispatches` |
| `checkpoint`, `known` | the acknowledgment checkpoint and the capability cache, both in memory |
| `sync` | the locals of `syncFederatedDispatchPages` between its awaits |
| `net`, `answer`, `stopCall` | calls in flight |

| Action | Code |
|---|---|
| `SendStatus`, `SendHeartbeat`, `SendWorkerDone` | `sendRemoteWorkerMessage` and `enqueueFederationRelay`, with the takeover of a heartbeat's slot when the queue is full |
| `ResolveCapability`, `PullPage`, `ImportItem`, `RefusePage`, `SendAck`, `SkipAck`, `HearAck`, `HearRefusal` | one page of `syncFederatedDispatchPages`, cut at its awaits and at the transactions of its loop |
| `ApplyAck`, `ReplayAck`, `RefuseAck` | `federationAck` behind the mutation executor and its receipts |
| `BeginStop`, `HostBeginsStop`, `HostEndsStop`, `HearStop`, `StopCallFails`, `ObserveStopped` | `worker-stop` at the home, `federationStop` at the host, `worker-show` |
| `Abandon`, `TaskMovesOn` | `worker-abandon`; `task-update` and new attempts, once the worker has ended |
| `LoseAck`, `RestartHome`, `RestartHost` | a call that fails or times out; a new process on either side, the host's possibly without settlement support |

Left out: the direction to the worker (questions and answers), message texts, the
byte quota (the count quota stands for both), creation of the attachment, the refusal
to stop a terminal the user keeps open, eviction of receipts after 30 days or 10000
rows. No other path ends a live worker at the home: while a supervised worker lives,
`task-update` refuses to complete, fail or reopen its task
(`task-status-transition.ts:38-73`) and gates refuse it as well
(`decision-gate-store.ts:55-71`), its terminal's exits are seen by the host, so that `settleActiveDispatchesForTask` only ever meets
dispatches without a worker to settle. `DispatchLifecycle` models these refusals. Refreshing a waiting heartbeat and sending an identical report again change
nothing the properties see and are stutters. A stop request that is still under way
when the home restarts is dropped. A reply of the host to a `federationStop` that the
home no longer awaits is ignored.

### Model and code in `MailboxPointer`

Sources: `mailbox-pointer-*.ts`, `db/messages/mailbox-pointer-enter-state.ts`,
`db/messages/message-inbox.ts`.

| Variable | Code |
|---|---|
| `sent`, `read`, `delivered` | rows of `messages` of the mailbox, `read`, `delivered_at` |
| `claim` | `pointer_enter_pending` (1 reserved, 2 write attempted, 3 Enter attempted), `pointer_pty_id`, `pointer_process_incarnation` |
| `held` | messages of a batch that an older build handed out and nobody acknowledged |
| `owner`, `inc` | the coordinator's terminal of the Run, the process incarnation in each terminal |
| `flight`, `watermark` | the pointer under way in a terminal and `watermarkByMailbox`, both in memory |
| `orphan`, `probing` | a flight retired while its probe was awaited; a delivery that awaits a liveness probe |
| `typed`, `entered`, `lapsed`, `loosened`, `fenced` | ghosts, no code |

| Action | Code |
|---|---|
| `Send`, `TakeMail`, `Reply`, `TakeOver` | insertion; `takeMailboxDelivery`; a reply that reads its message; a Run bound to another terminal, with the fence of its mailbox |
| `DeliverResumes`, `DeliverStages`, `DeliverSubmitsDeferred`, `DeliverDefers`, `ProbeFindsAbsence` | the ways through `deliver` and its recovery of pending pointers |
| `WriteAccepted`, `WriteRefused`, `WriteUnverifiable`, `EnterTimer` | the outcomes of the text write and the half second |
| `SubmitGivesUp`, `SubmitDefers`, `SubmitLeavesText`, `SubmitEnters`, `SubmitLostClaim`, `OrphanGivesUp` | the branches of the submit after its probe |
| `EnterSettles`, `EnterUnverifiable` | the outcomes of the Enter write |
| `ObserveWorking`, `ObserveIdle`, `ColdParkDefers`, `PtyExits` | title changes and the end of a terminal's process |
| `Restart`, `CrashWhileStaging` | a new runtime, also between the transactions of staging |

Left out: what the screen shows (idle, dialog, neutral title, draft: every answer is
possible at every look); waiters (`check --wait`), type filters and batch limits of a
take; the lane of structured sessions; other mailboxes of the same terminal.
`takeMailboxDelivery` is the only way an RPC of this commit consumes mail; batches
awaiting an acknowledgment stem from older builds, so they exist in `Init` only.

### Model and code in `WorkerTerminal`

Sources: `db/worker-terminal/*`, `rpc/methods/orchestration/worker/worker-release-*.ts`,
`worker-stop` in so far as it touches the terminal.

| Variable | Code |
|---|---|
| `kind` | process behind a PTY, or a chat, whose close is admitted in its session's lane |
| `row`, `prior` | the row of `worker_terminal_resources` with its owner, release state, retained reason and deadline; `prior_owner_dispatch_ids` |
| `archive` | rows of `worker_terminal_archives` |
| `worker` | `worker_dispatches.state`, as far as custody reads it |
| `process`, `turn` | the recorded incarnation of the terminal; whether its agent is in a turn, as the runtime has observed |
| `flight`, `stop`, `asked` | the locals of a release and of a stop between their awaits; refused releases that look at the process first |
| `keptOpen`, `closed`, `raced` | ghosts, no code |

| Action | Code |
|---|---|
| `Report`, `AgentWorks`, `AgentRests` | settlement arms the countdown; a turn suspends it, the end of the turn restarts it |
| `DeadlineComes`, `ClaimDue`, `Reconcile` | the timer; the claim of due rows; the backlog of releases left open |
| `RequestRelease`, `RefuseRelease`, `DeadSettles`, `RefusedIsLookedAt` | `worker-release`, its refusals, and what it does for a dead process |
| `Retain`, `KeepOpen`, `AllowAutoClose`, `Abandon`, `FollowUp` | `worker-retain`, Keep open and its undo, `worker-abandon`, a dispatch that takes the terminal over |
| `LookFinds`, `LookMisses`, `LookFails`, `Probed`, `Captured`, `CaptureFails`, `Admit` | the awaited steps before a close |
| `CloseKills`, `CloseUnproven`, `CloseProven` | the close, its unproven outcome, its settlement |
| `BeginStop`, `StopLooks`, `StopFindsNone`, `StopArchives`, `StopKills`, `StopReturns` | `worker-stop` |
| `ProcessEnds`, `PaneReplaced`, `ExitNoticed`, `ReconcileMissingTerminal`, `Restart` | exits, another process in the pane, a restart of the runtime |

The two minutes are a deadline that is absent, running or due; no clock. What the
runtime knows of a turn ends with the process.

Left out: the setting that switches automatic release off; the deadline that the home
keeps for older federated hosts and the release of remote attachments; several
resources and conflicts of identity between them; a pane that is rekeyed; bookkeeping
of recoveries; terminals that are external, the user's, or transferred away; the
`starting` phase; a follow-up that reopens an ended chat; an agent that exits to its
shell while the shell lives.

### Model and code in `PushDelivery`

Sources: `src/cloud/apps/push/src`, the PostgreSQL variant of the store.

| Variable | Code |
|---|---|
| `queue` | the rows of a device in `push_delivery_batches`: lease token and whether its lease holds; `ahead` is the order by due time, creation and batch id, as the events of the rows that sort earlier |
| `recipients`, `dismissedTo` | `push_event_recipients`; `push_dismissed_events` |
| `expired` | events past `expires_at` |
| `pc`, `task`, `rowLocks`, `deviceLocks`, `past` | a drain between the statements of its claim and of its delivery, the locks of its transaction, and the events that were over when the claim read its clock |
| `shown`, `fenced`, `settled`, `strayed`, `stalled` | ghosts: trays of the phones, deliveries finished, leases that lapsed under a live drain |

| Action | Code |
|---|---|
| `AcceptAlert`, `AcceptDismissal` | submission by the host: dedup, enqueue, cancellation of covered alerts |
| `ScanCandidate`, `OwnDevice`, `SkipDevice`, `EndClaim`, `Lease`, `DropDismissed` | the statements of a claim: candidate row, device lock, head of the device's queue, lease or removal |
| `BeginSend`, `ProviderAccepts`, `ProviderRetryable`, `ProviderRefuses`, `Renew` | one attempt with the provider, and the lease renewed meanwhile |
| `FinishDelete`, `FinishRetry`, `FinishFails` | the end of a delivery, under its lease token; a finish that throws is followed by one that postpones |
| `LapseLease`, `StallLease`, `Crash` | a lease of a lost drain runs out, one runs out under a live drain, a process is lost |
| `Expire`, `Prune` | events expire; the prune timer |

A row lands anywhere in the order of its device, when it is accepted and when it is
postponed: `accept` reads its clock before its transaction and the lock in it
(`durable-push-store.ts:47`), gateway processes have clocks of their own, ties fall to a
random `batch_id`, and the delay of a retry is its own. `Fronts` are the beginnings of a
queue, one of which the row is put behind. A claim therefore may find another row at the
head than the one it scanned, as `durable-push-claim.test.ts:192` has it, and the device
lock is what keeps a second claim out; the mutant without it breaks `OneSenderPerDevice`.
Which rows are due is not kept: the rows due at a claim's `now` are the first of the
order, so a claim scans the foremost free row or none.

Whether a registration is live is not kept. The provider's refusal retires it, the phone
renews it under the same id and the host deletes it, all at any time, so every send may
find it live or not (`BeginSend`), and no property tells which of these it was.

Expiry and leases are read on one clock. A process whose clock is ahead takes a lease
over early, which is the fault `StallLease`; one whose clock differs by more than the
lifetime of an event is not modelled.

Left out: quotas and rate limits, coalescing of wakes, removal of dedup rows after 24
hours, several hosts, the SQLite variant (one process, one transaction at a time).

## 3. Runs

| Run | Instance | Shows |
|---|---|---|
| `supervise` | two tasks, the second waits for the first; two dispatches; one terminal; one gate; restarts | the three rows agree, no second worker, terminals exclusive, live workers heard, no pending task left behind, settled is final, a stop keeps its verdict, only legal worker transitions |
| `retries` | one task, three dispatches, breaker at two failures, fairness | the newest attempt is the one at work; failures are counted right on all paths and the breaker parks the task; exclusive custody (refinement of `TaskCustody`); no start or stop of this process stays in between for ever |
| `relay` | two items through a queue of two, pages of one, both protocols, stops, abandonment, a task that moves on, one restart of each side | nothing leaves the host's queue before the home has it, the home's cursor never runs ahead, messages stay in order; refinement of `ReportDelivery` |
| `relay_live` | two items, among them reports for another task, pages of two, one lost, late or unanswered acknowledgment, one restart of the home, fairness | what is queued arrives; the verdict of a settled report reaches the host while the task keeps it |
| `mailbox` | two messages, two terminals, three events (messages, changes of coordinator, ends of processes), fairness | a coordinator is told once of a message, mail never typed is not delivered, mail is announced |
| `terminal` | one terminal behind a PTY or a chat, two dispatches, two faults, fairness | releases follow settlement, a close is admitted by the state at that moment and hits its own process, output survives, releases end |
| `push` | one phone, two drains, an alert, its dismissal and a newer alert in any order of due times, one retry, one fault | one sender per phone, a dismissal holds, finished is not sent again, nothing lost |
| `push_live` | the same with an alert and its dismissal, fairness | a lease ends with its own drain; every delivery leaves the queue |
| `report_admission` | one federated worker | a documented promise the code breaks, see 6 |
| `lost_ack` | one report, one lost answer | a tested promise the code breaks, see 6 |
| `late_probe` | one message, two terminals, no restart | a documented and tested promise the code breaks, see 6 |
| `keep_race` | one PTY worker, no faults | a documented promise the code breaks, see 6 |

### Bounds

* `MaxDispatches` bounds the rows ever inserted: 3 where attempts follow one another (two
  failures reach the breaker of the instance, and a third attempt may or may not be made),
  2 where an attempt and its retry or a dispatch of a second task must overlap, 1 where
  dispatching is only one way of completing a task.
* `MaxGates` is 1 in `supervise`: the gate can guard either task, before, during or after
  its dispatch, and can be resolved repeatedly.
* `CircuitBreakFailures` is 2 instead of the 3 of `DISPATCH_CIRCUIT_BREAK_FAILURES`: the
  first failure is under and the second is at the limit.
* One terminal is enough to contend for; that no terminal is free is then a frequent case.
* `UpdateStatuses` is what a coordinator asks for with `task-update`. The run `supervise`
  takes all but `"pending"`: a coordinator that sets a task pending by hand, with its
  dependencies completed, has put it aside itself, and the promise that promotion strands
  no task is not about that. `retries` takes `"pending"` and the values that interact with
  the breaker.

For the relay: `MaxItems` 2 is enough for a report before or after another item, and for
a report and its repetition. `Capacity` 2 fills the queue, `PageSize` 1 and `MaxPages` 2
make the page limit and the budget bite (`relay`); `Capacity` 4 and `PageSize` 2 are the
case without either (`relay_live`). `Capable` lists the host processes that know
settlements, so `{1}` with `MaxEpoch` 2 is a downgrade. `Misnamed` are the outcomes that a
report which does not name the home's task may carry: both in `relay_live`. In `relay` there
are none, to keep it small; reports are rejected there because the worker was stopped or
abandoned. One lost acknowledgment or one restart at any moment gives every combination of
what each side remembers; longer runs repeat them.

For the mailbox: two messages give a pointer for mail to which newer mail is added while
it is under way. `MaxEvents` counts messages, changes of coordinator and ends of
processes together; 3 allow a message under a change and a restart, or a change there and
back. (The Enter without a claim described in 6 needs six; the theorems of
`MailboxPointerProofs` hold for any number.) For the terminal: the second dispatch takes over from the first, and both can be
released, stopped or abandoned; `MaxFaults` 2 is a crash in a step and another in its
recovery, or a crash and a failed capture, missing terminal or unproven close. For the
push queue: devices are independent but for the claim's candidate scan, so one phone;
two drains contend; three events are the smallest case in which a dismissal must take
one alert and spare another, and in which a row can land before, between or behind the others
while two claims are under way; `MaxRetries` counts retryable outcomes and failed finishes
together; one retry and one fault can meet at any step, among them a late renewal against a successor's lease. Its drains are interchangeable, which the safety
run uses as symmetry.

The theorems hold for every value of the constants that the named assumptions of the
modules allow, among them any number of tasks, dispatches, items, messages, terminals,
devices and drains, and any budget of faults.

### Fairness

Safety does not depend on fairness. `HandlerFairness` in the run `retries` states that a
handler of the running process gives a verdict: the awaits of `worker-start` have
timeouts and its failures are caught and turned into `failWorkerStart` or
`markWorkerStartUnknown`; `worker-stop` has a bounded inspection and close, and ends in
`markWorkerStopUnknown` when nothing proves the exit. Weak fairness is put on these
verdicts only, the ones that need nobody else, and only while the epoch is the running
process's own. Nothing is assumed of terminals, peers or agents, so progress of a task as
a whole is not claimed.

`FairSpec` of `FederationRelay` asks weak fairness of `HomeSyncs` and of `HostAnswers`: a
timer starts a sync every second while the dispatch is eligible (`ensureRelay`),
a sync's calls have timeouts and the host answers requests that reach it. The
worker, the coordinator and the faults are not fair, and the faults are bounded. After a
restart the home's relay is armed again by `ensureRelay`.

`MailboxPointer`: weak fairness of delivery and of the steps of a flight, because a
delivery is tried again whenever a title, a message, the end of a flight or a timer may
have changed something; strong fairness of "the write goes out" and "the submit enters",
which says that writes are not refused for ever and that the terminal does not show a
dialog or a neutral title for ever; weak fairness of an agent becoming idle. Nothing is
assumed of messages, readers, changes of coordinator or restarts.

`WorkerTerminal`: the deadline timer and the claim of due rows run, the awaited calls of a
release return, and a release left open is taken up again (at start, on reconnection, at
the next claim). Users, coordinators, agents and stops are not fair.

`PushDelivery`: drains run (each poll starts the missing ones, `durable-push-worker.ts:20`),
the prune timer fires (`push-background.ts:72`; each sweep schedules the next, also after
an error), events expire and the leases of lost drains run out. All four are weak fairness
of what the process does or what time brings. Nothing is assumed of claims against each
other: two claims that each hold a candidate row of one device make the other skip it, and
because SKIP LOCKED gives no order this can repeat until the rows have expired. That a
delivery is sent before it expires is therefore not claimed; that it leaves the queue is.
A gateway in mode `validation` starts neither worker nor timers and is outside this.

## 4. Proofs

Every safety property of the passing runs, invariant or action property, and both
refinements are theorems for all values of the constants. The runs check them on small
instances, and keep them honest: each is broken by some plausible bug in the code.

### Dispatches

`DispatchLifecycleProofs` proves the invariants that relate the rows: `TypeCorrect`,
`AtMostOneActive`, `WorkersFollow`, `TasksFollow`, `LatestIsAtWork`, `ReportsAreHeard`.

None of them is inductive alone. That a task has one active
dispatch rests on how the task row follows it: an insert is guarded by the task being
`ready`, `failed` or `blocked` with its latest attempt settled, and one must know that
then no dispatch is active. For `blocked` this needs the worker row: a blocked task has
an active dispatch only when its worker is uncertain or stopping, and then the latest
attempt is not retryable, provided the active attempt is the latest. `Consistent` is the
conjunction that closes this circle: `TypeOK`, the two rows of a worker agree, the task
row agrees with its active dispatch, the active dispatch is the latest, and a worker
that is `starting` has a `pending` dispatch. The actions fall into few shapes, and each
shape has a lemma that it keeps `Consistent`: settling active dispatches of one task
(`SettlingKeepsRows`), moving an active dispatch between states that remain active
(`MovingKeepsRows`), changing a task that nobody works on (`ClearingKeepsRows`), changing
task states that no active dispatch depends on (`RelabellingKeepsRows`), inserting a
dispatch (`InsertingKeepsConsistent`).

`DispatchStepProofs` looks at one step. `RowStep` lists what a transaction may do to the
row of a dispatch (insert it, leave it, go on with it, end it, correct a stalled prompt) and
`EveryRowSteps` shows that every transaction does one of these to every row. The four
action properties are read off that list: `SettledStaysSettled`, `StopsKeepTheirVerdict`,
`BrokenCircuitsPark`, `WorkersMoveLegally`. So are two invariants about several rows:
`TerminalsAreExclusive`, because a terminal is given to a dispatch only by its insertion or
attachment, which looks for another on it (`TableStep`), and `FailuresAreBounded`, because a new dispatch inherits the
count of an earlier, settled one.

`TaskCustodyProofs` shows that dispatching implements `TaskCustody`
(`DispatchingIsCustody`): the holder of a task is its one active dispatch, an insertion
takes custody of a free task, an end gives it back, and everything else is a stutter. And
`NothingIsStranded`: a pending task waits for an incomplete dependency, under the
assumption `"pending" \notin UpdateStatuses`. With `"pending"` the invariant is false for a
reason the code intends: a coordinator puts a task aside by hand.

### Relay

The invariant of `FederationRelayProofs` says what every copy of old state in a sync, a
request, an answer or a receipt may still rely on after any delay: the slot of the log it
speaks of, whose number never changes, but not the message that was in it, which a report
may have replaced. From it: `InboxIsTheLog`, `NothingDropped` (for protocol 3),
`CursorIsTrue`, `RelayTypes`. `RelayDelivers` maps the steps to `ReportDelivery`: queueing
accepts, an import arrives, an acknowledgment applied by the host confirms, a settlement in
it is the verdict, a stop or an abandonment gives up, and all others, losses, restarts and
replays included, stutter. The abstract verdict is the end of the dispatch, which a stopped
or abandoned worker has as well: a repeated report that agrees with it and with the task is
settled at the host, which needs the mapping to know `failed` for these.

### Mailbox pointer

The invariant of `MailboxPointerProofs`: a claim is on unread mail not yet delivered, and
from "write attempted" on its text was typed, as was all delivered mail that is unread
(`ClaimsAreOpen`, `TypedRows`); all claims belong to one incarnation of one terminal
(`OneHolder`); mail the owner was told of is read, delivered, or claimed by the owner's
present process at "write attempted" or "Enter attempted" (`ToldIsRemembered`); and a
flight of the owner before its Enter carries none of it (`FlightIsNew`). From it follow
`DeliveredMailWasTyped` and `OwnerIsPointedOnce`, with the exceptions named in 6.

### Worker terminal

A release and a stop are two chains of awaits over one row. `Custody` states, for each
place in these chains, what is still true of the row read at the start: the owner and
the archive of a committed release stay, a stop holds its worker in `stopping`, what was
closed is dead, unless Keep open or a retain raced the close (`raced`). `ReleaseComesAfter`
and `ClosedOutputSurvives` are consequences; `ClosesAreAdmitted` and `ClosesHitTheirOwn`
need it at the step where the process is killed.

### Push queue

The invariant of `PushDeliveryProofs` says what a claim's locks and readings guarantee until
it commits:

* `Lines`: one row per event, and the rows of a device stand in one line, wherever new and
  postponed ones were put (`WithoutLine`, `EnqueueLine`);
* `Locks`: row and device locks exclude each other, a locked row stays in the queue, and no
  lease on it begins or is renewed;
* `Known`: all that was ever queued is in `push_event_recipients`, so what was finished does
  not come back, and queued dismissals are committed;
* `Leases`: a drain that sends and was not stalled holds its row, no other such drain is
  at its device, and no claim owns the device at the same time. The last part is what the
  device lock (no second owner) and the second reading under it (no lease committed since
  the scan) are for; nothing in it rests on the order of the rows;
* `Trays`: an alert that is being sent is newer than any dismissal the phone received.

`Effect` describes every step by the deliveries it removes, re-leases and adds, so the
conjuncts are proved once for all actions. `OneSenderAtATime`, `SettledStaysUnsent`,
`TraysStayDismissed`, `DeliveriesAreKept` and `LeasesEndWithTheirDrains` follow. All but
`DeliveriesAreKept` are about drains whose lease has not lapsed, or leases that do not, as
said in 6.

### Assumptions

Sentinels are not members (`NoTask`, `NoTerminal`, `None`); bounds are natural numbers, page
sizes, quotas and attempts positive ones; `Deps` maps tasks to sets of tasks (not
necessarily acyclic); protocols are 2 and 3; events are positive numbers, as
`notificationSeq` is; there is at least one device and one event. No other assumption is
used, except that of `NothingIsStranded`.

### Only model-checked

The liveness properties `HandlersConclude`, `ItemsArrive`, `HostLearnsVerdict`,
`MailIsAnnounced`, `ReleasesEnd` and `EveryDeliverySettles`: liveness under fairness and
`ENABLED` are outside what TLAPS checks here. The four runs that expect a violation are
counterexamples and need no proof.

### What the proofs changed

* `PointedOnceByOwner` was false for six events, which the run did not reach (see Mailbox
  in 6). It now names the exception.
* `LeaseEndsWithItsDrain` excused a lease that runs out by the ghost `stalled` growing, and
  was false when a lease that had lapsed before, and was renewed, lapsed again. It now
  excuses the step `StallLease` itself.
* `PushDelivery` keeps a device's queue as a set of rows with their order, where it kept a
  sequence, and `FederationRelay` states which items a page holds instead of computing
  them.
* `OneSenderPerDevice` was first proved of an order in which each row lands last, by an
  invariant that used that order. With rows landing anywhere the proof has to rest on the
  device lock and the second reading, as the code does.
* With abandonment in the relay, the mapping of its verdict by the worker's state failed: a
  report repeated after the abandonment, whose outcome is `failed` as is the dispatch's, is
  settled at the host. The verdict is now the end of the dispatch.

## 5. Plan

1. `DispatchLifecycle` with `TaskCustody` and the proofs above: done.
2. `FederationRelay` with `ReportDelivery`: the direction to the home, done. Left: the
   direction to the worker (questions and answers) and the start handshake.
3. `PushDelivery`, `MailboxPointer`, `WorkerTerminal`: done.
4. Left to model: `MutationReceipts` (the executor of all mutations over crashes and
   eviction), `ClipboardWrites` (`src/hiveward/server/clipboard-write-coordinator.mjs`), LAN
   membership. The coordinator loop is dropped from the plan as retired.

Proofs left: none of a safety property the runs check. New modules of item 4 would bring
theirs, `MutationReceipts` first: that a retried mutation runs at most once across crashes.

### Not modelled

Runs, Reset, legacy migration and the crew read model: rows of one operation each, with
nothing that interleaves beyond the above. The terminal runtime and PTY daemon are I/O
against the operating system, whose exits and answers are inputs of the models. The cloud
relay and connector are services of their own size with their own persistence; a model of
one of their tables without the sessions around it would not be faithful. User interfaces
and mobile clients present what the above decides. These parts are most of the
repository's lines, so the map's share of all lines stays small although it covers
most of the orchestration protocols.

## 6. Where the code and its comments disagree

* Reports after a resumed stop (`report_admission`). The comment at
  `worker-report-admission.ts:27` says that only a stop in flight mutes a worker's report.
  A federated worker whose start was still unconfirmed when its stop began, and whose stop
  is resumed because the peer holds a queued report
  (`resumeFederatedWorkerForTerminalRelay`), becomes `ready` with its task `dispatched`
  while its dispatch stays `pending`. `settleWorkerReportInTransaction` then rejects the
  very report the resume was made for. `LiveWorkersAreHeard` excludes this one state by
  name and is proved for all others.
* A lost answer to a settlement (`lost_ack`). The id of an acknowledgment names the
  imported cursor (`federation-sync.ts:214`), but its input depends on the page. When
  the answer to an acknowledgment with a settlement is lost, the host has acknowledged the
  report and no longer replays it; the retry has the same id, no settlement, and is
  refused as reused with other input while the host keeps the receipt. The home syncs in
  vain every second. `federation.test.ts:444` tests the retry with a status message only.
  The same id bites without a loss when a host without settlement support had the
  acknowledgment held back below the report: the settlement sent once support returns has
  an id already used (`federation-sync.test.ts:124` has the report as the first item).
* A late probe after a change of coordinator (`late_probe`). A delivery that waited for a
  liveness probe recovers pending pointers before it checks that its terminal still owns
  the mailbox (`mailbox-pointer-delivery.ts:93-134`). It takes the new owner's claim for one
  of another process, releases it although its Enter was attempted, and the redrive types
  pointer and Enter again, against the comment at `mailbox-pointer-submit.ts:106`.
  `PointedOnceByOwner` excludes the messages a stale terminal reset this way, and those of
  the remark on an Enter without a claim below.
* Keep open during a close (`keep_race`). A chat's close is admitted by clearing its
  deadline; a PTY worker's close is not, so Keep open still counts while the close is
  awaited. It marks the terminal kept, deletes the committed output archive
  (`worker-terminal-archive.ts:193`), and the process is killed all the same.
  `OutputSurvivesClose` and `CloseHitsItsOwn` exclude a Keep open or retain that comes
  when the close has begun; the same loss follows a retain between `unknown` and a
  repeated request, and a crash between the kill and its settlement.

Remarks without a run of their own.

Dispatches. The comment near line 81 of `worker-dispatch-outcome.ts` says that a start
that never ran counts toward the breaker; a federated start that the peer reports as
failed (`federated-worker-start-reconcile.ts:108`) does not count. `worker-start --retry`
takes a failed or blocked task and does not look at its gates, although the command that
creates a gate is summarised as blocking its task
(`src/src/cli/specs/orchestration-gate-specs.ts:6`) and the retired loop's comment at
`coordinator-decision-gates.ts:52` says that only resolution unblocks it.

Relay. A full queue lets a report take the slot of a heartbeat that the home has imported
but not acknowledged; a protocol-3 home then refuses the page as committed without its
message on every sync, and a protocol-2 home never pulls the slot again. An attachment
that the host stopped while the answer was lost keeps refusing the acknowledgment of a
report the home had settled. A crash of the host in the middle of an acknowledgment leaves
a pending receipt that refuses its id from then on. `worker-abandon` tells a federated
worker's host nothing (`worker-dispatch-abandon.ts:50-88`), so its attachment stays live; a
later report ends it only when it says `failed` and the task has failed too. A report whose
first acknowledgment was held back or lost is imported again before it can be settled at
the host; when its task was updated or tried again in between, the home rejects the
repetition (`worker-report-settlement.ts:103-136`) and the host never learns the verdict
the home had given. `HostLearnsVerdict` is therefore conditional on `TaskKeepsVerdict`.

Mailbox. A batch whose claim was lost still gets its Enter when one of its messages was
read (`mailbox-pointer-submit.ts:94-99`), and its unread messages go along unclaimed: if
the Run moves to another terminal and back while the old flight waits for its probe, the
next delivery points at them again, in the same process. The shortest such behaviour has
20 steps and six events, more than the runs allow. It came to light when the invariant
behind `PointedOnceByOwner` would not hold; the property excepts these messages (the ghost
`lapsed`) and is proved as it now stands. A stale probe of a retired flight clears the watermark of the next one and marks
the new owner's rows undelivered (`mailbox-pointer-stage.ts:125`).
`releasePendingMailboxPointerForPty` ignores the incarnation, so the working title of a new
process counts the old one's attempted Enter as seen. An Enter deferred in the old
coordinator's terminal keeps its watermark active and withholds the new coordinator's
mail until that terminal rests. The inactive watermark of newer mail withholds the older
mail of a batch that a takeover fenced (`mailbox-pointer-state.ts:111-120`), which
`MailIsAnnounced` therefore excepts.

Terminals. A worker that died before its output was archived stays in release by recovery
(deliberately: `orchestration-worker-release-incarnation-fallback.test.ts:384`), which
`ReleasesEnd` excepts. Keep open accepted while a `worker-stop` is awaited does not stop
it. Abandoning a worker whose stop is unknown drops the archive the stop had stored.

Push. A drain whose lease lapsed and that renews late, when its event had expired, gives a
device two live leases, so the three safety properties about senders exclude drains
whose lease has lapsed. A notification for a registration that was deleted or retired after
the request looked it up is queued all the same and refused when it is sent.
