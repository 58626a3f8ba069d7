-------------------------- MODULE DispatchLifecycle --------------------------
(***************************************************************************)
(* Tasks, the dispatches that carry them out, the supervised workers       *)
(* behind the dispatches and the decision gates that block tasks, as kept  *)
(* in the orchestration database of the HiveWard runtime.                  *)
(*                                                                         *)
(* Every action is one committed write transaction.  RPC handlers, the     *)
(* coordinator, the federation relay, terminal exit events and runtime     *)
(* restarts interleave between transactions, so a handler that awaits is   *)
(* several actions here: worker-start is StartWorker, AttachTerminal and   *)
(* one of MarkReady, FailWorkerStart and MarkStartUnknown; worker-stop is  *)
(* BeginStop followed by the verdict that ends it.                         *)
(***************************************************************************)
EXTENDS Integers, FiniteSets

CONSTANTS
    Task,                 \* tasks of one Run
    Deps,                 \* the tasks each task waits for
    Terminal,             \* agent terminals a dispatch can be assigned to
    NoTask,               \* "task" of a dispatch or gate row not yet inserted
    NoTerminal,           \* assignee of a dispatch that has none
    MaxDispatches,        \* bound: dispatch rows ever inserted
    MaxGates,             \* bound: decision gates ever opened
    CircuitBreakFailures, \* DISPATCH_CIRCUIT_BREAK_FAILURES (3 in the code)
    UpdateStatuses        \* statuses the coordinator's task-update asks for

TaskStatus == {"pending", "ready", "dispatched", "completed", "failed", "blocked"}
ActiveStatus == {"pending", "dispatched"}
SettledStatus == {"completed", "failed", "circuit_broken"}
UnsettledWorker == {"starting", "ready", "start_unknown", "stopping", "stop_unknown"}
SettledWorker == {"failed", "succeeded", "stopped", "abandoned"}

Dispatch == 1..MaxDispatches      \* numbered in insertion (rowid) order
Gate == 1..MaxGates               \* numbered in insertion order

ASSUME DepsAssumption == Deps \in [Task -> SUBSET Task]
ASSUME SentinelAssumption == NoTask \notin Task /\ NoTerminal \notin Terminal
ASSUME BoundAssumption == MaxDispatches \in Nat /\ MaxGates \in Nat
ASSUME BreakerAssumption == CircuitBreakFailures \in Nat \ {0}
ASSUME UpdateAssumption == UpdateStatuses \subseteq TaskStatus

VARIABLES
    taskStatus,    \* tasks.status, "absent" before the row exists
    last,          \* dispatch rows inserted so far
    dispTask,      \* dispatch_contexts.task_id
    dispStatus,    \* dispatch_contexts.status, "none" before the row exists
    failCount,     \* dispatch_contexts.failure_count
    promptStalled, \* last_failure is the agent_prompt_stalled error
    assignee,      \* dispatch_contexts.assignee_handle
    worker,        \* worker_dispatches.state, "none" for a context-only dispatch
    ownEpoch,      \* worker_dispatches.runtime_epoch is the running process's
    federated,     \* a federated_dispatches row pins the worker to a peer
    lastGate,      \* decision gates opened so far
    gateTask,      \* decision_gates.task_id
    gateStatus     \* decision_gates.status, "none" before the row exists

gateVars == <<lastGate, gateTask, gateStatus>>
rowVars == <<last, dispTask, federated>>
dispatchVars == <<rowVars, dispStatus, failCount, promptStalled, assignee, worker, ownEpoch>>
vars == <<taskStatus, dispatchVars, gateVars>>

TypeOK ==
    /\ taskStatus \in [Task -> TaskStatus \cup {"absent"}]
    /\ last \in 0..MaxDispatches
    /\ dispTask \in [Dispatch -> Task \cup {NoTask}]
    /\ dispStatus \in [Dispatch -> ActiveStatus \cup SettledStatus \cup {"none"}]
    /\ failCount \in [Dispatch -> Nat]
    /\ promptStalled \in [Dispatch -> BOOLEAN]
    /\ assignee \in [Dispatch -> Terminal \cup {NoTerminal}]
    /\ worker \in [Dispatch -> UnsettledWorker \cup SettledWorker \cup {"none"}]
    /\ ownEpoch \in [Dispatch -> BOOLEAN]
    /\ federated \in [Dispatch -> BOOLEAN]
    /\ lastGate \in 0..MaxGates
    /\ gateTask \in [Gate -> Task \cup {NoTask}]
    /\ gateStatus \in [Gate -> {"none", "pending", "resolved"}]
    /\ \A d \in Dispatch : /\ (d > last) <=> (dispTask[d] = NoTask)
                           /\ (d > last) <=> (dispStatus[d] = "none")
    /\ \A g \in Gate : /\ (g > lastGate) <=> (gateTask[g] = NoTask)
                       /\ (g > lastGate) <=> (gateStatus[g] = "none")

Init ==
    /\ taskStatus = [t \in Task |-> "absent"]
    /\ last = 0
    /\ dispTask = [d \in Dispatch |-> NoTask]
    /\ dispStatus = [d \in Dispatch |-> "none"]
    /\ failCount = [d \in Dispatch |-> 0]
    /\ promptStalled = [d \in Dispatch |-> FALSE]
    /\ assignee = [d \in Dispatch |-> NoTerminal]
    /\ worker = [d \in Dispatch |-> "none"]
    /\ ownEpoch = [d \in Dispatch |-> FALSE]
    /\ federated = [d \in Dispatch |-> FALSE]
    /\ lastGate = 0
    /\ gateTask = [g \in Gate |-> NoTask]
    /\ gateStatus = [g \in Gate |-> "none"]

-----------------------------------------------------------------------------
(* Queries the transactions share. *)

Active(d) == dispStatus[d] \in ActiveStatus
Unsettled(d) == worker[d] \in UnsettledWorker
DispatchesOf(t) == {d \in Dispatch : dispTask[d] = t}
OthersActive(d) == \E e \in DispatchesOf(dispTask[d]) \ {d} : Active(e)
HasActive(t) == \E d \in DispatchesOf(t) : Active(d)

(* A live supervised worker holds the task: nobody may settle or reopen it. *)
Supervised(t) == \E d \in DispatchesOf(t) : Active(d) /\ Unsettled(d)

IsLatest(d) == \A e \in DispatchesOf(dispTask[d]) : e <= d

(* Why a stop may be retried or abandoned: its own runtime is gone. *)
StopInFlight(d) == worker[d] = "stopping" /\ ownEpoch[d]

DepsCompleted(t, status) == \A u \in Deps[t] : status[u] = "completed"

(* Pending tasks that wait for t and now have every dependency completed. *)
Promoted(status, t) ==
    [u \in Task |-> IF status[u] = "pending" /\ t \in Deps[u] /\ DepsCompleted(u, status)
                    THEN "ready" ELSE status[u]]

WithTask(t, s) == [taskStatus EXCEPT ![t] = s]
CompletingForgetsDependents(t, s) == WithTask(t, s)  \* mutant: no promotion
Completing(t, s) == IF s = "completed" THEN Promoted(WithTask(t, s), t) ELSE WithTask(t, s)

(* What is left of the dispatches and workers of t once its active          *)
(* dispatches are settled with status s.                                    *)
SettledDispatches(ds, t, s) ==
    [d \in Dispatch |-> IF dispTask[d] = t /\ ds[d] \in ActiveStatus THEN s ELSE ds[d]]
SettledWorkers(ds, ws, t) ==
    [d \in Dispatch |-> IF /\ dispTask[d] = t /\ ds[d] \in ActiveStatus
                           /\ ws[d] \in UnsettledWorker
                        THEN "abandoned" ELSE ws[d]]

(* An interrupted dispatch d leaves its task to another active dispatch,    *)
(* or blocked until somebody decides.                                       *)
Interrupted(d) ==
    LET t == dispTask[d] IN
    IF taskStatus[t] \in {"dispatched", "blocked"}
    THEN IF OthersActive(d) THEN "dispatched" ELSE "blocked"
    ELSE taskStatus[t]

Broken(d) == failCount[d] + 1 >= CircuitBreakFailures
FailureStatus(d) == IF Broken(d) THEN "circuit_broken" ELSE "failed"
(* A stop or an abandonment settles the dispatch without counting a failure. *)
EndedStatusForgetsPending(d) ==       \* mutant: a start not yet confirmed stays open
    IF dispStatus[d] = "dispatched" THEN "failed" ELSE dispStatus[d]
EndedStatus(d) == IF Active(d) THEN "failed" ELSE dispStatus[d]

-----------------------------------------------------------------------------
(* Tasks. *)

CreateTask(t) ==
    /\ taskStatus[t] = "absent"
    /\ \A u \in Deps[t] : taskStatus[u] # "absent"
    /\ taskStatus' = WithTask(t, IF DepsCompleted(t, taskStatus) THEN "ready" ELSE "pending")
    /\ UNCHANGED <<dispatchVars, gateVars>>

(* updateTaskStatus as the transaction task-update and gate-resolve share. *)
SetTaskStatus(t, s) ==
    /\ taskStatus[t] # "absent"
    /\ (s \in {"completed", "failed"} \/ (s = "dispatched" /\ taskStatus[t] # "dispatched"))
           => ~Supervised(t)
    /\ s = "dispatched" => HasActive(t)
    /\ HasActive(t) => s \in {"completed", "failed", "dispatched"}
    /\ taskStatus' = Completing(t, s)
    /\ IF s \in {"completed", "failed"}
       THEN /\ dispStatus' = SettledDispatches(dispStatus, t, s)
            /\ worker' = SettledWorkers(dispStatus, worker, t)
       ELSE UNCHANGED <<dispStatus, worker>>
    /\ UNCHANGED <<rowVars, failCount, promptStalled, assignee, ownEpoch>>

UpdateTaskStatus(t, s) ==
    /\ s \in UpdateStatuses
    /\ SetTaskStatus(t, s)
    /\ UNCHANGED gateVars

-----------------------------------------------------------------------------
(* Dispatch rows. *)

(* Insert row last + 1 and take the task; term and w tell a context-only    *)
(* dispatch, assigned at once, from a supervised one still to be placed.    *)
InsertDispatchUnbound(t, status, term, w, fed, failures) ==   \* mutant: no task_id
    LET d == last + 1 IN
    /\ d \in Dispatch
    /\ last' = d
    /\ dispStatus' = [dispStatus EXCEPT ![d] = status]
    /\ failCount' = [failCount EXCEPT ![d] = failures]
    /\ assignee' = [assignee EXCEPT ![d] = term]
    /\ worker' = [worker EXCEPT ![d] = w]
    /\ ownEpoch' = [ownEpoch EXCEPT ![d] = (w # "none")]
    /\ federated' = [federated EXCEPT ![d] = fed]
    /\ taskStatus' = WithTask(t, "dispatched")
    /\ UNCHANGED <<dispTask, promptStalled, gateVars>>

InsertDispatch(t, status, term, w, fed, failures) ==
    LET d == last + 1 IN
    /\ d \in Dispatch
    /\ last' = d
    /\ dispTask' = [dispTask EXCEPT ![d] = t]
    /\ dispStatus' = [dispStatus EXCEPT ![d] = status]
    /\ failCount' = [failCount EXCEPT ![d] = failures]
    /\ assignee' = [assignee EXCEPT ![d] = term]
    /\ worker' = [worker EXCEPT ![d] = w]
    /\ ownEpoch' = [ownEpoch EXCEPT ![d] = (w # "none")]
    /\ federated' = [federated EXCEPT ![d] = fed]
    /\ taskStatus' = WithTask(t, "dispatched")
    /\ UNCHANGED <<promptStalled, gateVars>>

TerminalFreeOfStarted(term) ==        \* mutant: overlooks dispatches still starting
    \A d \in Dispatch : dispStatus[d] = "dispatched" => assignee[d] # term
TerminalFree(term) == \A d \in Dispatch : Active(d) => assignee[d] # term

(* The failure count a new context-only dispatch starts from. *)
PriorFailuresPlusOne(t) ==            \* mutant: counts the new attempt in advance
    {failCount[d] + 1 : d \in DispatchesOf(t)} \cup {0}
PriorFailures(t) == {failCount[d] : d \in DispatchesOf(t)} \cup {0}

CreateDispatchContext(t, term) ==
    /\ taskStatus[t] = "ready"
    /\ TerminalFree(term)
    /\ \E n \in PriorFailures(t) :
          /\ \A m \in PriorFailures(t) : m <= n
          /\ InsertDispatch(t, "dispatched", term, "none", FALSE, n)

FailDispatchAlwaysRequeues(d) ==      \* mutant: the breaker does not park the task
    LET t == dispTask[d] IN
    /\ Active(d)
    /\ dispStatus' = [dispStatus EXCEPT ![d] = FailureStatus(d)]
    /\ failCount' = [failCount EXCEPT ![d] = @ + 1]
    /\ worker' = [worker EXCEPT ![d] = IF @ = "none" THEN @ ELSE "failed"]
    /\ taskStatus' = IF taskStatus[t] = "dispatched" /\ ~OthersActive(d)
                     THEN WithTask(t, "ready") ELSE taskStatus
    /\ UNCHANGED <<rowVars, promptStalled, assignee, ownEpoch, gateVars>>

(* A failed prompt, a failed injection or an escalation from the assignee   *)
(* fails a context-only dispatch; a process exit also fails a worker.       *)
FailDispatch(d) ==
    LET t == dispTask[d] IN
    /\ Active(d)
    /\ dispStatus' = [dispStatus EXCEPT ![d] = FailureStatus(d)]
    /\ failCount' = [failCount EXCEPT ![d] = @ + 1]
    /\ worker' = [worker EXCEPT ![d] = IF @ = "none" THEN @ ELSE "failed"]
    /\ taskStatus' = IF taskStatus[t] = "dispatched" /\ ~OthersActive(d)
                     THEN WithTask(t, IF Broken(d) THEN "failed" ELSE "ready")
                     ELSE taskStatus
    /\ UNCHANGED <<rowVars, promptStalled, assignee, ownEpoch, gateVars>>

FailContextOnly(d) == worker[d] = "none" /\ FailDispatch(d)

AgentExits(d) ==
    /\ assignee[d] # NoTerminal
    /\ ~StopInFlight(d)
    /\ FailDispatch(d)

(* worker-stop and worker-abandon of a dispatch without a worker row. *)
ReleaseContextOnly(d) ==
    LET t == dispTask[d] IN
    /\ Active(d)
    /\ worker[d] = "none"
    /\ dispStatus' = [dispStatus EXCEPT ![d] = "failed"]
    /\ taskStatus' = IF taskStatus[t] = "dispatched" /\ ~OthersActive(d)
                     THEN WithTask(t, "blocked") ELSE taskStatus
    /\ UNCHANGED <<rowVars, failCount, promptStalled, assignee, worker, ownEpoch, gateVars>>

-----------------------------------------------------------------------------
(* Starting a supervised worker. *)

StartWorker(t, fed) ==
    /\ taskStatus[t] = "ready"
    /\ InsertDispatch(t, "pending", NoTerminal, "starting", fed, 0)

(* worker-start --spec creates the task and starts it in one transaction. *)
StartInlineTask(t, fed) ==
    /\ taskStatus[t] = "absent"
    /\ \A u \in Deps[t] : taskStatus[u] # "absent"
    /\ DepsCompleted(t, taskStatus)
    /\ InsertDispatch(t, "pending", NoTerminal, "starting", fed, 0)

RetryableWhileUncertain(d) ==         \* mutant: the prior worker need not be settled
    /\ dispTask[d] # NoTask
    /\ IsLatest(d)
    /\ dispStatus[d] # "circuit_broken"
    /\ taskStatus[dispTask[d]] \in {"failed", "blocked"}
RetryableFromOlder(d) ==              \* mutant: the prior dispatch need not be the latest
    /\ dispTask[d] # NoTask
    /\ dispStatus[d] # "circuit_broken"
    /\ IF worker[d] = "none" THEN dispStatus[d] = "failed"
                             ELSE worker[d] \in {"failed", "stopped", "abandoned"}
    /\ taskStatus[dispTask[d]] \in {"failed", "blocked"}
Retryable(d) ==
    /\ dispTask[d] # NoTask
    /\ IsLatest(d)
    /\ dispStatus[d] # "circuit_broken"
    /\ IF worker[d] = "none" THEN dispStatus[d] = "failed"
                             ELSE worker[d] \in {"failed", "stopped", "abandoned"}
    /\ taskStatus[dispTask[d]] \in {"failed", "blocked"}

RetryWorker(d, fed) ==
    /\ Retryable(d)
    /\ InsertDispatch(dispTask[d], "pending", NoTerminal, "starting", fed, failCount[d])

AttachTerminal(d, term) ==
    /\ dispStatus[d] = "pending"
    /\ worker[d] = "starting"
    /\ ownEpoch[d] /\ ~federated[d]
    /\ \A e \in Dispatch \ {d} : Active(e) => assignee[e] # term
    /\ assignee' = [assignee EXCEPT ![d] = term]
    /\ UNCHANGED <<taskStatus, rowVars, dispStatus, failCount, promptStalled,
                   worker, ownEpoch, gateVars>>

MarkReady(d) ==
    /\ dispStatus[d] = "pending"
    /\ worker[d] = "starting"
    /\ ownEpoch[d]
    /\ federated[d] \/ assignee[d] # NoTerminal
    /\ dispStatus' = [dispStatus EXCEPT ![d] = "dispatched"]
    /\ worker' = [worker EXCEPT ![d] = "ready"]
    /\ UNCHANGED <<taskStatus, rowVars, failCount, promptStalled, assignee, ownEpoch, gateVars>>

(* The start handler fails its own start, or a later send fails a start that *)
(* a previous process left before it placed an agent.  stalled: the prompt  *)
(* was typed but no turn was observed.                                      *)
FailWorkerStart(d, stalled) ==
    LET t == dispTask[d] IN
    /\ worker[d] = "starting"
    /\ ownEpoch[d] \/ (~federated[d] /\ assignee[d] = NoTerminal)
    /\ stalled => ownEpoch[d] /\ (federated[d] \/ assignee[d] # NoTerminal)
    /\ dispStatus' = [dispStatus EXCEPT ![d] = FailureStatus(d)]
    /\ failCount' = [failCount EXCEPT ![d] = @ + 1]
    /\ promptStalled' = [promptStalled EXCEPT ![d] = stalled]
    /\ worker' = [worker EXCEPT ![d] = "failed"]
    /\ taskStatus' = IF ~OthersActive(d) /\ taskStatus[t] # "completed"
                     THEN WithTask(t, "failed") ELSE taskStatus
    /\ UNCHANGED <<rowVars, assignee, ownEpoch, gateVars>>

(* The start handler lost sight of its agent, or worker-show finds a start  *)
(* that a previous process never finished.                                  *)
MarkStartUnknown(d) ==
    /\ worker[d] = "starting"
    /\ ownEpoch[d] \/ ~federated[d]
    /\ taskStatus[dispTask[d]] = "dispatched"
    /\ worker' = [worker EXCEPT ![d] = "start_unknown"]
    /\ taskStatus' = WithTask(dispTask[d], "blocked")
    /\ UNCHANGED <<rowVars, dispStatus, failCount, promptStalled, assignee, ownEpoch, gateVars>>

-----------------------------------------------------------------------------
(* What worker-show learns from the peer that runs a federated worker. *)

FedStarting(d) == federated[d] /\ worker[d] \in {"starting", "start_unknown"}

FedStartConfirmed(d) ==
    LET t == dispTask[d] IN
    /\ FedStarting(d)
    /\ worker' = [worker EXCEPT ![d] = "ready"]
    /\ dispStatus' = [dispStatus EXCEPT ![d] = IF @ = "pending" THEN "dispatched" ELSE @]
    /\ taskStatus' = IF taskStatus[t] = "blocked" THEN WithTask(t, "dispatched") ELSE taskStatus
    /\ UNCHANGED <<rowVars, failCount, promptStalled, assignee, ownEpoch, gateVars>>

FedStartUncertain(d) ==
    LET t == dispTask[d] IN
    /\ FedStarting(d)
    /\ worker' = [worker EXCEPT ![d] = "start_unknown"]
    /\ taskStatus' = IF taskStatus[t] = "dispatched" THEN WithTask(t, "blocked") ELSE taskStatus
    /\ UNCHANGED <<rowVars, dispStatus, failCount, promptStalled, assignee, ownEpoch, gateVars>>

FedStartEnded(d, s) ==
    LET t == dispTask[d] IN
    /\ FedStarting(d)
    /\ s \in {"failed", "stopped"}
    /\ worker' = [worker EXCEPT ![d] = s]
    /\ dispStatus' = [dispStatus EXCEPT ![d] = EndedStatus(d)]
    /\ taskStatus' = WithTask(t, IF Interrupted(d) \in {"blocked", "dispatched"} /\ ~OthersActive(d)
                                 THEN "failed" ELSE Interrupted(d))
    /\ UNCHANGED <<rowVars, failCount, promptStalled, assignee, ownEpoch, gateVars>>

-----------------------------------------------------------------------------
(* Worker reports: worker_done from the assignee or through the relay. *)

CorrectsAnyFailure(d) ==              \* mutant: any failed worker may take it back
    /\ dispStatus[d] \in {"failed", "circuit_broken"}
    /\ taskStatus[dispTask[d]] = "failed"
    /\ worker[d] = "failed"

(* The prompt was taken for lost, yet the worker ran it and reports. *)
CorrectsStalledPrompt(d) ==
    /\ dispStatus[d] \in {"failed", "circuit_broken"}
    /\ promptStalled[d]
    /\ taskStatus[dispTask[d]] = "failed"
    /\ worker[d] = "failed"

ReconnectingStart(d) ==               \* mutant: an uncertain stop mutes the report
    /\ Active(d)
    /\ taskStatus[dispTask[d]] = "blocked"
    /\ worker[d] = "start_unknown"

Reconnecting(d) ==
    /\ Active(d)
    /\ taskStatus[dispTask[d]] = "blocked"
    /\ worker[d] \in {"start_unknown", "stop_unknown"}

ReportingStart(d) ==
    /\ dispStatus[d] = "pending"
    /\ taskStatus[dispTask[d]] = "dispatched"
    /\ worker[d] = "starting"

Running(d) == dispStatus[d] = "dispatched" /\ taskStatus[dispTask[d]] = "dispatched"

ReportSettles(d) ==
    /\ CorrectsStalledPrompt(d) \/ Reconnecting(d) \/ ReportingStart(d) \/ Running(d)
    /\ \A e \in DispatchesOf(dispTask[d]) \ {d} : ~(Active(e) /\ Unsettled(e))
    /\ worker[d] = "none" => \A e \in DispatchesOf(dispTask[d]) : Active(e) => e <= d

(* The admission rule for a worker's report. *)
ReportAdmitted(d) ==
    /\ worker[d] # "stopping"
    /\ federated[d] \/ assignee[d] # NoTerminal

ReportStatus(outcome) == IF outcome = "succeeded" THEN "completed" ELSE "failed"

Report(d, outcome) ==
    LET t == dispTask[d]
        s == ReportStatus(outcome)
        ds == [dispStatus EXCEPT ![d] = IF CorrectsStalledPrompt(d) /\ s = "failed" THEN @ ELSE s]
        ws == [worker EXCEPT ![d] = IF @ = "none" THEN @ ELSE outcome]
    IN
    /\ ReportAdmitted(d)
    /\ ReportSettles(d)
    /\ dispStatus' = SettledDispatches(ds, t, s)
    /\ worker' = SettledWorkers(ds, ws, t)
    /\ promptStalled' = [promptStalled EXCEPT ![d] = @ /\ outcome = "succeeded"]
    /\ taskStatus' = Completing(t, s)
    /\ UNCHANGED <<rowVars, failCount, assignee, ownEpoch, gateVars>>

-----------------------------------------------------------------------------
(* Stopping and abandoning a supervised worker. *)

BeginStopAgain(d) ==                  \* mutant: retries a stop of unknown outcome
    /\ \/ worker[d] \in {"ready", "start_unknown", "stop_unknown"}
       \/ worker[d] = "stopping" /\ ~ownEpoch[d]
    /\ worker' = [worker EXCEPT ![d] = "stopping"]
    /\ ownEpoch' = [ownEpoch EXCEPT ![d] = TRUE]
    /\ taskStatus' = WithTask(dispTask[d], Interrupted(d))
    /\ UNCHANGED <<rowVars, dispStatus, failCount, promptStalled, assignee, gateVars>>

BeginStop(d) ==
    /\ \/ worker[d] \in {"ready", "start_unknown"}
       \/ worker[d] = "stopping" /\ ~ownEpoch[d]
    /\ worker' = [worker EXCEPT ![d] = "stopping"]
    /\ ownEpoch' = [ownEpoch EXCEPT ![d] = TRUE]
    /\ taskStatus' = WithTask(dispTask[d], Interrupted(d))
    /\ UNCHANGED <<rowVars, dispStatus, failCount, promptStalled, assignee, gateVars>>

(* The worker ends in w; its dispatch ends with it, its task waits. *)
EndWorker(d, w) ==
    /\ worker' = [worker EXCEPT ![d] = w]
    /\ dispStatus' = [dispStatus EXCEPT ![d] = EndedStatus(d)]
    /\ taskStatus' = WithTask(dispTask[d], Interrupted(d))
    /\ UNCHANGED <<rowVars, failCount, promptStalled, assignee, ownEpoch, gateVars>>

(* The stop handler or the exit event proves that the process is gone. *)
SettleWorkerStop(d) ==
    /\ ~federated[d]
    /\ StopInFlight(d)
    /\ EndWorker(d, "stopped")

FedStopConfirmed(d) ==
    /\ federated[d]
    /\ worker[d] \in {"stopping", "stop_unknown"}
    /\ EndWorker(d, "stopped")

FedResumeKeepsTask(d) ==              \* mutant: the task stays blocked
    /\ federated[d]
    /\ StopInFlight(d)
    /\ worker' = [worker EXCEPT ![d] = "ready"]
    /\ UNCHANGED <<taskStatus, rowVars, dispStatus, failCount, promptStalled,
                   assignee, ownEpoch, gateVars>>

(* The peer had a report queued before the stop: the relay will settle it. *)
FedResume(d) ==
    LET t == dispTask[d] IN
    /\ federated[d]
    /\ StopInFlight(d)
    /\ worker' = [worker EXCEPT ![d] = "ready"]
    /\ taskStatus' = IF taskStatus[t] = "blocked" THEN WithTask(t, "dispatched") ELSE taskStatus
    /\ UNCHANGED <<rowVars, dispStatus, failCount, promptStalled, assignee, ownEpoch, gateVars>>

MarkStopUnknownIfAttached(d) ==       \* mutant: no verdict without a recorded terminal
    /\ worker[d] = "stopping"
    /\ ownEpoch[d] \/ ~federated[d]
    /\ assignee[d] # NoTerminal
    /\ worker' = [worker EXCEPT ![d] = "stop_unknown"]
    /\ UNCHANGED <<taskStatus, rowVars, dispStatus, failCount, promptStalled,
                   assignee, ownEpoch, gateVars>>

(* The stop handler ran out of evidence, or worker-show finds a stop that a  *)
(* previous process never finished.                                         *)
MarkStopUnknown(d) ==
    /\ worker[d] = "stopping"
    /\ ownEpoch[d] \/ ~federated[d]
    /\ worker' = [worker EXCEPT ![d] = "stop_unknown"]
    /\ UNCHANGED <<taskStatus, rowVars, dispStatus, failCount, promptStalled,
                   assignee, ownEpoch, gateVars>>

AbandonWorkerUnasked(d) ==            \* mutant: abandons under a stop in flight
    /\ Unsettled(d)
    /\ EndWorker(d, "abandoned")
AbandonWorker(d) ==
    /\ Unsettled(d)
    /\ ~StopInFlight(d)
    /\ EndWorker(d, "abandoned")

(* Recovery finds that the recorded terminal no longer exists. *)
ReconcileMissingTerminal(d) ==
    LET t == dispTask[d]
        stopPending == worker[d] \in {"stopping", "stop_unknown"}
    IN
    /\ assignee[d] # NoTerminal
    /\ Unsettled(d)
    /\ worker' = [worker EXCEPT ![d] = IF stopPending THEN "stopped" ELSE "abandoned"]
    /\ IF Active(d)
       THEN /\ dispStatus' = [dispStatus EXCEPT ![d] = FailureStatus(d)]
            /\ failCount' = [failCount EXCEPT ![d] = @ + 1]
            /\ taskStatus' =
                  IF stopPending THEN taskStatus
                  ELSE WithTask(t, IF /\ Interrupted(d) \in {"dispatched", "blocked"}
                                      /\ ~OthersActive(d)
                                   THEN IF Broken(d) THEN "failed" ELSE "ready"
                                   ELSE Interrupted(d))
       ELSE UNCHANGED <<dispStatus, failCount, taskStatus>>
    /\ UNCHANGED <<rowVars, promptStalled, assignee, ownEpoch, gateVars>>

(* A new process opens the database: every recorded epoch is another's, and *)
(* workers of settled dispatches are repaired.                              *)
Restart ==
    /\ ownEpoch' = [d \in Dispatch |-> FALSE]
    /\ worker' = [d \in Dispatch |-> IF dispStatus[d] \in SettledStatus /\ Unsettled(d)
                                     THEN "abandoned" ELSE worker[d]]
    /\ UNCHANGED <<taskStatus, rowVars, dispStatus, failCount, promptStalled, assignee, gateVars>>

-----------------------------------------------------------------------------
(* Decision gates. *)

CreateGate(t) ==
    LET g == lastGate + 1 IN
    /\ g \in Gate
    /\ taskStatus[t] # "absent"
    /\ ~Supervised(t)
    /\ lastGate' = g
    /\ gateTask' = [gateTask EXCEPT ![g] = t]
    /\ gateStatus' = [gateStatus EXCEPT ![g] = "pending"]
    /\ dispStatus' = SettledDispatches(dispStatus, t, "completed")
    /\ worker' = SettledWorkers(dispStatus, worker, t)
    /\ taskStatus' = WithTask(t, "blocked")
    /\ UNCHANGED <<rowVars, failCount, promptStalled, assignee, ownEpoch>>

ResolveGate(g) ==
    /\ gateStatus[g] # "none"
    /\ gateStatus' = [gateStatus EXCEPT ![g] = "resolved"]
    /\ SetTaskStatus(gateTask[g], "ready")
    /\ UNCHANGED <<lastGate, gateTask>>

(* The coordinator blocks the tasks of pending gates again, oldest gate     *)
(* first, and gives up at the first task that is being worked on.           *)
ReblockGatedTasks ==
    LET stuck(g) == /\ gateStatus[g] = "pending"
                    /\ taskStatus[gateTask[g]] # "blocked"
                    /\ HasActive(gateTask[g])
        reached == {g \in Gate : gateStatus[g] = "pending" /\ \A h \in 1..g : ~stuck(h)}
    IN
    /\ taskStatus' = [t \in Task |-> IF \E g \in reached : gateTask[g] = t
                                     THEN "blocked" ELSE taskStatus[t]]
    /\ UNCHANGED <<dispatchVars, gateVars>>

-----------------------------------------------------------------------------
TaskStep(t) ==
    \/ CreateTask(t)
    \/ \E s \in TaskStatus : UpdateTaskStatus(t, s)
    \/ \E term \in Terminal : CreateDispatchContext(t, term)
    \/ \E fed \in BOOLEAN : StartWorker(t, fed) \/ StartInlineTask(t, fed)
    \/ CreateGate(t)

StartStep(d) ==
    \/ \E term \in Terminal : AttachTerminal(d, term)
    \/ MarkReady(d)
    \/ \E stalled \in BOOLEAN : FailWorkerStart(d, stalled)
    \/ MarkStartUnknown(d)

FedStep(d) ==
    \/ FedStartConfirmed(d)
    \/ FedStartUncertain(d)
    \/ \E s \in {"failed", "stopped"} : FedStartEnded(d, s)
    \/ FedStopConfirmed(d)
    \/ FedResume(d)

EndStep(d) ==
    \/ \E outcome \in {"succeeded", "failed"} : Report(d, outcome)
    \/ BeginStop(d)
    \/ SettleWorkerStop(d)
    \/ MarkStopUnknown(d)
    \/ AbandonWorker(d)
    \/ AgentExits(d)
    \/ ReconcileMissingTerminal(d)
    \/ FailContextOnly(d)
    \/ ReleaseContextOnly(d)

DispatchStep(d) ==
    \/ \E fed \in BOOLEAN : RetryWorker(d, fed)
    \/ StartStep(d)
    \/ FedStep(d)
    \/ EndStep(d)

Next ==
    \/ \E t \in Task : TaskStep(t)
    \/ \E d \in Dispatch : DispatchStep(d)
    \/ \E g \in Gate : ResolveGate(g)
    \/ ReblockGatedTasks
    \/ Restart

Spec == Init /\ [][Next]_vars

-----------------------------------------------------------------------------
(* Properties. *)

(* At most one dispatch of a task is pending or dispatched: no task is ever *)
(* worked on twice at once, whichever of dispatch, worker-start, retry,     *)
(* gates and task-update made it startable.                                 *)
OneActiveDispatchPerTask ==
    \A d, e \in Dispatch :
        Active(d) /\ Active(e) /\ dispTask[d] = dispTask[e] => d = e

(* The two rows of a supervised dispatch settle together: a worker is live  *)
(* or uncertain exactly while its dispatch is active.                       *)
WorkerFollowsDispatch ==
    \A d \in Dispatch : worker[d] # "none" => (Active(d) <=> Unsettled(d))

(* The task row agrees with the dispatch that holds it: blocked while the   *)
(* worker's fate is uncertain or a stop is under way, dispatched otherwise, *)
(* and never dispatched with nobody working on it.                          *)
TaskFollowsDispatch ==
    /\ \A d \in Dispatch :
          Active(d) => taskStatus[dispTask[d]] =
                          IF worker[d] \in {"start_unknown", "stopping", "stop_unknown"}
                          THEN "blocked" ELSE "dispatched"
    /\ \A t \in Task : taskStatus[t] = "dispatched" => HasActive(t)

(* The active dispatch of a task is its newest, so that "the latest         *)
(* dispatch", which retry and reports ask for, is the one at work.          *)
ActiveIsLatest == \A d \in Dispatch : Active(d) => IsLatest(d)

(* A terminal works for one active dispatch at a time, though it is claimed *)
(* on two paths, by a context-only insert and by attaching to a start.      *)
TerminalExclusive ==
    \A d, e \in Dispatch :
        Active(d) /\ Active(e) /\ assignee[d] = assignee[e] /\ assignee[d] # NoTerminal => d = e

(* The recorded failures never exceed the attempts made on the task so far, *)
(* so the breaker cannot trip before that many dispatches really failed.    *)
FailuresBounded ==
    \A d \in 1..last :
        LET attempts == {e \in DispatchesOf(dispTask[d]) : e <= d} IN
        /\ failCount[d] <= Cardinality(attempts)
        /\ Active(d) => failCount[d] < Cardinality(attempts)

(* The comment above promoteReadyTasks: ready work cannot be stranded.  A   *)
(* pending task always waits for a dependency that is still to complete.    *)
NoStrandedTask ==
    \A t \in Task : taskStatus[t] = "pending" => ~DepsCompleted(t, taskStatus)

(* A worker that is started, ready or only lost from sight can report, and  *)
(* its report settles the dispatch.  Left out: a worker resumed for the     *)
(* relay before its start was confirmed, see OnlyAStopMutesReports.         *)
LiveWorkersAreHeard ==
    \A d \in Dispatch :
        /\ Active(d) /\ worker[d] \notin {"none", "stopping"}
        /\ ~(worker[d] = "ready" /\ dispStatus[d] = "pending")
        => ReportSettles(d)

(* worker-report-admission.ts: only a stop in flight mutes a report.        *)
OnlyAStopMutesReports ==
    \A d \in Dispatch :
        Active(d) /\ worker[d] \notin {"none", "stopping"} => ReportSettles(d)

(* A settled dispatch stays as it was settled.  The one exception corrects  *)
(* a prompt taken for lost whose worker reports success after all.          *)
SettledIsFinal ==
    [][\A d \in Dispatch :
          dispStatus[d] \in SettledStatus /\ dispStatus'[d] # dispStatus[d]
          => /\ promptStalled[d] /\ dispStatus[d] # "completed"
             /\ dispStatus'[d] = "completed" /\ taskStatus'[dispTask[d]] = "completed"]_vars

(* The step that breaks the circuit parks the task for a human: no path     *)
(* that counts a failure leaves it ready for another automatic attempt.     *)
BreakerParksTask ==
    [][\A d \in Dispatch :
          dispStatus[d] # "circuit_broken" /\ dispStatus'[d] = "circuit_broken"
          => taskStatus'[dispTask[d]] \in {"failed", "blocked"}]_vars

(* A stop that this runtime has in flight ends with its own verdict: no     *)
(* report, exit, abandonment, task update or gate settles the worker first. *)
StopKeepsItsVerdict ==
    [][\A d \in Dispatch :
          StopInFlight(d) /\ worker'[d] # "stopping"
          => \/ worker'[d] \in {"stopped", "stop_unknown"}
             \/ federated[d] /\ worker'[d] = "ready"]_vars

(* LEGAL_TRANSITIONS: what transitionLifecycle lets a worker become. *)
WorkerEdges == [
    starting      |-> {"starting", "ready", "start_unknown", "failed", "stopping", "stopped", "abandoned"},
    start_unknown |-> {"start_unknown", "ready", "failed", "stopping", "stopped", "abandoned"},
    ready         |-> {"ready", "succeeded", "failed", "stopping", "abandoned"},
    stopping      |-> {"stopping", "stopped", "stop_unknown", "ready", "failed", "abandoned"},
    stop_unknown  |-> {"stop_unknown", "ready", "failed", "stopped", "abandoned"}]

(* No transaction asks for a worker transition outside the legal graph,     *)
(* which would throw and leave its handler's work undone.  A successful     *)
(* report passes through ready; the stalled-prompt correction is the code's *)
(* one named exception.                                                     *)
WorkerStepsAreLegal ==
    [][\A d \in Dispatch :
          worker[d] # "none" /\ worker'[d] # worker[d]
          => \/ Unsettled(d) /\ worker'[d] \in WorkerEdges[worker[d]]
             \/ Unsettled(d) /\ worker'[d] = "succeeded" /\ "ready" \in WorkerEdges[worker[d]]
             \/ promptStalled[d] /\ worker[d] = "failed" /\ worker'[d] = "succeeded"]_vars

(* Custody: holders are the active dispatches, the spent ones are settled.  *)
Free == 0
Holder == [t \in Task |-> IF HasActive(t) THEN CHOOSE d \in DispatchesOf(t) : Active(d) ELSE Free]
Custody == INSTANCE TaskCustody WITH
    holder <- Holder,
    spent <- {d \in Dispatch : dispStatus[d] \in SettledStatus}

(* Dispatching implements custody of tasks. *)
ImplementsCustody == Custody!Spec

-----------------------------------------------------------------------------
(* Fairness: a handler of this process does not wait for ever, since its    *)
(* awaits time out or catch their failure; when no proof of the outcome     *)
(* arrives it gives the verdict that needs none.                            *)

StartHandlerGivesUp(d) ==
    \/ \E stalled \in BOOLEAN : FailWorkerStart(d, stalled)
    \/ MarkStartUnknown(d)

HandlerFairness ==
    \A d \in Dispatch : /\ WF_vars(ownEpoch[d] /\ StartHandlerGivesUp(d))
                        /\ WF_vars(ownEpoch[d] /\ MarkStopUnknown(d))

FairSpec == Spec /\ HandlerFairness

(* No start or stop that this process began stays in between for ever: it   *)
(* is concluded, or the process ends and another may take it over.          *)
HandlersConclude ==
    \A d \in Dispatch :
        ownEpoch[d] /\ worker[d] \in {"starting", "stopping"}
            ~> ~(ownEpoch[d] /\ worker[d] \in {"starting", "stopping"})
=============================================================================
