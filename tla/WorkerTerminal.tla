--------------------------- MODULE WorkerTerminal ---------------------------
(***************************************************************************)
(* Custody of a worker's terminal after its dispatch: a row of             *)
(* worker_terminal_resources says which dispatch owns the terminal and how *)
(* far its release came. Two minutes after a worker succeeded its terminal *)
(* is closed by a timer; the coordinator may release or retain it, the     *)
(* user may keep it open, its agent may start another turn, and a          *)
(* follow-up dispatch may take it over. The release itself is a chain of   *)
(* awaits (look at the terminal, capture its output, commit, close,        *)
(* settle), and any of these may come in between, as may a crash.          *)
(*                                                                         *)
(* One terminal created for its first worker, either a process behind a    *)
(* PTY or a chat session; the dispatches take turns on it.                 *)
(***************************************************************************)
EXTENDS Naturals, FiniteSets

CONSTANTS
    Dispatches,     \* supervised dispatches that work in the terminal
    First,          \* the one it was created for
    NoDispatch,     \* "no dispatch"
    Kinds,          \* "pty" and "chat", as far as an instance has them
    MaxFaults       \* crashes, failed captures, missing terminals, unproven closes

ASSUME TerminalAssumption ==
    /\ First \in Dispatches /\ NoDispatch \notin Dispatches
    /\ Kinds \subseteq {"pty", "chat"}
    /\ MaxFaults \in Nat

VARIABLES
    kind,      \* a chat's last check runs in its session's lane
    row,       \* the resource: owner, release state, retained reason, deadline
    prior,     \* prior_owner_dispatch_ids
    archive,   \* dispatches with a row in worker_terminal_archives
    worker,    \* worker_dispatches.state, as far as custody reads it
    process,   \* the recorded incarnation: "live", "ended", or "replaced" in its pane
    turn,      \* the agent is in a turn, as far as this runtime knows
    flight,    \* the release under way in this process
    asked,     \* refused releases that wait for a look at the process
    stop,      \* the worker-stop under way in this process
    faults,    \* faults so far
    keptOpen,  \* ghost: the user chose Keep open and has not undone it
    closed,    \* ghost: the dispatch whose release ended the process
    raced      \* ghost: Keep open or retain came after a close had begun

custodyVars == <<row, prior, archive>>
memoryVars == <<turn, flight, asked, stop>>
worldVars == <<kind, worker, process, faults>>
ghostVars == <<keptOpen, closed, raced>>
vars == <<custodyVars, memoryVars, worldVars, ghostVars>>

WORKER_RELEASABLE_STATES == {"succeeded", "failed"}
WORKER_SETTLED_STATES == WORKER_RELEASABLE_STATES \cup {"stopped", "abandoned"}
ReleaseState == {"not_requested", "retained", "requested", "releasing", "released", "unknown"}
RetainedReason == {"none", "user_requested", "user_kept", "identity_unproven"}

NoFlight == [at |-> "none", for |-> NoDispatch, recovery |-> FALSE, automatic |-> FALSE]
NoStop == [at |-> "none", for |-> NoDispatch]

Settled(d) == worker[d] \in WORKER_SETTLED_STATES
OwnerReleasable == worker[row.owner] \in WORKER_RELEASABLE_STATES
Armed == row.autoFor = row.owner /\ row.release = "not_requested"
Automatic(r) == r.deadline # "none" /\ r.autoFor = r.owner
UserKept(r) == r.release = "retained" /\ r.reason = "user_kept"
Fault == faults < MaxFaults /\ faults' = faults + 1

Init ==
    /\ kind \in Kinds
    /\ row = [owner |-> First, release |-> "not_requested", reason |-> "none",
              deadline |-> "none", autoFor |-> NoDispatch]
    /\ prior = {} /\ archive = {}
    /\ worker = [d \in Dispatches |-> IF d = First THEN "ready" ELSE "none"]
    /\ process = "live" /\ turn = TRUE
    /\ flight = NoFlight /\ asked = {} /\ stop = NoStop /\ faults = 0
    /\ keptOpen = FALSE /\ closed = NoDispatch /\ raced = FALSE

-----------------------------------------------------------------------------
(* The worker, its agent and its process. *)

(* A report settles the worker; success arms the countdown, once. *)
Report(d, outcome) ==
    /\ worker[d] = "ready" /\ process = "live"
    /\ worker' = [worker EXCEPT ![d] = outcome]
    /\ row' = IF outcome = "succeeded" /\ row.owner = d /\ row.release = "not_requested"
                 /\ row.autoFor # d
              THEN [row EXCEPT !.deadline = "running", !.autoFor = d] ELSE row
    /\ UNCHANGED <<prior, archive, memoryVars, kind, process, faults, ghostVars>>

Suspended(r) == [r EXCEPT !.deadline = "none"]

AgentWorks ==
    /\ ~turn /\ process = "live"
    /\ turn' = TRUE
    /\ row' = IF Armed THEN Suspended(row) ELSE row
    /\ UNCHANGED <<prior, archive, flight, asked, stop, worldVars, ghostVars>>

(* A turn ends, or the first status after a restart shows a resting agent. *)
Restarted(r) == IF Armed /\ r.deadline = "none" THEN [r EXCEPT !.deadline = "running"] ELSE r

AgentRests ==
    /\ turn \/ Restarted(row) # row
    /\ turn' = FALSE
    /\ row' = Restarted(row)
    /\ UNCHANGED <<prior, archive, flight, asked, stop, worldVars, ghostVars>>

DeadlineComes ==
    /\ row.deadline = "running"
    /\ row' = [row EXCEPT !.deadline = "due"]
    /\ UNCHANGED <<prior, archive, memoryVars, worldVars, ghostVars>>

(* With the process its agent's turn is over. *)
Exits ==
    /\ process = "live" /\ process' = "ended"
    /\ turn' = FALSE /\ row' = IF turn THEN Restarted(row) ELSE row
    /\ UNCHANGED <<prior, archive, flight, asked, stop, kind, worker, faults>>

ProcessEnds == Exits /\ UNCHANGED ghostVars

(* Another process registers in the pane: the user's, not the worker's. *)
PaneReplaced ==
    /\ kind = "pty" /\ process = "ended"
    /\ process' = "replaced"
    /\ row' = IF row.release = "not_requested" /\ Settled(row.owner)
              THEN [row EXCEPT !.release = "retained", !.reason = "identity_unproven"] ELSE row
    /\ UNCHANGED <<prior, archive, memoryVars, kind, worker, faults, ghostVars>>

(* The exit event of the owner's process: only a stop of this runtime takes *)
(* it for the stop's success.                                               *)
ExitNoticed ==
    LET d == row.owner IN
    /\ process # "live" /\ worker[d] \in {"ready", "stopping", "stop_unknown"}
    /\ worker' = [worker EXCEPT ![d] = IF @ = "stopping" /\ stop.for = d THEN "stopped" ELSE "failed"]
    /\ UNCHANGED <<custodyVars, memoryVars, kind, process, faults, ghostVars>>

(* Recovery finds that the recorded terminal no longer exists. *)
ReconcileMissingTerminal(d) ==
    /\ process # "live" /\ worker[d] \in {"ready", "stopping", "stop_unknown"}
    /\ worker' = [worker EXCEPT ![d] = IF @ = "ready" THEN "abandoned" ELSE "stopped"]
    /\ UNCHANGED <<custodyVars, memoryVars, kind, process, faults, ghostVars>>

-----------------------------------------------------------------------------
(* A follow-up dispatch reuses the terminal of a settled one. *)

TransferableInRelease ==              \* mutant: a release in progress does not refuse it
    row.release # "released" /\ Settled(row.owner)
Transferable == row.release \in {"not_requested", "retained"} /\ Settled(row.owner)

KeptOpen(r) == r.release = "retained" /\ r.reason \in {"user_kept", "user_requested"}

TransferKeepsDeadline(d) ==           \* mutant: the old countdown runs on
    [row EXCEPT !.owner = d, !.autoFor = NoDispatch,
                !.release = IF KeptOpen(row) THEN @ ELSE "not_requested",
                !.reason = IF KeptOpen(row) THEN @ ELSE "none"]
Transferred(d) ==
    [row EXCEPT !.owner = d, !.autoFor = NoDispatch, !.deadline = "none",
                !.release = IF KeptOpen(row) THEN @ ELSE "not_requested",
                !.reason = IF KeptOpen(row) THEN @ ELSE "none"]

(* To a live worker: the reopening of an ended chat is not modelled. *)
FollowUp(d) ==
    /\ worker[d] = "none" /\ process = "live" /\ Transferable
    /\ worker' = [worker EXCEPT ![d] = "ready"]
    /\ row' = Transferred(d) /\ prior' = prior \cup {row.owner}
    /\ UNCHANGED <<archive, memoryVars, kind, process, faults, ghostVars>>

-----------------------------------------------------------------------------
(* Requests: release, retain, keep open, the deadline. *)

(* A close has been called, or has ended the process and is not settled. *)
CloseBegun ==
    \/ flight.at = "closing"
    \/ closed # NoDispatch /\ row.release # "released"
    \/ worker[row.owner] = "stopping"

Flight(d, recovery, automatic) ==
    [at |-> "looking", for |-> d, recovery |-> recovery, automatic |-> automatic]

(* One release per resource: a second one joins it. *)
Joined(f) == IF flight = NoFlight THEN f ELSE flight

RequestReleaseForgets(d) ==           \* mutant: any new request drops what was archived
    /\ row.owner = d /\ Settled(d) /\ row.release # "released"
    /\ OwnerReleasable /\ ~UserKept(row)
    /\ archive' = archive \ {d}
    /\ row' = [row EXCEPT !.release = IF @ = "releasing" THEN @ ELSE "requested",
                          !.reason = "none", !.deadline = "none"]
    /\ flight' = Joined(Flight(d, FALSE, FALSE))
    /\ UNCHANGED <<prior, turn, asked, stop, worldVars, ghostVars>>
RequestRelease(d) ==
    /\ row.owner = d /\ Settled(d) /\ row.release # "released"
    /\ OwnerReleasable /\ ~UserKept(row)
    /\ archive' = IF row.release = "retained" /\ row.reason = "user_requested"
                  THEN archive \ {d} ELSE archive
    /\ row' = [row EXCEPT !.release = IF @ = "releasing" THEN @ ELSE "requested",
                          !.reason = "none", !.deadline = "none"]
    /\ flight' = Joined(Flight(d, FALSE, FALSE))
    /\ UNCHANGED <<prior, turn, asked, stop, worldVars, ghostVars>>

(* A release of a kept, stopped or handed-over terminal is refused, unless *)
(* its process proves to be dead.                                          *)
RefuseRelease(d) ==
    /\ Settled(d) /\ d \notin asked
    /\ \/ d \in prior
       \/ row.owner = d /\ row.release # "released" /\ (~OwnerReleasable \/ UserKept(row))
    /\ asked' = asked \cup {d}
    /\ UNCHANGED <<custodyVars, turn, flight, stop, worldVars, ghostVars>>

(* settleDeadWorkerTerminalRelease *)
DeadSettlesForRequester(d) ==         \* mutant: the present owner's worker may still run
    /\ d = row.owner \/ d \in prior
    /\ Settled(d) /\ row.release # "released" /\ ~UserKept(row)
DeadSettles(d) ==
    LET unreachable == row.owner = d /\ row.release \in {"not_requested", "retained"} IN
    /\ d = row.owner \/ d \in prior
    /\ Settled(d) /\ Settled(row.owner)
    /\ row.owner \in archive \/ unreachable
    /\ row.release # "released" /\ ~UserKept(row)
SettledRow == [row EXCEPT !.release = "released", !.reason = "none"]

RefusedIsLookedAt(d) ==
    /\ d \in asked
    /\ asked' = asked \ {d}
    /\ row' = IF process # "live" /\ DeadSettles(d) THEN SettledRow ELSE row
    /\ UNCHANGED <<prior, archive, turn, flight, stop, worldVars, ghostVars>>

(* retainTerminalResourceInTransaction: the archive of a terminal that goes *)
(* on is dropped, that of a stopped worker is its only output.              *)
RetainRow(reason) ==
    /\ row' = [row EXCEPT !.release = "retained", !.deadline = "none",
                          !.reason = IF UserKept(row) THEN @ ELSE reason]
    /\ archive' = IF worker[row.owner] = "stopped" THEN archive ELSE archive \ {row.owner}
    /\ raced' = (raced \/ CloseBegun)
    /\ UNCHANGED <<prior, memoryVars, kind, process, faults, closed>>

Retainable(d) == row.owner = d /\ row.release \in {"not_requested", "retained", "requested"}

Retain(d) ==
    /\ Retainable(d)
    /\ RetainRow("user_requested")
    /\ UNCHANGED <<worker, keptOpen>>

(* A worker given up hands its terminal back; a stop in flight refuses it. *)
Abandon(d) ==
    /\ worker[d] \in {"ready", "stop_unknown"} \/ (worker[d] = "stopping" /\ stop.for # d)
    /\ worker' = [worker EXCEPT ![d] = "abandoned"]
    /\ \/ /\ Retainable(d) /\ RetainRow("user_requested")
       \/ /\ ~Retainable(d)
          /\ UNCHANGED <<custodyVars, memoryVars, kind, process, faults, closed, raced>>
    /\ UNCHANGED keptOpen

KeepOpen ==
    /\ \/ row.release = "not_requested"
       \/ row.release \in {"requested", "releasing"} /\ Automatic(row)
    /\ RetainRow("user_kept")
    /\ keptOpen' = TRUE /\ UNCHANGED worker

AllowAutoClose ==
    /\ UserKept(row)
    /\ row' = [row EXCEPT !.release = "not_requested", !.reason = "none",
                          !.autoFor = IF OwnerReleasable THEN row.owner ELSE @,
                          !.deadline = IF OwnerReleasable /\ ~turn THEN "running" ELSE "none"]
    /\ keptOpen' = FALSE
    /\ UNCHANGED <<prior, archive, memoryVars, worldVars, closed, raced>>

(* The timer claims what is due, except from an agent in a turn. *)
ClaimDue ==
    /\ Armed /\ row.deadline = "due" /\ OwnerReleasable
    /\ IF turn THEN row' = Suspended(row) /\ UNCHANGED flight
       ELSE /\ row' = [row EXCEPT !.release = "requested", !.reason = "none"]
            /\ flight' = Joined(Flight(row.owner, TRUE, TRUE))
    /\ UNCHANGED <<prior, archive, turn, asked, stop, worldVars, ghostVars>>

(* After a restart, a reconnect or a claim: every release still open. *)
ReconcileRequested ==                 \* mutant: a close cut short is not taken up again
    /\ flight = NoFlight /\ row.release = "requested"
    /\ flight' = Flight(row.owner, TRUE, row.deadline # "none")
    /\ UNCHANGED <<custodyVars, turn, asked, stop, worldVars, ghostVars>>
Reconcile ==
    /\ flight = NoFlight /\ row.release \in {"requested", "releasing"}
    /\ flight' = Flight(row.owner, TRUE, row.deadline # "none")
    /\ UNCHANGED <<custodyVars, turn, asked, stop, worldVars, ghostVars>>

-----------------------------------------------------------------------------
(* The release: completeWorkerTerminalRelease. *)

InRelease(r) == r.release \in {"requested", "releasing"}
Unknown(r) == IF InRelease(r) THEN [r EXCEPT !.release = "unknown"] ELSE r
Unproven(r) ==
    IF InRelease(r) THEN [r EXCEPT !.release = "retained", !.reason = "identity_unproven"] ELSE r

ReleaseEnds(r) == row' = r /\ flight' = NoFlight

(* deferWorkerTerminalAutoRelease: suspended again, the archive dropped. *)
Deferred(r) == [r EXCEPT !.release = "not_requested", !.deadline = "none"]
Defers(r) == Automatic(r) /\ turn

Committing(d) == row.owner = d /\ row.release = "requested"

(* The archive is committed and the close (for a chat that the timer       *)
(* claimed, its admission) called without an await in between. A dispatch  *)
(* that lost the terminal, or whose release was called off, stops here.    *)
Commit(d) ==
    LET r == IF Committing(d) THEN [row EXCEPT !.release = "releasing"] ELSE row
        a == IF Committing(d) THEN archive \cup {d} ELSE archive
    IN
    \/ /\ r.release # "releasing"
       /\ ReleaseEnds(r) /\ archive' = a
    \/ /\ r.release = "releasing" /\ process = "replaced"
       /\ ReleaseEnds(Unproven(r)) /\ archive' = a
    \/ /\ r.release = "releasing" /\ process # "replaced" /\ Defers(r)
       /\ ReleaseEnds(Deferred(r)) /\ archive' = a \ {r.owner}
    \/ /\ r.release = "releasing" /\ process # "replaced" /\ ~Defers(r)
       /\ row' = r /\ archive' = a
       /\ flight' = [flight EXCEPT
              !.at = IF kind = "chat" /\ flight.automatic THEN "admitting" ELSE "closing"]

(* The terminal shows another process or its authority is gone. *)
LookFails ==
    /\ flight.at = "looking"
    /\ \/ process = "replaced" /\ UNCHANGED faults
       \/ process = "live" /\ Fault
    /\ ReleaseEnds(Unproven(row))
    /\ UNCHANGED <<prior, archive, turn, asked, stop, kind, worker, process, ghostVars>>

(* Output that is archived already is not captured again. *)
LookFinds ==
    /\ flight.at = "looking" /\ process # "replaced"
    /\ IF flight.for \in archive THEN Commit(flight.for)
       ELSE flight' = [flight EXCEPT !.at = "capturing"] /\ UNCHANGED <<row, archive>>
    /\ UNCHANGED <<prior, turn, asked, stop, worldVars, ghostVars>>

LookMisses ==
    /\ flight.at = "looking"
    /\ \/ process # "live" /\ UNCHANGED faults
       \/ process = "live" /\ Fault
    /\ flight' = [flight EXCEPT !.at = "probing"]
    /\ UNCHANGED <<custodyVars, turn, asked, stop, kind, worker, process, ghostVars>>

(* A terminal that is gone: a dead process settles if its output is safe;  *)
(* else recovery looks again later and a request ends unknown.             *)
Probed ==
    LET dead == process # "live" /\ DeadSettles(flight.for) IN
    /\ flight.at = "probing"
    /\ ReleaseEnds(IF dead THEN SettledRow ELSE IF flight.recovery THEN row ELSE Unknown(row))
    /\ UNCHANGED <<prior, archive, turn, asked, stop, worldVars, ghostVars>>

Captured ==
    /\ flight.at = "capturing"
    /\ Commit(flight.for)
    /\ UNCHANGED <<prior, turn, asked, stop, worldVars, ghostVars>>

(* The request stays open, but a chat nobody can verify any more ends it. *)
CaptureFails ==
    /\ flight.at = "capturing" /\ Fault
    /\ \/ ReleaseEnds(row)
       \/ kind = "chat" /\ ReleaseEnds(Unknown(row))
    /\ UNCHANGED <<prior, archive, turn, asked, stop, kind, worker, process, ghostVars>>

(* The automatic close's last word, in the session's lane. *)
AdmitUnread ==                        \* mutant: the row is not read again
    /\ flight.at = "admitting"
    /\ row' = [row EXCEPT !.deadline = "none"]
    /\ flight' = [flight EXCEPT !.at = "closing"]
    /\ UNCHANGED <<prior, archive, turn, asked, stop, worldVars, ghostVars>>
Admit ==
    /\ flight.at = "admitting"
    /\ \/ /\ Defers(row)
          /\ row' = IF InRelease(row) THEN Deferred(row) ELSE row
          /\ archive' = IF InRelease(row) THEN archive \ {row.owner} ELSE archive
          /\ flight' = NoFlight
       \/ /\ ~Defers(row) /\ row.release = "releasing"
          /\ row' = [row EXCEPT !.deadline = "none"]
          /\ flight' = [flight EXCEPT !.at = "closing"]
          /\ UNCHANGED archive
       \/ /\ ~Defers(row) /\ row.release # "releasing"
          /\ ReleaseEnds(row) /\ UNCHANGED archive
    /\ UNCHANGED <<prior, turn, asked, stop, worldVars, ghostVars>>

CloseKills ==
    /\ flight.at = "closing" /\ Exits
    /\ closed' = flight.for
    /\ UNCHANGED <<keptOpen, raced>>

CloseUnproven ==
    /\ flight.at = "closing" /\ Fault
    /\ \/ kind = "chat" /\ ReleaseEnds(IF row.release = "releasing" THEN Unknown(row) ELSE row)
       \/ kind = "pty" /\ (ReleaseEnds(Unknown(row)) \/ ReleaseEnds(row))
    /\ UNCHANGED <<prior, archive, turn, asked, stop, kind, worker, process, ghostVars>>

CloseProven ==
    /\ flight.at = "closing" /\ process # "live"
    /\ ReleaseEnds(IF InRelease(row) \/ row.release = "unknown"
                   THEN [row EXCEPT !.release = "released"] ELSE row)
    /\ UNCHANGED <<prior, archive, turn, asked, stop, worldVars, ghostVars>>

-----------------------------------------------------------------------------
(* worker-stop closes the terminal too. *)

BeginStop(d) ==
    /\ worker[d] = "ready" \/ (worker[d] = "stopping" /\ stop.for # d)
    /\ ~(row.owner = d /\ UserKept(row))
    /\ worker' = [worker EXCEPT ![d] = "stopping"]
    /\ stop' = [at |-> "looking", for |-> d]
    /\ UNCHANGED <<custodyVars, turn, flight, asked, kind, process, faults, ghostVars>>

Stopped(d) == worker' = [worker EXCEPT ![d] = IF @ = "stopping" THEN "stopped" ELSE @]
StopUnknown(d) == worker' = [worker EXCEPT ![d] = IF @ = "stopping" THEN "stop_unknown" ELSE @]
StopEnds == stop' = NoStop /\ UNCHANGED <<custodyVars, turn, flight, asked, kind, process, ghostVars>>

StopLooks ==
    /\ stop.at = "looking" /\ (process = "live" \/ kind = "chat")
    /\ worker[stop.for] # "stopped" /\ row.owner = stop.for
    /\ stop' = [stop EXCEPT !.at = IF stop.for \in archive THEN "closing" ELSE "archiving"]
    /\ UNCHANGED <<custodyVars, turn, flight, asked, worldVars, ghostVars>>

(* Nothing to close, or the exit event has settled the stop already. *)
StopFindsNone ==
    /\ stop.at = "looking"
    /\ process # "live" \/ worker[stop.for] = "stopped" \/ row.owner # stop.for
    /\ StopUnknown(stop.for) /\ UNCHANGED faults
    /\ StopEnds

(* The archive taken before the stop; stopping matters more than the copy. *)
StopArchives ==
    /\ stop.at = "archiving"
    /\ \/ archive' = (IF row.owner = stop.for /\ row.release \in {"not_requested", "retained"}
                      THEN archive \cup {stop.for} ELSE archive) /\ UNCHANGED faults
       \/ Fault /\ UNCHANGED archive
    /\ stop' = [stop EXCEPT !.at = "closing"]
    /\ UNCHANGED <<row, prior, turn, flight, asked, kind, worker, process, ghostVars>>

StopKills ==
    /\ stop.at = "closing" /\ Exits
    /\ UNCHANGED ghostVars

StopReturns ==
    /\ stop.at = "closing"
    /\ \/ process # "live" /\ Stopped(stop.for) /\ UNCHANGED faults
       \/ StopUnknown(stop.for) /\ Fault
    /\ StopEnds

(* The runtime ends; the terminal's process and the database go on. *)
Restart ==
    /\ Fault
    /\ turn' = FALSE /\ flight' = NoFlight /\ asked' = {} /\ stop' = NoStop
    /\ UNCHANGED <<custodyVars, kind, worker, process, ghostVars>>

-----------------------------------------------------------------------------
ReleaseStep ==
    \/ LookFails \/ LookFinds \/ LookMisses \/ Probed \/ Captured \/ CaptureFails
    \/ Admit \/ CloseKills \/ CloseUnproven \/ CloseProven
StopStep == StopLooks \/ StopFindsNone \/ StopArchives \/ StopKills \/ StopReturns

Next ==
    \/ \E d \in Dispatches :
         \/ \E outcome \in WORKER_RELEASABLE_STATES : Report(d, outcome)
         \/ ReconcileMissingTerminal(d)
         \/ FollowUp(d)
         \/ RequestRelease(d)
         \/ RefuseRelease(d)
         \/ RefusedIsLookedAt(d)
         \/ Retain(d)
         \/ Abandon(d)
         \/ BeginStop(d)
    \/ AgentWorks \/ AgentRests \/ DeadlineComes \/ ProcessEnds \/ PaneReplaced \/ ExitNoticed
    \/ KeepOpen \/ AllowAutoClose \/ ClaimDue \/ Reconcile
    \/ ReleaseStep \/ StopStep \/ Restart

Spec == Init /\ [][Next]_vars

(* The timer runs, awaited calls return, a release left open is looked at  *)
(* again (restart, reconnect, the next claim), an agent that rests says so.*)
Fairness ==
    /\ WF_vars(DeadlineComes) /\ WF_vars(ClaimDue) /\ WF_vars(Reconcile)
    /\ WF_vars(LookFinds \/ LookMisses \/ LookFails) /\ WF_vars(Probed) /\ WF_vars(Captured) /\ WF_vars(Admit)
    /\ WF_vars(CloseKills) /\ WF_vars(CloseProven)

FairSpec == Spec /\ Fairness

-----------------------------------------------------------------------------
(* Types; a running deadline belongs to a dispatch. *)
TypeOK ==
    /\ kind \in Kinds
    /\ row.owner \in Dispatches /\ row.release \in ReleaseState /\ row.reason \in RetainedReason
    /\ row.deadline \in {"none", "running", "due"} /\ row.autoFor \in Dispatches \cup {NoDispatch}
    /\ row.deadline # "none" => row.autoFor = row.owner
    /\ row.owner \notin prior
    /\ archive \subseteq Dispatches /\ asked \subseteq prior \cup {row.owner}
    /\ flight.for \in Dispatches \cup {NoDispatch} /\ stop.for \in Dispatches \cup {NoDispatch}
    /\ closed \in Dispatches \cup {NoDispatch}

(* A release is cleanup after the work: while one is asked for, under way,  *)
(* unproven or done, the dispatch that owns the terminal has ended, also    *)
(* when a follow-up took the terminal over in the meantime.                 *)
ReleaseFollowsSettlement ==
    row.release \in {"requested", "releasing", "unknown", "released"} => Settled(row.owner)

Closing == flight.at # "closing" /\ flight'.at = "closing"
Killing == process = "live" /\ process' = "ended" /\ (CloseKills \/ StopKills)
Closer == IF flight.at = "closing" THEN flight.for ELSE stop.for

(* When a close begins, its dispatch still owns the terminal, its release   *)
(* is committed with the output archived, and a close by the timer finds    *)
(* the agent neither in a turn nor kept open: whatever happened since the   *)
(* request (a turn, Keep open, a retain, a follow-up) was seen.             *)
CloseIsAdmitted ==
    [][ Closing => /\ row'.owner = flight.for /\ row'.release = "releasing"
                   /\ flight.for \in archive'
                   /\ Automatic(row) => ~turn
                   /\ ~keptOpen ]_vars

(* The process a close or a stop ends is that of the dispatch it is for,    *)
(* never one the user keeps open or a follow-up works in, unless Keep open  *)
(* or a retain came when the close had already begun.                       *)
CloseHitsItsOwn ==
    [][ Killing => raced \/ (row.owner = Closer /\ ~keptOpen) ]_vars

(* What a closed worker wrote stays readable, through failed, unproven and  *)
(* resumed closes; only a late Keep open or retain can lose it.             *)
OutputSurvivesClose == closed # NoDispatch /\ ~raced => closed \in archive

(* The comments of worker-terminal-archive.ts:176 (retain preserves a       *)
(* committed release and its archive) and worker-terminal-user-keep.ts:47   *)
(* (Keep open wins up to the close's admission), without exception.         *)
ClosedOutputIsKept == closed # NoDispatch => closed \in archive

(* A countdown of a resting agent does not stand still, and a release that  *)
(* was asked for ends (released, retained, deferred or unknown), except for *)
(* a process that died before its output was archived.                      *)
ReleasesEnd ==
    /\ (Armed /\ OwnerReleasable /\ row.deadline # "none" /\ ~turn)
         ~> ~(Armed /\ row.deadline # "none" /\ ~turn)
    /\ InRelease(row) ~> (~InRelease(row) \/ (process # "live" /\ row.owner \notin archive))
=============================================================================
