--------------------------- MODULE FederationRelay ---------------------------
(***************************************************************************)
(* One dispatch that runs on another machine: the worker's reports travel  *)
(* from the execution host to the Run home.  The host queues them in       *)
(* federation_relay_items; the home pulls them page by page, imports each  *)
(* one in a transaction of its own, settles the worker's verdict and then  *)
(* acknowledges, telling a protocol-3 host how it settled each report.     *)
(*                                                                         *)
(* Home and host are two processes with a database each.  The home awaits  *)
(* the capability probe, the pull and the acknowledgment, so those are     *)
(* separate actions; a restart of either side may fall between any two.    *)
(* An acknowledgment travels as a durable mutation: the host keeps a       *)
(* receipt per request id and refuses an id reused with other input.       *)
(*                                                                         *)
(* Left out: the to_worker direction, message bodies, the byte quota (the  *)
(* count quota stands for both), the start handshake, concurrent syncs of  *)
(* other dispatches with the same host, eviction of receipts after 30 days.*)
(***************************************************************************)
EXTENDS Integers, FiniteSets, Sequences

CONSTANTS
    Protocols,   \* federation protocol versions a dispatch may be pinned to
    Capable,     \* host epochs that advertise lifecycle settlement
    Capacity,    \* unacknowledged items per direction (256 in the code)
    PageSize,    \* FEDERATION_PULL_PAGE_SIZE (50 in the code)
    MaxPages,    \* MAX_FEDERATION_PULL_PAGES_PER_SYNC (6 in the code)
    Stops,       \* whether the coordinator may stop the worker
    Misnamed,    \* outcomes reported without naming the home's task
    Losses,      \* what the connection may do to an acknowledgment
    MaxItems,    \* bound: items the worker's host ever queues
    MaxEpoch,    \* bound: host processes, numbered from 1
    MaxRestarts, \* bound: restarts of the home
    MaxLosses    \* bound: acknowledgments lost or delayed

Outcome == {"succeeded", "failed"}
Settleable == {"ready", "stop_unknown"}      \* SETTLEABLE_WORKER_STATES
HomeUnsettled == {"ready", "stopping", "stop_unknown"}
WorkerState == HomeUnsettled \cup {"stopped"} \cup Outcome
HomeState == WorkerState \cup {"abandoned"}
Epoch == 1..MaxEpoch
SettlementProtocol == 3

ASSUME ProtocolAssumption == Protocols \subseteq {2, 3} /\ Protocols # {}
ASSUME CapableAssumption == Capable \subseteq Epoch
ASSUME QuotaAssumption == {Capacity, PageSize, MaxPages} \subseteq Nat \ {0}
ASSUME StopsAssumption == Stops \in BOOLEAN
ASSUME MisnamedAssumption == Misnamed \subseteq Outcome
ASSUME LossesAssumption == Losses \subseteq {"request", "late", "answer"}
ASSUME BoundsAssumption == /\ {MaxItems, MaxRestarts, MaxLosses} \subseteq Nat
                           /\ MaxEpoch \in Nat \ {0}

VARIABLES
    protocol,     \* protocol_version both sides pinned when the worker started
    \* the execution host
    log,          \* federation_relay_items, to_home, in sequence order
    attach,       \* remote_dispatch_attachments.state
    receipts,     \* mutation_receipts of acknowledgments, by request id
    hostEpoch,    \* the running host process's runtime id
    \* the Run home
    home,         \* worker_dispatches.state of the dispatch
    agreed,       \* whether the task's status is the one its dispatch ended with
    inbox,        \* messages of the dispatch, in the order they were stored
    imported,     \* to_home_imported_sequence
    acknowledged, \* to_home_acknowledged_sequence
    seenEpoch,    \* remote_runtime_epoch
    checkpoint,   \* in-memory acknowledgment checkpoint
    known,        \* host epoch whose capabilities are cached in memory, 0 if none
    sync,         \* the one sync in flight for the dispatch
    \* between them
    net,          \* acknowledgment requests on their way to the host
    answer,       \* the host's answer on its way to the sync that awaits it
    stopCall,     \* the home's federationStop call and the host's word on it
    losses, restarts

hostVars == <<log, attach, receipts, hostEpoch>>
rowVars == <<imported, acknowledged, seenEpoch>>
homeVars == <<home, agreed, inbox, rowVars, checkpoint, known, sync>>
wireVars == <<net, answer, stopCall>>
boundVars == <<losses, restarts>>
vars == <<protocol, hostVars, homeVars, wireVars, boundVars>>

Settles == protocol >= SettlementProtocol

-----------------------------------------------------------------------------
(* The rows of both databases. *)

(* A slot of the log keeps its sequence for good; a worker_done that takes  *)
(* over a heartbeat's slot brings a message id of its own.                  *)
ItemIds == 1..(2 * MaxItems)
Item(id, kind, outcome, named) ==
    [id |-> id, kind |-> kind, outcome |-> outcome, named |-> named, acked |-> FALSE]
Items == [id : ItemIds, kind : {"status", "heartbeat", "worker_done"},
          outcome : Outcome \cup {"none"}, named : BOOLEAN, acked : BOOLEAN]
PageItem == [seq : 1..MaxItems, item : Items]
Settlement == [seq : 1..MaxItems, action : Outcome \cup {"rejected"}]
AckInput == [through : 0..MaxItems, settlements : SUBSET Settlement]
NoReceipt == [state |-> "none"]

Idle == [phase |-> "idle", pages |-> 0, capEpoch |-> 0, pageEpoch |-> 0, page |-> <<>>,
         full |-> FALSE, cursor |-> 0, settlements |-> {}, barrier |-> 0]
NoCheckpoint == [epoch |-> 0, through |-> 0]

TypeOK ==
    /\ protocol \in Protocols
    /\ log \in Seq(Items) /\ Len(log) <= MaxItems
    /\ attach \in WorkerState
    /\ DOMAIN receipts = 1..MaxItems
    /\ \A r \in 1..MaxItems :
          \/ receipts[r] = NoReceipt
          \/ receipts[r] \in [state : {"pending", "completed"}, input : AckInput]
    /\ hostEpoch \in Epoch
    /\ home \in HomeState
    /\ agreed \in BOOLEAN
    /\ inbox \in Seq(ItemIds)
    /\ imported \in 0..MaxItems /\ acknowledged \in 0..MaxItems
    /\ seenEpoch \in Epoch
    /\ checkpoint \in [epoch : 0..MaxEpoch, through : 0..MaxItems]
    /\ known \in 0..MaxEpoch
    /\ sync \in [phase : {"idle", "more", "resolved", "importing", "acking"},
                 pages : 0..MaxPages, capEpoch : 0..MaxEpoch, pageEpoch : 0..MaxEpoch,
                 page : Seq(PageItem), full : BOOLEAN, cursor : 0..MaxItems,
                 settlements : SUBSET Settlement, barrier : 0..MaxItems]
    /\ net \subseteq [id : 1..MaxItems, input : AckInput, awaited : BOOLEAN]
    /\ sync.phase = "idle" \/ sync.pages > 0
    /\ answer \in {"none", "accepted", "refused"}
    /\ stopCall \in {"none", "asked", "served", "stopped", "settled", "unknown"}
    /\ losses \in 0..MaxLosses /\ restarts \in 0..MaxRestarts

Init ==
    /\ protocol \in Protocols
    /\ log = <<>> /\ attach = "ready"
    /\ receipts = [r \in 1..MaxItems |-> NoReceipt]
    /\ hostEpoch = 1
    /\ home = "ready" /\ agreed = FALSE /\ inbox = <<>>
    /\ imported = 0 /\ acknowledged = 0 /\ seenEpoch = 1
    /\ checkpoint = NoCheckpoint /\ known = 0 /\ sync = Idle
    /\ net = {} /\ answer = "none" /\ stopCall = "none"
    /\ losses = 0 /\ restarts = 0

-----------------------------------------------------------------------------
(* The host: queueing what the worker sends. *)

Pending == {i \in DOMAIN log : ~log[i].acked}
PendingOf(kind) == {i \in Pending : log[i].kind = kind}
Full == Cardinality(Pending) >= Capacity

(* Only an attachment that may be alive routes to the home, and a stop in   *)
(* flight mutes its worker.                                                 *)
CanReport == attach \in Settleable

Queue(kind, outcome, named) ==
    /\ ~Full /\ Len(log) < MaxItems
    /\ log' = Append(log, Item(Len(log) + 1, kind, outcome, named))

SendStatus ==
    /\ CanReport
    /\ Queue("status", "none", FALSE)
    /\ UNCHANGED <<protocol, attach, receipts, hostEpoch, homeVars, wireVars, boundVars>>

(* A heartbeat still unacknowledged is only refreshed, which no property    *)
(* tells apart from doing nothing.                                          *)
SendHeartbeat ==
    /\ CanReport
    /\ PendingOf("heartbeat") = {}
    /\ Queue("heartbeat", "none", FALSE)
    /\ UNCHANGED <<protocol, attach, receipts, hostEpoch, homeVars, wireVars, boundVars>>

(* The oldest unacknowledged heartbeat gives its slot to the verdict.       *)
TakeHeartbeatSlot(outcome, named) ==
    /\ Full
    /\ \E i \in PendingOf("heartbeat") :
          /\ \A j \in PendingOf("heartbeat") : i <= j
          /\ log' = [log EXCEPT ![i] = Item(MaxItems + i, "worker_done", outcome, named)]

SettlesAtQueue(outcome) == outcome     \* mutant: settled before the home has spoken
AttachAfterQueue(outcome) == IF Settles THEN attach ELSE outcome

(* An identical unacknowledged report is not queued again; below protocol 3 *)
(* the attachment is settled then and there.  A report that does not name   *)
(* the home's task is queued like any other.                                *)
SendWorkerDone(outcome, named) ==
    /\ CanReport
    /\ Queue("worker_done", outcome, named) \/ TakeHeartbeatSlot(outcome, named)
    /\ attach' = AttachAfterQueue(outcome)
    /\ UNCHANGED <<protocol, receipts, hostEpoch, homeVars, wireVars, boundVars>>

-----------------------------------------------------------------------------
(* The home: one sync, page by page. *)

Eligible == home \in HomeUnsettled \/ acknowledged < imported

Supported == Settles /\ sync.capEpoch \in Capable
Replays == Supported \/ (Settles /\ acknowledged < imported)

(* The page was answered by the very process whose capability is known.     *)
Confirmed == Supported /\ sync.capEpoch = sync.pageEpoch

(* A sync that ends leaves the checkpoint behind only while the relay runs. *)
SyncEnds ==
    /\ sync' = Idle
    /\ checkpoint' = IF home' \in HomeUnsettled \/ acknowledged' < imported'
                     THEN checkpoint ELSE NoCheckpoint

(* The capability comes from the cache or from a probe of the host; a       *)
(* negative cached answer expires.                                          *)
ResolveCapability ==
    /\ \/ sync.phase = "idle" /\ Eligible
       \/ sync.phase = "more"
    /\ \E epoch \in IF known = 0 THEN {hostEpoch}
                    ELSE IF known \in Capable THEN {known} ELSE {known, hostEpoch} :
          /\ sync' = [Idle EXCEPT !.phase = "resolved",
                                  !.pages = IF sync.phase = "idle" THEN MaxPages ELSE sync.pages,
                                  !.capEpoch = IF Settles THEN epoch ELSE 0]
          /\ known' = IF Settles THEN epoch ELSE known
    /\ UNCHANGED <<protocol, hostVars, home, agreed, inbox, rowVars, checkpoint, wireVars, boundVars>>

(* The sequences the host answers with: the first PageSize that are not     *)
(* acknowledged, or that lie beyond what the home has imported.             *)
Wanted == IF Replays THEN Pending ELSE {i \in DOMAIN log : i > imported}
PageLength == IF Cardinality(Wanted) < PageSize THEN Cardinality(Wanted) ELSE PageSize
IsPulled(seqs) == \A n \in 1..PageLength : Cardinality({i \in Wanted : i <= seqs[n]}) = n

PulledItem(i) == [seq |-> i, item |-> [log[i] EXCEPT !.acked = FALSE]]

(* One page answers: exactly one enumeration of those sequences is in order. *)
PullPage ==
    /\ sync.phase = "resolved"
    /\ \E seqs \in [1..PageLength -> Wanted] :
          /\ IsPulled(seqs)
          /\ sync' = [sync EXCEPT
                 !.phase = "importing", !.pageEpoch = hostEpoch,
                 !.page = [n \in 1..PageLength |-> PulledItem(seqs[n])],
                 !.full = PageLength = PageSize,
                 !.cursor = IF Replays /\ PageLength > 0 THEN seqs[1] - 1 ELSE imported]
    /\ UNCHANGED <<protocol, hostVars, home, agreed, inbox, rowVars, checkpoint, known, wireVars, boundVars>>

(* dispatch_contexts.status: the dispatch of a worker that was stopped or   *)
(* abandoned has failed.                                                    *)
Ended ==
    CASE home \in HomeUnsettled -> "open"
      [] home = "succeeded" -> "succeeded"
      [] OTHER -> "failed"

(* How the home settles a report: a worker it no longer waits for is        *)
(* refused, except for a repetition of the verdict that both its dispatch   *)
(* and the task still hold.                                                 *)
SettleRepeats(item) == item.named /\ home \in HomeUnsettled \* mutant: no repeated verdict
Accepts(item) ==
    /\ item.named
    /\ \/ home \in Settleable
       \/ Ended = item.outcome /\ agreed
Verdict(item) == IF Accepts(item) THEN item.outcome ELSE "rejected"

(* An item already imported must have left its message; a new one must be   *)
(* the next.                                                                *)
Stored(item) == \E n \in DOMAIN inbox : inbox[n] = item.id
FitsBySequence(next) ==                  \* mutant: a slot's message may change
    /\ next.seq = sync.cursor + 1
    /\ next.seq > imported => next.seq = imported + 1
FitsNewOnly(next) == next.seq = imported + 1     \* mutant: replays are refused
Fits(next) ==
    /\ next.seq = sync.cursor + 1
    /\ IF next.seq <= imported THEN Stored(next.item) ELSE next.seq = imported + 1

(* importFederatedRelayItem: message, verdict and cursor in one transaction. *)
ImportItem ==
    /\ sync.phase = "importing" /\ sync.page # <<>>
    /\ LET next == Head(sync.page)
           item == next.item
           report == item.kind = "worker_done"
           settles == report /\ Accepts(item) /\ home \in Settleable
       IN  /\ Fits(next)
           /\ inbox' = IF Stored(item) THEN inbox ELSE Append(inbox, item.id)
           /\ imported' = IF next.seq > imported THEN next.seq ELSE imported
           /\ home' = IF settles THEN item.outcome ELSE home
           /\ agreed' = (agreed \/ settles)
           /\ sync' = [sync EXCEPT
                  !.page = Tail(@),
                  !.cursor = next.seq,
                  !.settlements = IF report /\ Confirmed
                                  THEN @ \cup {[seq |-> next.seq, action |-> Verdict(item)]}
                                  ELSE @,
                  !.barrier = IF report /\ Settles /\ ~Confirmed /\ @ = 0 THEN next.seq ELSE @]
    /\ UNCHANGED <<protocol, hostVars, acknowledged, seenEpoch, checkpoint, known, wireVars, boundVars>>

(* A page that does not continue what the home holds ends the sync.         *)
RefusePage ==
    /\ sync.phase = "importing" /\ sync.page # <<>>
    /\ ~Fits(Head(sync.page))
    /\ UNCHANGED <<home, agreed, inbox, rowVars>>
    /\ SyncEnds
    /\ UNCHANGED <<protocol, hostVars, known, wireVars, boundVars>>

(* A report the home may not settle for the host holds the acknowledgment   *)
(* back.                                                                    *)
AckCursor == IF sync.barrier > 0 THEN sync.barrier - 1 ELSE sync.cursor

(* What the home knows this host process to have acknowledged.              *)
AckedThrough ==
    LET remembered == IF checkpoint.epoch = sync.pageEpoch THEN checkpoint.through ELSE 0
        durable == IF seenEpoch = sync.pageEpoch THEN acknowledged ELSE 0
    IN  IF remembered > durable THEN remembered ELSE durable

MustAcknowledge == AckCursor > AckedThrough
RequestId == sync.cursor

SendAck ==
    /\ sync.phase = "importing" /\ sync.page = <<>>
    /\ MustAcknowledge
    /\ net' = net \cup {[id |-> RequestId, awaited |-> TRUE,
                         input |-> [through |-> AckCursor, settlements |-> sync.settlements]]}
    /\ sync' = [sync EXCEPT !.phase = "acking"]
    /\ UNCHANGED <<protocol, hostVars, home, agreed, inbox, rowVars, checkpoint, known, answer, stopCall,
                   boundVars>>

(* What follows a page whose acknowledgment is done with.                   *)
PageEnds ==
    /\ seenEpoch' = sync.pageEpoch
    /\ known' = IF known = sync.pageEpoch THEN known ELSE 0

NextPageUnbudgeted == sync.full /\ sync.barrier = 0   \* mutant: the page budget is ignored
NextPage == sync.full /\ sync.pages > 1 /\ sync.barrier = 0

SkipAck ==
    /\ sync.phase = "importing" /\ sync.page = <<>>
    /\ ~MustAcknowledge
    /\ PageEnds
    /\ UNCHANGED <<home, agreed, inbox, imported, acknowledged>>
    /\ IF NextPage
       THEN /\ sync' = [Idle EXCEPT !.phase = "more", !.pages = sync.pages - 1]
            /\ UNCHANGED checkpoint
       ELSE SyncEnds
    /\ UNCHANGED <<protocol, hostVars, wireVars, boundVars>>

(* A sync that gives up with a full page in hand keeps its dispatch one     *)
(* item short, so that the relay stays eligible.                            *)
RecordsCursor == sync.cursor             \* mutant: the barrier is forgotten
Recorded == IF sync.full /\ sync.pages = 1 THEN AckCursor - 1 ELSE AckCursor

HearAck ==
    /\ sync.phase = "acking" /\ answer = "accepted"
    /\ answer' = "none"
    /\ acknowledged' = IF seenEpoch = sync.pageEpoch /\ acknowledged > Recorded
                       THEN acknowledged ELSE Recorded
    /\ PageEnds
    /\ UNCHANGED <<home, agreed, inbox, imported>>
    /\ LET remembered == IF checkpoint.epoch = sync.pageEpoch /\ checkpoint.through >= Recorded
                         THEN checkpoint
                         ELSE [epoch |-> sync.pageEpoch, through |-> Recorded]
       IN  IF NextPage
           THEN /\ sync' = [Idle EXCEPT !.phase = "more", !.pages = sync.pages - 1]
                /\ checkpoint' = remembered
           ELSE /\ sync' = Idle
                /\ checkpoint' = IF home \in HomeUnsettled \/ acknowledged' < imported
                                 THEN remembered ELSE NoCheckpoint
    /\ UNCHANGED <<protocol, hostVars, net, stopCall, boundVars>>

HearRefusal ==
    /\ sync.phase = "acking" /\ answer = "refused"
    /\ answer' = "none"
    /\ UNCHANGED <<home, agreed, inbox, rowVars>>
    /\ SyncEnds
    /\ UNCHANGED <<protocol, hostVars, known, net, stopCall, boundVars>>

-----------------------------------------------------------------------------
(* The host: acknowledgments. *)

Terminal(input) == {s.action : s \in input.settlements} \cap Outcome

(* Settlements speak of reports in the log, all reports acknowledged are    *)
(* settled, and at most one verdict ends the attachment.                    *)
SettlementsMatch(input) ==
    \A s \in input.settlements :
        /\ s.seq <= input.through
        /\ s.seq \in DOMAIN log /\ log[s.seq].kind = "worker_done"
        /\ s.action \in Outcome => s.action = log[s.seq].outcome
NoReportOverlooked(input) == TRUE        \* mutant: the omission check dropped
ReportsSettled(input) ==
    Settles => \A i \in PendingOf("worker_done") :
                  i <= input.through => \E s \in input.settlements : s.seq = i

Acceptable(input) ==
    /\ SettlementsMatch(input)
    /\ ReportsSettled(input)
    /\ Cardinality(Terminal(input)) <= 1
    /\ Terminal(input) # {} => attach \in Settleable \cup Terminal(input)

Acknowledge(input) ==
    /\ log' = [i \in DOMAIN log |-> IF i <= input.through THEN [log[i] EXCEPT !.acked = TRUE]
                                                           ELSE log[i]]
    /\ attach' = IF Terminal(input) = {} THEN attach ELSE CHOOSE o \in Terminal(input) : TRUE

Receipt(request, state) ==
    receipts' = [receipts EXCEPT ![request.id] = [state |-> state, input |-> request.input]]

(* A request id stands for one input for good; a completed one is replayed, *)
(* one that a restart caught half way is never taken up again.              *)
Fresh(request) == receipts[request.id] = NoReceipt
Replayable(request) == receipts[request.id] = [state |-> "completed", input |-> request.input]

Deliver(request, verdict) ==
    /\ net' = net \ {request}
    /\ answer' = IF request.awaited THEN verdict ELSE answer

ApplyAck(request) ==
    /\ request \in net
    /\ Fresh(request) /\ Acceptable(request.input)
    /\ Acknowledge(request.input)
    /\ Receipt(request, "completed")
    /\ Deliver(request, "accepted")
    /\ UNCHANGED <<protocol, hostEpoch, homeVars, stopCall, boundVars>>

ReplayAck(request) ==
    /\ request \in net
    /\ Replayable(request)
    /\ Deliver(request, "accepted")
    /\ UNCHANGED <<protocol, hostVars, homeVars, stopCall, boundVars>>

(* A handler that throws leaves no receipt.                                 *)
RefuseAck(request) ==
    /\ request \in net
    /\ ~Replayable(request)
    /\ Fresh(request) => ~Acceptable(request.input)
    /\ Deliver(request, "refused")
    /\ UNCHANGED <<protocol, hostVars, homeVars, stopCall, boundVars>>

-----------------------------------------------------------------------------
(* Stopping the worker from the home. *)

(* A stop whose home process is gone may be asked again.                    *)
BeginStop ==
    /\ Stops
    /\ home = "ready" \/ (home = "stopping" /\ stopCall = "none")
    /\ home' = "stopping"
    /\ stopCall' = "asked"
    /\ UNCHANGED <<protocol, hostVars, agreed, inbox, rowVars, checkpoint, known, sync, net, answer, boundVars>>

(* The home ignores what it no longer waits for, but the host may still act  *)
(* on a call that is under way.                                             *)
Heard(word) == IF home = "stopping" THEN word ELSE "none"
GivenUp == IF stopCall = "asked" THEN "asked" ELSE "none"

HostBeginsStop ==
    /\ stopCall = "asked"
    /\ attach' = IF attach = "ready" THEN "stopping" ELSE attach
    /\ stopCall' = Heard(CASE attach = "ready" -> "served"
                           [] attach = "stopped" -> "stopped"
                           [] attach \in Outcome -> "settled"
                           [] OTHER -> "unknown")
    /\ UNCHANGED <<protocol, log, receipts, hostEpoch, homeVars, net, answer, boundVars>>

HostEndsStop ==
    /\ attach = "stopping"
    /\ \E answered \in {"stopped", "unknown"} :
          /\ attach' = IF answered = "stopped" THEN "stopped" ELSE "stop_unknown"
          /\ stopCall' = IF stopCall = "served" THEN answered ELSE stopCall
    /\ UNCHANGED <<protocol, log, receipts, hostEpoch, homeVars, net, answer, boundVars>>

(* The host's word: a worker it stopped is stopped, one that had settled    *)
(* lets its report arrive, anything else leaves the outcome unknown.        *)
HearStop ==
    /\ home = "stopping" /\ stopCall \in {"stopped", "settled", "unknown"}
    /\ home' = CASE stopCall = "stopped" -> "stopped"
                 [] stopCall = "settled" -> "ready"
                 [] OTHER -> "stop_unknown"
    /\ stopCall' = "none"
    /\ UNCHANGED <<protocol, hostVars, agreed, inbox, rowVars, checkpoint, known, sync, net, answer, boundVars>>

(* The call fails or times out.                                             *)
StopCallFails ==
    /\ home = "stopping" /\ stopCall # "none"
    /\ home' = "stop_unknown"
    /\ stopCall' = GivenUp
    /\ UNCHANGED <<protocol, hostVars, agreed, inbox, rowVars, checkpoint, known, sync, net, answer, boundVars>>

(* worker-show reads the attachment of a stopped worker.                    *)
ObserveStopped ==
    /\ home \in {"stopping", "stop_unknown"} /\ attach = "stopped"
    /\ home' = "stopped"
    /\ stopCall' = GivenUp
    /\ UNCHANGED <<protocol, hostVars, agreed, inbox, rowVars, checkpoint, known, sync, net, answer, boundVars>>

-----------------------------------------------------------------------------
(* What else happens to the attempt and its task at the home. *)

(* worker-abandon ends the attempt without a word to the host; only a stop  *)
(* that this home process has in flight is waited for.                      *)
Abandon ==
    /\ home \in Settleable \/ (home = "stopping" /\ stopCall = "none")
    /\ home' = "abandoned"
    /\ UNCHANGED <<protocol, hostVars, agreed, inbox, rowVars, checkpoint, known, sync, wireVars,
                   boundVars>>

(* A task whose worker has ended is the coordinator's to update or to try   *)
(* again, which leaves or brings about the status its dispatch ended with;  *)
(* while a supervised worker lives, updates and gates are refused.          *)
TaskMovesOn ==
    /\ home \notin HomeUnsettled
    /\ agreed' = ~agreed
    /\ UNCHANGED <<protocol, hostVars, home, inbox, rowVars, checkpoint, known, sync, wireVars,
                   boundVars>>

-----------------------------------------------------------------------------
(* What goes wrong. *)

Orphaned(requests) == {[r EXCEPT !.awaited = FALSE] : r \in requests}

(* The home gives an acknowledgment up: the request is lost, is still under *)
(* way, or its answer is lost.                                              *)
LoseAck ==
    /\ sync.phase = "acking" /\ losses < MaxLosses
    /\ losses' = losses + 1
    /\ \/ "request" \in Losses /\ answer = "none" /\ net' = {r \in net : ~r.awaited}
       \/ "late" \in Losses /\ answer = "none" /\ net' = Orphaned(net)
       \/ "answer" \in Losses /\ answer # "none" /\ net' = net
    /\ answer' = "none"
    /\ UNCHANGED <<home, agreed, inbox, rowVars>>
    /\ SyncEnds
    /\ UNCHANGED <<protocol, hostVars, known, stopCall, restarts>>

RestartHome ==
    /\ restarts < MaxRestarts
    /\ restarts' = restarts + 1
    /\ sync' = Idle /\ checkpoint' = NoCheckpoint /\ known' = 0
    /\ net' = Orphaned(net) /\ answer' = "none" /\ stopCall' = "none"
    /\ UNCHANGED <<protocol, hostVars, home, agreed, inbox, rowVars, losses>>

(* A restart in the middle of an acknowledgment leaves its receipt pending, *)
(* with the acknowledgment committed or not.                                *)
RestartHost ==
    /\ hostEpoch < MaxEpoch
    /\ hostEpoch' = hostEpoch + 1
    /\ \/ UNCHANGED <<log, attach, receipts>>
       \/ \E request \in net :
             /\ Fresh(request)
             /\ Receipt(request, "pending")
             /\ \/ UNCHANGED <<log, attach>>
                \/ Acceptable(request.input) /\ Acknowledge(request.input)
    /\ net' = {}
    /\ answer' = IF sync.phase = "acking" /\ answer = "none" THEN "refused" ELSE answer
    /\ stopCall' = IF stopCall \in {"asked", "served"} THEN Heard("unknown") ELSE stopCall
    /\ UNCHANGED <<protocol, homeVars, boundVars>>

-----------------------------------------------------------------------------
WorkerSends ==
    \/ SendStatus
    \/ SendHeartbeat
    \/ \E outcome \in Outcome : SendWorkerDone(outcome, TRUE)
    \/ \E outcome \in Misnamed : SendWorkerDone(outcome, FALSE)
HomeSyncs ==
    \/ ResolveCapability \/ PullPage \/ ImportItem \/ RefusePage
    \/ SendAck \/ SkipAck \/ HearAck \/ HearRefusal
HostAnswers == \E request \in net : ApplyAck(request) \/ ReplayAck(request) \/ RefuseAck(request)
StopWorker ==
    \/ BeginStop \/ HostBeginsStop \/ HostEndsStop
    \/ HearStop \/ StopCallFails \/ ObserveStopped
MoveOn == Abandon \/ TaskMovesOn
Next ==
    \/ WorkerSends \/ HomeSyncs \/ HostAnswers \/ StopWorker \/ MoveOn
    \/ LoseAck \/ RestartHome \/ RestartHost

Spec == Init /\ [][Next]_vars

(* The relay timer ticks every second while the dispatch is eligible, and   *)
(* both processes run what they have begun.                                 *)
FairSpec == Spec /\ WF_vars(HomeSyncs) /\ WF_vars(HostAnswers)

-----------------------------------------------------------------------------
(* Properties. *)

(* Under protocol 3 the host drops from its queue only what the home holds: *)
(* an item acknowledged, whatever took its slot over in the meantime, is a  *)
(* message of the dispatch (federation-relay-ack.ts: "omits a worker_done   *)
(* settlement").                                                            *)
AckedItemsReachedHome ==
    Settles => \A i \in DOMAIN log : log[i].acked => Stored(log[i])

(* The home's cursor never runs ahead of the host: what it believes to be   *)
(* acknowledged is, across lost answers, refusals, restarts and barriers,   *)
(* so the relay is not put to rest with a report still unsettled.           *)
RecordedIsAcked == \A i \in 1..acknowledged : i \in DOMAIN log /\ log[i].acked

(* The home stores every item once and in order, however often a page is    *)
(* replayed: message n is the one queued in slot n.                         *)
InboxFollowsLog ==
    /\ Len(inbox) = imported /\ imported <= Len(log)
    /\ \A n \in DOMAIN inbox : inbox[n] \in {n, MaxItems + n}

(* What both sides promise each other, in terms of counts and verdicts.     *)
Told(state) == IF state \in Outcome THEN state ELSE "open"
Delivery == INSTANCE ReportDelivery WITH
    queued <- Len(log),
    delivered <- imported,
    confirmed <- Cardinality(DOMAIN log \ Pending),
    verdict <- Ended,
    told <- IF Settles THEN Told(attach) ELSE "open"

(* The relay implements in-order delivery with late confirmation: the host  *)
(* confirms nothing the home has not imported, and a protocol-3 host ends   *)
(* its attachment with the verdict the home has reached, never before and   *)
(* never with another one, whoever ended the attempt at the home.           *)
DeliversInOrder == Delivery!Spec

(* Whatever the worker queues reaches a home that still waits for it.       *)
ItemsArrive ==
    \A i \in 1..MaxItems :
        (i <= Len(log)) ~> (i <= imported \/ home \notin HomeUnsettled)

(* The verdict of a report the home has settled reaches the host, through   *)
(* lost, delayed and unanswered acknowledgments and restarts of the home,   *)
(* as long as the task keeps it.  A report repeated after its task was      *)
(* updated or tried again is refused, and nothing tells the host of an      *)
(* abandoned worker.                                                        *)
TaskKeepsVerdict == home \in Outcome => agreed
HostLearnsVerdict ==
    []TaskKeepsVerdict => ((Settles /\ home \in Outcome) ~> (attach = home))

(* federation.test.ts: "retries a lost relay acknowledgment without         *)
(* duplicating the home message": what is imported ends up recorded as      *)
(* acknowledged.                                                            *)
LostAckIsRetried ==
    \A i \in 1..MaxItems : (i <= imported) ~> (i <= acknowledged)

=============================================================================
