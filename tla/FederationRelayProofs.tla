------------------------ MODULE FederationRelayProofs ------------------------
(***************************************************************************)
(* Proofs about the relay of one federated dispatch: types, that the inbox *)
(* of the home follows the log of the host, that what the home takes for   *)
(* acknowledged is, that nothing leaves the host's queue unheard, and that *)
(* the relay implements in-order delivery with late confirmation.  The     *)
(* invariant says what a page, a settlement, an acknowledgment under way   *)
(* and a receipt may still rely on, however long they were delayed: the    *)
(* slot they speak of, not the message that was in it.                     *)
(***************************************************************************)
EXTENDS FederationRelay, FiniteSetTheorems, TLAPS

(* The values of the variables, side by side. *)
HostShape ==
    /\ protocol \in Protocols
    /\ log \in Seq(Items) /\ Len(log) <= MaxItems
    /\ attach \in WorkerState
    /\ DOMAIN receipts = 1..MaxItems
    /\ \A r \in 1..MaxItems :
          \/ receipts[r] = NoReceipt
          \/ receipts[r] \in [state : {"pending", "completed"}, input : AckInput]
    /\ hostEpoch \in Epoch

HomeShape ==
    /\ home \in HomeState
    /\ agreed \in BOOLEAN
    /\ inbox \in Seq(ItemIds)
    /\ imported \in 0..MaxItems /\ acknowledged \in 0..MaxItems
    /\ seenEpoch \in Epoch
    /\ checkpoint \in [epoch : 0..MaxEpoch, through : 0..MaxItems]
    /\ known \in 0..MaxEpoch

SyncShape ==
    /\ sync \in [phase : {"idle", "more", "resolved", "importing", "acking"},
                 pages : 0..MaxPages, capEpoch : 0..MaxEpoch, pageEpoch : 0..MaxEpoch,
                 page : Seq(PageItem), full : BOOLEAN, cursor : 0..MaxItems,
                 settlements : SUBSET Settlement, barrier : 0..MaxItems]
    /\ sync.phase = "idle" \/ sync.pages > 0

WireShape ==
    /\ net \subseteq [id : 1..MaxItems, input : AckInput, awaited : BOOLEAN]
    /\ answer \in {"none", "accepted", "refused"}
    /\ stopCall \in {"none", "asked", "served", "stopped", "settled", "unknown"}
    /\ losses \in 0..MaxLosses /\ restarts \in 0..MaxRestarts

(* A slot holds the message queued in it or the report that took it over,   *)
(* and only a report ever does that.                                        *)
SlotsAreTheirOwn ==
    \A i \in DOMAIN log :
        /\ log[i].id \in {i, MaxItems + i}
        /\ log[i].kind # "worker_done" => log[i].id = i
        /\ log[i].kind = "worker_done" => log[i].outcome \in Outcome

(* What the home holds of a slot is the message in it, unless a report has  *)
(* taken over a heartbeat since.                                            *)
InboxIsOfTheLog ==
    \A n \in DOMAIN inbox : inbox[n] = log[n].id \/ (inbox[n] = n /\ log[n].kind = "worker_done")

(* A page shows every slot as it was, and a report for good.                *)
OfTheLog(entry) ==
    /\ entry.seq \in DOMAIN log
    /\ entry.item.id = log[entry.seq].id
          \/ (entry.item.id = entry.seq /\ log[entry.seq].kind = "worker_done")
    /\ entry.item.kind = "worker_done" =>
          /\ log[entry.seq].kind = "worker_done" /\ entry.item.id = log[entry.seq].id
          /\ entry.item.outcome \in Outcome

(* A settlement is of a report the home holds, and ends the worker only as  *)
(* its dispatch has ended at the home.                                      *)
OfTheInbox(settlement) ==
    /\ settlement.seq <= imported
    /\ log[settlement.seq].kind = "worker_done"
    /\ inbox[settlement.seq] = log[settlement.seq].id
    /\ settlement.action \in Outcome => Ended = settlement.action

(* The sync in flight has imported what its cursor and its barrier cover.   *)
SyncHolds ==
    /\ \A n \in DOMAIN sync.page : OfTheLog(sync.page[n])
    /\ sync.page = <<>> => sync.cursor <= imported
    /\ sync.barrier <= imported /\ sync.barrier <= sync.cursor
    /\ sync.phase = "resolved" => sync.barrier = 0
    /\ \A s \in sync.settlements : OfTheInbox(s)
    /\ sync.phase \in {"importing", "acking"} => sync.pageEpoch \in Epoch
    /\ sync.phase = "acking" => sync.page = <<>> /\ AckCursor > 0

(* A request speaks of what the home held when it was sent; the one that is *)
(* awaited is the request of the sync in flight, and nobody has answered it. *)
Sound(input) ==
    /\ input.through <= imported
    /\ \A s \in input.settlements : OfTheInbox(s)

Asking == [id |-> RequestId, awaited |-> TRUE,
           input |-> [through |-> AckCursor, settlements |-> sync.settlements]]

WireHolds ==
    /\ \A r \in net : Sound(r.input)
    /\ \A r \in net : r.awaited => sync.phase = "acking" /\ answer = "none" /\ r = Asking
    /\ answer # "none" => sync.phase = "acking"

(* The host has confirmed a part of what the home imported; an answer, a    *)
(* receipt and the home's own cursor say so truly.                          *)
AckedUpTo(through) == \A i \in 1..through : i \in DOMAIN log /\ log[i].acked
HostConfirmed ==
    /\ \A i \in DOMAIN log : log[i].acked => i <= imported
    /\ \A r \in 1..MaxItems :
          receipts[r] # NoReceipt /\ receipts[r].state = "completed" =>
              AckedUpTo(receipts[r].input.through)
    /\ answer = "accepted" => AckedUpTo(AckCursor)

(* A protocol-3 host ends its attachment only as the home its dispatch. *)
HostFollowsHome == Settles /\ attach \in Outcome => Ended = attach

Relayed ==
    /\ SlotsAreTheirOwn /\ InboxFollowsLog /\ InboxIsOfTheLog
    /\ SyncHolds /\ WireHolds /\ HostConfirmed /\ RecordedIsAcked
    /\ AckedItemsReachedHome /\ HostFollowsHome

Inv ==
    /\ HostShape /\ HomeShape /\ SyncShape /\ WireShape
    /\ Relayed


-----------------------------------------------------------------------------
(* Constants and sets. *)

LEMMA Limits ==
    /\ MaxItems \in Nat /\ MaxPages \in Nat \ {0} /\ PageSize \in Nat \ {0}
    /\ MaxEpoch \in Nat \ {0} /\ MaxRestarts \in Nat /\ MaxLosses \in Nat
BY QuotaAssumption, BoundsAssumption

LEMMA Shaped == TypeOK <=> HostShape /\ HomeShape /\ SyncShape /\ WireShape
BY DEF TypeOK, HostShape, HomeShape, SyncShape, WireShape

(* The dispatch has ended one way or not at all, and not while the worker   *)
(* may still be heard.                                                      *)
LEMMA EndedIs ==
    ASSUME home \in HomeState
    PROVE  /\ Ended \in Outcome \cup {"open"}
           /\ home \in HomeUnsettled <=> Ended = "open"
           /\ Settleable \subseteq HomeUnsettled
           /\ home \in Outcome => Ended = home
BY DEF HomeState, WorkerState, HomeUnsettled, Settleable, Outcome, Ended

LEMMA InitKeeps == Init => Inv
<1> USE Limits
<1> SUFFICES ASSUME Init PROVE Inv
  OBVIOUS
<1>1. HostShape /\ HomeShape
  <2>1. agreed \in BOOLEAN
    BY DEF Init
  <2> QED
    BY <2>1, ProtocolAssumption DEF Init, HostShape, HomeShape, HomeState, WorkerState, HomeUnsettled, Settleable, Epoch, NoCheckpoint
<1>2. SyncShape /\ WireShape
  BY DEF Init, SyncShape, WireShape, Idle
<1>3. SlotsAreTheirOwn /\ InboxFollowsLog /\ InboxIsOfTheLog /\ RecordedIsAcked
  BY DEF Init, SlotsAreTheirOwn, InboxFollowsLog, InboxIsOfTheLog, RecordedIsAcked
<1>4. SyncHolds /\ WireHolds /\ HostConfirmed
  BY DEF Init, SyncHolds, WireHolds, HostConfirmed, Idle, NoReceipt
<1>5. AckedItemsReachedHome /\ HostFollowsHome
  BY DEF Init, AckedItemsReachedHome, HostFollowsHome, Outcome, Ended
<1> QED BY <1>1, <1>2, <1>3, <1>4, <1>5 DEF Inv, Relayed

-----------------------------------------------------------------------------
(* The worker's host queues. *)

(* Queueing adds a slot, or gives a pending heartbeat's slot to a report.   *)
Reporting(item, id) ==
    /\ item.id = id /\ item.kind = "worker_done" /\ item.outcome \in Outcome /\ ~item.acked
Queued(item, i) ==
    /\ item.id = i /\ ~item.acked
    /\ item.kind = "worker_done" => item.outcome \in Outcome
SendStep ==
    /\ log' \in Seq(Items) /\ Len(log') <= MaxItems
    /\ \/ /\ Len(log') = Len(log) + 1
          /\ Queued(log'[Len(log) + 1], Len(log) + 1)
          /\ \A i \in DOMAIN log : log'[i] = log[i]
       \/ /\ Len(log') = Len(log)
          /\ \A i \in DOMAIN log :
                \/ log'[i] = log[i]
                \/ log[i].kind = "heartbeat" /\ ~log[i].acked /\ Reporting(log'[i], MaxItems + i)
    /\ attach' = attach \/ (~Settles /\ attach' \in Outcome)
    /\ UNCHANGED <<protocol, receipts, hostEpoch, homeVars, wireVars, boundVars>>

LEMMA QueueAppends ==
    ASSUME HostShape, NEW kind \in {"status", "heartbeat", "worker_done"},
           NEW outcome \in Outcome \cup {"none"}, NEW named \in BOOLEAN,
           kind = "worker_done" => outcome \in Outcome,
           Queue(kind, outcome, named)
    PROVE  /\ log' \in Seq(Items) /\ Len(log') <= MaxItems
           /\ Len(log') = Len(log) + 1
           /\ Queued(log'[Len(log) + 1], Len(log) + 1)
           /\ \A i \in DOMAIN log : log'[i] = log[i]
<1> DEFINE item == Item(Len(log) + 1, kind, outcome, named)
<1>1. item \in Items /\ Queued(item, Len(log) + 1)
  BY Limits DEF HostShape, Queue, Item, Items, ItemIds, Queued
<1>2. log' = Append(log, item) /\ Len(log) < MaxItems /\ log \in Seq(Items)
  BY DEF HostShape, Queue
<1> HIDE DEF item
<1> QED BY <1>1, <1>2, Limits

LEMMA TakesOver ==
    ASSUME HostShape, NEW outcome \in Outcome, NEW named \in BOOLEAN,
           TakeHeartbeatSlot(outcome, named)
    PROVE  /\ log' \in Seq(Items) /\ Len(log') = Len(log)
           /\ \A i \in DOMAIN log :
                 \/ log'[i] = log[i]
                 \/ log[i].kind = "heartbeat" /\ ~log[i].acked /\ Reporting(log'[i], MaxItems + i)
<1> PICK i \in PendingOf("heartbeat") :
           log' = [log EXCEPT ![i] = Item(MaxItems + i, "worker_done", outcome, named)]
  BY DEF TakeHeartbeatSlot
<1> DEFINE item == Item(MaxItems + i, "worker_done", outcome, named)
<1>1. i \in DOMAIN log /\ ~log[i].acked /\ log[i].kind = "heartbeat" /\ log \in Seq(Items)
  BY DEF PendingOf, Pending, HostShape
<1>2. item \in Items /\ Reporting(item, MaxItems + i)
  BY <1>1, Limits DEF HostShape, Item, Items, ItemIds, Reporting
<1>3. log' = [log EXCEPT ![i] = item]
  OBVIOUS
<1> HIDE DEF item
<1> QED BY <1>1, <1>2, <1>3

LEMMA SendsStep == Inv /\ WorkerSends => SendStep
<1> SUFFICES ASSUME Inv, WorkerSends PROVE SendStep
  OBVIOUS
<1>1. HostShape
  BY DEF Inv
<1>2. CASE SendStatus
  <2>1. Queue("status", "none", FALSE)
    BY <1>2 DEF SendStatus
  <2> QED BY <1>1, <1>2, <2>1, QueueAppends DEF SendStatus, SendStep, hostVars
<1>3. CASE SendHeartbeat
  <2>1. Queue("heartbeat", "none", FALSE)
    BY <1>3 DEF SendHeartbeat
  <2> QED BY <1>1, <1>3, <2>1, QueueAppends DEF SendHeartbeat, SendStep, hostVars
<1>4. ASSUME NEW outcome \in Outcome, NEW named \in BOOLEAN, SendWorkerDone(outcome, named)
      PROVE  SendStep
  <2>1. attach' = attach \/ (~Settles /\ attach' \in Outcome)
    BY <1>4 DEF SendWorkerDone, AttachAfterQueue
  <2>2. CASE Queue("worker_done", outcome, named)
    BY <1>1, <1>4, <2>1, <2>2, QueueAppends DEF SendWorkerDone, SendStep, hostVars
  <2>3. CASE TakeHeartbeatSlot(outcome, named)
    BY <1>1, <1>4, <2>1, <2>3, TakesOver DEF SendWorkerDone, SendStep, hostVars, HostShape
  <2> QED BY <1>4, <2>2, <2>3 DEF SendWorkerDone
<1> QED BY <1>2, <1>3, <1>4, MisnamedAssumption DEF WorkerSends

LEMMA SendingKeeps ==
    ASSUME Inv, SendStep
    PROVE  Inv'
<1> USE Limits
<1>a. \A i \in DOMAIN log :
         /\ i \in DOMAIN log'
         /\ log[i].kind = "worker_done" => log'[i] = log[i]
         /\ log'[i] = log[i] \/ (log[i].id = i /\ log'[i].kind = "worker_done")
  BY DEF Inv, Relayed, SlotsAreTheirOwn, HostShape, SendStep, Reporting
<1>b. imported \in Nat /\ imported <= Len(log) /\ DOMAIN log = 1..Len(log) /\ inbox \in Seq(ItemIds)
      /\ Len(inbox) = imported
  BY DEF Inv, Relayed, HostShape, HomeShape, InboxFollowsLog
<1>c. UNCHANGED <<home, agreed, inbox, imported, sync, net, answer>>
  BY DEF SendStep, homeVars, rowVars, wireVars
<1>d. ASSUME NEW entry, OfTheLog(entry) PROVE OfTheLog(entry)'
  BY <1>a, <1>d DEF OfTheLog
<1>e. ASSUME NEW s \in Settlement, OfTheInbox(s) PROVE OfTheInbox(s)'
  <2>1. s.seq \in DOMAIN log
    BY <1>b, <1>e DEF OfTheInbox, Settlement, Ended
  <2> QED BY <1>a, <1>c, <1>e, <2>1 DEF OfTheInbox, Ended
<1>1. HostShape'
  BY DEF Inv, Relayed, HostShape, SendStep, Queued, Reporting, homeVars, rowVars, wireVars, boundVars, WorkerState, Outcome
<1>2. HomeShape'
  BY DEF Inv, Relayed, HomeShape, SendStep, Queued, Reporting, homeVars, rowVars, wireVars, boundVars
<1>3. SyncShape'
  BY DEF Inv, Relayed, SyncShape, SendStep, Queued, Reporting, homeVars, rowVars, wireVars, boundVars
<1>4. WireShape'
  BY DEF Inv, Relayed, WireShape, SendStep, Queued, Reporting, homeVars, rowVars, wireVars, boundVars
<1>5. SlotsAreTheirOwn'
  BY DEF Inv, Relayed, SlotsAreTheirOwn, SendStep, Queued, Reporting, homeVars, rowVars, wireVars, boundVars, HostShape
<1>6. InboxFollowsLog'
  BY DEF Inv, Relayed, InboxFollowsLog, SendStep, Queued, Reporting, homeVars, rowVars, wireVars, boundVars, HostShape
<1>7. InboxIsOfTheLog'
  BY <1>a, <1>b, <1>c DEF Inv, Relayed, InboxIsOfTheLog
<1>8. SyncHolds'
  BY <1>c, <1>d, <1>e DEF Inv, Relayed, SyncShape, SyncHolds, AckCursor
<1>9. WireHolds'
  BY <1>c, <1>d, <1>e DEF Inv, Relayed, WireShape, AckInput, WireHolds, Sound, Asking, RequestId, AckCursor
<1>10. HostConfirmed'
  BY DEF Inv, Relayed, HostConfirmed, AckedUpTo, AckCursor, SendStep, Queued, Reporting, homeVars, rowVars, wireVars, boundVars, HostShape
<1>11. RecordedIsAcked'
  BY DEF Inv, Relayed, RecordedIsAcked, SendStep, Queued, Reporting, homeVars, rowVars, wireVars, boundVars, HostShape
<1>12. AckedItemsReachedHome'
  BY DEF Inv, Relayed, AckedItemsReachedHome, Stored, Settles, SendStep, Queued, Reporting, homeVars, rowVars, wireVars, boundVars, HostShape
<1>13. HostFollowsHome'
  BY DEF Inv, Relayed, HostFollowsHome, Settles, SendStep, Queued, Reporting, homeVars, rowVars, wireVars, boundVars, Ended
<1> QED BY <1>1, <1>2, <1>3, <1>4, <1>5, <1>6, <1>7, <1>8, <1>9, <1>10, <1>11, <1>12, <1>13 DEF Inv, Relayed


-----------------------------------------------------------------------------
(* The home's sync: between pages. *)

Resting(phase, pages, epoch) ==
    [phase |-> phase, pages |-> pages, capEpoch |-> epoch, pageEpoch |-> 0, page |-> <<>>,
     full |-> FALSE, cursor |-> 0, settlements |-> {}, barrier |-> 0]

(* The sync has let go of its page, and no request in flight is awaited.    *)
SyncRests ==
    /\ UNCHANGED <<protocol, hostVars, home, agreed, inbox, imported>>
    /\ acknowledged' \in 0..MaxItems /\ AckedUpTo(acknowledged')
    /\ seenEpoch' \in Epoch /\ known' \in 0..MaxEpoch
    /\ checkpoint' \in [epoch : 0..MaxEpoch, through : 0..MaxItems]
    /\ \E phase \in {"idle", "more", "resolved"}, pages \in 0..MaxPages, epoch \in 0..MaxEpoch :
          (phase = "idle" \/ pages > 0) /\ sync' = Resting(phase, pages, epoch)
    /\ \A r \in net' : /\ r \in [id : 1..MaxItems, input : AckInput, awaited : BOOLEAN]
                       /\ ~r.awaited
                       /\ \E q \in net : q.input = r.input
    /\ answer' = "none"
    /\ stopCall' \in {stopCall, "none"}
    /\ losses' \in 0..MaxLosses /\ restarts' \in 0..MaxRestarts

LEMMA RestingKeeps ==
    ASSUME Inv, SyncRests
    PROVE  Inv'
<1>a. /\ UNCHANGED <<protocol, log, attach, receipts, hostEpoch, home, agreed, inbox, imported>>
      /\ answer' = "none"
  BY DEF SyncRests, hostVars
<1>b. /\ sync' \in [phase : {"idle", "more", "resolved", "importing", "acking"},
                 pages : 0..MaxPages, capEpoch : 0..MaxEpoch, pageEpoch : 0..MaxEpoch,
                 page : Seq(PageItem), full : BOOLEAN, cursor : 0..MaxItems,
                 settlements : SUBSET Settlement, barrier : 0..MaxItems]
      /\ sync'.page = <<>> /\ sync'.cursor = 0 /\ sync'.barrier = 0 /\ sync'.settlements = {}
      /\ sync'.phase \in {"idle", "more", "resolved"}
      /\ sync'.phase = "idle" \/ sync'.pages > 0
  BY Limits DEF SyncRests, Resting
<1>1. HostShape'
  BY <1>a DEF Inv, HostShape
<1>2. HomeShape'
  BY <1>a DEF Inv, HomeShape, SyncRests
<1>3. SyncShape'
  BY <1>b DEF SyncShape
<1>4. WireShape'
  BY DEF Inv, WireShape, SyncRests
<1>5. (SlotsAreTheirOwn /\ InboxFollowsLog /\ InboxIsOfTheLog)'
  BY <1>a DEF Inv, Relayed, SlotsAreTheirOwn, InboxFollowsLog, InboxIsOfTheLog
<1>6. SyncHolds'
  BY <1>a, <1>b DEF Inv, HomeShape, SyncHolds
<1>7. \A s : OfTheInbox(s) => OfTheInbox(s)'
  BY <1>a DEF OfTheInbox, Ended
<1>8. WireHolds'
  BY <1>a, <1>7 DEF Inv, Relayed, WireHolds, Sound, SyncRests
<1>9. HostConfirmed'
  BY <1>a DEF Inv, Relayed, HostConfirmed, AckedUpTo
<1>10. RecordedIsAcked'
  BY <1>a DEF SyncRests, AckedUpTo, RecordedIsAcked
<1>11. AckedItemsReachedHome' /\ HostFollowsHome'
  BY <1>a DEF Inv, Relayed, AckedItemsReachedHome, Stored, Settles, HostFollowsHome, Ended
<1> QED BY <1>1, <1>2, <1>3, <1>4, <1>5, <1>6, <1>8, <1>9, <1>10, <1>11 DEF Inv, Relayed

(* What a step that only ends or begins a sync starts from. *)
LEMMA Untouched ==
    ASSUME Inv
    PROVE  /\ acknowledged \in 0..MaxItems /\ AckedUpTo(acknowledged)
           /\ seenEpoch \in Epoch /\ known \in 0..MaxEpoch
           /\ checkpoint \in [epoch : 0..MaxEpoch, through : 0..MaxItems]
           /\ \A r \in net : r \in [id : 1..MaxItems, input : AckInput, awaited : BOOLEAN]
           /\ losses \in 0..MaxLosses /\ restarts \in 0..MaxRestarts
           /\ sync.phase # "acking" => answer = "none" /\ \A r \in net : ~r.awaited
           /\ answer # "none" => \A r \in net : ~r.awaited
           /\ NoCheckpoint \in [epoch : 0..MaxEpoch, through : 0..MaxItems]
           /\ hostEpoch \in 1..MaxEpoch
           /\ sync.pages \in 0..MaxPages /\ (sync.phase = "idle" \/ sync.pages > 0)
           /\ sync.phase \in {"importing", "acking"} => sync.pageEpoch \in Epoch
<1>1. /\ acknowledged \in 0..MaxItems
      /\ seenEpoch \in Epoch /\ known \in 0..MaxEpoch
      /\ checkpoint \in [epoch : 0..MaxEpoch, through : 0..MaxItems]
  BY DEF Inv, HomeShape
<1>2. /\ \A r \in net : r \in [id : 1..MaxItems, input : AckInput, awaited : BOOLEAN]
      /\ losses \in 0..MaxLosses /\ restarts \in 0..MaxRestarts
  BY DEF Inv, WireShape
<1>3. AckedUpTo(acknowledged)
  BY DEF Inv, Relayed, RecordedIsAcked, AckedUpTo
<1>4. /\ sync.phase # "acking" => answer = "none" /\ \A r \in net : ~r.awaited
      /\ answer # "none" => \A r \in net : ~r.awaited
  BY DEF Inv, Relayed, WireHolds
<1>5. NoCheckpoint \in [epoch : 0..MaxEpoch, through : 0..MaxItems] /\ hostEpoch \in 1..MaxEpoch
  BY Limits DEF Inv, HostShape, Epoch, NoCheckpoint
<1>6. /\ sync.pages \in 0..MaxPages /\ (sync.phase = "idle" \/ sync.pages > 0)
      /\ sync.phase \in {"importing", "acking"} => sync.pageEpoch \in Epoch
  BY DEF Inv, Relayed, SyncShape, SyncHolds
<1> QED BY <1>1, <1>2, <1>3, <1>4, <1>5, <1>6

LEMMA ResolvingRests == Inv /\ ResolveCapability => SyncRests
<1> SUFFICES ASSUME Inv, ResolveCapability PROVE SyncRests
  OBVIOUS
<1>1. PICK epoch \in {known, hostEpoch} :
        /\ sync' = [Idle EXCEPT !.phase = "resolved",
                                !.pages = IF sync.phase = "idle" THEN MaxPages ELSE sync.pages,
                                !.capEpoch = IF Settles THEN epoch ELSE 0]
        /\ known' = IF Settles THEN epoch ELSE known
  BY DEF ResolveCapability
<1>2. \E pages \in 0..MaxPages, e \in 0..MaxEpoch : pages > 0 /\ sync' = Resting("resolved", pages, e)
  <2>1. (IF sync.phase = "idle" THEN MaxPages ELSE sync.pages) \in 1..MaxPages
    BY Untouched, Limits
  <2>2. (IF Settles THEN epoch ELSE 0) \in 0..MaxEpoch
    BY Untouched, Limits
  <2>3. sync' = Resting("resolved", IF sync.phase = "idle" THEN MaxPages ELSE sync.pages,
                        IF Settles THEN epoch ELSE 0)
    BY <1>1 DEF Idle, Resting
  <2> QED BY <2>1, <2>2, <2>3, Limits
<1>3. known' \in 0..MaxEpoch
  BY <1>1, Untouched, Limits
<1>4. sync.phase # "acking"
  BY DEF ResolveCapability
<1>5. UNCHANGED <<protocol, hostVars, home, agreed, inbox, rowVars, checkpoint, wireVars, boundVars>>
  BY DEF ResolveCapability
<1> QED BY <1>2, <1>3, <1>4, <1>5, Untouched DEF SyncRests, rowVars, wireVars, boundVars

(* A sync that is over leaves nothing behind. *)
LEMMA IdleRests ==
    \E phase \in {"idle", "more", "resolved"}, pages \in 0..MaxPages, epoch \in 0..MaxEpoch :
       (phase = "idle" \/ pages > 0) /\ Idle = Resting(phase, pages, epoch)
<1>1. Idle = Resting("idle", 0, 0) /\ 0 \in 0..MaxPages /\ 0 \in 0..MaxEpoch
  BY Limits DEF Idle, Resting
<1> QED BY <1>1

LEMMA EndingRests ==
    ASSUME Inv,
           RefusePage \/ HearRefusal \/ LoseAck
    PROVE  SyncRests
<1>1. UNCHANGED <<protocol, hostVars, home, agreed, inbox, rowVars, known, stopCall>>
  BY DEF RefusePage, HearRefusal, LoseAck, wireVars
<1>2. sync' = Idle /\ checkpoint' \in {checkpoint, NoCheckpoint}
  BY DEF RefusePage, HearRefusal, LoseAck, SyncEnds
<1>3. losses' \in 0..MaxLosses /\ restarts' = restarts
  BY Untouched, Limits DEF RefusePage, HearRefusal, LoseAck, boundVars
<1>4. /\ answer' = "none"
      /\ \A r \in net' : /\ r \in [id : 1..MaxItems, input : AckInput, awaited : BOOLEAN]
                         /\ ~r.awaited
                         /\ \E q \in net : q.input = r.input
  <2>1. CASE RefusePage
    BY <2>1, Untouched DEF RefusePage, wireVars
  <2>2. CASE HearRefusal
    BY <2>2, Untouched DEF HearRefusal
  <2>3. CASE LoseAck
    BY <2>3, Untouched DEF LoseAck, Orphaned
  <2> QED BY <2>1, <2>2, <2>3
<1> QED BY <1>1, <1>2, <1>3, <1>4, Untouched, IdleRests, Limits DEF SyncRests, rowVars

LEMMA RestartingHomeRests == Inv /\ RestartHome => SyncRests
<1> SUFFICES ASSUME Inv, RestartHome PROVE SyncRests
  OBVIOUS
<1>1. /\ UNCHANGED <<protocol, hostVars, home, agreed, inbox, rowVars, losses>>
      /\ sync' = Idle /\ checkpoint' = NoCheckpoint /\ known' = 0
      /\ answer' = "none" /\ stopCall' = "none"
  BY DEF RestartHome
<1>2. restarts' \in 0..MaxRestarts
  BY Untouched, Limits DEF RestartHome
<1>3. \A r \in net' : /\ r \in [id : 1..MaxItems, input : AckInput, awaited : BOOLEAN]
                      /\ ~r.awaited
                      /\ \E q \in net : q.input = r.input
  BY Untouched DEF RestartHome, Orphaned
<1> QED BY <1>1, <1>2, <1>3, Untouched, IdleRests, Limits DEF SyncRests, rowVars

(* A page that is done with either gives way to the next or ends the sync.  *)
LEMMA NextIsShorter ==
    ASSUME Inv, sync.phase \in {"importing", "acking"}, NextPage,
           sync' = [Idle EXCEPT !.phase = "more", !.pages = sync.pages - 1]
    PROVE  \E phase \in {"idle", "more", "resolved"}, pages \in 0..MaxPages, epoch \in 0..MaxEpoch :
              (phase = "idle" \/ pages > 0) /\ sync' = Resting(phase, pages, epoch)
<1>1. sync.pages \in 0..MaxPages
  BY DEF Inv, SyncShape
<1>2. sync.pages > 1
  BY DEF NextPage
<1>3. sync' = Resting("more", sync.pages - 1, 0)
  BY DEF Idle, Resting
<1>4. sync.pages - 1 \in 0..MaxPages /\ sync.pages - 1 > 0 /\ 0 \in 0..MaxEpoch
  BY <1>1, <1>2, Limits
<1> QED BY <1>3, <1>4

LEMMA SkippingRests == Inv /\ SkipAck => SyncRests
<1> SUFFICES ASSUME Inv, SkipAck PROVE SyncRests
  OBVIOUS
<1>1. /\ sync.phase = "importing"
      /\ UNCHANGED <<protocol, hostVars, home, agreed, inbox, imported, acknowledged, wireVars, boundVars>>
  BY DEF SkipAck
<1>2. seenEpoch' \in Epoch /\ known' \in 0..MaxEpoch
  BY <1>1, Untouched, Limits DEF SkipAck, PageEnds
<1>3. checkpoint' \in {checkpoint, NoCheckpoint}
  BY DEF SkipAck, SyncEnds
<1>4. CASE NextPage
  <2>1. sync' = [Idle EXCEPT !.phase = "more", !.pages = sync.pages - 1]
    BY <1>4 DEF SkipAck
  <2> QED BY <1>1, <1>2, <1>3, <1>4, <2>1, NextIsShorter, Untouched DEF SyncRests, wireVars, boundVars
<1>5. CASE ~NextPage
  <2>1. sync' = Idle
    BY <1>5 DEF SkipAck, SyncEnds
  <2> QED BY <1>1, <1>2, <1>3, <2>1, IdleRests, Untouched, Limits DEF SyncRests, wireVars, boundVars
<1> QED BY <1>4, <1>5

LEMMA HearingRests == Inv /\ HearAck => SyncRests
<1> SUFFICES ASSUME Inv, HearAck PROVE SyncRests
  OBVIOUS
<1>1. /\ sync.phase = "acking" /\ answer = "accepted" /\ answer' = "none"
      /\ UNCHANGED <<protocol, hostVars, home, agreed, inbox, imported, net, stopCall, boundVars>>
  BY DEF HearAck
<1>2. seenEpoch' \in Epoch /\ known' \in 0..MaxEpoch
  BY <1>1, Untouched, Limits DEF HearAck, PageEnds
<1>3. Recorded \in 0..MaxItems /\ Recorded <= AckCursor /\ AckCursor \in 0..MaxItems
  <2>1. AckCursor > 0 /\ AckCursor \in 0..MaxItems
    BY <1>1, Limits DEF Inv, Relayed, SyncHolds, SyncShape, AckCursor
  <2> QED BY <2>1, Limits DEF Recorded
<1>4. AckedUpTo(Recorded)
  BY <1>1, <1>3, Limits DEF Inv, Relayed, HostConfirmed, AckedUpTo
<1>5. acknowledged' \in 0..MaxItems /\ AckedUpTo(acknowledged')
  BY <1>3, <1>4, Untouched DEF HearAck
<1>6. checkpoint' \in [epoch : 0..MaxEpoch, through : 0..MaxItems]
  <2>1. [epoch |-> sync.pageEpoch, through |-> Recorded] \in [epoch : 0..MaxEpoch, through : 0..MaxItems]
    BY <1>1, <1>3, Untouched, Limits DEF Epoch
  <2> QED BY <2>1, Untouched DEF HearAck
<1>7. CASE NextPage
  <2>1. sync' = [Idle EXCEPT !.phase = "more", !.pages = sync.pages - 1]
    BY <1>7 DEF HearAck
  <2> QED BY <1>1, <1>2, <1>5, <1>6, <1>7, <2>1, NextIsShorter, Untouched DEF SyncRests, boundVars
<1>8. CASE ~NextPage
  <2>1. sync' = Idle
    BY <1>8 DEF HearAck
  <2> QED BY <1>1, <1>2, <1>5, <1>6, <2>1, IdleRests, Untouched, Limits DEF SyncRests, boundVars
<1> QED BY <1>7, <1>8


-----------------------------------------------------------------------------
(* The home's sync: one page. *)

(* A step of the home that leaves the host, the wire and its other rows be. *)
LEMMA HomeStepKeeps ==
    ASSUME Inv, UNCHANGED <<protocol, hostVars, acknowledged, seenEpoch, checkpoint, known,
                            wireVars, boundVars>>,
           home' \in HomeState, agreed' \in BOOLEAN, inbox' \in Seq(ItemIds), imported' \in 0..MaxItems,
           imported <= imported', InboxFollowsLog', InboxIsOfTheLog',
           SyncShape', SyncHolds',
           sync.phase # "acking", sync'.phase # "acking",
           \A s \in Settlement : OfTheInbox(s) => OfTheInbox(s)',
           \A item : Stored(item) => Stored(item)',
           Ended' = Ended \/ Ended = "open"
    PROVE  Inv'
<1>1. HostShape' /\ WireShape' /\ SlotsAreTheirOwn' /\ RecordedIsAcked'
  BY DEF Inv, Relayed, HostShape, WireShape, SlotsAreTheirOwn, RecordedIsAcked, hostVars, wireVars, boundVars
<1>2. HomeShape'
  BY DEF Inv, HomeShape
<1>3. answer = "none" /\ answer' = "none" /\ net' = net /\ \A r \in net : ~r.awaited
  BY Untouched DEF wireVars
<1>4. WireHolds'
  <2>1. imported \in Int /\ imported' \in Int
    BY DEF Inv, HomeShape
  <2>2. ASSUME NEW r \in net PROVE Sound(r.input)'
    <3>1. r.input.settlements \subseteq Settlement /\ r.input.through \in Int
      BY DEF Inv, WireShape, AckInput
    <3> QED BY <2>1, <3>1 DEF Inv, Relayed, WireHolds, Sound
  <2> QED BY <1>3, <2>2 DEF WireHolds
<1>5. HostConfirmed'
  <2>1. DOMAIN log \subseteq Int /\ imported \in Int /\ imported' \in Int
    BY DEF Inv, HostShape, HomeShape
  <2>2. UNCHANGED <<log, receipts>>
    BY DEF hostVars
  <2> QED BY <1>3, <2>1, <2>2 DEF Inv, Relayed, HostConfirmed, AckedUpTo
<1>6. AckedItemsReachedHome' /\ HostFollowsHome'
  BY DEF Inv, Relayed, AckedItemsReachedHome, HostFollowsHome, Settles, hostVars, Outcome
<1> QED BY <1>1, <1>2, <1>4, <1>5, <1>6 DEF Inv, Relayed

LEMMA WantedIsLogged ==
    ASSUME HostShape
    PROVE  Wanted \subseteq DOMAIN log /\ PageLength \in Nat
<1>1. Wanted \subseteq DOMAIN log
  BY DEF Wanted, Pending
<1>2. IsFiniteSet(Wanted)
  BY <1>1, FS_Interval, FS_Subset DEF HostShape
<1>3. Cardinality(Wanted) \in Nat
  BY <1>2, FS_CardinalityType
<1> QED BY <1>1, <1>3, Limits DEF PageLength

LEMMA PullingKeeps == Inv /\ PullPage => Inv'
<1> SUFFICES ASSUME Inv, PullPage PROVE Inv'
  OBVIOUS
<1>1. PICK seqs \in [1..PageLength -> Wanted] :
         sync' = [sync EXCEPT
                 !.phase = "importing", !.pageEpoch = hostEpoch,
                 !.page = [n \in 1..PageLength |-> PulledItem(seqs[n])],
                 !.full = PageLength = PageSize,
                 !.cursor = IF Replays /\ PageLength > 0 THEN seqs[1] - 1 ELSE imported]
  BY DEF PullPage
<1>2. /\ sync.phase = "resolved"
      /\ UNCHANGED <<protocol, hostVars, home, agreed, inbox, rowVars, checkpoint, known, wireVars, boundVars>>
  BY DEF PullPage
<1>3. Wanted \subseteq DOMAIN log /\ PageLength \in Nat
  BY WantedIsLogged DEF Inv
<1>4. ASSUME NEW i \in DOMAIN log
      PROVE  PulledItem(i) \in PageItem /\ OfTheLog(PulledItem(i)) /\ i \in 1..MaxItems
  <2>1. log[i] \in Items /\ i \in 1..MaxItems
    BY Limits DEF Inv, HostShape
  <2>2. [log[i] EXCEPT !.acked = FALSE] \in Items
    BY <2>1 DEF Items
  <2>3. PulledItem(i).seq = i /\ PulledItem(i).item = [log[i] EXCEPT !.acked = FALSE]
    BY DEF PulledItem
  <2>4. /\ PulledItem(i).item.id = log[i].id /\ PulledItem(i).item.kind = log[i].kind
        /\ PulledItem(i).item.outcome = log[i].outcome
    BY <2>1, <2>3 DEF Items
  <2> QED BY <2>1, <2>2, <2>3, <2>4 DEF PulledItem, PageItem, OfTheLog, Inv, Relayed, SlotsAreTheirOwn
<1> DEFINE page == [n \in 1..PageLength |-> PulledItem(seqs[n])]
           cursor == IF Replays /\ PageLength > 0 THEN seqs[1] - 1 ELSE imported
<1>5. page \in Seq(PageItem) /\ DOMAIN page = 1..PageLength /\ \A n \in 1..PageLength : OfTheLog(page[n])
  BY <1>3, <1>4
<1>6. cursor \in 0..MaxItems /\ (page = <<>> => cursor = imported)
  <2>1. CASE Replays /\ PageLength > 0
    <3>1. seqs[1] \in 1..MaxItems
      BY <1>3, <1>4, <2>1
    <3>2. page # <<>>
      BY <1>3, <1>5, <2>1
    <3> QED BY <2>1, <3>1, <3>2, Limits
  <2>2. CASE ~(Replays /\ PageLength > 0)
    BY <2>2 DEF Inv, HomeShape
  <2> QED BY <2>1, <2>2
<1>7. sync' = [sync EXCEPT !.phase = "importing", !.pageEpoch = hostEpoch, !.page = page,
                           !.full = PageLength = PageSize, !.cursor = cursor]
  BY <1>1
<1>8. hostEpoch \in Epoch /\ Epoch \subseteq 0..MaxEpoch
  BY Limits DEF Inv, HostShape, Epoch
<1>9. imported \in 0..MaxItems
  BY DEF Inv, HomeShape
<1> HIDE DEF page, cursor
<1>10. /\ sync'.phase = "importing" /\ sync'.pageEpoch = hostEpoch /\ sync'.page = page
       /\ sync'.cursor = cursor /\ sync'.barrier = sync.barrier /\ sync'.settlements = sync.settlements
       /\ sync'.pages = sync.pages
  BY <1>7 DEF Inv, SyncShape
<1>11. SyncShape'
  <2>1. (PageLength = PageSize) \in BOOLEAN
    OBVIOUS
  <2>2. sync.pages > 0
    BY <1>2 DEF Inv, SyncShape
  <2>3. sync' \in [phase : {"idle", "more", "resolved", "importing", "acking"},
                 pages : 0..MaxPages, capEpoch : 0..MaxEpoch, pageEpoch : 0..MaxEpoch,
                 page : Seq(PageItem), full : BOOLEAN, cursor : 0..MaxItems,
                 settlements : SUBSET Settlement, barrier : 0..MaxItems]
    BY <1>5, <1>6, <1>7, <1>8, <2>1 DEF Inv, SyncShape
  <2> QED BY <1>10, <2>2, <2>3 DEF SyncShape
<1>12. \A s : OfTheInbox(s) => OfTheInbox(s)'
  BY <1>2 DEF OfTheInbox, hostVars, rowVars, Ended
<1>13. SyncHolds'
  <2>1. \A entry : OfTheLog(entry) => OfTheLog(entry)'
    BY <1>2 DEF OfTheLog, hostVars
  <2> QED BY <1>2, <1>5, <1>6, <1>8, <1>9, <1>10, <1>12, <2>1 DEF Inv, Relayed, SyncHolds, rowVars
<1>14. InboxFollowsLog' /\ InboxIsOfTheLog' /\ \A item : Stored(item) => Stored(item)'
  BY <1>2 DEF Inv, Relayed, InboxFollowsLog, InboxIsOfTheLog, Stored, hostVars, rowVars
<1>15. /\ home' \in HomeState /\ agreed' \in BOOLEAN /\ Ended' = Ended
       /\ inbox' \in Seq(ItemIds) /\ imported' \in 0..MaxItems /\ imported <= imported'
  <2>1. agreed' \in BOOLEAN /\ home' \in HomeState
    BY <1>2, Zenon DEF Inv, HomeShape
  <2> QED BY <1>2, <2>1 DEF Inv, HomeShape, rowVars, Ended
<1> QED BY <1>2, <1>10, <1>11, <1>12, <1>13, <1>14, <1>15, HomeStepKeeps DEF rowVars

LEMMA AskingKeeps == Inv /\ SendAck => Inv'
<1> SUFFICES ASSUME Inv, SendAck PROVE Inv'
  OBVIOUS
<1>1. /\ sync.phase = "importing" /\ sync.page = <<>> /\ AckCursor > AckedThrough
      /\ net' = net \cup {Asking}
      /\ sync' = [sync EXCEPT !.phase = "acking"]
      /\ UNCHANGED <<protocol, hostVars, home, agreed, inbox, rowVars, checkpoint, known, answer, stopCall,
                   boundVars>>
  BY DEF SendAck, MustAcknowledge, Asking
<1>2. answer = "none" /\ \A r \in net : ~r.awaited
  BY <1>1, Untouched
<1>3. /\ sync \in [phase : {"idle", "more", "resolved", "importing", "acking"},
                 pages : 0..MaxPages, capEpoch : 0..MaxEpoch, pageEpoch : 0..MaxEpoch,
                 page : Seq(PageItem), full : BOOLEAN, cursor : 0..MaxItems,
                 settlements : SUBSET Settlement, barrier : 0..MaxItems]
      /\ sync.pages > 0 /\ sync.pageEpoch \in Epoch
  BY <1>1 DEF Inv, Relayed, SyncShape, SyncHolds
<1>4. /\ sync' \in [phase : {"idle", "more", "resolved", "importing", "acking"},
                 pages : 0..MaxPages, capEpoch : 0..MaxEpoch, pageEpoch : 0..MaxEpoch,
                 page : Seq(PageItem), full : BOOLEAN, cursor : 0..MaxItems,
                 settlements : SUBSET Settlement, barrier : 0..MaxItems]
      /\ sync'.phase = "acking" /\ sync'.pageEpoch = sync.pageEpoch /\ sync'.page = <<>>
      /\ sync'.cursor = sync.cursor /\ sync'.barrier = sync.barrier /\ sync'.settlements = sync.settlements
      /\ sync'.pages = sync.pages
  BY <1>1, <1>3
<1>5. AckedThrough \in Nat
  BY DEF Inv, HomeShape, AckedThrough
<1>6. AckCursor \in 1..MaxItems /\ AckCursor <= imported
  <2>2. sync.cursor <= imported /\ sync.barrier <= imported /\ imported \in 0..MaxItems
    BY <1>1 DEF Inv, Relayed, SyncHolds, HomeShape
  <2>3. sync.cursor \in Int /\ sync.barrier \in Int
    BY <1>3, Limits
  <2>4. CASE sync.barrier > 0
    BY <1>1, <1>5, <2>2, <2>3, <2>4, Limits DEF AckCursor
  <2>5. CASE ~(sync.barrier > 0)
    BY <1>1, <1>5, <2>2, <2>3, <2>5, Limits DEF AckCursor
  <2> QED BY <2>4, <2>5
<1>7. sync.cursor \in 1..MaxItems
  <2>1. sync.barrier <= sync.cursor
    BY DEF Inv, Relayed, SyncHolds
  <2> QED BY <1>3, <1>6, <2>1, Limits DEF AckCursor
<1>8. Asking \in [id : 1..MaxItems, input : AckInput, awaited : BOOLEAN]
  BY <1>3, <1>6, <1>7, Limits DEF Asking, RequestId, AckInput
<1>9. AckCursor' = AckCursor /\ Asking' = Asking
  BY <1>4 DEF AckCursor, Asking, RequestId
<1>10. SyncShape' /\ WireShape'
  BY <1>1, <1>3, <1>4, <1>8 DEF Inv, SyncShape, WireShape, boundVars
<1>11. HostShape' /\ HomeShape'
  BY <1>1 DEF Inv, HostShape, HomeShape, hostVars, rowVars
<1>12. (SlotsAreTheirOwn /\ InboxFollowsLog /\ InboxIsOfTheLog /\ RecordedIsAcked)'
  BY <1>1 DEF Inv, Relayed, SlotsAreTheirOwn, InboxFollowsLog, InboxIsOfTheLog, RecordedIsAcked, hostVars, rowVars
<1>13. \A s : OfTheInbox(s)' <=> OfTheInbox(s)
  BY <1>1 DEF OfTheInbox, hostVars, rowVars, Ended
<1>14. SyncHolds'
  BY <1>1, <1>3, <1>4, <1>6, <1>9, <1>13 DEF Inv, Relayed, SyncHolds, rowVars
<1>15. WireHolds'
  <2>1. Sound(Asking.input)
    BY <1>6 DEF Asking, Sound, Inv, Relayed, SyncHolds
  <2>2. \A r \in net' : Sound(r.input)'
    BY <1>1, <1>13, <2>1 DEF Inv, Relayed, WireHolds, Sound, rowVars
  <2>3. \A r \in net' : r.awaited => r = Asking
    BY <1>1, <1>2
  <2> QED BY <1>1, <1>2, <1>4, <1>9, <2>2, <2>3 DEF WireHolds
<1>16. HostConfirmed'
  BY <1>1, <1>2 DEF Inv, Relayed, HostConfirmed, AckedUpTo, hostVars, rowVars
<1>17. AckedItemsReachedHome' /\ HostFollowsHome'
  BY <1>1 DEF Inv, Relayed, AckedItemsReachedHome, Stored, Settles, HostFollowsHome, hostVars, Ended
<1> QED BY <1>10, <1>11, <1>12, <1>14, <1>15, <1>16, <1>17 DEF Inv, Relayed


(* A message stored for an item of the log lies in the item's own slot. *)
LEMMA StoredInItsSlot ==
    ASSUME Inv, NEW item, NEW seq \in 1..MaxItems, item.id \in {seq, MaxItems + seq}
    PROVE  Stored(item) <=> seq \in DOMAIN inbox /\ inbox[seq] = item.id
<1>1. \A n \in DOMAIN inbox : n \in 1..MaxItems /\ inbox[n] \in {n, MaxItems + n}
  BY Limits DEF Inv, Relayed, InboxFollowsLog, HomeShape
<1>2. \A n \in DOMAIN inbox : inbox[n] = item.id => n = seq
  BY <1>1, Limits
<1> QED BY <1>2 DEF Stored

(* A verdict ends the dispatch; a report accepted later repeats it.         *)
LEMMA EndedByVerdict == home' \in Outcome => Ended' = home'
BY DEF Ended, Outcome, HomeUnsettled

LEMMA RepeatsAgree ==
    ASSUME NEW item, Accepts(item), home \notin Settleable
    PROVE  Ended = item.outcome
BY Zenon DEF Accepts

LEMMA ImportingKeeps == Inv /\ ImportItem => Inv'
<1> SUFFICES ASSUME Inv, ImportItem PROVE Inv'
  OBVIOUS
<1> DEFINE next == Head(sync.page)
           item == next.item
           seq == next.seq
           report == item.kind = "worker_done"
           settles == report /\ Accepts(item) /\ home \in Settleable
           settled == IF report /\ Confirmed
                      THEN sync.settlements \cup {[seq |-> seq, action |-> Verdict(item)]}
                      ELSE sync.settlements
           barrier == IF report /\ Settles /\ ~Confirmed /\ sync.barrier = 0 THEN seq ELSE sync.barrier
<1>1. /\ sync.phase = "importing" /\ sync.page # <<>> /\ Fits(next)
      /\ inbox' = (IF Stored(item) THEN inbox ELSE Append(inbox, item.id))
      /\ imported' = (IF seq > imported THEN seq ELSE imported)
      /\ home' = (IF settles THEN item.outcome ELSE home)
      /\ agreed' = (agreed \/ settles)
      /\ sync' = [sync EXCEPT !.page = Tail(@), !.cursor = seq, !.settlements = settled,
                              !.barrier = barrier]
      /\ UNCHANGED <<protocol, hostVars, acknowledged, seenEpoch, checkpoint, known, wireVars, boundVars>>
  BY DEF ImportItem
<1>2. /\ sync \in [phase : {"idle", "more", "resolved", "importing", "acking"},
                 pages : 0..MaxPages, capEpoch : 0..MaxEpoch, pageEpoch : 0..MaxEpoch,
                 page : Seq(PageItem), full : BOOLEAN, cursor : 0..MaxItems,
                 settlements : SUBSET Settlement, barrier : 0..MaxItems]
      /\ sync.pages > 0
  BY <1>1 DEF Inv, SyncShape
<1>3. /\ next \in PageItem /\ OfTheLog(next) /\ Tail(sync.page) \in Seq(PageItem)
      /\ \A n \in DOMAIN Tail(sync.page) : OfTheLog(Tail(sync.page)[n])
  <2>1. sync.page \in Seq(PageItem) /\ sync.page # <<>> /\ \A n \in DOMAIN sync.page : OfTheLog(sync.page[n])
    BY <1>1, <1>2 DEF Inv, Relayed, SyncHolds
  <2>2. 1 \in DOMAIN sync.page /\ next = sync.page[1]
    BY <2>1
  <2>3. /\ Tail(sync.page) \in Seq(PageItem)
        /\ \A n \in DOMAIN Tail(sync.page) : n + 1 \in DOMAIN sync.page /\ Tail(sync.page)[n] = sync.page[n + 1]
    BY <2>1
  <2> QED BY <2>1, <2>2, <2>3
<1>4. /\ seq \in 1..MaxItems /\ item \in Items /\ seq \in DOMAIN log
      /\ item.id \in {seq, MaxItems + seq} /\ item.id \in ItemIds
      /\ item.id = log[seq].id \/ (item.id = seq /\ log[seq].kind = "worker_done")
      /\ report => log[seq].kind = "worker_done" /\ item.id = log[seq].id /\ item.outcome \in Outcome
  BY <1>3 DEF PageItem, Items, OfTheLog, Inv, Relayed, SlotsAreTheirOwn
<1>5. /\ imported \in 0..MaxItems /\ inbox \in Seq(ItemIds) /\ home \in HomeState /\ agreed \in BOOLEAN
      /\ Len(inbox) = imported /\ imported <= Len(log) /\ log \in Seq(Items)
  BY DEF Inv, Relayed, HostShape, HomeShape, InboxFollowsLog
<1>6. Stored(item) <=> seq \in DOMAIN inbox /\ inbox[seq] = item.id
  BY <1>4, StoredInItsSlot
<1>7. /\ seq = sync.cursor + 1
      /\ \/ seq <= imported /\ Stored(item)
         \/ seq = imported + 1 /\ ~Stored(item)
  BY <1>1, <1>4, <1>5, <1>6 DEF Fits
<1> HIDE DEF next, settled, barrier
<1>8. /\ inbox' \in Seq(ItemIds) /\ imported' \in 0..MaxItems /\ imported <= imported'
      /\ Len(inbox') = imported' /\ imported' <= Len(log) /\ seq <= imported'
      /\ inbox'[seq] = item.id
      /\ \A n \in DOMAIN inbox : n \in DOMAIN inbox' /\ inbox'[n] = inbox[n]
      /\ \A n \in DOMAIN inbox' : n \in DOMAIN inbox \/ n = seq
  <2>1. CASE seq <= imported /\ Stored(item)
    BY <1>1, <1>4, <1>5, <1>6, <2>1, Limits
  <2>2. CASE seq = imported + 1 /\ ~Stored(item)
    BY <1>1, <1>4, <1>5, <2>2, Limits
  <2> QED BY <1>7, <2>1, <2>2
<1>9. InboxFollowsLog' /\ InboxIsOfTheLog'
  <2>1. log' = log
    BY <1>1 DEF hostVars
  <2>2. \A n \in DOMAIN inbox : inbox[n] \in {n, MaxItems + n} /\ (inbox[n] = log[n].id \/ (inbox[n] = n /\ log[n].kind = "worker_done"))
    BY DEF Inv, Relayed, InboxFollowsLog, InboxIsOfTheLog
  <2>3. \A n \in DOMAIN inbox' :
           inbox'[n] \in {n, MaxItems + n} /\ (inbox'[n] = log[n].id \/ (inbox'[n] = n /\ log[n].kind = "worker_done"))
    BY <1>4, <1>8, <2>2
  <2> QED BY <1>8, <2>1, <2>3 DEF InboxFollowsLog, InboxIsOfTheLog
<1>10. \A other : Stored(other) => Stored(other)'
  BY <1>8 DEF Stored
<1>11. /\ home' \in HomeState /\ agreed' \in BOOLEAN
       /\ Ended' = Ended \/ Ended = "open"
       /\ Accepts(item) /\ report => Ended' = item.outcome
  <2>1. home' = home \/ (settles /\ home' = item.outcome /\ home' \in Outcome)
    BY <1>1, <1>4
  <2>2. home' \in HomeState
    BY <1>5, <2>1 DEF HomeState, WorkerState
  <2>3. agreed' \in BOOLEAN
    BY <1>1, <1>5
  <2>4. CASE settles
    <3>1. Ended = "open" /\ home' = item.outcome /\ home' \in Outcome
      BY <1>1, <1>4, <1>5, <2>4, EndedIs
    <3> QED BY <2>2, <2>3, <3>1, EndedByVerdict
  <2>5. CASE ~settles
    <3>1. Ended' = Ended
      BY <1>1, <2>5 DEF Ended
    <3>2. Accepts(item) /\ report => Ended = item.outcome
      BY <2>5, RepeatsAgree
    <3> QED BY <2>2, <2>3, <3>1, <3>2
  <2> QED BY <2>4, <2>5
<1>12. ASSUME NEW s \in Settlement, OfTheInbox(s) PROVE OfTheInbox(s)'
  <2>1. s.seq \in DOMAIN inbox /\ s.seq \in Int
    BY <1>5, <1>12 DEF Settlement, OfTheInbox, Ended
  <2>2. s.action \in Outcome => Ended' = s.action
    BY <1>11, <1>12 DEF OfTheInbox, Outcome
  <2> QED BY <1>1, <1>5, <1>8, <1>12, <2>1, <2>2 DEF OfTheInbox, hostVars, Ended
<1>13. settled \in SUBSET Settlement /\ \A s \in settled : OfTheInbox(s)'
  <2>1. \A s \in sync.settlements : s \in Settlement /\ OfTheInbox(s)'
    BY <1>2, <1>12 DEF Inv, Relayed, SyncHolds
  <2>2. ASSUME report, NEW s, s = [seq |-> seq, action |-> Verdict(item)]
        PROVE  s \in Settlement /\ OfTheInbox(s)'
    <3>1. Verdict(item) \in Outcome \cup {"rejected"}
      BY <1>4, <2>2 DEF Verdict
    <3>2. Verdict(item) \in Outcome => Ended' = Verdict(item)
      BY <1>11, <2>2 DEF Verdict, Outcome
    <3>3. s.seq = seq /\ s.action = Verdict(item) /\ s \in Settlement
      BY <1>4, <2>2, <3>1 DEF Settlement
    <3>4. log' = log /\ log[seq].kind = "worker_done" /\ inbox'[seq] = log[seq].id
      BY <1>1, <1>4, <1>8, <2>2 DEF hostVars
    <3>5. seq <= imported'
      BY <1>8
    <3> HIDE DEF seq, item
    <3> QED BY <3>2, <3>3, <3>4, <3>5 DEF OfTheInbox, Ended
  <2> QED BY <2>1, <2>2 DEF settled
<1>14. barrier \in 0..MaxItems /\ barrier <= imported' /\ barrier <= seq
  <2>1. sync.barrier \in 0..MaxItems /\ sync.barrier <= imported /\ sync.barrier <= sync.cursor /\ sync.cursor \in 0..MaxItems
    BY <1>2 DEF Inv, Relayed, SyncHolds
  <2> QED BY <1>4, <1>5, <1>7, <1>8, <2>1, Limits DEF barrier
<1>15. /\ sync' \in [phase : {"idle", "more", "resolved", "importing", "acking"},
                 pages : 0..MaxPages, capEpoch : 0..MaxEpoch, pageEpoch : 0..MaxEpoch,
                 page : Seq(PageItem), full : BOOLEAN, cursor : 0..MaxItems,
                 settlements : SUBSET Settlement, barrier : 0..MaxItems]
       /\ sync'.phase = "importing" /\ sync'.pages = sync.pages /\ sync'.pageEpoch = sync.pageEpoch
       /\ sync'.page = Tail(sync.page) /\ sync'.cursor = seq /\ sync'.settlements = settled
       /\ sync'.barrier = barrier
  <2>1. sync' = [sync EXCEPT !.page = Tail(sync.page), !.cursor = seq, !.settlements = settled,
                             !.barrier = barrier]
    BY <1>1
  <2>2. Tail(sync.page) \in Seq(PageItem) /\ seq \in 0..MaxItems
    BY <1>3, <1>4
  <2> HIDE DEF seq
  <2> QED BY <1>1, <1>2, <1>13, <1>14, <2>1, <2>2
<1>16. SyncShape'
  BY <1>2, <1>15 DEF SyncShape
<1>17. SyncHolds'
  <2>1. sync.pageEpoch \in Epoch
    BY <1>1 DEF Inv, Relayed, SyncHolds
  <2>2. \A entry : OfTheLog(entry) => OfTheLog(entry)'
    BY <1>1 DEF OfTheLog, hostVars
  <2> QED BY <1>3, <1>8, <1>13, <1>14, <1>15, <2>1, <2>2 DEF SyncHolds
<1> QED BY <1>1, <1>8, <1>9, <1>10, <1>11, <1>12, <1>15, <1>16, <1>17, HomeStepKeeps


-----------------------------------------------------------------------------
(* The host's answers. *)

(* A slot that is at most confirmed. *)
Confirms(later, earlier) ==
    /\ later.id = earlier.id /\ later.kind = earlier.kind /\ later.outcome = earlier.outcome
    /\ earlier.acked => later.acked

(* The host confirms what the home holds and has settled, or nothing.       *)
HostStep ==
    /\ UNCHANGED <<protocol, homeVars, boundVars>>
    /\ log' \in Seq(Items) /\ Len(log') = Len(log)
    /\ \A i \in DOMAIN log :
          /\ Confirms(log'[i], log[i])
          /\ log'[i].acked => i <= imported
          /\ Settles /\ log'[i].acked => Stored(log[i])
    /\ attach' \in {attach, Ended} \cap WorkerState
    /\ attach' # attach => attach' \in Outcome
    /\ attach \in Outcome => attach' = attach
    /\ DOMAIN receipts' = 1..MaxItems
    /\ \A r \in 1..MaxItems :
          \/ receipts'[r] = receipts[r]
          \/ /\ receipts'[r] \in [state : {"pending", "completed"}, input : AckInput]
             /\ receipts'[r].state = "completed" =>
                   \E through : receipts'[r].input.through = through /\ AckedUpTo(through)'
    /\ hostEpoch' \in Epoch
    /\ net' \subseteq net
    /\ answer' \in {"none", "accepted", "refused"}
    /\ answer' # answer => sync.phase = "acking" /\ \A r \in net' : ~r.awaited
    /\ answer' = "accepted" /\ answer # "accepted" => AckedUpTo(AckCursor)'
    /\ stopCall' \in {stopCall, "unknown", "none"}

LEMMA HostStepKeeps ==
    ASSUME Inv, HostStep
    PROVE  Inv'
<1>1. UNCHANGED <<protocol, home, agreed, inbox, imported, acknowledged, seenEpoch, checkpoint, known, sync, losses, restarts>>
  BY DEF HostStep, homeVars, rowVars, boundVars
<1>2. /\ log \in Seq(Items) /\ log' \in Seq(Items) /\ Len(log') = Len(log) /\ DOMAIN log' = DOMAIN log
      /\ DOMAIN log = 1..Len(log) /\ Len(log) \in Nat
      /\ \A i \in DOMAIN log : Confirms(log'[i], log[i])
  BY DEF HostStep, Inv, HostShape
<1>3. HostShape'
  <2>1. \A r \in 1..MaxItems :
          \/ receipts'[r] = NoReceipt
          \/ receipts'[r] \in [state : {"pending", "completed"}, input : AckInput]
    BY DEF HostStep, Inv, HostShape
  <2> QED BY <1>2, <2>1 DEF HostStep, Inv, HostShape
<1>4. HomeShape' /\ SyncShape'
  BY <1>1 DEF Inv, HomeShape, SyncShape
<1>5. WireShape'
  BY <1>1 DEF HostStep, Inv, WireShape
<1>6. imported \in Nat /\ imported <= Len(log) /\ Len(inbox) = imported /\ inbox \in Seq(ItemIds)
  BY DEF Inv, Relayed, HomeShape, InboxFollowsLog
<1>7. SlotsAreTheirOwn' /\ InboxFollowsLog' /\ InboxIsOfTheLog'
  <2>1. SlotsAreTheirOwn'
    BY <1>2 DEF Inv, Relayed, SlotsAreTheirOwn, Confirms
  <2>2. InboxFollowsLog'
    BY <1>1, <1>2 DEF Inv, Relayed, InboxFollowsLog
  <2>3. DOMAIN inbox \subseteq DOMAIN log
    BY <1>2, <1>6
  <2>4. InboxIsOfTheLog'
    BY <1>1, <1>2, <2>3 DEF Inv, Relayed, InboxIsOfTheLog, Confirms
  <2> QED BY <2>1, <2>2, <2>4
<1>8. ASSUME NEW entry, OfTheLog(entry) PROVE OfTheLog(entry)'
  BY <1>2, <1>8 DEF OfTheLog, Confirms
<1>9. ASSUME NEW s \in Settlement, OfTheInbox(s) PROVE OfTheInbox(s)'
  <2>1. s.seq \in DOMAIN log
    BY <1>2, <1>6, <1>9 DEF Settlement, OfTheInbox, Ended
  <2> QED BY <1>1, <1>2, <1>9, <2>1 DEF OfTheInbox, Confirms, Ended
<1>10. SyncHolds'
  BY <1>1, <1>8, <1>9 DEF Inv, Relayed, SyncShape, SyncHolds, AckCursor
<1>11. WireHolds'
  <2>1. net' \subseteq net
    BY DEF HostStep
  <2>2. ASSUME NEW r \in net PROVE Sound(r.input)'
    <3>1. r.input.settlements \subseteq Settlement
      BY DEF Inv, WireShape, AckInput
    <3> QED BY <1>1, <1>9, <3>1 DEF Inv, Relayed, WireHolds, Sound
  <2>3. Asking' = Asking
    BY <1>1 DEF Asking, RequestId, AckCursor
  <2>4. CASE answer' = answer
    BY <1>1, <2>1, <2>2, <2>3, <2>4 DEF Inv, Relayed, WireHolds
  <2>5. CASE answer' # answer
    BY <1>1, <2>1, <2>2, <2>5 DEF HostStep, WireHolds
  <2> QED BY <2>4, <2>5
<1>12. \A n : AckedUpTo(n) => AckedUpTo(n)'
  BY <1>2 DEF AckedUpTo, Confirms
<1>13. HostConfirmed'
  <2>1. \A i \in DOMAIN log' : log'[i].acked => i <= imported'
    BY <1>1, <1>2 DEF HostStep
  <2>2. ASSUME NEW r \in 1..MaxItems, receipts'[r] # NoReceipt, receipts'[r].state = "completed"
        PROVE  \E through : receipts'[r].input.through = through /\ AckedUpTo(through)'
    <3>1. CASE receipts'[r] = receipts[r]
      <4>1. AckedUpTo(receipts[r].input.through)
        BY <2>2, <3>1 DEF Inv, Relayed, HostConfirmed
      <4>2. ASSUME NEW n, n = receipts[r].input.through PROVE AckedUpTo(n)'
        BY <1>12, <4>1, <4>2
      <4> QED BY <3>1, <4>2
    <3>2. CASE receipts'[r] # receipts[r]
      BY <2>2, <3>2 DEF HostStep
    <3> QED BY <3>1, <3>2
  <2>3. AckCursor' = AckCursor
    BY <1>1 DEF AckCursor
  <2>4. ASSUME answer' = "accepted" PROVE AckedUpTo(AckCursor)'
    <3>1. CASE answer = "accepted"
      <4>1. AckedUpTo(AckCursor)
        BY <3>1 DEF Inv, Relayed, HostConfirmed
      <4>2. ASSUME NEW n, n = AckCursor PROVE AckedUpTo(n)'
        BY <1>12, <4>1, <4>2
      <4> QED BY <2>3, <4>2 DEF AckedUpTo
    <3>2. CASE answer # "accepted"
      BY <2>4, <3>2 DEF HostStep
    <3> QED BY <3>1, <3>2
  <2>5. \A r \in 1..MaxItems :
           receipts'[r] # NoReceipt /\ receipts'[r].state = "completed" =>
               \A i \in 1..receipts'[r].input.through : i \in DOMAIN log' /\ log'[i].acked
    BY <2>2 DEF AckedUpTo
  <2> QED BY <2>1, <2>4, <2>5 DEF HostConfirmed, AckedUpTo
<1>14. RecordedIsAcked'
  <2>1. AckedUpTo(acknowledged)
    BY DEF Inv, Relayed, RecordedIsAcked, AckedUpTo
  <2> QED BY <1>1, <1>12, <2>1 DEF RecordedIsAcked, AckedUpTo
<1>15. AckedItemsReachedHome'
  BY <1>1, <1>2 DEF HostStep, AckedItemsReachedHome, Stored, Settles, Confirms
<1>16. HostFollowsHome'
  BY <1>1 DEF HostStep, Inv, Relayed, HostFollowsHome, Settles, Ended
<1> QED BY <1>3, <1>4, <1>5, <1>7, <1>10, <1>11, <1>13, <1>14, <1>15, <1>16 DEF Inv, Relayed

(* An acceptable acknowledgment of a sound request is such a step.          *)
LEMMA AcknowledgingConfirms ==
    ASSUME Inv, NEW request \in net, Acceptable(request.input), Acknowledge(request.input)
    PROVE  /\ log' \in Seq(Items) /\ Len(log') = Len(log)
           /\ \A i \in DOMAIN log :
                 /\ Confirms(log'[i], log[i])
                 /\ log'[i].acked => i <= imported
                 /\ Settles /\ log'[i].acked => Stored(log[i])
           /\ attach' \in {attach, Ended} \cap WorkerState
           /\ attach' # attach => attach' \in Outcome
           /\ attach \in Outcome => attach' = attach
           /\ AckedUpTo(request.input.through)'
<1> DEFINE input == request.input
<1>1. input \in AckInput /\ Sound(input)
  BY DEF Inv, Relayed, WireShape, WireHolds
<1>2. /\ log \in Seq(Items) /\ Len(log) \in Nat /\ DOMAIN log = 1..Len(log)
      /\ imported \in Nat /\ imported <= Len(log) /\ Len(inbox) = imported /\ inbox \in Seq(ItemIds)
      /\ Len(log) <= MaxItems
  BY DEF Inv, Relayed, HostShape, HomeShape, InboxFollowsLog
<1>3. input.through \in Nat /\ input.through <= imported /\ input.settlements \subseteq Settlement
      /\ \A s \in input.settlements : OfTheInbox(s)
  BY <1>1, Limits DEF AckInput, Sound
<1>4. ASSUME NEW i \in DOMAIN log
      PROVE  /\ log'[i] \in Items /\ Confirms(log'[i], log[i])
             /\ log'[i].acked <=> log[i].acked \/ i <= input.through
  <2>1. log[i] \in Items
    BY <1>2
  <2>2. log'[i] = IF i <= input.through THEN [log[i] EXCEPT !.acked = TRUE] ELSE log[i]
    BY DEF Acknowledge
  <2> QED BY <2>1, <2>2 DEF Items, Confirms
<1>5. DOMAIN log' = 1..Len(log) /\ log' = [i \in 1..Len(log) |-> log'[i]]
  BY <1>2 DEF Acknowledge
<1>6. log' \in Seq(Items) /\ Len(log') = Len(log)
  BY <1>2, <1>4, <1>5
<1>7. ASSUME NEW i \in DOMAIN log, log'[i].acked PROVE i <= imported /\ (Settles => Stored(log[i]))
  <2>1. CASE log[i].acked
    BY <2>1 DEF Inv, Relayed, HostConfirmed, AckedItemsReachedHome
  <2>2. CASE ~log[i].acked
    <3>1. i <= input.through /\ i <= imported /\ i \in DOMAIN inbox
      BY <1>2, <1>3, <1>4, <1>7, <2>2
    <3>2. CASE log[i].kind # "worker_done"
      <4>1. inbox[i] = log[i].id
        BY <3>1, <3>2 DEF Inv, Relayed, InboxIsOfTheLog
      <4> QED BY <3>1, <4>1 DEF Stored
    <3>3. CASE log[i].kind = "worker_done" /\ Settles
      <4>1. PICK s \in input.settlements : s.seq = i
        BY <2>2, <3>1, <3>3 DEF Acceptable, ReportsSettled, PendingOf, Pending
      <4>2. inbox[i] = log[i].id
        BY <1>3, <4>1 DEF OfTheInbox, Ended
      <4> QED BY <3>1, <4>2 DEF Stored
    <3> QED BY <3>1, <3>2, <3>3
  <2> QED BY <2>1, <2>2
<1>8. \A o \in Terminal(input) : o \in Outcome /\ o = Ended
  BY <1>3 DEF Terminal, OfTheInbox, Ended
<1>9. attach' = attach \/ (attach' \in Terminal(input) /\ attach \in Settleable \cup Terminal(input))
  BY DEF Acknowledge, Acceptable
<1>10. attach \in WorkerState /\ Outcome \subseteq WorkerState /\ Settleable \cap Outcome = {}
  BY DEF Inv, HostShape, Settleable, Outcome, WorkerState
<1>11. AckedUpTo(input.through)'
  BY <1>2, <1>3, <1>4, <1>5 DEF AckedUpTo
<1> QED BY <1>4, <1>6, <1>7, <1>8, <1>9, <1>10, <1>11

(* An awaited request is the one of the sync in flight. *)
LEMMA AwaitedIsAsked ==
    ASSUME Inv, NEW request \in net
    PROVE  /\ request.id \in 1..MaxItems /\ request.input \in AckInput /\ request.awaited \in BOOLEAN
           /\ request.awaited => /\ sync.phase = "acking" /\ request.input.through = AckCursor
                                 /\ \A r \in net \ {request} : ~r.awaited
<1>1. request \in [id : 1..MaxItems, input : AckInput, awaited : BOOLEAN]
  BY DEF Inv, WireShape
<1>2. \A r \in net : r.awaited => sync.phase = "acking" /\ r = Asking
  BY DEF Inv, Relayed, WireHolds
<1>3. Asking.input.through = AckCursor
  BY DEF Asking
<1> QED BY <1>1, <1>2, <1>3

(* A step that confirms nothing. *)
LEMMA NothingConfirmed ==
    ASSUME Inv, UNCHANGED <<log, attach>>
    PROVE  /\ log' \in Seq(Items) /\ Len(log') = Len(log)
           /\ \A i \in DOMAIN log :
                 /\ Confirms(log'[i], log[i])
                 /\ log'[i].acked => i <= imported
                 /\ Settles /\ log'[i].acked => Stored(log[i])
           /\ attach' \in {attach, Ended} \cap WorkerState
           /\ attach' # attach => attach' \in Outcome
           /\ attach \in Outcome => attach' = attach
BY DEF Inv, Relayed, HostShape, HostConfirmed, AckedItemsReachedHome, Confirms

LEMMA ApplyingIsHostStep ==
    ASSUME Inv, NEW request \in net, ApplyAck(request)
    PROVE  HostStep
<1>1. /\ Acceptable(request.input) /\ Acknowledge(request.input)
      /\ receipts' = [receipts EXCEPT ![request.id] = [state |-> "completed", input |-> request.input]]
      /\ net' = net \ {request} /\ answer' = IF request.awaited THEN "accepted" ELSE answer
      /\ UNCHANGED <<protocol, hostEpoch, homeVars, stopCall, boundVars>>
  BY DEF ApplyAck, Receipt, Deliver
<1>2. request.id \in 1..MaxItems /\ request.input \in AckInput
  BY AwaitedIsAsked
<1>3. AckedUpTo(request.input.through)'
  BY <1>1, AcknowledgingConfirms
<1>4. /\ DOMAIN receipts' = 1..MaxItems
      /\ \A r \in 1..MaxItems :
          \/ receipts'[r] = receipts[r]
          \/ /\ receipts'[r] \in [state : {"pending", "completed"}, input : AckInput]
             /\ receipts'[r].state = "completed" =>
                   \E through : receipts'[r].input.through = through /\ AckedUpTo(through)'
  <2>1. DOMAIN receipts = 1..MaxItems
    BY DEF Inv, HostShape
  <2>2. /\ receipts'[request.id] = [state |-> "completed", input |-> request.input]
        /\ \A r \in 1..MaxItems : r # request.id => receipts'[r] = receipts[r]
        /\ DOMAIN receipts' = 1..MaxItems
    BY <1>1, <1>2, <2>1
  <2>3. /\ receipts'[request.id].input.through = request.input.through
        /\ receipts'[request.id] \in [state : {"pending", "completed"}, input : AckInput]
    BY <1>2, <2>2
  <2> QED BY <1>3, <2>2, <2>3
<1>5. AckCursor' = AckCursor
  BY <1>1 DEF AckCursor, homeVars
<1>6. /\ answer' \in {"none", "accepted", "refused"}
      /\ answer' # answer => sync.phase = "acking" /\ \A r \in net' : ~r.awaited
      /\ answer' = "accepted" /\ answer # "accepted" => AckedUpTo(AckCursor)'
  <2>1. answer \in {"none", "accepted", "refused"}
    BY DEF Inv, WireShape
  <2> QED BY <1>1, <1>3, <1>5, <2>1, AwaitedIsAsked
<1>7. hostEpoch' \in Epoch
  BY <1>1 DEF Inv, HostShape
<1> QED BY <1>1, <1>4, <1>6, <1>7, AcknowledgingConfirms DEF HostStep


LEMMA ReplayingIsHostStep ==
    ASSUME Inv, NEW request \in net, ReplayAck(request)
    PROVE  HostStep
<1>1. /\ receipts[request.id] = [state |-> "completed", input |-> request.input]
      /\ net' = net \ {request} /\ answer' = IF request.awaited THEN "accepted" ELSE answer
      /\ UNCHANGED <<protocol, log, attach, receipts, hostEpoch, homeVars, stopCall, boundVars>>
  BY DEF ReplayAck, Replayable, Deliver, hostVars
<1>2. AckedUpTo(request.input.through)
  <2>1. request.id \in 1..MaxItems
    BY AwaitedIsAsked
  <2>2. receipts[request.id] # NoReceipt /\ receipts[request.id].state = "completed"
        /\ receipts[request.id].input.through = request.input.through
    BY <1>1 DEF NoReceipt
  <2> QED BY <2>1, <2>2 DEF Inv, Relayed, HostConfirmed
<1>3. AckedUpTo(request.input.through)'
  BY <1>1, <1>2 DEF AckedUpTo
<1>4. AckCursor' = AckCursor
  BY <1>1 DEF AckCursor, homeVars
<1>5. answer \in {"none", "accepted", "refused"} /\ hostEpoch \in Epoch /\ DOMAIN receipts = 1..MaxItems
  BY DEF Inv, HostShape, WireShape
<1>6. /\ answer' \in {"none", "accepted", "refused"}
      /\ answer' # answer => sync.phase = "acking" /\ \A r \in net' : ~r.awaited
      /\ answer' = "accepted" /\ answer # "accepted" => AckedUpTo(AckCursor)'
  BY <1>1, <1>3, <1>4, <1>5, AwaitedIsAsked
<1>7. UNCHANGED <<log, attach>>
  BY <1>1
<1> QED BY <1>1, <1>5, <1>6, <1>7, NothingConfirmed DEF HostStep

LEMMA RefusingIsHostStep ==
    ASSUME Inv, NEW request \in net, RefuseAck(request)
    PROVE  HostStep
<1>1. /\ net' = net \ {request} /\ answer' = IF request.awaited THEN "refused" ELSE answer
      /\ UNCHANGED <<protocol, log, attach, receipts, hostEpoch, homeVars, stopCall, boundVars>>
  BY DEF RefuseAck, Deliver, hostVars
<1>2. answer \in {"none", "accepted", "refused"} /\ hostEpoch \in Epoch /\ DOMAIN receipts = 1..MaxItems
  BY DEF Inv, HostShape, WireShape
<1>3. /\ answer' \in {"none", "accepted", "refused"}
      /\ answer' # answer => sync.phase = "acking" /\ \A r \in net' : ~r.awaited
      /\ answer' = "accepted" /\ answer # "accepted" => AckedUpTo(AckCursor)'
  BY <1>1, <1>2, AwaitedIsAsked
<1>4. UNCHANGED <<log, attach>>
  BY <1>1
<1> QED BY <1>1, <1>2, <1>3, <1>4, NothingConfirmed DEF HostStep

LEMMA RestartingHostIsHostStep == Inv /\ RestartHost => HostStep
<1> SUFFICES ASSUME Inv, RestartHost PROVE HostStep
  OBVIOUS
<1>1. /\ hostEpoch < MaxEpoch /\ hostEpoch' = hostEpoch + 1 /\ net' = {}
      /\ answer' = (IF sync.phase = "acking" /\ answer = "none" THEN "refused" ELSE answer)
      /\ stopCall' \in {stopCall, "unknown", "none"}
      /\ UNCHANGED <<protocol, homeVars, boundVars>>
  BY DEF RestartHost, Heard
<1>2. answer \in {"none", "accepted", "refused"} /\ hostEpoch \in Epoch /\ DOMAIN receipts = 1..MaxItems
  BY DEF Inv, HostShape, WireShape
<1>3. /\ answer' \in {"none", "accepted", "refused"} /\ hostEpoch' \in Epoch
      /\ answer' # answer => sync.phase = "acking" /\ answer' # "accepted"
  BY <1>1, <1>2, Limits DEF Epoch
<1>4. CASE UNCHANGED <<log, attach, receipts>>
  BY <1>1, <1>2, <1>3, <1>4, NothingConfirmed DEF HostStep
<1>5. ASSUME NEW request \in net, Receipt(request, "pending"),
             UNCHANGED <<log, attach>> \/ (Acceptable(request.input) /\ Acknowledge(request.input))
      PROVE  HostStep
  <2>1. request.id \in 1..MaxItems /\ request.input \in AckInput
    BY AwaitedIsAsked
  <2>2. /\ DOMAIN receipts' = 1..MaxItems
        /\ \A r \in 1..MaxItems :
            \/ receipts'[r] = receipts[r]
            \/ /\ receipts'[r] \in [state : {"pending", "completed"}, input : AckInput]
               /\ receipts'[r].state = "pending"
    BY <1>2, <1>5, <2>1 DEF Receipt
  <2>3. /\ log' \in Seq(Items) /\ Len(log') = Len(log)
        /\ \A i \in DOMAIN log :
              /\ Confirms(log'[i], log[i])
              /\ log'[i].acked => i <= imported
              /\ Settles /\ log'[i].acked => Stored(log[i])
        /\ attach' \in {attach, Ended} \cap WorkerState
        /\ attach' # attach => attach' \in Outcome
        /\ attach \in Outcome => attach' = attach
    BY <1>5, NothingConfirmed, AcknowledgingConfirms
  <2> QED BY <1>1, <1>3, <2>2, <2>3 DEF HostStep
<1> QED BY <1>4, <1>5 DEF RestartHost

LEMMA AnswersAreHostSteps == Inv /\ (HostAnswers \/ RestartHost) => HostStep
BY ApplyingIsHostStep, ReplayingIsHostStep, RefusingIsHostStep, RestartingHostIsHostStep DEF HostAnswers

-----------------------------------------------------------------------------
(* Stopping and abandoning the worker. *)

(* A stop, an abandonment or a task that moves on may end the attempt, in   *)
(* no other way than in failure, and gives the host no verdict.             *)
StopStep ==
    /\ UNCHANGED <<protocol, log, receipts, hostEpoch, inbox, rowVars, checkpoint, known, sync, net,
                   answer, boundVars>>
    /\ home' \in HomeState /\ agreed' \in BOOLEAN
    /\ Ended' = Ended \/ (Ended = "open" /\ Ended' = "failed")
    /\ attach' \in WorkerState /\ (attach' = attach \/ {attach, attach'} \cap Outcome = {})
    /\ stopCall' \in {"none", "asked", "served", "stopped", "settled", "unknown"}

LEMMA StopsStep == Inv /\ (StopWorker \/ MoveOn) => StopStep
<1> SUFFICES ASSUME Inv, StopWorker \/ MoveOn PROVE StopStep
  OBVIOUS
<1>1. /\ home \in HomeState /\ attach \in WorkerState /\ agreed \in BOOLEAN
      /\ stopCall \in {"none", "asked", "served", "stopped", "settled", "unknown"}
  BY DEF Inv, HostShape, HomeShape, WireShape
<1>2. /\ {"ready", "stopping", "stop_unknown", "stopped"} \subseteq WorkerState
      /\ {"ready", "stopping", "stop_unknown", "stopped"} \cap Outcome = {}
      /\ WorkerState = {"ready", "stopping", "stop_unknown", "stopped"} \cup Outcome
      /\ HomeState = WorkerState \cup {"abandoned"}
  BY DEF HomeState, WorkerState, HomeUnsettled, Outcome
<1>3. CASE BeginStop
  BY <1>1, <1>2, <1>3 DEF BeginStop, StopStep, hostVars, Ended, HomeUnsettled
<1>4. CASE HostBeginsStop
  BY <1>1, <1>2, <1>4 DEF HostBeginsStop, Heard, StopStep, homeVars, Ended
<1>5. CASE HostEndsStop
  BY <1>1, <1>2, <1>5 DEF HostEndsStop, StopStep, homeVars, Ended
<1>6. CASE HearStop
  BY <1>1, <1>2, <1>6 DEF HearStop, StopStep, hostVars, Ended, HomeUnsettled
<1>7. CASE StopCallFails
  BY <1>1, <1>2, <1>7 DEF StopCallFails, GivenUp, StopStep, hostVars, Ended, HomeUnsettled
<1>8. CASE ObserveStopped
  BY <1>1, <1>2, <1>8 DEF ObserveStopped, GivenUp, StopStep, hostVars, Ended, HomeUnsettled
<1>9. CASE Abandon
  BY <1>1, <1>2, <1>9 DEF Abandon, StopStep, hostVars, wireVars, Ended, HomeUnsettled, Settleable
<1>10. CASE TaskMovesOn
  BY <1>1, <1>2, <1>10 DEF TaskMovesOn, StopStep, hostVars, wireVars, Ended
<1> QED BY <1>3, <1>4, <1>5, <1>6, <1>7, <1>8, <1>9, <1>10 DEF StopWorker, MoveOn

LEMMA StoppingKeeps ==
    ASSUME Inv, StopStep
    PROVE  Inv'
<1>1. /\ UNCHANGED <<protocol, log, receipts, hostEpoch, inbox, imported, acknowledged, seenEpoch,
                     checkpoint, known, sync, net, answer, losses, restarts>>
  BY DEF StopStep, rowVars, boundVars
<1>2. HostShape' /\ HomeShape'
  BY <1>1 DEF StopStep, Inv, HostShape, HomeShape
<1>3. SyncShape' /\ WireShape'
  BY <1>1 DEF StopStep, Inv, SyncShape, WireShape
<1>4. (SlotsAreTheirOwn /\ InboxFollowsLog /\ InboxIsOfTheLog)'
  BY <1>1 DEF Inv, Relayed, SlotsAreTheirOwn, InboxFollowsLog, InboxIsOfTheLog
<1>5. /\ \A s : OfTheInbox(s) => OfTheInbox(s)'
      /\ \A entry : OfTheLog(entry) => OfTheLog(entry)'
  BY <1>1 DEF StopStep, OfTheInbox, OfTheLog, Outcome
<1>6. AckCursor' = AckCursor /\ Asking' = Asking
  BY <1>1 DEF AckCursor, Asking, RequestId
<1>7. SyncHolds' /\ WireHolds'
  BY <1>1, <1>5, <1>6 DEF Inv, Relayed, SyncHolds, WireHolds, Sound
<1>8. HostConfirmed' /\ RecordedIsAcked'
  BY <1>1, <1>6 DEF Inv, Relayed, HostConfirmed, RecordedIsAcked, AckedUpTo
<1>9. AckedItemsReachedHome' /\ HostFollowsHome'
  BY <1>1 DEF StopStep, Inv, Relayed, AckedItemsReachedHome, Stored, Settles, HostFollowsHome, Outcome
<1> QED BY <1>2, <1>3, <1>4, <1>7, <1>8, <1>9 DEF Inv, Relayed

-----------------------------------------------------------------------------
(* The invariant, and what follows from it. *)

LEMMA StutteringKeeps ==
    ASSUME Inv, UNCHANGED vars
    PROVE  Inv'
<1>1. /\ UNCHANGED <<protocol, homeVars, boundVars>>
      /\ UNCHANGED <<log, attach, receipts, hostEpoch, net, answer, stopCall>>
  BY DEF vars, hostVars, wireVars
<1>2. answer \in {"none", "accepted", "refused"} /\ hostEpoch \in Epoch /\ DOMAIN receipts = 1..MaxItems
  BY DEF Inv, HostShape, WireShape
<1>3. HostStep
  BY <1>1, <1>2, NothingConfirmed DEF HostStep
<1> QED BY <1>3, HostStepKeeps

(* The inductive invariant: after any sequence of reports, syncs, answers,  *)
(* stops, losses and restarts, for any number of items, page size and quota. *)
THEOREM RelayHolds == Spec => []Inv
<1>1. Inv /\ [Next]_vars => Inv'
  <2> SUFFICES ASSUME Inv, [Next]_vars PROVE Inv'
    OBVIOUS
  <2>1. CASE WorkerSends
    BY <2>1, SendsStep, SendingKeeps
  <2>2. CASE HomeSyncs
    <3>1. CASE ResolveCapability \/ SkipAck \/ HearAck
      BY <3>1, ResolvingRests, SkippingRests, HearingRests, RestingKeeps
    <3>2. CASE RefusePage \/ HearRefusal
      BY <3>2, EndingRests, RestingKeeps
    <3>3. CASE PullPage \/ ImportItem \/ SendAck
      BY <3>3, PullingKeeps, ImportingKeeps, AskingKeeps
    <3> QED BY <2>2, <3>1, <3>2, <3>3 DEF HomeSyncs
  <2>3. CASE HostAnswers \/ RestartHost
    BY <2>3, AnswersAreHostSteps, HostStepKeeps
  <2>4. CASE StopWorker \/ MoveOn
    BY <2>4, StopsStep, StoppingKeeps
  <2>5. CASE LoseAck \/ RestartHome
    BY <2>5, EndingRests, RestartingHomeRests, RestingKeeps
  <2>6. CASE UNCHANGED vars
    BY <2>6, StutteringKeeps
  <2> QED BY <2>1, <2>2, <2>3, <2>4, <2>5, <2>6 DEF Next
<1> QED BY <1>1, InitKeeps, PTL DEF Spec

(* Every row, request and answer keeps its type: the page budget, the       *)
(* cursors and the barrier stay in range.                                   *)
THEOREM RelayTypes == Spec => []TypeOK
<1>1. Inv => TypeOK
  BY Shaped DEF Inv
<1> QED BY <1>1, RelayHolds, PTL

(* The home stores every item once and in order, however often pages are    *)
(* replayed.                                                                *)
THEOREM InboxIsTheLog == Spec => []InboxFollowsLog
<1>1. Inv => InboxFollowsLog
  BY DEF Inv, Relayed
<1> QED BY <1>1, RelayHolds, PTL

(* Under protocol 3 the host drops nothing the home does not hold.          *)
THEOREM NothingDropped == Spec => []AckedItemsReachedHome
<1>1. Inv => AckedItemsReachedHome
  BY DEF Inv, Relayed
<1> QED BY <1>1, RelayHolds, PTL

(* What the home records as acknowledged is acknowledged on the host.       *)
THEOREM CursorIsTrue == Spec => []RecordedIsAcked
<1>1. Inv => RecordedIsAcked
  BY DEF Inv, Relayed
<1> QED BY <1>1, RelayHolds, PTL

-----------------------------------------------------------------------------
(* The relay implements in-order delivery. *)

Confirmation == DOMAIN log \ Pending
ToldVerdict == IF Settles THEN Told(attach) ELSE "open"

(* What is confirmed can be counted, and is part of what was imported.      *)
Counted == IsFiniteSet(Confirmation) /\ Cardinality(Confirmation) \in 0..imported

LEMMA ConfirmationIs ==
    Inv => Counted
<1> HAVE Inv
<1>1. Confirmation = {i \in DOMAIN log : log[i].acked}
  BY DEF Confirmation, Pending
<1>2. imported \in Nat /\ DOMAIN log = 1..Len(log) /\ \A i \in DOMAIN log : log[i].acked => i <= imported
  BY DEF Inv, Relayed, HostShape, HomeShape, HostConfirmed
<1>3. Confirmation \subseteq 1..imported
  BY <1>1, <1>2 DEF HostShape
<1>4. IsFiniteSet(1..imported) /\ Cardinality(1..imported) = imported
  BY <1>2, FS_Interval
<1>5. IsFiniteSet(Confirmation) /\ Cardinality(Confirmation) <= imported
  BY <1>3, <1>4, FS_Subset
<1>6. Cardinality(Confirmation) \in Nat
  BY <1>5, FS_CardinalityType
<1> QED BY <1>2, <1>5, <1>6 DEF Counted

LEMMA DeliveryInit == Init => Delivery!Init
<1> SUFFICES ASSUME Init PROVE Delivery!Init
  OBVIOUS
<1>1. log = <<>> /\ imported = 0 /\ home = "ready" /\ attach = "ready"
  BY DEF Init
<1>2. Confirmation = {} /\ Len(log) = 0
  BY <1>1 DEF Confirmation
<1>3. Cardinality(Confirmation) = 0
  BY <1>2, FS_EmptySet
<1> QED BY <1>1, <1>2, <1>3 DEF Delivery!Init, Confirmation, Told, Outcome, Ended, HomeUnsettled

(* The counts and verdicts of which the abstract specification speaks stay. *)
LEMMA DeliveryStutters ==
    ASSUME UNCHANGED <<protocol, log, imported>>, Ended' = Ended, Told(attach') = Told(attach)
    PROVE  UNCHANGED Delivery!delivery
BY DEF Delivery!delivery, Pending, Settles

(* Queueing an item is acceptance; a verdict in a heartbeat's slot is none. *)
LEMMA SendingAccepts ==
    ASSUME Inv, SendStep
    PROVE  [Delivery!Next]_(Delivery!delivery)
<1>1. /\ log \in Seq(Items) /\ log' \in Seq(Items) /\ Len(log') <= MaxItems
      /\ DOMAIN log = 1..Len(log) /\ DOMAIN log' = 1..Len(log') /\ Len(log) \in Nat /\ Len(log') \in Nat
  BY DEF Inv, HostShape, SendStep
<1>2. Len(log') \in {Len(log), Len(log) + 1}
  BY DEF SendStep
<1>3. Confirmation' = Confirmation
  <2>1. \A i \in DOMAIN log : log'[i] = log[i] \/ (~log[i].acked /\ ~log'[i].acked)
    BY DEF SendStep, Reporting
  <2>2. CASE Len(log') = Len(log) + 1
    <3>0. Len(log') # Len(log)
      <4>1. Len(log) \in Nat
        BY <1>1
      <4>2. \A n \in Nat : n + 1 # n
        OBVIOUS
      <4> QED BY <2>2, <4>1, <4>2, Zenon
    <3>1. Queued(log'[Len(log) + 1], Len(log) + 1)
      BY <3>0 DEF SendStep
    <3>2. DOMAIN log' = DOMAIN log \cup {Len(log) + 1}
      BY <1>1, <2>2
    <3>3. ~log'[Len(log) + 1].acked
      BY <3>1 DEF Queued
    <3> QED BY <2>1, <3>2, <3>3 DEF Confirmation, Pending
  <2>3. CASE Len(log') = Len(log)
    BY <1>1, <2>1, <2>3 DEF Confirmation, Pending
  <2> QED BY <1>2, <2>2, <2>3
<1>4. Cardinality(Confirmation)' = Cardinality(Confirmation)
  BY <1>3
<1>5. imported' = imported /\ Ended' = Ended /\ ToldVerdict' = ToldVerdict
  BY DEF SendStep, homeVars, rowVars, ToldVerdict, Settles, Ended
<1>6. CASE Len(log') = Len(log) + 1
  BY <1>1, <1>4, <1>5, <1>6, Limits DEF Delivery!Next, Delivery!Accept, Confirmation, ToldVerdict, Told
<1>7. CASE Len(log') = Len(log)
  BY <1>4, <1>5, <1>7 DEF Delivery!delivery, Confirmation, ToldVerdict, Told
<1> QED BY <1>2, <1>6, <1>7

(* An acknowledgment confirms, and hands the verdict over.                  *)
LEMMA HostConfirms ==
    ASSUME Inv, HostStep
    PROVE  [Delivery!Next]_(Delivery!delivery)
<1>1. /\ UNCHANGED <<protocol, home, agreed, inbox, imported>> /\ Len(log') = Len(log)
      /\ DOMAIN log' = DOMAIN log
  BY DEF HostStep, homeVars, rowVars, Inv, HostShape
<1>2. Confirmation \subseteq Confirmation'
  BY <1>1 DEF HostStep, Confirms, Confirmation, Pending
<1>3. /\ IsFiniteSet(Confirmation') /\ Cardinality(Confirmation') \in 0..imported
      /\ Cardinality(Confirmation) \in 0..imported /\ imported \in Nat
  <2>1. Inv'
    BY HostStepKeeps
  <2>2. Counted'
    BY <2>1, ConfirmationIs, PTL
  <2>3. Counted
    BY ConfirmationIs
  <2> QED BY <1>1, <2>2, <2>3 DEF Counted, Inv, HomeShape
<1>4. Cardinality(Confirmation') \in Cardinality(Confirmation)..imported
  BY <1>2, <1>3, FS_Subset
<1>5. /\ ToldVerdict' \in {ToldVerdict, Ended}
      /\ ToldVerdict # "open" => ToldVerdict' = ToldVerdict
  BY <1>1 DEF HostStep, ToldVerdict, Told, Settles
<1>6. Ended' = Ended
  BY <1>1 DEF Ended
<1> QED BY <1>1, <1>4, <1>5, <1>6 DEF Delivery!Next, Delivery!Confirm, Confirmation, ToldVerdict

(* A page's item arrives, is repeated, or is settled at last.               *)
LEMMA ImportArrives ==
    ASSUME Inv, ImportItem
    PROVE  [Delivery!Next]_(Delivery!delivery)
<1> DEFINE next == Head(sync.page)
           seq == next.seq
<1>1. /\ sync.page # <<>> /\ Fits(next)
      /\ imported' = (IF seq > imported THEN seq ELSE imported)
      /\ home' = (IF next.item.kind = "worker_done" /\ Accepts(next.item) /\ home \in Settleable
                  THEN next.item.outcome ELSE home)
      /\ UNCHANGED <<protocol, log, attach>>
  BY DEF ImportItem, hostVars
<1>2. next \in PageItem /\ OfTheLog(next)
  <2>1. sync.page \in Seq(PageItem) /\ \A n \in DOMAIN sync.page : OfTheLog(sync.page[n])
    BY DEF Inv, Relayed, SyncShape, SyncHolds
  <2> QED BY <1>1, <2>1
<1>3. /\ seq \in 1..MaxItems /\ seq \in DOMAIN log /\ imported \in Nat /\ DOMAIN log = 1..Len(log)
      /\ next.item.kind = "worker_done" => next.item.outcome \in Outcome
      /\ home \in HomeState /\ Len(log) \in Nat
  BY <1>2 DEF PageItem, OfTheLog, Inv, HostShape, HomeShape
<1>4. seq <= imported \/ seq = imported + 1
  BY <1>1, <1>3 DEF Fits
<1>5. Ended' = Ended \/ (Ended = "open" /\ Ended' \in Outcome)
  BY <1>1, <1>3, EndedIs DEF Ended, Settleable, Outcome, HomeUnsettled
<1>6. Confirmation' = Confirmation /\ Len(log)' = Len(log) /\ ToldVerdict' = ToldVerdict
  BY <1>1 DEF Confirmation, Pending, ToldVerdict, Told, Settles
<1>7. Cardinality(Confirmation)' = Cardinality(Confirmation)
  BY <1>6
<1> HIDE DEF next
<1>8. CASE seq = imported + 1
  <2>1. imported < Len(log) /\ imported' = imported + 1
    BY <1>1, <1>3, <1>8
  <2>2. Ended' \in IF Ended = "open" THEN {"open"} \cup Outcome ELSE {Ended}
    BY <1>5
  <2> QED BY <1>6, <1>7, <2>1, <2>2 DEF Delivery!Next, Delivery!Arrive, Delivery!Verdicts, Outcome, Confirmation, ToldVerdict
<1>9. CASE seq <= imported /\ Ended' = Ended
  <2>1. imported' = imported
    BY <1>1, <1>3, <1>9
  <2> QED BY <1>6, <1>7, <1>9, <2>1 DEF Delivery!delivery, Confirmation, ToldVerdict, Told
<1>10. CASE seq <= imported /\ Ended = "open" /\ Ended' \in Outcome
  <2>1. imported' = imported /\ imported > 0
    BY <1>1, <1>3, <1>10
  <2> QED BY <1>6, <1>7, <1>10, <2>1 DEF Delivery!Next, Delivery!Reconsider, Delivery!Verdicts, Outcome, Confirmation, ToldVerdict
<1> QED BY <1>4, <1>5, <1>8, <1>9, <1>10

(* The relay is an in-order delivery with late confirmation and one verdict, *)
(* which the home reaches first and a protocol-3 host takes over unchanged. *)
THEOREM RelayDelivers == Spec => DeliversInOrder
<1>1. Inv /\ [Next]_vars => [Delivery!Next]_(Delivery!delivery)
  <2> SUFFICES ASSUME Inv, [Next]_vars PROVE [Delivery!Next]_(Delivery!delivery)
    OBVIOUS
  <2>1. CASE WorkerSends
    BY <2>1, SendsStep, SendingAccepts
  <2>2. CASE ImportItem
    BY <2>2, ImportArrives
  <2>3. CASE HostAnswers \/ RestartHost
    BY <2>3, AnswersAreHostSteps, HostConfirms
  <2>4. CASE StopWorker \/ MoveOn
    <3>1. StopStep
      BY <2>4, StopsStep
    <3>2. UNCHANGED <<protocol, log, imported>> /\ Told(attach') = Told(attach)
      BY <3>1 DEF StopStep, rowVars, Told
    <3>3. CASE Ended' = Ended
      BY <3>2, <3>3, DeliveryStutters
    <3>4. CASE Ended = "open" /\ Ended' = "failed"
      BY <3>2, <3>4 DEF Delivery!Next, Delivery!GiveUp, Pending, Settles
    <3> QED BY <3>1, <3>3, <3>4 DEF StopStep
  <2>5. CASE SyncRests
    BY <2>5, DeliveryStutters DEF SyncRests, hostVars, Ended
  <2>6. CASE PullPage \/ SendAck \/ UNCHANGED vars
    <3>1. UNCHANGED <<protocol, log, imported, home, attach>>
      BY <2>6 DEF PullPage, SendAck, vars, hostVars, homeVars, rowVars
    <3> QED BY <3>1, DeliveryStutters DEF Ended
  <2>7. CASE ResolveCapability \/ SkipAck \/ HearAck \/ RefusePage \/ HearRefusal \/ LoseAck \/ RestartHome
    <3>1. SyncRests
      BY <2>7, ResolvingRests, SkippingRests, HearingRests, EndingRests, RestartingHomeRests
    <3> QED BY <2>5, <3>1
  <2> QED BY <2>1, <2>2, <2>3, <2>4, <2>6, <2>7 DEF Next, HomeSyncs
<1> QED BY <1>1, DeliveryInit, RelayHolds, PTL DEF Spec, DeliversInOrder, Delivery!Spec

=============================================================================
