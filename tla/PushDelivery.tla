---------------------------- MODULE PushDelivery ----------------------------
(***************************************************************************)
(* The durable queue of the push gateway (cloud/apps/push): notifications  *)
(* that a host asks to be delivered to its registered phones, the drains   *)
(* that claim them one per phone under a lease, send them to the provider  *)
(* and finish or postpone them, and the dismissals that cancel alerts.     *)
(*                                                                         *)
(* The claim is the PostgreSQL one: a transaction that locks a candidate   *)
(* row, then the device, then reads the device's queue again, while other  *)
(* drains, requests and lease completions commit between its statements.   *)
(***************************************************************************)
EXTENDS Naturals, FiniteSets

CONSTANTS
    Devices,      \* registrations of one host
    Drains,       \* worker drains, of any number of gateway processes
    None,         \* no lease token
    Events,       \* events about one notificationId, by notificationSeq
    Dismissals,   \* the events of kind 'dismiss'; the others are alerts
    ClaimAttempts,\* CLAIM_CANDIDATE_ATTEMPTS
    MaxRetries,   \* bound: retryable outcomes
    MaxFaults     \* bound: drains lost with their process, leases lapsed under a live drain

ASSUME PushAssumption ==
    /\ Events \subseteq Nat \ {0} /\ Dismissals \subseteq Events
    /\ None \notin Drains /\ ClaimAttempts \in Nat \ {0}
    /\ Devices # {} /\ Events # {}
    /\ MaxRetries \in Nat /\ MaxFaults \in Nat

VARIABLES
    queue,       \* push_delivery_batches of a device
    recipients,  \* push_event_recipients: <<device, event>>
    dismissedTo, \* push_dismissed_events: newest dismissal committed, or 0
    expired,     \* events past their expires_at
    pc, task,    \* what each drain is doing, and to which <<device, event>>
    rowLocks,    \* rows the drain's claim transaction has locked
    deviceLocks, \* devices the drain's claim transaction has locked
    past,        \* events past their expires_at when the drain's claim read the clock
    shown,       \* observation: alerts in the tray of each phone
    fenced,      \* observation: newest dismissal a phone received, or 0
    settled,     \* observation: deliveries finished and never to be sent again
    strayed,     \* observation: phones sent to by a drain whose lease had lapsed
    stalled,     \* observation: drains whose present lease has lapsed once
    retries, faults

tables == <<queue, recipients, dismissedTo, expired>>
claims == <<pc, task, rowLocks, deviceLocks, past>>
phones == <<shown, fenced, settled, strayed, stalled>>
budgets == <<retries, faults>>
vars == <<tables, claims, phones, budgets>>

Alerts == Events \ Dismissals
Row == [event : Events, ahead : SUBSET Events, token : Drains \cup {None}, live : BOOLEAN]
Sending == {"leased", "sending", "sent", "retry", "refused"}

-----------------------------------------------------------------------------
(* The queue of a device.  "live" is lease_until > now, and "ahead" are the *)
(* rows that sort before a row by due_at, created_at and batch_id.  Gateway *)
(* processes have clocks of their own, accept reads its clock before its    *)
(* transaction and a tie falls to a random batch_id: a row that is new or   *)
(* postponed lands anywhere in the order.  The rows due at a claim's now    *)
(* are the first ones, so that a claim chooses the foremost row or none.    *)

Rows(d) == queue[d]
Leased(r) == r.token # None /\ r.live
Busy(d) == \E r \in Rows(d) : Leased(r)

Queued(rows) == {r.event : r \in rows}
Without(rows, gone) ==
    {[r EXCEPT !.ahead = @ \ gone] : r \in {s \in rows : s.event \notin gone}}

\* The beginnings of a queue.
Fronts(rows) ==
    {front \in SUBSET Queued(rows) : \A r \in rows : r.event \in front => r.ahead \subseteq front}

\* A row for event e, right behind the front.
Pending(e, front) == [event |-> e, ahead |-> front, token |-> None, live |-> FALSE]
Enqueue(rows, e, front) ==
    {IF r.event \in front THEN r ELSE [r EXCEPT !.ahead = @ \cup {e}] : r \in rows}
        \cup {Pending(e, front)}

\* The first of some rows of a device.
Foremost(rows) == {r \in rows : \A s \in rows : s.event \notin r.ahead}

Locked(d, e) == \E w \in Drains : <<d, e>> \in rowLocks[w]
DeviceNeverLocked(d, w) == FALSE  \* mutant: the claim does not lock the device

DeviceLocked(d, w) == \E v \in Drains \ {w} : d \in deviceLocks[v]
Skipped(w) == {p[1] : p \in rowLocks[w]}

\* The row of drain w's task, while w still holds its lease token.
Holds(w, r) == r.event = task[w][2] /\ r.token = w
HasToken(w) == pc[w] \in Sending /\ \E r \in Rows(task[w][1]) : Holds(w, r)
HasLease(w) == pc[w] \in Sending /\ \E r \in Rows(task[w][1]) : Holds(w, r) /\ r.live

\* An update or delete of w's row waits for the claim that has it locked.
Unblocked(w) == \A v \in Drains : task[w] \notin rowLocks[v]

\* An idle drain has no task of its own: any value stands for it.
NoTask == CHOOSE t \in Devices \X Events : TRUE
Goto(w, next) == pc' = [pc EXCEPT ![w] = next] /\ UNCHANGED task
Rest(w) == pc' = [pc EXCEPT ![w] = "idle"] /\ task' = [task EXCEPT ![w] = NoTask]

TypeOK ==
    /\ queue \in [Devices -> SUBSET Row]
    /\ recipients \subseteq Devices \X Events
    /\ dismissedTo \in Dismissals \cup {0}
    /\ expired \subseteq Events
    /\ pc \in [Drains -> {"idle", "chosen", "owner"} \cup Sending]
    /\ task \in [Drains -> Devices \X Events]
    /\ rowLocks \in [Drains -> SUBSET (Devices \X Events)]
    /\ deviceLocks \in [Drains -> SUBSET Devices]
    /\ past \in [Drains -> SUBSET Events]
    /\ shown \in [Devices -> SUBSET Alerts]
    /\ fenced \in [Devices -> Dismissals \cup {0}]
    /\ settled \subseteq Devices \X Events /\ strayed \subseteq Devices
    /\ stalled \subseteq Drains
    /\ \A d \in Devices : \A r, s \in Rows(d) :
          /\ r.event = s.event => r = s
          /\ s.event \in r.ahead <=> r # s /\ r.event \notin s.ahead
          /\ s.event \in r.ahead => s.ahead \subseteq r.ahead
    /\ retries \in 0 .. MaxRetries /\ faults \in 0 .. MaxFaults

Init ==
    /\ queue = [d \in Devices |-> {}]
    /\ recipients = {} /\ dismissedTo = 0 /\ expired = {}
    /\ pc = [w \in Drains |-> "idle"]
    /\ task = [w \in Drains |-> NoTask]
    /\ rowLocks = [w \in Drains |-> {}] /\ deviceLocks = [w \in Drains |-> {}]
    /\ past = [w \in Drains |-> {}]
    /\ shown = [d \in Devices |-> {}] /\ fenced = [d \in Devices |-> 0]
    /\ settled = {} /\ strayed = {} /\ stalled = {}
    /\ retries = 0 /\ faults = 0

-----------------------------------------------------------------------------
(* Requests                                                                *)

CancelledAnySeq(r, x) == r.event \in Alerts /\ ~Leased(r)  \* mutant: cancels newer alerts too

\* Alerts a dismissal deletes: no lease, or one that lapsed.
Cancelled(r, x) == r.event \in Alerts /\ r.event <= x /\ ~Leased(r)

DuplicateWhileQueued(d, e) == \E r \in Rows(d) : r.event = e  \* mutant: forgets finished deliveries
DuplicateNever(d, e) == FALSE  \* mutant: no deduplication

\* A phone that was sent the event before is not sent it again.
Duplicate(d, e) == <<d, e>> \in recipients

\* The registration is read before the transaction: one that was deleted or
\* retired since is queued for all the same.
AcceptAlert(d, e) ==
    /\ e \in Alerts \ expired
    /\ ~Duplicate(d, e)
    /\ dismissedTo < e
    /\ \E front \in Fronts(Rows(d)) : queue' = [queue EXCEPT ![d] = Enqueue(@, e, front)]
    /\ recipients' = recipients \cup {<<d, e>>}
    /\ UNCHANGED <<dismissedTo, expired, claims, phones, budgets>>

\* The delete waits for claims that have one of its rows locked.
AcceptDismissal(d, x) ==
    LET kept == Without(Rows(d), Queued({r \in Rows(d) : Cancelled(r, x)}))
    IN  /\ x \in Dismissals \ expired
        /\ ~Duplicate(d, x)
        /\ \A r \in Rows(d) : Cancelled(r, x) => ~Locked(d, r.event)
        /\ dismissedTo' = IF dismissedTo > x THEN dismissedTo ELSE x
        /\ \E front \in Fronts(kept) :
              queue' = [queue EXCEPT ![d] = Enqueue(kept, x, front)]
        /\ recipients' = recipients \cup {<<d, x>>}
        /\ UNCHANGED <<expired, claims, phones, budgets>>

-----------------------------------------------------------------------------
(* The claim transaction                                                   *)

\* The claim reads its clock once, before its first scan.
Past(w) == IF rowLocks[w] = {} THEN expired ELSE past[w]

Claimable(w, r) == ~Leased(r) /\ r.event \notin Past(w)

\* The candidate scan: FOR UPDATE SKIP LOCKED, in the order of the queue
\* within a device that has no lease.
Candidate(w, d) ==
    IF d \in Skipped(w) \/ Busy(d) THEN {}
    ELSE Foremost({r \in Rows(d) : Claimable(w, r) /\ ~Locked(d, r.event)})

ScanCandidate(w, d) ==
    /\ pc[w] = "idle" /\ Cardinality(Skipped(w)) < ClaimAttempts
    /\ \E r \in Candidate(w, d) :
          /\ task' = [task EXCEPT ![w] = <<d, r.event>>]
          /\ rowLocks' = [rowLocks EXCEPT ![w] = @ \cup {<<d, r.event>>}]
    /\ pc' = [pc EXCEPT ![w] = "chosen"]
    /\ past' = [past EXCEPT ![w] = Past(w)]
    /\ UNCHANGED <<tables, deviceLocks, phones, budgets>>

\* ownsDeviceHead: the device lock, then the device's queue read again.  Its
\* query counts every row of the device that has not expired, due or not.
IsHead(w, d, e) ==
    /\ \E r \in Foremost({s \in Rows(d) : s.event \notin Past(w)}) : r.event = e
    /\ ~Busy(d)

OwnDevice(w) ==
    LET d == task[w][1] IN
    /\ pc[w] = "chosen" /\ ~DeviceLocked(d, w)
    /\ IsHead(w, d, task[w][2])
    /\ Goto(w, "owner")
    /\ deviceLocks' = [deviceLocks EXCEPT ![w] = @ \cup {d}]
    /\ UNCHANGED <<tables, rowLocks, past, phones, budgets>>

\* Skipped, also for a lease that ran out after the claim read its clock: the
\* row and, when it was free, the device stay locked to the end.
SkipDevice(w) ==
    LET d == task[w][1] IN
    /\ pc[w] = "chosen"
    /\ \/ DeviceLocked(d, w) \/ ~IsHead(w, d, task[w][2])
       \/ \E r \in Rows(d) : r.event # task[w][2] /\ r.token # None
    /\ Rest(w)
    /\ deviceLocks' = [deviceLocks EXCEPT ![w] =
                          IF DeviceLocked(d, w) THEN @ ELSE @ \cup {d}]
    /\ UNCHANGED <<tables, rowLocks, past, phones, budgets>>

Unlock(w) ==
    /\ rowLocks' = [rowLocks EXCEPT ![w] = {}]
    /\ deviceLocks' = [deviceLocks EXCEPT ![w] = {}]
    /\ past' = [past EXCEPT ![w] = {}]

\* The attempts used up, or no candidate that is due: claim returns null.
EndClaim(w) ==
    /\ pc[w] = "idle" /\ rowLocks[w] # {}
    /\ Unlock(w)
    /\ UNCHANGED <<tables, pc, task, phones, budgets>>

IsDismissedAlertOnAccept(e) == FALSE  \* mutant: checked on acceptance only

IsDismissedAlert(e) == e \in Alerts /\ dismissedTo >= e

Lease(w) ==
    LET d == task[w][1]
        e == task[w][2]
    IN  /\ pc[w] = "owner" /\ ~IsDismissedAlert(e)
        /\ queue' = [queue EXCEPT ![d] =
                        {IF r.event = e THEN [r EXCEPT !.token = w, !.live = TRUE] ELSE r :
                            r \in @}]
        /\ Goto(w, "leased")
        /\ Unlock(w)
        /\ stalled' = stalled \ {w}
        /\ UNCHANGED <<recipients, dismissedTo, expired, shown, fenced, settled, strayed,
                       budgets>>

DropDismissed(w) ==
    LET d == task[w][1]
        e == task[w][2]
    IN  /\ pc[w] = "owner" /\ IsDismissedAlert(e)
        /\ queue' = [queue EXCEPT ![d] = Without(@, {e})]
        /\ Rest(w)
        /\ Unlock(w)
        /\ UNCHANGED <<recipients, dismissedTo, expired, phones, budgets>>

-----------------------------------------------------------------------------
(* Sending                                                                 *)

\* The event's lifetime is checked before the send, then the registration.
\* A refusal of the provider retires a registration, the phone renews it under
\* the same id and the host deletes it, at any time: it may be live or not.
BeginSend(w) ==
    /\ pc[w] = "leased"
    /\ \/ Goto(w, "refused")
       \/ task[w][2] \notin expired /\ Goto(w, "sending")
    /\ UNCHANGED <<tables, rowLocks, deviceLocks, past, phones, budgets>>

\* What the phone does with a push: an alert is shown, a dismissal clears
\* the alerts it covers.
Arrive(w) ==
    LET d == task[w][1]
        e == task[w][2]
    IN  /\ shown' = [shown EXCEPT ![d] =
                        IF e \in Alerts THEN @ \cup {e} ELSE {a \in @ : a > e}]
        /\ fenced' = [fenced EXCEPT ![d] = IF e \in Alerts \/ @ > e THEN @ ELSE e]
        /\ strayed' = IF w \in stalled THEN strayed \cup {d} ELSE strayed
        /\ UNCHANGED <<settled, stalled>>

ProviderAccepts(w) ==
    /\ pc[w] = "sending" /\ Arrive(w) /\ Goto(w, "sent")
    /\ UNCHANGED <<tables, rowLocks, deviceLocks, past, budgets>>

\* A retryable error; when the answer was lost the push may have arrived.
ProviderRetryable(w) ==
    /\ pc[w] = "sending" /\ retries < MaxRetries
    /\ Arrive(w) \/ UNCHANGED phones
    /\ Goto(w, "retry")
    /\ retries' = retries + 1
    /\ UNCHANGED <<tables, rowLocks, deviceLocks, past, faults>>

\* A final error, or a token the provider no longer knows.
ProviderRefuses(w) ==
    /\ pc[w] = "sending" /\ Goto(w, "refused")
    /\ UNCHANGED <<tables, rowLocks, deviceLocks, past, phones, budgets>>

MayFinishById(w) == TRUE  \* mutant: finishes by batch_id alone

\* A finish whose lease token was taken over matches no row.
MayFinish(w) == HasToken(w)

FinishDelete(w) ==
    LET d == task[w][1] IN
    /\ pc[w] \in {"sent", "refused", "retry"} /\ Unblocked(w)
    /\ queue' = IF MayFinish(w)
                THEN [queue EXCEPT ![d] = Without(@, {task[w][2]})] ELSE queue
    /\ settled' = IF HasToken(w) THEN settled \cup {task[w]} ELSE settled
    /\ Rest(w)
    /\ UNCHANGED <<recipients, dismissedTo, expired, rowLocks, deviceLocks, past,
                   shown, fenced, strayed, stalled, budgets>>

\* A finish that throws is answered by a finish that postpones the delivery.
FinishFails(w) ==
    /\ pc[w] \in {"sent", "refused"} /\ retries < MaxRetries
    /\ Goto(w, "retry")
    /\ retries' = retries + 1
    /\ UNCHANGED <<tables, rowLocks, deviceLocks, past, phones, faults>>

\* A retry keeps the row, due again after a delay of its own.
FinishRetry(w) ==
    LET d == task[w][1]
        e == task[w][2]
    IN  /\ pc[w] = "retry" /\ e \notin expired /\ Unblocked(w)
        /\ \E front \in Fronts(Without(Rows(d), {e})) :
              queue' = IF MayFinish(w)
                       THEN [queue EXCEPT ![d] = Enqueue(Without(@, {e}), e, front)] ELSE queue
        /\ Rest(w)
        /\ UNCHANGED <<recipients, dismissedTo, expired, rowLocks, deviceLocks, past, phones,
                       budgets>>

-----------------------------------------------------------------------------
(* Time, and processes that stop or stall                                  *)

SetLive(d, e, live) ==
    queue' = [queue EXCEPT ![d] =
                 {IF r.event = e THEN [r EXCEPT !.live = live] ELSE r : r \in @}]

Sender(d, r) == \E w \in Drains : pc[w] \in Sending /\ task[w] = <<d, r.event>> /\ r.token = w

\* The lease of a drain that is gone runs out; a live one renews its own.
LapseLease(d, r) ==
    /\ Leased(r) /\ ~Sender(d, r)
    /\ SetLive(d, r.event, FALSE)
    /\ UNCHANGED <<recipients, dismissedTo, expired, claims, phones, budgets>>

\* Renewals of a live drain fail for a whole lease, or the clock of another
\* gateway that is ahead of the drain's has it over.
StallLease(d, r) ==
    /\ faults < MaxFaults /\ Leased(r) /\ Sender(d, r)
    /\ SetLive(d, r.event, FALSE)
    /\ faults' = faults + 1 /\ stalled' = stalled \cup {r.token}
    /\ UNCHANGED <<recipients, dismissedTo, expired, claims, shown, fenced,
                   settled, strayed, retries>>

Renew(w) ==
    /\ HasToken(w) /\ ~HasLease(w) /\ Unblocked(w)
    /\ SetLive(task[w][1], task[w][2], TRUE)
    /\ UNCHANGED <<recipients, dismissedTo, expired, claims, phones, budgets>>

Expire(e) ==
    /\ e \notin expired /\ \E d \in Devices : <<d, e>> \in recipients
    /\ expired' = expired \cup {e}
    /\ UNCHANGED <<queue, recipients, dismissedTo, claims, phones, budgets>>

PrunableUnleased(d, r) ==  \* mutant: keeps rows whose lease lapsed
    r.event \in expired /\ r.token = None /\ ~Locked(d, r.event)

\* Locked rows are skipped.
Prunable(d, r) == r.event \in expired /\ ~Leased(r) /\ ~Locked(d, r.event)

Prune(d) ==
    LET gone == Queued({r \in Rows(d) : Prunable(d, r)})
    IN  /\ gone # {}
        /\ queue' = [queue EXCEPT ![d] = Without(@, gone)]
        /\ UNCHANGED <<recipients, dismissedTo, expired, claims, phones, budgets>>

Crash(w) ==
    /\ faults < MaxFaults /\ pc[w] # "idle"
    /\ Rest(w) /\ Unlock(w)
    /\ faults' = faults + 1
    /\ UNCHANGED <<tables, phones, retries>>

DrainStep(w) ==
    \/ \E d \in Devices : ScanCandidate(w, d)
    \/ OwnDevice(w) \/ SkipDevice(w) \/ EndClaim(w) \/ Lease(w) \/ DropDismissed(w)
    \/ BeginSend(w) \/ ProviderAccepts(w) \/ ProviderRetryable(w)
    \/ ProviderRefuses(w) \/ FinishDelete(w) \/ FinishFails(w) \/ FinishRetry(w)
    \/ Renew(w)

Next ==
    \/ \E d \in Devices, e \in Events : AcceptAlert(d, e) \/ AcceptDismissal(d, e)
    \/ \E w \in Drains : DrainStep(w) \/ Crash(w)
    \/ \E d \in Devices : \E r \in Rows(d) : LapseLease(d, r) \/ StallLease(d, r)
    \/ \E d \in Devices : Prune(d)
    \/ \E e \in Events : Expire(e)

Spec == Init /\ [][Next]_vars

\* Drains run (each poll starts the missing ones), the prune timer fires, and
\* time passes: events expire and the leases of lost drains run out.  Nothing
\* says that a drain gets a device's lock, for a claim that finds it locked
\* skips the device.
Fairness ==
    /\ \A w \in Drains : WF_vars(DrainStep(w))
    /\ \A d \in Devices : WF_vars(Prune(d)) /\ WF_vars(\E r \in Rows(d) : LapseLease(d, r))
    /\ \A e \in Events : WF_vars(Expire(e))

FairSpec == Spec /\ Fairness

-----------------------------------------------------------------------------
(* Properties                                                              *)

\* However claims of several processes interleave, the notifications of a
\* phone are sent one at a time, also when a row that sorts earlier lands
\* between the statements of a claim: no two drains are sending to it with
\* leases that have held all along (ownsDeviceHead and lease in
\* durable-push-store.ts).
OneSenderPerDevice ==
    \A v, w \in Drains \ stalled :
        HasLease(v) /\ HasLease(w) /\ task[v][1] = task[w][1] => v = w

\* A phone that received a dismissal does not show an alert it covers, even
\* when the alert was in flight, retried or taken over from a lost drain, as
\* long as every send to it was made under a lease that held.
DismissedStaysDismissed ==
    \A d \in Devices \ strayed : \A a \in shown[d] : a > fenced[d]

\* A delivery whose drain finished it is never being sent again: a repeated
\* request, a retry or another drain does not revive it.
SettledIsNotSentAgain ==
    \A w \in Drains \ stalled : pc[w] \in {"leased", "sending"} => task[w] \notin settled

\* A queued delivery disappears only when its drain finished it, its event
\* expired, or a dismissal committed for it: a newer alert survives an older
\* dismissal, and one drain's cleanup does not take another's row.
NothingLost ==
    [][\A d \in Devices : \A r \in Rows(d) :
          \/ \E s \in queue'[d] : s.event = r.event
          \/ <<d, r.event>> \in settled'
          \/ r.event \in expired
          \/ r.event \in Alerts /\ dismissedTo' >= r.event]_vars

\* While a lease holds, only the drain it belongs to ends it before it runs
\* out: a drain that lost its lease cannot finish or postpone its successor's row.
LeaseEndsWithItsDrain ==
    [][\A d \in Devices : \A r \in Rows(d) :
          Leased(r) /\ Sender(d, r) /\ Sender(d, r)' /\ ~StallLease(d, r)
             => \E s \in queue'[d] : s.event = r.event /\ s.token = r.token /\ s.live]_vars

\* Every queued delivery leaves the queue, whatever becomes of the drain that
\* claimed it and however claims skip one another: when it is not sent, refused
\* or dismissed before, the prune takes it once it has expired (prune in
\* durable-push-store.ts).
EveryDeliverySettles ==
    \A d \in Devices, e \in Events :
        (\E r \in Rows(d) : r.event = e) ~> (\A r \in Rows(d) : r.event # e)
=============================================================================
