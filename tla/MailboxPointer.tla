--------------------------- MODULE MailboxPointer ---------------------------
(***************************************************************************)
(* New mail of a Run is announced to its coordinator by typing a line (the *)
(* pointer) into the coordinator's terminal and, half a second later, the  *)
(* Enter key. Both writes may have an outcome nobody learns, the terminal  *)
(* may be replaced, the mailbox may change hands and the mail may be read  *)
(* in between. Columns of the messages remember how far a pointer came     *)
(* (mailbox-pointer-enter-state.ts); the flight and the watermark are in   *)
(* memory (mailbox-pointer-state.ts) and end with the process.             *)
(*                                                                         *)
(* One mailbox, typed into by whichever terminal's agent coordinates the   *)
(* Run. What the screen of a terminal shows (idle, dialog, neutral title)  *)
(* is not modelled: every answer to a look at it is possible.              *)
(***************************************************************************)
EXTENDS Integers, FiniteSets, FiniteSetsExt

CONSTANTS
    Pty,            \* terminals that may coordinate the Run
    NoPty,          \* "no terminal"
    MaxMessages,    \* messages ever sent
    MaxEvents       \* messages, changes of owner and processes that end, together

ASSUME PointerAssumption ==
    /\ NoPty \notin Pty
    /\ MaxMessages \in Nat \ {0} /\ MaxEvents \in Nat

Message == 1..MaxMessages
RESERVED == 1
WRITE_ATTEMPTED == 2
ENTER_ATTEMPTED == 3

VARIABLES
    sent,        \* messages in the mailbox are 1..sent
    read,        \* messages with read = 1
    delivered,   \* messages with delivered_at set
    claim,       \* pointer_enter_pending, pointer_pty_id, pointer_process_incarnation
    held,        \* messages of an outstanding batch that an older build handed out
    owner,       \* the terminal that coordinates the Run
    inc,         \* process incarnation in a terminal
    flight,      \* the pointer under way in a terminal
    orphan,      \* messages of a flight that was retired while its probe was under way
    watermark,   \* watermarkByMailbox
    probing,     \* terminals whose delivery waits for a liveness probe
    changes,     \* changes of owner and processes that ended, so far
    typed,       \* ghost: messages whose pointer may have been typed somewhere
    entered,     \* ghost: messages submitted to the owner's process since it owns the mailbox
    lapsed,      \* ghost: those of entered that were unread and no longer claimed by it
    loosened,    \* ghost: messages whose row a terminal reset that had lost the mailbox
    fenced       \* ghost: messages of a batch that a takeover fenced

mailVars == <<sent, read, delivered, claim, held>>
memoryVars == <<flight, orphan, watermark, probing>>
placeVars == <<owner, inc, changes>>
ghostVars == <<typed, entered, lapsed, loosened, fenced>>
vars == <<mailVars, memoryVars, placeVars, ghostVars>>

NoClaim == [phase |-> 0, pty |-> NoPty, inc |-> 0]
Claim == {NoClaim} \cup [phase : 1..3, pty : Pty, inc : 0..MaxEvents]
NoFlight == [stage |-> "none", msgs |-> {}, deferred |-> FALSE, idleSeen |-> FALSE, phase |-> 0]
Stage == {"writing", "waiting", "probing", "entering"}
NoMark == [pty |-> NoPty, sequence |-> 0, active |-> FALSE]

Unread == (1..sent) \ read
Newest(msgs) == Max(msgs \cup {0})
HasFlight(p) == flight[p].stage # "none"

-----------------------------------------------------------------------------
(* The statements of mailbox-pointer-enter-state.ts and message-inbox.ts.   *)

(* Rows of msgs that a process of a terminal holds in one of the phases.    *)
Holding(msgs, p, i, phases) ==
    {m \in msgs : claim[m].pty = p /\ claim[m].inc = i /\ claim[m].phase \in phases}

Unclaimed(msgs) == [m \in Message |-> IF m \in msgs THEN NoClaim ELSE claim[m]]

(* releaseMailboxPointerEnter: the mail may be pointed at again. Rows that  *)
(* are read have no claim, so the statement's test of read is implied.      *)
Released(rows) ==
    /\ claim' = Unclaimed(rows)
    /\ delivered' = delivered \ rows
    /\ UNCHANGED <<sent, read, held>>

(* What a terminal that lost the mailbox undoes of the one that owns it.    *)
TakenFromOwner(p, rows) ==
    {m \in rows : p # owner /\ (claim[m].pty = owner \/ m \in delivered)}

(* settleMailboxPointerEnter: the pointer was shown. *)
Settleable(msgs, p, i, phases) ==
    Holding(msgs, p, i, phases) \cup {m \in msgs \cap read : claim[m] = NoClaim}
Settled(rows) ==
    /\ claim' = Unclaimed(rows)
    /\ delivered' = delivered \cup rows
    /\ UNCHANGED <<sent, read, held>>

(* outstanding_deliveries: a batch counts while one of its messages is unread. *)
Outstanding == IF held \cap Unread # {} THEN held ELSE {}

(* getUndeliveredUnreadMessages without those of the outstanding batch.     *)
Pointable(rows) ==
    {m \in Unread : (m \in rows \/ (claim[m] = NoClaim /\ m \notin delivered))
                    /\ m \notin Outstanding}

-----------------------------------------------------------------------------
(* The watermark and the flight of mailbox-pointer-state.ts.                *)

IsMark(p, msgs) == watermark.pty = p /\ watermark.sequence = Newest(msgs)
ClearedMark(p, msgs) == IF IsMark(p, msgs) THEN NoMark ELSE watermark
InactiveMarkKept(p, msgs) == watermark   \* mutant: an unknown outcome keeps the mark active
InactiveMark(p, msgs) ==
    IF IsMark(p, msgs) THEN [watermark EXCEPT !.active = FALSE] ELSE watermark

(* releaseSupersededWatermark: does it let the batch pass, and what is left. *)
PassesWatermark(p, msgs) ==
    \/ watermark = NoMark
    \/ Newest(msgs) > watermark.sequence
    \/ ~watermark.active /\ watermark.pty # p
MarkAfterPass(msgs) ==
    IF watermark # NoMark /\ Newest(msgs) > watermark.sequence THEN watermark ELSE NoMark

FlightEnds(p) == flight' = [flight EXCEPT ![p] = NoFlight]

(* takeDeferredEnter has an Enter to submit. *)
EnterIsDeferred(p) == flight[p].stage = "waiting" /\ flight[p].deferred
BeginSubmit(p) ==
    flight' = [flight EXCEPT ![p].stage = "probing", ![p].deferred = FALSE,
                             ![p].idleSeen = FALSE]

-----------------------------------------------------------------------------
(* Mail.                                                                    *)

Init ==
    /\ sent \in 0..1
    /\ held \in SUBSET (1..sent)
    /\ read = {} /\ delivered = {}
    /\ claim = [m \in Message |-> NoClaim]
    /\ owner \in Pty
    /\ inc = [p \in Pty |-> 0]
    /\ flight = [p \in Pty |-> NoFlight]
    /\ orphan = [p \in Pty |-> {}]
    /\ watermark = NoMark
    /\ probing = {}
    /\ changes = 0
    /\ typed = {} /\ entered = {} /\ lapsed = {} /\ loosened = {} /\ fenced = {}

Send ==
    /\ sent < MaxMessages /\ sent + changes < MaxEvents
    /\ sent' = sent + 1
    /\ UNCHANGED <<read, delivered, claim, held, memoryVars, placeVars, ghostVars>>

BecomeReadKeepsClaim(msgs) ==   \* mutant: a row that is read keeps its claim
    /\ msgs # {}
    /\ read' = read \cup msgs
    /\ UNCHANGED <<sent, delivered, claim, memoryVars, placeVars, ghostVars>>

(* Rows that become read lose their claim (markDeliveryAcknowledged, markAsRead). *)
BecomeRead(msgs) ==
    /\ msgs # {}
    /\ read' = read \cup msgs
    /\ claim' = Unclaimed(msgs)
    /\ UNCHANGED <<sent, delivered, memoryVars, placeVars, ghostVars>>

(* A consuming check: the outstanding batch is replayed and acknowledged,   *)
(* otherwise all unread mail is taken.                                      *)
TakeMail ==
    /\ BecomeRead(IF Outstanding # {} THEN Outstanding ELSE Unread)
    /\ held' = IF Outstanding # {} THEN {} ELSE held

(* The coordinator answers one message with orchestration.reply. *)
Reply(m) == m \in Unread /\ BecomeRead({m}) /\ UNCHANGED held

Change == sent + changes < MaxEvents /\ changes' = changes + 1   \* bound

(* Another terminal's agent, or another session in the same one, takes the  *)
(* Run over; batches handed to the previous consumer are fenced.            *)
TakeOver(p) ==
    /\ Change
    /\ owner' = p
    /\ held' = {}
    /\ fenced' = fenced \cup Outstanding
    /\ entered' = {} /\ lapsed' = {}
    /\ UNCHANGED <<sent, read, delivered, claim, memoryVars, inc, typed, loosened>>

-----------------------------------------------------------------------------
(* Delivery (mailbox-pointer-delivery.ts). It starts at a title, a message, *)
(* a timer, the end of another flight or the answer to a liveness probe.    *)

Pending == {m \in Unread : claim[m] # NoClaim}
PendingPhases == {claim[m].phase : m \in Pending}
HeldHere(p) == \A m \in Pending : claim[m].pty = p /\ claim[m].inc = inc[p]

ResumesAfterText(p) ==   \* mutant: an attempted Enter is not recognised
    Pending # {} /\ HeldHere(p) /\ PendingPhases = {WRITE_ATTEMPTED}

(* resumePendingOrchestrationMailboxPointer: a pointer of this very process *)
(* that may have been typed counts as shown; any other is released.         *)
Resumes(p) == Pending # {} /\ HeldHere(p) /\ PendingPhases # {RESERVED}
Recovered(p) == IF Resumes(p) THEN {} ELSE Pending

(* deliver() may be called: the mailbox resolved to this terminal, or did   *)
(* before the probe. Otherwise it parks (a flight or an active watermark).  *)
MayDeliver(p) ==
    /\ p = owner \/ p \in probing
    /\ ~HasFlight(p)
    /\ ~watermark.active

(* The call was the probe's answer, or the terminal's own and a probe goes on. *)
ProbeEnds(p) == probing' = probing \ {p} \/ (p = owner /\ UNCHANGED probing)

DeliverResumes(p) ==
    /\ MayDeliver(p)
    /\ Resumes(p)
    /\ Settled(Settleable(Pending, p, inc[p], {WRITE_ATTEMPTED, ENTER_ATTEMPTED}))
    /\ ProbeEnds(p)
    /\ UNCHANGED <<flight, orphan, watermark, placeVars, ghostVars>>

(* Nothing to point at, a watermark in the way, a probe to wait for, or the *)
(* mailbox is another terminal's by now: only the recovery has an effect.   *)
DeliverDefers(p) ==
    LET msgs == Pointable(Recovered(p)) IN
    /\ MayDeliver(p)
    /\ ~Resumes(p)
    /\ Released(Recovered(p))
    /\ \/ /\ msgs = {} \/ ~PassesWatermark(p, msgs)
          /\ ProbeEnds(p)
          /\ UNCHANGED watermark
       \/ /\ msgs # {} /\ PassesWatermark(p, msgs)
          /\ p = owner
          /\ probing' = probing \cup {p}
          /\ watermark' = MarkAfterPass(msgs)
       \/ /\ msgs # {} /\ PassesWatermark(p, msgs)
          /\ p # owner
          /\ probing' = probing \ {p}
          /\ watermark' = MarkAfterPass(msgs)
    /\ loosened' = loosened \cup TakenFromOwner(p, Recovered(p))
    /\ UNCHANGED <<flight, orphan, placeVars, typed, entered, lapsed, fenced>>

(* The batch that deliver() hands to stageOrchestrationMailboxPointer. *)
CanStage(p) ==
    LET msgs == Pointable(Recovered(p)) IN
    /\ MayDeliver(p)
    /\ ~Resumes(p)
    /\ msgs # {} /\ PassesWatermark(p, msgs)
    /\ p = owner
Reserved(p, phase) ==
    LET msgs == Pointable(Recovered(p))
        row == [phase |-> phase, pty |-> p, inc |-> inc[p]] IN
    /\ claim' = [m \in Message |-> IF m \in msgs THEN row ELSE
                                   IF m \in Recovered(p) THEN NoClaim ELSE claim[m]]
    /\ delivered' = delivered \ Recovered(p)
    /\ UNCHANGED <<sent, read, held>>

(* stageOrchestrationMailboxPointer: reserve, mark, and begin the write. *)
DeliverStages(p) ==
    LET msgs == Pointable(Recovered(p)) IN
    /\ CanStage(p)
    /\ Reserved(p, WRITE_ATTEMPTED)
    /\ flight' = [flight EXCEPT ![p] = [NoFlight EXCEPT !.stage = "writing", !.msgs = msgs]]
    /\ watermark' = [pty |-> p, sequence |-> Newest(msgs), active |-> TRUE]
    /\ ProbeEnds(p)
    /\ typed' = typed \cup msgs
    /\ UNCHANGED <<orphan, placeVars, entered, lapsed, loosened, fenced>>

(* Delivery meets a deferred Enter of the terminal and submits that first. *)
DeliverSubmitsDeferred(p) ==
    /\ p = owner \/ p \in probing
    /\ EnterIsDeferred(p)
    /\ BeginSubmit(p)
    /\ ProbeEnds(p)
    /\ UNCHANGED <<orphan, watermark, mailVars, placeVars, ghostVars>>

Deliver(p) ==
    DeliverResumes(p) \/ DeliverDefers(p) \/ DeliverStages(p) \/ DeliverSubmitsDeferred(p)

(* deferForAbsenceProbe: the terminal turns out to be gone. *)
ProbeFindsAbsence(p) ==
    /\ p \in probing
    /\ probing' = probing \ {p}
    /\ UNCHANGED <<mailVars, flight, orphan, watermark, placeVars, ghostVars>>

-----------------------------------------------------------------------------
(* The pointer's text (mailbox-pointer-stage.ts).                           *)

WriteAccepted(p) ==
    /\ flight[p].stage = "writing"
    /\ IF flight[p].deferred /\ flight[p].idleSeen
          THEN BeginSubmit(p)
          ELSE flight' = [flight EXCEPT ![p].stage = "waiting"]
    /\ UNCHANGED <<orphan, watermark, probing, mailVars, placeVars, ghostVars>>

(* Proven not to have left: markAsUndelivered, whoever holds the rows. *)
WriteRefused(p) ==
    LET msgs == flight[p].msgs IN
    /\ flight[p].stage = "writing"
    /\ Released(msgs \ read)
    /\ watermark' = ClearedMark(p, msgs)
    /\ FlightEnds(p)
    /\ typed' = typed \ msgs
    /\ loosened' = loosened \cup TakenFromOwner(p, msgs \ read)
    /\ UNCHANGED <<orphan, probing, placeVars, entered, lapsed, fenced>>

WriteUnverifiable(p) ==
    /\ flight[p].stage = "writing"
    /\ watermark' = InactiveMark(p, flight[p].msgs)
    /\ FlightEnds(p)
    /\ UNCHANGED <<orphan, probing, mailVars, placeVars, ghostVars>>

EnterTimer(p) ==
    /\ flight[p].stage = "waiting" /\ ~flight[p].deferred
    /\ BeginSubmit(p)
    /\ UNCHANGED <<orphan, watermark, probing, mailVars, placeVars, ghostVars>>

-----------------------------------------------------------------------------
(* The Enter (mailbox-pointer-submit.ts), decided when the probe of the     *)
(* terminal answers.                                                        *)

(* clearAndRedrive: the terminal is gone, or no longer owns the mailbox. *)
SubmitGivesUp(p) ==
    LET msgs == flight[p].msgs IN
    /\ flight[p].stage = "probing"
    /\ Released(Holding(msgs, p, inc[p], {WRITE_ATTEMPTED}))
    /\ watermark' = ClearedMark(p, msgs)
    /\ FlightEnds(p)
    /\ UNCHANGED <<orphan, probing, placeVars, ghostVars>>

SubmitDefers(p) ==        \* a neutral title or an open dialog
    /\ flight[p].stage = "probing" /\ p = owner
    /\ flight' = [flight EXCEPT ![p].stage = "waiting", ![p].deferred = TRUE,
                                ![p].idleSeen = FALSE]
    /\ UNCHANGED <<orphan, watermark, probing, mailVars, placeVars, ghostVars>>

SubmitLeavesText(p) ==    \* not taking input: no Enter, the text stays
    /\ flight[p].stage = "probing" /\ p = owner
    /\ Settled(Settleable(flight[p].msgs, p, inc[p], {WRITE_ATTEMPTED}))
    /\ watermark' = ClearedMark(p, flight[p].msgs)
    /\ FlightEnds(p)
    /\ UNCHANGED <<orphan, probing, placeVars, ghostVars>>

(* markMailboxPointerEnterAttempted is for all messages or none. *)
EnterMarked(p) ==
    Holding(flight[p].msgs, p, inc[p], {WRITE_ATTEMPTED}) = flight[p].msgs

SubmitEnters(p) ==
    LET msgs == flight[p].msgs
        phase == IF EnterMarked(p) THEN ENTER_ATTEMPTED ELSE WRITE_ATTEMPTED IN
    /\ flight[p].stage = "probing" /\ p = owner
    /\ EnterMarked(p) \/ msgs \cap read # {}
    /\ claim' = [m \in Message |-> IF EnterMarked(p) /\ m \in msgs
                                     THEN [claim[m] EXCEPT !.phase = ENTER_ATTEMPTED]
                                     ELSE claim[m]]
    /\ flight' = [flight EXCEPT ![p].stage = "entering", ![p].phase = phase]
    /\ entered' = entered \cup msgs
    /\ lapsed' = lapsed \cup ((msgs \ read) \ Holding(msgs, p, inc[p], {WRITE_ATTEMPTED}))
    /\ UNCHANGED <<sent, read, delivered, held, orphan, watermark, probing, placeVars,
                   typed, loosened, fenced>>

(* The unread mail lost its claim to an earlier Enter or a release. *)
SubmitLostClaim(p) ==
    /\ flight[p].stage = "probing" /\ p = owner
    /\ ~EnterMarked(p) /\ flight[p].msgs \cap read = {}
    /\ watermark' = InactiveMark(p, flight[p].msgs)
    /\ FlightEnds(p)
    /\ UNCHANGED <<orphan, probing, mailVars, placeVars, ghostVars>>

EnterSettles(p) ==        \* accepted, or proven not to have left
    /\ flight[p].stage = "entering"
    /\ Settled(Settleable(flight[p].msgs, p, inc[p], {flight[p].phase}))
    /\ watermark' = ClearedMark(p, flight[p].msgs)
    /\ FlightEnds(p)
    /\ UNCHANGED <<orphan, probing, placeVars, ghostVars>>

EnterUnverifiable(p) ==
    /\ flight[p].stage = "entering"
    /\ watermark' = InactiveMark(p, flight[p].msgs)
    /\ FlightEnds(p)
    /\ UNCHANGED <<orphan, probing, mailVars, placeVars, ghostVars>>

(* The probe of a retired flight reports the terminal absent. Its rows were *)
(* released when the terminal's process ended; the watermark it clears may  *)
(* be the one of the next flight in the same terminal.                      *)
OrphanGivesUp(p) ==
    /\ orphan[p] # {}
    /\ watermark' = ClearedMark(p, orphan[p])
    /\ orphan' = [orphan EXCEPT ![p] = {}]
    /\ UNCHANGED <<mailVars, flight, probing, placeVars, ghostVars>>

-----------------------------------------------------------------------------
(* What the terminals show, and processes that end.                         *)

(* retirePty drops the watermark of the terminal. *)
RetiredMark(p) == IF watermark.pty = p THEN NoMark ELSE watermark

ObserveWorkingSettles(p) ==   \* mutant: a mere reservation counts as shown
    LET mine == {m \in Message : claim[m].phase > 0 /\ claim[m].pty = p} IN
    /\ ~HasFlight(p)
    /\ claim' = Unclaimed(mine)
    /\ delivered' = delivered \cup mine
    /\ watermark' = RetiredMark(p)
    /\ UNCHANGED <<sent, read, held, flight, orphan, probing, placeVars, ghostVars>>

(* observeAgentWorking without a flight: releasePendingMailboxPointerForPty. *)
ObserveWorking(p) ==
    LET mine == {m \in Message : claim[m].phase > 0 /\ claim[m].pty = p}
        reserved == {m \in mine : claim[m].phase = RESERVED} IN
    /\ ~HasFlight(p)
    /\ claim' = Unclaimed(mine)
    /\ delivered' = (delivered \ reserved) \cup (mine \ reserved)
    /\ watermark' = RetiredMark(p)
    /\ UNCHANGED <<sent, read, held, flight, orphan, probing, placeVars, ghostVars>>

(* A cold-parked terminal keeps the Enter back until its agent rests. *)
ColdParkDefers(p) ==
    /\ HasFlight(p)
    /\ flight' = [flight EXCEPT ![p].deferred = TRUE, ![p].idleSeen = FALSE]
    /\ UNCHANGED <<orphan, watermark, probing, mailVars, placeVars, ghostVars>>

(* observeAgentIdle takes the deferred Enter, or notes that it may be taken *)
(* (as a delivery does that meets it while the text is being written).      *)
ObserveIdle(p) ==
    /\ flight[p].deferred
    /\ IF EnterIsDeferred(p) THEN BeginSubmit(p)
                              ELSE flight' = [flight EXCEPT ![p].idleSeen = TRUE]
    /\ UNCHANGED <<orphan, watermark, probing, mailVars, placeVars, ghostVars>>

(* The agent's process ends and another may start under the same pty id. *)
PtyExits(p) ==
    LET f == flight[p] IN
    /\ Change
    /\ inc' = [inc EXCEPT ![p] = @ + 1]
    /\ Released(Holding(f.msgs, p, inc[p], {RESERVED, WRITE_ATTEMPTED}))
    /\ watermark' = RetiredMark(p)
    /\ FlightEnds(p)
    /\ orphan' = [orphan EXCEPT ![p] = IF f.stage = "probing" THEN f.msgs ELSE @]
    /\ entered' = IF p = owner THEN {} ELSE entered
    /\ lapsed' = IF p = owner THEN {} ELSE lapsed
    /\ UNCHANGED <<probing, owner, typed, loosened, fenced>>

(* Everything in memory goes; the agents' processes live in a daemon and    *)
(* may go too (replaced).                                                   *)
RuntimeEnds(replaced) ==
    /\ Change
    /\ inc' = [p \in Pty |-> IF p \in replaced THEN inc[p] + 1 ELSE inc[p]]
    /\ flight' = [p \in Pty |-> NoFlight]
    /\ orphan' = [p \in Pty |-> {}]
    /\ watermark' = NoMark
    /\ probing' = {}
    /\ entered' = IF owner \in replaced THEN {} ELSE entered
    /\ lapsed' = IF owner \in replaced THEN {} ELSE lapsed
    /\ UNCHANGED <<owner, loosened, fenced>>

Restart(replaced) == RuntimeEnds(replaced) /\ UNCHANGED <<mailVars, typed>>

(* The runtime ends between two commits of DeliverStages, or between the    *)
(* second and the write.                                                    *)
CrashWhileStaging(p, phase, replaced) ==
    /\ CanStage(p)
    /\ Reserved(p, phase)
    /\ RuntimeEnds(replaced)
    /\ typed' = IF phase = RESERVED THEN typed
                ELSE typed \cup Pointable(Recovered(p))

Attempt(p) ==      \* steps of a flight that need nothing but the runtime and its terminal
    \/ WriteAccepted(p) \/ WriteRefused(p) \/ WriteUnverifiable(p)
    \/ EnterTimer(p)
    \/ SubmitGivesUp(p) \/ SubmitDefers(p) \/ SubmitLeavesText(p)
    \/ SubmitEnters(p) \/ SubmitLostClaim(p)
    \/ EnterSettles(p) \/ EnterUnverifiable(p)

Next ==
    \/ Send \/ TakeMail
    \/ \E m \in Message : Reply(m)
    \/ \E p \in Pty :
        \/ TakeOver(p)
        \/ Deliver(p) \/ ProbeFindsAbsence(p)
        \/ Attempt(p) \/ OrphanGivesUp(p)
        \/ ObserveWorking(p) \/ ColdParkDefers(p) \/ ObserveIdle(p)
        \/ PtyExits(p)
        \/ \E replaced \in SUBSET Pty :
            \/ Restart(replaced)
            \/ CrashWhileStaging(p, RESERVED, replaced)
            \/ CrashWhileStaging(p, WRITE_ATTEMPTED, replaced)

Spec == Init /\ [][Next]_vars

(* Delivery is tried again whenever something may have changed (a title, a  *)
(* message, the end of a flight, a timer). Writes are not refused for ever, *)
(* the terminal does not show a dialog or a neutral title for ever, and an  *)
(* agent that works rests again.                                            *)
Fairness ==
    \A p \in Pty :
        /\ WF_vars(DeliverResumes(p) \/ DeliverStages(p) \/ DeliverSubmitsDeferred(p)
                   \/ Attempt(p))
        /\ WF_vars(ObserveIdle(p))
        /\ SF_vars(WriteAccepted(p) \/ WriteUnverifiable(p))
        /\ SF_vars(SubmitEnters(p) \/ SubmitLeavesText(p))

FairSpec == Spec /\ Fairness

-----------------------------------------------------------------------------
(* Types of the variables; mail that was read holds no claim. *)
TypeOK ==
    /\ sent \in 0..MaxMessages
    /\ read \subseteq 1..sent /\ delivered \subseteq 1..sent /\ held \subseteq 1..sent
    /\ claim \in [Message -> Claim]
    /\ owner \in Pty /\ inc \in [Pty -> 0..MaxEvents]
    /\ \A p \in Pty : flight[p].stage \in Stage \cup {"none"}
                     /\ flight[p].msgs \subseteq 1..sent
    /\ watermark.pty \in Pty \cup {NoPty} /\ probing \subseteq Pty
    /\ \A m \in read : claim[m] = NoClaim

(* The comment of mailbox-pointer-submit.ts:106 without exception: once an  *)
(* Enter for a message may have reached the process that coordinates the    *)
(* Run, no second Enter for it is written to that process.                  *)
PointedOnce ==
    [][ \A p \in Pty :
          flight[p].stage = "probing" /\ flight'[p].stage = "entering"
            => flight[p].msgs \cap entered = {} ]_vars

(* The same, as far as it holds: a coordinator is told twice of a message   *)
(* only if a terminal that had lost the mailbox reset the message's row, or *)
(* the first Enter went out for other mail of the batch that had been read, *)
(* when the message itself was no longer claimed (mailbox-pointer-submit.ts *)
(* :94-99).  About the phases of a claim across unverifiable writes, exits, *)
(* restarts, deferred Enters and changes of owner.                          *)
PointedOnceByOwner ==
    [][ \A p \in Pty :
          flight[p].stage = "probing" /\ flight'[p].stage = "entering"
            => (flight[p].msgs \cap entered) \subseteq lapsed \cup loosened ]_vars

(* Unread mail that counts as delivered, and so is not pointed at again,    *)
(* had its pointer typed, or written with an unknown outcome: no path       *)
(* (recovery, retirement, a working title) swallows mail that was only      *)
(* reserved or whose write was refused.                                     *)
DeliveredWasTyped ==
    delivered \ read \subseteq typed

(* Mail does not wait unannounced for ever behind a watermark, a claim of a *)
(* terminal that is gone or a deferred Enter: it is read, pointed at or     *)
(* part of a batch that its consumer holds. Excepted are messages whose row *)
(* a stale terminal reset, and those of a fenced batch: a watermark of      *)
(* newer mail withholds them (see the README).                              *)
MailIsAnnounced ==
    \A m \in Message :
        m \in Unread ~> m \in read \cup delivered \cup Outstanding \cup loosened \cup fenced
=============================================================================
