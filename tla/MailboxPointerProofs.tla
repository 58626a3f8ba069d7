------------------------ MODULE MailboxPointerProofs ------------------------
(* Proofs about MailboxPointer, for any number of terminals, messages and   *)
(* events. Nothing here depends on the number a watermark carries.          *)
EXTENDS MailboxPointer, TLAPS

-----------------------------------------------------------------------------
(* The inductive invariant.                                                 *)

Flight == [stage : Stage \cup {"none"}, msgs : SUBSET Message,
           deferred : BOOLEAN, idleSeen : BOOLEAN, phase : 0..3]

MailShape ==
    /\ sent \in 0..MaxMessages
    /\ read \subseteq 1..sent /\ delivered \subseteq 1..sent /\ held \subseteq 1..sent
    /\ claim \in [Message -> Claim]

PlaceShape ==
    /\ owner \in Pty
    /\ changes \in 0..MaxEvents
    /\ inc \in [Pty -> Nat] /\ \A p \in Pty : inc[p] <= changes

FlightShape ==
    /\ flight \in [Pty -> Flight]
    /\ \A p \in Pty : flight[p].msgs \subseteq 1..sent
    /\ \A p \in Pty : flight[p].stage = "entering"
                        => flight[p].phase \in {WRITE_ATTEMPTED, ENTER_ATTEMPTED}

MarkShape ==
    /\ watermark = [pty |-> watermark.pty, sequence |-> watermark.sequence,
                    active |-> watermark.active]
    /\ watermark.pty \in Pty \cup {NoPty}
    /\ probing \subseteq Pty

(* A claim announces mail that nobody read and that no terminal was told of. *)
ClaimsAreOpen ==
    \A m \in Message : claim[m] # NoClaim => m \in Unread /\ m \notin delivered

(* Every path to "delivered" passes a claim whose text was typed. *)
TypedRows ==
    /\ \A m \in Message : claim[m].phase >= WRITE_ATTEMPTED => m \in typed
    /\ delivered \ read \subseteq typed

(* All claims are of one batch, reserved for one process. *)
OneHolder ==
    \A m, n \in Message :
        claim[m] # NoClaim /\ claim[n] # NoClaim
            => claim[m].pty = claim[n].pty /\ claim[m].inc = claim[n].inc

(* Messages the owner's process was told of, with a claim or being read. *)
Told == entered \ (lapsed \cup loosened)

(* What keeps mail the owner was told of from being pointed at again. *)
ToldIsRemembered ==
    \A m \in Told :
        \/ m \in read \cup delivered
        \/ /\ m \in Message
           /\ claim[m].pty = owner /\ claim[m].inc = inc[owner]
           /\ claim[m].phase \in {WRITE_ATTEMPTED, ENTER_ATTEMPTED}

Unentered == {"writing", "waiting", "probing"}

(* A flight of the owner whose Enter is still to come carries none of it. *)
FlightIsNew ==
    flight[owner].stage \in Unentered => flight[owner].msgs \cap Told = {}

Shape == MailShape /\ PlaceShape /\ FlightShape /\ MarkShape
Rows == ClaimsAreOpen /\ TypedRows /\ OneHolder
Inv == Shape /\ Rows /\ ToldIsRemembered /\ FlightIsNew

-----------------------------------------------------------------------------
(* The initial states.                                                      *)

LEMMA InitHolds == Init => Inv
<1> SUFFICES ASSUME Init PROVE Inv
  OBVIOUS
<1> USE PointerAssumption DEF Init
<1>1. MailShape
  BY DEF MailShape, Claim, NoClaim, Message
<1>2. PlaceShape
  BY DEF PlaceShape
<1>3. NoFlight \in Flight
  BY DEF NoFlight, Flight
<1>4. FlightShape
  BY <1>3 DEF FlightShape, NoFlight
<1>5. MarkShape
  BY DEF MarkShape, NoMark
<1>6. Rows
  BY DEF Rows, ClaimsAreOpen, TypedRows, OneHolder, NoClaim, WRITE_ATTEMPTED, Message
<1>7. ToldIsRemembered /\ FlightIsNew
  BY DEF ToldIsRemembered, FlightIsNew, Told, Unentered
<1>8. QED
  BY <1>1, <1>2, <1>4, <1>5, <1>6, <1>7 DEF Inv, Shape

-----------------------------------------------------------------------------
(* How one row may change outside of a staging: its claim goes, stays, or   *)
(* is raised from typed text to an Enter; it never gets another holder.     *)
ClaimsYield ==
    /\ claim' \in [Message -> Claim]
    /\ \A m \in Message :
        \/ claim'[m] = NoClaim
        \/ /\ claim[m] # NoClaim
           /\ claim'[m].pty = claim[m].pty /\ claim'[m].inc = claim[m].inc
           /\ claim'[m].phase >= WRITE_ATTEMPTED => claim[m].phase >= WRITE_ATTEMPTED

LEMMA SameClaimsYield ==
    ASSUME MailShape, claim' = claim PROVE ClaimsYield
  BY DEF ClaimsYield, MailShape

LEMMA UnclaimedYield ==
    ASSUME MailShape, NEW rows, claim' = Unclaimed(rows) PROVE ClaimsYield
<1>1. Unclaimed(rows) \in [Message -> Claim]
  BY DEF Unclaimed, MailShape, Claim
<1>2. \A m \in Message : claim'[m] = NoClaim \/ claim'[m] = claim[m]
  BY DEF Unclaimed
<1>3. QED
  BY <1>1, <1>2 DEF ClaimsYield

LEMMA OneHolderYields ==
    ASSUME OneHolder, ClaimsYield PROVE OneHolder'
  BY DEF OneHolder, ClaimsYield

-----------------------------------------------------------------------------
(* The statements of the message table: what each leaves of the rows.       *)

RowShape == MailShape /\ ClaimsAreOpen /\ OneHolder

LEMMA RowsUnchanged ==
    ASSUME RowShape, UNCHANGED mailVars PROVE RowShape'
  BY DEF RowShape, MailShape, ClaimsAreOpen, OneHolder, mailVars, Unread, Message

LEMMA RowsSent ==
    ASSUME RowShape, Send PROVE RowShape'
  BY PointerAssumption
  DEF RowShape, MailShape, ClaimsAreOpen, OneHolder, Send, Unread, Message

LEMMA RowsRead ==
    ASSUME RowShape, NEW msgs \in SUBSET (1..sent), BecomeRead(msgs), held' \subseteq 1..sent
    PROVE  RowShape'
<1>1. ClaimsYield
  BY UnclaimedYield DEF BecomeRead, RowShape
<1>2. MailShape'
  BY <1>1 DEF RowShape, MailShape, BecomeRead, ClaimsYield
<1>3. ClaimsAreOpen'
  BY DEF RowShape, ClaimsAreOpen, BecomeRead, Unclaimed, Unread, Message
<1>4. QED
  BY <1>1, <1>2, <1>3, OneHolderYields DEF RowShape

LEMMA RowsReleased ==
    ASSUME RowShape, NEW rows, Released(rows) PROVE RowShape'
<1>1. ClaimsYield
  BY UnclaimedYield DEF Released, RowShape
<1>2. MailShape'
  BY <1>1 DEF RowShape, MailShape, Released, ClaimsYield
<1>3. ClaimsAreOpen'
  BY DEF RowShape, ClaimsAreOpen, Released, Unclaimed, Unread, Message
<1>4. QED
  BY <1>1, <1>2, <1>3, OneHolderYields DEF RowShape

LEMMA RowsSettled ==
    ASSUME RowShape, NEW rows \in SUBSET (1..sent), Settled(rows) PROVE RowShape'
<1>1. ClaimsYield
  BY UnclaimedYield DEF Settled, RowShape
<1>2. MailShape'
  BY <1>1 DEF RowShape, MailShape, Settled, ClaimsYield
<1>3. ClaimsAreOpen'
  BY DEF RowShape, ClaimsAreOpen, Settled, Unclaimed, Unread, Message
<1>4. QED
  BY <1>1, <1>2, <1>3, OneHolderYields DEF RowShape

LEMMA RowsReserved ==
    ASSUME RowShape, PlaceShape, NEW p \in Pty, NEW phase \in 1..3, Reserved(p, phase),
           ~Resumes(p)
    PROVE  /\ RowShape'
           /\ \A m \in Pointable(Recovered(p)) :
                claim'[m] = [phase |-> phase, pty |-> p, inc |-> inc[p]]
           /\ \A m \in Message \ Pointable(Recovered(p)) : claim'[m] = NoClaim
<1> DEFINE row == [phase |-> phase, pty |-> p, inc |-> inc[p]]
           msgs == Pointable(Recovered(p))
<1>1. Recovered(p) = Pending
  BY DEF Recovered
<1>2. msgs \subseteq Unread /\ Unread \subseteq Message
  BY PointerAssumption DEF Pointable, Unread, RowShape, MailShape, Message
<1>3. row \in Claim
  BY PointerAssumption DEF Claim, PlaceShape
<1>4. \A m \in msgs : claim'[m] = row
  BY <1>2 DEF Reserved
<1>5. \A m \in Message \ msgs : claim'[m] = NoClaim
  BY <1>1 DEF Reserved, Pending, RowShape, ClaimsAreOpen
<1>6. \A m \in msgs : m \notin delivered'
  BY <1>1, <1>2 DEF Reserved, Pointable
<1>7. MailShape'
  <2>1. claim' \in [Message -> Claim]
    BY <1>3, <1>4, <1>5 DEF Reserved, Claim
  <2>2. QED
    BY <2>1 DEF Reserved, RowShape, MailShape
<1>8. ClaimsAreOpen'
  BY <1>2, <1>5, <1>6 DEF ClaimsAreOpen, Reserved, Unread
<1>9. OneHolder'
  BY <1>4, <1>5 DEF OneHolder
<1>10. QED
  BY <1>4, <1>5, <1>7, <1>8, <1>9 DEF RowShape

(* The claims of a process are of real rows; only read ones are settled without. *)
LEMMA SettleableRows ==
    ASSUME RowShape, NEW msgs \in SUBSET (1..sent), NEW p \in Pty, NEW i,
           NEW phases \in SUBSET {WRITE_ATTEMPTED, ENTER_ATTEMPTED}
    PROVE  /\ Settleable(msgs, p, i, phases) \in SUBSET (1..sent)
           /\ \A m \in Settleable(msgs, p, i, phases) :
                m \in read \/ claim[m].phase >= WRITE_ATTEMPTED
<1>1. \A m \in phases : m >= WRITE_ATTEMPTED
  BY DEF WRITE_ATTEMPTED, ENTER_ATTEMPTED
<1>2. QED
  BY <1>1 DEF Settleable, Holding

(* A claim is of unread mail. *)
LEMMA PendingClaims ==
    ASSUME RowShape
    PROVE  /\ Pending \subseteq Message
           /\ \A m \in Message : claim[m] # NoClaim <=> m \in Pending
  BY PointerAssumption DEF Pending, RowShape, ClaimsAreOpen, MailShape, Unread, Message

-----------------------------------------------------------------------------
(* Kinds of steps. Next is their disjunction.                               *)

Quiet(p) ==       \* the table is left alone
    \/ DeliverSubmitsDeferred(p) \/ ProbeFindsAbsence(p)
    \/ WriteAccepted(p) \/ WriteUnverifiable(p) \/ EnterTimer(p)
    \/ SubmitDefers(p) \/ SubmitLostClaim(p) \/ EnterUnverifiable(p)
    \/ OrphanGivesUp(p) \/ ColdParkDefers(p) \/ ObserveIdle(p)

Releases(p) == DeliverDefers(p) \/ WriteRefused(p) \/ SubmitGivesUp(p)

Settles(p) == DeliverResumes(p) \/ SubmitLeavesText(p) \/ EnterSettles(p) \/ ObserveWorking(p)

MailStep == Send \/ TakeMail \/ \E m \in Message : Reply(m)

Ends(p) ==
    \/ PtyExits(p)
    \/ \E replaced \in SUBSET Pty :
        \/ Restart(replaced)
        \/ CrashWhileStaging(p, RESERVED, replaced)
        \/ CrashWhileStaging(p, WRITE_ATTEMPTED, replaced)

StepOf(p) ==
    \/ Quiet(p) \/ Releases(p) \/ Settles(p)
    \/ DeliverStages(p) \/ SubmitEnters(p) \/ TakeOver(p) \/ Ends(p)

LEMMA NextSteps == Next => MailStep \/ \E p \in Pty : StepOf(p)
  BY DEF Next, MailStep, StepOf, Quiet, Releases, Settles, Ends, Deliver, Attempt

-----------------------------------------------------------------------------
(* Flights and the watermark.                                               *)

(* A flight ends, or goes on with its messages and no new Enter. *)
FlightGoesOn ==
    /\ flight' \in [Pty -> Flight]
    /\ \A p \in Pty :
        \/ flight'[p].msgs = {} /\ flight'[p].stage = "none"
        \/ /\ flight'[p].msgs = flight[p].msgs
           /\ flight'[p].stage \in Unentered => flight[p].stage \in Unentered
           /\ flight'[p].stage = "entering" => flight[p].stage = "entering"
           /\ flight'[p].phase = flight[p].phase

LEMMA SameFlights ==
    ASSUME FlightShape, flight' = flight PROVE FlightGoesOn
  BY DEF FlightShape, FlightGoesOn

LEMMA FlightEnding ==
    ASSUME FlightShape, NEW p \in Pty, FlightEnds(p) PROVE FlightGoesOn
<1>1. NoFlight \in Flight
  BY DEF NoFlight, Flight
<1>2. QED
  BY <1>1 DEF FlightShape, FlightEnds, FlightGoesOn, NoFlight

LEMMA FlightMoves ==
    ASSUME FlightShape, NEW p \in Pty, NEW f \in Flight,
           flight'[p] = f, flight' \in [Pty -> Flight],
           \A q \in Pty : q # p => flight'[q] = flight[q],
           f.msgs = flight[p].msgs, f.phase = flight[p].phase,
           f.stage \in Unentered => flight[p].stage \in Unentered,
           f.stage = "entering" => flight[p].stage = "entering"
    PROVE  FlightGoesOn
  BY DEF FlightGoesOn

LEMMA FlightSetTo ==
    ASSUME FlightShape, NEW p \in Pty, NEW stage \in Stage, NEW deferred \in BOOLEAN,
           flight' = [flight EXCEPT ![p].stage = stage, ![p].deferred = deferred,
                                    ![p].idleSeen = FALSE],
           stage \in Unentered => flight[p].stage \in Unentered,
           stage = "entering" => flight[p].stage = "entering"
    PROVE  FlightGoesOn
<1> DEFINE f == [flight[p] EXCEPT !.stage = stage, !.deferred = deferred, !.idleSeen = FALSE]
<1>1. flight'[p] = f
  BY DEF FlightShape, Flight
<1>2. f \in Flight
  BY DEF FlightShape, Flight, Stage
<1>3. \A q \in Pty : q # p => flight'[q] = flight[q]
  BY DEF FlightShape
<1>4. flight' \in [Pty -> Flight]
  BY <1>1, <1>2, <1>3 DEF FlightShape
<1>5. f.msgs = flight[p].msgs /\ f.phase = flight[p].phase /\ f.stage = stage
  BY DEF FlightShape, Flight
<1> HIDE DEF f
<1>6. /\ f.stage \in Unentered => flight[p].stage \in Unentered
      /\ f.stage = "entering" => flight[p].stage = "entering"
  BY <1>5
<1>7. QED
  BY <1>1, <1>2, <1>3, <1>4, <1>5, <1>6, FlightMoves

LEMMA FlightSubmitting ==
    ASSUME FlightShape, NEW p \in Pty, BeginSubmit(p), flight[p].stage \in Unentered
    PROVE  FlightGoesOn
<1>1. "probing" \in Stage
  BY DEF Stage
<1>2. QED
  BY <1>1, FlightSetTo DEF BeginSubmit

LEMMA FlightsGone ==
    ASSUME flight' = [p \in Pty |-> NoFlight] PROVE FlightGoesOn
  BY DEF FlightGoesOn, NoFlight, Flight

LEMMA QuietFlights ==
    ASSUME FlightShape, NEW p \in Pty, Quiet(p) PROVE FlightGoesOn
<1>1. CASE UNCHANGED flight
  BY <1>1, SameFlights
<1>2. CASE FlightEnds(p)
  BY <1>2, FlightEnding
<1>3. CASE BeginSubmit(p) /\ flight[p].stage \in {"writing", "waiting"}
  BY <1>3, FlightSubmitting DEF Unentered
<1>4. CASE flight[p].stage = "writing" /\ flight' = [flight EXCEPT ![p].stage = "waiting"]
  <2>1. flight'[p] = [flight[p] EXCEPT !.stage = "waiting"]
    BY <1>4 DEF FlightShape, Flight
  <2>2. QED
    BY <1>4, <2>1 DEF FlightShape, FlightGoesOn, Flight, Stage, Unentered
<1>5. CASE /\ flight[p].stage = "probing"
           /\ flight' = [flight EXCEPT ![p].stage = "waiting", ![p].deferred = TRUE,
                                       ![p].idleSeen = FALSE]
  <2>1. "waiting" \in Stage /\ "probing" \in Unentered
    BY DEF Stage, Unentered
  <2>2. QED
    BY <1>5, <2>1, FlightSetTo
<1>6. CASE flight' = [flight EXCEPT ![p].deferred = TRUE, ![p].idleSeen = FALSE]
  <2> DEFINE f == [flight[p] EXCEPT !.deferred = TRUE, !.idleSeen = FALSE]
  <2>1. flight'[p] = f
    BY <1>6 DEF FlightShape, Flight
  <2>2. f \in Flight
    BY DEF FlightShape, Flight
  <2>3. \A q \in Pty : q # p => flight'[q] = flight[q]
    BY <1>6 DEF FlightShape
  <2>4. flight' \in [Pty -> Flight]
    BY <1>6, <2>1, <2>2, <2>3 DEF FlightShape
  <2>5. f.msgs = flight[p].msgs /\ f.phase = flight[p].phase /\ f.stage = flight[p].stage
    BY DEF FlightShape, Flight
  <2> HIDE DEF f
  <2>6. QED
    BY <2>1, <2>2, <2>3, <2>4, <2>5, FlightMoves
<1>7. CASE flight' = [flight EXCEPT ![p].idleSeen = TRUE]
  <2>1. flight'[p] = [flight[p] EXCEPT !.idleSeen = TRUE]
    BY <1>7 DEF FlightShape, Flight
  <2>2. QED
    BY <1>7, <2>1 DEF FlightShape, FlightGoesOn, Flight, Stage, Unentered
<1>8. QED
  BY <1>1, <1>2, <1>3, <1>4, <1>5, <1>6, <1>7
  DEF Quiet, DeliverSubmitsDeferred, EnterIsDeferred, ProbeFindsAbsence, WriteAccepted,
      WriteUnverifiable, EnterTimer, SubmitDefers, SubmitLostClaim, EnterUnverifiable,
      OrphanGivesUp, ColdParkDefers, ObserveIdle

LEMMA FlightShapeGoesOn ==
    ASSUME FlightShape, FlightGoesOn, sent \in Nat, sent' \in Nat, sent' >= sent
    PROVE  FlightShape'
<1>1. 1..sent \subseteq 1..sent'
  OBVIOUS
<1>2. QED
  BY <1>1 DEF FlightShape, FlightGoesOn

(* The watermark keeps its form: dropped, set, or made inactive. *)
MarkKept == watermark' = watermark \/ watermark' = NoMark
            \/ watermark' = [watermark EXCEPT !.active = FALSE]

LEMMA MarkShapeKept ==
    ASSUME MarkShape, MarkKept, probing' \subseteq Pty PROVE MarkShape'
<1>1. CASE watermark' = watermark
  BY <1>1 DEF MarkShape
<1>2. CASE watermark' = NoMark
  BY <1>2 DEF MarkShape, NoMark
<1>3. CASE watermark' = [watermark EXCEPT !.active = FALSE]
  BY <1>3 DEF MarkShape
<1>4. QED
  BY <1>1, <1>2, <1>3 DEF MarkKept

LEMMA FlightNewKept ==
    ASSUME Shape, FlightIsNew, FlightGoesOn, owner' = owner, NEW S, S \subseteq Told,
           Told' = S
    PROVE  FlightIsNew'
  BY DEF FlightIsNew, FlightGoesOn, Shape, PlaceShape, Unentered

(* What stays when a step touches neither place nor ghosts. *)
LEMMA QuietKeeps ==
    ASSUME Inv, NEW p \in Pty, Quiet(p) PROVE Inv'
<1>1. UNCHANGED <<mailVars, placeVars, ghostVars>>
  BY DEF Quiet, DeliverSubmitsDeferred, ProbeFindsAbsence, WriteAccepted,
         WriteUnverifiable, EnterTimer, SubmitDefers, SubmitLostClaim, EnterUnverifiable,
         OrphanGivesUp, ColdParkDefers, ObserveIdle
<1>2. MarkKept /\ probing' \subseteq Pty
  BY DEF Quiet, DeliverSubmitsDeferred, ProbeFindsAbsence, WriteAccepted,
         WriteUnverifiable, EnterTimer, SubmitDefers, SubmitLostClaim, EnterUnverifiable,
         OrphanGivesUp, ColdParkDefers, ObserveIdle, ClearedMark, InactiveMark, MarkKept,
         ProbeEnds, Inv, Shape, MarkShape
<1>3. RowShape'
  BY <1>1, RowsUnchanged DEF Inv, Shape, Rows, RowShape
<1>4. PlaceShape'
  BY <1>1 DEF Inv, Shape, PlaceShape, placeVars
<1>5. FlightGoesOn
  BY QuietFlights DEF Inv, Shape
<1>6. FlightShape'
  BY <1>1, <1>5, FlightShapeGoesOn DEF Inv, Shape, MailShape, mailVars
<1>7. MarkShape'
  BY <1>2, MarkShapeKept DEF Inv, Shape
<1>8. TypedRows'
  BY <1>1 DEF Inv, Rows, TypedRows, mailVars, ghostVars
<1>9. ToldIsRemembered'
  BY <1>1 DEF Inv, ToldIsRemembered, Told, mailVars, ghostVars, placeVars
<1>10. Told' = Told /\ owner' = owner
  BY <1>1 DEF Told, ghostVars, placeVars
<1>11. FlightIsNew'
  BY <1>5, <1>10, FlightNewKept DEF Inv
<1>12. QED
  BY <1>3, <1>4, <1>6, <1>7, <1>8, <1>9, <1>11 DEF Inv, Shape, Rows, RowShape

(* Mail arrives or is read. *)
LEMMA MailKeeps ==
    ASSUME Inv, MailStep PROVE Inv'
<1>1. UNCHANGED <<delivered, memoryVars, placeVars, ghostVars>>
  BY DEF MailStep, Send, TakeMail, Reply, BecomeRead
<1>2. RowShape' /\ read \subseteq read' /\ sent' \in Nat /\ sent' >= sent
      /\ \A m \in Message : claim'[m] = claim[m] \/ (claim'[m] = NoClaim /\ m \in read')
  <2>1. CASE Send
    <3>1. RowShape'
      BY <2>1, RowsSent DEF Inv, Shape, Rows, RowShape
    <3>2. QED
      BY <2>1, <3>1 DEF Send, Inv, Shape, MailShape
  <2>2. ASSUME NEW msgs, msgs \subseteq 1..sent, BecomeRead(msgs), held' \subseteq 1..sent
        PROVE  RowShape' /\ read \subseteq read' /\ sent' = sent
               /\ \A m \in Message : claim'[m] = claim[m] \/ (claim'[m] = NoClaim /\ m \in read')
    <3>1. RowShape'
      BY <2>2, RowsRead DEF Inv, Shape, Rows, RowShape
    <3>2. \A m \in Message : claim'[m] = claim[m] \/ (claim'[m] = NoClaim /\ m \in read')
      BY <2>2 DEF BecomeRead, Unclaimed
    <3>3. QED
      BY <2>2, <3>1, <3>2 DEF BecomeRead
  <2>3. CASE TakeMail
    <3>1. Outstanding \subseteq 1..sent /\ Unread \subseteq 1..sent /\ held \subseteq 1..sent
      BY DEF Outstanding, Unread, Inv, Shape, MailShape
    <3>2. PICK msgs \in {Outstanding, Unread} : BecomeRead(msgs)
      BY <2>3 DEF TakeMail
    <3>3. held' \subseteq 1..sent
      BY <2>3, <3>1 DEF TakeMail
    <3>4. msgs \subseteq 1..sent
      BY <3>1, <3>2
    <3>5. RowShape' /\ read \subseteq read' /\ sent' = sent
          /\ \A m \in Message : claim'[m] = claim[m] \/ (claim'[m] = NoClaim /\ m \in read')
      BY <2>2, <3>2, <3>3, <3>4
    <3>6. QED
      BY <3>5 DEF Inv, Shape, MailShape
  <2>4. ASSUME NEW m \in Message, Reply(m)
        PROVE  RowShape' /\ read \subseteq read' /\ sent' = sent
               /\ \A n \in Message : claim'[n] = claim[n] \/ (claim'[n] = NoClaim /\ n \in read')
    <3>1. {m} \subseteq 1..sent /\ held' \subseteq 1..sent
      BY <2>4 DEF Reply, Unread, Inv, Shape, MailShape
    <3>2. BecomeRead({m})
      BY <2>4 DEF Reply
    <3>3. QED
      BY <2>2, <3>1, <3>2
  <2>5. QED
    BY <2>1, <2>3, <2>4 DEF MailStep, Inv, Shape, MailShape
<1>3. PlaceShape'
  BY <1>1 DEF Inv, Shape, PlaceShape, placeVars
<1>4. FlightGoesOn
  BY <1>1, SameFlights DEF Inv, Shape, memoryVars
<1>5. FlightShape'
  BY <1>2, <1>4, FlightShapeGoesOn DEF Inv, Shape, MailShape
<1>6. MarkShape'
  BY <1>1 DEF Inv, Shape, MarkShape, memoryVars
<1>7. TypedRows'
  BY <1>1, <1>2 DEF Inv, Rows, TypedRows, ghostVars, NoClaim, WRITE_ATTEMPTED
<1>8. Told' = Told /\ owner' = owner /\ inc' = inc
  BY <1>1 DEF Told, ghostVars, placeVars
<1>9. ToldIsRemembered'
  BY <1>1, <1>2, <1>8 DEF Inv, ToldIsRemembered
<1>10. FlightIsNew'
  BY <1>4, <1>8, FlightNewKept DEF Inv
<1>11. QED
  BY <1>2, <1>3, <1>5, <1>6, <1>7, <1>9, <1>10 DEF Inv, Shape, Rows, RowShape

-----------------------------------------------------------------------------
(* Claims that are released, and rows that count as shown.                  *)

(* A claim on mail the owner was told of makes its delivery resume.         *)
LEMMA ToldResumes ==
    ASSUME Inv, NEW m \in Told, m \in Pending
    PROVE  /\ claim[m].pty = owner /\ m \in Message
           /\ claim[m].phase \in {WRITE_ATTEMPTED, ENTER_ATTEMPTED}
           /\ Resumes(owner)
<1>1. m \in Message /\ claim[m] # NoClaim /\ m \notin read
  BY PendingClaims DEF Inv, Shape, Rows, RowShape, Pending, Unread
<1>2. m \notin delivered
  BY <1>1 DEF Inv, Rows, ClaimsAreOpen
<1>3. /\ claim[m].pty = owner /\ claim[m].inc = inc[owner]
      /\ claim[m].phase \in {WRITE_ATTEMPTED, ENTER_ATTEMPTED}
  BY <1>1, <1>2 DEF Inv, ToldIsRemembered
<1>4. \A n \in Pending : n \in Message /\ claim[n] # NoClaim
  BY PendingClaims DEF Inv, Shape, Rows, RowShape
<1>5. HeldHere(owner)
  BY <1>1, <1>3, <1>4 DEF Inv, Rows, OneHolder, HeldHere
<1>6. claim[m].phase \in PendingPhases /\ claim[m].phase # RESERVED
  BY <1>3 DEF PendingPhases, RESERVED, WRITE_ATTEMPTED, ENTER_ATTEMPTED
<1>7. PendingPhases # {RESERVED}
  BY <1>6
<1>8. QED
  BY <1>1, <1>3, <1>5, <1>7 DEF Resumes

LEMMA ReleasedRows ==
    ASSUME Inv, NEW p \in Pty, Releases(p)
    PROVE  \E rows : /\ Released(rows)
                     /\ Told' \subseteq Told /\ Told' \cap rows = {}
                     /\ \/ typed' = typed
                        \/ \E msgs : typed' = typed \ msgs /\ rows = msgs \ read
<1>1. CASE DeliverDefers(p)
  <2>1. Released(Pending) /\ ~Resumes(p)
    BY <1>1 DEF DeliverDefers, Recovered
  <2>2. Told' = Told \ TakenFromOwner(p, Pending)
    BY <1>1 DEF DeliverDefers, Recovered, Told
  <2>3. ASSUME NEW m, m \in Told' \cap Pending PROVE FALSE
    <3>1. m \in Told /\ m \in Pending /\ m \notin TakenFromOwner(p, Pending)
      BY <2>2, <2>3
    <3>2. claim[m].pty = owner /\ Resumes(owner)
      BY <3>1, ToldResumes
    <3>3. p # owner
      BY <2>1, <3>2
    <3>4. QED
      BY <3>1, <3>2, <3>3 DEF TakenFromOwner
  <2>4. typed' = typed
    BY <1>1 DEF DeliverDefers
  <2>5. QED
    BY <2>1, <2>2, <2>3, <2>4
<1>2. CASE WriteRefused(p)
  <2> DEFINE rows == flight[p].msgs \ read
  <2>1. Released(rows) /\ typed' = typed \ flight[p].msgs
    BY <1>2 DEF WriteRefused
  <2>2. Told' = Told \ TakenFromOwner(p, rows)
    BY <1>2 DEF WriteRefused, Told
  <2>3. ASSUME NEW m, m \in Told' \cap rows PROVE FALSE
    <3>1. m \in Told /\ m \in rows /\ m \notin TakenFromOwner(p, rows)
      BY <2>2, <2>3
    <3>2. p # owner
      BY <1>2, <3>1 DEF Inv, FlightIsNew, WriteRefused, Unentered
    <3>3. claim[m].pty = owner \/ m \in delivered
      BY <3>1 DEF Inv, ToldIsRemembered
    <3>4. QED
      BY <3>1, <3>2, <3>3 DEF TakenFromOwner
  <2>4. QED
    BY <2>1, <2>2, <2>3
<1>3. CASE SubmitGivesUp(p)
  <2> DEFINE rows == Holding(flight[p].msgs, p, inc[p], {WRITE_ATTEMPTED})
  <2>1. Released(rows) /\ Told' = Told /\ typed' = typed
    BY <1>3 DEF SubmitGivesUp, Told, ghostVars
  <2>2. ASSUME NEW m, m \in Told' \cap rows PROVE FALSE
    <3>1. m \in Told /\ m \in flight[p].msgs /\ claim[m].pty = p
      BY <2>1, <2>2 DEF Holding
    <3>2. m \in Message
      BY <3>1, PointerAssumption
      DEF Inv, Shape, FlightShape, MailShape, Flight
    <3>3. claim[m] # NoClaim
      BY <3>1, PointerAssumption DEF NoClaim
    <3>4. p = owner
      BY <3>1, <3>2, <3>3 DEF Inv, Rows, ClaimsAreOpen, Unread, ToldIsRemembered
    <3>5. QED
      BY <1>3, <3>1, <3>4 DEF Inv, FlightIsNew, SubmitGivesUp, Unentered
  <2>3. QED
    BY <2>1, <2>2
<1>4. QED
  BY <1>1, <1>2, <1>3 DEF Releases

LEMMA ReleasesKeep ==
    ASSUME Inv, NEW p \in Pty, Releases(p) PROVE Inv'
<1>1. PICK rows : /\ Released(rows)
                  /\ Told' \subseteq Told /\ Told' \cap rows = {}
                  /\ \/ typed' = typed
                     \/ \E msgs : typed' = typed \ msgs /\ rows = msgs \ read
  BY ReleasedRows
<1>2. UNCHANGED placeVars
  BY DEF Releases, DeliverDefers, WriteRefused, SubmitGivesUp
<1>3. MarkKept
  BY DEF Releases, DeliverDefers, WriteRefused, SubmitGivesUp, MarkKept, MarkAfterPass,
         ClearedMark
<1>4. probing' \subseteq Pty
  BY DEF Releases, DeliverDefers, WriteRefused, SubmitGivesUp, ProbeEnds,
         Inv, Shape, MarkShape
<1>5. FlightGoesOn
  BY SameFlights, FlightEnding
  DEF Releases, DeliverDefers, WriteRefused, SubmitGivesUp, Inv, Shape
<1>6. RowShape'
  BY <1>1, RowsReleased DEF Inv, Shape, Rows, RowShape
<1>7. PlaceShape'
  BY <1>2 DEF Inv, Shape, PlaceShape, placeVars
<1>8. FlightShape'
  BY <1>1, <1>5, FlightShapeGoesOn DEF Inv, Shape, MailShape, Released
<1>9. MarkShape'
  BY <1>3, <1>4, MarkShapeKept DEF Inv, Shape
<1>10. TypedRows'
  <2>1. \A m \in Message : claim'[m] = IF m \in rows THEN NoClaim ELSE claim[m]
    BY <1>1 DEF Released, Unclaimed
  <2>2. delivered' = delivered \ rows /\ read' = read
    BY <1>1 DEF Released
  <2>3. \A m \in Message : claim[m] # NoClaim => m \notin read
    BY DEF Inv, Rows, ClaimsAreOpen, Unread
  <2>4. QED
    BY <1>1, <2>1, <2>2, <2>3 DEF Inv, Rows, TypedRows, NoClaim, WRITE_ATTEMPTED
<1>11. ToldIsRemembered'
  <2>1. owner' = owner /\ inc' = inc
    BY <1>2 DEF placeVars
  <2>2. \A m \in Message : m \notin rows => claim'[m] = claim[m]
    BY <1>1 DEF Released, Unclaimed
  <2>3. QED
    BY <1>1, <2>1, <2>2 DEF Inv, ToldIsRemembered, Released
<1>12. FlightIsNew'
  BY <1>1, <1>2, <1>5, FlightNewKept DEF Inv, placeVars
<1>13. QED
  BY <1>6, <1>7, <1>8, <1>9, <1>10, <1>11, <1>12 DEF Inv, Shape, Rows, RowShape

(* Rows count as shown whose text was typed, or that were read; other claims *)
(* that go with them were mere reservations.                                *)
Shown(gone, rows) ==
    /\ claim' = Unclaimed(gone)
    /\ delivered' = delivered \cup rows
    /\ UNCHANGED <<sent, read, held>>
    /\ rows \subseteq gone /\ rows \subseteq 1..sent
    /\ \A m \in rows : m \in read \/ m \in typed
    /\ \A m \in gone \ rows : claim[m].phase \notin {WRITE_ATTEMPTED, ENTER_ATTEMPTED}

LEMMA SettledIsShown ==
    ASSUME Inv, NEW p \in Pty, NEW i, NEW msgs \in SUBSET (1..sent),
           NEW phases \in SUBSET {WRITE_ATTEMPTED, ENTER_ATTEMPTED},
           Settled(Settleable(msgs, p, i, phases))
    PROVE  Shown(Settleable(msgs, p, i, phases), Settleable(msgs, p, i, phases))
<1> DEFINE rows == Settleable(msgs, p, i, phases)
<1>1. rows \in SUBSET (1..sent) /\ \A m \in rows : m \in read \/ claim[m].phase >= WRITE_ATTEMPTED
  BY SettleableRows DEF Inv, Shape, Rows, RowShape
<1>2. rows \subseteq Message
  BY <1>1, PointerAssumption DEF Inv, Shape, MailShape, Message
<1>3. \A m \in rows : m \in read \/ m \in typed
  BY <1>1, <1>2 DEF Inv, Rows, TypedRows
<1> HIDE DEF rows
<1>4. Settled(rows)
  BY DEF rows
<1>5. Shown(rows, rows)
  BY <1>1, <1>3, <1>4 DEF Settled, Shown
<1>6. QED
  BY <1>5 DEF rows

LEMMA SettlesShow ==
    ASSUME Inv, NEW p \in Pty, Settles(p) PROVE \E gone, rows : Shown(gone, rows)
<1>1. CASE DeliverResumes(p)
  <2>1. Pending \subseteq 1..sent
    BY DEF Pending, Unread
  <2>2. QED
    BY <1>1, <2>1, SettledIsShown DEF DeliverResumes
<1>2. CASE SubmitLeavesText(p)
  <2>1. flight[p].msgs \subseteq 1..sent
    BY DEF Inv, Shape, FlightShape
  <2>2. {WRITE_ATTEMPTED} \subseteq {WRITE_ATTEMPTED, ENTER_ATTEMPTED}
    OBVIOUS
  <2>3. QED
    BY <1>2, <2>1, <2>2, SettledIsShown DEF SubmitLeavesText
<1>3. CASE EnterSettles(p)
  <2>1. flight[p].msgs \subseteq 1..sent
        /\ {flight[p].phase} \subseteq {WRITE_ATTEMPTED, ENTER_ATTEMPTED}
    BY <1>3 DEF Inv, Shape, FlightShape, EnterSettles
  <2>2. QED
    BY <1>3, <2>1, SettledIsShown DEF EnterSettles
<1>4. CASE ObserveWorking(p)
  <2> DEFINE mine == {m \in Message : claim[m].phase > 0 /\ claim[m].pty = p}
             reserved == {m \in mine : claim[m].phase = RESERVED}
             rows == mine \ reserved
  <2>1. \A m \in mine : m \in Message /\ claim[m] # NoClaim
    BY DEF NoClaim
  <2>2. mine \subseteq 1..sent /\ mine \cap delivered = {}
    BY <2>1 DEF Inv, Rows, ClaimsAreOpen, Unread
  <2>3. \A m \in rows : claim[m].phase >= WRITE_ATTEMPTED
    BY <2>1 DEF Inv, Shape, MailShape, Claim, RESERVED, WRITE_ATTEMPTED
  <2>4. \A m \in rows : m \in typed
    BY <2>1, <2>3 DEF Inv, Rows, TypedRows
  <2>5. \A m \in mine \ rows : claim[m].phase \notin {WRITE_ATTEMPTED, ENTER_ATTEMPTED}
    BY DEF RESERVED, WRITE_ATTEMPTED, ENTER_ATTEMPTED
  <2>6. claim' = Unclaimed(mine) /\ UNCHANGED <<sent, read, held>>
    BY <1>4 DEF ObserveWorking
  <2>7. delivered' = (delivered \ reserved) \cup rows
    BY <1>4 DEF ObserveWorking
  <2>8. delivered' = delivered \cup rows
    BY <2>2, <2>7
  <2> HIDE DEF mine, reserved
  <2>9. rows \subseteq mine /\ rows \subseteq 1..sent
    BY <2>2
  <2> HIDE DEF rows
  <2>10. Shown(mine, rows)
    BY <2>4, <2>5, <2>6, <2>8, <2>9 DEF Shown
  <2>11. QED
    BY <2>10
<1>5. QED
  BY <1>1, <1>2, <1>3, <1>4 DEF Settles

LEMMA SettlesKeep ==
    ASSUME Inv, NEW p \in Pty, Settles(p) PROVE Inv'
<1>1. PICK gone, rows : Shown(gone, rows)
  BY SettlesShow
<1>2. UNCHANGED <<placeVars, ghostVars>>
  BY DEF Settles, DeliverResumes, SubmitLeavesText, EnterSettles, ObserveWorking
<1>3. MarkKept
  BY DEF Settles, DeliverResumes, SubmitLeavesText, EnterSettles, ObserveWorking,
         MarkKept, ClearedMark, RetiredMark
<1>4. probing' \subseteq Pty
  BY DEF Settles, DeliverResumes, SubmitLeavesText, EnterSettles, ObserveWorking,
         ProbeEnds, Inv, Shape, MarkShape
<1>5. FlightGoesOn
  BY SameFlights, FlightEnding
  DEF Settles, DeliverResumes, SubmitLeavesText, EnterSettles, ObserveWorking, Inv, Shape
<1>6. \A m \in Message : claim'[m] = IF m \in gone THEN NoClaim ELSE claim[m]
  BY <1>1 DEF Shown, Unclaimed
<1>7. RowShape'
  <2>1. ClaimsYield
    BY <1>1, UnclaimedYield DEF Shown, Inv, Shape
  <2>2. MailShape'
    BY <1>1, <2>1 DEF Inv, Shape, MailShape, Shown, ClaimsYield
  <2>3. ClaimsAreOpen'
    BY <1>1, <1>6 DEF Inv, Rows, ClaimsAreOpen, Shown, Unread
  <2>4. QED
    BY <2>1, <2>2, <2>3, OneHolderYields DEF Inv, Rows, RowShape
<1>8. PlaceShape'
  BY <1>2 DEF Inv, Shape, PlaceShape, placeVars
<1>9. FlightShape'
  BY <1>1, <1>5, FlightShapeGoesOn DEF Inv, Shape, MailShape, Shown
<1>10. MarkShape'
  BY <1>3, <1>4, MarkShapeKept DEF Inv, Shape
<1>11. TypedRows'
  <2>1. typed' = typed /\ read' = read
    BY <1>1, <1>2 DEF Shown, ghostVars
  <2>2. \A m \in Message : claim'[m].phase >= WRITE_ATTEMPTED => m \in typed
    BY <1>6 DEF Inv, Rows, TypedRows, NoClaim, WRITE_ATTEMPTED
  <2>3. delivered' \ read \subseteq typed
    BY <1>1 DEF Shown, Inv, Rows, TypedRows
  <2>4. QED
    BY <2>1, <2>2, <2>3 DEF TypedRows
<1>12. Told' = Told /\ owner' = owner /\ inc' = inc
  BY <1>2 DEF Told, ghostVars, placeVars
<1>13. ToldIsRemembered'
  BY <1>1, <1>6, <1>12 DEF Shown, Inv, ToldIsRemembered
<1>14. FlightIsNew'
  BY <1>5, <1>12, FlightNewKept DEF Inv
<1>15. QED
  BY <1>7, <1>8, <1>9, <1>10, <1>11, <1>13, <1>14 DEF Inv, Shape, Rows, RowShape

-----------------------------------------------------------------------------
(* Staging: the batch is new to the owner.                                  *)

(* Mail the owner was told of is never in a batch that is staged. *)
LEMMA StagedIsNew ==
    ASSUME Inv, ~Resumes(owner)
    PROVE  Pointable(Recovered(owner)) \cap Told = {}
<1>1. Recovered(owner) = Pending
  BY DEF Recovered
<1>2. SUFFICES ASSUME NEW m, m \in Pointable(Pending), m \in Told PROVE FALSE
  BY <1>1
<1>3. m \notin Pending
  BY <1>2, ToldResumes
<1>4. m \in Message /\ m \notin read /\ claim[m] = NoClaim /\ m \notin delivered
  BY <1>2, <1>3, PointerAssumption
  DEF Pointable, Unread, Inv, Shape, MailShape, Message
<1>5. QED
  BY <1>2, <1>4 DEF Inv, ToldIsRemembered, NoClaim, WRITE_ATTEMPTED, ENTER_ATTEMPTED

(* The rows after a reservation, and what may have been typed by then. *)
LEMMA ReservedRows ==
    ASSUME Inv, CanStage(owner), NEW phase \in 1..3, Reserved(owner, phase),
           typed \subseteq typed',
           phase >= WRITE_ATTEMPTED => Pointable(Recovered(owner)) \subseteq typed'
    PROVE  /\ RowShape' /\ TypedRows'
           /\ Pointable(Recovered(owner)) \subseteq 1..sent
           /\ \A m \in Told : m \in read \/ m \in delivered'
<1> DEFINE msgs == Pointable(Recovered(owner))
<1>1. ~Resumes(owner) /\ owner \in Pty
  BY DEF CanStage, Inv, Shape, PlaceShape
<1>2. /\ RowShape'
      /\ \A m \in msgs : claim'[m] = [phase |-> phase, pty |-> owner, inc |-> inc[owner]]
      /\ \A m \in Message \ msgs : claim'[m] = NoClaim
  BY <1>1, RowsReserved DEF Inv, Shape, Rows, RowShape
<1>3. msgs \subseteq 1..sent
  BY DEF Pointable, Unread
<1>4. Recovered(owner) = Pending
  BY <1>1 DEF Recovered
<1>5. read' = read /\ delivered' = delivered \ Pending
  BY <1>4 DEF Reserved
<1>6. TypedRows'
  <2>1. \A m \in Message : claim'[m].phase >= WRITE_ATTEMPTED => m \in typed'
    BY <1>2 DEF NoClaim, WRITE_ATTEMPTED
  <2>2. QED
    BY <1>5, <2>1 DEF Inv, Rows, TypedRows
<1>7. ASSUME NEW m \in Told, m \notin read PROVE m \in delivered'
  <2>1. m \notin Pending
    BY <1>1, ToldResumes
  <2>2. m \in delivered \/ (m \in Message /\ claim[m] # NoClaim)
    BY <1>7 DEF Inv, ToldIsRemembered, NoClaim, WRITE_ATTEMPTED, ENTER_ATTEMPTED
  <2>3. QED
    BY <1>5, <2>1, <2>2, PendingClaims DEF Inv, Shape, Rows, RowShape
<1>8. QED
  BY <1>2, <1>3, <1>6, <1>7

LEMMA NewFlight ==
    ASSUME NEW msgs \in SUBSET Message
    PROVE  LET f == [NoFlight EXCEPT !.stage = "writing", !.msgs = msgs]
           IN  f \in Flight /\ f.msgs = msgs /\ f.stage = "writing"
<1>1. NoFlight \in Flight
  BY DEF NoFlight, Flight
<1>2. QED
  BY <1>1 DEF Flight, Stage

LEMMA StagesKeep ==
    ASSUME Inv, NEW p \in Pty, DeliverStages(p) PROVE Inv'
<1> DEFINE msgs == Pointable(Recovered(owner))
           f == [NoFlight EXCEPT !.stage = "writing", !.msgs = msgs]
<1>1. p = owner /\ CanStage(owner) /\ ~Resumes(owner)
  BY DEF DeliverStages, CanStage
<1>2. /\ Reserved(owner, WRITE_ATTEMPTED)
      /\ flight' = [flight EXCEPT ![owner] = f]
      /\ typed' = typed \cup msgs
  BY <1>1 DEF DeliverStages
<1>3. UNCHANGED <<placeVars, entered, lapsed, loosened>>
  BY DEF DeliverStages
<1>4. WRITE_ATTEMPTED \in 1..3 /\ typed \subseteq typed' /\ msgs \subseteq typed'
  BY <1>2 DEF WRITE_ATTEMPTED
<1>5. /\ RowShape' /\ TypedRows' /\ msgs \subseteq 1..sent
      /\ \A m \in Told : m \in read \/ m \in delivered'
  BY <1>1, <1>2, <1>4, ReservedRows
<1>6. Told' = Told /\ owner' = owner /\ inc' = inc /\ sent' = sent /\ read' = read
  BY <1>2, <1>3 DEF Told, placeVars, Reserved
<1>7. PlaceShape'
  BY <1>3 DEF Inv, Shape, PlaceShape, placeVars
<1>8. msgs \subseteq Message /\ msgs \cap Told = {}
  BY <1>1, <1>5, StagedIsNew, PointerAssumption DEF Inv, Shape, MailShape, Message
<1> HIDE DEF msgs
<1>9. f \in Flight /\ f.msgs = msgs /\ f.stage = "writing"
  BY <1>8, NewFlight
<1>10. owner \in Pty /\ flight \in [Pty -> Flight]
  BY DEF Inv, Shape, PlaceShape, FlightShape
<1> HIDE DEF f
<1>11. FlightShape'
  BY <1>2, <1>5, <1>6, <1>9, <1>10 DEF Inv, Shape, FlightShape
<1>12. MarkShape'
  <2>1. watermark' = [pty |-> p, sequence |-> Newest(Pointable(Recovered(p))), active |-> TRUE]
    BY DEF DeliverStages
  <2>2. probing' \subseteq Pty
    BY DEF DeliverStages, ProbeEnds, Inv, Shape, MarkShape
  <2>3. QED
    BY <2>1, <2>2 DEF MarkShape
<1>13. ToldIsRemembered'
  BY <1>5, <1>6 DEF ToldIsRemembered
<1>14. FlightIsNew'
  BY <1>2, <1>6, <1>8, <1>9, <1>10 DEF FlightIsNew
<1>15. QED
  BY <1>5, <1>7, <1>11, <1>12, <1>13, <1>14 DEF Inv, Shape, Rows, RowShape

-----------------------------------------------------------------------------
(* The Enter goes out.                                                      *)

LEMMA EntersKeep ==
    ASSUME Inv, NEW p \in Pty, SubmitEnters(p) PROVE Inv'
<1> DEFINE msgs == flight[p].msgs
           phase == IF EnterMarked(p) THEN ENTER_ATTEMPTED ELSE WRITE_ATTEMPTED
           mine == Holding(msgs, p, inc[p], {WRITE_ATTEMPTED})
<1>1. p = owner /\ flight[p].stage = "probing"
  BY DEF SubmitEnters
<1>2. UNCHANGED <<sent, read, delivered, held, watermark, probing, placeVars, typed, loosened>>
  BY DEF SubmitEnters
<1>3. msgs \subseteq 1..sent /\ msgs \subseteq Message
  BY PointerAssumption DEF Inv, Shape, FlightShape, MailShape, Message
<1>4. \A m \in Message : claim'[m] = claim[m]
                         \/ (m \in mine /\ claim'[m] = [claim[m] EXCEPT !.phase = ENTER_ATTEMPTED])
  BY DEF SubmitEnters, EnterMarked
<1>5. \A m \in mine : /\ m \in Message /\ claim[m].phase = WRITE_ATTEMPTED
                      /\ claim[m].pty = p /\ claim[m].inc = inc[p]
                      /\ claim[m] \in Claim /\ claim[m] # NoClaim
  BY <1>3 DEF Holding, Inv, Shape, MailShape, NoClaim, WRITE_ATTEMPTED
<1>6. \A m \in mine : [claim[m] EXCEPT !.phase = ENTER_ATTEMPTED]
                        = [phase |-> ENTER_ATTEMPTED, pty |-> p, inc |-> inc[p]]
  BY <1>5 DEF Claim, NoClaim
<1>7. [phase |-> ENTER_ATTEMPTED, pty |-> p, inc |-> inc[p]] \in Claim
  BY PointerAssumption DEF Inv, Shape, PlaceShape, Claim, ENTER_ATTEMPTED
<1> HIDE DEF mine
<1>8. \A m \in Message : claim'[m] = claim[m]
        \/ (m \in mine /\ claim'[m] = [phase |-> ENTER_ATTEMPTED, pty |-> p, inc |-> inc[p]])
  BY <1>4, <1>6
<1>9. ClaimsYield
  <2>1. \A m \in Message : claim'[m] \in Claim
    BY <1>7, <1>8 DEF Inv, Shape, MailShape
  <2>2. claim' \in [Message -> Claim]
    BY <2>1 DEF SubmitEnters
  <2>3. \A m \in Message : claim'[m] = NoClaim \/
           /\ claim[m] # NoClaim
           /\ claim'[m].pty = claim[m].pty /\ claim'[m].inc = claim[m].inc
           /\ claim'[m].phase >= WRITE_ATTEMPTED => claim[m].phase >= WRITE_ATTEMPTED
    BY <1>5, <1>8 DEF WRITE_ATTEMPTED
  <2>4. QED
    BY <2>2, <2>3 DEF ClaimsYield
<1>10. RowShape'
  <2>1. MailShape'
    BY <1>2, <1>9 DEF Inv, Shape, MailShape, ClaimsYield
  <2>2. ClaimsAreOpen'
    BY <1>2, <1>5, <1>8 DEF Inv, Rows, ClaimsAreOpen, Unread
  <2>3. QED
    BY <1>9, <2>1, <2>2, OneHolderYields DEF Inv, Rows, RowShape
<1>11. PlaceShape'
  BY <1>2 DEF Inv, Shape, PlaceShape, placeVars
<1>12. FlightShape'
  <2> DEFINE f == [flight[p] EXCEPT !.stage = "entering", !.phase = phase]
  <2>1. phase \in {WRITE_ATTEMPTED, ENTER_ATTEMPTED} /\ phase \in 0..3
    BY DEF WRITE_ATTEMPTED, ENTER_ATTEMPTED
  <2>2. flight' = [flight EXCEPT ![p].stage = "entering", ![p].phase = phase]
    BY DEF SubmitEnters
  <2> HIDE DEF phase
  <2>3. flight'[p] = f
    BY <2>2 DEF Inv, Shape, FlightShape, Flight
  <2>4. f \in Flight /\ f.msgs = flight[p].msgs /\ f.phase = phase
    BY <2>1 DEF Inv, Shape, FlightShape, Flight, Stage
  <2>5. \A q \in Pty : q # p => flight'[q] = flight[q]
    BY <2>2 DEF Inv, Shape, FlightShape
  <2> HIDE DEF f
  <2>6. flight' \in [Pty -> Flight]
    BY <2>2, <2>3, <2>4, <2>5 DEF Inv, Shape, FlightShape
  <2>7. QED
    BY <1>2, <2>1, <2>3, <2>4, <2>5, <2>6 DEF Inv, Shape, FlightShape
<1>13. MarkShape'
  BY <1>2 DEF Inv, Shape, MarkShape
<1>14. TypedRows'
  <2>1. \A m \in Message : claim'[m].phase >= WRITE_ATTEMPTED => claim[m].phase >= WRITE_ATTEMPTED
    BY <1>5, <1>8 DEF WRITE_ATTEMPTED
  <2>2. QED
    BY <1>2, <2>1 DEF Inv, Rows, TypedRows
<1>15. ToldIsRemembered'
  <2>1. Told' \subseteq Told \cup {m \in msgs : m \in read \/ m \in mine}
    BY DEF SubmitEnters, Told, mine
  <2>2. owner' = owner /\ inc' = inc /\ read' = read /\ delivered' = delivered
    BY <1>2 DEF placeVars
  <2>3. ASSUME NEW m \in Message, m \in mine
        PROVE  /\ claim'[m].pty = owner /\ claim'[m].inc = inc[owner]
               /\ claim'[m].phase \in {WRITE_ATTEMPTED, ENTER_ATTEMPTED}
    BY <1>1, <1>5, <1>8, <2>3
  <2>4. ASSUME NEW m \in Message,
               claim[m].pty = owner, claim[m].inc = inc[owner],
               claim[m].phase \in {WRITE_ATTEMPTED, ENTER_ATTEMPTED}
        PROVE  /\ claim'[m].pty = owner /\ claim'[m].inc = inc[owner]
               /\ claim'[m].phase \in {WRITE_ATTEMPTED, ENTER_ATTEMPTED}
    BY <1>8, <2>3, <2>4
  <2>5. mine \subseteq Message
    BY <1>5
  <2>6. QED
    BY <2>1, <2>2, <2>3, <2>4, <2>5 DEF Inv, ToldIsRemembered
<1>16. FlightIsNew'
  <2>1. flight'[p].stage = "entering"
    BY DEF SubmitEnters, Inv, Shape, FlightShape, Flight
  <2>2. QED
    BY <1>1, <1>2, <2>1 DEF FlightIsNew, Unentered, placeVars
<1>17. QED
  BY <1>10, <1>11, <1>12, <1>13, <1>14, <1>15, <1>16 DEF Inv, Shape, Rows, RowShape

-----------------------------------------------------------------------------
(* The mailbox changes hands, and processes end.                            *)

LEMMA ChangeCounts ==
    ASSUME Inv, Change PROVE changes' = changes + 1 /\ changes < MaxEvents
  BY PointerAssumption DEF Change, Inv, Shape, MailShape, PlaceShape

LEMMA TakeOverKeeps ==
    ASSUME Inv, NEW p \in Pty, TakeOver(p) PROVE Inv'
<1>1. UNCHANGED <<sent, read, delivered, claim, memoryVars, inc, typed>>
      /\ held' = {} /\ owner' = p /\ entered' = {}
  BY DEF TakeOver
<1>2. RowShape'
  BY <1>1 DEF Inv, Shape, Rows, RowShape, MailShape, ClaimsAreOpen, OneHolder, Unread
<1>3. PlaceShape'
  <2>1. changes' = changes + 1 /\ changes < MaxEvents
    BY ChangeCounts DEF TakeOver
  <2>2. QED
    BY <1>1, <2>1, PointerAssumption DEF Inv, Shape, PlaceShape
<1>4. FlightShape' /\ MarkShape'
  BY <1>1 DEF Inv, Shape, FlightShape, MarkShape, memoryVars
<1>5. TypedRows'
  BY <1>1 DEF Inv, Rows, TypedRows
<1>6. ToldIsRemembered' /\ FlightIsNew'
  BY <1>1 DEF ToldIsRemembered, FlightIsNew, Told
<1>7. QED
  BY <1>2, <1>3, <1>4, <1>5, <1>6 DEF Inv, Shape, Rows, RowShape

(* A process ends: its incarnation grows, and the ghosts of the owner's go  *)
(* with it.                                                                 *)
IncarnationsEnd ==
    /\ changes' = changes + 1 /\ changes < MaxEvents
    /\ owner' = owner
    /\ inc' \in [Pty -> Nat] /\ \A p \in Pty : inc'[p] = inc[p] \/ inc'[p] = inc[p] + 1
    /\ Told' = {} \/ (Told' = Told /\ inc'[owner] = inc[owner])

LEMMA EndsIncarnations ==
    ASSUME Inv, NEW p \in Pty, Ends(p) PROVE IncarnationsEnd
<1>1. CASE PtyExits(p)
  <2>1. /\ changes' = changes + 1 /\ changes < MaxEvents
    BY <1>1, ChangeCounts DEF PtyExits
  <2>2. inc' \in [Pty -> Nat] /\ \A q \in Pty : inc'[q] = IF q = p THEN inc[q] + 1 ELSE inc[q]
    BY <1>1 DEF PtyExits, Inv, Shape, PlaceShape
  <2>3. Told' = IF p = owner THEN {} ELSE Told
    BY <1>1 DEF PtyExits, Told
  <2>4. owner' = owner /\ owner \in Pty
    BY <1>1 DEF PtyExits, Inv, Shape, PlaceShape
  <2>5. QED
    BY <2>1, <2>2, <2>3, <2>4 DEF IncarnationsEnd
<1>2. ASSUME NEW replaced \in SUBSET Pty, RuntimeEnds(replaced) PROVE IncarnationsEnd
  <2>1. /\ changes' = changes + 1 /\ changes < MaxEvents
    BY <1>2, ChangeCounts DEF RuntimeEnds
  <2>2. /\ inc' \in [Pty -> Nat]
        /\ \A q \in Pty : inc'[q] = IF q \in replaced THEN inc[q] + 1 ELSE inc[q]
    BY <1>2 DEF RuntimeEnds, Inv, Shape, PlaceShape
  <2>3. Told' = IF owner \in replaced THEN {} ELSE Told
    BY <1>2 DEF RuntimeEnds, Told
  <2>4. owner' = owner /\ owner \in Pty
    BY <1>2 DEF RuntimeEnds, Inv, Shape, PlaceShape
  <2>5. QED
    BY <2>1, <2>2, <2>3, <2>4 DEF IncarnationsEnd
<1>3. QED
  BY <1>1, <1>2 DEF Ends, Restart, CrashWhileStaging

(* What a process that ends leaves of the table: mail the owner was told of *)
(* is still claimed by it, or shown, or read.                               *)
LEMMA EndsRows ==
    ASSUME Inv, NEW p \in Pty, Ends(p)
    PROVE  /\ RowShape' /\ TypedRows' /\ sent' = sent /\ read' = read
           /\ \A m \in Told :
                (p = owner /\ PtyExits(p)) \/ m \in read \cup delivered'
                \/ (m \in Message /\ claim'[m] = claim[m] /\ m \notin delivered)
<1>1. CASE PtyExits(p)
  <2> DEFINE rows == Holding(flight[p].msgs, p, inc[p], {RESERVED, WRITE_ATTEMPTED})
  <2>1. Released(rows) /\ typed' = typed
    BY <1>1 DEF PtyExits
  <2>2. RowShape'
    BY <2>1, RowsReleased DEF Inv, Shape, Rows, RowShape
  <2>3. \A m \in Message : claim'[m] = NoClaim \/ claim'[m] = claim[m]
    BY <2>1 DEF Released, Unclaimed
  <2>4. read' = read /\ sent' = sent /\ delivered' = delivered \ rows
    BY <2>1 DEF Released
  <2>5. TypedRows'
    BY <2>1, <2>3, <2>4 DEF Inv, Rows, TypedRows, NoClaim, WRITE_ATTEMPTED
  <2>6. \A m \in rows : m \in Message /\ claim[m].pty = p /\ claim[m] # NoClaim
    BY PointerAssumption
    DEF Holding, Inv, Shape, FlightShape, Flight, NoClaim
  <2>7. \A m \in rows : m \notin delivered /\ m \notin read
    BY <2>6 DEF Inv, Rows, ClaimsAreOpen, Unread
  <2>8. \A m \in Message : m \notin rows => claim'[m] = claim[m]
    BY <2>1 DEF Released, Unclaimed
  <2>9. ASSUME NEW m \in Told, p # owner
        PROVE  m \in read \cup delivered'
               \/ (m \in Message /\ claim'[m] = claim[m] /\ m \notin delivered)
    <3>1. m \notin rows
      BY <2>6, <2>7, <2>9 DEF Inv, ToldIsRemembered
    <3>2. QED
      BY <2>4, <2>8, <2>9, <3>1 DEF Inv, ToldIsRemembered
  <2>10. QED
    BY <1>1, <2>2, <2>4, <2>5, <2>9
<1>2. ASSUME NEW replaced \in SUBSET Pty, Restart(replaced)
      PROVE  /\ RowShape' /\ TypedRows' /\ sent' = sent /\ read' = read
             /\ delivered' = delivered /\ claim' = claim
  <2>1. UNCHANGED <<mailVars, typed>>
    BY <1>2 DEF Restart
  <2>2. RowShape'
    BY <2>1, RowsUnchanged DEF Inv, Shape, Rows, RowShape
  <2>3. QED
    BY <2>1, <2>2 DEF Inv, Rows, TypedRows, mailVars
<1>3. ASSUME NEW replaced \in SUBSET Pty, NEW phase \in {RESERVED, WRITE_ATTEMPTED},
             CrashWhileStaging(p, phase, replaced)
      PROVE  /\ RowShape' /\ TypedRows' /\ sent' = sent /\ read' = read
             /\ \A m \in Told : m \in read \/ m \in delivered'
  <2>1. p = owner /\ CanStage(owner) /\ Reserved(owner, phase)
    BY <1>3 DEF CrashWhileStaging, CanStage
  <2>2. phase \in 1..3 /\ typed \subseteq typed'
        /\ (phase >= WRITE_ATTEMPTED => Pointable(Recovered(owner)) \subseteq typed')
    BY <1>3, <2>1 DEF CrashWhileStaging, RESERVED, WRITE_ATTEMPTED
  <2>3. QED
    BY <2>1, <2>2, ReservedRows DEF Reserved
<1>4. \A m \in Told : m \in read \cup delivered \/ m \in Message
  BY DEF Inv, ToldIsRemembered
<1>5. QED
  BY <1>1, <1>2, <1>3, <1>4 DEF Ends

LEMMA EndsKeep ==
    ASSUME Inv, NEW p \in Pty, Ends(p) PROVE Inv'
<1>1. IncarnationsEnd
  BY EndsIncarnations
<1>2. RowShape' /\ TypedRows' /\ sent' = sent /\ read' = read
  BY EndsRows
<1>3. FlightGoesOn
  BY FlightEnding, FlightsGone
  DEF Ends, PtyExits, Restart, CrashWhileStaging, RuntimeEnds, Inv, Shape
<1>4. MarkKept /\ probing' \subseteq Pty
  BY DEF Ends, PtyExits, Restart, CrashWhileStaging, RuntimeEnds, MarkKept, RetiredMark,
         Inv, Shape, MarkShape
<1>5. PlaceShape'
  BY <1>1, PointerAssumption DEF IncarnationsEnd, Inv, Shape, PlaceShape
<1>6. FlightShape'
  BY <1>2, <1>3, FlightShapeGoesOn DEF Inv, Shape, MailShape
<1>7. MarkShape'
  BY <1>4, MarkShapeKept DEF Inv, Shape
<1>8. ToldIsRemembered'
  <2>1. CASE Told' = {}
    BY <2>1 DEF ToldIsRemembered
  <2>2. CASE Told' = Told /\ inc'[owner] = inc[owner] /\ ~(p = owner /\ PtyExits(p))
    <3>1. owner' = owner
      BY <1>1 DEF IncarnationsEnd
    <3>2. \A m \in Told : m \in read \cup delivered'
                          \/ (m \in Message /\ claim'[m] = claim[m] /\ m \notin delivered)
      BY <2>2, EndsRows
    <3>3. QED
      BY <1>2, <2>2, <3>1, <3>2 DEF Inv, ToldIsRemembered
  <2>3. p = owner /\ PtyExits(p) => Told' = {}
    BY DEF PtyExits, Told
  <2>4. QED
    BY <1>1, <2>1, <2>2, <2>3 DEF IncarnationsEnd
<1>9. FlightIsNew'
  <2>1. Told' \subseteq Told /\ owner' = owner
    BY <1>1 DEF IncarnationsEnd
  <2>2. QED
    BY <1>3, <2>1, FlightNewKept DEF Inv
<1>10. QED
  BY <1>2, <1>5, <1>6, <1>7, <1>8, <1>9 DEF Inv, Shape, Rows, RowShape

-----------------------------------------------------------------------------
(* The invariant, and what follows from it.                                 *)

LEMMA StepKeeps == Inv /\ [Next]_vars => Inv'
<1>1. ASSUME Inv, NEW p \in Pty, StepOf(p) PROVE Inv'
  BY <1>1, QuietKeeps, ReleasesKeep, SettlesKeep, StagesKeep, EntersKeep, TakeOverKeeps, EndsKeep
  DEF StepOf
<1>2. ASSUME Inv, UNCHANGED vars PROVE Inv'
  BY <1>2 DEF Inv, Shape, Rows, MailShape, PlaceShape, FlightShape, MarkShape, ClaimsAreOpen,
              TypedRows, OneHolder, ToldIsRemembered, FlightIsNew, Told, Unread,
              vars, mailVars, memoryVars, placeVars, ghostVars
<1>3. QED
  BY <1>1, <1>2, MailKeeps, NextSteps

(* The claims of the rows, the flights and what the owner was told of       *)
(* always fit together: the columns of mailbox-pointer-enter-state.ts are   *)
(* enough to know, after any crash or change of owner, what was shown.      *)
THEOREM PointerHolds == Spec => []Inv
<1>1. QED
  BY InitHolds, StepKeeps, PTL DEF Spec

(* The type invariant; in particular mail that was read keeps no claim.     *)
THEOREM PointerTypes == Spec => []TypeOK
<1>1. ASSUME Inv PROVE TypeOK
  <2>1. inc \in [Pty -> 0..MaxEvents]
    BY <1>1, PointerAssumption DEF Inv, Shape, PlaceShape
  <2>2. \A m \in read : m \in Message /\ claim[m] = NoClaim
    BY <1>1, PointerAssumption
    DEF Inv, Shape, MailShape, Rows, ClaimsAreOpen, Unread, Message
  <2>3. \A p \in Pty : flight[p].stage \in Stage \cup {"none"} /\ flight[p].msgs \subseteq 1..sent
    BY <1>1 DEF Inv, Shape, FlightShape, Flight
  <2>4. QED
    BY <1>1, <2>1, <2>2, <2>3 DEF Inv, Shape, MailShape, PlaceShape, MarkShape, TypeOK
<1>2. QED
  BY <1>1, PointerHolds, PTL

(* Mail that was only reserved, or whose write was refused, never counts as *)
(* delivered, however recoveries, exits and titles interleave.              *)
THEOREM DeliveredMailWasTyped == Spec => []DeliveredWasTyped
<1>1. Inv => DeliveredWasTyped
  BY DEF Inv, Rows, TypedRows, DeliveredWasTyped
<1>2. QED
  BY <1>1, PointerHolds, PTL

(* A flight enters by SubmitEnters alone, in the terminal that owns the mailbox. *)
LEMMA OnlyOwnersEnter ==
    ASSUME Inv, Next, NEW p \in Pty,
           flight[p].stage = "probing", flight'[p].stage = "entering"
    PROVE  p = owner
<1>1. ~FlightGoesOn
  BY DEF FlightGoesOn
<1>2. ~MailStep
  BY <1>1, SameFlights
  DEF MailStep, Send, TakeMail, Reply, BecomeRead, memoryVars, Inv, Shape
<1>3. PICK q \in Pty : StepOf(q)
  BY <1>2, NextSteps
<1>4. ~Quiet(q)
  BY <1>1, QuietFlights DEF Inv, Shape
<1>5. ~Releases(q) /\ ~Settles(q)
  BY <1>1, SameFlights, FlightEnding
  DEF Releases, DeliverDefers, WriteRefused, SubmitGivesUp,
      Settles, DeliverResumes, SubmitLeavesText, EnterSettles, ObserveWorking, Inv, Shape
<1>6. ~Ends(q)
  BY <1>1, FlightEnding, FlightsGone
  DEF Ends, PtyExits, Restart, CrashWhileStaging, RuntimeEnds, Inv, Shape
<1>7. ~TakeOver(q)
  BY <1>1, SameFlights DEF TakeOver, memoryVars, Inv, Shape
<1>8. ASSUME DeliverStages(q) PROVE FALSE
  <2>1. flight'[p] = flight[p] \/ flight'[p].stage = "writing"
    BY <1>8 DEF DeliverStages, NoFlight, Inv, Shape, FlightShape
  <2>2. QED
    BY <2>1
<1>9. CASE SubmitEnters(q)
  <2>1. q = owner /\ (p # q => flight'[p] = flight[p])
    BY <1>9 DEF SubmitEnters, Inv, Shape, FlightShape
  <2>2. QED
    BY <2>1
<1>10. QED
  BY <1>3, <1>4, <1>5, <1>6, <1>7, <1>8, <1>9 DEF StepOf

(* No Enter for a message is sent twice to the process that coordinates the *)
(* Run, but for mail a stale terminal reset or an Enter took along unclaimed. *)
THEOREM OwnerIsPointedOnce == Spec => PointedOnceByOwner
<1> DEFINE A == \A p \in Pty :
                  flight[p].stage = "probing" /\ flight'[p].stage = "entering"
                    => (flight[p].msgs \cap entered) \subseteq lapsed \cup loosened
<1>1. Inv /\ [Next]_vars => [A]_vars
  <2> SUFFICES ASSUME Inv, Next PROVE A
    OBVIOUS
  <2> SUFFICES ASSUME NEW p \in Pty, flight[p].stage = "probing", flight'[p].stage = "entering"
               PROVE  (flight[p].msgs \cap entered) \subseteq lapsed \cup loosened
    OBVIOUS
  <2>1. p = owner
    BY OnlyOwnersEnter
  <2>2. QED
    BY <2>1 DEF Inv, FlightIsNew, Told, Unentered
<1>2. QED
  BY <1>1, PointerHolds, PTL DEF Spec, PointedOnceByOwner
=============================================================================
