------------------------ MODULE WorkerTerminalProofs ------------------------
(***************************************************************************)
(* Proofs about the custody of a worker's terminal: types, that a release  *)
(* follows settlement, that a close is admitted only for its owner and     *)
(* hits only its owner's process, and that the output of a closed worker   *)
(* survives.  The invariant Custody says what the two chains of awaits,    *)
(* the release in flight and the stop in flight, may still rely on of what *)
(* they read before: unless Keep open or a retain raced them, the row.     *)
(***************************************************************************)
EXTENDS WorkerTerminal, TLAPS

Row == [owner : Dispatches, release : ReleaseState, reason : RetainedReason,
        deadline : {"none", "running", "due"}, autoFor : Dispatches \cup {NoDispatch}]
WorkerState == {"none", "ready", "stopping", "stop_unknown"} \cup WORKER_SETTLED_STATES
Flights == [at : {"none", "looking", "capturing", "probing", "admitting", "closing"},
            for : Dispatches \cup {NoDispatch}, recovery : BOOLEAN, automatic : BOOLEAN]
Stops == [at : {"none", "looking", "archiving", "closing"}, for : Dispatches \cup {NoDispatch}]

(* The values of the variables, and whose countdown and refusals they are.  *)
RowShape == row \in Row

Shapes ==
    /\ kind \in Kinds
    /\ row.deadline # "none" => row.autoFor = row.owner
    /\ prior \subseteq Dispatches \ {row.owner}
    /\ archive \subseteq Dispatches
    /\ worker \in [Dispatches -> WorkerState]
    /\ process \in {"live", "ended", "replaced"}
    /\ turn \in BOOLEAN
    /\ flight \in Flights
    /\ asked \subseteq prior \cup {row.owner}
    /\ stop \in Stops
    /\ faults \in Nat
    /\ keptOpen \in BOOLEAN
    /\ closed \in Dispatches \cup {NoDispatch}
    /\ raced \in BOOLEAN

(* Whoever owns or owned the terminal has been at work, and those who       *)
(* handed it over have ended.                                               *)
OwnersWorked ==
    /\ worker[row.owner] # "none"
    /\ \A d \in prior : Settled(d)

(* The choice of the user stands in the row. *)
KeptIsRecorded == keptOpen => UserKept(row)

DeadAreIdle == process # "live" => ~turn

(* A committed release belongs to the owner, whose output is archived, and  *)
(* the release in flight is for it.                                         *)
FlightOwns ==
    /\ flight.at = "none" => flight = NoFlight
    /\ flight.at # "none" => flight.for \in Dispatches
    /\ row.release = "releasing" =>
          row.owner \in archive /\ (flight.at # "none" => flight.for = row.owner)

(* So does a close that is under way, unless Keep open or a retain raced it. *)
CloseOwns ==
    flight.at = "closing" /\ ~raced =>
        /\ row.owner = flight.for /\ row.release \in {"releasing", "released"}
        /\ flight.for \in archive

(* A stop in flight holds its worker in "stopping" and so its terminal. *)
StopOwns ==
    /\ stop.at # "none" => stop.for \in Dispatches
    /\ stop.at # "none" /\ process = "live" => worker[stop.for] = "stopping"
    /\ stop.at \in {"archiving", "closing"} /\ process = "live" => row.owner = stop.for
    /\ worker[row.owner] = "stopping" /\ ~raced => ~keptOpen

(* After a close nothing lives in the terminal and nobody retained it. *)
ClosedIsDead ==
    closed # NoDispatch =>
        /\ process # "live"
        /\ ~raced => /\ closed \in archive
                     /\ row.release = "retained" => row.reason = "identity_unproven"

Custody ==
    /\ OwnersWorked /\ KeptIsRecorded /\ DeadAreIdle /\ FlightOwns
    /\ CloseOwns /\ StopOwns /\ ClosedIsDead /\ ReleaseFollowsSettlement

Inv == RowShape /\ Shapes /\ Custody

-----------------------------------------------------------------------------
LEMMA IdleShapes == NoFlight \in Flights /\ NoStop \in Stops
BY DEF NoFlight, NoStop, Flights, Stops

LEMMA InitInv == Init => Inv
<1> SUFFICES ASSUME Init PROVE Inv
    OBVIOUS
<1> USE TerminalAssumption DEF Init
<1>1. RowShape
    BY DEF RowShape, Row, ReleaseState, RetainedReason
<1>2. worker \in [Dispatches -> WorkerState]
    BY DEF WorkerState
<1>3. Shapes
    BY <1>2, IdleShapes DEF Shapes
<1>4. Custody
    BY DEF Custody, OwnersWorked, KeptIsRecorded, DeadAreIdle, FlightOwns, CloseOwns, StopOwns,
           ClosedIsDead, ReleaseFollowsSettlement, NoFlight, NoStop
<1> QED BY <1>1, <1>3, <1>4 DEF Inv

(* The worker, its agent, its process and the hand-over to a follow-up.     *)
LEMMA WorkStepsKeepInv ==
    ASSUME Inv,
           \/ \E d \in Dispatches :
                 \/ \E outcome \in WORKER_RELEASABLE_STATES : Report(d, outcome)
                 \/ ReconcileMissingTerminal(d) \/ FollowUp(d)
           \/ AgentWorks \/ AgentRests \/ DeadlineComes \/ ProcessEnds \/ PaneReplaced
           \/ ExitNoticed
    PROVE  Inv'
<1> USE TerminalAssumption
    DEF Inv, RowShape, Shapes, Row, WorkerState, Flights, Stops, Custody, OwnersWorked,
        KeptIsRecorded, DeadAreIdle, FlightOwns, CloseOwns, StopOwns, ClosedIsDead,
        ReleaseFollowsSettlement, ReleaseState, RetainedReason, Settled, UserKept,
        WORKER_SETTLED_STATES, WORKER_RELEASABLE_STATES, NoFlight, NoStop, memoryVars, ghostVars,
        custodyVars, worldVars
<1>1. ASSUME NEW d \in Dispatches, NEW outcome \in WORKER_RELEASABLE_STATES, Report(d, outcome)
      PROVE  Inv'
  <2>1. /\ worker' \in [Dispatches -> WorkerState] /\ worker'[d] = outcome
        /\ \A e \in Dispatches : e # d => worker'[e] = worker[e]
      BY <1>1 DEF Report
  <2>2. RowShape'
      BY <1>1 DEF Report
  <2>3. /\ row'.owner = row.owner /\ row'.release = row.release /\ row'.reason = row.reason
        /\ row'.deadline # "none" => row'.autoFor = row'.owner
      BY <1>1 DEF Report
  <2>4. Shapes'
    <3> HIDE DEF Row, Flights, Stops, WorkerState, NoFlight, NoStop
    <3> QED BY <1>1, <2>1, <2>3 DEF Report
  <2>5. worker[d] = "ready" /\ process = "live"
        /\ UNCHANGED <<prior, archive, flight, stop, process, turn, ghostVars>>
      BY <1>1 DEF Report
  <2>6. OwnersWorked' /\ ReleaseFollowsSettlement'
      BY <2>1, <2>3, <2>5
  <2>7. StopOwns'
      BY <2>1, <2>3, <2>5
  <2>8. KeptIsRecorded' /\ DeadAreIdle' /\ FlightOwns' /\ CloseOwns' /\ ClosedIsDead'
      BY <2>3, <2>5
  <2> QED BY <2>2, <2>4, <2>6, <2>7, <2>8
<1>2. ASSUME NEW d \in Dispatches, ReconcileMissingTerminal(d) PROVE Inv'
  <2>1. RowShape'
      BY <1>2 DEF ReconcileMissingTerminal
  <2>2. Shapes'
      BY <1>2 DEF ReconcileMissingTerminal
  <2>3. Custody'
      BY <1>2 DEF ReconcileMissingTerminal
  <2> QED BY <2>1, <2>2, <2>3
<1>3. ASSUME NEW d \in Dispatches, FollowUp(d) PROVE Inv'
  <2>1. /\ worker' \in [Dispatches -> WorkerState] /\ worker'[d] = "ready" /\ worker[d] = "none"
        /\ \A e \in Dispatches : e # d => worker'[e] = worker[e]
      BY <1>3 DEF FollowUp
  <2>2. RowShape'
      BY <1>3 DEF FollowUp, Transferred
  <2>3. /\ row'.owner = d /\ row'.deadline = "none" /\ row'.release \in {"not_requested", "retained"}
        /\ UserKept(row) => UserKept(row')
        /\ prior' = prior \cup {row.owner} /\ Settled(row.owner) /\ process = "live"
      BY <1>3 DEF FollowUp, Transferable, Transferred, KeptOpen
  <2>4. UNCHANGED <<archive, memoryVars, kind, process, faults, ghostVars>>
      BY <1>3 DEF FollowUp
  <2>5. Shapes'
    <3>1. prior' \subseteq Dispatches \ {d} /\ asked' \subseteq prior' \cup {d}
        BY <2>1, <2>3, <2>4
    <3> HIDE DEF Row, Flights, Stops, WorkerState, NoFlight, NoStop
    <3> QED BY <2>1, <2>3, <2>4, <3>1
  <2>6. OwnersWorked' /\ ReleaseFollowsSettlement'
      BY <2>1, <2>3
  <2>7. StopOwns'
      BY <2>1, <2>3, <2>4
  <2>8. KeptIsRecorded' /\ DeadAreIdle' /\ FlightOwns' /\ ClosedIsDead'
      BY <2>3, <2>4
  <2>9. CloseOwns'
      BY <1>3, <2>3, <2>4 DEF FollowUp, Transferable
  <2> QED BY <2>2, <2>5, <2>6, <2>7, <2>8, <2>9
<1>4. CASE AgentWorks
  <2>1. RowShape'
      BY <1>4 DEF AgentWorks, Suspended, Armed
  <2>2. Shapes'
      BY <1>4 DEF AgentWorks, Suspended, Armed
  <2>3. Custody'
      BY <1>4 DEF AgentWorks, Suspended, Armed
  <2> QED BY <2>1, <2>2, <2>3
<1>5. CASE AgentRests
  <2>1. RowShape'
      BY <1>5 DEF AgentRests, Restarted, Armed
  <2>2. row'.owner = row.owner /\ (row'.deadline # "none" => row'.autoFor = row'.owner)
      BY <1>5 DEF AgentRests, Restarted, Armed
  <2>3. Shapes'
    <3> HIDE DEF Row, Flights, Stops, WorkerState, NoFlight, NoStop
    <3> QED BY <1>5, <2>2 DEF AgentRests, Armed
  <2>4. Custody'
      BY <1>5 DEF AgentRests, Restarted, Armed
  <2> QED BY <2>1, <2>3, <2>4
<1>6. CASE DeadlineComes
  <2>1. RowShape'
      BY <1>6 DEF DeadlineComes
  <2>2. Shapes'
      BY <1>6 DEF DeadlineComes
  <2>3. Custody'
      BY <1>6 DEF DeadlineComes
  <2> QED BY <2>1, <2>2, <2>3
<1>7. CASE ProcessEnds
  <2>1. RowShape'
      BY <1>7 DEF ProcessEnds, Exits, Restarted, Armed
  <2>2. row'.owner = row.owner /\ (row'.deadline # "none" => row'.autoFor = row'.owner)
      BY <1>7 DEF ProcessEnds, Exits, Restarted, Armed
  <2>3. Shapes'
    <3> HIDE DEF Row, Flights, Stops, WorkerState, NoFlight, NoStop
    <3> QED BY <1>7, <2>2 DEF ProcessEnds, Exits
  <2>4. Custody'
      BY <1>7 DEF ProcessEnds, Exits, Restarted, Armed
  <2> QED BY <2>1, <2>3, <2>4
<1>8. CASE PaneReplaced
  <2>1. RowShape'
      BY <1>8 DEF PaneReplaced
  <2>2. Shapes'
      BY <1>8 DEF PaneReplaced
  <2>3. Custody'
      BY <1>8 DEF PaneReplaced
  <2> QED BY <2>1, <2>2, <2>3
<1>9. CASE ExitNoticed
  <2>1. RowShape'
      BY <1>9 DEF ExitNoticed
  <2>2. Shapes'
      BY <1>9 DEF ExitNoticed
  <2>3. Custody'
      BY <1>9 DEF ExitNoticed
  <2> QED BY <2>1, <2>2, <2>3
<1> QED BY <1>1, <1>2, <1>3, <1>4, <1>5, <1>6, <1>7, <1>8, <1>9

(* What is asked of a release, and the timer that asks for it.              *)
LEMMA RequestStepsKeepInv ==
    ASSUME Inv,
           \/ \E d \in Dispatches : RequestRelease(d) \/ RefuseRelease(d) \/ RefusedIsLookedAt(d)
           \/ AllowAutoClose \/ ClaimDue \/ Reconcile
    PROVE  Inv'
<1> USE TerminalAssumption
    DEF Inv, RowShape, Shapes, Row, WorkerState, Flights, Stops, Custody, OwnersWorked,
        KeptIsRecorded, DeadAreIdle, FlightOwns, CloseOwns, StopOwns, ClosedIsDead,
        ReleaseFollowsSettlement, ReleaseState, RetainedReason, Settled, UserKept,
        WORKER_SETTLED_STATES, WORKER_RELEASABLE_STATES, NoFlight, NoStop, memoryVars, ghostVars,
        custodyVars, worldVars
<1>1. ASSUME NEW d \in Dispatches, RequestRelease(d) PROVE Inv'
  <2>1. RowShape'
      BY <1>1 DEF RequestRelease, OwnerReleasable, Joined, Flight
  <2>2. Shapes'
      BY <1>1 DEF RequestRelease, OwnerReleasable, Joined, Flight
  <2>3. Custody'
      BY <1>1 DEF RequestRelease, OwnerReleasable, Joined, Flight
  <2> QED BY <2>1, <2>2, <2>3
<1>2. ASSUME NEW d \in Dispatches, RefuseRelease(d) PROVE Inv'
  <2>1. RowShape'
      BY <1>2 DEF RefuseRelease
  <2>2. Shapes'
      BY <1>2 DEF RefuseRelease
  <2>3. Custody'
      BY <1>2 DEF RefuseRelease
  <2> QED BY <2>1, <2>2, <2>3
<1>3. ASSUME NEW d \in Dispatches, RefusedIsLookedAt(d) PROVE Inv'
  <2>1. RowShape'
      BY <1>3 DEF RefusedIsLookedAt, DeadSettles, SettledRow
  <2>2. Shapes'
      BY <1>3 DEF RefusedIsLookedAt, DeadSettles, SettledRow
  <2>3. Custody'
      BY <1>3 DEF RefusedIsLookedAt, DeadSettles, SettledRow
  <2> QED BY <2>1, <2>2, <2>3
<1>4. CASE AllowAutoClose
  <2>1. RowShape'
      BY <1>4 DEF AllowAutoClose, OwnerReleasable
  <2>2. row'.owner = row.owner /\ (row'.deadline # "none" => row'.autoFor = row'.owner)
      BY <1>4 DEF AllowAutoClose, OwnerReleasable
  <2>3. Shapes'
    <3> HIDE DEF Row, Flights, Stops, WorkerState, NoFlight, NoStop
    <3> QED BY <1>4, <2>2 DEF AllowAutoClose
  <2>4. Custody'
      BY <1>4 DEF AllowAutoClose, OwnerReleasable
  <2> QED BY <2>1, <2>3, <2>4
<1>5. CASE ClaimDue
  <2>1. CASE turn
    <3>1. RowShape' /\ Custody'
        BY <1>5, <2>1 DEF ClaimDue, Armed, Suspended
    <3>2. Shapes'
        BY <1>5, <2>1 DEF ClaimDue, Armed, Suspended
    <3> QED BY <3>1, <3>2
  <2>2. CASE ~turn
    <3> DEFINE f == Flight(row.owner, TRUE, TRUE)
    <3>1. /\ row' = [row EXCEPT !.release = "requested", !.reason = "none"]
          /\ flight' = Joined(f)
          /\ Armed /\ OwnerReleasable
        BY <1>5, <2>2 DEF ClaimDue
    <3>2. f \in Flights /\ f.at # "none" /\ f.for \in Dispatches
        BY DEF Flight
    <3> HIDE DEF f
    <3>3. flight' \in Flights /\ flight'.at # "none" /\ flight'.for \in Dispatches
          /\ (flight'.at = "closing" => flight.at = "closing" /\ flight'.for = flight.for)
        BY <3>1, <3>2 DEF Joined, f, Flight
    <3>4. RowShape'
        BY <3>1
    <3>5. Shapes'
        BY <1>5, <3>1, <3>3 DEF ClaimDue
    <3>6. Custody'
        BY <1>5, <3>1, <3>3 DEF ClaimDue, Armed, OwnerReleasable
    <3> QED BY <3>4, <3>5, <3>6
  <2> QED BY <2>1, <2>2
<1>6. CASE Reconcile
  <2>1. RowShape'
      BY <1>6 DEF Reconcile, Flight
  <2>2. Shapes'
      BY <1>6 DEF Reconcile, Flight
  <2>3. Custody'
      BY <1>6 DEF Reconcile, Flight
  <2> QED BY <2>1, <2>2, <2>3
<1> QED BY <1>1, <1>2, <1>3, <1>4, <1>5, <1>6

(* Keeping a terminal that a close has begun to end is what raced records.  *)
LEMMA RetainFacts ==
    ASSUME Inv, NEW reason \in {"user_requested", "user_kept"}, RetainRow(reason),
           row.release # "released"
    PROVE  /\ row' \in Row
           /\ row'.owner = row.owner /\ row'.release = "retained" /\ row'.deadline = "none"
           /\ row'.reason = IF UserKept(row) THEN row.reason ELSE reason
           /\ archive' \subseteq archive
           /\ raced \/ CloseBegun => raced'
           /\ raced' \in BOOLEAN
           /\ UNCHANGED <<prior, memoryVars, kind, process, faults, closed>>
BY DEF RetainRow, Inv, RowShape, Row, Shapes, ReleaseState, RetainedReason

(* Retaining, abandoning, keeping open.                                     *)
LEMMA KeepStepsKeepInv ==
    ASSUME Inv,
           (\E d \in Dispatches : Retain(d) \/ Abandon(d)) \/ KeepOpen
    PROVE  Inv'
<1> USE TerminalAssumption
    DEF Inv, RowShape, Shapes, Row, WorkerState, Flights, Stops, Custody, OwnersWorked,
        KeptIsRecorded, DeadAreIdle, FlightOwns, CloseOwns, StopOwns, ClosedIsDead,
        ReleaseFollowsSettlement, ReleaseState, RetainedReason, Settled, UserKept,
        WORKER_SETTLED_STATES, WORKER_RELEASABLE_STATES, NoFlight, NoStop, memoryVars, ghostVars,
        custodyVars, worldVars
<1>1. ASSUME NEW d \in Dispatches, Retain(d) PROVE Inv'
  <2>1. RetainRow("user_requested") /\ row.release # "released" /\ UNCHANGED <<worker, keptOpen>>
      BY <1>1 DEF Retain, Retainable
  <2>2. Shapes'
      BY <2>1, RetainFacts
  <2>3. Custody'
      BY <2>1, RetainFacts DEF CloseBegun
  <2> QED BY <2>1, <2>2, <2>3, RetainFacts
<1>2. ASSUME NEW d \in Dispatches, Abandon(d) PROVE Inv'
  <2>1. /\ worker' = [worker EXCEPT ![d] = "abandoned"] /\ keptOpen' = keptOpen
        /\ worker[d] \in {"ready", "stop_unknown"} \/ (worker[d] = "stopping" /\ stop.for # d)
      BY <1>2 DEF Abandon
  <2>2. /\ worker'[d] = "abandoned" /\ worker' \in [Dispatches -> WorkerState]
        /\ \A e \in Dispatches : e # d => worker'[e] = worker[e]
      BY <2>1
  <2>3. CASE Retainable(d)
    <3>1. RetainRow("user_requested") /\ row.release # "released" /\ row.owner = d
        BY <1>2, <2>3 DEF Abandon, Retainable
    <3>2. Shapes'
        BY <2>1, <2>2, <3>1, RetainFacts
    <3>3. Custody'
        BY <2>1, <2>2, <3>1, RetainFacts DEF CloseBegun
    <3> QED BY <3>1, <3>2, <3>3, RetainFacts
  <2>4. CASE ~Retainable(d)
    <3>1. UNCHANGED <<custodyVars, memoryVars, kind, process, faults, closed, raced>>
        BY <1>2, <2>4 DEF Abandon
    <3>2. RowShape' /\ Shapes'
        BY <2>1, <2>2, <3>1
    <3>3. Custody'
        BY <2>1, <2>2, <3>1
    <3> QED BY <3>2, <3>3
  <2> QED BY <2>3, <2>4
<1>3. CASE KeepOpen
  <2>1. RetainRow("user_kept") /\ row.release # "released" /\ worker' = worker /\ keptOpen' = TRUE
      BY <1>3 DEF KeepOpen
  <2>2. Shapes'
      BY <2>1, RetainFacts
  <2>3. Custody'
      BY <2>1, RetainFacts DEF CloseBegun
  <2> QED BY <2>1, <2>2, <2>3, RetainFacts
<1> QED BY <1>1, <1>2, <1>3

(* Committing the archive, whichever await it follows.                      *)
LEMMA CommitKeepsInv ==
    ASSUME Inv, flight.at \in {"looking", "capturing"}, Commit(flight.for),
           UNCHANGED <<prior, turn, asked, stop, worldVars, ghostVars>>
    PROVE  Inv'
<1> USE TerminalAssumption
    DEF Inv, RowShape, Shapes, Row, WorkerState, Flights, Stops, Custody, OwnersWorked,
        KeptIsRecorded, DeadAreIdle, FlightOwns, CloseOwns, StopOwns, ClosedIsDead,
        ReleaseFollowsSettlement, ReleaseState, RetainedReason, Settled, UserKept,
        WORKER_SETTLED_STATES, WORKER_RELEASABLE_STATES, NoFlight, NoStop, memoryVars, ghostVars,
        custodyVars, worldVars
<1> DEFINE d == flight.for
           r == IF Committing(d) THEN [row EXCEPT !.release = "releasing"] ELSE row
           a == IF Committing(d) THEN archive \cup {d} ELSE archive
<1>0. d \in Dispatches
    OBVIOUS
<1>1. /\ r \in Row /\ r.owner = row.owner /\ r.reason = row.reason
      /\ r.deadline = row.deadline /\ r.autoFor = row.autoFor
      /\ r.release = row.release \/ (row.release = "requested" /\ r.release = "releasing")
      /\ archive \subseteq a /\ a \subseteq Dispatches
      /\ r.release = "releasing" => row.owner = d /\ d \in a
    BY <1>0 DEF Committing
<1>2. \/ r.release # "releasing" /\ row' = r /\ archive' = a /\ flight' = NoFlight
      \/ r.release = "releasing" /\ row' = Unproven(r) /\ archive' = a /\ flight' = NoFlight
      \/ /\ r.release = "releasing" /\ Defers(r) /\ row' = Deferred(r)
         /\ archive' = a \ {r.owner} /\ flight' = NoFlight
      \/ /\ r.release = "releasing" /\ row' = r /\ archive' = a
         /\ \/ flight' = [flight EXCEPT !.at = "admitting"]
            \/ flight' = [flight EXCEPT !.at = "closing"]
    BY DEF Commit, ReleaseEnds
<1> HIDE DEF r, a
<1>3. CASE r.release # "releasing" /\ row' = r /\ archive' = a /\ flight' = NoFlight
  <2>1. RowShape' /\ Shapes'
      BY <1>0, <1>1, <1>3
  <2>2. Custody'
      BY <1>0, <1>1, <1>3
  <2> QED BY <2>1, <2>2
<1>4. CASE r.release = "releasing" /\ row' = Unproven(r) /\ archive' = a /\ flight' = NoFlight
  <2>1. row' = [r EXCEPT !.release = "retained", !.reason = "identity_unproven"]
      BY <1>4 DEF Unproven, InRelease
  <2>2. RowShape'
      BY <1>1, <2>1
  <2>3. Shapes'
      BY <1>0, <1>1, <1>4, <2>1
  <2>4. Custody'
      BY <1>0, <1>1, <1>4, <2>1
  <2> QED BY <2>2, <2>3, <2>4
<1>5. CASE /\ r.release = "releasing" /\ Defers(r) /\ row' = Deferred(r)
           /\ archive' = a \ {r.owner} /\ flight' = NoFlight
  <2>1. turn /\ row' = [r EXCEPT !.release = "not_requested", !.deadline = "none"]
      BY <1>5 DEF Defers, Deferred
  <2>2. RowShape' /\ Shapes'
      BY <1>0, <1>1, <1>5, <2>1
  <2>3. Custody'
      BY <1>0, <1>1, <1>5, <2>1
  <2> QED BY <2>2, <2>3
<1>6. CASE /\ r.release = "releasing" /\ row' = r /\ archive' = a
           /\ \/ flight' = [flight EXCEPT !.at = "admitting"]
              \/ flight' = [flight EXCEPT !.at = "closing"]
  <2>1. /\ flight' \in Flights /\ flight'.at \in {"admitting", "closing"}
        /\ flight'.for = flight.for
      BY <1>6
  <2>2. RowShape' /\ Shapes'
      BY <1>0, <1>1, <1>6, <2>1
  <2>3. Custody'
      BY <1>0, <1>1, <1>6, <2>1
  <2> QED BY <2>2, <2>3
<1> QED BY <1>2, <1>3, <1>4, <1>5, <1>6

(* The chain of awaits of a release.                                       *)
LEMMA ReleaseStepsKeepInv ==
    ASSUME Inv,
           ReleaseStep
    PROVE  Inv'
<1> USE TerminalAssumption
    DEF Inv, RowShape, Shapes, Row, WorkerState, Flights, Stops, Custody, OwnersWorked,
        KeptIsRecorded, DeadAreIdle, FlightOwns, CloseOwns, StopOwns, ClosedIsDead,
        ReleaseFollowsSettlement, ReleaseState, RetainedReason, Settled, UserKept,
        WORKER_SETTLED_STATES, WORKER_RELEASABLE_STATES, NoFlight, NoStop, memoryVars, ghostVars,
        custodyVars, worldVars
<1>1. CASE LookFails
  <2>1. RowShape'
      BY <1>1 DEF LookFails, Fault, ReleaseEnds, Unproven, InRelease
  <2>2. Shapes'
      BY <1>1 DEF LookFails, Fault, ReleaseEnds, Unproven, InRelease
  <2>3. Custody'
      BY <1>1 DEF LookFails, Fault, ReleaseEnds, Unproven, InRelease
  <2> QED BY <2>1, <2>2, <2>3
<1>2. CASE LookFinds
  <2>1. CASE flight.for \in archive
      BY <1>2, <2>1, CommitKeepsInv DEF LookFinds
  <2>2. CASE flight.for \notin archive
    <3>1. RowShape' /\ Shapes'
        BY <1>2, <2>2 DEF LookFinds
    <3>2. Custody'
        BY <1>2, <2>2 DEF LookFinds
    <3> QED BY <3>1, <3>2
  <2> QED BY <2>1, <2>2
<1>3. CASE LookMisses
  <2>1. RowShape'
      BY <1>3 DEF LookMisses, Fault
  <2>2. Shapes'
      BY <1>3 DEF LookMisses, Fault
  <2>3. Custody'
      BY <1>3 DEF LookMisses, Fault
  <2> QED BY <2>1, <2>2, <2>3
<1>4. CASE Probed
  <2>1. CASE process # "live" /\ DeadSettles(flight.for)
    <3>1. row' = SettledRow /\ flight' = NoFlight
        BY <1>4, <2>1 DEF Probed, ReleaseEnds
    <3>2. RowShape' /\ Shapes'
        BY <1>4, <3>1 DEF Probed, SettledRow
    <3>3. Custody'
        BY <1>4, <2>1, <3>1 DEF Probed, SettledRow, DeadSettles
    <3> QED BY <3>2, <3>3
  <2>2. CASE ~(process # "live" /\ DeadSettles(flight.for))
    <3>1. PICK r \in {row, Unknown(row)} : row' = r /\ flight' = NoFlight
        BY <1>4, <2>2 DEF Probed, ReleaseEnds
    <3>2. /\ r \in Row /\ r.owner = row.owner /\ r.reason = row.reason
          /\ r.deadline = row.deadline /\ r.autoFor = row.autoFor
          /\ r.release = row.release \/ (r.release = "unknown" /\ InRelease(row))
        BY DEF Unknown, InRelease
    <3>3. Shapes'
        BY <1>4, <3>1, <3>2 DEF Probed
    <3>4. Custody'
        BY <1>4, <3>1, <3>2 DEF Probed, InRelease
    <3> QED BY <3>1, <3>2, <3>3, <3>4
  <2> QED BY <2>1, <2>2
<1>5. CASE Captured
    BY <1>5, CommitKeepsInv DEF Captured
<1>6. CASE CaptureFails
  <2>1. PICK r \in {row, Unknown(row)} : row' = r /\ flight' = NoFlight
      BY <1>6 DEF CaptureFails, ReleaseEnds
  <2>2. /\ r \in Row /\ r.owner = row.owner /\ r.reason = row.reason
        /\ r.deadline = row.deadline /\ r.autoFor = row.autoFor
        /\ r.release = row.release \/ (r.release = "unknown" /\ InRelease(row))
      BY DEF Unknown, InRelease
  <2>3. Shapes'
      BY <1>6, <2>1, <2>2 DEF CaptureFails, Fault
  <2>4. Custody'
      BY <1>6, <2>1, <2>2 DEF CaptureFails, Fault, InRelease
  <2> QED BY <2>1, <2>2, <2>3, <2>4
<1>7. CASE Admit
  <2>1. CASE Defers(row) /\ InRelease(row)
    <3>1. turn /\ row' = [row EXCEPT !.release = "not_requested", !.deadline = "none"]
          /\ archive' = archive \ {row.owner} /\ flight' = NoFlight
        BY <1>7, <2>1 DEF Admit, Defers, Deferred
    <3>2. RowShape' /\ Shapes'
        BY <1>7, <3>1 DEF Admit
    <3>3. /\ row'.owner = row.owner /\ row'.release = "not_requested" /\ ~keptOpen
          /\ UNCHANGED <<prior, turn, stop, worldVars, ghostVars>>
        BY <1>7, <2>1, <3>1 DEF Admit, InRelease
    <3>4. Custody'
        BY <3>1, <3>3
    <3> QED BY <3>2, <3>4
  <2>2. CASE row' = row /\ archive' = archive /\ flight' = NoFlight
    <3>1. RowShape' /\ Shapes'
        BY <1>7, <2>2 DEF Admit
    <3>2. Custody'
        BY <1>7, <2>2 DEF Admit
    <3> QED BY <3>1, <3>2
  <2>3. CASE /\ row.release = "releasing" /\ row' = [row EXCEPT !.deadline = "none"]
             /\ flight' = [flight EXCEPT !.at = "closing"] /\ archive' = archive
    <3>1. RowShape' /\ Shapes'
        BY <1>7, <2>3 DEF Admit
    <3>2. Custody'
        BY <1>7, <2>3 DEF Admit
    <3> QED BY <3>1, <3>2
  <2> QED BY <1>7, <2>1, <2>2, <2>3 DEF Admit, ReleaseEnds
<1>8. CASE CloseKills
  <2>1. RowShape'
      BY <1>8 DEF CloseKills, Exits, Restarted, Armed
  <2>2. Shapes'
      BY <1>8 DEF CloseKills, Exits, Restarted, Armed
  <2>3. Custody'
      BY <1>8 DEF CloseKills, Exits, Restarted, Armed
  <2> QED BY <2>1, <2>2, <2>3
<1>9. CASE CloseUnproven
  <2>1. PICK r \in {row, Unknown(row)} : row' = r /\ flight' = NoFlight
      BY <1>9 DEF CloseUnproven, ReleaseEnds
  <2>2. /\ r \in Row /\ r.owner = row.owner /\ r.reason = row.reason
        /\ r.deadline = row.deadline /\ r.autoFor = row.autoFor
        /\ r.release = row.release \/ (r.release = "unknown" /\ InRelease(row))
      BY DEF Unknown, InRelease
  <2>3. Shapes'
      BY <1>9, <2>1, <2>2 DEF CloseUnproven, Fault
  <2>4. Custody'
      BY <1>9, <2>1, <2>2 DEF CloseUnproven, Fault, InRelease
  <2> QED BY <2>1, <2>2, <2>3, <2>4
<1>10. CASE CloseProven
  <2>1. RowShape'
      BY <1>10 DEF CloseProven, ReleaseEnds, InRelease
  <2>2. Shapes'
      BY <1>10 DEF CloseProven, ReleaseEnds, InRelease
  <2>3. Custody'
      BY <1>10 DEF CloseProven, ReleaseEnds, InRelease
  <2> QED BY <2>1, <2>2, <2>3
<1> QED BY <1>1, <1>2, <1>3, <1>4, <1>5, <1>6, <1>7, <1>8, <1>9, <1>10 DEF ReleaseStep

(* Stops and restarts.                                                      *)
LEMMA StopStepsKeepInv ==
    ASSUME Inv,
           (\E d \in Dispatches : BeginStop(d)) \/ StopStep \/ Restart
    PROVE  Inv'
<1> USE TerminalAssumption
    DEF Inv, RowShape, Shapes, Row, WorkerState, Flights, Stops, Custody, OwnersWorked,
        KeptIsRecorded, DeadAreIdle, FlightOwns, CloseOwns, StopOwns, ClosedIsDead,
        ReleaseFollowsSettlement, ReleaseState, RetainedReason, Settled, UserKept,
        WORKER_SETTLED_STATES, WORKER_RELEASABLE_STATES, NoFlight, NoStop, memoryVars, ghostVars,
        custodyVars, worldVars
<1>1. ASSUME NEW d \in Dispatches, BeginStop(d) PROVE Inv'
  <2>1. RowShape'
      BY <1>1 DEF BeginStop
  <2>2. Shapes'
      BY <1>1 DEF BeginStop
  <2>3. Custody'
      BY <1>1 DEF BeginStop
  <2> QED BY <2>1, <2>2, <2>3
<1>2. CASE StopLooks
  <2>1. RowShape'
      BY <1>2 DEF StopLooks
  <2>2. Shapes'
      BY <1>2 DEF StopLooks
  <2>3. Custody'
      BY <1>2 DEF StopLooks
  <2> QED BY <2>1, <2>2, <2>3
<1>3. CASE StopFindsNone
  <2>1. RowShape'
      BY <1>3 DEF StopFindsNone, StopUnknown, StopEnds
  <2>2. Shapes'
      BY <1>3 DEF StopFindsNone, StopUnknown, StopEnds
  <2>3. Custody'
      BY <1>3 DEF StopFindsNone, StopUnknown, StopEnds
  <2> QED BY <2>1, <2>2, <2>3
<1>4. CASE StopArchives
  <2>1. RowShape'
      BY <1>4 DEF StopArchives, Fault
  <2>2. Shapes'
      BY <1>4 DEF StopArchives, Fault
  <2>3. Custody'
      BY <1>4 DEF StopArchives, Fault
  <2> QED BY <2>1, <2>2, <2>3
<1>5. CASE StopKills
  <2>1. RowShape'
      BY <1>5 DEF StopKills, Exits, Restarted, Armed
  <2>2. row'.owner = row.owner /\ (row'.deadline # "none" => row'.autoFor = row'.owner)
      BY <1>5 DEF StopKills, Exits, Restarted, Armed
  <2>3. Shapes'
    <3> HIDE DEF Row, Flights, Stops, WorkerState, NoFlight, NoStop
    <3> QED BY <1>5, <2>2 DEF StopKills, Exits
  <2>4. Custody'
      BY <1>5 DEF StopKills, Exits, Restarted, Armed
  <2> QED BY <2>1, <2>3, <2>4
<1>6. CASE StopReturns
  <2>1. RowShape'
      BY <1>6 DEF StopReturns, Stopped, StopUnknown, StopEnds, Fault
  <2>2. Shapes'
      BY <1>6 DEF StopReturns, Stopped, StopUnknown, StopEnds, Fault
  <2>3. Custody'
      BY <1>6 DEF StopReturns, Stopped, StopUnknown, StopEnds, Fault
  <2> QED BY <2>1, <2>2, <2>3
<1>7. CASE Restart
  <2>1. RowShape'
      BY <1>7 DEF Restart
  <2>2. Shapes'
    <3>1. faults' \in Nat
        BY <1>7 DEF Restart, Fault
    <3> HIDE DEF Row, Flights, Stops, WorkerState, NoFlight, NoStop
    <3> QED BY <1>7, <3>1, IdleShapes DEF Restart
  <2>3. Custody'
      BY <1>7 DEF Restart
  <2> QED BY <2>1, <2>2, <2>3
<1> QED BY <1>1, <1>2, <1>3, <1>4, <1>5, <1>6, <1>7 DEF StopStep

LEMMA NextKeepsInv == Inv /\ [Next]_vars => Inv'
<1> SUFFICES ASSUME Inv, [Next]_vars PROVE Inv'
    OBVIOUS
<1>1. CASE UNCHANGED vars
  <2>1. UNCHANGED <<row, prior, archive, turn, flight, asked, stop, kind, worker, process,
                    faults, keptOpen, closed, raced>>
      BY <1>1 DEF vars, custodyVars, memoryVars, worldVars, ghostVars
  <2> QED BY <2>1
         DEF Inv, RowShape, Shapes, Custody, OwnersWorked, KeptIsRecorded, DeadAreIdle, FlightOwns,
             CloseOwns, StopOwns, ClosedIsDead, ReleaseFollowsSettlement, Settled, UserKept
<1>2. CASE Next
    BY <1>2, WorkStepsKeepInv, RequestStepsKeepInv, KeepStepsKeepInv, ReleaseStepsKeepInv,
       StopStepsKeepInv DEF Next
<1> QED BY <1>1, <1>2

(* The invariant holds through every interleaving of releases, stops,       *)
(* requests, follow-ups, exits and restarts.                                *)
THEOREM CustodyHolds == Spec => []Inv
BY InitInv, NextKeepsInv, PTL DEF Spec

-----------------------------------------------------------------------------
(* The variables keep their types; a countdown belongs to the owner.        *)
THEOREM TerminalTypes == Spec => []TypeOK
<1>1. Inv => TypeOK
    BY TerminalAssumption DEF Inv, RowShape, Shapes, Row, Flights, Stops, TypeOK
<1> QED BY <1>1, CustodyHolds, PTL

(* A terminal is released only after its owner ended, also when a follow-up *)
(* took it over while a release of its predecessor was under way.           *)
THEOREM ReleaseComesAfter == Spec => []ReleaseFollowsSettlement
<1>1. Inv => ReleaseFollowsSettlement
    BY DEF Inv, Custody
<1> QED BY <1>1, CustodyHolds, PTL

(* What a closed worker wrote stays readable, unless Keep open or a retain  *)
(* came when the close had begun.                                           *)
THEOREM ClosedOutputSurvives == Spec => []OutputSurvivesClose
<1>1. Inv => OutputSurvivesClose
    BY DEF Inv, Custody, ClosedIsDead, OutputSurvivesClose
<1> QED BY <1>1, CustodyHolds, PTL

-----------------------------------------------------------------------------
(* Only two steps begin a close, and only two end a process. *)

LEMMA OthersBeginNoClose ==
    ASSUME Inv, [Next]_vars, flight.at # "closing", flight'.at = "closing"
    PROVE  (LookFinds /\ flight.for \in archive) \/ Captured \/ Admit
<1>1. CASE ReleaseStep
    BY <1>1
       DEF ReleaseStep, LookFails, LookFinds, LookMisses, Probed, CaptureFails, CloseKills,
           CloseUnproven, CloseProven, ReleaseEnds, NoFlight, Inv, Shapes, Flights
<1>2. CASE ClaimDue \/ \E d \in Dispatches : RequestRelease(d)
    BY <1>2 DEF ClaimDue, RequestRelease, Joined, Flight
<1>3. CASE Reconcile \/ Restart
    BY <1>3 DEF Reconcile, Flight, Restart, NoFlight
<1>4. CASE \/ StopStep \/ UNCHANGED vars
           \/ AgentWorks \/ AgentRests \/ DeadlineComes \/ ProcessEnds \/ PaneReplaced
           \/ ExitNoticed \/ KeepOpen \/ AllowAutoClose
    BY <1>4 DEF StopStep, StopLooks, StopFindsNone, StopArchives, StopKills, StopReturns, StopEnds,
                Exits, AgentWorks, AgentRests, DeadlineComes, ProcessEnds, PaneReplaced,
                ExitNoticed, KeepOpen, RetainRow, AllowAutoClose, vars, memoryVars
<1>5. CASE \E d \in Dispatches :
               \/ \E outcome \in WORKER_RELEASABLE_STATES : Report(d, outcome)
               \/ ReconcileMissingTerminal(d) \/ FollowUp(d) \/ RefuseRelease(d)
               \/ RefusedIsLookedAt(d) \/ Retain(d) \/ Abandon(d) \/ BeginStop(d)
    BY <1>5 DEF Report, ReconcileMissingTerminal, FollowUp, RefuseRelease, RefusedIsLookedAt,
                Retain, Abandon, RetainRow, BeginStop, memoryVars
<1> QED BY <1>1, <1>2, <1>3, <1>4, <1>5 DEF Next

(* A close begins only with its dispatch the owner, its release committed,  *)
(* its output archived, and with what happened since the request looked at. *)
THEOREM ClosesAreAdmitted == Spec => CloseIsAdmitted
<1>1. Inv /\ [Next]_vars =>
        [ Closing => /\ row'.owner = flight.for /\ row'.release = "releasing"
                     /\ flight.for \in archive'
                     /\ Automatic(row) => ~turn
                     /\ ~keptOpen ]_vars
  <2> SUFFICES ASSUME Inv, [Next]_vars, flight.at # "closing", flight'.at = "closing"
               PROVE  /\ row'.owner = flight.for /\ row'.release = "releasing"
                      /\ flight.for \in archive'
                      /\ Automatic(row) => ~turn
                      /\ ~keptOpen
      BY DEF Closing
  <2>1. row.release \in {"requested", "releasing"} => ~keptOpen
      BY DEF Inv, Custody, KeptIsRecorded, UserKept
  <2>2. CASE flight.at \in {"looking", "capturing"} /\ Commit(flight.for)
    <3> DEFINE r == IF Committing(flight.for) THEN [row EXCEPT !.release = "releasing"] ELSE row
               a == IF Committing(flight.for) THEN archive \cup {flight.for} ELSE archive
    <3>1. r.release = "releasing" /\ ~Defers(r) /\ row' = r /\ archive' = a
        BY <2>2 DEF Commit, ReleaseEnds, NoFlight
    <3>2. Automatic(r) => ~turn
        BY <3>1 DEF Defers
    <3>3. CASE Committing(flight.for)
        BY <2>1, <3>1, <3>2, <3>3 DEF Committing, Automatic, Inv, RowShape, Row
    <3>4. CASE ~Committing(flight.for)
        BY <2>1, <2>2, <3>1, <3>2, <3>4 DEF Inv, Custody, FlightOwns
    <3> QED BY <3>3, <3>4
  <2>3. CASE Admit
      BY <2>1, <2>3 DEF Admit, ReleaseEnds, NoFlight, Defers, Inv, RowShape, Row, Custody, FlightOwns
  <2>4. (LookFinds /\ flight.for \in archive) \/ Captured
        => flight.at \in {"looking", "capturing"} /\ Commit(flight.for)
      BY DEF LookFinds, Captured
  <2> QED BY <2>2, <2>3, <2>4, OthersBeginNoClose
<1> QED BY <1>1, CustodyHolds, PTL DEF Spec, CloseIsAdmitted

(* The process that a close or a stop ends is its own dispatch's, and not   *)
(* one that the user keeps open or that a follow-up works in.               *)
THEOREM ClosesHitTheirOwn == Spec => CloseHitsItsOwn
<1>1. Inv /\ [Next]_vars => [ Killing => raced \/ (row.owner = Closer /\ ~keptOpen) ]_vars
  <2> SUFFICES ASSUME Inv, Killing, ~raced PROVE row.owner = Closer /\ ~keptOpen
      OBVIOUS
  <2>1. CASE flight.at = "closing"
      BY <2>1 DEF Closer, Inv, Custody, CloseOwns, KeptIsRecorded, UserKept
  <2>2. CASE flight.at # "closing"
    <3>1. stop.at = "closing" /\ process = "live"
        BY <2>2 DEF Killing, CloseKills, StopKills
    <3> QED BY <2>2, <3>1 DEF Closer, Inv, Custody, StopOwns
  <2> QED BY <2>1, <2>2
<1> QED BY <1>1, CustodyHolds, PTL DEF Spec, CloseHitsItsOwn
=============================================================================
