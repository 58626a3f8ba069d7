--------------------------- MODULE ReportDelivery ---------------------------
(***************************************************************************)
(* What the relay of one federated dispatch promises: items reach the Run  *)
(* home one by one, in the order they were queued; the host confirms only  *)
(* what has arrived; and a host that waits for the home's verdict takes it *)
(* over unchanged, after the home has reached it.                          *)
(***************************************************************************)
EXTENDS Integers

CONSTANT MaxItems   \* bound: items ever queued

VARIABLES
    queued,     \* items the host has accepted from the worker
    delivered,  \* items the home has imported
    confirmed,  \* items the host knows to be imported
    verdict,    \* the home's verdict on the worker, "open" before there is one
    told        \* the verdict the host has taken over

delivery == <<queued, delivered, confirmed, verdict, told>>

Verdicts == {"succeeded", "failed"}

Init ==
    /\ queued = 0 /\ delivered = 0 /\ confirmed = 0
    /\ verdict = "open" /\ told = "open"

Accept ==
    /\ queued < MaxItems
    /\ queued' = queued + 1
    /\ UNCHANGED <<delivered, confirmed, verdict, told>>

(* The next item arrives, and may carry the verdict with it.                *)
Arrive ==
    /\ delivered < queued
    /\ delivered' = delivered + 1
    /\ verdict' \in IF verdict = "open" THEN {"open"} \cup Verdicts ELSE {verdict}
    /\ UNCHANGED <<queued, confirmed, told>>

(* An item that had arrived before is settled now: the home had refused it  *)
(* while it was stopping the worker.                                        *)
Reconsider ==
    /\ delivered > 0 /\ verdict = "open"
    /\ verdict' \in Verdicts
    /\ UNCHANGED <<queued, delivered, confirmed, told>>

(* The home ends the attempt by itself, without a report of the worker.     *)
GiveUp ==
    /\ verdict = "open"
    /\ verdict' = "failed"
    /\ UNCHANGED <<queued, delivered, confirmed, told>>

(* The host confirms a prefix, and may take the verdict over with it.       *)
Confirm ==
    /\ confirmed' \in confirmed..delivered
    /\ told' \in {told, verdict}
    /\ told # "open" => told' = told
    /\ UNCHANGED <<queued, delivered, verdict>>

Next == Accept \/ Arrive \/ Reconsider \/ GiveUp \/ Confirm
Spec == Init /\ [][Next]_delivery

=============================================================================
