------------------------- MODULE DispatchStepProofs -------------------------
(***************************************************************************)
(* What one transaction may do to the rows of a dispatch, and the action   *)
(* properties and counting invariants of DispatchLifecycle that follow.    *)
(*                                                                         *)
(* RowStep lists the five things that can happen to a dispatch in a step.  *)
(* EveryRowSteps shows that every transaction does one of them to every    *)
(* dispatch; each property is then a consequence of the list, without      *)
(* another look at the actions.                                            *)
(***************************************************************************)
EXTENDS DispatchLifecycleProofs, FiniteSetTheorems

(* The transition graph, the verdicts of a stop in flight, the parking of a *)
(* task whose circuit broke: the three promises about a row that changes.   *)
MovesLegally(d) ==
    \/ worker'[d] = worker[d]
    \/ Unsettled(d) /\ worker'[d] \in WorkerEdges[worker[d]]
    \/ Unsettled(d) /\ worker'[d] = "succeeded" /\ "ready" \in WorkerEdges[worker[d]]

LeavesStopItsVerdict(d) ==
    StopInFlight(d) => \/ worker'[d] \in {"stopping", "stopped", "stop_unknown"}
                       \/ federated[d] /\ worker'[d] = "ready"

ParksBroken(d) ==
    dispStatus'[d] = "circuit_broken" => taskStatus'[dispTask[d]] \in {"failed", "blocked"}

Moves(d) == MovesLegally(d) /\ LeavesStopItsVerdict(d)

(* The five things that can happen to a dispatch. *)
Untouched(d) ==
    /\ dispStatus'[d] = dispStatus[d]
    /\ worker'[d] = worker[d]
    /\ failCount'[d] = failCount[d]

Inserted(d) == d > last /\ last' = d /\ Active(d)'

Continues(d) ==
    /\ Active(d) /\ Active(d)' /\ Moves(d)
    /\ failCount'[d] = failCount[d]

Ends(d) ==
    /\ Active(d) /\ dispStatus'[d] \in SettledStatus /\ Moves(d) /\ ParksBroken(d)
    /\ failCount'[d] \in {failCount[d], failCount[d] + 1}

Corrected(d) ==
    /\ promptStalled[d] /\ dispStatus[d] \in {"failed", "circuit_broken"}
    /\ dispStatus'[d] = "completed" /\ taskStatus'[dispTask[d]] = "completed"
    /\ worker[d] = "failed" /\ worker'[d] = "succeeded"
    /\ failCount'[d] = failCount[d]

RowStep(d) ==
    /\ dispTask'[d] = dispTask[d] \/ Inserted(d)
    /\ Untouched(d) \/ Inserted(d) \/ Continues(d) \/ Ends(d) \/ Corrected(d)

-----------------------------------------------------------------------------
(* The forms of a step once more, now with what they do to each row. *)

(* Inserting a row touches no other.                                        *)
LEMMA InsertingSteps ==
    ASSUME Consistent, NEW t \in Task, NEW status \in ActiveStatus, NEW w, NEW term, NEW fed,
           NEW failures, InsertDispatch(t, status, term, w, fed, failures)
    PROVE  \A d \in Dispatch : RowStep(d)
<1>0. TypeOK
    BY DEF Consistent
<1>1. PICK n \in Dispatch : n = last + 1 /\ last' = n
    BY DEF InsertDispatch
<1>2. /\ dispTask' = [dispTask EXCEPT ![n] = t]
      /\ dispStatus' = [dispStatus EXCEPT ![n] = status]
      /\ worker' = [worker EXCEPT ![n] = w]
      /\ failCount' = [failCount EXCEPT ![n] = failures]
    BY <1>1 DEF InsertDispatch
<1>3. Inserted(n)
    BY <1>0, <1>1, <1>2, BoundAssumption DEF Inserted, Active, TypeOK, Dispatch
<1>4. \A d \in Dispatch : d # n => Untouched(d) /\ dispTask'[d] = dispTask[d]
    BY <1>0, <1>2 DEF Untouched, TypeOK
<1> QED BY <1>3, <1>4 DEF RowStep

(* Settling the dispatches of a task that no live worker holds ends the     *)
(* context-only ones.                                                       *)
LEMMA ClearingSteps ==
    ASSUME Consistent, NEW t \in Task, ~Supervised(t), NEW s \in {"completed", "failed"},
           dispStatus' = SettledDispatches(dispStatus, t, s),
           worker' = SettledWorkers(dispStatus, worker, t),
           dispTask' = dispTask, failCount' = failCount
    PROVE  \A d \in Dispatch : RowStep(d)
<1> SUFFICES ASSUME NEW d \in Dispatch PROVE RowStep(d)
    OBVIOUS
<1>1. CASE dispTask[d] = t /\ Active(d)
  <2>1. ~Unsettled(d)
      BY <1>1 DEF Supervised, DispatchesOf
  <2>2. worker'[d] = worker[d] /\ dispStatus'[d] = s
      BY <1>1, <2>1 DEF SettledWorkers, SettledDispatches, Unsettled, Active
  <2>3. Moves(d)
      BY <2>1, <2>2 DEF Moves, MovesLegally, LeavesStopItsVerdict, StopInFlight
  <2> QED BY <1>1, <2>2, <2>3 DEF RowStep, Ends, ParksBroken, SettledStatus
<1>2. CASE ~(dispTask[d] = t /\ Active(d))
    BY <1>2 DEF RowStep, Untouched, SettledWorkers, SettledDispatches, Active
<1> QED BY <1>1, <1>2

(* Writing the rows of one dispatch leaves the others untouched.            *)
LEMMA OthersUntouched ==
    ASSUME Consistent, NEW d \in Dispatch, NEW s, NEW w, NEW n,
           dispStatus' = [dispStatus EXCEPT ![d] = s],
           worker' = [worker EXCEPT ![d] = w],
           failCount' = [failCount EXCEPT ![d] = n],
           dispTask' = dispTask,
           Untouched(d) \/ Continues(d) \/ Ends(d)
    PROVE  \A e \in Dispatch : RowStep(e)
<1>1. \A e \in Dispatch : e # d => Untouched(e)
    BY DEF Consistent, TypeOK, Untouched
<1> QED BY <1>1 DEF RowStep

(* What is written into the rows of one dispatch, read back.                *)
LEMMA Written ==
    ASSUME TypeOK, NEW d \in Dispatch, NEW s, NEW w, NEW n,
           dispStatus' = [dispStatus EXCEPT ![d] = s],
           worker' = [worker EXCEPT ![d] = w],
           failCount' = [failCount EXCEPT ![d] = n]
    PROVE  dispStatus'[d] = s /\ worker'[d] = w /\ failCount'[d] = n
BY DEF TypeOK

(* A step that settles an active dispatch, with what it has to show.        *)
LEMMA EndingSteps ==
    ASSUME Consistent, NEW d \in Dispatch, Active(d), NEW s \in SettledStatus, NEW w,
           NEW n \in {failCount[d], failCount[d] + 1},
           dispStatus' = [dispStatus EXCEPT ![d] = s],
           worker' = [worker EXCEPT ![d] = w],
           failCount' = [failCount EXCEPT ![d] = n],
           dispTask' = dispTask,
           w = worker[d] \/ (Unsettled(d) /\ w \in WorkerEdges[worker[d]]),
           StopInFlight(d) => w \in {"stopping", "stopped", "stop_unknown"},
           s = "circuit_broken" => taskStatus'[dispTask[d]] \in {"failed", "blocked"}
    PROVE  \A e \in Dispatch : RowStep(e)
<1>1. dispStatus'[d] = s /\ worker'[d] = w /\ failCount'[d] = n
    BY Written DEF Consistent
<1>2. Ends(d)
    BY <1>1 DEF Ends, Moves, MovesLegally, LeavesStopItsVerdict, ParksBroken
<1> QED BY <1>2, OthersUntouched

(* A step of an active dispatch that leaves it active.                      *)
LEMMA ContinuingSteps ==
    ASSUME Consistent, NEW d \in Dispatch, Active(d), NEW s \in ActiveStatus, NEW w,
           dispStatus' = [dispStatus EXCEPT ![d] = s],
           worker' = [worker EXCEPT ![d] = w],
           failCount' = failCount,
           dispTask' = dispTask,
           Unsettled(d) /\ w \in WorkerEdges[worker[d]],
           StopInFlight(d) => \/ w \in {"stopping", "stopped", "stop_unknown"}
                              \/ federated[d] /\ w = "ready"
    PROVE  \A e \in Dispatch : RowStep(e)
<1>1. failCount' = [failCount EXCEPT ![d] = failCount[d]]
    BY DEF Consistent, TypeOK
<1>2. dispStatus'[d] = s /\ worker'[d] = w /\ failCount'[d] = failCount[d]
    BY <1>1, Written DEF Consistent
<1>3. Continues(d)
    BY <1>2 DEF Continues, Moves, MovesLegally, LeavesStopItsVerdict, Active
<1> QED BY <1>1, <1>3, OthersUntouched

(* The rows of dispatches stay as they are.                                 *)
LEMMA IdleSteps ==
    ASSUME dispStatus' = dispStatus, worker' = worker, failCount' = failCount,
           dispTask' = dispTask
    PROVE  \A d \in Dispatch : RowStep(d)
BY DEF RowStep, Untouched

-----------------------------------------------------------------------------
(* Which form each transaction has. *)

LEMMA Edges ==
    /\ WorkerEdges["starting"] =
          {"starting", "ready", "start_unknown", "failed", "stopping", "stopped", "abandoned"}
    /\ WorkerEdges["start_unknown"] =
          {"start_unknown", "ready", "failed", "stopping", "stopped", "abandoned"}
    /\ WorkerEdges["ready"] = {"ready", "succeeded", "failed", "stopping", "abandoned"}
    /\ WorkerEdges["stopping"] =
          {"stopping", "stopped", "stop_unknown", "ready", "failed", "abandoned"}
    /\ WorkerEdges["stop_unknown"] = {"stop_unknown", "ready", "failed", "stopped", "abandoned"}
BY DEF WorkerEdges

LEMMA SetTaskStatusSteps ==
    ASSUME Consistent, NEW t \in Task, NEW s \in TaskStatus, SetTaskStatus(t, s)
    PROVE  \A d \in Dispatch : RowStep(d)
<1>1. dispTask' = dispTask /\ failCount' = failCount
    BY DEF SetTaskStatus, rowVars
<1>2. CASE s \in {"completed", "failed"}
    BY <1>1, <1>2, ClearingSteps DEF SetTaskStatus
<1>3. CASE s \notin {"completed", "failed"}
    BY <1>1, <1>3, IdleSteps DEF SetTaskStatus
<1> QED BY <1>2, <1>3

LEMMA TaskStepSteps ==
    ASSUME Consistent, NEW t \in Task, TaskStep(t)
    PROVE  \A d \in Dispatch : RowStep(d)
<1>1. CASE CreateTask(t)
    BY <1>1, IdleSteps DEF CreateTask, dispatchVars, rowVars
<1>2. ASSUME NEW s \in TaskStatus, UpdateTaskStatus(t, s)
      PROVE  \A d \in Dispatch : RowStep(d)
    BY <1>2, SetTaskStatusSteps DEF UpdateTaskStatus
<1>3. ASSUME NEW term \in Terminal, CreateDispatchContext(t, term)
      PROVE  \A d \in Dispatch : RowStep(d)
  <2>1. PICK n : InsertDispatch(t, "dispatched", term, "none", FALSE, n)
      BY <1>3 DEF CreateDispatchContext
  <2> QED BY <2>1, InsertingSteps DEF ActiveStatus
<1>4. ASSUME NEW fed \in BOOLEAN, StartWorker(t, fed) \/ StartInlineTask(t, fed)
      PROVE  \A d \in Dispatch : RowStep(d)
  <2>1. InsertDispatch(t, "pending", NoTerminal, "starting", fed, 0)
      BY <1>4 DEF StartWorker, StartInlineTask
  <2> QED BY <2>1, InsertingSteps DEF ActiveStatus
<1>5. CASE CreateGate(t)
    BY <1>5, ClearingSteps DEF CreateGate, rowVars
<1> QED BY <1>1, <1>2, <1>3, <1>4, <1>5 DEF TaskStep

(* A terminal that is gone, a failed prompt or a process exit counts a      *)
(* failure, and parks the task when it was one too many.                    *)
LEMMA FailDispatchSteps ==
    ASSUME Consistent, NEW d \in Dispatch, FailDispatch(d), ~StopInFlight(d)
    PROVE  \A e \in Dispatch : RowStep(e)
<1>0. TypeOK /\ Active(d)
    BY DEF Consistent, FailDispatch
<1>1. PICK w \in {worker[d], "failed"} :
          /\ worker' = [worker EXCEPT ![d] = w]
          /\ w = worker[d] \/ (worker[d] # "none" /\ w = "failed")
    BY DEF FailDispatch
<1>2. w = worker[d] \/ (Unsettled(d) /\ w \in WorkerEdges[worker[d]])
  <2>1. worker[d] # "none" => Unsettled(d)
      BY <1>0 DEF Consistent, RowsAgree, WorkerFollowsDispatch
  <2> QED BY <1>1, <2>1, Edges DEF Unsettled, UnsettledWorker
<1>3. FailureStatus(d) = "circuit_broken" => taskStatus'[dispTask[d]] \in {"failed", "blocked"}
  <2>1. dispTask[d] \in Task /\ ~OthersActive(d)
        /\ taskStatus[dispTask[d]] \in {"dispatched", "blocked"}
      BY <1>0, ActiveFacts
  <2>2. SUFFICES ASSUME Broken(d) PROVE taskStatus'[dispTask[d]] \in {"failed", "blocked"}
      BY DEF FailureStatus
  <2>3. CASE taskStatus[dispTask[d]] = "dispatched"
      BY <1>0, <2>1, <2>2, <2>3 DEF FailDispatch, WithTask, TypeOK
  <2>4. CASE taskStatus[dispTask[d]] = "blocked"
      BY <2>4 DEF FailDispatch
  <2> QED BY <2>1, <2>3, <2>4
<1>4. /\ dispStatus' = [dispStatus EXCEPT ![d] = FailureStatus(d)]
      /\ failCount' = [failCount EXCEPT ![d] = failCount[d] + 1]
      /\ dispTask' = dispTask
      /\ FailureStatus(d) \in SettledStatus
    BY DEF FailDispatch, rowVars, FailureStatus, SettledStatus
<1> QED BY <1>0, <1>1, <1>2, <1>3, <1>4, EndingSteps

(* A worker whose fate is open ends by a stop or an abandonment.            *)
LEMMA EndWorkerSteps ==
    ASSUME Consistent, NEW d \in Dispatch, NEW w, Unsettled(d), EndWorker(d, w),
           w \in WorkerEdges[worker[d]], StopInFlight(d) => w = "stopped"
    PROVE  \A e \in Dispatch : RowStep(e)
<1>1. Active(d)
    BY UnsettledIsActive
<1>2. /\ dispStatus' = [dispStatus EXCEPT ![d] = "failed"]
      /\ worker' = [worker EXCEPT ![d] = w]
      /\ failCount' = [failCount EXCEPT ![d] = failCount[d]]
      /\ dispTask' = dispTask
    BY <1>1 DEF EndWorker, EndedStatus, rowVars, Consistent, TypeOK
<1> QED BY <1>1, <1>2, EndingSteps DEF SettledStatus

LEMMA StartStepSteps ==
    ASSUME Consistent, NEW d \in Dispatch, StartStep(d)
    PROVE  \A e \in Dispatch : RowStep(e)
<1>0. TypeOK
    BY DEF Consistent
<1>a. worker[d] = "starting" => Active(d) /\ Unsettled(d) /\ ~StopInFlight(d)
    BY UnsettledIsActive DEF Unsettled, UnsettledWorker, StopInFlight
<1>1. ASSUME NEW term \in Terminal, AttachTerminal(d, term)
      PROVE  \A e \in Dispatch : RowStep(e)
    BY <1>1, IdleSteps DEF AttachTerminal, rowVars
<1>2. CASE MarkReady(d)
    BY <1>2, <1>a, Edges, ContinuingSteps DEF MarkReady, rowVars, ActiveStatus
<1>3. ASSUME NEW stalled \in BOOLEAN, FailWorkerStart(d, stalled)
      PROVE  \A e \in Dispatch : RowStep(e)
  <2>1. Active(d) /\ Unsettled(d) /\ ~StopInFlight(d) /\ "failed" \in WorkerEdges[worker[d]]
      BY <1>3, <1>a, Edges DEF FailWorkerStart
  <2>2. taskStatus'[dispTask[d]] = "failed"
      BY <1>0, <1>3, <2>1, ActiveFacts DEF FailWorkerStart, WithTask, TypeOK
  <2>3. /\ dispStatus' = [dispStatus EXCEPT ![d] = FailureStatus(d)]
        /\ worker' = [worker EXCEPT ![d] = "failed"]
        /\ failCount' = [failCount EXCEPT ![d] = failCount[d] + 1]
        /\ dispTask' = dispTask
        /\ FailureStatus(d) \in SettledStatus
      BY <1>3 DEF FailWorkerStart, rowVars, FailureStatus, SettledStatus
  <2> QED BY <2>1, <2>2, <2>3, EndingSteps
<1>4. CASE MarkStartUnknown(d)
  <2>1. /\ dispStatus' = [dispStatus EXCEPT ![d] = dispStatus[d]]
        /\ worker' = [worker EXCEPT ![d] = "start_unknown"]
        /\ failCount' = failCount
        /\ dispTask' = dispTask
      BY <1>0, <1>4, Unwritten DEF MarkStartUnknown, rowVars
  <2>2. Active(d) /\ Unsettled(d) /\ ~StopInFlight(d) /\ "start_unknown" \in WorkerEdges[worker[d]]
      BY <1>4, <1>a, Edges DEF MarkStartUnknown
  <2> QED BY <2>1, <2>2, ContinuingSteps DEF Active
<1> QED BY <1>1, <1>2, <1>3, <1>4 DEF StartStep

LEMMA FedStepSteps ==
    ASSUME Consistent, NEW d \in Dispatch, FedStep(d)
    PROVE  \A e \in Dispatch : RowStep(e)
<1>0. TypeOK
    BY DEF Consistent
<1>a. FedStarting(d) => /\ Active(d) /\ Unsettled(d) /\ ~StopInFlight(d)
                        /\ {"ready", "start_unknown", "failed", "stopped"}
                              \subseteq WorkerEdges[worker[d]] \cup {worker[d]}
                        /\ worker[d] \in WorkerEdges[worker[d]]
    BY Edges, UnsettledIsActive DEF FedStarting, Unsettled, UnsettledWorker, StopInFlight
<1>1. CASE FedStartConfirmed(d)
  <2>1. dispStatus' = [dispStatus EXCEPT ![d] = "dispatched"]
      BY <1>0, <1>a, <1>1 DEF FedStartConfirmed, Active, ActiveStatus, TypeOK
  <2> QED BY <1>a, <1>1, <2>1, ContinuingSteps DEF FedStartConfirmed, rowVars, ActiveStatus
<1>2. CASE FedStartUncertain(d)
  <2>1. dispStatus' = [dispStatus EXCEPT ![d] = dispStatus[d]]
      BY <1>0, <1>2, Unwritten DEF FedStartUncertain
  <2> QED BY <1>a, <1>2, <2>1, ContinuingSteps DEF FedStartUncertain, rowVars, Active
<1>3. ASSUME NEW s \in {"failed", "stopped"}, FedStartEnded(d, s)
      PROVE  \A e \in Dispatch : RowStep(e)
  <2>1. FedStarting(d)
      BY <1>3 DEF FedStartEnded
  <2>2. /\ dispStatus' = [dispStatus EXCEPT ![d] = "failed"]
        /\ worker' = [worker EXCEPT ![d] = s]
        /\ failCount' = [failCount EXCEPT ![d] = failCount[d]]
        /\ dispTask' = dispTask
      BY <1>0, <1>3, <1>a, <2>1 DEF FedStartEnded, EndedStatus, rowVars, TypeOK
  <2>3. s = worker[d] \/ (Unsettled(d) /\ s \in WorkerEdges[worker[d]])
      BY <1>a, <2>1
  <2> QED BY <1>a, <2>1, <2>2, <2>3, EndingSteps DEF SettledStatus
<1>4. CASE FedStopConfirmed(d)
  <2>1. Unsettled(d) /\ "stopped" \in WorkerEdges[worker[d]]
      BY <1>4, Edges DEF FedStopConfirmed, Unsettled, UnsettledWorker
  <2> QED BY <1>4, <2>1, EndWorkerSteps DEF FedStopConfirmed
<1>5. CASE FedResume(d)
  <2>1. Active(d) /\ Unsettled(d) /\ "ready" \in WorkerEdges[worker[d]] /\ federated[d]
      BY <1>5, Edges, UnsettledIsActive DEF FedResume, StopInFlight, Unsettled, UnsettledWorker
  <2>2. /\ dispStatus' = [dispStatus EXCEPT ![d] = dispStatus[d]]
        /\ worker' = [worker EXCEPT ![d] = "ready"]
        /\ failCount' = failCount
        /\ dispTask' = dispTask
      BY <1>0, <1>5, Unwritten DEF FedResume, rowVars
  <2> QED BY <2>1, <2>2, ContinuingSteps DEF Active
<1> QED BY <1>1, <1>2, <1>3, <1>4, <1>5 DEF FedStep

(* A report ends the dispatch it is from, or corrects the verdict on its    *)
(* prompt; no other dispatch of the task is at work.                        *)
LEMMA ReportSteps ==
    ASSUME Consistent, NEW d \in Dispatch, NEW outcome \in {"succeeded", "failed"},
           Report(d, outcome)
    PROVE  \A e \in Dispatch : RowStep(e)
<1> DEFINE t == dispTask[d]
           s == ReportStatus(outcome)
           keeps == CorrectsStalledPrompt(d) /\ s = "failed"
           ds == [dispStatus EXCEPT ![d] = IF keeps THEN @ ELSE s]
           ws == [worker EXCEPT ![d] = IF @ = "none" THEN @ ELSE outcome]
<1>0. TypeOK
    BY DEF Consistent
<1>1. /\ dispStatus' = SettledDispatches(ds, t, s)
      /\ worker' = SettledWorkers(ds, ws, t)
      /\ taskStatus' = Completing(t, s)
      /\ failCount' = failCount /\ dispTask' = dispTask
      /\ ReportSettles(d)
      /\ worker[d] # "stopping"
    BY DEF Report, ReportAdmitted, rowVars
<1>2. s \in SettledStatus /\ s \in TaskStatus /\ s \in {"completed", "failed"}
      /\ (s = "completed" <=> outcome = "succeeded")
    BY DEF ReportStatus, SettledStatus, TaskStatus
<1>3. /\ t \in Task
      /\ \A e \in Dispatch : dispTask[e] # t =>
             dispStatus'[e] = dispStatus[e] /\ worker'[e] = worker[e]
    BY ReportFacts
<1>4. \A e \in Dispatch : e # d => ds[e] = dispStatus[e] /\ ws[e] = worker[e]
    BY <1>0 DEF TypeOK
<1>5. /\ ds[d] = IF keeps THEN dispStatus[d] ELSE s
      /\ ws[d] = IF worker[d] = "none" THEN "none" ELSE outcome
    BY <1>0 DEF TypeOK
<1>6. taskStatus'[t] = s
    BY <1>0, <1>1, <1>2, <1>3, CompletingFacts
<1>7. CorrectsStalledPrompt(d) => ~HasActive(t)
    BY <1>3, FreeTask DEF CorrectsStalledPrompt
<1> HIDE DEF ds, ws, s
<1>8. dispStatus'[d] = ds[d] /\ worker'[d] = ws[d]
  <2>1. ds[d] \notin ActiveStatus
      BY <1>2, <1>5 DEF ActiveStatus, SettledStatus, CorrectsStalledPrompt
  <2> QED BY <1>1, <2>1 DEF SettledDispatches, SettledWorkers
<1>9. CASE CorrectsStalledPrompt(d) /\ outcome = "failed"
  <2>1. Untouched(d)
      BY <1>1, <1>2, <1>5, <1>8, <1>9 DEF Untouched, CorrectsStalledPrompt
  <2>2. \A e \in Dispatch : dispTask[e] = t => ~Active(e)
      BY <1>7, <1>9 DEF HasActive, DispatchesOf
  <2>3. \A e \in Dispatch : Untouched(e)
      BY <1>1, <1>3, <1>4, <2>1, <2>2
         DEF Untouched, SettledDispatches, SettledWorkers, Active
  <2> QED BY <1>1, <2>3 DEF RowStep
<1>10. CASE CorrectsStalledPrompt(d) /\ outcome = "succeeded"
  <2>1. Corrected(d)
      BY <1>1, <1>2, <1>5, <1>6, <1>8, <1>10 DEF Corrected, CorrectsStalledPrompt
  <2>2. \A e \in Dispatch : dispTask[e] = t => ~Active(e)
      BY <1>7, <1>10 DEF HasActive, DispatchesOf
  <2>3. \A e \in Dispatch : e # d => Untouched(e)
      BY <1>1, <1>3, <1>4, <2>2
         DEF Untouched, SettledDispatches, SettledWorkers, Active
  <2> QED BY <1>1, <2>1, <2>3 DEF RowStep
<1>11. CASE ~CorrectsStalledPrompt(d)
  <2>1. Active(d)
      BY <1>1, <1>11 DEF ReportSettles, Reconnecting, ReportingStart, Running, Active, ActiveStatus
  <2>2. dispStatus'[d] = s /\ worker'[d] = IF worker[d] = "none" THEN "none" ELSE outcome
      BY <1>5, <1>8, <1>11
  <2>3. MovesLegally(d)
    <3>1. CASE worker[d] = "none"
        BY <2>2, <3>1 DEF MovesLegally
    <3>2. CASE worker[d] # "none"
      <4>1. Unsettled(d)
          BY <2>1, <3>2 DEF Consistent, RowsAgree, WorkerFollowsDispatch
      <4>2. worker[d] \in {"starting", "ready", "start_unknown", "stop_unknown"}
          BY <1>1, <4>1 DEF Unsettled, UnsettledWorker
      <4>3. "failed" \in WorkerEdges[worker[d]] /\ "ready" \in WorkerEdges[worker[d]]
          BY <4>2, Edges
      <4> QED BY <2>2, <3>2, <4>1, <4>3 DEF MovesLegally
    <3> QED BY <3>1, <3>2
  <2>4. Ends(d)
      BY <1>1, <1>2, <2>1, <2>2, <2>3
         DEF Ends, Moves, LeavesStopItsVerdict, StopInFlight, ParksBroken
  <2>5. \A e \in Dispatch : e # d /\ dispTask[e] = t => ~Active(e)
      BY <2>1, ActiveFacts DEF OthersActive, DispatchesOf
  <2>6. \A e \in Dispatch : e # d => Untouched(e)
      BY <1>1, <1>3, <1>4, <2>5
         DEF Untouched, SettledDispatches, SettledWorkers, Active
  <2> QED BY <1>1, <2>4, <2>6 DEF RowStep
<1> QED BY <1>9, <1>10, <1>11

LEMMA EndStepSteps ==
    ASSUME Consistent, NEW d \in Dispatch, EndStep(d)
    PROVE  \A e \in Dispatch : RowStep(e)
<1>0. TypeOK
    BY DEF Consistent
<1>1. ASSUME NEW outcome \in {"succeeded", "failed"}, Report(d, outcome)
      PROVE  \A e \in Dispatch : RowStep(e)
    BY <1>1, ReportSteps
<1>2. CASE BeginStop(d)
  <2>1. Active(d) /\ Unsettled(d) /\ "stopping" \in WorkerEdges[worker[d]]
      BY <1>2, Edges, UnsettledIsActive DEF BeginStop, Unsettled, UnsettledWorker
  <2>2. /\ dispStatus' = [dispStatus EXCEPT ![d] = dispStatus[d]]
        /\ worker' = [worker EXCEPT ![d] = "stopping"]
        /\ failCount' = failCount /\ dispTask' = dispTask
      BY <1>0, <1>2, Unwritten DEF BeginStop, rowVars
  <2> QED BY <2>1, <2>2, ContinuingSteps DEF Active
<1>3. CASE SettleWorkerStop(d)
  <2>1. Unsettled(d) /\ "stopped" \in WorkerEdges[worker[d]]
      BY <1>3, Edges DEF SettleWorkerStop, StopInFlight, Unsettled, UnsettledWorker
  <2> QED BY <1>3, <2>1, EndWorkerSteps DEF SettleWorkerStop
<1>4. CASE MarkStopUnknown(d)
  <2>1. Active(d) /\ Unsettled(d) /\ "stop_unknown" \in WorkerEdges[worker[d]]
      BY <1>4, Edges, UnsettledIsActive DEF MarkStopUnknown, Unsettled, UnsettledWorker
  <2>2. /\ dispStatus' = [dispStatus EXCEPT ![d] = dispStatus[d]]
        /\ worker' = [worker EXCEPT ![d] = "stop_unknown"]
        /\ failCount' = failCount /\ dispTask' = dispTask
      BY <1>0, <1>4, Unwritten DEF MarkStopUnknown, rowVars
  <2> QED BY <2>1, <2>2, ContinuingSteps DEF Active
<1>5. CASE AbandonWorker(d)
  <2>1. Unsettled(d) /\ ~StopInFlight(d) /\ "abandoned" \in WorkerEdges[worker[d]]
      BY <1>5, Edges DEF AbandonWorker, Unsettled, UnsettledWorker
  <2> QED BY <1>5, <2>1, EndWorkerSteps DEF AbandonWorker
<1>6. CASE AgentExits(d) \/ FailContextOnly(d)
    BY <1>6, FailDispatchSteps DEF AgentExits, FailContextOnly, StopInFlight
<1>7. CASE ReconcileMissingTerminal(d)
  <2>1. Active(d) /\ Unsettled(d)
      BY <1>7, UnsettledIsActive DEF ReconcileMissingTerminal
  <2>2. PICK w \in {"stopped", "abandoned"} :
            /\ worker' = [worker EXCEPT ![d] = w]
            /\ worker[d] \in {"stopping", "stop_unknown"} <=> w = "stopped"
      BY <1>7 DEF ReconcileMissingTerminal
  <2>3. w \in WorkerEdges[worker[d]]
      BY <2>1, <2>2, Edges DEF Unsettled, UnsettledWorker
  <2>4. FailureStatus(d) = "circuit_broken" => taskStatus'[dispTask[d]] \in {"failed", "blocked"}
    <3>1. dispTask[d] \in Task /\ ~OthersActive(d) /\ Interrupted(d) = "blocked"
          /\ taskStatus[dispTask[d]] = IF worker[d] \in Uncertain THEN "blocked" ELSE "dispatched"
        BY <2>1, ActiveFacts
    <3>2. SUFFICES ASSUME Broken(d) PROVE taskStatus'[dispTask[d]] \in {"failed", "blocked"}
        BY DEF FailureStatus
    <3>3. CASE worker[d] \in {"stopping", "stop_unknown"}
        BY <1>7, <2>1, <3>1, <3>3 DEF ReconcileMissingTerminal, Uncertain
    <3>4. CASE worker[d] \notin {"stopping", "stop_unknown"}
        BY <1>0, <1>7, <2>1, <3>1, <3>2, <3>4 DEF ReconcileMissingTerminal, WithTask, TypeOK
    <3> QED BY <3>3, <3>4
  <2>5. /\ dispStatus' = [dispStatus EXCEPT ![d] = FailureStatus(d)]
        /\ failCount' = [failCount EXCEPT ![d] = failCount[d] + 1]
        /\ dispTask' = dispTask
        /\ FailureStatus(d) \in SettledStatus
      BY <1>7, <2>1 DEF ReconcileMissingTerminal, rowVars, FailureStatus, SettledStatus
  <2>6. StopInFlight(d) => w = "stopped"
      BY <2>2 DEF StopInFlight
  <2> QED BY <2>1, <2>2, <2>3, <2>4, <2>5, <2>6, EndingSteps
<1>8. CASE ReleaseContextOnly(d)
  <2>1. Active(d) /\ ~StopInFlight(d)
      BY <1>8 DEF ReleaseContextOnly, StopInFlight
  <2>2. /\ dispStatus' = [dispStatus EXCEPT ![d] = "failed"]
        /\ worker' = [worker EXCEPT ![d] = worker[d]]
        /\ failCount' = [failCount EXCEPT ![d] = failCount[d]]
        /\ dispTask' = dispTask
      BY <1>0, <1>8, Unwritten DEF ReleaseContextOnly, rowVars, TypeOK
  <2> QED BY <2>1, <2>2, EndingSteps DEF SettledStatus
<1> QED BY <1>1, <1>2, <1>3, <1>4, <1>5, <1>6, <1>7, <1>8 DEF EndStep

(* Every transaction does one of the five things to every dispatch.         *)
LEMMA EveryRowSteps ==
    ASSUME Consistent, [Next]_vars
    PROVE  \A d \in Dispatch : RowStep(d)
<1>1. ASSUME NEW t \in Task, TaskStep(t) PROVE \A d \in Dispatch : RowStep(d)
    BY <1>1, TaskStepSteps
<1>2. ASSUME NEW d \in Dispatch, DispatchStep(d) PROVE \A e \in Dispatch : RowStep(e)
  <2>1. ASSUME NEW fed \in BOOLEAN, RetryWorker(d, fed)
        PROVE  \A e \in Dispatch : RowStep(e)
    <3>1. dispTask[d] \in Task
        BY <2>1, RetryableIsFree DEF RetryWorker
    <3>2. InsertDispatch(dispTask[d], "pending", NoTerminal, "starting", fed, failCount[d])
        BY <2>1 DEF RetryWorker
    <3> QED BY <3>1, <3>2, InsertingSteps DEF ActiveStatus
  <2> QED BY <1>2, <2>1, StartStepSteps, FedStepSteps, EndStepSteps DEF DispatchStep
<1>3. ASSUME NEW g \in Gate, ResolveGate(g) PROVE \A d \in Dispatch : RowStep(d)
  <2>1. gateTask[g] \in Task /\ "ready" \in TaskStatus
      BY <1>3 DEF ResolveGate, Consistent, TypeOK, TaskStatus
  <2> QED BY <1>3, <2>1, SetTaskStatusSteps DEF ResolveGate
<1>4. CASE ReblockGatedTasks
    BY <1>4, IdleSteps DEF ReblockGatedTasks, dispatchVars, rowVars
<1>5. CASE Restart
    BY <1>5, RestartFacts, IdleSteps DEF Restart, rowVars
<1>6. CASE UNCHANGED vars
    BY <1>6, IdleSteps DEF vars, dispatchVars, rowVars
<1> QED BY <1>1, <1>2, <1>3, <1>4, <1>5, <1>6 DEF Next

-----------------------------------------------------------------------------
(* The action properties. *)

(* A settled dispatch stays as it was settled, but for the correction of a  *)
(* prompt that was taken for lost: no later verdict, report, gate, update   *)
(* or restart rewrites it.                                                  *)
THEOREM SettledStaysSettled == Spec => SettledIsFinal
<1>1. Consistent /\ [Next]_vars =>
        [\A d \in Dispatch :
            dispStatus[d] \in SettledStatus /\ dispStatus'[d] # dispStatus[d]
            => /\ promptStalled[d] /\ dispStatus[d] # "completed"
               /\ dispStatus'[d] = "completed" /\ taskStatus'[dispTask[d]] = "completed"]_vars
  <2> SUFFICES ASSUME Consistent, [Next]_vars, NEW d \in Dispatch,
                      dispStatus[d] \in SettledStatus, dispStatus'[d] # dispStatus[d]
               PROVE  /\ promptStalled[d] /\ dispStatus[d] # "completed"
                      /\ dispStatus'[d] = "completed" /\ taskStatus'[dispTask[d]] = "completed"
      OBVIOUS
  <2>1. ~Active(d) /\ ~Inserted(d) /\ ~Untouched(d)
      BY BoundAssumption DEF Active, ActiveStatus, SettledStatus, Inserted, Untouched, Consistent, TypeOK, Dispatch
  <2>2. Corrected(d)
      BY <2>1, EveryRowSteps DEF RowStep, Continues, Ends
  <2> QED BY <2>2 DEF Corrected
<1> QED BY <1>1, AlwaysConsistent, PTL DEF Spec, SettledIsFinal

(* A stop that this runtime has in flight ends with its own verdict,        *)
(* whatever reports, exits, updates and gates come in between.              *)
THEOREM StopsKeepTheirVerdict == Spec => StopKeepsItsVerdict
<1>1. Consistent /\ [Next]_vars =>
        [\A d \in Dispatch :
            StopInFlight(d) /\ worker'[d] # "stopping"
            => \/ worker'[d] \in {"stopped", "stop_unknown"}
               \/ federated[d] /\ worker'[d] = "ready"]_vars
  <2> SUFFICES ASSUME Consistent, [Next]_vars, NEW d \in Dispatch,
                      StopInFlight(d), worker'[d] # "stopping"
               PROVE  \/ worker'[d] \in {"stopped", "stop_unknown"}
                      \/ federated[d] /\ worker'[d] = "ready"
      OBVIOUS
  <2>1. Active(d) /\ worker[d] = "stopping"
      BY UnsettledIsActive DEF StopInFlight, Unsettled, UnsettledWorker
  <2>2. ~Untouched(d) /\ ~Inserted(d) /\ ~Corrected(d)
      BY <2>1, ActiveFacts, BoundAssumption DEF Untouched, Inserted, Corrected, Consistent, TypeOK, Dispatch
  <2>3. LeavesStopItsVerdict(d)
      BY <2>2, EveryRowSteps DEF RowStep, Continues, Ends, Moves
  <2> QED BY <2>3 DEF LeavesStopItsVerdict
<1> QED BY <1>1, AlwaysConsistent, PTL DEF Spec, StopKeepsItsVerdict

(* The step that breaks the circuit parks the task, on all four paths that  *)
(* count a failure.                                                         *)
THEOREM BrokenCircuitsPark == Spec => BreakerParksTask
<1>1. Consistent /\ [Next]_vars =>
        [\A d \in Dispatch :
            dispStatus[d] # "circuit_broken" /\ dispStatus'[d] = "circuit_broken"
            => taskStatus'[dispTask[d]] \in {"failed", "blocked"}]_vars
  <2> SUFFICES ASSUME Consistent, [Next]_vars, NEW d \in Dispatch,
                      dispStatus[d] # "circuit_broken", dispStatus'[d] = "circuit_broken"
               PROVE  taskStatus'[dispTask[d]] \in {"failed", "blocked"}
      OBVIOUS
  <2>1. Ends(d)
      BY EveryRowSteps
         DEF RowStep, Untouched, Inserted, Continues, Corrected, Active, ActiveStatus
  <2> QED BY <2>1 DEF Ends, ParksBroken
<1> QED BY <1>1, AlwaysConsistent, PTL DEF Spec, BreakerParksTask

(* A row not yet inserted has no worker. *)
BlankRows == \A d \in Dispatch : d > last => worker[d] = "none"

LEMMA RowsStayBlank == Spec => []BlankRows
<1>1. Init => BlankRows
    BY DEF Init, BlankRows
<1>2. Consistent /\ Consistent' /\ BlankRows /\ [Next]_vars => BlankRows'
  <2> SUFFICES ASSUME Consistent, Consistent', BlankRows, [Next]_vars,
                      NEW d \in Dispatch, d > last'
               PROVE  worker'[d] = "none"
      BY DEF BlankRows
  <2>1. dispStatus'[d] = "none"
      BY DEF Consistent, TypeOK
  <2>2. Untouched(d)
      BY <2>1, EveryRowSteps
         DEF RowStep, Inserted, Continues, Ends, Corrected, Active, ActiveStatus, SettledStatus
  <2>3. dispStatus[d] = "none"
      BY <2>1, <2>2 DEF Untouched
  <2>4. d > last
      BY <2>3 DEF Consistent, TypeOK
  <2> QED BY <2>2, <2>4 DEF Untouched, BlankRows
<1> QED BY <1>1, <1>2, AlwaysConsistent, PTL DEF Spec

(* No transaction asks for a worker transition outside the legal graph, so  *)
(* none throws half way through its handler.                                *)
THEOREM WorkersMoveLegally == Spec => WorkerStepsAreLegal
<1>1. Consistent /\ BlankRows /\ [Next]_vars =>
        [\A d \in Dispatch :
            worker[d] # "none" /\ worker'[d] # worker[d]
            => \/ Unsettled(d) /\ worker'[d] \in WorkerEdges[worker[d]]
               \/ Unsettled(d) /\ worker'[d] = "succeeded" /\ "ready" \in WorkerEdges[worker[d]]
               \/ promptStalled[d] /\ worker[d] = "failed" /\ worker'[d] = "succeeded"]_vars
  <2> SUFFICES ASSUME Consistent, BlankRows, [Next]_vars, NEW d \in Dispatch,
                      worker[d] # "none", worker'[d] # worker[d]
               PROVE  \/ Unsettled(d) /\ worker'[d] \in WorkerEdges[worker[d]]
                      \/ Unsettled(d) /\ worker'[d] = "succeeded" /\ "ready" \in WorkerEdges[worker[d]]
                      \/ promptStalled[d] /\ worker[d] = "failed" /\ worker'[d] = "succeeded"
      OBVIOUS
  <2>1. ~Untouched(d) /\ ~Inserted(d)
      BY DEF Untouched, Inserted, BlankRows
  <2>2. CASE Corrected(d)
      BY <2>2 DEF Corrected
  <2>3. CASE Continues(d) \/ Ends(d)
      BY <2>3 DEF Continues, Ends, Moves, MovesLegally
  <2> QED BY <2>1, <2>2, <2>3, EveryRowSteps DEF RowStep
<1> QED BY <1>1, AlwaysConsistent, RowsStayBlank, PTL DEF Spec, WorkerStepsAreLegal

-----------------------------------------------------------------------------
(* Terminals and failure counts. *)

(* What a step does to the table: nothing is inserted and at most one start *)
(* is placed, or one row is inserted that takes over a failure count of its *)
(* task; a terminal is only ever given away while nobody active has it.     *)
FreeFor(term, d) ==
    term = NoTerminal \/ \A e \in Dispatch \ {d} : Active(e) => assignee[e] # term

Placed(d) ==
    /\ last' = last /\ dispTask' = dispTask
    /\ \E term \in Terminal : /\ assignee' = [assignee EXCEPT ![d] = term]
                              /\ FreeFor(term, d)

Added(n) ==
    /\ n = last + 1 /\ last' = n
    /\ \E t \in Task, term \in Terminal \cup {NoTerminal} : \E f \in PriorFailures(t) :
          /\ dispTask' = [dispTask EXCEPT ![n] = t]
          /\ failCount' = [failCount EXCEPT ![n] = f]
          /\ assignee' = [assignee EXCEPT ![n] = term]
          /\ FreeFor(term, n)

TableStep ==
    \/ last' = last /\ dispTask' = dispTask /\ assignee' = assignee
    \/ \E d \in Dispatch : Placed(d) \/ Added(d)

LEMMA InsertIsTableStep ==
    ASSUME Consistent, NEW t \in Task, NEW status, NEW w, NEW fed,
           NEW term \in Terminal \cup {NoTerminal}, NEW f \in PriorFailures(t),
           \A e \in Dispatch : Active(e) => term = NoTerminal \/ assignee[e] # term,
           InsertDispatch(t, status, term, w, fed, f)
    PROVE  TableStep
BY DEF InsertDispatch, TableStep, Added, FreeFor

LEMMA EveryStepIsTableStep ==
    ASSUME Consistent, [Next]_vars
    PROVE  TableStep
<1>0. TypeOK
    BY DEF Consistent
<1>1. ASSUME NEW t \in Task, TaskStep(t) PROVE TableStep
  <2>1. ASSUME NEW term \in Terminal, CreateDispatchContext(t, term) PROVE TableStep
    <3>1. PICK f \in PriorFailures(t) : InsertDispatch(t, "dispatched", term, "none", FALSE, f)
        BY <2>1 DEF CreateDispatchContext
    <3> QED BY <2>1, <3>1, InsertIsTableStep DEF CreateDispatchContext, TerminalFree
  <2>2. ASSUME NEW fed \in BOOLEAN, StartWorker(t, fed) \/ StartInlineTask(t, fed) PROVE TableStep
    <3>1. InsertDispatch(t, "pending", NoTerminal, "starting", fed, 0) /\ 0 \in PriorFailures(t)
        BY <2>2 DEF StartWorker, StartInlineTask, PriorFailures
    <3> QED BY <3>1, InsertIsTableStep
  <2>3. CASE CreateTask(t) \/ CreateGate(t) \/ \E s \in TaskStatus : UpdateTaskStatus(t, s)
      BY <2>3 DEF CreateTask, CreateGate, UpdateTaskStatus, SetTaskStatus, dispatchVars, rowVars, TableStep
  <2> QED BY <1>1, <2>1, <2>2, <2>3 DEF TaskStep
<1>2. ASSUME NEW d \in Dispatch, DispatchStep(d) PROVE TableStep
  <2>1. ASSUME NEW fed \in BOOLEAN, RetryWorker(d, fed) PROVE TableStep
    <3>1. dispTask[d] \in Task
        BY <2>1, RetryableIsFree DEF RetryWorker
    <3>2. InsertDispatch(dispTask[d], "pending", NoTerminal, "starting", fed, failCount[d])
        BY <2>1 DEF RetryWorker
    <3>3. failCount[d] \in PriorFailures(dispTask[d])
        BY DEF PriorFailures, DispatchesOf
    <3> QED BY <3>1, <3>2, <3>3, InsertIsTableStep
  <2>2. CASE StartStep(d)
    <3>1. ASSUME NEW term \in Terminal, AttachTerminal(d, term) PROVE TableStep
        BY <3>1 DEF AttachTerminal, TableStep, Placed, FreeFor, rowVars
    <3>2. CASE ~\E term \in Terminal : AttachTerminal(d, term)
        BY <2>2, <3>2 DEF StartStep, MarkReady, FailWorkerStart, MarkStartUnknown, TableStep, rowVars
    <3> QED BY <3>1, <3>2
  <2>3. CASE FedStep(d)
      BY <2>3 DEF FedStep, FedStartConfirmed, FedStartUncertain, FedStartEnded, FedStopConfirmed,
                  FedResume, EndWorker, TableStep, rowVars
  <2>4. CASE EndStep(d)
      BY <2>4 DEF EndStep, Report, BeginStop, SettleWorkerStop, MarkStopUnknown, AbandonWorker,
                  AgentExits, FailDispatch, ReconcileMissingTerminal, FailContextOnly,
                  ReleaseContextOnly, EndWorker, TableStep, rowVars
  <2> QED BY <1>2, <2>1, <2>2, <2>3, <2>4 DEF DispatchStep
<1>3. CASE \/ \E g \in Gate : ResolveGate(g)
           \/ ReblockGatedTasks \/ Restart \/ UNCHANGED vars
    BY <1>3 DEF ResolveGate, SetTaskStatus, ReblockGatedTasks, Restart, vars, dispatchVars,
                rowVars, TableStep
<1> QED BY <1>1, <1>2, <1>3 DEF Next

(* A dispatch is active after a step only if it was, or if it was inserted. *)
LEMMA ActiveBefore ==
    ASSUME Consistent, [Next]_vars, NEW d \in Dispatch, Active(d)', ~Inserted(d)
    PROVE  Active(d)
BY EveryRowSteps DEF RowStep, Untouched, Continues, Ends, Corrected, Active, ActiveStatus, SettledStatus

(* A terminal works for one active dispatch at a time, over both paths that *)
(* claim it.                                                                *)
THEOREM TerminalsAreExclusive == Spec => []TerminalExclusive
<1>1. Init => TerminalExclusive
    BY DEF Init, TerminalExclusive, Active, ActiveStatus
<1>2. Consistent /\ TerminalExclusive /\ [Next]_vars => TerminalExclusive'
  <2> SUFFICES ASSUME Consistent, TerminalExclusive, [Next]_vars,
                      NEW d \in Dispatch, NEW e \in Dispatch, Active(d)', Active(e)',
                      assignee'[d] = assignee'[e], assignee'[d] # NoTerminal, d # e
               PROVE  FALSE
      BY DEF TerminalExclusive
  <2>0. TypeOK
      BY DEF Consistent
  <2>1. CASE last' = last /\ dispTask' = dispTask /\ assignee' = assignee
    <3>1. Active(d) /\ Active(e)
        BY <2>0, <2>1, ActiveBefore, BoundAssumption DEF Inserted, TypeOK, Dispatch
    <3> QED BY <2>1, <3>1 DEF TerminalExclusive
  <2>2. ASSUME NEW n \in Dispatch, Placed(n) \/ Added(n) PROVE FALSE
    <3>1. PICK term : assignee' = [assignee EXCEPT ![n] = term] /\ FreeFor(term, n)
        BY <2>2 DEF Placed, Added
    <3>2. last' = last \/ last' = n
        BY <2>2 DEF Placed, Added
    <3>3. \A c \in Dispatch : c # n /\ Active(c)' => Active(c) /\ assignee'[c] = assignee[c]
        BY <2>0, <3>1, <3>2, ActiveBefore, BoundAssumption DEF Inserted, TypeOK, Dispatch
    <3>4. assignee'[n] = term
        BY <2>0, <3>1 DEF TypeOK
    <3>5. CASE d # n /\ e # n
        BY <3>3, <3>5 DEF TerminalExclusive
    <3>6. CASE d = n
        BY <3>1, <3>3, <3>4, <3>6 DEF FreeFor
    <3>7. CASE e = n
        BY <3>1, <3>3, <3>4, <3>7 DEF FreeFor
    <3> QED BY <3>5, <3>6, <3>7
  <2> QED BY <2>1, <2>2, EveryStepIsTableStep DEF TableStep
<1> QED BY <1>1, <1>2, AlwaysConsistent, PTL DEF Spec

(* The attempts made on the task of d up to d. *)
Attempts(d) == {e \in DispatchesOf(dispTask[d]) : e <= d}

LEMMA FiniteDispatches ==
    ASSUME NEW S, S \subseteq Dispatch
    PROVE  IsFiniteSet(S) /\ Cardinality(S) \in Nat
<1>1. IsFiniteSet(Dispatch)
    BY FS_Interval, BoundAssumption DEF Dispatch
<1> QED BY <1>1, FS_Subset, FS_CardinalityType

(* The count a new attempt starts from is below the number of attempts.     *)
LEMMA InheritedIsBounded ==
    ASSUME TypeOK, FailuresBounded, NEW t \in Task, NEW f \in PriorFailures(t)
    PROVE  f \in Nat /\ f <= Cardinality(DispatchesOf(t))
<1>1. Cardinality(DispatchesOf(t)) \in Nat
    BY FiniteDispatches DEF DispatchesOf
<1>2. ASSUME NEW e \in DispatchesOf(t) PROVE failCount[e] <= Cardinality(DispatchesOf(t))
  <2>1. e \in 1..last /\ failCount[e] \in Nat
      BY SentinelAssumption, BoundAssumption DEF DispatchesOf, TypeOK, Dispatch
  <2>2. failCount[e] <= Cardinality(Attempts(e))
      BY <2>1 DEF FailuresBounded, Attempts
  <2>3. Attempts(e) \subseteq DispatchesOf(t)
      BY DEF Attempts, DispatchesOf
  <2>4. Cardinality(Attempts(e)) \in Nat /\ IsFiniteSet(DispatchesOf(t))
      BY FiniteDispatches DEF Attempts, DispatchesOf
  <2>5. Cardinality(Attempts(e)) <= Cardinality(DispatchesOf(t))
      BY <2>3, <2>4, FS_Subset
  <2> QED BY <1>1, <2>1, <2>2, <2>4, <2>5
<1> QED BY <1>1, <1>2 DEF PriorFailures, TypeOK, DispatchesOf

(* The recorded failures never exceed the attempts, and an attempt that     *)
(* still runs has not been counted: three dispatches must really have       *)
(* failed before the breaker of three trips.                                *)
THEOREM FailuresAreBounded == Spec => []FailuresBounded
<1>1. Init => FailuresBounded
    BY DEF Init, FailuresBounded
<1>2. Consistent /\ Consistent' /\ FailuresBounded /\ [Next]_vars => FailuresBounded'
  <2> SUFFICES ASSUME Consistent, Consistent', FailuresBounded, [Next]_vars, NEW d \in 1..last'
               PROVE  /\ failCount'[d] <= Cardinality(Attempts(d)')
                      /\ Active(d)' => failCount'[d] < Cardinality(Attempts(d)')
      BY DEF FailuresBounded, Attempts
  <2>0. TypeOK /\ TypeOK' /\ last \in Nat /\ last' \in Nat
      BY BoundAssumption DEF Consistent, TypeOK
  <2>d. d \in Dispatch
      BY <2>0, BoundAssumption DEF TypeOK, Dispatch
  <2>1. ASSUME d \in 1..last, ~Inserted(d), Attempts(d)' = Attempts(d)
        PROVE  /\ failCount'[d] <= Cardinality(Attempts(d)')
               /\ Active(d)' => failCount'[d] < Cardinality(Attempts(d)')
    <3>1. failCount[d] \in Nat /\ Cardinality(Attempts(d)) \in Nat
        BY <2>0, <2>d, FiniteDispatches DEF TypeOK, Attempts, DispatchesOf
    <3>2. /\ failCount[d] <= Cardinality(Attempts(d))
          /\ Active(d) => failCount[d] < Cardinality(Attempts(d))
        BY <2>1 DEF FailuresBounded, Attempts
    <3>3. Untouched(d) \/ Continues(d) \/ Ends(d) \/ Corrected(d)
        BY <2>1, <2>d, EveryRowSteps DEF RowStep
    <3>4. CASE Untouched(d)
        BY <2>1, <3>2, <3>4 DEF Untouched, Active
    <3>5. CASE Continues(d)
        BY <2>1, <3>2, <3>5 DEF Continues
    <3>6. CASE Ends(d)
        BY <2>1, <3>1, <3>2, <3>6 DEF Ends, Active, ActiveStatus, SettledStatus
    <3>7. CASE Corrected(d)
        BY <2>1, <3>2, <3>7 DEF Corrected, Active, ActiveStatus
    <3> QED BY <3>3, <3>4, <3>5, <3>6, <3>7
  <2>2. CASE last' = last /\ dispTask' = dispTask
    <3>1. ~Inserted(d)
        BY <2>0, <2>2 DEF Inserted
    <3>2. Attempts(d)' = Attempts(d)
        BY <2>2 DEF Attempts, DispatchesOf
    <3> QED BY <2>1, <2>2, <3>1, <3>2
  <2>3. ASSUME NEW n \in Dispatch, Added(n)
        PROVE  /\ failCount'[d] <= Cardinality(Attempts(d)')
               /\ Active(d)' => failCount'[d] < Cardinality(Attempts(d)')
    <3>0. PICK t \in Task : \E f \in PriorFailures(t) :
              /\ dispTask' = [dispTask EXCEPT ![n] = t]
              /\ failCount' = [failCount EXCEPT ![n] = f]
        BY <2>3 DEF Added
    <3>1. PICK f \in PriorFailures(t) :
              /\ dispTask' = [dispTask EXCEPT ![n] = t]
              /\ failCount' = [failCount EXCEPT ![n] = f]
        BY <3>0
    <3>2. n = last + 1 /\ last' = n
        BY <2>3 DEF Added
    <3>3. \A e \in Dispatch : e # n => dispTask'[e] = dispTask[e]
        BY <2>0, <3>1 DEF TypeOK
    <3>4. dispTask'[n] = t /\ failCount'[n] = f /\ dispTask[n] = NoTask
        BY <2>0, <3>1, <3>2 DEF TypeOK
    <3>5. CASE d # n
      <4>1. d \in 1..last /\ d < n
          BY <2>0, <3>2, <3>5
      <4>2. Attempts(d)' = Attempts(d)
          BY <2>d, <3>3, <4>1 DEF Attempts, DispatchesOf, Dispatch
      <4> QED BY <2>0, <2>1, <3>2, <4>1, <4>2 DEF Inserted
    <3>6. CASE d = n
      <4>1. DispatchesOf(t) \subseteq 1..last
          BY <2>0, SentinelAssumption, BoundAssumption DEF DispatchesOf, TypeOK, Dispatch
      <4>2. Attempts(n)' = DispatchesOf(t) \cup {n}
          BY <2>0, <3>2, <3>3, <3>4, <4>1, SentinelAssumption DEF Attempts, DispatchesOf, Dispatch
      <4>3. n \notin DispatchesOf(t) /\ IsFiniteSet(DispatchesOf(t))
            /\ Cardinality(DispatchesOf(t)) \in Nat
          BY <2>0, <3>2, <4>1, FiniteDispatches DEF DispatchesOf
      <4>4. Cardinality(Attempts(n)') = Cardinality(DispatchesOf(t)) + 1
          BY <4>2, <4>3, FS_AddElement
      <4> QED BY <2>0, <3>4, <3>6, <4>3, <4>4, InheritedIsBounded
    <3> QED BY <3>5, <3>6
  <2> QED BY <2>2, <2>3, EveryStepIsTableStep DEF TableStep, Placed
<1> QED BY <1>1, <1>2, AlwaysConsistent, PTL DEF Spec
=============================================================================
