-------------------------- MODULE TaskCustodyProofs --------------------------
(***************************************************************************)
(* What dispatching means for a task as a whole: a pending task is never   *)
(* left behind by the completion of what it waits for, and the dispatches  *)
(* of a task hold it in turn as TaskCustody says.                          *)
(***************************************************************************)
EXTENDS DispatchStepProofs

(* A step that starts no task waiting and completes none. *)
CompletesNothing ==
    \A u \in Task : taskStatus'[u] \in {"pending", "completed"} => taskStatus'[u] = taskStatus[u]

(* A step of the task table: nothing completes, a task completes together   *)
(* with the promotions it owes, or a task is created behind others.         *)
WaitStep ==
    \/ CompletesNothing
    \/ \E t \in Task : taskStatus' = Completing(t, "completed")
    \/ \E t \in Task : CreateTask(t)

(* Writing one task's status completes nothing unless it says so.           *)
LEMMA RelabelWaits ==
    ASSUME TypeOK, NEW t, NEW s, taskStatus' = WithTask(t, s),
           s \in {"pending", "completed"} => (t \in Task => s = taskStatus[t])
    PROVE  CompletesNothing
BY DEF CompletesNothing, WithTask, TypeOK

LEMMA SetTaskStatusWaits ==
    ASSUME TypeOK, NEW t \in Task, NEW s \in TaskStatus \ {"pending"}, SetTaskStatus(t, s)
    PROVE  WaitStep
<1>1. taskStatus' = Completing(t, s)
    BY DEF SetTaskStatus
<1>2. CASE s = "completed"
    BY <1>1, <1>2 DEF WaitStep
<1>3. CASE s # "completed"
  <2>1. taskStatus' = WithTask(t, s)
      BY <1>1, <1>3 DEF Completing
  <2> QED BY <1>3, <2>1, RelabelWaits DEF WaitStep
<1> QED BY <1>2, <1>3

LEMMA TaskStepWaits ==
    ASSUME Consistent, NEW t \in Task, TaskStep(t), "pending" \notin UpdateStatuses
    PROVE  WaitStep
<1>0. TypeOK
    BY DEF Consistent
<1>1. CASE CreateTask(t)
    BY <1>1 DEF WaitStep
<1>2. ASSUME NEW s \in TaskStatus, UpdateTaskStatus(t, s) PROVE WaitStep
    BY <1>0, <1>2, SetTaskStatusWaits DEF UpdateTaskStatus
<1>3. ASSUME NEW term \in Terminal, CreateDispatchContext(t, term) PROVE WaitStep
  <2>1. taskStatus' = WithTask(t, "dispatched")
      BY <1>3 DEF CreateDispatchContext, InsertDispatch
  <2> QED BY <1>0, <2>1, RelabelWaits DEF WaitStep
<1>4. ASSUME NEW fed \in BOOLEAN, StartWorker(t, fed) \/ StartInlineTask(t, fed) PROVE WaitStep
  <2>1. taskStatus' = WithTask(t, "dispatched")
      BY <1>4 DEF StartWorker, StartInlineTask, InsertDispatch
  <2> QED BY <1>0, <2>1, RelabelWaits DEF WaitStep
<1>5. CASE CreateGate(t)
  <2>1. taskStatus' = WithTask(t, "blocked")
      BY <1>5 DEF CreateGate
  <2> QED BY <1>0, <2>1, RelabelWaits DEF WaitStep
<1> QED BY <1>1, <1>2, <1>3, <1>4, <1>5 DEF TaskStep

LEMMA DispatchStepWaits ==
    ASSUME Consistent, NEW d \in Dispatch, DispatchStep(d)
    PROVE  WaitStep
<1> DEFINE t == dispTask[d]
<1>0. TypeOK
    BY DEF Consistent
<1>a. ASSUME NEW s, taskStatus' = WithTask(t, s) \/ taskStatus' = taskStatus,
             s \in {"pending", "completed"} => s = taskStatus[t]
      PROVE  WaitStep
    BY <1>0, <1>a, RelabelWaits DEF WaitStep, CompletesNothing
<1>b. Interrupted(d) \in {"pending", "completed"} => Interrupted(d) = taskStatus[t]
    BY DEF Interrupted
<1>1. ASSUME NEW fed \in BOOLEAN, RetryWorker(d, fed) PROVE WaitStep
  <2>1. taskStatus' = WithTask(t, "dispatched")
      BY <1>1 DEF RetryWorker, InsertDispatch
  <2> QED BY <1>a, <2>1
<1>2. CASE StartStep(d)
  <2>1. \E s \in {"failed", "blocked"} : taskStatus' = WithTask(t, s) \/ taskStatus' = taskStatus
      BY <1>2 DEF StartStep, AttachTerminal, MarkReady, FailWorkerStart, MarkStartUnknown
  <2> QED BY <1>a, <2>1
<1>3. CASE FedStep(d)
  <2>1. CASE FedStartConfirmed(d) \/ FedStartUncertain(d) \/ FedResume(d)
    <3>1. \E s \in {"dispatched", "blocked"} :
              taskStatus' = WithTask(t, s) \/ taskStatus' = taskStatus
        BY <2>1 DEF FedStartConfirmed, FedStartUncertain, FedResume
    <3> QED BY <1>a, <3>1
  <2>2. ASSUME NEW s \in {"failed", "stopped"}, FedStartEnded(d, s) PROVE WaitStep
    <3>1. \E r \in {"failed", Interrupted(d)} : taskStatus' = WithTask(t, r)
        BY <2>2 DEF FedStartEnded
    <3> QED BY <1>a, <1>b, <3>1
  <2>3. CASE FedStopConfirmed(d)
      BY <1>a, <1>b, <2>3 DEF FedStopConfirmed, EndWorker
  <2> QED BY <1>3, <2>1, <2>2, <2>3 DEF FedStep
<1>4. CASE EndStep(d)
  <2>1. ASSUME NEW outcome \in {"succeeded", "failed"}, Report(d, outcome) PROVE WaitStep
    <3>1. t \in Task /\ taskStatus' = Completing(t, ReportStatus(outcome))
        BY <2>1, ReportFacts
    <3>2. CASE outcome = "succeeded"
        BY <3>1, <3>2 DEF WaitStep, ReportStatus
    <3>3. CASE outcome = "failed"
        BY <1>a, <3>1, <3>3 DEF ReportStatus, Completing
    <3> QED BY <3>2, <3>3
  <2>2. CASE BeginStop(d) \/ SettleWorkerStop(d) \/ AbandonWorker(d)
      BY <1>a, <1>b, <2>2 DEF BeginStop, SettleWorkerStop, AbandonWorker, EndWorker
  <2>3. CASE \/ MarkStopUnknown(d) \/ AgentExits(d) \/ FailContextOnly(d)
             \/ ReleaseContextOnly(d)
    <3>1. \E s \in {"failed", "ready", "blocked"} :
              taskStatus' = WithTask(t, s) \/ taskStatus' = taskStatus
        BY <2>3 DEF MarkStopUnknown, AgentExits, FailContextOnly, FailDispatch, ReleaseContextOnly
    <3> QED BY <1>a, <3>1
  <2>4. CASE ReconcileMissingTerminal(d)
    <3>1. \E s \in {"failed", "ready", Interrupted(d)} :
              taskStatus' = WithTask(t, s) \/ taskStatus' = taskStatus
        BY <2>4 DEF ReconcileMissingTerminal
    <3> QED BY <1>a, <1>b, <3>1
  <2> QED BY <1>4, <2>1, <2>2, <2>3, <2>4 DEF EndStep
<1> QED BY <1>1, <1>2, <1>3, <1>4 DEF DispatchStep

LEMMA EveryStepWaits ==
    ASSUME Consistent, [Next]_vars, "pending" \notin UpdateStatuses
    PROVE  WaitStep
<1>0. TypeOK
    BY DEF Consistent
<1>1. ASSUME NEW g \in Gate, ResolveGate(g) PROVE WaitStep
  <2>1. gateTask[g] \in Task /\ "ready" \in TaskStatus \ {"pending"}
      BY <1>0, <1>1 DEF ResolveGate, TypeOK, TaskStatus
  <2> QED BY <1>0, <1>1, <2>1, SetTaskStatusWaits DEF ResolveGate
<1>2. CASE ReblockGatedTasks
    BY <1>2 DEF ReblockGatedTasks, WaitStep, CompletesNothing
<1>3. CASE Restart \/ UNCHANGED vars
    BY <1>3 DEF Restart, vars, WaitStep, CompletesNothing
<1> QED BY <1>1, <1>2, <1>3, TaskStepWaits, DispatchStepWaits DEF Next

(* Completing a task promotes every pending task that now waits for nothing. *)
LEMMA CompletingStrandsNothing ==
    ASSUME TypeOK, NoStrandedTask, NEW t \in Task, taskStatus' = Completing(t, "completed")
    PROVE  NoStrandedTask'
<1> DEFINE before == WithTask(t, "completed")
<1> SUFFICES ASSUME NEW u \in Task, taskStatus'[u] = "pending"
             PROVE  ~DepsCompleted(u, taskStatus')
    BY DEF NoStrandedTask, DepsCompleted
<1>1. taskStatus' = Promoted(before, t)
    BY DEF Completing
<1>2. /\ before[t] = "completed"
      /\ \A v \in Task : v # t => before[v] = taskStatus[v]
    BY DEF WithTask, TypeOK
<1> HIDE DEF before
<1>3. before[u] = "pending" /\ ~(t \in Deps[u] /\ DepsCompleted(u, before))
    BY <1>1 DEF Promoted
<1>4. taskStatus[u] = "pending"
    BY <1>2, <1>3
<1>5. PICK v \in Deps[u] : taskStatus[v] # "completed"
    BY <1>4 DEF NoStrandedTask, DepsCompleted
<1>6. \A w \in Task : taskStatus'[w] = "completed" <=> before[w] = "completed"
    BY <1>1 DEF Promoted
<1>7. Deps[u] \subseteq Task
    BY DepsAssumption
<1>8. CASE t \in Deps[u]
    BY <1>3, <1>6, <1>7, <1>8 DEF DepsCompleted
<1>9. CASE t \notin Deps[u]
    BY <1>2, <1>5, <1>6, <1>7, <1>9 DEF DepsCompleted
<1> QED BY <1>8, <1>9

(* The comment above promoteReadyTasks: a pending task always waits for a   *)
(* dependency that is still to complete, unless the coordinator sets a task *)
(* pending by hand.                                                         *)
THEOREM NothingIsStranded ==
    ASSUME "pending" \notin UpdateStatuses
    PROVE  Spec => []NoStrandedTask
<1>1. Init => NoStrandedTask
    BY DEF Init, NoStrandedTask
<1>2. Consistent /\ NoStrandedTask /\ [Next]_vars => NoStrandedTask'
  <2> SUFFICES ASSUME Consistent, NoStrandedTask, [Next]_vars
               PROVE  NoStrandedTask'
      OBVIOUS
  <2>0. TypeOK
      BY DEF Consistent
  <2>1. CASE CompletesNothing
      BY <2>1, DepsAssumption DEF CompletesNothing, NoStrandedTask, DepsCompleted
  <2>2. ASSUME NEW t \in Task, CreateTask(t) PROVE NoStrandedTask'
    <3>1. t \notin Deps[t] /\ \A u \in Task : t \in Deps[u] => taskStatus'[t] # "completed"
        BY <2>0, <2>2 DEF CreateTask, WithTask, TypeOK
    <3>2. /\ taskStatus'[t] = "pending" => ~DepsCompleted(t, taskStatus)
          /\ \A u \in Task : u # t => taskStatus'[u] = taskStatus[u]
        BY <2>0, <2>2 DEF CreateTask, WithTask, TypeOK
    <3> QED BY <3>1, <3>2, DepsAssumption DEF NoStrandedTask, DepsCompleted
  <2> QED BY <2>0, <2>1, <2>2, EveryStepWaits, CompletingStrandsNothing DEF WaitStep
<1> QED BY <1>1, <1>2, AlwaysConsistent, PTL DEF Spec

-----------------------------------------------------------------------------
(* Dispatching implements custody of tasks. *)

(* Who holds a task: its one active dispatch. *)
HolderIs ==
    /\ Holder \in [Task -> Dispatch \cup {Free}]
    /\ \A t \in Task : Holder[t] # Free => Active(Holder[t]) /\ dispTask[Holder[t]] = t
    /\ \A d \in Dispatch : Active(d) => Holder[dispTask[d]] = d

Spent == {d \in Dispatch : dispStatus[d] \in SettledStatus}

LEMMA HoldersHold == Consistent => HolderIs
<1> SUFFICES ASSUME Consistent PROVE HolderIs
    OBVIOUS
<1>1. \A d, e \in Dispatch : Active(d) /\ Active(e) /\ dispTask[d] = dispTask[e] => d = e
  <2> SUFFICES ASSUME NEW d \in Dispatch, NEW e \in Dispatch,
                      Active(d), Active(e), dispTask[d] = dispTask[e], d # e
               PROVE  FALSE
      OBVIOUS
  <2> QED BY ActiveFacts DEF OthersActive, DispatchesOf
<1>2. Holder = [t \in Task |-> IF HasActive(t) THEN CHOOSE d \in DispatchesOf(t) : Active(d) ELSE Free]
    BY DEF Holder
<1>3. ASSUME NEW t \in Task, HasActive(t)
      PROVE  Holder[t] \in DispatchesOf(t) /\ Active(Holder[t])
    BY <1>2, <1>3 DEF HasActive
<1>4. \A t \in Task : ~HasActive(t) => Holder[t] = Free
    BY <1>2
<1>5. \A t \in Task : Holder[t] # Free =>
          Holder[t] \in Dispatch /\ Active(Holder[t]) /\ dispTask[Holder[t]] = t
    BY <1>3, <1>4 DEF DispatchesOf
<1>6. Holder \in [Task -> Dispatch \cup {Free}]
  <2>1. \A t \in Task : Holder[t] \in Dispatch \cup {Free}
      BY <1>5
  <2> QED BY <1>2, <2>1
<1>7. ASSUME NEW d \in Dispatch, Active(d) PROVE Holder[dispTask[d]] = d
  <2>1. dispTask[d] \in Task /\ HasActive(dispTask[d])
      BY <1>7, ActiveFacts DEF HasActive, DispatchesOf
  <2> QED BY <1>1, <1>3, <1>7, <2>1 DEF DispatchesOf
<1> QED BY <1>5, <1>6, <1>7 DEF HolderIs

(* A step inserts one row, for a task nobody holds, or writes the rows of   *)
(* one task only.                                                           *)
InsertsOne ==
    \E t \in Task, n \in Dispatch :
        /\ ~HasActive(t)
        /\ n = last + 1 /\ last' = n
        /\ dispTask' = [dispTask EXCEPT ![n] = t]
        /\ \E s \in ActiveStatus : dispStatus' = [dispStatus EXCEPT ![n] = s]

WritesOneTask ==
    /\ dispTask' = dispTask
    /\ \E t \in Task \cup {NoTask} :
          \A d \in Dispatch : dispTask[d] # t => dispStatus'[d] = dispStatus[d]

LEMMA OneRowWritten ==
    ASSUME TypeOK, NEW d \in Dispatch, NEW s, dispTask' = dispTask,
           dispStatus' = [dispStatus EXCEPT ![d] = s] \/ dispStatus' = dispStatus
    PROVE  WritesOneTask
<1>1. dispTask[d] \in Task \cup {NoTask}
    BY DEF TypeOK
<1>2. \A e \in Dispatch : dispTask[e] # dispTask[d] => dispStatus'[e] = dispStatus[e]
    BY DEF TypeOK
<1> QED BY <1>1, <1>2 DEF WritesOneTask

LEMMA NothingWritten ==
    ASSUME dispTask' = dispTask, dispStatus' = dispStatus
    PROVE  WritesOneTask
BY DEF WritesOneTask

LEMMA TaskCleared ==
    ASSUME NEW t \in Task, NEW s, dispTask' = dispTask,
           dispStatus' = SettledDispatches(dispStatus, t, s)
    PROVE  WritesOneTask
BY DEF WritesOneTask, SettledDispatches

LEMMA InsertIsForOne ==
    ASSUME NEW t \in Task, ~HasActive(t), NEW s \in ActiveStatus,
           NEW term, NEW w, NEW fed, NEW f, InsertDispatch(t, s, term, w, fed, f)
    PROVE  InsertsOne
BY DEF InsertDispatch, InsertsOne

LEMMA TaskStepForms ==
    ASSUME Consistent, NEW t \in Task, TaskStep(t)
    PROVE  InsertsOne \/ WritesOneTask
<1>1. CASE CreateTask(t)
    BY <1>1, NothingWritten DEF CreateTask, dispatchVars, rowVars
<1>2. ASSUME NEW s \in TaskStatus, UpdateTaskStatus(t, s) PROVE WritesOneTask
    BY <1>2, TaskCleared, NothingWritten DEF UpdateTaskStatus, SetTaskStatus, rowVars
<1>3. ASSUME NEW term \in Terminal, CreateDispatchContext(t, term) PROVE InsertsOne
  <2>1. PICK f : InsertDispatch(t, "dispatched", term, "none", FALSE, f)
      BY <1>3 DEF CreateDispatchContext
  <2>2. ~HasActive(t)
      BY <1>3, FreeTask DEF CreateDispatchContext
  <2> QED BY <2>1, <2>2, InsertIsForOne DEF ActiveStatus
<1>4. ASSUME NEW fed \in BOOLEAN, StartWorker(t, fed) \/ StartInlineTask(t, fed) PROVE InsertsOne
  <2>1. InsertDispatch(t, "pending", NoTerminal, "starting", fed, 0)
      BY <1>4 DEF StartWorker, StartInlineTask
  <2>2. ~HasActive(t)
      BY <1>4, FreeTask DEF StartWorker, StartInlineTask
  <2> QED BY <2>1, <2>2, InsertIsForOne DEF ActiveStatus
<1>5. CASE CreateGate(t)
    BY <1>5, TaskCleared DEF CreateGate, rowVars
<1> QED BY <1>1, <1>2, <1>3, <1>4, <1>5 DEF TaskStep

LEMMA DispatchStepForms ==
    ASSUME Consistent, NEW d \in Dispatch, DispatchStep(d)
    PROVE  InsertsOne \/ WritesOneTask
<1>0. TypeOK
    BY DEF Consistent
<1>1. ASSUME NEW fed \in BOOLEAN, RetryWorker(d, fed) PROVE InsertsOne
  <2>1. dispTask[d] \in Task /\ ~HasActive(dispTask[d])
      BY <1>1, RetryableIsFree DEF RetryWorker
  <2>2. InsertDispatch(dispTask[d], "pending", NoTerminal, "starting", fed, failCount[d])
      BY <1>1 DEF RetryWorker
  <2> QED BY <2>1, <2>2, InsertIsForOne DEF ActiveStatus
<1>2. ASSUME NEW outcome \in {"succeeded", "failed"}, Report(d, outcome) PROVE WritesOneTask
  <2>1. dispTask[d] \in Task
        /\ \A e \in Dispatch : dispTask[e] # dispTask[d] => dispStatus'[e] = dispStatus[e]
      BY <1>2, ReportFacts
  <2> QED BY <1>2, <2>1 DEF Report, rowVars, WritesOneTask
<1>3. CASE /\ StartStep(d) \/ FedStep(d) \/ EndStep(d)
           /\ ~\E outcome \in {"succeeded", "failed"} : Report(d, outcome)
  <2>1. dispTask' = dispTask
      BY <1>3 DEF StartStep, AttachTerminal, MarkReady, FailWorkerStart, MarkStartUnknown,
                  FedStep, FedStartConfirmed, FedStartUncertain, FedStartEnded, FedStopConfirmed,
                  FedResume, EndStep, BeginStop, SettleWorkerStop, MarkStopUnknown, AbandonWorker,
                  AgentExits, FailDispatch, ReconcileMissingTerminal, FailContextOnly,
                  ReleaseContextOnly, EndWorker, rowVars
  <2>2. \E s : dispStatus' = [dispStatus EXCEPT ![d] = s] \/ dispStatus' = dispStatus
    <3>1. CASE StartStep(d)
        BY <3>1 DEF StartStep, AttachTerminal, MarkReady, FailWorkerStart, MarkStartUnknown
    <3>2. CASE FedStep(d)
        BY <3>2 DEF FedStep, FedStartConfirmed, FedStartUncertain, FedStartEnded,
                    FedStopConfirmed, FedResume, EndWorker
    <3>3. CASE EndStep(d) /\ ~\E outcome \in {"succeeded", "failed"} : Report(d, outcome)
        BY <3>3 DEF EndStep, BeginStop, SettleWorkerStop, MarkStopUnknown, AbandonWorker,
                    AgentExits, FailDispatch, ReconcileMissingTerminal, FailContextOnly,
                    ReleaseContextOnly, EndWorker
    <3> QED BY <1>3, <3>1, <3>2, <3>3
  <2> QED BY <1>0, <2>1, <2>2, OneRowWritten
<1> QED BY <1>1, <1>2, <1>3 DEF DispatchStep, EndStep

LEMMA EveryStepForms ==
    ASSUME Consistent, [Next]_vars
    PROVE  InsertsOne \/ WritesOneTask
<1>1. ASSUME NEW g \in Gate, ResolveGate(g) PROVE WritesOneTask
    BY <1>1, NothingWritten DEF ResolveGate, SetTaskStatus, rowVars
<1>2. CASE ReblockGatedTasks \/ Restart \/ UNCHANGED vars
    BY <1>2, NothingWritten DEF ReblockGatedTasks, Restart, vars, dispatchVars, rowVars
<1> QED BY <1>1, <1>2, TaskStepForms, DispatchStepForms DEF Next

(* An inserted dispatch claims its task; a settled one releases it; the     *)
(* steps that settle nothing leave custody alone.                           *)
LEMMA InsertionClaims ==
    ASSUME Consistent, Consistent', HolderIs, HolderIs', InsertsOne
    PROVE  Custody!Next
<1>0. TypeOK /\ TypeOK' /\ last \in Nat
    BY BoundAssumption DEF Consistent, TypeOK
<1>1. PICK t \in Task, n \in Dispatch :
          /\ ~HasActive(t)
          /\ n = last + 1 /\ last' = n
          /\ dispTask' = [dispTask EXCEPT ![n] = t]
          /\ \E s \in ActiveStatus : dispStatus' = [dispStatus EXCEPT ![n] = s]
    BY DEF InsertsOne
<1>2. PICK s \in ActiveStatus : dispStatus' = [dispStatus EXCEPT ![n] = s]
    BY <1>1
<1>3. dispTask'[n] = t /\ Active(n)' /\ ~Active(n) /\ n > last
    BY <1>0, <1>1, <1>2 DEF TypeOK, Active, ActiveStatus
<1>4. \A d \in Dispatch : d # n => /\ dispTask'[d] = dispTask[d]
                                   /\ dispStatus'[d] = dispStatus[d]
                                   /\ Active(d)' <=> Active(d)
    BY <1>0, <1>1, <1>2 DEF TypeOK, Active
<1>5. Free \notin Dispatch
    BY BoundAssumption DEF Free, Dispatch
<1>6. Holder[t] = Free
  <2>1. SUFFICES ASSUME Holder[t] # Free PROVE FALSE
      OBVIOUS
  <2>2. Holder[t] \in Dispatch /\ Active(Holder[t]) /\ dispTask[Holder[t]] = t
      BY <2>1 DEF HolderIs
  <2> QED BY <1>1, <2>2 DEF HasActive, DispatchesOf
<1>7. \A u \in Task : Holder[u] # n
    BY <1>3, <1>5 DEF HolderIs
<1>8. n \notin Spent
    BY <1>0, <1>3 DEF Spent, TypeOK, SettledStatus
<1>9. Holder' = [Holder EXCEPT ![t] = n]
  <2>1. Holder'[t] = n
      BY <1>3 DEF HolderIs
  <2>2. ASSUME NEW u \in Task, u # t PROVE Holder'[u] = Holder[u]
    <3>1. CASE Holder'[u] # Free
      <4>1. Holder'[u] \in Dispatch /\ Active(Holder[u])' /\ dispTask'[Holder'[u]] = u
          BY <3>1 DEF HolderIs, Active
      <4>2. Holder'[u] # n
          BY <1>3, <2>2, <4>1
      <4> QED BY <1>4, <4>1, <4>2 DEF HolderIs, Active
    <3>2. CASE Holder'[u] = Free
      <4>1. SUFFICES ASSUME Holder[u] # Free PROVE FALSE
          BY <3>2
      <4>2. Holder[u] \in Dispatch /\ Active(Holder[u]) /\ dispTask[Holder[u]] = u
          BY <4>1 DEF HolderIs
      <4>3. Active(Holder[u]) /\ Holder[u] # n
          BY <1>3, <4>2
      <4>4. \A d \in Dispatch : Active(d) /\ d # n => Holder'[dispTask[d]] = d
          BY <1>4 DEF HolderIs
      <4> QED BY <3>2, <4>1, <4>2, <4>3, <4>4
    <3> QED BY <3>1, <3>2
  <2> QED BY <2>1, <2>2 DEF HolderIs
<1>10. Spent' = Spent
    BY <1>3, <1>4, <1>8 DEF Spent, Active, ActiveStatus, SettledStatus
<1> QED BY <1>6, <1>7, <1>8, <1>9, <1>10 DEF Custody!Next, Custody!Claim, Spent

LEMMA WritingReleases ==
    ASSUME Consistent, Consistent', HolderIs, HolderIs', [Next]_vars, WritesOneTask
    PROVE  [Custody!Next]_<<Holder, Spent>>
<1>0. TypeOK /\ TypeOK'
    BY DEF Consistent
<1>1. /\ dispTask' = dispTask
      /\ \E t \in Task \cup {NoTask} :
            \A d \in Dispatch : dispTask[d] # t => dispStatus'[d] = dispStatus[d]
    BY DEF WritesOneTask
<1>2. \A d \in Dispatch : ~Inserted(d)
    BY <1>0, <1>1, SentinelAssumption, BoundAssumption DEF Inserted, TypeOK, Dispatch
<1>3. \A d \in Dispatch :
          \/ (Active(d)' <=> Active(d)) /\ (dispStatus'[d] \in SettledStatus <=> dispStatus[d] \in SettledStatus)
          \/ Active(d) /\ dispStatus'[d] \in SettledStatus
    BY <1>2, EveryRowSteps
       DEF RowStep, Untouched, Continues, Ends, Corrected, Active, ActiveStatus, SettledStatus
<1>4. Free \notin Dispatch
    BY BoundAssumption DEF Free, Dispatch
<1>5. CASE \A d \in Dispatch : ~(Active(d) /\ dispStatus'[d] \in SettledStatus)
  <2>1. \A d \in Dispatch : /\ Active(d)' <=> Active(d)
                            /\ dispStatus'[d] \in SettledStatus <=> dispStatus[d] \in SettledStatus
      BY <1>3, <1>5 DEF Active
  <2>2. \A t \in Task : Holder'[t] = Holder[t]
    <3> SUFFICES ASSUME NEW t \in Task, Holder'[t] # Holder[t] PROVE FALSE
        OBVIOUS
    <3>1. CASE Holder[t] # Free
      <4>1. Holder[t] \in Dispatch /\ Active(Holder[t]) /\ dispTask[Holder[t]] = t
          BY <3>1 DEF HolderIs
      <4>2. \A d \in Dispatch : Active(d) => Holder'[dispTask[d]] = d
          BY <1>1, <2>1 DEF HolderIs, Active
      <4> QED BY <4>1, <4>2
    <3>2. CASE Holder'[t] # Free
      <4>1. Holder'[t] \in Dispatch /\ dispStatus'[Holder'[t]] \in ActiveStatus /\ dispTask[Holder'[t]] = t
          BY <1>1, <3>2 DEF HolderIs, Active
      <4>2. Active(Holder'[t])
          BY <2>1, <4>1 DEF Active
      <4> QED BY <4>1, <4>2 DEF HolderIs
    <3> QED BY <3>1, <3>2
  <2>3. Holder' = Holder
      BY <2>2 DEF HolderIs
  <2>4. Spent' = Spent
      BY <2>1 DEF Spent
  <2> QED BY <2>3, <2>4
<1>6. ASSUME NEW d \in Dispatch, Active(d), dispStatus'[d] \in SettledStatus
      PROVE  Custody!Next
  <2> DEFINE t == dispTask[d]
  <2>1. t \in Task /\ Holder[t] = d /\ ~Active(d)'
      BY <1>6, ActiveFacts DEF HolderIs, Active, ActiveStatus, SettledStatus
  <2>2. \A e \in Dispatch : dispTask[e] # t => dispStatus'[e] = dispStatus[e]
      BY <1>1, <1>6, <2>1 DEF Active, ActiveStatus, SettledStatus
  <2>3. \A e \in Dispatch : e # d /\ dispTask[e] = t => ~Active(e)
      BY <2>1 DEF HolderIs
  <2>4. \A e \in Dispatch : e # d =>
            /\ Active(e)' <=> Active(e)
            /\ dispStatus'[e] \in SettledStatus <=> dispStatus[e] \in SettledStatus
      BY <1>3, <2>2, <2>3 DEF Active
  <2>5. dispStatus[d] \notin SettledStatus
      BY <1>6 DEF Active, ActiveStatus, SettledStatus
  <2>6. Spent' = Spent \cup {d}
      BY <1>6, <2>4, <2>5 DEF Spent
  <2>7. Holder' = [Holder EXCEPT ![t] = Free]
    <3>1. Holder'[t] = Free
      <4>1. SUFFICES ASSUME Holder'[t] # Free PROVE FALSE
          OBVIOUS
      <4>2. Holder'[t] \in Dispatch /\ dispStatus'[Holder'[t]] \in ActiveStatus /\ dispTask[Holder'[t]] = t
          BY <1>1, <2>1, <4>1 DEF HolderIs, Active
      <4>3. Holder'[t] # d
          BY <2>1, <4>2 DEF Active
      <4> QED BY <2>3, <2>4, <4>2, <4>3 DEF Active
    <3>2. ASSUME NEW u \in Task, u # t, Holder'[u] # Holder[u] PROVE FALSE
      <4>1. CASE Holder[u] # Free
        <5>1. Holder[u] \in Dispatch /\ Active(Holder[u]) /\ dispTask[Holder[u]] = u
            BY <3>2, <4>1 DEF HolderIs
        <5>2. \A e \in Dispatch : Active(e) /\ e # d => Holder'[dispTask[e]] = e
            BY <1>1, <2>4 DEF HolderIs
        <5>3. Holder[u] # d
            BY <3>2, <5>1
        <5> QED BY <3>2, <5>1, <5>2, <5>3
      <4>2. CASE Holder'[u] # Free
        <5>1. Holder'[u] \in Dispatch /\ dispStatus'[Holder'[u]] \in ActiveStatus /\ dispTask[Holder'[u]] = u
            BY <1>1, <3>2, <4>2 DEF HolderIs, Active
        <5>2. Holder'[u] # d
            BY <3>2, <5>1
        <5>3. Active(Holder'[u])
            BY <2>4, <5>1, <5>2 DEF Active
        <5> QED BY <3>2, <5>1, <5>3 DEF HolderIs
      <4> QED BY <3>2, <4>1, <4>2
    <3> QED BY <2>1, <3>1, <3>2 DEF HolderIs
  <2>8. Custody!Release(t)
      BY <1>4, <2>1, <2>6, <2>7 DEF Custody!Release, Spent
  <2> HIDE DEF t
  <2> QED BY <2>1, <2>8 DEF Custody!Next, Custody!Release
<1> QED BY <1>5, <1>6

LEMMA InitIsFree == Init => Custody!Init
<1> SUFFICES ASSUME Init PROVE Custody!Init
    OBVIOUS
<1>1. \A t \in Task : ~HasActive(t)
    BY DEF Init, HasActive, Active, ActiveStatus, DispatchesOf
<1>2. Holder = [t \in Task |-> Free]
    BY <1>1 DEF Holder
<1>3. Spent = {}
    BY DEF Init, Spent, SettledStatus
<1> QED BY <1>2, <1>3 DEF Custody!Init, Spent

(* Dispatching implements custody: one dispatch at a time holds a task, a   *)
(* dispatch claims at most once, and one that let go never holds again,     *)
(* through retries, stalled prompts, gates, stops and restarts.             *)
THEOREM DispatchingIsCustody == Spec => ImplementsCustody
<1>1. Consistent' => HolderIs'
    BY HoldersHold, PTL
<1>2. Consistent /\ Consistent' /\ [Next]_vars => [Custody!Next]_<<Holder, Spent>>
    BY <1>1, HoldersHold, EveryStepForms, InsertionClaims, WritingReleases
<1>3. Consistent /\ Consistent' /\ [Next]_vars =>
          [Custody!Next]_<<Holder, {d \in Dispatch : dispStatus[d] \in SettledStatus}>>
    BY <1>2 DEF Spent
<1> QED BY <1>3, InitIsFree, AlwaysConsistent, PTL DEF Spec, ImplementsCustody, Custody!Spec
=============================================================================
