---------------------- MODULE DispatchLifecycleProofs ----------------------
(***************************************************************************)
(* Proofs about DispatchLifecycle, for every value of its constants.       *)
(*                                                                         *)
(* The inductive invariant Consistent relates the task, dispatch and       *)
(* worker rows.  What an action does to these rows takes one of four forms *)
(* (a dispatch is settled, stays active, is inserted, or all dispatches of *)
(* a task are settled), and one lemma for each form carries the argument;  *)
(* the step of an action says which form it has and why.                   *)
(***************************************************************************)
EXTENDS DispatchLifecycle, TLAPS

(* A start that has not been concluded keeps its dispatch pending. *)
StartingIsPending == \A d \in Dispatch : worker[d] = "starting" => dispStatus[d] = "pending"

RowsAgree ==
    /\ WorkerFollowsDispatch
    /\ TaskFollowsDispatch
    /\ ActiveIsLatest
    /\ StartingIsPending

Consistent == TypeOK /\ RowsAgree

(* States in which the task of an active dispatch is blocked. *)
Uncertain == {"start_unknown", "stopping", "stop_unknown"}

-----------------------------------------------------------------------------
(* Facts about one state. *)

(* An active dispatch was inserted, is alone on its task, and the task is   *)
(* dispatched or blocked.                                                   *)
LEMMA ActiveFacts ==
    ASSUME Consistent, NEW d \in Dispatch, Active(d)
    PROVE  /\ dispTask[d] \in Task
           /\ d <= last
           /\ ~OthersActive(d)
           /\ taskStatus[dispTask[d]] =
                 IF worker[d] \in Uncertain THEN "blocked" ELSE "dispatched"
           /\ Interrupted(d) = "blocked"
<1>1. dispStatus[d] # "none"
    BY DEF Active, ActiveStatus
<1>2. dispTask[d] \in Task /\ d <= last
    BY <1>1, BoundAssumption DEF Consistent, TypeOK, Dispatch
<1>3. ~OthersActive(d)
  <2> SUFFICES ASSUME NEW e \in Dispatch, dispTask[e] = dispTask[d], Active(e), e # d
               PROVE  FALSE
      BY DEF OthersActive, DispatchesOf
  <2>1. IsLatest(d) /\ IsLatest(e)
      BY DEF Consistent, RowsAgree, ActiveIsLatest
  <2>2. d <= e /\ e <= d
      BY <2>1 DEF IsLatest, DispatchesOf
  <2> QED BY <2>2, BoundAssumption DEF Dispatch
<1>4. taskStatus[dispTask[d]] =
         IF worker[d] \in Uncertain THEN "blocked" ELSE "dispatched"
    BY DEF Consistent, RowsAgree, TaskFollowsDispatch, Uncertain
<1> QED BY <1>2, <1>3, <1>4 DEF Interrupted

(* A worker whose fate is open belongs to an active dispatch. *)
LEMMA UnsettledIsActive ==
    ASSUME Consistent, NEW d \in Dispatch, Unsettled(d)
    PROVE  Active(d)
BY DEF Consistent, RowsAgree, WorkerFollowsDispatch, Unsettled, UnsettledWorker

(* A task that is neither dispatched nor blocked has nobody at work. *)
LEMMA FreeTask ==
    ASSUME Consistent, NEW t \in Task, taskStatus[t] \notin {"dispatched", "blocked"}
    PROVE  ~HasActive(t)
BY DEF Consistent, RowsAgree, TaskFollowsDispatch, HasActive, DispatchesOf

(* Nor has a task whose latest dispatch is settled enough to be retried. *)
LEMMA RetryableIsFree ==
    ASSUME Consistent, NEW d \in Dispatch, Retryable(d)
    PROVE  dispTask[d] \in Task /\ ~HasActive(dispTask[d])
<1>1. dispTask[d] \in Task
    BY DEF Consistent, TypeOK, Retryable
<1>2. ~Active(d)
    BY DEF Consistent, RowsAgree, WorkerFollowsDispatch, Retryable, Active, ActiveStatus,
           Unsettled, UnsettledWorker
<1>3. ASSUME NEW e \in Dispatch, dispTask[e] = dispTask[d], Active(e)
      PROVE  FALSE
  <2>1. e <= d /\ d <= e
      BY <1>3 DEF Consistent, RowsAgree, ActiveIsLatest, IsLatest, Retryable, DispatchesOf
  <2> QED BY <2>1, <1>2, <1>3, BoundAssumption DEF Dispatch
<1> QED BY <1>1, <1>3 DEF HasActive, DispatchesOf

-----------------------------------------------------------------------------
(* The four forms of a step. *)

(* One active dispatch is settled and its task is let go or kept blocked. *)
LEMMA SettlingKeepsRows ==
    ASSUME Consistent, NEW d \in Dispatch, Active(d),
           NEW s \in SettledStatus, NEW w \in SettledWorker \cup {"none"},
           NEW ts \in {"ready", "failed", "blocked"},
           dispStatus' = [dispStatus EXCEPT ![d] = s],
           worker' = [worker EXCEPT ![d] = w],
           taskStatus' = WithTask(dispTask[d], ts),
           dispTask' = dispTask
    PROVE  RowsAgree'
<1> DEFINE t == dispTask[d]
<1>0. /\ taskStatus \in [Task -> TaskStatus \cup {"absent"}]
      /\ dispStatus \in [Dispatch -> ActiveStatus \cup SettledStatus \cup {"none"}]
      /\ worker \in [Dispatch -> UnsettledWorker \cup SettledWorker \cup {"none"}]
    BY DEF Consistent, TypeOK
<1>1. t \in Task /\ ~OthersActive(d)
    BY ActiveFacts
<1>2. \A e \in Dispatch : Active(e)' => e # d /\ Active(e) /\ dispTask[e] # t
    BY <1>0, <1>1 DEF Active, ActiveStatus, SettledStatus, OthersActive, DispatchesOf
<1>3. \A e \in Dispatch : e # d => (Active(e)' <=> Active(e)) /\ worker'[e] = worker[e]
    BY <1>0 DEF Active
<1>4. WorkerFollowsDispatch'
    BY <1>0, <1>2, <1>3 DEF Consistent, RowsAgree, WorkerFollowsDispatch, Unsettled,
                            SettledWorker, UnsettledWorker
<1>5. TaskFollowsDispatch'
  <2>1. \A u \in Task : u # t => taskStatus'[u] = taskStatus[u]
      BY <1>0 DEF WithTask
  <2>2. taskStatus'[t] \in {"ready", "failed", "blocked"}
      BY <1>0, <1>1 DEF WithTask
  <2>3. ASSUME NEW e \in Dispatch, Active(e)'
        PROVE  (taskStatus[dispTask[e]] =
                  IF worker[e] \in {"start_unknown", "stopping", "stop_unknown"}
                  THEN "blocked" ELSE "dispatched")'
    <3>1. e # d /\ Active(e) /\ dispTask[e] # t /\ dispTask[e] \in Task
        BY <1>2, <2>3, ActiveFacts
    <3> QED BY <3>1, <1>3, <2>1 DEF Consistent, RowsAgree, TaskFollowsDispatch
  <2>4. ASSUME NEW u \in Task, taskStatus'[u] = "dispatched"
        PROVE  HasActive(u)'
    <3>1. u # t /\ HasActive(u)
        BY <2>1, <2>2, <2>4 DEF Consistent, RowsAgree, TaskFollowsDispatch
    <3> QED BY <3>1, <1>3 DEF HasActive, DispatchesOf
  <2> QED BY <2>3, <2>4 DEF TaskFollowsDispatch
<1>6. ActiveIsLatest'
    BY <1>2 DEF Consistent, RowsAgree, ActiveIsLatest, IsLatest, DispatchesOf
<1>7. StartingIsPending'
    BY <1>0 DEF Consistent, RowsAgree, StartingIsPending, SettledWorker
<1> QED BY <1>4, <1>5, <1>6, <1>7 DEF RowsAgree

(* An active dispatch stays active; its worker and its task move together. *)
LEMMA MovingKeepsRows ==
    ASSUME Consistent, NEW d \in Dispatch, Active(d),
           NEW s \in ActiveStatus, NEW w \in UnsettledWorker \ {"starting"},
           dispStatus' = [dispStatus EXCEPT ![d] = s],
           worker' = [worker EXCEPT ![d] = w],
           taskStatus' = WithTask(dispTask[d], IF w \in Uncertain THEN "blocked" ELSE "dispatched"),
           dispTask' = dispTask
    PROVE  RowsAgree'
<1> DEFINE t == dispTask[d]
<1>0. /\ taskStatus \in [Task -> TaskStatus \cup {"absent"}]
      /\ dispStatus \in [Dispatch -> ActiveStatus \cup SettledStatus \cup {"none"}]
      /\ worker \in [Dispatch -> UnsettledWorker \cup SettledWorker \cup {"none"}]
    BY DEF Consistent, TypeOK
<1>1. t \in Task /\ ~OthersActive(d)
    BY ActiveFacts
<1>2. \A e \in Dispatch : Active(e)' <=> Active(e)
    BY <1>0 DEF Active
<1>3. \A e \in Dispatch : e # d => worker'[e] = worker[e] /\ (Active(e) => dispTask[e] # t)
    BY <1>0, <1>1 DEF OthersActive, DispatchesOf
<1>4. WorkerFollowsDispatch'
    BY <1>0, <1>2, <1>3 DEF Consistent, RowsAgree, WorkerFollowsDispatch, Unsettled
<1>5. TaskFollowsDispatch'
  <2>1. \A u \in Task : u # t => taskStatus'[u] = taskStatus[u]
      BY <1>0 DEF WithTask
  <2>2. taskStatus'[t] = IF worker'[d] \in Uncertain THEN "blocked" ELSE "dispatched"
      BY <1>0, <1>1 DEF WithTask
  <2>3. ASSUME NEW e \in Dispatch, Active(e)'
        PROVE  (taskStatus[dispTask[e]] =
                  IF worker[e] \in {"start_unknown", "stopping", "stop_unknown"}
                  THEN "blocked" ELSE "dispatched")'
    <3>1. CASE e = d
        BY <3>1, <2>2 DEF Uncertain
    <3>2. CASE e # d
      <4>1. Active(e) /\ dispTask[e] # t /\ dispTask[e] \in Task
          BY <1>2, <1>3, <2>3, <3>2, ActiveFacts
      <4> QED BY <4>1, <3>2, <1>3, <2>1 DEF Consistent, RowsAgree, TaskFollowsDispatch
    <3> QED BY <3>1, <3>2
  <2>4. ASSUME NEW u \in Task, taskStatus'[u] = "dispatched"
        PROVE  HasActive(u)'
    <3>1. HasActive(u)
        BY <2>1, <2>4 DEF Consistent, RowsAgree, TaskFollowsDispatch, HasActive, DispatchesOf
    <3> QED BY <3>1, <1>2 DEF HasActive, DispatchesOf
  <2> QED BY <2>3, <2>4 DEF TaskFollowsDispatch
<1>6. ActiveIsLatest'
    BY <1>2 DEF Consistent, RowsAgree, ActiveIsLatest, IsLatest, DispatchesOf
<1>7. StartingIsPending'
    BY <1>0 DEF Consistent, RowsAgree, StartingIsPending
<1> QED BY <1>4, <1>5, <1>6, <1>7 DEF RowsAgree

(* Nobody is left at work on t; tasks that wait for it may become ready. *)
LEMMA ClearingKeepsRows ==
    ASSUME Consistent, NEW t \in Task,
           \A e \in Dispatch : dispTask[e] = t => ~Active(e)' /\ ~Unsettled(e)',
           \A e \in Dispatch : dispTask[e] # t =>
               dispStatus'[e] = dispStatus[e] /\ worker'[e] = worker[e],
           taskStatus'[t] # "dispatched",
           \A u \in Task : u # t => \/ taskStatus'[u] = taskStatus[u]
                                    \/ taskStatus[u] = "pending" /\ taskStatus'[u] = "ready",
           dispTask' = dispTask
    PROVE  RowsAgree'
<1>1. \A e \in Dispatch : Active(e)' => dispTask[e] # t /\ Active(e)
    BY DEF Active
<1>2. WorkerFollowsDispatch'
    BY DEF Consistent, RowsAgree, WorkerFollowsDispatch, Active, Unsettled
<1>3. TaskFollowsDispatch'
  <2>1. ASSUME NEW e \in Dispatch, Active(e)'
        PROVE  (taskStatus[dispTask[e]] =
                  IF worker[e] \in {"start_unknown", "stopping", "stop_unknown"}
                  THEN "blocked" ELSE "dispatched")'
    <3>1. dispTask[e] \in Task \ {t} /\ Active(e)
        BY <1>1, <2>1, ActiveFacts
    <3>2. taskStatus[dispTask[e]] # "pending"
        BY <3>1, ActiveFacts
    <3> QED BY <3>1, <3>2 DEF Consistent, RowsAgree, TaskFollowsDispatch
  <2>2. ASSUME NEW u \in Task, taskStatus'[u] = "dispatched"
        PROVE  HasActive(u)'
    <3>1. u # t /\ HasActive(u)
        BY <2>2 DEF Consistent, RowsAgree, TaskFollowsDispatch
    <3> QED BY <3>1 DEF HasActive, DispatchesOf, Active
  <2> QED BY <2>1, <2>2 DEF TaskFollowsDispatch
<1>4. ActiveIsLatest'
    BY <1>1 DEF Consistent, RowsAgree, ActiveIsLatest, IsLatest, DispatchesOf
<1>5. StartingIsPending'
    BY DEF Consistent, RowsAgree, StartingIsPending, Unsettled, UnsettledWorker
<1> QED BY <1>2, <1>3, <1>4, <1>5 DEF RowsAgree

(* Only tasks that nobody works on change their status. *)
LEMMA RelabellingKeepsRows ==
    ASSUME Consistent,
           \A u \in Task : \/ taskStatus'[u] = taskStatus[u]
                           \/ ~HasActive(u) /\ taskStatus'[u] # "dispatched",
           dispTask' = dispTask, dispStatus' = dispStatus, worker' = worker
    PROVE  RowsAgree'
<1>1. TaskFollowsDispatch'
  <2>1. ASSUME NEW e \in Dispatch, Active(e)'
        PROVE  (taskStatus[dispTask[e]] =
                  IF worker[e] \in {"start_unknown", "stopping", "stop_unknown"}
                  THEN "blocked" ELSE "dispatched")'
    <3>1. Active(e) /\ dispTask[e] \in Task
        BY <2>1, ActiveFacts DEF Active
    <3>2. HasActive(dispTask[e])
        BY <3>1 DEF HasActive, DispatchesOf
    <3> QED BY <3>1, <3>2 DEF Consistent, RowsAgree, TaskFollowsDispatch
  <2>2. ASSUME NEW u \in Task, taskStatus'[u] = "dispatched"
        PROVE  HasActive(u)'
    BY <2>2 DEF Consistent, RowsAgree, TaskFollowsDispatch, HasActive, DispatchesOf, Active
  <2> QED BY <2>1, <2>2 DEF TaskFollowsDispatch
<1>2. WorkerFollowsDispatch' /\ ActiveIsLatest' /\ StartingIsPending'
    BY DEF Consistent, RowsAgree, WorkerFollowsDispatch, ActiveIsLatest, StartingIsPending,
           Active, Unsettled, IsLatest, DispatchesOf
<1> QED BY <1>1, <1>2 DEF RowsAgree

(* A row is inserted for a task that nobody works on. *)
LEMMA InsertingKeepsConsistent ==
    ASSUME Consistent, NEW t \in Task, ~HasActive(t),
           NEW status, NEW w,
           \/ status = "pending" /\ w = "starting"
           \/ status = "dispatched" /\ w = "none",
           NEW term \in Terminal \cup {NoTerminal}, NEW fed \in BOOLEAN, NEW failures \in Nat,
           InsertDispatch(t, status, term, w, fed, failures)
    PROVE  Consistent'
<1>0. TypeOK
    BY DEF Consistent
<1>1. PICK n \in Dispatch : n = last + 1 /\ last' = n
    BY DEF InsertDispatch
<1>2. TypeOK'
    BY <1>0, <1>1, SentinelAssumption, BoundAssumption
       DEF TypeOK, InsertDispatch, ActiveStatus, UnsettledWorker, TaskStatus, Dispatch, WithTask, gateVars
<1>3. \A e \in Dispatch : e # n => /\ dispTask'[e] = dispTask[e]
                                   /\ dispStatus'[e] = dispStatus[e]
                                   /\ worker'[e] = worker[e]
    BY <1>0, <1>1 DEF TypeOK, InsertDispatch
<1>4. /\ dispTask'[n] = t /\ dispStatus'[n] = status /\ worker'[n] = w
      /\ taskStatus'[t] = "dispatched"
      /\ \A u \in Task : u # t => taskStatus'[u] = taskStatus[u]
    BY <1>0, <1>1 DEF TypeOK, InsertDispatch, WithTask
<1>5. Active(n)'
    BY <1>1, <1>4 DEF Active, ActiveStatus
<1>6. \A e \in Dispatch : e # n => (Active(e)' <=> Active(e)) /\ (Unsettled(e)' <=> Unsettled(e))
    BY <1>3 DEF Active, Unsettled
<1>7. \A e \in Dispatch : e # n /\ Active(e) => dispTask[e] # t /\ dispTask[e] \in Task
    BY ActiveFacts DEF HasActive, DispatchesOf
<1>8. WorkerFollowsDispatch'
    BY <1>3, <1>4, <1>5, <1>6 DEF Consistent, RowsAgree, WorkerFollowsDispatch, Unsettled, UnsettledWorker
<1>9. TaskFollowsDispatch'
  <2>1. ASSUME NEW e \in Dispatch, Active(e)'
        PROVE  (taskStatus[dispTask[e]] =
                  IF worker[e] \in {"start_unknown", "stopping", "stop_unknown"}
                  THEN "blocked" ELSE "dispatched")'
    <3>1. CASE e = n
        BY <3>1, <1>4
    <3>2. CASE e # n
        BY <3>2, <2>1, <1>3, <1>4, <1>6, <1>7 DEF Consistent, RowsAgree, TaskFollowsDispatch
    <3> QED BY <3>1, <3>2
  <2>2. ASSUME NEW u \in Task, taskStatus'[u] = "dispatched"
        PROVE  HasActive(u)'
    <3>1. CASE u = t
        BY <3>1, <1>1, <1>4, <1>5 DEF HasActive, DispatchesOf
    <3>2. CASE u # t
      <4>1. PICK e \in Dispatch : dispTask[e] = u /\ Active(e)
          BY <3>2, <2>2, <1>4 DEF Consistent, RowsAgree, TaskFollowsDispatch, HasActive, DispatchesOf
      <4>2. e # n
          BY <4>1, <1>0, <1>1, SentinelAssumption, BoundAssumption DEF TypeOK, Dispatch
      <4> QED BY <4>1, <4>2, <1>3, <1>6 DEF HasActive, DispatchesOf
    <3> QED BY <3>1, <3>2
  <2> QED BY <2>1, <2>2 DEF TaskFollowsDispatch
<1>10. ActiveIsLatest'
  <2> SUFFICES ASSUME NEW e \in Dispatch, Active(e)', NEW f \in Dispatch,
                      dispTask'[f] = dispTask'[e]
               PROVE  f <= e
      BY DEF ActiveIsLatest, IsLatest, DispatchesOf
  <2>1. \A g \in Dispatch : g # n /\ dispTask[g] \in Task => g <= n
      BY <1>0, <1>1, SentinelAssumption, BoundAssumption DEF TypeOK, Dispatch
  <2>2. CASE e = n
      BY <2>1, <2>2, <1>3, <1>4, BoundAssumption DEF Dispatch
  <2>3. CASE e # n
    <3>1. f # n /\ Active(e)
        BY <2>3, <1>3, <1>4, <1>6, <1>7
    <3> QED BY <2>3, <3>1, <1>3 DEF Consistent, RowsAgree, ActiveIsLatest, IsLatest, DispatchesOf
  <2> QED BY <2>2, <2>3
<1>11. StartingIsPending'
    BY <1>3, <1>4 DEF Consistent, RowsAgree, StartingIsPending
<1> QED BY <1>2, <1>8, <1>9, <1>10, <1>11 DEF Consistent, RowsAgree

-----------------------------------------------------------------------------
(* Task statuses. *)

(* What Completing makes of the other tasks. *)
LEMMA CompletingFacts ==
    ASSUME TypeOK, NEW t \in Task, NEW s \in TaskStatus
    PROVE  /\ Completing(t, s) \in [Task -> TaskStatus \cup {"absent"}]
           /\ Completing(t, s)[t] = s
           /\ \A u \in Task : u # t =>
                 \/ Completing(t, s)[u] = taskStatus[u]
                 \/ taskStatus[u] = "pending" /\ Completing(t, s)[u] = "ready"
<1>1. CASE s = "completed"
  <2>1. /\ WithTask(t, s) \in [Task -> TaskStatus \cup {"absent"}]
        /\ WithTask(t, s)[t] = s
        /\ \A u \in Task : u # t => WithTask(t, s)[u] = taskStatus[u]
      BY DEF WithTask, TypeOK
  <2>2. Completing(t, s) = Promoted(WithTask(t, s), t)
      BY <1>1 DEF Completing
  <2> QED BY <2>1, <2>2, <1>1 DEF Promoted, TaskStatus
<1>2. CASE s # "completed"
    BY <1>2 DEF Completing, WithTask, TypeOK
<1> QED BY <1>1, <1>2

(* Settling the dispatches of t leaves none of them active or unsettled. *)
LEMMA SettledFacts ==
    ASSUME Consistent, NEW t \in Task, NEW s \in SettledStatus,
           dispStatus' = SettledDispatches(dispStatus, t, s),
           worker' = SettledWorkers(dispStatus, worker, t)
    PROVE  /\ \A e \in Dispatch : dispTask[e] = t => ~Active(e)' /\ ~Unsettled(e)'
           /\ \A e \in Dispatch : dispTask[e] # t =>
                  dispStatus'[e] = dispStatus[e] /\ worker'[e] = worker[e]
<1>1. ASSUME NEW e \in Dispatch, dispTask[e] = t
      PROVE  ~Active(e)' /\ ~Unsettled(e)'
  <2>1. ~Active(e)'
      BY <1>1 DEF SettledDispatches, Active, ActiveStatus, SettledStatus
  <2>2. Unsettled(e) => worker'[e] = "abandoned"
      BY <1>1, UnsettledIsActive DEF SettledWorkers, Active, Unsettled
  <2>3. ~Unsettled(e) => worker'[e] = worker[e]
      BY <1>1 DEF SettledWorkers, Unsettled
  <2> QED BY <2>1, <2>2, <2>3 DEF Unsettled, UnsettledWorker
<1>2. ASSUME NEW e \in Dispatch, dispTask[e] # t
      PROVE  dispStatus'[e] = dispStatus[e] /\ worker'[e] = worker[e]
    BY <1>2 DEF SettledDispatches, SettledWorkers
<1> QED BY <1>1, <1>2

(* The rows keep their types and the inserted ones stay inserted. *)
LEMMA SettledTypes ==
    ASSUME TypeOK, NEW t \in Task, NEW s \in SettledStatus
    PROVE  /\ SettledDispatches(dispStatus, t, s)
                 \in [Dispatch -> ActiveStatus \cup SettledStatus \cup {"none"}]
           /\ SettledWorkers(dispStatus, worker, t)
                 \in [Dispatch -> UnsettledWorker \cup SettledWorker \cup {"none"}]
           /\ \A e \in Dispatch :
                 SettledDispatches(dispStatus, t, s)[e] = "none" <=> dispStatus[e] = "none"
BY DEF SettledDispatches, SettledWorkers, TypeOK, ActiveStatus, SettledStatus, SettledWorker

LEMMA SetTaskStatusKeepsConsistent ==
    ASSUME Consistent, NEW t \in Task, NEW s \in TaskStatus, SetTaskStatus(t, s),
           lastGate' = lastGate, gateTask' = gateTask,
           gateStatus' \in [Gate -> {"none", "pending", "resolved"}],
           \A g \in Gate : (gateStatus'[g] = "none") <=> (gateStatus[g] = "none")
    PROVE  Consistent'
<1>0. TypeOK
    BY DEF Consistent
<1>1. CASE s \in {"completed", "failed"}
  <2>1. /\ s \in SettledStatus
        /\ dispStatus' = SettledDispatches(dispStatus, t, s)
        /\ worker' = SettledWorkers(dispStatus, worker, t)
        /\ taskStatus' = Completing(t, s)
      BY <1>1 DEF SetTaskStatus, SettledStatus
  <2>2. TypeOK'
      BY <2>1, <1>0, CompletingFacts, SettledTypes DEF SetTaskStatus, rowVars, TypeOK
  <2>3. RowsAgree'
    <3>1. taskStatus'[t] # "dispatched"
        BY <2>1, <1>0, <1>1, CompletingFacts
    <3>2. \A u \in Task : u # t => \/ taskStatus'[u] = taskStatus[u]
                                   \/ taskStatus[u] = "pending" /\ taskStatus'[u] = "ready"
        BY <2>1, <1>0, CompletingFacts
    <3>3. dispTask' = dispTask
        BY DEF SetTaskStatus, rowVars
    <3> QED BY <2>1, <3>1, <3>2, <3>3, SettledFacts, ClearingKeepsRows
  <2> QED BY <2>2, <2>3 DEF Consistent
<1>2. CASE s \notin {"completed", "failed"}
  <2>1. dispStatus' = dispStatus /\ worker' = worker /\ dispTask' = dispTask
      BY <1>2 DEF SetTaskStatus, rowVars
  <2>2. /\ taskStatus' \in [Task -> TaskStatus \cup {"absent"}]
        /\ taskStatus'[t] = s
        /\ \A u \in Task : u # t => taskStatus'[u] = taskStatus[u]
      BY <1>0, <1>2 DEF SetTaskStatus, Completing, WithTask, TypeOK
  <2>3. TypeOK'
      BY <2>1, <2>2, <1>0 DEF SetTaskStatus, rowVars, TypeOK
  <2>4. CASE s = "dispatched"
    <3>1. PICK d \in Dispatch : dispTask[d] = t /\ Active(d)
        BY <2>4 DEF SetTaskStatus, HasActive, DispatchesOf
    <3>2. taskStatus[t] # "dispatched" => ~Unsettled(d)
        BY <2>4, <3>1 DEF SetTaskStatus, Supervised, DispatchesOf
    <3>3. taskStatus[t] = "dispatched"
        BY <3>1, <3>2, ActiveFacts DEF Uncertain, Unsettled, UnsettledWorker
    <3>4. \A u \in Task : taskStatus'[u] = taskStatus[u]
        BY <2>2, <2>4, <3>3
    <3> QED BY <2>1, <2>3, <3>4, RelabellingKeepsRows DEF Consistent
  <2>5. CASE s # "dispatched"
    <3>1. ~HasActive(t)
        BY <1>2, <2>5 DEF SetTaskStatus
    <3>2. \A u \in Task : \/ taskStatus'[u] = taskStatus[u]
                          \/ ~HasActive(u) /\ taskStatus'[u] # "dispatched"
        BY <2>2, <2>5, <3>1 DEF HasActive, DispatchesOf
    <3> QED BY <2>1, <2>3, <3>2, RelabellingKeepsRows DEF Consistent
  <2> QED BY <2>4, <2>5
<1> QED BY <1>1, <1>2

LEMMA TaskStepKeepsConsistent ==
    ASSUME Consistent, NEW t \in Task, TaskStep(t)
    PROVE  Consistent'
<1>0. TypeOK
    BY DEF Consistent
<1>1. CASE CreateTask(t)
  <2>1. TypeOK'
      BY <1>0, <1>1 DEF CreateTask, WithTask, TypeOK, TaskStatus, dispatchVars, rowVars, gateVars
  <2>2. ~HasActive(t)
      BY <1>1, FreeTask DEF CreateTask
  <2>3. \A u \in Task : \/ taskStatus'[u] = taskStatus[u]
                        \/ ~HasActive(u) /\ taskStatus'[u] # "dispatched"
    <3>1. taskStatus'[t] # "dispatched"
        BY <1>0, <1>1 DEF CreateTask, WithTask, TypeOK
    <3>2. \A u \in Task : u # t => taskStatus'[u] = taskStatus[u]
        BY <1>0, <1>1 DEF CreateTask, WithTask, TypeOK
    <3> QED BY <2>2, <3>1, <3>2 DEF HasActive, DispatchesOf
  <2>4. dispTask' = dispTask /\ dispStatus' = dispStatus /\ worker' = worker
      BY <1>1 DEF CreateTask, dispatchVars, rowVars
  <2> QED BY <2>1, <2>3, <2>4, RelabellingKeepsRows DEF Consistent
<1>2. ASSUME NEW s \in TaskStatus, UpdateTaskStatus(t, s)
      PROVE  Consistent'
    BY <1>0, <1>2, SetTaskStatusKeepsConsistent DEF UpdateTaskStatus, gateVars, TypeOK
<1>3. ASSUME NEW term \in Terminal, CreateDispatchContext(t, term)
      PROVE  Consistent'
  <2>1. ~HasActive(t)
      BY <1>3, FreeTask DEF CreateDispatchContext
  <2>2. PICK n \in PriorFailures(t) : InsertDispatch(t, "dispatched", term, "none", FALSE, n)
      BY <1>3 DEF CreateDispatchContext
  <2>3. n \in Nat
      BY <1>0 DEF PriorFailures, DispatchesOf, TypeOK
  <2> QED BY <2>1, <2>2, <2>3, InsertingKeepsConsistent
<1>4. ASSUME NEW fed \in BOOLEAN, StartWorker(t, fed) \/ StartInlineTask(t, fed)
      PROVE  Consistent'
  <2>1. ~HasActive(t)
      BY <1>4, FreeTask DEF StartWorker, StartInlineTask
  <2>2. InsertDispatch(t, "pending", NoTerminal, "starting", fed, 0)
      BY <1>4 DEF StartWorker, StartInlineTask
  <2> QED BY <2>1, <2>2, InsertingKeepsConsistent
<1>5. CASE CreateGate(t)
  <2>1. "completed" \in SettledStatus
      BY DEF SettledStatus
  <2>2. /\ dispStatus' = SettledDispatches(dispStatus, t, "completed")
        /\ worker' = SettledWorkers(dispStatus, worker, t)
        /\ taskStatus' = WithTask(t, "blocked")
        /\ dispTask' = dispTask
      BY <1>5 DEF CreateGate, rowVars
  <2>3. TypeOK'
    <3>1. /\ lastGate' \in 0..MaxGates
          /\ gateTask' \in [Gate -> Task \cup {NoTask}]
          /\ gateStatus' \in [Gate -> {"none", "pending", "resolved"}]
          /\ \A g \in Gate : /\ (g > lastGate') <=> (gateTask'[g] = NoTask)
                             /\ (g > lastGate') <=> (gateStatus'[g] = "none")
        BY <1>0, <1>5, SentinelAssumption, BoundAssumption DEF CreateGate, TypeOK, Gate
    <3>2. taskStatus' \in [Task -> TaskStatus \cup {"absent"}]
        BY <1>0, <2>2 DEF WithTask, TypeOK, TaskStatus
    <3> QED BY <1>0, <1>5, <2>1, <2>2, <3>1, <3>2, SettledTypes DEF CreateGate, rowVars, TypeOK
  <2>4. /\ taskStatus'[t] # "dispatched"
        /\ \A u \in Task : u # t => taskStatus'[u] = taskStatus[u]
      BY <1>0, <2>2 DEF WithTask, TypeOK
  <2>5. RowsAgree'
      BY <2>1, <2>2, <2>4, SettledFacts, ClearingKeepsRows
  <2> QED BY <2>3, <2>5 DEF Consistent
<1> QED BY <1>1, <1>2, <1>3, <1>4, <1>5 DEF TaskStep

-----------------------------------------------------------------------------
(* Steps of one dispatch. *)

(* The types survive when the rows of one inserted dispatch, its failure    *)
(* count, its stall mark and the status of its task change within theirs.   *)
LEMMA RowTypes ==
    ASSUME TypeOK, NEW d \in Dispatch, dispStatus[d] # "none",
           \E s \in ActiveStatus \cup SettledStatus : dispStatus' = [dispStatus EXCEPT ![d] = s],
           \E w \in UnsettledWorker \cup SettledWorker \cup {"none"} :
               worker' = [worker EXCEPT ![d] = w],
           taskStatus' \in [Task -> TaskStatus \cup {"absent"}],
           failCount' \in [Dispatch -> Nat],
           promptStalled' \in [Dispatch -> BOOLEAN],
           ownEpoch' \in [Dispatch -> BOOLEAN],
           UNCHANGED <<rowVars, assignee, gateVars>>
    PROVE  TypeOK'
<1>1. PICK s \in ActiveStatus \cup SettledStatus : dispStatus' = [dispStatus EXCEPT ![d] = s]
    OBVIOUS
<1>2. PICK w \in UnsettledWorker \cup SettledWorker \cup {"none"} :
          worker' = [worker EXCEPT ![d] = w]
    OBVIOUS
<1> QED BY <1>1, <1>2 DEF TypeOK, rowVars, gateVars, ActiveStatus, SettledStatus

(* A step that settles an active dispatch. *)
LEMMA SettlingKeepsConsistent ==
    ASSUME Consistent, NEW d \in Dispatch, Active(d),
           NEW s \in SettledStatus, NEW w \in SettledWorker \cup {"none"},
           NEW ts \in {"ready", "failed", "blocked"},
           dispStatus' = [dispStatus EXCEPT ![d] = s],
           worker' = [worker EXCEPT ![d] = w],
           taskStatus' = WithTask(dispTask[d], ts),
           failCount' \in [Dispatch -> Nat],
           promptStalled' \in [Dispatch -> BOOLEAN],
           UNCHANGED <<rowVars, assignee, ownEpoch, gateVars>>
    PROVE  Consistent'
<1>1. TypeOK
    BY DEF Consistent
<1>2. dispStatus[d] # "none"
    BY DEF Active, ActiveStatus
<1>3. taskStatus' \in [Task -> TaskStatus \cup {"absent"}]
    BY <1>1 DEF TypeOK, WithTask, TaskStatus
<1>4. ownEpoch' \in [Dispatch -> BOOLEAN] /\ dispTask' = dispTask
    BY <1>1 DEF TypeOK, rowVars
<1>5. TypeOK'
    BY <1>1, <1>2, <1>3, <1>4, RowTypes
<1>6. RowsAgree'
    BY <1>4, SettlingKeepsRows
<1> QED BY <1>5, <1>6 DEF Consistent

(* A step of an active dispatch that leaves it active. *)
LEMMA MovingKeepsConsistent ==
    ASSUME Consistent, NEW d \in Dispatch, Active(d),
           NEW s \in ActiveStatus, NEW w \in UnsettledWorker \ {"starting"},
           dispStatus' = [dispStatus EXCEPT ![d] = s],
           worker' = [worker EXCEPT ![d] = w],
           taskStatus' = WithTask(dispTask[d], IF w \in Uncertain THEN "blocked" ELSE "dispatched"),
           ownEpoch' \in [Dispatch -> BOOLEAN],
           UNCHANGED <<rowVars, failCount, promptStalled, assignee, gateVars>>
    PROVE  Consistent'
<1>1. TypeOK
    BY DEF Consistent
<1>2. dispStatus[d] # "none"
    BY DEF Active, ActiveStatus
<1>3. taskStatus' \in [Task -> TaskStatus \cup {"absent"}]
    BY <1>1 DEF TypeOK, WithTask, TaskStatus
<1>4. /\ failCount' \in [Dispatch -> Nat]
      /\ promptStalled' \in [Dispatch -> BOOLEAN]
      /\ dispTask' = dispTask
    BY <1>1 DEF TypeOK, rowVars
<1>5. TypeOK'
    BY <1>1, <1>2, <1>3, <1>4, RowTypes
<1>6. RowsAgree'
    BY <1>4, MovingKeepsRows
<1> QED BY <1>5, <1>6 DEF Consistent

(* Writing back what a row already holds. *)
LEMMA Unwritten ==
    ASSUME TypeOK, NEW d \in Dispatch
    PROVE  /\ dispStatus = [dispStatus EXCEPT ![d] = dispStatus[d]]
           /\ worker = [worker EXCEPT ![d] = worker[d]]
           /\ taskStatus = WithTask(dispTask[d], taskStatus[dispTask[d]])
BY DEF TypeOK, WithTask

LEMMA FailDispatchKeepsConsistent ==
    ASSUME Consistent, NEW d \in Dispatch, FailDispatch(d)
    PROVE  Consistent'
<1>1. Active(d) /\ TypeOK
    BY DEF FailDispatch, Consistent
<1>2. FailureStatus(d) \in SettledStatus
    BY DEF FailureStatus, SettledStatus
<1>3. PICK w \in SettledWorker \cup {"none"} : worker' = [worker EXCEPT ![d] = w]
    BY DEF FailDispatch, SettledWorker
<1>4. PICK ts \in {"ready", "failed", "blocked"} : taskStatus' = WithTask(dispTask[d], ts)
  <2>1. taskStatus[dispTask[d]] \in {"dispatched", "blocked"} /\ ~OthersActive(d)
      BY <1>1, ActiveFacts
  <2>2. CASE taskStatus[dispTask[d]] = "dispatched"
      BY <2>1, <2>2 DEF FailDispatch
  <2>3. CASE taskStatus[dispTask[d]] = "blocked"
      BY <2>3, <1>1, Unwritten DEF FailDispatch
  <2> QED BY <2>1, <2>2, <2>3
<1>5. failCount' \in [Dispatch -> Nat]
    BY <1>1 DEF FailDispatch, TypeOK
<1>6. /\ dispStatus' = [dispStatus EXCEPT ![d] = FailureStatus(d)]
      /\ promptStalled' \in [Dispatch -> BOOLEAN]
      /\ UNCHANGED <<rowVars, assignee, ownEpoch, gateVars>>
    BY <1>1 DEF FailDispatch, TypeOK
<1> QED BY <1>1, <1>2, <1>3, <1>4, <1>5, <1>6, SettlingKeepsConsistent

(* A worker whose fate is open ends, and its dispatch with it. *)
LEMMA EndWorkerKeepsConsistent ==
    ASSUME Consistent, NEW d \in Dispatch, NEW w \in SettledWorker, Unsettled(d), EndWorker(d, w)
    PROVE  Consistent'
<1>1. Active(d) /\ TypeOK
    BY UnsettledIsActive DEF Consistent
<1>2. EndedStatus(d) = "failed" /\ "failed" \in SettledStatus
    BY <1>1 DEF EndedStatus, SettledStatus
<1>3. Interrupted(d) = "blocked"
    BY <1>1, ActiveFacts
<1>4. /\ dispStatus' = [dispStatus EXCEPT ![d] = "failed"]
      /\ worker' = [worker EXCEPT ![d] = w]
      /\ taskStatus' = WithTask(dispTask[d], "blocked")
      /\ failCount' \in [Dispatch -> Nat]
      /\ promptStalled' \in [Dispatch -> BOOLEAN]
      /\ UNCHANGED <<rowVars, assignee, ownEpoch, gateVars>>
    BY <1>1, <1>2, <1>3 DEF EndWorker, TypeOK
<1> QED BY <1>1, <1>2, <1>4, SettlingKeepsConsistent

LEMMA StartStepKeepsConsistent ==
    ASSUME Consistent, NEW d \in Dispatch, StartStep(d)
    PROVE  Consistent'
<1>0. TypeOK
    BY DEF Consistent
<1>1. ASSUME NEW term \in Terminal, AttachTerminal(d, term)
      PROVE  Consistent'
  <2>1. /\ taskStatus' = taskStatus /\ dispTask' = dispTask
        /\ dispStatus' = dispStatus /\ worker' = worker
      BY <1>1 DEF AttachTerminal, rowVars
  <2>2. TypeOK'
      BY <1>0, <1>1 DEF AttachTerminal, TypeOK, rowVars, gateVars
  <2> QED BY <2>1, <2>2, RelabellingKeepsRows DEF Consistent
<1>2. CASE MarkReady(d)
  <2>1. Active(d) /\ worker[d] = "starting"
      BY <1>2, UnsettledIsActive DEF MarkReady, Unsettled, UnsettledWorker
  <2>2. taskStatus' = WithTask(dispTask[d], "dispatched")
      BY <1>0, <1>2, <2>1, ActiveFacts, Unwritten DEF MarkReady, Uncertain
  <2>3. /\ dispStatus' = [dispStatus EXCEPT ![d] = "dispatched"]
        /\ worker' = [worker EXCEPT ![d] = "ready"]
        /\ ownEpoch' \in [Dispatch -> BOOLEAN]
        /\ UNCHANGED <<rowVars, failCount, promptStalled, assignee, gateVars>>
      BY <1>0, <1>2 DEF MarkReady, TypeOK
  <2>4. "dispatched" \in ActiveStatus /\ "ready" \in UnsettledWorker \ {"starting"}
        /\ "ready" \notin Uncertain
      BY DEF ActiveStatus, UnsettledWorker, Uncertain
  <2> QED BY <2>1, <2>2, <2>3, <2>4, MovingKeepsConsistent
<1>3. ASSUME NEW stalled \in BOOLEAN, FailWorkerStart(d, stalled)
      PROVE  Consistent'
  <2>1. Active(d) /\ worker[d] = "starting"
      BY <1>3, UnsettledIsActive DEF FailWorkerStart, Unsettled, UnsettledWorker
  <2>2. taskStatus' = WithTask(dispTask[d], "failed")
      BY <1>3, <2>1, ActiveFacts DEF FailWorkerStart
  <2>3. FailureStatus(d) \in SettledStatus /\ "failed" \in SettledWorker
      BY DEF FailureStatus, SettledStatus, SettledWorker
  <2>4. /\ dispStatus' = [dispStatus EXCEPT ![d] = FailureStatus(d)]
        /\ worker' = [worker EXCEPT ![d] = "failed"]
        /\ failCount' \in [Dispatch -> Nat]
        /\ promptStalled' \in [Dispatch -> BOOLEAN]
        /\ UNCHANGED <<rowVars, assignee, ownEpoch, gateVars>>
      BY <1>0, <1>3 DEF FailWorkerStart, TypeOK
  <2> QED BY <2>1, <2>2, <2>3, <2>4, SettlingKeepsConsistent
<1>4. CASE MarkStartUnknown(d)
  <2>1. Active(d)
      BY <1>4, UnsettledIsActive DEF MarkStartUnknown, Unsettled, UnsettledWorker
  <2>2. /\ dispStatus' = [dispStatus EXCEPT ![d] = dispStatus[d]]
        /\ worker' = [worker EXCEPT ![d] = "start_unknown"]
        /\ taskStatus' = WithTask(dispTask[d], "blocked")
        /\ ownEpoch' \in [Dispatch -> BOOLEAN]
        /\ UNCHANGED <<rowVars, failCount, promptStalled, assignee, gateVars>>
      BY <1>0, <1>4, Unwritten DEF MarkStartUnknown, TypeOK
  <2>3. dispStatus[d] \in ActiveStatus /\ "start_unknown" \in UnsettledWorker \ {"starting"}
        /\ "start_unknown" \in Uncertain
      BY <2>1 DEF Active, UnsettledWorker, Uncertain
  <2> QED BY <2>1, <2>2, <2>3, MovingKeepsConsistent
<1> QED BY <1>1, <1>2, <1>3, <1>4 DEF StartStep

LEMMA FedStepKeepsConsistent ==
    ASSUME Consistent, NEW d \in Dispatch, FedStep(d)
    PROVE  Consistent'
<1>0. TypeOK
    BY DEF Consistent
<1>1. FedStarting(d) => Active(d) /\ Unsettled(d)
    BY UnsettledIsActive DEF FedStarting, Unsettled, UnsettledWorker
<1>2. /\ "ready" \in UnsettledWorker \ {"starting"} /\ "ready" \notin Uncertain
      /\ "start_unknown" \in UnsettledWorker \ {"starting"} /\ "start_unknown" \in Uncertain
    BY DEF UnsettledWorker, Uncertain
<1>3. CASE FedStartConfirmed(d)
  <2>1. Active(d) /\ taskStatus[dispTask[d]] \in {"dispatched", "blocked"}
      BY <1>1, <1>3, ActiveFacts DEF FedStartConfirmed
  <2>2. taskStatus' = WithTask(dispTask[d], "dispatched")
      BY <1>0, <1>3, <2>1, Unwritten DEF FedStartConfirmed
  <2>3. /\ dispStatus' = [dispStatus EXCEPT ![d] = "dispatched"]
        /\ "dispatched" \in ActiveStatus
      BY <1>0, <1>3, <2>1 DEF FedStartConfirmed, Active, ActiveStatus, TypeOK
  <2>4. /\ worker' = [worker EXCEPT ![d] = "ready"]
        /\ ownEpoch' \in [Dispatch -> BOOLEAN]
        /\ UNCHANGED <<rowVars, failCount, promptStalled, assignee, gateVars>>
      BY <1>0, <1>3 DEF FedStartConfirmed, TypeOK
  <2> QED BY <1>2, <2>1, <2>2, <2>3, <2>4, MovingKeepsConsistent
<1>4. CASE FedStartUncertain(d)
  <2>1. Active(d) /\ taskStatus[dispTask[d]] \in {"dispatched", "blocked"}
      BY <1>1, <1>4, ActiveFacts DEF FedStartUncertain
  <2>2. taskStatus' = WithTask(dispTask[d], "blocked")
      BY <1>0, <1>4, <2>1, Unwritten DEF FedStartUncertain
  <2>3. /\ dispStatus' = [dispStatus EXCEPT ![d] = dispStatus[d]]
        /\ dispStatus[d] \in ActiveStatus
      BY <1>0, <1>4, <2>1, Unwritten DEF FedStartUncertain, Active
  <2>4. /\ worker' = [worker EXCEPT ![d] = "start_unknown"]
        /\ ownEpoch' \in [Dispatch -> BOOLEAN]
        /\ UNCHANGED <<rowVars, failCount, promptStalled, assignee, gateVars>>
      BY <1>0, <1>4 DEF FedStartUncertain, TypeOK
  <2> QED BY <1>2, <2>1, <2>2, <2>3, <2>4, MovingKeepsConsistent
<1>5. ASSUME NEW s \in {"failed", "stopped"}, FedStartEnded(d, s)
      PROVE  Consistent'
  <2>1. Active(d) /\ Interrupted(d) = "blocked" /\ ~OthersActive(d)
      BY <1>1, <1>5, ActiveFacts DEF FedStartEnded
  <2>2. /\ dispStatus' = [dispStatus EXCEPT ![d] = "failed"]
        /\ worker' = [worker EXCEPT ![d] = s]
        /\ taskStatus' = WithTask(dispTask[d], "failed")
        /\ failCount' \in [Dispatch -> Nat]
        /\ promptStalled' \in [Dispatch -> BOOLEAN]
        /\ UNCHANGED <<rowVars, assignee, ownEpoch, gateVars>>
      BY <1>0, <1>5, <2>1 DEF FedStartEnded, EndedStatus, TypeOK
  <2>3. "failed" \in SettledStatus /\ s \in SettledWorker
      BY DEF SettledStatus, SettledWorker
  <2> QED BY <2>1, <2>2, <2>3, SettlingKeepsConsistent
<1>6. CASE FedStopConfirmed(d)
    BY <1>6, EndWorkerKeepsConsistent
       DEF FedStopConfirmed, SettledWorker, Unsettled, UnsettledWorker
<1>7. CASE FedResume(d)
  <2>1. Active(d) /\ taskStatus[dispTask[d]] \in {"dispatched", "blocked"}
      BY <1>7, UnsettledIsActive, ActiveFacts DEF FedResume, StopInFlight, Unsettled, UnsettledWorker
  <2>2. taskStatus' = WithTask(dispTask[d], "dispatched")
      BY <1>0, <1>7, <2>1, Unwritten DEF FedResume
  <2>3. /\ dispStatus' = [dispStatus EXCEPT ![d] = dispStatus[d]]
        /\ dispStatus[d] \in ActiveStatus
      BY <1>0, <1>7, <2>1, Unwritten DEF FedResume, Active
  <2>4. /\ worker' = [worker EXCEPT ![d] = "ready"]
        /\ ownEpoch' \in [Dispatch -> BOOLEAN]
        /\ UNCHANGED <<rowVars, failCount, promptStalled, assignee, gateVars>>
      BY <1>0, <1>7 DEF FedResume, TypeOK
  <2> QED BY <1>2, <2>1, <2>2, <2>3, <2>4, MovingKeepsConsistent
<1> QED BY <1>3, <1>4, <1>5, <1>6, <1>7 DEF FedStep

(* An admitted report settles every dispatch of the task. *)
LEMMA ReportFacts ==
    ASSUME Consistent, NEW d \in Dispatch, NEW outcome \in {"succeeded", "failed"},
           Report(d, outcome)
    PROVE  /\ dispTask[d] \in Task
           /\ \A e \in Dispatch : dispTask[e] = dispTask[d] => ~Active(e)' /\ ~Unsettled(e)'
           /\ \A e \in Dispatch : dispTask[e] # dispTask[d] =>
                  dispStatus'[e] = dispStatus[e] /\ worker'[e] = worker[e]
           /\ dispStatus' \in [Dispatch -> ActiveStatus \cup SettledStatus \cup {"none"}]
           /\ worker' \in [Dispatch -> UnsettledWorker \cup SettledWorker \cup {"none"}]
           /\ \A e \in Dispatch : dispStatus'[e] = "none" <=> dispStatus[e] = "none"
           /\ taskStatus' = Completing(dispTask[d], ReportStatus(outcome))
<1> DEFINE t == dispTask[d]
           s == ReportStatus(outcome)
           keeps == CorrectsStalledPrompt(d) /\ s = "failed"
           ds == [dispStatus EXCEPT ![d] = IF keeps THEN @ ELSE s]
           ws == [worker EXCEPT ![d] = IF @ = "none" THEN @ ELSE outcome]
<1>0. TypeOK
    BY DEF Consistent
<1>1. /\ dispStatus' = SettledDispatches(ds, t, s)
      /\ worker' = SettledWorkers(ds, ws, t)
      /\ taskStatus' = Completing(t, s)
      /\ ReportSettles(d)
    BY DEF Report
<1>2. s \in {"completed", "failed"} /\ s \in SettledStatus
    BY DEF ReportStatus, SettledStatus
<1>3. dispStatus[d] # "none"
    BY <1>1 DEF ReportSettles, CorrectsStalledPrompt, Reconnecting, ReportingStart, Running,
                Active, ActiveStatus
<1>4. t \in Task
    BY <1>0, <1>3 DEF TypeOK
<1>5. /\ ds \in [Dispatch -> ActiveStatus \cup SettledStatus \cup {"none"}]
      /\ ds[d] \in SettledStatus
      /\ \A e \in Dispatch : e # d => ds[e] = dispStatus[e]
  <2>1. keeps => dispStatus[d] \in SettledStatus
      BY DEF CorrectsStalledPrompt, SettledStatus
  <2> QED BY <1>0, <1>2, <2>1 DEF TypeOK
<1>6. /\ ws \in [Dispatch -> UnsettledWorker \cup SettledWorker \cup {"none"}]
      /\ ws[d] \in SettledWorker \cup {"none"}
      /\ \A e \in Dispatch : e # d => ws[e] = worker[e]
  <2>1. outcome \in SettledWorker
      BY DEF SettledWorker
  <2> QED BY <1>0, <2>1 DEF TypeOK
<1> HIDE DEF t, s, keeps, ds, ws
<1>7. ASSUME NEW e \in Dispatch, dispTask[e] = t
      PROVE  ~Active(e)' /\ ~Unsettled(e)'
  <2>1. ~Active(e)'
      BY <1>1, <1>2, <1>7 DEF SettledDispatches, Active, ActiveStatus, SettledStatus
  <2>2. CASE e = d
      BY <1>1, <1>5, <1>6, <2>1, <2>2
         DEF SettledWorkers, Unsettled, ActiveStatus, SettledStatus, UnsettledWorker, SettledWorker
  <2>3. CASE e # d
      BY <1>1, <1>5, <1>6, <1>7, <2>1, <2>3, UnsettledIsActive
         DEF SettledWorkers, Unsettled, UnsettledWorker, Active
  <2> QED BY <2>1, <2>2, <2>3
<1>8. ASSUME NEW e \in Dispatch, dispTask[e] # t
      PROVE  dispStatus'[e] = dispStatus[e] /\ worker'[e] = worker[e]
  <2>1. e # d
      BY <1>8 DEF t
  <2> QED BY <2>1, <1>1, <1>5, <1>6, <1>8 DEF SettledDispatches, SettledWorkers
<1>9. /\ dispStatus' \in [Dispatch -> ActiveStatus \cup SettledStatus \cup {"none"}]
      /\ worker' \in [Dispatch -> UnsettledWorker \cup SettledWorker \cup {"none"}]
    BY <1>1, <1>2, <1>5, <1>6 DEF SettledDispatches, SettledWorkers, SettledWorker
<1>10. \A e \in Dispatch : dispStatus'[e] = "none" <=> dispStatus[e] = "none"
    BY <1>1, <1>2, <1>3, <1>5 DEF SettledDispatches, ActiveStatus, SettledStatus
<1> QED BY <1>1, <1>4, <1>7, <1>8, <1>9, <1>10 DEF t, s

LEMMA ReportKeepsConsistent ==
    ASSUME Consistent, NEW d \in Dispatch, NEW outcome \in {"succeeded", "failed"},
           Report(d, outcome)
    PROVE  Consistent'
<1> DEFINE t == dispTask[d]
<1>0. TypeOK
    BY DEF Consistent
<1>1. /\ ReportStatus(outcome) \in TaskStatus
      /\ ReportStatus(outcome) # "dispatched"
    BY DEF ReportStatus, TaskStatus
<1>2. t \in Task /\ taskStatus' = Completing(t, ReportStatus(outcome))
    BY ReportFacts
<1> HIDE DEF t
<1>3. /\ taskStatus' \in [Task -> TaskStatus \cup {"absent"}]
      /\ taskStatus'[t] # "dispatched"
      /\ \A u \in Task : u # t => \/ taskStatus'[u] = taskStatus[u]
                                  \/ taskStatus[u] = "pending" /\ taskStatus'[u] = "ready"
    BY <1>0, <1>1, <1>2, CompletingFacts
<1>4. /\ promptStalled' \in [Dispatch -> BOOLEAN]
      /\ UNCHANGED <<rowVars, failCount, assignee, ownEpoch, gateVars>>
    BY <1>0 DEF Report, TypeOK
<1>5. TypeOK'
  <2>1. /\ dispStatus' \in [Dispatch -> ActiveStatus \cup SettledStatus \cup {"none"}]
        /\ worker' \in [Dispatch -> UnsettledWorker \cup SettledWorker \cup {"none"}]
        /\ \A e \in Dispatch : dispStatus'[e] = "none" <=> dispStatus[e] = "none"
      BY ReportFacts
  <2> QED BY <1>0, <1>3, <1>4, <2>1 DEF TypeOK, rowVars, gateVars
<1>6. RowsAgree'
  <2>1. dispTask' = dispTask
      BY <1>4 DEF rowVars
  <2>2. /\ \A e \in Dispatch : dispTask[e] = t => ~Active(e)' /\ ~Unsettled(e)'
        /\ \A e \in Dispatch : dispTask[e] # t =>
              dispStatus'[e] = dispStatus[e] /\ worker'[e] = worker[e]
      BY ReportFacts DEF t
  <2> QED BY <1>2, <1>3, <2>1, <2>2, ClearingKeepsRows
<1> QED BY <1>5, <1>6 DEF Consistent

LEMMA EndStepKeepsConsistent ==
    ASSUME Consistent, NEW d \in Dispatch, EndStep(d)
    PROVE  Consistent'
<1>0. TypeOK
    BY DEF Consistent
<1>1. ASSUME NEW outcome \in {"succeeded", "failed"}, Report(d, outcome)
      PROVE  Consistent'
    BY <1>1, ReportKeepsConsistent
<1>2. CASE BeginStop(d)
  <2>1. Active(d)
      BY <1>2, UnsettledIsActive DEF BeginStop, Unsettled, UnsettledWorker
  <2>2. /\ dispStatus' = [dispStatus EXCEPT ![d] = dispStatus[d]]
        /\ worker' = [worker EXCEPT ![d] = "stopping"]
        /\ taskStatus' = WithTask(dispTask[d], "blocked")
        /\ ownEpoch' \in [Dispatch -> BOOLEAN]
        /\ UNCHANGED <<rowVars, failCount, promptStalled, assignee, gateVars>>
      BY <1>0, <1>2, <2>1, ActiveFacts, Unwritten DEF BeginStop, TypeOK
  <2>3. /\ dispStatus[d] \in ActiveStatus
        /\ "stopping" \in UnsettledWorker \ {"starting"} /\ "stopping" \in Uncertain
      BY <2>1 DEF Active, UnsettledWorker, Uncertain
  <2> QED BY <2>1, <2>2, <2>3, MovingKeepsConsistent
<1>3. CASE SettleWorkerStop(d)
    BY <1>3, EndWorkerKeepsConsistent
       DEF SettleWorkerStop, StopInFlight, SettledWorker, Unsettled, UnsettledWorker
<1>4. CASE MarkStopUnknown(d)
  <2>1. Active(d) /\ worker[d] = "stopping"
      BY <1>4, UnsettledIsActive DEF MarkStopUnknown, Unsettled, UnsettledWorker
  <2>2. taskStatus[dispTask[d]] = "blocked"
      BY <2>1, ActiveFacts DEF Uncertain
  <2>3. /\ dispStatus' = [dispStatus EXCEPT ![d] = dispStatus[d]]
        /\ worker' = [worker EXCEPT ![d] = "stop_unknown"]
        /\ taskStatus' = WithTask(dispTask[d], "blocked")
        /\ ownEpoch' \in [Dispatch -> BOOLEAN]
        /\ UNCHANGED <<rowVars, failCount, promptStalled, assignee, gateVars>>
      BY <1>0, <1>4, <2>2, Unwritten DEF MarkStopUnknown, TypeOK
  <2>4. /\ dispStatus[d] \in ActiveStatus
        /\ "stop_unknown" \in UnsettledWorker \ {"starting"} /\ "stop_unknown" \in Uncertain
      BY <2>1 DEF Active, UnsettledWorker, Uncertain
  <2> QED BY <2>1, <2>3, <2>4, MovingKeepsConsistent
<1>5. CASE AbandonWorker(d)
    BY <1>5, EndWorkerKeepsConsistent DEF AbandonWorker, SettledWorker
<1>6. CASE AgentExits(d) \/ FailContextOnly(d)
    BY <1>6, FailDispatchKeepsConsistent DEF AgentExits, FailContextOnly
<1>7. CASE ReconcileMissingTerminal(d)
  <2>1. Active(d)
      BY <1>7, UnsettledIsActive DEF ReconcileMissingTerminal
  <2>2. PICK w \in {"stopped", "abandoned"} : worker' = [worker EXCEPT ![d] = w]
      BY <1>7 DEF ReconcileMissingTerminal
  <2>3. PICK ts \in {"ready", "failed", "blocked"} : taskStatus' = WithTask(dispTask[d], ts)
    <3>1. CASE worker[d] \in {"stopping", "stop_unknown"}
      <4>1. taskStatus[dispTask[d]] = "blocked" /\ taskStatus' = taskStatus
          BY <1>7, <2>1, <3>1, ActiveFacts DEF ReconcileMissingTerminal, Uncertain
      <4> QED BY <4>1, <1>0, Unwritten
    <3>2. CASE worker[d] \notin {"stopping", "stop_unknown"}
        BY <1>7, <2>1, <3>2, ActiveFacts DEF ReconcileMissingTerminal
    <3> QED BY <3>1, <3>2
  <2>4. /\ dispStatus' = [dispStatus EXCEPT ![d] = FailureStatus(d)]
        /\ failCount' \in [Dispatch -> Nat]
        /\ promptStalled' \in [Dispatch -> BOOLEAN]
        /\ UNCHANGED <<rowVars, assignee, ownEpoch, gateVars>>
      BY <1>0, <1>7, <2>1 DEF ReconcileMissingTerminal, TypeOK
  <2>5. FailureStatus(d) \in SettledStatus /\ w \in SettledWorker
      BY DEF FailureStatus, SettledStatus, SettledWorker
  <2> QED BY <2>1, <2>2, <2>3, <2>4, <2>5, SettlingKeepsConsistent
<1>8. CASE ReleaseContextOnly(d)
  <2>1. Active(d) /\ worker[d] = "none"
      BY <1>8 DEF ReleaseContextOnly
  <2>2. taskStatus' = WithTask(dispTask[d], "blocked")
      BY <1>8, <2>1, ActiveFacts DEF ReleaseContextOnly, Uncertain
  <2>3. /\ dispStatus' = [dispStatus EXCEPT ![d] = "failed"]
        /\ worker' = [worker EXCEPT ![d] = "none"]
        /\ failCount' \in [Dispatch -> Nat]
        /\ promptStalled' \in [Dispatch -> BOOLEAN]
        /\ UNCHANGED <<rowVars, assignee, ownEpoch, gateVars>>
      BY <1>0, <1>8, <2>1, Unwritten DEF ReleaseContextOnly, TypeOK
  <2> QED BY <2>1, <2>2, <2>3, SettlingKeepsConsistent DEF SettledStatus
<1> QED BY <1>1, <1>2, <1>3, <1>4, <1>5, <1>6, <1>7, <1>8 DEF EndStep

-----------------------------------------------------------------------------
(* All steps. *)

LEMMA DispatchStepKeepsConsistent ==
    ASSUME Consistent, NEW d \in Dispatch, DispatchStep(d)
    PROVE  Consistent'
<1>1. ASSUME NEW fed \in BOOLEAN, RetryWorker(d, fed)
      PROVE  Consistent'
  <2>1. dispTask[d] \in Task /\ ~HasActive(dispTask[d])
      BY <1>1, RetryableIsFree DEF RetryWorker
  <2>2. failCount[d] \in Nat
      BY DEF Consistent, TypeOK
  <2>3. InsertDispatch(dispTask[d], "pending", NoTerminal, "starting", fed, failCount[d])
      BY <1>1 DEF RetryWorker
  <2> QED BY <2>1, <2>2, <2>3, InsertingKeepsConsistent
<1> QED BY <1>1, StartStepKeepsConsistent, FedStepKeepsConsistent, EndStepKeepsConsistent
        DEF DispatchStep

LEMMA ResolveGateKeepsConsistent ==
    ASSUME Consistent, NEW g \in Gate, ResolveGate(g)
    PROVE  Consistent'
<1>0. TypeOK
    BY DEF Consistent
<1>1. gateTask[g] \in Task
    BY <1>0 DEF ResolveGate, TypeOK
<1>2. SetTaskStatus(gateTask[g], "ready") /\ "ready" \in TaskStatus
    BY DEF ResolveGate, TaskStatus
<1>3. /\ lastGate' = lastGate /\ gateTask' = gateTask
      /\ gateStatus' \in [Gate -> {"none", "pending", "resolved"}]
      /\ \A h \in Gate : (gateStatus'[h] = "none") <=> (gateStatus[h] = "none")
    BY <1>0 DEF ResolveGate, TypeOK
<1> QED BY <1>1, <1>2, <1>3, SetTaskStatusKeepsConsistent

(* Blocking gated tasks again spares every task that is being worked on.    *)
LEMMA ReblockKeepsConsistent ==
    ASSUME Consistent, ReblockGatedTasks
    PROVE  Consistent'
<1>0. TypeOK
    BY DEF Consistent
<1>1. /\ UNCHANGED <<dispatchVars, gateVars>>
      /\ taskStatus' \in [Task -> TaskStatus \cup {"absent"}]
    BY <1>0 DEF ReblockGatedTasks, TypeOK, TaskStatus
<1>2. TypeOK'
    BY <1>0, <1>1 DEF TypeOK, dispatchVars, rowVars, gateVars
<1>3. \A u \in Task : \/ taskStatus'[u] = taskStatus[u]
                      \/ ~HasActive(u) /\ taskStatus'[u] # "dispatched"
  <2> SUFFICES ASSUME NEW u \in Task, taskStatus'[u] # taskStatus[u]
               PROVE  ~HasActive(u) /\ taskStatus'[u] # "dispatched"
      OBVIOUS
  <2>1. PICK g \in Gate : /\ gateTask[g] = u /\ gateStatus[g] = "pending"
                          /\ \A h \in 1..g : ~(/\ gateStatus[h] = "pending"
                                               /\ taskStatus[gateTask[h]] # "blocked"
                                               /\ HasActive(gateTask[h]))
      BY <1>0 DEF ReblockGatedTasks, TypeOK
  <2>2. g \in 1..g
      BY BoundAssumption DEF Gate
  <2>3. taskStatus'[u] = "blocked"
      BY <1>0 DEF ReblockGatedTasks, TypeOK
  <2>4. ~(taskStatus[u] # "blocked" /\ HasActive(u))
      BY <2>1, <2>2
  <2> QED BY <2>3, <2>4
<1>4. RowsAgree'
    BY <1>1, <1>3, RelabellingKeepsRows DEF dispatchVars, rowVars
<1> QED BY <1>2, <1>4 DEF Consistent

(* The repair on open finds nothing to repair.                              *)
LEMMA RestartFacts ==
    ASSUME Consistent, Restart
    PROVE  worker' = worker
<1>1. \A d \in Dispatch : ~(dispStatus[d] \in SettledStatus /\ Unsettled(d))
    BY UnsettledIsActive DEF Active, ActiveStatus, SettledStatus
<1> QED BY <1>1 DEF Restart, Consistent, TypeOK

LEMMA RestartKeepsConsistent ==
    ASSUME Consistent, Restart
    PROVE  Consistent'
<1>1. worker' = worker
    BY RestartFacts
<1>2. TypeOK'
    BY <1>1 DEF Restart, Consistent, TypeOK, rowVars, gateVars
<1>3. RowsAgree'
    BY <1>1, RelabellingKeepsRows DEF Restart, rowVars
<1> QED BY <1>2, <1>3 DEF Consistent

LEMMA InitConsistent == Init => Consistent
<1> SUFFICES ASSUME Init PROVE Consistent
    OBVIOUS
<1>1. TypeOK
    BY SentinelAssumption, BoundAssumption DEF Init, TypeOK, Dispatch, Gate
<1>2. RowsAgree
    BY DEF Init, RowsAgree, WorkerFollowsDispatch, TaskFollowsDispatch, ActiveIsLatest,
           StartingIsPending, Active, ActiveStatus
<1> QED BY <1>1, <1>2 DEF Consistent

LEMMA StutterKeepsConsistent ==
    ASSUME Consistent, UNCHANGED vars
    PROVE  Consistent'
<1>1. TypeOK'
    BY DEF Consistent, TypeOK, vars, dispatchVars, rowVars, gateVars
<1>2. RowsAgree'
    BY RelabellingKeepsRows DEF vars, dispatchVars, rowVars
<1> QED BY <1>1, <1>2 DEF Consistent

LEMMA NextKeepsConsistent == Consistent /\ [Next]_vars => Consistent'
<1> SUFFICES ASSUME Consistent, [Next]_vars
             PROVE  Consistent'
    OBVIOUS
<1>1. ASSUME NEW t \in Task, TaskStep(t) PROVE Consistent'
    BY <1>1, TaskStepKeepsConsistent
<1>2. ASSUME NEW d \in Dispatch, DispatchStep(d) PROVE Consistent'
    BY <1>2, DispatchStepKeepsConsistent
<1>3. ASSUME NEW g \in Gate, ResolveGate(g) PROVE Consistent'
    BY <1>3, ResolveGateKeepsConsistent
<1>4. CASE ReblockGatedTasks
    BY <1>4, ReblockKeepsConsistent
<1>5. CASE Restart
    BY <1>5, RestartKeepsConsistent
<1>6. CASE UNCHANGED vars
    BY <1>6, StutterKeepsConsistent
<1> QED BY <1>1, <1>2, <1>3, <1>4, <1>5, <1>6 DEF Next

(* Whatever interleaving of handlers, relay, exits and restarts, the rows   *)
(* of tasks, dispatches and workers agree.                                  *)
THEOREM AlwaysConsistent == Spec => []Consistent
BY InitConsistent, NextKeepsConsistent, PTL DEF Spec

-----------------------------------------------------------------------------
(* The safety invariants. *)

(* Every variable keeps its type, and rows are inserted in order.           *)
THEOREM TypeCorrect == Spec => []TypeOK
<1>1. Consistent => TypeOK
    BY DEF Consistent
<1> QED BY <1>1, AlwaysConsistent, PTL

(* No task is ever worked on by two dispatches at once.                     *)
THEOREM AtMostOneActive == Spec => []OneActiveDispatchPerTask
<1>1. Consistent => OneActiveDispatchPerTask
  <2> SUFFICES ASSUME Consistent, NEW d \in Dispatch, NEW e \in Dispatch,
                      Active(d), Active(e), dispTask[d] = dispTask[e]
               PROVE  d = e
      BY DEF OneActiveDispatchPerTask
  <2>1. d <= e /\ e <= d
      BY DEF Consistent, RowsAgree, ActiveIsLatest, IsLatest, DispatchesOf
  <2> QED BY <2>1, BoundAssumption DEF Dispatch
<1> QED BY <1>1, AlwaysConsistent, PTL

(* A worker's fate is open exactly while its dispatch is active.            *)
THEOREM WorkersFollow == Spec => []WorkerFollowsDispatch
<1>1. Consistent => WorkerFollowsDispatch
    BY DEF Consistent, RowsAgree
<1> QED BY <1>1, AlwaysConsistent, PTL

(* The task row says whether somebody is at work and whether its fate is    *)
(* certain.                                                                 *)
THEOREM TasksFollow == Spec => []TaskFollowsDispatch
<1>1. Consistent => TaskFollowsDispatch
    BY DEF Consistent, RowsAgree
<1> QED BY <1>1, AlwaysConsistent, PTL

(* The dispatch at work on a task is its latest one.                        *)
THEOREM LatestIsAtWork == Spec => []ActiveIsLatest
<1>1. Consistent => ActiveIsLatest
    BY DEF Consistent, RowsAgree
<1> QED BY <1>1, AlwaysConsistent, PTL

(* A worker that is started, ready or lost from sight is heard.             *)
THEOREM ReportsAreHeard == Spec => []LiveWorkersAreHeard
<1>1. Consistent => LiveWorkersAreHeard
  <2> SUFFICES ASSUME Consistent, NEW d \in Dispatch, Active(d),
                      worker[d] \notin {"none", "stopping"},
                      ~(worker[d] = "ready" /\ dispStatus[d] = "pending")
               PROVE  ReportSettles(d)
      BY DEF LiveWorkersAreHeard
  <2>1. \A e \in DispatchesOf(dispTask[d]) \ {d} : ~Active(e)
      BY ActiveFacts DEF OthersActive
  <2>2. Unsettled(d)
      BY DEF Consistent, RowsAgree, WorkerFollowsDispatch
  <2>3. CASE worker[d] \in {"start_unknown", "stop_unknown"}
    <3>1. Reconnecting(d)
        BY <2>3, ActiveFacts DEF Reconnecting, Uncertain
    <3> QED BY <2>1, <2>3, <3>1 DEF ReportSettles
  <2>4. CASE worker[d] = "starting"
    <3>1. ReportingStart(d)
        BY <2>4, ActiveFacts DEF ReportingStart, Uncertain, Consistent, RowsAgree, StartingIsPending
    <3> QED BY <2>1, <2>4, <3>1 DEF ReportSettles
  <2>5. CASE worker[d] = "ready"
    <3>1. Running(d)
        BY <2>5, ActiveFacts DEF Running, Uncertain, Active, ActiveStatus
    <3> QED BY <2>1, <2>5, <3>1 DEF ReportSettles
  <2> QED BY <2>2, <2>3, <2>4, <2>5 DEF Unsettled, UnsettledWorker
<1> QED BY <1>1, AlwaysConsistent, PTL
=============================================================================
