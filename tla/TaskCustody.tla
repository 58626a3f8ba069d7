----------------------------- MODULE TaskCustody -----------------------------
(***************************************************************************)
(* What dispatching promises about a task: one dispatch at a time holds    *)
(* it, a dispatch takes it at most once, and a dispatch that has let go    *)
(* never holds a task again.  How tasks, workers, stops and reports bring  *)
(* this about is the business of DispatchLifecycle, which implements it.   *)
(***************************************************************************)
CONSTANTS Task, Dispatch, Free    \* Free is not a dispatch

VARIABLES
    holder,  \* the dispatch that holds each task, or Free
    spent    \* dispatches that have let go

CustodyTypeOK ==
    /\ holder \in [Task -> Dispatch \cup {Free}]
    /\ spent \subseteq Dispatch

Init ==
    /\ holder = [t \in Task |-> Free]
    /\ spent = {}

Claim(t, d) ==    \* a dispatch that never held anything takes a free task
    /\ holder[t] = Free
    /\ d \notin spent
    /\ \A u \in Task : holder[u] # d
    /\ holder' = [holder EXCEPT ![t] = d]
    /\ UNCHANGED spent

Release(t) ==     \* the holder lets go for good
    /\ holder[t] # Free
    /\ holder' = [holder EXCEPT ![t] = Free]
    /\ spent' = spent \cup {holder[t]}

Next == \E t \in Task : Release(t) \/ \E d \in Dispatch : Claim(t, d)

Spec == Init /\ [][Next]_<<holder, spent>>
=============================================================================
