------------------------- MODULE MCDispatchLifecycle -------------------------
(* Instances of DispatchLifecycle for TLC. *)
EXTENDS DispatchLifecycle, TLC

CONSTANTS build, ship, term1, term2   \* model values

NoDeps == [t \in Task |-> {}]
ChainDeps == build :> {} @@ ship :> {build}
=============================================================================
