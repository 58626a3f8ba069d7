--------------------------- MODULE MCPushDelivery ---------------------------
(* Instances of PushDelivery for TLC: drains are interchangeable.          *)
EXTENDS PushDelivery, TLC

DrainSymmetry == Permutations(Drains)
=============================================================================
