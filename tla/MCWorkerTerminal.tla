-------------------------- MODULE MCWorkerTerminal --------------------------
(* An instance of WorkerTerminal for TLC: the dispatches are model values.  *)
EXTENDS WorkerTerminal

CONSTANTS d1, d2
=============================================================================
