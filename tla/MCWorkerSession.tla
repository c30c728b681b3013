--------------------------- MODULE MCWorkerSession ---------------------------
(* WorkerSession for TLC: the bounds are set in the configurations. *)
EXTENDS WorkerSession
=============================================================================
