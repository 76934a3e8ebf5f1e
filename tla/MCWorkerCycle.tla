--------------------------- MODULE MCWorkerCycle ---------------------------
(***************************************************************************)
(* Two workers, one delivery, two attempts.                                *)
(***************************************************************************)
EXTENDS WorkerCycle

MCBackoff == [n \in 1..MaxAttempts |-> 1]
=============================================================================
