------------------------------ MODULE MCGroups ------------------------------
(***************************************************************************)
(* An instance of Groups for TLC.                                          *)
(***************************************************************************)
EXTENDS Groups, TLC

Symmetry == Permutations(Requests) \cup Permutations(Users \ {Creator})
=============================================================================
