------------------------------- MODULE MCAuth -------------------------------
(***************************************************************************)
(* One wallet with two logins, and the requests that race over them.       *)
(***************************************************************************)
EXTENDS Auth, TLC

MCWallet == [c \in Challenges |-> CHOOSE a \in Accounts : TRUE]
Symmetry == Permutations(Requests) \cup Permutations(Tokens) \cup Permutations(Challenges)
=============================================================================
