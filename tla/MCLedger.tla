------------------------------ MODULE MCLedger ------------------------------
(***************************************************************************)
(* An instance of Ledger for TLC.  Percentages sum to 100 or to as much as *)
(* the tolerance lets through; the equal split leaves a remainder.         *)
(***************************************************************************)
EXTENDS Ledger, TLC

CONSTANTS u1, u2, u3, xlm, usdc

MCBills ==
    {[payer |-> u1, asset |-> xlm, total |-> 8, kind |-> "equal",
      who |-> <<u1, u2, u3>>, input |-> <<0, 0, 0>>],
     [payer |-> u2, asset |-> xlm, total |-> 100, kind |-> "percentage",
      who |-> <<u1, u2, u3>>, input |-> <<0, 505, 505>>],
     [payer |-> u3, asset |-> usdc, total |-> 2, kind |-> "percentage",
      who |-> <<u3, u1, u2>>, input |-> <<500, 250, 250>>],
     [payer |-> u1, asset |-> usdc, total |-> 5, kind |-> "custom",
      who |-> <<u2>>, input |-> <<5>>]}

Symmetry == Permutations(Handlers)
=============================================================================
