-------------------------- MODULE MCTreasuryIntent --------------------------
(***************************************************************************)
(* An instance of TreasuryIntent for TLC: one intent, two treasury         *)
(* accounts, two co-signers.  A client asks for 1.50 or, a stroop being a  *)
(* hundredth here, for three stroops; two confirm requests overlap, and    *)
(* two reconcilers where no confirm request runs.                          *)
(***************************************************************************)
EXTENDS TreasuryIntent, TLC

CONSTANTS r1, r2, k1, k2

OneAndAHalf == [w |-> 1, e |-> 0, f |-> <<5, 0>>]
ThreeStroops == [w |-> 0, e |-> 0, f |-> <<0, 3>>]
MCAmounts == {OneAndAHalf, ThreeStroops}

MCWorkloads ==
    {[amounts |-> {OneAndAHalf}, validities |-> {1, 2}, requests |-> {r1, r2},
      reconcilers |-> {}, until |-> 3],
     [amounts |-> {OneAndAHalf}, validities |-> {1, 2}, requests |-> {r1},
      reconcilers |-> {}, until |-> 4],
     [amounts |-> {ThreeStroops}, validities |-> {1}, requests |-> {r1},
      reconcilers |-> {}, until |-> 3],
     [amounts |-> {OneAndAHalf}, validities |-> {1}, requests |-> {},
      reconcilers |-> {k1, k2}, until |-> 1]}
=============================================================================
