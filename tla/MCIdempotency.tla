--------------------------- MODULE MCIdempotency ---------------------------
(***************************************************************************)
(* Instances of Idempotency for TLC: r1 and r2 carry the same payload, r3  *)
(* another one under the same key.                                         *)
(***************************************************************************)
EXTENDS Idempotency

MCPayloadOf == [r \in Requests |-> IF r = "r3" THEN "p2" ELSE "p1"]
=============================================================================
