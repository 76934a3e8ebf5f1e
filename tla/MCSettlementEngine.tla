------------------------- MODULE MCSettlementEngine -------------------------
(***************************************************************************)
(* Instances of SettlementEngine for TLC.  Settlements s1 and s3 settle    *)
(* the one share x1 under one idempotency key, and s1 has the envelopes e1 *)
(* and e2 (signed, and signed again after a failure); s4 is a freeform     *)
(* settle-up, paid by e1 in the instance it is alone in.                   *)
(* Checkers are named by their kind.                                       *)
(* Submitter w1 and the reconcile job are tasks of one worker process and  *)
(* lease under one id, w2 belongs to a second process, and the status sync *)
(* has an id of its own.                                                   *)
(***************************************************************************)
EXTENDS SettlementEngine

MCShareOf      == [s \in Settlements |-> IF s = "s4" THEN None ELSE "x1"]
MCKeyOf        == [s \in Settlements |-> IF s \in {"s1", "s3"} THEN "k" ELSE None]
MCSettlementOf == [e \in Envelopes |-> IF "s1" \in Settlements THEN "s1" ELSE "s4"]
MCKindOf       == [c \in Checkers |-> c]
MCOwners       == {"A", "B", "A-sync"}
MCOwnerOf      == [p \in Submitters \cup Checkers |->
                      CASE p = "w2"   -> "B"
                        [] p = "sync" -> "A-sync"
                        [] OTHER      -> "A"]
=============================================================================
