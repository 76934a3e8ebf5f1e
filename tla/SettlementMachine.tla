------------------------- MODULE SettlementMachine -------------------------
(***************************************************************************)
(* The settlement state machine, src/src/services/settlement-machine.ts:   *)
(* the statuses of a settlement row and the hops applySettlementTransition *)
(* will make.  Every other module takes its statuses from here.            *)
(***************************************************************************)

(* SETTLEMENT_STATUSES *)
SettlementStatuses ==
    {"pending", "submitted", "verifying", "pending_confirmation",
     "confirmed", "failed", "expired", "needs_review"}

(* ALLOWED_TRANSITIONS, as the set of statuses each one may hop to *)
AllowedTransitions ==
    [from \in SettlementStatuses |->
        CASE from = "pending"              -> {"submitted", "failed"}
          [] from = "submitted"            -> {"verifying", "failed"}
          [] from = "verifying"            -> {"confirmed", "failed",
                                               "needs_review", "submitted"}
          [] from = "pending_confirmation" -> {"confirmed", "failed", "expired"}
          [] from = "needs_review"         -> {"confirmed", "failed",
                                               "pending_confirmation", "expired"}
          [] OTHER                         -> {}]

(* canTransitionSettlementStatus.  A row that does not exist yet ("none")  *)
(* has no entry in the table, so it can hop nowhere.                       *)
CanTransition(from, to) ==
    from \in SettlementStatuses /\ to \in AllowedTransitions[from]

(* SUBMITTABLE_STATUSES and RECONCILABLE_STATUSES of the worker *)
Submittable  == {"submitted", "verifying"}
Reconcilable == {"pending_confirmation", "needs_review"}
=============================================================================
