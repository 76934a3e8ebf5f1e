-------------------------- MODULE MCAnchorTracking --------------------------
(* Small instances of AnchorTracking for TLC *)
EXTENDS AnchorTracking

(* a status before the end, one outside the SEP-24 set, and three outcomes *)
MCReports ==
    [t \in Txs |-> {"pending_anchor", "other", "completed", "error", "refunded"}]
=============================================================================
