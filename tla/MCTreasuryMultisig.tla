------------------------- MODULE MCTreasuryMultisig -------------------------
(***************************************************************************)
(* Three signers and three requests: two signers who sign alone, and an    *)
(* envelope two wallets have signed in turn.  One of the latter two leaves *)
(* the group while the requests that carry it run.                         *)
(***************************************************************************)
EXTENDS TreasuryMultisig

MCCarries == [r \in Signings |-> CASE r = "r1" -> {"a"}
                                   [] r = "r2" -> {"b"}
                                   [] OTHER -> {"b", "c"}]

MCLoads == {[requests |-> Signings, leavers |-> {}],
            [requests |-> {"r2", "r3"}, leavers |-> {"b"}]}
=============================================================================
