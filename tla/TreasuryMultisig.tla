-------------------------- MODULE TreasuryMultisig --------------------------
(***************************************************************************)
(* One multisig proposal of a group treasury, from its creation until the  *)
(* collected signatures are merged and sent to the network.  Two services  *)
(* run this protocol on tables of their own:                               *)
(*                                                                         *)
(*  - "array": treasury-proposals.ts, whose TreasuryProposal row keeps the *)
(*    signatures it counts in a JSON array, next to TreasuryApproval rows; *)
(*  - "rows": treasury-signatures.ts, which counts TreasurySignature rows. *)
(*                                                                         *)
(* A request is one interactive transaction at READ COMMITTED.  The read   *)
(* of the proposal is a plain findUnique: it takes no lock, and only the   *)
(* UPDATE that ends the collection does.  A signer stands for the group    *)
(* member, the public key and the verified signature, one unit of weight.  *)
(***************************************************************************)
EXTENDS Integers, FiniteSets

CONSTANTS
    Members,     \* those who are entitled to sign, as long as they are in the group
    Signings,    \* sign requests in flight
    Carries,     \* request -> the signers whose signatures its envelope carries
    Thresholds,  \* values of treasuryRequiredSigners, or of the account's high threshold
    Unlocked,    \* no transaction holds the row's lock
    Loads,       \* bound: the requests that run, and who may leave the group and return
    MaxAborts    \* bound: crashes, transaction timeouts, answers lost

ASSUME TreasuryAssumption ==
    /\ IsFiniteSet(Members)
    /\ Carries \in [Signings -> SUBSET Members]
    /\ Thresholds \subseteq Nat
    /\ Loads \subseteq [requests : SUBSET Signings, leavers : SUBSET Members]
    /\ Unlocked \notin Signings
    /\ MaxAborts \in Nat

VARIABLES
    flow,        \* which of the two services
    threshold,   \* signers the proposal needs
    status,      \* of the proposal; "done" is confirmed, or SUBMITTED
    counted,     \* the array of signatures of the proposal row
    approvals,   \* the signers with a committed approval or signature row
    members,     \* who is in the group
    departed,    \* who has left it at some time
    at,          \* per request: where it is,
    admitted,    \* the members its route has read,
    fresh,       \* the rows it adds,
    rowless,     \* the new signatures it adds no row for,
    tally,       \* the signatures it has
    lock,        \* the transaction that has updated the proposal row
    network,     \* the proposed transaction: "open", "applied", "dead"
    paidBy,      \* the signatures on the envelope that was applied
    aborts, load

rowVars == <<flow, threshold, status, counted, approvals>>
groupVars == <<members, departed, load>>
netVars == <<network, paidBy, aborts>>
txVars  == <<at, admitted, fresh, rowless, tally, lock>>
multisigVars == <<rowVars, groupVars, netVars, txVars>>

Points == {"idle", "open", "verify", "insert", "tally", "decide", "send", "record"}

MultisigInit ==
    /\ flow \in {"array", "rows"}
    /\ threshold \in Thresholds
    /\ status = "absent"
    /\ counted = {} /\ approvals = {}
    /\ members = Members /\ departed = {}
    /\ at = [r \in Signings |-> "idle"]
    /\ admitted = [r \in Signings |-> {}]
    /\ fresh = [r \in Signings |-> {}] /\ rowless = [r \in Signings |-> {}]
    /\ tally = [r \in Signings |-> {}]
    /\ lock = Unlocked
    /\ network = "open" /\ paidBy = {}
    /\ aborts = 0 /\ load \in Loads

-----------------------------------------------------------------------------
(* An admin proposes a payment, whose envelope the server builds ... *)
Create ==
    /\ flow = "array" /\ status = "absent"
    /\ status' = IF threshold > 1 THEN "awaiting" ELSE "pending"
    /\ UNCHANGED <<flow, threshold, counted, approvals, groupVars, netVars, txVars>>

(* ... or hands in an unsigned envelope built elsewhere. *)
CreateProposal ==
    /\ flow = "rows" /\ status = "absent"
    /\ status' = "awaiting"
    /\ UNCHANGED <<flow, threshold, counted, approvals, groupVars, netVars, txVars>>

(* A member is removed from the group, or joins it again. *)
Leave(m) ==
    /\ flow = "array" /\ m \in members
    /\ members' = members \ {m} /\ departed' = departed \cup {m}
    /\ UNCHANGED <<load, rowVars, netVars, txVars>>

Return(m) ==
    /\ flow = "array" /\ m \notin members
    /\ members' = members \cup {m}
    /\ UNCHANGED <<departed, load, rowVars, netVars, txVars>>

(* A transaction ends: its snapshot and its lock are gone, and with a      *)
(* rollback the rows it added too.                                         *)
EndTransaction(r) ==
    /\ at' = [at EXCEPT ![r] = "idle"]
    /\ admitted' = [admitted EXCEPT ![r] = {}]
    /\ fresh' = [fresh EXCEPT ![r] = {}]
    /\ rowless' = [rowless EXCEPT ![r] = {}]
    /\ tally' = [tally EXCEPT ![r] = {}]
    /\ lock' = IF lock = r THEN Unlocked ELSE lock

Rollback(r) == EndTransaction(r) /\ UNCHANGED rowVars

Goto(r, point) == at' = [at EXCEPT ![r] = point]

(* The route reads the group's members, whose signatures are accepted. *)
Enter(r) ==
    /\ flow = "array" /\ r \in load.requests
    /\ at[r] = "idle" /\ status # "absent"
    /\ Goto(r, "open")
    /\ admitted' = [admitted EXCEPT ![r] = members]
    /\ UNCHANGED <<fresh, rowless, tally, lock, rowVars, groupVars, netVars>>

(* the proposal as it is committed; a finished one is answered 409 *)
Opened(r, point, known) ==
    /\ at[r] = point
    /\ status \in {"pending", "awaiting", "expired"}
    /\ Goto(r, "verify")
    /\ tally' = [tally EXCEPT ![r] = known]
    /\ UNCHANGED <<admitted, fresh, rowless, lock, rowVars, groupVars, netVars>>

(* submitSignatures reads the array with it, submitSignature does not *)
BeginArray(r) == flow = "array" /\ Opened(r, "open", counted)

BeginRows(r) == flow = "rows" /\ r \in load.requests /\ Opened(r, "idle", {})

Begin(r) == BeginArray(r) \/ BeginRows(r)

(* a proposal finished since the route was entered *)
Conflict(r) ==
    /\ at[r] = "open" /\ status = "done"
    /\ Rollback(r)
    /\ UNCHANGED <<groupVars, netVars>>

(* The envelope must be the proposal's and the signatures on it verify;    *)
(* a stranger's is skipped for the array and refused for the rows.  The    *)
(* new ones are those of signers not yet known.                            *)
New(r, rows, others) ==
    /\ at[r] = "verify"
    /\ Goto(r, "insert")
    /\ fresh' = [fresh EXCEPT ![r] = rows]
    /\ rowless' = [rowless EXCEPT ![r] = others]
    /\ admitted' = [admitted EXCEPT ![r] = {}]
    /\ UNCHANGED <<tally, lock, rowVars, groupVars, netVars>>

(* The members are read again for their user ids: one who has left since   *)
(* the route read them has none, and is counted without an approval row.   *)
VerifyArray(r) ==
    LET new == (Carries[r] \cap admitted[r]) \ (tally[r] \cup (approvals \cap members)) IN
    flow = "array" /\ New(r, new \cap members, new \ members)

VerifyRows(r) == flow = "rows" /\ New(r, Carries[r] \ approvals, {})

Verify(r) == VerifyArray(r) \/ VerifyRows(r)

(* rows another transaction has added and not yet committed *)
Inserted(r) == IF at[r] \in {"tally", "decide", "send", "record"} THEN fresh[r] ELSE {}

(* The rows are added, one per signer.  The unique index makes an insert   *)
(* wait for a transaction that added the same signer; against a committed  *)
(* row it fails, and PostgreSQL then refuses what is left of the           *)
(* transaction, the caught P2002 notwithstanding.                          *)
Insert(r) ==
    /\ at[r] = "insert"
    /\ \A s \in Signings \ {r} : Inserted(s) \cap fresh[r] = {}
    /\ IF fresh[r] \cap approvals = {}
       THEN Goto(r, "tally") /\ UNCHANGED <<admitted, fresh, rowless, tally, lock, rowVars>>
       ELSE Rollback(r)
    /\ UNCHANGED <<groupVars, netVars>>

(* mutant: only the rows of this request are counted *)
TallyOwnRows(r) ==
    /\ at[r] = "tally"
    /\ Goto(r, "decide")
    /\ tally' = [tally EXCEPT ![r] =
                    fresh[r] \cup (IF flow = "array" THEN rowless[r] \cup tally[r] ELSE {})]
    /\ rowless' = [rowless EXCEPT ![r] = {}]
    /\ UNCHANGED <<admitted, fresh, lock, rowVars, groupVars, netVars>>

(* What is counted: the array as first read and the new signatures, or the *)
(* rows this transaction can see by now.                                   *)
Tally(r) ==
    /\ at[r] = "tally"
    /\ Goto(r, "decide")
    /\ tally' = [tally EXCEPT ![r] =
                    fresh[r] \cup (IF flow = "array" THEN rowless[r] \cup tally[r] ELSE approvals)]
    /\ rowless' = [rowless EXCEPT ![r] = {}]
    /\ UNCHANGED <<admitted, fresh, lock, rowVars, groupVars, netVars>>

(* mutant: one signature short *)
MeetsThresholdShort(r) == Cardinality(tally[r]) + 1 >= threshold

MeetsThreshold(r) == Cardinality(tally[r]) >= threshold

(* mutant: the array is stored over with this request's signatures alone *)
CommitFreshOnly(r, st) ==
    /\ status' = st
    /\ counted' = IF flow = "array" THEN fresh[r] ELSE counted
    /\ approvals' = approvals \cup fresh[r]
    /\ EndTransaction(r)
    /\ UNCHANGED <<flow, threshold>>

(* The transaction's writes become visible: the status, the array it wrote *)
(* over whatever was there, the rows it added.                             *)
Commit(r, st) ==
    /\ status' = st
    /\ counted' = IF flow = "array" THEN tally[r] ELSE counted
    /\ approvals' = approvals \cup fresh[r]
    /\ EndTransaction(r)
    /\ UNCHANGED <<flow, threshold>>

(* The update by id, behind any other that holds the row.  Short of the    *)
(* threshold the transaction is over; otherwise it keeps the lock and goes *)
(* to the network, its status (submitted, READY) seen by no one.           *)
Decide(r) ==
    /\ at[r] = "decide"
    /\ lock = Unlocked
    /\ IF MeetsThreshold(r)
       THEN Goto(r, "send") /\ lock' = r /\ UNCHANGED <<admitted, fresh, rowless, tally, rowVars>>
       ELSE Commit(r, "awaiting")
    /\ UNCHANGED <<groupVars, netVars>>

(* the network applies the transaction once, whatever envelope brings it *)
Applies(r) ==
    /\ network \in {"open", "applied"}
    /\ network' = "applied"
    /\ paidBy' = IF network = "open" THEN tally[r] ELSE paidBy

Fault == aborts < MaxAborts /\ aborts' = aborts + 1

(* mergeAndSubmit: accepted; refused, or never sent; accepted with the     *)
(* answer lost.  Both failures write "failed" and then throw, which rolls  *)
(* that write back with everything else.                                   *)
Send(r) ==
    /\ at[r] = "send"
    /\ \/ /\ Applies(r) /\ UNCHANGED aborts
          /\ Goto(r, "record") /\ UNCHANGED <<admitted, fresh, rowless, tally, lock, rowVars>>
       \/ UNCHANGED netVars /\ Rollback(r)
       \/ Applies(r) /\ Fault /\ Rollback(r)
    /\ UNCHANGED groupVars

Record(r) ==
    /\ at[r] = "record"
    /\ Commit(r, "done")
    /\ UNCHANGED <<groupVars, netVars>>

(* the 15 s transaction timeout, a lost connection, a dead process *)
Abort(r) ==
    /\ at[r] # "idle"
    /\ Fault
    /\ Rollback(r)
    /\ UNCHANGED <<network, paidBy, groupVars>>

(* the sweep of stale proposals: a conditional update behind the row lock *)
Expire ==
    /\ flow = "array" /\ status = "pending"
    /\ lock = Unlocked
    /\ status' = "expired"
    /\ UNCHANGED <<flow, threshold, counted, approvals, groupVars, netVars, txVars>>

(* time bounds lapse, or another transaction takes the sequence number *)
Die ==
    /\ network = "open"
    /\ network' = "dead"
    /\ UNCHANGED <<paidBy, aborts, rowVars, groupVars, txVars>>

Step(r) ==
    \/ Enter(r) \/ Begin(r) \/ Conflict(r) \/ Verify(r) \/ Insert(r) \/ Tally(r) \/ Decide(r)
    \/ Send(r) \/ Record(r)

MultisigNext ==
    \/ Create \/ CreateProposal \/ Expire \/ Die
    \/ \E m \in load.leavers : Leave(m) \/ Return(m)
    \/ \E r \in Signings : Step(r) \/ Abort(r)

MultisigSpec == MultisigInit /\ [][MultisigNext]_multisigVars

(* Requests run to their end and signers send theirs again; an envelope    *)
(* that is sent again and again is accepted, unless it is dead.            *)
MultisigFairness ==
    \A r \in Signings :
        /\ WF_multisigVars(Step(r))
        /\ SF_multisigVars(Send(r) /\ at'[r] = "record")
        /\ SF_multisigVars(Decide(r))

MultisigFairSpec == MultisigSpec /\ MultisigFairness

-----------------------------------------------------------------------------
(* Every variable has its type. *)
TypeOK ==
    /\ flow \in {"array", "rows"}
    /\ threshold \in Nat
    /\ status \in {"absent", "pending", "awaiting", "expired", "done"}
    /\ counted \subseteq Members /\ approvals \subseteq Members
    /\ members \subseteq Members /\ departed \subseteq Members
    /\ at \in [Signings -> Points]
    /\ admitted \in [Signings -> SUBSET Members]
    /\ fresh \in [Signings -> SUBSET Members] /\ rowless \in [Signings -> SUBSET Members]
    /\ tally \in [Signings -> SUBSET Members]
    /\ lock \in Signings \cup {Unlocked}
    /\ network \in {"open", "applied", "dead"}
    /\ paidBy \subseteq Members
    /\ aborts \in Nat /\ load \in Loads

(* The treasury pays only on an envelope with enough signers, whichever    *)
(* requests collected them and however they overlapped or failed.          *)
PaidByThreshold == network = "applied" => Cardinality(paidBy) >= threshold

(* A proposal reported confirmed (SUBMITTED) was applied by the network,   *)
(* and as many signers as it needs have a durable row to show for it,      *)
(* those of the array who have left the group aside.                       *)
DoneIsBacked ==
    status = "done" =>
        /\ network = "applied"
        /\ Cardinality(approvals \cup (IF flow = "array" THEN departed ELSE {})) >= threshold

(* The array counts a signature that has no approval row only of one who   *)
(* has left the group, between the route's read of the members and the     *)
(* transaction's: after a rollback both are gone, and no race of requests  *)
(* counts a member without its row.                                        *)
CountedIsApproved == counted \subseteq approvals \cup departed

(* Where signatures are rows, a proposal with enough of them is sent in    *)
(* the end, as long as its signers keep sending and its envelope is good:  *)
(* two signers who miss each other's row do not strand it.                 *)
SignedIsSent ==
    flow = "rows" /\ Cardinality(approvals) >= threshold
        ~> status = "done" \/ network = "dead"

(* Where signatures are an array, an approval on record is left out of it  *)
(* only by a request that read the array before another's was committed.   *)
ApprovalLostOnlyToRace ==
    [][flow = "array" /\ approvals \subseteq counted /\ ~ (approvals' \subseteq counted')
          => \E r \in Signings : /\ at[r] # "idle" /\ at'[r] = "idle"
                                /\ ~ (counted \subseteq tally[r])]_multisigVars
=============================================================================
