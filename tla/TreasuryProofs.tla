--------------------------- MODULE TreasuryProofs ---------------------------
(***************************************************************************)
(* What the treasury guarantees, whatever the number of signers, intents   *)
(* and overlapping, failing and repeated requests.  The two signature      *)
(* collections pay on a threshold, and an approval is lost to a race only. *)
(* An intent is paid once and as agreed, its row tells the truth for good, *)
(* and what the API issues it accepts.                                     *)
(***************************************************************************)
EXTENDS TreasuryMultisig, TreasuryIntent, FiniteSetTheorems,
        WellFoundedInduction, TLAPS

(* Every signature a transaction has read or counts has a row, a committed *)
(* one or one the transaction adds itself, or is of one who has left.      *)
TallyBacked ==
    \A r \in Signings :
        /\ at[r] \notin {"idle", "open"} => tally[r] \subseteq approvals \cup departed \cup fresh[r]
        /\ at[r] \in {"verify", "insert"} => tally[r] \subseteq approvals \cup departed
        /\ rowless[r] \subseteq departed /\ admitted[r] \subseteq members \cup departed

(* Only the members that the array's signers are read from leave. *)
LeaveTheArray == flow = "rows" => departed = {}

(* Only a full collection is sent, and only an applied one is recorded. *)
SentIsFull ==
    \A r \in Signings :
        /\ at[r] \in {"send", "record"} => Cardinality(tally[r]) >= threshold
        /\ at[r] = "record" => network = "applied"

CollectInv ==
    /\ TypeOK
    /\ CountedIsApproved
    /\ TallyBacked
    /\ LeaveTheArray
    /\ SentIsFull
    /\ PaidByThreshold
    /\ DoneIsBacked

(* A larger set of signers is no smaller in number. *)
LEMMA MoreSigners ==
    ASSUME NEW S \in SUBSET Members, NEW T \in SUBSET Members, S \subseteq T
    PROVE  /\ Cardinality(S) \in Nat /\ Cardinality(T) \in Nat
           /\ Cardinality(S) =< Cardinality(T)
<1>1. IsFiniteSet(S) /\ IsFiniteSet(T)
    BY TreasuryAssumption, FS_Subset
<1> QED
    BY <1>1, FS_Subset, FS_CardinalityType

LEMMA CollectInit == MultisigInit => CollectInv
BY TreasuryAssumption
   DEF MultisigInit, CollectInv, TypeOK, CountedIsApproved, TallyBacked, LeaveTheArray,
       SentIsFull, PaidByThreshold, DoneIsBacked, Points

-----------------------------------------------------------------------------
LEMMA TypeStep == TypeOK /\ [MultisigNext]_multisigVars => TypeOK'
<1> SUFFICES ASSUME TypeOK, [MultisigNext]_multisigVars PROVE TypeOK'
    OBVIOUS
<1> USE TreasuryAssumption DEF TypeOK, Points
<1>1. CASE UNCHANGED multisigVars
    BY <1>1 DEF multisigVars, rowVars, groupVars, netVars, txVars
<1>2. CASE Create \/ CreateProposal
    BY <1>2 DEF Create, CreateProposal, groupVars, netVars, txVars
<1>3. CASE Expire
    BY <1>3 DEF Expire, groupVars, netVars, txVars
<1>4. CASE Die
    BY <1>4 DEF Die, rowVars, groupVars, txVars
<1>5. ASSUME NEW r \in Signings, Begin(r) PROVE TypeOK'
    BY <1>5 DEF Begin, BeginArray, BeginRows, Opened, Goto, rowVars, groupVars, netVars
<1>6. ASSUME NEW r \in Signings, Verify(r) PROVE TypeOK'
    BY <1>6 DEF Verify, VerifyArray, VerifyRows, New, Goto, rowVars, groupVars, netVars
<1>7. ASSUME NEW r \in Signings, Insert(r) PROVE TypeOK'
    BY <1>7 DEF Insert, Goto, Rollback, EndTransaction, rowVars, groupVars, netVars
<1>8. ASSUME NEW r \in Signings, Tally(r) PROVE TypeOK'
    BY <1>8 DEF Tally, Goto, rowVars, groupVars, netVars
<1>9. ASSUME NEW r \in Signings, Decide(r) PROVE TypeOK'
    BY <1>9 DEF Decide, Goto, Commit, EndTransaction, rowVars, groupVars, netVars
<1>10. ASSUME NEW r \in Signings, Send(r) PROVE TypeOK'
    BY <1>10 DEF Send, Applies, Fault, Goto, Rollback, EndTransaction, rowVars, groupVars, netVars
<1>11. ASSUME NEW r \in Signings, Record(r) PROVE TypeOK'
    BY <1>11 DEF Record, Commit, EndTransaction, groupVars, netVars
<1>12. ASSUME NEW r \in Signings, Abort(r) PROVE TypeOK'
    BY <1>12 DEF Abort, Fault, Rollback, EndTransaction, rowVars, groupVars
<1>13. ASSUME NEW m \in Members, Leave(m) \/ Return(m) PROVE TypeOK'
    BY <1>13 DEF Leave, Return, rowVars, netVars, txVars
<1>14. ASSUME NEW r \in Signings, Enter(r) PROVE TypeOK'
    BY <1>14 DEF Enter, Goto, rowVars, groupVars, netVars
<1>15. ASSUME NEW r \in Signings, Conflict(r) PROVE TypeOK'
    BY <1>15 DEF Conflict, Rollback, EndTransaction, rowVars, groupVars, netVars
<1>16. load.leavers \subseteq Members
    OBVIOUS
<1> QED
    BY <1>1, <1>2, <1>3, <1>4, <1>5, <1>6, <1>7, <1>8, <1>9, <1>10, <1>11, <1>12, <1>13, <1>14,
       <1>15, <1>16
       DEF MultisigNext, Step

(* A transaction that is rolled back disturbs nothing. *)
LEMMA RollbackKeeps ==
    ASSUME CollectInv, TypeOK', NEW r \in Signings, Rollback(r), UNCHANGED groupVars,
           \/ network' = network /\ paidBy' = paidBy
           \/ Applies(r) /\ at[r] = "send"
    PROVE  CollectInv'
<1>1. /\ at \in [Signings -> Points] /\ fresh \in [Signings -> SUBSET Members]
      /\ tally \in [Signings -> SUBSET Members] /\ rowless \in [Signings -> SUBSET Members]
      /\ admitted \in [Signings -> SUBSET Members]
    BY DEF CollectInv, TypeOK
<1>2. CountedIsApproved' /\ TallyBacked' /\ LeaveTheArray'
    BY <1>1 DEF CollectInv, Rollback, EndTransaction, rowVars, groupVars, CountedIsApproved,
                TallyBacked, LeaveTheArray
<1>3. SentIsFull'
    BY <1>1 DEF CollectInv, Rollback, EndTransaction, rowVars, Applies, SentIsFull
<1>4. PaidByThreshold'
    BY DEF CollectInv, Rollback, rowVars, Applies, SentIsFull, PaidByThreshold
<1>5. DoneIsBacked'
    BY DEF CollectInv, Rollback, rowVars, groupVars, Applies, DoneIsBacked
<1> QED
    BY <1>2, <1>3, <1>4, <1>5 DEF CollectInv

(* A commit keeps everything, if what it reports as done was applied. *)
LEMMA CommitKeeps ==
    ASSUME CollectInv, TypeOK', NEW r \in Signings, NEW st, Commit(r, st),
           UNCHANGED <<groupVars, netVars>>, at[r] \in {"decide", "record"},
           st = "done" => at[r] = "record"
    PROVE  CollectInv'
<1>1. /\ at \in [Signings -> Points] /\ fresh \in [Signings -> SUBSET Members]
      /\ tally \in [Signings -> SUBSET Members] /\ approvals \subseteq Members
      /\ rowless \in [Signings -> SUBSET Members] /\ admitted \in [Signings -> SUBSET Members]
      /\ threshold \in Nat /\ departed \subseteq Members
    BY DEF CollectInv, TypeOK
<1>2. /\ tally[r] \subseteq approvals' \cup departed /\ approvals \subseteq approvals'
      /\ departed' = departed /\ members' = members
    BY DEF CollectInv, TallyBacked, Commit, groupVars
<1>3. CountedIsApproved' /\ LeaveTheArray'
    BY <1>2 DEF CollectInv, CountedIsApproved, LeaveTheArray, Commit
<1>4. TallyBacked'
    BY <1>1, <1>2 DEF CollectInv, TallyBacked, Commit, EndTransaction
<1>5. SentIsFull'
    BY <1>1 DEF CollectInv, SentIsFull, Commit, EndTransaction, groupVars, netVars
<1>6. PaidByThreshold'
    BY DEF CollectInv, PaidByThreshold, Commit, groupVars, netVars
<1>7. DoneIsBacked'
    <2> DEFINE B == approvals' \cup (IF flow = "array" THEN departed ELSE {})
    <2> SUFFICES ASSUME status' = "done"
                 PROVE  network' = "applied" /\ Cardinality(B) >= threshold'
        BY <1>2 DEF DoneIsBacked, Commit
    <2>1. /\ network = "applied" /\ Cardinality(tally[r]) >= threshold
        BY DEF Commit, CollectInv, SentIsFull
    <2>2. tally[r] \in SUBSET Members /\ B \in SUBSET Members
        BY <1>1 DEF Commit
    <2>3. tally[r] \subseteq B
        BY <1>2 DEF CollectInv, LeaveTheArray, TypeOK
    <2>4. /\ Cardinality(tally[r]) \in Nat /\ Cardinality(B) \in Nat
          /\ Cardinality(tally[r]) =< Cardinality(B)
        BY <2>2, <2>3, MoreSigners
    <2>5. threshold' = threshold /\ network' = network
        BY DEF Commit, netVars
    <2> HIDE DEF B
    <2> QED
        BY <1>1, <2>1, <2>4, <2>5
<1> QED
    BY <1>3, <1>4, <1>5, <1>6, <1>7 DEF CollectInv

LEMMA CollectStep == CollectInv /\ [MultisigNext]_multisigVars => CollectInv'
<1> SUFFICES ASSUME CollectInv, [MultisigNext]_multisigVars PROVE CollectInv'
    OBVIOUS
<1>0. /\ TypeOK /\ TypeOK'
      /\ at \in [Signings -> Points] /\ fresh \in [Signings -> SUBSET Members]
      /\ tally \in [Signings -> SUBSET Members] /\ rowless \in [Signings -> SUBSET Members]
      /\ admitted \in [Signings -> SUBSET Members] /\ load.leavers \subseteq Members
    BY TypeStep, TreasuryAssumption DEF CollectInv, TypeOK
<1> USE DEF CountedIsApproved, TallyBacked, LeaveTheArray, SentIsFull, PaidByThreshold, DoneIsBacked
<1>1. CASE UNCHANGED multisigVars
    BY <1>0, <1>1 DEF multisigVars, rowVars, groupVars, netVars, txVars, CollectInv
<1>2. CASE Create \/ CreateProposal
    BY <1>0, <1>2 DEF Create, CreateProposal, groupVars, netVars, txVars, CollectInv
<1>3. CASE Expire
    BY <1>0, <1>3 DEF Expire, groupVars, netVars, txVars, CollectInv
<1>4. CASE Die
    BY <1>0, <1>4 DEF Die, rowVars, groupVars, txVars, CollectInv
<1>5. ASSUME NEW r \in Signings, Begin(r) PROVE CollectInv'
    BY <1>0, <1>5 DEF Begin, BeginArray, BeginRows, Opened, Goto, rowVars, groupVars, netVars, CollectInv
<1>6. ASSUME NEW r \in Signings, Verify(r) PROVE CollectInv'
    <2>1. PICK rows, others : New(r, rows, others) /\ others \subseteq departed
        BY <1>0, <1>6 DEF Verify, VerifyArray, VerifyRows, CollectInv
    <2> QED
        BY <1>0, <2>1 DEF New, Goto, rowVars, groupVars, netVars, CollectInv
<1>7. ASSUME NEW r \in Signings, Insert(r) PROVE CollectInv'
    <2>1. CASE Goto(r, "tally") /\ UNCHANGED <<admitted, fresh, rowless, tally, lock, rowVars>>
        BY <1>0, <1>7, <2>1 DEF Insert, Goto, rowVars, groupVars, netVars, CollectInv
    <2>2. CASE Rollback(r)
        <3>1. network' = network /\ paidBy' = paidBy /\ UNCHANGED groupVars
            BY <1>7 DEF Insert, groupVars, netVars
        <3> QED
            BY <1>0, <2>2, <3>1, RollbackKeeps
    <2> QED
        BY <1>7, <2>1, <2>2 DEF Insert
<1>8. ASSUME NEW r \in Signings, Tally(r) PROVE CollectInv'
    BY <1>0, <1>8 DEF Tally, Goto, rowVars, groupVars, netVars, CollectInv
<1>9. ASSUME NEW r \in Signings, Decide(r) PROVE CollectInv'
    <2>1. CASE MeetsThreshold(r)
        BY <1>0, <1>9, <2>1 DEF Decide, MeetsThreshold, Goto, rowVars, groupVars, netVars, CollectInv
    <2>2. CASE ~ MeetsThreshold(r)
        BY <1>0, <1>9, <2>2, CommitKeeps DEF Decide
    <2> QED
        BY <2>1, <2>2
<1>10. ASSUME NEW r \in Signings, Send(r) PROVE CollectInv'
    <2>1. CASE /\ Applies(r) /\ UNCHANGED aborts
               /\ Goto(r, "record") /\ UNCHANGED <<admitted, fresh, rowless, tally, lock, rowVars>>
        BY <1>0, <1>10, <2>1 DEF Send, Applies, Goto, rowVars, groupVars, CollectInv
    <2>2. CASE Rollback(r)
        BY <1>0, <1>10, <2>2, RollbackKeeps DEF Send, groupVars, netVars
    <2> QED
        BY <1>10, <2>1, <2>2 DEF Send
<1>11. ASSUME NEW r \in Signings, Record(r) PROVE CollectInv'
    BY <1>0, <1>11, CommitKeeps DEF Record
<1>12. ASSUME NEW r \in Signings, Abort(r) PROVE CollectInv'
    <2>1. Rollback(r) /\ network' = network /\ paidBy' = paidBy /\ UNCHANGED groupVars
        BY <1>12 DEF Abort, groupVars
    <2> QED
        BY <1>0, <2>1, RollbackKeeps
<1>13. ASSUME NEW m \in Members, Leave(m) \/ Return(m) PROVE CollectInv'
    <2>1. CountedIsApproved' /\ TallyBacked' /\ LeaveTheArray' /\ SentIsFull' /\ PaidByThreshold'
        BY <1>0, <1>13 DEF Leave, Return, rowVars, netVars, txVars, CollectInv
    <2>2. DoneIsBacked'
        <3> DEFINE B(d) == approvals \cup (IF flow = "array" THEN d ELSE {})
        <3>1. B(departed) \in SUBSET Members /\ B(departed') \in SUBSET Members
            BY <1>0 DEF Leave, Return, rowVars, TypeOK
        <3>2. B(departed) \subseteq B(departed')
            BY <1>13 DEF Leave, Return
        <3>3. /\ Cardinality(B(departed)) \in Nat /\ Cardinality(B(departed')) \in Nat
              /\ Cardinality(B(departed)) =< Cardinality(B(departed'))
            BY <3>1, <3>2, MoreSigners
        <3>4. /\ status' = status /\ network' = network /\ threshold' = threshold
              /\ approvals' = approvals /\ flow' = flow /\ threshold \in Nat
            BY <1>0, <1>13 DEF Leave, Return, rowVars, netVars, TypeOK
        <3>5. status = "done" => network = "applied" /\ Cardinality(B(departed)) >= threshold
            BY DEF CollectInv
        <3>6. status = "done" => network = "applied" /\ Cardinality(B(departed')) >= threshold
            <4> HIDE DEF B
            <4> QED
                BY <3>3, <3>4, <3>5
        <3> QED
            BY <3>4, <3>6
    <2> QED
        BY <1>0, <2>1, <2>2 DEF CollectInv
<1>14. ASSUME NEW r \in Signings, Enter(r) PROVE CollectInv'
    BY <1>0, <1>14 DEF Enter, Goto, rowVars, groupVars, netVars, CollectInv
<1>15. ASSUME NEW r \in Signings, Conflict(r) PROVE CollectInv'
    BY <1>0, <1>15, RollbackKeeps DEF Conflict, netVars
<1> QED
    BY <1>0, <1>1, <1>2, <1>3, <1>4, <1>5, <1>6, <1>7, <1>8, <1>9, <1>10, <1>11, <1>12, <1>13, <1>14,
       <1>15
       DEF MultisigNext, Step

-----------------------------------------------------------------------------
(* Every reachable state of a proposal, its transactions and the network   *)
(* is well typed; in particular no status but a finished one's is ever     *)
(* committed by the transaction that sends the envelope.                   *)
THEOREM TypeCorrect == MultisigSpec => []TypeOK
<1>1. CollectInv => TypeOK
    BY DEF CollectInv
<1> QED
    BY CollectInit, CollectStep, <1>1, PTL DEF MultisigSpec

(* The treasury never pays on fewer signers than the proposal needs, for   *)
(* any number of requests that race, fail or time out.                     *)
THEOREM PaidOnlyByThreshold == MultisigSpec => []PaidByThreshold
<1>1. CollectInv => PaidByThreshold
    BY DEF CollectInv
<1> QED
    BY CollectInit, CollectStep, <1>1, PTL DEF MultisigSpec

(* A proposal reported confirmed was applied by the network, and as many   *)
(* signers as it needs have a durable row or, where they are kept in an    *)
(* array, have left the group.                                             *)
THEOREM DoneOnlyWhenBacked == MultisigSpec => []DoneIsBacked
<1>1. CollectInv => DoneIsBacked
    BY DEF CollectInv
<1> QED
    BY CollectInit, CollectStep, <1>1, PTL DEF MultisigSpec

(* No signature is ever counted that has no approval row, but of one who   *)
(* has left the group.                                                     *)
THEOREM CountedOnlyWhenApproved == MultisigSpec => []CountedIsApproved
<1>1. CollectInv => CountedIsApproved
    BY DEF CollectInv
<1> QED
    BY CollectInit, CollectStep, <1>1, PTL DEF MultisigSpec

-----------------------------------------------------------------------------
(* A request counts the signatures it adds. *)
FreshIsTallied ==
    \A r \in Signings : at[r] \in {"decide", "send", "record"} => fresh[r] \subseteq tally[r]

LEMMA FreshStaysTallied ==
    ASSUME TypeOK, FreshIsTallied, [MultisigNext]_multisigVars
    PROVE FreshIsTallied'
<1> SUFFICES ASSUME NEW q \in Signings, at'[q] \in {"decide", "send", "record"}
             PROVE fresh'[q] \subseteq tally'[q]
    BY DEF FreshIsTallied
<1> USE DEF TypeOK, FreshIsTallied, Points
<1>1. CASE UNCHANGED txVars
    BY <1>1 DEF txVars
<1>2. ASSUME NEW r \in Signings, Begin(r) PROVE fresh'[q] \subseteq tally'[q]
    BY <1>2 DEF Begin, BeginArray, BeginRows, Opened, Goto
<1>3. ASSUME NEW r \in Signings, Verify(r) PROVE fresh'[q] \subseteq tally'[q]
    BY <1>3 DEF Verify, VerifyArray, VerifyRows, New, Goto
<1>4. ASSUME NEW r \in Signings, EndTransaction(r) PROVE fresh'[q] \subseteq tally'[q]
    BY <1>4 DEF EndTransaction
<1>5. ASSUME NEW r \in Signings, Insert(r) PROVE fresh'[q] \subseteq tally'[q]
    BY <1>4, <1>5 DEF Insert, Goto, Rollback
<1>6. ASSUME NEW r \in Signings, Tally(r) PROVE fresh'[q] \subseteq tally'[q]
    BY <1>6 DEF Tally, Goto
<1>7. ASSUME NEW r \in Signings, Decide(r) PROVE fresh'[q] \subseteq tally'[q]
    BY <1>4, <1>7 DEF Decide, Goto, Commit
<1>8. ASSUME NEW r \in Signings, Send(r) PROVE fresh'[q] \subseteq tally'[q]
    BY <1>4, <1>8 DEF Send, Goto, Rollback
<1>9. ASSUME NEW r \in Signings, Record(r) \/ Abort(r) \/ Conflict(r)
      PROVE  fresh'[q] \subseteq tally'[q]
    BY <1>4, <1>9 DEF Record, Commit, Abort, Conflict, Rollback
<1>10. ASSUME NEW r \in Signings, Enter(r) PROVE fresh'[q] \subseteq tally'[q]
    BY <1>10 DEF Enter, Goto
<1> QED
    BY <1>1, <1>2, <1>3, <1>5, <1>6, <1>7, <1>8, <1>9, <1>10
       DEF MultisigNext, Step, multisigVars, Create, CreateProposal, Expire, Die, Leave, Return

(* An approval on record drops out of the array of a proposal only when a  *)
(* request stores an array it read before another's was committed          *)
(* (submitSignatures writes what it read and its own over what is there).  *)
THEOREM ApprovalsAreLostOnlyToRaces == MultisigSpec => ApprovalLostOnlyToRace
<1> DEFINE Lost ==
       flow = "array" /\ approvals \subseteq counted /\ ~ (approvals' \subseteq counted')
          => \E r \in Signings : /\ at[r] # "idle" /\ at'[r] = "idle"
                                /\ ~ (counted \subseteq tally[r])
<1>1. MultisigInit => FreshIsTallied
    BY DEF MultisigInit, FreshIsTallied
<1>2. TypeOK /\ FreshIsTallied /\ [MultisigNext]_multisigVars => FreshIsTallied'
    BY FreshStaysTallied
<1>3. ASSUME TypeOK, FreshIsTallied, [MultisigNext]_multisigVars PROVE [Lost]_multisigVars
  <2>1. ASSUME NEW r \in Signings, NEW st, Commit(r, st), at[r] \in {"decide", "record"} PROVE Lost
    <3> SUFFICES ASSUME flow = "array", approvals \subseteq counted, ~ (approvals' \subseteq counted')
                 PROVE /\ at[r] # "idle" /\ at'[r] = "idle" /\ ~ (counted \subseteq tally[r])
      OBVIOUS
    <3>1. at'[r] = "idle"
      BY <1>3, <2>1 DEF Commit, EndTransaction, TypeOK
    <3>2. counted' = tally[r] /\ approvals' = approvals \cup fresh[r]
      BY <2>1 DEF Commit
    <3>3. fresh[r] \subseteq tally[r]
      BY <1>3, <2>1 DEF FreshIsTallied
    <3> QED
      BY <2>1, <3>1, <3>2, <3>3
  <2>2. CASE UNCHANGED <<approvals, counted>>
    BY <2>2
  <2>3. ASSUME NEW r \in Signings, Step(r) \/ Abort(r) PROVE Lost
    <3>1. CASE Decide(r) /\ ~ MeetsThreshold(r)
      BY <2>1, <3>1 DEF Decide
    <3>2. CASE Record(r)
      BY <2>1, <3>2 DEF Record
    <3>3. CASE Decide(r) /\ MeetsThreshold(r)
      BY <2>2, <3>3 DEF Decide, rowVars
    <3>4. CASE Enter(r) \/ Conflict(r) \/ Begin(r) \/ Verify(r) \/ Insert(r) \/ Tally(r) \/ Send(r) \/ Abort(r)
      BY <2>2, <3>4 DEF Enter, Conflict, Begin, BeginArray, BeginRows, Opened, Verify, VerifyArray, VerifyRows, New,
                        Insert, Tally, Send, Abort, Rollback, rowVars
    <3> QED
      BY <2>3, <3>1, <3>2, <3>3, <3>4 DEF Step
  <2> QED
    BY <1>3, <2>2, <2>3 DEF MultisigNext, Create, CreateProposal, Expire, Die, Leave, Return, rowVars, multisigVars
<1>4. TypeOK /\ FreshIsTallied /\ [MultisigNext]_multisigVars => [Lost]_multisigVars
    BY <1>3
<1>5. [][Lost]_multisigVars => ApprovalLostOnlyToRace
    BY PTL DEF ApprovalLostOnlyToRace
<1> QED
    BY <1>1, <1>2, <1>4, <1>5, TypeCorrect, PTL DEF MultisigSpec
-----------------------------------------------------------------------------
(* Intents: what a row was issued, what the network has of it, and what    *)
(* requests and the sync carry from one step to the next.                  *)

ConfirmRequest(T) ==
    [at : {"idle", "open", "submitting"}, intent : Intents \cup {None},
     account : TreasuryAccounts \cup {None}, threshold : Nat, least : Nat, tx : T]

Exists(i) == i \in Intents /\ row[i] # None

Entry(i, ok) == [tx |-> row[i].issued, ok |-> ok]

IntentsTyped ==
    /\ group \in [account : TreasuryAccounts \cup {None}, required : Nat, configs : Nat]
    /\ row \in [Intents -> IntentRow \cup {None}]
    /\ \E T : req \in [Requests -> ConfirmRequest(T)]
    /\ IsFiniteSet(ledger) /\ ledger \subseteq [tx : Envelope, ok : BOOLEAN]
    /\ sync \in [queue : SUBSET Intents, at : Intents \cup {None}, read : {None}]
    /\ now \in Nat

(* An issued envelope is the row's: it names the intent, pays what the row *)
(* says to whom the row says and ends when the row does, or later by no    *)
(* more than the creation may take; the recorded hash is no other's.       *)
IssuedForRow ==
    \A i \in Intents : row[i] # None =>
        /\ row[i].issued.memo = MemoText(i)
        /\ row[i].issued.ops = PaymentTo(row[i].destination, row[i].amount)
        /\ row[i].expiresAt <= row[i].issued.maxTime
        /\ row[i].issued.maxTime <= row[i].expiresAt + TxTimeout
        /\ row[i].hash \in {None, row[i].issued}
        /\ IF row[i].direction = "deposit" THEN row[i].issued.source = Payer
                                           ELSE row[i].destination = Payee

(* The network has included nothing but issued envelopes, and each of them *)
(* at most once: it has used up their sequence numbers.                    *)
IncludedIsIssued == \A t \in ledger : \E i \in Intents : row[i] # None /\ t.tx = row[i].issued

SequenceIsUsed == \A t \in ledger : t.tx.sequence <= Sequence(t.tx.source)

IncludedOnce == \A t, u \in ledger : t.tx = u.tx => t = u

(* A row with an outcome has the entry that shows it, unless it is for     *)
(* fewer than ten stroops.                                                 *)
OutcomeIsIncluded ==
    \A i \in Intents : row[i] # None =>
        /\ row[i].status = "failed" => Entry(i, FALSE) \in ledger \/ FewStroops(row[i].amount)
        /\ row[i].status = "confirmed" => row[i].hash = row[i].issued /\ Entry(i, TRUE) \in ledger

(* What a confirm request has read and what it is about to send. *)
RequestsJudged ==
    \A r \in Requests :
        /\ req[r].at # "idle" => Exists(req[r].intent) /\ req[r].least <= req[r].threshold
        /\ req[r].at = "submitting" =>
              /\ HashOf(req[r].tx) = row[req[r].intent].issued
              /\ ~FewStroops(row[req[r].intent].amount)
              /\ row[req[r].intent].direction = "withdrawal" =>
                    /\ Signers(req[r].tx) \subseteq CoSigners
                    /\ Cardinality(Signers(req[r].tx)) >= req[r].least

(* What the sync has queued and the payment it has found. *)
SyncFound ==
    /\ \A i \in sync.queue : row[i] # None
    /\ sync.at # None => row[sync.at] # None /\ Entry(sync.at, TRUE) \in ledger

(* A creation that waits for Horizon has no row yet. *)
DraftsPending ==
    /\ workload \in Workloads
    /\ draft \in [Intents -> Draft \cup {None}]
    /\ \A i \in Intents : draft[i] # None => row[i] = None /\ draft[i].openedAt <= now

IntentInv ==
    /\ IntentsTyped /\ IssuedForRow /\ IncludedIsIssued /\ SequenceIsUsed /\ IncludedOnce
    /\ OutcomeIsIncluded /\ RequestsJudged /\ SyncFound

-----------------------------------------------------------------------------
(* Checks *)

Rules ==
    {"xdr_malformed", "xdr_mismatch", "intent_expired", "source", "operationCount",
     "fee", "operationType", "operationSource", "destination", "asset", "amount",
     "memo", "treasury_misconfigured", "unauthorized", "source_account", "operations",
     "operation_source", "operation_amount", "operation_destination"}

CheckRecord == [rule : Rules, ok : BOOLEAN]

Passing(checks) == \A k \in 1..Len(checks) : checks[k].ok

LEMMA PassingIsNone ==
    ASSUME NEW checks, Passing(checks)
    PROVE  FirstFailure(checks) = "none"
BY DEF Passing, FirstFailure

(* Every non-empty set of natural numbers has a least element. *)
LEMMA LeastIndex ==
    ASSUME NEW S \in SUBSET Nat, S # {}
    PROVE  \E n \in S : \A m \in S : n <= m
<1> DEFINE R == {p \in Nat \X Nat : p[1] < p[2]}
<1>1. IsWellFoundedOn(R, Nat)
  <2>1. R = OpToRel(<, Nat)
    BY DEF OpToRel
  <2> QED
    BY <2>1, NatLessThanWellFounded
<1>2. \E n \in S : \A m \in S : ~ (<<m, n>> \in R)
  <2> HIDE DEF R
  <2> QED
    BY <1>1, WFMin
<1>3. PICK n \in S : \A m \in S : ~ (<<m, n>> \in R)
    BY <1>2
<1>4. \A m \in S : n <= m
  <2> TAKE m \in S
  <2>1. ~ (m < n)
    BY <1>3
  <2> QED
    BY <2>1
<1> QED
    BY <1>4

(* The first check that fails names the refusal: no refusal, no failure. *)
LEMMA NoneIsPassing ==
    ASSUME NEW checks \in Seq(CheckRecord), FirstFailure(checks) = "none"
    PROVE  Passing(checks)
<1> SUFFICES ASSUME ~ Passing(checks) PROVE FALSE
    OBVIOUS
<1>1. PICK failed : failed = {k \in 1..Len(checks) : ~ checks[k].ok}
    OBVIOUS
<1>2. failed # {} /\ failed \subseteq Nat
    BY <1>1 DEF Passing
<1>3. \E n \in failed : \A m \in failed : n <= m
    BY <1>2, LeastIndex
<1>4. PICK n : n = CHOOSE k \in failed : \A j \in failed : k <= j
    OBVIOUS
<1>5. n \in failed
    BY <1>3, <1>4
<1>6. checks[n] \in CheckRecord
    BY <1>1, <1>5
<1>7. checks[n].rule # "none"
    BY <1>6 DEF CheckRecord, Rules
<1>8. FirstFailure(checks) = checks[n].rule
    BY <1>1, <1>2, <1>4 DEF FirstFailure
<1> QED
    BY <1>7, <1>8

LEMMA BothPassing ==
    ASSUME NEW s \in Seq(CheckRecord), NEW t \in Seq(CheckRecord)
    PROVE  /\ s \o t \in Seq(CheckRecord)
           /\ Passing(s \o t) <=> Passing(s) /\ Passing(t)
<1>1. /\ Len(s) \in Nat /\ Len(t) \in Nat /\ Len(s \o t) = Len(s) + Len(t)
      /\ \A k \in 1..Len(s) : (s \o t)[k] = s[k]
      /\ \A k \in 1..Len(t) : (s \o t)[Len(s) + k] = t[k]
    OBVIOUS
<1>2. ASSUME Passing(s \o t) PROVE Passing(s) /\ Passing(t)
  <2>1. ASSUME NEW k \in 1..Len(s) PROVE s[k].ok
    <3>1. k \in 1..Len(s \o t)
      BY <1>1
    <3> QED
      BY <1>1, <1>2, <3>1 DEF Passing
  <2>2. ASSUME NEW k \in 1..Len(t) PROVE t[k].ok
    <3>1. Len(s) + k \in 1..Len(s \o t)
      BY <1>1
    <3> QED
      BY <1>1, <1>2, <3>1 DEF Passing
  <2> QED
    BY <2>1, <2>2 DEF Passing
<1>3. ASSUME Passing(s), Passing(t), NEW k \in 1..Len(s \o t) PROVE (s \o t)[k].ok
  <2>1. CASE k <= Len(s)
    BY <1>1, <1>3, <2>1 DEF Passing
  <2>2. CASE k > Len(s)
    <3>1. PICK j \in 1..Len(t) : k = Len(s) + j
      <4>1. k - Len(s) \in 1..Len(t) /\ k = Len(s) + (k - Len(s))
        BY <1>1, <1>3, <2>2
      <4> QED
        BY <4>1
    <3> QED
      BY <1>1, <1>3, <3>1 DEF Passing
  <2> QED
    BY <1>1, <2>1, <2>2
<1> QED
    BY <1>2, <1>3 DEF Passing

(* The parts of validation are lists of checks. *)
LEMMA NineTyped ==
    ASSUME NEW a \in CheckRecord, NEW b \in CheckRecord, NEW c \in CheckRecord,
           NEW d \in CheckRecord, NEW e \in CheckRecord, NEW f \in CheckRecord,
           NEW g \in CheckRecord, NEW h \in CheckRecord, NEW i \in CheckRecord
    PROVE  <<a, b, c, d, e, f, g, h, i>> \in Seq(CheckRecord)
OBVIOUS

LEMMA ParseTyped == ASSUME NEW tx PROVE ParseChecks(tx) \in Seq(CheckRecord)
BY DEF ParseChecks, Check, CheckRecord, Rules

LEMMA BoundsTyped ==
    ASSUME NEW tx, NEW e, NEW n PROVE TimeBoundsChecks(tx, e, n) \in Seq(CheckRecord)
BY DEF TimeBoundsChecks, Check, CheckRecord, Rules

LEMMA MultisigTyped == ASSUME NEW tx, NEW q PROVE MultisigChecks(tx, q) \in Seq(CheckRecord)
BY DEF MultisigChecks, Check, CheckRecord, Rules

LEMMA MatchTyped == ASSUME NEW tx, NEW e PROVE MatchChecks(tx, e) \in Seq(CheckRecord)
<1> DEFINE op == FirstOperation(tx)
           c1 == Check("source", tx.source = e.source)
           c2 == Check("operationCount", Len(tx.ops) = 1)
           c3 == Check("fee", FeeInBand(tx))
           c4 == Check("operationType", op.type = "payment")
           c5 == Check("operationSource", op.source \in {NoSource, e.source})
           c6 == Check("destination", op.destination = e.destination)
           c7 == Check("asset", SameAsset(op.asset, e.asset))
           c8 == Check("amount", NormalizeAmount(op.amount) = NormalizeAmount(e.amount))
           c9 == Check("memo", tx.memo = MemoText(e.code))
<1>1. FeeInBand(tx) \in BOOLEAN /\ SameAsset(op.asset, e.asset) \in BOOLEAN
    BY DEF FeeInBand, SameAsset
<1>2. /\ c1 \in CheckRecord /\ c2 \in CheckRecord /\ c3 \in CheckRecord
      /\ c4 \in CheckRecord /\ c5 \in CheckRecord /\ c6 \in CheckRecord
      /\ c7 \in CheckRecord /\ c8 \in CheckRecord /\ c9 \in CheckRecord
    BY <1>1 DEF Check, CheckRecord, Rules
<1>3. MatchChecks(tx, e) = <<c1, c2, c3, c4, c5, c6, c7, c8, c9>>
    BY Zenon DEF MatchChecks
<1> HIDE DEF c1, c2, c3, c4, c5, c6, c7, c8, c9
<1> QED
    BY <1>2, <1>3, NineTyped

LEMMA PolicyTyped ==
    ASSUME NEW tx, NEW a, NEW n PROVE PolicyChecks(tx, a, n) \in Seq(CheckRecord)
<1> DEFINE each == {tx.ops[k] : k \in DOMAIN tx.ops}
           c1 == Check("source_account", tx.source = a)
           c2 == Check("operations", Len(tx.ops) \in 1..MaxOperations)
           c3 == Check("operation_source", \A op \in each : op.source \in {NoSource, a})
           c4 == Check("operation_amount",
                       \A op \in each : op.type = "payment" =>
                           op.amount.w > 0 \/ \E k \in DOMAIN op.amount.f : op.amount.f[k] > 0)
           c5 == Check("operation_destination",
                       \A op \in each : op.type \in {"payment", "createAccount", "accountMerge"} =>
                           op.destination \in Accounts)
           c6 == Check("fee", FeeInBand(tx))
           c7 == Check("xdr_mismatch", tx.maxTime > 0)
           c8 == Check("intent_expired", tx.maxTime + Skew >= n)
           c9 == Check("xdr_mismatch", tx.minTime <= n + Skew)
<1>1. FeeInBand(tx) \in BOOLEAN
    BY DEF FeeInBand
<1>2. /\ c1 \in CheckRecord /\ c2 \in CheckRecord /\ c3 \in CheckRecord
      /\ c4 \in CheckRecord /\ c5 \in CheckRecord /\ c6 \in CheckRecord
      /\ c7 \in CheckRecord /\ c8 \in CheckRecord /\ c9 \in CheckRecord
    BY <1>1 DEF Check, CheckRecord, Rules
<1>3. PolicyChecks(tx, a, n) = <<c1, c2, c3, c4, c5, c6, c7, c8, c9>>
    BY Zenon DEF PolicyChecks
<1> HIDE DEF c1, c2, c3, c4, c5, c6, c7, c8, c9
<1> QED
    BY <1>2, <1>3, NineTyped

-----------------------------------------------------------------------------
(* Envelopes *)

(* A fraction without its zeros at the end is the fraction. *)
LEMMA TrimmedFraction ==
    ASSUME NEW f \in Seq(0..9)
    PROVE  /\ Trimmed(f) \in Seq(0..9) /\ Len(Trimmed(f)) <= Len(f)
           /\ \A k \in 1..Len(Trimmed(f)) : Trimmed(f)[k] = f[k]
           /\ \A k \in (Len(Trimmed(f)) + 1)..Len(f) : f[k] = 0
<1> DEFINE Ends(n) == \A k \in (n + 1)..Len(f) : f[k] = 0
           S == {n \in 0..Len(f) : Ends(n)}
<1>1. Len(f) \in Nat /\ S \in SUBSET Nat
    OBVIOUS
<1>2. S # {}
  <2>1. Ends(Len(f))
    BY <1>1
  <2> QED
    BY <1>1, <2>1
<1>3. PICK n \in S : \A m \in S : n <= m
    BY <1>1, <1>2, LeastIndex
<1>4. n > 0 => f[n] # 0
  <2> SUFFICES ASSUME n > 0, f[n] = 0 PROVE FALSE
    OBVIOUS
  <2>1. n - 1 \in 0..Len(f) /\ n \in 1..Len(f)
    BY <1>1, <1>3
  <2>2. Ends(n - 1)
    BY <1>1, <1>3, <2>1
  <2>3. n - 1 \in S
    BY <2>1, <2>2
  <2>4. n <= n - 1 /\ n \in Nat
    BY <1>1, <1>3, <2>3
  <2> QED
    BY <2>4
<1>5. \E m \in 0..Len(f) : /\ \A k \in (m + 1)..Len(f) : f[k] = 0
                           /\ m > 0 => f[m] # 0
    BY <1>3, <1>4
<1>6. PICK m \in 0..Len(f) : /\ \A k \in (m + 1)..Len(f) : f[k] = 0
                             /\ Trimmed(f) = SubSeq(f, 1, m)
    BY <1>5 DEF Trimmed
<1>7. Len(SubSeq(f, 1, m)) = m /\ \A k \in 1..m : SubSeq(f, 1, m)[k] = f[k]
    BY <1>1, <1>6
<1>8. SubSeq(f, 1, m) \in Seq(0..9)
    BY <1>1, <1>6
<1> QED
    BY <1>1, <1>6, <1>7, <1>8

(* The amount of an envelope, read back padded, is that of the row read    *)
(* back as a decimal, unless the latter is in exponent notation.           *)
LEMMA WireAmount ==
    ASSUME NEW a \in Amounts
    PROVE  NormalizeAmount(OnTheWire(a)) = NormalizeAmount(DecimalText(a)) <=> ~FewStroops(a)
<1> DEFINE P == [k \in 1..Decimals |-> IF k <= Len(a.f) THEN a.f[k] ELSE 0]
<1>1. a.w \in Nat /\ a.f \in Seq(0..9) /\ Len(a.f) \in Nat /\ Len(a.f) <= Decimals /\ Decimals \in Nat
    BY IntentAssumption, EnvelopeAssumption DEF WellWritten
<1>2. P \in Seq(0..9) /\ Len(P) = Decimals
    BY <1>1
<1>3. [k \in 1..Decimals |-> IF k <= Len(P) THEN P[k] ELSE 0] = P
    BY <1>1, <1>2
<1>4. NormalizeAmount(OnTheWire(a)) = [w |-> a.w, e |-> 0, f |-> P]
  <2>1. OnTheWire(a).w = a.w /\ OnTheWire(a).e = 0 /\ OnTheWire(a).f = P
    BY DEF OnTheWire
  <2> QED
    BY <1>3, <2>1 DEF NormalizeAmount
<1> HIDE DEF P
<1>5. CASE FewStroops(a)
  <2>1. NormalizeAmount(DecimalText(a)).e = -Decimals
    BY <1>5 DEF DecimalText, NormalizeAmount
  <2>2. -Decimals # 0
    BY EnvelopeAssumption
  <2> QED
    BY <1>4, <1>5, <2>1, <2>2
<1>6. CASE ~FewStroops(a)
  <2>1. PICK T : T = Trimmed(a.f)
    OBVIOUS
  <2>2. /\ T \in Seq(0..9) /\ Len(T) <= Len(a.f) /\ Len(T) \in Nat
        /\ \A k \in 1..Len(T) : T[k] = a.f[k]
        /\ \A k \in (Len(T) + 1)..Len(a.f) : a.f[k] = 0
    BY <1>1, <2>1, TrimmedFraction
  <2>3. [k \in 1..Decimals |-> IF k <= Len(T) THEN T[k] ELSE 0] = P
    <3>1. ASSUME NEW k \in 1..Decimals
          PROVE  (IF k <= Len(T) THEN T[k] ELSE 0) = (IF k <= Len(a.f) THEN a.f[k] ELSE 0)
      BY <1>1, <2>2
    <3> QED
      BY <3>1 DEF P
  <2>4. DecimalText(a).w = a.w /\ DecimalText(a).e = 0 /\ DecimalText(a).f = T
    BY <1>6, <2>1 DEF DecimalText
  <2>5. NormalizeAmount(DecimalText(a)) = [w |-> a.w, e |-> 0, f |-> P]
    BY <2>3, <2>4 DEF NormalizeAmount
  <2> QED
    BY <1>4, <1>6, <2>5
<1> QED
    BY <1>5, <1>6

(* It is positive. *)
LEMMA WirePositive ==
    ASSUME NEW a \in Amounts
    PROVE  OnTheWire(a).w > 0 \/ \E k \in DOMAIN OnTheWire(a).f : OnTheWire(a).f[k] > 0
<1>1. /\ a.w > 0 \/ \E k \in 1..Len(a.f) : a.f[k] > 0
      /\ Len(a.f) \in Nat /\ Len(a.f) <= Decimals /\ Decimals \in Nat
    BY IntentAssumption, EnvelopeAssumption DEF WellWritten
<1>2. PICK P : P = [k \in 1..Decimals |-> IF k <= Len(a.f) THEN a.f[k] ELSE 0]
    OBVIOUS
<1>3. OnTheWire(a).w = a.w /\ OnTheWire(a).f = P
    BY <1>2 DEF OnTheWire
<1>4. ASSUME NEW k \in 1..Len(a.f), a.f[k] > 0 PROVE k \in DOMAIN P /\ P[k] > 0
    BY <1>1, <1>2, <1>4
<1> QED
    BY <1>1, <1>3, <1>4

(* Signing an envelope does not change what it is the hash of. *)
LEMMA SignedHash ==
    ASSUME NEW e \in Envelope, NEW sigs, NEW tx, tx = [e EXCEPT !.sigs = sigs]
    PROVE  /\ HashOf(tx) = e /\ tx.source = e.source /\ tx.sequence = e.sequence
           /\ tx.sigs = sigs /\ tx.kind = e.kind /\ tx.ops = e.ops /\ tx.fee = e.fee
           /\ tx.memo = e.memo /\ tx.minTime = e.minTime /\ tx.maxTime = e.maxTime
<1> DEFINE O == {PaymentTo(d, a) : d \in Accounts, a \in Amounts}
           M == {MemoText(i) : i \in Intents}
<1>1. e \in [kind : {"payment"}, source : Accounts, sequence : Nat, ops : O, fee : {MaxFeePerOp},
             memo : M, minTime : {0}, maxTime : Nat, sigs : {<< >>}]
    BY DEF Envelope
<1> HIDE DEF O, M
<1> QED
    BY <1>1 DEF HashOf

LEMMA HashFields ==
    ASSUME NEW e \in Envelope, NEW tx, HashOf(tx) = e
    PROVE  tx.source = e.source /\ tx.sequence = e.sequence /\ tx.ops = e.ops
BY DEF Envelope, HashOf

(* What the row's own envelope pays is what the row says. *)
LEMMA IssuedPays ==
    ASSUME NEW a \in Amounts, ~FewStroops(a), NEW d, NEW w,
           w.destination = d, w.asset = Lumens, w.amount = DecimalText(a)
    PROVE  PaymentOperationFailure(Head(PaymentTo(d, a)), w) = "none"
<1> DEFINE op == Head(PaymentTo(d, a))
<1>1. /\ op.type = "payment" /\ op.destination = w.destination
      /\ op.asset = Lumens /\ op.amount = OnTheWire(a)
    BY DEF PaymentTo
<1>2. NormalizeAmount(op.amount) = NormalizeAmount(w.amount) /\ SameAsset(op.asset, w.asset)
    BY <1>1, WireAmount DEF SameAsset
<1> HIDE DEF op
<1> DEFINE c1 == Check("transaction_verification_failed", op.type = "payment")
           c2 == Check("settlement_verification_failed", op.destination = w.destination)
           c3 == Check("settlement_verification_failed",
                       NormalizeAmount(op.amount) = NormalizeAmount(w.amount))
           c4 == Check("settlement_verification_failed", SameAsset(op.asset, w.asset))
<1>3. c1.ok /\ c2.ok /\ c3.ok /\ c4.ok
    BY <1>1, <1>2 DEF Check
<1>4. PaymentOperationFailure(op, w) = FirstFailure(<<c1, c2, c3, c4>>)
    BY DEF PaymentOperationFailure
<1> HIDE DEF c1, c2, c3, c4
<1>5. Passing(<<c1, c2, c3, c4>>)
    BY <1>3 DEF Passing
<1> QED
    BY <1>4, <1>5, PassingIsNone DEF op

LEMMA IssuedNames ==
    ASSUME NEW i PROVE PaymentMemoFailure(MemoText(i), i) = "none"
<1> DEFINE memo == MemoText(i)
           c1 == Check("missing_memo", memo.type # "none")
           c2 == Check("hash_memo_mismatch", memo.type # "hash")
           c3 == Check("unsupported_memo_type", memo.type = "text")
           c4 == Check("malformed_memo", memo.prefixed)
           c5 == Check("code_mismatch", memo.code = i)
<1>1. memo.type = "text" /\ memo.prefixed /\ memo.code = i
    BY DEF MemoText
<1>2. c1.ok /\ c2.ok /\ c3.ok /\ c4.ok /\ c5.ok
    BY <1>1 DEF Check
<1>3. PaymentMemoFailure(memo, i) = FirstFailure(<<c1, c2, c3, c4, c5>>)
    BY DEF PaymentMemoFailure
<1> HIDE DEF c1, c2, c3, c4, c5
<1>4. Passing(<<c1, c2, c3, c4, c5>>)
    BY <1>2 DEF Passing
<1> QED
    BY <1>3, <1>4, PassingIsNone

-----------------------------------------------------------------------------
(* The invariant *)

(* Rows keep the envelope they were issued, and the network forgets nothing. *)
Grows ==
    /\ \A i \in Intents : row[i] # None =>
          /\ row'[i] # None /\ row'[i].issued = row[i].issued
          /\ row'[i].direction = row[i].direction /\ row'[i].amount = row[i].amount
    /\ ledger \subseteq ledger'

(* The hash a row is looked up under is that of the envelope issued for it. *)
LEMMA LookupIsIssued ==
    ASSUME IntentInv, NEW i \in Intents, row[i] # None
    PROVE  row[i] \in IntentRow /\ row[i].issued \in Envelope /\ LookupHash(i) = row[i].issued
<1>1. row[i] \in IntentRow /\ row[i].hash \in {None, row[i].issued}
    BY DEF IntentInv, IntentsTyped, IssuedForRow
<1>2. row[i].issued \in Envelope
    BY <1>1 DEF IntentRow
<1>3. HashOf(row[i].issued) = row[i].issued
    BY <1>2 DEF Envelope, HashOf
<1> QED
    BY <1>1, <1>2, <1>3 DEF LookupHash

LEMMA RequestsStay ==
    ASSUME IntentInv, Grows, req' = req
    PROVE  RequestsJudged'
<1> SUFFICES ASSUME NEW r \in Requests, req[r].at # "idle"
             PROVE  /\ Exists(req[r].intent)' /\ req[r].least <= req[r].threshold
                    /\ req[r].at = "submitting" =>
                          /\ HashOf(req[r].tx) = row'[req[r].intent].issued
                          /\ ~FewStroops(row'[req[r].intent].amount)
                          /\ row'[req[r].intent].direction = "withdrawal" =>
                                /\ Signers(req[r].tx) \subseteq CoSigners
                                /\ Cardinality(Signers(req[r].tx)) >= req[r].least
    BY DEF RequestsJudged, Exists
<1>1. /\ Exists(req[r].intent) /\ req[r].least <= req[r].threshold
      /\ req[r].at = "submitting" =>
            /\ HashOf(req[r].tx) = row[req[r].intent].issued
            /\ ~FewStroops(row[req[r].intent].amount)
            /\ row[req[r].intent].direction = "withdrawal" =>
                  /\ Signers(req[r].tx) \subseteq CoSigners
                  /\ Cardinality(Signers(req[r].tx)) >= req[r].least
    BY DEF IntentInv, RequestsJudged
<1>2. /\ req[r].intent \in Intents /\ row'[req[r].intent] # None
      /\ row'[req[r].intent].issued = row[req[r].intent].issued
      /\ row'[req[r].intent].direction = row[req[r].intent].direction
      /\ row'[req[r].intent].amount = row[req[r].intent].amount
    BY <1>1 DEF Grows, Exists
<1> QED
    BY <1>1, <1>2 DEF Exists

(* A step of one request leaves what the others carry as it is. *)
LEMMA RequestMoves ==
    ASSUME IntentInv, Grows, NEW r \in Requests, NEW q, req' = [req EXCEPT ![r] = q],
           q.at # "idle" =>
              q.intent \in Intents /\ row'[q.intent] # None /\ q.least <= q.threshold,
           q.at = "submitting" =>
              /\ HashOf(q.tx) = row'[q.intent].issued
              /\ ~FewStroops(row'[q.intent].amount)
              /\ row'[q.intent].direction = "withdrawal" =>
                    Signers(q.tx) \subseteq CoSigners /\ Cardinality(Signers(q.tx)) >= q.least
    PROVE  RequestsJudged'
<1>1. PICK T : req \in [Requests -> ConfirmRequest(T)]
    BY DEF IntentInv, IntentsTyped
<1> SUFFICES ASSUME NEW x \in Requests
             PROVE  /\ req'[x].at # "idle" =>
                          /\ req'[x].intent \in Intents /\ row'[req'[x].intent] # None
                          /\ req'[x].least <= req'[x].threshold
                    /\ req'[x].at = "submitting" =>
                          /\ HashOf(req'[x].tx) = row'[req'[x].intent].issued
                          /\ ~FewStroops(row'[req'[x].intent].amount)
                          /\ row'[req'[x].intent].direction = "withdrawal" =>
                                /\ Signers(req'[x].tx) \subseteq CoSigners
                                /\ Cardinality(Signers(req'[x].tx)) >= req'[x].least
    BY DEF RequestsJudged, Exists
<1>2. CASE x = r
  <2>1. req'[x] = q
    BY <1>1, <1>2
  <2> QED
    BY <2>1
<1>3. CASE x # r
  <2>1. req'[x] = req[x]
    BY <1>1, <1>3
  <2>2. /\ req[x].at # "idle" => Exists(req[x].intent) /\ req[x].least <= req[x].threshold
        /\ req[x].at = "submitting" =>
              /\ HashOf(req[x].tx) = row[req[x].intent].issued
              /\ ~FewStroops(row[req[x].intent].amount)
              /\ row[req[x].intent].direction = "withdrawal" =>
                    /\ Signers(req[x].tx) \subseteq CoSigners
                    /\ Cardinality(Signers(req[x].tx)) >= req[x].least
    BY DEF IntentInv, RequestsJudged
  <2>3. req[x].at # "idle" =>
            /\ req[x].intent \in Intents /\ row'[req[x].intent] # None
            /\ row'[req[x].intent].issued = row[req[x].intent].issued
            /\ row'[req[x].intent].direction = row[req[x].intent].direction
            /\ row'[req[x].intent].amount = row[req[x].intent].amount
    BY <2>2 DEF Grows, Exists
  <2> QED
    BY <2>1, <2>2, <2>3
<1> QED
    BY <1>2, <1>3

LEMMA RequestEnds ==
    ASSUME IntentInv, Grows, NEW r \in Requests, End(r)
    PROVE  RequestsJudged' /\ \E T : req' \in [Requests -> ConfirmRequest(T)]
<1>1. PICK T : req \in [Requests -> ConfirmRequest(T)]
    BY DEF IntentInv, IntentsTyped
<1>2. Idle \in ConfirmRequest(T \cup {None}) /\ Idle.at = "idle"
    BY DEF Idle, ConfirmRequest
<1>3. req \in [Requests -> ConfirmRequest(T \cup {None})]
    BY <1>1 DEF ConfirmRequest
<1>4. req' \in [Requests -> ConfirmRequest(T \cup {None})]
    BY <1>2, <1>3 DEF End
<1>5. RequestsJudged'
    BY <1>2, RequestMoves DEF End
<1> QED
    BY <1>4, <1>5

LEMMA SyncStays ==
    ASSUME IntentInv, Grows, sync' = sync
    PROVE  SyncFound'
<1>1. sync.queue \subseteq Intents /\ sync.at \in Intents \cup {None}
    BY DEF IntentInv, IntentsTyped
<1>2. \A i \in sync.queue : row'[i] # None
    BY <1>1 DEF IntentInv, SyncFound, Grows
<1>3. ASSUME sync.at # None PROVE row'[sync.at] # None /\ Entry(sync.at, TRUE)' \in ledger'
    BY <1>1, <1>3 DEF IntentInv, SyncFound, Grows, Entry
<1> QED
    BY <1>2, <1>3 DEF SyncFound

LEMMA LedgerStays ==
    ASSUME IntentInv, Grows, ledger' = ledger
    PROVE  IncludedIsIssued' /\ SequenceIsUsed' /\ IncludedOnce'
BY DEF IntentInv, Grows, IncludedIsIssued, SequenceIsUsed, IncludedOnce, Sequence

LEMMA RowsStay ==
    ASSUME IntentInv, row' = row, ledger \subseteq ledger'
    PROVE  IssuedForRow' /\ OutcomeIsIncluded' /\ Grows
BY DEF IntentInv, IssuedForRow, OutcomeIsIncluded, Grows, Entry

(* Sequence numbers only go up. *)
LEMMA SequenceGrows ==
    ASSUME IntentInv, NEW t \in [tx : Envelope, ok : BOOLEAN], ledger' = ledger \cup {t},
           t \notin ledger, NEW a
    PROVE  /\ Sequence(a) \in Nat /\ Sequence(a)' \in Nat
           /\ Sequence(a)' = IF t.tx.source = a THEN Sequence(a) + 1 ELSE Sequence(a)
           /\ IsFiniteSet(ledger')
<1> DEFINE S == {u \in ledger : u.tx.source = a}
<1>1. IsFiniteSet(ledger)
    BY DEF IntentInv, IntentsTyped
<1>2. IsFiniteSet(S) /\ t \notin S /\ S \subseteq ledger
    BY <1>1, FS_Subset
<1>3. Sequence(a) = Cardinality(S)
    BY DEF Sequence
<1>4. Sequence(a)' = Cardinality(IF t.tx.source = a THEN S \cup {t} ELSE S)
  <2>1. {u \in ledger' : u.tx.source = a} = IF t.tx.source = a THEN S \cup {t} ELSE S
    OBVIOUS
  <2> QED
    BY <2>1 DEF Sequence
<1>5. /\ Cardinality(S) \in Nat /\ Cardinality(S \cup {t}) = Cardinality(S) + 1
    BY <1>2, FS_CardinalityType, FS_AddElement
<1>6. IsFiniteSet(ledger')
    BY <1>1, FS_AddElement
<1> HIDE DEF S
<1> QED
    BY <1>3, <1>4, <1>5, <1>6

(* The network includes an issued envelope: it is the first time. *)
LEMMA InclusionKeeps ==
    ASSUME IntentInv, NEW i \in Intents, row[i] # None, NEW ok \in BOOLEAN,
           row[i].issued.sequence = Sequence(row[i].issued.source) + 1,
           ledger' = ledger \cup {[tx |-> row[i].issued, ok |-> ok]},
           UNCHANGED <<group, row, req, sync, now>>
    PROVE  IntentInv'
<1>1. PICK e \in Envelope : e = row[i].issued
    BY LookupIsIssued
<1>0. PICK t : t = [tx |-> e, ok |-> ok]
    OBVIOUS
<1>2. t \in [tx : Envelope, ok : BOOLEAN] /\ t = [tx |-> e, ok |-> ok] /\ t.tx = e
    BY <1>0
<1>3. e.sequence \in Nat /\ e.source \in Accounts
    BY DEF Envelope
<1>4. e.sequence = Sequence(e.source) + 1 /\ Sequence(e.source) \in Nat
  <2>1. IsFiniteSet({u \in ledger : u.tx.source = e.source})
    BY FS_Subset DEF IntentInv, IntentsTyped
  <2> QED
    BY <1>1, <2>1, FS_CardinalityType DEF Sequence
<1>5. \A u \in ledger : u.tx # e
  <2>1. \A u \in ledger : u.tx.sequence <= Sequence(u.tx.source)
    BY DEF IntentInv, SequenceIsUsed
  <2> QED
    BY <1>3, <1>4, <2>1
<1>6. ledger' = ledger \cup {t} /\ t \notin ledger
    BY <1>1, <1>2, <1>5
<1>7. \A u \in ledger : u \in [tx : Envelope, ok : BOOLEAN] /\ u.tx.sequence \in Nat
    BY DEF IntentInv, IntentsTyped, Envelope
<1>8. ASSUME NEW a PROVE /\ Sequence(a) \in Nat /\ Sequence(a)' \in Nat
                         /\ Sequence(a)' = IF e.source = a THEN Sequence(a) + 1 ELSE Sequence(a)
                         /\ IsFiniteSet(ledger')
    BY <1>2, <1>6, SequenceGrows
<1>9. IntentsTyped'
  <2>1. IsFiniteSet(ledger') /\ ledger' \subseteq [tx : Envelope, ok : BOOLEAN]
    BY <1>2, <1>6, <1>7, <1>8
  <2>2. \E T : req' \in [Requests -> ConfirmRequest(T)]
    BY Zenon DEF IntentInv, IntentsTyped
  <2> QED
    BY <2>1, <2>2 DEF IntentInv, IntentsTyped
<1>10. IncludedIsIssued'
    BY <1>1, <1>2, <1>6 DEF IntentInv, IncludedIsIssued
<1>11. SequenceIsUsed'
  <2> SUFFICES ASSUME NEW u \in ledger' PROVE u.tx.sequence <= (Sequence(u.tx.source))'
    BY DEF SequenceIsUsed
  <2>1. PICK a : a = u.tx.source
    OBVIOUS
  <2>2. Sequence(a) \in Nat /\ Sequence(a)' = IF e.source = a THEN Sequence(a) + 1 ELSE Sequence(a)
    BY <1>8
  <2>3. CASE u \in ledger
    <3>1. u.tx.sequence <= Sequence(a) /\ u.tx.sequence \in Nat
      BY <1>7, <2>1, <2>3 DEF IntentInv, SequenceIsUsed
    <3>2. u.tx.sequence <= Sequence(a)'
      BY <2>2, <3>1
    <3> QED
      BY <2>1, <3>2 DEF Sequence
  <2>4. CASE u = t
    <3>1. u.tx.sequence <= Sequence(a)'
      BY <1>2, <1>3, <1>4, <2>1, <2>2, <2>4
    <3> QED
      BY <2>1, <3>1 DEF Sequence
  <2> QED
    BY <1>6, <2>3, <2>4
<1>12. IncludedOnce'
    BY <1>2, <1>5, <1>6 DEF IntentInv, IncludedOnce
<1>13. IssuedForRow' /\ OutcomeIsIncluded' /\ Grows
    BY <1>6, RowsStay
<1>14. RequestsJudged' /\ SyncFound'
    BY <1>13, RequestsStay, SyncStays
<1> QED
    BY <1>9, <1>10, <1>11, <1>12, <1>13, <1>14 DEF IntentInv

(* A row is given an outcome that the network shows. *)
LEMMA OutcomeKeeps ==
    ASSUME IntentInv, NEW i \in Intents, row[i] # None, NEW st \in {"confirmed", "failed"},
           st = "confirmed" => Entry(i, TRUE) \in ledger,
           st = "failed" => Entry(i, FALSE) \in ledger \/ FewStroops(row[i].amount),
           ledger' = ledger,
           row' = [row EXCEPT ![i].status = st, ![i].hash = row[i].issued]
    PROVE  /\ row' \in [Intents -> IntentRow \cup {None}]
           /\ IssuedForRow' /\ OutcomeIsIncluded' /\ Grows
<1>1. row \in [Intents -> IntentRow \cup {None}] /\ row[i] \in IntentRow /\ row[i].issued \in Envelope
    BY LookupIsIssued DEF IntentInv, IntentsTyped
<1>2. PICK w : w = [row[i] EXCEPT !.status = st, !.hash = row[i].issued]
    OBVIOUS
<1>3. /\ w \in IntentRow /\ w.status = st /\ w.hash = row[i].issued /\ w.issued = row[i].issued
      /\ w.direction = row[i].direction /\ w.destination = row[i].destination
      /\ w.expiresAt = row[i].expiresAt /\ w.amount = row[i].amount
    BY <1>1, <1>2 DEF IntentRow
<1>4. row' = [row EXCEPT ![i] = w]
    BY <1>1, <1>2
<1>5. /\ row'[i] = w /\ w # None /\ \A j \in Intents : j # i => row'[j] = row[j]
    BY <1>1, <1>3, <1>4, IntentAssumption
<1>6. row' \in [Intents -> IntentRow \cup {None}]
    BY <1>1, <1>3, <1>4
<1>7. Grows
    BY <1>3, <1>5 DEF Grows
<1>8. IssuedForRow'
  <2> SUFFICES ASSUME NEW j \in Intents, row'[j] # None
               PROVE  /\ row'[j].issued.memo = MemoText(j)
                      /\ row'[j].issued.ops = PaymentTo(row'[j].destination, row'[j].amount)
                      /\ row'[j].expiresAt <= row'[j].issued.maxTime
                      /\ row'[j].issued.maxTime <= row'[j].expiresAt + TxTimeout
                      /\ row'[j].hash \in {None, row'[j].issued}
                      /\ IF row'[j].direction = "deposit" THEN row'[j].issued.source = Payer
                                                          ELSE row'[j].destination = Payee
    BY DEF IssuedForRow
  <2>1. CASE j # i
    BY <1>5, <2>1 DEF IntentInv, IssuedForRow
  <2>2. CASE j = i
    <3>1. /\ row[i].issued.memo = MemoText(i)
          /\ row[i].issued.ops = PaymentTo(row[i].destination, row[i].amount)
          /\ row[i].expiresAt <= row[i].issued.maxTime
          /\ row[i].issued.maxTime <= row[i].expiresAt + TxTimeout
          /\ IF row[i].direction = "deposit" THEN row[i].issued.source = Payer
                                             ELSE row[i].destination = Payee
      BY DEF IntentInv, IssuedForRow
    <3> QED
      BY <1>3, <1>5, <2>2, <3>1
  <2> QED
    BY <2>1, <2>2
<1>9. OutcomeIsIncluded'
  <2> SUFFICES ASSUME NEW j \in Intents, row'[j] # None
               PROVE  /\ row'[j].status = "failed" =>
                            \/ [tx |-> row'[j].issued, ok |-> FALSE] \in ledger
                            \/ FewStroops(row'[j].amount)
                      /\ row'[j].status = "confirmed" =>
                            /\ row'[j].hash = row'[j].issued
                            /\ [tx |-> row'[j].issued, ok |-> TRUE] \in ledger
    BY DEF OutcomeIsIncluded, Entry
  <2>1. CASE j # i
    BY <1>5, <2>1 DEF IntentInv, OutcomeIsIncluded, Entry
  <2>2. CASE j = i
    BY <1>3, <1>5, <2>2 DEF Entry
  <2> QED
    BY <2>1, <2>2
<1> QED
    BY <1>6, <1>7, <1>8, <1>9

(* A step that writes no row and includes nothing. *)
LEMMA QuietKeeps ==
    ASSUME IntentInv, UNCHANGED <<row, ledger>>,
           group' \in [account : TreasuryAccounts \cup {None}, required : Nat, configs : Nat],
           \E T : req' \in [Requests -> ConfirmRequest(T)],
           sync' \in [queue : SUBSET Intents, at : Intents \cup {None}, read : {None}],
           now' \in Nat, RequestsJudged', SyncFound'
    PROVE  IntentInv'
<1>1. IssuedForRow' /\ OutcomeIsIncluded' /\ Grows
    BY RowsStay
<1>2. IncludedIsIssued' /\ SequenceIsUsed' /\ IncludedOnce'
    BY <1>1, LedgerStays
<1>3. IntentsTyped'
  <2>1. row' \in [Intents -> IntentRow \cup {None}] /\ IsFiniteSet(ledger')
        /\ ledger' \subseteq [tx : Envelope, ok : BOOLEAN]
    BY DEF IntentInv, IntentsTyped
  <2> QED
    BY <2>1, Zenon DEF IntentsTyped
<1> QED
    BY <1>1, <1>2, <1>3 DEF IntentInv

(* A step that gives a row an outcome. *)
LEMMA RecordKeeps ==
    ASSUME IntentInv, ledger' = ledger, UNCHANGED <<group, now>>, Grows,
           row' \in [Intents -> IntentRow \cup {None}], IssuedForRow', OutcomeIsIncluded',
           \E T : req' \in [Requests -> ConfirmRequest(T)],
           sync' \in [queue : SUBSET Intents, at : Intents \cup {None}, read : {None}],
           RequestsJudged', SyncFound'
    PROVE  IntentInv'
<1>1. IncludedIsIssued' /\ SequenceIsUsed' /\ IncludedOnce'
    BY LedgerStays
<1>2. IntentsTyped'
  <2>1. /\ group' \in [account : TreasuryAccounts \cup {None}, required : Nat, configs : Nat]
        /\ now' \in Nat /\ IsFiniteSet(ledger')
        /\ ledger' \subseteq [tx : Envelope, ok : BOOLEAN]
    BY DEF IntentInv, IntentsTyped
  <2> QED
    BY <2>1, Zenon DEF IntentsTyped
<1> QED
    BY <1>1, <1>2 DEF IntentInv

LEMMA EnableKeeps ==
    ASSUME IntentInv, NEW a \in TreasuryAccounts, NEW n \in 1..Cardinality(CoSigners), Enable(a, n)
    PROVE  IntentInv'
<1>1. PICK T : req \in [Requests -> ConfirmRequest(T)]
    BY DEF IntentInv, IntentsTyped
<1>2. Cardinality(CoSigners) \in Nat /\ n \in Nat
    BY IntentAssumption, FS_CardinalityType
<1>3. ASSUME NEW r \in Requests
      PROVE  /\ req'[r] \in ConfirmRequest(T) /\ req'[r].at = req[r].at
             /\ req'[r].intent = req[r].intent /\ req'[r].tx = req[r].tx
             /\ req'[r].threshold = req[r].threshold
             /\ req'[r].least <= req[r].least
    BY <1>1, <1>2 DEF Enable, ConfirmRequest
<1>4. req' \in [Requests -> ConfirmRequest(T)]
  <2>1. req' = [r \in Requests |-> req'[r]]
    BY DEF Enable
  <2> QED
    BY <1>3, <2>1
<1>5. RequestsJudged'
  <2> SUFFICES ASSUME NEW r \in Requests
               PROVE  /\ req'[r].at # "idle" =>
                            /\ req'[r].intent \in Intents /\ row'[req'[r].intent] # None
                            /\ req'[r].least <= req'[r].threshold
                      /\ req'[r].at = "submitting" =>
                            /\ HashOf(req'[r].tx) = row'[req'[r].intent].issued
                            /\ ~FewStroops(row'[req'[r].intent].amount)
                            /\ row'[req'[r].intent].direction = "withdrawal" =>
                                  /\ Signers(req'[r].tx) \subseteq CoSigners
                                  /\ Cardinality(Signers(req'[r].tx)) >= req'[r].least
    BY DEF RequestsJudged, Exists
  <2>1. /\ req[r].at # "idle" => Exists(req[r].intent) /\ req[r].least <= req[r].threshold
        /\ req[r].at = "submitting" =>
              /\ HashOf(req[r].tx) = row[req[r].intent].issued
              /\ ~FewStroops(row[req[r].intent].amount)
              /\ row[req[r].intent].direction = "withdrawal" =>
                    /\ Signers(req[r].tx) \subseteq CoSigners
                    /\ Cardinality(Signers(req[r].tx)) >= req[r].least
    BY DEF IntentInv, RequestsJudged
  <2>2. /\ req[r].least \in Nat /\ req[r].threshold \in Nat /\ req'[r].least \in Nat
    BY <1>1, <1>3 DEF ConfirmRequest
  <2>3. Signers(req[r].tx) \subseteq CoSigners => Cardinality(Signers(req[r].tx)) \in Nat
    BY IntentAssumption, FS_Subset, FS_CardinalityType
  <2>4. row' = row
    BY DEF Enable
  <2>5. req[r].least <= req[r].threshold => req'[r].least <= req'[r].threshold
    BY <1>3, <2>2
  <2>6. /\ Signers(req[r].tx) \subseteq CoSigners /\ Cardinality(Signers(req[r].tx)) >= req[r].least
           => Cardinality(Signers(req'[r].tx)) >= req'[r].least
    BY <1>3, <2>2, <2>3
  <2> QED
    BY <1>3, <2>1, <2>4, <2>5, <2>6 DEF Exists
<1>6. Grows
    BY RowsStay DEF Enable
<1>7. SyncFound' /\ sync' \in [queue : SUBSET Intents, at : Intents \cup {None}, read : {None}] /\ now' \in Nat
    BY <1>6, SyncStays DEF Enable, IntentInv, IntentsTyped
<1>8. group' \in [account : TreasuryAccounts \cup {None}, required : Nat, configs : Nat]
    BY <1>2 DEF Enable, IntentInv, IntentsTyped
<1> QED
    BY <1>4, <1>5, <1>7, <1>8, QuietKeeps DEF Enable

(* The row and its envelope are made from what the creation has noted: the *)
(* envelope ends later than the row, by what the creation has taken.       *)
LEMMA CreateKeeps ==
    ASSUME IntentInv, DraftsPending, NEW i \in Intents, CreateIntent(i)
    PROVE  IntentInv'
<1>0. PICK d \in Draft : d = draft[i] /\ row[i] = None /\ d.openedAt <= now
    BY DEF CreateIntent, DraftsPending
<1>1. PICK p : /\ p = PaymentOf(i, d) /\ InTime(d)
               /\ row' = [row EXCEPT ![i] =
                    [direction |-> d.direction, status |-> d.status, createdAt |-> now,
                     expiresAt |-> ExpiresAt(d), destination |-> p.destination,
                     asset |-> p.asset, amount |-> p.amount, hash |-> None,
                     issued |-> BuildPayment(p, Sequence(p.source), now, d.validity)]]
               /\ UNCHANGED <<group, req, ledger, sync, reading, cache, now, faults>>
    BY <1>0 DEF CreateIntent
<1>2. /\ now \in Nat /\ d.validity \in Nat \ {0} /\ d.account \in TreasuryAccounts
      /\ d.openedAt \in Nat /\ d.amount \in Amounts /\ d.status \in Live
      /\ d.direction \in {"deposit", "withdrawal"} /\ TxTimeout \in Nat
      /\ row \in [Intents -> IntentRow \cup {None}]
    BY <1>0, IntentAssumption DEF IntentInv, IntentsTyped, Draft
<1>a. PICK x : x = ExpiresAt(d)
    OBVIOUS
<1>b. PICK m : m = now + d.validity
    OBVIOUS
<1>c. x \in Nat \ {0} /\ m \in Nat /\ x <= m /\ m <= x + TxTimeout
    BY <1>0, <1>1, <1>2, <1>a, <1>b DEF ExpiresAt, InTime
<1>3. /\ p.source = (IF d.direction = "deposit" THEN Payer ELSE d.account)
      /\ p.destination = (IF d.direction = "deposit" THEN d.account ELSE Payee)
      /\ p.asset = Lumens /\ p.amount = d.amount /\ p.code = i
    BY <1>1 DEF PaymentOf
<1>4. p.source \in Accounts /\ p.destination \in Accounts
    BY <1>2, <1>3, IntentAssumption
<1>5. Sequence(p.source) \in Nat
  <2>1. IsFiniteSet({u \in ledger : u.tx.source = p.source})
    BY FS_Subset DEF IntentInv, IntentsTyped
  <2> QED
    BY <2>1, FS_CardinalityType DEF Sequence
<1>6. PICK e : e = BuildPayment(p, Sequence(p.source), now, d.validity)
    OBVIOUS
<1>7. /\ e \in Envelope /\ e.memo = MemoText(i) /\ e.ops = PaymentTo(p.destination, d.amount)
      /\ e.maxTime = m /\ e.source = p.source
  <2>1. e = [kind |-> "payment", source |-> p.source, sequence |-> Sequence(p.source) + 1,
             ops |-> PaymentTo(p.destination, d.amount), fee |-> MaxFeePerOp, memo |-> MemoText(i),
             minTime |-> 0, maxTime |-> m, sigs |-> << >>]
    BY <1>3, <1>6, <1>b DEF BuildPayment, PaymentTo
  <2>2. Sequence(p.source) + 1 \in Nat
    BY <1>5
  <2> QED
    BY <1>2, <1>4, <1>c, <2>1, <2>2 DEF Envelope
<1>8. PICK w : w = [direction |-> d.direction, status |-> d.status, createdAt |-> now,
                    expiresAt |-> x, destination |-> p.destination,
                    asset |-> p.asset, amount |-> p.amount, hash |-> None, issued |-> e]
    OBVIOUS
<1>10. /\ w \in IntentRow /\ w.direction = d.direction /\ w.status \in Live /\ w.hash = None
       /\ w.issued = e /\ w.destination = p.destination /\ w.expiresAt = x /\ w.amount = d.amount
    BY <1>2, <1>3, <1>4, <1>7, <1>8, <1>c DEF IntentRow
<1>11. /\ row'[i] = w /\ \A j \in Intents : j # i => row'[j] = row[j]
       /\ row' \in [Intents -> IntentRow \cup {None}]
  <2>1. row' = [row EXCEPT ![i] = w]
    BY <1>1, <1>6, <1>8, <1>a
  <2> QED
    BY <1>2, <1>10, <2>1
<1>12. Grows
    BY <1>0, <1>1, <1>11 DEF Grows
<1>13. IssuedForRow'
  <2> SUFFICES ASSUME NEW j \in Intents, row'[j] # None
               PROVE  /\ row'[j].issued.memo = MemoText(j)
                      /\ row'[j].issued.ops = PaymentTo(row'[j].destination, row'[j].amount)
                      /\ row'[j].expiresAt <= row'[j].issued.maxTime
                      /\ row'[j].issued.maxTime <= row'[j].expiresAt + TxTimeout
                      /\ row'[j].hash \in {None, row'[j].issued}
                      /\ IF row'[j].direction = "deposit" THEN row'[j].issued.source = Payer
                                                          ELSE row'[j].destination = Payee
    BY DEF IssuedForRow
  <2>1. CASE j # i
    BY <1>11, <2>1 DEF IntentInv, IssuedForRow
  <2>2. CASE j = i
    BY <1>2, <1>3, <1>7, <1>10, <1>11, <1>c, <2>2
  <2> QED
    BY <2>1, <2>2
<1>14. OutcomeIsIncluded'
  <2> SUFFICES ASSUME NEW j \in Intents, row'[j] # None
               PROVE  /\ row'[j].status = "failed" =>
                            \/ [tx |-> row'[j].issued, ok |-> FALSE] \in ledger
                            \/ FewStroops(row'[j].amount)
                      /\ row'[j].status = "confirmed" =>
                            /\ row'[j].hash = row'[j].issued
                            /\ [tx |-> row'[j].issued, ok |-> TRUE] \in ledger
    BY <1>1 DEF OutcomeIsIncluded, Entry
  <2>1. CASE j # i
    BY <1>11, <2>1 DEF IntentInv, OutcomeIsIncluded, Entry
  <2>2. CASE j = i
    BY <1>10, <1>11, <2>2 DEF Live
  <2> QED
    BY <2>1, <2>2
<1>15. /\ \E T : req' \in [Requests -> ConfirmRequest(T)]
       /\ sync' \in [queue : SUBSET Intents, at : Intents \cup {None}, read : {None}]
  <2>1. req' = req /\ sync' = sync
    BY <1>1
  <2> QED
    BY <2>1, Zenon DEF IntentInv, IntentsTyped
<1>16. RequestsJudged' /\ SyncFound'
    BY <1>1, <1>12, RequestsStay, SyncStays
<1> QED
    BY <1>1, <1>11, <1>12, <1>13, <1>14, <1>15, <1>16, RecordKeeps

LEMMA OpenKeeps ==
    ASSUME IntentInv, NEW r \in Requests, NEW i \in Intents, OpenConfirm(r, i)
    PROVE  IntentInv'
<1>1. PICK T : req \in [Requests -> ConfirmRequest(T)]
    BY DEF IntentInv, IntentsTyped
<1>2. PICK q : q = [Idle EXCEPT !.at = "open", !.intent = i, !.account = group.account,
                                !.threshold = group.required, !.least = group.required]
    OBVIOUS
<1>3. group.account \in TreasuryAccounts \cup {None} /\ group.required \in Nat
    BY DEF IntentInv, IntentsTyped
<1>4. /\ q \in ConfirmRequest(T \cup {None}) /\ q.at = "open" /\ q.intent = i
      /\ q.least = group.required /\ q.threshold = group.required
    BY <1>2, <1>3 DEF Idle, ConfirmRequest
<1>5. req \in [Requests -> ConfirmRequest(T \cup {None})]
    BY <1>1 DEF ConfirmRequest
<1>6. /\ req' = [req EXCEPT ![r] = q] /\ row[i] # None
      /\ UNCHANGED <<group, row, ledger, sync, reading, cache, now, faults>>
    BY <1>2 DEF OpenConfirm
<1>7. req' \in [Requests -> ConfirmRequest(T \cup {None})]
    BY <1>4, <1>5, <1>6
<1>8. Grows
    BY <1>6, RowsStay
<1>9. RequestsJudged'
  <2>1. q.least <= q.threshold
    BY <1>3, <1>4
  <2> QED
    BY <1>4, <1>6, <1>8, <2>1, RequestMoves
<1>10. SyncFound' /\ sync' \in [queue : SUBSET Intents, at : Intents \cup {None}, read : {None}] /\ now' \in Nat
    BY <1>6, <1>8, SyncStays DEF IntentInv, IntentsTyped
<1>11. group' \in [account : TreasuryAccounts \cup {None}, required : Nat, configs : Nat]
    BY <1>6 DEF IntentInv, IntentsTyped
<1> QED
    BY <1>6, <1>7, <1>9, <1>10, <1>11, QuietKeeps

(* An accepted multisig payment carries enough signatures, and no others. *)
LEMMA JudgedSigners ==
    ASSUME NEW tx, NEW e, NEW q, NEW n, ValidateMultisigTx(tx, e, q, n) = "none"
    PROVE  Signers(tx) \subseteq q.signers /\ Cardinality(Signers(tx)) >= q.threshold
<1> DEFINE a == ParseChecks(tx) \o TimeBoundsChecks(tx, e.expiresAt, n)
           b == a \o MatchChecks(tx, e)
           m == MultisigChecks(tx, q)
<1>1. a \in Seq(CheckRecord)
    BY ParseTyped, BoundsTyped, BothPassing
<1>2. b \in Seq(CheckRecord)
  <2> HIDE DEF a
  <2> QED
    BY <1>1, MatchTyped, BothPassing
<1>3. m \in Seq(CheckRecord)
    BY MultisigTyped
<1>4. FirstFailure(b \o m) = "none"
    BY Zenon DEF ValidateMultisigTx
<1>5. Passing(m)
  <2> HIDE DEF b, m
  <2> QED
    BY <1>2, <1>3, <1>4, BothPassing, NoneIsPassing
<1> DEFINE c1 == Check("treasury_misconfigured", q.signers # {})
           c2 == Check("unauthorized", tx.sigs # << >>)
           c3 == Check("unauthorized", Signers(tx) \subseteq q.signers)
           c4 == Check("unauthorized", Cardinality(Signers(tx)) >= q.threshold)
<1>6. m = <<c1, c2, c3, c4>>
    BY Zenon DEF MultisigChecks
<1>7. /\ c3.ok = (Signers(tx) \subseteq q.signers)
      /\ c4.ok = (Cardinality(Signers(tx)) >= q.threshold)
    BY DEF Check
<1>8. c3.ok /\ c4.ok
  <2> HIDE DEF c1, c2, c3, c4, m
  <2>1. m[3].ok /\ m[4].ok
    <3>1. Len(m) = 4
      BY <1>6
    <3> QED
      BY <1>5, <3>1 DEF Passing
  <2> QED
    BY <1>6, <2>1
<1> QED
    BY <1>7, <1>8

(* An accepted payment of the envelope issued is not of a few stroops. *)
LEMMA JudgedAmount ==
    ASSUME NEW tx, NEW e, NEW n, NEW a \in Amounts, NEW d, ValidateSignedPayment(tx, e, n) = "none",
           tx.ops = PaymentTo(d, a), e.amount = DecimalText(a)
    PROVE  ~FewStroops(a)
<1> DEFINE b == ParseChecks(tx) \o TimeBoundsChecks(tx, e.expiresAt, n)
           m == MatchChecks(tx, e)
           op == FirstOperation(tx)
<1>1. b \in Seq(CheckRecord)
    BY ParseTyped, BoundsTyped, BothPassing
<1>2. m \in Seq(CheckRecord)
    BY MatchTyped
<1>3. FirstFailure(b \o m) = "none"
    BY Zenon DEF ValidateSignedPayment
<1>4. Passing(m)
  <2> HIDE DEF b, m
  <2> QED
    BY <1>1, <1>2, <1>3, BothPassing, NoneIsPassing
<1>5. op.amount = OnTheWire(a)
    BY DEF FirstOperation, PaymentTo
<1> HIDE DEF op
<1> DEFINE c1 == Check("source", tx.source = e.source)
           c2 == Check("operationCount", Len(tx.ops) = 1)
           c3 == Check("fee", FeeInBand(tx))
           c4 == Check("operationType", op.type = "payment")
           c5 == Check("operationSource", op.source \in {NoSource, e.source})
           c6 == Check("destination", op.destination = e.destination)
           c7 == Check("asset", SameAsset(op.asset, e.asset))
           c8 == Check("amount", NormalizeAmount(op.amount) = NormalizeAmount(e.amount))
           c9 == Check("memo", tx.memo = MemoText(e.code))
<1>6. m = <<c1, c2, c3, c4, c5, c6, c7, c8, c9>>
    BY Zenon DEF MatchChecks, op
<1>7. c8.ok = (NormalizeAmount(op.amount) = NormalizeAmount(e.amount))
    BY DEF Check
<1>8. c8.ok
  <2> HIDE DEF c1, c2, c3, c4, c5, c6, c7, c8, c9, m
  <2>1. m[8].ok
    <3>1. Len(m) = 9
      BY <1>6
    <3> QED
      BY <1>4, <3>1 DEF Passing
  <2> QED
    BY <1>6, <2>1
<1>9. NormalizeAmount(OnTheWire(a)) = NormalizeAmount(DecimalText(a))
    BY <1>5, <1>7, <1>8
<1> QED
    BY <1>9, WireAmount

LEMMA SubmitKeeps ==
    ASSUME IntentInv, NEW r \in Requests, NEW tx, SubmitConfirm(r, tx)
    PROVE  IntentInv'
<1>1. PICK T : req \in [Requests -> ConfirmRequest(T)]
    BY DEF IntentInv, IntentsTyped
<1>2. /\ UNCHANGED <<group, row, ledger, sync, reading, cache, now, faults>>
      /\ req[r].at = "open"
    BY DEF SubmitConfirm
<1>3. Grows
    BY <1>2, RowsStay
<1>4. RequestsJudged' /\ \E U : req' \in [Requests -> ConfirmRequest(U)]
  <2>1. CASE End(r)
    BY <1>3, <2>1, RequestEnds
  <2>2. CASE /\ ConfirmRefusal(req[r], tx) = "none"
             /\ req' = [req EXCEPT ![r].at = "submitting", ![r].tx = tx]
    <3>1. PICK q : q = [req[r] EXCEPT !.at = "submitting", !.tx = tx]
      OBVIOUS
    <3>2. /\ q.at = "submitting" /\ q.tx = tx /\ q.intent = req[r].intent
          /\ q.least = req[r].least /\ q.threshold = req[r].threshold
          /\ q \in ConfirmRequest(T \cup {tx})
          /\ q.least \in Nat /\ q.threshold \in Nat
      BY <1>1, <3>1 DEF ConfirmRequest
    <3>3. req' = [req EXCEPT ![r] = q]
      BY <1>1, <2>2, <3>1
    <3>4. req \in [Requests -> ConfirmRequest(T \cup {tx})]
      BY <1>1 DEF ConfirmRequest
    <3>5. req' \in [Requests -> ConfirmRequest(T \cup {tx})]
      BY <3>2, <3>3, <3>4
    <3>6. PICK i \in Intents : i = req[r].intent /\ row[i] # None /\ q.least <= q.threshold
      BY <1>2, <3>2 DEF IntentInv, RequestsJudged, Exists
    <3>7. row[i].direction \in {"deposit", "withdrawal"}
      BY <3>6, LookupIsIssued DEF IntentRow
    <3>8. HashOf(tx) = row[i].issued
      BY <2>2, <3>6 DEF ConfirmRefusal
    <3>a. ~FewStroops(row[i].amount)
      <4>1. PICK e : e = Expected(i, req[r].account)
        OBVIOUS
      <4>2. ValidateSignedPayment(tx, e, now) = "none"
        BY <2>2, <3>6, <4>1 DEF ConfirmRefusal
      <4>3. e.amount = DecimalText(row[i].amount)
        BY <4>1 DEF Expected
      <4>4. row[i] \in IntentRow /\ row[i].issued \in Envelope
        BY <3>6, LookupIsIssued
      <4>5. tx.ops = PaymentTo(row[i].destination, row[i].amount) /\ row[i].amount \in Amounts
        BY <3>6, <3>8, <4>4, HashFields DEF IntentInv, IssuedForRow, IntentRow
      <4> QED
        BY <4>2, <4>3, <4>5, JudgedAmount
    <3>9. ASSUME row[i].direction = "withdrawal"
          PROVE  Signers(tx) \subseteq CoSigners /\ Cardinality(Signers(tx)) >= q.least
      <4>1. PICK e : ValidateMultisigTx(tx, e, Requirement(req[r]), now) = "none"
        BY <2>2, <3>6, <3>9 DEF ConfirmRefusal
      <4>2. /\ Requirement(req[r]).signers = CoSigners
            /\ Requirement(req[r]).threshold = q.threshold
        BY <3>2 DEF Requirement
      <4>3. Signers(tx) \subseteq CoSigners /\ Cardinality(Signers(tx)) >= q.threshold
        BY <4>1, <4>2, JudgedSigners
      <4>4. Cardinality(Signers(tx)) \in Nat
        BY <4>3, IntentAssumption, FS_Subset, FS_CardinalityType
      <4> QED
        BY <3>2, <3>6, <4>3, <4>4
    <3>10. RequestsJudged'
      BY <1>2, <1>3, <3>2, <3>3, <3>6, <3>8, <3>9, <3>a, RequestMoves
    <3> QED
      BY <3>5, <3>10
  <2> QED
    BY <2>1, <2>2 DEF SubmitConfirm
<1>5. SyncFound' /\ sync' \in [queue : SUBSET Intents, at : Intents \cup {None}, read : {None}] /\ now' \in Nat
    BY <1>2, <1>3, SyncStays DEF IntentInv, IntentsTyped
<1>6. group' \in [account : TreasuryAccounts \cup {None}, required : Nat, configs : Nat]
    BY <1>2 DEF IntentInv, IntentsTyped
<1> QED
    BY <1>2, <1>4, <1>5, <1>6, QuietKeeps

LEMMA ReceiveKeeps ==
    ASSUME IntentInv, NEW r \in Requests, LedgerReceives(r)
    PROVE  IntentInv'
<1>1. PICK i \in Intents : /\ i = req[r].intent /\ row[i] # None
                           /\ HashOf(req[r].tx) = row[i].issued
    BY DEF LedgerReceives, IntentInv, RequestsJudged, Exists
<1>2. PICK e \in Envelope : e = row[i].issued
    BY <1>1, LookupIsIssued
<1>3. req[r].tx.source = e.source /\ req[r].tx.sequence = e.sequence
    BY <1>1, <1>2, HashFields
<1>4. e.sequence = Sequence(e.source) + 1
    BY <1>3 DEF LedgerReceives, Accepts
<1>5. PICK ok \in BOOLEAN : ledger' = ledger \cup {[tx |-> row[i].issued, ok |-> ok]}
    BY <1>1 DEF LedgerReceives, Included
<1> QED
    BY <1>1, <1>2, <1>4, <1>5, InclusionKeeps DEF LedgerReceives

LEMMA WalletKeeps ==
    ASSUME IntentInv, NEW i \in Intents, NEW sigs, WalletPays(i, sigs)
    PROVE  IntentInv'
<1>1. PICK e \in Envelope : e = row[i].issued
    BY LookupIsIssued DEF WalletPays
<1>2. PICK tx : tx = [e EXCEPT !.sigs = sigs]
    OBVIOUS
<1>3. HashOf(tx) = e /\ tx.source = e.source /\ tx.sequence = e.sequence
    BY <1>2, SignedHash
<1>4. /\ row[i] # None /\ Accepts(tx) /\ \E ok \in BOOLEAN : ledger' = Included(tx, ok)
      /\ UNCHANGED <<group, row, req, sync, reading, cache, now, faults>>
    BY <1>1, <1>2 DEF WalletPays
<1>5. e.sequence = Sequence(e.source) + 1
    BY <1>3, <1>4 DEF Accepts
<1>6. PICK ok \in BOOLEAN : ledger' = ledger \cup {[tx |-> row[i].issued, ok |-> ok]}
    BY <1>1, <1>3, <1>4 DEF Included
<1> QED
    BY <1>1, <1>4, <1>5, <1>6, InclusionKeeps

LEMMA ConfirmKeeps ==
    ASSUME IntentInv, NEW r \in Requests, CommitConfirm(r)
    PROVE  IntentInv'
<1>1. PICK i \in Intents : /\ i = req[r].intent /\ row[i] # None
                           /\ HashOf(req[r].tx) = row[i].issued
    BY DEF CommitConfirm, IntentInv, RequestsJudged, Exists
<1>2. /\ Entry(i, TRUE) \in ledger
      /\ row' = [row EXCEPT ![i].status = "confirmed", ![i].hash = row[i].issued]
      /\ End(r) /\ UNCHANGED <<group, ledger, sync, reading, cache, now, faults>>
    BY <1>1 DEF CommitConfirm, Applied, Entry
<1>4. row' \in [Intents -> IntentRow \cup {None}] /\ IssuedForRow' /\ OutcomeIsIncluded' /\ Grows
    BY <1>1, <1>2, OutcomeKeeps
<1>5. RequestsJudged' /\ \E T : req' \in [Requests -> ConfirmRequest(T)]
    BY <1>2, <1>4, RequestEnds
<1>6. SyncFound' /\ sync' \in [queue : SUBSET Intents, at : Intents \cup {None}, read : {None}]
    BY <1>2, <1>4, SyncStays DEF IntentInv, IntentsTyped
<1> QED
    BY <1>2, <1>4, <1>5, <1>6, RecordKeeps

LEMMA RollBackKeeps ==
    ASSUME IntentInv, NEW r \in Requests, RollBackConfirm(r)
    PROVE  IntentInv'
<1>1. /\ End(r) /\ UNCHANGED <<group, row, ledger, sync, reading, cache, now, faults>>
    BY DEF RollBackConfirm
<1>2. Grows
    BY <1>1, RowsStay
<1>3. RequestsJudged' /\ \E T : req' \in [Requests -> ConfirmRequest(T)]
    BY <1>1, <1>2, RequestEnds
<1>4. SyncFound' /\ sync' \in [queue : SUBSET Intents, at : Intents \cup {None}, read : {None}] /\ now' \in Nat
    BY <1>1, <1>2, SyncStays DEF IntentInv, IntentsTyped
<1>5. group' \in [account : TreasuryAccounts \cup {None}, required : Nat, configs : Nat]
    BY <1>1 DEF IntentInv, IntentsTyped
<1> QED
    BY <1>1, <1>3, <1>4, <1>5, QuietKeeps

(* A request's step aside, the sync moves: nothing included, no request moved. *)
LEMMA SyncKeeps ==
    ASSUME IntentInv, UNCHANGED <<group, row, req, ledger, now>>,
           sync' \in [queue : SUBSET Intents, at : Intents \cup {None}, read : {None}], SyncFound'
    PROVE  IntentInv'
<1>1. Grows
    BY RowsStay
<1>2. RequestsJudged'
    BY <1>1, RequestsStay
<1>3. \E T : req' \in [Requests -> ConfirmRequest(T)]
    BY Zenon DEF IntentInv, IntentsTyped
<1>4. /\ group' \in [account : TreasuryAccounts \cup {None}, required : Nat, configs : Nat]
      /\ now' \in Nat
    BY DEF IntentInv, IntentsTyped
<1> QED
    BY <1>2, <1>3, <1>4, QuietKeeps

(* The sync is done with a row. *)
LEMMA DroppedFound ==
    ASSUME IntentInv, Grows, NEW i \in Intents, Dropped(i)
    PROVE  SyncFound' /\ sync' \in [queue : SUBSET Intents, at : Intents \cup {None}, read : {None}]
<1>1. sync.queue \subseteq Intents
    BY DEF IntentInv, IntentsTyped
<1>2. /\ sync'.queue = sync.queue \ {i} /\ sync'.at = None
      /\ sync' \in [queue : SUBSET Intents, at : Intents \cup {None}, read : {None}]
    BY <1>1 DEF Dropped
<1>3. \A j \in sync'.queue : row'[j] # None
    BY <1>1, <1>2 DEF IntentInv, SyncFound, Grows
<1> QED
    BY <1>2, <1>3 DEF SyncFound

(* The sync writes what the network shows, and only to a live row. *)
LEMMA MarkKeeps ==
    ASSUME IntentInv, NEW i \in Intents, row[i] # None, NEW st \in {"confirmed", "failed"},
           st = "confirmed" => Entry(i, TRUE) \in ledger,
           st = "failed" => Entry(i, FALSE) \in ledger \/ FewStroops(row[i].amount),
           MarkTreasuryTransaction(i, st), Dropped(i),
           UNCHANGED <<group, req, ledger, now>>
    PROVE  IntentInv'
<1>1. LookupHash(i) = row[i].issued
    BY LookupIsIssued
<1>2. CASE row' = row
  <2>1. Grows
    BY <1>2, RowsStay
  <2>2. SyncFound' /\ sync' \in [queue : SUBSET Intents, at : Intents \cup {None}, read : {None}]
    BY <2>1, DroppedFound
  <2> QED
    BY <1>2, <2>2, SyncKeeps
<1>3. CASE row' = [row EXCEPT ![i].status = st, ![i].hash = row[i].issued]
  <2>1. row' \in [Intents -> IntentRow \cup {None}] /\ IssuedForRow' /\ OutcomeIsIncluded' /\ Grows
    BY <1>3, OutcomeKeeps
  <2>2. RequestsJudged'
    BY <2>1, RequestsStay
  <2>3. \E T : req' \in [Requests -> ConfirmRequest(T)]
    BY Zenon DEF IntentInv, IntentsTyped
  <2>4. SyncFound' /\ sync' \in [queue : SUBSET Intents, at : Intents \cup {None}, read : {None}]
    BY <2>1, DroppedFound
  <2> QED
    BY <2>1, <2>2, <2>3, <2>4, RecordKeeps
<1> QED
    BY <1>1, <1>2, <1>3 DEF MarkTreasuryTransaction

LEMMA LoadKeeps ==
    ASSUME IntentInv, SyncLoad
    PROVE  IntentInv'
<1>1. /\ sync' = [Resting EXCEPT !.queue = {i \in Intents : Syncable(i)}]
      /\ UNCHANGED <<group, row, req, ledger, reading, cache, now, faults>>
    BY DEF SyncLoad
<1>2. /\ sync'.queue = {i \in Intents : Syncable(i)} /\ sync'.at = None
      /\ sync' \in [queue : SUBSET Intents, at : Intents \cup {None}, read : {None}]
    BY <1>1 DEF Resting
<1>3. SyncFound'
    BY <1>1, <1>2 DEF SyncFound, Syncable
<1> QED
    BY <1>1, <1>2, <1>3, SyncKeeps

(* What the lookup finds under a row's hash is its own envelope: a failed  *)
(* inclusion is the only one, so that the row can no longer be paid.       *)
LEMMA LookupKeeps ==
    ASSUME IntentInv, NEW i \in Intents, SyncLookup(i)
    PROVE  IntentInv'
<1> DEFINE found == {t \in ledger : t.tx = LookupHash(i)}
<1>1. /\ i \in sync.queue /\ UNCHANGED <<group, req, ledger, reading, cache, now, faults>>
      /\ IF \E t \in found : t.ok
           THEN sync' = [sync EXCEPT !.at = i] /\ row' = row
           ELSE /\ Dropped(i)
                /\ IF found # {} THEN MarkTreasuryTransaction(i, "failed") ELSE row' = row
    BY DEF SyncLookup
<1>2. row[i] # None
    BY <1>1 DEF IntentInv, SyncFound
<1>3. LookupHash(i) = row[i].issued
    BY <1>2, LookupIsIssued
<1>4. ASSUME NEW t \in found PROVE t = Entry(i, t.ok) /\ t \in ledger /\ t.ok \in BOOLEAN
  <2>1. t \in [tx : Envelope, ok : BOOLEAN] /\ t.tx = row[i].issued
    BY <1>3 DEF IntentInv, IntentsTyped
  <2> QED
    BY <2>1 DEF Entry
<1> HIDE DEF found
<1>5. CASE \E t \in found : t.ok
  <2>1. PICK t \in found : t.ok
    BY <1>5
  <2>2. Entry(i, TRUE) \in ledger
    <3>1. t.ok = TRUE
      BY <1>4, <2>1
    <3> QED
      BY <1>4, <3>1
  <2>3. /\ sync' = [sync EXCEPT !.at = i] /\ row' = row
        /\ sync \in [queue : SUBSET Intents, at : Intents \cup {None}, read : {None}]
    BY <1>1, <1>5 DEF IntentInv, IntentsTyped
  <2>4. /\ sync'.queue = sync.queue /\ sync'.at = i
        /\ sync' \in [queue : SUBSET Intents, at : Intents \cup {None}, read : {None}]
    BY <2>3
  <2>5. SyncFound'
    BY <1>1, <1>2, <2>2, <2>3, <2>4 DEF SyncFound, IntentInv, Entry
  <2> QED
    BY <1>1, <2>3, <2>4, <2>5, SyncKeeps
<1>6. CASE ~ (\E t \in found : t.ok) /\ found = {}
  <2>1. Dropped(i) /\ row' = row
    BY <1>1, <1>6
  <2>2. Grows
    BY <1>1, <2>1, RowsStay
  <2>3. SyncFound' /\ sync' \in [queue : SUBSET Intents, at : Intents \cup {None}, read : {None}]
    BY <2>1, <2>2, DroppedFound
  <2> QED
    BY <1>1, <2>1, <2>3, SyncKeeps
<1>7. CASE ~ (\E t \in found : t.ok) /\ found # {}
  <2>1. PICK t \in found : ~ t.ok
    BY <1>7
  <2>2. Entry(i, FALSE) \in ledger
    <3>1. t.ok = FALSE
      BY <1>4, <2>1
    <3> QED
      BY <1>4, <3>1
  <2>4. Dropped(i) /\ MarkTreasuryTransaction(i, "failed")
    BY <1>1, <1>7
  <2> QED
    BY <1>1, <1>2, <2>2, <2>4, MarkKeeps
<1> QED
    BY <1>5, <1>6, <1>7

(* A payment that was found is verified against the row it was built from, *)
(* and passes unless it is of a few stroops.                               *)
LEMMA VerifyKeeps ==
    ASSUME IntentInv, NEW i \in Intents, SyncVerify(i)
    PROVE  IntentInv'
<1>1. /\ sync.at = i /\ Dropped(i) /\ UNCHANGED <<group, req, ledger, reading, cache, now, faults>>
      /\ MarkTreasuryTransaction(i, IF VerifyTreasuryTransaction(i) THEN "confirmed" ELSE "failed")
    BY DEF SyncVerify
<1>2. row[i] # None /\ Entry(i, TRUE) \in ledger
    BY <1>1, IntentAssumption DEF IntentInv, SyncFound
<1>3. ASSUME ~FewStroops(row[i].amount) PROVE VerifyTreasuryTransaction(i)
  <2>1. PICK w \in IntentRow : w = row[i] /\ LookupHash(i) = w.issued
    BY <1>2, LookupIsIssued
  <2>2. /\ w.issued.memo = MemoText(i) /\ w.issued.ops = PaymentTo(w.destination, w.amount)
        /\ w.amount \in Amounts /\ w.asset = Lumens
    BY <1>2, <2>1 DEF IntentInv, IssuedForRow, IntentRow
  <2>3. PICK x : x = [destination |-> w.destination, asset |-> w.asset,
                      amount |-> DecimalText(w.amount)]
    OBVIOUS
  <2>4. x.destination = w.destination /\ x.asset = Lumens /\ x.amount = DecimalText(w.amount)
    BY <2>2, <2>3
  <2>5. PaymentOperationFailure(Head(w.issued.ops), x) = "none"
    BY <1>3, <2>1, <2>2, <2>4, IssuedPays
  <2>6. PaymentMemoFailure(w.issued.memo, i) = "none"
    BY <2>2, IssuedNames
  <2> QED
    BY <2>1, <2>3, <2>5, <2>6 DEF VerifyTreasuryTransaction
<1>4. CASE VerifyTreasuryTransaction(i)
  <2>1. MarkTreasuryTransaction(i, "confirmed")
    BY <1>1, <1>4
  <2> QED
    BY <1>1, <1>2, <2>1, MarkKeeps
<1>5. CASE ~VerifyTreasuryTransaction(i)
  <2>1. MarkTreasuryTransaction(i, "failed") /\ FewStroops(row[i].amount)
    BY <1>1, <1>3, <1>5
  <2> QED
    BY <1>1, <1>2, <2>1, MarkKeeps
<1> QED
    BY <1>4, <1>5

(* No error of a read is taken for a mismatch. *)
LEMMA ReadFailureKeeps ==
    ASSUME IntentInv, NEW i \in Intents,
           SyncUnavailable(i) \/ \E error \in ReadErrors : SyncVerifyFails(i, error)
    PROVE  IntentInv'
<1>1. ASSUME NEW error \in ReadErrors PROVE ClassifyVerificationError(error) # "verification_failed"
    BY DEF ReadErrors, ClassifyVerificationError
<1>2. Dropped(i) /\ UNCHANGED <<group, row, req, ledger, now>>
    BY <1>1 DEF SyncUnavailable, SyncVerifyFails
<1>3. Grows
    BY <1>2, RowsStay
<1>4. SyncFound' /\ sync' \in [queue : SUBSET Intents, at : Intents \cup {None}, read : {None}]
    BY <1>2, <1>3, DroppedFound
<1> QED
    BY <1>2, <1>4, SyncKeeps

LEMMA CrashKeeps ==
    ASSUME IntentInv, NEW k \in Reconcilers, WorkerCrashes(k)
    PROVE  IntentInv'
<1>1. sync' \in {sync, Resting} /\ UNCHANGED <<group, row, req, ledger, now>>
    BY DEF WorkerCrashes
<1>2. Grows
    BY <1>1, RowsStay
<1>3. CASE sync' = sync
    BY <1>1, <1>2, <1>3, SyncStays, SyncKeeps DEF IntentInv, IntentsTyped
<1>4. CASE sync' = Resting
  <2>1. /\ SyncFound'
        /\ sync' \in [queue : SUBSET Intents, at : Intents \cup {None}, read : {None}]
    BY <1>4 DEF SyncFound, Resting
  <2> QED
    BY <1>1, <2>1, SyncKeeps
<1> QED
    BY <1>1, <1>3, <1>4

(* The cache and the clock are no part of it. *)
LEMMA ElsewhereKeeps ==
    ASSUME IntentInv, UNCHANGED <<group, row, req, ledger, sync>>, now' \in Nat
    PROVE  IntentInv'
<1>1. Grows
    BY RowsStay
<1>2. RequestsJudged' /\ SyncFound'
    BY <1>1, RequestsStay, SyncStays
<1>3. \E T : req' \in [Requests -> ConfirmRequest(T)]
    BY Zenon DEF IntentInv, IntentsTyped
<1>4. /\ group' \in [account : TreasuryAccounts \cup {None}, required : Nat, configs : Nat]
      /\ sync' \in [queue : SUBSET Intents, at : Intents \cup {None}, read : {None}]
    BY DEF IntentInv, IntentsTyped
<1> QED
    BY <1>2, <1>3, <1>4, QuietKeeps

LEMMA IntentInit == Init => IntentInv
<1> SUFFICES ASSUME Init PROVE IntentInv
    OBVIOUS
<1>1. /\ group = [account |-> None, required |-> 0, configs |-> 0]
      /\ row = [i \in Intents |-> None] /\ req = [r \in Requests |-> Idle]
      /\ ledger = {} /\ sync = Resting /\ now = 0
    BY DEF Init
<1>2. \A r \in Requests : req[r].at = "idle"
    BY <1>1 DEF Idle
<1>3. req \in [Requests -> ConfirmRequest({None})]
    BY <1>1 DEF Idle, ConfirmRequest
<1>4. sync.queue = {} /\ sync.at = None /\ \A i \in Intents : row[i] = None
    BY <1>1 DEF Resting
<1>5. IntentsTyped
  <2>1. /\ group \in [account : TreasuryAccounts \cup {None}, required : Nat, configs : Nat]
        /\ row \in [Intents -> IntentRow \cup {None}]
        /\ sync \in [queue : SUBSET Intents, at : Intents \cup {None}, read : {None}]
        /\ now \in Nat /\ ledger \subseteq [tx : Envelope, ok : BOOLEAN]
    BY <1>1 DEF Resting
  <2>2. IsFiniteSet(ledger)
    BY <1>1, FS_EmptySet
  <2> QED
    BY <1>3, <2>1, <2>2, Zenon DEF IntentsTyped
<1>6. RequestsJudged
    BY <1>2 DEF RequestsJudged
<1> QED
    BY <1>1, <1>4, <1>5, <1>6
    DEF IntentInv, IssuedForRow, IncludedIsIssued, SequenceIsUsed, IncludedOnce,
        OutcomeIsIncluded, SyncFound

(* The steps of a creation that write no row. *)
LEMMA DraftKeeps ==
    ASSUME IntentInv, NEW i \in Intents,
           \/ \E direction, a, v : OpenIntent(i, direction, a, v)
           \/ AbandonIntent(i)
    PROVE  IntentInv'
<1>1. UNCHANGED <<group, row, req, ledger, sync, now>> /\ now \in Nat
    BY DEF OpenIntent, AbandonIntent, IntentInv, IntentsTyped
<1> QED
    BY <1>1, ElsewhereKeeps

(* The steps, with what they range over. *)
LEMMA Steps ==
    ASSUME IntentInv, DraftsPending, [Next]_vars
    PROVE  \/ \E a \in TreasuryAccounts, n \in 1..Cardinality(CoSigners) : Enable(a, n)
           \/ \E i \in Intents, direction \in {"deposit", "withdrawal"}, a \in Amounts,
                 v \in Nat \ {0} : OpenIntent(i, direction, a, v)
           \/ \E i \in Intents : CreateIntent(i) \/ AbandonIntent(i) \/ SyncUnavailable(i)
           \/ \E i \in Intents, s \in SignatureLists : WalletPays(i, s)
           \/ \E i \in Intents, error \in ReadErrors : SyncVerifyFails(i, error)
           \/ \E r \in Requests, i \in Intents : OpenConfirm(r, i)
           \/ \E r \in Requests : \E tx : SubmitConfirm(r, tx)
           \/ \E r \in Requests : LedgerReceives(r) \/ CommitConfirm(r) \/ RollBackConfirm(r)
           \/ \E k \in Reconcilers :
                 ReconcileLoad(k) \/ ReconcileFetch(k) \/ ReconcileWrite(k) \/ WorkerCrashes(k)
           \/ SyncLoad \/ \E i \in Intents : SyncLookup(i) \/ SyncVerify(i)
           \/ Tick \/ UNCHANGED vars
<1>1. /\ workload.amounts \subseteq Amounts /\ workload.validities \subseteq Nat \ {0}
      /\ workload.requests \subseteq Requests
    BY IntentAssumption DEF DraftsPending
<1>2. ASSUME NEW i \in Intents, NEW a \in workload.amounts, NEW v \in workload.validities,
             Deposit(i, a, v) \/ Withdraw(i, a, v)
      PROVE  \E direction \in {"deposit", "withdrawal"} : OpenIntent(i, direction, a, v)
    BY <1>2 DEF Deposit, Withdraw
<1>3. Move \/ UNCHANGED vars
    BY DEF Next
<1> QED
    BY <1>1, <1>2, <1>3 DEF Move, SyncStep, ReconcileStep

LEMMA IntentStep ==
    ASSUME IntentInv, DraftsPending, [Next]_vars
    PROVE  IntentInv'
<1>1. ASSUME NEW a \in TreasuryAccounts, NEW n \in 1..Cardinality(CoSigners), Enable(a, n)
      PROVE  IntentInv'
    BY <1>1, EnableKeeps
<1>2. ASSUME NEW i \in Intents, NEW direction, NEW a, NEW v, OpenIntent(i, direction, a, v)
      PROVE  IntentInv'
    BY <1>2, DraftKeeps
<1>3. ASSUME NEW i \in Intents, CreateIntent(i) \/ AbandonIntent(i) \/ SyncUnavailable(i)
      PROVE  IntentInv'
    BY <1>3, CreateKeeps, DraftKeeps, ReadFailureKeeps
<1>4. ASSUME NEW i \in Intents, NEW s \in SignatureLists, WalletPays(i, s) PROVE IntentInv'
    BY <1>4, WalletKeeps
<1>5. ASSUME NEW i \in Intents, NEW error \in ReadErrors, SyncVerifyFails(i, error)
      PROVE  IntentInv'
    BY <1>5, ReadFailureKeeps
<1>6. ASSUME NEW r \in Requests, NEW i \in Intents, OpenConfirm(r, i) PROVE IntentInv'
    BY <1>6, OpenKeeps
<1>7. ASSUME NEW r \in Requests, NEW tx, SubmitConfirm(r, tx) PROVE IntentInv'
    BY <1>7, SubmitKeeps
<1>8. ASSUME NEW r \in Requests, LedgerReceives(r) \/ CommitConfirm(r) \/ RollBackConfirm(r)
      PROVE  IntentInv'
    BY <1>8, ReceiveKeeps, ConfirmKeeps, RollBackKeeps
<1>9. ASSUME NEW k \in Reconcilers,
             ReconcileLoad(k) \/ ReconcileFetch(k) \/ ReconcileWrite(k) \/ WorkerCrashes(k)
      PROVE  IntentInv'
  <2>1. CASE WorkerCrashes(k)
    BY <2>1, CrashKeeps
  <2>2. CASE ReconcileLoad(k) \/ ReconcileFetch(k) \/ ReconcileWrite(k)
    <3>1. UNCHANGED <<group, row, req, ledger, sync, now>> /\ now \in Nat
      BY <2>2 DEF ReconcileLoad, ReconcileFetch, ReconcileWrite, IntentInv, IntentsTyped
    <3> QED
      BY <3>1, ElsewhereKeeps
  <2> QED
    BY <1>9, <2>1, <2>2
<1>10. ASSUME SyncLoad \/ \E i \in Intents : SyncLookup(i) \/ SyncVerify(i) PROVE IntentInv'
    BY <1>10, LoadKeeps, LookupKeeps, VerifyKeeps
<1>11. ASSUME Tick \/ UNCHANGED vars PROVE IntentInv'
  <2>1. UNCHANGED <<group, row, req, ledger, sync>> /\ now' \in {now, now + 1} /\ now \in Nat
    BY <1>11 DEF Tick, vars, IntentInv, IntentsTyped
  <2> QED
    BY <2>1, ElsewhereKeeps
<1> QED
    BY <1>1, <1>2, <1>3, <1>4, <1>5, <1>6, <1>7, <1>8, <1>9, <1>10, <1>11, Steps

(* A step outside the creations makes no row and takes no time back. *)
LEMMA DraftsStay ==
    ASSUME IntentInv, DraftsPending, UNCHANGED <<draft, workload>>, now' \in {now, now + 1},
           \A i \in Intents : row[i] = None => row'[i] = None
    PROVE  DraftsPending'
<1> SUFFICES ASSUME NEW i \in Intents, draft[i] # None
             PROVE  row'[i] = None /\ draft[i].openedAt <= now'
    BY DEF DraftsPending
<1>1. row[i] = None /\ draft[i] \in Draft /\ draft[i].openedAt <= now /\ now \in Nat
    BY DEF DraftsPending, IntentInv, IntentsTyped
<1>2. draft[i].openedAt \in Nat
    BY <1>1 DEF Draft
<1> QED
    BY <1>1, <1>2

(* Where no creation moves, drafts stay pending. *)
LEMMA DraftStep ==
    ASSUME IntentInv, DraftsPending, [Next]_vars
    PROVE  DraftsPending'
<1>0. UNCHANGED workload
    BY DEF Next, vars
<1>1. /\ row \in [Intents -> IntentRow \cup {None}] /\ draft \in [Intents -> Draft \cup {None}]
      /\ now \in Nat /\ workload \in Workloads
      /\ \A i \in Intents : draft[i] # None => row[i] = None /\ draft[i].openedAt <= now
    BY DEF IntentInv, IntentsTyped, DraftsPending
<1>2. ASSUME row' = row, UNCHANGED draft, now' \in {now, now + 1} PROVE DraftsPending'
    BY <1>0, <1>2, DraftsStay
<1>3. ASSUME NEW j \in Intents, row[j] # None, NEW st, NEW h, UNCHANGED <<draft, now>>,
             row' = [row EXCEPT ![j].status = st, ![j].hash = h]
      PROVE  DraftsPending'
  <2>1. \A i \in Intents : row[i] = None => row'[i] = None
    BY <1>1, <1>3
  <2> QED
    BY <1>0, <1>3, <2>1, DraftsStay
<1>4. ASSUME NEW i \in Intents, NEW direction \in {"deposit", "withdrawal"}, NEW a \in Amounts,
             NEW v \in Nat \ {0}, OpenIntent(i, direction, a, v)
      PROVE  DraftsPending'
  <2>1. PICK d : d = [direction |-> direction, account |-> group.account,
                      status |-> InitialStatus(direction), amount |-> a,
                      validity |-> v, openedAt |-> now]
    OBVIOUS
  <2>2. /\ draft' = [draft EXCEPT ![i] = d] /\ row[i] = None /\ group.account # None
        /\ UNCHANGED <<row, now>>
    BY <1>4, <2>1 DEF OpenIntent
  <2>3. group.account \in TreasuryAccounts /\ InitialStatus(direction) \in Live
    BY <2>2 DEF IntentInv, IntentsTyped, InitialStatus, Live
  <2>4. d \in Draft /\ d.openedAt = now
    BY <1>1, <2>1, <2>3 DEF Draft
  <2>5. /\ draft' \in [Intents -> Draft \cup {None}]
        /\ draft'[i] = d /\ \A j \in Intents : j # i => draft'[j] = draft[j]
    BY <1>1, <2>2, <2>4
  <2>6. ASSUME NEW j \in Intents, draft'[j] # None PROVE row'[j] = None /\ draft'[j].openedAt <= now'
    BY <1>1, <2>2, <2>4, <2>5, <2>6
  <2> QED
    BY <1>0, <1>1, <2>5, <2>6 DEF DraftsPending
<1>5. ASSUME NEW i \in Intents, CreateIntent(i) \/ AbandonIntent(i) PROVE DraftsPending'
  <2>1. /\ draft' = [draft EXCEPT ![i] = None] /\ UNCHANGED now
        /\ row' = row \/ \E w : row' = [row EXCEPT ![i] = w]
    BY <1>5 DEF CreateIntent, AbandonIntent
  <2>2. /\ draft' \in [Intents -> Draft \cup {None}]
        /\ draft'[i] = None /\ \A j \in Intents : j # i => draft'[j] = draft[j] /\ row'[j] = row[j]
    BY <1>1, <2>1
  <2>3. ASSUME NEW j \in Intents, draft'[j] # None PROVE row'[j] = None /\ draft'[j].openedAt <= now'
    BY <1>1, <2>1, <2>2, <2>3
  <2> QED
    BY <1>0, <1>1, <2>2, <2>3 DEF DraftsPending
<1>6. ASSUME NEW j \in Intents, NEW st, MarkTreasuryTransaction(j, st), UNCHANGED <<draft, now>>,
             row[j] # None
      PROVE  DraftsPending'
    BY <1>2, <1>3, <1>6 DEF MarkTreasuryTransaction
<1>7. ASSUME NEW r \in Requests, LedgerReceives(r) \/ CommitConfirm(r) \/ RollBackConfirm(r)
      PROVE  DraftsPending'
  <2>1. CASE CommitConfirm(r)
    <3>1. req[r].intent \in Intents /\ row[req[r].intent] # None
      BY <2>1 DEF CommitConfirm, IntentInv, RequestsJudged, Exists
    <3> QED
      BY <1>3, <2>1, <3>1 DEF CommitConfirm
  <2>2. CASE LedgerReceives(r) \/ RollBackConfirm(r)
    BY <1>2, <2>2 DEF LedgerReceives, RollBackConfirm
  <2> QED
    BY <1>7, <2>1, <2>2
<1>8. ASSUME NEW i \in Intents, SyncLookup(i) \/ SyncVerify(i) PROVE DraftsPending'
  <2>1. row[i] # None
    BY <1>8, IntentAssumption DEF SyncLookup, SyncVerify, IntentInv, SyncFound
  <2>2. UNCHANGED <<draft, now>> /\ (row' = row \/ \E st : MarkTreasuryTransaction(i, st))
    BY <1>8 DEF SyncLookup, SyncVerify
  <2> QED
    BY <1>2, <1>6, <2>1, <2>2
<1>9. ASSUME NEW i \in Intents, NEW error \in ReadErrors, SyncVerifyFails(i, error)
      PROVE  DraftsPending'
  <2>1. ClassifyVerificationError(error) # "verification_failed"
    BY DEF ReadErrors, ClassifyVerificationError
  <2> QED
    BY <1>2, <1>9, <2>1 DEF SyncVerifyFails
<1>10. ASSUME NEW k \in Reconcilers,
             ReconcileLoad(k) \/ ReconcileFetch(k) \/ ReconcileWrite(k) \/ WorkerCrashes(k)
       PROVE  DraftsPending'
    BY <1>2, <1>10 DEF ReconcileLoad, ReconcileFetch, ReconcileWrite, WorkerCrashes
<1>11. ASSUME NEW a, NEW n, Enable(a, n) PROVE DraftsPending'
    BY <1>2, <1>11 DEF Enable
<1>12. ASSUME NEW r \in Requests, NEW i, OpenConfirm(r, i) PROVE DraftsPending'
    BY <1>2, <1>12 DEF OpenConfirm
<1>13. ASSUME NEW r \in Requests, NEW tx, SubmitConfirm(r, tx) PROVE DraftsPending'
    BY <1>2, <1>13 DEF SubmitConfirm
<1>14. ASSUME NEW i \in Intents, NEW s, WalletPays(i, s) PROVE DraftsPending'
    BY <1>2, <1>14 DEF WalletPays
<1>15. ASSUME NEW i \in Intents, SyncUnavailable(i) PROVE DraftsPending'
    BY <1>2, <1>15 DEF SyncUnavailable
<1>16. ASSUME SyncLoad \/ Tick \/ UNCHANGED vars PROVE DraftsPending'
    BY <1>2, <1>16 DEF SyncLoad, Tick, vars
<1> QED
    BY <1>4, <1>5, <1>7, <1>8, <1>9, <1>10, <1>11, <1>12, <1>13, <1>14, <1>15, <1>16, Steps

-----------------------------------------------------------------------------
(* The theorems about intents *)

LEMMA IntentInvariant == Spec => [](IntentInv /\ DraftsPending)
<1>1. Init => DraftsPending
    BY DEF Init, DraftsPending
<1>2. IntentInv /\ DraftsPending /\ [Next]_vars => (IntentInv /\ DraftsPending)'
    BY IntentStep, DraftStep
<1> QED
    BY <1>1, <1>2, IntentInit, PTL DEF Spec

(* The only entry that can pay an intent is that of its own envelope. *)
LEMMA PaidEntry ==
    ASSUME IntentInv, NEW i \in Intents, NEW t \in PaidFor(i)
    PROVE  row[i] # None /\ t.tx = row[i].issued /\ t = Entry(i, TRUE)
<1>1. t \in ledger /\ t.ok /\ t.tx.memo.code = i /\ t \in [tx : Envelope, ok : BOOLEAN]
    BY DEF PaidFor, IntentInv, IntentsTyped
<1>2. PICK j \in Intents : row[j] # None /\ t.tx = row[j].issued
    BY <1>1 DEF IntentInv, IncludedIsIssued
<1>3. t.tx.memo = MemoText(j)
    BY <1>2 DEF IntentInv, IssuedForRow
<1>4. j = i
    BY <1>1, <1>3 DEF MemoText
<1>5. t.ok = TRUE
    BY <1>1
<1> QED
    BY <1>1, <1>2, <1>4, <1>5 DEF Entry

(* Whatever the treasury's constants: a row the confirm route or the sync  *)
(* calls confirmed was paid under its hash, as the row says; a row of ten  *)
(* stroops or more that the sync gave up was not paid and, its sequence    *)
(* number used up, never is.                                               *)
THEOREM OutcomesAreTrue == Spec => []OutcomeIsTrue
<1>1. ASSUME IntentInv PROVE ConfirmedIsPaid
  <2> SUFFICES ASSUME NEW i \in Intents, row[i] # None, row[i].status = "confirmed"
               PROVE  \E t \in PaidFor(i) :
                          /\ t.tx = row[i].hash
                          /\ t.tx.ops = PaymentTo(row[i].destination, row[i].amount)
    BY DEF ConfirmedIsPaid
  <2>1. PICK t : t = Entry(i, TRUE)
    OBVIOUS
  <2>2. t \in ledger /\ t.ok /\ t.tx = row[i].issued /\ row[i].hash = row[i].issued
    BY <1>1, <2>1 DEF IntentInv, OutcomeIsIncluded, Entry
  <2>3. /\ row[i].issued.memo = MemoText(i)
        /\ row[i].issued.ops = PaymentTo(row[i].destination, row[i].amount)
    BY <1>1 DEF IntentInv, IssuedForRow
  <2>4. t \in PaidFor(i)
    BY <2>2, <2>3 DEF PaidFor, MemoText
  <2> QED
    BY <2>2, <2>3, <2>4
<1>2. ASSUME IntentInv PROVE FailedIsUnpaid
  <2> SUFFICES ASSUME NEW i \in Intents, row[i] # None, row[i].status = "failed",
                      ~FewStroops(row[i].amount), NEW t \in PaidFor(i)
               PROVE  FALSE
    BY DEF FailedIsUnpaid
  <2>1. t = Entry(i, TRUE) /\ t \in ledger
    BY <1>2, PaidEntry DEF PaidFor
  <2>2. Entry(i, FALSE) \in ledger
    BY <1>2 DEF IntentInv, OutcomeIsIncluded
  <2>3. Entry(i, TRUE).tx = Entry(i, FALSE).tx /\ Entry(i, TRUE) # Entry(i, FALSE)
    BY DEF Entry
  <2> QED
    BY <1>2, <2>1, <2>2, <2>3 DEF IntentInv, IncludedOnce
<1>3. IntentInv => OutcomeIsTrue
    BY <1>1, <1>2 DEF OutcomeIsTrue
<1> QED
    BY <1>3, IntentInvariant, PTL

(* Whatever the number of intents, requests and co-signers: an intent is   *)
(* paid at most once, through confirm, through a wallet or through both,   *)
(* and a withdrawal leaves the API on the signatures of as many distinct   *)
(* co-signers as some threshold in force while its request ran.            *)
THEOREM PaymentsAreAsAgreed == Spec => []PaidAsAgreed
<1>1. ASSUME IntentInv PROVE PaidOnce
  <2> SUFFICES ASSUME NEW i \in Intents PROVE Cardinality(PaidFor(i)) <= 1
    BY DEF PaidOnce
  <2>1. PICK S : S = PaidFor(i)
    OBVIOUS
  <2>2. PICK u : u = Entry(i, TRUE)
    OBVIOUS
  <2>3. S \subseteq {u}
    BY <1>1, <2>1, <2>2, PaidEntry
  <2>4. /\ IsFiniteSet({u}) /\ Cardinality({u}) = 1
    BY FS_Singleton
  <2>5. Cardinality(S) \in Nat /\ Cardinality(S) <= Cardinality({u})
    BY <2>3, <2>4, FS_Subset, FS_CardinalityType
  <2> QED
    BY <2>1, <2>4, <2>5
<1>2. ASSUME IntentInv PROVE EnoughSigners
  <2> SUFFICES ASSUME NEW r \in Requests, req[r].at = "submitting",
                      row[req[r].intent].direction = "withdrawal"
               PROVE  Cardinality(Signers(req[r].tx) \cap CoSigners) >= req[r].least
    BY DEF EnoughSigners
  <2>1. /\ Signers(req[r].tx) \subseteq CoSigners
        /\ Cardinality(Signers(req[r].tx)) >= req[r].least
    BY <1>2 DEF IntentInv, RequestsJudged
  <2>2. Signers(req[r].tx) \cap CoSigners = Signers(req[r].tx)
    BY <2>1
  <2> QED
    BY <2>1, <2>2
<1>3. IntentInv => PaidAsAgreed
    BY <1>1, <1>2 DEF PaidAsAgreed
<1> QED
    BY <1>3, IntentInvariant, PTL

(* Whatever order confirm requests, the sync and the network move in, a    *)
(* recorded outcome and its hash are never revised: a request that commits *)
(* late finds the row live or confirmed under the same hash, since a row   *)
(* marked failed can no longer be paid or is one that confirm refuses.     *)
THEOREM OutcomesAreFinal == Spec => OutcomeIsFinal
<1> DEFINE Kept == \A i \in Intents : row[i] # None /\ row[i].status \notin Live =>
                       row'[i].status = row[i].status /\ row'[i].hash = row[i].hash
<1>1. ASSUME IntentInv, DraftsPending, NEW i \in Intents, row[i] # None,
             row[i].status \notin Live, [Next]_vars
      PROVE  row'[i].status = row[i].status /\ row'[i].hash = row[i].hash
  <2>1. /\ row \in [Intents -> IntentRow \cup {None}] /\ row[i] \in IntentRow
        /\ row[i].status \in {"confirmed", "failed"}
    BY <1>1, LookupIsIssued DEF IntentInv, IntentsTyped, IntentRow
  <2>2. ASSUME NEW r \in Requests, CommitConfirm(r)
        PROVE  row'[i].status = row[i].status /\ row'[i].hash = row[i].hash
    <3>1. PICK j \in Intents : /\ j = req[r].intent /\ row[j] # None
                               /\ HashOf(req[r].tx) = row[j].issued
                               /\ ~FewStroops(row[j].amount)
      BY <1>1, <2>2 DEF CommitConfirm, IntentInv, RequestsJudged, Exists
    <3>2. /\ Entry(j, TRUE) \in ledger
          /\ row' = [row EXCEPT ![j].status = "confirmed", ![j].hash = row[j].issued]
      BY <2>2, <3>1 DEF CommitConfirm, Applied, Entry
    <3>3. CASE j # i
      BY <2>1, <3>2, <3>3
    <3>4. CASE j = i
      <4>1. row'[i] = [row[i] EXCEPT !.status = "confirmed", !.hash = row[i].issued]
        BY <2>1, <3>2, <3>4
      <4>2. row'[i].status = "confirmed" /\ row'[i].hash = row[i].issued
        BY <2>1, <4>1 DEF IntentRow
      <4>3. row[i].status # "failed"
        <5> SUFFICES ASSUME row[i].status = "failed" PROVE FALSE
          OBVIOUS
        <5>1. Entry(i, TRUE) \in ledger /\ Entry(i, FALSE) \in ledger
          BY <1>1, <3>1, <3>2, <3>4 DEF IntentInv, OutcomeIsIncluded
        <5>2. Entry(i, TRUE).tx = Entry(i, FALSE).tx /\ Entry(i, TRUE) # Entry(i, FALSE)
          BY DEF Entry
        <5> QED
          BY <1>1, <5>1, <5>2 DEF IntentInv, IncludedOnce
      <4>4. row[i].status = "confirmed" /\ row[i].hash = row[i].issued
        BY <1>1, <2>1, <4>3 DEF IntentInv, OutcomeIsIncluded
      <4> QED
        BY <4>2, <4>4
    <3> QED
      BY <3>3, <3>4
  <2>3. ASSUME NEW j \in Intents, NEW st, MarkTreasuryTransaction(j, st)
        PROVE  row'[i].status = row[i].status /\ row'[i].hash = row[i].hash
    <3>1. CASE row' = row
      BY <3>1
    <3>2. CASE row[j].status \in Live /\ row' = [row EXCEPT ![j].status = st, ![j].hash = LookupHash(j)]
      <4>1. j # i
        BY <1>1, <3>2
      <4> QED
        BY <2>1, <3>2, <4>1
    <3> QED
      BY <2>3, <3>1, <3>2 DEF MarkTreasuryTransaction
  <2>4. ASSUME NEW j \in Intents, CreateIntent(j)
        PROVE  row'[i].status = row[i].status /\ row'[i].hash = row[i].hash
    <3>1. row[j] = None /\ \E w : row' = [row EXCEPT ![j] = w]
      BY <1>1, <2>4 DEF CreateIntent, DraftsPending
    <3>2. j # i
      BY <1>1, <3>1
    <3> QED
      BY <2>1, <3>1, <3>2
  <2>5. ASSUME NEW j \in Intents,
               \/ SyncLookup(j) \/ SyncVerify(j)
               \/ \E error \in ReadErrors : SyncVerifyFails(j, error)
        PROVE  row' = row \/ \E st : MarkTreasuryTransaction(j, st)
    BY <2>5 DEF SyncLookup, SyncVerify, SyncVerifyFails
  <2>6. ASSUME NEW r \in Requests, NEW tx, SubmitConfirm(r, tx) PROVE row' = row
    BY <2>6 DEF SubmitConfirm
  <2>7. ASSUME NEW r \in Requests, NEW j, OpenConfirm(r, j) PROVE row' = row
    BY <2>7 DEF OpenConfirm
  <2>8. ASSUME NEW j \in Intents, NEW s, WalletPays(j, s) PROVE row' = row
    BY <2>8 DEF WalletPays
  <2>9. ASSUME NEW r \in Requests, LedgerReceives(r) \/ RollBackConfirm(r) PROVE row' = row
    BY <2>9 DEF LedgerReceives, RollBackConfirm
  <2>10. ASSUME NEW j \in Intents,
                \/ SyncUnavailable(j) \/ AbandonIntent(j)
                \/ \E direction, a, v : OpenIntent(j, direction, a, v)
         PROVE  row' = row
    BY <2>10 DEF SyncUnavailable, AbandonIntent, OpenIntent
  <2>11. ASSUME NEW a, NEW n, Enable(a, n) PROVE row' = row
    BY <2>11 DEF Enable
  <2>12. ASSUME \/ SyncLoad \/ Tick \/ UNCHANGED vars
                \/ \E k \in Reconcilers : \/ ReconcileLoad(k) \/ ReconcileFetch(k)
                                         \/ ReconcileWrite(k) \/ WorkerCrashes(k)
         PROVE  row' = row
    BY <2>12 DEF SyncLoad, ReconcileLoad, ReconcileFetch, ReconcileWrite, WorkerCrashes, Tick, vars
  <2>13. CASE row' = row
    BY <2>13
  <2> QED
    BY <1>1, <2>2, <2>3, <2>4, <2>5, <2>6, <2>7, <2>8, <2>9, <2>10, <2>11, <2>12, <2>13, Steps
<1>2. IntentInv /\ DraftsPending /\ [Next]_vars => [Kept]_vars
    BY <1>1
<1>3. [][Kept]_vars => OutcomeIsFinal
    BY PTL DEF OutcomeIsFinal
<1> QED
    BY <1>2, <1>3, IntentInvariant, PTL DEF Spec

-----------------------------------------------------------------------------
(* What the API issues, it accepts *)

(* The checks of a payment's content pass for the envelope that was built  *)
(* for what is expected.                                                   *)
LEMMA MatchPasses ==
    ASSUME NEW tx, NEW e, NEW d, NEW a \in Amounts, ~FewStroops(a), tx.source = e.source,
           tx.ops = PaymentTo(d, a), tx.fee = MaxFeePerOp, tx.memo = MemoText(e.code),
           e.destination = d, e.asset = Lumens, e.amount = DecimalText(a)
    PROVE  Passing(MatchChecks(tx, e))
<1> DEFINE op == FirstOperation(tx)
<1>1. op = [type |-> "payment", source |-> NoSource, destination |-> d,
            asset |-> Lumens, amount |-> OnTheWire(a)] /\ Len(tx.ops) = 1
    BY DEF FirstOperation, PaymentTo
<1> HIDE DEF op
<1>2. /\ op.type = "payment" /\ op.source = NoSource /\ op.destination = d
      /\ op.asset = Lumens /\ op.amount = OnTheWire(a)
    BY <1>1
<1>3. FeeInBand(tx)
    BY <1>1 DEF FeeInBand, MinFeePerOp, MaxFeePerOp
<1>4. /\ SameAsset(op.asset, e.asset)
      /\ NormalizeAmount(op.amount) = NormalizeAmount(e.amount)
    BY <1>2, WireAmount DEF SameAsset
<1> DEFINE c1 == Check("source", tx.source = e.source)
           c2 == Check("operationCount", Len(tx.ops) = 1)
           c3 == Check("fee", FeeInBand(tx))
           c4 == Check("operationType", op.type = "payment")
           c5 == Check("operationSource", op.source \in {NoSource, e.source})
           c6 == Check("destination", op.destination = e.destination)
           c7 == Check("asset", SameAsset(op.asset, e.asset))
           c8 == Check("amount", NormalizeAmount(op.amount) = NormalizeAmount(e.amount))
           c9 == Check("memo", tx.memo = MemoText(e.code))
<1>5. /\ c1.ok /\ c2.ok /\ c3.ok /\ c4.ok /\ c5.ok /\ c6.ok /\ c7.ok /\ c8.ok /\ c9.ok
    BY <1>1, <1>2, <1>3, <1>4 DEF Check
<1>6. MatchChecks(tx, e) = <<c1, c2, c3, c4, c5, c6, c7, c8, c9>>
    BY Zenon DEF MatchChecks, op
<1> HIDE DEF c1, c2, c3, c4, c5, c6, c7, c8, c9
<1>7. Passing(<<c1, c2, c3, c4, c5, c6, c7, c8, c9>>)
    BY <1>5 DEF Passing
<1> QED
    BY <1>6, <1>7

LEMMA ParsePasses ==
    ASSUME NEW tx, tx.kind = "payment" PROVE Passing(ParseChecks(tx))
<1> DEFINE c1 == Check("xdr_malformed", tx.kind # "malformed")
           c2 == Check("xdr_mismatch", tx.kind # "feeBump")
<1>1. c1.ok /\ c2.ok
    BY DEF Check
<1>2. ParseChecks(tx) = <<c1, c2>>
    BY DEF ParseChecks
<1> HIDE DEF c1, c2
<1> QED
    BY <1>1, <1>2 DEF Passing

LEMMA BoundsPass ==
    ASSUME NEW tx, NEW e \in Nat \ {0}, NEW n \in Nat, n <= e, tx.minTime = 0,
           tx.maxTime \in Nat, e <= tx.maxTime, tx.maxTime <= e + TxTimeout
    PROVE  Passing(TimeBoundsChecks(tx, e, n))
<1> DEFINE c1 == Check("xdr_mismatch", tx.maxTime > 0)
           c2 == Check("xdr_mismatch", tx.maxTime <= e + Skew)
           c3 == Check("intent_expired", tx.maxTime + Skew >= n)
           c4 == Check("xdr_mismatch", tx.minTime <= n + Skew)
<1>1. tx.maxTime > 0 /\ tx.maxTime <= e + Skew /\ tx.maxTime + Skew >= n /\ tx.minTime <= n + Skew
    BY EnvelopeAssumption, IntentAssumption, TimeoutAssumption
<1>2. c1.ok /\ c2.ok /\ c3.ok /\ c4.ok
    BY <1>1 DEF Check
<1>3. TimeBoundsChecks(tx, e, n) = <<c1, c2, c3, c4>>
    BY Zenon DEF TimeBoundsChecks
<1> HIDE DEF c1, c2, c3, c4
<1> QED
    BY <1>2, <1>3 DEF Passing

LEMMA OneSignerPasses ==
    ASSUME NEW tx, NEW s \in CoSigners, tx.sigs = <<s>>,
           NEW q, q.signers = CoSigners, q.threshold = 1
    PROVE  Passing(MultisigChecks(tx, q))
<1> DEFINE c1 == Check("treasury_misconfigured", q.signers # {})
           c2 == Check("unauthorized", tx.sigs # << >>)
           c3 == Check("unauthorized", Signers(tx) \subseteq q.signers)
           c4 == Check("unauthorized", Cardinality(Signers(tx)) >= q.threshold)
<1>1. Signers(tx) = {s}
    BY DEF Signers
<1>2. Cardinality(Signers(tx)) = 1
    BY <1>1, FS_Singleton
<1>3. /\ q.signers # {} /\ tx.sigs # << >> /\ Signers(tx) \subseteq q.signers
      /\ Cardinality(Signers(tx)) >= q.threshold
    BY <1>1, <1>2
<1>4. c1.ok /\ c2.ok /\ c3.ok /\ c4.ok
    BY <1>3 DEF Check
<1>5. MultisigChecks(tx, q) = <<c1, c2, c3, c4>>
    BY Zenon DEF MultisigChecks
<1> HIDE DEF c1, c2, c3, c4
<1> QED
    BY <1>4, <1>5 DEF Passing

LEMMA PolicyPasses ==
    ASSUME NEW tx, NEW a, NEW d \in Accounts, NEW amount \in Amounts, NEW n \in Nat,
           tx.source = a, tx.ops = PaymentTo(d, amount),
           tx.fee = MaxFeePerOp, tx.minTime = 0, tx.maxTime \in Nat \ {0}, n <= tx.maxTime
    PROVE  Passing(PolicyChecks(tx, a, n))
<1> DEFINE each == {tx.ops[k] : k \in DOMAIN tx.ops}
           o == [type |-> "payment", source |-> NoSource, destination |-> d,
                 asset |-> Lumens, amount |-> OnTheWire(amount)]
<1>1. each = {o} /\ Len(tx.ops) = 1
    BY DEF PaymentTo
<1>2. /\ o.source = NoSource /\ o.destination = d
      /\ o.amount.w > 0 \/ \E k \in DOMAIN o.amount.f : o.amount.f[k] > 0
    BY WirePositive
<1> HIDE DEF each, o
<1>3. FeeInBand(tx)
    BY <1>1 DEF FeeInBand, MinFeePerOp, MaxFeePerOp
<1>4. Len(tx.ops) \in 1..MaxOperations
    BY <1>1, EnvelopeAssumption
<1>5. /\ \A op \in each : op.source \in {NoSource, a}
      /\ \A op \in each : op.type = "payment" =>
             op.amount.w > 0 \/ \E k \in DOMAIN op.amount.f : op.amount.f[k] > 0
      /\ \A op \in each : op.type \in {"payment", "createAccount", "accountMerge"} =>
             op.destination \in Accounts
    BY <1>1, <1>2
<1>6. tx.maxTime > 0 /\ tx.maxTime + Skew >= n /\ tx.minTime <= n + Skew
    BY EnvelopeAssumption
<1> DEFINE c1 == Check("source_account", tx.source = a)
           c2 == Check("operations", Len(tx.ops) \in 1..MaxOperations)
           c3 == Check("operation_source", \A op \in each : op.source \in {NoSource, a})
           c4 == Check("operation_amount",
                       \A op \in each : op.type = "payment" =>
                           op.amount.w > 0 \/ \E k \in DOMAIN op.amount.f : op.amount.f[k] > 0)
           c5 == Check("operation_destination",
                       \A op \in each : op.type \in {"payment", "createAccount", "accountMerge"} =>
                           op.destination \in Accounts)
           c6 == Check("fee", FeeInBand(tx))
           c7 == Check("xdr_mismatch", tx.maxTime > 0)
           c8 == Check("intent_expired", tx.maxTime + Skew >= n)
           c9 == Check("xdr_mismatch", tx.minTime <= n + Skew)
<1>7. /\ c1.ok /\ c2.ok /\ c3.ok /\ c4.ok /\ c5.ok /\ c6.ok /\ c7.ok /\ c8.ok /\ c9.ok
    BY <1>3, <1>4, <1>5, <1>6 DEF Check
<1>8. PolicyChecks(tx, a, n) = <<c1, c2, c3, c4, c5, c6, c7, c8, c9>>
    BY Zenon DEF PolicyChecks, each
<1> HIDE DEF c1, c2, c3, c4, c5, c6, c7, c8, c9
<1>9. Passing(<<c1, c2, c3, c4, c5, c6, c7, c8, c9>>)
    BY <1>7 DEF Passing
<1> QED
    BY <1>8, <1>9

(* Whatever the accounts, the clock skew, the decimals and the limits: the *)
(* confirm route takes back, until its deadline and with one signature of  *)
(* the payer or of a co-signer under threshold one, the envelope that the  *)
(* intent route issued, and the proposal policy passes a withdrawal's, as  *)
(* long as the treasury's account is the same.                             *)
THEOREM IssuedAreAccepted == Spec => []IssuedIsAccepted
<1>1. ASSUME IntentInv PROVE IssuedIsAccepted
  <2> SUFFICES ASSUME NEW i \in Intents, row[i] # None, now <= row[i].expiresAt
               PROVE  LET deposit == row[i].direction = "deposit"
                          account == IF deposit THEN row[i].destination ELSE row[i].issued.source
                          q == [Idle EXCEPT !.intent = i, !.account = account, !.threshold = 1]
                          s == IF deposit THEN Payer ELSE CHOOSE k \in CoSigners : TRUE
                          tx == [row[i].issued EXCEPT !.sigs = <<s>>]
                      IN  /\ ~FewStroops(row[i].amount) => ConfirmRefusal(q, tx) = "none"
                          /\ ~deposit => InspectTreasuryXdr(row[i].issued, account, now) = "none"
    BY DEF IssuedIsAccepted
  <2> DEFINE deposit == row[i].direction = "deposit"
  <2>a. PICK account : account = IF deposit THEN row[i].destination ELSE row[i].issued.source
    OBVIOUS
  <2>b. PICK q : q = [Idle EXCEPT !.intent = i, !.account = account, !.threshold = 1]
    OBVIOUS
  <2>c. PICK s : s = IF deposit THEN Payer ELSE CHOOSE k \in CoSigners : TRUE
    OBVIOUS
  <2>d. PICK tx : tx = [row[i].issued EXCEPT !.sigs = <<s>>]
    OBVIOUS
  <2>1. PICK w \in IntentRow : w = row[i]
    BY <1>1, LookupIsIssued
  <2>2. PICK d : d = w.issued
    OBVIOUS
  <2>3. /\ w.direction \in {"deposit", "withdrawal"} /\ w.expiresAt \in Nat \ {0} /\ d \in Envelope
        /\ w.destination \in Accounts /\ w.amount \in Amounts /\ w.asset = Lumens
        /\ now \in Nat /\ now <= w.expiresAt /\ d.maxTime \in Nat
    BY <1>1, <2>1, <2>2 DEF IntentRow, IntentInv, IntentsTyped, Envelope
  <2>4. /\ d.memo = MemoText(i) /\ d.ops = PaymentTo(w.destination, w.amount)
        /\ w.expiresAt <= d.maxTime /\ d.maxTime <= w.expiresAt + TxTimeout
        /\ IF w.direction = "deposit" THEN d.source = Payer ELSE w.destination = Payee
    BY <1>1, <2>1, <2>2 DEF IntentInv, IssuedForRow
  <2>5. d.kind = "payment" /\ d.fee = MaxFeePerOp /\ d.minTime = 0
    BY <2>3 DEF Envelope
  <2>6. /\ HashOf(tx) = d /\ tx.source = d.source /\ tx.sigs = <<s>> /\ tx.kind = "payment"
        /\ tx.ops = PaymentTo(w.destination, w.amount) /\ tx.fee = MaxFeePerOp
        /\ tx.memo = MemoText(i) /\ tx.minTime = 0 /\ tx.maxTime = d.maxTime
    <3>1. tx = [d EXCEPT !.sigs = <<s>>]
      BY <2>1, <2>2, <2>d
    <3> QED
      BY <2>3, <2>4, <2>5, <3>1, SignedHash
  <2>7. PICK e : e = Expected(i, account)
    OBVIOUS
  <2>8. /\ e.source = d.source /\ e.destination = w.destination /\ e.asset = Lumens
        /\ e.amount = DecimalText(w.amount) /\ e.code = i /\ e.expiresAt = w.expiresAt
    BY <2>1, <2>2, <2>3, <2>4, <2>7, <2>a DEF Expected
  <2>9. q.intent = i /\ q.account = account /\ q.threshold = 1
    BY <2>b DEF Idle
  <2>10. Passing(ParseChecks(tx)) /\ ParseChecks(tx) \in Seq(CheckRecord)
    BY <2>6, ParsePasses, ParseTyped
  <2>11. /\ Passing(TimeBoundsChecks(tx, e.expiresAt, now))
         /\ TimeBoundsChecks(tx, e.expiresAt, now) \in Seq(CheckRecord)
    BY <2>3, <2>4, <2>6, <2>8, BoundsPass, BoundsTyped
  <2>12. /\ MatchChecks(tx, e) \in Seq(CheckRecord)
         /\ ~FewStroops(w.amount) => Passing(MatchChecks(tx, e))
    BY <2>3, <2>6, <2>8, MatchPasses, MatchTyped
  <2>13. PICK b \in Seq(CheckRecord) :
            /\ b = ParseChecks(tx) \o TimeBoundsChecks(tx, e.expiresAt, now) \o MatchChecks(tx, e)
            /\ ~FewStroops(w.amount) => Passing(b)
    <3>1. PICK a \in Seq(CheckRecord) :
            a = ParseChecks(tx) \o TimeBoundsChecks(tx, e.expiresAt, now) /\ Passing(a)
      BY <2>10, <2>11, BothPassing
    <3>2. /\ a \o MatchChecks(tx, e) \in Seq(CheckRecord)
          /\ ~FewStroops(w.amount) => Passing(a \o MatchChecks(tx, e))
      BY <2>12, <3>1, BothPassing
    <3> QED
      BY <3>1, <3>2
  <2>14. ASSUME ~FewStroops(w.amount) PROVE ConfirmRefusal(q, tx) = "none"
    <3>0. Passing(b)
      BY <2>13, <2>14
    <3>1. ValidateSignedPayment(tx, e, now) = "none"
      BY <2>13, <3>0, PassingIsNone DEF ValidateSignedPayment
    <3>2. ASSUME w.direction = "deposit" PROVE ValidatePaymentTx(tx, e, now) = "none"
      <4>1. VerifySourceSignature(tx, e.source)
        <5>1. s = Payer /\ e.source = Payer
          BY <2>1, <2>4, <2>8, <3>2, <2>c
        <5> QED
          BY <2>6, <5>1 DEF VerifySourceSignature, Signers
      <4>2. PICK c : c = Check("xdr_mismatch", VerifySourceSignature(tx, e.source))
        OBVIOUS
      <4>3. c \in CheckRecord /\ c.ok
        BY <4>1, <4>2 DEF Check, CheckRecord, Rules, VerifySourceSignature
      <4>4. <<c>> \in Seq(CheckRecord) /\ Passing(<<c>>)
        BY <4>3 DEF Passing
      <4>5. Passing(b \o <<c>>)
        BY <2>13, <3>0, <4>4, BothPassing
      <4> QED
        BY <2>13, <4>2, <4>5, PassingIsNone DEF ValidatePaymentTx
    <3>3. ASSUME w.direction = "withdrawal"
           PROVE  ValidateMultisigTx(tx, e, Requirement(q), now) = "none"
      <4>1. s \in CoSigners
        BY <2>1, <3>3, <2>c, IntentAssumption
      <4>2. Requirement(q).signers = CoSigners /\ Requirement(q).threshold = 1
        BY <2>9 DEF Requirement
      <4>3. PICK m \in Seq(CheckRecord) : m = MultisigChecks(tx, Requirement(q)) /\ Passing(m)
        BY <2>6, <4>1, <4>2, OneSignerPasses, MultisigTyped
      <4>4. Passing(b \o m)
        BY <2>13, <3>0, <4>3, BothPassing, Zenon
      <4> QED
        BY <2>13, <4>3, <4>4, PassingIsNone DEF ValidateMultisigTx
    <3> QED
      BY <2>1, <2>2, <2>3, <2>6, <2>7, <2>9, <3>1, <3>2, <3>3 DEF ConfirmRefusal
  <2>18. ASSUME ~deposit PROVE InspectTreasuryXdr(row[i].issued, account, now) = "none"
    <3>1. account = d.source
      BY <2>1, <2>2, <2>18, <2>a
    <3>2. Passing(ParseChecks(d)) /\ ParseChecks(d) \in Seq(CheckRecord)
      BY <2>5, ParsePasses, ParseTyped
    <3>3. Passing(PolicyChecks(d, account, now)) /\ PolicyChecks(d, account, now) \in Seq(CheckRecord)
      BY <2>3, <2>4, <2>5, <3>1, PolicyPasses, PolicyTyped
    <3>4. Passing(ParseChecks(d) \o PolicyChecks(d, account, now))
      BY <3>2, <3>3, BothPassing
    <3> QED
      BY <2>1, <2>2, <3>4, PassingIsNone DEF InspectTreasuryXdr
  <2> QED
    BY <2>1, <2>14, <2>18, <2>a, <2>b, <2>c, <2>d
<1> QED
    BY <1>1, IntentInvariant, PTL
=============================================================================
