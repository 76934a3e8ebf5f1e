--------------------------- MODULE TreasuryIntent ---------------------------
(***************************************************************************)
(* The deposits and withdrawals of one group's treasury.                   *)
(* An intent is a row and an unsigned envelope.  Wallets sign it; someone  *)
(* posts it to the confirm route, which submits it inside its database     *)
(* transaction, or a wallet hands it to the network itself.  The worker's  *)
(* status sync looks live rows up by the envelope's hash and writes what   *)
(* the ledger says; another task copies the treasury's balance to a cache. *)
(* The admin may replace the treasury's account and threshold at any time. *)
(***************************************************************************)
EXTENDS PaymentEnvelope, SequencesExt

CONSTANTS
    Intents,
    Requests,          \* confirm requests in flight
    TreasuryAccounts,
    CoSigners,         \* signers of every treasury account on chain
    Payer, Payee,      \* the depositor's account; where withdrawals go
    Stranger,          \* a key that is nobody's signer
    None,
    Amounts,           \* amounts a client may write
    Reconcilers,       \* worker processes that reconcile balances
    TxTimeout,         \* timeout of the database transaction of runIdempotent
    MinAge,            \* STATUS_SYNC_MIN_AGE_MS
    Grace,             \* STATUS_SYNC_EXPIRED_GRACE_MS
    Workloads,         \* bound: the amounts and validity windows asked for, the confirm
                       \* requests and the reconcilers that run side by side, and how
                       \* long the clock runs
    MaxConfigs,        \* bound on how often the treasury is configured
    MaxFaults          \* bound on failed reads and worker crashes

Live == {"pending", "awaiting_signatures"}
Lumens == [code |-> "XLM", issuer |-> None]

\* The one operation of an envelope that pays an account.
PaymentTo(d, a) ==
    << [type |-> "payment", source |-> NoSource, destination |-> d,
        asset |-> Lumens, amount |-> OnTheWire(a)] >>

\* The types of an issued envelope and of a TreasuryTransaction row.
Envelope ==
    [kind : {"payment"}, source : Accounts, sequence : Nat,
     ops : {PaymentTo(d, a) : d \in Accounts, a \in Amounts}, fee : {MaxFeePerOp},
     memo : {MemoText(i) : i \in Intents}, minTime : {0}, maxTime : Nat, sigs : {<< >>}]

IntentRow ==
    [direction : {"deposit", "withdrawal"}, status : Live \cup {"confirmed", "failed"},
     createdAt : Nat, expiresAt : Nat \ {0}, destination : Accounts, asset : {Lumens},
     amount : Amounts, hash : Envelope \cup {None}, issued : Envelope]

\* An intent whose envelope is still to be built.
Draft ==
    [direction : {"deposit", "withdrawal"}, account : TreasuryAccounts,
     status : Live, amount : Amounts, validity : Nat \ {0}, openedAt : Nat]

\* An amount is positive and has no more digits than a stroop (isValidStellarAmount).
WellWritten(a) ==
    /\ a.w \in Nat /\ a.e = 0 /\ a.f \in Seq(0..9) /\ Len(a.f) <= Decimals
    /\ a.w > 0 \/ \E k \in 1..Len(a.f) : a.f[k] > 0

ASSUME IntentAssumption ==
    /\ Accounts = TreasuryAccounts \cup {Payer, Payee}
    /\ IsFiniteSet(CoSigners) /\ CoSigners # {}
    /\ \A a \in Amounts : WellWritten(a)
    /\ Workloads \subseteq [amounts : SUBSET Amounts, validities : SUBSET (Nat \ {0}),
                            requests : SUBSET Requests, reconcilers : SUBSET Reconcilers,
                            until : Nat]
    /\ None \notin Intents /\ None \notin IntentRow /\ None \notin Draft
    /\ {TxTimeout, MinAge, Grace, MaxConfigs, MaxFaults} \subseteq Nat

\* The 15 s of a transaction are within the 30 s of tolerance.
ASSUME TimeoutAssumption == TxTimeout <= Skew

VARIABLES
    group,     \* the treasury's account and requiredSigners, and how often set
    row,       \* intent -> the TreasuryTransaction row, None before it exists
    draft,     \* intent -> what its creation has noted, None before and after
    req,       \* confirm request -> its progress
    ledger,    \* transactions the network has included, successful or not
    sync,      \* the status sync: rows still to check, and the one in hand
    reading,   \* reconciler -> the balances it has read, or None
    cache,     \* account -> cached balance, None without a row
    now, faults, workload

vars == <<group, row, draft, req, ledger, sync, reading, cache, now, faults, workload>>

Idle == [at |-> "idle", intent |-> None, account |-> None, threshold |-> 0,
         least |-> 0, tx |-> None]
Resting == [queue |-> {}, at |-> None, read |-> None]

Init ==
    /\ group = [account |-> None, required |-> 0, configs |-> 0]
    /\ row = [i \in Intents |-> None] /\ draft = [i \in Intents |-> None]
    /\ req = [r \in Requests |-> Idle]
    /\ ledger = {}
    /\ sync = Resting
    /\ reading = [k \in Reconcilers |-> None]
    /\ cache = [a \in TreasuryAccounts |-> None]
    /\ now = 0 /\ faults = 0 /\ workload \in Workloads

(***************************************************************************)
(* The network.                                                            *)
(***************************************************************************)
Sequence(a) == Cardinality({t \in ledger : t.tx.source = a})

Authorized(tx) ==
    IF tx.source = Payer THEN Signers(tx) = {Payer}
    ELSE /\ tx.sigs # << >> /\ Signers(tx) \subseteq CoSigners
         /\ Cardinality(Signers(tx)) = Len(tx.sigs)

Accepts(tx) ==
    /\ tx.minTime <= now /\ now <= tx.maxTime
    /\ tx.sequence = Sequence(tx.source) + 1
    /\ Authorized(tx)

Included(tx, ok) == ledger \cup {[tx |-> HashOf(tx), ok |-> ok]}

\* The submission of a request arrives and is included, with whatever result.
LedgerReceives(r) ==
    /\ req[r].at = "submitting"
    /\ Accepts(req[r].tx)
    /\ \E ok \in BOOLEAN : ledger' = Included(req[r].tx, ok)
    /\ UNCHANGED <<group, row, draft, req, sync, reading, cache, now, faults>>

Applied(tx) == [tx |-> HashOf(tx), ok |-> TRUE] \in ledger

\* The treasury's balance, counted in payments.
Balance(a) ==
    Cardinality({t \in ledger : t.ok /\ Head(t.tx.ops).destination = a})
      - Cardinality({t \in ledger : t.ok /\ t.tx.source = a})

(***************************************************************************)
(* The routes.                                                             *)
(***************************************************************************)
Enable(a, n) ==
    /\ group.configs < MaxConfigs
    /\ group' = [account |-> a, required |-> n, configs |-> group.configs + 1]
    \* the least threshold in force since each open request read it
    /\ req' = [r \in Requests |->
                 IF req[r].at # "idle" /\ n < req[r].least THEN [req[r] EXCEPT !.least = n]
                                                          ELSE req[r]]
    /\ UNCHANGED <<row, draft, ledger, sync, reading, cache, now, faults>>

InitialStatus(direction) ==
    IF direction = "withdrawal" /\ group.required > 1 THEN "awaiting_signatures" ELSE "pending"

\* The group is read, the database transaction opened, and the deadline fixed by
\* the server's clock; the source account is then loaded from Horizon.
OpenIntent(i, direction, amount, validity) ==
    /\ row[i] = None /\ draft[i] = None /\ group.account # None
    /\ draft' = [draft EXCEPT ![i] =
                   [direction |-> direction, account |-> group.account,
                    status |-> InitialStatus(direction), amount |-> amount,
                    validity |-> validity, openedAt |-> now]]
    /\ UNCHANGED <<group, row, req, ledger, sync, reading, cache, now, faults>>

Deposit(i, amount, validity) == OpenIntent(i, "deposit", amount, validity)
Withdraw(i, amount, validity) == OpenIntent(i, "withdrawal", amount, validity)

\* intentExpiry: the deadline kept with the row.
ExpiresAt(d) == d.openedAt + d.validity

\* What the envelope of an intent is to pay.
PaymentOf(i, d) ==
    [source |-> IF d.direction = "deposit" THEN Payer ELSE d.account,
     destination |-> IF d.direction = "deposit" THEN d.account ELSE Payee,
     asset |-> Lumens, amount |-> d.amount, code |-> i]

(* mutant: the transaction waits for Horizon as long as it takes *)
AnyTime(d) == TRUE

\* The database transaction of the creation has not timed out.
InTime(d) == now <= d.openedAt + TxTimeout

\* The account has been loaded: the envelope, its window counted from the clock of
\* this moment, and the row, if the transaction has not timed out.
CreateIntent(i) ==
    /\ draft[i] # None
    /\ LET d == draft[i]
           p == PaymentOf(i, d) IN
       /\ InTime(d)
       /\ BuildRefusal(p) = "none"
       /\ row' = [row EXCEPT ![i] =
                    [direction |-> d.direction, status |-> d.status, createdAt |-> now,
                     expiresAt |-> ExpiresAt(d), destination |-> p.destination,
                     asset |-> p.asset, amount |-> p.amount, hash |-> None,
                     issued |-> BuildPayment(p, Sequence(p.source), now, d.validity)]]
    /\ draft' = [draft EXCEPT ![i] = None]
    /\ UNCHANGED <<group, req, ledger, sync, reading, cache, now, faults>>

\* Horizon does not answer, the account is unfunded, the transaction times out.
AbandonIntent(i) ==
    /\ draft[i] # None
    /\ draft' = [draft EXCEPT ![i] = None]
    /\ UNCHANGED <<group, row, req, ledger, sync, reading, cache, now, faults>>

\* What a confirmed envelope must pay, from the row and the treasury account read.
Expected(i, account) ==
    [source |-> IF row[i].direction = "deposit" THEN Payer ELSE account,
     destination |-> IF row[i].direction = "deposit" THEN account ELSE row[i].destination,
     asset |-> row[i].asset, amount |-> DecimalText(row[i].amount), code |-> i,
     expiresAt |-> row[i].expiresAt]

IntentExpired(i) == now > row[i].expiresAt + Skew

\* POST confirm, outside its transaction: the row and the group are read, and
\* for a withdrawal the co-signers and the threshold.
OpenConfirm(r, i) ==
    /\ req[r].at = "idle"
    /\ row[i] # None /\ row[i].status # "confirmed"
    /\ ~IntentExpired(i)
    /\ req' = [req EXCEPT ![r] =
                 [Idle EXCEPT !.at = "open", !.intent = i, !.account = group.account,
                              !.threshold = group.required, !.least = group.required]]
    /\ UNCHANGED <<group, row, draft, ledger, sync, reading, cache, now, faults>>

Requirement(q) == [signers |-> CoSigners, threshold |-> q.threshold]

(* mutant: an envelope that pays the same need not be the issued one *)
ConfirmRefusalUnbound(q, tx) ==
    LET i == q.intent
        e == Expected(i, q.account)
    IN  IF row[i].direction = "deposit" THEN ValidatePaymentTx(tx, e, now)
        ELSE ValidateMultisigTx(tx, e, Requirement(q), now)

\* The expectation, the intended hash, then the checks of the submission.
ConfirmRefusal(q, tx) ==
    LET i == q.intent
        e == Expected(i, q.account)
        refusal == ValidateSignedPayment(tx, e, now)
    IN  IF refusal # "none" THEN refusal
        ELSE IF HashOf(tx) # row[i].issued THEN "xdr_mismatch"
        ELSE IF row[i].direction = "deposit" THEN ValidatePaymentTx(tx, e, now)
        ELSE ValidateMultisigTx(tx, e, Requirement(q), now)

End(r) == req' = [req EXCEPT ![r] = Idle]

\* Inside the transaction: the row is read again and the envelope judged; an
\* accepted one is sent to the network while the transaction stays open.
SubmitConfirm(r, tx) ==
    /\ req[r].at = "open"
    /\ IF row[req[r].intent].status = "confirmed" \/ ConfirmRefusal(req[r], tx) # "none"
         THEN End(r)
         ELSE req' = [req EXCEPT ![r].at = "submitting", ![r].tx = tx]
    /\ UNCHANGED <<group, row, draft, ledger, sync, reading, cache, now, faults>>

(* mutant: a submission that timed out counts as a payment *)
CommitUnanswered(r) ==
    /\ req[r].at = "submitting"
    /\ row' = [row EXCEPT ![req[r].intent].status = "confirmed",
                          ![req[r].intent].hash = HashOf(req[r].tx)]
    /\ End(r)
    /\ UNCHANGED <<group, draft, ledger, sync, reading, cache, now, faults>>

\* Horizon answers with the hash; the row is written by id and committed.
CommitConfirm(r) ==
    /\ req[r].at = "submitting"
    /\ Applied(req[r].tx)
    /\ row' = [row EXCEPT ![req[r].intent].status = "confirmed",
                          ![req[r].intent].hash = HashOf(req[r].tx)]
    /\ End(r)
    /\ UNCHANGED <<group, draft, ledger, sync, reading, cache, now, faults>>

\* A rejection, a timeout, a lost answer, a commit that fails: the handler's
\* write of "failed" is rolled back with the rest of the transaction.
RollBackConfirm(r) ==
    /\ req[r].at = "submitting"
    /\ End(r)
    /\ UNCHANGED <<group, row, draft, ledger, sync, reading, cache, now, faults>>

\* A wallet submits the signed envelope without the API, or a submission that
\* the API has given up on arrives late.
WalletPays(i, sigs) ==
    /\ row[i] # None
    /\ LET tx == [row[i].issued EXCEPT !.sigs = sigs] IN
       /\ Accepts(tx)
       /\ \E ok \in BOOLEAN : ledger' = Included(tx, ok)
    /\ UNCHANGED <<group, row, draft, req, sync, reading, cache, now, faults>>

(***************************************************************************)
(* The worker: status sync.                                                *)
(***************************************************************************)
\* Old enough to have been submitted, not expired for longer than the grace.
Syncable(i) ==
    /\ row[i] # None /\ row[i].status \in Live
    /\ row[i].createdAt < now - MinAge
    /\ row[i].expiresAt > now - Grace

SyncLoad ==
    /\ sync = Resting
    /\ \E i \in Intents : Syncable(i)
    /\ sync' = [Resting EXCEPT !.queue = {i \in Intents : Syncable(i)}]
    /\ UNCHANGED <<group, row, draft, req, ledger, reading, cache, now, faults>>

(* mutant: the envelope's own hash is not used *)
LookupRecordedHash(i) == row[i].hash

\* The hash a row is looked up under: the recorded one, else the intended one.
LookupHash(i) == IF row[i].hash # None THEN row[i].hash ELSE HashOf(row[i].issued)

\* Compare-and-set on the live statuses.
MarkTreasuryTransaction(i, status) ==
    row' = IF row[i].status \in Live
             THEN [row EXCEPT ![i].status = status, ![i].hash = LookupHash(i)]
             ELSE row

Dropped(i) == sync' = [queue |-> sync.queue \ {i}, at |-> None, read |-> None]

\* Absent rows are left alone, included failures marked, successes verified.
SyncLookup(i) ==
    LET found == {t \in ledger : t.tx = LookupHash(i)} IN
    /\ sync.at = None /\ i \in sync.queue
    /\ IF \E t \in found : t.ok
         THEN sync' = [sync EXCEPT !.at = i] /\ row' = row
         ELSE /\ Dropped(i)
              /\ IF found # {} THEN MarkTreasuryTransaction(i, "failed") ELSE row' = row
    /\ UNCHANGED <<group, draft, req, ledger, reading, cache, now, faults>>

\* The transaction under the row's hash, once it has been found successful,
\* carries the row's memo and pays what the row says.
VerifyTreasuryTransaction(i) ==
    LET tx == LookupHash(i)
        expected == [destination |-> row[i].destination, asset |-> row[i].asset,
                     amount |-> DecimalText(row[i].amount)]
    IN  /\ PaymentMemoFailure(tx.memo, i) = "none"
        /\ PaymentOperationFailure(Head(tx.ops), expected) = "none"

SyncVerify(i) ==
    /\ sync.at = i
    /\ Dropped(i)
    /\ MarkTreasuryTransaction(i, IF VerifyTreasuryTransaction(i) THEN "confirmed" ELSE "failed")
    /\ UNCHANGED <<group, draft, req, ledger, reading, cache, now, faults>>

\* How a failure of the verification reads is taken.
ClassifyVerificationError(error) ==
    CASE error \in {"timeout", "transport", "throttled", "server"} -> "transient"
      [] error = "not_found" -> "absent"
      [] error = "mismatch"  -> "verification_failed"

\* The lookup gets no answer, or one from a node that lags behind.
SyncUnavailable(i) ==
    /\ sync.at = None /\ i \in sync.queue
    /\ faults < MaxFaults /\ faults' = faults + 1
    /\ Dropped(i)
    /\ UNCHANGED <<group, row, draft, req, ledger, reading, cache, now>>

\* A read of the verification fails, or a lagging node no longer has it.
SyncVerifyFails(i, error) ==
    /\ sync.at = i
    /\ faults < MaxFaults /\ faults' = faults + 1
    /\ Dropped(i)
    /\ IF ClassifyVerificationError(error) = "verification_failed"
         THEN MarkTreasuryTransaction(i, "failed") ELSE row' = row
    /\ UNCHANGED <<group, draft, req, ledger, reading, cache, now>>

\* A worker process ends, with its reconciliation and the sync if it ran it.
WorkerCrashes(k) ==
    /\ faults < MaxFaults /\ faults' = faults + 1
    /\ reading' = [reading EXCEPT ![k] = None]
    /\ sync' \in {sync, Resting}
    /\ <<reading', sync'>> # <<reading, sync>>
    /\ UNCHANGED <<group, row, draft, req, ledger, cache, now>>

(***************************************************************************)
(* The workers: balance reconciliation.                                    *)
(***************************************************************************)
\* The group is read and its account loaded from Horizon.
ReconcileLoad(k) ==
    /\ reading[k] = None /\ group.account # None
    /\ reading' = [reading EXCEPT ![k] =
                     [at |-> "loaded", account |-> group.account,
                      balance |-> Balance(group.account), cached |-> None]]
    /\ UNCHANGED <<group, row, draft, req, ledger, sync, cache, now, faults>>

\* The cached balance is read, later.
ReconcileFetch(k) ==
    /\ reading[k] # None /\ reading[k].at = "loaded"
    /\ reading' = [reading EXCEPT ![k].at = "fetched", ![k].cached = cache[reading[k].account]]
    /\ UNCHANGED <<group, row, draft, req, ledger, sync, cache, now, faults>>

(* mutant: an existing cache row is only touched *)
CompareAndCreate(r, current) == IF r.cached = None THEN r.balance ELSE current

\* A match is only touched, whatever the row holds by then; a variance is
\* overwritten, a missing row created.
CompareAndUpdate(r, current) ==
    IF r.cached # None /\ r.cached = r.balance THEN current ELSE r.balance

ReconcileWrite(k) ==
    /\ reading[k] # None /\ reading[k].at = "fetched"
    /\ cache' = [cache EXCEPT ![reading[k].account] = CompareAndUpdate(reading[k], @)]
    /\ reading' = [reading EXCEPT ![k] = None]
    /\ UNCHANGED <<group, row, draft, req, ledger, sync, now, faults>>

Tick ==
    /\ now < workload.until /\ now' = now + 1
    /\ UNCHANGED <<group, row, draft, req, ledger, sync, reading, cache, faults>>

(***************************************************************************)
(* The specification.                                                      *)
(***************************************************************************)
\* What a wallet may send back: the issued envelope or one field of it changed.
Altered(e) ==
    {e, [e EXCEPT !.kind = "malformed"], [e EXCEPT !.kind = "feeBump"],
     [e EXCEPT !.sequence = @ + 1], [e EXCEPT !.fee = MinFeePerOp], [e EXCEPT !.fee = 3],
     [e EXCEPT !.ops = @ \o @], [e EXCEPT !.ops = << >>],
     [e EXCEPT !.ops[1].destination = Payer], [e EXCEPT !.ops[1].amount.w = 2],
     [e EXCEPT !.memo.prefixed = FALSE], [e EXCEPT !.maxTime = 0],
     [e EXCEPT !.maxTime = @ + Skew + 1]}

SignatureLists ==
    LET s == CHOOSE k \in CoSigners : TRUE
    IN  {<< >>, <<Payer>>, <<s>>, <<s, s>>, <<s, Stranger>>, SetToSeq(CoSigners)}

Signed(i) ==
    {[row[i].issued EXCEPT !.sigs = s] : s \in SignatureLists}
      \cup {[e EXCEPT !.sigs = IF e.source = Payer THEN <<Payer>> ELSE SetToSeq(CoSigners)]
               : e \in Altered(row[i].issued)}

ReadErrors == {"timeout", "transport", "throttled", "server", "not_found"}

SyncStep == SyncLoad \/ \E i \in Intents : SyncLookup(i) \/ SyncVerify(i)
ReconcileStep(k) ==
    k \in workload.reconcilers /\ (ReconcileLoad(k) \/ ReconcileFetch(k) \/ ReconcileWrite(k))

Move ==
    \/ \E a \in TreasuryAccounts, n \in 1..Cardinality(CoSigners) : Enable(a, n)
    \/ \E i \in Intents :
         \/ \E a \in workload.amounts, v \in workload.validities : Deposit(i, a, v) \/ Withdraw(i, a, v)
         \/ CreateIntent(i) \/ AbandonIntent(i)
         \/ \E s \in SignatureLists : WalletPays(i, s)
         \/ SyncUnavailable(i)
         \/ \E error \in ReadErrors : SyncVerifyFails(i, error)
    \/ \E r \in workload.requests :
         \/ \E i \in Intents : OpenConfirm(r, i)
         \/ req[r].at = "open" /\ \E tx \in Signed(req[r].intent) : SubmitConfirm(r, tx)
         \/ LedgerReceives(r) \/ CommitConfirm(r) \/ RollBackConfirm(r)
    \/ \E k \in Reconcilers : ReconcileStep(k) \/ WorkerCrashes(k)
    \/ SyncStep \/ Tick

Next == Move /\ UNCHANGED workload

Spec == Init /\ [][Next]_vars

\* The workers run a cycle again and again; their reads fail a bounded number of
\* times.  Users, wallets, the network and the clock owe nothing.
FairSpec ==
    Spec /\ WF_vars(SyncStep /\ UNCHANGED workload)
         /\ \A k \in Reconcilers : WF_vars(ReconcileStep(k) /\ UNCHANGED workload)

(***************************************************************************)
(* Properties.                                                             *)
(***************************************************************************)
PaidFor(i) == {t \in ledger : t.ok /\ t.tx.memo.code = i}

\* One intent is paid at most once, however its envelope reaches the network:
\* through confirm requests, through a wallet, or through both.
PaidOnce == \A i \in Intents : Cardinality(PaidFor(i)) <= 1

\* A row says confirmed only when the transaction under its hash succeeded and
\* moved the row's amount to the row's destination.
ConfirmedIsPaid ==
    \A i \in Intents : row[i] # None /\ row[i].status = "confirmed" =>
        \E t \in PaidFor(i) :
            t.tx = row[i].hash /\ t.tx.ops = PaymentTo(row[i].destination, row[i].amount)

\* A row is given up only when its payment cannot have happened: neither a lost
\* answer nor a failing or lagging read makes a paid row "failed".  Only a payment
\* of fewer than ten stroops is, as its amount reads back in exponent notation.
FailedIsUnpaid ==
    \A i \in Intents :
        row[i] # None /\ row[i].status = "failed" /\ ~FewStroops(row[i].amount) => PaidFor(i) = {}

\* A row tells the truth about its payment, whichever of confirm and sync wrote
\* it (the confirm route, syncTreasuryTransaction).
OutcomeIsTrue == ConfirmedIsPaid /\ FailedIsUnpaid

\* What the API hands out it also takes back, though the envelope's window is
\* counted from a later reading of the clock than the row's deadline: until the
\* deadline, the issued envelope with the signatures it needs passes the confirm
\* checks, unless it pays fewer than ten stroops, and a withdrawal passes the policy
\* of treasury proposals, as long as the treasury's account has not been replaced.
IssuedIsAccepted ==
    \A i \in Intents :
        row[i] # None /\ now <= row[i].expiresAt =>
            LET deposit == row[i].direction = "deposit"
                account == IF deposit THEN row[i].destination ELSE row[i].issued.source
                q == [Idle EXCEPT !.intent = i, !.account = account, !.threshold = 1]
                s == IF deposit THEN Payer ELSE CHOOSE k \in CoSigners : TRUE
                tx == [row[i].issued EXCEPT !.sigs = <<s>>]
            IN  /\ ~FewStroops(row[i].amount) => ConfirmRefusal(q, tx) = "none"
                /\ ~deposit => InspectTreasuryXdr(row[i].issued, account, now) = "none"

\* A withdrawal leaves the API only with the signatures of as many distinct
\* co-signers as some threshold in force while its request ran; only a
\* configuration change during the request can make that fewer than the current
\* one.
EnoughSigners ==
    \A r \in Requests : req[r].at = "submitting" /\ row[req[r].intent].direction = "withdrawal" =>
        Cardinality(Signers(req[r].tx) \cap CoSigners) >= req[r].least

\* The treasury pays an intent once, and on enough signatures (the
\* confirm route, verifyMultisig).
PaidAsAgreed == PaidOnce /\ EnoughSigners

\* A recorded outcome is never revised: not by a slower confirm request, not by
\* a sync that looked the row up before.
OutcomeIsFinal ==
    [][\A i \in Intents : row[i] # None /\ row[i].status \notin Live =>
           row'[i].status = row[i].status /\ row'[i].hash = row[i].hash]_vars

\* A payment that the API did not see through, because a wallet sent it or its
\* answer or commit was lost, is recorded by the sync while its window is open, and
\* stays recorded (as confirmed, by FailedIsUnpaid, unless it is of a few stroops).
PaidIsRecorded ==
    OutcomeIsFinal /\ \A i \in Intents :
        (PaidFor(i) # {} /\ Syncable(i)) ~> (PaidFor(i) # {} /\ ~Syncable(i))

\* Once payments and configuration settle, the cache of the treasury in use
\* shows its balance, though runs overlap, write what they read earlier, and
\* leave alone a row that another has changed since they compared it.
CacheCatchesUp ==
    workload.reconcilers # {} =>
        <>[](group.account # None => cache[group.account] = Balance(group.account))
=============================================================================
