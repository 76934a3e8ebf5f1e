--------------------------- MODULE PaymentEnvelope ---------------------------
(***************************************************************************)
(* The transaction envelopes of the API: how an unsigned payment is built, *)
(* and the checks a signed envelope must pass before it is accepted for an *)
(* intent, for a multisig account or as a treasury proposal.               *)
(* An envelope is a record of the fields the checks read; a signature is   *)
(* the key that verifies it.  Checks run in order and the first that fails *)
(* names the refusal.  Fees are in units of the network's base fee.        *)
(***************************************************************************)
EXTENDS Integers, Sequences, FiniteSets

CONSTANTS
    Accounts,        \* well-formed account ids
    NoSource,        \* an operation without a source of its own
    Skew,            \* CLOCK_SKEW_TOLERANCE_SECONDS
    Decimals,        \* fractional digits of a Stellar amount
    MaxOperations    \* MAX_TREASURY_OPERATIONS

ASSUME EnvelopeAssumption ==
    /\ NoSource \notin Accounts
    /\ Skew \in Nat /\ Decimals \in Nat \ {0} /\ MaxOperations \in Nat \ {0}

MinFeePerOp == 1
MaxFeePerOp == 2

Check(rule, ok) == [rule |-> rule, ok |-> ok]

\* The rule of the first check that fails, "none" when all pass.
FirstFailure(checks) ==
    LET failed == {k \in 1..Len(checks) : ~checks[k].ok}
    IN  IF failed = {} THEN "none"
        ELSE checks[CHOOSE k \in failed : \A j \in failed : k <= j].rule

(***************************************************************************)
(* Building.                                                               *)
(***************************************************************************)
\* An amount is written as what stands before the point, with the exponent e in
\* exponent notation (none: 0), and its fractional digits; it is compared with
\* the fraction padded, and cut, to the digits of a stroop.
NormalizeAmount(a) ==
    [w |-> a.w, e |-> a.e, f |-> [k \in 1..Decimals |-> IF k <= Len(a.f) THEN a.f[k] ELSE 0]]

\* Fewer than ten stroops.
FewStroops(a) == a.w = 0 /\ Len(a.f) = Decimals /\ \A k \in 1..(Decimals - 1) : a.f[k] = 0

\* The digits of a fraction up to the last that is not zero.
Trimmed(f) ==
    LET n == CHOOSE n \in 0..Len(f) :
                 /\ \A k \in (n + 1)..Len(f) : f[k] = 0
                 /\ n > 0 => f[n] # 0
    IN  SubSeq(f, 1, n)

\* A column of type Decimal read back as text (Decimal.toString): no zeros at the
\* end, and exponent notation, "3e-7", where only the last digit of a stroop is set.
DecimalText(a) ==
    IF FewStroops(a) THEN [w |-> a.f[Decimals], e |-> -Decimals, f |-> << >>]
    ELSE [w |-> a.w, e |-> 0, f |-> Trimmed(a.f)]

MemoText(code) == [type |-> "text", prefixed |-> TRUE, code |-> code]

\* The envelope bytes carry the amount in stroops, which read back padded.
OnTheWire(a) ==
    [w |-> a.w, e |-> 0, f |-> [k \in 1..Decimals |-> IF k <= Len(a.f) THEN a.f[k] ELSE 0]]

BuildRefusal(p) ==
    FirstFailure(<< Check("invalid_source_account", p.source \in Accounts),
                    Check("invalid_destination_account", p.destination \in Accounts) >>)

\* One payment, the fee at the top of the accepted band, valid from the start
\* until validity has passed; the sequence is the account's plus one.
BuildPayment(p, accountSequence, now, validity) ==
    [kind |-> "payment", source |-> p.source, sequence |-> accountSequence + 1,
     ops |-> << [type |-> "payment", source |-> NoSource, destination |-> p.destination,
                 asset |-> p.asset, amount |-> OnTheWire(p.amount)] >>,
     fee |-> MaxFeePerOp, memo |-> MemoText(p.code),
     minTime |-> 0, maxTime |-> now + validity, sigs |-> << >>]

\* A hash covers everything but the signatures.
HashOf(tx) == [tx EXCEPT !.sigs = << >>]

(***************************************************************************)
(* The parts of validation.                                                *)
(***************************************************************************)
ParseChecks(tx) ==
    << Check("xdr_malformed", tx.kind # "malformed"),
       Check("xdr_mismatch", tx.kind # "feeBump") >>

\* Usable bounds that end, no later than the intent does, and that hold now.
TimeBoundsChecks(tx, expiresAt, now) ==
    << Check("xdr_mismatch", tx.maxTime > 0),
       Check("xdr_mismatch", tx.maxTime <= expiresAt + Skew),
       Check("intent_expired", tx.maxTime + Skew >= now),
       Check("xdr_mismatch", tx.minTime <= now + Skew) >>

\* The operation that is judged: shape is checked before content, so a missing
\* one is reported before this stand-in is looked at.
FirstOperation(tx) ==
    IF tx.ops # << >> THEN Head(tx.ops)
    ELSE [type |-> "missing", source |-> NoSource, destination |-> NoSource,
          asset |-> [code |-> "none", issuer |-> NoSource], amount |-> [w |-> 0, e |-> 0, f |-> << >>]]

FeeInBand(tx) ==
    /\ tx.fee >= MinFeePerOp * Len(tx.ops)
    /\ tx.fee <= MaxFeePerOp * Len(tx.ops)

\* The asset the operation pays is the one expected: code and issuer.
SameAsset(got, want) == got.code = want.code /\ got.issuer = want.issuer

\* Which field diverges first from the intent.  No caller passes the sequence.
MatchChecks(tx, expected) ==
    LET op == FirstOperation(tx) IN
    << Check("source", tx.source = expected.source),
       Check("operationCount", Len(tx.ops) = 1),
       Check("fee", FeeInBand(tx)),
       Check("operationType", op.type = "payment"),
       Check("operationSource", op.source \in {NoSource, expected.source}),
       Check("destination", op.destination = expected.destination),
       Check("asset", SameAsset(op.asset, expected.asset)),
       Check("amount", NormalizeAmount(op.amount) = NormalizeAmount(expected.amount)),
       Check("memo", tx.memo = MemoText(expected.code)) >>

Signers(tx) == {tx.sigs[k] : k \in DOMAIN tx.sigs}

VerifySourceSignature(tx, key) == key \in Signers(tx)

\* Every signature belongs to a configured signer, and enough of them signed.
MultisigChecks(tx, requirement) ==
    << Check("treasury_misconfigured", requirement.signers # {}),
       Check("unauthorized", tx.sigs # << >>),
       Check("unauthorized", Signers(tx) \subseteq requirement.signers),
       Check("unauthorized", Cardinality(Signers(tx)) >= requirement.threshold) >>

(***************************************************************************)
(* The accepted envelopes.                                                 *)
(***************************************************************************)
\* Parse, window, content: the envelope is the intent's, whoever signed it.
ValidateSignedPayment(tx, expected, now) ==
    FirstFailure(ParseChecks(tx) \o TimeBoundsChecks(tx, expected.expiresAt, now)
                 \o MatchChecks(tx, expected))

\* submitPayment: the source account itself must have signed.
ValidatePaymentTx(tx, expected, now) ==
    FirstFailure(ParseChecks(tx) \o TimeBoundsChecks(tx, expected.expiresAt, now)
                 \o MatchChecks(tx, expected)
                 \o << Check("xdr_mismatch", VerifySourceSignature(tx, expected.source)) >>)

\* submitMultisigPayment: the co-signers sign in place of the source account.
ValidateMultisigTx(tx, expected, requirement, now) ==
    FirstFailure(ParseChecks(tx) \o TimeBoundsChecks(tx, expected.expiresAt, now)
                 \o MatchChecks(tx, expected) \o MultisigChecks(tx, requirement))

\* What a proposal for the treasury may contain: any operations of the treasury
\* itself, few enough, with positive payments to real accounts, at a fair fee.
PolicyChecks(tx, treasury, now) ==
    LET each == {tx.ops[k] : k \in DOMAIN tx.ops} IN
    << Check("source_account", tx.source = treasury),
       Check("operations", Len(tx.ops) \in 1..MaxOperations),
       Check("operation_source", \A op \in each : op.source \in {NoSource, treasury}),
       Check("operation_amount",
             \A op \in each : op.type = "payment" =>
                 op.amount.w > 0 \/ \E k \in DOMAIN op.amount.f : op.amount.f[k] > 0),
       Check("operation_destination",
             \A op \in each : op.type \in {"payment", "createAccount", "accountMerge"} =>
                 op.destination \in Accounts),
       Check("fee", FeeInBand(tx)),
       Check("xdr_mismatch", tx.maxTime > 0),
       Check("intent_expired", tx.maxTime + Skew >= now),
       Check("xdr_mismatch", tx.minTime <= now + Skew) >>

InspectTreasuryXdr(tx, treasury, now) ==
    FirstFailure(ParseChecks(tx) \o PolicyChecks(tx, treasury, now))

(***************************************************************************)
(* What the ledger shows of a transaction, against what a row recorded.    *)
(***************************************************************************)
PaymentMemoFailure(memo, code) ==
    FirstFailure(<< Check("missing_memo", memo.type # "none"),
                    Check("hash_memo_mismatch", memo.type # "hash"),
                    Check("unsupported_memo_type", memo.type = "text"),
                    Check("malformed_memo", memo.prefixed),
                    Check("code_mismatch", memo.code = code) >>)

PaymentOperationFailure(op, expected) ==
    FirstFailure(<< Check("transaction_verification_failed", op.type = "payment"),
                    Check("settlement_verification_failed", op.destination = expected.destination),
                    Check("settlement_verification_failed",
                          NormalizeAmount(op.amount) = NormalizeAmount(expected.amount)),
                    Check("settlement_verification_failed", SameAsset(op.asset, expected.asset)) >>)
=============================================================================
