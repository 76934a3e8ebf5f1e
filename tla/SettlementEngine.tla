-------------------------- MODULE SettlementEngine --------------------------
(***************************************************************************)
(* The settlement engine: every part of the API and of the worker that     *)
(* reads or writes a row of the settlements table, and the Stellar network *)
(* they pay through.                                                       *)
(*                                                                         *)
(*  - the API creates a settlement for an expense share and accepts the    *)
(*    payer's signed envelope (routes/settlements.ts);                     *)
(*  - submitters are runs of processSubmittedSettlements, which lease a    *)
(*    row, submit its envelope and drive it to an outcome                  *)
(*    (worker/index.ts);                                                   *)
(*  - checkers ask Horizon about a recorded hash and write the answer      *)
(*    back: reconcilePendingSettlements ("reconcile"), the tx-status-sync  *)
(*    task ("sync"), the transaction reconciliation loop of                *)
(*    worker/reconciliation.ts ("legacy"), and a repeated                  *)
(*    POST /settlements/:id/confirm ("api").                               *)
(*                                                                         *)
(* One step is one database statement or transaction, or one call to       *)
(* Horizon; everything between two of them is local to its process.        *)
(***************************************************************************)
EXTENDS SettlementMachine, Integers

CONSTANTS
    Settlements,      \* settlement rows that may be created
    Shares,           \* expense shares
    Envelopes,        \* signed Stellar transactions, named by their hash
    Submitters,       \* concurrent runs of processSubmittedSettlements
    Checkers,         \* concurrent runs of a job that looks a hash up
    Owners,           \* lease owner ids (WORKER_ID, SYNC_WORKER_ID)
    None,             \* SQL NULL
    ShareOf,          \* settlement -> share, None for a freeform settle-up
    KeyOf,            \* settlement -> idempotency key of its creation, or None
    SettlementOf,     \* envelope -> the settlement whose intent it matches
    KindOf,           \* checker -> which of the four jobs it is
    OwnerOf,          \* submitter or leasing checker -> its lease owner id
    MaxAttempts,      \* SETTLEMENT_RETRY_POLICY.maxAttempts
    ReconMax,         \* RECONCILIATION_MAX_RETRIES
    MaxSigns,         \* bound: envelopes accepted per settlement
    MaxCrashes,       \* bound: process deaths
    MaxOverruns       \* bound: leases of a round that run out in mid-job

Kinds   == {"reconcile", "sync", "legacy", "api"}
Leasing == {"reconcile", "sync"}

ASSUME ConstantsAssumption ==
    /\ None \notin Settlements \cup Shares \cup Envelopes \cup Owners
    /\ ShareOf \in [Settlements -> Shares \cup {None}]
    /\ SettlementOf \in [Envelopes -> Settlements]
    /\ KindOf \in [Checkers -> Kinds]
    /\ OwnerOf \in [Submitters \cup Checkers -> Owners]
    /\ Submitters \cap Checkers = {}
    /\ MaxAttempts \in Nat \ {0}
    /\ ReconMax \in Nat
    /\ MaxSigns \in Nat
    /\ MaxCrashes \in Nat
    /\ MaxOverruns \in Nat

VARIABLES
    \* columns of the settlements table
    status, xdr, txHash, retry, deadLettered, claimedBy, lease,
    \* expense_shares.status, the network, and the signing windows
    share, ledger, closed,
    \* creations that have passed their share check and not yet written
    creating,
    \* processes
    job, chk,
    \* history: envelopes accepted, calls made since the last acceptance,
    \* whether retryCount may have lost one of those calls, how many
    \* leases ran out under the process that held them, and crashes
    signs, sent, refunded, overrun, crashes

rowVars   == <<status, xdr, txHash, retry, deadLettered>>
leaseVars == <<claimedBy, lease>>
worldVars == <<ledger, closed>>
pastVars  == <<signs, sent, refunded, overrun, crashes>>
vars == <<rowVars, leaseVars, share, worldVars, creating, job, chk, pastVars>>

-----------------------------------------------------------------------------
(* State of the processes *)

RowStatuses == SettlementStatuses \cup {"none"}

Job == [at : {"idle", "fetched", "claimed", "begin", "submit", "record",
              "poll", "caught", "release"},
        s : Settlements \cup {None}, env : Envelopes \cup {None},
        seen : RowStatuses, attempt : Nat,
        cat : {"none", "transient", "indeterminate", "permanent"}]

IdleJob == [at |-> "idle", s |-> None, env |-> None, seen |-> "none",
            attempt |-> 0, cat |-> "none"]

Check == [at : {"idle", "fetched", "lookup", "write", "share", "release"},
          s : Settlements \cup {None}, hash : Envelopes \cup {None},
          seen : RowStatuses, retry : Nat,
          result : {"none", "null", "ok", "failed"}]

IdleCheck == [at |-> "idle", s |-> None, hash |-> None, seen |-> "none",
              retry |-> 0, result |-> "none"]

(* a process at work on a row it has claimed *)
DrivingJob(w, s)   == job[w].s = s /\ job[w].at \notin {"idle", "fetched"}
DrivingCheck(c, s) == /\ chk[c].s = s
                      /\ chk[c].at \notin {"idle", "fetched"}
                      /\ KindOf[c] \in Leasing
Driven(s) == \/ \E w \in Submitters : DrivingJob(w, s)
             \/ \E c \in Checkers : DrivingCheck(c, s)

Init ==
    /\ status = [s \in Settlements |-> "none"]
    /\ xdr = [s \in Settlements |-> None]
    /\ txHash = [s \in Settlements |-> None]
    /\ retry = [s \in Settlements |-> 0]
    /\ deadLettered = [s \in Settlements |-> FALSE]
    /\ claimedBy = [s \in Settlements |-> None]
    /\ lease = [s \in Settlements |-> "none"]
    /\ share = [x \in Shares |-> "open"]
    /\ ledger = [e \in Envelopes |-> "none"]
    /\ closed = [s \in Settlements |-> FALSE]
    /\ creating = [s \in Settlements |-> FALSE]
    /\ job = [w \in Submitters |-> IdleJob]
    /\ chk = [c \in Checkers |-> IdleCheck]
    /\ signs = [s \in Settlements |-> 0]
    /\ sent = [s \in Settlements |-> 0]
    /\ refunded = [s \in Settlements |-> FALSE]
    /\ overrun = [s \in Settlements |-> 0]
    /\ crashes = 0

-----------------------------------------------------------------------------
(* The database *)

(* leaseExpiresAt is null or in the past.  nextAttemptAt never lies beyond *)
(* a lease scheduleRetry wrote with it, so it delays no claim further.     *)
Unleased(s) == lease[s] # "live"

TakeLease(s, owner) ==
    /\ claimedBy' = [claimedBy EXCEPT ![s] = owner]
    /\ lease' = [lease EXCEPT ![s] = "live"]

(* releaseSettlement / releaseSettlementSync: only a lease of one's own *)
ReleaseLease(s, owner) ==
    IF claimedBy[s] = owner
    THEN /\ claimedBy' = [claimedBy EXCEPT ![s] = None]
         /\ lease' = [lease EXCEPT ![s] = "none"]
    ELSE UNCHANGED leaseVars

(* leaseExpiresAt is pushed forward; claimedBy is not looked at *)
RenewLease(s) ==
    /\ lease' = [lease EXCEPT ![s] = "live"]
    /\ UNCHANGED claimedBy

SettleShare(s) ==
    share' = IF ShareOf[s] = None THEN share
             ELSE [share EXCEPT ![ShareOf[s]] = "settled"]

WriteExtra(s, hash, n, dead) ==
    /\ txHash' = [txHash EXCEPT ![s] = hash]
    /\ retry' = [retry EXCEPT ![s] = n]
    /\ deadLettered' = [deadLettered EXCEPT ![s] = dead]
    /\ UNCHANGED xdr

(* mutant: the share is settled whatever the row hopped to *)
TransitionChangedSettlesAlways(s, to, hash, n, dead) ==
    /\ CanTransition(status[s], to)
    /\ status' = [status EXCEPT ![s] = to]
    /\ WriteExtra(s, hash, n, dead)
    /\ SettleShare(s)

(* mutant: the update is by id, whatever the row has become *)
TransitionChangedById(s, to, hash, n, dead) ==
    /\ status[s] # to
    /\ status' = [status EXCEPT ![s] = to]
    /\ WriteExtra(s, hash, n, dead)
    /\ IF to = "confirmed" THEN SettleShare(s) ELSE UNCHANGED share

(* applySettlementTransition.  hash, n and dead are the row's hash, retry  *)
(* count and dead-letter mark after extraData is written.  The transaction *)
(* reads the status and then updates only a row still in a status that may *)
(* hop to `to`.                                                            *)
TransitionChanged(s, to, hash, n, dead) ==
    /\ CanTransition(status[s], to)
    /\ status' = [status EXCEPT ![s] = to]
    /\ WriteExtra(s, hash, n, dead)
    /\ IF to = "confirmed" THEN SettleShare(s) ELSE UNCHANGED share

TransitionSame(s, to, hash, n, dead) ==
    /\ status[s] = to
    /\ WriteExtra(s, hash, n, dead)
    /\ UNCHANGED <<status, share>>

(* the read saw a status the hop is allowed from, and another transaction  *)
(* committed before the update: no row matches and nothing is thrown       *)
TransitionRaced(s, to) ==
    /\ ~ CanTransition(status[s], to)
    /\ UNCHANGED <<rowVars, share>>

(* returns normally: the row moved, was there already, or was lost *)
TransitionReturns(s, to, hash, n, dead) ==
    \/ TransitionChanged(s, to, hash, n, dead)
    \/ TransitionSame(s, to, hash, n, dead)
    \/ TransitionRaced(s, to)

(* throws 409 invalid_transition *)
TransitionThrows(s, to) ==
    /\ status[s] # to
    /\ ~ CanTransition(status[s], to)
    /\ UNCHANGED <<rowVars, share>>

-----------------------------------------------------------------------------
(* The API *)

(* the settlements the unique index on (expenseShareId, idempotencyKey)    *)
(* sets against s; NULLs are never equal                                   *)
KeyMates(s) ==
    {t \in Settlements \ {s} : /\ KeyOf[s] # None /\ KeyOf[t] = KeyOf[s]
                              /\ ShareOf[s] # None /\ ShareOf[t] = ShareOf[s]}

(* POST /expenses/:id/settle, the checks inside runIdempotent's            *)
(* transaction: the share is not settled, and no settlement of it under    *)
(* the same key, failed ones apart, exists.                                *)
CreateCheck(s) ==
    /\ status[s] = "none"
    /\ ~ creating[s]
    /\ ShareOf[s] # None /\ share[ShareOf[s]] # "settled"
    /\ \A t \in KeyMates(s) : status[t] \in {"none", "failed"}
    /\ creating' = [creating EXCEPT ![s] = TRUE]
    /\ UNCHANGED <<rowVars, leaseVars, share, worldVars, job, chk, pastVars>>

(* ... and its writes: the pending row, and the share marked settling *)
CreateWrite(s) ==
    /\ creating[s]
    /\ \A t \in KeyMates(s) : status[t] = "none"
    /\ creating' = [creating EXCEPT ![s] = FALSE]
    /\ status' = [status EXCEPT ![s] = "pending"]
    /\ share' = [share EXCEPT ![ShareOf[s]] = "settling"]
    /\ UNCHANGED <<xdr, txHash, retry, deadLettered, leaseVars, worldVars,
                   job, chk, pastVars>>

(* the unique index refuses the row and the transaction rolls back *)
CreateAborts(s) ==
    /\ creating[s]
    /\ \E t \in KeyMates(s) : status[t] # "none"
    /\ creating' = [creating EXCEPT ![s] = FALSE]
    /\ UNCHANGED <<rowVars, leaseVars, share, worldVars, job, chk, pastVars>>

(* POST /groups/:id/settlements: a freeform settle-up, for no share *)
CreateFreeform(s) ==
    /\ status[s] = "none" /\ ShareOf[s] = None
    /\ status' = [status EXCEPT ![s] = "pending"]
    /\ UNCHANGED <<xdr, txHash, retry, deadLettered, leaseVars, share, worldVars,
                   creating, job, chk, pastVars>>

(* The conditional update by which confirm and execute hand a signed       *)
(* envelope to the worker.  validateSignedXdr ties it to the settlement    *)
(* and to its signing window.  stellarTxHash and deadLetteredAt of an      *)
(* earlier failed round stay on the row, and a job still at work on that   *)
(* round is not told.                                                      *)
AcceptEnvelope(s, e) ==
    /\ SettlementOf[e] = s
    /\ ~ closed[s]
    /\ signs[s] < MaxSigns
    /\ status[s] \in {"pending", "failed"}
    /\ status' = [status EXCEPT ![s] = "submitted"]
    /\ xdr' = [xdr EXCEPT ![s] = e]
    /\ retry' = [retry EXCEPT ![s] = 0]
    /\ signs' = [signs EXCEPT ![s] = @ + 1]
    /\ sent' = [sent EXCEPT ![s] = 0]
    /\ refunded' = [refunded EXCEPT ![s] =
                      \E w \in Submitters : DrivingJob(w, s) /\ job[w].at # "release"]
    /\ overrun' = [overrun EXCEPT ![s] = IF Driven(s) THEN @ ELSE 0]
    /\ UNCHANGED <<txHash, deadLettered, leaseVars, share, worldVars,
                   creating, job, chk, crashes>>

(* POST /settlements/:id/confirm on a pending or failed settlement; on one *)
(* already in flight it is a checker of kind "api"                         *)
Confirm(s, e) == AcceptEnvelope(s, e)

(* POST /settlements/execute *)
Execute(s, e) == AcceptEnvelope(s, e)

-----------------------------------------------------------------------------
(* Settlement submission *)

(* mutant: rows out of attempts are filtered out of the batch *)
FetchBelowBudget(w, s) ==
    /\ job[w].at = "idle"
    /\ status[s] \in Submittable
    /\ xdr[s] # None
    /\ Unleased(s)
    /\ retry[s] < MaxAttempts
    /\ job' = [job EXCEPT ![w] =
                 [at |-> "fetched", s |-> s, env |-> xdr[s],
                  seen |-> status[s], attempt |-> retry[s], cat |-> "none"]]
    /\ UNCHANGED <<rowVars, leaseVars, share, worldVars, creating, chk, pastVars>>

(* the findMany of processSubmittedSettlements: one row of its batch *)
Fetch(w, s) ==
    /\ job[w].at = "idle"
    /\ status[s] \in Submittable
    /\ xdr[s] # None
    /\ Unleased(s)
    /\ job' = [job EXCEPT ![w] =
                 [at |-> "fetched", s |-> s, env |-> xdr[s],
                  seen |-> status[s], attempt |-> retry[s], cat |-> "none"]]
    /\ UNCHANGED <<rowVars, leaseVars, share, worldVars, creating, chk, pastVars>>

(* mutant: the claim forgets the lease *)
ClaimableLeaseIgnored(w) ==
    LET s == job[w].s IN
    /\ status[s] \in Submittable
    /\ retry[s] = job[w].attempt

(* claimSettlement: the row must be submittable, unleased and on the       *)
(* attempt that was read; its envelope is not compared                     *)
Claimable(w) ==
    LET s == job[w].s IN
    /\ status[s] \in Submittable
    /\ retry[s] = job[w].attempt
    /\ Unleased(s)

Claim(w) ==
    /\ job[w].at = "fetched"
    /\ IF Claimable(w)
       THEN /\ TakeLease(job[w].s, OwnerOf[w])
            /\ job' = [job EXCEPT ![w].at = "claimed"]
       ELSE /\ job' = [job EXCEPT ![w] = IdleJob]
            /\ UNCHANGED leaseVars
    /\ UNCHANGED <<rowVars, share, worldVars, creating, chk, pastVars>>

(* failSettlement: to failed, with the dead-letter mark.  Its own conflict *)
(* escapes the job; either way the job is over.                            *)
FailSettlement(w) ==
    LET s == job[w].s IN
    /\ \/ TransitionReturns(s, "failed", txHash[s], job[w].attempt, TRUE)
       \/ TransitionThrows(s, "failed")
    /\ job' = [job EXCEPT ![w].at = "release"]

(* processSettlementJob up to its loop, when the job is refused: budget    *)
(* spent, signing window over, or a preflight that finds the payer unable  *)
(* to pay (any answer it likes)                                            *)
Refuse(w) ==
    /\ job[w].at = "claimed"
    /\ FailSettlement(w)
    /\ UNCHANGED <<leaseVars, worldVars, creating, chk, pastVars>>

(* ... and when it goes ahead: submitted becomes verifying *)
Prepare(w) ==
    LET s == job[w].s IN
    /\ job[w].at = "claimed"
    /\ job[w].attempt < MaxAttempts
    /\ ~ closed[s]
    /\ IF job[w].seen = "submitted"
       THEN \/ /\ TransitionReturns(s, "verifying", txHash[s], retry[s],
                                    deadLettered[s])
               /\ job' = [job EXCEPT ![w].at = "begin"]
            \/ /\ TransitionThrows(s, "verifying")
               /\ job' = [job EXCEPT ![w].at = "release"]
       ELSE /\ job' = [job EXCEPT ![w].at = "begin"]
            /\ UNCHANGED <<rowVars, share>>
    /\ UNCHANGED <<leaseVars, worldVars, creating, chk, pastVars>>

(* mutant: the attempt is not recorded before the call *)
BeginAttemptUnrecorded(w) ==
    /\ job[w].at = "begin"
    /\ RenewLease(job[w].s)
    /\ job' = [job EXCEPT ![w].at = "submit", ![w].attempt = @ + 1]
    /\ UNCHANGED <<rowVars, share, worldVars, creating, chk, pastVars>>

(* recordAttemptStarted: unconditional, and before Horizon is called *)
BeginAttempt(w) ==
    LET s == job[w].s IN
    /\ job[w].at = "begin"
    /\ retry' = [retry EXCEPT ![s] = job[w].attempt + 1]
    /\ RenewLease(s)
    /\ job' = [job EXCEPT ![w].at = "submit", ![w].attempt = @ + 1]
    /\ UNCHANGED <<status, xdr, txHash, deadLettered, share, worldVars,
                   creating, chk, pastVars>>

(* The transaction is on the ledger and succeeded; "ok" is one Horizon     *)
(* shows, "applied" one it does not show yet.                              *)
LedgerOk(e) == ledger[e] \in {"applied", "ok"}

(* stellar.submitPayment: one POST to Horizon.  Each outcome is one of the *)
(* network's, with the category classifyJobFailure gives it.               *)
SubmitOutcome(w, at, cat, e, fate) ==
    /\ job' = [job EXCEPT ![w].at = at, ![w].cat = cat]
    /\ ledger' = [ledger EXCEPT ![e] = fate]

Submit(w) ==
    LET s == job[w].s
        e == job[w].env
    IN
    /\ job[w].at = "submit"
    /\ \/ \* applied, now or earlier: Horizon answers with the hash
          /\ \/ LedgerOk(e)
             \/ ledger[e] \in {"none", "queued"} /\ ~ closed[s]
          /\ SubmitOutcome(w, "record", "none", e,
                           IF ledger[e] = "ok" THEN "ok" ELSE "applied")
       \/ \* rejected before the ledger (tx_bad_seq, tx_too_late, validation)
          SubmitOutcome(w, "caught", "permanent", e, ledger[e])
       \/ \* applied and failed on the ledger
          /\ ledger[e] \in {"none", "queued"} /\ ~ closed[s]
          /\ SubmitOutcome(w, "caught", "permanent", e, "failed")
       \/ \* no answer in time, or a dropped connection, the envelope unsent
          \E cat \in {"indeterminate", "transient"} :
             SubmitOutcome(w, "caught", cat, e, ledger[e])
       \/ \* no answer in time, or a dropped connection, the envelope queued
          /\ ledger[e] = "none" /\ ~ closed[s]
          /\ \E cat \in {"indeterminate", "transient"} :
                SubmitOutcome(w, "caught", cat, e, "queued")
    /\ sent' = [sent EXCEPT ![s] = IF @ > MaxAttempts THEN @ ELSE @ + 1]
    /\ UNCHANGED <<rowVars, leaseVars, share, closed, creating, chk, signs,
                   refunded, overrun, crashes>>

(* confirmSubmission, first write: the hash.  A conflict is a 4xx, hence   *)
(* permanent; a database error is unrecognised, hence indeterminate.       *)
Record(w) ==
    LET s == job[w].s IN
    /\ job[w].at = "record"
    /\ \/ /\ TransitionReturns(s, "verifying", job[w].env, retry[s],
                               deadLettered[s])
          /\ job' = [job EXCEPT ![w].at = "poll"]
       \/ /\ TransitionThrows(s, "verifying")
          /\ job' = [job EXCEPT ![w].at = "caught", ![w].cat = "permanent"]
       \/ /\ job' = [job EXCEPT ![w].at = "caught", ![w].cat = "indeterminate"]
          /\ UNCHANGED <<rowVars, share>>
    /\ UNCHANGED <<leaseVars, worldVars, creating, chk, pastVars>>

(* the outcome of the poll is written; a conflict here is caught too *)
PollWrites(w, to, hash, n, dead) ==
    LET s == job[w].s IN
    \/ /\ TransitionReturns(s, to, hash, n, dead)
       /\ job' = [job EXCEPT ![w].at = "release"]
    \/ /\ TransitionThrows(s, to)
       /\ job' = [job EXCEPT ![w].at = "caught", ![w].cat = "permanent"]

(* pollForConfirmation and what confirmSubmission does with its answer.    *)
(* Running out of polls, unseen or unanswered, is always possible.         *)
Poll(w) ==
    LET s == job[w].s
        e == job[w].env
    IN
    /\ job[w].at = "poll"
    /\ \/ /\ ledger[e] = "ok"
          /\ PollWrites(w, "confirmed", e, 0, deadLettered[s])
       \/ /\ ledger[e] = "failed"
          /\ PollWrites(w, "failed", txHash[s], job[w].attempt, TRUE)
       \/ PollWrites(w, "needs_review", e, retry[s], deadLettered[s])
    /\ UNCHANGED <<leaseVars, worldVars, creating, chk, pastVars>>

(* scheduleRetry, and the backoff the loop then sleeps through *)
ScheduleRetry(w) ==
    LET s == job[w].s IN
    /\ job[w].attempt < MaxAttempts
    /\ retry' = [retry EXCEPT ![s] = job[w].attempt]
    /\ RenewLease(s)
    /\ job' = [job EXCEPT ![w].at = "begin", ![w].cat = "none"]
    /\ UNCHANGED <<status, xdr, txHash, deadLettered, share>>

(* the catch block: permanent, or out of attempts, fails the settlement *)
GiveUp(w) ==
    /\ job[w].at = "caught"
    /\ job[w].cat = "permanent" \/ job[w].attempt >= MaxAttempts
    /\ FailSettlement(w)
    /\ UNCHANGED <<leaseVars, worldVars, creating, chk, pastVars>>

(* ... transient, or indeterminate and not on the ledger, retries *)
Retry(w) ==
    /\ job[w].at = "caught"
    /\ job[w].cat \in {"transient", "indeterminate"}
    /\ ScheduleRetry(w)
    /\ UNCHANGED <<worldVars, creating, chk, pastVars>>

(* mutant: found is taken for successful *)
AlreadyAppliedFoundIsOk(w) ==
    LET s == job[w].s
        e == job[w].env
    IN
    /\ job[w].at = "caught"
    /\ job[w].cat = "indeterminate"
    /\ ledger[e] \in {"ok", "failed"}
    /\ TransitionReturns(s, "confirmed", e, 0, deadLettered[s])
    /\ job' = [job EXCEPT ![w].at = "release"]
    /\ UNCHANGED <<leaseVars, worldVars, creating, chk, pastVars>>

(* ... indeterminate asks Horizon for the envelope's hash (alreadyApplied) *)
(* and is over if it answers; no record, or no answer, is a Retry or, out  *)
(* of attempts, a GiveUp                                                   *)
AlreadyApplied(w) ==
    LET s == job[w].s
        e == job[w].env
    IN
    /\ job[w].at = "caught"
    /\ job[w].cat = "indeterminate"
    /\ \/ /\ ledger[e] = "ok"
          /\ \/ TransitionReturns(s, "confirmed", e, 0, deadLettered[s])
             \/ TransitionThrows(s, "confirmed")
          /\ job' = [job EXCEPT ![w].at = "release"]
       \/ /\ ledger[e] = "failed"
          /\ FailSettlement(w)
    /\ UNCHANGED <<leaseVars, worldVars, creating, chk, pastVars>>

(* the finally of processSubmittedSettlements *)
Release(w) ==
    /\ job[w].at = "release"
    /\ ReleaseLease(job[w].s, OwnerOf[w])
    /\ job' = [job EXCEPT ![w] = IdleJob]
    /\ UNCHANGED <<rowVars, share, worldVars, creating, chk, pastVars>>

-----------------------------------------------------------------------------
(* Jobs that look a recorded hash up *)

(* the candidate queries: reconcilePendingSettlements, *)
ReconcileCandidate(s) ==
    status[s] \in Reconcilable /\ txHash[s] # None /\ Unleased(s)

(* syncStaleVerifyingSettlements, *)
SyncCandidate(s) ==
    status[s] = "verifying" /\ txHash[s] # None /\ Unleased(s)

(* loadPendingRecords of the transaction reconciliation loop, *)
LegacyCandidate(s) ==
    status[s] \in {"pending", "submitted"} /\ txHash[s] # None

(* and the confirm route finding the settlement in flight, its request     *)
(* carrying an envelope that is still valid                                *)
ApiCandidate(s) ==
    /\ status[s] \in {"confirmed", "submitted", "verifying", "needs_review"}
    /\ txHash[s] # None
    /\ ~ closed[s]

Candidate(kind, s) ==
    \/ kind = "reconcile" /\ ReconcileCandidate(s)
    \/ kind = "sync" /\ SyncCandidate(s)
    \/ kind = "legacy" /\ LegacyCandidate(s)
    \/ kind = "api" /\ ApiCandidate(s)

CheckFetch(c, s) ==
    /\ chk[c].at = "idle"
    /\ Candidate(KindOf[c], s)
    /\ chk' = [chk EXCEPT ![c] =
                 [at |-> IF KindOf[c] \in Leasing THEN "fetched" ELSE "lookup",
                  s |-> s, hash |-> txHash[s], seen |-> status[s],
                  retry |-> retry[s], result |-> "none"]]
    /\ UNCHANGED <<rowVars, leaseVars, share, worldVars, creating, job, pastVars>>

(* claimPendingConfirmation compares the attempt that was read *)
ReconcileClaimable(c) ==
    LET s == chk[c].s IN
    status[s] \in Reconcilable /\ retry[s] = chk[c].retry /\ Unleased(s)

(* claimSettlementForSync compares the hash *)
SyncClaimable(c) ==
    LET s == chk[c].s IN
    status[s] = "verifying" /\ txHash[s] = chk[c].hash /\ Unleased(s)

CheckClaim(c) ==
    /\ chk[c].at = "fetched"
    /\ IF \/ KindOf[c] = "reconcile" /\ ReconcileClaimable(c)
          \/ KindOf[c] = "sync" /\ SyncClaimable(c)
       THEN /\ TakeLease(chk[c].s, OwnerOf[c])
            /\ chk' = [chk EXCEPT ![c].at = "lookup"]
       ELSE /\ chk' = [chk EXCEPT ![c] = IdleCheck]
            /\ UNCHANGED leaseVars
    /\ UNCHANGED <<rowVars, share, worldVars, creating, job, pastVars>>

(* where a job goes when it is done with its row *)
Done(c) == IF KindOf[c] \in Leasing
           THEN [chk[c] EXCEPT !.at = "release", !.result = "none"]
           ELSE IdleCheck

(* stellar.getTransaction: null for a 404, and it throws when Horizon does *)
(* not answer; a read made to verify the payment may throw too             *)
HorizonAnswer(e) ==
    CASE ledger[e] = "ok"     -> "ok"
      [] ledger[e] = "failed" -> "failed"
      [] OTHER                -> "null"

CheckLookup(c) ==
    /\ chk[c].at = "lookup"
    /\ chk' = [chk EXCEPT ![c].at = "write",
                          ![c].result = HorizonAnswer(chk[c].hash)]
    /\ UNCHANGED <<rowVars, leaseVars, share, worldVars, creating, job, pastVars>>

CheckUnanswered(c) ==
    /\ \/ chk[c].at = "lookup"
       \/ /\ chk[c].at = "write" /\ chk[c].result = "ok"
          /\ KindOf[c] \in Leasing
    /\ chk' = [chk EXCEPT ![c] = Done(c)]
    /\ UNCHANGED <<rowVars, leaseVars, share, worldVars, creating, job, pastVars>>

(* a transition whose conflict ends the check like its success does *)
CheckTransition(c, to, n) ==
    LET s == chk[c].s IN
    /\ \/ TransitionReturns(s, to, txHash[s], n, deadLettered[s])
       \/ TransitionThrows(s, to)
    /\ chk' = [chk EXCEPT ![c] = Done(c)]
    /\ UNCHANGED <<leaseVars, worldVars, creating, job, pastVars>>

(* reconcileSingleSettlement on a successful transaction: the memo, the    *)
(* expense and the payment verify ...                                      *)
CheckVerified(c) ==
    /\ chk[c].at = "write" /\ chk[c].result = "ok"
    /\ KindOf[c] \in Leasing
    /\ CheckTransition(c, "confirmed", 0)

(* ... or one of them does not, or a read for them gets no answer (any     *)
(* outcome); and on a failed one                                           *)
CheckRejected(c) ==
    /\ chk[c].at = "write" /\ chk[c].result \in {"ok", "failed"}
    /\ KindOf[c] \in Leasing
    /\ CheckTransition(c, "failed", chk[c].retry)

(* handleTransactionNotFound: older than the pending limit (any time after *)
(* submission; the sync job passes no pendingSince)                        *)
CheckExpires(c) ==
    /\ chk[c].at = "write" /\ chk[c].result = "null"
    /\ KindOf[c] = "reconcile"
    /\ CheckTransition(c, "expired", chk[c].retry + 1)

(* ... out of lookups ...                                                  *)
CheckExhausted(c) ==
    /\ chk[c].at = "write" /\ chk[c].result = "null"
    /\ KindOf[c] \in Leasing
    /\ chk[c].retry + 1 > ReconMax
    /\ CheckTransition(c, "failed", chk[c].retry + 1)

(* ... or one more lookup counted, in an update by id alone                *)
CheckCounts(c) ==
    LET s == chk[c].s IN
    /\ chk[c].at = "write" /\ chk[c].result = "null"
    /\ KindOf[c] \in Leasing
    /\ chk[c].retry + 1 =< ReconMax
    /\ retry' = [retry EXCEPT ![s] = chk[c].retry + 1]
    /\ status' = IF chk[c].seen = "needs_review"
                 THEN [status EXCEPT ![s] = "pending_confirmation"]
                 ELSE status
    /\ refunded' = [refunded EXCEPT ![s] = @ \/ chk[c].retry + 1 < retry[s]]
    /\ chk' = [chk EXCEPT ![c] = Done(c)]
    /\ UNCHANGED <<xdr, txHash, deadLettered, leaseVars, share, worldVars,
                   creating, job, signs, sent, overrun, crashes>>

(* writeStatus of worker/reconciliation.ts: an update by id alone.  The    *)
(* share is settled by a second one.                                       *)
LegacyWrites(c, to) ==
    LET s == chk[c].s IN
    /\ chk[c].at = "write"
    /\ KindOf[c] = "legacy"
    /\ status' = [status EXCEPT ![s] = to]
    /\ UNCHANGED <<xdr, txHash, deadLettered, leaseVars, share, worldVars,
                   creating, job, pastVars>>

LegacyConfirms(c) ==
    /\ chk[c].result = "ok"
    /\ LegacyWrites(c, "confirmed")
    /\ chk' = [chk EXCEPT ![c].at = "share"]
    /\ UNCHANGED retry

LegacySettlesShare(c) ==
    /\ chk[c].at = "share"
    /\ SettleShare(chk[c].s)
    /\ chk' = [chk EXCEPT ![c] = IdleCheck]
    /\ UNCHANGED <<rowVars, leaseVars, worldVars, creating, job, pastVars>>

(* failOrRetry: stellar has no retryTransaction, so it always fails.  A    *)
(* transaction not found fails once TX_TIMEOUT has passed (any time).      *)
LegacyFails(c) ==
    /\ chk[c].result \in {"failed", "null"}
    /\ LegacyWrites(c, "failed")
    /\ retry' = [retry EXCEPT ![chk[c].s] = chk[c].retry]
    /\ chk' = [chk EXCEPT ![c] = IdleCheck]

(* the confirm route on a settlement in flight; errors are swallowed *)
ApiWrites(c) ==
    LET s == chk[c].s IN
    /\ chk[c].at = "write"
    /\ KindOf[c] = "api"
    /\ \/ chk[c].result = "ok" /\ CheckTransition(c, "confirmed", 0)
       \/ chk[c].result = "failed" /\ CheckTransition(c, "failed", retry[s])

(* nothing to write: not visible yet *)
CheckLeaves(c) ==
    /\ chk[c].at = "write" /\ chk[c].result = "null"
    /\ KindOf[c] \notin Leasing
    /\ chk' = [chk EXCEPT ![c] = IdleCheck]
    /\ UNCHANGED <<rowVars, leaseVars, share, worldVars, creating, job, pastVars>>

CheckRelease(c) ==
    /\ chk[c].at = "release"
    /\ ReleaseLease(chk[c].s, OwnerOf[c])
    /\ chk' = [chk EXCEPT ![c] = IdleCheck]
    /\ UNCHANGED <<rowVars, share, worldVars, creating, job, pastVars>>

-----------------------------------------------------------------------------
(* Time, crashes and the network *)

(* leaseExpiresAt passes: on a process that died, or on one still at work, *)
(* which is not told (by default the lease is a minute, the confirmation   *)
(* poll up to two, and only recordAttemptStarted and scheduleRetry renew)  *)
LeaseLapses(s) ==
    /\ lease[s] = "live"
    /\ lease' = [lease EXCEPT ![s] = "lapsed"]
    /\ Driven(s) => overrun[s] < MaxOverruns
    /\ overrun' = [overrun EXCEPT ![s] = IF Driven(s) THEN @ + 1 ELSE @]
    /\ UNCHANGED <<rowVars, claimedBy, share, worldVars, creating, job, chk,
                   signs, sent, refunded, crashes>>

(* recoverStaleSettlements: every lapsed lease of an unresolved row *)
RecoverStale ==
    LET stale == {s \in Settlements : /\ lease[s] = "lapsed"
                                      /\ status[s] \in Submittable \cup Reconcilable}
    IN
    /\ stale # {}
    /\ claimedBy' = [s \in Settlements |-> IF s \in stale THEN None ELSE claimedBy[s]]
    /\ lease' = [s \in Settlements |-> IF s \in stale THEN "none" ELSE lease[s]]
    /\ UNCHANGED <<rowVars, share, worldVars, creating, job, chk, pastVars>>

(* a process dies, or exits without draining: its leases stay *)
CrashJob(w) ==
    /\ job[w].at # "idle"
    /\ crashes < MaxCrashes
    /\ crashes' = crashes + 1
    /\ job' = [job EXCEPT ![w] = IdleJob]
    /\ UNCHANGED <<rowVars, leaseVars, share, worldVars, creating, chk,
                   signs, sent, refunded, overrun>>

CrashCheck(c) ==
    /\ chk[c].at # "idle"
    /\ crashes < MaxCrashes
    /\ crashes' = crashes + 1
    /\ chk' = [chk EXCEPT ![c] = IdleCheck]
    /\ UNCHANGED <<rowVars, leaseVars, share, worldVars, creating, job,
                   signs, sent, refunded, overrun>>

(* isIntentExpired: past expiresAt and the clock skew, hence past maxTime *)
CloseWindow(s) ==
    /\ status[s] # "none" /\ ~ closed[s]
    /\ closed' = [closed EXCEPT ![s] = TRUE]
    /\ UNCHANGED <<rowVars, leaseVars, share, ledger, creating, job, chk, pastVars>>

(* a queued envelope is applied, fails, or never makes it; none applies    *)
(* after its maxTime                                                       *)
LedgerResolves(e) ==
    /\ ledger[e] = "queued"
    /\ \E fate \in IF closed[SettlementOf[e]] THEN {"none"}
                   ELSE {"applied", "failed", "none"} :
          ledger' = [ledger EXCEPT ![e] = fate]
    /\ UNCHANGED <<rowVars, leaseVars, share, closed, creating, job, chk, pastVars>>

(* Horizon shows an applied transaction *)
LedgerShows(e) ==
    /\ ledger[e] = "applied"
    /\ ledger' = [ledger EXCEPT ![e] = "ok"]
    /\ UNCHANGED <<rowVars, leaseVars, share, closed, creating, job, chk, pastVars>>

-----------------------------------------------------------------------------
JobStep(w) ==
    \/ Claim(w) \/ Refuse(w) \/ Prepare(w) \/ BeginAttempt(w) \/ Submit(w)
    \/ Record(w) \/ Poll(w) \/ GiveUp(w) \/ Retry(w) \/ AlreadyApplied(w)
    \/ Release(w)

CheckStep(c) ==
    \/ CheckClaim(c) \/ CheckLookup(c) \/ CheckVerified(c) \/ CheckRejected(c)
    \/ CheckExpires(c) \/ CheckExhausted(c) \/ CheckCounts(c)
    \/ LegacyConfirms(c) \/ LegacySettlesShare(c) \/ LegacyFails(c)
    \/ ApiWrites(c) \/ CheckLeaves(c) \/ CheckRelease(c)

Next ==
    \/ \E s \in Settlements : \/ CreateCheck(s) \/ CreateWrite(s)
                              \/ CreateAborts(s) \/ CreateFreeform(s)
                              \/ LeaseLapses(s) \/ CloseWindow(s)
    \/ \E s \in Settlements, e \in Envelopes : Confirm(s, e) \/ Execute(s, e)
    \/ \E w \in Submitters : \/ \E s \in Settlements : Fetch(w, s)
                             \/ JobStep(w) \/ CrashJob(w)
    \/ \E c \in Checkers : \/ \E s \in Settlements : CheckFetch(c, s)
                           \/ CheckStep(c) \/ CheckUnanswered(c) \/ CrashCheck(c)
    \/ RecoverStale
    \/ \E e \in Envelopes : LedgerResolves(e) \/ LedgerShows(e)

Spec == Init /\ [][Next]_vars

(* The worker loop runs every task each cycle, so a process that can step  *)
(* does; leases and signing windows run out; the network gets round to a   *)
(* queued transaction.  A Horizon that is asked again and again answers.   *)
Fairness ==
    /\ \A w \in Submitters :
          /\ WF_vars(\E s \in Settlements : Fetch(w, s))
          /\ WF_vars(JobStep(w))
    /\ \A c \in Checkers :
          /\ WF_vars(\E s \in Settlements : CheckFetch(c, s))
          /\ WF_vars(CheckStep(c))
          /\ SF_vars(CheckLookup(c))
          /\ SF_vars(CheckVerified(c) \/ CheckRejected(c))
    /\ \A s \in Settlements : WF_vars(LeaseLapses(s)) /\ WF_vars(CloseWindow(s))
    /\ \A e \in Envelopes : WF_vars(LedgerResolves(e)) /\ WF_vars(LedgerShows(e))

FairSpec == Spec /\ Fairness

-----------------------------------------------------------------------------
(* Properties *)

(* Every variable has its type. *)
TypeOK ==
    /\ status \in [Settlements -> RowStatuses]
    /\ xdr \in [Settlements -> Envelopes \cup {None}]
    /\ txHash \in [Settlements -> Envelopes \cup {None}]
    /\ retry \in [Settlements -> Nat]
    /\ deadLettered \in [Settlements -> BOOLEAN]
    /\ claimedBy \in [Settlements -> Owners \cup {None}]
    /\ lease \in [Settlements -> {"none", "live", "lapsed"}]
    /\ share \in [Shares -> {"open", "settling", "settled"}]
    /\ ledger \in [Envelopes -> {"none", "queued", "applied", "ok", "failed"}]
    /\ closed \in [Settlements -> BOOLEAN]
    /\ creating \in [Settlements -> BOOLEAN]
    /\ job \in [Submitters -> Job]
    /\ chk \in [Checkers -> Check]
    /\ signs \in [Settlements -> Nat]
    /\ sent \in [Settlements -> Nat]
    /\ refunded \in [Settlements -> BOOLEAN]
    /\ overrun \in [Settlements -> Nat]
    /\ crashes \in Nat

(* An envelope of this settlement was applied successfully. *)
Paid(s) == \E e \in Envelopes : SettlementOf[e] = s /\ LedgerOk(e)

(* Whatever the interleaving of submitters, reconcilers, routes, crashes   *)
(* and lapsed leases, a settlement reported confirmed was really paid.     *)
ConfirmedIsPaid == \A s \in Settlements : status[s] = "confirmed" => Paid(s)

(* An expense share is only ever marked settled on the strength of a       *)
(* payment for a settlement of that very share.                            *)
SettledShareIsPaid ==
    \A x \in Shares : share[x] = "settled" =>
        \E s \in Settlements : ShareOf[s] = x /\ Paid(s)

(* Leases exclude as long as they last: two processes are at work on one   *)
(* settlement, each between its claim and its release, only in a round in  *)
(* which a lease of it ran out under the process that held it.  Crashes,   *)
(* recovery and the tasks that share one owner id never do that.           *)
OneDriver ==
    \A s \in Settlements : overrun[s] = 0 =>
        /\ \A v, w \in Submitters :
              DrivingJob(v, s) /\ DrivingJob(w, s) => v = w
        /\ \A c, d \in Checkers :
              DrivingCheck(c, s) /\ DrivingCheck(d, s) => c = d
        /\ \A w \in Submitters, c \in Checkers :
              ~ (DrivingJob(w, s) /\ DrivingCheck(c, s))

(* The retry budget is durable: across crashes, adopted leases and workers *)
(* a signed round costs at most MaxAttempts calls to Horizon, because      *)
(* recordAttemptStarted commits before the call.  Three things void it: a  *)
(* tx-status-sync that was slow to claim (claimSettlementForSync compares  *)
(* the hash, not the attempt) puts back the retryCount it read; a round    *)
(* accepted while a job still drives the one before is charged that job's  *)
(* calls; and a lease that runs out in mid-job lets a second job in, whose *)
(* count and the first one's overwrite each other.                         *)
AttemptBudget ==
    \A s \in Settlements : sent[s] > MaxAttempts => refunded[s] \/ overrun[s] > 0

(* A confirmed settlement leaves that status only to an update by id: of   *)
(* the reconciliation loop, or of a reconciler that looked while the row   *)
(* was in review and found nothing.                                        *)
ConfirmedLostOnlyToBlindWrite ==
    [][\A s \in Settlements :
          status[s] = "confirmed" /\ status'[s] # "confirmed" =>
             \E c \in Checkers : /\ chk[c].s = s /\ chk[c].at = "write" /\ chk'[c] # chk[c]
                                /\ \/ KindOf[c] = "legacy"
                                   \/ chk[c].result = "null" /\ chk[c].seen = "needs_review"]_vars

(* Nothing accepted is forgotten: once the payer's envelope is accepted,   *)
(* the worker takes the settlement to a terminal status, through crashes,  *)
(* adopted leases, lost answers and a silent Horizon.                      *)
AcceptedIsResolved ==
    \A s \in Settlements :
        status[s] = "submitted" ~> status[s] \in {"confirmed", "failed", "expired"}
=============================================================================
