# MergePay API: a TLA+ verification project

MergePay is an expense-splitting API (Fastify, Prisma on PostgreSQL) that
settles debts with payments on the Stellar network. An API process takes
requests; worker processes submit the signed payments, poll Horizon and anchors,
send webhooks, and repair what a crash or a silent upstream left behind. Nothing
but the database is shared between them. This directory holds TLA+ models of
that system, the TLC configurations that check them and proofs TLAPS checks.
Paths below are relative to the repository's root; line numbers are in
`PROJECT.json`.

## 1. Inventory

| Component | State it keeps | Operations | Talks to | What makes it correct |
|---|---|---|---|---|
| Settlement machine, `src/services/settlement-machine.ts` | `settlements.status`, history | `applySettlementTransition` | every writer of a settlement | only hops of the table; row and share move together |
| Submission worker, `src/worker/index.ts` | lease, retry count, hash and dead-letter columns | fetch, claim, attempt, submit, poll, retry, release, recover | Horizon, machine | one driver per row while its lease lasts, durable budget, nothing confirmed unpaid, everything resolved |
| Settlement reconciliation, status sync and reconciliation loop, `src/services/settlement-reconciliation.ts`, `src/worker/tasks/tx-status-sync.ts`, `src/worker/reconciliation.ts` | the same columns; treasury intents | look up a hash, confirm, fail, expire, recount | Horizon | same, and no confirmation undone |
| Settlement routes, `src/routes/settlements.ts` | settlement rows, shares | create, freeform create, confirm, execute, list | idempotency, worker (through rows) | nobody pays more than is owed, but through a race |
| Idempotency, `src/services/idempotency.ts`, `src/plugins/idempotency.ts` | `idempotency_keys` | reserve, reclaim, complete, fail, replay | every mutating route; request timeout | at most one commit per key, replay to the same payload only, no wedged key |
| Worker cycle, `src/worker/index.ts`, `src/services/worker-lock.ts` | `worker_locks`, process flags | acquire, recover, run the tasks, drain, release | all jobs | one cycle at a time while the lock lasts, no lease given away sooner |
| Webhooks, `src/services/webhook.ts` | endpoints, deliveries | enqueue, select, claim, send, record, retry | receivers | one sender at a time, within the budget, until the end |
| Anchor sessions, `src/services/anchor*.ts`, `sep24*.ts` | `anchor_sessions` | start, poll, complete, callbacks | SEP-24 anchors | closed as the anchor says, for good; polling ends |
| Withdrawals, `src/routes/withdraw.ts` | `withdrawals` | create, confirm, poll, callbacks | anchors | as anchor sessions |
| Treasury proposals and signatures, `src/services/treasury-proposals.ts`, `treasury-signatures.ts` | proposals, approvals, signatures | propose, sign, send, expire | Horizon | paid on a threshold of distinct signers, no signature lost |
| Treasury transactions, `src/routes/treasury.ts`, `src/services/treasuryService.ts` | intents, balance cache | deposit, withdraw, confirm, sync, reconcile | Horizon | paid once, recorded truly, cache catches up |
| Stellar, Horizon and anchor clients, `src/services/stellar.ts`, `horizon*.ts`, `anchor.ts`, `anchor-circuit.ts`, `retry.ts`, `timeout.ts` | active endpoint, quarantine, breaker, toml cache | call, retry, rotate, break, give up | Horizon, anchors | a write takes effect once; what a caller is told is true |
| SEP-10 and sessions, `src/services/sep10.ts`, `refresh-token.ts` | challenges, refresh tokens | issue, consume, sweep, rotate, revoke | wallets, Horizon | one-time use, reuse detected |
| Groups and invites, `src/routes/groups.ts`, `src/services/access.ts` | members, roles, codes, invitations | guard, join, invite, promote, remove, leave, archive | every group route | an admin remains, limits hold, an archived group is closed |
| Expenses, balances and money, `src/routes/expenses.ts`, `src/services/settlement.ts`, `expense-calculation.ts` | expenses, shares | create, delete, settle, net, suggest, convert | settlements | splits add up, suggestions settle |
| Rate limiting, `src/services/rate-limit-store.ts` | buckets | hit, roll over | routes | the limit under concurrent hits |
| Ledger listing, `src/services/ledger.ts`, `src/lib/pagination.ts` | none (a cursor at the client) | page, merge | three tables | a walk misses and repeats no row |

The hard behaviours: worker processes and API requests interleave at every
database statement (READ COMMITTED, few locks); leases expire by the clock
whether or not their holder has finished; Horizon's answer may be lost while the
payment goes through, and its view lags the ledger; processes die between two
statements; clients and load balancers retry. `PROJECT.json` lists each hazard
with its line and the property aimed at it.

## 2. Modules

| Module | Models | Built on | Checked by | Proved about in |
|---|---|---|---|---|
| `SettlementEngine` | every reader and writer of a settlement, and the network | `SettlementMachine`, the status table | `MCSettlementEngine` | `SettlementEngineProofs` |
| `Idempotency` | one idempotency key and the requests under it | | `MCIdempotency` | `IdempotencyProofs` |
| `TreasuryMultisig` | one multisig proposal, its signers' requests and the network | | `MCTreasuryMultisig` | `TreasuryProofs` |
| `AnchorTracking` | one anchor session or withdrawal, its callers, pollers and callbacks, and the anchor | | `MCAnchorTracking` | `AnchorTrackingProofs` |
| `Auth` | challenges, refresh tokens and the requests that use them | implements `SessionChain`, the abstract session | `MCAuth` | `AuthProofs` |
| `WorkerCycle` | worker processes, the cycle lock, shutdown and restart | `WebhookDelivery`, the queue | `MCWorkerCycle` | `WorkerCycleProofs` |
| `Groups` | one group, its members and codes, and requests in flight | | `MCGroups` | `GroupsProofs` |
| `Ledger` | expenses, shares, settlements and the balances derived | `SplitMath`, the arithmetic | `MCLedger` | `GroupsProofs` |
| `Traffic` | calls out, requests in, listings | `UpstreamCalls`, `RateLimit`, `LedgerFeed` | `MCTraffic` | `TrafficProofs` |
| `TreasuryIntent` | deposits and withdrawals of a treasury, confirm, sync, balance cache | `PaymentEnvelope`, how envelopes are built and judged | `MCTreasuryIntent` | `TreasuryProofs` |

A definition marked `mutant` in a comment is a plausible bug of the operation
next to it. It is part of no specification; putting it in the place of the
operation makes TLC find the property `PROJECT.json` pairs it with violated.

### SettlementEngine

One step is one database statement or transaction, or one call to Horizon.

*State.* `status`, `xdr`, `txHash`, `retry`, `deadLettered`, `claimedBy` and
`lease` are columns of `settlements`; `share` is `expense_shares.status`;
`job[w]` and `chk[c]` are the local variables of a submitter and of a checker,
with the values they read and act on later; `ledger[e]` is the fate of an
envelope: `none`, `queued`, `applied` (on the ledger, not yet visible), `ok`
(visible) or `failed`. An envelope is named by its hash, which is deterministic.

*Actions.* The routes are `CreateCheck`/`CreateWrite`/`CreateAborts`,
`CreateFreeform`, `Confirm`, `Execute`; the submission worker is `Fetch` to
`Release`, in program order; the four jobs that look a hash up share
`CheckFetch` to `CheckRelease`, and differ in their candidate query, in how they
claim and in what they write. `LeaseLapses`, `CloseWindow`, `RecoverStale`,
`CrashJob`, `CrashCheck`, `LedgerResolves` and `LedgerShows` are time, process
death and the network. A lease may lapse at any moment, under the process at work
too, which learns nothing of it; the history variable `overrun[s]` counts how often
that happened in the current round.

*Abstractions.*
- `applySettlementTransition` reads the status and then updates a row still in a
  status the hop is allowed from. Another transaction may commit in between, and
  then it returns without an error and without a change: `TransitionRaced`, which
  may happen whenever the row cannot make the hop.
- The signing window is open or closed (`closed`); it closes at `expiresAt` plus
  the clock skew, which is past the envelope's `maxTime`, so nothing applies after.
- Ages (`pendingSince`, the sync's minimum age, `TX_TIMEOUT`) are any time.
  `nextAttemptAt` is never past the lease written with it and adds nothing.
- Preflight and memo/payment verification give any answer; validation of a signed
  envelope means it belongs to the settlement (`PaymentEnvelope` has the checks).
- A shutdown that drains changes nothing a finished job has not; one that does
  not is a crash, its leases left in place. `WorkerCycle` has the shutdown itself.
- The worker's cycle lock is not used to exclude anything: it lapses as leases do.
- `CONFIRMATION_THRESHOLD` is its default, one.

### Idempotency

*State.* The key row (`keyState`, `keyHash`, `keyResp`), the age of its
`updatedAt` against the in-progress timeout, the layer its scope belongs to
(`layer`, service or plugin, for good), and for each request where it is and what
its client was last told. `done` holds the payloads whose operation committed and
`commits` counts the durable runs, `CommitCap` standing for that many or more. A
payload stands for its hash. Nothing sweeps expired keys, so a row stays.

*Actions.* `Lookup`, `Insert`, `Reclaim`, `Reread` are the reservation, which
both layers share; `Operate` is the wrapped transaction or route; `Record` and
`MarkFailed` are `finalize` in the service and `onSend` in the plugin, and differ
when their own write fails. `Timeout` is the 408 of `request-timeout.ts`: the
handler runs on, and in the plugin `onSend` marks the key failed. A crash, a
failed statement and a commit whose acknowledgement is lost are faults, counted
against `MaxFaults`.

### TreasuryMultisig

Two services run one protocol on different tables: `treasury-proposals.ts` keeps
the signatures it counts in a JSON array of the proposal, next to
`TreasuryApproval` rows (`flow = "array"`); `treasury-signatures.ts` counts
`TreasurySignature` rows (`"rows"`).

*State.* The proposal (`status`, `threshold`, `counted`), the signers with a
committed row (`approvals`), the group's `members` and those who ever left it
(`departed`), and for each sign request, which is a route and one interactive
transaction, where it is, the members the route read (`admitted`), the rows it adds
(`fresh`), the signatures it counts without a row (`rowless`) and those it has
(`tally`). `lock` is the transaction that has updated the proposal row, `network`
and `paidBy` are the proposed payment on the network.

*Actions.* `Create` and `CreateProposal`; `Enter`, the route's read of the
members; `Begin` to `Record` in program order, ending in a commit or a `Rollback`;
`Conflict`, a proposal finished since; `Leave` and `Return` of a member; `Abort`,
the transaction timeout, a lost connection or a dead process; `Expire`, the sweep;
`Die`, an envelope whose time bounds lapse or whose sequence number is used.

*Abstractions.*
- Transactions run at READ COMMITTED, and the `findUnique` a request begins with
  is a plain read: only the final update of the row takes its lock.
- A row another transaction has inserted makes the second insert wait and then
  fail the unique index, which aborts the PostgreSQL transaction.
- Horizon answers a hash it has applied with the first result. If recording the
  result fails, the whole transaction rolls back, the payment does not.
- The transaction reads the approvals and the members in two statements, which are
  one step here.
- Every signer has one unit of weight; the account's signers and thresholds do
  not change meanwhile. A signer stands for member, key and verified signature.
- Expired proposals still accept signatures, as the code's status check has it.

### AnchorTracking

`kind` says which table the record is in. Sessions and withdrawals share their
protocol, and differ in the status table, in the lease (sessions only) and in
what a failed poll writes.

*State.* The row: `status`, `txId` (`externalTransactionId` or `anchorTxId`, with
the token stored beside it), `retry`, `permanent` (`errorCategory`), `waiting`
(`nextAttemptAt` is ahead), `claimedBy`, `lease`. `proc[p]` holds the locals of a
call, a poller or a callback: what it read, the poll's answer, the transition it
asks for. `remote` is what the anchor says of a transaction now, `said` all it
ever said.

*Actions.* `Create`, `StartInteractive`, `StartThrows`, `Started`, `Threw` are
the owner's routes; `Select` to `ReleaseAnchorSession` the worker, in program
order; `Callback` a delivery, of any status the anchor ever gave, any number of
times. The two transition functions are `Ask`, the read and the refusals decided
on it, and `TxnWrite`, the update guarded by the status read (by id alone when
the status was there already): other processes commit between the two.

*Abstractions.*
- A read and the local decision that leads to it are one step.
- A failed poll is `transient` or `rejected`, as `pollTransaction` classifies it,
  the open circuit and the retries inside the call included (`UpstreamCalls`).
- The anchor moves a transaction to statuses it has not had, and leaves a closed
  one only from `error` to `refunded`. Messages and history are left out.
- Only pollers crash explicitly. A request or a callback that dies is one that
  takes no further step, which fairness does not exclude.

### Auth and SessionChain

*State.* A challenge is its `window` (0 before it is built) and, once redeemed,
the row that records when (`row`); `claims` counts how often it let a request
through. The `RefreshToken` table is `born` with `rotated`, `revoked`, `family`,
`parent`, `user` and `expires`; `at`, `about`, `since`, `seen` are the locals of
the requests.

*Actions.* `BuildChallenge`; `Verify` and `AuthenticateSep10` up to the await on
Horizon, `ConsumeChallenge` after it; `IssueRefreshToken`; `CleanupChallenges`;
`ReadToken`, `ClaimToken`, `CommitRotation` for the rotation, whose row lock and
invisibility until the commit are modelled; `ReuseDetected`, `Logout` and
`Revoke` for an UPDATE that finds its rows first and writes them later;
`Abandon`; `Tick`. The await on Horizon lasts `LookupTime` at most, which the
timeouts and retries of the code bound.

*Refinement.* `SessionChain` says what refresh tokens promise of a login: a
session is opened once, has one current token, passes to a token never seen
before, and stays ended. `Auth` maps a session to the live token of its family,
"ended" when there is none. Both TLC (`SessionSpec` as a property of the run
`auth`) and TLAPS (`SessionsRefine`) show that every step of every handler is a
step or a stutter of it.

### WorkerCycle and WebhookDelivery

*State.* Deadlines are the time left: `lease`, `wait` of a delivery, `lockLeft`
of the cycle lock, `jobLeft` of a job. A worker has a `phase`, the state of its
webhook task, the tries of it, and `stopping` once a signal has come; `age` is how
long its cycle has run and `jobAge` how long it has driven its job. `posts` and
`acks` count what a receiver got. The health record of a cycle is left out: only
the health endpoint reads it.

*Actions.* `StartCycle` (the lock), `Recover` (stale leases are freed before any
task runs), `ReadQueue`, `Deliver` (claim, post, record, in `WebhookDelivery`),
`DrainDone`, `TaskThrows` with its in-cycle retry, `TakeJob`/`FinishJob` (a
leased settlement or anchor job, whose inside is `SettlementEngine` or
`AnchorTracking`), `EndCycle`, `Signal`, `ReleaseClaims`, `ExitDrained`, `Exit`
(killed, or the drain budget spent), `Restart`, `Tick`; `Queue` and `Unregister`
are the API. A delivery takes less than its lease (its timeout is shorter); a cycle
and a job need not.

### Groups

A request is a guard (`requireGroupRole` in front of the handler), the reads of
its transaction and its write; anything may commit between them. `saw` is what
the reads found, `live` what the guard saw of `archived`. A join reads the
invitation before its transaction. Only the unique index on members and the keys
of the written rows arbitrate.

### Ledger and SplitMath

*State.* Expense rows with their bill, shares and share statuses; settlements
with payer, payee, amount and outcome; requests between check and write (`call`,
with what they read). Names are the ledger's own (`Parties`, `Handlers`,
`LedgerSpec`), so that one module can prove about groups and their books. How a
settlement is paid is `SettlementEngine`'s subject; here it is confirmed or it
fails.

*Actions.* `CreateExpense`; `DeleteCheck`/`DeleteExpense`;
`SettleCheck`/`SettleShare`; `FreeformCheck`/`FreeformCreate` under
`verifySettlementLimit`; `Confirm`, `Fail`, `WriteFails`. `SplitMath` has the
arithmetic in whole stroops (`computeShares`, `splitExpense`, largest remainders,
conversion with its rounding modes, greedy suggestions), and the invariants
compare it with reference definitions: an exact proportion, a sum, a distance.
The loop of `suggestSettlements` is `Meet`, run for as many turns as there are
members (`Meetings`); that this is enough is part of what is proved. JavaScript's
sort may leave equals in any order, so `Suggestions` is the set of all outcomes.
`expense-calculation.ts` is imported by tests only, `settlement.ts` by the routes;
both are modelled.

### Traffic: UpstreamCalls, RateLimit, LedgerFeed

`UpstreamCalls` has the calls of two clients. A call makes attempts; an attempt
ends with an answer or with its deadline, while the request may still arrive;
`flights` are the requests out, given up or not. Anchor reads go through a
breaker, anchor writes do not retry, Horizon calls rotate over endpoints that are
quarantined when they fail. Of a circuit's past, `streak` is the failures since any
success and `spared` the count the last success left standing, two histories the
code does not keep. `sends` and `landed` count what took effect upstream.
`RateLimit` is the bucket's upsert, with a clock read before it. `LedgerFeed` is
a client that walks the merged listing by cursor while rows are stamped, become
visible later, and are deleted; the tables of a page are read one by one. The
three share no state, so `Traffic` gives each behaviour one of them (`workload`).

### TreasuryIntent and PaymentEnvelope

`PaymentEnvelope` builds an envelope as a record of the fields the code reads, and
judges a signed one with the checks of the code in their order; the first that
fails names the refusal. Amounts are a whole part, an exponent and digits:
`NormalizeAmount` pads and cuts the digits as the code does, `DecimalText` is what
Prisma's `Decimal.toString` gives back for a stored one, exponent notation below
ten stroops included, and `OnTheWire` what an envelope carries. `TreasuryIntent`
has the routes: a creation reads the group and fixes the deadline (`Deposit`,
`Withdraw`), awaits Horizon, and then builds the envelope by a later reading of
the clock and writes the row (`CreateIntent`), unless Horizon or the transaction's
timeout ends it (`AbandonIntent`); then `Enable`, `OpenConfirm`, `SubmitConfirm`,
`CommitConfirm`, `RollBackConfirm`. There are wallets that pay without the API,
the status sync (`SyncLoad` to `SyncVerify`, with failing and lagging reads) and,
for each worker, the balance cache (`ReconcileLoad` from Horizon, `ReconcileFetch`
of the cached row, `ReconcileWrite`), whose runs overlap. A client may send the
issued envelope with any of several signature lists or with one field changed. The
network accepts an envelope within its time bounds, at the account's next sequence
number and with signatures of the account's signers.

## 3. Runs

| Run | Instance | Shows |
|---|---|---|
| `engine_paid` | two creations of one share under one key, two envelopes, a submitter, the reconciliation task, the loop and a repeated confirm; two leases of a round lapse in mid-job | `ConfirmedIsPaid`, `SettledShareIsPaid`, `ConfirmedLostOnlyToBlindWrite` |
| `engine_leases` | a freeform settlement, submitters of two processes, reconciliation, sync, a crash, a lease that lapses in mid-job | `OneDriver`, `AttemptBudget`, `AcceptedIsResolved` |
| `key` | either layer, three requests of two payloads, a fault, a 408 | `CommitsAreBought`, `RepliesAreHonest`, `EventuallyServed` |
| `treasury` | either service, three signers, three requests (one with two signatures), thresholds 1 and 2, a fault; or two requests and a signer who leaves the group and returns | `PaidByThreshold`, `ApprovalLostOnlyToRace`, `SignedIsSent` |
| `anchor` | a session or a withdrawal, two calls, two workers, callbacks, a crash, two attempts | `ClosedAsReported`, `SessionStaysClosed`, `WithdrawalLostOnlyToDeadLetter`, `PollingEnds`, `StrandedOnlyByCrash` |
| `auth` | two challenges, two requests, three tokens, four ticks | `OneLoginPerChallenge`, `SessionSpec` (the refinement) |
| `worker` | two workers, a delivery of two attempts, a job, a lease of two ticks, a fault | `LeasesHold`, `PostedUnderClaim`, `DeliveryEnds`, `JobIsFreed` |
| `groups` | three users, two requests, a code for one use | `LastAdminNeedsRace` |
| `ledger` | three users, four bills of every split kind, two assets, up to two expenses and two settlements (three rows in all), two requests | `LedgerTypeOK`, `MoneyIsConserved`, `SuggestionsSettle`, `PaidShareLostOnlyToRace`, `OverSettlementNeedsRace` |
| `ledger_books` | the same | a counterexample to `BooksNet` (below) |
| `traffic` | five workloads: up to three calls over two endpoints, five requests on one bucket, walks over four rows | `TypeOK`, `WriteTakesEffectOnce`, `FailoverIsSound`, `BreakerIsSound`, `LimitIsFair`, `WalkIsComplete` |
| `intents` | one intent of 1.50 or of three stroops (a stroop is a hundredth here), two treasury accounts, two co-signers, a fault, two reconfigurations; four workloads: two confirm requests, one with a longer clock, one of few stroops, two reconcilers | `PaidAsAgreed`, `OutcomeIsTrue`, `IssuedIsAccepted`, `PaidIsRecorded`, `CacheCatchesUp` |

The properties named `...LostOnlyTo...` and `...Needs...` are about what the code
does not prevent: they say by which interleaving a value is lost, and that there
is no other way. The next section tells each loss.

*Bounds.* Two envelopes of one settlement are what a stale envelope or a stale
hash needs; two settlements of one share are what a double creation needs; two
attempts separate the first from the last; a crash leaves a lease behind, and a
lease that lapses in mid-job lets a second driver in. `MaxSigns` bounds how often
a failed settlement is signed: twice in `engine_paid`, once in `engine_leases`,
where rounds signed again are left to the proofs of `OneDriver` and
`AttemptBudget`, which bound nothing. For a key, two requests of one payload race
each other and a third is bound to another payload. For a proposal, two signers
can miss each other's signature and a third request can complete either. For an
anchor record, one transaction is opened, so that a second call is one that fails
or comes late; records rebound to a second transaction are covered by the
theorems. For tokens, three are a login, a rotation and a reuse or a second login,
and two requests are what a race needs; the clock ends after the windows, the
sweep and the lifetimes have passed, and `AuthProofs` holds for any. A lease of
two ticks lets a cycle outlive it and a delivery not. In a group, two requests are
what a stale count needs, and a third user is the one who remains. Bills are
chosen for remainders: a division with a rest, percentages with a tie, percentages
whose rounding does not add up, a single debtor; three rows are two expenses and a
settlement, or an expense and two settlements, and two requests race each other.
The breaker opens after two failures and needs a third call to probe it; a bucket
with a limit of one and five requests shows two rollovers; four rows in three
tables and pages of one and two show equal timestamps across tables. For an
intent, one is enough since rows do not share state but the sequence number, which
wallets also take; the transaction's timeout and the clock skew are one tick each,
so an envelope may outlast its row's deadline by what the skew tolerates, and two
workers are what overlapping reconciliations need. A member who leaves between the
route's read and the transaction's needs one request that carries it and a second
one beside it. `sent` and `commits` are histories that saturate. Symmetry is used
in `auth` (requests, tokens, challenges), `groups` (requests, users but the
creator), `ledger` (requests) and `traffic` (calls), where no property is a
liveness property.

*Deadlock* is checked for the key. A settlement that is resolved, a proposal that
is dead, a record that is closed and a clock at its bound have nothing left to do.

*Fairness.* `engine_leases`: a worker that can step does (the loop runs every task
each cycle), leases and windows run out, the network gets round to a queued
transaction, and, as strong fairness, a lookup repeated forever is answered some
time. `key`: requests run to their end, clients send again, an abandoned key ages,
and an operation run again and again commits some time. `treasury`: signers send
again, a request gets its turn at the row lock, and an envelope sent again and
again is accepted unless it is dead. `anchor`: workers poll every cycle and finish
their polls, backoffs and leases run out; no call, callback or move of the anchor
need happen. `worker`: the loop re-arms its timer, tasks of a cycle go on, a
process that has exited is started again, time passes; nothing is assumed of
receivers and signals. `intents`: the sync and each worker's reconciliation go on;
users, wallets, the network and the clock owe nothing. Faults are finitely many
everywhere.

### Where the code and its documentation differ

`ledger_books` ends in a counterexample: `computeNetBalances` skips a settled
share and then also counts the confirmed settlement that settled it, so a paid
share leaves the balance twice, though the comment above it says that confirmed
settlements "net the books" (`src/services/settlement.ts:251`).

The following were met while modelling. The models contain them, and the
properties above are stated around them:

*Settlements.*
- The confirmation poll may run for 111 s under a lease of 60 s that is renewed
  only when an attempt starts, and two workers then drive one row; the comment at
  `src/worker/index.ts:8` and the README's line 406 say that "two processes can never
  drive the same settlement transition". `OneDriver` and `LeasesHold` say that a
  lease that ran out under its holder is the only way to it, and `ConfirmedIsPaid`
  that nothing is confirmed unpaid even then.
- The recount of `settlement-reconciliation.ts:337` and the loop's write of
  `worker/reconciliation.ts:174` are updates by id; they overwrite a confirmation
  made meanwhile by the confirm route, which takes no lease, though line 344 says
  the lease "already excludes concurrent writers". `ConfirmedLostOnlyToBlindWrite`
  says that nothing else does.
- Three ways past the retry budget: a lease that lapses in mid-job lets a second
  job in, and the counts of the two overwrite each other; a status sync that was
  slow to claim, whose claim compares the hash and not the attempt
  (`tx-status-sync.ts:236`), puts back the retry count it read
  (`settlement-reconciliation.ts:337`); and a round accepted while a job still
  drives the one before is charged that job's calls. `AttemptBudget` says that
  there is no other: crashes do not do it.
- Two creations for one share under different keys, or none, are both signed and
  paid; `prisma/schema.prisma:173` says the unique index prevents it.
- The worker's claim compares status and retry count, which a re-signed
  settlement returns to, so a replaced envelope may be submitted; `deadLetteredAt`
  survives a new signing.
- A dropped connection is classed `transient` and retried without the lookup the
  README promises (`job-retry.ts:145`).
- A creation may turn a share settled meanwhile back to settling, an expired
  intent is failed, not `expired`, with its share kept, and a failed settlement
  leaves its share `settling`.

*Idempotency.*
- Commit and completion of a key are two transactions: a crash between them lets
  the operation commit again, though `idempotency.ts:38` calls the takeover safe.
  `CommitsAreBought` says that each further commit costs a fault.
- The 408 of a slow request frees the plugin's key while the handler runs on.
  Expired keys are swept by nobody.

*Treasury.*
- Two signers at once: the array is read without a lock and written back whole, so
  an approval is on record and never counted, though `treasury-proposals.ts:244`
  speaks of `SELECT ... FOR UPDATE`. `ApprovalLostOnlyToRace` bounds it.
- A signer who is removed from the group after the route read its members
  (`routes/treasury-proposals.ts:153`) and before the transaction reads them again is
  counted without an approval row (`treasury-proposals.ts:446`).
  `CountedOnlyWhenApproved` and `DoneOnlyWhenBacked` say that nobody else is.
- An amount below ten stroops reads back from the database as "1e-7" to "9e-7". The
  confirm route compares it with the envelope's and refuses what the API itself
  issued (`routes/treasury.ts:545`), and the status sync, once a wallet has paid it,
  marks the paid row failed (`tx-status-sync.ts:464`). `IssuedIsAccepted` and
  `OutcomeIsTrue` exempt these amounts and no others.
- A sign request that read a proposal before it was sent writes
  awaiting-signatures over the final status (`treasury-signatures.ts:402`).
- The confirm route writes "failed" and its audit record inside the transaction it
  then aborts, so only the status sync ever stores "failed".
- The threshold and the account are read before the transaction. A replaced
  treasury account makes open intents unconfirmable. Unpaid intents that expire
  stay pending for good.

*Anchors.*
- A crash between the last count and the dead letter leaves an open withdrawal
  that no job selects (`StrandedOnlyByCrash`), though the README's line 421 says
  otherwise. A session is also left so when a callback moves it under its last
  poll: the dead letter expects the status that poll read.
- The dead letter of a withdrawal is written by id over what a callback wrote
  (`WithdrawalLostOnlyToDeadLetter`), though `worker/index.ts:1541` says every
  write is guarded.
- A second complete or confirm call binds the record to a second transaction at
  the anchor, and a second confirm whose upstream call fails marks a processing
  withdrawal failed. A withdrawal's `retryCount` is not reset by a successful
  poll, a session's is.
- `POST /webhooks/sep24` and `/sep24/callback` reach sessions only.

*Groups.*
- The comments of `groups.ts` say that races cannot leave a group without an
  admin. At READ COMMITTED two admins who leave or demote each other at once do,
  and so does a sole admin who leaves while someone joins; the PATCH alias has no
  check at all. `LastAdminNeedsRace` says that there is no other way.
- A code's use limit can be passed by joins that overlap
  (`LimitPassedOnlyByRaces` says by how many). A join does not look at `archived`,
  though the comment of the invite guard says new members "would reopen a closed
  group". Nothing accepts a direct invitation.

*Ledger.*
- Percentages are accepted with a tolerance and rounded one by one, and the first
  participant takes the difference, which can be negative.
- The settle route takes another asset than the bill's and still settles the
  share; `verifySettlementLimit` nets across assets, on rows it does not lock.
- A delete checks for settled shares only, not for settling ones, and the
  settlement of a deleted expense stays without a share.

*Calls, limits and lists.*
- "Each endpoint is tried at most once per call" (`withHorizonFailover`) fails when
  the active endpoint is quarantined at the start; a submission that timed out at
  one endpoint goes on to the next, which may answer `tx_bad_seq`, and a payment
  that was made is reported rejected. `FailoverIsSound` says that this needs the
  rotation.
- `anchor-circuit.ts:6` and `config.ts:454` say that the circuit opens after
  consecutive failures. `recordSuccess` leaves the count of a closed circuit alone
  (line 71), so failures far apart add up and open it; and once half-open it admits
  every call (line 86) and no failure opens it again. `BreakerIsSound` says that as
  many consecutive failures as the threshold do open it, that fewer do so only after
  a success that spared older ones, and that a read is turned away only after as
  many failed. The limiter admits everybody when its store fails, and a route
  with a policy of its own does not run the global one.
- The history route applies its offset to each table, not to the merged list; rows
  stamped before a walk passed and committed after are missed by an ascending one.

*Sessions.* The UPDATE that revokes a family can miss a successor inserted after
it began; `SessionChain` allows for it, since the session then still has one
current token.

## 4. Proofs

For every value of the constants, from the named assumptions on them only.

`SettlementEngineProofs`, from `ConstantsAssumption`:
- `TypeCorrect`; `EnvelopesNeverCross`: no row, job or check ever holds an
  envelope or a hash of another settlement.
- `ConfirmedOnlyWhenPaid` and `SettledOnlyWhenPaid`: two properties of
  `engine_paid`.

`ConfirmedIsPaid` is not inductive: a checker may confirm a row from a lookup it
made many steps ago. The invariant `IInv` adds that every hash held anywhere is
one of the settlement it is held for (`EnvelopesMatch`), and that an answer a
checker still holds is true of the ledger (`AnswersHold`), which is stable since a
successful transaction stays one. The step lemmas go by process: transitions, jobs,
checks, world.

- `StatusMovesByTheMachine` and `ConfirmedIsLostOnlyBlindly`, two action
  properties, whatever leases do: each step is matched with a hop of the table, a
  creation, an accepted envelope or an update by id. They need little more than
  types: a creation in flight has no row yet, a checker always has one
  (`RowsExist`).
- `LeasesExclude` and `RetryBudgetIsDurable`, for any lease, any number of lapses
  and of signed rounds. `LeaseInv`: as long as no lease of the round has run out
  under its holder, whoever drives a row has its lease live, which keeps a second
  claim away; a new round starts with a clean record only if nobody drives the old
  one. `BudgetInv` compares three counters that move at different steps: the calls
  of a round (`sent`), the row's retry count, and the attempt of the job between
  claim and outcome; they agree as long as the row is open, unless `refunded` has
  been set or a lease has been overrun.

`IdempotencyProofs`, from `KeyAssumption`:
- `TypeCorrect`, `RepliesHonest`: both layers, any faults, timeouts and overruns.
  `BoundInv` adds that whoever holds the key holds it for the payload the row is
  bound to, and that a request about to record has committed.
- `ServiceExcludes`: for the service, if no request outlives its reservation.
  `SoleInv` adds that a held reservation is fresh, so nobody reclaims it.
- `CommitsWithinBudget`: one commit, and at most one more for each fault and, in
  the plugin, each 408, under the same assumption. `BudgetInv` counts the commits
  together with the requests that may still commit, and keeps one in hand while
  the key is open to another.

`TreasuryProofs`, of `TreasuryMultisig`, from `TreasuryAssumption`, for any number
of signers and requests: `TypeCorrect`, `PaidOnlyByThreshold`,
`DoneOnlyWhenBacked`, `CountedOnlyWhenApproved`. `CollectInv` adds that what a
transaction has tallied is committed or among its own new rows (`TallyBacked`) and
that one about to send has enough (`SentIsFull`), which a decision taken on an old
read needs; who is tallied without a row has left the group (`departed`).
`ApprovalsAreLostOnlyToRaces`, an action property: what a transaction adds itself
is in its tally (`FreshIsTallied`), so that the approval a commit drops is
another's, and younger than its read.

`TreasuryProofs`, of `TreasuryIntent` and `PaymentEnvelope`, from
`IntentAssumption`, `EnvelopeAssumption` and, for the last theorem,
`TimeoutAssumption`, for any number of intents, requests, accounts, co-signers and
reconcilers and any amounts the API accepts:
- `PaymentsAreAsAgreed`, `OutcomesAreTrue` and the action property
  `OutcomesAreFinal`, from `IntentInv`. The network has included nothing but issued
  envelopes (`IncludedIsIssued`), and each once, because the sequence number of an
  included one is used up (`SequenceIsUsed`, `IncludedOnce`); an issued envelope
  carries its intent's code, so its entry is the only one that can pay the intent.
  A row with an outcome has the entry that shows it (`OutcomeIsIncluded`), a
  request about to send holds the row's own envelope with enough co-signers
  (`RequestsJudged`), and what the sync has found is there (`SyncFound`).
- That the sync finds a payment to be the row's needs what an amount becomes on its
  way to the network and through the database: trimming and padding cancel out
  (`TrimmedFraction`, `WireAmount`, `JudgedAmount`), but for a few stroops.
- `IssuedAreAccepted`: every check of the confirm route and of the proposal policy,
  one by one, of the envelope the API built. The envelope's window is counted from a
  later reading of the clock than the row's deadline; the check tolerates the
  difference because the creation's transaction times out before the skew is used up
  (`TimeoutAssumption`: 15 s against 30 s, which leaves room for the rounding of
  milliseconds to seconds). Lists of checks pass together exactly
  when each does (`BothPassing`), and the first that fails is well defined because
  a set of indices has a least one (`NoneIsPassing`).

`AnchorTrackingProofs`, from `TrackingAssumption`, for any number of calls,
workers, callbacks and transactions:
- `TypeCorrect`, `ClosedOnlyAsReported`, `BudgetIsKept`, from `TrackInv`: an
  answer or a transition a process still holds is one the anchor did give
  (`ProcsOK`), what the anchor says it has said (`RemoteIsSaid`), the count a
  process read is below the maximum, and a row at the maximum is marked
  permanent (`SpentIsPermanent`).
- `SessionsStayClosed`, an action property: a guarded write asks for a hop that
  was allowed from the status it is guarded by, and a closed status has none but
  error to refunded.
- `WithdrawalsStayClosed`, the same for withdrawals but for the dead letter, which
  is of a poll that read the row open (`ReadProcessing`).
- `GivenUpIsBeingClosed`: as long as no worker has died, a withdrawal marked out of
  retries is closed or its dead letter is still to be written. A write in flight
  that marks it fails it too, and one that found it closed finds it so later
  (`WritesGiveUp`), since a closed withdrawal stays closed (`ClosedStays`).
- `SessionsHaveOnePoller`, if no poll outlives its lease: a poller between claim
  and release is the live lease's owner (`HoldsLease`).

`AuthProofs`, from `AuthAssumption`, for any number of challenges, tokens and
requests and any end of the clock:
- `AuthTypes`, and `LoginOnce`. That a challenge logs in once rests on the timing:
  a redeemed row is there for as long as the window is open or a request that
  found it open may still insert (`RecordOutlivesChallenge`), because the sweep
  waits for skew, grace and retention, and these exceed what a lookup may take
  (`LookupTime + Jitter <= Grace + 1`, `Validity + Skew + LookupTime + Jitter <=
  Retention`). `ChallengeInv` ties the time a request read to the clock.
- `TokenExchangedOnce` and `SessionsRefine`. `TokenInv` says that a family has at
  most one live token, that a rotation between claim and commit holds the only
  lock on a token that is live, and that no successor belongs to a token that has
  not rotated. `HeadIs` computes the mapped session, and one lemma each shows that
  issuing opens, rotating passes on, and revoking ends sessions.

`WorkerCycleProofs`, from `DeliveryAssumption` and `CycleAssumption`, for any
number of workers, deliveries and faults and any length of a lease:
- `WorkerTypes`, `LeasesKeepApart`: a cycle younger than the lease owns the lock,
  and the lock's time left is what the cycle's age leaves of it (`LockInv`); a
  worker drives a job under a lease with time left, in its tasks (`JobInv`), so
  neither recovery nor a shutdown's release can take it before that time is over.
  Nothing is assumed of how long a job takes.
- `DeliveryHasOneSender`, `EndedStaysEnded`: who posts a row that still exists
  holds its claim, with time left, and the row is pending (`ClaimHeld`); the
  outcome, though written by id alone, is therefore written over nothing else.
- `PostedWithinBudget`, for finitely many workers: for each row the posts are the
  attempts recorded, the one in flight and the answers that were lost, and each of
  those has cost a fault that is not the signal of a worker still stopping
  (`SentInv`).

`GroupsProofs`, for groups, from `GroupsAssumption`, for any number of users and
requests: `GroupTypes`, `LimitPassedOnlyByRaces` (the members a code let in are
its uses, and these and the joins still in flight stay below the limit plus the
requests, by counting them together), `LastAdminLostToRaces` and `ArchivalCloses`,
two action properties.

`GroupsProofs`, for the books, from `SplitMathAssumption`, `LedgerAssumption`
(finitely many parties and rows, at least one party, positive amounts) and
`BillsAssumption` (what the schema of the create route lets through), for any
parties, assets, bills, rates and requests:
- `LedgerTypes`, from `LedgerInv`. A row's shares are the split of its bill; a
  settlement is of a share that is there, or of none; and a request in flight holds
  what its checks said of the row it is about, if the row is still there
  (`CallSane`). Without the last part the invariant is not inductive: `SettleShare`
  writes an amount and a payer its check looked at, a step earlier.
- `PaidSharesAreLostToRaces`, `OverSettlementsAreRaces`: two action properties of
  the run. A settled share is lost to a request that read it unsettled; a debt goes
  below zero only if it changed since it was read, because a row written adds its
  amount, which is at most what was read, to `Moved` one way and nothing the other
  way (`MovedGrows`).
- `LedgerConservesMoney`. `FixRemainder` makes any rounding exact
  (`FixRemainderExact`). For largest remainders (`Apportioned`): the remainders add
  up to a multiple of the divisor below their number times the divisor, so what is
  missing is at most the number of entries, and as many entries have fewer than m
  ahead of them as m says (`RankCount`, the order being strict and total). The
  breakdown is a table summed by rows and by columns (`SumSwap`), and a share of a
  party not on the bill does not exist (`SumByWho`). `Rounding` brackets the
  quotient in the three modes.
- `LedgerSuggestionsSettle`: "at most (n-1) transfers that zero all balances"
  (`src/services/settlement.ts`, above `suggestSettlements`), for every n. The
  balances of an asset add up to zero (`NetsBalance`). The loop keeps `MeetInv`:
  before the place reached in each list nothing is left and from there on
  something, what is left is the balance less what the transfers moved and the same
  on both sides, and every turn adds a transfer and moves on in a list, the last
  one in both. So when one list is used up the other is (`NothingLeft`), after fewer
  turns than there are members.

`TrafficProofs`, from `UpstreamAssumption`, `LimitAssumption` and `FeedAssumption`:
- `WritesTakeEffectOnce`, `FailoverSound`, `BreakerSound`, for any number of calls,
  endpoints and attempts, from `CInv`: what a call has sent, what of it may still
  land and what has landed make up at most one effect (`PostOnce`, `SubmitOnce`),
  and a run of the rotation knows whom it has asked (`RunNoted`).
- `LimiterIsFair`, for any limits, window and clock. The bucket forgets, so
  `Accounts` says that every admission can be filed under the opening of some
  window: openings lie a window apart, each has at most the limit under it and was
  the clock reading of one of its own requests. Within one window's time at most
  three openings are met, and of the first its founder lies before.
- `WalksAreComplete`, for any rows, tables and page sizes. A window a page has read
  is the first rows of its table beyond the cursor (`WindowIsFirst`), so what it
  leaves out comes after what it holds; the merged page is the least rows of the
  windows, and the cursor is the last of them (`CursorIsLast`).
- `TrafficIsTyped`, of the three together.

Inductions over numbers and finite sets are done as arguments about a least
counterexample (`LeastIndex`, and its like in `TrafficProofs`), for which the
library's theorem on well-founded relations takes a set and no operator. The same
form (`FiniteInduction`, over the subsets of a finite set; `UpTo`, over the turns of
a loop) gives what the library's folds compute for every input: `SumFunctionOnSet`
is a CHOOSE of a recursive function, which exists (`SumsExist`), is unique
(`SumsUnique`) and so satisfies its recursion (`SumStep`); everything else about sums
follows from that.

### Only model-checked

Liveness: the prover has no fairness and no ENABLED (`AcceptedIsResolved`,
`EventuallyServed`, `SignedIsSent`, `PollingEnds`, `DeliveryEnds`, `JobIsFreed`,
`StrandedOnlyByCrash`, `PaidIsRecorded` and `CacheCatchesUp`). Of some of them the
safety half is proved: `GivenUpIsBeingClosed` (nobody takes the dead letter from the
worker that owes it), `EndedStaysEnded` for `DeliveryEnds`, `OutcomesAreFinal` for
`PaidIsRecorded`. Every other property of the passing runs is stated by a theorem.

## 5. Plan

Modelled: settlements, idempotency, treasury signing and treasury transactions,
anchor sessions and withdrawals, logins and sessions, the worker's cycle and the
webhook queue, groups, expenses and balances, the clients, the limiter and the
ledger listing; a refinement for the sessions. Next, in this order:

1. Abstract specifications of a payment on m of n signatures and of an operation
   at most once, implemented by `TreasuryMultisig` and `Idempotency`.
2. Signers and thresholds that change under an open proposal; weights.

## 6. Not modelled

`components` in `PROJECT.json` says for each part what is left out. In short:

- Audit log and status history: append-only, and nothing modelled reads them.
- Validation, schemas, serialisation: stateless. Server, logging, configuration,
  uploads, exchange rates: I/O; configured times and limits are constants here.
- Code nothing calls: `worker/expireSettlementIntents.ts`,
  `worker/tasks/balance-sync.ts`, `worker/processPendingTreasuryMultisig.ts`,
  `routes/sep10.ts`, `trackSep24TransactionStatus`, the older cleanup functions of
  challenges and refresh tokens, the sweep of idempotency keys.
- XDR bytes and cryptography: an envelope is a record, a signature the key it
  verifies under. The spending policy of proposals.
- Webhook registration, and the branch for a disabled endpoint, which no route can
  make; a worker that stalls for longer than a lease in the middle of a delivery.
- Batch sizes. The status sync's bounded batch can be filled by rows that stay
  pending for good, and a paid row behind them is then not looked up; many rows
  would be needed to show it.
- Who may confirm an intent or delete an expense; the edit of an expense's or a
  group's texts; the read routes; offset pages.
- Treasury rows written before the intended hash was stored.
- A database error between the two writes by which a withdrawal is given up: it
  strands the record as a crash there does (`StrandedOnlyByCrash`).
- The rate limiter's store in memory, the default: `LimitIsFair` is about the store
  in the database.
- Jitter of the clocks beyond `LookupTime + Jitter <= Grace + 1`, which the defaults
  meet narrowly and `OneLoginPerChallenge` rests on.
