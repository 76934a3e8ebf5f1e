--------------------------- MODULE AnchorTracking ---------------------------
(***************************************************************************)
(* One record of a SEP-24 transfer and everyone who writes it: the route   *)
(* that starts the interactive flow (complete of an anchor session,        *)
(* confirm of a withdrawal), the worker that polls the anchor, and the     *)
(* anchor's callbacks.  kind tells which of the two tables the record is   *)
(* in: their code is the same except for the status table, the lease and   *)
(* what a poll that failed writes.                                         *)
(*                                                                         *)
(* applyAnchorSessionTransition and applyWithdrawalTransition read the row *)
(* and later update it on condition that the status is still the one read; *)
(* these are two steps, Ask and TxnWrite, and any process may commit       *)
(* between them.                                                           *)
(***************************************************************************)
EXTENDS Naturals, FiniteSets

CONSTANTS
    Calls,          \* complete or confirm requests of the owner
    Pollers,        \* worker processes
    Hooks,          \* deliveries of a callback being handled at one time
    Txs,            \* transactions the anchor may open
    Reports,        \* the statuses the anchor may give each of them
    None,
    MaxAttempts,    \* ANCHOR_RETRY_POLICY.maxAttempts
    MaxCrashes,
    LeaseOutlivesPoll

Procs == Calls \cup Pollers \cup Hooks

(* The intermediate statuses are Pending and pending_user_transfer_start,  *)
(* to which no other returns.  "other" is any status outside the SEP-24 set *)
Pending == {"pending_user", "pending_transaction_info_update",
            "pending_receiver", "pending_sender", "pending_stellar",
            "pending_trust", "pending_anchor"}
Failures == {"error", "expired", "no_market", "too_small", "too_large"}
Open == Pending \cup {"incomplete", "pending_user_transfer_start"}
SessionClosed == Failures \cup {"completed", "refunded"}
Sep24Statuses == Open \cup SessionClosed
WithdrawalClosed == {"completed", "failed", "expired", "refunded"}

ASSUME TrackingAssumption ==
    /\ Calls \cap Pollers = {} /\ Calls \cap Hooks = {} /\ Pollers \cap Hooks = {}
    /\ Reports \in [Txs -> SUBSET (Sep24Statuses \cup {"other"})]
    /\ None \notin Txs /\ None \notin Pollers
    /\ MaxAttempts \in Nat \ {0}
    /\ MaxCrashes \in Nat
    /\ LeaseOutlivesPoll \in BOOLEAN

VARIABLES
    kind,
    \* the row: txId is externalTransactionId or anchorTxId, with the token
    \* that came with it; permanent: errorCategory; waiting: nextAttemptAt is
    \* still ahead
    status, txId, retry, permanent, waiting, claimedBy, lease,
    \* the local variables of each process
    proc,
    \* the anchor: what it last said of a transaction, and all it ever said
    remote, said,
    crashes

leaseVars == <<claimedBy, lease>>
jobVars   == <<retry, permanent, waiting>>
anchorVars == <<remote, said>>
vars == <<kind, status, txId, jobVars, leaseVars, proc, anchorVars, crashes>>

Statuses == Sep24Statuses \cup WithdrawalClosed
              \cup {"none", "pending", "processing"}
Closed == IF kind = "session" THEN SessionClosed ELSE WithdrawalClosed

(* at: where it is; tx: the transaction it started, polls or was called    *)
(* about; was, count: the status and retryCount it read; res: the poll's   *)
(* answer; to, extra: the transition it asked for; seen: the status that   *)
(* transition read                                                         *)
Idle == [at |-> "idle", tx |-> None, was |-> "none", count |-> 0,
         res |-> "none", to |-> "none", extra |-> "none", seen |-> "none"]

Proc == [at : {"idle", "started", "threw", "claim", "poll", "got", "dead",
               "write", "release"},
         tx : Txs \cup {None}, was : Statuses, count : Nat,
         res : Sep24Statuses \cup {"other", "none", "transient", "rejected"},
         to : Statuses, extra : {"none", "bind", "reset", "dead"},
         seen : Statuses]

Init ==
    /\ kind \in {"session", "withdrawal"}
    /\ status = "none" /\ txId = None
    /\ retry = 0 /\ permanent = FALSE /\ waiting = FALSE
    /\ claimedBy = None /\ lease = "none"
    /\ proc = [p \in Procs |-> Idle]
    /\ remote = [t \in Txs |-> "none"]
    /\ said = [t \in Txs |-> {}]
    /\ crashes = 0

Be(p, r) == proc' = [proc EXCEPT ![p] = r]

-----------------------------------------------------------------------------
(* The status tables and the two transition functions *)

SessionHops(from) ==
    CASE from = "incomplete" ->
            {"pending_user_transfer_start"} \cup Pending \cup Failures
      [] from \in Pending \cup {"pending_user_transfer_start"} ->
            (Pending \cup SessionClosed) \ {from}
      [] from = "error" -> {"refunded"}
      [] OTHER -> {}

WithdrawalHops(from) ==
    CASE from = "pending"    -> {"processing", "failed", "expired"}
      [] from = "processing" -> WithdrawalClosed
      [] OTHER -> {}

CanTransition(from, to) ==
    to \in IF kind = "session" THEN SessionHops(from) ELSE WithdrawalHops(from)

(* the caller goes on: a poller of a leased session releases it *)
Returns(p) ==
    Be(p, IF p \in Pollers /\ kind = "session"
             THEN [Idle EXCEPT !.at = "release"] ELSE Idle)

(* p asks for a transition: the read, and the refusals decided on it; exp  *)
(* is expectedCurrentStatus, or "any"                                      *)
Ask(p, to, exp, extra) ==
    IF \/ to = status /\ extra # "none"
       \/ CanTransition(status, to) /\ exp \in {"any", status}
       THEN Be(p, [Idle EXCEPT !.at = "write", !.tx = proc[p].tx, !.to = to,
                               !.extra = extra, !.seen = status])
       ELSE Returns(p)

(* what is written beside the status *)
WriteExtra(p) ==
    LET extra == proc[p].extra IN
    /\ txId' = IF extra = "bind" THEN proc[p].tx ELSE txId
    /\ retry' = IF extra \in {"reset", "dead"} THEN 0 ELSE retry
    /\ permanent' = IF extra = "reset" THEN FALSE
                    ELSE IF extra = "dead" THEN TRUE ELSE permanent
    /\ waiting' = IF extra \in {"reset", "dead"} THEN FALSE ELSE waiting

(* mutant: the update of a session does not ask for the status that was read *)
TxnWriteBlind(p) ==
    LET r == proc[p] IN
    /\ r.at = "write"
    /\ IF kind = "session" \/ status = r.seen
         THEN status' = r.to /\ WriteExtra(p)
         ELSE UNCHANGED <<status, txId, jobVars>>
    /\ Returns(p)
    /\ UNCHANGED <<kind, leaseVars, anchorVars, crashes>>

(* the update: by id alone when the status was already there, otherwise on *)
(* condition of the status read, and nothing when that has changed         *)
TxnWrite(p) ==
    LET r == proc[p] IN
    /\ r.at = "write"
    /\ \/ /\ r.to = r.seen
          /\ WriteExtra(p)
          /\ UNCHANGED status
       \/ /\ r.to # r.seen /\ status = r.seen
          /\ status' = r.to /\ WriteExtra(p)
       \/ /\ r.to # r.seen /\ status # r.seen
          /\ UNCHANGED <<status, txId, jobVars>>
    /\ Returns(p)
    /\ UNCHANGED <<kind, leaseVars, anchorVars, crashes>>

-----------------------------------------------------------------------------
(* The owner *)

(* the row is created at its first status *)
Opens(k, first) ==
    /\ kind = k /\ status = "none"
    /\ status' = first
    /\ UNCHANGED <<kind, txId, jobVars, leaseVars, proc, anchorVars, crashes>>

(* POST /anchors/deposit and /anchors/withdraw; the asset, the toml and    *)
(* the challenge come before the row, and a failure of theirs leaves none  *)
Start == Opens("session", "incomplete")

(* their twins POST /sep24/deposit and /sep24/withdraw *)
HandleStartInteractive == Opens("session", "incomplete")

(* POST /withdraw, for an amount the account holds *)
PostWithdraw == Opens("withdrawal", "pending")

Create == Start \/ HandleStartInteractive \/ PostWithdraw

(* the anchor opens a transaction for the request; confirm returns early   *)
(* unless the withdrawal it read is pending, complete reads no status      *)
StartInteractive(c, t) ==
    /\ proc[c].at = "idle" /\ status # "none"
    /\ kind = "withdrawal" => status = "pending"
    /\ remote[t] = "none"
    /\ remote' = [remote EXCEPT ![t] = "incomplete"]
    /\ said' = [said EXCEPT ![t] = {"incomplete"}]
    /\ Be(c, [Idle EXCEPT !.at = "started", !.tx = t])
    /\ UNCHANGED <<kind, status, txId, jobVars, leaseVars, crashes>>

(* toml, token or start fails; complete has then written nothing *)
StartThrows(c) ==
    /\ proc[c].at = "idle" /\ kind = "withdrawal" /\ status = "pending"
    /\ Be(c, [Idle EXCEPT !.at = "threw"])
    /\ UNCHANGED <<kind, status, txId, jobVars, leaseVars, anchorVars, crashes>>

Started(c) ==
    /\ proc[c].at = "started"
    /\ Ask(c, IF kind = "session" THEN "pending_user_transfer_start"
                                  ELSE "processing", "any", "bind")
    /\ UNCHANGED <<kind, status, txId, jobVars, leaseVars, anchorVars, crashes>>

(* mutant: the catch writes by id alone *)
ThrewBlind(c) ==
    /\ proc[c].at = "threw"
    /\ status' = "failed" /\ Be(c, Idle)
    /\ UNCHANGED <<kind, txId, jobVars, leaseVars, anchorVars, crashes>>

(* the catch of confirm *)
Threw(c) ==
    /\ proc[c].at = "threw"
    /\ Ask(c, "failed", "any", "none")
    /\ UNCHANGED <<kind, status, txId, jobVars, leaseVars, anchorVars, crashes>>

-----------------------------------------------------------------------------
(* The worker *)

Unleased == lease # "live"

(* the where clauses of reconcileAnchors and reconcileWithdrawals *)
Eligible ==
    /\ txId # None /\ ~ permanent /\ ~ waiting
    /\ IF kind = "session" THEN status \in Open /\ Unleased
                           ELSE status = "processing" /\ retry < MaxAttempts

Select(w) ==
    /\ proc[w].at = "idle" /\ Eligible
    /\ Be(w, [Idle EXCEPT !.at = IF kind = "session" THEN "claim" ELSE "poll",
                          !.tx = txId, !.was = status, !.count = retry])
    /\ UNCHANGED <<kind, status, txId, jobVars, leaseVars, anchorVars, crashes>>

(* the where clause of claimAnchorSession *)
Claimable(w) == retry = proc[w].count /\ ~ waiting /\ Unleased

ClaimAnchorSession(w) ==
    /\ proc[w].at = "claim"
    /\ IF Claimable(w)
          THEN /\ claimedBy' = w /\ lease' = "live"
               /\ Be(w, [proc[w] EXCEPT !.at = "poll"])
          ELSE Be(w, Idle) /\ UNCHANGED leaseVars
    /\ UNCHANGED <<kind, status, txId, jobVars, anchorVars, crashes>>

(* pollTransaction: the anchor's present status, or no usable answer *)
Answers(t) == {remote[t], "transient", "rejected"}

PollTransaction(w) ==
    /\ proc[w].at = "poll"
    /\ \E a \in Answers(proc[w].tx) :
          Be(w, [proc[w] EXCEPT !.at = "got", !.res = a])
    /\ UNCHANGED <<kind, status, txId, jobVars, leaseVars, anchorVars, crashes>>

GiveUp == IF kind = "session" THEN "error" ELSE "failed"

(* permanent failures stop the record; only sessions say what they read *)
Rejected(w) ==
    /\ proc[w].at = "got" /\ proc[w].res = "rejected"
    /\ Ask(w, GiveUp, IF kind = "session" THEN proc[w].was ELSE "any", "dead")
    /\ UNCHANGED <<kind, status, txId, jobVars, leaseVars, anchorVars, crashes>>

Exhausted(w) == proc[w].count + 1 >= MaxAttempts

(* mutant: a failed poll is not counted *)
TransientUncounted(w) ==
    /\ proc[w].at = "got" /\ proc[w].res = "transient"
    /\ retry' = proc[w].count
    /\ permanent' = FALSE /\ waiting' = TRUE
    /\ Returns(w)
    /\ UNCHANGED <<kind, status, txId, leaseVars, anchorVars, crashes>>

(* transient failures: the attempt is recorded by id alone, and the last   *)
(* one is followed by the dead letter                                      *)
Transient(w) ==
    /\ proc[w].at = "got" /\ proc[w].res = "transient"
    /\ retry' = proc[w].count + 1
    /\ permanent' = Exhausted(w) /\ waiting' = ~ Exhausted(w)
    /\ IF Exhausted(w) THEN Be(w, [proc[w] EXCEPT !.at = "dead"]) ELSE Returns(w)
    /\ UNCHANGED <<kind, status, txId, leaseVars, anchorVars, crashes>>

(* mutant: the dead letter of a withdrawal is only logged *)
DeadLetterLogged(w) ==
    /\ proc[w].at = "dead"
    /\ IF kind = "session" THEN Ask(w, "error", proc[w].was, "dead") ELSE Returns(w)
    /\ UNCHANGED <<kind, status, txId, jobVars, leaseVars, anchorVars, crashes>>

(* a session is dead-lettered by a transition, a withdrawal by an update   *)
(* by id                                                                   *)
DeadLetter(w) ==
    /\ proc[w].at = "dead"
    /\ \/ /\ kind = "session"
          /\ Ask(w, "error", proc[w].was, "dead")
          /\ UNCHANGED <<status, jobVars>>
       \/ /\ kind = "withdrawal"
          /\ status' = "failed"
          /\ retry' = 0 /\ permanent' = TRUE /\ waiting' = FALSE
          /\ Returns(w)
    /\ UNCHANGED <<kind, txId, leaseVars, anchorVars, crashes>>

(* a session whose status is unknown or unchanged starts a new budget, by  *)
(* id alone; a withdrawal that is still processing is left as it is        *)
Unmoved(w) ==
    \/ /\ kind = "session" /\ proc[w].res \in {"other", proc[w].was}
       /\ retry' = 0 /\ permanent' = FALSE /\ waiting' = FALSE
    \/ /\ kind = "withdrawal" /\ proc[w].res \in Open \cup {"other"}
       /\ UNCHANGED jobVars

Unchanged(w) ==
    /\ proc[w].at = "got"
    /\ Unmoved(w)
    /\ Returns(w)
    /\ UNCHANGED <<kind, status, txId, leaseVars, anchorVars, crashes>>

(* mapAnchorStatusToWithdrawalStatus *)
ToWithdrawal(s) ==
    CASE s \in {"completed", "refunded", "expired"} -> s
      [] s \in Failures \ {"expired"} -> "failed"
      [] OTHER -> "processing"

Advance(w) ==
    /\ proc[w].at = "got" /\ proc[w].res \in Sep24Statuses
    /\ IF kind = "session"
          THEN proc[w].res # proc[w].was /\ Ask(w, proc[w].res, proc[w].was, "reset")
          ELSE proc[w].res \notin Open /\ Ask(w, ToWithdrawal(proc[w].res), "any", "none")
    /\ UNCHANGED <<kind, status, txId, jobVars, leaseVars, anchorVars, crashes>>

(* releaseAnchorSession: only the lease this process holds *)
ReleaseAnchorSession(w) ==
    /\ proc[w].at = "release"
    /\ IF claimedBy = w THEN claimedBy' = None /\ lease' = "none"
                        ELSE UNCHANGED leaseVars
    /\ Be(w, Idle)
    /\ UNCHANGED <<kind, status, txId, jobVars, anchorVars, crashes>>

(* recoverStaleAnchorSessions *)
RecoverStale ==
    /\ lease = "lapsed"
    /\ claimedBy' = None /\ lease' = "none"
    /\ UNCHANGED <<kind, status, txId, jobVars, proc, anchorVars, crashes>>

-----------------------------------------------------------------------------
(* Callbacks *)

(* toSessionStatus, and the mapping of the webhook route for withdrawals *)
OfCallback(s) ==
    LET known == IF s = "other" THEN "pending_anchor" ELSE s IN
    IF kind = "withdrawal" THEN ToWithdrawal(known)
    ELSE IF known \in Failures THEN "error" ELSE known

(* What a callback can say: the signature, the shared secret or the token  *)
(* is checked before the body is read, so it is a word of the anchor, late, *)
(* repeated or out of order.                                               *)
Signed(t) == said[t]

TokenVerified(t) == said[t]

(* mutant: a callback closes the record whatever it says *)
NotifyCloses(h, t, words) ==
    /\ proc[h].at = "idle" /\ txId = t
    /\ \E s \in words : Ask(h, "completed", "any", "none")
    /\ UNCHANGED <<kind, status, txId, jobVars, leaseVars, anchorVars, crashes>>

(* the record bound to the transaction is asked to follow *)
Notify(h, t, words) ==
    /\ proc[h].at = "idle" /\ txId = t
    /\ \E s \in words : Ask(h, OfCallback(s), "any", "none")
    /\ UNCHANGED <<kind, status, txId, jobVars, leaseVars, anchorVars, crashes>>

(* both services look for sessions alone, and audit a callback of none *)
ApplySep24Callback(h, t) == kind = "session" /\ Notify(h, t, Signed(t))

ApplyTokenCallback(h, t) == kind = "session" /\ Notify(h, t, TokenVerified(t))

(* POST /anchors/webhook, the only one of the three to reach a withdrawal *)
AnchorsWebhook(h, t) ==
    \/ ApplySep24Callback(h, t)
    \/ kind = "withdrawal" /\ Notify(h, t, Signed(t))

(* POST /webhooks/sep24 *)
WebhooksSep24(h, t) == ApplySep24Callback(h, t)

(* POST /sep24/callback *)
Sep24Callback(h, t) == ApplyTokenCallback(h, t)

Callback(h, t) == AnchorsWebhook(h, t) \/ WebhooksSep24(h, t) \/ Sep24Callback(h, t)

-----------------------------------------------------------------------------
(* The anchor, the clock, process death *)

(* a transaction moves on, to a status it has not had; what is completed,  *)
(* refunded or failed for good stays so, an error may be refunded          *)
AnchorMoves(t) ==
    /\ \/ remote[t] \in Open \cup {"other"}
          /\ \E s \in Reports[t] \ said[t] :
                /\ remote' = [remote EXCEPT ![t] = s]
                /\ said' = [said EXCEPT ![t] = @ \cup {s}]
       \/ remote[t] = "error" /\ "refunded" \in Reports[t]
          /\ remote' = [remote EXCEPT ![t] = "refunded"]
          /\ said' = [said EXCEPT ![t] = @ \cup {"refunded"}]
    /\ UNCHANGED <<kind, status, txId, jobVars, leaseVars, proc, crashes>>

(* nextAttemptAt passes *)
BackoffEnds ==
    /\ waiting /\ waiting' = FALSE
    /\ UNCHANGED <<kind, status, txId, retry, permanent, leaseVars, proc,
                   anchorVars, crashes>>

Holding(w) == proc[w].at \in {"poll", "got", "dead", "write"}

LeaseLapses ==
    /\ lease = "live"
    /\ LeaseOutlivesPoll => \A w \in Pollers : claimedBy = w => proc[w].at = "idle"
    /\ lease' = "lapsed"
    /\ UNCHANGED <<kind, status, txId, jobVars, claimedBy, proc, anchorVars, crashes>>

(* a worker dies; a request or a callback that dies is one that takes no   *)
(* further step                                                            *)
Crash(w) ==
    /\ proc[w].at # "idle" /\ crashes < MaxCrashes
    /\ crashes' = crashes + 1
    /\ Be(w, Idle)
    /\ UNCHANGED <<kind, status, txId, jobVars, leaseVars, anchorVars>>

PollStep(w) ==
    \/ Select(w) \/ ClaimAnchorSession(w) \/ PollTransaction(w)
    \/ Rejected(w) \/ Transient(w) \/ DeadLetter(w) \/ Unchanged(w) \/ Advance(w)
    \/ ReleaseAnchorSession(w)

CallStep(c) ==
    \/ \E t \in Txs : StartInteractive(c, t)
    \/ StartThrows(c) \/ Started(c) \/ Threw(c)

Next ==
    \/ Create
    \/ \E c \in Calls : CallStep(c)
    \/ \E w \in Pollers : PollStep(w) \/ Crash(w)
    \/ \E h \in Hooks, t \in Txs : Callback(h, t)
    \/ \E p \in Procs : TxnWrite(p)
    \/ \E t \in Txs : AnchorMoves(t)
    \/ RecoverStale \/ BackoffEnds \/ LeaseLapses

Spec == Init /\ [][Next]_vars

(* The worker polls every cycle and goes on to the end of a poll, backoffs *)
(* and leases run out.  Nobody need call, and no callback need arrive.     *)
Fairness ==
    /\ \A w \in Pollers : WF_vars(PollStep(w)) /\ WF_vars(TxnWrite(w))
    /\ WF_vars(BackoffEnds) /\ WF_vars(LeaseLapses)

FairSpec == Spec /\ Fairness

-----------------------------------------------------------------------------
(* Properties *)

(* Every variable has its type. *)
TypeOK ==
    /\ kind \in {"session", "withdrawal"}
    /\ status \in Statuses
    /\ txId \in Txs \cup {None}
    /\ retry \in Nat /\ permanent \in BOOLEAN /\ waiting \in BOOLEAN
    /\ claimedBy \in Pollers \cup {None}
    /\ lease \in {"none", "live", "lapsed"}
    /\ proc \in [Procs -> Proc]
    /\ remote \in [Txs -> Sep24Statuses \cup {"other", "none"}]
    /\ said \in [Txs -> SUBSET (Sep24Statuses \cup {"other"})]
    /\ crashes \in Nat

(* What a record is told is the outcome, the anchor did say, of a          *)
(* transaction opened for this record: whatever polls, callbacks and       *)
(* requests race, whatever order their answers are applied in.             *)
Outcomes == {"completed", "refunded", "expired", "no_market", "too_small", "too_large"}

ClosedAsReported ==
    status \in Outcomes => \E t \in Txs : status \in said[t]

(* A session that reached a terminal status never leaves it, but for an    *)
(* error that is refunded: neither a poll that read it open, nor a late    *)
(* callback, nor a repeated complete call reopens it.                      *)
Reopened ==
    /\ status \in Closed /\ status' # status
    /\ ~ (kind = "session" /\ status = "error" /\ status' = "refunded")

SessionStaysClosed == [][kind = "session" => ~ Reopened]_vars

(* A closed withdrawal is lost only to a dead letter, which is an update by *)
(* id: of a poll that read it open and used up the budget.  Every other    *)
(* write goes through the guarded update.                                  *)
WithdrawalLostOnlyToDeadLetter ==
    [][kind = "withdrawal" /\ Reopened =>
          \E w \in Pollers : /\ proc[w].at = "dead" /\ proc'[w] = Idle
                             /\ proc[w].was \notin Closed
                             /\ status' = "failed"]_vars

(* Two workers never poll one session at once. *)
OnePoller ==
    kind = "session" =>
        \A v, w \in Pollers : Holding(v) /\ Holding(w) => v = w

(* The retry budget is a column and ends: no interleaving of workers that  *)
(* read it before they poll and write it after takes it past the maximum,  *)
(* and a row that has used it up is not selected again.                    *)
BudgetEnds == retry =< MaxAttempts /\ (retry = MaxAttempts => ~ Eligible)

(* Polling comes to an end without any callback: it is never for good that *)
(* the anchor is done with the transaction a record is bound to, and the   *)
(* record neither closed nor given up.                                     *)
Overdue ==
    /\ status \notin Closed /\ ~ permanent
    /\ \E t \in Txs : txId = t /\ remote[t] \in SessionClosed

PollingEnds == Overdue ~> ~ Overdue

(* A withdrawal that is given up is closed, unless a worker died between   *)
(* the write that gives it up and the one that closes it.  (A session is   *)
(* also stranded when a callback moves it under its last poll.)            *)
StrandedOnlyByCrash ==
    kind = "withdrawal" /\ permanent ~> status \in Closed \/ crashes > 0
=============================================================================
