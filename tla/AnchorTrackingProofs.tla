------------------------ MODULE AnchorTrackingProofs ------------------------
(***************************************************************************)
(* What holds of a session and of a withdrawal for any number of requests, *)
(* workers, callbacks and anchor transactions, in any order: where its     *)
(* outcome comes from, who polls it, and what may undo its outcome.        *)
(***************************************************************************)
EXTENDS AnchorTracking, TLAPS

(* Some transaction of this record was said to be s. *)
Said(s) == \E t \in Txs : s \in said[t]

(* What is true of a process between its steps: the hop it is about to     *)
(* write was allowed from the status it read, an outcome it is about to    *)
(* write or has just been told was said by the anchor, and the attempt it  *)
(* is making is within the budget.                                         *)
ProcOK(r) ==
    /\ r \in Proc
    /\ r.at = "write" => /\ r.to = r.seen \/ CanTransition(r.seen, r.to)
                         /\ r.to \in Outcomes => Said(r.to)
    /\ r.at = "got" /\ r.res \in Outcomes => Said(r.res)
    /\ r.at \in {"claim", "poll"} => r.tx \in Txs
    /\ r.count < MaxAttempts

ProcsOK == proc \in [Procs -> Proc] /\ \A p \in Procs : ProcOK(proc[p])

(* the row and the anchor *)
RowOK ==
    /\ kind \in {"session", "withdrawal"}
    /\ status \in Statuses
    /\ txId \in Txs \cup {None}
    /\ retry \in Nat /\ permanent \in BOOLEAN /\ waiting \in BOOLEAN
    /\ claimedBy \in Pollers \cup {None}
    /\ lease \in {"none", "live", "lapsed"}
    /\ remote \in [Txs -> Sep24Statuses \cup {"other", "none"}]
    /\ said \in [Txs -> SUBSET (Sep24Statuses \cup {"other"})]
    /\ crashes \in Nat

(* A transaction that was opened was said to be what it now is. *)
RemoteIsSaid ==
    \A t \in Txs : IF remote[t] = "none" THEN said[t] = {} ELSE remote[t] \in said[t]

(* A row at its maximum is marked permanent. *)
SpentIsPermanent == retry =< MaxAttempts /\ (retry = MaxAttempts => permanent)

TrackInv ==
    RowOK /\ ProcsOK /\ RemoteIsSaid /\ SpentIsPermanent /\ ClosedAsReported

-----------------------------------------------------------------------------
(* The status words *)

LEMMA Words ==
    /\ Sep24Statuses \subseteq Statuses /\ WithdrawalClosed \subseteq Statuses
    /\ Open \subseteq Sep24Statuses /\ SessionClosed \subseteq Sep24Statuses
    /\ {"incomplete", "pending_user_transfer_start", "pending_anchor", "error",
        "refunded"} \subseteq Sep24Statuses
    /\ {"none", "pending", "processing", "failed"} \subseteq Statuses
BY DEF Statuses, Sep24Statuses, Open, Pending, Failures, SessionClosed,
       WithdrawalClosed

LEMMA NoOutcome ==
    /\ "none" \notin Outcomes /\ "other" \notin Outcomes
    /\ "incomplete" \notin Outcomes /\ "pending" \notin Outcomes
    /\ "processing" \notin Outcomes /\ "failed" \notin Outcomes
    /\ "error" \notin Outcomes /\ "pending_anchor" \notin Outcomes
    /\ "pending_user_transfer_start" \notin Outcomes
    /\ "transient" \notin Outcomes /\ "rejected" \notin Outcomes
BY DEF Outcomes

(* The mapping to withdrawal statuses makes up no outcome. *)
LEMMA MappedOutcome ==
    ASSUME NEW s
    PROVE  /\ ToWithdrawal(s) \in Statuses
           /\ ToWithdrawal(s) \in Outcomes => ToWithdrawal(s) = s
BY DEF ToWithdrawal, Failures, Outcomes, Statuses, WithdrawalClosed

(* All three callback routes hand a status of the transaction to the same   *)
(* transition function.                                                     *)
LEMMA CallbackNotifies ==
    ASSUME NEW h, NEW t, Callback(h, t)
    PROVE  Notify(h, t, said[t])
BY DEF Callback, AnchorsWebhook, WebhooksSep24, Sep24Callback, ApplySep24Callback,
       ApplyTokenCallback, Signed, TokenVerified

LEMMA CallbackOutcome ==
    ASSUME NEW s \in Sep24Statuses \cup {"other"}
    PROVE  /\ OfCallback(s) \in Statuses
           /\ OfCallback(s) \in Outcomes => OfCallback(s) = s
<1> DEFINE known == IF s = "other" THEN "pending_anchor" ELSE s
<1>1. known \in Sep24Statuses
    BY Words
<1>2. CASE kind = "withdrawal"
    BY <1>2, MappedOutcome, NoOutcome DEF OfCallback
<1>3. CASE kind # "withdrawal" /\ known \in Failures
    BY <1>3, Words, NoOutcome DEF OfCallback
<1>4. CASE kind # "withdrawal" /\ known \notin Failures
    BY <1>1, <1>4, Words, NoOutcome DEF OfCallback
<1> QED
    BY <1>2, <1>3, <1>4

(* The only way out of a terminal session status is the refund of an error *)
LEMMA TerminalHops ==
    ASSUME NEW from \in SessionClosed, NEW to \in SessionHops(from)
    PROVE  from = "error" /\ to = "refunded"
BY DEF SessionHops, SessionClosed, Failures, Pending

-----------------------------------------------------------------------------
(* Processes *)

LEMMA IdleOK == ProcOK(Idle) /\ ProcOK([Idle EXCEPT !.at = "release"])
BY TrackingAssumption, Words DEF ProcOK, Idle, Proc

(* A step of one process that leaves it sound leaves all of them sound. *)
LEMMA BeOK ==
    ASSUME ProcsOK, NEW p \in Procs, NEW r, Be(p, r), ProcOK(r)',
           kind' = kind, \A t \in Txs : said[t] \subseteq said'[t]
    PROVE  ProcsOK'
<1>1. r \in Proc
    BY DEF ProcOK
<1>2. proc' \in [Procs -> Proc]
    BY <1>1 DEF ProcsOK, Be
<1>3. ASSUME NEW q \in Procs, q # p PROVE ProcOK(proc[q])'
    <2>1. proc'[q] = proc[q] /\ ProcOK(proc[q])
        BY <1>3 DEF ProcsOK, Be
    <2>2. \A s : Said(s) => Said(s)'
        BY DEF Said
    <2>3. \A f, g : CanTransition(f, g) => CanTransition(f, g)'
        BY DEF CanTransition
    <2> QED
        BY <2>1, <2>2, <2>3 DEF ProcOK
<1>4. proc'[p] = r
    BY DEF ProcsOK, Be
<1> QED
    BY <1>2, <1>3, <1>4 DEF ProcsOK

(* Nor does a step that moves no process. *)
LEMMA StillOK ==
    ASSUME ProcsOK, proc' = proc, kind' = kind,
           \A t \in Txs : said[t] \subseteq said'[t]
    PROVE  ProcsOK'
<1>1. \A s : Said(s) => Said(s)'
    BY DEF Said
<1>2. \A f, g : CanTransition(f, g) => CanTransition(f, g)'
    BY DEF CanTransition
<1> QED
    BY <1>1, <1>2 DEF ProcsOK, ProcOK

LEMMA ReturnsOK ==
    ASSUME ProcsOK, NEW p \in Procs, Returns(p), kind' = kind, said' = said
    PROVE  ProcsOK'
<1>1. ProcOK(Idle)' /\ ProcOK([Idle EXCEPT !.at = "release"])'
    BY TrackingAssumption, Words DEF ProcOK, Idle, Proc
<1>2. CASE p \in Pollers /\ kind = "session"
    BY <1>1, <1>2, BeOK DEF Returns
<1>3. CASE ~ (p \in Pollers /\ kind = "session")
    BY <1>1, <1>3, BeOK DEF Returns
<1> QED
    BY <1>2, <1>3

LEMMA AskOK ==
    ASSUME RowOK, ProcsOK, NEW p \in Procs, NEW to \in Statuses, NEW exp,
           NEW extra \in {"none", "bind", "reset", "dead"},
           to \in Outcomes => Said(to), Ask(p, to, exp, extra),
           kind' = kind, said' = said
    PROVE  ProcsOK'
<1>0. PICK r : r = [Idle EXCEPT !.at = "write", !.tx = proc[p].tx, !.to = to,
                                !.extra = extra, !.seen = status]
    OBVIOUS
<1>1. CASE \/ to = status /\ extra # "none"
           \/ CanTransition(status, to) /\ exp \in {"any", status}
    <2>1. Be(p, r)
        BY <1>0, <1>1 DEF Ask
    <2>2. proc[p].tx \in Txs \cup {None} /\ status \in Statuses
        BY DEF ProcsOK, Proc, RowOK
    <2>3. /\ r.at = "write" /\ r.to = to /\ r.seen = status /\ r.count = 0
          /\ r \in Proc
        BY <1>0, <2>2, Words DEF Idle, Proc
    <2>4. CanTransition(status, to) => CanTransition(r.seen, r.to)'
        BY <2>3 DEF CanTransition
    <2>5. Said(to) => Said(r.to)'
        BY <2>3 DEF Said
    <2>6. 0 < MaxAttempts
        BY TrackingAssumption
    <2>7. ProcOK(r)'
        BY <1>1, <2>3, <2>4, <2>5, <2>6 DEF ProcOK
    <2> QED
        BY <2>1, <2>7, BeOK
<1>2. CASE ~ (\/ to = status /\ extra # "none"
              \/ CanTransition(status, to) /\ exp \in {"any", status})
    BY <1>2, ReturnsOK DEF Ask
<1> QED
    BY <1>1, <1>2

-----------------------------------------------------------------------------
(* The invariant *)

LEMMA TrackInit == Init => TrackInv
<1> SUFFICES ASSUME Init PROVE TrackInv
    OBVIOUS
<1>1. RowOK /\ RemoteIsSaid
    BY Words DEF Init, RowOK, RemoteIsSaid
<1>4. SpentIsPermanent /\ ClosedAsReported
    BY TrackingAssumption, NoOutcome DEF Init, SpentIsPermanent, ClosedAsReported
<1>2. proc = [p \in Procs |-> Idle]
    BY DEF Init
<1>3. ProcsOK
    BY <1>2, IdleOK DEF ProcsOK, ProcOK
<1> QED
    BY <1>1, <1>3, <1>4 DEF TrackInv

(* Steps that write nothing but their own process. *)
LEMMA LocalStep ==
    ASSUME TrackInv, ProcsOK',
           UNCHANGED <<kind, status, txId, jobVars, leaseVars, anchorVars, crashes>>
    PROVE  TrackInv'
BY DEF TrackInv, RowOK, RemoteIsSaid, SpentIsPermanent, ClosedAsReported,
       jobVars, leaseVars, anchorVars

(* The retry columns a poller or a transition writes. *)
LEMMA JobStep ==
    ASSUME TrackInv, ProcsOK', retry' \in Nat, permanent' \in BOOLEAN,
           waiting' \in BOOLEAN, SpentIsPermanent', status' \in Statuses,
           status' \in Outcomes => Said(status'), txId' \in Txs \cup {None},
           UNCHANGED <<kind, leaseVars, anchorVars, crashes>>
    PROVE  TrackInv'
BY DEF TrackInv, RowOK, RemoteIsSaid, ClosedAsReported, Said, leaseVars, anchorVars

LEMMA WriteStep ==
    ASSUME TrackInv, NEW p \in Procs, TxnWrite(p)
    PROVE  TrackInv'
<1> DEFINE r == proc[p]
<1>1. /\ r \in Proc /\ r.at = "write"
      /\ r.to \in Outcomes => Said(r.to)
    BY DEF TrackInv, ProcsOK, ProcOK, TxnWrite
<1>2. ProcsOK'
    <2>1. Returns(p) /\ kind' = kind /\ said' = said
        BY DEF TxnWrite, anchorVars
    <2> QED
        BY <2>1, ReturnsOK DEF TrackInv
<1>3. /\ status' = status \/ status' = r.to
      /\ UNCHANGED <<txId, jobVars>> \/ WriteExtra(p)
      /\ UNCHANGED <<kind, leaseVars, anchorVars, crashes>>
    BY DEF TxnWrite
<1>4. status' \in Statuses /\ (status' \in Outcomes => Said(status'))
    BY <1>1, <1>3 DEF TrackInv, RowOK, ClosedAsReported, Said, Proc
<1>5. /\ txId' \in Txs \cup {None} /\ retry' \in Nat /\ permanent' \in BOOLEAN
      /\ waiting' \in BOOLEAN /\ SpentIsPermanent'
    <2>1. CASE UNCHANGED <<txId, jobVars>>
        BY <2>1 DEF TrackInv, RowOK, SpentIsPermanent, jobVars
    <2>2. CASE WriteExtra(p)
        <3>1. txId' \in Txs \cup {None}
            BY <1>1, <2>2 DEF WriteExtra, TrackInv, RowOK, Proc
        <3>2. permanent' \in BOOLEAN /\ waiting' \in BOOLEAN
            BY <2>2, Zenon DEF WriteExtra, TrackInv, RowOK
        <3>3. CASE r.extra \in {"reset", "dead"}
            <4>1. retry' = 0
                BY <2>2, <3>3 DEF WriteExtra
            <4> QED
                BY <3>1, <3>2, <4>1, TrackingAssumption DEF SpentIsPermanent
        <3>4. CASE r.extra \notin {"reset", "dead"}
            BY <2>2, <3>1, <3>2, <3>4
               DEF WriteExtra, SpentIsPermanent, TrackInv, RowOK
        <3> QED
            BY <3>3, <3>4
    <2> QED
        BY <1>3, <2>1, <2>2
<1> QED
    BY <1>2, <1>3, <1>4, <1>5, JobStep

-----------------------------------------------------------------------------
LEMMA CallSteps ==
    ASSUME TrackInv, NEW c \in Calls, CallStep(c)
    PROVE  TrackInv'
<1>0. c \in Procs /\ RowOK /\ ProcsOK
    BY DEF Procs, TrackInv
<1>1. ASSUME NEW t \in Txs, StartInteractive(c, t) PROVE TrackInv'
    <2>1. PICK r : r = [Idle EXCEPT !.at = "started", !.tx = t]
        OBVIOUS
    <2>0. r \in Proc /\ r.at = "started" /\ r.count = 0
        BY <2>1, Words DEF Idle, Proc
    <2>2. ProcOK(r)'
        BY <2>0, TrackingAssumption DEF ProcOK
    <2>3. \A u \in Txs : said[u] \subseteq said'[u]
        BY <1>1 DEF StartInteractive, TrackInv, RowOK, RemoteIsSaid
    <2>4. ProcsOK'
        BY <1>0, <1>1, <2>1, <2>2, <2>3, BeOK DEF StartInteractive
    <2> QED
        BY <1>1, <2>3, <2>4, Words
           DEF StartInteractive, TrackInv, RowOK, RemoteIsSaid, SpentIsPermanent,
               ClosedAsReported, jobVars, leaseVars
<1>2. CASE StartThrows(c)
    <2>1. PICK r : r = [Idle EXCEPT !.at = "threw"]
        OBVIOUS
    <2>2. ProcOK(r)'
        BY <2>1, TrackingAssumption, Words DEF ProcOK, Idle, Proc
    <2>3. ProcsOK'
        BY <1>0, <1>2, <2>1, <2>2, BeOK DEF StartThrows, anchorVars
    <2> QED
        BY <1>2, <2>3, LocalStep DEF StartThrows
<1>3. CASE Started(c)
    <2>1. PICK to : /\ to \in Statuses /\ to \notin Outcomes
                    /\ Ask(c, to, "any", "bind")
        BY <1>3, Words, NoOutcome DEF Started
    <2>2. ProcsOK'
        BY <1>0, <1>3, <2>1, AskOK DEF Started, anchorVars
    <2> QED
        BY <1>3, <2>2, LocalStep DEF Started
<1>4. CASE Threw(c)
    <2>1. ProcsOK'
        BY <1>0, <1>4, AskOK, Words, NoOutcome DEF Threw, anchorVars
    <2> QED
        BY <1>4, <2>1, LocalStep DEF Threw
<1> QED
    BY <1>1, <1>2, <1>3, <1>4 DEF CallStep

LEMMA PollSteps ==
    ASSUME TrackInv, NEW w \in Pollers, PollStep(w)
    PROVE  TrackInv'
<1>0. /\ w \in Procs /\ RowOK /\ ProcsOK /\ SpentIsPermanent
      /\ proc[w] \in Proc /\ ProcOK(proc[w])
    BY DEF Procs, TrackInv, ProcsOK
<1>1. CASE Select(w)
    <2>1. PICK r : r = [Idle EXCEPT !.at = IF kind = "session" THEN "claim" ELSE "poll",
                                    !.tx = txId, !.was = status, !.count = retry]
        OBVIOUS
    <2>2. /\ txId \in Txs /\ status \in Statuses
          /\ retry \in Nat /\ retry < MaxAttempts
        BY <1>0, <1>1, TrackingAssumption
           DEF Select, Eligible, RowOK, SpentIsPermanent
    <2>3. /\ r \in Proc /\ r.at \in {"claim", "poll"} /\ r.tx \in Txs
          /\ r.count < MaxAttempts
        BY <2>1, <2>2, Words DEF Idle, Proc
    <2>4. ProcOK(r)'
        BY <2>3 DEF ProcOK
    <2>5. ProcsOK'
        BY <1>0, <1>1, <2>1, <2>4, BeOK DEF Select, anchorVars
    <2> QED
        BY <1>1, <2>5, LocalStep DEF Select
<1>2. CASE ClaimAnchorSession(w)
    <2>1. ProcsOK'
        <3>1. CASE Claimable(w)
            <4>1. PICK r : r = [proc[w] EXCEPT !.at = "poll"]
                OBVIOUS
            <4>2. /\ r \in Proc /\ r.at = "poll" /\ r.tx \in Txs
                  /\ r.count < MaxAttempts
                BY <1>0, <1>2, <4>1 DEF ClaimAnchorSession, ProcOK, Proc
            <4>3. ProcOK(r)'
                BY <4>2 DEF ProcOK
            <4> QED
                BY <1>0, <1>2, <3>1, <4>1, <4>3, BeOK
                   DEF ClaimAnchorSession, anchorVars
        <3>2. CASE ~ Claimable(w)
            <4>1. ProcOK(Idle)'
                BY TrackingAssumption, Words DEF ProcOK, Idle, Proc
            <4> QED
                BY <1>0, <1>2, <3>2, <4>1, BeOK DEF ClaimAnchorSession, anchorVars
        <3> QED
            BY <3>1, <3>2
    <2> QED
        BY <1>2, <2>1 DEF ClaimAnchorSession, TrackInv, RowOK, RemoteIsSaid,
                          SpentIsPermanent, ClosedAsReported, jobVars, leaseVars,
                          anchorVars
<1>3. CASE PollTransaction(w)
    <2>1. PICK a \in Answers(proc[w].tx) :
                 Be(w, [proc[w] EXCEPT !.at = "got", !.res = a])
        BY <1>3 DEF PollTransaction
    <2>2. PICK r : r = [proc[w] EXCEPT !.at = "got", !.res = a]
        OBVIOUS
    <2>3. proc[w].tx \in Txs
        BY <1>0, <1>3 DEF PollTransaction, ProcOK
    <2>4. /\ a \in Sep24Statuses \cup {"other", "none", "transient", "rejected"}
          /\ a \in Outcomes => Said(a)
        BY <2>1, <2>3, <1>0, NoOutcome
           DEF Answers, TrackInv, RowOK, RemoteIsSaid, Said
    <2>5. /\ r \in Proc /\ r.at = "got" /\ r.res = a /\ r.count < MaxAttempts
        BY <1>0, <2>2, <2>4 DEF ProcOK, Proc
    <2>6. Said(a) => Said(r.res)'
        BY <1>3, <2>5 DEF Said, PollTransaction, anchorVars
    <2>7. ProcOK(r)'
        BY <2>4, <2>5, <2>6 DEF ProcOK
    <2>8. ProcsOK'
        BY <1>0, <1>3, <2>1, <2>2, <2>7, BeOK DEF PollTransaction, anchorVars
    <2> QED
        BY <1>3, <2>8, LocalStep DEF PollTransaction
<1>4. CASE Rejected(w)
    <2>1. GiveUp \in Statuses /\ GiveUp \notin Outcomes
        BY Words, NoOutcome DEF GiveUp
    <2>2. PICK to, exp : to = GiveUp /\ Ask(w, to, exp, "dead")
        BY <1>4 DEF Rejected
    <2>3. ProcsOK'
        BY <1>0, <1>4, <2>1, <2>2, AskOK DEF Rejected, anchorVars
    <2> QED
        BY <1>4, <2>3, LocalStep DEF Rejected
<1>5. CASE Transient(w)
    <2>1. ProcsOK'
        <3>1. CASE Exhausted(w)
            <4>1. PICK r : r = [proc[w] EXCEPT !.at = "dead"]
                OBVIOUS
            <4>2. r \in Proc /\ r.at = "dead" /\ r.count < MaxAttempts
                BY <1>0, <4>1 DEF ProcOK, Proc
            <4>3. ProcOK(r)'
                BY <4>2 DEF ProcOK
            <4> QED
                BY <1>0, <1>5, <3>1, <4>1, <4>3, BeOK DEF Transient, anchorVars
        <3>2. CASE ~ Exhausted(w)
            BY <1>0, <1>5, <3>2, ReturnsOK DEF Transient, anchorVars
        <3> QED
            BY <3>1, <3>2
    <2>2. proc[w].count \in Nat /\ proc[w].count < MaxAttempts /\ MaxAttempts \in Nat
        BY <1>0, TrackingAssumption DEF ProcOK, Proc
    <2>3. retry' = proc[w].count + 1 /\ permanent' = Exhausted(w) /\ waiting' = ~ Exhausted(w)
        BY <1>5 DEF Transient
    <2>4. permanent' \in BOOLEAN /\ waiting' \in BOOLEAN
        BY <2>3 DEF Exhausted
    <2>5. retry' \in Nat /\ retry' =< MaxAttempts
        BY <2>2, <2>3
    <2>6. retry' = MaxAttempts => Exhausted(w)
        BY <2>2, <2>3 DEF Exhausted
    <2>7. SpentIsPermanent'
        BY <2>3, <2>5, <2>6 DEF SpentIsPermanent
    <2>8. /\ status' \in Statuses /\ txId' \in Txs \cup {None}
          /\ status' \in Outcomes => Said(status')
          /\ UNCHANGED <<kind, leaseVars, anchorVars, crashes>>
        BY <1>5 DEF Transient, TrackInv, RowOK, ClosedAsReported, Said
    <2> QED
        BY <2>1, <2>4, <2>5, <2>7, <2>8, JobStep
<1>6. CASE DeadLetter(w)
    <2>1. CASE kind = "session"
        <3>1. PICK exp : Ask(w, "error", exp, "dead")
            BY <1>6, <2>1 DEF DeadLetter
        <3>2. UNCHANGED <<kind, status, txId, jobVars, leaseVars, anchorVars, crashes>>
            BY <1>6, <2>1 DEF DeadLetter
        <3>3. ProcsOK'
            BY <1>0, <3>1, <3>2, AskOK, Words, NoOutcome DEF anchorVars
        <3> QED
            BY <3>2, <3>3, LocalStep
    <2>2. CASE kind = "withdrawal"
        <3>1. /\ Returns(w) /\ status' = "failed" /\ retry' = 0
              /\ permanent' = TRUE /\ waiting' = FALSE /\ txId' = txId
              /\ UNCHANGED <<kind, leaseVars, anchorVars, crashes>>
            BY <1>6, <2>2 DEF DeadLetter
        <3>2. ProcsOK'
            BY <1>0, <3>1, ReturnsOK DEF anchorVars
        <3>3. SpentIsPermanent' /\ retry' \in Nat
            BY <3>1, TrackingAssumption DEF SpentIsPermanent
        <3> QED
            <4>1. /\ permanent' \in BOOLEAN /\ waiting' \in BOOLEAN
                  /\ txId' \in Txs \cup {None}
                BY <1>0, <3>1 DEF RowOK
            <4>2. status' \in Statuses /\ status' \notin Outcomes
                BY <3>1, Words, NoOutcome
            <4> QED
                BY <3>1, <3>2, <3>3, <4>1, <4>2, JobStep
    <2> QED
        BY <1>0, <2>1, <2>2 DEF RowOK
<1>7. CASE Unchanged(w)
    <2>1. ProcsOK'
        BY <1>0, <1>7, ReturnsOK DEF Unchanged, anchorVars
    <2>2. /\ retry' \in Nat /\ permanent' \in BOOLEAN /\ waiting' \in BOOLEAN
          /\ SpentIsPermanent'
        <3>1. CASE UNCHANGED jobVars
            BY <1>0, <3>1 DEF RowOK, SpentIsPermanent, jobVars
        <3>2. CASE retry' = 0 /\ permanent' = FALSE /\ waiting' = FALSE
            <4>1. permanent' \in BOOLEAN /\ waiting' \in BOOLEAN
                BY <3>2, Zenon
            <4>2. retry' \in Nat /\ retry' <= MaxAttempts /\ retry' # MaxAttempts
                BY <3>2, TrackingAssumption, SMT
            <4> QED
                BY <4>1, <4>2, Zenon DEF SpentIsPermanent
        <3> QED
            BY <1>7, <3>1, <3>2 DEF Unchanged, Unmoved
    <2>3. /\ status' \in Statuses /\ txId' \in Txs \cup {None}
          /\ status' \in Outcomes => Said(status')
          /\ UNCHANGED <<kind, leaseVars, anchorVars, crashes>>
        BY <1>7 DEF Unchanged, TrackInv, RowOK, ClosedAsReported, Said
    <2> QED
        BY <2>1, <2>2, <2>3, JobStep
<1>8. CASE Advance(w)
    <2>1. /\ proc[w].at = "got" /\ proc[w].res \in Sep24Statuses
          /\ proc[w].res \in Outcomes => Said(proc[w].res)
        BY <1>0, <1>8 DEF Advance, ProcOK
    <2>2. PICK to, exp, extra :
              /\ to \in Statuses /\ extra \in {"none", "bind", "reset", "dead"}
              /\ to \in Outcomes => Said(to)
              /\ Ask(w, to, exp, extra)
        <3>1. CASE kind = "session"
            BY <1>8, <2>1, <3>1, Words DEF Advance
        <3>2. CASE kind # "session"
            <4>1. Ask(w, ToWithdrawal(proc[w].res), "any", "none")
                BY <1>8, <3>2 DEF Advance
            <4>2. /\ ToWithdrawal(proc[w].res) \in Statuses
                  /\ ToWithdrawal(proc[w].res) \in Outcomes
                        => ToWithdrawal(proc[w].res) = proc[w].res
                BY MappedOutcome
            <4>3. ToWithdrawal(proc[w].res) \in Outcomes
                     => Said(ToWithdrawal(proc[w].res))
                BY <2>1, <4>2
            <4> QED
                BY <4>1, <4>2, <4>3
        <3> QED
            BY <3>1, <3>2
    <2>3. ProcsOK'
        BY <1>0, <1>8, <2>2, AskOK DEF Advance, anchorVars
    <2> QED
        BY <1>8, <2>3, LocalStep DEF Advance
<1>9. CASE ReleaseAnchorSession(w)
    <2>1. ProcOK(Idle)'
        BY TrackingAssumption, Words DEF ProcOK, Idle, Proc
    <2>2. ProcsOK'
        BY <1>0, <1>9, <2>1, BeOK DEF ReleaseAnchorSession, anchorVars
    <2> QED
        BY <1>9, <2>2 DEF ReleaseAnchorSession, TrackInv, RowOK, RemoteIsSaid,
                          SpentIsPermanent, ClosedAsReported, jobVars, leaseVars,
                          anchorVars
<1> QED
    BY <1>1, <1>2, <1>3, <1>4, <1>5, <1>6, <1>7, <1>8, <1>9 DEF PollStep

LEMMA TrackStep == TrackInv /\ [Next]_vars => TrackInv'
<1> SUFFICES ASSUME TrackInv, [Next]_vars PROVE TrackInv'
    OBVIOUS
<1> USE DEF jobVars, leaseVars, anchorVars
<1>1. CASE UNCHANGED vars
    BY <1>1, StillOK, LocalStep DEF vars, TrackInv
<1>2. CASE Create
    <2>1. ProcsOK'
        BY <1>2, StillOK DEF Create, Start, HandleStartInteractive, PostWithdraw, Opens, TrackInv
    <2>2. status' \in Statuses /\ status' \notin Outcomes
        BY <1>2, Words, NoOutcome DEF Create, Start, HandleStartInteractive, PostWithdraw, Opens
    <2> QED
        BY <1>2, <2>1, <2>2 DEF Create, Start, HandleStartInteractive, PostWithdraw, Opens, TrackInv, RowOK, RemoteIsSaid,
                                SpentIsPermanent, ClosedAsReported
<1>3. ASSUME NEW h \in Hooks, NEW t \in Txs, Callback(h, t) PROVE TrackInv'
    <2>0. Notify(h, t, said[t])
        BY <1>3, CallbackNotifies
    <2>1. PICK s \in said[t] : Ask(h, OfCallback(s), "any", "none")
        BY <2>0 DEF Notify
    <2>2. s \in Sep24Statuses \cup {"other"}
        BY <2>1 DEF TrackInv, RowOK
    <2>3. PICK to : to = OfCallback(s)
        OBVIOUS
    <2>4. to \in Statuses /\ (to \in Outcomes => Said(to))
        BY <2>1, <2>2, <2>3, CallbackOutcome DEF Said
    <2>5. ProcsOK'
        BY <2>0, <2>1, <2>3, <2>4, AskOK DEF Notify, TrackInv, Procs
    <2> QED
        BY <2>0, <2>5, LocalStep DEF Notify
<1>4. ASSUME NEW t \in Txs, AnchorMoves(t) PROVE TrackInv'
    <2>1. /\ UNCHANGED <<kind, status, txId, jobVars, leaseVars, proc, crashes>>
          /\ \E s \in Sep24Statuses \cup {"other"} :
                /\ remote' = [remote EXCEPT ![t] = s]
                /\ said' = [said EXCEPT ![t] = @ \cup {s}]
        BY <1>4, TrackingAssumption, Words DEF AnchorMoves
    <2>2. \A u \in Txs : said[u] \subseteq said'[u]
        BY <2>1 DEF TrackInv, RowOK
    <2>3. ProcsOK'
        BY <2>1, <2>2, StillOK DEF TrackInv
    <2>4. "none" \notin Sep24Statuses
        BY DEF Sep24Statuses, Open, Pending, SessionClosed, Failures
    <2>5. RowOK' /\ RemoteIsSaid'
        BY <2>1, <2>4 DEF TrackInv, RowOK, RemoteIsSaid
    <2> QED
        BY <2>1, <2>2, <2>3, <2>5 DEF TrackInv, SpentIsPermanent, ClosedAsReported
<1>5. ASSUME NEW w \in Pollers, Crash(w) PROVE TrackInv'
    <2>1. ProcOK(Idle)'
        BY TrackingAssumption, Words DEF ProcOK, Idle, Proc
    <2>2. ProcsOK'
        BY <1>5, <2>1, BeOK DEF Crash, TrackInv, Procs
    <2> QED
        BY <1>5, <2>2 DEF Crash, TrackInv, RowOK, RemoteIsSaid, SpentIsPermanent,
                          ClosedAsReported
<1>6. CASE RecoverStale \/ BackoffEnds \/ LeaseLapses
    <2>1. ProcsOK'
        BY <1>6, StillOK DEF RecoverStale, BackoffEnds, LeaseLapses, TrackInv
    <2> QED
        BY <1>6, <2>1 DEF RecoverStale, BackoffEnds, LeaseLapses, TrackInv, RowOK,
                          RemoteIsSaid, SpentIsPermanent, ClosedAsReported
<1> QED
    BY <1>1, <1>2, <1>3, <1>4, <1>5, <1>6, WriteStep, CallSteps, PollSteps DEF Next

LEMMA Tracked == Spec => []TrackInv
BY TrackInit, TrackStep, PTL DEF Spec

(* Every reachable state of a record and of the processes that write it is *)
(* well typed.                                                             *)
THEOREM TypeCorrect == Spec => []TypeOK
<1>1. TrackInv => TypeOK
    BY DEF TrackInv, RowOK, ProcsOK, TypeOK
<1> QED
    BY <1>1, Tracked, PTL

(* A record closes as completed, refunded or expired only if the anchor    *)
(* said so of a transaction opened for it: polls whose answer is old,      *)
(* callbacks that are late or repeated and duplicate requests included.    *)
THEOREM ClosedOnlyAsReported == Spec => []ClosedAsReported
<1>1. TrackInv => ClosedAsReported
    BY DEF TrackInv
<1> QED
    BY <1>1, Tracked, PTL

(* However workers interleave their reads and writes of the retry columns, *)
(* the budget is kept and a spent record is not polled again.              *)
THEOREM BudgetIsKept == Spec => []BudgetEnds
<1>1. TrackInv => BudgetEnds
    BY DEF TrackInv, SpentIsPermanent, BudgetEnds, Eligible
<1> QED
    BY <1>1, Tracked, PTL

(* No step of any process reopens a session that has reached a terminal    *)
(* status.                                                                 *)
THEOREM SessionsStayClosed == Spec => SessionStaysClosed
<1>1. TrackInv /\ [Next]_vars => [kind = "session" => ~ Reopened]_vars
    <2> SUFFICES ASSUME TrackInv, [Next]_vars, kind = "session", Reopened
                 PROVE  FALSE
        OBVIOUS
    <2>1. status \in SessionClosed /\ status' # status
        BY DEF Reopened, Closed
    <2>2. "none" \notin SessionClosed
        BY DEF SessionClosed, Failures
    <2>3. \E p \in Procs : TxnWrite(p)
        BY <2>1, <2>2, CallbackNotifies DEF Next, Create, Start, HandleStartInteractive, PostWithdraw, Opens,
              CallStep, StartInteractive, StartThrows,
              Started, Threw, PollStep, Select, ClaimAnchorSession,
              PollTransaction, Rejected, Transient, DeadLetter, Unchanged,
              Advance, ReleaseAnchorSession, Notify, AnchorMoves, RecoverStale,
              BackoffEnds, LeaseLapses, Crash, vars
    <2>4. PICK p \in Procs : TxnWrite(p)
        BY <2>3
    <2>5. /\ status = proc[p].seen /\ status' = proc[p].to
          /\ CanTransition(proc[p].seen, proc[p].to)
        BY <2>1, <2>4 DEF TxnWrite, TrackInv, ProcsOK, ProcOK
    <2>6. status = "error" /\ status' = "refunded"
        BY <2>1, <2>5, TerminalHops DEF CanTransition
    <2> QED
        BY <2>6 DEF Reopened
<1> QED
    BY <1>1, Tracked, PTL DEF Spec, SessionStaysClosed

-----------------------------------------------------------------------------
(* Leases *)

(* While a worker polls a session, the live lease is its own. *)
HoldsLease ==
    kind = "session" =>
        \A w \in Pollers :
            Holding(w) \/ proc[w].at = "release" => claimedBy = w /\ lease = "live"

LEMMA HoldStep ==
    ASSUME LeaseOutlivesPoll, TrackInv, HoldsLease, [Next]_vars
    PROVE  HoldsLease'
<1> SUFFICES ASSUME kind' = "session" PROVE HoldsLease'
    BY DEF HoldsLease
<1> USE DEF HoldsLease, Holding, jobVars, leaseVars, anchorVars
<1>0. /\ kind = "session" /\ proc \in [Procs -> Proc] /\ Pollers \subseteq Procs
      /\ \A w \in Pollers : w \notin Calls /\ w \notin Hooks
    BY TrackingAssumption, CallbackNotifies
       DEF TrackInv, ProcsOK, Procs, Next, Create, Start,
              HandleStartInteractive, PostWithdraw, Opens, CallStep, StartInteractive,
              StartThrows, Started, Threw, PollStep, Select, ClaimAnchorSession,
              PollTransaction, Rejected, Transient, DeadLetter, Unchanged,
              Advance, ReleaseAnchorSession, Notify, AnchorMoves, RecoverStale,
              BackoffEnds, LeaseLapses, Crash, TxnWrite, vars
<1>1. CASE UNCHANGED vars
    BY <1>0, <1>1 DEF vars
<1>2. ASSUME NEW q \in Procs, NEW r, Be(q, r), UNCHANGED leaseVars,
             q \in Pollers =>
                \/ proc[q].at \in {"poll", "got", "dead", "write", "release"}
                \/ r.at \notin {"poll", "got", "dead", "write", "release"}
      PROVE  HoldsLease'
    <2>1. \A w \in Pollers : proc'[w] = IF w = q THEN r ELSE proc[w]
        BY <1>0, <1>2 DEF Be
    <2> QED
        BY <1>0, <1>2, <2>1
<1>3. ASSUME NEW q \in Procs, Returns(q), UNCHANGED leaseVars,
             q \in Pollers => proc[q].at \in {"poll", "got", "dead", "write"}
      PROVE  HoldsLease'
    <2>1. PICK r : Be(q, r)
        BY <1>3 DEF Returns
    <2> QED
        BY <1>2, <1>3, <2>1
<1>4. ASSUME NEW q \in Procs, NEW to, NEW exp, NEW extra, Ask(q, to, exp, extra),
             UNCHANGED leaseVars,
             q \in Pollers => proc[q].at \in {"poll", "got", "dead", "write"}
      PROVE  HoldsLease'
    <2>1. PICK r : Be(q, r)
        BY <1>4 DEF Ask, Returns
    <2> QED
        BY <1>2, <1>4, <2>1
<1>5. ASSUME NEW c \in Calls, CallStep(c) PROVE HoldsLease'
    <2>1. \A w \in Pollers : proc'[w] = proc[w]
        BY <1>0, <1>5 DEF CallStep, StartInteractive, StartThrows, Started, Threw,
                          Ask, Returns, Be
    <2>2. UNCHANGED leaseVars
        BY <1>5 DEF CallStep, StartInteractive, StartThrows, Started, Threw
    <2> QED
        BY <1>0, <2>1, <2>2
<1>6. ASSUME NEW h \in Hooks, NEW t \in Txs, Callback(h, t) PROVE HoldsLease'
    <2>0. Notify(h, t, said[t])
        BY <1>6, CallbackNotifies
    <2>1. \A w \in Pollers : proc'[w] = proc[w]
        BY <1>0, <1>6, <2>0 DEF Notify, Ask, Returns, Be
    <2> QED
        BY <1>0, <2>0, <2>1 DEF Notify
<1>7. ASSUME NEW p \in Procs, TxnWrite(p) PROVE HoldsLease'
    BY <1>3, <1>7 DEF TxnWrite
<1>8. ASSUME NEW w \in Pollers, PollStep(w) PROVE HoldsLease'
    <2>0. w \in Procs /\ proc[w] \in Proc
        BY <1>0
    <2>1. CASE Select(w)
        <3>1. PICK r : r.at = "claim" /\ Be(w, r)
            BY <1>0, <2>1 DEF Select, Idle
        <3> QED
            BY <1>2, <2>0, <2>1, <3>1 DEF Select
    <2>2. CASE ClaimAnchorSession(w)
        <3>1. CASE Claimable(w)
            <4>1. \A v \in Pollers : v # w => ~ (Holding(v) \/ proc[v].at = "release")
                BY <1>0, <3>1 DEF Claimable, Unleased
            <4>2. \A v \in Pollers : v # w => proc'[v] = proc[v]
                BY <1>0, <2>2, <3>1 DEF ClaimAnchorSession, Be
            <4>3. claimedBy' = w /\ lease' = "live"
                BY <2>2, <3>1 DEF ClaimAnchorSession
            <4> QED
                BY <4>1, <4>2, <4>3
        <3>2. CASE ~ Claimable(w)
            <4>1. PICK r : r.at = "idle" /\ Be(w, r)
                BY <2>2, <3>2 DEF ClaimAnchorSession, Idle
            <4> QED
                BY <1>2, <2>0, <2>2, <3>2, <4>1 DEF ClaimAnchorSession
        <3> QED
            BY <3>1, <3>2
    <2>3. CASE PollTransaction(w)
        <3>1. PICK r : Be(w, r)
            BY <2>3 DEF PollTransaction
        <3> QED
            BY <1>2, <2>0, <2>3, <3>1 DEF PollTransaction
    <2>4. CASE Rejected(w)
        BY <1>4, <2>0, <2>4 DEF Rejected
    <2>5. CASE Transient(w)
        <3>1. PICK r : Be(w, r)
            BY <2>5 DEF Transient, Returns
        <3> QED
            BY <1>2, <2>0, <2>5, <3>1 DEF Transient
    <2>6. CASE DeadLetter(w)
        BY <1>0, <1>4, <2>0, <2>6 DEF DeadLetter
    <2>7. CASE Unchanged(w)
        BY <1>3, <2>0, <2>7 DEF Unchanged
    <2>8. CASE Advance(w)
        BY <1>0, <1>4, <2>0, <2>8 DEF Advance
    <2>9. CASE ReleaseAnchorSession(w)
        <3>1. claimedBy = w
            BY <1>0, <2>9 DEF ReleaseAnchorSession
        <3>2. \A v \in Pollers : v # w => proc'[v] = proc[v] /\ ~ (Holding(v) \/ proc[v].at = "release")
            BY <1>0, <2>9, <3>1 DEF ReleaseAnchorSession, Be
        <3>3. proc'[w].at = "idle"
            BY <1>0, <2>0, <2>9 DEF ReleaseAnchorSession, Be, Idle
        <3> QED
            BY <3>2, <3>3
    <2> QED
        BY <1>8, <2>1, <2>2, <2>3, <2>4, <2>5, <2>6, <2>7, <2>8, <2>9 DEF PollStep
<1>9. ASSUME NEW w \in Pollers, Crash(w) PROVE HoldsLease'
    <2>1. PICK r : r.at = "idle" /\ Be(w, r)
        BY <1>9 DEF Crash, Idle
    <2> QED
        BY <1>0, <1>2, <1>9, <2>1 DEF Crash
<1>10. CASE RecoverStale \/ LeaseLapses
    BY <1>0, <1>10 DEF RecoverStale, LeaseLapses
<1>11. CASE Create \/ BackoffEnds \/ \E t \in Txs : AnchorMoves(t)
    BY <1>0, <1>11 DEF Create, Start, HandleStartInteractive, PostWithdraw, Opens, BackoffEnds, AnchorMoves
<1> QED
    BY <1>1, <1>5, <1>6, <1>7, <1>8, <1>9, <1>10, <1>11 DEF Next

(* If a lease outlives the poll it was taken for, no two workers ever poll *)
(* one session at once, whatever the number of workers and crashes.        *)
THEOREM SessionsHaveOnePoller ==
    ASSUME LeaseOutlivesPoll PROVE Spec => []OnePoller
<1>1. Init => HoldsLease
    BY DEF Init, HoldsLease, Holding, Idle, Procs
<1>2. TrackInv /\ HoldsLease /\ [Next]_vars => HoldsLease'
    BY HoldStep
<1>3. HoldsLease => OnePoller
    BY DEF HoldsLease, OnePoller
<1> QED
    BY <1>1, <1>2, <1>3, Tracked, PTL DEF Spec

-----------------------------------------------------------------------------
(* Withdrawals *)

(* A worker that polls a withdrawal, or gives it up, read it processing. *)
ReadProcessing ==
    kind = "withdrawal" =>
        \A w \in Pollers :
            proc[w].at \in {"claim", "poll", "got", "dead"}
                => proc[w].was = "processing"

(* No step changes the table a record is in. *)
LEMMA KindStays == [Next]_vars => kind' = kind
BY CallbackNotifies
   DEF Next, Create, Start, HandleStartInteractive, PostWithdraw, Opens, CallStep,
       StartInteractive, StartThrows, Started, Threw, PollStep, Select,
       ClaimAnchorSession, PollTransaction, Rejected, Transient, DeadLetter,
       Unchanged, Advance, ReleaseAnchorSession, Notify, AnchorMoves, RecoverStale,
       BackoffEnds, LeaseLapses, Crash, TxnWrite, vars

LEMMA ReadStep ==
    ASSUME TrackInv, ReadProcessing, [Next]_vars
    PROVE  ReadProcessing'
<1> SUFFICES ASSUME kind = "withdrawal" PROVE ReadProcessing'
    BY KindStays DEF ReadProcessing
<1> USE DEF jobVars, leaseVars, anchorVars
<1>0. /\ kind' = "withdrawal" /\ proc \in [Procs -> Proc] /\ Pollers \subseteq Procs
      /\ \A w \in Pollers : proc[w] \in Proc
    BY KindStays DEF TrackInv, ProcsOK, Procs
<1>1. CASE proc' = proc
    BY <1>0, <1>1 DEF ReadProcessing
<1>2. ASSUME NEW q \in Procs, NEW r, Be(q, r),
             r.at \in {"claim", "poll", "got", "dead"} => r.was = "processing"
      PROVE  ReadProcessing'
    <2>1. \A w \in Pollers : proc'[w] = IF w = q THEN r ELSE proc[w]
        BY <1>0, <1>2 DEF Be
    <2> QED
        BY <1>0, <1>2, <2>1 DEF ReadProcessing
<1>3. ASSUME NEW q \in Procs, Returns(q) PROVE ReadProcessing'
    <2>1. PICK r : Be(q, r) /\ r.at \in {"idle", "release"}
        BY <1>3 DEF Returns, Idle
    <2> QED
        BY <1>2, <2>1
<1>4. ASSUME NEW q \in Procs, NEW to, NEW exp, NEW extra, Ask(q, to, exp, extra)
      PROVE  ReadProcessing'
    <2>1. PICK r : r = [Idle EXCEPT !.at = "write", !.tx = proc[q].tx, !.to = to,
                                    !.extra = extra, !.seen = status]
        OBVIOUS
    <2>2. Returns(q) \/ Be(q, r)
        BY <1>4, <2>1 DEF Ask
    <2>3. r.at = "write"
        BY <2>1 DEF Idle
    <2> QED
        BY <1>2, <1>3, <2>2, <2>3
<1>5. ASSUME NEW c \in Calls, CallStep(c) PROVE ReadProcessing'
    <2>0. c \in Procs
        BY DEF Procs
    <2>1. ASSUME NEW t \in Txs, StartInteractive(c, t) PROVE ReadProcessing'
        <3>1. PICK r : r = [Idle EXCEPT !.at = "started", !.tx = t]
            OBVIOUS
        <3>2. Be(c, r) /\ r.at = "started"
            BY <2>1, <3>1 DEF StartInteractive, Idle
        <3> QED
            BY <1>2, <2>0, <3>2
    <2>2. CASE StartThrows(c)
        <3>1. PICK r : r = [Idle EXCEPT !.at = "threw"]
            OBVIOUS
        <3>2. Be(c, r) /\ r.at = "threw"
            BY <2>2, <3>1 DEF StartThrows, Idle
        <3> QED
            BY <1>2, <2>0, <3>2
    <2>3. CASE Started(c) \/ Threw(c)
        BY <1>4, <2>0, <2>3 DEF Started, Threw
    <2> QED
        BY <1>5, <2>1, <2>2, <2>3 DEF CallStep
<1>6. ASSUME NEW h \in Hooks, NEW t \in Txs, Callback(h, t) PROVE ReadProcessing'
    <2>0. h \in Procs /\ Notify(h, t, said[t])
        BY <1>6, CallbackNotifies DEF Procs
    <2> QED
        BY <1>4, <2>0 DEF Notify
<1>7. ASSUME NEW p \in Procs, TxnWrite(p) PROVE ReadProcessing'
    BY <1>3, <1>7 DEF TxnWrite
<1>8. ASSUME NEW w \in Pollers, PollStep(w) PROVE ReadProcessing'
    <2>0. w \in Procs /\ proc[w] \in Proc
        BY <1>0
    <2>1. CASE Select(w)
        <3>0. PICK r : r = [Idle EXCEPT !.at = IF kind = "session" THEN "claim" ELSE "poll",
                                        !.tx = txId, !.was = status, !.count = retry]
            OBVIOUS
        <3>1. Be(w, r) /\ r.was = status
            BY <2>1, <3>0 DEF Select, Idle
        <3>2. status = "processing"
            BY <2>1 DEF Select, Eligible
        <3> QED
            BY <1>2, <2>0, <3>1, <3>2
    <2>2. CASE ClaimAnchorSession(w)
        <3>1. \E r : Be(w, r) /\ (r.at = "idle" \/ r.was = proc[w].was)
            BY <2>0, <2>2 DEF ClaimAnchorSession, Idle, Proc
        <3>2. proc[w].was = "processing"
            BY <2>2 DEF ClaimAnchorSession, ReadProcessing
        <3> QED
            BY <1>2, <2>0, <3>1, <3>2
    <2>3. CASE PollTransaction(w)
        <3>0. PICK a \in Answers(proc[w].tx) :
                     Be(w, [proc[w] EXCEPT !.at = "got", !.res = a])
            BY <2>3 DEF PollTransaction
        <3>1. PICK r : r = [proc[w] EXCEPT !.at = "got", !.res = a]
            OBVIOUS
        <3>3. Be(w, r) /\ r.was = proc[w].was
            BY <2>0, <3>0, <3>1 DEF Proc
        <3>2. proc[w].was = "processing"
            BY <2>3 DEF PollTransaction, ReadProcessing
        <3> QED
            BY <1>2, <2>0, <3>2, <3>3
    <2>4. CASE Transient(w)
        <3>1. Returns(w) \/ \E r : Be(w, r) /\ r.was = proc[w].was
            BY <2>0, <2>4 DEF Transient, Proc
        <3>2. proc[w].was = "processing"
            BY <2>4 DEF Transient, ReadProcessing
        <3> QED
            BY <1>2, <1>3, <2>0, <3>1, <3>2
    <2>5. CASE Rejected(w) \/ Advance(w)
        BY <1>4, <2>0, <2>5 DEF Rejected, Advance
    <2>6. CASE DeadLetter(w)
        BY <1>3, <1>4, <2>0, <2>6 DEF DeadLetter
    <2>7. CASE Unchanged(w)
        BY <1>3, <2>0, <2>7 DEF Unchanged
    <2>8. CASE ReleaseAnchorSession(w)
        <3>1. PICK r : Be(w, r) /\ r.at = "idle"
            BY <2>8 DEF ReleaseAnchorSession, Idle
        <3> QED
            BY <1>2, <2>0, <3>1
    <2> QED
        BY <1>8, <2>1, <2>2, <2>3, <2>4, <2>5, <2>6, <2>7, <2>8 DEF PollStep
<1>9. ASSUME NEW w \in Pollers, Crash(w) PROVE ReadProcessing'
    <2>1. PICK r : Be(w, r) /\ r.at = "idle"
        BY <1>9 DEF Crash, Idle
    <2> QED
        BY <1>0, <1>2, <2>1
<1>10. CASE \/ Create \/ RecoverStale \/ LeaseLapses \/ BackoffEnds
            \/ (\E t \in Txs : AnchorMoves(t)) \/ UNCHANGED vars
    BY <1>1, <1>10 DEF Create, Start, HandleStartInteractive, PostWithdraw, Opens,
                       RecoverStale, LeaseLapses, BackoffEnds, AnchorMoves, vars
<1> QED
    BY <1>5, <1>6, <1>7, <1>8, <1>9, <1>10 DEF Next

(* Whatever polls, callbacks and repeated confirm calls race, a withdrawal *)
(* that is closed keeps its status, but for the dead letter: the only write *)
(* that is not conditional, of a poll that read the row processing.        *)
THEOREM WithdrawalsStayClosed == Spec => WithdrawalLostOnlyToDeadLetter
<1> DEFINE Body ==
        kind = "withdrawal" /\ Reopened =>
          \E w \in Pollers : /\ proc[w].at = "dead" /\ proc'[w] = Idle
                             /\ proc[w].was \notin Closed
                             /\ status' = "failed"
<1>1. Init => ReadProcessing
    BY DEF Init, ReadProcessing, Idle, Procs
<1>2. TrackInv /\ ReadProcessing /\ [Next]_vars => ReadProcessing'
    BY ReadStep
<1>3. TrackInv /\ ReadProcessing /\ [Next]_vars => [Body]_vars
    <2> SUFFICES ASSUME TrackInv, ReadProcessing, [Next]_vars,
                        kind = "withdrawal", Reopened
                 PROVE  \E w \in Pollers :
                            /\ proc[w].at = "dead" /\ proc'[w] = Idle
                            /\ proc[w].was \notin Closed
                            /\ status' = "failed"
        OBVIOUS
    <2>1. status \in WithdrawalClosed /\ status' # status
        BY DEF Reopened, Closed
    <2>2. "none" \notin WithdrawalClosed /\ "processing" \notin WithdrawalClosed
        BY DEF WithdrawalClosed
    <2>3. (\E p \in Procs : TxnWrite(p)) \/ \E w \in Pollers : DeadLetter(w)
        BY <2>1, <2>2, CallbackNotifies
           DEF Next, Create, Start, HandleStartInteractive, PostWithdraw, Opens,
               CallStep, StartInteractive, StartThrows, Started, Threw, PollStep,
               Select, ClaimAnchorSession, PollTransaction, Rejected, Transient,
               Unchanged, Advance, ReleaseAnchorSession, Notify, AnchorMoves,
               RecoverStale, BackoffEnds, LeaseLapses, Crash, vars
    <2>4. ASSUME NEW p \in Procs, TxnWrite(p) PROVE FALSE
        <3>1. /\ status = proc[p].seen /\ status' = proc[p].to
              /\ CanTransition(proc[p].seen, proc[p].to)
            BY <2>1, <2>4 DEF TxnWrite, TrackInv, ProcsOK, ProcOK
        <3> QED
            BY <2>1, <3>1 DEF CanTransition, WithdrawalHops, WithdrawalClosed
    <2>5. PICK w \in Pollers : DeadLetter(w)
        BY <2>3, <2>4
    <2>6. status' = "failed" /\ Returns(w) /\ proc[w].at = "dead"
        BY <2>5 DEF DeadLetter
    <2>7. proc'[w] = Idle
        BY <2>6 DEF Returns, Be, TrackInv, ProcsOK, Procs
    <2>8. proc[w].was \notin Closed
        BY <2>2, <2>6 DEF ReadProcessing, Closed
    <2> QED
        BY <2>6, <2>7, <2>8
<1>4. [][Body]_vars => WithdrawalLostOnlyToDeadLetter
    BY PTL DEF WithdrawalLostOnlyToDeadLetter
<1> QED
    BY <1>1, <1>2, <1>3, <1>4, Tracked, PTL DEF Spec

-----------------------------------------------------------------------------
(* Withdrawals out of retries *)

(* A withdrawal that is given up is closed, or a worker is about to close  *)
(* it, or one has died.                                                    *)
GivenUpIsClosed ==
    kind = "withdrawal" /\ permanent /\ crashes = 0 =>
        status \in WithdrawalClosed \/ \E w \in Pollers : proc[w].at = "dead"

(* A write that gives a withdrawal up fails it, and one that found it      *)
(* closed still does.                                                      *)
WritesGiveUp ==
    kind = "withdrawal" =>
        \A p \in Procs : proc[p].at = "write" =>
            /\ proc[p].extra = "dead" => proc[p].to = "failed"
            /\ proc[p].seen \in WithdrawalClosed => status \in WithdrawalClosed

(* What is closed stays closed, though its outcome may change. *)
LEMMA ClosedStays ==
    ASSUME TrackInv, [Next]_vars, kind = "withdrawal", status \in WithdrawalClosed
    PROVE  status' \in WithdrawalClosed
<1>1. CASE UNCHANGED status
    BY <1>1
<1>2. CASE status' # status
    <2>0. {"none", "processing", "pending"} \cap WithdrawalClosed = {} /\ "failed" \in WithdrawalClosed
        BY DEF WithdrawalClosed
    <2>1. (\E p \in Procs : TxnWrite(p)) \/ \E w \in Pollers : DeadLetter(w)
        BY <1>2, <2>0, CallbackNotifies
           DEF Next, Create, Start, HandleStartInteractive, PostWithdraw, Opens,
               CallStep, StartInteractive, StartThrows, Started, Threw, PollStep,
               Select, ClaimAnchorSession, PollTransaction, Rejected, Transient,
               Unchanged, Advance, ReleaseAnchorSession, Notify, AnchorMoves,
               RecoverStale, BackoffEnds, LeaseLapses, Crash, vars
    <2>2. ASSUME NEW p \in Procs, TxnWrite(p) PROVE FALSE
        <3>1. /\ status = proc[p].seen /\ status' = proc[p].to
              /\ CanTransition(proc[p].seen, proc[p].to)
            BY <1>2, <2>2 DEF TxnWrite, TrackInv, ProcsOK, ProcOK
        <3> QED
            BY <3>1 DEF CanTransition, WithdrawalHops, WithdrawalClosed
    <2>3. PICK w \in Pollers : DeadLetter(w)
        BY <2>1, <2>2
    <2> QED
        BY <2>0, <2>3 DEF DeadLetter
<1> QED
    BY <1>1, <1>2

(* Every step keeps that of the writes in flight. *)
LEMMA WritesStep ==
    ASSUME TrackInv, WritesGiveUp, [Next]_vars
    PROVE  WritesGiveUp'
<1> SUFFICES ASSUME kind = "withdrawal" PROVE WritesGiveUp'
    BY KindStays DEF WritesGiveUp
<1> USE DEF jobVars, leaseVars, anchorVars
<1>0. /\ kind' = "withdrawal" /\ proc \in [Procs -> Proc]
      /\ Pollers \subseteq Procs /\ Calls \subseteq Procs /\ Hooks \subseteq Procs
      /\ \A w \in Procs : proc[w] \in Proc
      /\ status \in WithdrawalClosed => status' \in WithdrawalClosed
    BY KindStays, ClosedStays DEF TrackInv, ProcsOK, Procs
<1>1. CASE proc' = proc
    BY <1>0, <1>1 DEF WritesGiveUp
<1>2. ASSUME NEW q \in Procs, NEW r, Be(q, r),
             r.at = "write" => /\ r.extra = "dead" => r.to = "failed"
                               /\ r.seen = status
      PROVE  WritesGiveUp'
    <2>1. \A p \in Procs : proc'[p] = IF p = q THEN r ELSE proc[p]
        BY <1>0, <1>2 DEF Be
    <2> QED
        BY <1>0, <1>2, <2>1 DEF WritesGiveUp
<1>3. ASSUME NEW q \in Procs, Returns(q) PROVE WritesGiveUp'
    <2>1. PICK r : Be(q, r) /\ r.at \in {"idle", "release"}
        BY <1>3 DEF Returns, Idle
    <2> QED
        BY <1>2, <2>1
<1>4. ASSUME NEW q \in Procs, NEW to, NEW exp, NEW extra, Ask(q, to, exp, extra),
             extra = "dead" => to = "failed"
      PROVE  WritesGiveUp'
    <2>1. PICK r : r = [Idle EXCEPT !.at = "write", !.tx = proc[q].tx, !.to = to,
                                    !.extra = extra, !.seen = status]
        OBVIOUS
    <2>2. Returns(q) \/ Be(q, r)
        BY <1>4, <2>1 DEF Ask
    <2>3. r.extra = extra /\ r.to = to /\ r.seen = status
        BY <2>1 DEF Idle
    <2> QED
        BY <1>2, <1>3, <1>4, <2>2, <2>3
<1>5. ASSUME NEW q \in Procs, NEW r, Be(q, r), r.at # "write" PROVE WritesGiveUp'
    BY <1>2, <1>5
<1>6. ASSUME NEW c \in Calls, CallStep(c) PROVE WritesGiveUp'
    <2>0. c \in Procs
        BY <1>0
    <2>1. ASSUME NEW t \in Txs, StartInteractive(c, t) PROVE WritesGiveUp'
        <3>0. PICK r : r = [Idle EXCEPT !.at = "started", !.tx = t]
            OBVIOUS
        <3>1. Be(c, r) /\ r.at = "started"
            BY <2>1, <3>0 DEF StartInteractive, Idle
        <3> QED
            BY <1>5, <2>0, <3>1
    <2>2. CASE StartThrows(c)
        <3>1. PICK r : Be(c, r) /\ r.at = "threw"
            BY <2>2 DEF StartThrows, Idle
        <3> QED
            BY <1>5, <2>0, <3>1
    <2>3. CASE Started(c) \/ Threw(c)
        BY <1>4, <2>0, <2>3 DEF Started, Threw
    <2> QED
        BY <1>6, <2>1, <2>2, <2>3 DEF CallStep
<1>7. ASSUME NEW h \in Hooks, NEW t \in Txs, Callback(h, t) PROVE WritesGiveUp'
    <2>0. h \in Procs /\ Notify(h, t, said[t])
        BY <1>0, <1>7, CallbackNotifies
    <2> QED
        BY <1>4, <2>0 DEF Notify
<1>8. ASSUME NEW p \in Procs, TxnWrite(p) PROVE WritesGiveUp'
    BY <1>3, <1>8 DEF TxnWrite
<1>9. ASSUME NEW w \in Pollers, PollStep(w) PROVE WritesGiveUp'
    <2>0. w \in Procs /\ proc[w] \in Proc
        BY <1>0
    <2>1. CASE Select(w)
        <3>0. PICK r : r = [Idle EXCEPT !.at = IF kind = "session" THEN "claim" ELSE "poll",
                                        !.tx = txId, !.was = status, !.count = retry]
            OBVIOUS
        <3>1. Be(w, r) /\ r.at \in {"claim", "poll"}
            BY <2>1, <3>0 DEF Select, Idle
        <3> QED
            BY <1>5, <2>0, <3>1
    <2>2. CASE ClaimAnchorSession(w)
        <3>1. \E r : Be(w, r) /\ r.at \in {"idle", "poll"}
            BY <2>0, <2>2 DEF ClaimAnchorSession, Idle, Proc
        <3> QED
            BY <1>5, <2>0, <3>1
    <2>3. CASE PollTransaction(w)
        <3>0. PICK a \in Answers(proc[w].tx) :
                     Be(w, [proc[w] EXCEPT !.at = "got", !.res = a])
            BY <2>3 DEF PollTransaction
        <3>2. PICK r : r = [proc[w] EXCEPT !.at = "got", !.res = a]
            OBVIOUS
        <3>1. Be(w, r) /\ r.at = "got"
            BY <2>0, <3>0, <3>2 DEF Proc
        <3> QED
            BY <1>5, <2>0, <3>1
    <2>4. CASE Transient(w)
        <3>1. Returns(w) \/ \E r : Be(w, r) /\ r.at = "dead"
            BY <2>0, <2>4 DEF Transient, Proc
        <3> QED
            BY <1>3, <1>5, <2>0, <3>1
    <2>5. CASE Rejected(w)
        BY <1>4, <2>0, <2>5 DEF Rejected, GiveUp
    <2>6. CASE DeadLetter(w)
        BY <1>3, <2>0, <2>6 DEF DeadLetter
    <2>7. CASE Unchanged(w)
        BY <1>3, <2>0, <2>7 DEF Unchanged
    <2>8. CASE Advance(w)
        BY <1>4, <2>0, <2>8 DEF Advance
    <2>9. CASE ReleaseAnchorSession(w)
        <3>1. PICK r : Be(w, r) /\ r.at = "idle"
            BY <2>9 DEF ReleaseAnchorSession, Idle
        <3> QED
            BY <1>5, <2>0, <3>1
    <2> QED
        BY <1>9, <2>1, <2>2, <2>3, <2>4, <2>5, <2>6, <2>7, <2>8, <2>9 DEF PollStep
<1>10. ASSUME NEW w \in Pollers, Crash(w) PROVE WritesGiveUp'
    <2>1. PICK r : Be(w, r) /\ r.at = "idle"
        BY <1>10 DEF Crash, Idle
    <2> QED
        BY <1>0, <1>5, <2>1
<1>11. CASE \/ Create \/ RecoverStale \/ LeaseLapses \/ BackoffEnds
            \/ (\E t \in Txs : AnchorMoves(t)) \/ UNCHANGED vars
    BY <1>1, <1>11 DEF Create, Start, HandleStartInteractive, PostWithdraw, Opens,
                       RecoverStale, LeaseLapses, BackoffEnds, AnchorMoves, vars
<1> QED
    BY <1>6, <1>7, <1>8, <1>9, <1>10, <1>11 DEF Next

(* Every step keeps somebody bound to close what was given up. *)
LEMMA GiveUpStep ==
    ASSUME TrackInv, WritesGiveUp, GivenUpIsClosed, [Next]_vars
    PROVE  GivenUpIsClosed'
<1> SUFFICES ASSUME kind = "withdrawal", permanent', crashes' = 0,
                    status' \notin WithdrawalClosed
             PROVE  \E w \in Pollers : proc'[w].at = "dead"
    BY KindStays DEF GivenUpIsClosed
<1> USE DEF jobVars, leaseVars, anchorVars
<1>0. /\ proc \in [Procs -> Proc] /\ \A w \in Procs : proc[w] \in Proc
      /\ Pollers \subseteq Procs /\ status \notin WithdrawalClosed
      /\ "failed" \in WithdrawalClosed /\ crashes \in Nat
      /\ \A w \in Pollers : w \notin Calls /\ w \notin Hooks
    BY ClosedStays, TrackingAssumption DEF TrackInv, RowOK, ProcsOK, Procs, WithdrawalClosed
<1>1. /\ \A w \in Pollers : ~ DeadLetter(w)
      /\ \A w \in Pollers : ~ Crash(w)
    <2>1. ASSUME NEW w \in Pollers, DeadLetter(w) PROVE FALSE
        BY <1>0, <2>1 DEF DeadLetter
    <2>2. ASSUME NEW w \in Pollers, Crash(w) PROVE FALSE
        BY <1>0, <2>2 DEF Crash
    <2> QED
        BY <2>1, <2>2
(* The row was already given up, and who is to close it still is. *)
<1>2. ASSUME permanent, crashes = 0,
             \A w \in Pollers : proc[w].at = "dead" => proc'[w] = proc[w]
      PROVE  \E w \in Pollers : proc'[w].at = "dead"
    BY <1>0, <1>2 DEF GivenUpIsClosed
<1>3. ASSUME NEW q \in Procs, NEW r, Be(q, r), q \in Pollers => proc[q].at # "dead"
      PROVE  \A w \in Pollers : proc[w].at = "dead" => proc'[w] = proc[w]
    BY <1>0, <1>3 DEF Be
<1>4. ASSUME NEW c \in Calls, CallStep(c) PROVE \E w \in Pollers : proc'[w].at = "dead"
    <2>1. permanent /\ crashes = 0
        BY <1>4 DEF CallStep, StartInteractive, StartThrows, Started, Threw
    <2>2. \E r : Be(c, r)
        BY <1>4 DEF CallStep, StartInteractive, StartThrows, Started, Threw, Ask, Returns
    <2> QED
        BY <1>0, <1>2, <1>3, <2>1, <2>2 DEF Procs
<1>5. ASSUME NEW h \in Hooks, NEW t \in Txs, Callback(h, t)
      PROVE  \E w \in Pollers : proc'[w].at = "dead"
    <2>0. Notify(h, t, said[t])
        BY <1>5, CallbackNotifies
    <2>1. permanent /\ crashes = 0
        BY <2>0 DEF Notify
    <2>2. \E r : Be(h, r)
        BY <2>0 DEF Notify, Ask, Returns
    <2> QED
        BY <1>0, <1>2, <1>3, <2>1, <2>2 DEF Procs
<1>6. ASSUME NEW p \in Procs, TxnWrite(p) PROVE \E w \in Pollers : proc'[w].at = "dead"
    <2>1. proc[p].at = "write" /\ crashes = 0
        BY <1>6 DEF TxnWrite
    <2>2. ~ (proc[p].extra = "dead" /\ permanent' # permanent)
        <3> SUFFICES ASSUME proc[p].extra = "dead", permanent' # permanent PROVE FALSE
            OBVIOUS
        <3>1. proc[p].to = "failed" /\ (proc[p].seen = "failed" => status \in WithdrawalClosed)
            BY <1>0, <2>1 DEF WritesGiveUp
        <3> QED
            BY <1>0, <1>6, <3>1 DEF TxnWrite
    <2>3. permanent
        BY <1>6, <2>2 DEF TxnWrite, WriteExtra, TrackInv, RowOK
    <2>4. \E r : Be(p, r)
        BY <1>6 DEF TxnWrite, Returns
    <2> QED
        BY <1>2, <1>3, <2>1, <2>3, <2>4
<1>7. ASSUME NEW w \in Pollers, PollStep(w) PROVE \E v \in Pollers : proc'[v].at = "dead"
    <2>1. CASE Transient(w)
        <3>1. Exhausted(w)
            BY <2>1 DEF Transient
        <3>2. Be(w, [proc[w] EXCEPT !.at = "dead"])
            BY <2>1, <3>1 DEF Transient
        <3>3. proc'[w].at = "dead"
            BY <1>0, <3>2 DEF Be, Proc
        <3> QED
            BY <3>3
    <2>2. CASE ~ Transient(w)
        <3>1. permanent /\ crashes = 0
            BY <1>1, <1>7, <2>2 DEF PollStep, Select, ClaimAnchorSession, PollTransaction,
                   Rejected, Unchanged, Unmoved, Advance, ReleaseAnchorSession
        <3>2. proc[w].at # "dead" /\ \E r : Be(w, r)
            BY <1>1, <1>7, <2>2 DEF PollStep, Select, ClaimAnchorSession, PollTransaction,
                   Rejected, Unchanged, Advance, ReleaseAnchorSession, Ask, Returns
        <3> QED
            BY <1>0, <1>2, <1>3, <3>1, <3>2
    <2> QED
        BY <2>1, <2>2
<1>8. CASE \/ Create \/ RecoverStale \/ LeaseLapses \/ BackoffEnds
           \/ (\E t \in Txs : AnchorMoves(t)) \/ UNCHANGED vars
    <2>1. permanent /\ crashes = 0 /\ proc' = proc
        BY <1>8 DEF Create, Start, HandleStartInteractive, PostWithdraw, Opens,
                    RecoverStale, LeaseLapses, BackoffEnds, AnchorMoves, vars
    <2> QED
        BY <1>2, <2>1
<1> QED
    BY <1>1, <1>4, <1>5, <1>6, <1>7, <1>8 DEF Next

(* The safety half of StrandedOnlyByCrash, for any number of workers,       *)
(* requests and callbacks: as long as no worker has died, a withdrawal that *)
(* is marked out of retries is closed, or the worker that marked it is      *)
(* about to write the dead letter; nothing that races with it takes that    *)
(* duty away.                                                               *)
THEOREM GivenUpIsBeingClosed == Spec => []GivenUpIsClosed
<1>1. Init => WritesGiveUp /\ GivenUpIsClosed
    BY DEF Init, WritesGiveUp, GivenUpIsClosed, Idle
<1>2. TrackInv /\ WritesGiveUp /\ [Next]_vars => WritesGiveUp'
    BY WritesStep
<1>3. TrackInv /\ WritesGiveUp /\ GivenUpIsClosed /\ [Next]_vars => GivenUpIsClosed'
    BY GiveUpStep
<1> QED
    BY <1>1, <1>2, <1>3, Tracked, PTL DEF Spec
=============================================================================
