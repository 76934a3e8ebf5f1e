----------------------- MODULE SettlementEngineProofs -----------------------
(***************************************************************************)
(* Machine-checked proofs about SettlementEngine, for any number of        *)
(* settlements, shares, envelopes, submitters and checkers of any kind.    *)
(* With leases that lapse at will: what is confirmed or settled was paid,  *)
(* and a status moves by the machine but for the updates by id.  With      *)
(* leases that outlive jobs: they exclude, and the retry budget holds.     *)
(***************************************************************************)
EXTENDS SettlementEngine, TLAPS

(* Every envelope or hash a row holds was signed for that settlement, *)
RowsMatch ==
    \A s \in Settlements :
        /\ xdr[s] # None => SettlementOf[xdr[s]] = s
        /\ txHash[s] # None => SettlementOf[txHash[s]] = s

(* and so was what a submitter *)
JobsMatch ==
    \A w \in Submitters : job[w].at # "idle" =>
        /\ job[w].s \in Settlements
        /\ job[w].env \in Envelopes
        /\ SettlementOf[job[w].env] = job[w].s

(* or a checker holds for the settlement it works on. *)
ChecksMatch ==
    \A c \in Checkers : chk[c].at # "idle" =>
        /\ chk[c].s \in Settlements
        /\ chk[c].hash \in Envelopes
        /\ SettlementOf[chk[c].hash] = chk[c].s

EnvelopesMatch == RowsMatch /\ JobsMatch /\ ChecksMatch

(* A check acting on a successful answer is about a transaction that is on *)
(* the ledger.                                                             *)
AnswersHold ==
    \A c \in Checkers :
        /\ chk[c].result = "ok" => chk[c].at # "idle" /\ LedgerOk(chk[c].hash)
        /\ chk[c].at = "share" => chk[c].result = "ok"

(* The inductive invariant. *)
IInv ==
    /\ TypeOK
    /\ EnvelopesMatch
    /\ AnswersHold
    /\ ConfirmedIsPaid
    /\ SettledShareIsPaid

-----------------------------------------------------------------------------
(* The part of TypeOK a transition can touch. *)
RowsTyped ==
    /\ status \in [Settlements -> RowStatuses]
    /\ xdr \in [Settlements -> Envelopes \cup {None}]
    /\ txHash \in [Settlements -> Envelopes \cup {None}]
    /\ retry \in [Settlements -> Nat]
    /\ deadLettered \in [Settlements -> BOOLEAN]
    /\ share \in [Shares -> {"open", "settling", "settled"}]

(* A transition, returning or throwing, leaves every column well typed. *)
LEMMA TransitionTyped ==
    ASSUME TypeOK,
           NEW s \in Settlements, NEW to \in SettlementStatuses,
           NEW hash \in Envelopes \cup {None}, NEW n \in Nat,
           NEW dead \in BOOLEAN,
           \/ TransitionReturns(s, to, hash, n, dead)
           \/ TransitionThrows(s, to)
    PROVE  RowsTyped'
<1>1. CASE TransitionChanged(s, to, hash, n, dead)
  BY <1>1, ConstantsAssumption
     DEF TypeOK, RowsTyped, TransitionChanged, WriteExtra, SettleShare, RowStatuses
<1>2. CASE TransitionSame(s, to, hash, n, dead)
  BY <1>2 DEF TypeOK, RowsTyped, TransitionSame, WriteExtra
<1>3. CASE TransitionRaced(s, to) \/ TransitionThrows(s, to)
  BY <1>3 DEF TypeOK, RowsTyped, TransitionRaced, TransitionThrows, rowVars
<1>4. QED
  BY <1>1, <1>2, <1>3 DEF TransitionReturns

(* A transition keeps the row's envelopes its own, confirms only when told *)
(* to, and settles only the share of the settlement it confirms.           *)
LEMMA TransitionEffect ==
    ASSUME TypeOK,
           NEW s \in Settlements, NEW to \in SettlementStatuses,
           NEW hash \in Envelopes \cup {None}, NEW n \in Nat,
           NEW dead \in BOOLEAN,
           \/ TransitionReturns(s, to, hash, n, dead)
           \/ TransitionThrows(s, to)
    PROVE  /\ xdr' = xdr
           /\ \A t \in Settlements :
                 txHash'[t] = txHash[t] \/ (t = s /\ txHash'[t] = hash)
           /\ \A t \in Settlements : status'[t] = "confirmed" =>
                 status[t] = "confirmed" \/ (t = s /\ to = "confirmed")
           /\ \A x \in Shares : share'[x] = "settled" =>
                 share[x] = "settled" \/ (ShareOf[s] = x /\ to = "confirmed")
<1>1. CASE TransitionChanged(s, to, hash, n, dead)
  BY <1>1, ConstantsAssumption
     DEF TypeOK, TransitionChanged, WriteExtra, SettleShare
<1>2. CASE TransitionSame(s, to, hash, n, dead)
  BY <1>2 DEF TypeOK, TransitionSame, WriteExtra
<1>3. CASE TransitionRaced(s, to) \/ TransitionThrows(s, to)
  BY <1>3 DEF TypeOK, TransitionRaced, TransitionThrows, rowVars
<1>4. QED
  BY <1>1, <1>2, <1>3 DEF TransitionReturns
(* A step of the API, of time or of the network keeps every type. *)
LEMMA WorldTyped ==
    ASSUME TypeOK,
           \/ \E s \in Settlements : \/ CreateCheck(s) \/ CreateWrite(s)
                                     \/ CreateAborts(s) \/ CreateFreeform(s)
                                     \/ LeaseLapses(s) \/ CloseWindow(s)
           \/ \E s \in Settlements, e \in Envelopes : AcceptEnvelope(s, e)
           \/ RecoverStale
           \/ \E e \in Envelopes : LedgerResolves(e) \/ LedgerShows(e)
    PROVE  TypeOK'
<1> USE ConstantsAssumption
<1>1. ASSUME NEW s \in Settlements, CreateCheck(s) \/ CreateAborts(s)
      PROVE  TypeOK'
  BY <1>1 DEF TypeOK, CreateCheck, CreateAborts, rowVars, leaseVars, worldVars, pastVars
<1>2. ASSUME NEW s \in Settlements, CreateWrite(s)
      PROVE  TypeOK'
  BY <1>2 DEF TypeOK, CreateWrite, leaseVars, worldVars, pastVars,
              RowStatuses, SettlementStatuses
<1>3. ASSUME NEW s \in Settlements, CreateFreeform(s)
      PROVE  TypeOK'
  BY <1>3 DEF TypeOK, CreateFreeform, leaseVars, worldVars, pastVars,
              RowStatuses, SettlementStatuses
<1>4. ASSUME NEW s \in Settlements, LeaseLapses(s)
      PROVE  TypeOK'
  BY <1>4 DEF TypeOK, LeaseLapses, rowVars, worldVars, pastVars
<1>5. ASSUME NEW s \in Settlements, CloseWindow(s)
      PROVE  TypeOK'
  BY <1>5 DEF TypeOK, CloseWindow, rowVars, leaseVars, pastVars
<1>6. ASSUME NEW s \in Settlements, NEW e \in Envelopes, AcceptEnvelope(s, e)
      PROVE  TypeOK'
  BY <1>6 DEF TypeOK, AcceptEnvelope, leaseVars, worldVars,
              RowStatuses, SettlementStatuses
<1>7. CASE RecoverStale
  BY <1>7 DEF TypeOK, RecoverStale, rowVars, worldVars, pastVars
<1>8. ASSUME NEW e \in Envelopes, LedgerResolves(e)
      PROVE  TypeOK'
  <2>1. ledger' \in [Envelopes -> {"none", "queued", "applied", "ok", "failed"}]
    BY <1>8 DEF TypeOK, LedgerResolves
  <2>2. QED
    BY <1>8, <2>1 DEF TypeOK, LedgerResolves, rowVars, leaseVars, pastVars
<1>9. ASSUME NEW e \in Envelopes, LedgerShows(e)
      PROVE  TypeOK'
  BY <1>9 DEF TypeOK, LedgerShows, rowVars, leaseVars, pastVars
<1>10. QED
  BY <1>1, <1>2, <1>3, <1>4, <1>5, <1>6, <1>7, <1>8, <1>9

(* A submitter's step keeps every type. *)
LEMMA JobTyped ==
    ASSUME TypeOK, EnvelopesMatch, NEW w \in Submitters,
           \/ \E s \in Settlements : Fetch(w, s)
           \/ JobStep(w) \/ CrashJob(w)
    PROVE  TypeOK'
<1> USE ConstantsAssumption
<1>1. IdleJob \in Job
  BY DEF IdleJob, Job, RowStatuses
<1>2. job[w] \in Job
  BY DEF TypeOK
<1>3. ASSUME NEW s \in Settlements, Fetch(w, s)
      PROVE  TypeOK'
  <2>1. [at |-> "fetched", s |-> s, env |-> xdr[s], seen |-> status[s],
         attempt |-> retry[s], cat |-> "none"] \in Job
    BY DEF TypeOK, Job
  <2>2. QED
    BY <1>3, <2>1 DEF TypeOK, Fetch, rowVars, leaseVars, worldVars, pastVars
<1>4. ASSUME NEW a \in {"claimed", "begin", "release"}
      PROVE  [job EXCEPT ![w].at = a] \in [Submitters -> Job]
  BY <1>2 DEF TypeOK, Job
<1>5. job[w].at # "idle" =>
         /\ job[w].s \in Settlements
         /\ job[w].env \in Envelopes
         /\ job[w].attempt \in Nat
         /\ txHash[job[w].s] \in Envelopes \cup {None}
         /\ retry[job[w].s] \in Nat
         /\ deadLettered[job[w].s] \in BOOLEAN
  BY <1>2 DEF EnvelopesMatch, JobsMatch, TypeOK, Job
<1>19. CASE Claim(w)
  <2>1. CASE Claimable(w)
    <3>1. job' \in [Submitters -> Job]
      BY <1>4, <1>19, <2>1 DEF Claim
    <3>2. QED
      BY <1>5, <1>19, <2>1, <3>1
         DEF TypeOK, Claim, TakeLease, rowVars, worldVars, pastVars
  <2>2. CASE ~ Claimable(w)
    BY <1>1, <1>19, <2>2
       DEF TypeOK, Claim, rowVars, leaseVars, worldVars, pastVars
  <2>3. QED
    BY <2>1, <2>2
<1>6. ASSUME FailSettlement(w), job[w].at # "idle",
             UNCHANGED <<leaseVars, worldVars, creating, chk, pastVars>>
      PROVE  TypeOK'
  <2>1. RowsTyped'
    BY <1>5, <1>6, TransitionTyped DEF FailSettlement, SettlementStatuses
  <2>2. job' \in [Submitters -> Job]
    BY <1>2, <1>6 DEF FailSettlement, TypeOK, Job
  <2>3. QED
    BY <1>6, <2>1, <2>2 DEF TypeOK, RowsTyped, leaseVars, worldVars, pastVars
<1>7. CASE Refuse(w)
  BY <1>6, <1>7 DEF Refuse
<1>8. CASE GiveUp(w)
  BY <1>6, <1>8 DEF GiveUp
<1>9. CASE Prepare(w)
  <2>1. RowsTyped'
    <3>1. CASE job[w].seen = "submitted"
      BY <1>5, <1>9, <3>1, TransitionTyped DEF Prepare, SettlementStatuses
    <3>2. CASE job[w].seen # "submitted"
      BY <1>9, <3>2 DEF Prepare, TypeOK, RowsTyped, rowVars
    <3>3. QED
      BY <3>1, <3>2
  <2>2. job' \in [Submitters -> Job]
    <3>1. \/ job' = [job EXCEPT ![w].at = "begin"]
          \/ job' = [job EXCEPT ![w].at = "release"]
      BY <1>9, Zenon DEF Prepare
    <3>2. QED
      BY <1>4, <3>1
  <2>3. QED
    BY <1>9, <2>1, <2>2 DEF Prepare, TypeOK, RowsTyped, leaseVars, worldVars, pastVars
<1>10. CASE BeginAttempt(w)
  <2>1. job' \in [Submitters -> Job]
    BY <1>2, <1>10 DEF BeginAttempt, TypeOK, Job
  <2>2. QED
    BY <1>5, <1>10, <2>1 DEF BeginAttempt, RenewLease, TypeOK, worldVars, pastVars
<1>11. CASE Submit(w)
  <2>1. ASSUME NEW at \in {"record", "caught"},
               NEW cat \in {"none", "transient", "indeterminate", "permanent"},
               NEW fate \in {"none", "queued", "applied", "ok", "failed"},
               SubmitOutcome(w, at, cat, job[w].env, fate)
        PROVE  /\ job' \in [Submitters -> Job]
               /\ ledger' \in [Envelopes -> {"none", "queued", "applied", "ok", "failed"}]
    BY <1>2, <2>1 DEF SubmitOutcome, TypeOK, Job
  <2>2. /\ job' \in [Submitters -> Job]
        /\ ledger' \in [Envelopes -> {"none", "queued", "applied", "ok", "failed"}]
    <3>1. ledger[job[w].env] \in {"none", "queued", "applied", "ok", "failed"}
      BY <1>5, <1>11 DEF Submit, TypeOK
    <3>2. QED
      BY <1>11, <2>1, <3>1 DEF Submit
  <2>3. sent' \in [Settlements -> Nat]
    <3>1. sent' = [sent EXCEPT ![job[w].s] =
                     IF sent[job[w].s] > MaxAttempts THEN sent[job[w].s]
                     ELSE sent[job[w].s] + 1]
      BY <1>11 DEF Submit
    <3>2. QED
      BY <1>5, <1>11, <3>1 DEF Submit, TypeOK
  <2>4. QED
    BY <1>11, <2>2, <2>3 DEF Submit, TypeOK, rowVars, leaseVars
<1>12. CASE Record(w)
  <2>1. RowsTyped'
    <3>1. CASE UNCHANGED <<rowVars, share>>
      BY <3>1 DEF TypeOK, RowsTyped, rowVars
    <3>2. CASE ~ UNCHANGED <<rowVars, share>>
      BY <1>5, <1>12, <3>2, TransitionTyped DEF Record, SettlementStatuses
    <3>3. QED
      BY <3>1, <3>2
  <2>2. job' \in [Submitters -> Job]
    <3>1. \/ job' = [job EXCEPT ![w].at = "poll"]
          \/ job' = [job EXCEPT ![w].at = "caught", ![w].cat = "permanent"]
          \/ job' = [job EXCEPT ![w].at = "caught", ![w].cat = "indeterminate"]
      BY <1>12, Zenon DEF Record
    <3>2. job \in [Submitters -> Job]
      BY DEF TypeOK
    <3>3. QED
      BY <3>1, <3>2 DEF Job
  <2>3. UNCHANGED <<leaseVars, worldVars, creating, chk, pastVars>>
    BY <1>12, Zenon DEF Record
  <2>4. QED
    BY <2>1, <2>2, <2>3 DEF TypeOK, RowsTyped, leaseVars, worldVars, pastVars
<1>13. CASE Poll(w)
  <2>1. PICK to \in SettlementStatuses, hash \in Envelopes \cup {None},
             n \in Nat, dead \in BOOLEAN : PollWrites(w, to, hash, n, dead)
    <3>1. CASE PollWrites(w, "confirmed", job[w].env, 0, deadLettered[job[w].s])
      BY <1>5, <1>13, <3>1 DEF Poll, SettlementStatuses
    <3>2. CASE PollWrites(w, "failed", txHash[job[w].s], job[w].attempt, TRUE)
      BY <1>5, <1>13, <3>2 DEF Poll, SettlementStatuses
    <3>3. CASE PollWrites(w, "needs_review", job[w].env, retry[job[w].s],
                          deadLettered[job[w].s])
      BY <1>5, <1>13, <3>3 DEF Poll, SettlementStatuses
    <3>4. QED
      BY <1>13, <3>1, <3>2, <3>3 DEF Poll
  <2>2. RowsTyped'
    BY <1>5, <1>13, <2>1, TransitionTyped DEF Poll, PollWrites
  <2>3. job' \in [Submitters -> Job]
    <3>1. \/ job' = [job EXCEPT ![w].at = "release"]
          \/ job' = [job EXCEPT ![w].at = "caught", ![w].cat = "permanent"]
      BY <2>1, Zenon DEF PollWrites
    <3>2. CASE job' = [job EXCEPT ![w].at = "release"]
      BY <1>4, <3>2
    <3>3. CASE job' = [job EXCEPT ![w].at = "caught", ![w].cat = "permanent"]
      BY <1>2, <3>3 DEF TypeOK, Job
    <3>4. QED
      BY <3>1, <3>2, <3>3
  <2>4. QED
    BY <1>13, <2>2, <2>3 DEF Poll, TypeOK, RowsTyped, leaseVars, worldVars, pastVars
<1>14. CASE Retry(w)
  <2>1. job' \in [Submitters -> Job]
    BY <1>2, <1>14 DEF Retry, ScheduleRetry, TypeOK, Job
  <2>2. QED
    BY <1>5, <1>14, <2>1
       DEF Retry, ScheduleRetry, RenewLease, TypeOK, worldVars, pastVars
<1>15. CASE AlreadyApplied(w)
  <2>1. CASE FailSettlement(w)
    BY <1>6, <1>15, <2>1 DEF AlreadyApplied
  <2>2. CASE /\ \/ TransitionReturns(job[w].s, "confirmed", job[w].env, 0,
                                     deadLettered[job[w].s])
                \/ TransitionThrows(job[w].s, "confirmed")
             /\ job' = [job EXCEPT ![w].at = "release"]
    <3>1. RowsTyped'
      <4>1. PICK dead \in BOOLEAN :
               \/ TransitionReturns(job[w].s, "confirmed", job[w].env, 0, dead)
               \/ TransitionThrows(job[w].s, "confirmed")
        BY <1>5, <1>15, <2>2, Zenon DEF AlreadyApplied
      <4>2. CASE TransitionReturns(job[w].s, "confirmed", job[w].env, 0, dead)
        <5>1. /\ job[w].s \in Settlements
              /\ job[w].env \in Envelopes \cup {None}
          BY <1>5, <1>15 DEF AlreadyApplied
        <5>2. "confirmed" \in SettlementStatuses
          BY DEF SettlementStatuses
        <5>3. QED
          BY <4>2, <5>1, <5>2, TransitionTyped
      <4>3. CASE TransitionThrows(job[w].s, "confirmed")
        BY <4>3 DEF TransitionThrows, TypeOK, RowsTyped, rowVars
      <4>4. QED
        BY <4>1, <4>2, <4>3
    <3>2. job' \in [Submitters -> Job]
      <4>1. job' = [job EXCEPT ![w].at = "release"]
        BY <2>2, Zenon
      <4>2. QED
        BY <1>4, <4>1
    <3>3. QED
      BY <1>15, <3>1, <3>2
         DEF AlreadyApplied, TypeOK, RowsTyped, leaseVars, worldVars, pastVars
  <2>3. QED
    BY <1>15, <2>1, <2>2, Zenon DEF AlreadyApplied
<1>16. CASE Release(w)
  BY <1>1, <1>16 DEF Release, ReleaseLease, TypeOK, rowVars, leaseVars,
                     worldVars, pastVars
<1>17. CASE CrashJob(w)
  BY <1>1, <1>17 DEF CrashJob, TypeOK, rowVars, leaseVars, worldVars
<1>18. QED
  BY <1>3, <1>19, <1>7, <1>8, <1>9, <1>10, <1>11, <1>12, <1>13, <1>14, <1>15,
     <1>16, <1>17 DEF JobStep
-----------------------------------------------------------------------------
(* What a step may do to the statuses and the shares: report confirmed, or *)
(* settle, only what has been paid for.                                    *)
Grounded ==
    /\ \A s \in Settlements : status'[s] = "confirmed" =>
          status[s] = "confirmed" \/ Paid(s)
    /\ \A x \in Shares : share'[x] = "settled" =>
          share[x] = "settled" \/ \E s \in Settlements : ShareOf[s] = x /\ Paid(s)

(* A transition of a paid settlement, or one to another status, is         *)
(* grounded and keeps the row's hash its own.                              *)
LEMMA TransitionGrounded ==
    ASSUME TypeOK, RowsMatch,
           NEW s \in Settlements, NEW to \in SettlementStatuses,
           NEW hash \in Envelopes \cup {None}, NEW n \in Nat,
           NEW dead \in BOOLEAN,
           \/ TransitionReturns(s, to, hash, n, dead)
           \/ TransitionThrows(s, to),
           to = "confirmed" => Paid(s),
           hash # None => SettlementOf[hash] = s
    PROVE  RowsMatch' /\ Grounded
<1>1. /\ xdr' = xdr
      /\ \A t \in Settlements :
            txHash'[t] = txHash[t] \/ (t = s /\ txHash'[t] = hash)
      /\ \A t \in Settlements : status'[t] = "confirmed" =>
            status[t] = "confirmed" \/ (t = s /\ to = "confirmed")
      /\ \A x \in Shares : share'[x] = "settled" =>
            share[x] = "settled" \/ (ShareOf[s] = x /\ to = "confirmed")
  BY TransitionEffect
<1>2. RowsMatch'
  BY <1>1 DEF RowsMatch
<1>3. Grounded
  BY <1>1 DEF Grounded
<1>4. QED
  BY <1>2, <1>3

(* A step that leaves statuses, hashes and shares alone is grounded. *)
LEMMA QuietGrounded ==
    ASSUME RowsMatch, UNCHANGED <<status, xdr, txHash, share>>
    PROVE  RowsMatch' /\ Grounded
BY DEF RowsMatch, Grounded

(* A submitter writes a status only through the state machine, records no  *)
(* hash but its own envelope's, confirms only what it saw applied, and     *)
(* sets the retry count of a row it leaves open only where it counts.      *)
LEMMA JobRows ==
    ASSUME TypeOK, EnvelopesMatch, NEW w \in Submitters, JobStep(w)
    PROVE  \/ /\ UNCHANGED <<status, xdr, txHash, share>>
              /\ retry' = retry \/ BeginAttempt(w) \/ Retry(w)
           \/ \E to \in SettlementStatuses, hash \in Envelopes \cup {None},
                 n \in Nat, dead \in BOOLEAN :
                 /\ \/ TransitionReturns(job[w].s, to, hash, n, dead)
                    \/ TransitionThrows(job[w].s, to)
                 /\ job[w].at # "idle"
                 /\ to = "confirmed" => LedgerOk(job[w].env)
                 /\ hash = job[w].env \/ hash = txHash[job[w].s]
                 /\ to # "submitted"
                 /\ to \in Submittable => n = retry[job[w].s]
<1> DEFINE s == job[w].s
           e == job[w].env
           Goal == \E to \in SettlementStatuses, hash \in Envelopes \cup {None},
                      n \in Nat, dead \in BOOLEAN :
                      /\ \/ TransitionReturns(s, to, hash, n, dead)
                         \/ TransitionThrows(s, to)
                      /\ job[w].at # "idle"
                      /\ to = "confirmed" => LedgerOk(e)
                      /\ hash = e \/ hash = txHash[s]
                      /\ to # "submitted"
                      /\ to \in Submittable => n = retry[s]
<1>1. job[w].at # "idle" =>
         /\ e \in Envelopes \cup {None}
         /\ txHash[s] \in Envelopes \cup {None}
         /\ job[w].attempt \in Nat
         /\ retry[s] \in Nat
         /\ deadLettered[s] \in BOOLEAN
  BY DEF EnvelopesMatch, JobsMatch, TypeOK, Job
<1>2. /\ {"verifying", "needs_review", "failed", "confirmed"} \subseteq SettlementStatuses
      /\ 0 \in Nat /\ TRUE \in BOOLEAN
  BY DEF SettlementStatuses
<1>3. ASSUME NEW hash, hash = e \/ hash = txHash[s], job[w].at # "idle",
             NEW n \in Nat,
             NEW to \in {"verifying", "needs_review", "failed", "confirmed"},
             to = "confirmed" => LedgerOk(e),
             to = "verifying" => n = retry[s],
             NEW dead \in BOOLEAN,
             \/ TransitionReturns(s, to, hash, n, dead)
             \/ TransitionThrows(s, to)
      PROVE  Goal
  <2>1. to # "submitted" /\ (to \in Submittable => n = retry[s])
    BY <1>3 DEF Submittable
  <2>2. to \in SettlementStatuses /\ hash \in Envelopes \cup {None}
    BY <1>1, <1>2, <1>3
  <2>3. QED
    BY <1>3, <2>1, <2>2, Zenon
<1>4. ASSUME job[w].at # "idle", FailSettlement(w)
      PROVE  Goal
  BY <1>1, <1>2, <1>3, <1>4 DEF FailSettlement
<1>5. CASE Refuse(w)
  BY <1>4, <1>5 DEF Refuse
<1>6. CASE GiveUp(w)
  BY <1>4, <1>6 DEF GiveUp
<1>7. CASE Prepare(w)
  <2>1. CASE job[w].seen = "submitted"
    <3>1. /\ job[w].at # "idle"
          /\ \/ TransitionReturns(s, "verifying", txHash[s], retry[s], deadLettered[s])
             \/ TransitionThrows(s, "verifying")
      BY <1>7, <2>1, Zenon DEF Prepare
    <3>2. QED
      BY <1>1, <1>3, <3>1, Zenon
  <2>2. CASE job[w].seen # "submitted"
    BY <1>7, <2>2 DEF Prepare, rowVars
  <2>3. QED
    BY <2>1, <2>2
<1>8. CASE Record(w)
  <2>1. CASE \/ TransitionReturns(s, "verifying", e, retry[s], deadLettered[s])
             \/ TransitionThrows(s, "verifying")
    <3>1. job[w].at # "idle"
      BY <1>8, Zenon DEF Record
    <3>2. QED
      BY <1>1, <1>3, <2>1, <3>1, Zenon
  <2>2. CASE UNCHANGED <<rowVars, share>>
    BY <2>2 DEF rowVars
  <2>3. QED
    BY <1>8, <2>1, <2>2, Zenon DEF Record
<1>9. CASE Poll(w)
  <2>1. job[w].at # "idle"
    BY <1>9, Zenon DEF Poll
  <2>2. CASE ledger[e] = "ok" /\ PollWrites(w, "confirmed", e, 0, deadLettered[s])
    <3>1. LedgerOk(e)
      BY <2>2 DEF LedgerOk
    <3>2. \/ TransitionReturns(s, "confirmed", e, 0, deadLettered[s])
          \/ TransitionThrows(s, "confirmed")
      BY <2>2, Zenon DEF PollWrites
    <3>3. QED
      BY <1>1, <1>2, <1>3, <2>1, <3>1, <3>2, Zenon
  <2>3. CASE PollWrites(w, "failed", txHash[s], job[w].attempt, TRUE)
    <3>1. \/ TransitionReturns(s, "failed", txHash[s], job[w].attempt, TRUE)
          \/ TransitionThrows(s, "failed")
      BY <2>3, Zenon DEF PollWrites
    <3>2. QED
      BY <1>1, <1>2, <1>3, <2>1, <3>1, Zenon
  <2>4. CASE PollWrites(w, "needs_review", e, retry[s], deadLettered[s])
    <3>1. \/ TransitionReturns(s, "needs_review", e, retry[s], deadLettered[s])
          \/ TransitionThrows(s, "needs_review")
      BY <2>4, Zenon DEF PollWrites
    <3>2. QED
      BY <1>1, <1>3, <2>1, <3>1, Zenon
  <2>5. QED
    BY <1>9, <2>2, <2>3, <2>4, Zenon DEF Poll
<1>10. CASE AlreadyApplied(w)
  <2>1. job[w].at # "idle"
    BY <1>10, Zenon DEF AlreadyApplied
  <2>2. CASE /\ ledger[e] = "ok"
             /\ \/ TransitionReturns(s, "confirmed", e, 0, deadLettered[s])
                \/ TransitionThrows(s, "confirmed")
    <3>1. LedgerOk(e)
      BY <2>2 DEF LedgerOk
    <3>2. QED
      BY <1>1, <1>2, <1>3, <2>1, <2>2, <3>1, Zenon
  <2>3. CASE FailSettlement(w)
    BY <1>4, <2>1, <2>3
  <2>4. QED
    BY <1>10, <2>2, <2>3, Zenon DEF AlreadyApplied
<1>11. CASE Claim(w) \/ BeginAttempt(w) \/ Submit(w) \/ Retry(w) \/ Release(w)
  BY <1>11 DEF Claim, BeginAttempt, Submit, Retry, ScheduleRetry, Release, rowVars
<1>12. QED
  BY <1>5, <1>6, <1>7, <1>8, <1>9, <1>10, <1>11 DEF JobStep

(* A submitter keeps its row and its envelope from claim to release. *)
LEMMA JobKeeps ==
    ASSUME TypeOK, NEW w \in Submitters, JobStep(w) \/ CrashJob(w)
    PROVE  /\ chk' = chk
           /\ \A v \in Submitters : job'[v].at # "idle" =>
                 /\ job[v].at # "idle"
                 /\ job'[v].s = job[v].s
                 /\ job'[v].env = job[v].env
<1>1. CASE Claim(w)
  BY <1>1 DEF Claim, TypeOK, IdleJob, Job
<1>2. ASSUME NEW a, job' = [job EXCEPT ![w].at = a], job[w].at # "idle"
      PROVE  \A v \in Submitters : job'[v].at # "idle" =>
                 /\ job[v].at # "idle"
                 /\ job'[v].s = job[v].s
                 /\ job'[v].env = job[v].env
  BY <1>2 DEF TypeOK, Job
<1>3. ASSUME NEW a, NEW k, job[w].at # "idle",
             job' = [job EXCEPT ![w].at = a, ![w].cat = k]
      PROVE  \A v \in Submitters : job'[v].at # "idle" =>
                 /\ job[v].at # "idle"
                 /\ job'[v].s = job[v].s
                 /\ job'[v].env = job[v].env
  BY <1>3 DEF TypeOK, Job
<1>4. CASE Refuse(w) \/ GiveUp(w)
  <2>1. job' = [job EXCEPT ![w].at = "release"] /\ job[w].at # "idle" /\ chk' = chk
    BY <1>4, Zenon DEF Refuse, GiveUp, FailSettlement
  <2>2. QED
    BY <1>2, <2>1, Zenon
<1>5. CASE Prepare(w)
  <2>1. /\ \/ job' = [job EXCEPT ![w].at = "begin"]
           \/ job' = [job EXCEPT ![w].at = "release"]
        /\ job[w].at # "idle" /\ chk' = chk
    BY <1>5, Zenon DEF Prepare
  <2>2. QED
    BY <1>2, <2>1, Zenon
<1>6. CASE BeginAttempt(w)
  BY <1>6 DEF BeginAttempt, TypeOK, Job
<1>7. CASE Submit(w)
  <2>1. PICK a, k : job' = [job EXCEPT ![w].at = a, ![w].cat = k]
    BY <1>7, Zenon DEF Submit, SubmitOutcome
  <2>2. job[w].at # "idle" /\ chk' = chk
    BY <1>7 DEF Submit
  <2>3. QED
    BY <1>3, <2>1, <2>2
<1>8. CASE Record(w)
  <2>1. \/ job' = [job EXCEPT ![w].at = "poll"]
        \/ job' = [job EXCEPT ![w].at = "caught", ![w].cat = "permanent"]
        \/ job' = [job EXCEPT ![w].at = "caught", ![w].cat = "indeterminate"]
    BY <1>8, Zenon DEF Record
  <2>2. job[w].at # "idle" /\ chk' = chk
    BY <1>8, Zenon DEF Record
  <2>3. QED
    BY <1>2, <1>3, <2>1, <2>2, Zenon
<1>9. CASE Poll(w)
  <2>1. \/ job' = [job EXCEPT ![w].at = "release"]
        \/ job' = [job EXCEPT ![w].at = "caught", ![w].cat = "permanent"]
    BY <1>9, Zenon DEF Poll, PollWrites
  <2>2. job[w].at # "idle" /\ chk' = chk
    BY <1>9, Zenon DEF Poll
  <2>3. QED
    BY <1>2, <1>3, <2>1, <2>2, Zenon
<1>10. CASE AlreadyApplied(w)
  <2>1. job' = [job EXCEPT ![w].at = "release"] /\ job[w].at # "idle" /\ chk' = chk
    BY <1>10, Zenon DEF AlreadyApplied, FailSettlement
  <2>2. QED
    BY <1>2, <2>1, Zenon
<1>11. CASE Retry(w)
  BY <1>11 DEF Retry, ScheduleRetry, TypeOK, Job
<1>12. CASE Release(w) \/ CrashJob(w)
  BY <1>12 DEF Release, CrashJob, TypeOK, IdleJob, Job
<1>13. QED
  BY <1>1, <1>4, <1>5, <1>6, <1>7, <1>8, <1>9, <1>10, <1>11, <1>12 DEF JobStep

(* What succeeded on the ledger stays. *)
LedgerGrows == \A e \in Envelopes : LedgerOk(e) => LedgerOk(e)'

(* A submitter's step keeps envelopes with their settlements, undoes no    *)
(* payment and is grounded.                                                *)
LEMMA JobSafe ==
    ASSUME TypeOK, EnvelopesMatch, AnswersHold, NEW w \in Submitters,
           \/ \E s \in Settlements : Fetch(w, s)
           \/ JobStep(w) \/ CrashJob(w)
    PROVE  EnvelopesMatch' /\ AnswersHold' /\ LedgerGrows /\ Grounded
<1>1. LedgerGrows
  <2>1. CASE Submit(w)
    <3>1. job[w].env \in Envelopes
      BY <2>1 DEF EnvelopesMatch, JobsMatch, Submit
    <3>2. QED
      BY <2>1, <3>1 DEF Submit, SubmitOutcome, LedgerGrows, LedgerOk, TypeOK
  <2>2. CASE ~ Submit(w)
    <3>1. ledger' = ledger
      BY <2>2, Zenon DEF Fetch, JobStep, CrashJob, Claim, Refuse, Prepare, BeginAttempt,
                  Record, Poll, GiveUp, Retry, AlreadyApplied, Release, worldVars
    <3>2. QED
      BY <3>1 DEF LedgerGrows, LedgerOk
  <2>3. QED
    BY <2>1, <2>2
<1>2. CASE \E s \in Settlements : Fetch(w, s)
  <2>1. PICK s \in Settlements : Fetch(w, s)
    BY <1>2
  <2>2. RowsMatch' /\ Grounded
    BY <2>1, QuietGrounded DEF Fetch, EnvelopesMatch, rowVars
  <2>3. JobsMatch'
    BY <2>1 DEF Fetch, EnvelopesMatch, RowsMatch, JobsMatch, TypeOK, rowVars
  <2>4. ChecksMatch' /\ AnswersHold'
    BY <2>1, <1>1 DEF Fetch, EnvelopesMatch, ChecksMatch, AnswersHold, LedgerGrows,
                      LedgerOk, worldVars
  <2>5. QED
    BY <1>1, <2>2, <2>3, <2>4 DEF EnvelopesMatch
<1>3. CASE JobStep(w) \/ CrashJob(w)
  <2>1. RowsMatch' /\ Grounded
    <3>1. CASE UNCHANGED <<status, xdr, txHash, share>>
      BY <3>1, QuietGrounded DEF EnvelopesMatch
    <3>2. CASE JobStep(w) /\ ~ UNCHANGED <<status, xdr, txHash, share>>
      <4>1. PICK to \in SettlementStatuses, hash \in Envelopes \cup {None},
                 n \in Nat, dead \in BOOLEAN :
                 /\ \/ TransitionReturns(job[w].s, to, hash, n, dead)
                    \/ TransitionThrows(job[w].s, to)
                 /\ job[w].at # "idle"
                 /\ to = "confirmed" => LedgerOk(job[w].env)
                 /\ hash = job[w].env \/ hash = txHash[job[w].s]
                 /\ to \in Submittable => n = retry[job[w].s]
        BY <3>2, JobRows, Zenon
      <4>2. /\ job[w].s \in Settlements
            /\ to = "confirmed" => Paid(job[w].s)
            /\ hash # None => SettlementOf[hash] = job[w].s
        BY <4>1 DEF EnvelopesMatch, JobsMatch, RowsMatch, Paid
      <4>3. RowsMatch
        BY DEF EnvelopesMatch
      <4>4. QED
        BY <4>1, <4>2, <4>3, TransitionGrounded
    <3>3. CASE CrashJob(w)
      BY <3>3, QuietGrounded DEF CrashJob, EnvelopesMatch, rowVars
    <3>4. QED
      BY <1>3, <3>1, <3>2, <3>3
  <2>2. JobsMatch'
    BY <1>3, JobKeeps DEF EnvelopesMatch, JobsMatch
  <2>3. chk' = chk
    BY <1>3, JobKeeps
  <2>4. ChecksMatch'
    BY <2>3 DEF EnvelopesMatch, ChecksMatch
  <2>5. AnswersHold'
    BY <1>1, <2>3 DEF EnvelopesMatch, ChecksMatch, AnswersHold, LedgerGrows, LedgerOk
  <2>6. QED
    BY <1>1, <2>1, <2>2, <2>4, <2>5 DEF EnvelopesMatch
<1>4. QED
  BY <1>2, <1>3

(* A step of the API, of time or of the network does, too. *)
LEMMA WorldSafe ==
    ASSUME TypeOK, EnvelopesMatch, AnswersHold,
           \/ \E s \in Settlements : \/ CreateCheck(s) \/ CreateWrite(s)
                                     \/ CreateAborts(s) \/ CreateFreeform(s)
                                     \/ LeaseLapses(s) \/ CloseWindow(s)
           \/ \E s \in Settlements, e \in Envelopes : AcceptEnvelope(s, e)
           \/ RecoverStale
           \/ \E e \in Envelopes : LedgerResolves(e) \/ LedgerShows(e)
    PROVE  EnvelopesMatch' /\ AnswersHold' /\ LedgerGrows /\ Grounded
<1>1. UNCHANGED <<job, chk>>
  BY DEF CreateCheck, CreateWrite, CreateAborts, CreateFreeform, LeaseLapses, CloseWindow, AcceptEnvelope,
         RecoverStale, LedgerResolves, LedgerShows
<1>2. LedgerGrows
  <2>1. ASSUME NEW e \in Envelopes, LedgerResolves(e) \/ LedgerShows(e)
        PROVE  LedgerGrows
    BY <2>1 DEF LedgerResolves, LedgerShows, LedgerGrows, LedgerOk, TypeOK
  <2>2. ASSUME ledger' = ledger
        PROVE  LedgerGrows
    BY <2>2 DEF LedgerGrows, LedgerOk
  <2>3. QED
    BY <2>1, <2>2 DEF CreateCheck, CreateWrite, CreateAborts, CreateFreeform, LeaseLapses, CloseWindow,
                      AcceptEnvelope, RecoverStale, worldVars
<1>3. RowsMatch' /\ Grounded
  <2>1. ASSUME NEW s \in Settlements, CreateWrite(s)
        PROVE  RowsMatch' /\ Grounded
    BY <2>1, ConstantsAssumption
       DEF CreateWrite, EnvelopesMatch, RowsMatch, Grounded, TypeOK
  <2>5. ASSUME NEW s \in Settlements, CreateFreeform(s)
        PROVE  RowsMatch' /\ Grounded
    BY <2>5 DEF CreateFreeform, EnvelopesMatch, RowsMatch, Grounded, TypeOK
  <2>2. ASSUME NEW s \in Settlements, NEW e \in Envelopes, AcceptEnvelope(s, e)
        PROVE  RowsMatch' /\ Grounded
    BY <2>2 DEF AcceptEnvelope, EnvelopesMatch, RowsMatch, Grounded, TypeOK
  <2>3. ASSUME UNCHANGED <<status, xdr, txHash, share>>
        PROVE  RowsMatch' /\ Grounded
    BY <2>3, QuietGrounded DEF EnvelopesMatch
  <2>4. QED
    BY <2>1, <2>2, <2>3, <2>5 DEF CreateCheck, CreateAborts, LeaseLapses, CloseWindow, RecoverStale,
                            LedgerResolves, LedgerShows, rowVars
<1>4. JobsMatch' /\ ChecksMatch'
  BY <1>1 DEF EnvelopesMatch, JobsMatch, ChecksMatch
<1>5. AnswersHold'
  BY <1>1, <1>2 DEF EnvelopesMatch, ChecksMatch, AnswersHold, LedgerGrows, LedgerOk
<1>6. QED
  BY <1>2, <1>3, <1>4, <1>5 DEF EnvelopesMatch

-----------------------------------------------------------------------------
(* A checker keeps its row and its hash until it is done, and acts on a    *)
(* successful answer only while the answer is one.                         *)
LEMMA CheckKeeps ==
    ASSUME TypeOK, ChecksMatch, AnswersHold, NEW c \in Checkers,
           CheckStep(c) \/ CheckUnanswered(c) \/ CrashCheck(c)
    PROVE  /\ UNCHANGED <<job, ledger>>
           /\ chk' \in [Checkers -> Check]
           /\ ChecksMatch'
           /\ AnswersHold'
<1> USE ConstantsAssumption
<1> DEFINE Fits(new) == /\ new \in Check
                        /\ new.at # "idle" =>
                              /\ new.s \in Settlements
                              /\ new.hash \in Envelopes
                              /\ SettlementOf[new.hash] = new.s
                        /\ new.result = "ok" => new.at # "idle" /\ LedgerOk(new.hash)
                        /\ new.at = "share" => new.result = "ok"
<1>1. ASSUME NEW new, Fits(new), chk' = [chk EXCEPT ![c] = new],
             UNCHANGED <<job, ledger>>
      PROVE  /\ UNCHANGED <<job, ledger>>
             /\ chk' \in [Checkers -> Check]
             /\ ChecksMatch'
             /\ AnswersHold'
  <2>1. /\ chk' \in [Checkers -> Check]
        /\ chk'[c] = new
        /\ \A d \in Checkers : d # c => chk'[d] = chk[d]
    BY <1>1 DEF TypeOK
  <2>2. ChecksMatch'
    BY <1>1, <2>1 DEF ChecksMatch
  <2>3. AnswersHold'
    BY <1>1, <2>1 DEF AnswersHold, LedgerOk
  <2>4. QED
    BY <1>1, <2>1, <2>2, <2>3
<1>2. chk[c] \in Check
  BY DEF TypeOK
<1>3. Fits(IdleCheck)
  BY DEF IdleCheck, Check, RowStatuses
<1>4. ASSUME chk[c].at # "idle"
      PROVE  Fits(Done(c))
  <2>1. CASE KindOf[c] \in Leasing
    BY <1>2, <1>4, <2>1 DEF Done, Check, ChecksMatch
  <2>2. CASE KindOf[c] \notin Leasing
    BY <1>3, <2>2 DEF Done
  <2>3. QED
    BY <2>1, <2>2
<1>5. ASSUME NEW to, NEW n, chk[c].at # "idle", CheckTransition(c, to, n)
      PROVE  chk' = [chk EXCEPT ![c] = Done(c)] /\ UNCHANGED <<job, ledger>>
  BY <1>5, Zenon DEF CheckTransition, worldVars
<1>6. CASE CheckClaim(c)
  <2>1. Fits([chk[c] EXCEPT !.at = "lookup"])
    BY <1>2, <1>6 DEF CheckClaim, Check, ChecksMatch, AnswersHold
  <2>2. /\ \/ chk' = [chk EXCEPT ![c] = [chk[c] EXCEPT !.at = "lookup"]]
           \/ chk' = [chk EXCEPT ![c] = IdleCheck]
        /\ UNCHANGED <<job, ledger>>
    BY <1>6 DEF CheckClaim, worldVars
  <2>3. QED
    BY <1>1, <1>3, <2>1, <2>2
<1>7. CASE CheckLookup(c)
  <2> DEFINE new == [chk[c] EXCEPT !.at = "write", !.result = HorizonAnswer(chk[c].hash)]
  <2>1. Fits(new)
    BY <1>2, <1>7 DEF CheckLookup, Check, ChecksMatch, HorizonAnswer, LedgerOk
  <2>2. chk' = [chk EXCEPT ![c] = new] /\ UNCHANGED <<job, ledger>>
    BY <1>7 DEF CheckLookup, worldVars
  <2>3. QED
    BY <1>1, <2>1, <2>2
<1>8. CASE \/ CheckVerified(c) \/ CheckRejected(c) \/ CheckExpires(c)
           \/ CheckExhausted(c) \/ ApiWrites(c) \/ CheckCounts(c)
           \/ CheckUnanswered(c)
  <2>1. /\ chk[c].at # "idle"
        /\ chk' = [chk EXCEPT ![c] = Done(c)]
        /\ UNCHANGED <<job, ledger>>
    BY <1>5, <1>8, Zenon
       DEF CheckVerified, CheckRejected, CheckExpires, CheckExhausted, ApiWrites,
           CheckCounts, CheckUnanswered, worldVars
  <2>2. QED
    BY <1>1, <1>4, <2>1
<1>9. CASE LegacyConfirms(c)
  <2> DEFINE new == [chk[c] EXCEPT !.at = "share"]
  <2>1. Fits(new)
    BY <1>2, <1>9 DEF LegacyConfirms, LegacyWrites, Check, ChecksMatch, AnswersHold
  <2>2. chk' = [chk EXCEPT ![c] = new] /\ UNCHANGED <<job, ledger>>
    BY <1>9 DEF LegacyConfirms, LegacyWrites, worldVars
  <2>3. QED
    BY <1>1, <2>1, <2>2
<1>10. CASE \/ LegacySettlesShare(c) \/ LegacyFails(c) \/ CheckLeaves(c)
            \/ CheckRelease(c) \/ CrashCheck(c)
  <2>1. chk' = [chk EXCEPT ![c] = IdleCheck] /\ UNCHANGED <<job, ledger>>
    BY <1>10, Zenon DEF LegacySettlesShare, LegacyFails, LegacyWrites, CheckLeaves,
                 CheckRelease, CrashCheck, worldVars
  <2>2. QED
    BY <1>1, <1>3, <2>1
<1>11. QED
  BY <1>6, <1>7, <1>8, <1>9, <1>10 DEF CheckStep

(* A checker's writes keep every type, keep hashes with their settlements, *)
(* and confirm or settle only what Horizon answered for.                   *)
LEMMA CheckWrites ==
    ASSUME TypeOK, EnvelopesMatch, AnswersHold, NEW c \in Checkers,
           CheckStep(c) \/ CheckUnanswered(c) \/ CrashCheck(c)
    PROVE  RowsTyped' /\ RowsMatch' /\ Grounded
<1> USE ConstantsAssumption
<1> DEFINE s == chk[c].s
<1>1. RowsMatch /\ RowsTyped
  BY DEF EnvelopesMatch, TypeOK, RowsTyped
<1>2. chk[c].at # "idle" =>
         /\ s \in Settlements
         /\ txHash[s] \in Envelopes \cup {None}
         /\ txHash[s] # None => SettlementOf[txHash[s]] = s
         /\ retry[s] \in Nat
         /\ chk[c].retry \in Nat
         /\ chk[c].retry + 1 \in Nat
         /\ deadLettered[s] \in BOOLEAN
  BY DEF EnvelopesMatch, RowsMatch, ChecksMatch, TypeOK, Check
<1>3. chk[c].result = "ok" => Paid(s)
  BY DEF AnswersHold, EnvelopesMatch, ChecksMatch, Paid
<1>4. ASSUME UNCHANGED <<rowVars, share>>
      PROVE  RowsTyped' /\ RowsMatch' /\ Grounded
  BY <1>1, <1>4, QuietGrounded DEF RowsTyped, rowVars
<1>5. ASSUME NEW to \in {"confirmed", "failed", "expired"}, NEW n \in Nat,
             chk[c].at # "idle", to = "confirmed" => chk[c].result = "ok",
             CheckTransition(c, to, n)
      PROVE  RowsTyped' /\ RowsMatch' /\ Grounded
  <2>1. PICK dead \in BOOLEAN : \/ TransitionReturns(s, to, txHash[s], n, dead)
                                \/ TransitionThrows(s, to)
    BY <1>2, <1>5, Zenon DEF CheckTransition
  <2>2. to \in SettlementStatuses
    BY DEF SettlementStatuses
  <2>3. CASE TransitionReturns(s, to, txHash[s], n, dead)
    <3>1. RowsTyped'
      BY <1>2, <1>5, <2>2, <2>3, TransitionTyped
    <3>2. RowsMatch' /\ Grounded
      BY <1>1, <1>2, <1>3, <1>5, <2>2, <2>3, TransitionGrounded
    <3>3. QED
      BY <3>1, <3>2
  <2>4. CASE TransitionThrows(s, to)
    BY <1>4, <2>4 DEF TransitionThrows
  <2>5. QED
    BY <2>1, <2>3, <2>4
<1>6. CASE CheckVerified(c)
  BY <1>2, <1>5, <1>6 DEF CheckVerified
<1>7. CASE CheckRejected(c)
  BY <1>2, <1>5, <1>7 DEF CheckRejected
<1>8. CASE CheckExpires(c)
  BY <1>2, <1>5, <1>8 DEF CheckExpires
<1>9. CASE CheckExhausted(c)
  BY <1>2, <1>5, <1>9 DEF CheckExhausted
<1>10. CASE ApiWrites(c)
  BY <1>2, <1>5, <1>10 DEF ApiWrites
<1>11. CASE CheckCounts(c)
  <2>1. RowsTyped'
    BY <1>1, <1>2, <1>11 DEF CheckCounts, RowsTyped, RowStatuses, SettlementStatuses
  <2>2. RowsMatch' /\ Grounded
    BY <1>1, <1>2, <1>11 DEF CheckCounts, RowsMatch, Grounded, RowsTyped
  <2>3. QED
    BY <2>1, <2>2
<1>12. CASE LegacyConfirms(c)
  <2>1. RowsTyped'
    BY <1>1, <1>2, <1>12
       DEF LegacyConfirms, LegacyWrites, RowsTyped, RowStatuses, SettlementStatuses
  <2>2. RowsMatch' /\ Grounded
    BY <1>1, <1>2, <1>3, <1>12
       DEF LegacyConfirms, LegacyWrites, RowsMatch, Grounded, RowsTyped
  <2>3. QED
    BY <2>1, <2>2
<1>13. CASE LegacySettlesShare(c)
  <2>1. Paid(s) /\ s \in Settlements
    BY <1>2, <1>3, <1>13 DEF LegacySettlesShare, AnswersHold
  <2>2. RowsTyped'
    BY <1>1, <2>1, <1>13 DEF LegacySettlesShare, SettleShare, RowsTyped, rowVars
  <2>3. RowsMatch'
    BY <1>1, <1>13 DEF LegacySettlesShare, RowsMatch, rowVars
  <2>4. Grounded
    BY <1>1, <2>1, <1>13
       DEF LegacySettlesShare, SettleShare, Grounded, RowsTyped, rowVars
  <2>5. QED
    BY <2>2, <2>3, <2>4
<1>14. CASE LegacyFails(c)
  <2>1. RowsTyped'
    BY <1>1, <1>2, <1>14
       DEF LegacyFails, LegacyWrites, RowsTyped, RowStatuses, SettlementStatuses
  <2>2. RowsMatch' /\ Grounded
    BY <1>1, <1>2, <1>14
       DEF LegacyFails, LegacyWrites, RowsMatch, Grounded, RowsTyped
  <2>3. QED
    BY <2>1, <2>2
<1>15. CASE \/ CheckClaim(c) \/ CheckLookup(c) \/ CheckLeaves(c)
            \/ CheckRelease(c) \/ CheckUnanswered(c) \/ CrashCheck(c)
  <2>1. UNCHANGED <<rowVars, share>>
    BY <1>15, Zenon DEF CheckClaim, CheckLookup, CheckLeaves, CheckRelease,
                        CheckUnanswered, CrashCheck
  <2>2. QED
    BY <1>4, <2>1
<1>16. QED
  BY <1>6, <1>7, <1>8, <1>9, <1>10, <1>11, <1>12, <1>13, <1>14, <1>15 DEF CheckStep

(* A checker's step keeps every type, and does what a submitter's does. *)
LEMMA CheckSafe ==
    ASSUME TypeOK, EnvelopesMatch, AnswersHold, NEW c \in Checkers,
           \/ \E s \in Settlements : CheckFetch(c, s)
           \/ CheckStep(c) \/ CheckUnanswered(c) \/ CrashCheck(c)
    PROVE  TypeOK' /\ EnvelopesMatch' /\ AnswersHold' /\ LedgerGrows /\ Grounded
<1> USE ConstantsAssumption
<1>1. CASE \E s \in Settlements : CheckFetch(c, s)
  <2>1. PICK s \in Settlements : CheckFetch(c, s)
    BY <1>1
  <2>2. txHash[s] \in Envelopes /\ SettlementOf[txHash[s]] = s
    BY <2>1 DEF CheckFetch, Candidate, ReconcileCandidate, SyncCandidate,
                LegacyCandidate, ApiCandidate, TypeOK, EnvelopesMatch, RowsMatch
  <2>3. chk' \in [Checkers -> Check]
    BY <2>1, <2>2 DEF CheckFetch, TypeOK, Check
  <2>4. TypeOK'
    BY <2>1, <2>3 DEF CheckFetch, TypeOK, rowVars, leaseVars, worldVars, pastVars
  <2>5. RowsMatch' /\ Grounded
    BY <2>1, QuietGrounded DEF CheckFetch, EnvelopesMatch, rowVars
  <2>6. JobsMatch' /\ LedgerGrows
    BY <2>1 DEF CheckFetch, EnvelopesMatch, JobsMatch, LedgerGrows, LedgerOk, worldVars
  <2>7. ChecksMatch'
    BY <2>1, <2>2 DEF CheckFetch, EnvelopesMatch, ChecksMatch, TypeOK
  <2>8. AnswersHold'
    BY <2>1 DEF CheckFetch, AnswersHold, TypeOK, LedgerOk, worldVars
  <2>9. QED
    BY <2>4, <2>5, <2>6, <2>7, <2>8 DEF EnvelopesMatch
<1>2. CASE CheckStep(c) \/ CheckUnanswered(c) \/ CrashCheck(c)
  <2>1. /\ UNCHANGED <<job, ledger>>
        /\ chk' \in [Checkers -> Check]
        /\ ChecksMatch'
        /\ AnswersHold'
    BY <1>2, CheckKeeps DEF EnvelopesMatch
  <2>2. RowsTyped' /\ RowsMatch' /\ Grounded
    BY <1>2, CheckWrites
  <2>3. /\ claimedBy' \in [Settlements -> Owners \cup {None}]
        /\ lease' \in [Settlements -> {"none", "live", "lapsed"}]
    <3>1. CASE CheckClaim(c)
      BY <3>1 DEF CheckClaim, TakeLease, EnvelopesMatch, ChecksMatch, TypeOK, leaseVars
    <3>2. CASE CheckRelease(c)
      BY <3>2 DEF CheckRelease, ReleaseLease, EnvelopesMatch, ChecksMatch, TypeOK,
                  leaseVars
    <3>3. CASE ~ CheckClaim(c) /\ ~ CheckRelease(c)
      <4>1. UNCHANGED leaseVars
        BY <1>2, <3>3, Zenon
           DEF CheckStep, CheckLookup, CheckVerified, CheckRejected, CheckExpires,
               CheckExhausted, CheckTransition, CheckCounts, LegacyConfirms,
               LegacySettlesShare, LegacyFails, LegacyWrites, ApiWrites, CheckLeaves,
               CheckUnanswered, CrashCheck
      <4>2. QED
        BY <4>1 DEF TypeOK, leaseVars
    <3>4. QED
      BY <3>1, <3>2, <3>3
  <2>4. /\ UNCHANGED <<closed, creating, signs, sent, overrun>>
        /\ refunded' \in [Settlements -> BOOLEAN]
        /\ crashes' \in Nat
    <3>1. CASE CrashCheck(c)
      BY <3>1 DEF CrashCheck, TypeOK, worldVars
    <3>4. CASE CheckCounts(c)
      BY <3>4 DEF CheckCounts, TypeOK, worldVars
    <3>2. CASE ~ CrashCheck(c) /\ ~ CheckCounts(c)
      <4>1. UNCHANGED <<closed, creating, pastVars>>
        BY <1>2, <3>2, Zenon
           DEF CheckStep, CheckClaim, CheckLookup, CheckVerified, CheckRejected,
               CheckExpires, CheckExhausted, CheckTransition,
               LegacyConfirms, LegacySettlesShare, LegacyFails, LegacyWrites,
               ApiWrites, CheckLeaves, CheckRelease, CheckUnanswered, worldVars
      <4>2. QED
        BY <4>1 DEF TypeOK, pastVars
    <3>3. QED
      BY <3>1, <3>2, <3>4
  <2>5. TypeOK'
    BY <2>1, <2>2, <2>3, <2>4 DEF TypeOK, RowsTyped
  <2>6. JobsMatch' /\ LedgerGrows
    BY <2>1 DEF EnvelopesMatch, JobsMatch, LedgerGrows, LedgerOk
  <2>7. QED
    BY <2>1, <2>2, <2>5, <2>6 DEF EnvelopesMatch
<1>3. QED
  BY <1>1, <1>2

-----------------------------------------------------------------------------
(* The invariant holds at the start and every step keeps it. *)
LEMMA IInvInductive ==
    /\ Init => IInv
    /\ IInv /\ [Next]_vars => IInv'
<1>1. Init => IInv
  <2> SUFFICES ASSUME Init
               PROVE  IInv
    OBVIOUS
  <2>1. TypeOK
    BY DEF Init, TypeOK, IdleJob, Job, IdleCheck, Check, RowStatuses
  <2>2. EnvelopesMatch
    BY DEF Init, EnvelopesMatch, RowsMatch, JobsMatch, ChecksMatch, IdleJob, IdleCheck
  <2>3. AnswersHold
    BY DEF Init, AnswersHold, IdleCheck
  <2>4. ConfirmedIsPaid /\ SettledShareIsPaid
    BY DEF Init, ConfirmedIsPaid, SettledShareIsPaid
  <2>5. QED
    BY <2>1, <2>2, <2>3, <2>4 DEF IInv
<1>2. IInv /\ [Next]_vars => IInv'
  <2> SUFFICES ASSUME IInv, [Next]_vars
               PROVE  IInv'
    OBVIOUS
  <2>1. TypeOK /\ EnvelopesMatch /\ AnswersHold
    BY DEF IInv
  <2>2. CASE UNCHANGED vars
    BY <2>2 DEF IInv, TypeOK, EnvelopesMatch, RowsMatch, JobsMatch, ChecksMatch,
                AnswersHold, LedgerOk, ConfirmedIsPaid, SettledShareIsPaid, Paid,
                vars, rowVars, leaseVars, worldVars, pastVars
  <2>3. CASE Next
    <3>1. TypeOK' /\ EnvelopesMatch' /\ AnswersHold' /\ LedgerGrows /\ Grounded
      <4>1. ASSUME NEW w \in Submitters,
                   \/ \E s \in Settlements : Fetch(w, s)
                   \/ JobStep(w) \/ CrashJob(w)
            PROVE  TypeOK' /\ EnvelopesMatch' /\ AnswersHold' /\ LedgerGrows /\ Grounded
        <5>1. TypeOK'
          BY <2>1, <4>1, JobTyped
        <5>2. EnvelopesMatch' /\ AnswersHold' /\ LedgerGrows /\ Grounded
          BY <2>1, <4>1, JobSafe
        <5>3. QED
          BY <5>1, <5>2
      <4>2. ASSUME NEW c \in Checkers,
                   \/ \E s \in Settlements : CheckFetch(c, s)
                   \/ CheckStep(c) \/ CheckUnanswered(c) \/ CrashCheck(c)
            PROVE  TypeOK' /\ EnvelopesMatch' /\ AnswersHold' /\ LedgerGrows /\ Grounded
        BY <2>1, <4>2, CheckSafe
      <4>3. ASSUME \/ \E s \in Settlements : \/ CreateCheck(s) \/ CreateWrite(s)
                                             \/ CreateAborts(s) \/ CreateFreeform(s)
                                             \/ LeaseLapses(s) \/ CloseWindow(s)
                   \/ \E s \in Settlements, e \in Envelopes : AcceptEnvelope(s, e)
                   \/ RecoverStale
                   \/ \E e \in Envelopes : LedgerResolves(e) \/ LedgerShows(e)
            PROVE  TypeOK' /\ EnvelopesMatch' /\ AnswersHold' /\ LedgerGrows /\ Grounded
        BY <2>1, <4>3, WorldTyped, WorldSafe
      <4>4. QED
        BY <2>3, <4>1, <4>2, <4>3 DEF Next, Confirm, Execute
    <3>2. \A s \in Settlements : Paid(s) => Paid(s)'
      BY <3>1 DEF LedgerGrows, Paid
    <3>3. ConfirmedIsPaid'
      BY <3>1, <3>2 DEF IInv, ConfirmedIsPaid, Grounded
    <3>4. SettledShareIsPaid'
      BY <3>1, <3>2 DEF IInv, SettledShareIsPaid, Grounded
    <3>5. QED
      BY <3>1, <3>3, <3>4 DEF IInv
  <2>4. QED
    BY <2>2, <2>3
<1>3. QED
  BY <1>1, <1>2

(* Every variable of the settlement engine always has its type. *)
THEOREM TypeCorrect == Spec => []TypeOK
<1>1. IInv => TypeOK
  BY DEF IInv
<1>2. QED
  BY <1>1, IInvInductive, PTL DEF Spec

(* A settlement reported confirmed has been paid on the ledger, whatever   *)
(* the submitters, the reconcilers, the routes, the leases and the crashes *)
(* do: applySettlementTransition, handleTransactionNotFound and the        *)
(* unconditional writes of worker/reconciliation.ts included.              *)
THEOREM ConfirmedOnlyWhenPaid == Spec => []ConfirmedIsPaid
<1>1. IInv => ConfirmedIsPaid
  BY DEF IInv
<1>2. QED
  BY <1>1, IInvInductive, PTL DEF Spec

(* An expense share is marked settled only after a payment for one of its  *)
(* own settlements.                                                        *)
THEOREM SettledOnlyWhenPaid == Spec => []SettledShareIsPaid
<1>1. IInv => SettledShareIsPaid
  BY DEF IInv
<1>2. QED
  BY <1>1, IInvInductive, PTL DEF Spec

(* Envelopes never cross: whatever a row, a submitter or a checker holds   *)
(* was signed for the settlement it is held for.                           *)
THEOREM EnvelopesNeverCross == Spec => []EnvelopesMatch
<1>1. IInv => EnvelopesMatch
  BY DEF IInv
<1>2. QED
  BY <1>1, IInvInductive, PTL DEF Spec

-----------------------------------------------------------------------------
(* Leases.  While no lease of a round has run out under its holder,        *)
(* whoever works on a row it has claimed holds the row's live lease: that  *)
(* is what keeps the second claim away from it.                            *)
LeaseHeld ==
    \A s \in Settlements : overrun[s] = 0 /\ Driven(s) => lease[s] = "live"

(* Only a job that leases has anything to release. *)
LeasersRelease ==
    \A c \in Checkers : chk[c].at = "release" => KindOf[c] \in Leasing

LeaseInv == LeaseHeld /\ LeasersRelease /\ OneDriver

(* What a submitter's step does to the jobs: it moves its own only, along  *)
(* the path claimed, begin, submit, record, poll, with caught and release  *)
(* to leave it by.                                                         *)
LEMMA JobMoves ==
    ASSUME TypeOK, NEW w \in Submitters, JobStep(w) \/ CrashJob(w)
    PROVE  /\ chk' = chk
           /\ \A v \in Submitters : v # w => job'[v] = job[v]
           /\ \/ job'[w].at = "idle"
              \/ /\ job'[w].s = job[w].s
                 /\ job[w].at # "idle"
                 /\ job[w].at = "fetched" => Claim(w)
                 /\ job'[w].at # "fetched"
                 /\ job'[w].at = "claimed" => Claim(w)
                 /\ job'[w].at = "begin" => Prepare(w) \/ Retry(w)
                 /\ job'[w].at = "submit" => BeginAttempt(w)
                 /\ job'[w].at \in {"record", "poll", "caught"} =>
                       job[w].at \in {"submit", "record", "poll"}
                 /\ job'[w].attempt = job[w].attempt \/ BeginAttempt(w)
<1> DEFINE Moved(from, to) ==
              /\ chk' = chk
              /\ \A v \in Submitters : v # w => job'[v] = job[v]
              /\ job[w].at \in from
              /\ job'[w].at \in to
              /\ job'[w].s = job[w].s
<1>1. CASE Claim(w)
  BY <1>1 DEF Claim, TypeOK, IdleJob, Job
<1>2. ASSUME NEW a, job' = [job EXCEPT ![w].at = a], chk' = chk
      PROVE  Moved({job[w].at}, {a}) /\ job'[w].attempt = job[w].attempt
  BY <1>2 DEF TypeOK, Job
<1>3. ASSUME NEW a, NEW k, job' = [job EXCEPT ![w].at = a, ![w].cat = k], chk' = chk
      PROVE  Moved({job[w].at}, {a}) /\ job'[w].attempt = job[w].attempt
  BY <1>3 DEF TypeOK, Job
<1>4. CASE Refuse(w) \/ GiveUp(w) \/ AlreadyApplied(w)
  <2>1. /\ job' = [job EXCEPT ![w].at = "release"]
        /\ chk' = chk
        /\ job[w].at = "claimed" \/ job[w].at = "caught"
    BY <1>4, Zenon DEF Refuse, GiveUp, AlreadyApplied, FailSettlement
  <2>2. QED
    BY <1>2, <2>1
<1>5. CASE Prepare(w)
  <2>1. /\ \/ job' = [job EXCEPT ![w].at = "begin"]
           \/ job' = [job EXCEPT ![w].at = "release"]
        /\ chk' = chk
        /\ job[w].at = "claimed"
    BY <1>5, Zenon DEF Prepare
  <2>2. QED
    BY <1>2, <1>5, <2>1
<1>6. CASE BeginAttempt(w)
  BY <1>6 DEF BeginAttempt, TypeOK, Job
<1>7. CASE Submit(w)
  <2>1. \E k : \/ job' = [job EXCEPT ![w].at = "record", ![w].cat = k]
               \/ job' = [job EXCEPT ![w].at = "caught", ![w].cat = k]
    BY <1>7, Zenon DEF Submit, SubmitOutcome
  <2>2. job[w].at = "submit" /\ chk' = chk
    BY <1>7, Zenon DEF Submit
  <2>3. QED
    BY <1>3, <2>1, <2>2
<1>8. CASE Record(w)
  <2>1. \/ job' = [job EXCEPT ![w].at = "poll"]
        \/ job' = [job EXCEPT ![w].at = "caught", ![w].cat = "permanent"]
        \/ job' = [job EXCEPT ![w].at = "caught", ![w].cat = "indeterminate"]
    BY <1>8, Zenon DEF Record
  <2>2. job[w].at = "record" /\ chk' = chk
    BY <1>8, Zenon DEF Record
  <2>3. QED
    BY <1>2, <1>3, <2>1, <2>2
<1>9. CASE Poll(w)
  <2>1. \/ job' = [job EXCEPT ![w].at = "release"]
        \/ job' = [job EXCEPT ![w].at = "caught", ![w].cat = "permanent"]
    BY <1>9, Zenon DEF Poll, PollWrites
  <2>2. job[w].at = "poll" /\ chk' = chk
    BY <1>9, Zenon DEF Poll
  <2>3. QED
    BY <1>2, <1>3, <2>1, <2>2
<1>10. CASE Retry(w)
  BY <1>10 DEF Retry, ScheduleRetry, TypeOK, Job
<1>11. CASE Release(w) \/ CrashJob(w)
  BY <1>11 DEF Release, CrashJob, TypeOK, IdleJob, Job
<1>12. QED
  BY <1>1, <1>4, <1>5, <1>6, <1>7, <1>8, <1>9, <1>10, <1>11 DEF JobStep

(* What a checker's step does to the checks: it moves its own only, and    *)
(* none but a claim takes a leasing one on.                                *)
LEMMA CheckMoves ==
    ASSUME TypeOK, NEW c \in Checkers,
           \/ \E s \in Settlements : CheckFetch(c, s)
           \/ CheckStep(c) \/ CheckUnanswered(c) \/ CrashCheck(c)
    PROVE  /\ job' = job
           /\ \A d \in Checkers : d # c => chk'[d] = chk[d]
           /\ chk'[c].at = "release" => KindOf[c] \in Leasing
           /\ \/ chk'[c].at \in {"idle", "fetched"}
              \/ KindOf[c] \notin Leasing
              \/ CheckClaim(c)
              \/ /\ chk[c].at \notin {"idle", "fetched"}
                 /\ chk'[c].s = chk[c].s
<1>1. ASSUME NEW s \in Settlements, CheckFetch(c, s)
      PROVE  /\ job' = job
             /\ \A d \in Checkers : d # c => chk'[d] = chk[d]
             /\ chk'[c].at = "fetched" \/ KindOf[c] \notin Leasing
             /\ chk'[c].at # "release"
  BY <1>1 DEF CheckFetch, TypeOK
<1>2. CASE CheckClaim(c)
  BY <1>2 DEF CheckClaim, IdleCheck, TypeOK, Check
<1>3. CASE CheckLookup(c) \/ LegacyConfirms(c)
  BY <1>3 DEF CheckLookup, LegacyConfirms, LegacyWrites, TypeOK, Check
<1>4. CASE \/ CheckVerified(c) \/ CheckRejected(c) \/ CheckExpires(c)
           \/ CheckExhausted(c) \/ ApiWrites(c) \/ CheckCounts(c)
           \/ CheckUnanswered(c)
  <2>1. /\ chk[c].at \in {"lookup", "write"}
        /\ chk' = [chk EXCEPT ![c] = Done(c)]
        /\ job' = job
    BY <1>4, Zenon
       DEF CheckVerified, CheckRejected, CheckExpires, CheckExhausted, ApiWrites,
           CheckCounts, CheckUnanswered, CheckTransition
  <2>2. QED
    BY <2>1 DEF Done, IdleCheck, TypeOK, Check
<1>5. CASE \/ LegacySettlesShare(c) \/ LegacyFails(c) \/ CheckLeaves(c)
           \/ CheckRelease(c) \/ CrashCheck(c)
  <2>1. chk' = [chk EXCEPT ![c] = IdleCheck] /\ job' = job
    BY <1>5, Zenon DEF LegacySettlesShare, LegacyFails, LegacyWrites, CheckLeaves,
                       CheckRelease, CrashCheck
  <2>2. QED
    BY <2>1 DEF IdleCheck, TypeOK
<1>6. QED
  BY <1>1, <1>2, <1>3, <1>4, <1>5 DEF CheckStep

(* A step that puts nobody new on a row and takes no live lease away keeps *)
(* the leases in order.                                                    *)
LEMMA LeaseFrame ==
    ASSUME LeaseInv,
           \A s \in Settlements, v \in Submitters : DrivingJob(v, s)' => DrivingJob(v, s),
           \A s \in Settlements, d \in Checkers : DrivingCheck(d, s)' => DrivingCheck(d, s),
           \A s \in Settlements : lease[s] = "live" => lease'[s] = "live",
           overrun' = overrun,
           LeasersRelease'
    PROVE  LeaseInv'
<1>1. LeaseHeld'
  BY DEF LeaseInv, LeaseHeld, Driven
<1>2. OneDriver'
  BY DEF LeaseInv, OneDriver
<1>3. QED
  BY <1>1, <1>2 DEF LeaseInv

(* Only a lease that lapses and a round that is accepted change overrun.   *)
LEMMA OverrunStays ==
    ASSUME \/ \E w \in Submitters : \/ \E s \in Settlements : Fetch(w, s)
                                   \/ JobStep(w) \/ CrashJob(w)
           \/ \E c \in Checkers : \/ \E s \in Settlements : CheckFetch(c, s)
                                 \/ CheckStep(c) \/ CheckUnanswered(c) \/ CrashCheck(c)
    PROVE  overrun' = overrun
<1>1. ASSUME NEW w \in Submitters,
             \/ \E s \in Settlements : Fetch(w, s)
             \/ JobStep(w) \/ CrashJob(w)
      PROVE  overrun' = overrun
  BY <1>1, Zenon DEF Fetch, JobStep, Claim, Refuse, Prepare, BeginAttempt, Submit, Record,
                     Poll, GiveUp, Retry, AlreadyApplied, Release, CrashJob, pastVars
<1>2. ASSUME NEW c \in Checkers,
             \/ \E s \in Settlements : CheckFetch(c, s)
             \/ CheckStep(c) \/ CheckUnanswered(c) \/ CrashCheck(c)
      PROVE  overrun' = overrun
  BY <1>2, Zenon DEF CheckFetch, CheckStep, CheckClaim, CheckLookup, CheckVerified,
                     CheckRejected, CheckExpires, CheckExhausted, CheckTransition,
                     CheckCounts, LegacyConfirms, LegacySettlesShare, LegacyFails,
                     LegacyWrites, ApiWrites, CheckLeaves, CheckRelease, CheckUnanswered,
                     CrashCheck, pastVars
<1>3. QED
  BY <1>1, <1>2

(* A submitter claims a row nobody drives, and lets go of no row but its   *)
(* own.                                                                    *)
LEMMA JobLease ==
    ASSUME TypeOK, EnvelopesMatch, LeaseInv, NEW w \in Submitters,
           \/ \E s \in Settlements : Fetch(w, s)
           \/ JobStep(w) \/ CrashJob(w)
    PROVE  LeaseInv'
<1> USE ConstantsAssumption
<1>0. overrun' = overrun
  BY OverrunStays
<1>1. ASSUME NEW s \in Settlements, Fetch(w, s)
      PROVE  LeaseInv'
  <2>1. \A t \in Settlements, v \in Submitters : DrivingJob(v, t)' => DrivingJob(v, t)
    BY <1>1 DEF Fetch, DrivingJob, TypeOK
  <2>2. UNCHANGED <<chk, lease>>
    BY <1>1 DEF Fetch, leaseVars
  <2>3. QED
    BY <1>0, <2>1, <2>2, LeaseFrame DEF DrivingCheck, LeaseInv, LeasersRelease
<1>2. ASSUME JobStep(w) \/ CrashJob(w)
      PROVE  /\ chk' = chk
             /\ \A v \in Submitters : v # w => job'[v] = job[v]
  BY <1>2, JobMoves
<1>3. CASE Claim(w)
  <2> DEFINE s == job[w].s
  <2>1. s \in Settlements
    BY <1>3 DEF Claim, EnvelopesMatch, JobsMatch
  <2>2. CASE Claimable(w)
    <3>1. overrun[s] = 0 => ~ Driven(s)
      BY <2>1, <2>2 DEF Claimable, Unleased, LeaseInv, LeaseHeld
    <3>2. /\ \A v \in Submitters : v # w => job'[v] = job[v]
          /\ chk' = chk
          /\ job'[w].s = s
          /\ lease' = [lease EXCEPT ![s] = "live"]
      BY <1>3, <2>2 DEF Claim, TakeLease, TypeOK, Job
    <3>3. \A t \in Settlements, v \in Submitters :
             DrivingJob(v, t)' => (t = s /\ v = w) \/ DrivingJob(v, t)
      BY <3>2 DEF DrivingJob
    <3>4. \A t \in Settlements, c \in Checkers : DrivingCheck(c, t)' => DrivingCheck(c, t)
      BY <3>2 DEF DrivingCheck
    <3>5. LeaseHeld'
      BY <1>0, <2>1, <3>2, <3>3, <3>4 DEF LeaseInv, LeaseHeld, Driven, TypeOK
    <3>6. OneDriver'
      BY <1>0, <3>1, <3>3, <3>4 DEF LeaseInv, OneDriver, Driven
    <3>7. QED
      BY <3>2, <3>5, <3>6 DEF LeaseInv, LeasersRelease
  <2>3. CASE ~ Claimable(w)
    <3>1. \A t \in Settlements, v \in Submitters : DrivingJob(v, t)' => DrivingJob(v, t)
      BY <1>3, <2>3 DEF Claim, DrivingJob, IdleJob, TypeOK
    <3>2. UNCHANGED <<chk, lease>>
      BY <1>3, <2>3 DEF Claim, leaseVars
    <3>3. QED
      BY <1>0, <3>1, <3>2, LeaseFrame DEF DrivingCheck, LeaseInv, LeasersRelease
  <2>4. QED
    BY <2>2, <2>3
<1>4. CASE Release(w)
  <2> DEFINE s == job[w].s
  <2>1. s \in Settlements /\ DrivingJob(w, s)
    BY <1>4 DEF Release, EnvelopesMatch, JobsMatch, DrivingJob
  <2>2. overrun[s] = 0 =>
           /\ \A v \in Submitters : v # w => ~ DrivingJob(v, s)
           /\ \A c \in Checkers : ~ DrivingCheck(c, s)
    BY <2>1 DEF LeaseInv, OneDriver
  <2>3. /\ \A v \in Submitters : v # w => job'[v] = job[v]
        /\ chk' = chk
        /\ job'[w].at = "idle"
        /\ \A t \in Settlements : t # s => lease'[t] = lease[t]
    BY <1>4, <2>1 DEF Release, ReleaseLease, IdleJob, TypeOK, leaseVars
  <2>4. \A t \in Settlements, v \in Submitters :
           DrivingJob(v, t)' => DrivingJob(v, t) /\ (overrun[s] = 0 => t # s)
    BY <2>2, <2>3 DEF DrivingJob
  <2>5. \A t \in Settlements, c \in Checkers :
           DrivingCheck(c, t)' => DrivingCheck(c, t) /\ (overrun[s] = 0 => t # s)
    BY <2>2, <2>3 DEF DrivingCheck
  <2>6. LeaseHeld'
    BY <1>0, <2>3, <2>4, <2>5 DEF LeaseInv, LeaseHeld, Driven
  <2>7. OneDriver'
    BY <1>0, <2>4, <2>5 DEF LeaseInv, OneDriver
  <2>8. QED
    BY <2>3, <2>6, <2>7 DEF LeaseInv, LeasersRelease
<1>5. CASE (JobStep(w) \/ CrashJob(w)) /\ ~ Claim(w) /\ ~ Release(w)
  <2>1. /\ chk' = chk
        /\ \A v \in Submitters : v # w => job'[v] = job[v]
        /\ \/ job'[w].at = "idle"
           \/ /\ job'[w].s = job[w].s
              /\ job[w].at \notin {"idle", "fetched"}
    BY <1>5, JobMoves
  <2>2. \A t \in Settlements, v \in Submitters : DrivingJob(v, t)' => DrivingJob(v, t)
    BY <2>1 DEF DrivingJob
  <2>3. lease' = lease \/ \E s : lease' = [lease EXCEPT ![s] = "live"]
    BY <1>5, Zenon DEF JobStep, Refuse, Prepare, BeginAttempt, Submit, Record, Poll,
                       GiveUp, Retry, ScheduleRetry, RenewLease, AlreadyApplied,
                       CrashJob, leaseVars
  <2>4. \A s \in Settlements : lease[s] = "live" => lease'[s] = "live"
    BY <2>3 DEF TypeOK
  <2>5. QED
    BY <1>0, <2>1, <2>2, <2>4, LeaseFrame DEF DrivingCheck, LeaseInv, LeasersRelease
<1>6. QED
  BY <1>1, <1>3, <1>4, <1>5

(* So does a checker. *)
LEMMA CheckLease ==
    ASSUME TypeOK, EnvelopesMatch, LeaseInv, NEW c \in Checkers,
           \/ \E s \in Settlements : CheckFetch(c, s)
           \/ CheckStep(c) \/ CheckUnanswered(c) \/ CrashCheck(c)
    PROVE  LeaseInv'
<1> USE ConstantsAssumption
<1>0. overrun' = overrun
  BY OverrunStays
<1> DEFINE s == chk[c].s
<1>1. /\ job' = job
      /\ \A d \in Checkers : d # c => chk'[d] = chk[d]
  BY CheckMoves
<1>2. \A t \in Settlements, v \in Submitters : DrivingJob(v, t)' => DrivingJob(v, t)
  BY <1>1 DEF DrivingJob
<1>7. LeasersRelease'
  BY <1>1, CheckMoves DEF LeaseInv, LeasersRelease
<1>3. CASE CheckClaim(c) /\ chk'[c].at # "idle"
  <2>1. s \in Settlements
    BY <1>3 DEF CheckClaim, EnvelopesMatch, ChecksMatch
  <2>2. /\ Unleased(s)
        /\ lease' = [lease EXCEPT ![s] = "live"]
        /\ chk'[c].s = s
    BY <1>3 DEF CheckClaim, ReconcileClaimable, SyncClaimable, TakeLease, IdleCheck,
                TypeOK, Check
  <2>3. overrun[s] = 0 => ~ Driven(s)
    BY <2>1, <2>2 DEF Unleased, LeaseInv, LeaseHeld
  <2>4. \A t \in Settlements, d \in Checkers :
           DrivingCheck(d, t)' => (t = s /\ d = c) \/ DrivingCheck(d, t)
    BY <1>1, <2>2 DEF DrivingCheck
  <2>5. LeaseHeld'
    BY <1>0, <1>2, <2>1, <2>2, <2>4 DEF LeaseInv, LeaseHeld, Driven, TypeOK
  <2>6. OneDriver'
    BY <1>0, <1>2, <2>3, <2>4 DEF LeaseInv, OneDriver, Driven
  <2>7. QED
    BY <1>7, <2>5, <2>6 DEF LeaseInv
<1>4. CASE CheckRelease(c)
  <2>1. chk[c].at = "release" /\ s \in Settlements
    BY <1>4 DEF CheckRelease, EnvelopesMatch, ChecksMatch
  <2>2. chk'[c].at = "idle" /\ \A t \in Settlements : t # s => lease'[t] = lease[t]
    BY <1>4, <2>1 DEF CheckRelease, ReleaseLease, IdleCheck, TypeOK, leaseVars
  <2>3. overrun[s] = 0 =>
           /\ \A v \in Submitters : ~ DrivingJob(v, s)
           /\ \A d \in Checkers : d # c => ~ DrivingCheck(d, s)
    BY <2>1 DEF LeaseInv, LeasersRelease, OneDriver, DrivingCheck
  <2>4. /\ \A t \in Settlements, v \in Submitters :
              DrivingJob(v, t)' => DrivingJob(v, t) /\ (overrun[s] = 0 => t # s)
        /\ \A t \in Settlements, d \in Checkers :
              DrivingCheck(d, t)' => DrivingCheck(d, t) /\ (overrun[s] = 0 => t # s)
    BY <1>1, <1>2, <2>2, <2>3 DEF DrivingCheck
  <2>5. LeaseHeld'
    BY <1>0, <2>2, <2>4 DEF LeaseInv, LeaseHeld, Driven
  <2>6. OneDriver'
    BY <1>0, <2>4 DEF LeaseInv, OneDriver
  <2>7. QED
    BY <1>7, <2>5, <2>6 DEF LeaseInv
<1>5. CASE ~ (CheckClaim(c) /\ chk'[c].at # "idle") /\ ~ CheckRelease(c)
  <2>1. \A t \in Settlements, d \in Checkers : DrivingCheck(d, t)' => DrivingCheck(d, t)
    BY <1>1, <1>5, CheckMoves DEF DrivingCheck
  <2>2. lease' = lease
    <3>1. CASE CheckClaim(c)
      BY <1>5, <3>1 DEF CheckClaim, TypeOK, Check, leaseVars
    <3>2. CASE ~ CheckClaim(c)
      BY <1>5, <3>2, Zenon
         DEF CheckStep, CheckFetch, CheckLookup, CheckVerified, CheckRejected, CheckExpires,
             CheckExhausted, CheckTransition, CheckCounts, LegacyConfirms,
             LegacySettlesShare, LegacyFails, LegacyWrites, ApiWrites, CheckLeaves,
             CheckUnanswered, CrashCheck, leaseVars
    <3>3. QED
      BY <3>1, <3>2
  <2>3. QED
    BY <1>0, <1>2, <1>7, <2>1, <2>2, LeaseFrame
<1>6. QED
  BY <1>3, <1>4, <1>5

(* The API, time and the network: a lease that lapses under its holder is  *)
(* an overrun, and a round starts without one only where nobody drives.    *)
LEMMA WorldLease ==
    ASSUME TypeOK, LeaseInv,
           \/ \E s \in Settlements : \/ CreateCheck(s) \/ CreateWrite(s)
                                     \/ CreateAborts(s) \/ CreateFreeform(s)
                                     \/ LeaseLapses(s) \/ CloseWindow(s)
           \/ \E s \in Settlements, e \in Envelopes : AcceptEnvelope(s, e)
           \/ RecoverStale
           \/ \E e \in Envelopes : LedgerResolves(e) \/ LedgerShows(e)
    PROVE  LeaseInv'
<1>1. UNCHANGED <<job, chk>>
  BY Zenon DEF CreateCheck, CreateWrite, CreateAborts, CreateFreeform, LeaseLapses,
               CloseWindow, AcceptEnvelope, RecoverStale, LedgerResolves, LedgerShows
<1>2. \A t \in Settlements : Driven(t)' = Driven(t)
  BY <1>1 DEF Driven, DrivingJob, DrivingCheck
<1>3. ASSUME \A t \in Settlements : overrun'[t] = 0 /\ Driven(t) =>
                overrun[t] = 0 /\ (lease[t] = "live" => lease'[t] = "live")
      PROVE  LeaseInv'
  <2>1. LeaseHeld'
    BY <1>2, <1>3 DEF LeaseInv, LeaseHeld
  <2>2. OneDriver'
    BY <1>1, <1>3 DEF LeaseInv, OneDriver, Driven, DrivingJob, DrivingCheck
  <2>3. QED
    BY <1>1, <2>1, <2>2 DEF LeaseInv, LeasersRelease
<1>4. ASSUME NEW s \in Settlements, LeaseLapses(s)
      PROVE  LeaseInv'
  <2>1. \A t \in Settlements : overrun'[t] = 0 /\ Driven(t) =>
           overrun[t] = 0 /\ (lease[t] = "live" => lease'[t] = "live")
    <3> SUFFICES ASSUME NEW t \in Settlements, overrun'[t] = 0, Driven(t)
                 PROVE  overrun[t] = 0 /\ (lease[t] = "live" => lease'[t] = "live")
      OBVIOUS
    <3>1. t # s
      BY <1>4 DEF LeaseLapses, TypeOK
    <3>2. QED
      BY <1>4, <3>1 DEF LeaseLapses, TypeOK
  <2>2. QED
    BY <1>3, <2>1
<1>5. ASSUME NEW s \in Settlements, NEW e \in Envelopes, AcceptEnvelope(s, e)
      PROVE  LeaseInv'
  <2>1. lease' = lease /\ overrun' = [overrun EXCEPT ![s] = IF Driven(s) THEN @ ELSE 0]
    BY <1>5 DEF AcceptEnvelope, leaseVars
  <2>2. QED
    BY <1>3, <2>1 DEF TypeOK
<1>6. CASE RecoverStale
  <2>1. /\ overrun' = overrun
        /\ \A t \in Settlements : lease[t] = "live" => lease'[t] = "live"
    BY <1>6 DEF RecoverStale, pastVars
  <2>2. QED
    BY <1>3, <2>1
<1>7. CASE UNCHANGED <<lease, overrun>>
  BY <1>3, <1>7
<1>8. QED
  BY <1>4, <1>5, <1>6, <1>7
     DEF CreateCheck, CreateWrite, CreateAborts, CreateFreeform, CloseWindow,
         LedgerResolves, LedgerShows, leaseVars, pastVars

(* The lease invariant is inductive beside IInv. *)
LEMMA LeaseInductive ==
    /\ Init => LeaseInv
    /\ IInv /\ LeaseInv /\ [Next]_vars => LeaseInv'
<1>1. Init => LeaseInv
  BY DEF Init, LeaseInv, LeaseHeld, LeasersRelease, OneDriver, Driven, DrivingJob,
         DrivingCheck, IdleJob, IdleCheck
<1>2. ASSUME IInv, LeaseInv, [Next]_vars
      PROVE  LeaseInv'
  <2>1. TypeOK /\ EnvelopesMatch
    BY <1>2 DEF IInv
  <2>2. CASE UNCHANGED vars
    BY <1>2, <2>2 DEF vars, leaseVars, pastVars, LeaseInv, LeaseHeld, LeasersRelease,
                      OneDriver, Driven, DrivingJob, DrivingCheck
  <2>3. CASE Next
    <3>1. ASSUME NEW w \in Submitters,
                 \/ \E s \in Settlements : Fetch(w, s)
                 \/ JobStep(w) \/ CrashJob(w)
          PROVE  LeaseInv'
      BY <1>2, <2>1, <3>1, JobLease
    <3>2. ASSUME NEW c \in Checkers,
                 \/ \E s \in Settlements : CheckFetch(c, s)
                 \/ CheckStep(c) \/ CheckUnanswered(c) \/ CrashCheck(c)
          PROVE  LeaseInv'
      BY <1>2, <2>1, <3>2, CheckLease
    <3>3. ASSUME \/ \E s \in Settlements : \/ CreateCheck(s) \/ CreateWrite(s)
                                           \/ CreateAborts(s) \/ CreateFreeform(s)
                                           \/ LeaseLapses(s) \/ CloseWindow(s)
                 \/ \E s \in Settlements, e \in Envelopes : AcceptEnvelope(s, e)
                 \/ RecoverStale
                 \/ \E e \in Envelopes : LedgerResolves(e) \/ LedgerShows(e)
          PROVE  LeaseInv'
      BY <1>2, <2>1, <3>3, WorldLease
    <3>4. QED
      BY <2>3, <3>1, <3>2, <3>3 DEF Next, Confirm, Execute
  <2>4. QED
    BY <1>2, <2>2, <2>3
<1>3. QED
  BY <1>1, <1>2

(* claimSettlement, claimPendingConfirmation and claimSettlementForSync    *)
(* exclude each other for as long as the leases last: two processes drive  *)
(* one settlement only in a round in which a lease ran out in mid-job,     *)
(* however many run, crash, renew, release and recover, and although       *)
(* several share one lease owner id.                                       *)
THEOREM LeasesExclude == Spec => []OneDriver
<1>1. LeaseInv => OneDriver
  BY DEF LeaseInv
<1>2. QED
  BY <1>1, IInvInductive, LeaseInductive, PTL DEF Spec

-----------------------------------------------------------------------------
(* The retry budget.  A job between its claim and its outcome *)
InRound(w) == job[w].at \in {"claimed", "begin", "submit", "record", "poll", "caught"}

(* keeps to the budget, and has counted every call of the round, its next  *)
(* one included once it is recorded; the row counts no fewer as long as it *)
(* is open.  All of this of a round that nothing voids.                    *)
Charged(s) == ~ refunded[s] /\ overrun[s] = 0

Budgeted(w) ==
    /\ job[w].at \in {"submit", "record", "poll", "caught"} =>
          job[w].attempt =< MaxAttempts
    /\ job[w].at = "begin" => job[w].attempt < MaxAttempts
    /\ InRound(w) /\ Charged(job[w].s) =>
          /\ sent[job[w].s] =< job[w].attempt
          /\ job[w].at = "submit" => sent[job[w].s] < job[w].attempt
          /\ status[job[w].s] \in Submittable => retry[job[w].s] = job[w].attempt

JobBudget == \A w \in Submitters : Budgeted(w)

(* An open row has every call of its round on its retryCount. *)
RowBudget ==
    \A s \in Settlements : status[s] \in Submittable /\ Charged(s) =>
        sent[s] =< retry[s]

BudgetInv == JobBudget /\ RowBudget /\ AttemptBudget

(* Nothing opens a row, or changes the count of one that stays open. *)
CountsStay ==
    \A s \in Settlements : status'[s] \in Submittable =>
        status[s] \in Submittable /\ retry'[s] = retry[s]

(* A transition does neither, unless it is told to write another count. *)
LEMMA TransitionCounts ==
    ASSUME TypeOK,
           NEW s \in Settlements, NEW to \in SettlementStatuses \ {"submitted"},
           NEW hash, NEW n \in Nat, NEW dead,
           \/ TransitionReturns(s, to, hash, n, dead)
           \/ TransitionThrows(s, to),
           to \in Submittable => n = retry[s]
    PROVE  CountsStay
<1>1. CASE TransitionChanged(s, to, hash, n, dead)
  BY <1>1 DEF TypeOK, TransitionChanged, WriteExtra, CanTransition, AllowedTransitions,
              SettlementStatuses, Submittable, CountsStay
<1>2. CASE TransitionSame(s, to, hash, n, dead)
  BY <1>2 DEF TypeOK, TransitionSame, WriteExtra, Submittable, CountsStay
<1>3. CASE TransitionRaced(s, to) \/ TransitionThrows(s, to)
  BY <1>3 DEF TransitionRaced, TransitionThrows, rowVars, CountsStay
<1>4. QED
  BY <1>1, <1>2, <1>3 DEF TransitionReturns

(* A step that counts nothing, makes no call and takes no row on keeps the *)
(* budget.                                                                 *)
LEMMA BudgetFrame ==
    ASSUME BudgetInv, JobsMatch, CountsStay, UNCHANGED <<sent, refunded, overrun>>,
           \A v \in Submitters :
              \/ job'[v] = job[v]
              \/ ~ InRound(v)'
              \/ /\ job'[v].s = job[v].s /\ job'[v].attempt = job[v].attempt
                 /\ InRound(v)
                 /\ job'[v].at # "submit"
                 /\ job'[v].at = "begin" => job[v].attempt < MaxAttempts
                 /\ job'[v].at \in {"record", "poll", "caught"} =>
                       job[v].at \in {"submit", "record", "poll"}
    PROVE  BudgetInv'
<1>1. RowBudget' /\ AttemptBudget'
  BY DEF BudgetInv, RowBudget, AttemptBudget, Charged, CountsStay, Charged
<1>2. JobBudget'
  <2> SUFFICES ASSUME NEW v \in Submitters, InRound(v)'
               PROVE  Budgeted(v)'
    BY DEF JobBudget, Budgeted, InRound, Charged
  <2>1. job'[v].s = job[v].s /\ job'[v].attempt = job[v].attempt /\ InRound(v)
    BY DEF InRound
  <2>2. job[v].s \in Settlements
    BY <2>1 DEF JobsMatch, InRound
  <2>3. /\ job'[v].at = "submit" => job[v].at = "submit"
        /\ job'[v].at = "begin" => job[v].at = "begin" \/ job[v].attempt < MaxAttempts
        /\ job'[v].at \in {"record", "poll", "caught"} =>
              job[v].at \in {"submit", "record", "poll", "caught"}
    OBVIOUS
  <2>4. QED
    BY <2>1, <2>2, <2>3 DEF BudgetInv, JobBudget, Budgeted, CountsStay, Charged
<1>3. QED
  BY <1>1, <1>2 DEF BudgetInv

(* A submitter records an attempt before it makes the call, and stops at   *)
(* the budget.  It needs the row to itself: no other job is in its round.  *)
LEMMA JobKeepsBudget ==
    ASSUME TypeOK, EnvelopesMatch, OneDriver, BudgetInv, NEW w \in Submitters,
           \/ \E s \in Settlements : Fetch(w, s)
           \/ JobStep(w) \/ CrashJob(w)
    PROVE  BudgetInv'
<1> USE ConstantsAssumption
<1> DEFINE s == job[w].s
<1>1. JobsMatch /\ job[w] \in Job
  BY DEF EnvelopesMatch, TypeOK
<1>2. job[w].at # "idle" =>
         /\ s \in Settlements /\ job[w].attempt \in Nat
         /\ sent[s] \in Nat /\ retry[s] \in Nat
  BY <1>1 DEF JobsMatch, TypeOK, Job
<1>3. job[w].at \notin {"idle", "fetched"} /\ overrun[s] = 0 =>
         \A v \in Submitters : InRound(v) /\ job[v].s = s => v = w
  BY <1>2 DEF OneDriver, DrivingJob, InRound
<1>4. ASSUME NEW t \in Settlements, Fetch(w, t)
      PROVE  BudgetInv'
  <2>1. \A v \in Submitters : job'[v] = job[v] \/ ~ InRound(v)'
    BY <1>4 DEF Fetch, InRound, TypeOK
  <2>2. CountsStay /\ UNCHANGED <<sent, refunded, overrun>>
    BY <1>4 DEF Fetch, CountsStay, rowVars, pastVars
  <2>3. QED
    BY <1>1, <2>1, <2>2, BudgetFrame
<1>5. ASSUME JobStep(w) \/ CrashJob(w)
      PROVE  \A v \in Submitters : v # w => job'[v] = job[v]
  BY <1>5, JobMoves
<1>6. CASE Claim(w) /\ Claimable(w)
  <2>1. /\ job'[w].at = "claimed" /\ job'[w].s = s
        /\ job'[w].attempt = job[w].attempt
        /\ UNCHANGED <<status, retry, sent, refunded, overrun>>
    BY <1>1, <1>6 DEF Claim, TypeOK, Job, rowVars, pastVars
  <2>2. status[s] \in Submittable /\ retry[s] = job[w].attempt /\ s \in Settlements
    BY <1>2, <1>6 DEF Claim, Claimable
  <2>3. JobBudget'
    BY <1>5, <1>6, <2>1, <2>2 DEF BudgetInv, JobBudget, Budgeted, RowBudget, InRound, Charged, JobStep
  <2>4. RowBudget' /\ AttemptBudget'
    BY <2>1 DEF BudgetInv, RowBudget, AttemptBudget, Charged, Charged
  <2>5. QED
    BY <2>3, <2>4 DEF BudgetInv
<1>7. CASE BeginAttempt(w)
  <2>1. /\ job[w].at = "begin"
        /\ job'[w].at = "submit" /\ job'[w].s = s
        /\ job'[w].attempt = job[w].attempt + 1
        /\ \A t \in Settlements : retry'[t] = IF t = s THEN job[w].attempt + 1 ELSE retry[t]
        /\ UNCHANGED <<status, sent, refunded, overrun>>
    BY <1>1, <1>2, <1>7 DEF BeginAttempt, TypeOK, Job, pastVars
  <2>2. /\ job[w].attempt < MaxAttempts
        /\ Charged(s) => sent[s] =< job[w].attempt
    BY <2>1 DEF BudgetInv, JobBudget, Budgeted, InRound, Charged
  <2>3. JobBudget'
    <3> SUFFICES ASSUME NEW v \in Submitters
                 PROVE  Budgeted(v)'
      BY DEF JobBudget
    <3>1. CASE v = w
      BY <1>2, <2>1, <2>2, <3>1 DEF Budgeted, Charged
    <3>2. CASE v # w
      <4>1. job'[v] = job[v]
        BY <1>5, <1>7, <3>2 DEF JobStep
      <4>2. InRound(v) => (overrun[s] = 0 => job[v].s # s) /\ job[v].s \in Settlements
        BY <1>1, <1>3, <2>1, <3>2 DEF JobsMatch, InRound
      <4>3. QED
        BY <2>1, <4>1, <4>2 DEF BudgetInv, JobBudget, Budgeted, InRound, Charged
    <3>3. QED
      BY <3>1, <3>2
  <2>4. RowBudget' /\ AttemptBudget'
    BY <1>2, <2>1, <2>2 DEF BudgetInv, RowBudget, AttemptBudget, Charged, Charged
  <2>5. QED
    BY <2>3, <2>4 DEF BudgetInv

<1>8. CASE Submit(w)
  <2>1. job[w].at = "submit" /\ s \in Settlements
    BY <1>2, <1>8 DEF Submit
  <2>2. /\ job'[w].at \in {"record", "caught"} /\ job'[w].s = s
        /\ job'[w].attempt = job[w].attempt
    <3>1. \E k : \/ job' = [job EXCEPT ![w].at = "record", ![w].cat = k]
                 \/ job' = [job EXCEPT ![w].at = "caught", ![w].cat = k]
      BY <1>8, Zenon DEF Submit, SubmitOutcome
    <3>2. QED
      BY <1>1, <3>1 DEF TypeOK, Job
  <2>3. /\ sent' = [sent EXCEPT ![s] = IF sent[s] > MaxAttempts THEN sent[s] ELSE sent[s] + 1]
        /\ UNCHANGED <<status, retry, refunded, overrun>>
    BY <1>8 DEF Submit, rowVars
  <2>4. /\ job[w].attempt =< MaxAttempts
        /\ Charged(s) => /\ sent[s] < job[w].attempt
                         /\ status[s] \in Submittable => retry[s] = job[w].attempt
    BY <2>1 DEF BudgetInv, JobBudget, Budgeted, InRound, Charged
  <2>5. \A t \in Settlements : sent'[t] = IF t = s /\ ~ (sent[s] > MaxAttempts)
                                          THEN sent[s] + 1 ELSE sent[t]
    BY <2>1, <2>3 DEF TypeOK
  <2>6. Charged(s) => sent'[s] =< job[w].attempt
    BY <1>2, <2>1, <2>4, <2>5
  <2>7. JobBudget'
    <3> SUFFICES ASSUME NEW v \in Submitters
                 PROVE  Budgeted(v)'
      BY DEF JobBudget
    <3>1. CASE v = w
      BY <2>1, <2>2, <2>3, <2>4, <2>6, <3>1 DEF Budgeted, Charged
    <3>2. CASE v # w
      <4>1. job'[v] = job[v]
        BY <1>5, <1>8, <3>2 DEF JobStep
      <4>2. InRound(v) => (overrun[s] = 0 => job[v].s # s) /\ job[v].s \in Settlements
        BY <1>1, <1>3, <2>1, <3>2 DEF JobsMatch, InRound
      <4>3. QED
        BY <2>3, <2>5, <4>1, <4>2 DEF BudgetInv, JobBudget, Budgeted, InRound, Charged
    <3>3. QED
      BY <3>1, <3>2
  <2>8. RowBudget'
    BY <2>1, <2>3, <2>4, <2>5, <2>6 DEF BudgetInv, RowBudget, Charged
  <2>9. AttemptBudget'
    <3>1. \A t \in Settlements : overrun[t] \in Nat
      BY DEF TypeOK
    <3>2. refunded[s] \/ overrun[s] > 0 \/ sent'[s] =< MaxAttempts
      BY <1>2, <2>1, <2>4, <2>5, <2>6, <3>1 DEF Charged
    <3>3. QED
      BY <1>2, <2>1, <2>3, <2>5, <3>2 DEF BudgetInv, AttemptBudget
  <2>10. QED
    BY <2>7, <2>8, <2>9 DEF BudgetInv
<1>9. CASE Retry(w)
  <2>1. /\ job[w].at = "caught" /\ job[w].attempt < MaxAttempts
        /\ job'[w].at = "begin" /\ job'[w].s = s
        /\ job'[w].attempt = job[w].attempt
        /\ \A t \in Settlements : retry'[t] = IF t = s THEN job[w].attempt ELSE retry[t]
        /\ UNCHANGED <<status, sent, refunded, overrun>>
    BY <1>1, <1>2, <1>9 DEF Retry, ScheduleRetry, TypeOK, Job, pastVars
  <2>2. Charged(s) => sent[s] =< job[w].attempt
    BY <2>1 DEF BudgetInv, JobBudget, Budgeted, InRound, Charged
  <2>3. JobBudget'
    <3> SUFFICES ASSUME NEW v \in Submitters
                 PROVE  Budgeted(v)'
      BY DEF JobBudget
    <3>1. CASE v = w
      BY <1>2, <2>1, <2>2, <3>1 DEF Budgeted, Charged
    <3>2. CASE v # w
      <4>1. job'[v] = job[v]
        BY <1>5, <1>9, <3>2 DEF JobStep
      <4>2. InRound(v) => (overrun[s] = 0 => job[v].s # s) /\ job[v].s \in Settlements
        BY <1>1, <1>3, <2>1, <3>2 DEF JobsMatch, InRound
      <4>3. QED
        BY <2>1, <4>1, <4>2 DEF BudgetInv, JobBudget, Budgeted, InRound, Charged
    <3>3. QED
      BY <3>1, <3>2
  <2>4. RowBudget' /\ AttemptBudget'
    BY <2>1, <2>2 DEF BudgetInv, RowBudget, AttemptBudget, Charged, Charged
  <2>5. QED
    BY <2>3, <2>4 DEF BudgetInv
<1>10. CASE /\ JobStep(w) \/ CrashJob(w)
            /\ ~ (Claim(w) /\ Claimable(w))
            /\ ~ BeginAttempt(w) /\ ~ Submit(w) /\ ~ Retry(w)
  <2>1. CountsStay
    <3>1. CASE UNCHANGED <<status, retry>>
      BY <3>1 DEF CountsStay
    <3>2. CASE ~ UNCHANGED <<status, retry>>
      <4>1. JobStep(w)
        BY <1>10, <3>2 DEF CrashJob, rowVars
      <4>2. PICK to \in SettlementStatuses, hash \in Envelopes \cup {None},
                 n \in Nat, dead \in BOOLEAN :
                 /\ \/ TransitionReturns(s, to, hash, n, dead)
                    \/ TransitionThrows(s, to)
                 /\ job[w].at # "idle"
                 /\ to \in Submittable => n = retry[s]
                 /\ to # "submitted"
        BY <1>10, <3>2, <4>1, JobRows
      <4>3. QED
        BY <1>2, <4>2, TransitionCounts
    <3>3. QED
      BY <3>1, <3>2
  <2>2. UNCHANGED <<sent, refunded, overrun>>
    BY <1>10, Zenon DEF JobStep, Claim, Refuse, Prepare, Record, Poll, GiveUp,
                        AlreadyApplied, Release, CrashJob, pastVars
  <2>3. \/ ~ InRound(w)'
        \/ /\ job'[w].s = job[w].s /\ job'[w].attempt = job[w].attempt
           /\ InRound(w)
           /\ job'[w].at # "submit"
           /\ job'[w].at = "begin" => job[w].attempt < MaxAttempts
           /\ job'[w].at \in {"record", "poll", "caught"} =>
                 job[w].at \in {"submit", "record", "poll"}
    <3>1. job'[w].at = "begin" => job[w].at = "claimed" /\ job[w].attempt < MaxAttempts
      BY <1>10, JobMoves, Zenon DEF Prepare
    <3>2. job'[w].at # "claimed"
      BY <1>10, JobMoves DEF Claim, IdleJob, TypeOK
    <3>3. QED
      BY <1>10, <3>1, <3>2, JobMoves DEF InRound
  <2>4. QED
    BY <1>1, <1>5, <1>10, <2>1, <2>2, <2>3, BudgetFrame
<1>11. QED
  BY <1>4, <1>6, <1>7, <1>8, <1>9, <1>10 DEF JobStep

(* A checker moves the count of an open row only where it counts a lookup, *)
(* and then no job is in its round; a count that falls is a refund.        *)
LEMMA CheckKeepsBudget ==
    ASSUME TypeOK, EnvelopesMatch, OneDriver, BudgetInv, NEW c \in Checkers,
           \/ \E s \in Settlements : CheckFetch(c, s)
           \/ CheckStep(c) \/ CheckUnanswered(c) \/ CrashCheck(c)
    PROVE  BudgetInv'
<1> DEFINE s == chk[c].s
<1>1. job' = job /\ JobsMatch
  BY CheckMoves DEF EnvelopesMatch
<1>2. chk[c].at # "idle" =>
         s \in Settlements /\ retry[s] \in Nat /\ chk[c].retry + 1 \in Nat
  BY DEF EnvelopesMatch, ChecksMatch, TypeOK, Check
<1>3. ASSUME CountsStay, UNCHANGED <<sent, refunded, overrun>>
      PROVE  BudgetInv'
  BY <1>1, <1>3, BudgetFrame
<1>4. ASSUME NEW to \in {"confirmed", "failed", "expired"}, NEW n \in Nat,
             chk[c].at # "idle", CheckTransition(c, to, n)
      PROVE  BudgetInv'
  <2>1. to \in SettlementStatuses \ {"submitted"} /\ to \notin Submittable
    BY DEF SettlementStatuses, Submittable
  <2>2. /\ \/ TransitionReturns(s, to, txHash[s], n, deadLettered[s])
           \/ TransitionThrows(s, to)
        /\ UNCHANGED <<sent, refunded, overrun>>
    BY <1>4, Zenon DEF CheckTransition, pastVars
  <2>3. CountsStay
    BY <1>2, <1>4, <2>1, <2>2, TransitionCounts
  <2>4. QED
    BY <1>3, <2>2, <2>3
<1>5. CASE \/ CheckVerified(c) \/ CheckRejected(c) \/ CheckExpires(c)
           \/ CheckExhausted(c) \/ ApiWrites(c)
  <2>1. chk[c].at # "idle" /\ chk[c].retry \in Nat
    BY <1>5 DEF CheckVerified, CheckRejected, CheckExpires, CheckExhausted, ApiWrites,
                TypeOK, Check
  <2>2. \E to \in {"confirmed", "failed", "expired"},
           n \in {0, chk[c].retry, chk[c].retry + 1, retry[s]} : CheckTransition(c, to, n)
    BY <1>5, Zenon
       DEF CheckVerified, CheckRejected, CheckExpires, CheckExhausted, ApiWrites
  <2>3. QED
    BY <1>2, <1>4, <2>1, <2>2
<1>6. CASE CheckCounts(c)
  <2>1. s \in Settlements /\ DrivingCheck(c, s)
    BY <1>2, <1>6 DEF CheckCounts, DrivingCheck
  <2>2. \A v \in Submitters :
           InRound(v) => (overrun[s] = 0 => job[v].s # s) /\ job[v].s \in Settlements
    BY <1>1, <2>1 DEF OneDriver, DrivingJob, InRound, JobsMatch
  <2>3. /\ \A t \in Settlements :
              retry'[t] = IF t = s THEN chk[c].retry + 1 ELSE retry[t]
        /\ \A t \in Settlements : status'[t] = status[t] \/ status'[t] \notin Submittable
        /\ \A t \in Settlements : t # s => status'[t] = status[t]
        /\ sent' = sent /\ overrun' = overrun
    BY <1>6, <2>1 DEF CheckCounts, Submittable, TypeOK
  <2>4. \A t \in Settlements :
           /\ t # s => refunded'[t] = refunded[t]
           /\ Charged(t)' => Charged(t)
           /\ Charged(t)' /\ t = s => ~ (chk[c].retry + 1 < retry[s])
    <3>1. \A t \in Settlements :
             /\ t # s => refunded'[t] = refunded[t]
             /\ ~ refunded'[t] => ~ refunded[t]
             /\ ~ refunded'[s] => ~ (chk[c].retry + 1 < retry[s])
      BY <1>6, <2>1 DEF CheckCounts, TypeOK
    <3>2. QED
      BY <2>1, <2>3, <3>1 DEF Charged
  <2>5. JobBudget'
    BY <1>1, <2>2, <2>3, <2>4 DEF BudgetInv, JobBudget, Budgeted, InRound, Charged
  <2>6. RowBudget'
    <3> SUFFICES ASSUME NEW t \in Settlements, status'[t] \in Submittable, Charged(t)'
                 PROVE  sent'[t] =< retry'[t]
      BY DEF RowBudget
    <3>0. Charged(t) /\ status[t] \in Submittable /\ sent[t] \in Nat /\ retry[t] \in Nat
      BY <2>3, <2>4 DEF TypeOK
    <3>1. sent[t] =< retry[t] /\ sent'[t] = sent[t] /\ sent[t] \in Nat
      BY <2>3, <3>0 DEF BudgetInv, RowBudget
    <3>2. t = s => ~ (chk[c].retry + 1 < retry[s])
      BY <2>4
    <3>3. retry'[t] = IF t = s THEN chk[c].retry + 1 ELSE retry[t]
      BY <2>3
    <3>4. s \in Settlements /\ retry[s] \in Nat /\ chk[c].retry + 1 \in Nat
      BY <1>2, <1>6 DEF CheckCounts
    <3>5. QED
      BY <3>0, <3>1, <3>2, <3>3, <3>4
  <2>7. AttemptBudget'
    <3>1. \A t \in Settlements : overrun[t] \in Nat /\ overrun'[t] = overrun[t]
      BY <2>3 DEF TypeOK
    <3>2. \A t \in Settlements : refunded[t] \/ overrun[t] > 0 => refunded'[t] \/ overrun'[t] > 0
      BY <2>4, <3>1 DEF Charged
    <3>3. QED
      BY <2>3, <3>2 DEF BudgetInv, AttemptBudget
  <2>8. QED
    BY <2>5, <2>6, <2>7 DEF BudgetInv
<1>7. CASE LegacyConfirms(c) \/ LegacyFails(c)
  <2>1. /\ s \in Settlements
        /\ \E to \in {"confirmed", "failed"} : status' = [status EXCEPT ![s] = to]
        /\ retry' = retry \/ retry' = [retry EXCEPT ![s] = chk[c].retry]
        /\ UNCHANGED <<sent, refunded, overrun>>
    BY <1>2, <1>7 DEF LegacyConfirms, LegacyFails, LegacyWrites, pastVars
  <2>2. CountsStay
    BY <2>1 DEF CountsStay, Submittable, TypeOK
  <2>3. QED
    BY <1>3, <2>1, <2>2
<1>8. CASE \/ \E t \in Settlements : CheckFetch(c, t)
           \/ CheckClaim(c) \/ CheckLookup(c) \/ LegacySettlesShare(c) \/ CheckLeaves(c)
           \/ CheckRelease(c) \/ CheckUnanswered(c) \/ CrashCheck(c)
  <2>1. UNCHANGED <<status, retry, sent, refunded, overrun>>
    BY <1>8, Zenon DEF CheckFetch, CheckClaim, CheckLookup, LegacySettlesShare,
                       CheckLeaves, CheckRelease, CheckUnanswered, CrashCheck, rowVars,
                       pastVars
  <2>2. QED
    BY <1>3, <2>1 DEF CountsStay
<1>9. QED
  BY <1>5, <1>6, <1>7, <1>8 DEF CheckStep

(* A round that is accepted starts with no call made and none counted.     *)
LEMMA WorldKeepsBudget ==
    ASSUME TypeOK, EnvelopesMatch, BudgetInv,
           \/ \E s \in Settlements : \/ CreateCheck(s) \/ CreateWrite(s)
                                     \/ CreateAborts(s) \/ CreateFreeform(s)
                                     \/ LeaseLapses(s) \/ CloseWindow(s)
           \/ \E s \in Settlements, e \in Envelopes : AcceptEnvelope(s, e)
           \/ RecoverStale
           \/ \E e \in Envelopes : LedgerResolves(e) \/ LedgerShows(e)
    PROVE  BudgetInv'
<1> USE ConstantsAssumption
<1>1. job' = job /\ JobsMatch
  BY Zenon DEF CreateCheck, CreateWrite, CreateAborts, CreateFreeform, LeaseLapses,
               CloseWindow, AcceptEnvelope, RecoverStale, LedgerResolves, LedgerShows,
               EnvelopesMatch
<1>2. ASSUME NEW s \in Settlements, NEW e \in Envelopes, AcceptEnvelope(s, e)
      PROVE  BudgetInv'
  <2>1. /\ sent'[s] = 0 /\ retry'[s] = 0
        /\ \A t \in Settlements : t # s =>
              /\ sent'[t] = sent[t] /\ retry'[t] = retry[t]
              /\ status'[t] = status[t] /\ refunded'[t] = refunded[t]
              /\ overrun'[t] = overrun[t]
    BY <1>2 DEF AcceptEnvelope, TypeOK
  <2>2. Charged(s)' => \A v \in Submitters : InRound(v) => job[v].s # s
    BY <1>2 DEF AcceptEnvelope, TypeOK, DrivingJob, InRound, Charged
  <2>3. JobBudget'
    <3> SUFFICES ASSUME NEW v \in Submitters
                 PROVE  Budgeted(v)'
      BY DEF JobBudget
    <3>1. InRound(v) => job[v].s \in Settlements
      BY <1>1 DEF JobsMatch, InRound
    <3>2. Budgeted(v)
      BY DEF BudgetInv, JobBudget
    <3>3. QED
      BY <1>1, <2>1, <2>2, <3>1, <3>2 DEF Budgeted, InRound, Charged
  <2>4. RowBudget' /\ AttemptBudget'
    BY <2>1 DEF BudgetInv, RowBudget, AttemptBudget, Charged, Charged
  <2>5. QED
    BY <2>3, <2>4 DEF BudgetInv
<1>3. ASSUME NEW s \in Settlements, CreateWrite(s) \/ CreateFreeform(s)
      PROVE  BudgetInv'
  <2>1. CountsStay /\ UNCHANGED <<sent, refunded, overrun>>
    BY <1>3 DEF CreateWrite, CreateFreeform, CountsStay, Submittable, TypeOK, pastVars
  <2>2. QED
    BY <1>1, <2>1, BudgetFrame
<1>4. ASSUME UNCHANGED <<status, retry, sent, refunded, overrun>>
      PROVE  BudgetInv'
  BY <1>1, <1>4, BudgetFrame DEF CountsStay
<1>5. ASSUME NEW s \in Settlements, LeaseLapses(s)
      PROVE  BudgetInv'
  <2>1. /\ UNCHANGED <<status, retry, sent, refunded>>
        /\ \A t \in Settlements : overrun'[t] = 0 => overrun[t] = 0
        /\ \A t \in Settlements : overrun[t] > 0 => overrun'[t] > 0
    BY <1>5 DEF LeaseLapses, rowVars, TypeOK
  <2>2. \A t \in Settlements : Charged(t)' => Charged(t)
    BY <2>1 DEF Charged
  <2>3. JobBudget'
    <3> SUFFICES ASSUME NEW v \in Submitters
                 PROVE  Budgeted(v)'
      BY DEF JobBudget
    <3>1. InRound(v) => job[v].s \in Settlements
      BY <1>1 DEF JobsMatch, InRound
    <3>2. Budgeted(v)
      BY DEF BudgetInv, JobBudget
    <3>3. QED
      BY <1>1, <2>1, <2>2, <3>1, <3>2 DEF Budgeted, InRound
  <2>4. RowBudget' /\ AttemptBudget'
    BY <2>1, <2>2 DEF BudgetInv, RowBudget, AttemptBudget
  <2>5. QED
    BY <2>3, <2>4 DEF BudgetInv
<1>6. QED
  BY <1>2, <1>3, <1>4, <1>5 DEF CreateCheck, CreateAborts, CloseWindow,
                          RecoverStale, LedgerResolves, LedgerShows, rowVars, pastVars

(* The budget is inductive beside the invariant and the leases. *)
LEMMA BudgetInductive ==
    /\ Init => BudgetInv
    /\ IInv /\ LeaseInv /\ BudgetInv /\ [Next]_vars => BudgetInv'
<1>1. Init => BudgetInv
  BY ConstantsAssumption
     DEF Init, BudgetInv, JobBudget, Budgeted, InRound, RowBudget, AttemptBudget, Charged,
         IdleJob, Submittable
<1>2. ASSUME IInv, LeaseInv, BudgetInv, [Next]_vars
      PROVE  BudgetInv'
  <2>1. TypeOK /\ EnvelopesMatch /\ OneDriver
    BY <1>2 DEF IInv, LeaseInv
  <2>2. CASE UNCHANGED vars
    BY <1>2, <2>2 DEF vars, rowVars, pastVars, BudgetInv, JobBudget, Budgeted, InRound,
                      RowBudget, AttemptBudget, Charged, Charged
  <2>3. CASE Next
    <3>1. ASSUME NEW w \in Submitters,
                 \/ \E s \in Settlements : Fetch(w, s)
                 \/ JobStep(w) \/ CrashJob(w)
          PROVE  BudgetInv'
      BY <1>2, <2>1, <3>1, JobKeepsBudget
    <3>2. ASSUME NEW c \in Checkers,
                 \/ \E s \in Settlements : CheckFetch(c, s)
                 \/ CheckStep(c) \/ CheckUnanswered(c) \/ CrashCheck(c)
          PROVE  BudgetInv'
      BY <1>2, <2>1, <3>2, CheckKeepsBudget
    <3>3. ASSUME \/ \E s \in Settlements : \/ CreateCheck(s) \/ CreateWrite(s)
                                           \/ CreateAborts(s) \/ CreateFreeform(s)
                                           \/ LeaseLapses(s) \/ CloseWindow(s)
                 \/ \E s \in Settlements, e \in Envelopes : AcceptEnvelope(s, e)
                 \/ RecoverStale
                 \/ \E e \in Envelopes : LedgerResolves(e) \/ LedgerShows(e)
          PROVE  BudgetInv'
      BY <1>2, <2>1, <3>3, WorldKeepsBudget
    <3>4. QED
      BY <2>3, <3>1, <3>2, <3>3 DEF Next, Confirm, Execute
  <2>4. QED
    BY <1>2, <2>2, <2>3
<1>3. QED
  BY <1>1, <1>2

(* The retry budget of a signed round survives any number of crashes,      *)
(* lapsed leases, adoptions and workers, because recordAttemptStarted      *)
(* commits before submitPayment is called and scheduleRetry keeps the      *)
(* count.  A stale count of the status sync, a round accepted under a job  *)
(* still driving the last one, and a lease that runs out in mid-job can    *)
(* void it, and nothing else.                                              *)
THEOREM RetryBudgetIsDurable == Spec => []AttemptBudget
<1>1. BudgetInv => AttemptBudget
  BY DEF BudgetInv
<1>2. QED
  BY <1>1, IInvInductive, LeaseInductive, BudgetInductive, PTL DEF Spec

-----------------------------------------------------------------------------
(* Status changes.  A checker at its write, about to update by id: the     *)
(* transaction reconciliation loop, or handleTransactionNotFound for a row *)
(* that was in review when it was read.                                    *)
BlindWrite(s) ==
    \E c \in Checkers : /\ chk[c].s = s /\ chk[c].at = "write" /\ chk'[c] # chk[c]
                       /\ \/ KindOf[c] = "legacy"
                          \/ chk[c].result = "null" /\ chk[c].seen = "needs_review"

(* What may happen to a status in one step: a row is created, the payer's  *)
(* envelope is accepted, the state machine allows the hop, or an update by *)
(* id writes what it likes.                                                *)
StatusMoves(s) ==
    \/ status'[s] = status[s]
    \/ status[s] = "none" /\ status'[s] = "pending" /\ ~ creating'[s]
    \/ status[s] \in {"pending", "failed"} /\ status'[s] = "submitted"
    \/ CanTransition(status[s], status'[s])
    \/ BlindWrite(s) /\ status[s] # "none" /\ status'[s] # "none"

EveryStatusMoves == \A s \in Settlements : StatusMoves(s)

(* A creation in flight has no row yet, and a checker always has one. *)
RowsExist ==
    /\ \A s \in Settlements : creating[s] => status[s] = "none" /\ ShareOf[s] # None
    /\ \A c \in Checkers : chk[c].at # "idle" => status[chk[c].s] # "none"

(* applySettlementTransition makes no hop the table does not have, *)
LEMMA TransitionHops ==
    ASSUME TypeOK, NEW s \in Settlements, NEW to \in SettlementStatuses,
           NEW hash, NEW n, NEW dead,
           \/ TransitionReturns(s, to, hash, n, dead)
           \/ TransitionThrows(s, to)
    PROVE  EveryStatusMoves
<1>1. CASE TransitionChanged(s, to, hash, n, dead)
  BY <1>1 DEF TypeOK, TransitionChanged, EveryStatusMoves, StatusMoves
<1>2. CASE ~ TransitionChanged(s, to, hash, n, dead)
  <2>1. status' = status
    BY <1>2, Zenon DEF TransitionReturns, TransitionSame, TransitionRaced,
                       TransitionThrows, rowVars
  <2>2. QED
    BY <2>1 DEF EveryStatusMoves, StatusMoves
<1>3. QED
  BY <1>1, <1>2

(* and a submitter changes a status by it alone; *)
LEMMA JobStatus ==
    ASSUME TypeOK, EnvelopesMatch, NEW w \in Submitters,
           \/ \E s \in Settlements : Fetch(w, s)
           \/ JobStep(w) \/ CrashJob(w)
    PROVE  EveryStatusMoves /\ UNCHANGED <<creating, chk>>
<1>1. EveryStatusMoves
  <2>1. CASE status' = status
    BY <2>1 DEF EveryStatusMoves, StatusMoves
  <2>2. CASE status' # status
    <3>1. JobStep(w)
      BY <2>2 DEF Fetch, CrashJob, rowVars
    <3>2. PICK to \in SettlementStatuses, hash \in Envelopes \cup {None},
               n \in Nat, dead \in BOOLEAN :
               /\ \/ TransitionReturns(job[w].s, to, hash, n, dead)
                  \/ TransitionThrows(job[w].s, to)
               /\ job[w].at # "idle"
      BY <2>2, <3>1, JobRows
    <3>3. job[w].s \in Settlements
      BY <3>2 DEF EnvelopesMatch, JobsMatch
    <3>4. QED
      BY <3>2, <3>3, TransitionHops
  <2>3. QED
    BY <2>1, <2>2
<1>2. UNCHANGED <<creating, chk>>
  BY Zenon DEF Fetch, JobStep, Claim, Refuse, Prepare, BeginAttempt, Submit, Record, Poll,
               GiveUp, Retry, AlreadyApplied, Release, CrashJob
<1>3. QED
  BY <1>1, <1>2

(* a checker does, or writes by id at its write; *)
LEMMA CheckStatus ==
    ASSUME TypeOK, EnvelopesMatch, RowsExist, NEW c \in Checkers,
           \/ \E s \in Settlements : CheckFetch(c, s)
           \/ CheckStep(c) \/ CheckUnanswered(c) \/ CrashCheck(c)
    PROVE  EveryStatusMoves /\ creating' = creating
<1> DEFINE s == chk[c].s
<1>1. chk[c].at # "idle" => s \in Settlements /\ status[s] # "none"
  BY DEF EnvelopesMatch, ChecksMatch, RowsExist
<1>2. ASSUME NEW to \in {"confirmed", "failed", "expired"}, NEW n, chk[c].at # "idle",
             CheckTransition(c, to, n)
      PROVE  EveryStatusMoves /\ creating' = creating
  <2>1. /\ \/ TransitionReturns(s, to, txHash[s], n, deadLettered[s])
           \/ TransitionThrows(s, to)
        /\ creating' = creating
    BY <1>2, Zenon DEF CheckTransition
  <2>2. to \in SettlementStatuses
    BY DEF SettlementStatuses
  <2>3. QED
    BY <1>1, <1>2, <2>1, <2>2, TransitionHops
<1>3. CASE \/ CheckVerified(c) \/ CheckRejected(c) \/ CheckExpires(c)
           \/ CheckExhausted(c) \/ ApiWrites(c)
  <2>1. chk[c].at # "idle"
    BY <1>3, Zenon DEF CheckVerified, CheckRejected, CheckExpires, CheckExhausted, ApiWrites
  <2>2. \E to \in {"confirmed", "failed", "expired"} : \E n : CheckTransition(c, to, n)
    BY <1>3, Zenon
       DEF CheckVerified, CheckRejected, CheckExpires, CheckExhausted, ApiWrites
  <2>3. QED
    BY <1>2, <2>1, <2>2
<1>4. ASSUME chk[c].at = "write",
             \/ KindOf[c] = "legacy"
             \/ chk[c].result = "null" /\ chk[c].seen = "needs_review",
             chk'[c] # chk[c],
             NEW to \in SettlementStatuses, status' = [status EXCEPT ![s] = to]
      PROVE  EveryStatusMoves
  <2>1. BlindWrite(s)
    BY <1>4 DEF BlindWrite
  <2>2. "none" \notin SettlementStatuses
    BY DEF SettlementStatuses
  <2>3. QED
    BY <1>1, <1>4, <2>1, <2>2 DEF EveryStatusMoves, StatusMoves, TypeOK
<1>5. CASE CheckCounts(c)
  <2>1. chk[c].at = "write" /\ chk'[c] # chk[c] /\ chk[c].result = "null"
        /\ creating' = creating
    BY <1>5 DEF CheckCounts, Done, IdleCheck, TypeOK, Check
  <2>2. CASE chk[c].seen = "needs_review"
    <3>1. status' = [status EXCEPT ![s] = "pending_confirmation"]
      BY <1>5, <2>2 DEF CheckCounts
    <3>2. "pending_confirmation" \in SettlementStatuses
      BY DEF SettlementStatuses
    <3>3. QED
      BY <1>4, <2>1, <2>2, <3>1, <3>2
  <2>3. CASE chk[c].seen # "needs_review"
    BY <1>5, <2>1, <2>3 DEF CheckCounts, EveryStatusMoves, StatusMoves
  <2>4. QED
    BY <2>2, <2>3
<1>6. CASE LegacyConfirms(c) \/ LegacyFails(c)
  <2>1. /\ chk[c].at = "write" /\ KindOf[c] = "legacy" /\ chk'[c] # chk[c]
        /\ creating' = creating
    BY <1>6 DEF LegacyConfirms, LegacyFails, LegacyWrites, IdleCheck, TypeOK, Check
  <2>2. PICK to \in {"confirmed", "failed"} : status' = [status EXCEPT ![s] = to]
    BY <1>6, Zenon DEF LegacyConfirms, LegacyFails, LegacyWrites
  <2>3. to \in SettlementStatuses
    BY DEF SettlementStatuses
  <2>4. QED
    BY <1>4, <2>1, <2>2, <2>3
<1>7. CASE \/ \E t \in Settlements : CheckFetch(c, t)
           \/ CheckClaim(c) \/ CheckLookup(c) \/ LegacySettlesShare(c) \/ CheckLeaves(c)
           \/ CheckRelease(c) \/ CheckUnanswered(c) \/ CrashCheck(c)
  <2>1. UNCHANGED <<status, creating>>
    BY <1>7, Zenon DEF CheckFetch, CheckClaim, CheckLookup, LegacySettlesShare,
                       CheckLeaves, CheckRelease, CheckUnanswered, CrashCheck, rowVars
  <2>2. QED
    BY <2>1 DEF EveryStatusMoves, StatusMoves
<1>8. QED
  BY <1>3, <1>5, <1>6, <1>7 DEF CheckStep

(* the API creates rows that are not there and accepts envelopes. *)
LEMMA WorldStatus ==
    ASSUME TypeOK, RowsExist,
           \/ \E s \in Settlements : \/ CreateCheck(s) \/ CreateWrite(s)
                                     \/ CreateAborts(s) \/ CreateFreeform(s)
                                     \/ LeaseLapses(s) \/ CloseWindow(s)
           \/ \E s \in Settlements, e \in Envelopes : AcceptEnvelope(s, e)
           \/ RecoverStale
           \/ \E e \in Envelopes : LedgerResolves(e) \/ LedgerShows(e)
    PROVE  /\ EveryStatusMoves
           /\ chk' = chk
           /\ \A s \in Settlements : creating'[s] => status'[s] = "none" /\ ShareOf[s] # None
<1>1. chk' = chk
  BY Zenon DEF CreateCheck, CreateWrite, CreateAborts, CreateFreeform, LeaseLapses,
               CloseWindow, AcceptEnvelope, RecoverStale, LedgerResolves, LedgerShows
<1>2. ASSUME NEW s \in Settlements, CreateCheck(s) \/ CreateAborts(s)
      PROVE  /\ EveryStatusMoves
             /\ \A t \in Settlements : creating'[t] => status'[t] = "none" /\ ShareOf[t] # None
  BY <1>2 DEF CreateCheck, CreateAborts, EveryStatusMoves, StatusMoves, RowsExist, TypeOK,
              rowVars
<1>3. ASSUME NEW s \in Settlements, CreateWrite(s) \/ CreateFreeform(s)
      PROVE  /\ EveryStatusMoves
             /\ \A t \in Settlements : creating'[t] => status'[t] = "none" /\ ShareOf[t] # None
  BY <1>3 DEF CreateWrite, CreateFreeform, EveryStatusMoves, StatusMoves, RowsExist, TypeOK
<1>4. ASSUME NEW s \in Settlements, NEW e \in Envelopes, AcceptEnvelope(s, e)
      PROVE  /\ EveryStatusMoves
             /\ \A t \in Settlements : creating'[t] => status'[t] = "none" /\ ShareOf[t] # None
  BY <1>4 DEF AcceptEnvelope, EveryStatusMoves, StatusMoves, RowsExist, TypeOK
<1>5. ASSUME UNCHANGED <<status, creating>>
      PROVE  /\ EveryStatusMoves
             /\ \A t \in Settlements : creating'[t] => status'[t] = "none" /\ ShareOf[t] # None
  BY <1>5 DEF EveryStatusMoves, StatusMoves, RowsExist
<1>6. QED
  BY <1>1, <1>2, <1>3, <1>4, <1>5
     DEF LeaseLapses, CloseWindow, RecoverStale, LedgerResolves, LedgerShows, rowVars

(* A checker that is past its fetch keeps the row it fetched. *)
LEMMA CheckHolds ==
    ASSUME TypeOK, NEW c \in Checkers,
           CheckStep(c) \/ CheckUnanswered(c) \/ CrashCheck(c),
           NEW d \in Checkers, chk'[d].at # "idle"
    PROVE  chk[d].at # "idle" /\ chk'[d].s = chk[d].s
<1>1. CASE CheckClaim(c)
  BY <1>1 DEF CheckClaim, IdleCheck, TypeOK, Check
<1>2. CASE CheckLookup(c) \/ LegacyConfirms(c)
  <2>1. /\ chk[c].at \in {"lookup", "write"}
        /\ \/ \E r : chk' = [chk EXCEPT ![c].at = "write", ![c].result = r]
           \/ chk' = [chk EXCEPT ![c].at = "share"]
    BY <1>2, Zenon DEF CheckLookup, LegacyConfirms, LegacyWrites
  <2>2. CASE chk' = [chk EXCEPT ![c].at = "share"]
    BY <2>1, <2>2 DEF TypeOK, Check
  <2>3. ASSUME NEW r, chk' = [chk EXCEPT ![c].at = "write", ![c].result = r]
        PROVE  chk[d].at # "idle" /\ chk'[d].s = chk[d].s
    BY <2>1, <2>3 DEF TypeOK, Check
  <2>4. QED
    BY <2>1, <2>2, <2>3
<1>3. CASE \/ CheckVerified(c) \/ CheckRejected(c) \/ CheckExpires(c)
           \/ CheckExhausted(c) \/ ApiWrites(c) \/ CheckCounts(c)
           \/ CheckUnanswered(c)
  <2>1. chk[c].at \in {"lookup", "write"} /\ chk' = [chk EXCEPT ![c] = Done(c)]
    BY <1>3, Zenon
       DEF CheckVerified, CheckRejected, CheckExpires, CheckExhausted, ApiWrites,
           CheckCounts, CheckUnanswered, CheckTransition
  <2>2. QED
    BY <2>1 DEF Done, IdleCheck, TypeOK, Check
<1>4. CASE \/ LegacySettlesShare(c) \/ LegacyFails(c) \/ CheckLeaves(c)
           \/ CheckRelease(c) \/ CrashCheck(c)
  <2>1. chk' = [chk EXCEPT ![c] = IdleCheck]
    BY <1>4, Zenon DEF LegacySettlesShare, LegacyFails, LegacyWrites, CheckLeaves,
                       CheckRelease, CrashCheck
  <2>2. QED
    BY <2>1 DEF IdleCheck, TypeOK
<1>5. QED
  BY <1>1, <1>2, <1>3, <1>4 DEF CheckStep

(* Every step makes only such moves, and keeps creations ahead of rows. *)
LEMMA StatusStep ==
    /\ Init => RowsExist
    /\ IInv /\ RowsExist /\ [Next]_vars => RowsExist' /\ EveryStatusMoves
<1>1. Init => RowsExist
  BY DEF Init, RowsExist, IdleCheck
<1>2. ASSUME IInv, RowsExist, [Next]_vars
      PROVE  RowsExist' /\ EveryStatusMoves
  <2>1. TypeOK /\ EnvelopesMatch /\ ChecksMatch
    BY <1>2 DEF IInv, EnvelopesMatch
  <2>2. "none" \notin SettlementStatuses
    BY DEF SettlementStatuses
  <2>3. ASSUME EveryStatusMoves, NEW s \in Settlements, status[s] # "none"
        PROVE  status'[s] # "none"
    <3>1. StatusMoves(s)
      BY <2>3 DEF EveryStatusMoves
    <3>2. CanTransition(status[s], status'[s]) => status'[s] # "none"
      BY DEF CanTransition, AllowedTransitions, SettlementStatuses
    <3>3. QED
      BY <2>3, <3>1, <3>2 DEF StatusMoves
  <2>4. ASSUME EveryStatusMoves, creating' = creating
        PROVE  \A s \in Settlements : creating'[s] => status'[s] = "none" /\ ShareOf[s] # None
    <3> SUFFICES ASSUME NEW s \in Settlements, creating'[s]
                 PROVE  status'[s] = "none" /\ ShareOf[s] # None
      OBVIOUS
    <3>1. status[s] = "none" /\ ShareOf[s] # None /\ StatusMoves(s)
      BY <1>2, <2>4 DEF RowsExist, EveryStatusMoves
    <3>2. QED
      BY <2>2, <3>1 DEF StatusMoves, CanTransition
  <2>5. ASSUME EveryStatusMoves, chk' = chk
        PROVE  \A c \in Checkers : chk'[c].at # "idle" => status'[chk'[c].s] # "none"
    BY <1>2, <2>1, <2>3, <2>5 DEF RowsExist, ChecksMatch
  <2>6. CASE UNCHANGED vars
    BY <1>2, <2>6 DEF vars, rowVars, RowsExist, EveryStatusMoves, StatusMoves
  <2>7. ASSUME NEW w \in Submitters,
               \/ \E s \in Settlements : Fetch(w, s)
               \/ JobStep(w) \/ CrashJob(w)
        PROVE  RowsExist' /\ EveryStatusMoves
    <3>1. EveryStatusMoves /\ UNCHANGED <<creating, chk>>
      BY <2>1, <2>7, JobStatus
    <3>2. QED
      BY <2>4, <2>5, <3>1 DEF RowsExist
  <2>8. ASSUME NEW c \in Checkers,
               \/ \E s \in Settlements : CheckFetch(c, s)
               \/ CheckStep(c) \/ CheckUnanswered(c) \/ CrashCheck(c)
        PROVE  RowsExist' /\ EveryStatusMoves
    <3>1. EveryStatusMoves /\ creating' = creating
      BY <1>2, <2>1, <2>8, CheckStatus
    <3>2. ASSUME NEW d \in Checkers, chk'[d].at # "idle"
          PROVE  status'[chk'[d].s] # "none"
      <4>1. CASE \E s \in Settlements : CheckFetch(c, s)
        <5>1. PICK s \in Settlements : CheckFetch(c, s)
          BY <4>1
        <5>2. status[s] # "none" /\ chk'[c].s = s
          BY <2>1, <5>1 DEF CheckFetch, Candidate, ReconcileCandidate, SyncCandidate,
                            LegacyCandidate, ApiCandidate, Reconcilable, TypeOK
        <5>3. d # c => chk'[d] = chk[d]
          BY <2>1, <5>1 DEF CheckFetch, TypeOK
        <5>4. QED
          BY <1>2, <2>1, <2>3, <3>1, <3>2, <5>2, <5>3 DEF RowsExist, ChecksMatch
      <4>2. CASE CheckStep(c) \/ CheckUnanswered(c) \/ CrashCheck(c)
        <5>1. chk[d].at # "idle" /\ chk'[d].s = chk[d].s
          BY <2>1, <3>2, <4>2, CheckHolds
        <5>2. QED
          BY <1>2, <2>1, <2>3, <3>1, <5>1 DEF RowsExist, ChecksMatch
      <4>3. QED
        BY <2>8, <4>1, <4>2
    <3>3. QED
      BY <2>4, <3>1, <3>2 DEF RowsExist
  <2>9. ASSUME \/ \E s \in Settlements : \/ CreateCheck(s) \/ CreateWrite(s)
                                         \/ CreateAborts(s) \/ CreateFreeform(s)
                                         \/ LeaseLapses(s) \/ CloseWindow(s)
               \/ \E s \in Settlements, e \in Envelopes : AcceptEnvelope(s, e)
               \/ RecoverStale
               \/ \E e \in Envelopes : LedgerResolves(e) \/ LedgerShows(e)
        PROVE  RowsExist' /\ EveryStatusMoves
    <3>1. /\ EveryStatusMoves
          /\ chk' = chk
          /\ \A s \in Settlements : creating'[s] => status'[s] = "none" /\ ShareOf[s] # None
      BY <1>2, <2>1, <2>9, WorldStatus
    <3>2. QED
      BY <2>5, <3>1 DEF RowsExist
  <2>10. QED
    BY <1>2, <2>6, <2>7, <2>8, <2>9 DEF Next, Confirm, Execute
<1>3. QED
  BY <1>1, <1>2

(* Every status change of every process is a creation, an acceptance by    *)
(* confirm or execute, a hop of ALLOWED_TRANSITIONS, or one of the two     *)
(* updates by id alone.                                                    *)
THEOREM StatusMovesByTheMachine == Spec => [][EveryStatusMoves]_vars
<1>1. IInv /\ RowsExist /\ [Next]_vars => [EveryStatusMoves]_vars
  BY StatusStep
<1>2. QED
  BY <1>1, IInvInductive, StatusStep, PTL DEF Spec

(* So a confirmed settlement is only ever taken back by an update by id:   *)
(* applySettlementTransition hops nowhere from confirmed, and neither      *)
(* confirm, execute nor the creation route touches it.                     *)
THEOREM ConfirmedIsLostOnlyBlindly == Spec => ConfirmedLostOnlyToBlindWrite
<1>1. ASSUME EveryStatusMoves, NEW s \in Settlements,
             status[s] = "confirmed", status'[s] # "confirmed"
      PROVE  BlindWrite(s)
  <2>1. StatusMoves(s)
    BY <1>1 DEF EveryStatusMoves
  <2>2. ~ CanTransition("confirmed", status'[s])
    BY DEF CanTransition, AllowedTransitions, SettlementStatuses
  <2>3. QED
    BY <1>1, <2>1, <2>2 DEF StatusMoves
<1>2. [EveryStatusMoves]_vars =>
         [\A s \in Settlements :
             status[s] = "confirmed" /\ status'[s] # "confirmed" =>
                \E c \in Checkers : /\ chk[c].s = s /\ chk[c].at = "write" /\ chk'[c] # chk[c]
                                   /\ \/ KindOf[c] = "legacy"
                                      \/ chk[c].result = "null" /\ chk[c].seen = "needs_review"]_vars
  BY <1>1 DEF BlindWrite
<1>3. QED
  BY <1>2, StatusMovesByTheMachine, PTL DEF ConfirmedLostOnlyToBlindWrite

=============================================================================
