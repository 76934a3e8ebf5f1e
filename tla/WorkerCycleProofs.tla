------------------------- MODULE WorkerCycleProofs -------------------------
(***************************************************************************)
(* Proofs about WorkerCycle: the types, the lease on the cycle and that on *)
(* a job, who may post a delivery and how often it is posted, for any      *)
(* number of workers and of deliveries.                                    *)
(***************************************************************************)
EXTENDS WorkerCycle, FiniteSetTheorems, TLAPS

(* The rows of the queue, without the count of faults. *)
RowsTyped ==
    /\ status \in [Deliveries -> {"unwritten", "pending", "delivered", "failed", "deleted"}]
    /\ attempts \in [Deliveries -> 0..MaxAttempts]
    /\ wait \in [Deliveries -> Nat]
    /\ lease \in [Deliveries -> 0..Lease]
    /\ holder \in [Deliveries -> Workers \cup {None}]
    /\ batch \in [Workers -> [Deliveries -> -1..MaxAttempts]]
    /\ sending \in [Workers -> Deliveries \cup {None}]
    /\ answer \in [Workers -> {"none", "ok", "bad"}]
    /\ posts \in [Deliveries -> Nat]
    /\ acks \in [Deliveries -> Nat]

(* A row that is not done has an attempt left; a worker that posts a row   *)
(* that is still there holds its claim; no two post the same row.          *)
AttemptLeft ==
    \A d \in Deliveries : status[d] \in {"unwritten", "pending"} => attempts[d] < MaxAttempts
ClaimHeld ==
    \A w \in Workers, d \in Deliveries :
        sending[w] = d /\ status[d] # "deleted" =>
            status[d] = "pending" /\ holder[d] = w /\ lease[d] > 0
RowsApart == \A v, w \in Workers : sending[v] # None /\ sending[v] = sending[w] => v = w
AnswerIsOfRow == \A w \in Workers : answer[w] # "none" => sending[w] # None
QueueInv == AttemptLeft /\ ClaimHeld /\ RowsApart /\ AnswerIsOfRow

(* The rest of the types. *)
CycleTyped ==
    /\ faults \in 0..MaxFaults
    /\ lockOwner \in Workers \cup {None} /\ lockLeft \in 0..Lease
    /\ phase \in [Workers -> {"waiting", "recovering", "tasks", "down"}]
    /\ task \in [Workers -> {"idle", "find", "drain", "done"}]
    /\ tries \in [Workers -> 0..MaxTries]
    /\ stopping \in [Workers -> BOOLEAN]
    /\ age \in [Workers -> 0..Lease]
    /\ jobOwner \in Workers \cup {None} /\ jobLeft \in 0..Lease
    /\ working \in [Workers -> BOOLEAN]
    /\ jobAge \in [Workers -> 0..Lease]

(* The lock is its taker's until the cycle is as old as the lease.         *)
LockInv ==
    \A w \in Workers : InCycle(w) /\ age[w] < Lease =>
        lockOwner = w /\ lockLeft = Lease - age[w]

(* A worker drives a job in its tasks; the job's lease is its own until it *)
(* has driven the job for as long as the lease.  One that drives none      *)
(* starts its clock at zero.                                               *)
JobInv ==
    \A w \in Workers :
        /\ working[w] => phase[w] = "tasks"
        /\ working[w] /\ jobAge[w] < Lease => jobOwner = w /\ jobLeft = Lease - jobAge[w]
        /\ ~ working[w] => jobAge[w] = 0

Inv == RowsTyped /\ QueueInv /\ CycleTyped /\ LockInv /\ JobInv

LEMMA TypesSplit == TypeOK <=> RowsTyped /\ CycleTyped
    BY DEF TypeOK, DeliveryTypeOK, RowsTyped, CycleTyped

LEMMA InitInv == Init => Inv
    BY DeliveryAssumption, CycleAssumption
       DEF Init, DeliveryInit, NoBatch, Inv, RowsTyped, QueueInv, AttemptLeft, ClaimHeld,
           RowsApart, AnswerIsOfRow, CycleTyped, LockInv, JobInv, InCycle

-----------------------------------------------------------------------------
(***************************************************************************)
(* The queue.                                                              *)
(***************************************************************************)
(* What the queue's operations do to it. *)
QueueStep ==
    \/ \E d \in Deliveries : Enqueue(d) \/ DeleteEndpoint(d)
    \/ \E w \in Workers :
          \/ FindDue(w) \/ RecordOutcome(w) \/ LeaveLoop(w)
          \/ \E d \in Deliveries : ClaimDelivery(w, d)
          \/ \E reply \in {"ok", "bad"} : Post(w, reply)
    \/ DeliveryTick
    \/ UNCHANGED deliveryVars

LEMMA QueueKept ==
    ASSUME RowsTyped, QueueInv, QueueStep
    PROVE RowsTyped' /\ QueueInv'
<1> USE DeliveryAssumption DEF rowVars, loopVars, sentVars, QueueInv, AttemptLeft, ClaimHeld, RowsApart, AnswerIsOfRow
<1>1. ASSUME NEW d \in Deliveries, Enqueue(d) PROVE RowsTyped' /\ QueueInv'
  <2>1. RowsTyped'
    BY <1>1 DEF Enqueue, RowsTyped
  <2>2. QueueInv'
    BY <1>1 DEF Enqueue, RowsTyped
  <2> QED
    BY <2>1, <2>2
<1>2. ASSUME NEW d \in Deliveries, DeleteEndpoint(d) PROVE RowsTyped' /\ QueueInv'
  <2>1. RowsTyped'
    BY <1>2 DEF DeleteEndpoint, RowsTyped
  <2>2. QueueInv'
    BY <1>2 DEF DeleteEndpoint, RowsTyped
  <2> QED
    BY <2>1, <2>2
<1>3. ASSUME NEW w \in Workers, FindDue(w) PROVE RowsTyped' /\ QueueInv'
  <2>1. RowsTyped'
    BY <1>3 DEF FindDue, RowsTyped
  <2>2. QueueInv'
    BY <1>3 DEF FindDue
  <2> QED
    BY <2>1, <2>2
<1>4. ASSUME NEW w \in Workers, RecordOutcome(w) PROVE RowsTyped' /\ QueueInv'
  <2> DEFINE d == sending[w]
             n == attempts[d] + 1
             s == Outcome(answer[w] = "ok", n)
  <2>1. d \in Deliveries /\ status[d] # "deleted"
    BY <1>4 DEF RecordOutcome, RowsTyped
  <2>2. status[d] = "pending" /\ attempts[d] < MaxAttempts
    BY <2>1 DEF QueueInv
  <2>3. n \in 1..MaxAttempts
    BY <2>1, <2>2 DEF RowsTyped
  <2>4. s \in {"delivered", "failed", "pending"} /\ (s = "pending" => n < MaxAttempts)
    BY <2>3 DEF Outcome
  <2>5. (IF s = "pending" THEN Backoff[n] ELSE 0) \in Nat
    BY <2>3
  <2>6. /\ status' = [status EXCEPT ![d] = s]
        /\ attempts' = [attempts EXCEPT ![d] = n]
        /\ wait' = [wait EXCEPT ![d] = IF s = "pending" THEN Backoff[n] ELSE 0]
        /\ lease' = [lease EXCEPT ![d] = 0]
        /\ holder' = [holder EXCEPT ![d] = None]
        /\ sending' = [sending EXCEPT ![w] = None]
        /\ answer' = [answer EXCEPT ![w] = "none"]
        /\ UNCHANGED <<batch, posts, acks>>
    BY <1>4 DEF RecordOutcome
  <2> HIDE DEF n, s
  <2>7. RowsTyped'
    BY <2>1, <2>3, <2>4, <2>5, <2>6 DEF RowsTyped
  <2>8. \A v \in Workers \ {w} : sending[v] # d
    BY <2>1 DEF QueueInv
  <2>9. AttemptLeft'
    <3> SUFFICES ASSUME NEW e \in Deliveries, status'[e] \in {"unwritten", "pending"}
                 PROVE attempts'[e] < MaxAttempts
      OBVIOUS
    <3>1. CASE e = d
      <4>1. status'[e] = s /\ attempts'[e] = n
        BY <3>1, <2>1, <2>6 DEF RowsTyped
      <4> QED
        BY <4>1, <2>4
    <3>2. CASE e # d
      <4>1. status'[e] = status[e] /\ attempts'[e] = attempts[e]
        BY <3>2, <2>1, <2>6 DEF RowsTyped
      <4> QED
        BY <4>1
    <3> QED
      BY <3>1, <3>2
  <2>10. ClaimHeld'
    <3> SUFFICES ASSUME NEW v \in Workers, NEW e \in Deliveries,
                        sending'[v] = e, status'[e] # "deleted"
                 PROVE status'[e] = "pending" /\ holder'[e] = v /\ lease'[e] > 0
      OBVIOUS
    <3>1. v # w /\ sending[v] = e /\ e # d
      BY <2>6, <2>8 DEF RowsTyped
    <3> QED
      BY <3>1, <2>6 DEF RowsTyped
  <2>11. RowsApart' /\ AnswerIsOfRow'
    BY <2>6 DEF RowsTyped
  <2> QED
    BY <2>7, <2>9, <2>10, <2>11
<1>5. ASSUME NEW w \in Workers, LeaveLoop(w) PROVE RowsTyped' /\ QueueInv'
  <2>1. RowsTyped'
    BY <1>5 DEF LeaveLoop, NoBatch, RowsTyped
  <2>2. QueueInv'
    BY <1>5 DEF LeaveLoop, RowsTyped
  <2> QED
    BY <2>1, <2>2
<1>6. ASSUME NEW w \in Workers, NEW d \in Deliveries, ClaimDelivery(w, d)
      PROVE RowsTyped' /\ QueueInv'
  <2>1. CASE ~ Claimable(w, d)
    BY <1>6, <2>1 DEF ClaimDelivery, RowsTyped
  <2>2. CASE Claimable(w, d)
    <3>1. /\ sending' = [sending EXCEPT ![w] = d] /\ sending[w] = None
          /\ lease' = [lease EXCEPT ![d] = Lease] /\ lease[d] = 0
          /\ holder' = [holder EXCEPT ![d] = w]
          /\ batch' = [batch EXCEPT ![w][d] = -1] /\ status[d] = "pending"
          /\ UNCHANGED <<status, attempts, wait, answer, posts, acks>>
      BY <1>6, <2>2 DEF ClaimDelivery, Claimable
    <3>2. RowsTyped'
      BY <3>1 DEF RowsTyped
    <3>3. \A v \in Workers : sending[v] # d
      BY <3>1 DEF QueueInv
    <3>4. AttemptLeft' /\ AnswerIsOfRow'
      BY <3>1 DEF RowsTyped
    <3>5. ClaimHeld'
      <4> SUFFICES ASSUME NEW v \in Workers, NEW e \in Deliveries,
                          sending'[v] = e, status'[e] # "deleted"
                   PROVE status'[e] = "pending" /\ holder'[e] = v /\ lease'[e] > 0
        OBVIOUS
      <4>1. CASE v = w
        BY <4>1, <3>1 DEF RowsTyped
      <4>2. CASE v # w
        <5>1. sending[v] = e /\ e # d
          BY <4>2, <3>1, <3>3 DEF RowsTyped
        <5> QED
          BY <5>1, <3>1 DEF RowsTyped
      <4> QED
        BY <4>1, <4>2
    <3>6. RowsApart'
      BY <3>1, <3>3 DEF RowsTyped
    <3> QED
      BY <3>2, <3>4, <3>5, <3>6
  <2> QED
    BY <2>1, <2>2
<1>7. ASSUME NEW w \in Workers, NEW reply \in {"ok", "bad"}, Post(w, reply)
      PROVE RowsTyped' /\ QueueInv'
  <2>1. /\ sending[w] \in Deliveries
        /\ posts' = [posts EXCEPT ![sending[w]] = posts[sending[w]] + 1]
        /\ acks' = [acks EXCEPT ![sending[w]] =
                       IF reply = "ok" THEN acks[sending[w]] + 1 ELSE acks[sending[w]]]
        /\ answer' = [answer EXCEPT ![w] = reply]
        /\ UNCHANGED <<status, attempts, wait, lease, holder, batch, sending>>
    BY <1>7 DEF Post, RowsTyped
  <2>2. posts' \in [Deliveries -> Nat] /\ acks' \in [Deliveries -> Nat]
    BY <2>1 DEF RowsTyped
  <2>3. answer' \in [Workers -> {"none", "ok", "bad"}]
    BY <2>1 DEF RowsTyped
  <2>4. RowsTyped'
    BY <2>1, <2>2, <2>3 DEF RowsTyped
  <2>5. AttemptLeft' /\ ClaimHeld' /\ RowsApart'
    BY <2>1
  <2>6. AnswerIsOfRow'
    BY <2>1 DEF RowsTyped
  <2> QED
    BY <2>4, <2>5, <2>6
<1>8. CASE DeliveryTick
  <2>1. RowsTyped'
    BY <1>8 DEF DeliveryTick, Less, RowsTyped
  <2>2. AttemptLeft' /\ RowsApart' /\ AnswerIsOfRow'
    BY <1>8 DEF DeliveryTick
  <2>3. ClaimHeld'
    <3> SUFFICES ASSUME NEW v \in Workers, NEW e \in Deliveries,
                        sending'[v] = e, status'[e] # "deleted"
                 PROVE status'[e] = "pending" /\ holder'[e] = v /\ lease'[e] > 0
      OBVIOUS
    <3>1. sending[v] = e /\ status[e] = "pending" /\ holder[e] = v /\ e # None
      BY <1>8 DEF DeliveryTick
    <3>2. lease[e] > 1 /\ lease[e] \in Nat
      BY <1>8, <3>1 DEF DeliveryTick, RowsTyped
    <3>3. lease'[e] = lease[e] - 1
      BY <1>8, <3>2 DEF DeliveryTick, Less
    <3> QED
      BY <1>8, <3>1, <3>2, <3>3 DEF DeliveryTick
  <2> QED
    BY <2>1, <2>2, <2>3
<1>9. CASE UNCHANGED deliveryVars
    BY <1>9 DEF deliveryVars, RowsTyped
<1> QED
    BY <1>1, <1>2, <1>3, <1>4, <1>5, <1>6, <1>7, <1>8, <1>9 DEF QueueStep

(* Every step of a worker is one of those for the queue. *)
LEMMA NextIsQueueStep == [Next]_vars => QueueStep
    BY DEF Next, vars, Queue, Unregister, Tick, StartCycle, Recover, Drain, ReadQueue, Deliver,
       DrainDone, RowIsGone, TaskThrows, TakeJob, FinishJob, EndCycle, Fault, DatabaseFails,
       Signal, Exit, ReleaseClaims, ExitDrained, Restart, QueueStep
-----------------------------------------------------------------------------
(***************************************************************************)
(* The cycle, its lock and the job.                                        *)
(***************************************************************************)
LEMMA GoneTyped ==
    ASSUME CycleTyped, NEW w \in Workers, Gone(w)
    PROVE /\ phase' \in [Workers -> {"waiting", "recovering", "tasks", "down"}]
          /\ task' \in [Workers -> {"idle", "find", "drain", "done"}]
          /\ tries' \in [Workers -> 0..MaxTries]
          /\ stopping' \in [Workers -> BOOLEAN]
          /\ age' \in [Workers -> 0..Lease]
          /\ \A v \in Workers : phase'[v] = (IF v = w THEN "down" ELSE phase[v])
          /\ \A v \in Workers : v # w => age'[v] = age[v]
<1> USE DeliveryAssumption, CycleAssumption DEF CycleTyped, Gone
<1>1. phase' \in [Workers -> {"waiting", "recovering", "tasks", "down"}]
    OBVIOUS
<1>2. task' \in [Workers -> {"idle", "find", "drain", "done"}]
    OBVIOUS
<1>3. tries' \in [Workers -> 0..MaxTries]
    OBVIOUS
<1>4. stopping' \in [Workers -> BOOLEAN]
    OBVIOUS
<1>5. age' \in [Workers -> 0..Lease]
    OBVIOUS
<1>6. \A v \in Workers : phase'[v] = (IF v = w THEN "down" ELSE phase[v])
    OBVIOUS
<1>7. \A v \in Workers : v # w => age'[v] = age[v]
    OBVIOUS
<1> QED
    BY <1>1, <1>2, <1>3, <1>4, <1>5, <1>6, <1>7

LEMMA CycleKept ==
    ASSUME CycleTyped, LockInv, JobInv, [Next]_vars
    PROVE CycleTyped' /\ LockInv' /\ JobInv'
<1> USE DeliveryAssumption, CycleAssumption DEF lockVars, cycleVars, jobVars
<1>1. CASE Queue \/ Unregister
  <2>1. UNCHANGED <<faults, lockVars, cycleVars, jobVars>>
    BY <1>1 DEF Queue, Unregister, Outside, Enqueue, DeleteEndpoint
  <2> QED
    BY <2>1 DEF CycleTyped, LockInv, JobInv, InCycle
<1>2. CASE Tick
  <2>1. /\ lockLeft' = Less(lockLeft) /\ jobLeft' = Less(jobLeft)
        /\ age' = [w \in Workers |->
                     IF phase[w] \in {"recovering", "tasks"} THEN Aged(age[w]) ELSE age[w]]
        /\ jobAge' = [w \in Workers |-> IF working[w] THEN Aged(jobAge[w]) ELSE jobAge[w]]
        /\ UNCHANGED <<faults, lockOwner, phase, task, tries, stopping, jobOwner, working>>
    BY <1>2 DEF Tick, DeliveryTick
  <2>5. \A n \in 0..Lease : Aged(n) \in 0..Lease /\ (Aged(n) < Lease => Aged(n) = n + 1)
    BY DEF Aged
  <2>6. \A w \in Workers : age[w] \in 0..Lease /\ jobAge[w] \in 0..Lease
    BY DEF CycleTyped
  <2>2. CycleTyped'
    <3>1. lockLeft' \in 0..Lease /\ jobLeft' \in 0..Lease
      BY <2>1 DEF CycleTyped, Less
    <3>2. age' \in [Workers -> 0..Lease] /\ jobAge' \in [Workers -> 0..Lease]
      BY <2>1, <2>5, <2>6
    <3> QED
      BY <2>1, <3>1, <3>2 DEF CycleTyped
  <2>3. LockInv'
    <3> SUFFICES ASSUME NEW w \in Workers, InCycle(w)', age'[w] < Lease
                 PROVE lockOwner' = w /\ lockLeft' = Lease - age'[w]
      BY DEF LockInv
    <3>0. InCycle(w) /\ age'[w] = Aged(age[w])
      BY <2>1 DEF InCycle
    <3>1. age[w] \in 0..Lease /\ Aged(age[w]) < Lease
      BY <2>6, <3>0
    <3>2. age[w] \in Nat /\ age'[w] = age[w] + 1 /\ age[w] < Lease
      <4>1. Aged(age[w]) = age[w] + 1
        BY <2>5, <3>1
      <4> QED
        BY <3>0, <3>1, <4>1
    <3>3. lockOwner = w /\ lockLeft = Lease - age[w]
      BY <3>0, <3>2 DEF LockInv
    <3>4. Lease \in Nat
      BY DeliveryAssumption
    <3>5. lockLeft \in Nat \ {0} /\ lockLeft - 1 = Lease - age'[w]
      BY <3>2, <3>3, <3>4
    <3>6. lockLeft' = lockLeft - 1 /\ lockOwner' = w
      BY <2>1, <3>3, <3>5 DEF Less
    <3> QED
      BY <3>5, <3>6
  <2>4. JobInv'
    <3> SUFFICES ASSUME NEW w \in Workers
                 PROVE /\ working'[w] => phase'[w] = "tasks"
                       /\ working'[w] /\ jobAge'[w] < Lease =>
                             jobOwner' = w /\ jobLeft' = Lease - jobAge'[w]
                       /\ ~ working'[w] => jobAge'[w] = 0
      BY DEF JobInv
    <3>1. CASE working[w]
      <4>1. jobAge'[w] = Aged(jobAge[w]) /\ working'[w] /\ phase'[w] = "tasks"
        BY <2>1, <3>1 DEF JobInv
      <4>2. ASSUME jobAge'[w] < Lease
            PROVE  jobOwner' = w /\ jobLeft' = Lease - jobAge'[w]
        <5>1. jobAge[w] < Lease /\ jobAge'[w] = jobAge[w] + 1 /\ jobAge[w] \in Nat
          <6>1. jobAge[w] \in 0..Lease /\ Aged(jobAge[w]) < Lease
            BY <2>6, <4>1, <4>2
          <6>2. Aged(jobAge[w]) = jobAge[w] + 1
            BY <2>5, <6>1
          <6> QED
            BY <4>1, <6>1, <6>2
        <5>2. jobOwner = w /\ jobLeft = Lease - jobAge[w]
          BY <3>1, <5>1 DEF JobInv
        <5>3. Lease \in Nat
          BY DeliveryAssumption
        <5>4. jobLeft \in Nat \ {0} /\ jobLeft - 1 = Lease - jobAge'[w]
          BY <5>1, <5>2, <5>3
        <5>5. jobLeft' = jobLeft - 1 /\ jobOwner' = w
          BY <2>1, <5>2, <5>4 DEF Less
        <5> QED
          BY <5>4, <5>5
      <4> QED
        BY <4>1, <4>2
    <3>2. CASE ~ working[w]
      BY <2>1, <3>2 DEF JobInv
    <3> QED
      BY <3>1, <3>2
  <2> QED
    BY <2>2, <2>3, <2>4
<1>3. ASSUME NEW w \in Workers, StartCycle(w) PROVE CycleTyped' /\ LockInv' /\ JobInv'
  <2>1. CycleTyped'
    BY <1>3 DEF StartCycle, CycleTyped
  <2>2. LockInv'
    <3> SUFFICES ASSUME NEW v \in Workers, InCycle(v)', age'[v] < Lease
                 PROVE lockOwner' = v /\ lockLeft' = Lease - age'[v]
      BY DEF LockInv
    <3>1. CASE v = w
      BY <3>1, <1>3 DEF StartCycle, CycleTyped
    <3>2. CASE v # w
      <4>1. InCycle(v) /\ age[v] < Lease /\ age[v] \in Nat
        BY <3>2, <1>3 DEF StartCycle, CycleTyped, InCycle
      <4>2. lockOwner = v /\ lockLeft > 0
        BY <4>1 DEF LockInv
      <4> QED
        BY <4>2, <1>3 DEF StartCycle
    <3> QED
      BY <3>1, <3>2
  <2>3. JobInv'
    BY <1>3 DEF StartCycle, CycleTyped, JobInv
  <2> QED
    BY <2>1, <2>2, <2>3
<1>4. ASSUME NEW w \in Workers, Recover(w) PROVE CycleTyped' /\ LockInv' /\ JobInv'
  <2>1. /\ jobOwner' \in Workers \cup {None}
        /\ phase' \in [Workers -> {"waiting", "recovering", "tasks", "down"}]
        /\ task' \in [Workers -> {"idle", "find", "drain", "done"}]
        /\ tries' \in [Workers -> 0..MaxTries]
    BY <1>4 DEF Recover, CycleTyped
  <2>4. CycleTyped'
    BY <1>4, <2>1 DEF Recover, CycleTyped
  <2>2. LockInv'
    BY <1>4 DEF Recover, CycleTyped, LockInv, InCycle
  <2>3. JobInv'
    BY <1>4 DEF Recover, CycleTyped, JobInv
  <2> QED
    BY <2>2, <2>3, <2>4
<1>5. ASSUME NEW w \in Workers, Drain(w) PROVE CycleTyped' /\ LockInv' /\ JobInv'
  <2>1. CASE Deliver(w)
    <3>1. UNCHANGED <<faults, lockVars, cycleVars, jobVars>>
      BY <2>1 DEF Deliver, Outside, ClaimDelivery, Post, RecordOutcome
    <3> QED
      BY <3>1 DEF CycleTyped, LockInv, JobInv, InCycle
  <2>2. CASE ReadQueue(w) \/ DrainDone(w) \/ RowIsGone(w)
    <3>1. /\ UNCHANGED <<faults, lockVars, phase, stopping, age, jobVars>>
          /\ \E t \in {"find", "drain", "done"} : task' = [task EXCEPT ![w] = t]
      BY <2>2 DEF ReadQueue, FindDue, DrainDone, RowIsGone, TaskThrows, Retried
    <3>2. tries' = tries \/ tries' = [tries EXCEPT ![w] = tries[w]]
      BY <2>2 DEF ReadQueue, DrainDone, RowIsGone, TaskThrows, Retried
    <3>4. tries' \in [Workers -> 0..MaxTries] /\ task' \in [Workers -> {"idle", "find", "drain", "done"}]
      BY <3>1, <3>2 DEF CycleTyped
    <3>6. CycleTyped'
      BY <3>1, <3>4 DEF CycleTyped
    <3> QED
      BY <3>1, <3>6 DEF LockInv, JobInv, InCycle
  <2> QED
    BY <1>5, <2>1, <2>2 DEF Drain
<1>6. ASSUME NEW w \in Workers, TakeJob(w) PROVE CycleTyped' /\ LockInv' /\ JobInv'
  <2>1. CycleTyped'
    BY <1>6 DEF TakeJob, CycleTyped
  <2>2. LockInv'
    BY <1>6 DEF TakeJob, LockInv, InCycle
  <2>3. JobInv'
    <3> SUFFICES ASSUME NEW v \in Workers
                 PROVE /\ working'[v] => phase'[v] = "tasks"
                       /\ working'[v] /\ jobAge'[v] < Lease =>
                             jobOwner' = v /\ jobLeft' = Lease - jobAge'[v]
                       /\ ~ working'[v] => jobAge'[v] = 0
      BY DEF JobInv
    <3>1. CASE v = w
      BY <1>6, <3>1 DEF TakeJob, CycleTyped, JobInv
    <3>2. CASE v # w
      <4>1. working'[v] = working[v] /\ jobAge'[v] = jobAge[v] /\ phase'[v] = phase[v]
        BY <1>6, <3>2 DEF TakeJob, CycleTyped
      <4>2. ~ (jobOwner = v /\ jobLeft > 0)
        BY <1>6, DeliveryAssumption DEF TakeJob
      <4>3. working[v] => ~ (jobAge[v] < Lease)
        BY <4>2 DEF JobInv, CycleTyped
      <4> QED
        BY <4>1, <4>3 DEF JobInv
    <3> QED
      BY <3>1, <3>2
  <2> QED
    BY <2>1, <2>2, <2>3
<1>7. ASSUME NEW w \in Workers, FinishJob(w) PROVE CycleTyped' /\ LockInv' /\ JobInv'
  <2>1. CycleTyped'
    BY <1>7 DEF FinishJob, ReleaseJob, CycleTyped
  <2>2. LockInv'
    BY <1>7 DEF FinishJob, LockInv, InCycle
  <2>3. JobInv'
    <3> SUFFICES ASSUME NEW v \in Workers
                 PROVE /\ working'[v] => phase'[v] = "tasks"
                       /\ working'[v] /\ jobAge'[v] < Lease =>
                             jobOwner' = v /\ jobLeft' = Lease - jobAge'[v]
                       /\ ~ working'[v] => jobAge'[v] = 0
      BY DEF JobInv
    <3>1. CASE v = w
      BY <1>7, <3>1 DEF FinishJob, CycleTyped
    <3>2. CASE v # w
      <4>1. working'[v] = working[v] /\ jobAge'[v] = jobAge[v] /\ phase'[v] = phase[v]
        BY <1>7, <3>2 DEF FinishJob, CycleTyped
      <4>2. jobOwner = v => jobOwner' = v /\ jobLeft' = jobLeft
        BY <1>7, <3>2 DEF FinishJob, ReleaseJob
      <4> QED
        BY <4>1, <4>2 DEF JobInv
    <3> QED
      BY <3>1, <3>2
  <2> QED
    BY <2>1, <2>2, <2>3
<1>8. ASSUME NEW w \in Workers, EndCycle(w) PROVE CycleTyped' /\ LockInv' /\ JobInv'
  <2>1. CycleTyped'
    <3>1. lockOwner' \in Workers \cup {None} /\ lockLeft' \in 0..Lease
      BY <1>8 DEF EndCycle, ReleaseLock, CycleTyped
    <3>3. /\ phase' \in [Workers -> {"waiting", "recovering", "tasks", "down"}]
          /\ task' \in [Workers -> {"idle", "find", "drain", "done"}]
          /\ tries' \in [Workers -> 0..MaxTries] /\ age' \in [Workers -> 0..Lease]
      BY <1>8 DEF EndCycle, CycleTyped
    <3> QED
      BY <1>8, <3>1, <3>3 DEF EndCycle, CycleTyped
  <2>2. LockInv'
    BY <1>8 DEF EndCycle, ReleaseLock, CycleTyped, LockInv, InCycle
  <2>3. JobInv'
    BY <1>8 DEF EndCycle, CycleTyped, JobInv
  <2> QED
    BY <2>1, <2>2, <2>3
<1>9. ASSUME NEW w \in Workers, Fault(w) PROVE CycleTyped' /\ LockInv' /\ JobInv'
  <2>1. ASSUME NEW transient \in BOOLEAN, DatabaseFails(w, transient)
        PROVE CycleTyped' /\ LockInv' /\ JobInv'
    <3>1. /\ UNCHANGED <<lockVars, phase, stopping, age, jobVars>>
          /\ faults' \in 0..MaxFaults
      BY <2>1 DEF DatabaseFails, TaskThrows, CycleTyped
    <3>2. /\ task' \in [Workers -> {"idle", "find", "drain", "done"}]
          /\ tries' \in [Workers -> 0..MaxTries]
      BY <2>1 DEF DatabaseFails, TaskThrows, Retried, CycleTyped
    <3> QED
      BY <3>1, <3>2 DEF CycleTyped, LockInv, JobInv, InCycle
  <2>2. CASE Signal(w)
    <3>1. CycleTyped'
      BY <2>2 DEF Signal, CycleTyped
    <3> QED
      BY <2>2, <3>1 DEF Signal, LockInv, JobInv, InCycle
  <2>3. CASE Exit(w)
    <3>4. /\ Gone(w) /\ working' \in [Workers -> BOOLEAN] /\ faults' \in 0..MaxFaults
          /\ jobAge' \in [Workers -> 0..Lease]
      <4>1. /\ Gone(w) /\ working' = [working EXCEPT ![w] = FALSE]
            /\ jobAge' = [jobAge EXCEPT ![w] = 0]
        BY <2>3 DEF Exit
      <4>2. working' \in [Workers -> BOOLEAN] /\ jobAge' \in [Workers -> 0..Lease]
        BY <4>1 DEF CycleTyped
      <4>3. faults' = faults \/ (faults < MaxFaults /\ faults' = faults + 1)
        BY <2>3, Zenon DEF Exit
      <4>4. faults \in 0..MaxFaults
        BY DEF CycleTyped
      <4>5. faults' \in 0..MaxFaults
        BY <4>3, <4>4, CycleAssumption
      <4> QED
        BY <4>1, <4>2, <4>5
    <3>1. CycleTyped'
      BY <2>3, <3>4, GoneTyped DEF Exit, CycleTyped
    <3>2. LockInv'
      BY <2>3 DEF Exit, Gone, CycleTyped, LockInv, InCycle
    <3>3. JobInv'
      BY <2>3 DEF Exit, Gone, CycleTyped, JobInv
    <3> QED
      BY <3>1, <3>2, <3>3
  <2> QED
    BY <1>9, <2>1, <2>2, <2>3 DEF Fault
<1>10. ASSUME NEW w \in Workers, ReleaseClaims(w)
       PROVE CycleTyped' /\ LockInv' /\ JobInv'
  <2>1. CycleTyped'
    BY <1>10 DEF ReleaseClaims, ReleaseJob, CycleTyped
  <2>2. LockInv'
    BY <1>10 DEF ReleaseClaims, LockInv, InCycle
  <2>3. JobInv'
    BY <1>10 DEF ReleaseClaims, ReleaseJob, Drained, CycleTyped, JobInv
  <2> QED
    BY <2>1, <2>2, <2>3
<1>11. ASSUME NEW w \in Workers, ExitDrained(w)
       PROVE CycleTyped' /\ LockInv' /\ JobInv'
  <2>1. CycleTyped'
    BY <1>11, GoneTyped DEF ExitDrained, CycleTyped
  <2>2. LockInv'
    BY <1>11, GoneTyped DEF ExitDrained, LockInv, InCycle
  <2>3. JobInv'
    BY <1>11, GoneTyped DEF ExitDrained, Drained, JobInv
  <2> QED
    BY <2>1, <2>2, <2>3
<1>12. ASSUME NEW w \in Workers, Restart(w)
       PROVE CycleTyped' /\ LockInv' /\ JobInv'
  <2>1. CycleTyped'
    BY <1>12 DEF Restart, CycleTyped
  <2>2. LockInv'
    BY <1>12 DEF Restart, CycleTyped, LockInv, InCycle
  <2>3. JobInv'
    BY <1>12 DEF Restart, CycleTyped, JobInv
  <2> QED
    BY <2>1, <2>2, <2>3
<1>13. CASE UNCHANGED vars
    BY <1>13 DEF vars, CycleTyped, LockInv, JobInv, InCycle
<1> QED
    BY <1>1, <1>2, <1>3, <1>4, <1>5, <1>6, <1>7, <1>8, <1>9, <1>10, <1>11, <1>12, <1>13
       DEF Next

-----------------------------------------------------------------------------
(* In every state of the worker the queue, the lock and the job's lease are *)
(* as the invariant has them.                                               *)
THEOREM WorkerInvariant == Spec => []Inv
<1>1. Inv /\ [Next]_vars => Inv'
    BY QueueKept, NextIsQueueStep, CycleKept DEF Inv
<1> QED
    BY <1>1, InitInv, PTL DEF Spec

(* Every variable keeps its type, with any number of workers (the rows of  *)
(* webhook_deliveries and worker_locks, the locals of runWorkerCycle).     *)
THEOREM WorkerTypes == Spec => []TypeOK
<1>1. Inv => TypeOK
    BY TypesSplit DEF Inv
<1> QED
    BY <1>1, WorkerInvariant, PTL

(* The two leases keep the workers apart: cycles overlap only past the     *)
(* lock of one of them, and a job is driven under its own lease until that *)
(* runs out (acquireWorkerLease, releaseWorkerLease, releaseSettlement,    *)
(* recoverStaleSettlements, the shutdown of startWorker).                  *)
THEOREM LeasesKeepApart == Spec => []LeasesHold
<1>1. Inv => LeasesHold
  <2> SUFFICES ASSUME Inv PROVE LeasesHold
    OBVIOUS
  <2>1. CyclesOverlapOnlyPastLease
    <3> SUFFICES ASSUME NEW v \in Workers, NEW w \in Workers, v # w, InCycle(v), InCycle(w),
                        age[v] # Lease, age[w] # Lease
                 PROVE FALSE
      BY DEF CyclesOverlapOnlyPastLease
    <3>1. age[v] < Lease /\ age[w] < Lease
      BY DeliveryAssumption DEF Inv, CycleTyped
    <3> QED
      BY <3>1 DEF Inv, LockInv
  <2>2. WorkingHoldsLease
    BY DEF WorkingHoldsLease, Inv, JobInv
  <2> QED
    BY <2>1, <2>2 DEF LeasesHold
<1> QED
    BY <1>1, WorkerInvariant, PTL

(* A delivery is posted by one worker at a time, which holds its claim,    *)
(* even when cycles overlap (claimDelivery).                               *)
THEOREM DeliveryHasOneSender == Spec => []OneSender
<1>1. Inv => OneSender
    BY DeliveryAssumption DEF Inv, OneSender, QueueInv, ClaimHeld, RowsApart
<1> QED
    BY <1>1, WorkerInvariant, PTL

(* A delivery that has ended is never taken up again, though attemptDelivery *)
(* records its outcome by the row's id alone.                                *)
THEOREM EndedStaysEnded == Spec => TerminalIsFinal
<1> DEFINE Final ==
        \A d \in Deliveries :
            /\ status[d] \in {"delivered", "failed"} => status'[d] \in {status[d], "deleted"}
            /\ status[d] = "deleted" => status'[d] = "deleted"
<1>1. Inv /\ [Next]_vars => [Final]_vars
  <2> SUFFICES ASSUME Inv, QueueStep PROVE Final
    BY NextIsQueueStep
  <2> USE DEF Inv, RowsTyped, rowVars, loopVars, sentVars
  <2>1. ASSUME NEW d \in Deliveries, Enqueue(d) \/ DeleteEndpoint(d) PROVE Final
    BY <2>1 DEF Enqueue, DeleteEndpoint
  <2>2. ASSUME NEW w \in Workers, RecordOutcome(w) PROVE Final
    <3>1. sending[w] \in Deliveries /\ status[sending[w]] # "deleted"
      BY <2>2 DEF RecordOutcome
    <3>2. status[sending[w]] = "pending"
      BY <3>1 DEF QueueInv, ClaimHeld
    <3>3. \A d \in Deliveries : d # sending[w] => status'[d] = status[d]
      BY <2>2, <3>1 DEF RecordOutcome
    <3> QED
      BY <3>2, <3>3
  <2>3. CASE UNCHANGED status
    BY <2>3
  <2> QED
    BY <2>1, <2>2, <2>3 DEF QueueStep, FindDue, LeaveLoop, ClaimDelivery, Post, DeliveryTick, deliveryVars
<1>2. Spec => [][Final]_vars
    BY <1>1, WorkerInvariant, PTL DEF Spec
<1> QED
    BY <1>2 DEF TerminalIsFinal

-----------------------------------------------------------------------------
(***************************************************************************)
(* How often a delivery is posted.  A post that is not recorded is paid    *)
(* for by a fault, and a fault pays once: a signal that has arrived has    *)
(* not yet cost an answer, the exit that follows it may.                   *)
(***************************************************************************)
Signalled == {w \in Workers : stopping[w]}
Lapses == faults - Cardinality(Signalled)

(* Whether a worker is about to post the row, holds an answer for it, a    *)
(* 2xx one; whether the row says delivered.                                *)
Unsent(d) == IF \E w \in Workers : sending[w] = d /\ answer[w] = "none" THEN 1 ELSE 0
InFlight(d) == IF \E w \in Workers : sending[w] = d /\ answer[w] # "none" THEN 1 ELSE 0
Accepted(d) == IF \E w \in Workers : sending[w] = d /\ answer[w] = "ok" THEN 1 ELSE 0
Delivered(d) == IF status[d] = "delivered" THEN 1 ELSE 0

(* What is posted is recorded, in flight, or was lost to a fault; a row    *)
(* that is deleted is posted once more at most.                            *)
RowSent(d) ==
    /\ status[d] = "deleted" =>
         /\ posts[d] + Unsent(d) <= MaxAttempts + Lapses
         /\ acks[d] + Unsent(d) <= 1 + Lapses
    /\ status[d] # "deleted" =>
         /\ posts[d] <= attempts[d] + InFlight(d) + Lapses
         /\ acks[d] <= Delivered(d) + Accepted(d) + Lapses
SentInv == \A d \in Deliveries : RowSent(d)

(* The signals that have arrived are counted. *)
LEMMA SignalsCounted ==
    ASSUME CycleTyped
    PROVE /\ IsFiniteSet(Signalled) /\ Cardinality(Signalled) \in Nat
          /\ Lapses \in Int /\ Lapses <= faults
<1>1. IsFiniteSet(Signalled) /\ Cardinality(Signalled) \in Nat
    BY DeliveryAssumption, FS_Subset, FS_CardinalityType DEF Signalled
<1> QED
    BY <1>1, DeliveryAssumption DEF Lapses, CycleTyped

(* A step that leaves the signals alone costs what it adds to the faults. *)
LEMMA QuietSignals ==
    ASSUME CycleTyped, CycleTyped', stopping' = stopping
    PROVE Lapses' = Lapses + (faults' - faults)
<1>1. Signalled' = Signalled
    BY DEF Signalled
<1>2. Cardinality(Signalled) \in Nat
    BY SignalsCounted
<1>3. faults \in Nat /\ faults' \in Nat
    BY DeliveryAssumption DEF CycleTyped
<1> QED
    BY <1>1, <1>2, <1>3 DEF Lapses

(* A signal is a fault that nothing has been lost to. *)
LEMMA SignalCostsNothing ==
    ASSUME CycleTyped, CycleTyped', NEW w \in Workers, Signal(w)
    PROVE Lapses' = Lapses
<1>1. stopping' = [stopping EXCEPT ![w] = TRUE] /\ ~stopping[w] /\ faults' = faults + 1
    BY DEF Signal
<1>2. Signalled' = Signalled \cup {w} /\ w \notin Signalled
    BY <1>1 DEF Signalled, CycleTyped
<1>3. Cardinality(Signalled') = Cardinality(Signalled) + 1
    BY <1>2, SignalsCounted, FS_AddElement
<1>4. Cardinality(Signalled) \in Nat
    BY SignalsCounted
<1>5. faults \in Nat
    BY DeliveryAssumption DEF CycleTyped
<1> QED
    BY <1>1, <1>3, <1>4, <1>5 DEF Lapses

(* A process that ends settles the signal it had. *)
LEMMA GoneSettles ==
    ASSUME CycleTyped, CycleTyped', NEW w \in Workers, Gone(w)
    PROVE Lapses' = Lapses + (faults' - faults) + (IF stopping[w] THEN 1 ELSE 0)
<1>1. stopping' = [stopping EXCEPT ![w] = FALSE]
    BY DEF Gone
<1>2. Signalled' = Signalled \ {w} /\ (w \in Signalled <=> stopping[w])
    BY <1>1 DEF Signalled, CycleTyped
<1>3. Cardinality(Signalled') = IF w \in Signalled THEN Cardinality(Signalled) - 1
                                                   ELSE Cardinality(Signalled)
    BY <1>2, SignalsCounted, FS_RemoveElement
<1>4. Cardinality(Signalled) \in Nat
    BY SignalsCounted
<1>5. faults \in Nat /\ faults' \in Nat
    BY DeliveryAssumption DEF CycleTyped
<1> QED
    BY <1>2, <1>3, <1>4, <1>5 DEF Lapses

(* A step of the queue never makes the faults fewer; a loop that is left   *)
(* with an answer in hand costs one, unless the row is deleted.            *)
KeepsAnswers ==
    \/ \E d \in Deliveries : Enqueue(d) \/ DeleteEndpoint(d)
    \/ \E w \in Workers :
          \/ FindDue(w) \/ RecordOutcome(w)
          \/ \E d \in Deliveries : ClaimDelivery(w, d)
          \/ \E reply \in {"ok", "bad"} : Post(w, reply)
    \/ DeliveryTick
    \/ UNCHANGED deliveryVars
LosesAnswer(w) ==
    /\ LeaveLoop(w)
    /\ \/ Lapses' >= Lapses + 1
       \/ Lapses' = Lapses /\ sending[w] \in Deliveries /\ status[sending[w]] = "deleted" /\ answer[w] # "none"

LEMMA StepsCost ==
    ASSUME Inv, Inv', [Next]_vars
    PROVE (KeepsAnswers /\ Lapses' >= Lapses) \/ \E w \in Workers : LosesAnswer(w)
<1>0. /\ CycleTyped /\ CycleTyped' /\ Lapses \in Int
      /\ faults \in Nat /\ faults' \in Nat
  <2>1. CycleTyped /\ CycleTyped'
    BY DEF Inv
  <2>2. Lapses \in Int
    BY <2>1, SignalsCounted
  <2>3. faults \in Nat /\ faults' \in Nat
    BY <2>1, DeliveryAssumption DEF CycleTyped
  <2> QED
    BY <2>1, <2>2, <2>3
<1>1. ASSUME stopping' = stopping, faults' = faults PROVE Lapses' >= Lapses
  <2>1. Lapses' = Lapses + (faults' - faults)
    BY <1>0, <1>1, QuietSignals
  <2> QED
    BY <1>0, <1>1, <2>1
<1>2. CASE Queue \/ Unregister \/ Tick
  <2>1. stopping' = stopping /\ faults' = faults
    BY <1>2 DEF Queue, Unregister, Outside, Enqueue, DeleteEndpoint, Tick, DeliveryTick, cycleVars
  <2>2. KeepsAnswers
    BY <1>2 DEF Queue, Unregister, Tick, KeepsAnswers
  <2> QED
    BY <1>0, <1>1, <2>1, <2>2
<1>3. ASSUME NEW w \in Workers,
             StartCycle(w) \/ Recover(w) \/ TakeJob(w) \/ FinishJob(w) \/ EndCycle(w)
               \/ ReleaseClaims(w) \/ Restart(w)
      PROVE KeepsAnswers /\ Lapses' >= Lapses
  <2>1. stopping' = stopping /\ faults' = faults /\ UNCHANGED deliveryVars
    BY <1>3 DEF StartCycle, Recover, TakeJob, FinishJob, EndCycle, ReleaseClaims, Restart, cycleVars
  <2> QED
    BY <1>0, <1>1, <2>1 DEF KeepsAnswers
<1>4. ASSUME NEW w \in Workers, ReadQueue(w) \/ Deliver(w) \/ DrainDone(w)
      PROVE KeepsAnswers /\ Lapses' >= Lapses
  <2>1. stopping' = stopping /\ faults' = faults
    BY <1>4 DEF ReadQueue, FindDue, Deliver, DrainDone, ClaimDelivery, Post, RecordOutcome, Outside, cycleVars
  <2>2. KeepsAnswers
    BY <1>4 DEF ReadQueue, Deliver, DrainDone, KeepsAnswers
  <2> QED
    BY <1>0, <1>1, <2>1, <2>2
<1>5. ASSUME NEW w \in Workers, RowIsGone(w) PROVE LosesAnswer(w)
  <2>1. stopping' = stopping /\ faults' = faults /\ LeaveLoop(w)
        /\ answer[w] # "none" /\ status[sending[w]] = "deleted"
    BY <1>5 DEF RowIsGone, TaskThrows
  <2>2. sending[w] \in Deliveries
    BY <2>1 DEF Inv, QueueInv, AnswerIsOfRow, RowsTyped
  <2>3. Lapses' = Lapses
    BY <1>0, <2>1, QuietSignals
  <2> QED
    BY <2>1, <2>2, <2>3 DEF LosesAnswer
<1>6. ASSUME NEW w \in Workers, NEW transient \in BOOLEAN, DatabaseFails(w, transient)
      PROVE LosesAnswer(w)
  <2>1. stopping' = stopping /\ faults' = faults + 1 /\ LeaveLoop(w)
    BY <1>6 DEF DatabaseFails, TaskThrows
  <2>2. Lapses' = Lapses + 1
    BY <1>0, <2>1, QuietSignals
  <2> QED
    BY <1>0, <2>1, <2>2 DEF LosesAnswer
<1>7. ASSUME NEW w \in Workers, Signal(w) PROVE KeepsAnswers /\ Lapses' >= Lapses
  <2>1. UNCHANGED deliveryVars
    BY <1>7 DEF Signal
  <2> QED
    BY <1>0, <1>7, <2>1, SignalCostsNothing DEF KeepsAnswers
<1>8. ASSUME NEW w \in Workers, Exit(w) PROVE LosesAnswer(w)
  <2>1. Gone(w) /\ LeaveLoop(w) /\ (IF stopping[w] THEN faults' = faults ELSE faults' = faults + 1)
    BY <1>8 DEF Exit
  <2>2. Lapses' = Lapses + 1
    BY <1>0, <2>1, GoneSettles
  <2> QED
    BY <1>0, <2>1, <2>2 DEF LosesAnswer
<1>9. ASSUME NEW w \in Workers, ExitDrained(w) PROVE KeepsAnswers /\ Lapses' >= Lapses
  <2>1. Gone(w) /\ UNCHANGED deliveryVars /\ faults' = faults
    BY <1>9 DEF ExitDrained
  <2> QED
    BY <1>0, <2>1, GoneSettles DEF KeepsAnswers
<1>10. CASE UNCHANGED vars
  <2>1. stopping' = stopping /\ faults' = faults /\ UNCHANGED deliveryVars
    BY <1>10 DEF vars, cycleVars
  <2> QED
    BY <1>0, <1>1, <2>1 DEF KeepsAnswers
<1> QED
    BY <1>2, <1>3, <1>4, <1>5, <1>6, <1>7, <1>8, <1>9, <1>10 DEF Next, Drain, Fault

(* The same in the next state. *)
LEMMA LapsesTyped ==
    ASSUME Inv, Inv'
    PROVE Lapses \in Int /\ Lapses' \in Int
<1>1. Lapses \in Int
    BY SignalsCounted DEF Inv
<1>2. IsFiniteSet(Signalled') /\ Cardinality(Signalled') \in Nat
    BY DeliveryAssumption, FS_Subset, FS_CardinalityType DEF Signalled
<1>3. faults' \in Nat
    BY DeliveryAssumption DEF Inv, CycleTyped
<1> QED
    BY <1>1, <1>2, <1>3 DEF Lapses

(* A row is within its bounds after a step that makes no bound tighter. *)
LEMMA RowSentFrame ==
    ASSUME Inv, Inv', NEW d \in Deliveries, RowSent(d), Lapses' >= Lapses,
           status'[d] = "deleted" <=> status[d] = "deleted", attempts'[d] = attempts[d],
           posts'[d] = posts[d], acks'[d] = acks[d],
           status[d] = "deleted" => Unsent(d)' <= Unsent(d),
           status[d] # "deleted" =>
               InFlight(d) <= InFlight(d)' /\ Delivered(d) + Accepted(d) <= Delivered(d)' + Accepted(d)'
    PROVE RowSent(d)'
<1>1. Lapses \in Int /\ Lapses' \in Int
    BY LapsesTyped
<1>2. attempts[d] \in Nat /\ posts[d] \in Nat /\ acks[d] \in Nat
    BY DeliveryAssumption DEF Inv, RowsTyped
<1>3. /\ Unsent(d) \in 0..1 /\ Unsent(d)' \in 0..1
      /\ InFlight(d) \in 0..1 /\ InFlight(d)' \in 0..1
      /\ Accepted(d) \in 0..1 /\ Accepted(d)' \in 0..1
      /\ Delivered(d) \in 0..1 /\ Delivered(d)' \in 0..1
    BY DEF Unsent, InFlight, Accepted, Delivered
<1>5. ASSUME status[d] = "deleted"
      PROVE posts[d] + Unsent(d)' <= MaxAttempts + Lapses' /\ acks[d] + Unsent(d)' <= 1 + Lapses'
    BY <1>1, <1>2, <1>3, <1>5, DeliveryAssumption DEF RowSent
<1>6. ASSUME status[d] # "deleted"
      PROVE posts[d] <= attempts[d] + InFlight(d)' + Lapses'
  <2>1. posts[d] <= attempts[d] + InFlight(d) + Lapses
    BY <1>6 DEF RowSent
  <2> QED
    BY <1>1, <1>2, <1>3, <1>6, <2>1
<1>7. ASSUME status[d] # "deleted"
      PROVE acks[d] <= Delivered(d)' + Accepted(d)' + Lapses'
  <2>1. acks[d] <= Delivered(d) + Accepted(d) + Lapses
    BY <1>7 DEF RowSent
  <2> QED
    BY <1>1, <1>2, <1>3, <1>7, <2>1
<1> QED
    BY <1>5, <1>6, <1>7 DEF RowSent

(* A worker that posts a row, or holds its answer, is the only one.        *)
LEMMA SenderCounts ==
    ASSUME Inv, NEW w \in Workers, sending[w] \in Deliveries
    PROVE /\ Unsent(sending[w]) = IF answer[w] = "none" THEN 1 ELSE 0
          /\ InFlight(sending[w]) = IF answer[w] # "none" THEN 1 ELSE 0
          /\ Accepted(sending[w]) = IF answer[w] = "ok" THEN 1 ELSE 0
<1>1. \A v \in Workers : sending[v] = sending[w] => v = w
    BY DeliveryAssumption DEF Inv, QueueInv, RowsApart
<1> QED
    BY <1>1 DEF Unsent, InFlight, Accepted

(* A row keeps its senders and their answers when a step concerns another. *)
LEMMA SendersFrame ==
    ASSUME Inv, Inv', NEW w \in Workers, NEW e \in Deliveries, sending[w] # e, sending'[w] # e,
           \A v \in Workers : v # w => sending'[v] = sending[v] /\ answer'[v] = answer[v]
    PROVE Unsent(e)' = Unsent(e) /\ InFlight(e)' = InFlight(e) /\ Accepted(e)' = Accepted(e)
<1>1. \A v \in Workers : /\ sending[v] = e <=> sending'[v] = e
                         /\ sending[v] = e => answer'[v] = answer[v]
    OBVIOUS
<1>2. (\E v \in Workers : sending'[v] = e /\ answer'[v] = "none")
        <=> (\E v \in Workers : sending[v] = e /\ answer[v] = "none")
    BY <1>1
<1>3. (\E v \in Workers : sending'[v] = e /\ answer'[v] # "none")
        <=> (\E v \in Workers : sending[v] = e /\ answer[v] # "none")
    BY <1>1
<1>4. (\E v \in Workers : sending'[v] = e /\ answer'[v] = "ok")
        <=> (\E v \in Workers : sending[v] = e /\ answer[v] = "ok")
    BY <1>1
<1> QED
    BY <1>2, <1>3, <1>4 DEF Unsent, InFlight, Accepted

(* An answer that is recorded is counted as an attempt, and a 2xx one as   *)
(* the delivery (the update that ends attemptDelivery).                    *)
LEMMA RecordCounts ==
    ASSUME Inv, Inv', NEW w \in Workers, NEW d \in Deliveries, sending[w] = d,
           RecordOutcome(w), RowSent(d), Lapses' >= Lapses
    PROVE RowSent(d)'
<1> DEFINE n == attempts[d] + 1
<1>1. status[d] # "deleted" /\ answer[w] # "none"
    BY DEF RecordOutcome, Inv, RowsTyped
<1>2. status[d] = "pending"
    BY <1>1 DEF Inv, QueueInv, ClaimHeld
<1>3. /\ status' = [status EXCEPT ![d] = Outcome(answer[w] = "ok", n)]
      /\ attempts' = [attempts EXCEPT ![d] = n]
      /\ posts' = posts /\ acks' = acks
    BY DEF RecordOutcome, sentVars
<1>4. /\ status'[d] = Outcome(answer[w] = "ok", n) /\ attempts'[d] = attempts[d] + 1
      /\ posts'[d] = posts[d] /\ acks'[d] = acks[d]
    BY <1>1, <1>3 DEF Inv, RowsTyped
<1>5. status'[d] # "deleted" /\ (answer[w] = "ok" => status'[d] = "delivered")
    BY <1>4 DEF Outcome
<1>6. posts[d] <= attempts[d] + InFlight(d) + Lapses /\ acks[d] <= Delivered(d) + Accepted(d) + Lapses
    BY <1>1 DEF RowSent
<1>7. InFlight(d) = 1 /\ Accepted(d) = IF answer[w] = "ok" THEN 1 ELSE 0
    BY <1>1, SenderCounts
<1>8. Delivered(d) = 0 /\ (answer[w] = "ok" => Delivered(d)' = 1)
    BY <1>2, <1>5 DEF Delivered
<1>9. InFlight(d)' \in 0..1 /\ Accepted(d)' \in 0..1 /\ Delivered(d)' \in 0..1
    BY DEF InFlight, Accepted, Delivered
<1>10. Lapses \in Int /\ Lapses' \in Int /\ attempts[d] \in Nat /\ posts[d] \in Nat /\ acks[d] \in Nat
  <2>1. attempts[d] \in Nat /\ posts[d] \in Nat /\ acks[d] \in Nat
    BY <1>1, DeliveryAssumption DEF Inv, RowsTyped
  <2> QED
    BY <2>1, LapsesTyped
<1>11. posts'[d] <= attempts'[d] + InFlight(d)' + Lapses'
    BY <1>4, <1>6, <1>7, <1>9, <1>10
<1>12. acks'[d] <= Delivered(d)' + Accepted(d)' + Lapses'
  <2>1. Delivered(d) + Accepted(d) <= Delivered(d)' + Accepted(d)'
    BY <1>7, <1>8, <1>9
  <2>2. Delivered(d) \in Int /\ Accepted(d) \in Int
    BY <1>7, <1>8
  <2> QED
    BY <1>4, <1>6, <1>9, <1>10, <2>1, <2>2
<1> QED
    BY <1>5, <1>11, <1>12 DEF RowSent

(* A post is of a row that had one left (the fetch of attemptDelivery).    *)
LEMMA PostCounts ==
    ASSUME Inv, Inv', NEW w \in Workers, NEW d \in Deliveries, sending[w] = d,
           NEW reply \in {"ok", "bad"}, Post(w, reply), RowSent(d), Lapses' >= Lapses
    PROVE RowSent(d)'
<1>1. answer[w] = "none"
    BY DEF Post, Inv, RowsTyped
<1>2. /\ posts'[d] = posts[d] + 1 /\ acks'[d] = acks[d] + (IF reply = "ok" THEN 1 ELSE 0)
      /\ attempts'[d] = attempts[d] /\ status'[d] = status[d]
      /\ sending'[w] = d /\ answer'[w] = reply
  <2>1. attempts[d] \in Nat /\ posts[d] \in Nat /\ acks[d] \in Nat
    BY <1>1, DeliveryAssumption DEF Inv, RowsTyped
  <2> QED
    BY <1>1, <2>1 DEF Post, Inv, RowsTyped, rowVars
<1>3. Unsent(d) = 1 /\ InFlight(d) = 0 /\ Accepted(d) = 0
    BY <1>1, SenderCounts
<1>4. Unsent(d)' = 0 /\ InFlight(d)' = 1 /\ Accepted(d)' = IF reply = "ok" THEN 1 ELSE 0
  <2>1. \A v \in Workers : sending'[v] = d <=> v = w
    BY <1>1, <1>2, DeliveryAssumption DEF Inv, QueueInv, RowsApart
  <2>2. Unsent(d)' = IF answer'[w] = "none" THEN 1 ELSE 0
    BY <2>1 DEF Unsent
  <2>3. InFlight(d)' = IF answer'[w] # "none" THEN 1 ELSE 0
    BY <2>1 DEF InFlight
  <2>4. Accepted(d)' = IF answer'[w] = "ok" THEN 1 ELSE 0
    BY <2>1 DEF Accepted
  <2> QED
    BY <1>2, <2>2, <2>3, <2>4
<1>5. Delivered(d)' = Delivered(d) /\ Delivered(d) \in 0..1
    BY <1>2 DEF Delivered
<1>6. Lapses \in Int /\ Lapses' \in Int /\ attempts[d] \in Nat /\ posts[d] \in Nat /\ acks[d] \in Nat
  <2>1. attempts[d] \in Nat /\ posts[d] \in Nat /\ acks[d] \in Nat
    BY <1>1, DeliveryAssumption DEF Inv, RowsTyped
  <2> QED
    BY <2>1, LapsesTyped
<1>7. ASSUME status[d] = "deleted"
      PROVE posts'[d] + Unsent(d)' <= MaxAttempts + Lapses' /\ acks'[d] + Unsent(d)' <= 1 + Lapses'
  <2>1. posts[d] + 1 <= MaxAttempts + Lapses /\ acks[d] + 1 <= 1 + Lapses
    BY <1>3, <1>7 DEF RowSent
  <2> QED
    BY <1>2, <1>4, <1>6, <2>1, DeliveryAssumption
<1>8. ASSUME status[d] # "deleted"
      PROVE /\ posts'[d] <= attempts'[d] + InFlight(d)' + Lapses'
            /\ acks'[d] <= Delivered(d)' + Accepted(d)' + Lapses'
  <2>1. posts[d] <= attempts[d] + 0 + Lapses /\ acks[d] <= Delivered(d) + 0 + Lapses
    BY <1>3, <1>8 DEF RowSent
  <2>2. posts[d] + 1 <= attempts[d] + 1 + Lapses'
    BY <1>6, <2>1
  <2>3. acks'[d] <= Delivered(d) + Accepted(d)' + Lapses'
    BY <1>2, <1>4, <1>5, <1>6, <2>1
  <2> QED
    BY <1>2, <1>4, <1>5, <2>2, <2>3
<1> QED
    BY <1>2, <1>7, <1>8 DEF RowSent

(* A row that is deleted had an attempt left, or nobody posts it           *)
(* (DELETE /groups/:groupId/webhooks/:webhookId).                          *)
LEMMA DeleteCounts ==
    ASSUME Inv, Inv', NEW d \in Deliveries, DeleteEndpoint(d), RowSent(d), Lapses' >= Lapses
    PROVE RowSent(d)'
<1>1. /\ status[d] \in {"pending", "delivered", "failed"} /\ status'[d] = "deleted"
      /\ UNCHANGED <<attempts, posts, acks, sending, answer>>
    BY DEF DeleteEndpoint, Inv, RowsTyped, loopVars, sentVars
<1>2. posts[d] <= attempts[d] + InFlight(d) + Lapses /\ acks[d] <= Delivered(d) + Accepted(d) + Lapses
    BY <1>1 DEF RowSent
<1>3. Unsent(d)' = Unsent(d)
    BY <1>1 DEF Unsent
<1>4. Lapses \in Int /\ Lapses' \in Int /\ attempts[d] \in 0..MaxAttempts /\ posts[d] \in Nat /\ acks[d] \in Nat
  <2>1. attempts[d] \in 0..MaxAttempts /\ posts[d] \in Nat /\ acks[d] \in Nat
    BY DeliveryAssumption DEF Inv, RowsTyped
  <2> QED
    BY <2>1, LapsesTyped
<1>5. attempts[d] + InFlight(d) + Unsent(d) <= MaxAttempts /\ Delivered(d) + Accepted(d) + Unsent(d) <= 1
      /\ InFlight(d) \in 0..1 /\ Unsent(d) \in 0..1 /\ Accepted(d) \in 0..1 /\ Delivered(d) \in 0..1
  <2>1. CASE \E w \in Workers : sending[w] = d
    <3>1. PICK w \in Workers : sending[w] = d
      BY <2>1
    <3>2. status[d] = "pending" /\ attempts[d] < MaxAttempts
      BY <1>1, <3>1 DEF Inv, QueueInv, ClaimHeld, AttemptLeft
    <3>3. /\ Unsent(d) = IF answer[w] = "none" THEN 1 ELSE 0
          /\ InFlight(d) = IF answer[w] # "none" THEN 1 ELSE 0
          /\ Accepted(d) = IF answer[w] = "ok" THEN 1 ELSE 0
      BY <3>1, SenderCounts
    <3>4. Delivered(d) = 0
      BY <3>2 DEF Delivered
    <3> QED
      BY <1>4, <3>2, <3>3, <3>4, DeliveryAssumption
  <2>2. CASE ~ \E w \in Workers : sending[w] = d
    <3>1. Unsent(d) = 0 /\ InFlight(d) = 0 /\ Accepted(d) = 0
      BY <2>2 DEF Unsent, InFlight, Accepted
    <3>2. Delivered(d) \in 0..1
      BY DEF Delivered
    <3> QED
      BY <1>4, <3>1, <3>2, DeliveryAssumption
  <2> QED
    BY <2>1, <2>2
<1>6. posts[d] + Unsent(d) <= MaxAttempts + Lapses'
    BY <1>2, <1>4, <1>5, DeliveryAssumption
<1>7. acks[d] + Unsent(d) <= 1 + Lapses'
    BY <1>2, <1>4, <1>5
<1> QED
    BY <1>1, <1>3, <1>6, <1>7 DEF RowSent

(* A loop that is left loses one answer at most, and has paid for it, or   *)
(* the row is gone (runCycleTask, a process that dies).                    *)
LEMMA LossIsPaid ==
    ASSUME Inv, Inv', NEW w \in Workers, NEW d \in Deliveries, sending[w] = d,
           LosesAnswer(w), RowSent(d)
    PROVE RowSent(d)'
<1>1. /\ UNCHANGED <<status, attempts, posts, acks>>
      /\ sending' = [sending EXCEPT ![w] = None]
    BY DEF LosesAnswer, LeaveLoop, rowVars, sentVars
<1>2. \A v \in Workers : sending'[v] # d
    BY <1>1, DeliveryAssumption DEF Inv, RowsTyped, QueueInv, RowsApart
<1>3. Unsent(d)' = 0 /\ InFlight(d)' = 0 /\ Accepted(d)' = 0
    BY <1>2 DEF Unsent, InFlight, Accepted
<1>4. /\ Delivered(d)' = Delivered(d) /\ Delivered(d) \in 0..1
      /\ Unsent(d) \in 0..1 /\ InFlight(d) \in 0..1 /\ Accepted(d) \in 0..1
    BY <1>1 DEF Delivered, Unsent, InFlight, Accepted
<1>5. Lapses \in Int /\ Lapses' \in Int /\ attempts[d] \in Nat /\ posts[d] \in Nat /\ acks[d] \in Nat
  <2>1. attempts[d] \in Nat /\ posts[d] \in Nat /\ acks[d] \in Nat
    BY DeliveryAssumption DEF Inv, RowsTyped
  <2> QED
    BY <2>1, LapsesTyped
<1>6. ASSUME status[d] = "deleted"
      PROVE posts[d] <= MaxAttempts + Lapses' /\ acks[d] <= 1 + Lapses'
  <2>1. posts[d] + Unsent(d) <= MaxAttempts + Lapses /\ acks[d] + Unsent(d) <= 1 + Lapses
    BY <1>6 DEF RowSent
  <2>2. Lapses' >= Lapses
    BY <1>5 DEF LosesAnswer
  <2> QED
    BY <1>4, <1>5, <2>1, <2>2, DeliveryAssumption
<1>7. ASSUME status[d] # "deleted"
      PROVE posts[d] <= attempts[d] + Lapses' /\ acks[d] <= Delivered(d) + Lapses'
  <2>1. posts[d] <= attempts[d] + InFlight(d) + Lapses /\ acks[d] <= Delivered(d) + Accepted(d) + Lapses
    BY <1>7 DEF RowSent
  <2>2. Lapses' >= Lapses + 1
    BY <1>7 DEF LosesAnswer
  <2> QED
    BY <1>4, <1>5, <2>1, <2>2
<1>8. CASE status[d] = "deleted"
  <2>1. posts[d] + 0 <= MaxAttempts + Lapses' /\ acks[d] + 0 <= 1 + Lapses'
    BY <1>5, <1>6, <1>8
  <2> QED
    BY <1>1, <1>3, <1>8, <2>1 DEF RowSent
<1>9. CASE status[d] # "deleted"
  <2>1. posts[d] <= attempts[d] + 0 + Lapses' /\ acks[d] <= Delivered(d) + 0 + Lapses'
    BY <1>4, <1>5, <1>7, <1>9
  <2> QED
    BY <1>1, <1>3, <1>4, <1>9, <2>1 DEF RowSent
<1> QED
    BY <1>8, <1>9

LEMMA SentKept ==
    ASSUME Inv, Inv', SentInv, [Next]_vars
    PROVE SentInv'
<1> SUFFICES ASSUME NEW e \in Deliveries PROVE RowSent(e)'
    BY DEF SentInv
<1>1. RowSent(e)
    BY DEF SentInv
<1> USE DEF rowVars, loopVars, sentVars
<1>2. ASSUME NEW w \in Workers, LosesAnswer(w) PROVE RowSent(e)'
  <2>1. CASE sending[w] = e
    BY <1>1, <1>2, <2>1, LossIsPaid
  <2>2. CASE sending[w] # e
    <3>1. /\ UNCHANGED <<status, attempts, posts, acks>>
          /\ sending'[w] # e
          /\ \A v \in Workers : v # w => sending'[v] = sending[v] /\ answer'[v] = answer[v]
      BY <1>2, DeliveryAssumption DEF LosesAnswer, LeaveLoop, Inv, RowsTyped
    <3>2. Lapses' >= Lapses
      BY <1>2, LapsesTyped DEF LosesAnswer
    <3>3. Unsent(e)' = Unsent(e) /\ InFlight(e)' = InFlight(e) /\ Accepted(e)' = Accepted(e)
      BY <2>2, <3>1, SendersFrame
    <3>4. /\ Delivered(e)' = Delivered(e) /\ Delivered(e) \in 0..1
          /\ Unsent(e) \in 0..1 /\ InFlight(e) \in 0..1 /\ Accepted(e) \in 0..1
      BY <3>1 DEF Delivered, Unsent, InFlight, Accepted
    <3> QED
      BY <1>1, <3>1, <3>2, <3>3, <3>4, RowSentFrame
  <2> QED
    BY <2>1, <2>2
<1>3. ASSUME Lapses' >= Lapses, UNCHANGED <<attempts, posts, acks, sending, answer>>,
             status'[e] = status[e] \/ (status[e] = "unwritten" /\ status'[e] = "pending")
      PROVE RowSent(e)'
  <2>1. Unsent(e)' = Unsent(e) /\ InFlight(e)' = InFlight(e) /\ Accepted(e)' = Accepted(e)
    BY <1>3 DEF Unsent, InFlight, Accepted
  <2>2. /\ Delivered(e)' = Delivered(e) /\ Delivered(e) \in 0..1
        /\ Unsent(e) \in 0..1 /\ InFlight(e) \in 0..1 /\ Accepted(e) \in 0..1
    BY <1>3 DEF Delivered, Unsent, InFlight, Accepted
  <2> QED
    BY <1>1, <1>3, <2>1, <2>2, RowSentFrame
<1>4. ASSUME Lapses' >= Lapses, NEW d \in Deliveries, Enqueue(d) PROVE RowSent(e)'
  <2>1. /\ UNCHANGED <<attempts, posts, acks, sending, answer>>
        /\ status'[e] = status[e] \/ (status[e] = "unwritten" /\ status'[e] = "pending")
    BY <1>4 DEF Enqueue, Inv, RowsTyped
  <2> QED
    BY <1>3, <1>4, <2>1
<1>5. ASSUME Lapses' >= Lapses, NEW d \in Deliveries, DeleteEndpoint(d) PROVE RowSent(e)'
  <2>1. CASE e = d
    BY <1>1, <1>5, <2>1, DeleteCounts
  <2>2. CASE e # d
    <3>1. UNCHANGED <<attempts, posts, acks, sending, answer>> /\ status'[e] = status[e]
      BY <1>5, <2>2 DEF DeleteEndpoint, Inv, RowsTyped
    <3> QED
      BY <1>3, <1>5, <3>1
  <2> QED
    BY <2>1, <2>2
<1>6. ASSUME Lapses' >= Lapses, UNCHANGED <<status, attempts, posts, acks, sending, answer>>
      PROVE RowSent(e)'
    BY <1>3, <1>6
<1>7. ASSUME Lapses' >= Lapses, NEW w \in Workers, RecordOutcome(w) PROVE RowSent(e)'
  <2>1. CASE sending[w] = e
    BY <1>1, <1>7, <2>1, RecordCounts
  <2>2. CASE sending[w] # e
    <3>1. /\ status'[e] = status[e] /\ attempts'[e] = attempts[e]
          /\ posts' = posts /\ acks' = acks
          /\ sending'[w] # e
          /\ \A v \in Workers : v # w => sending'[v] = sending[v] /\ answer'[v] = answer[v]
      BY <1>7, <2>2, DeliveryAssumption DEF RecordOutcome, Inv, RowsTyped
    <3>3. Unsent(e)' = Unsent(e) /\ InFlight(e)' = InFlight(e) /\ Accepted(e)' = Accepted(e)
      BY <2>2, <3>1, SendersFrame
    <3>4. /\ Delivered(e)' = Delivered(e) /\ Delivered(e) \in 0..1
          /\ Unsent(e) \in 0..1 /\ InFlight(e) \in 0..1 /\ Accepted(e) \in 0..1
      BY <3>1 DEF Delivered, Unsent, InFlight, Accepted
    <3> QED
      BY <1>1, <1>7, <3>1, <3>3, <3>4, RowSentFrame
  <2> QED
    BY <2>1, <2>2
<1>8. ASSUME Lapses' >= Lapses, NEW w \in Workers, NEW reply \in {"ok", "bad"}, Post(w, reply)
      PROVE RowSent(e)'
  <2>1. CASE sending[w] = e
    BY <1>1, <1>8, <2>1, PostCounts
  <2>2. CASE sending[w] # e
    <3>1. /\ status'[e] = status[e] /\ attempts'[e] = attempts[e]
          /\ posts'[e] = posts[e] /\ acks'[e] = acks[e]
          /\ sending'[w] # e
          /\ \A v \in Workers : v # w => sending'[v] = sending[v] /\ answer'[v] = answer[v]
      BY <1>8, <2>2 DEF Post, Inv, RowsTyped
    <3>3. Unsent(e)' = Unsent(e) /\ InFlight(e)' = InFlight(e) /\ Accepted(e)' = Accepted(e)
      BY <2>2, <3>1, SendersFrame
    <3>4. /\ Delivered(e)' = Delivered(e) /\ Delivered(e) \in 0..1
          /\ Unsent(e) \in 0..1 /\ InFlight(e) \in 0..1 /\ Accepted(e) \in 0..1
      BY <3>1 DEF Delivered, Unsent, InFlight, Accepted
    <3> QED
      BY <1>1, <1>8, <3>1, <3>3, <3>4, RowSentFrame
  <2> QED
    BY <2>1, <2>2
<1>9. ASSUME Lapses' >= Lapses, NEW w \in Workers, NEW d \in Deliveries, ClaimDelivery(w, d)
      PROVE RowSent(e)'
  <2>1. CASE Claimable(w, d)
    <3>1. /\ sending' = [sending EXCEPT ![w] = d] /\ sending[w] = None /\ status[d] = "pending"
          /\ UNCHANGED <<status, attempts, answer, posts, acks>>
      BY <1>9, <2>1 DEF ClaimDelivery, Claimable
    <3>2. \A v \in Workers : sending[v] = e => sending'[v] = e
      BY <3>1, DeliveryAssumption DEF Inv, RowsTyped
    <3>3. InFlight(e) <= InFlight(e)'
      BY <3>1, <3>2 DEF InFlight
    <3>4. Accepted(e) <= Accepted(e)' /\ Accepted(e) \in 0..1 /\ Accepted(e)' \in 0..1
      BY <3>1, <3>2 DEF Accepted
    <3>5. Delivered(e)' = Delivered(e) /\ Delivered(e) \in 0..1
      BY <3>1 DEF Delivered
    <3>6. Delivered(e) + Accepted(e) <= Delivered(e)' + Accepted(e)'
      BY <3>4, <3>5
    <3>7. status[e] = "deleted" => Unsent(e)' <= Unsent(e)
      <4> SUFFICES ASSUME status[e] = "deleted" PROVE Unsent(e)' <= Unsent(e)
        OBVIOUS
      <4>1. \A v \in Workers : sending'[v] = e => sending[v] = e
        BY <3>1 DEF Inv, RowsTyped
      <4> QED
        BY <3>1, <4>1 DEF Unsent
    <3> QED
      BY <1>1, <1>9, <3>1, <3>3, <3>6, <3>7, RowSentFrame
  <2>2. CASE ~ Claimable(w, d)
    BY <1>6, <1>9, <2>2 DEF ClaimDelivery
  <2> QED
    BY <2>1, <2>2
<1>10. ASSUME Lapses' >= Lapses, NEW w \in Workers, FindDue(w) PROVE RowSent(e)'
    BY <1>6, <1>10 DEF FindDue
<1>11. ASSUME Lapses' >= Lapses, DeliveryTick \/ UNCHANGED deliveryVars PROVE RowSent(e)'
    BY <1>6, <1>11 DEF DeliveryTick, deliveryVars
<1> QED
    BY <1>2, <1>4, <1>5, <1>7, <1>8, <1>9, <1>10, <1>11, StepsCost DEF KeepsAnswers

(* A delivery is posted by one worker at a time and no oftener than its    *)
(* budget: every post past MaxAttempts, and every second 2xx answer, has   *)
(* a database failure or a process's end of its own to blame               *)
(* (claimDelivery, attemptDelivery, processPendingWebhookDeliveries).      *)
THEOREM PostedWithinBudget == Spec => []PostedUnderClaim
<1>1. Init => SentInv
  <2> SUFFICES ASSUME Init PROVE SentInv
    OBVIOUS
  <2>1. Signalled = {} /\ faults = 0
    BY DEF Init, DeliveryInit, Signalled
  <2>2. Lapses = 0
    BY <2>1, FS_EmptySet DEF Lapses
  <2> QED
    BY <2>2, DeliveryAssumption
       DEF Init, DeliveryInit, SentInv, RowSent, InFlight, Accepted, Delivered, Unsent
<1>2. Inv /\ Inv' /\ SentInv /\ [Next]_vars => SentInv'
    BY SentKept
<1>3. Inv /\ SentInv => PostedUnderClaim
  <2> SUFFICES ASSUME Inv, SentInv PROVE PostedUnderClaim
    OBVIOUS
  <2>1. OneSender
    BY DeliveryAssumption DEF Inv, OneSender, QueueInv, ClaimHeld, RowsApart
  <2>2. ASSUME NEW d \in Deliveries
        PROVE acks[d] <= 1 + faults /\ posts[d] <= MaxAttempts + faults
    <3>1. Lapses \in Int /\ Lapses <= faults
      BY SignalsCounted DEF Inv
    <3>2. attempts[d] \in 0..MaxAttempts /\ posts[d] \in Nat /\ acks[d] \in Nat /\ faults \in Nat
      BY DeliveryAssumption DEF Inv, RowsTyped, CycleTyped
    <3>3. CASE status[d] = "deleted"
      <4>1. posts[d] + Unsent(d) <= MaxAttempts + Lapses /\ acks[d] + Unsent(d) <= 1 + Lapses
        BY <3>3 DEF SentInv, RowSent
      <4>2. Unsent(d) \in 0..1
        BY DEF Unsent
      <4> QED
        BY <3>1, <3>2, <4>1, <4>2, DeliveryAssumption
    <3>4. CASE status[d] # "deleted"
      <4>1. posts[d] <= attempts[d] + InFlight(d) + Lapses /\ acks[d] <= Delivered(d) + Accepted(d) + Lapses
        BY <3>4 DEF SentInv, RowSent
      <4>2. /\ attempts[d] + InFlight(d) <= MaxAttempts /\ InFlight(d) \in 0..1
            /\ Delivered(d) + Accepted(d) <= 1 /\ Delivered(d) \in 0..1 /\ Accepted(d) \in 0..1
        <5>1. CASE \E w \in Workers : sending[w] = d
          <6>1. status[d] = "pending" /\ attempts[d] < MaxAttempts
            BY <3>4, <5>1 DEF Inv, QueueInv, ClaimHeld, AttemptLeft
          <6>2. Delivered(d) = 0 /\ InFlight(d) \in 0..1 /\ Accepted(d) \in 0..1
            BY <6>1 DEF Delivered, InFlight, Accepted
          <6> QED
            BY <3>2, <6>1, <6>2, DeliveryAssumption
        <5>2. CASE ~ \E w \in Workers : sending[w] = d
          <6>1. InFlight(d) = 0 /\ Accepted(d) = 0 /\ Delivered(d) \in 0..1
            BY <5>2 DEF InFlight, Accepted, Delivered
          <6> QED
            BY <3>2, <6>1, DeliveryAssumption
        <5> QED
          BY <5>1, <5>2
      <4>3. posts[d] <= MaxAttempts + Lapses
        BY <3>1, <3>2, <4>1, <4>2, DeliveryAssumption
      <4>4. acks[d] <= 1 + Lapses
        BY <3>1, <3>2, <4>1, <4>2
      <4> QED
        BY <3>1, <3>2, <4>3, <4>4, DeliveryAssumption
    <3> QED
      BY <3>3, <3>4
  <2> QED
    BY <2>1, <2>2 DEF PostedUnderClaim, SentWithinBudget
<1> QED
    BY <1>1, <1>2, <1>3, WorkerInvariant, PTL DEF Spec
=============================================================================
