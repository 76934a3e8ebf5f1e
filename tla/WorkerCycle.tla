---------------------------- MODULE WorkerCycle ----------------------------
(***************************************************************************)
(* The worker process: the cycle lock, the tasks of a cycle and their      *)
(* retries, the shutdown, and restarts.  Of the tasks, the webhook queue   *)
(* is drained in detail (WebhookDelivery); a settlement or anchor job      *)
(* stands for the tasks that hold a row lease; the others only succeed or  *)
(* fail.                                                                   *)
(***************************************************************************)
EXTENDS WebhookDelivery

CONSTANT MaxTries    \* WORKER_CYCLE_TASK_MAX_ATTEMPTS

ASSUME CycleAssumption == MaxTries \in Nat \ {0}

VARIABLES
    lockOwner, lockLeft,   \* the row of worker_locks
    phase,       \* worker -> "waiting" for its timer, "recovering", "tasks", "down"
    task,        \* worker -> deliverPendingWebhooks: "idle", "find", "drain", "done"
    tries,       \* worker -> attempts of that task in this cycle
    stopping,    \* worker -> a signal has arrived (stopped, isShuttingDown)
    age,         \* worker -> how long its cycle has run, as far as Lease
    jobOwner, jobLeft,     \* lease columns of the settlement or anchor job
    working,     \* worker -> it is driving that job
    jobAge       \* worker -> how long it has driven it, as far as Lease

lockVars == <<lockOwner, lockLeft>>
cycleVars == <<phase, task, tries, stopping, age>>
jobVars == <<jobOwner, jobLeft, working, jobAge>>
vars == <<deliveryVars, faults, lockVars, cycleVars, jobVars>>

Init ==
    /\ DeliveryInit
    /\ lockOwner = None /\ lockLeft = 0
    /\ phase = [w \in Workers |-> "waiting"]
    /\ task = [w \in Workers |-> "idle"]
    /\ tries = [w \in Workers |-> 0]
    /\ stopping = [w \in Workers |-> FALSE]
    /\ age = [w \in Workers |-> 0]
    /\ jobOwner = None /\ jobLeft = 0
    /\ working = [w \in Workers |-> FALSE]
    /\ jobAge = [w \in Workers |-> 0]

Outside == UNCHANGED <<lockVars, cycleVars, jobVars>>

Queue == (\E d \in Deliveries : Enqueue(d)) /\ Outside
Unregister == (\E d \in Deliveries : DeleteEndpoint(d)) /\ Outside

(***************************************************************************)
(* The cycle.                                                              *)
(***************************************************************************)
\* acquireWorkerLease: the insert, or the takeover of a row that has expired.
StartCycle(w) ==
    /\ phase[w] = "waiting" /\ ~stopping[w]
    /\ lockOwner = None \/ lockLeft = 0
    /\ lockOwner' = w /\ lockLeft' = Lease
    /\ phase' = [phase EXCEPT ![w] = "recovering"]
    /\ age' = [age EXCEPT ![w] = 0]
    /\ UNCHANGED <<task, tries, stopping, jobVars, deliveryVars, faults>>

(* mutant: no sweep frees the leases that dead workers left *)
RecoverNothing(w) ==
    /\ phase[w] = "recovering"
    /\ phase' = [phase EXCEPT ![w] = "tasks"]
    /\ task' = [task EXCEPT ![w] = "find"]
    /\ tries' = [tries EXCEPT ![w] = 1]
    /\ UNCHANGED <<lockVars, stopping, age, jobVars, deliveryVars, faults>>

\* recoverStaleSettlements and recoverStaleAnchorSessions, then the tasks at once.
Recover(w) ==
    /\ phase[w] = "recovering"
    /\ jobOwner' = IF jobLeft = 0 THEN None ELSE jobOwner
    /\ phase' = [phase EXCEPT ![w] = "tasks"]
    /\ task' = [task EXCEPT ![w] = "find"]
    /\ tries' = [tries EXCEPT ![w] = 1]
    /\ UNCHANGED <<lockVars, stopping, age, jobLeft, working, jobAge, deliveryVars, faults>>

ReadQueue(w) ==
    /\ task[w] = "find"
    /\ FindDue(w)
    /\ task' = [task EXCEPT ![w] = "drain"]
    /\ UNCHANGED <<lockVars, phase, tries, stopping, age, jobVars>>

Deliver(w) ==
    /\ task[w] = "drain"
    /\ \/ \E d \in Deliveries : ClaimDelivery(w, d)
       \/ \E reply \in {"ok", "bad"} : Post(w, reply)
       \/ RecordOutcome(w)
    /\ Outside

DrainDone(w) ==
    /\ task[w] = "drain" /\ sending[w] = None /\ batch[w] = NoBatch
    /\ task' = [task EXCEPT ![w] = "done"]
    /\ UNCHANGED <<lockVars, phase, tries, stopping, age, jobVars, deliveryVars, faults>>

\* withRetry of health.ts: a transient failure is tried again in the cycle, any
\* other is left to the next one; what runCycleTask then records for the health
\* endpoint, nothing in the cycle reads.
Retried(w, transient) == transient /\ tries[w] < MaxTries

TaskThrows(w, transient) ==
    /\ task' = [task EXCEPT ![w] = IF Retried(w, transient) THEN "find" ELSE "done"]
    /\ tries' = [tries EXCEPT ![w] = IF Retried(w, transient) THEN @ + 1 ELSE @]
    /\ LeaveLoop(w)
    /\ UNCHANGED <<lockVars, phase, stopping, age, jobVars>>

\* The database fails a statement of the queue's task.
DatabaseFails(w, transient) ==
    /\ task[w] \in {"find", "drain"}
    /\ faults < MaxFaults /\ faults' = faults + 1
    /\ TaskThrows(w, transient)

\* The row went with its endpoint: the update by id finds no record.
RowIsGone(w) ==
    /\ task[w] = "drain" /\ answer[w] # "none" /\ status[sending[w]] = "deleted"
    /\ UNCHANGED faults
    /\ TaskThrows(w, FALSE)

\* A job of the other tasks: claimed when it has no lease or one that has run
\* out, driven, and its lease given back if it is still this worker's.
TakeJob(w) ==
    /\ phase[w] = "tasks" /\ task[w] # "done" /\ ~stopping[w] /\ ~working[w]
    /\ jobOwner = None \/ jobLeft = 0
    /\ jobOwner' = w /\ jobLeft' = Lease
    /\ working' = [working EXCEPT ![w] = TRUE]
    /\ UNCHANGED <<lockVars, cycleVars, jobAge, deliveryVars, faults>>

(* releaseSettlement: only a claim of one's own *)
ReleaseJob(w) ==
    /\ jobOwner' = IF jobOwner = w THEN None ELSE jobOwner
    /\ jobLeft' = IF jobOwner = w THEN 0 ELSE jobLeft

FinishJob(w) ==
    /\ working[w]
    /\ ReleaseJob(w)
    /\ working' = [working EXCEPT ![w] = FALSE]
    /\ jobAge' = [jobAge EXCEPT ![w] = 0]
    /\ UNCHANGED <<lockVars, cycleVars, deliveryVars, faults>>

(* mutant: the lock is deleted by its key alone *)
ReleaseAnyLock(w) == lockOwner' = None /\ lockLeft' = 0

\* releaseWorkerLease: never the lock of a successor.
ReleaseLock(w) ==
    IF lockOwner = w THEN lockOwner' = None /\ lockLeft' = 0 ELSE UNCHANGED lockVars

\* Promise.allSettled, and the release.
EndCycle(w) ==
    /\ phase[w] = "tasks" /\ task[w] = "done" /\ ~working[w]
    /\ phase' = [phase EXCEPT ![w] = "waiting"]
    /\ task' = [task EXCEPT ![w] = "idle"]
    /\ tries' = [tries EXCEPT ![w] = 0]
    /\ age' = [age EXCEPT ![w] = 0]
    /\ ReleaseLock(w)
    /\ UNCHANGED <<stopping, jobVars, deliveryVars, faults>>

(***************************************************************************)
(* Shutdown, crash, restart.                                               *)
(***************************************************************************)
Signal(w) ==
    /\ phase[w] # "down" /\ ~stopping[w]
    /\ faults < MaxFaults /\ faults' = faults + 1
    /\ stopping' = [stopping EXCEPT ![w] = TRUE]
    /\ UNCHANGED <<lockVars, phase, task, tries, age, jobVars, deliveryVars>>

Gone(w) ==
    /\ phase' = [phase EXCEPT ![w] = "down"]
    /\ task' = [task EXCEPT ![w] = "idle"]
    /\ tries' = [tries EXCEPT ![w] = 0]
    /\ stopping' = [stopping EXCEPT ![w] = FALSE]
    /\ age' = [age EXCEPT ![w] = 0]

\* The cycle in flight has ended (inFlight).
Drained(w) == stopping[w] /\ phase[w] = "waiting"

\* Shutdown after the drain: claims of this worker are released, then it exits.
ReleaseClaims(w) ==
    /\ Drained(w)
    /\ ReleaseJob(w)
    /\ UNCHANGED <<lockVars, cycleVars, working, jobAge, deliveryVars, faults>>

ExitDrained(w) ==
    /\ Drained(w)
    /\ jobOwner # w
    /\ Gone(w)
    /\ UNCHANGED <<lockVars, jobVars, deliveryVars, faults>>

\* The drain budget is spent, or the process dies: every lease stays.
Exit(w) ==
    /\ phase[w] # "down"
    /\ IF stopping[w] THEN UNCHANGED faults ELSE faults < MaxFaults /\ faults' = faults + 1
    /\ Gone(w)
    /\ working' = [working EXCEPT ![w] = FALSE]
    /\ jobAge' = [jobAge EXCEPT ![w] = 0]
    /\ LeaveLoop(w)
    /\ UNCHANGED <<lockVars, jobOwner, jobLeft>>

Restart(w) ==
    /\ phase[w] = "down"
    /\ phase' = [phase EXCEPT ![w] = "waiting"]
    /\ UNCHANGED <<lockVars, task, tries, stopping, age, jobVars, deliveryVars, faults>>

\* One more tick of a clock that stops at Lease.
Aged(n) == IF n < Lease THEN n + 1 ELSE n

\* Time passes.  Neither a cycle nor a job need end before its lease does: by
\* default a settlement is polled for longer than the minute it is leased.
Tick ==
    /\ DeliveryTick
    /\ lockLeft' = Less(lockLeft)
    /\ jobLeft' = Less(jobLeft)
    /\ age' = [w \in Workers |->
                 IF phase[w] \in {"recovering", "tasks"} THEN Aged(age[w]) ELSE age[w]]
    /\ jobAge' = [w \in Workers |-> IF working[w] THEN Aged(jobAge[w]) ELSE jobAge[w]]
    /\ UNCHANGED <<lockOwner, phase, task, tries, stopping, jobOwner, working>>

Drain(w) == ReadQueue(w) \/ Deliver(w) \/ DrainDone(w) \/ RowIsGone(w)

Fault(w) ==
    \/ \E transient \in BOOLEAN : DatabaseFails(w, transient)
    \/ Signal(w) \/ Exit(w)

Next ==
    \/ Queue \/ Unregister \/ Tick
    \/ \E w \in Workers :
          \/ StartCycle(w) \/ Recover(w) \/ Drain(w) \/ TakeJob(w) \/ FinishJob(w)
          \/ EndCycle(w) \/ Fault(w)
          \/ ReleaseClaims(w) \/ ExitDrained(w) \/ Restart(w)

\* The loop re-arms its timer, the tasks of a cycle go on, and a process that has
\* exited is started again; nothing is assumed of jobs, receivers and signals.
Fairness ==
    /\ WF_vars(\E w \in Workers : StartCycle(w))
    /\ WF_vars(Tick)
    /\ \A w \in Workers :
          /\ WF_vars(Recover(w)) /\ WF_vars(Drain(w))
          /\ WF_vars(FinishJob(w)) /\ WF_vars(EndCycle(w))
          /\ WF_vars(Restart(w))
          /\ WF_vars(ReleaseClaims(w) \/ ExitDrained(w))

Spec == Init /\ [][Next]_vars
FairSpec == Spec /\ Fairness

(***************************************************************************)
(* Properties.                                                             *)
(***************************************************************************)
InCycle(w) == phase[w] \in {"recovering", "tasks"}

\* Every variable keeps its type (the rows of webhook_deliveries and
\* worker_locks, the locals of runWorkerCycle and startWorker).
TypeOK ==
    /\ DeliveryTypeOK
    /\ lockOwner \in Workers \cup {None} /\ lockLeft \in 0..Lease
    /\ phase \in [Workers -> {"waiting", "recovering", "tasks", "down"}]
    /\ task \in [Workers -> {"idle", "find", "drain", "done"}]
    /\ tries \in [Workers -> 0..MaxTries]
    /\ stopping \in [Workers -> BOOLEAN]
    /\ age \in [Workers -> 0..Lease]
    /\ jobOwner \in Workers \cup {None} /\ jobLeft \in 0..Lease
    /\ working \in [Workers -> BOOLEAN]
    /\ jobAge \in [Workers -> 0..Lease]

\* Two cycles run side by side only when one of them has outlived the lock it
\* took (acquireWorkerLease, releaseWorkerLease).
CyclesOverlapOnlyPastLease ==
    \A v, w \in Workers : v # w /\ InCycle(v) /\ InCycle(w) => age[v] = Lease \/ age[w] = Lease

\* No two workers post one delivery at a time, even when their cycles overlap,
\* and the one that posts holds its lease (claimDelivery).
OneSender ==
    \A v, w \in Workers, d \in Deliveries :
        sending[v] = d /\ status[d] # "deleted" =>
            /\ holder[d] = v /\ lease[d] > 0
            /\ sending[w] = d => v = w

\* A receiver answers 2xx to a delivery once, but for the faults that kept an
\* answer from being recorded, and is called at most MaxAttempts times, but for
\* those (processPendingWebhookDeliveries).
SentWithinBudget ==
    \A d \in Deliveries :
        /\ acks[d] <= 1 + faults
        /\ posts[d] <= MaxAttempts + faults

\* A delivery is posted by one worker at a time, and no oftener than its budget
\* (claimDelivery, attemptDelivery).
PostedUnderClaim == OneSender /\ SentWithinBudget

\* What has been delivered, has failed or was deleted is not taken up again
\* (attemptDelivery updates the row by id alone).
TerminalIsFinal ==
    [][\A d \in Deliveries :
          /\ status[d] \in {"delivered", "failed"} => status'[d] \in {status[d], "deleted"}
          /\ status[d] = "deleted" => status'[d] = "deleted"]_vars

\* A job that is being driven keeps its lease until the lease runs out, so that
\* two workers drive one job only when one of them has outlived its claim: no
\* release, recovery, crash or shutdown gives it away sooner (startWorker,
\* releaseSettlement, recoverStaleSettlements).
WorkingHoldsLease ==
    \A w \in Workers : working[w] /\ jobAge[w] < Lease => jobOwner = w

\* The two leases keep the workers apart, that on the cycle and that on a job,
\* each until it runs out and no longer.
LeasesHold == CyclesOverlapOnlyPastLease /\ WorkingHoldsLease

\* Every queued delivery ends, delivered, failed, or deleted with its endpoint,
\* and stays so (processPendingWebhookDeliveries).
DeliveryEnds ==
    TerminalIsFinal /\ \A d \in Deliveries : status[d] = "pending" ~> status[d] # "pending"

\* A claim on a job that has lapsed, its worker dead or slow, is swept or taken
\* over: the job can be driven again (recoverStaleSettlements,
\* recoverStaleAnchorSessions).
JobIsFreed ==
    jobOwner # None /\ jobLeft = 0 ~> jobOwner = None \/ jobLeft > 0
=============================================================================
