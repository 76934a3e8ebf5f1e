-------------------------- MODULE WebhookDelivery --------------------------
(***************************************************************************)
(* The queue of webhook deliveries (webhook.ts) and the loop that drains   *)
(* it.  A row is written before anything is sent; a worker reads the rows  *)
(* that are due, claims one after the other under a lease, posts the body  *)
(* and records the answer.  Deadlines are counted down, not dated: the     *)
(* state holds the time left of a lease and of a backoff.                  *)
(***************************************************************************)
EXTENDS Integers, FiniteSets

CONSTANTS
    Deliveries,    \* WebhookDelivery rows, each for an endpoint of its own
    Workers,       \* worker processes
    None,
    MaxAttempts,   \* WEBHOOK_MAX_ATTEMPTS
    Lease,         \* WORKER_LEASE_TIMEOUT_MS, longer than DELIVERY_TIMEOUT_MS
    Backoff,       \* failed attempts -> deliveryBackoffMs before the next
    MaxFaults      \* bound: processes that die, statements that fail

ASSUME DeliveryAssumption ==
    /\ None \notin Workers /\ None \notin Deliveries /\ IsFiniteSet(Workers)
    /\ MaxAttempts \in Nat \ {0} /\ Lease \in Nat \ {0} /\ MaxFaults \in Nat
    /\ Backoff \in [1..MaxAttempts -> Nat]

VARIABLES
    status, attempts, wait, lease, holder,  \* per row; wait: until nextAttemptAt
    batch,       \* worker -> row -> the attempts it read, -1 for a row not in its batch
    sending,     \* worker -> the row it has claimed
    answer,      \* worker -> what the receiver answered: "none", "ok", "bad"
    posts, acks, \* row -> requests sent, and those answered with a 2xx status
    faults

rowVars == <<status, attempts, wait, lease, holder>>
loopVars == <<batch, sending, answer>>
sentVars == <<posts, acks>>
deliveryVars == <<rowVars, loopVars, sentVars>>

NoBatch == [d \in Deliveries |-> -1]

DeliveryInit ==
    /\ status = [d \in Deliveries |-> "unwritten"]
    /\ attempts = [d \in Deliveries |-> 0]
    /\ wait = [d \in Deliveries |-> 0]
    /\ lease = [d \in Deliveries |-> 0]
    /\ holder = [d \in Deliveries |-> None]
    /\ batch = [w \in Workers |-> NoBatch]
    /\ sending = [w \in Workers |-> None]
    /\ answer = [w \in Workers |-> "none"]
    /\ posts = [d \in Deliveries |-> 0]
    /\ acks = [d \in Deliveries |-> 0]
    /\ faults = 0

\* queueWebhookEvent, dispatchWebhook: due at once.
Enqueue(d) ==
    /\ status[d] = "unwritten"
    /\ status' = [status EXCEPT ![d] = "pending"]
    /\ UNCHANGED <<attempts, wait, lease, holder, loopVars, sentVars, faults>>

\* DELETE /groups/:groupId/webhooks/:webhookId; the rows of the endpoint cascade.
DeleteEndpoint(d) ==
    /\ status[d] \in {"pending", "delivered", "failed"}
    /\ status' = [status EXCEPT ![d] = "deleted"]
    /\ wait' = [wait EXCEPT ![d] = 0]
    /\ lease' = [lease EXCEPT ![d] = 0]
    /\ holder' = [holder EXCEPT ![d] = None]
    /\ UNCHANGED <<attempts, loopVars, sentVars, faults>>

(* mutant: a claim is respected for ever, not for as long as its lease *)
DueUnclaimed(d) == status[d] = "pending" /\ wait[d] = 0 /\ holder[d] = None

Due(d) == status[d] = "pending" /\ wait[d] = 0 /\ lease[d] = 0

FindDue(w) ==
    /\ batch' = [batch EXCEPT ![w] = [d \in Deliveries |-> IF Due(d) THEN attempts[d] ELSE -1]]
    /\ UNCHANGED <<rowVars, sending, answer, sentVars, faults>>

(* mutant: a claim that does not compare the attempts it read *)
ClaimableStale(w, d) == status[d] # "unwritten" /\ lease[d] = 0

\* The where clause of claimDelivery.
Claimable(w, d) ==
    /\ status[d] = "pending"
    /\ attempts[d] = batch[w][d]
    /\ lease[d] = 0

ClaimDelivery(w, d) ==
    /\ sending[w] = None
    /\ batch[w][d] >= 0
    /\ batch' = [batch EXCEPT ![w][d] = -1]
    /\ IF Claimable(w, d)
         THEN /\ sending' = [sending EXCEPT ![w] = d]
              /\ lease' = [lease EXCEPT ![d] = Lease]
              /\ holder' = [holder EXCEPT ![d] = w]
         ELSE UNCHANGED <<sending, lease, holder>>
    /\ UNCHANGED <<status, attempts, wait, answer, sentVars, faults>>

\* The fetch of attemptDelivery.  Any other status, and no answer in time, is
\* "bad", whatever the receiver made of the request.
Post(w, reply) ==
    /\ sending[w] # None
    /\ answer[w] = "none"
    /\ posts' = [posts EXCEPT ![sending[w]] = @ + 1]
    /\ acks' = [acks EXCEPT ![sending[w]] = IF reply = "ok" THEN @ + 1 ELSE @]
    /\ answer' = [answer EXCEPT ![w] = reply]
    /\ UNCHANGED <<rowVars, batch, sending, faults>>

Outcome(ok, attempt) ==
    IF ok THEN "delivered" ELSE IF attempt >= MaxAttempts THEN "failed" ELSE "pending"

\* The update that ends attemptDelivery, by id alone.
RecordOutcome(w) ==
    /\ sending[w] # None
    /\ answer[w] # "none"
    /\ LET d == sending[w]
           n == attempts[d] + 1
           s == Outcome(answer[w] = "ok", n) IN
         /\ status[d] # "deleted"
         /\ status' = [status EXCEPT ![d] = s]
         /\ attempts' = [attempts EXCEPT ![d] = n]
         /\ wait' = [wait EXCEPT ![d] = IF s = "pending" THEN Backoff[n] ELSE 0]
         /\ lease' = [lease EXCEPT ![d] = 0]
         /\ holder' = [holder EXCEPT ![d] = None]
    /\ sending' = [sending EXCEPT ![w] = None]
    /\ answer' = [answer EXCEPT ![w] = "none"]
    /\ UNCHANGED <<batch, sentVars, faults>>

\* The loop is left: by an exception, or because the process is gone.
LeaveLoop(w) ==
    /\ batch' = [batch EXCEPT ![w] = NoBatch]
    /\ sending' = [sending EXCEPT ![w] = None]
    /\ answer' = [answer EXCEPT ![w] = "none"]
    /\ UNCHANGED <<rowVars, sentVars>>

Less(n) == IF n = 0 THEN 0 ELSE n - 1

\* A delivery takes less than its lease.
DeliveryTick ==
    /\ \A w \in Workers : sending[w] # None /\ status[sending[w]] = "pending" => lease[sending[w]] > 1
    /\ wait' = [d \in Deliveries |-> Less(wait[d])]
    /\ lease' = [d \in Deliveries |-> Less(lease[d])]
    /\ UNCHANGED <<status, attempts, holder, loopVars, sentVars, faults>>

DeliveryTypeOK ==
    /\ status \in [Deliveries -> {"unwritten", "pending", "delivered", "failed", "deleted"}]
    /\ attempts \in [Deliveries -> 0..MaxAttempts]
    /\ wait \in [Deliveries -> Nat]
    /\ lease \in [Deliveries -> 0..Lease]
    /\ holder \in [Deliveries -> Workers \cup {None}]
    /\ batch \in [Workers -> [Deliveries -> -1..MaxAttempts]]
    /\ sending \in [Workers -> Deliveries \cup {None}]
    /\ answer \in [Workers -> {"none", "ok", "bad"}]
    /\ posts \in [Deliveries -> Nat]
    /\ acks \in [Deliveries -> Nat]
    /\ faults \in 0..MaxFaults
=============================================================================
