----------------------------- MODULE RateLimit -----------------------------
(***************************************************************************)
(* The limiter in front of every route: the bucket of a key in             *)
(* rate_limit_buckets, counted up by one upsert per request                *)
(* (PrismaRateLimitStore.incr), and the plugin's verdict on the count.     *)
(* A request reads its clock in the hook and reaches the table later.      *)
(***************************************************************************)
EXTENDS Integers, FiniteSets

CONSTANTS
    MaxRequests, \* bound: requests of a behaviour, numbered as they arrive
    Keys,        \* bucket keys: a policy's prefix and the user or address (rate-limit-keys.ts)
    Limit,       \* key -> max of its policy
    Window,      \* timeWindow, in ticks
    LastTick     \* bound: ticks of a behaviour

ASSUME LimitAssumption ==
    /\ MaxRequests \in Nat /\ Keys # {}
    /\ Limit \in [Keys -> Nat \ {0}] /\ Window \in Nat \ {0} /\ LastTick \in Nat

Requests == 1..MaxRequests

VARIABLES clock, bucket, req

limiterVars == <<clock, bucket, req>>

LimiterInit ==
    /\ clock = 0
    /\ bucket = [k \in Keys |-> [count |-> 0, resetAt |-> 0]]
    /\ req = [r \in Requests |-> [pc |-> "new", key |-> CHOOSE k \in Keys : TRUE, now |-> 0, at |-> 0]]

\* onRequest or preHandler of the one policy the route names: the key is generated and the
\* time is read.
Arrive(r, k) ==
    /\ req[r].pc = "new" /\ \A q \in 1..(r - 1) : req[q].pc # "new"
    /\ req' = [req EXCEPT ![r] = [pc |-> "hooked", key |-> k, now |-> clock, at |-> clock]]
    /\ UNCHANGED <<clock, bucket>>

(* mutant: a window that has ended is restarted without counting the request *)
UpsertedFromZero(b, now) ==
    IF b.resetAt <= now
    THEN [count |-> 0, resetAt |-> now + Window]
    ELSE [b EXCEPT !.count = @ + 1]

\* The upsert: a window that has ended restarts at one, another counts up.
Upserted(b, now) ==
    IF b.resetAt <= now
    THEN [count |-> 1, resetAt |-> now + Window]
    ELSE [b EXCEPT !.count = @ + 1]

\* incr and the plugin's verdict: current > max is a 429.
Incr(r) ==
    LET k == req[r].key
        b == Upserted(bucket[k], req[r].now)
    IN  /\ req[r].pc = "hooked"
        /\ bucket' = [bucket EXCEPT ![k] = b]
        /\ req' = [req EXCEPT ![r].pc = IF b.count > Limit[k] THEN "refused" ELSE "admitted",
                              ![r].at = clock]
        /\ UNCHANGED clock

\* The statement fails and skipOnError lets the request through uncounted.
StoreFails(r) ==
    /\ req[r].pc = "hooked"
    /\ req' = [req EXCEPT ![r].pc = "skipped", ![r].at = clock]
    /\ UNCHANGED <<clock, bucket>>

\* No statement is in flight for a whole window.
Tick ==
    /\ clock < LastTick
    /\ \A r \in Requests : req[r].pc = "hooked" => clock + 1 - req[r].now < Window
    /\ clock' = clock + 1
    /\ UNCHANGED <<bucket, req>>

LimiterNext ==
    \/ \E r \in Requests, k \in Keys : Arrive(r, k)
    \/ \E r \in Requests : Incr(r) \/ StoreFails(r)
    \/ Tick

-----------------------------------------------------------------------------

LimiterTypeOK ==
    /\ clock \in 0..LastTick
    /\ bucket \in [Keys -> [count : 0..MaxRequests, resetAt : 0..(LastTick + Window)]]
    /\ req \in [Requests -> [pc : {"new", "hooked", "admitted", "refused", "skipped"},
                             key : Keys, now : 0..LastTick, at : 0..LastTick]]

\* The requests of key k that pc says, decided between two ticks.
Decided(k, pc, from, to) ==
    {r \in Requests : req[r].key = k /\ req[r].pc = pc /\ req[r].at \in from..to}

\* A fixed window lets a burst through at each end, and requests that read their clock before
\* the window turned may bring part of a third: no span of one window admits three limits.
BurstWithinThreeLimits ==
    \A k \in Keys, t \in 0..LastTick :
        Cardinality(Decided(k, "admitted", t, t + Window - 1)) < 3 * Limit[k]

\* A client is turned away only for traffic it really sent: within the two windows before the
\* refusal its key had its full limit admitted.  Refused requests never prolong the window.
RefusedOnlyOverLimit ==
    \A r \in Requests :
        req[r].pc = "refused" =>
            Cardinality(Decided(req[r].key, "admitted", req[r].at - 2 * Window + 1, req[r].at))
                >= Limit[req[r].key]

\* What the limiter lets through is bounded, and it turns nobody away without reason.
LimitIsFair == BurstWithinThreeLimits /\ RefusedOnlyOverLimit
=============================================================================
