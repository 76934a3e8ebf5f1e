--------------------------- MODULE UpstreamCalls ---------------------------
(***************************************************************************)
(* The calls the API and its worker make to Horizon and to the anchor:     *)
(* the deadline around an attempt (timeout.ts), the retries of a read      *)
(* (retry.ts, horizon-retry.ts), the rotation over Horizon endpoints       *)
(* (withHorizonFailover of stellar.ts), the breaker of an anchor           *)
(* (anchor-circuit.ts) and what each caller makes of the answer.  Times    *)
(* are events: a deadline fires, a backoff ends, a quarantine lapses.      *)
(***************************************************************************)
EXTENDS Integers, FiniteSets, FiniteSetsExt

CONSTANTS
    Calls,
    Servers,       \* how many HORIZON_ENDPOINTS are configured
    MaxAttempts,   \* UPSTREAM_RETRY_MAX_ATTEMPTS, HORIZON_RETRY_POLICY.maxAttempts
    Threshold,     \* failureThreshold of the breaker
    Workloads      \* bound: the kinds of call made side by side, how many of them, and
                   \* whether requests come in (RateLimit) or lists are read (LedgerFeed)

ASSUME UpstreamAssumption ==
    /\ IsFiniteSet(Calls)
    /\ Workloads \subseteq
           [kinds : SUBSET {"toml", "poll", "query", "start", "account", "submit"},
            calls : Nat, inbound : BOOLEAN, lists : BOOLEAN]
    /\ Servers \in Nat \ {0} /\ MaxAttempts \in Nat \ {0} /\ Threshold \in Nat \ {0}

Endpoints == 1..Servers

\* The reads of an anchor behind a breaker, the Horizon read of horizonService.ts,
\* and the anchor's POSTs, each one attempt.
Guarded == {"toml", "poll"}
Direct == Guarded \union {"query", "start"}
\* Calls routed over the endpoints: loadAccount and getTransaction, submitTransaction.
Rotating == {"account", "submit"}
Kinds == Direct \union Rotating

\* What one exchange comes back with: statuses 404, 4xx, 408, 429 (asking for a wait within
\* or beyond the policy's cap), 5xx and 501; no answer; a 2xx whose body is unusable.
Answers == {"ok", "absent", "refused", "late", "throttled", "throttled_long", "down",
            "unsupported", "lost", "unusable"}
Failures == {"timeout", "transport", "rate_limited", "unavailable", "rejected", "malformed"}

VARIABLES
    call,         \* call -> its kind, where it stands, its attempt and what it returned
    flights,      \* call -> the Horizon requests still out, given up by the caller or not
    active, quarantined,   \* activeServer; the endpoints with failedUntil in the future
    circuit,      \* breaker of each guarded read; of its past, the failures since any success
                  \* (streak) and those that the last success has left standing (spared)
    tomlFresh,    \* the cached stellar.toml is younger than TOML_TTL
    workload,
    sends, landed \* call -> times a write was sent, and took effect upstream

netVars == <<active, quarantined>>
effectVars == <<sends, landed>>
callsVars == <<call, flights, netVars, circuit, tomlFresh, workload, effectVars>>

\* What get() creates, and a success makes of a circuit that is not closed.
FreshCircuit ==
    [state |-> "closed", failures |-> 0, cooled |-> FALSE, streak |-> 0, spared |-> 0]

CallsInit ==
    /\ call = [c \in Calls |-> [kind |-> "query", pc |-> "idle", attempt |-> 0, result |-> "ok"]]
    /\ flights = [c \in Calls |-> {}]
    /\ active = 1 /\ quarantined = {}
    /\ circuit = [p \in Guarded |-> FreshCircuit]
    /\ tomlFresh = FALSE
    /\ workload \in Workloads
    /\ sends = [c \in Calls |-> 0] /\ landed = [c \in Calls |-> 0]

(***************************** Classification ******************************)

\* classifyUpstreamFailure; "deadline" is the TimeoutError of withTimeout.
Kind(a) ==
    CASE a \in {"deadline", "late"} -> "timeout"
      [] a = "lost" -> "transport"
      [] a \in {"throttled", "throttled_long"} -> "rate_limited"
      [] a \in {"down", "unsupported"} -> "server_error"
      [] OTHER -> "client_error"

\* decideRetry: 501 repeats identically; a throttle is waited out only by a policy that opts
\* in, and only when the wait asked for is within its cap.
DecideRetry(a, optsIn) ==
    \/ Kind(a) \in {"timeout", "transport", "server_error"} /\ a # "unsupported"
    \/ a = "throttled" /\ optsIn

\* classifyHorizonError: all but a 4xx is transient or indeterminate.
HorizonPermanent(a) == a \in {"absent", "refused"}

(* mutant: the anchor's POSTs repeated like its reads *)
WorthRetryingWrites(kind, a) ==
    IF kind = "query" THEN ~HorizonPermanent(a)
    ELSE kind # "submit" /\ a # "absent" /\ DecideRetry(a, kind = "account")

\* The policy of each kind: withRetry, with isExpected and the 429 opt-in for Horizon's reads,
\* withHorizonRetry for the queries, and none for a write.
WorthRetrying(kind, a) ==
    CASE kind \in Guarded -> DecideRetry(a, FALSE)
      [] kind = "account" -> a # "absent" /\ DecideRetry(a, TRUE)
      [] kind = "query" -> ~HorizonPermanent(a)
      [] OTHER -> FALSE

(* mutant: one attempt too many *)
RetriesOnceMore(kind, a, n) ==
    n <= MaxAttempts /\ a \notin {"ok", "unusable"} /\ WorthRetrying(kind, a)

\* Whether the attempt that ended with a is followed by another.
Retries(kind, a, n) ==
    n < MaxAttempts /\ a \notin {"ok", "unusable"} /\ WorthRetrying(kind, a)

(* mutant: a lost connection reported as the provider's refusal *)
CategoryRefuses(a) ==
    CASE a = "deadline" -> "timeout"
      [] a \in {"throttled", "throttled_long"} -> "rate_limited"
      [] a \in {"down", "unsupported"} -> "unavailable"
      [] a = "unusable" -> "malformed"
      [] OTHER -> "rejected"

\* toProviderError, httpFailureCategory and anchorErrorForStatus.
Category(a) ==
    CASE a = "deadline" -> "timeout"
      [] a = "lost" -> "transport"
      [] a \in {"throttled", "throttled_long"} -> "rate_limited"
      [] a \in {"down", "unsupported"} -> "unavailable"
      [] a = "unusable" -> "malformed"
      [] OTHER -> "rejected"

\* What the caller is told.  A 404 answers an account lookup and a Horizon query; the anchor's
\* own 408 is a timeout to a poll; toUpstreamError keeps only a throttle apart for the rest.
Result(kind, a) ==
    IF a = "ok" THEN "ok"
    ELSE IF a = "absent" /\ kind \in {"account", "query"} THEN "absent"
    ELSE IF a = "late" /\ kind = "poll" THEN "timeout"
    ELSE IF kind \in {"account", "toml"} /\ a # "unusable"
      THEN IF Kind(a) = "rate_limited" THEN "rate_limited" ELSE "unavailable"
    ELSE Category(a)

(******************************* The breaker *******************************)

\* recordFailure: opens from closed only.
RecordFailure(b) ==
    IF b.failures + 1 >= Threshold /\ b.state = "closed"
    THEN [b EXCEPT !.failures = @ + 1, !.streak = @ + 1, !.state = "open"]
    ELSE [b EXCEPT !.failures = @ + 1, !.streak = @ + 1]

\* recordSuccess: a circuit that is closed keeps its count of failures.
RecordSuccess(b) ==
    IF b.state = "closed"
    THEN [b EXCEPT !.streak = 0, !.spared = b.failures]
    ELSE FreshCircuit

\* isOpen, with its side effect: a cooled circuit turns half-open and lets the caller through.
IsOpen(b) == b.state = "open" /\ ~b.cooled
Probed(b) == IF b.state = "open" /\ b.cooled THEN [b EXCEPT !.state = "half-open"] ELSE b

\* COOLDOWN_MS have passed since the circuit opened.
Cools(p) ==
    /\ circuit[p].state = "open" /\ ~circuit[p].cooled
    /\ circuit' = [circuit EXCEPT ![p].cooled = TRUE]
    /\ UNCHANGED <<call, flights, netVars, tomlFresh, effectVars>>

(***************************** Horizon endpoints ***************************)

\* server(): the active endpoint, or the first that is not quarantined.
Server ==
    IF active \in quarantined /\ quarantined # Endpoints
    THEN Min(Endpoints \ quarantined)
    ELSE active

\* One run of withHorizonFailover begins: the endpoint noted as tried is the active one, the
\* endpoint asked is the one server() picks.
Flight(n) ==
    [attempt |-> n, index |-> active, tried |-> {active}, asked |-> {Server},
     again |-> FALSE, stale |-> active \in quarantined]

\* isRetryableHorizonError
Retryable(a) == a \in {"lost", "late", "throttled", "throttled_long", "down", "unsupported"}

\* The endpoints left to try once the one noted is quarantined.
Untried(f) == Endpoints \ (f.tried \union quarantined \union {f.index})

Rotated(f, next) ==
    [f EXCEPT !.index = next, !.tried = @ \union {next}, !.asked = @ \union {next},
              !.again = @ \/ next \in f.asked]

\* failedUntil[e] has passed.
Recovers(e) ==
    /\ e \in quarantined
    /\ quarantined' = quarantined \ {e}
    /\ UNCHANGED <<call, flights, active, circuit, tomlFresh, effectVars>>

\* TOML_TTL has passed since the cache was filled.
TomlExpires ==
    /\ tomlFresh
    /\ tomlFresh' = FALSE
    /\ UNCHANGED <<call, flights, netVars, circuit, effectVars>>

(******************************** The calls ********************************)

\* An attempt is sent.  Over the endpoints it runs beside those the caller has given up.
Send(c, kind, n) ==
    /\ call' = [call EXCEPT ![c] = [kind |-> kind, pc |-> "sent", attempt |-> n, result |-> "ok"]]
    /\ sends' = IF kind \in {"submit", "start"} THEN [sends EXCEPT ![c] = @ + 1] ELSE sends
    /\ IF kind \in Rotating
       THEN /\ flights' = [flights EXCEPT ![c] = @ \union {Flight(n)}]
            /\ active' = Server
       ELSE UNCHANGED <<flights, active>>
    /\ UNCHANGED <<quarantined, tomlFresh, landed>>

Startable(c) ==
    /\ call[c].pc = "idle"
    /\ Cardinality({d \in Calls : call[d].pc # "idle"}) < workload.calls

Return(c, kind, result) ==
    call' = [call EXCEPT ![c] = [@ EXCEPT !.kind = kind, !.pc = "done", !.result = result]]

\* getToml answered from its cache.
StartCached(c) ==
    /\ Startable(c) /\ tomlFresh
    /\ Return(c, "toml", "ok")
    /\ UNCHANGED <<flights, netVars, circuit, tomlFresh, effectVars>>

\* getToml, fetchSep24Transaction: turned away by the open circuit, or let through.
StartGuarded(c, kind) ==
    /\ Startable(c) /\ ~(kind = "toml" /\ tomlFresh)
    /\ IF IsOpen(circuit[kind])
       THEN Return(c, kind, "unavailable") /\ UNCHANGED <<flights, netVars, circuit, tomlFresh, effectVars>>
       ELSE Send(c, kind, 1) /\ circuit' = [circuit EXCEPT ![kind] = Probed(@)]

Start(c, kind) ==
    /\ Startable(c)
    /\ Send(c, kind, 1) /\ UNCHANGED circuit

(* mutant: the breaker hears of every attempt *)
ConcludeEach(c, a) ==
    LET kind == call[c].kind IN
    /\ IF Retries(kind, a, call[c].attempt)
       THEN call' = [call EXCEPT ![c].pc = "asleep"]
       ELSE Return(c, kind, Result(kind, a))
    /\ circuit' = IF kind \notin Guarded THEN circuit
                  ELSE [circuit EXCEPT ![kind] =
                           IF a = "ok" THEN RecordSuccess(@) ELSE RecordFailure(@)]
    /\ tomlFresh' = (tomlFresh \/ (kind = "toml" /\ a = "ok"))

\* The attempt in hand ended with a: another is scheduled, or the caller gets its result and
\* the breaker of a guarded read hears of it once.
Conclude(c, a) ==
    LET kind == call[c].kind IN
    IF Retries(kind, a, call[c].attempt)
    THEN /\ call' = [call EXCEPT ![c].pc = "asleep"]
         /\ UNCHANGED <<circuit, tomlFresh>>
    ELSE /\ Return(c, kind, Result(kind, a))
         /\ circuit' = IF kind \notin Guarded THEN circuit
                       ELSE [circuit EXCEPT ![kind] =
                                IF a = "ok" THEN RecordSuccess(@) ELSE RecordFailure(@)]
         /\ tomlFresh' = (tomlFresh \/ (kind = "toml" /\ a = "ok"))

\* The backoff is over.
Wake(c) ==
    /\ call[c].pc = "asleep"
    /\ Send(c, call[c].kind, call[c].attempt + 1)
    /\ UNCHANGED circuit

\* Whether a write that was answered so took effect (408: it was never received whole).  The
\* ledger takes an envelope once, and refuses or acknowledges the second copy.
Effects(c, a) ==
    CASE call[c].kind = "start" ->
            IF a \in {"ok", "unusable"} THEN {landed[c] + 1}
            ELSE IF a \in {"deadline", "lost", "down"} THEN {landed[c], landed[c] + 1}
            ELSE {landed[c]}
      [] call[c].kind = "submit" ->
            IF a = "ok" THEN {1}
            ELSE IF a \in {"lost", "down"} THEN {landed[c], 1}
            ELSE {landed[c]}
      [] OTHER -> {0}

\* A request sent past the endpoint rotation is answered, or its deadline aborts it.
AnswerDirect(c, a) ==
    /\ call[c].pc = "sent" /\ call[c].kind \in Direct
    /\ a = "unusable" => call[c].kind # "query"
    /\ Conclude(c, a)
    /\ \E n \in Effects(c, a) : landed' = [landed EXCEPT ![c] = n]
    /\ UNCHANGED <<flights, netVars, sends>>

\* One pass of the loop of withHorizonFailover.  The failure quarantines the endpoint noted at
\* the top of the pass; the attempt hears of the last answer unless its deadline came first.
AnswerRotating(c, f, a) ==
    /\ f \in flights[c]
    /\ \E n \in Effects(c, a) : landed' = [landed EXCEPT ![c] = n]
    /\ quarantined' = IF Retryable(a) THEN quarantined \union {f.index} ELSE quarantined
    /\ IF Retryable(a) /\ Untried(f) # {}
       THEN LET next == Min(Untried(f)) IN
            /\ active' = next
            /\ flights' = [flights EXCEPT ![c] = (@ \ {f}) \union {Rotated(f, next)}]
            /\ sends' = IF call[c].kind = "submit" THEN [sends EXCEPT ![c] = @ + 1] ELSE sends
            /\ UNCHANGED <<call, circuit, tomlFresh>>
       ELSE /\ flights' = [flights EXCEPT ![c] = @ \ {f}]
            /\ UNCHANGED <<active, sends>>
            /\ IF call[c].pc = "sent" /\ call[c].attempt = f.attempt
               THEN Conclude(c, a)
               ELSE UNCHANGED <<call, circuit, tomlFresh>>

\* withTimeout rejects; the SDK is not told, and its request goes on.
Deadline(c) ==
    /\ call[c].pc = "sent" /\ call[c].kind \in Rotating
    /\ Conclude(c, "deadline")
    /\ UNCHANGED <<flights, netVars, effectVars>>

Step ==
    \/ \E c \in Calls :
         \/ "toml" \in workload.kinds /\ StartCached(c)
         \/ \E kind \in workload.kinds \intersect Guarded : StartGuarded(c, kind)
         \/ \E kind \in workload.kinds \ Guarded : Start(c, kind)
         \/ Wake(c)
         \/ \E a \in Answers \union {"deadline"} : AnswerDirect(c, a)
         \/ \E f \in flights[c], a \in Answers \ {"unusable"} : AnswerRotating(c, f, a)
         \/ Deadline(c)
    \/ \E p \in Guarded : Cools(p)
    \/ \E e \in Endpoints : Recovers(e)
    \/ TomlExpires

CallsNext == Step /\ UNCHANGED workload

-----------------------------------------------------------------------------

FlightType ==
    [attempt : 1..MaxAttempts, index : Endpoints, tried : SUBSET Endpoints,
     asked : SUBSET Endpoints, again : BOOLEAN, stale : BOOLEAN]

\* A call that is out or asleep is on one of its attempts, only a call over the endpoints has
\* requests of its own in flight, and each of them belongs to an attempt made.
CallsTypeOK ==
    /\ call \in [Calls -> [kind : Kinds, pc : {"idle", "sent", "asleep", "done"},
                          attempt : 0..MaxAttempts, result : Failures \union {"ok", "absent"}]]
    /\ active \in Endpoints /\ quarantined \subseteq Endpoints
    /\ circuit \in [Guarded -> [state : {"closed", "open", "half-open"}, failures : Nat,
                                cooled : BOOLEAN, streak : Nat, spared : Nat]]
    /\ tomlFresh \in BOOLEAN /\ workload \in Workloads
    /\ sends \in [Calls -> Nat] /\ landed \in [Calls -> Nat]
    /\ flights \in [Calls -> SUBSET FlightType]
    /\ \A c \in Calls :
         /\ call[c].pc = "asleep" => call[c].attempt \in 1..(MaxAttempts - 1)
         /\ flights[c] # {} => call[c].kind \in Rotating
         /\ \A f \in flights[c] : f.attempt <= call[c].attempt

\* No write is applied twice upstream: a POST to the anchor opens one session however its
\* answer is lost (startInteractive "leaves the user with two open anchor sessions" if repeated).
WriteTakesEffectOnce == \A c \in Calls : landed[c] <= 1

\* "rejected" tells the worker the payment did not happen.  It is wrong only where the
\* rotation sent the envelope to a second endpoint after the first had applied it and lost
\* the answer (withHorizonFailover around submitTransaction).
RejectedButAppliedNeedsRotation ==
    \A c \in Calls :
        call[c].pc = "done" /\ call[c].result = "rejected" /\ landed[c] > 0 => sends[c] > 1

\* A submission answered with anything but "timeout" is over: no request of it is still out
\* that could apply the envelope later.  After a timeout the rotation may go on sending.
DefiniteAnswerIsFinal ==
    \A c \in Calls :
        call[c].kind = "submit" /\ call[c].pc = "done" /\ call[c].result # "timeout"
            => flights[c] = {}

\* withHorizonFailover: "each endpoint is tried at most once per call".  It is asked twice only
\* by a run that began while the active endpoint was quarantined, and so noted the wrong one.
AskedAgainOnlyFromQuarantine ==
    \A c \in Calls : \A f \in flights[c] : f.again => f.stale

\* The rotation neither invents a refusal, nor answers before it is done, nor wastes a second
\* request on an endpoint that has failed the call (withHorizonFailover).
FailoverIsSound ==
    RejectedButAppliedNeedsRotation /\ DefiniteAnswerIsFinal /\ AskedAgainOnlyFromQuarantine

\* The reads of p that were sent and failed.
FailedReads(p) ==
    {c \in Calls : /\ call[c].kind = p /\ call[c].pc = "done"
                   /\ call[c].attempt > 0 /\ call[c].result # "ok"}

\* The breaker counts calls, never attempts (fetchSep24Transaction): its failures are at most
\* the reads that were sent and failed, interleaved as they may be.
BreakerCountsCalls ==
    \A p \in Guarded : circuit[p].failures <= Cardinality(FailedReads(p))

\* "The circuit opens after repeated consecutive failures" (anchor-circuit.ts): after Threshold
\* of them without fail.  After fewer only where a success came between: recordSuccess leaves
\* the count of a closed circuit standing, so failures far apart add up.
OpensOnConsecutive ==
    \A p \in Guarded :
        /\ circuit[p].state = "closed" => circuit[p].streak < Threshold
        /\ circuit[p].state # "closed" /\ circuit[p].spared = 0 => circuit[p].streak >= Threshold

\* A read is turned away unsent only after Threshold reads of that anchor have failed (isOpen;
\* half-open, it lets every caller through, and recordFailure never opens it again).
TurnedAwayForCause ==
    \A c \in Calls :
        call[c].kind \in Guarded /\ call[c].pc = "done" /\ call[c].attempt = 0
            /\ call[c].result = "unavailable"
          => Cardinality(FailedReads(call[c].kind)) >= Threshold

\* The breaker shuts an anchor off for failed calls alone, and in time (recordFailure,
\* recordSuccess, isOpen), whatever late answers arrive once it has opened.
BreakerIsSound == BreakerCountsCalls /\ OpensOnConsecutive /\ TurnedAwayForCause
=============================================================================
