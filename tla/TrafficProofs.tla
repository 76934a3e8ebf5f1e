--------------------------- MODULE TrafficProofs ---------------------------
(***************************************************************************)
(* Proofs about Traffic.  Each invariant is about one of its three parts   *)
(* and holds in the other workloads because they leave that part alone.    *)
(* The calls: what each request in flight may still do.  The limiter: the  *)
(* stretch of time every count of a bucket covers.  The walk: what a page  *)
(* has read and what the cursor has passed.                                *)
(***************************************************************************)
EXTENDS Traffic, FiniteSetTheorems, WellFoundedInduction, TLAPS

(***************************************************************************)
(* The calls: what holds of each of them.                                  *)
(***************************************************************************)
Results == Failures \cup {"ok", "absent"}
CallRecord ==
    [kind : Kinds, pc : {"idle", "sent", "asleep", "done"}, attempt : 0..MaxAttempts, result : Results]
Breaker == [state : {"closed", "open", "half-open"}, failures : Nat, cooled : BOOLEAN,
            streak : Nat, spared : Nat]

CallsTyped ==
    /\ call \in [Calls -> CallRecord]
    /\ flights \in [Calls -> SUBSET FlightType]
    /\ active \in Endpoints /\ quarantined \subseteq Endpoints
    /\ circuit \in [Guarded -> Breaker]
    /\ tomlFresh \in BOOLEAN /\ workload \in Workloads
    /\ sends \in [Calls -> Nat] /\ landed \in [Calls -> Nat]

(* Nothing is out for a call not made; one that is out is on an attempt,   *)
(* and one that sleeps has another; requests in flight are of an attempt   *)
(* made, over the endpoints; a write is never repeated.                    *)
Progress(c) ==
    /\ call[c].pc = "idle" => flights[c] = {} /\ landed[c] = 0 /\ sends[c] = 0
    /\ call[c].pc = "sent" => call[c].attempt >= 1
    /\ call[c].pc = "asleep" =>
         call[c].attempt \in 1..(MaxAttempts - 1) /\ call[c].kind \notin {"start", "submit"}
    /\ flights[c] # {} => call[c].kind \in Rotating
    /\ \A f \in flights[c] : f.attempt <= call[c].attempt

(* A read has no effect; the anchor's POST has none until it is answered,  *)
(* and none when it is refused.                                            *)
PostOnce(c) ==
    /\ call[c].kind \notin {"start", "submit"} => landed[c] = 0
    /\ call[c].kind = "start" =>
         /\ landed[c] <= 1
         /\ call[c].pc = "sent" \/ call[c].result = "rejected" => landed[c] = 0

(* A submission is one attempt with one request out at a time, whose       *)
(* envelope can only have been applied before its answer by an endpoint    *)
(* that was left for another.                                              *)
SubmitOnce(c) ==
    call[c].kind = "submit" =>
        /\ landed[c] <= 1
        /\ call[c].attempt <= 1
        /\ call[c].pc # "idle" => sends[c] >= 1
        /\ \A f, g \in flights[c] : f = g
        /\ call[c].pc = "done" /\ call[c].result # "timeout" => flights[c] = {}
        /\ landed[c] > 0 /\ (call[c].pc = "sent" \/ call[c].result = "rejected") => sends[c] > 1

(* A run over the endpoints that began on one in good standing has asked   *)
(* the ones it noted, each once.                                           *)
RunNoted(f) == f.stale \/ (f.asked \subseteq f.tried /\ ~f.again)

CallInv(c) ==
    /\ Progress(c) /\ PostOnce(c) /\ SubmitOnce(c)
    /\ \A f \in flights[c] : RunNoted(f)

CallsInv == \A c \in Calls : CallInv(c)

(* A set of naturals that is not empty has a least element. *)
LEMMA LeastNatural ==
    ASSUME NEW S \in SUBSET Nat, S # {}
    PROVE \E x \in S : \A y \in S : x <= y
<1> DEFINE R == {p \in Nat \X Nat : p[1] < p[2]}
<1>1. IsWellFoundedOn(R, Nat)
  <2>1. R = OpToRel(<, Nat)
    BY DEF OpToRel
  <2> QED
    BY <2>1, NatLessThanWellFounded
<1>2. \E x \in S : \A y \in S : ~ (<<y, x>> \in R)
  <2> HIDE DEF R
  <2> QED
    BY <1>1, WFMin
<1>3. PICK x \in S : \A y \in S : ~ (<<y, x>> \in R)
    BY <1>2
<1>4. \A y \in S : x <= y
  <2> TAKE y \in S
  <2>1. ~ (y < x)
    BY <1>3
  <2> QED
    BY <2>1
<1> QED
    BY <1>4

LEMMA MinOfNaturals ==
    ASSUME NEW S \in SUBSET Nat, S # {}
    PROVE Min(S) \in S
    BY LeastNatural DEF Min

(* server() picks one of the endpoints. *)
LEMMA ServerIsEndpoint ==
    ASSUME active \in Endpoints, quarantined \subseteq Endpoints
    PROVE Server \in Endpoints /\ (active \notin quarantined => Server = active)
<1>1. ASSUME quarantined # Endpoints PROVE Min(Endpoints \ quarantined) \in Endpoints
  <2>1. Endpoints \ quarantined # {}
    BY <1>1
  <2>3. Endpoints \ quarantined \in SUBSET Nat
    BY UpstreamAssumption DEF Endpoints
  <2> QED
    BY <2>1, <2>3, MinOfNaturals
<1> QED
    BY <1>1 DEF Server

(* The next endpoint of a run is one it has not noted. *)
LEMMA NextIsUntried ==
    ASSUME NEW f, Untried(f) # {}
    PROVE Min(Untried(f)) \in Endpoints /\ Min(Untried(f)) \notin f.tried
<1>1. Untried(f) \in SUBSET Nat
    BY UpstreamAssumption DEF Untried, Endpoints
<1>2. Min(Untried(f)) \in Untried(f)
    BY <1>1, MinOfNaturals
<1> QED
    BY <1>2 DEF Untried

(* What an answer is to the caller of each kind (toUpstreamError,          *)
(* toProviderError, classifyUpstreamFailure).                              *)
LEMMA ResultsOf ==
    ASSUME NEW kind \in Kinds, NEW a \in Answers \cup {"deadline"}
    PROVE /\ Result(kind, a) \in Results
          /\ Result(kind, a) = "ok" <=> a = "ok"
          /\ kind \in {"start", "submit"} /\ Result(kind, a) = "rejected" =>
               a \in {"absent", "refused", "late"}
          /\ kind = "submit" /\ a = "deadline" => Result(kind, a) = "timeout"
<1>1. Category(a) \in Failures
    BY DEF Category, Failures
<1>2. Category(a) = "rejected" => a \notin {"deadline", "lost", "throttled", "throttled_long", "down", "unsupported", "unusable"}
    BY DEF Category
<1>3. a = "deadline" => Category(a) = "timeout"
    BY DEF Category
<1>4. \/ Result(kind, a) = Category(a) /\ a \notin {"ok"}
      \/ a = "ok" /\ Result(kind, a) = "ok"
      \/ a # "ok" /\ Result(kind, a) \in {"absent", "timeout", "rate_limited", "unavailable"}
         /\ kind \notin {"start", "submit"}
  <2>1. CASE a = "ok"
    BY <2>1 DEF Result
  <2>2. CASE a = "absent" /\ kind \in {"account", "query"}
    BY <2>2 DEF Result
  <2>3. CASE a = "late" /\ kind = "poll"
    BY <2>3 DEF Result
  <2>4. CASE a # "ok" /\ ~(a = "absent" /\ kind \in {"account", "query"}) /\ ~(a = "late" /\ kind = "poll")
    <3>1. CASE kind \in {"account", "toml"} /\ a # "unusable"
      <4>1. Result(kind, a) = IF Kind(a) = "rate_limited" THEN "rate_limited" ELSE "unavailable"
        BY <2>4, <3>1 DEF Result
      <4> QED
        BY <2>4, <3>1, <4>1
    <3>2. CASE ~(kind \in {"account", "toml"} /\ a # "unusable")
      BY <2>4, <3>2 DEF Result
    <3> QED
      BY <3>1, <3>2
  <2> QED
    BY <2>1, <2>2, <2>3, <2>4
<1>5. kind = "submit" /\ a = "deadline" => Result(kind, a) = Category(a)
    BY DEF Result
<1> QED
    BY <1>1, <1>2, <1>3, <1>4, <1>5 DEF Results, Failures, Answers

(* No write is tried again. *)
LEMMA WritesAreNotRetried ==
    ASSUME NEW kind \in Kinds, NEW a, NEW n \in Nat, Retries(kind, a, n)
    PROVE kind \notin {"start", "submit"} /\ n < MaxAttempts
    BY DEF Retries, WorthRetrying, Guarded

(* An attempt that ends puts its call to sleep, a read with an attempt     *)
(* left, or gives it its result.                                           *)
LEMMA ConcludeDoes ==
    ASSUME CallsTyped, NEW c \in Calls, NEW a \in Answers \cup {"deadline"},
           call[c].pc = "sent", Conclude(c, a)
    PROVE \E q \in CallRecord :
            /\ call' = [call EXCEPT ![c] = q]
            /\ q.kind = call[c].kind /\ q.attempt = call[c].attempt
            /\ \/ /\ q.pc = "asleep" /\ q.attempt < MaxAttempts
                  /\ q.kind \notin {"start", "submit"} /\ q.result = call[c].result
               \/ q.pc = "done" /\ q.result = Result(call[c].kind, a)
<1> DEFINE kind == call[c].kind
<1>1. call[c] \in CallRecord
    BY DEF CallsTyped
<1>2. kind \in Kinds /\ call[c].attempt \in Nat
    BY <1>1, UpstreamAssumption DEF CallRecord
<1>3. CASE Retries(kind, a, call[c].attempt)
  <2> DEFINE q == [call[c] EXCEPT !.pc = "asleep"]
  <2>1. call' = [call EXCEPT ![c] = q]
    BY <1>3 DEF Conclude
  <2>2. q \in CallRecord /\ q.kind = kind /\ q.attempt = call[c].attempt /\ q.pc = "asleep" /\ q.result = call[c].result
    BY <1>1 DEF CallRecord
  <2>3. kind \notin {"start", "submit"} /\ call[c].attempt < MaxAttempts
    BY <1>2, <1>3, WritesAreNotRetried
  <2> QED
    BY <2>1, <2>2, <2>3
<1>4. CASE ~ Retries(kind, a, call[c].attempt)
  <2> DEFINE q == [call[c] EXCEPT !.kind = kind, !.pc = "done", !.result = Result(kind, a)]
  <2>1. call' = [call EXCEPT ![c] = q]
    BY <1>4 DEF Conclude, Return
  <2>2. Result(kind, a) \in Results
    BY <1>2, ResultsOf
  <2>3. q \in CallRecord /\ q.kind = kind /\ q.attempt = call[c].attempt /\ q.pc = "done" /\ q.result = Result(kind, a)
    BY <1>1, <2>2 DEF CallRecord
  <2> QED
    BY <2>1, <2>3
<1> QED
    BY <1>3, <1>4

(* A call that a step leaves alone stays as it was. *)
LEMMA CallFrame ==
    ASSUME NEW d \in Calls, CallInv(d), call'[d] = call[d], flights'[d] = flights[d],
           sends'[d] = sends[d], landed'[d] = landed[d]
    PROVE CallInv(d)'
    BY DEF CallInv, Progress, PostOnce, SubmitOnce, RunNoted

-----------------------------------------------------------------------------
(* A run over the endpoints begins, and goes on, as RunNoted says. *)
LEMMA FlightBegins ==
    ASSUME CallsTyped, NEW n \in 1..MaxAttempts
    PROVE Flight(n) \in FlightType /\ RunNoted(Flight(n)) /\ Flight(n).attempt = n
<1>1. Server \in Endpoints /\ (active \notin quarantined => Server = active)
    BY ServerIsEndpoint DEF CallsTyped
<1>2. active \in Endpoints
    BY DEF CallsTyped
<1>3. Flight(n) \in FlightType
    BY <1>1, <1>2 DEF Flight, FlightType
<1>4. RunNoted(Flight(n)) /\ Flight(n).attempt = n
    BY <1>1 DEF Flight, RunNoted
<1> QED
    BY <1>3, <1>4

(* It moves to an endpoint it has not noted. *)
LEMMA FlightRotates ==
    ASSUME NEW f \in FlightType, RunNoted(f), Untried(f) # {}
    PROVE LET g == Rotated(f, Min(Untried(f))) IN
          g \in FlightType /\ RunNoted(g) /\ g.attempt = f.attempt
<1> DEFINE next == Min(Untried(f))
           g == Rotated(f, next)
<1>1. next \in Endpoints /\ next \notin f.tried
    BY NextIsUntried
<1> HIDE DEF next
<1>2. /\ g.attempt = f.attempt /\ g.tried = f.tried \cup {next} /\ g.asked = f.asked \cup {next}
      /\ g.index = next /\ g.stale = f.stale
    BY DEF Rotated, FlightType
<1>3. g.again = (f.again \/ next \in f.asked)
    BY DEF Rotated, FlightType
<1>4. g \in FlightType
    BY <1>1 DEF Rotated, FlightType
<1> HIDE DEF g
<1>5. RunNoted(g)
    BY <1>1, <1>2, <1>3 DEF RunNoted
<1> QED
    BY <1>2, <1>4, <1>5 DEF g, next

(* The first attempt of a call, or the next one of a read. *)
LEMMA SendKeeps ==
    ASSUME CallsTyped, CallsInv, NEW c \in Calls, NEW kind \in Kinds, NEW n \in 1..MaxAttempts,
           Send(c, kind, n),
           \/ call[c].pc = "idle" /\ n = 1
           \/ call[c].pc = "asleep" /\ kind = call[c].kind /\ n = call[c].attempt + 1
    PROVE /\ call' \in [Calls -> CallRecord] /\ flights' \in [Calls -> SUBSET FlightType]
          /\ active' \in Endpoints /\ sends' \in [Calls -> Nat] /\ CallsInv'
<1> DEFINE q == [kind |-> kind, pc |-> "sent", attempt |-> n, result |-> "ok"]
<1>1. /\ call' = [call EXCEPT ![c] = q]
      /\ sends' = IF kind \in {"submit", "start"} THEN [sends EXCEPT ![c] = sends[c] + 1] ELSE sends
      /\ flights' = IF kind \in Rotating THEN [flights EXCEPT ![c] = flights[c] \cup {Flight(n)}] ELSE flights
      /\ active' = IF kind \in Rotating THEN Server ELSE active
      /\ landed' = landed
    BY DEF Send
<1>2. q \in CallRecord /\ q.kind = kind /\ q.pc = "sent" /\ q.attempt = n /\ q.result = "ok"
    BY UpstreamAssumption DEF CallRecord, Results
<1>3. Flight(n) \in FlightType /\ RunNoted(Flight(n)) /\ Flight(n).attempt = n
    BY FlightBegins
<1>4. Server \in Endpoints
    BY ServerIsEndpoint DEF CallsTyped
<1> HIDE DEF q
<1>5. call' \in [Calls -> CallRecord] /\ call'[c] = q /\ \A d \in Calls : d # c => call'[d] = call[d]
    BY <1>1, <1>2 DEF CallsTyped
<1>6. /\ flights' \in [Calls -> SUBSET FlightType]
      /\ flights'[c] = IF kind \in Rotating THEN flights[c] \cup {Flight(n)} ELSE flights[c]
      /\ \A d \in Calls : d # c => flights'[d] = flights[d]
    BY <1>1, <1>3 DEF CallsTyped
<1>7. /\ sends' \in [Calls -> Nat]
      /\ sends'[c] = IF kind \in {"submit", "start"} THEN sends[c] + 1 ELSE sends[c]
      /\ \A d \in Calls : d # c => sends'[d] = sends[d]
    BY <1>1 DEF CallsTyped
<1>8. active' \in Endpoints
    BY <1>1, <1>4 DEF CallsTyped
<1>9. CallInv(c)
    BY DEF CallsInv
<1>10. sends[c] \in Nat /\ landed[c] \in Nat
    BY DEF CallsTyped
<1>11. Progress(c)'
  <2>1. call[c].attempt \in Nat /\ \A f \in flights[c] : f.attempt \in Nat
    BY UpstreamAssumption DEF CallsTyped, CallRecord, FlightType
  <2>2. flights[c] # {} => kind = call[c].kind /\ kind \in Rotating
    BY <1>9 DEF CallInv, Progress
  <2>3. \A f \in flights[c] : f.attempt <= n
    BY <1>9, <2>1 DEF CallInv, Progress
  <2>4. flights'[c] # {} => kind \in Rotating
    BY <1>6, <2>2
  <2>5. \A f \in flights'[c] : f.attempt <= n
    BY <1>3, <1>6, <2>3
  <2> QED
    BY <1>2, <1>5, <2>4, <2>5 DEF Progress
<1>12. PostOnce(c)'
    BY <1>1, <1>2, <1>5, <1>9 DEF CallInv, Progress, PostOnce, Kinds
<1>13. SubmitOnce(c)'
    BY <1>1, <1>2, <1>5, <1>6, <1>7, <1>9, <1>10 DEF CallInv, Progress, SubmitOnce, Rotating
<1>14. \A f \in flights'[c] : RunNoted(f)'
    BY <1>3, <1>6, <1>9 DEF CallInv, RunNoted
<1>15. CallsInv'
  <2> SUFFICES ASSUME NEW d \in Calls PROVE CallInv(d)'
    BY DEF CallsInv
  <2>1. CASE d = c
    BY <2>1, <1>11, <1>12, <1>13, <1>14 DEF CallInv
  <2>2. CASE d # c
    <3>1. CallInv(d) /\ landed'[d] = landed[d]
      BY <1>1 DEF CallsInv
    <3> QED
      BY <2>2, <3>1, <1>5, <1>6, <1>7, CallFrame
  <2> QED
    BY <2>1, <2>2
<1> QED
    BY <1>5, <1>6, <1>7, <1>8, <1>15

(* What an answer may have done upstream. *)
LEMMA EffectsOf ==
    ASSUME NEW c \in Calls, NEW a, NEW m \in Effects(c, a), landed[c] \in Nat
    PROVE /\ m \in Nat
          /\ call[c].kind \notin {"start", "submit"} => m = 0
          /\ call[c].kind = "start" /\ landed[c] = 0 => m <= 1
          /\ call[c].kind = "submit" /\ landed[c] <= 1 => m <= 1
          /\ a \in {"absent", "refused", "late"} /\ call[c].kind \in {"start", "submit"} => m = landed[c]
<1>1. CASE call[c].kind = "start"
    BY <1>1 DEF Effects
<1>2. CASE call[c].kind = "submit"
    BY <1>2 DEF Effects
<1>3. CASE call[c].kind \notin {"start", "submit"}
    BY <1>3 DEF Effects
<1> QED
    BY <1>1, <1>2, <1>3

(* The calls but one are left alone. *)
LEMMA OthersKeep ==
    ASSUME CallsInv, NEW c \in Calls, CallInv(c)',
           \A d \in Calls : d # c => /\ call'[d] = call[d] /\ flights'[d] = flights[d]
                                     /\ sends'[d] = sends[d] /\ landed'[d] = landed[d]
    PROVE CallsInv'
<1> SUFFICES ASSUME NEW d \in Calls, d # c PROVE CallInv(d)'
    BY DEF CallsInv
<1>1. CallInv(d)
    BY DEF CallsInv
<1> QED
    BY <1>1, CallFrame

(* getToml from its cache, or a read that the circuit turns away. *)
LEMMA ReturnKeeps ==
    ASSUME CallsTyped, CallsInv, NEW c \in Calls, NEW kind \in Guarded, NEW result \in Results,
           call[c].pc = "idle", Return(c, kind, result), UNCHANGED <<flights, sends, landed>>
    PROVE call' \in [Calls -> CallRecord] /\ CallsInv'
<1> DEFINE q == [call[c] EXCEPT !.kind = kind, !.pc = "done", !.result = result]
<1>1. call' = [call EXCEPT ![c] = q]
    BY DEF Return
<1>2. q \in CallRecord /\ q.kind = kind /\ q.pc = "done" /\ q.attempt = call[c].attempt
    BY DEF CallsTyped, CallRecord, Kinds, Direct
<1> HIDE DEF q
<1>3. call' \in [Calls -> CallRecord] /\ call'[c] = q /\ \A d \in Calls : d # c => call'[d] = call[d]
    BY <1>1, <1>2 DEF CallsTyped
<1>4. flights[c] = {} /\ landed[c] = 0
    BY DEF CallsInv, CallInv, Progress
<1>5. kind \notin {"start", "submit"}
    BY DEF Guarded
<1>6. CallInv(c)'
    BY <1>2, <1>3, <1>4, <1>5 DEF CallInv, Progress, PostOnce, SubmitOnce
<1> QED
    BY <1>3, <1>6, OthersKeep

(* An answer past the endpoints, or the deadline of a POST or a query. *)
LEMMA AnswerDirectKeeps ==
    ASSUME CallsTyped, CallsInv, NEW c \in Calls, NEW a \in Answers \cup {"deadline"},
           AnswerDirect(c, a)
    PROVE call' \in [Calls -> CallRecord] /\ landed' \in [Calls -> Nat] /\ CallsInv'
<1>1. call[c].pc = "sent" /\ call[c].kind \in Direct /\ Conclude(c, a) /\ UNCHANGED <<flights, sends>>
    BY DEF AnswerDirect
<1>2. PICK q \in CallRecord :
            /\ call' = [call EXCEPT ![c] = q]
            /\ q.kind = call[c].kind /\ q.attempt = call[c].attempt
            /\ \/ /\ q.pc = "asleep" /\ q.attempt < MaxAttempts
                  /\ q.kind \notin {"start", "submit"} /\ q.result = call[c].result
               \/ q.pc = "done" /\ q.result = Result(call[c].kind, a)
    BY <1>1, ConcludeDoes
<1>3. PICK m \in Effects(c, a) : landed' = [landed EXCEPT ![c] = m]
    BY DEF AnswerDirect
<1>4. landed[c] \in Nat /\ call[c] \in CallRecord
    BY DEF CallsTyped
<1>5. /\ m \in Nat
      /\ call[c].kind \notin {"start", "submit"} => m = 0
      /\ call[c].kind = "start" /\ landed[c] = 0 => m <= 1
      /\ a \in {"absent", "refused", "late"} /\ call[c].kind \in {"start", "submit"} => m = landed[c]
    BY <1>4, EffectsOf
<1>6. call' \in [Calls -> CallRecord] /\ call'[c] = q /\ \A d \in Calls : d # c => call'[d] = call[d]
    BY <1>2 DEF CallsTyped
<1>7. landed' \in [Calls -> Nat] /\ landed'[c] = m /\ \A d \in Calls : d # c => landed'[d] = landed[d]
    BY <1>3, <1>5 DEF CallsTyped
<1>8. CallInv(c)
    BY DEF CallsInv
<1>9. call[c].kind # "submit" /\ flights[c] = {}
    BY <1>1, <1>8 DEF CallInv, Progress, Direct, Guarded, Rotating
<1>10. call[c].kind = "start" => landed[c] = 0
    BY <1>1, <1>8 DEF CallInv, PostOnce
<1>11. call[c].attempt \in Nat /\ call[c].attempt >= 1
    BY <1>1, <1>4, <1>8, UpstreamAssumption DEF CallInv, Progress, CallRecord
<1>12. Progress(c)'
    BY <1>1, <1>2, <1>6, <1>9, <1>11, UpstreamAssumption DEF Progress
<1>13. PostOnce(c)'
  <2>1. call[c].kind = "start" /\ q.result = "rejected" => a \in {"absent", "refused", "late"}
    BY <1>2, <1>4, ResultsOf DEF CallRecord
  <2> QED
    BY <1>2, <1>5, <1>6, <1>7, <1>10, <2>1 DEF PostOnce
<1>14. CallInv(c)'
    BY <1>1, <1>2, <1>6, <1>9, <1>12, <1>13 DEF CallInv, SubmitOnce
<1> QED
    BY <1>1, <1>6, <1>7, <1>14, OthersKeep

(* The deadline of a call over the endpoints: its requests go on. *)
LEMMA DeadlineKeeps ==
    ASSUME CallsTyped, CallsInv, NEW c \in Calls, Deadline(c)
    PROVE call' \in [Calls -> CallRecord] /\ CallsInv'
<1>1. /\ call[c].pc = "sent" /\ call[c].kind \in Rotating /\ Conclude(c, "deadline")
      /\ UNCHANGED <<flights, sends, landed>>
    BY DEF Deadline, effectVars
<1>2. PICK q \in CallRecord :
            /\ call' = [call EXCEPT ![c] = q]
            /\ q.kind = call[c].kind /\ q.attempt = call[c].attempt
            /\ \/ /\ q.pc = "asleep" /\ q.attempt < MaxAttempts
                  /\ q.kind \notin {"start", "submit"} /\ q.result = call[c].result
               \/ q.pc = "done" /\ q.result = Result(call[c].kind, "deadline")
    BY <1>1, ConcludeDoes
<1>4. landed[c] \in Nat /\ call[c] \in CallRecord /\ sends[c] \in Nat
    BY DEF CallsTyped
<1>6. call' \in [Calls -> CallRecord] /\ call'[c] = q /\ \A d \in Calls : d # c => call'[d] = call[d]
    BY <1>2 DEF CallsTyped
<1>8. CallInv(c)
    BY DEF CallsInv
<1>11. call[c].attempt \in Nat /\ call[c].attempt >= 1
    BY <1>1, <1>4, <1>8, UpstreamAssumption DEF CallInv, Progress, CallRecord
<1>12. Progress(c)'
    BY <1>1, <1>2, <1>6, <1>8, <1>11, UpstreamAssumption DEF CallInv, Progress
<1>13. PostOnce(c)'
    BY <1>1, <1>2, <1>6, <1>8 DEF CallInv, PostOnce, Rotating
<1>14. SubmitOnce(c)'
  <2>1. call[c].kind = "submit" => q.pc = "done" /\ q.result = "timeout"
    BY <1>2, <1>4, ResultsOf DEF CallRecord
  <2> QED
    BY <1>1, <1>2, <1>6, <1>8, <2>1 DEF CallInv, SubmitOnce
<1>15. CallInv(c)'
    BY <1>1, <1>8, <1>12, <1>13, <1>14 DEF CallInv, RunNoted
<1> QED
    BY <1>1, <1>6, <1>15, OthersKeep

(* An endpoint fails and the run moves on to the next one. *)
LEMMA RotationKeeps ==
    ASSUME CallsTyped, CallsInv, NEW c \in Calls, NEW f \in flights[c], NEW a \in Answers,
           NEW m \in Effects(c, a), landed' = [landed EXCEPT ![c] = m], Untried(f) # {},
           flights' = [flights EXCEPT ![c] = (flights[c] \ {f}) \cup {Rotated(f, Min(Untried(f)))}],
           sends' = IF call[c].kind = "submit" THEN [sends EXCEPT ![c] = sends[c] + 1] ELSE sends,
           call' = call
    PROVE /\ landed' \in [Calls -> Nat] /\ sends' \in [Calls -> Nat]
          /\ flights' \in [Calls -> SUBSET FlightType] /\ CallsInv'
<1> DEFINE g == Rotated(f, Min(Untried(f)))
<1>1. CallInv(c) /\ RunNoted(f)
    BY DEF CallsInv, CallInv
<1>2. f \in FlightType /\ landed[c] \in Nat /\ sends[c] \in Nat
    BY DEF CallsTyped
<1>3. g \in FlightType /\ RunNoted(g) /\ g.attempt = f.attempt
    BY <1>1, <1>2, FlightRotates
<1>4. /\ m \in Nat
      /\ call[c].kind \notin {"start", "submit"} => m = 0
      /\ call[c].kind = "submit" /\ landed[c] <= 1 => m <= 1
    BY <1>2, EffectsOf
<1> HIDE DEF g
<1>5. landed' \in [Calls -> Nat] /\ landed'[c] = m /\ \A d \in Calls : d # c => landed'[d] = landed[d]
    BY <1>4 DEF CallsTyped
<1>6. /\ flights' \in [Calls -> SUBSET FlightType]
      /\ flights'[c] = (flights[c] \ {f}) \cup {g}
      /\ \A d \in Calls : d # c => flights'[d] = flights[d]
    BY <1>3 DEF CallsTyped, g
<1>7. /\ sends' \in [Calls -> Nat]
      /\ sends'[c] = IF call[c].kind = "submit" THEN sends[c] + 1 ELSE sends[c]
      /\ \A d \in Calls : d # c => sends'[d] = sends[d]
    BY DEF CallsTyped
<1>8. call[c].kind \in Rotating /\ call[c].pc # "idle"
    BY <1>1 DEF CallInv, Progress
<1>9. Progress(c)'
    BY <1>1, <1>3, <1>6, <1>8 DEF CallInv, Progress
<1>10. PostOnce(c)'
    BY <1>4, <1>5, <1>8 DEF PostOnce, Rotating
<1>11. SubmitOnce(c)'
  <2> SUFFICES ASSUME call[c].kind = "submit" PROVE SubmitOnce(c)'
    BY DEF SubmitOnce
  <2>1. sends[c] >= 1 /\ landed[c] <= 1 /\ call[c].attempt <= 1
    BY <1>1, <1>8 DEF CallInv, SubmitOnce
  <2>2. flights'[c] = {g}
    BY <1>1, <1>6 DEF CallInv, SubmitOnce
  <2>3. ~ (call[c].pc = "done" /\ call[c].result # "timeout")
    BY <1>1 DEF CallInv, SubmitOnce
  <2>4. sends'[c] > 1 /\ landed'[c] <= 1 /\ sends'[c] >= 1
    BY <1>2, <1>4, <1>5, <1>7, <2>1
  <2> QED
    BY <2>1, <2>2, <2>3, <2>4 DEF SubmitOnce
<1>12. CallInv(c)'
    BY <1>1, <1>3, <1>6, <1>9, <1>10, <1>11 DEF CallInv, RunNoted
<1> QED
    BY <1>5, <1>6, <1>7, <1>12, OthersKeep

(* A run ends: its attempt hears of it, or has been given up. *)
LEMMA RunEndKeeps ==
    ASSUME CallsTyped, CallsInv, NEW c \in Calls, NEW f \in flights[c], NEW a \in Answers,
           NEW m \in Effects(c, a), landed' = [landed EXCEPT ![c] = m],
           flights' = [flights EXCEPT ![c] = flights[c] \ {f}], sends' = sends,
           IF call[c].pc = "sent" /\ call[c].attempt = f.attempt THEN Conclude(c, a) ELSE call' = call
    PROVE /\ call' \in [Calls -> CallRecord] /\ landed' \in [Calls -> Nat]
          /\ flights' \in [Calls -> SUBSET FlightType] /\ CallsInv'
<1>1. CallInv(c)
    BY DEF CallsInv
<1>2. f \in FlightType /\ landed[c] \in Nat /\ sends[c] \in Nat /\ call[c] \in CallRecord
    BY DEF CallsTyped
<1>3. f.attempt \in Nat /\ f.attempt >= 1 /\ call[c].attempt \in Nat
    BY <1>2, UpstreamAssumption DEF FlightType, CallRecord
<1>4. /\ m \in Nat
      /\ call[c].kind \notin {"start", "submit"} => m = 0
      /\ call[c].kind = "submit" /\ landed[c] <= 1 => m <= 1
      /\ a \in {"absent", "refused", "late"} /\ call[c].kind \in {"start", "submit"} => m = landed[c]
    BY <1>2, EffectsOf
<1>5. landed' \in [Calls -> Nat] /\ landed'[c] = m /\ \A d \in Calls : d # c => landed'[d] = landed[d]
    BY <1>4 DEF CallsTyped
<1>6. /\ flights' \in [Calls -> SUBSET FlightType]
      /\ flights'[c] = flights[c] \ {f}
      /\ \A d \in Calls : d # c => flights'[d] = flights[d]
    BY DEF CallsTyped
<1>7. call[c].kind \in Rotating /\ call[c].pc # "idle"
    BY <1>1 DEF CallInv, Progress
<1>8. call[c].kind = "submit" =>
        /\ flights'[c] = {} /\ call[c].attempt <= 1 /\ f.attempt <= call[c].attempt
        /\ sends[c] >= 1 /\ landed[c] <= 1 /\ call[c].pc # "asleep"
        /\ call[c].pc = "done" => call[c].result = "timeout"
        /\ landed[c] > 0 /\ call[c].pc = "sent" => sends[c] > 1
    BY <1>1, <1>6, <1>7 DEF CallInv, SubmitOnce, Progress
<1>9. CASE call[c].pc = "sent" /\ call[c].attempt = f.attempt
  <2>1. PICK q \in CallRecord :
            /\ call' = [call EXCEPT ![c] = q]
            /\ q.kind = call[c].kind /\ q.attempt = call[c].attempt
            /\ \/ /\ q.pc = "asleep" /\ q.attempt < MaxAttempts
                  /\ q.kind \notin {"start", "submit"} /\ q.result = call[c].result
               \/ q.pc = "done" /\ q.result = Result(call[c].kind, a)
    BY <1>9, ConcludeDoes
  <2>2. call' \in [Calls -> CallRecord] /\ call'[c] = q /\ \A d \in Calls : d # c => call'[d] = call[d]
    BY <2>1 DEF CallsTyped
  <2>3. Progress(c)'
    BY <1>1, <1>3, <1>6, <1>7, <1>9, <2>1, <2>2, UpstreamAssumption DEF CallInv, Progress
  <2>4. PostOnce(c)'
    BY <1>4, <1>5, <1>7, <2>1, <2>2 DEF PostOnce, Rotating
  <2>5. SubmitOnce(c)'
    <3> SUFFICES ASSUME call[c].kind = "submit" PROVE SubmitOnce(c)'
      BY <2>1, <2>2 DEF SubmitOnce
    <3>1. q.pc = "done" /\ q.result = Result("submit", a)
      BY <2>1
    <3>2. q.result = "rejected" => m = landed[c]
      BY <1>4, <3>1, ResultsOf DEF Kinds, Rotating
    <3> QED
      BY <1>2, <1>4, <1>5, <1>8, <1>9, <2>1, <2>2, <3>1, <3>2 DEF SubmitOnce
  <2>6. CallInv(c)'
    BY <1>1, <1>6, <2>3, <2>4, <2>5 DEF CallInv, RunNoted
  <2> QED
    BY <1>5, <1>6, <2>2, <2>6, OthersKeep
<1>10. CASE ~ (call[c].pc = "sent" /\ call[c].attempt = f.attempt)
  <2>1. call' = call
    BY <1>10
  <2>2. Progress(c)'
    BY <1>1, <1>6, <1>7, <2>1 DEF CallInv, Progress
  <2>3. PostOnce(c)'
    BY <1>4, <1>5, <1>7, <2>1 DEF PostOnce, Rotating
  <2>4. SubmitOnce(c)'
    <3> SUFFICES ASSUME call[c].kind = "submit" PROVE SubmitOnce(c)'
      BY <2>1 DEF SubmitOnce
    <3>1. call[c].pc = "done" /\ call[c].result = "timeout"
      <4>1. call[c].pc # "sent"
        BY <1>3, <1>8, <1>10
      <4> QED
        BY <1>2, <1>7, <1>8, <4>1 DEF CallRecord
    <3> QED
      BY <1>2, <1>4, <1>5, <1>8, <2>1, <3>1 DEF SubmitOnce
  <2>5. CallInv(c)'
    BY <1>1, <1>6, <2>2, <2>3, <2>4 DEF CallInv, RunNoted
  <2>6. call' \in [Calls -> CallRecord] /\ \A d \in Calls : call'[d] = call[d]
    BY <2>1 DEF CallsTyped
  <2> QED
    BY <1>5, <1>6, <2>5, <2>6, OthersKeep
<1> QED
    BY <1>9, <1>10

-----------------------------------------------------------------------------
(***************************************************************************)
(* The breakers.                                                           *)
(***************************************************************************)
LEMMA FailedAreFinite ==
    \A p \in Guarded : IsFiniteSet(FailedReads(p)) /\ Cardinality(FailedReads(p)) \in Nat
    BY UpstreamAssumption, FS_Subset, FS_CardinalityType DEF FailedReads

(* A call that ends is added to them, if it failed; none is taken out. *)
LEMMA FailedGrow ==
    ASSUME CallsTyped, NEW c \in Calls, NEW q \in CallRecord, call[c].pc # "done",
           call' = [call EXCEPT ![c] = q], NEW p \in Guarded
    PROVE Cardinality(FailedReads(p)') = Cardinality(FailedReads(p)) +
            IF q.kind = p /\ q.pc = "done" /\ q.attempt > 0 /\ q.result # "ok" THEN 1 ELSE 0
<1> DEFINE Fails == q.kind = p /\ q.pc = "done" /\ q.attempt > 0 /\ q.result # "ok"
<1>1. c \notin FailedReads(p)
    BY DEF FailedReads
<1>2. FailedReads(p)' = IF Fails THEN FailedReads(p) \cup {c} ELSE FailedReads(p)
    BY DEF FailedReads, CallsTyped
<1>3. IsFiniteSet(FailedReads(p)) /\ Cardinality(FailedReads(p)) \in Nat
    BY FailedAreFinite
<1> HIDE DEF Fails
<1>4. CASE Fails
    BY <1>1, <1>2, <1>3, <1>4, FS_AddElement DEF Fails
<1>5. CASE ~ Fails
    BY <1>2, <1>3, <1>5 DEF Fails
<1> QED
    BY <1>4, <1>5

(* The breaker of p: its state follows from its count, which is made up of *)
(* the current run of failures and of those an ignored success left, and   *)
(* never exceeds the reads that failed.                                    *)
Sound(p) ==
    /\ circuit[p].failures <= Cardinality(FailedReads(p))
    /\ circuit[p].state = "closed" <=> circuit[p].failures < Threshold
    /\ circuit[p].failures = circuit[p].streak + circuit[p].spared

(* A read of p that the circuit turned away, and why. *)
TurnedAway(c, p) ==
    call[c].kind = p /\ call[c].pc = "done" /\ call[c].attempt = 0 /\ call[c].result = "unavailable"
ForCause(p) == \A c \in Calls : TurnedAway(c, p) => Cardinality(FailedReads(p)) >= Threshold

BreakersInv == \A p \in Guarded : Sound(p) /\ ForCause(p)

LEMMA BreakersAreSound ==
    ASSUME CallsTyped, BreakersInv
    PROVE BreakerIsSound
<1>1. BreakerCountsCalls
    BY DEF BreakersInv, Sound, BreakerCountsCalls
<1>2. OpensOnConsecutive
  <2> SUFFICES ASSUME NEW p \in Guarded
               PROVE /\ circuit[p].state = "closed" => circuit[p].streak < Threshold
                     /\ circuit[p].state # "closed" /\ circuit[p].spared = 0 => circuit[p].streak >= Threshold
    BY DEF OpensOnConsecutive
  <2>1. Sound(p) /\ circuit[p].streak \in Nat /\ circuit[p].spared \in Nat
    BY DEF BreakersInv, CallsTyped, Breaker
  <2> QED
    BY <2>1, UpstreamAssumption DEF Sound
<1>3. TurnedAwayForCause
    BY DEF BreakersInv, ForCause, TurnedAway, TurnedAwayForCause
<1> QED
    BY <1>1, <1>2, <1>3 DEF BreakerIsSound

(* What a breaker has counted, and the side of closed it is on.            *)
SameCounts(p) ==
    /\ circuit'[p].failures = circuit[p].failures
    /\ circuit'[p].streak = circuit[p].streak
    /\ circuit'[p].spared = circuit[p].spared
    /\ circuit'[p].state = "closed" <=> circuit[p].state = "closed"

(* A breaker whose counts and state stand stays sound. *)
LEMMA SoundFrame ==
    ASSUME NEW p \in Guarded, Sound(p), circuit[p] \in Breaker, SameCounts(p),
           Cardinality(FailedReads(p)') \in Nat,
           Cardinality(FailedReads(p)') >= Cardinality(FailedReads(p))
    PROVE Sound(p)'
<1>1. circuit[p].failures \in Nat /\ Cardinality(FailedReads(p)) \in Nat
    BY FailedAreFinite DEF Breaker
<1>2. circuit'[p].failures <= Cardinality(FailedReads(p)')
    BY <1>1 DEF Sound, SameCounts
<1>3. circuit'[p].state = "closed" <=> circuit'[p].failures < Threshold
    BY DEF Sound, SameCounts
<1>4. circuit'[p].failures = circuit'[p].streak + circuit'[p].spared
    BY DEF Sound, SameCounts
<1> QED
    BY <1>2, <1>3, <1>4 DEF Sound

(* The calls turned away before stay so, for the failures of that time;    *)
(* one that joins them has to show its cause.                              *)
LEMMA CauseStays ==
    ASSUME CallsTyped, BreakersInv, NEW c \in Calls, NEW q \in CallRecord, call[c].pc # "done",
           call' = [call EXCEPT ![c] = q], NEW p \in Guarded,
           q.kind = p /\ q.pc = "done" /\ q.attempt = 0 /\ q.result = "unavailable"
             => Cardinality(FailedReads(p)) >= Threshold
    PROVE ForCause(p)'
<1> SUFFICES ASSUME NEW d \in Calls, TurnedAway(d, p)'
             PROVE Cardinality(FailedReads(p)') >= Threshold
    BY DEF ForCause
<1>1. Cardinality(FailedReads(p)) >= Threshold
  <2>1. CASE d = c
    BY <2>1 DEF TurnedAway, CallsTyped
  <2>2. CASE d # c
    BY <2>2 DEF TurnedAway, CallsTyped, BreakersInv, ForCause
  <2> QED
    BY <2>1, <2>2
<1>2. Cardinality(FailedReads(p)') = Cardinality(FailedReads(p)) +
            IF q.kind = p /\ q.pc = "done" /\ q.attempt > 0 /\ q.result # "ok" THEN 1 ELSE 0
    BY FailedGrow
<1>3. Cardinality(FailedReads(p)) \in Nat
    BY FailedAreFinite
<1> QED
    BY <1>1, <1>2, <1>3, UpstreamAssumption

(* A step that moves a call that is not done, or none, and no breaker.     *)
LEMMA QuietBreakers ==
    ASSUME CallsTyped, BreakersInv,
           \/ call' = call
           \/ \E c \in Calls, q \in CallRecord :
                 /\ call[c].pc # "done" /\ call' = [call EXCEPT ![c] = q]
                 /\ q.kind \in Guarded /\ q.pc = "done" /\ q.attempt = 0 /\ q.result = "unavailable"
                      => Cardinality(FailedReads(q.kind)) >= Threshold,
           \A p \in Guarded : SameCounts(p)
    PROVE BreakersInv'
<1> SUFFICES ASSUME NEW p \in Guarded PROVE Sound(p)' /\ ForCause(p)'
    BY DEF BreakersInv
<1>1. Sound(p) /\ ForCause(p) /\ circuit[p] \in Breaker /\ SameCounts(p)
    BY DEF BreakersInv, CallsTyped
<1>2. Cardinality(FailedReads(p)) \in Nat
    BY FailedAreFinite
<1>3. CASE call' = call
  <2>1. FailedReads(p)' = FailedReads(p)
    BY <1>3 DEF FailedReads
  <2>2. Cardinality(FailedReads(p)') \in Nat /\ Cardinality(FailedReads(p)') >= Cardinality(FailedReads(p))
    BY <1>2, <2>1
  <2>3. ForCause(p)'
    BY <1>1, <1>3, <2>1 DEF ForCause, TurnedAway
  <2> QED
    BY <1>1, <2>2, <2>3, SoundFrame
<1>4. ASSUME NEW c \in Calls, NEW q \in CallRecord,
             call[c].pc # "done", call' = [call EXCEPT ![c] = q],
             q.kind \in Guarded /\ q.pc = "done" /\ q.attempt = 0 /\ q.result = "unavailable"
               => Cardinality(FailedReads(q.kind)) >= Threshold
      PROVE Sound(p)' /\ ForCause(p)'
  <2>1. Cardinality(FailedReads(p)') = Cardinality(FailedReads(p)) +
            IF q.kind = p /\ q.pc = "done" /\ q.attempt > 0 /\ q.result # "ok" THEN 1 ELSE 0
    BY <1>4, FailedGrow
  <2>2. Cardinality(FailedReads(p)') \in Nat /\ Cardinality(FailedReads(p)') >= Cardinality(FailedReads(p))
    BY <1>2, <2>1
  <2>3. ForCause(p)'
    <3>1. q.kind = p /\ q.pc = "done" /\ q.attempt = 0 /\ q.result = "unavailable"
             => Cardinality(FailedReads(p)) >= Threshold
      BY <1>4
    <3> QED
      BY <1>4, <3>1, CauseStays
  <2> QED
    BY <1>1, <2>2, <2>3, SoundFrame
<1> QED
    BY <1>3, <1>4

(* A call that ends is one failure or one success to the breaker of its    *)
(* kind (recordFailure, recordSuccess), however many attempts it made.     *)
LEMMA ConcludeIsSound ==
    ASSUME CallsTyped, CallsInv, BreakersInv, NEW c \in Calls,
           NEW a \in Answers \cup {"deadline"}, call[c].pc = "sent", Conclude(c, a)
    PROVE circuit' \in [Guarded -> Breaker] /\ tomlFresh' \in BOOLEAN /\ BreakersInv'
<1> DEFINE kind == call[c].kind
<1>1. PICK q \in CallRecord :
            /\ call' = [call EXCEPT ![c] = q]
            /\ q.kind = call[c].kind /\ q.attempt = call[c].attempt
            /\ \/ /\ q.pc = "asleep" /\ q.attempt < MaxAttempts
                  /\ q.kind \notin {"start", "submit"} /\ q.result = call[c].result
               \/ q.pc = "done" /\ q.result = Result(call[c].kind, a)
    BY ConcludeDoes
<1>2. kind \in Kinds /\ call[c].attempt \in Nat /\ call[c].attempt >= 1
    BY UpstreamAssumption DEF CallsTyped, CallRecord, CallsInv, CallInv, Progress
<1>3. /\ call[c].pc # "done" /\ q.attempt # 0
      /\ q.kind \in Guarded /\ q.pc = "done" /\ q.attempt = 0 /\ q.result = "unavailable"
           => Cardinality(FailedReads(q.kind)) >= Threshold
    BY <1>1, <1>2
<1>4. CASE circuit' = circuit /\ tomlFresh' \in BOOLEAN
  <2>1. \A p \in Guarded : SameCounts(p)
    BY <1>4 DEF SameCounts
  <2> QED
    BY <1>1, <1>3, <1>4, <2>1, QuietBreakers DEF CallsTyped
<1>5. CASE circuit' # circuit
  <2>1. /\ kind \in Guarded /\ tomlFresh' \in BOOLEAN
        /\ circuit' = [circuit EXCEPT ![kind] =
                          IF a = "ok" THEN RecordSuccess(circuit[kind]) ELSE RecordFailure(circuit[kind])]
        /\ call'[c].pc = "done"
    <3>1. ~ Retries(kind, a, call[c].attempt)
      BY <1>5 DEF Conclude
    <3>2. /\ circuit' = IF kind \notin Guarded THEN circuit
                        ELSE [circuit EXCEPT ![kind] =
                                 IF a = "ok" THEN RecordSuccess(circuit[kind]) ELSE RecordFailure(circuit[kind])]
          /\ tomlFresh' = (tomlFresh \/ (kind = "toml" /\ a = "ok"))
          /\ Return(c, kind, Result(kind, a))
      BY <3>1 DEF Conclude
    <3>3. call'[c].pc = "done"
      BY <3>2 DEF Return, CallsTyped, CallRecord
    <3>4. tomlFresh' \in BOOLEAN
      BY <3>2
    <3> QED
      BY <1>5, <3>2, <3>3, <3>4
  <2>2. q.pc = "done" /\ q.result = Result(kind, a)
    BY <1>1, <2>1 DEF CallsTyped
  <2>3. q.result = "ok" <=> a = "ok"
    BY <1>2, <2>2, ResultsOf
  <2> DEFINE b == circuit[kind]
  <2>4. b \in Breaker /\ b.failures \in Nat /\ b.streak \in Nat /\ b.spared \in Nat
    BY <2>1 DEF CallsTyped, Breaker
  <2>5. /\ RecordFailure(b) \in Breaker /\ RecordFailure(b).failures = b.failures + 1
        /\ RecordFailure(b).streak = b.streak + 1 /\ RecordFailure(b).spared = b.spared
        /\ RecordFailure(b).state = "closed" <=> b.state = "closed" /\ b.failures + 1 < Threshold
    <3>0. PICK m \in Nat, n \in Nat : m = b.failures + 1 /\ n = b.streak + 1
      <4> HIDE DEF b
      <4>1. b.failures + 1 \in Nat
        BY <2>4
      <4>2. b.streak + 1 \in Nat
        BY <2>4
      <4> QED
        BY <4>1, <4>2, Zenon
    <3>1. CASE b.failures + 1 >= Threshold /\ b.state = "closed"
      <4>1. RecordFailure(b) = [b EXCEPT !.failures = m, !.streak = n, !.state = "open"]
        BY <3>0, <3>1 DEF RecordFailure
      <4>2. RecordFailure(b) \in Breaker
        BY <2>4, <4>1 DEF Breaker
      <4>3. /\ RecordFailure(b).failures = m /\ RecordFailure(b).streak = n
            /\ RecordFailure(b).spared = b.spared /\ RecordFailure(b).state = "open"
        BY <2>4, <4>1 DEF Breaker
      <4> QED
        BY <2>4, <3>0, <3>1, <4>2, <4>3, UpstreamAssumption
    <3>2. CASE ~ (b.failures + 1 >= Threshold /\ b.state = "closed")
      <4>1. RecordFailure(b) = [b EXCEPT !.failures = m, !.streak = n]
        BY <3>0, <3>2 DEF RecordFailure
      <4>2. RecordFailure(b) \in Breaker
        BY <2>4, <4>1 DEF Breaker
      <4>3. /\ RecordFailure(b).failures = m /\ RecordFailure(b).streak = n
            /\ RecordFailure(b).spared = b.spared /\ RecordFailure(b).state = b.state
        BY <2>4, <4>1 DEF Breaker
      <4> QED
        BY <2>4, <3>0, <3>2, <4>2, <4>3, UpstreamAssumption
    <3> QED
      BY <3>1, <3>2
  <2>6. /\ RecordSuccess(b) \in Breaker
        /\ RecordSuccess(b).state = "closed" /\ RecordSuccess(b).streak = 0
        /\ \/ /\ b.state = "closed" /\ RecordSuccess(b).failures = b.failures
              /\ RecordSuccess(b).spared = b.failures
           \/ RecordSuccess(b).failures = 0 /\ RecordSuccess(b).spared = 0
    <3>1. CASE b.state = "closed"
      BY <2>4, <3>1 DEF RecordSuccess, Breaker
    <3>2. CASE b.state # "closed"
      BY <3>2 DEF RecordSuccess, FreshCircuit, Breaker
    <3> QED
      BY <3>1, <3>2
  <2>7. circuit' \in [Guarded -> Breaker]
    BY <2>1, <2>5, <2>6 DEF CallsTyped
  <2>8. BreakersInv'
    <3> SUFFICES ASSUME NEW p \in Guarded PROVE Sound(p)' /\ ForCause(p)'
      BY DEF BreakersInv
    <3>0. ForCause(p)'
      BY <1>1, <1>3, CauseStays
    <3>1. Sound(p) /\ circuit[p] \in Breaker
      BY DEF CallsTyped, BreakersInv
    <3>2. /\ Cardinality(FailedReads(p)) \in Nat /\ circuit[p].failures \in Nat
          /\ circuit[p].streak \in Nat /\ circuit[p].spared \in Nat
      BY <3>1, FailedAreFinite DEF Breaker
    <3>3. Cardinality(FailedReads(p)') = Cardinality(FailedReads(p)) +
            IF q.kind = p /\ q.pc = "done" /\ q.attempt > 0 /\ q.result # "ok" THEN 1 ELSE 0
      BY <1>1, FailedGrow
    <3>4. Cardinality(FailedReads(p)') \in Nat /\ Cardinality(FailedReads(p)') >= Cardinality(FailedReads(p))
      BY <3>2, <3>3
    <3>5. CASE p # kind
      <4>1. circuit'[p] = circuit[p]
        BY <2>1, <3>5 DEF CallsTyped
      <4>2. SameCounts(p)
        BY <4>1 DEF SameCounts
      <4> QED
        BY <3>0, <3>1, <3>4, <4>2, SoundFrame
    <3>6. CASE p = kind /\ a = "ok"
      <4>1. circuit'[p] = RecordSuccess(b)
        BY <2>1, <3>6 DEF CallsTyped
      <4>2. circuit'[p].state = "closed" /\ circuit'[p].streak = 0
        BY <2>6, <4>1
      <4>3. CASE /\ circuit[p].state = "closed" /\ circuit'[p].failures = circuit[p].failures
                 /\ circuit'[p].spared = circuit[p].failures
        <5>1. circuit[p].failures < Threshold
          BY <3>1, <4>3 DEF Sound
        <5>2. circuit[p].failures <= Cardinality(FailedReads(p))
          BY <3>1 DEF Sound
        <5>3. circuit'[p].failures <= Cardinality(FailedReads(p)')
          BY <3>2, <3>4, <4>3, <5>2
        <5>4. circuit'[p].failures = circuit'[p].streak + circuit'[p].spared
          BY <3>2, <4>2, <4>3
        <5> QED
          BY <3>0, <3>2, <4>2, <4>3, <5>1, <5>3, <5>4 DEF Sound
      <4>4. CASE circuit'[p].failures = 0 /\ circuit'[p].spared = 0
        BY <3>0, <3>4, <4>2, <4>4, UpstreamAssumption DEF Sound
      <4> QED
        BY <2>6, <3>6, <4>1, <4>3, <4>4
    <3>7. CASE p = kind /\ a # "ok"
      <4>1. circuit'[p] = RecordFailure(b)
        BY <2>1, <3>7 DEF CallsTyped
      <4>2. Cardinality(FailedReads(p)') = Cardinality(FailedReads(p)) + 1
        BY <1>1, <1>2, <2>2, <2>3, <3>3, <3>7
      <4>3. circuit'[p].failures = circuit[p].failures + 1
        BY <2>5, <3>7, <4>1
      <4>4. circuit'[p].failures <= Cardinality(FailedReads(p)')
        BY <3>1, <3>2, <4>2, <4>3 DEF Sound
      <4>5. circuit[p].state = "closed" <=> circuit[p].failures < Threshold
        BY <3>1 DEF Sound
      <4>6. circuit'[p].state = "closed" <=> circuit[p].state = "closed" /\ circuit[p].failures + 1 < Threshold
        BY <2>5, <3>7, <4>1
      <4>7. circuit'[p].state = "closed" <=> circuit'[p].failures < Threshold
        BY <3>2, <4>3, <4>5, <4>6, UpstreamAssumption
      <4>8. circuit'[p].streak = circuit[p].streak + 1 /\ circuit'[p].spared = circuit[p].spared
        BY <2>5, <3>7, <4>1
      <4>9. circuit'[p].failures = circuit'[p].streak + circuit'[p].spared
        BY <3>1, <3>2, <4>3, <4>8 DEF Sound
      <4> QED
        BY <3>0, <4>4, <4>7, <4>9 DEF Sound
    <3> QED
      BY <3>5, <3>6, <3>7
  <2> QED
    BY <2>1, <2>7, <2>8
<1> QED
    BY <1>4, <1>5 DEF Conclude, CallsTyped

-----------------------------------------------------------------------------
(***************************************************************************)
(* The invariant of the calls.                                             *)
(***************************************************************************)
CInv == CallsTyped /\ CallsInv /\ BreakersInv

LEMMA CallsStart ==
    ASSUME CallsInit
    PROVE CInv
<1>1. CallsTyped
  <2>1. [kind |-> "query", pc |-> "idle", attempt |-> 0, result |-> "ok"] \in CallRecord
    BY UpstreamAssumption DEF CallRecord, Kinds, Direct, Results
  <2>2. FreshCircuit \in Breaker
    BY DEF Breaker, FreshCircuit
  <2>3. 1 \in Endpoints
    BY UpstreamAssumption DEF Endpoints
  <2> QED
    BY <2>1, <2>2, <2>3 DEF CallsInit, CallsTyped
<1>2. CallsInv
    BY DEF CallsInit, CallsInv, CallInv, Progress, PostOnce, SubmitOnce
<1>3. \A p \in Guarded : /\ FailedReads(p) = {} /\ circuit[p].failures = 0 /\ circuit[p].streak = 0
                         /\ circuit[p].spared = 0 /\ circuit[p].state = "closed"
    BY DEF CallsInit, FailedReads, FreshCircuit
<1>4. ASSUME NEW p \in Guarded PROVE Sound(p)
  <2>1. Cardinality(FailedReads(p)) = 0
    BY <1>3, FS_EmptySet, Zenon
  <2>2. Threshold \in Nat \ {0}
    BY UpstreamAssumption
  <2> QED
    BY <1>3, <2>1, <2>2 DEF Sound
<1>5. \A p \in Guarded : ForCause(p)
    BY DEF CallsInit, ForCause, TurnedAway
<1> QED
    BY <1>1, <1>2, <1>4, <1>5 DEF CInv, BreakersInv

(* A call begins: from the cache, past the breaker or turned away by it,   *)
(* or without one.                                                         *)
LEMMA StartsKeep ==
    ASSUME CInv, NEW c \in Calls, UNCHANGED workload,
           \/ StartCached(c)
           \/ \E kind \in Guarded : StartGuarded(c, kind)
           \/ \E kind \in Kinds : Start(c, kind)
           \/ Wake(c)
    PROVE CInv'
<1> USE DEF CInv
<1>1. call[c] \in CallRecord
    BY DEF CallsTyped
<1>2. ASSUME NEW kind \in Kinds, NEW n \in 1..MaxAttempts, Send(c, kind, n),
             \/ call[c].pc = "idle" /\ n = 1
             \/ call[c].pc = "asleep" /\ kind = call[c].kind /\ n = call[c].attempt + 1,
             circuit' \in [Guarded -> Breaker],
             \A p \in Guarded : SameCounts(p)
      PROVE CInv'
  <2>1. /\ call' \in [Calls -> CallRecord] /\ flights' \in [Calls -> SUBSET FlightType]
        /\ active' \in Endpoints /\ sends' \in [Calls -> Nat] /\ CallsInv'
    BY <1>2, SendKeeps
  <2>2. UNCHANGED <<quarantined, tomlFresh, landed>>
    BY <1>2 DEF Send
  <2>3. CallsTyped'
    BY <1>2, <2>1, <2>2 DEF CallsTyped
  <2>4. PICK q \in CallRecord :
            call' = [call EXCEPT ![c] = q] /\ call[c].pc # "done" /\ q.pc # "done"
    <3> DEFINE q == [kind |-> kind, pc |-> "sent", attempt |-> n, result |-> "ok"]
    <3>1. q \in CallRecord /\ q.pc # "done"
      BY UpstreamAssumption DEF CallRecord, Results
    <3>2. call' = [call EXCEPT ![c] = q] /\ call[c].pc # "done"
      BY <1>2 DEF Send
    <3> HIDE DEF q
    <3> QED
      BY <3>1, <3>2
  <2>5. BreakersInv'
    BY <1>2, <2>4, QuietBreakers
  <2> QED
    BY <2>1, <2>3, <2>5
<1>3. ASSUME NEW kind \in Guarded, NEW result \in Results, call[c].pc = "idle",
             Return(c, kind, result), UNCHANGED <<flights, netVars, circuit, tomlFresh, effectVars>>,
             result = "unavailable" => Cardinality(FailedReads(kind)) >= Threshold
      PROVE CInv'
  <2>0. UNCHANGED <<flights, active, quarantined, circuit, tomlFresh, sends, landed>>
    BY <1>3 DEF netVars, effectVars
  <2>1. call' \in [Calls -> CallRecord] /\ CallsInv'
    BY <1>3, <2>0, ReturnKeeps
  <2>2. CallsTyped'
    BY <2>0, <2>1 DEF CallsTyped
  <2>3. PICK q \in CallRecord :
            /\ call' = [call EXCEPT ![c] = q] /\ call[c].pc # "done"
            /\ q.kind = kind /\ q.result = result
    <3> DEFINE q == [call[c] EXCEPT !.kind = kind, !.pc = "done", !.result = result]
    <3>1. q \in CallRecord /\ q.kind = kind /\ q.result = result
      BY <1>1 DEF CallRecord, Kinds, Direct
    <3>2. call' = [call EXCEPT ![c] = q] /\ call[c].pc # "done"
      BY <1>3 DEF Return
    <3> HIDE DEF q
    <3> QED
      BY <3>1, <3>2
  <2>4. BreakersInv'
    <3>1. \A p \in Guarded : SameCounts(p)
      BY <2>0 DEF SameCounts
    <3>2. q.result = "unavailable" => Cardinality(FailedReads(q.kind)) >= Threshold
      BY <1>3, <2>3
    <3> QED
      BY <2>3, <3>1, <3>2, QuietBreakers
  <2> QED
    BY <2>1, <2>2, <2>4
<1>4. CASE StartCached(c)
  <2>1. "toml" \in Guarded /\ "ok" \in Results
    BY DEF Guarded, Results
  <2> QED
    BY <1>3, <1>4, <2>1 DEF StartCached, Startable
<1>5. ASSUME NEW kind \in Guarded, StartGuarded(c, kind) PROVE CInv'
  <2>1. CASE IsOpen(circuit[kind])
    <3>1. "unavailable" \in Results
      BY DEF Results, Failures
    <3>2. Sound(kind) /\ circuit[kind].state # "closed" /\ circuit[kind].failures \in Nat
      BY <2>1 DEF BreakersInv, IsOpen, CallsTyped, Breaker
    <3>3. Cardinality(FailedReads(kind)) >= Threshold
      BY <3>2, FailedAreFinite, UpstreamAssumption DEF Sound
    <3> QED
      BY <1>3, <1>5, <2>1, <3>1, <3>3 DEF StartGuarded, Startable
  <2>2. CASE ~ IsOpen(circuit[kind])
    <3>1. Send(c, kind, 1) /\ circuit' = [circuit EXCEPT ![kind] = Probed(circuit[kind])] /\ call[c].pc = "idle"
      BY <1>5, <2>2 DEF StartGuarded, Startable
    <3>2. /\ Probed(circuit[kind]) \in Breaker
          /\ Probed(circuit[kind]).failures = circuit[kind].failures
          /\ Probed(circuit[kind]).streak = circuit[kind].streak
          /\ Probed(circuit[kind]).spared = circuit[kind].spared
          /\ Probed(circuit[kind]).state = "closed" <=> circuit[kind].state = "closed"
      <4>1. circuit[kind] \in Breaker
        BY DEF CallsTyped
      <4> QED
        BY <4>1 DEF Probed, Breaker
    <3>3. /\ circuit' \in [Guarded -> Breaker]
          /\ \A p \in Guarded : SameCounts(p)
      BY <3>1, <3>2 DEF CallsTyped, SameCounts
    <3>4. kind \in Kinds /\ 1 \in 1..MaxAttempts
      BY UpstreamAssumption DEF Kinds, Direct
    <3> QED
      BY <1>2, <3>1, <3>3, <3>4
  <2> QED
    BY <2>1, <2>2
<1>6. ASSUME NEW kind \in Kinds, Start(c, kind) PROVE CInv'
  <2>1. Send(c, kind, 1) /\ circuit' = circuit /\ call[c].pc = "idle"
    BY <1>6 DEF Start, Startable
  <2>2. 1 \in 1..MaxAttempts /\ circuit \in [Guarded -> Breaker]
    BY UpstreamAssumption DEF CallsTyped
  <2>3. \A p \in Guarded : SameCounts(p)
    BY <2>1 DEF SameCounts
  <2> QED
    BY <1>2, <2>1, <2>2, <2>3
<1>7. CASE Wake(c)
  <2>1. /\ call[c].pc = "asleep" /\ Send(c, call[c].kind, call[c].attempt + 1) /\ circuit' = circuit
    BY <1>7 DEF Wake
  <2>2. call[c].attempt \in 1..(MaxAttempts - 1) /\ call[c].kind \in Kinds
    BY <1>1, <2>1 DEF CallsInv, CallInv, Progress, CallRecord
  <2>3. call[c].attempt + 1 \in 1..MaxAttempts /\ circuit \in [Guarded -> Breaker]
    BY <2>2, UpstreamAssumption DEF CallsTyped
  <2>4. \A p \in Guarded : SameCounts(p)
    BY <2>1 DEF SameCounts
  <2> QED
    BY <1>2, <2>1, <2>2, <2>3, <2>4
<1> QED
    BY <1>4, <1>5, <1>6, <1>7

(* A call is answered, or its deadline fires, and a run over the endpoints *)
(* rotates or ends.                                                        *)
LEMMA AnswersKeep ==
    ASSUME CInv, NEW c \in Calls, UNCHANGED workload,
           \/ \E a \in Answers \cup {"deadline"} : AnswerDirect(c, a)
           \/ \E f \in flights[c], a \in Answers \ {"unusable"} : AnswerRotating(c, f, a)
           \/ Deadline(c)
    PROVE CInv'
<1>0. CallsTyped /\ CallsInv /\ BreakersInv
    BY DEF CInv
<1>1. ASSUME NEW a \in Answers \cup {"deadline"}, AnswerDirect(c, a) PROVE CInv'
  <2>1. call[c].pc = "sent" /\ Conclude(c, a) /\ UNCHANGED <<flights, active, quarantined, sends>>
    BY <1>1 DEF AnswerDirect, netVars
  <2>2. call' \in [Calls -> CallRecord] /\ landed' \in [Calls -> Nat] /\ CallsInv'
    BY <1>0, <1>1, AnswerDirectKeeps
  <2>3. circuit' \in [Guarded -> Breaker] /\ tomlFresh' \in BOOLEAN /\ BreakersInv'
    BY <1>0, <2>1, ConcludeIsSound
  <2>4. CallsTyped'
    BY <1>0, <2>1, <2>2, <2>3 DEF CallsTyped
  <2> QED
    BY <2>2, <2>3, <2>4 DEF CInv
<1>2. CASE Deadline(c)
  <2>1. call[c].pc = "sent" /\ Conclude(c, "deadline") /\ UNCHANGED <<flights, active, quarantined, sends, landed>>
    BY <1>2 DEF Deadline, netVars, effectVars
  <2>2. call' \in [Calls -> CallRecord] /\ CallsInv'
    BY <1>0, <1>2, DeadlineKeeps
  <2>3. circuit' \in [Guarded -> Breaker] /\ tomlFresh' \in BOOLEAN /\ BreakersInv'
    BY <1>0, <2>1, ConcludeIsSound
  <2>4. CallsTyped'
    BY <1>0, <2>1, <2>2, <2>3 DEF CallsTyped
  <2> QED
    BY <2>2, <2>3, <2>4 DEF CInv
<1>3. ASSUME NEW f \in flights[c], NEW a \in Answers \ {"unusable"}, AnswerRotating(c, f, a) PROVE CInv'
  <2>1. PICK m \in Effects(c, a) : landed' = [landed EXCEPT ![c] = m]
    BY <1>3 DEF AnswerRotating
  <2>2. quarantined' \subseteq Endpoints
    <3>1. f.index \in Endpoints
      BY <1>0 DEF CallsTyped, FlightType
    <3> QED
      BY <1>0, <1>3, <3>1 DEF AnswerRotating, CallsTyped
  <2>3. CASE Retryable(a) /\ Untried(f) # {}
    <3>1. /\ active' = Min(Untried(f))
          /\ flights' = [flights EXCEPT ![c] = (flights[c] \ {f}) \cup {Rotated(f, Min(Untried(f)))}]
          /\ sends' = IF call[c].kind = "submit" THEN [sends EXCEPT ![c] = sends[c] + 1] ELSE sends
          /\ UNCHANGED <<call, circuit, tomlFresh>>
      BY <1>3, <2>3 DEF AnswerRotating
    <3>2. /\ landed' \in [Calls -> Nat] /\ sends' \in [Calls -> Nat]
          /\ flights' \in [Calls -> SUBSET FlightType] /\ CallsInv'
      BY <1>0, <2>1, <2>3, <3>1, RotationKeeps
    <3>3. active' \in Endpoints
      BY <2>3, <3>1, NextIsUntried
    <3>4. BreakersInv'
      BY <1>0, <3>1, QuietBreakers DEF SameCounts
    <3>5. CallsTyped'
      BY <1>0, <2>2, <3>1, <3>2, <3>3 DEF CallsTyped
    <3> QED
      BY <3>2, <3>4, <3>5 DEF CInv
  <2>4. CASE ~ (Retryable(a) /\ Untried(f) # {})
    <3>1. /\ flights' = [flights EXCEPT ![c] = flights[c] \ {f}] /\ UNCHANGED <<active, sends>>
          /\ IF call[c].pc = "sent" /\ call[c].attempt = f.attempt
             THEN Conclude(c, a) ELSE UNCHANGED <<call, circuit, tomlFresh>>
      BY <1>3, <2>4 DEF AnswerRotating
    <3>2. /\ call' \in [Calls -> CallRecord] /\ landed' \in [Calls -> Nat]
          /\ flights' \in [Calls -> SUBSET FlightType] /\ CallsInv'
      BY <1>0, <2>1, <3>1, RunEndKeeps
    <3>3. circuit' \in [Guarded -> Breaker] /\ tomlFresh' \in BOOLEAN /\ BreakersInv'
      <4>1. CASE call[c].pc = "sent" /\ call[c].attempt = f.attempt
        BY <1>0, <3>1, <4>1, ConcludeIsSound
      <4>2. CASE ~ (call[c].pc = "sent" /\ call[c].attempt = f.attempt)
        <5>1. UNCHANGED <<call, circuit, tomlFresh>>
          BY <3>1, <4>2
        <5>2. BreakersInv'
          BY <1>0, <5>1, QuietBreakers DEF SameCounts
        <5> QED
          BY <1>0, <5>1, <5>2 DEF CallsTyped
      <4> QED
        BY <4>1, <4>2
    <3>4. CallsTyped'
      BY <1>0, <2>2, <3>1, <3>2, <3>3 DEF CallsTyped
    <3> QED
      BY <3>2, <3>3, <3>4 DEF CInv
  <2> QED
    BY <2>3, <2>4
<1> QED
    BY <1>1, <1>2, <1>3

(* Time passes: a circuit cools down, a quarantine lapses, the cached      *)
(* stellar.toml expires.  No breaker is closed or opened by it.            *)
LEMMA TimesKeep ==
    ASSUME CInv, UNCHANGED workload,
           \/ \E p \in Guarded : Cools(p)
           \/ \E e \in Endpoints : Recovers(e)
           \/ TomlExpires
    PROVE CInv'
<1>0. CallsTyped /\ CallsInv /\ BreakersInv
    BY DEF CInv
<1>1. UNCHANGED <<call, flights, active, sends, landed>>
    BY DEF Cools, Recovers, TomlExpires, netVars, effectVars
<1>2. CallsInv'
    BY <1>0, <1>1, CallFrame DEF CallsInv
<1>3. quarantined' \subseteq Endpoints /\ tomlFresh' \in BOOLEAN
    BY <1>0 DEF Cools, Recovers, TomlExpires, netVars, CallsTyped
<1>4. /\ circuit' \in [Guarded -> Breaker]
      /\ \A p \in Guarded : SameCounts(p)
  <2>1. ASSUME NEW p \in Guarded, Cools(p) PROVE <1>4!1 /\ <1>4!2
    <3>1. circuit' = [circuit EXCEPT ![p] = [circuit[p] EXCEPT !.cooled = TRUE]]
      BY <2>1 DEF Cools
    <3>2. /\ [circuit[p] EXCEPT !.cooled = TRUE] \in Breaker
          /\ [circuit[p] EXCEPT !.cooled = TRUE].failures = circuit[p].failures
          /\ [circuit[p] EXCEPT !.cooled = TRUE].state = circuit[p].state
          /\ [circuit[p] EXCEPT !.cooled = TRUE].streak = circuit[p].streak
          /\ [circuit[p] EXCEPT !.cooled = TRUE].spared = circuit[p].spared
      <4>1. circuit[p] \in Breaker
        BY <1>0 DEF CallsTyped
      <4> QED
        BY <4>1 DEF Breaker
    <3> QED
      BY <1>0, <3>1, <3>2 DEF CallsTyped, SameCounts
  <2>2. CASE circuit' = circuit
    BY <1>0, <2>2 DEF CallsTyped, SameCounts
  <2> QED
    BY <2>1, <2>2 DEF Recovers, TomlExpires
<1>5. BreakersInv'
    BY <1>0, <1>1, <1>4, QuietBreakers
<1>6. CallsTyped'
    BY <1>0, <1>1, <1>3, <1>4 DEF CallsTyped
<1> QED
    BY <1>2, <1>5, <1>6 DEF CInv

(* Every step of a process keeps the invariant of its calls. *)
LEMMA CallsKeep ==
    ASSUME CInv, [Next]_vars
    PROVE CInv'
<1>1. CASE CallsNext
  <2>1. Step /\ UNCHANGED workload
    BY <1>1 DEF CallsNext
  <2>2. workload.kinds \subseteq Kinds
    <3>1. workload \in Workloads
      BY DEF CInv, CallsTyped
    <3>2. workload.kinds \in SUBSET {"toml", "poll", "query", "start", "account", "submit"}
      BY <3>1, UpstreamAssumption
    <3> QED
      BY <3>2 DEF Kinds, Direct, Guarded, Rotating
  <2>3. CASE \E c \in Calls :
               \/ "toml" \in workload.kinds /\ StartCached(c)
               \/ \E kind \in workload.kinds \intersect Guarded : StartGuarded(c, kind)
               \/ \E kind \in workload.kinds \ Guarded : Start(c, kind)
               \/ Wake(c)
    BY <2>1, <2>2, <2>3, StartsKeep
  <2>4. CASE \E c \in Calls :
               \/ \E a \in Answers \union {"deadline"} : AnswerDirect(c, a)
               \/ \E f \in flights[c], a \in Answers \ {"unusable"} : AnswerRotating(c, f, a)
               \/ Deadline(c)
    BY <2>1, <2>4, AnswersKeep
  <2>5. CASE \/ \E p \in Guarded : Cools(p)
             \/ \E e \in Endpoints : Recovers(e)
             \/ TomlExpires
    BY <2>1, <2>5, TimesKeep
  <2> QED
    BY <2>1, <2>3, <2>4, <2>5 DEF Step
<1>2. CASE UNCHANGED callsVars
  <2>1. UNCHANGED <<call, flights, active, quarantined, circuit, tomlFresh, workload, sends, landed>>
    BY <1>2 DEF callsVars, netVars, effectVars
  <2>2. CallsTyped'
    BY <2>1 DEF CInv, CallsTyped
  <2>3. CallsInv'
    BY <2>1, CallFrame DEF CInv, CallsInv
  <2>4. BreakersInv'
    BY <2>1, QuietBreakers DEF CInv, SameCounts
  <2> QED
    BY <2>2, <2>3, <2>4 DEF CInv
<1> QED
    BY <1>1, <1>2 DEF Next, vars

LEMMA CallsInvariant == Spec => []CInv
<1>1. Init => CInv
    BY CallsStart DEF Init
<1>2. CInv /\ [Next]_vars => CInv'
    BY CallsKeep
<1> QED
    BY <1>1, <1>2, PTL DEF Spec

-----------------------------------------------------------------------------
(* Types of the calls: a call that is out or asleep is on one of its       *)
(* attempts, and requests in flight belong to an attempt made over the     *)
(* endpoints (withRetry, withHorizonFailover).                             *)
THEOREM CallsAreTyped == Spec => []CallsTypeOK
<1>1. CInv => CallsTypeOK
  <2> SUFFICES ASSUME CInv PROVE CallsTypeOK
    OBVIOUS
  <2>1. /\ call \in [Calls -> [kind : Kinds, pc : {"idle", "sent", "asleep", "done"},
                          attempt : 0..MaxAttempts, result : Failures \union {"ok", "absent"}]]
        /\ active \in Endpoints /\ quarantined \subseteq Endpoints
        /\ circuit \in [Guarded -> [state : {"closed", "open", "half-open"}, failures : Nat,
                                    cooled : BOOLEAN, streak : Nat, spared : Nat]]
        /\ tomlFresh \in BOOLEAN /\ workload \in Workloads
        /\ sends \in [Calls -> Nat] /\ landed \in [Calls -> Nat]
        /\ flights \in [Calls -> SUBSET FlightType]
    BY DEF CInv, CallsTyped, CallRecord, Breaker, Results
  <2>2. \A c \in Calls : Progress(c)
    BY DEF CInv, CallsInv, CallInv
  <2> QED
    BY <2>1, <2>2 DEF CallsTypeOK, Progress
<1> QED
    BY <1>1, CallsInvariant, PTL

(* No write is applied twice upstream, however its answers are lost and    *)
(* its request rotated: a POST to the anchor is sent once, an envelope is  *)
(* the ledger's once (startInteractive, submitTransaction).                *)
THEOREM WritesTakeEffectOnce == Spec => []WriteTakesEffectOnce
<1>1. CInv => WriteTakesEffectOnce
  <2> SUFFICES ASSUME CInv, NEW c \in Calls PROVE landed[c] <= 1
    BY DEF WriteTakesEffectOnce
  <2>1. PostOnce(c) /\ SubmitOnce(c)
    BY DEF CInv, CallsInv, CallInv
  <2> QED
    BY <2>1 DEF PostOnce, SubmitOnce
<1> QED
    BY <1>1, CallsInvariant, PTL

(* A refusal of something that happened needs a rotation, an answer other  *)
(* than a timeout is final, and an endpoint is asked twice only by a run   *)
(* that began on a quarantined one (withHorizonFailover).                  *)
THEOREM FailoverSound == Spec => []FailoverIsSound
<1>1. CInv => FailoverIsSound
  <2> SUFFICES ASSUME CInv, NEW c \in Calls
               PROVE /\ call[c].pc = "done" /\ call[c].result = "rejected" /\ landed[c] > 0 => sends[c] > 1
                     /\ call[c].kind = "submit" /\ call[c].pc = "done" /\ call[c].result # "timeout"
                          => flights[c] = {}
                     /\ \A f \in flights[c] : f.again => f.stale
    BY DEF FailoverIsSound, RejectedButAppliedNeedsRotation, DefiniteAnswerIsFinal,
           AskedAgainOnlyFromQuarantine
  <2>1. PostOnce(c) /\ SubmitOnce(c) /\ \A f \in flights[c] : RunNoted(f)
    BY DEF CInv, CallsInv, CallInv
  <2>2. \A f \in flights[c] : f.again => f.stale
    BY <2>1 DEF RunNoted
  <2> QED
    BY <2>1, <2>2 DEF PostOnce, SubmitOnce
<1> QED
    BY <1>1, CallsInvariant, PTL

(* The breaker of a guarded read counts calls and not attempts; Threshold  *)
(* consecutive failures open it, and fewer only where a success came       *)
(* between them and was ignored; a read is turned away only after that     *)
(* many have failed (recordFailure, recordSuccess, isOpen), for any number *)
(* of reads interleaved.                                                   *)
THEOREM BreakerSound == Spec => []BreakerIsSound
<1>1. CInv => BreakerIsSound
    BY BreakersAreSound DEF CInv
<1> QED
    BY <1>1, CallsInvariant, PTL

-----------------------------------------------------------------------------
(***************************************************************************)
(* The limiter.  The table forgets the windows of a key that have ended,   *)
(* so the invariant says that some account of them exists: a function from *)
(* the admitted requests of the key to the time their window opened.       *)
(***************************************************************************)
Admitted(k) == {r \in Requests : req[r].key = k /\ req[r].pc = "admitted"}
Counted(k) == {r \in Requests : req[r].key = k /\ req[r].pc \in {"admitted", "refused"}}
Opened(k) == bucket[k].resetAt - Window
Batch(k, opened, t) == {r \in Admitted(k) : opened[r] = t}

RequestRecord ==
    [pc : {"new", "hooked", "admitted", "refused", "skipped"}, key : Keys, now : Nat, at : Nat]

LimiterTyped ==
    /\ clock \in Nat /\ clock <= LastTick
    /\ bucket \in [Keys -> [count : Nat, resetAt : Nat]]
    /\ req \in [Requests -> RequestRecord]

(* A request reads its clock less than a window before its statement.      *)
Prompt ==
    \A r \in Requests :
        /\ req[r].now <= req[r].at /\ req[r].at <= clock
        /\ req[r].at - req[r].now < Window
        /\ req[r].pc = "hooked" => clock - req[r].now < Window

(* A request is counted in a window that had opened when it was decided    *)
(* and had not ended when it read its clock; the windows of a key are      *)
(* apart, each was opened by a request of its own and admitted its limit   *)
(* at most, the last as many as it counted.                                *)
Account(k, opened) ==
    /\ opened \in [Requests -> Int]
    /\ \A r \in Admitted(k) :
         /\ opened[r] <= Opened(k) /\ opened[r] <= req[r].at
         /\ req[r].now < opened[r] + Window
    /\ \A r, q \in Admitted(k) :
         \/ opened[r] = opened[q]
         \/ opened[r] + Window <= opened[q]
         \/ opened[q] + Window <= opened[r]
    /\ \A r \in Admitted(k) : \E q \in Admitted(k) : opened[q] = opened[r] /\ req[q].now = opened[r]
    /\ \A t \in Int : Cardinality(Batch(k, opened, t)) <= Limit[k]
    /\ Cardinality(Batch(k, opened, Opened(k)))
         = IF bucket[k].count <= Limit[k] THEN bucket[k].count ELSE Limit[k]
    /\ Opened(k) <= clock
    /\ \/ bucket[k].resetAt = 0
       \/ \E q \in Admitted(k) : opened[q] = Opened(k) /\ req[q].now = Opened(k)

Accounts ==
    \A k \in Keys :
        /\ bucket[k].count <= Cardinality(Counted(k))
        /\ bucket[k].resetAt <= LastTick + Window
        /\ \E opened \in [Requests -> Int] : Account(k, opened)

(* RefusedOnlyOverLimit, of a request with its key and its time named.     *)
Refusals ==
    \A r \in Requests, k \in Keys, at \in Nat :
        req[r].pc = "refused" /\ req[r].key = k /\ req[r].at = at =>
            Cardinality(Decided(k, "admitted", at - 2 * Window + 1, at)) >= Limit[k]

LInv == LimiterTyped /\ Prompt /\ Accounts /\ Refusals

(* Requests are finite in number, and so is every set of them. *)
LEMMA FiniteRequests ==
    ASSUME NEW S \in SUBSET Requests
    PROVE IsFiniteSet(S) /\ Cardinality(S) \in Nat /\ Cardinality(S) <= MaxRequests
<1>1. IsFiniteSet(Requests) /\ Cardinality(Requests) = MaxRequests
    BY LimitAssumption, FS_Interval DEF Requests
<1> QED
    BY <1>1, FS_Subset, FS_CardinalityType

LEMMA LimiterStarts ==
    ASSUME LimiterInit
    PROVE LInv
<1>1. (CHOOSE k \in Keys : TRUE) \in Keys
    BY LimitAssumption
<1>2. LimiterTyped
    BY <1>1, LimitAssumption DEF LimiterInit, LimiterTyped, RequestRecord
<1>3. Prompt
    BY LimitAssumption DEF LimiterInit, Prompt
<1>4. Refusals
    BY DEF LimiterInit, Refusals
<1>5. ASSUME NEW k \in Keys
      PROVE /\ bucket[k].count <= Cardinality(Counted(k))
            /\ bucket[k].resetAt <= LastTick + Window
            /\ \E opened \in [Requests -> Int] : Account(k, opened)
  <2> DEFINE opened == [r \in Requests |-> 0]
  <2>1. Admitted(k) = {} /\ Counted(k) = {} /\ \A t : Batch(k, opened, t) = {}
    BY DEF LimiterInit, Admitted, Counted, Batch
  <2>2. bucket[k].count = 0 /\ bucket[k].resetAt = 0 /\ clock = 0
    BY DEF LimiterInit
  <2>3. Limit[k] \in Nat /\ Limit[k] > 0 /\ Window \in Nat /\ Window > 0 /\ LastTick \in Nat
    BY LimitAssumption
  <2>4. \A t : Cardinality(Batch(k, opened, t)) = 0
    BY <2>1, FS_EmptySet
  <2>5. opened \in [Requests -> Int]
    OBVIOUS
  <2>6. Opened(k) <= clock
    BY <2>2, <2>3 DEF Opened
  <2> HIDE DEF opened
  <2>7. Account(k, opened)
    BY <2>1, <2>2, <2>3, <2>4, <2>5, <2>6 DEF Account
  <2>8. Cardinality(Counted(k)) = 0
    BY <2>1, FS_EmptySet
  <2> QED
    BY <2>2, <2>3, <2>5, <2>7, <2>8
<1> QED
    BY <1>2, <1>3, <1>4, <1>5 DEF LInv, Accounts

(* A step that admits and refuses nobody and leaves the table alone keeps  *)
(* the accounts.                                                           *)
LEMMA QuietAccounts ==
    ASSUME LInv, UNCHANGED bucket, clock' \in Nat, clock' >= clock,
           \A r \in Requests : \/ req'[r] = req[r]
                               \/ /\ req[r].pc \notin {"admitted", "refused"}
                                  /\ req'[r].pc \notin {"admitted", "refused"}
    PROVE Accounts' /\ Refusals'
<1>1. /\ \A k \in Keys : Admitted(k)' = Admitted(k) /\ Counted(k)' = Counted(k) /\ Opened(k)' = Opened(k)
      /\ \A k \in Keys : \A r \in Admitted(k) : req'[r] = req[r]
    BY DEF Admitted, Counted, Opened
<1>2. ASSUME NEW k \in Keys, NEW opened \in [Requests -> Int], Account(k, opened)
      PROVE Account(k, opened)'
  <2>1. \A t : Batch(k, opened, t)' = Batch(k, opened, t)
    BY <1>1 DEF Batch
  <2>2. Opened(k) \in Int /\ clock \in Nat
    BY LimitAssumption DEF LInv, LimiterTyped, Opened
  <2>3. Opened(k)' <= clock'
    BY <1>1, <1>2, <2>2 DEF Account
  <2> QED
    BY <1>1, <1>2, <2>1, <2>3 DEF Account
<1>3. Accounts'
    BY <1>1, <1>2 DEF LInv, Accounts
<1>4. Refusals'
  <2>1. ASSUME NEW r \in Requests, NEW k \in Keys, NEW at \in Nat,
               req'[r].pc = "refused", req'[r].key = k, req'[r].at = at
        PROVE Cardinality(Decided(k, "admitted", at - 2 * Window + 1, at)') >= Limit[k]
    <3>1. req[r].pc = "refused" /\ req[r].key = k /\ req[r].at = at
      BY <2>1
    <3>2. Decided(k, "admitted", at - 2 * Window + 1, at)' = Decided(k, "admitted", at - 2 * Window + 1, at)
      BY DEF Decided
    <3> QED
      BY <3>1, <3>2 DEF LInv, Refusals
  <2> QED
    BY <2>1 DEF Refusals
<1> QED
    BY <1>3, <1>4

(* What the upsert leaves: the window it was, with one more, or a new one  *)
(* that this request opens (PrismaRateLimitStore.incr).                    *)
LEMMA UpsertDoes ==
    ASSUME NEW b \in [count : Nat, resetAt : Nat], NEW n \in Nat, NEW c, c = Upserted(b, n)
    PROVE /\ c \in [count : Nat, resetAt : Nat]
          /\ \/ b.resetAt <= n /\ c.count = 1 /\ c.resetAt = n + Window
             \/ b.resetAt > n /\ c.count = b.count + 1 /\ c.resetAt = b.resetAt
<1>1. CASE b.resetAt <= n
    BY <1>1, LimitAssumption DEF Upserted
<1>2. CASE b.resetAt > n
    BY <1>2, LimitAssumption DEF Upserted
<1> QED
    BY <1>1, <1>2

(* What Incr does to the bucket and to its request. *)
LEMMA IncrDecides ==
    ASSUME LInv, NEW r \in Requests, Incr(r)
    PROVE \E k \in Keys, b \in [count : Nat, resetAt : Nat], q \in RequestRecord :
            /\ k = req[r].key /\ b = Upserted(bucket[k], req[r].now) /\ req[r].pc = "hooked"
            /\ bucket' = [bucket EXCEPT ![k] = b]
            /\ req' = [req EXCEPT ![r] = q] /\ q.key = k /\ q.now = req[r].now /\ q.at = clock
            /\ q.pc = IF b.count > Limit[k] THEN "refused" ELSE "admitted"
            /\ clock' = clock
<1> DEFINE k == req[r].key
           b == Upserted(bucket[k], req[r].now)
           pc == IF b.count > Limit[k] THEN "refused" ELSE "admitted"
<1>1. req[r] \in RequestRecord /\ req \in [Requests -> RequestRecord]
    BY DEF LInv, LimiterTyped
<1>2. k \in Keys /\ req[r].now \in Nat
    BY <1>1 DEF RequestRecord
<1>3. bucket[k] \in [count : Nat, resetAt : Nat]
    BY <1>2 DEF LInv, LimiterTyped
<1>4. b \in [count : Nat, resetAt : Nat]
    BY <1>2, <1>3, UpsertDoes
<1>5. /\ req[r].pc = "hooked" /\ bucket' = [bucket EXCEPT ![k] = b]
      /\ req' = [req EXCEPT ![r] = [req[r] EXCEPT !.pc = pc, !.at = clock]] /\ clock' = clock
  <2>1. req' = [req EXCEPT ![r].pc = pc, ![r].at = clock]
    BY DEF Incr
  <2>2. [req EXCEPT ![r].pc = pc, ![r].at = clock] = [req EXCEPT ![r] = [req[r] EXCEPT !.pc = pc, !.at = clock]]
    BY <1>1
  <2> QED
    BY <2>1, <2>2 DEF Incr
<1> DEFINE q == [req[r] EXCEPT !.pc = pc, !.at = clock]
<1>6. q \in RequestRecord /\ q.key = k /\ q.now = req[r].now /\ q.at = clock /\ q.pc = pc
  <2>1. pc \in {"refused", "admitted"} /\ clock \in Nat
    BY DEF LInv, LimiterTyped
  <2> HIDE DEF pc
  <2> QED
    BY <1>1, <2>1 DEF RequestRecord
<1>8. /\ k = req[r].key /\ b = Upserted(bucket[k], req[r].now) /\ req[r].pc = "hooked"
      /\ bucket' = [bucket EXCEPT ![k] = b]
      /\ req' = [req EXCEPT ![r] = q]
      /\ q.pc = IF b.count > Limit[k] THEN "refused" ELSE "admitted"
      /\ clock' = clock
    BY <1>5, <1>6
<1> HIDE DEF k, b, pc, q
<1> QED
    BY <1>2, <1>4, <1>6, <1>8

(* An admitted request joins the window it found or opened, and that       *)
(* window had room for it.                                                 *)
LEMMA AdmissionKeepsAccount ==
    ASSUME LInv, NEW r \in Requests, NEW k \in Keys, NEW b \in [count : Nat, resetAt : Nat],
           NEW q \in RequestRecord, k = req[r].key, b = Upserted(bucket[k], req[r].now),
           req[r].pc = "hooked", bucket' = [bucket EXCEPT ![k] = b],
           req' = [req EXCEPT ![r] = q], q.key = k, q.now = req[r].now, q.at = clock,
           q.pc = "admitted", b.count <= Limit[k], clock' = clock,
           NEW f \in [Requests -> Int], Account(k, f)
    PROVE \E g \in [Requests -> Int] : Account(k, g)'
<1> DEFINE n == q.now
<1>1. /\ n \in Nat /\ clock \in Nat /\ n <= clock /\ Window \in Nat /\ Window > 0
      /\ bucket[k] \in [count : Nat, resetAt : Nat]
      /\ Limit[k] \in Nat /\ Limit[k] > 0
  <2>1. n \in Nat
    BY DEF RequestRecord
  <2>2. clock \in Nat /\ bucket[k] \in [count : Nat, resetAt : Nat]
    BY DEF LInv, LimiterTyped
  <2>3. n <= clock
    <3>1. req[r].now <= req[r].at /\ req[r].at <= clock
      BY DEF LInv, Prompt
    <3>2. req[r].at \in Nat
      BY DEF LInv, LimiterTyped, RequestRecord
    <3> QED
      BY <2>1, <2>2, <3>1, <3>2
  <2> QED
    BY <2>1, <2>2, <2>3, LimitAssumption
<1>2. \/ bucket[k].resetAt <= n /\ b.count = 1 /\ b.resetAt = n + Window
      \/ bucket[k].resetAt > n /\ b.count = bucket[k].count + 1 /\ b.resetAt = bucket[k].resetAt
  <2>1. PICK a \in [count : Nat, resetAt : Nat] : a = bucket[k]
    BY <1>1
  <2>2. PICK t \in Nat : t = n
    BY <1>1
  <2>3. b = Upserted(a, t)
    BY <2>1, <2>2
  <2>4. \/ a.resetAt <= t /\ b.count = 1 /\ b.resetAt = t + Window
        \/ a.resetAt > t /\ b.count = a.count + 1 /\ b.resetAt = a.resetAt
    BY <2>3, UpsertDoes
  <2> QED
    BY <2>1, <2>2, <2>4
<1>3. PICK s \in Int : s = b.resetAt - Window
    BY <1>1
<1>4. bucket'[k] = b /\ Opened(k)' = s
    BY <1>3 DEF LInv, LimiterTyped, Opened
<1>5. /\ r \notin Admitted(k) /\ Admitted(k)' = Admitted(k) \cup {r}
      /\ \A x \in Admitted(k) : req'[x] = req[x]
      /\ req'[r] = q
    BY DEF Admitted, LInv, LimiterTyped
<1>6. Opened(k) = bucket[k].resetAt - Window /\ Opened(k) \in Int
    BY <1>1 DEF Opened
<1>7. \A x \in Admitted(k) : f[x] \in Int /\ f[x] <= Opened(k)
    BY DEF Account, Admitted
<1>8. /\ s <= clock /\ n < s + Window
      /\ \A x \in Admitted(k) : f[x] <= s /\ (f[x] = s \/ f[x] + Window <= s)
      /\ \/ n = s
         \/ \E x \in Admitted(k) : f[x] = s /\ req[x].now = s
      /\ Cardinality(Batch(k, f, s)) + 1 = b.count
  <2>1. CASE bucket[k].resetAt <= n /\ b.count = 1 /\ b.resetAt = n + Window
    <3>1. s = n /\ Opened(k) + Window <= s
      BY <1>1, <1>3, <1>6, <2>1
    <3>2. \A x \in Admitted(k) : f[x] + Window <= s
      BY <1>1, <1>3, <1>6, <1>7, <3>1
    <3>3. Batch(k, f, s) = {}
      BY <1>1, <1>3, <1>7, <3>2 DEF Batch
    <3>4. Cardinality(Batch(k, f, s)) = 0
      BY <3>3, FS_EmptySet
    <3> QED
      BY <1>1, <1>3, <1>7, <2>1, <3>1, <3>2, <3>4
  <2>2. CASE bucket[k].resetAt > n /\ b.count = bucket[k].count + 1 /\ b.resetAt = bucket[k].resetAt
    <3>1. s = Opened(k) /\ n < s + Window /\ s <= clock
      BY <1>1, <1>3, <1>6, <2>2 DEF Account
    <3>2. PICK x \in Admitted(k) : f[x] = s /\ req[x].now = s
      BY <1>1, <2>2, <3>1 DEF Account
    <3>3. \A y \in Admitted(k) : f[y] = s \/ f[y] + Window <= s
      <4> TAKE y \in Admitted(k)
      <4>1. f[y] = f[x] \/ f[y] + Window <= f[x] \/ f[x] + Window <= f[y]
        BY DEF Account
      <4> QED
        BY <1>1, <1>3, <1>7, <3>1, <3>2, <4>1
    <3>4. Cardinality(Batch(k, f, s)) = bucket[k].count
      BY <1>1, <2>2, <3>1 DEF Account
    <3> QED
      BY <1>1, <1>7, <2>2, <3>1, <3>2, <3>3, <3>4
  <2> QED
    BY <1>2, <2>1, <2>2
<1>9. PICK g \in [Requests -> Int] : g = [f EXCEPT ![r] = s]
    OBVIOUS
<1>10. g[r] = s /\ \A x \in Admitted(k) : g[x] = f[x]
    BY <1>5, <1>9 DEF Admitted
<1>11. /\ Batch(k, g, s)' = Batch(k, f, s) \cup {r} /\ r \notin Batch(k, f, s)
       /\ \A t \in Int : t # s => Batch(k, g, t)' = Batch(k, f, t)
    BY <1>5, <1>10 DEF Batch
<1>12. Cardinality(Batch(k, g, s)') = b.count
  <2>1. Batch(k, f, s) \in SUBSET Requests
    BY DEF Batch, Admitted
  <2>2. IsFiniteSet(Batch(k, f, s)) /\ Cardinality(Batch(k, f, s)) \in Nat
    BY <2>1, FiniteRequests
  <2> QED
    BY <1>8, <1>11, <2>2, FS_AddElement
<1>13. \A t \in Int : Cardinality(Batch(k, g, t)') <= Limit[k]
  <2> TAKE t \in Int
  <2>1. Cardinality(Batch(k, f, t)) <= Limit[k]
    BY DEF Account
  <2> QED
    BY <1>11, <1>12, <2>1
<1>14. \A x \in Admitted(k)' : g[x] <= s /\ g[x] <= req'[x].at /\ req'[x].now < g[x] + Window
  <2>1. \A x \in Admitted(k) : f[x] <= req[x].at /\ req[x].now < f[x] + Window
    BY DEF Account
  <2> QED
    BY <1>1, <1>5, <1>8, <1>10, <2>1
<1>15. \A x, y \in Admitted(k)' : g[x] = g[y] \/ g[x] + Window <= g[y] \/ g[y] + Window <= g[x]
  <2>1. \A x, y \in Admitted(k) : f[x] = f[y] \/ f[x] + Window <= f[y] \/ f[y] + Window <= f[x]
    BY DEF Account
  <2> QED
    BY <1>5, <1>8, <1>10, <2>1
<1>16. /\ \E y \in Admitted(k)' : g[y] = s /\ req'[y].now = s
       /\ \A x \in Admitted(k)' : \E y \in Admitted(k)' : g[y] = g[x] /\ req'[y].now = g[x]
  <2>1. \E y \in Admitted(k)' : g[y] = s /\ req'[y].now = s
    BY <1>5, <1>8, <1>10
  <2>2. \A x \in Admitted(k) : \E y \in Admitted(k) : f[y] = f[x] /\ req[y].now = f[x]
    BY DEF Account
  <2> QED
    BY <1>5, <1>10, <2>1, <2>2
<1>17. Account(k, g)'
  <2>1. Cardinality(Batch(k, g, Opened(k))') = b.count
    <3>1. Batch(k, g, Opened(k))' = Batch(k, g, s)'
      BY <1>4 DEF Batch
    <3> QED
      BY <1>12, <3>1
  <2> QED
    BY <1>4, <1>8, <1>13, <1>14, <1>15, <1>16, <2>1 DEF Account
<1> QED
    BY <1>17

(* A statement of PrismaRateLimitStore.incr keeps the account of its key,  *)
(* admit it or refuse it, and the accounts of the others.                  *)
LEMMA IncrKeeps ==
    ASSUME LInv, NEW r \in Requests, Incr(r)
    PROVE LInv'
<1>1. PICK k \in Keys, b \in [count : Nat, resetAt : Nat], q \in RequestRecord :
            /\ k = req[r].key /\ b = Upserted(bucket[k], req[r].now) /\ req[r].pc = "hooked"
            /\ bucket' = [bucket EXCEPT ![k] = b]
            /\ req' = [req EXCEPT ![r] = q] /\ q.key = k /\ q.now = req[r].now /\ q.at = clock
            /\ q.pc = IF b.count > Limit[k] THEN "refused" ELSE "admitted"
            /\ clock' = clock
    BY IncrDecides
<1>2. LimiterTyped'
    BY <1>1 DEF LInv, LimiterTyped
<1>3. /\ req \in [Requests -> RequestRecord] /\ bucket \in [Keys -> [count : Nat, resetAt : Nat]]
      /\ req'[r] = q /\ bucket'[k] = b
      /\ \A x \in Requests : x # r => req'[x] = req[x]
      /\ \A m \in Keys : m # k => bucket'[m] = bucket[m]
    BY <1>1 DEF LInv, LimiterTyped
<1>4. /\ q.now \in Nat /\ clock \in Nat /\ clock <= LastTick /\ q.now <= clock /\ clock - q.now < Window
      /\ Window \in Nat /\ Window > 0 /\ LastTick \in Nat
  <2>1. q.now \in Nat
    BY DEF RequestRecord
  <2>2. clock \in Nat /\ clock <= LastTick /\ req[r].at \in Nat
    BY DEF LInv, LimiterTyped, RequestRecord
  <2>3. req[r].now <= req[r].at /\ req[r].at <= clock /\ clock - req[r].now < Window
    BY <1>1 DEF LInv, Prompt
  <2> QED
    BY <1>1, <2>1, <2>2, <2>3, LimitAssumption
<1>5. Prompt'
  <2> SUFFICES ASSUME NEW x \in Requests
               PROVE /\ req'[x].now <= req'[x].at /\ req'[x].at <= clock'
                     /\ req'[x].at - req'[x].now < Window
                     /\ req'[x].pc = "hooked" => clock' - req'[x].now < Window
    BY DEF Prompt
  <2>1. CASE x = r
    BY <1>1, <1>3, <1>4, <2>1
  <2>2. CASE x # r
    BY <1>1, <1>3, <2>2 DEF LInv, Prompt
  <2> QED
    BY <2>1, <2>2
<1>6. \/ bucket[k].resetAt <= q.now /\ b.count = 1 /\ b.resetAt = q.now + Window
      \/ bucket[k].resetAt > q.now /\ b.count = bucket[k].count + 1 /\ b.resetAt = bucket[k].resetAt
  <2>1. PICK o \in [count : Nat, resetAt : Nat] : o = bucket[k]
    BY <1>3
  <2>0. PICK n \in Nat : n = q.now
    BY <1>4
  <2>2. b = Upserted(o, n)
    BY <1>1, <2>0, <2>1
  <2>3. \/ o.resetAt <= n /\ b.count = 1 /\ b.resetAt = n + Window
        \/ o.resetAt > n /\ b.count = o.count + 1 /\ b.resetAt = o.resetAt
    <3>1. CASE o.resetAt <= n
      BY <2>2, <3>1 DEF Upserted
    <3>2. CASE o.resetAt > n
      BY <2>2, <3>2 DEF Upserted
    <3> QED
      BY <3>1, <3>2
  <2> QED
    BY <2>0, <2>1, <2>3
<1>7. bucket[k].count \in Nat /\ bucket[k].resetAt \in Nat /\ b.count \in Nat /\ Limit[k] \in Nat /\ Limit[k] > 0
    BY <1>3, LimitAssumption
<1>8. ASSUME NEW m \in Keys
      PROVE /\ bucket'[m].count <= Cardinality(Counted(m)')
            /\ bucket'[m].resetAt <= LastTick + Window
            /\ \E opened \in [Requests -> Int] : Account(m, opened)'
  <2>0. /\ bucket[m].count <= Cardinality(Counted(m)) /\ bucket[m].resetAt <= LastTick + Window
        /\ \E opened \in [Requests -> Int] : Account(m, opened)
    BY DEF LInv, Accounts
  <2>1. PICK f \in [Requests -> Int] : Account(m, f)
    BY <2>0
  <2>2. CASE m # k
    <3>1. Counted(m)' = Counted(m) /\ Admitted(m)' = Admitted(m) /\ Opened(m)' = Opened(m)
      BY <1>1, <1>3, <2>2 DEF Counted, Admitted, Opened
    <3>2. \A x \in Admitted(m) : req'[x] = req[x]
      BY <1>1, <1>3, <2>2 DEF Admitted
    <3>3. \A t : Batch(m, f, t)' = Batch(m, f, t)
      BY <3>1 DEF Batch
    <3>4. Account(m, f)'
      BY <1>1, <1>3, <2>1, <2>2, <3>1, <3>2, <3>3 DEF Account
    <3> QED
      BY <1>3, <2>0, <2>2, <3>1, <3>4
  <2>3. CASE m = k
    <3>1. Counted(k)' = Counted(k) \cup {r} /\ r \notin Counted(k)
      BY <1>1, <1>3 DEF Counted
    <3>2. IsFiniteSet(Counted(k)) /\ Cardinality(Counted(k)) \in Nat
      <4>1. Counted(k) \in SUBSET Requests
        BY DEF Counted
      <4> QED
        BY <4>1, FiniteRequests
    <3>3. Cardinality(Counted(k)') = Cardinality(Counted(k)) + 1
      BY <3>1, <3>2, FS_AddElement
    <3>4. b.count <= Cardinality(Counted(k)')
      BY <1>6, <1>7, <2>0, <2>3, <3>2, <3>3
    <3>5. b.resetAt <= LastTick + Window
      BY <1>4, <1>6, <2>0, <2>3
    <3>6. \E opened \in [Requests -> Int] : Account(k, opened)'
      <4>1. CASE b.count <= Limit[k]
        <5>1. q.pc = "admitted"
          BY <1>1, <1>7, <4>1
        <5>2. Account(k, f)
          BY <2>1, <2>3
        <5> QED
          BY <1>1, <4>1, <5>1, <5>2, AdmissionKeepsAccount
      <4>2. CASE b.count > Limit[k]
        <5>1. /\ bucket[k].resetAt > q.now /\ b.count = bucket[k].count + 1 /\ b.resetAt = bucket[k].resetAt
              /\ bucket[k].count >= Limit[k]
          BY <1>6, <1>7, <4>2
        <5>2. Admitted(k)' = Admitted(k) /\ Opened(k)' = Opened(k)
          BY <1>1, <1>3, <4>2, <5>1 DEF Admitted, Opened
        <5>3. \A x \in Admitted(k) : req'[x] = req[x]
          BY <1>1, <1>3 DEF Admitted
        <5>4. \A t : Batch(k, f, t)' = Batch(k, f, t)
          BY <5>2 DEF Batch
        <5>5. Cardinality(Batch(k, f, Opened(k))) = Limit[k]
          BY <1>7, <2>1, <2>3, <5>1 DEF Account
        <5>6. Batch(k, f, Opened(k))' = Batch(k, f, Opened(k))
          BY <5>2 DEF Batch
        <5>7. Account(k, f)'
          BY <1>1, <1>3, <1>7, <2>1, <2>3, <4>2, <5>1, <5>2, <5>3, <5>4, <5>5, <5>6 DEF Account
        <5> QED
          BY <5>7
      <4> QED
        BY <1>7, <4>1, <4>2
    <3> QED
      BY <1>3, <2>3, <3>4, <3>5, <3>6
  <2> QED
    BY <2>2, <2>3
<1>9. ASSUME NEW x \in Requests, NEW m \in Keys, NEW at \in Nat,
             req'[x].pc = "refused", req'[x].key = m, req'[x].at = at
      PROVE Cardinality(Decided(m, "admitted", at - 2 * Window + 1, at)') >= Limit[m]
  <2> DEFINE D == Decided(m, "admitted", at - 2 * Window + 1, at)
  <2>0. /\ D' \in SUBSET Requests /\ IsFiniteSet(D') /\ Cardinality(D') \in Nat
        /\ Limit[m] \in Nat
    <3>1. D' \in SUBSET Requests
      BY DEF Decided
    <3> HIDE DEF D
    <3> QED
      BY <3>1, FiniteRequests, LimitAssumption
  <2>1. CASE x # r
    <3>1. Cardinality(D) >= Limit[m]
      BY <1>3, <1>9, <2>1 DEF LInv, Refusals
    <3>2. D \subseteq D'
      BY <1>1, <1>3 DEF Decided
    <3>3. D \in SUBSET Requests
      BY DEF Decided
    <3> HIDE DEF D
    <3>4. Cardinality(D) <= Cardinality(D') /\ Cardinality(D) \in Nat
      BY <2>0, <3>2, <3>3, FS_Subset, FiniteRequests
    <3> QED
      BY <2>0, <3>1, <3>4 DEF D
  <2>2. CASE x = r
    <3>1. m = k /\ at = clock /\ b.count > Limit[k]
      BY <1>1, <1>3, <1>9, <2>2
    <3>2. bucket[k].resetAt > q.now /\ bucket[k].count >= Limit[k]
      BY <1>6, <1>7, <3>1
    <3>3. PICK f \in [Requests -> Int] : Account(k, f)
      BY DEF LInv, Accounts
    <3>4. Cardinality(Batch(k, f, Opened(k))) = Limit[k]
      BY <1>7, <3>2, <3>3 DEF Account
    <3>5. Opened(k) = bucket[k].resetAt - Window /\ Opened(k) \in Int
      BY <1>4, <1>7 DEF Opened
    <3>6. at - 2 * Window + 1 <= Opened(k)
      BY <1>4, <1>7, <3>1, <3>2, <3>5
    <3>7. \A y \in Batch(k, f, Opened(k)) : y \in D'
      <4> TAKE y \in Batch(k, f, Opened(k))
      <4>1. y \in Requests /\ req[y].key = k /\ req[y].pc = "admitted" /\ f[y] = Opened(k) /\ y # r
        BY <1>1 DEF Batch, Admitted
      <4>2. Opened(k) <= req[y].at /\ req[y].at <= clock /\ req[y].at \in Nat
        <5>1. f[y] <= req[y].at
          BY <3>3, <4>1 DEF Account, Admitted
        <5>2. req[y].at <= clock /\ req[y].at \in Nat
          BY <4>1 DEF LInv, Prompt, LimiterTyped, RequestRecord
        <5> QED
          BY <4>1, <5>1, <5>2
      <4>3. req[y].at \in (at - 2 * Window + 1)..at
        BY <1>4, <3>1, <3>5, <3>6, <4>2
      <4>4. req'[y] = req[y]
        BY <1>3, <4>1
      <4> QED
        BY <3>1, <4>1, <4>3, <4>4 DEF Decided
    <3>8. Batch(k, f, Opened(k)) \subseteq D'
      BY <3>7
    <3> HIDE DEF D
    <3>9. Cardinality(Batch(k, f, Opened(k))) <= Cardinality(D')
      BY <2>0, <3>8, FS_Subset
    <3> QED
      BY <2>0, <3>1, <3>4, <3>9 DEF D
  <2> QED
    BY <2>1, <2>2
<1>10. Accounts'
    BY <1>8 DEF Accounts
<1>11. Refusals'
    BY <1>9 DEF Refusals
<1> QED
    BY <1>2, <1>5, <1>10, <1>11 DEF LInv

(* Requests come in, statements fail and time passes. *)
LEMMA QuietLimiter ==
    ASSUME LInv,
           \/ \E r \in Requests, k \in Keys : Arrive(r, k)
           \/ \E r \in Requests : StoreFails(r)
           \/ Tick
    PROVE LInv'
<1>0. /\ clock \in Nat /\ clock <= LastTick /\ LastTick \in Nat /\ Window \in Nat /\ Window > 0
      /\ bucket \in [Keys -> [count : Nat, resetAt : Nat]] /\ req \in [Requests -> RequestRecord]
    BY LimitAssumption DEF LInv, LimiterTyped
<1>1. ASSUME NEW r \in Requests, NEW q \in RequestRecord, req' = [req EXCEPT ![r] = q],
             req[r].pc \in {"new", "hooked"}, q.pc \in {"hooked", "skipped"},
             q.now <= q.at, q.at = clock, clock - q.now < Window, UNCHANGED <<clock, bucket>>
      PROVE LInv'
  <2>1. LimiterTyped'
    BY <1>0, <1>1 DEF LimiterTyped
  <2>2. Prompt'
    <3> SUFFICES ASSUME NEW x \in Requests
                 PROVE /\ req'[x].now <= req'[x].at /\ req'[x].at <= clock'
                       /\ req'[x].at - req'[x].now < Window
                       /\ req'[x].pc = "hooked" => clock' - req'[x].now < Window
      BY DEF Prompt
    <3>1. CASE x = r
      BY <1>0, <1>1, <3>1
    <3>2. CASE x # r
      BY <1>0, <1>1, <3>2 DEF LInv, Prompt
    <3> QED
      BY <3>1, <3>2
  <2>3. \A x \in Requests : \/ req'[x] = req[x]
                            \/ /\ req[x].pc \notin {"admitted", "refused"}
                               /\ req'[x].pc \notin {"admitted", "refused"}
    BY <1>0, <1>1
  <2>4. Accounts' /\ Refusals'
    BY <1>0, <1>1, <2>3, QuietAccounts
  <2> QED
    BY <2>1, <2>2, <2>4 DEF LInv
<1>2. ASSUME NEW r \in Requests, NEW k \in Keys, Arrive(r, k) PROVE LInv'
  <2> DEFINE q == [pc |-> "hooked", key |-> k, now |-> clock, at |-> clock]
  <2>1. q \in RequestRecord /\ q.pc = "hooked" /\ q.now = clock /\ q.at = clock
    BY <1>0 DEF RequestRecord
  <2>2. req' = [req EXCEPT ![r] = q] /\ req[r].pc = "new" /\ UNCHANGED <<clock, bucket>>
    BY <1>2 DEF Arrive
  <2> HIDE DEF q
  <2>3. q.now <= q.at /\ clock - q.now < Window
    BY <1>0, <2>1
  <2> QED
    BY <1>1, <2>1, <2>2, <2>3
<1>3. ASSUME NEW r \in Requests, StoreFails(r) PROVE LInv'
  <2> DEFINE q == [req[r] EXCEPT !.pc = "skipped", !.at = clock]
  <2>1. req[r] \in RequestRecord
    BY <1>0
  <2>2. q \in RequestRecord /\ q.pc = "skipped" /\ q.now = req[r].now /\ q.at = clock
    BY <1>0, <2>1 DEF RequestRecord
  <2>3. req' = [req EXCEPT ![r] = q] /\ req[r].pc = "hooked" /\ UNCHANGED <<clock, bucket>>
    <3>1. [req EXCEPT ![r].pc = "skipped", ![r].at = clock] = [req EXCEPT ![r] = q]
      BY <1>0
    <3> QED
      BY <1>3, <3>1 DEF StoreFails
  <2> HIDE DEF q
  <2>4. req[r].now \in Nat /\ req[r].at \in Nat
    BY <2>1 DEF RequestRecord
  <2>5. req[r].now <= req[r].at /\ req[r].at <= clock /\ clock - req[r].now < Window
    BY <2>3 DEF LInv, Prompt
  <2>6. q.now <= q.at /\ clock - q.now < Window
    BY <1>0, <2>2, <2>4, <2>5
  <2> QED
    BY <1>1, <2>2, <2>3, <2>6
<1>4. CASE Tick
  <2>1. clock' = clock + 1 /\ clock' <= LastTick /\ UNCHANGED <<bucket, req>>
    BY <1>0, <1>4 DEF Tick
  <2>2. LimiterTyped'
    BY <1>0, <2>1 DEF LimiterTyped
  <2>3. Prompt'
    <3> SUFFICES ASSUME NEW x \in Requests
                 PROVE /\ req'[x].now <= req'[x].at /\ req'[x].at <= clock'
                       /\ req'[x].at - req'[x].now < Window
                       /\ req'[x].pc = "hooked" => clock' - req'[x].now < Window
      BY DEF Prompt
    <3>1. req[x].now \in Nat /\ req[x].at \in Nat
      BY <1>0 DEF RequestRecord
    <3>2. /\ req[x].now <= req[x].at /\ req[x].at <= clock /\ req[x].at - req[x].now < Window
      BY DEF LInv, Prompt
    <3>3. req[x].pc = "hooked" => clock + 1 - req[x].now < Window
      BY <1>4 DEF Tick
    <3> QED
      BY <1>0, <2>1, <3>1, <3>2, <3>3
  <2>4. Accounts' /\ Refusals'
    BY <1>0, <2>1, QuietAccounts
  <2> QED
    BY <2>2, <2>3, <2>4 DEF LInv
<1> QED
    BY <1>2, <1>3, <1>4

LEMMA LimiterKeeps ==
    ASSUME LInv, [Next]_vars
    PROVE LInv'
<1>1. CASE LimiterNext
    BY <1>1, IncrKeeps, QuietLimiter DEF LimiterNext
<1>2. CASE UNCHANGED limiterVars
  <2>1. UNCHANGED <<clock, bucket, req>>
    BY <1>2 DEF limiterVars
  <2>2. LimiterTyped' /\ Prompt'
    BY <2>1 DEF LInv, LimiterTyped, Prompt
  <2>3. clock' \in Nat /\ clock' >= clock
    BY <2>1 DEF LInv, LimiterTyped
  <2>4. Accounts' /\ Refusals'
    BY <2>1, <2>3, QuietAccounts
  <2> QED
    BY <2>2, <2>4 DEF LInv
<1> QED
    BY <1>1, <1>2 DEF Next, vars

LEMMA LimiterInvariant == Spec => []LInv
<1>1. Init => LInv
    BY LimiterStarts DEF Init
<1>2. LInv /\ [Next]_vars => LInv'
    BY LimiterKeeps
<1> QED
    BY <1>1, <1>2, PTL DEF Spec

-----------------------------------------------------------------------------
(* Requests of windows that opened within one window of each other are of  *)
(* one window, and so no more than its limit.                              *)
LEMMA WithinAWindow ==
    ASSUME LInv, NEW k \in Keys, NEW f \in [Requests -> Int], Account(k, f),
           NEW S \in SUBSET Admitted(k), \A x, y \in S : f[x] - f[y] < Window
    PROVE /\ IsFiniteSet(S) /\ Cardinality(S) \in Nat
          /\ Cardinality(S) <= Limit[k]
          /\ \A x \in S : \E y \in Admitted(k) :
                f[y] = f[x] /\ req[y].now = f[x] /\ (y \notin S => Cardinality(S) < Limit[k])
<1>0. Limit[k] \in Nat /\ Window \in Nat /\ Window > 0
    BY LimitAssumption
<1>1. IsFiniteSet(S) /\ Cardinality(S) \in Nat
  <2>1. S \in SUBSET Requests
    BY DEF Admitted
  <2> QED
    BY <2>1, FiniteRequests
<1>2. CASE S = {}
    BY <1>0, <1>1, <1>2, FS_EmptySet
<1>3. CASE S # {}
  <2>1. ASSUME NEW x \in S
        PROVE /\ Cardinality(S) <= Limit[k]
              /\ \E y \in Admitted(k) :
                   f[y] = f[x] /\ req[y].now = f[x] /\ (y \notin S => Cardinality(S) < Limit[k])
    <3> DEFINE B == Batch(k, f, f[x])
    <3>1. \A z \in S : f[z] = f[x]
      <4> TAKE z \in S
      <4>1. f[z] \in Int /\ f[x] \in Int /\ f[z] - f[x] < Window /\ f[x] - f[z] < Window
        BY DEF Admitted
      <4>2. f[z] = f[x] \/ f[z] + Window <= f[x] \/ f[x] + Window <= f[z]
        BY DEF Account
      <4> QED
        BY <1>0, <4>1, <4>2
    <3>2. S \subseteq B
      BY <3>1 DEF Batch
    <3>3. IsFiniteSet(B) /\ Cardinality(B) \in Nat
      <4>1. B \in SUBSET Requests
        BY DEF Batch, Admitted
      <4> HIDE DEF B
      <4> QED
        BY <4>1, FiniteRequests
    <3>4. Cardinality(B) <= Limit[k]
      <4>1. f[x] \in Int
        BY DEF Admitted
      <4> QED
        BY <4>1 DEF Account
    <3>5. PICK y \in Admitted(k) : f[y] = f[x] /\ req[y].now = f[x]
      BY DEF Account
    <3>6. y \in B
      BY <3>5 DEF Batch
    <3> HIDE DEF B
    <3>7. Cardinality(S) <= Cardinality(B) /\ (Cardinality(S) = Cardinality(B) => S = B)
      BY <3>2, <3>3, FS_Subset
    <3>8. Cardinality(S) <= Limit[k] /\ (y \notin S => Cardinality(S) < Limit[k])
      BY <1>0, <1>1, <3>3, <3>4, <3>6, <3>7
    <3> QED
      BY <3>5, <3>8
  <2> QED
    BY <1>1, <1>3, <2>1
<1> QED
    BY <1>2, <1>3

(* No span of one window admits three limits: the requests decided in it   *)
(* are of three windows at most, and the request that opened the first of  *)
(* three was decided before the span began.                                *)
LEMMA BurstIsBounded ==
    ASSUME LInv, NEW k \in Keys, NEW t \in 0..LastTick
    PROVE Cardinality(Decided(k, "admitted", t, t + Window - 1)) < 3 * Limit[k]
<1> DEFINE D == Decided(k, "admitted", t, t + Window - 1)
<1>0. /\ Limit[k] \in Nat /\ Limit[k] > 0 /\ Window \in Nat /\ Window > 0 /\ t \in Int
    BY LimitAssumption
<1>1. PICK f \in [Requests -> Int] : Account(k, f)
    BY DEF LInv, Accounts
<1>2. D \subseteq Admitted(k)
    BY DEF Decided, Admitted
<1>3. \A x \in D : /\ f[x] \in Int /\ f[x] <= t + Window - 1
                   /\ f[x] > t - 2 * Window
  <2> TAKE x \in D
  <2>1. x \in Admitted(k) /\ x \in Requests /\ req[x].at \in t..(t + Window - 1)
    BY <1>2 DEF Decided
  <2>2. req[x].at \in Int /\ t <= req[x].at /\ req[x].at <= t + Window - 1
    BY <1>0, <2>1
  <2>3. f[x] \in Int /\ f[x] <= req[x].at /\ req[x].now < f[x] + Window
    BY <1>1, <2>1 DEF Account
  <2>4. req[x].at - req[x].now < Window /\ req[x].now \in Nat
    BY <2>1 DEF LInv, Prompt, LimiterTyped, RequestRecord
  <2> QED
    BY <1>0, <2>2, <2>3, <2>4
<1> DEFINE A == {x \in D : f[x] <= t - Window}
           B == {x \in D : t - Window < f[x] /\ f[x] <= t}
           C == {x \in D : t < f[x]}
<1>4. D = A \cup B \cup C /\ A \cap B = {} /\ (A \cup B) \cap C = {}
    BY <1>0, <1>3
<1>5. A \in SUBSET Admitted(k) /\ B \in SUBSET Admitted(k) /\ C \in SUBSET Admitted(k)
    BY <1>2
<1>6. /\ \A x, y \in A : f[x] - f[y] < Window
      /\ \A x, y \in B : f[x] - f[y] < Window
      /\ \A x, y \in C : f[x] - f[y] < Window
    BY <1>0, <1>3
<1>7. \A x \in A, y \in Admitted(k) : f[y] = f[x] /\ req[y].now = f[x] => y \notin A
  <2> SUFFICES ASSUME NEW x \in A, NEW y \in A, f[y] = f[x], req[y].now = f[x], y \in Admitted(k)
               PROVE FALSE
    OBVIOUS
  <2>1. req[y].at \in t..(t + Window - 1) /\ y \in Requests
    BY DEF Decided
  <2>2. req[y].at - req[y].now < Window /\ req[y].now \in Nat /\ req[y].at \in Nat
    BY <2>1 DEF LInv, Prompt, LimiterTyped, RequestRecord
  <2>3. f[x] <= t - Window /\ f[x] \in Int
    BY <1>3
  <2> QED
    BY <1>0, <2>1, <2>2, <2>3
<1> HIDE DEF D, A, B, C
<1>8. /\ IsFiniteSet(A) /\ Cardinality(A) \in Nat /\ Cardinality(A) < Limit[k]
  <2>1. IsFiniteSet(A) /\ Cardinality(A) \in Nat
    BY <1>1, <1>5, <1>6, WithinAWindow
  <2>2. CASE A = {}
    BY <1>0, <2>1, <2>2, FS_EmptySet
  <2>3. CASE A # {}
    <3>1. PICK x \in A : TRUE
      BY <2>3
    <3>2. \E y \in Admitted(k) :
            f[y] = f[x] /\ req[y].now = f[x] /\ (y \notin A => Cardinality(A) < Limit[k])
      BY <1>1, <1>5, <1>6, <3>1, WithinAWindow
    <3> QED
      BY <1>7, <2>1, <3>1, <3>2
  <2> QED
    BY <2>1, <2>2, <2>3
<1>9. IsFiniteSet(B) /\ Cardinality(B) \in Nat /\ Cardinality(B) <= Limit[k]
    BY <1>1, <1>5, <1>6, WithinAWindow
<1>10. IsFiniteSet(C) /\ Cardinality(C) \in Nat /\ Cardinality(C) <= Limit[k]
    BY <1>1, <1>5, <1>6, WithinAWindow
<1>11. IsFiniteSet(A \cup B) /\ Cardinality(A \cup B) = Cardinality(A) + Cardinality(B)
    BY <1>4, <1>8, <1>9, FS_Union, FS_EmptySet
<1>12. Cardinality(D) = Cardinality(A \cup B) + Cardinality(C)
  <2>1. Cardinality(A \cup B) \in Nat
    BY <1>8, <1>9, <1>11
  <2>2. Cardinality((A \cup B) \cup C)
          = Cardinality(A \cup B) + Cardinality(C) - Cardinality((A \cup B) \cap C)
    BY <1>10, <1>11, FS_Union
  <2>3. Cardinality((A \cup B) \cap C) = 0
    BY <1>4, FS_EmptySet
  <2> QED
    BY <1>4, <1>10, <2>1, <2>2, <2>3
<1>13. Cardinality(D) < 3 * Limit[k]
    BY <1>0, <1>8, <1>9, <1>10, <1>11, <1>12
<1> QED
    BY <1>13 DEF D

(* The limiter lets through less than three limits in any span of one      *)
(* window, for every limit, window and interleaving of the statements, and *)
(* refuses only a key that had its limit admitted in the last two windows  *)
(* (PrismaRateLimitStore.incr and the plugin's verdict).                   *)
THEOREM LimiterIsFair == Spec => []LimitIsFair
<1>1. LInv => BurstWithinThreeLimits
    BY BurstIsBounded DEF BurstWithinThreeLimits
<1>2. LInv => RefusedOnlyOverLimit
  <2> SUFFICES ASSUME LInv, NEW r \in Requests, req[r].pc = "refused"
               PROVE Cardinality(Decided(req[r].key, "admitted", req[r].at - 2 * Window + 1, req[r].at))
                       >= Limit[req[r].key]
    BY DEF RefusedOnlyOverLimit
  <2>1. req[r].key \in Keys /\ req[r].at \in Nat
    BY DEF LInv, LimiterTyped, RequestRecord
  <2> QED
    BY <2>1 DEF LInv, Refusals
<1> QED
    BY <1>1, <1>2, LimiterInvariant, PTL DEF LimitIsFair

-----------------------------------------------------------------------------
(***************************************************************************)
(* The lists.  First the order of the rows and what First and InOrder make *)
(* of a set of them.                                                       *)
(***************************************************************************)
RowType == [at : 0..LastTime, is : {"none", "open", "there", "gone"}]

LEMMA FiniteIds ==
    ASSUME NEW S \in SUBSET Ids
    PROVE IsFiniteSet(S) /\ Cardinality(S) \in Nat
    BY FeedAssumption, FS_Subset, FS_CardinalityType

(* cursorOrderBy is a strict total order: the time, then the id. *)
LEMMA RowsAreOrdered ==
    ASSUME row \in [Ids -> RowType]
    PROVE /\ \A i, j \in Ids : i = j \/ Precedes(i, j) \/ Precedes(j, i)
          /\ \A i, j \in Ids : Precedes(i, j) => i # j /\ ~ Precedes(j, i)
          /\ \A i, j, k \in Ids : Precedes(i, j) /\ Precedes(j, k) => Precedes(i, k)
<1>1. \A i \in Ids : i \in Nat /\ row[i].at \in Nat
    BY FeedAssumption DEF RowType
<1> DEFINE older(i, j) == row[i].at < row[j].at \/ (row[i].at = row[j].at /\ i < j)
<1>2. /\ \A i, j \in Ids : i = j \/ older(i, j) \/ older(j, i)
      /\ \A i, j \in Ids : older(i, j) => i # j /\ ~ older(j, i)
      /\ \A i, j, k \in Ids : older(i, j) /\ older(j, k) => older(i, k)
    BY <1>1
<1>3. CASE query.order = "asc"
  <2>1. \A i, j \in Ids : Precedes(i, j) <=> older(i, j)
    BY <1>3 DEF Precedes
  <2> HIDE DEF older
  <2> QED
    BY <1>2, <2>1
<1>4. CASE query.order # "asc"
  <2>1. \A i, j \in Ids : Precedes(i, j) <=> i # j /\ ~ older(i, j)
    BY <1>4 DEF Precedes
  <2> HIDE DEF older
  <2>2. \A i, j \in Ids : Precedes(i, j) <=> older(j, i)
    BY <1>2, <2>1
  <2> QED
    BY <1>2, <2>2
<1> QED
    BY <1>3, <1>4

Before(S, i) == {j \in S : Precedes(j, i)}

(* A row that comes before another has fewer rows before it. *)
LEMMA FewerBefore ==
    ASSUME row \in [Ids -> RowType], NEW S \in SUBSET Ids, NEW i \in Ids, NEW j \in S, Precedes(j, i)
    PROVE Cardinality(Before(S, j)) < Cardinality(Before(S, i))
<1>1. Before(S, j) \subseteq Before(S, i) /\ j \in Before(S, i) /\ j \notin Before(S, j)
    BY RowsAreOrdered DEF Before
<1>2. Before(S, i) \in SUBSET Ids /\ Before(S, j) \in SUBSET Ids
    BY DEF Before
<1>3. /\ IsFiniteSet(Before(S, i)) /\ Cardinality(Before(S, i)) \in Nat
      /\ Cardinality(Before(S, j)) \in Nat
    BY <1>2, FiniteIds
<1>4. /\ Cardinality(Before(S, j)) <= Cardinality(Before(S, i))
      /\ Cardinality(Before(S, i)) = Cardinality(Before(S, j)) => Before(S, i) = Before(S, j)
    BY <1>1, <1>3, FS_Subset
<1> QED
    BY <1>1, <1>3, <1>4

(* Rows that are there have a first one. *)
LEMMA FirstRow ==
    ASSUME row \in [Ids -> RowType], NEW S \in SUBSET Ids, S # {}
    PROVE \E i \in S : \A j \in S : ~ Precedes(j, i)
<1> DEFINE N == {Cardinality(Before(S, i)) : i \in S}
<1>1. N \in SUBSET Nat /\ N # {}
  <2>1. \A i \in S : Cardinality(Before(S, i)) \in Nat
    <3> TAKE i \in S
    <3>1. Before(S, i) \in SUBSET Ids
      BY DEF Before
    <3> QED
      BY <3>1, FiniteIds
  <2> QED
    BY <2>1
<1> HIDE DEF N
<1>2. \E m \in N : \A n \in N : m <= n
    BY <1>1, LeastNatural
<1>3. PICK i \in S : \A n \in N : Cardinality(Before(S, i)) <= n
    BY <1>2 DEF N
<1>4. \A j \in S : ~ Precedes(j, i)
  <2> SUFFICES ASSUME NEW j \in S, Precedes(j, i) PROVE FALSE
    OBVIOUS
  <2>1. Cardinality(Before(S, j)) < Cardinality(Before(S, i))
    BY FewerBefore
  <2>2. Cardinality(Before(S, j)) \in N /\ Cardinality(Before(S, i)) \in N
    BY DEF N
  <2>3. Cardinality(Before(S, i)) <= Cardinality(Before(S, j))
    BY <1>3, <2>2
  <2>4. Cardinality(Before(S, j)) \in Nat /\ Cardinality(Before(S, i)) \in Nat
    BY <1>1, <2>2
  <2> QED
    BY <2>1, <2>3, <2>4
<1> QED
    BY <1>4

(* The first n rows of a set: a row left out comes after n of them, and    *)
(* after every one of them.                                                *)
LEMMA FirstRows ==
    ASSUME row \in [Ids -> RowType], NEW S \in SUBSET Ids, NEW n \in Nat
    PROVE /\ First(n, S) \subseteq S
          /\ n > 0 /\ S # {} => First(n, S) # {}
          /\ \A i \in S \ First(n, S) :
               /\ Cardinality(First(n, S)) >= n
               /\ \A j \in First(n, S) : Precedes(j, i)
          /\ \A i \in First(n, S) : Cardinality(Before(S, i)) < n
<1>1. First(n, S) = {i \in S : Cardinality(Before(S, i)) < n}
    BY DEF First, Before
<1>2. \A i \in Ids : /\ Before(S, i) \in SUBSET Ids /\ IsFiniteSet(Before(S, i))
                     /\ Cardinality(Before(S, i)) \in Nat
    BY FiniteIds DEF Before
<1>3. First(n, S) \in SUBSET Ids /\ IsFiniteSet(First(n, S)) /\ Cardinality(First(n, S)) \in Nat
    BY <1>1, FiniteIds
<1>4. ASSUME NEW i \in S \ First(n, S), NEW j \in First(n, S) PROVE Precedes(j, i)
  <2>1. CASE Precedes(i, j)
    <3>1. Cardinality(Before(S, i)) < Cardinality(Before(S, j))
      BY <1>1, <1>4, <2>1, FewerBefore
    <3> QED
      BY <1>1, <1>2, <1>4, <3>1
  <2>2. i \in Ids /\ j \in Ids /\ i # j
    BY <1>3, <1>4
  <2> QED
    BY <2>1, <2>2, RowsAreOrdered
<1>5. ASSUME NEW i \in S \ First(n, S), Cardinality(First(n, S)) < n PROVE FALSE
  <2>1. PICK m \in S \ First(n, S) : \A j \in S \ First(n, S) : ~ Precedes(j, m)
    <3>1. S \ First(n, S) \in SUBSET Ids /\ S \ First(n, S) # {}
      BY <1>5
    <3> QED
      BY <3>1, FirstRow
  <2>2. Before(S, m) \subseteq First(n, S)
    BY <2>1 DEF Before
  <2>3. Cardinality(Before(S, m)) <= Cardinality(First(n, S))
    BY <1>3, <2>2, FS_Subset
  <2>4. m \in First(n, S)
    BY <1>1, <1>2, <1>3, <1>5, <2>1, <2>3
  <2> QED
    BY <2>1, <2>4
<1>6. ASSUME n > 0, S # {} PROVE First(n, S) # {}
  <2>1. PICK m \in S : \A j \in S : ~ Precedes(j, m)
    BY <1>6, FirstRow
  <2>2. Before(S, m) = {}
    BY <2>1 DEF Before
  <2>3. Cardinality(Before(S, m)) = 0
    BY <2>2, FS_EmptySet
  <2> QED
    BY <1>1, <1>6, <2>1, <2>3
<1>7. \A i \in S \ First(n, S) : Cardinality(First(n, S)) >= n
    BY <1>3, <1>5
<1> QED
    BY <1>1, <1>4, <1>6, <1>7

(* Rows can be put in order, each once: by how many come before it. *)
LEMMA OrderExists ==
    ASSUME row \in [Ids -> RowType], NEW S \in SUBSET Ids
    PROVE \E s \in [1..Cardinality(S) -> S] :
            \A m, n \in 1..Cardinality(S) : m < n => Precedes(s[m], s[n])
<1>0. IsFiniteSet(S) /\ Cardinality(S) \in Nat
    BY FiniteIds
<1> DEFINE place == [i \in S |-> Cardinality(Before(S, i)) + 1]
<1>1. \A i \in S : Cardinality(Before(S, i)) \in Nat /\ Cardinality(Before(S, i)) < Cardinality(S)
  <2> TAKE i \in S
  <2>1. Before(S, i) \subseteq S /\ i \notin Before(S, i)
    BY RowsAreOrdered DEF Before
  <2>2. Before(S, i) \in SUBSET Ids
    BY <2>1
  <2>3. Cardinality(Before(S, i)) \in Nat
    BY <2>2, FiniteIds
  <2>4. /\ Cardinality(Before(S, i)) <= Cardinality(S)
        /\ Cardinality(S) = Cardinality(Before(S, i)) => S = Before(S, i)
    BY <1>0, <2>1, FS_Subset
  <2> QED
    BY <1>0, <2>1, <2>3, <2>4
<1>2. place \in [S -> 1..Cardinality(S)]
    BY <1>0, <1>1
<1>3. \A i, j \in S : Precedes(i, j) => place[i] < place[j]
  <2> SUFFICES ASSUME NEW i \in S, NEW j \in S, Precedes(i, j) PROVE place[i] < place[j]
    OBVIOUS
  <2>1. Cardinality(Before(S, i)) < Cardinality(Before(S, j))
    BY FewerBefore
  <2> QED
    BY <1>1, <2>1
<1> HIDE DEF place
<1>4. \A i, j \in S : place[i] = place[j] => i = j
  <2> SUFFICES ASSUME NEW i \in S, NEW j \in S, place[i] = place[j], i # j PROVE FALSE
    OBVIOUS
  <2>1. Precedes(i, j) \/ Precedes(j, i)
    BY RowsAreOrdered
  <2>2. place[i] \in Nat /\ place[j] \in Nat
    BY <1>0, <1>2
  <2> QED
    BY <1>3, <2>1, <2>2
<1>5. place \in Surjection(S, 1..Cardinality(S))
  <2>1. place \in Injection(S, 1..Cardinality(S))
    BY <1>2, <1>4 DEF Injection, IsInjective
  <2>2. IsFiniteSet(1..Cardinality(S)) /\ Cardinality(1..Cardinality(S)) = Cardinality(S)
    BY <1>0, FS_Interval
  <2> QED
    BY <2>1, <2>2, FS_Injection
<1> DEFINE s == [m \in 1..Cardinality(S) |-> CHOOSE i \in S : place[i] = m]
<1>6. \A m \in 1..Cardinality(S) : s[m] \in S /\ place[s[m]] = m
    BY <1>5 DEF Surjection
<1>7. s \in [1..Cardinality(S) -> S]
    BY <1>6
<1> HIDE DEF s
<1>8. \A m, n \in 1..Cardinality(S) : m < n => Precedes(s[m], s[n])
  <2> SUFFICES ASSUME NEW m \in 1..Cardinality(S), NEW n \in 1..Cardinality(S), m < n
               PROVE Precedes(s[m], s[n])
    OBVIOUS
  <2>1. /\ s[m] \in S /\ s[n] \in S /\ place[s[m]] = m /\ place[s[n]] = n
        /\ m \in Nat /\ n \in Nat
    BY <1>0, <1>6
  <2>2. ~ Precedes(s[n], s[m])
    BY <1>3, <2>1
  <2>3. s[n] # s[m]
    BY <2>1
  <2> QED
    BY <2>1, <2>2, <2>3, RowsAreOrdered
<1> QED
    BY <1>7, <1>8

(* InOrder lists every row of a set once, in the order of the list. *)
LEMMA InOrderLists ==
    ASSUME row \in [Ids -> RowType], NEW S \in SUBSET Ids
    PROVE /\ InOrder(S) \in [1..Cardinality(S) -> S] /\ InOrder(S) \in Seq(S)
          /\ Len(InOrder(S)) = Cardinality(S) /\ Cardinality(S) \in Nat
          /\ \A m, n \in 1..Cardinality(S) : m < n => Precedes(InOrder(S)[m], InOrder(S)[n])
          /\ \A i \in S : \E m \in 1..Cardinality(S) : InOrder(S)[m] = i
<1>0. IsFiniteSet(S) /\ Cardinality(S) \in Nat
    BY FiniteIds
<1>1. PICK s \in [1..Cardinality(S) -> S] :
         s = InOrder(S) /\ \A m, n \in 1..Cardinality(S) : m < n => Precedes(s[m], s[n])
  <2>1. /\ InOrder(S) \in [1..Cardinality(S) -> S]
        /\ \A m, n \in 1..Cardinality(S) : m < n => Precedes(InOrder(S)[m], InOrder(S)[n])
    BY OrderExists DEF InOrder
  <2> QED
    BY <2>1
<1>2. s \in Injection(1..Cardinality(S), S)
  <2> SUFFICES ASSUME NEW m \in 1..Cardinality(S), NEW n \in 1..Cardinality(S), s[m] = s[n], m # n
               PROVE FALSE
    BY DEF Injection, IsInjective
  <2>1. s[m] \in Ids /\ s[n] \in Ids /\ m \in Nat /\ n \in Nat
    BY <1>0
  <2>2. m < n \/ n < m
    BY <2>1
  <2>3. Precedes(s[m], s[n]) \/ Precedes(s[n], s[m])
    BY <1>1, <2>2
  <2> QED
    BY <2>1, <2>3, RowsAreOrdered
<1>3. s \in Surjection(1..Cardinality(S), S)
  <2>1. Cardinality(1..Cardinality(S)) = Cardinality(S)
    BY <1>0, FS_Interval
  <2> QED
    BY <1>0, <1>2, <2>1, FS_Injection
<1>4. \A i \in S : \E m \in 1..Cardinality(S) : s[m] = i
    BY <1>3 DEF Surjection
<1>5. s \in Seq(S) /\ Len(s) = Cardinality(S)
    BY <1>0
<1> QED
    BY <1>0, <1>1, <1>4, <1>5

-----------------------------------------------------------------------------
(***************************************************************************)
(* The walk of a client over the pages.                                    *)
(***************************************************************************)
FeedTyped ==
    /\ row \in [Ids -> RowType] /\ now \in 0..LastTime
    /\ walk \in {"between", "reading", "done"}
    /\ walk # "done" => query \in Queries
    /\ position \in Ids \cup {0}
    /\ DOMAIN window \subseteq query.kinds /\ \A k \in DOMAIN window : window[k] \subseteq Ids
    /\ known \subseteq Ids /\ seen \in Seq(Ids)

(* A row that was committed keeps its time, deleted or not; the cursor and *)
(* the pages name none but these.                                          *)
Committed == {i \in Ids : row[i].is \in {"there", "gone"}}

RowsCommitted ==
    /\ position # 0 => position \in Committed
    /\ \A m \in DOMAIN seen : seen[m] \in Committed
    /\ \A k \in DOMAIN window : window[k] \subseteq Committed
    /\ known \subseteq Committed

(* Until the last page the cursor names the last row returned. *)
CursorIsLast ==
    walk # "done" =>
        \A m \in DOMAIN seen : position # 0 /\ (seen[m] = position \/ Precedes(seen[m], position))

Asked(k, i) == KindOf[i] = k /\ CursorFilter(i) /\ LedgerDateFilter(i)

(* What a table's query returned: rows beyond the cursor, and of the rows  *)
(* that were there all along each one, unless more than a page come before.*)
WindowIsFirst(k) ==
    /\ \A i \in window[k] : CursorFilter(i)
    /\ \A i \in known \cap Visible :
         Asked(k, i) =>
            \/ i \in window[k]
            \/ Cardinality(window[k]) > query.limit /\ \A j \in window[k] : Precedes(j, i)

WindowsAreFirst == walk = "reading" => \A k \in DOMAIN window : WindowIsFirst(k)

FInv == FeedTyped /\ RowsCommitted /\ PagesInOrder /\ CursorIsLast /\ WindowsAreFirst

LEMMA FeedStarts ==
    ASSUME FeedInit \/ FeedIdle
    PROVE FInv
<1>1. /\ position = 0 /\ window = <<>> /\ known = {} /\ seen = <<>>
      /\ DOMAIN window = {} /\ DOMAIN seen = {} /\ seen \in Seq(Ids)
  <2>1. position = 0 /\ window = <<>> /\ known = {} /\ seen = <<>>
    BY DEF FeedInit, FeedIdle
  <2>2. DOMAIN <<>> = {} /\ <<>> \in Seq(Ids)
    OBVIOUS
  <2> QED
    BY <2>1, <2>2
<1>2. row \in [Ids -> RowType]
  <2>1. Absent \in RowType
    BY FeedAssumption DEF Absent, RowType
  <2>2. [at : 1..LastTime, is : {"there"}] \subseteq RowType
    BY FeedAssumption DEF RowType
  <2>3. CASE FeedIdle
    BY <2>1, <2>3 DEF FeedIdle
  <2>4. CASE FeedInit
    BY <2>1, <2>2, <2>4 DEF FeedInit
  <2> QED
    BY <2>3, <2>4
<1>3. now \in 0..LastTime
    BY FeedAssumption DEF FeedInit, FeedIdle
<1>4. walk \in {"between", "done"} /\ (walk # "done" => query \in Queries)
    BY DEF FeedInit, FeedIdle
<1>5. FeedTyped
    BY <1>1, <1>2, <1>3, <1>4 DEF FeedTyped
<1>6. RowsCommitted /\ PagesInOrder /\ CursorIsLast /\ WindowsAreFirst
    BY <1>1, <1>4 DEF RowsCommitted, PagesInOrder, CursorIsLast, WindowsAreFirst
<1> QED
    BY <1>5, <1>6 DEF FInv

(* A step of the tables that keeps the time of the committed rows, and     *)
(* brings back none of them, disturbs no walk.                             *)
LEMMA TablesKeep ==
    ASSUME FInv, row' \in [Ids -> RowType], now' \in 0..LastTime, UNCHANGED <<query, walkVars>>,
           \A i \in Committed : i \in Committed' /\ row'[i].at = row[i].at,
           Committed \cap Visible' \subseteq Visible
    PROVE FInv'
<1>0. UNCHANGED <<query, walk, position, window, known, seen>>
    BY DEF walkVars
<1>1. FeedTyped'
    BY <1>0 DEF FInv, FeedTyped
<1>2. RowsCommitted'
    BY <1>0 DEF FInv, RowsCommitted
<1>3. ASSUME NEW i \in Committed, NEW j \in Committed PROVE Precedes(i, j)' <=> Precedes(i, j)
    BY <1>0, <1>3 DEF Precedes
<1>4. PagesInOrder'
    BY <1>0, <1>3 DEF FInv, PagesInOrder, RowsCommitted
<1>5. CursorIsLast'
  <2> SUFFICES ASSUME walk # "done", NEW m \in DOMAIN seen
               PROVE position # 0 /\ (seen[m] = position \/ Precedes(seen[m], position)')
    BY <1>0 DEF CursorIsLast, Precedes
  <2>1. position # 0 /\ (seen[m] = position \/ Precedes(seen[m], position))
    BY DEF FInv, CursorIsLast
  <2>2. seen[m] \in Committed /\ position \in Committed
    BY <2>1 DEF FInv, RowsCommitted
  <2> QED
    BY <1>0, <2>1, <2>2 DEF Precedes
<1>6. WindowsAreFirst'
  <2> SUFFICES ASSUME walk = "reading", NEW k \in DOMAIN window PROVE WindowIsFirst(k)'
    BY <1>0 DEF WindowsAreFirst, WindowIsFirst
  <2>1. WindowIsFirst(k)
    BY DEF FInv, WindowsAreFirst
  <2>2. window[k] \subseteq Committed /\ known \subseteq Committed /\ (position # 0 => position \in Committed)
    BY DEF FInv, RowsCommitted
  <2>3. ASSUME NEW i \in Committed PROVE CursorFilter(i)' <=> CursorFilter(i)
    <3>1. CASE position = 0
      BY <1>0, <3>1 DEF CursorFilter
    <3>2. CASE position # 0
      <4>1. Precedes(position, i)' <=> Precedes(position, i)
        BY <1>0, <2>2, <2>3, <3>2 DEF Precedes
      <4> QED
        BY <1>0, <3>2, <4>1 DEF CursorFilter
    <3> QED
      BY <3>1, <3>2
  <2>4. \A i \in window[k] : CursorFilter(i)'
    BY <2>1, <2>2, <2>3 DEF WindowIsFirst
  <2>5. ASSUME NEW i \in known \cap Visible', Asked(k, i)'
        PROVE \/ i \in window[k]
              \/ Cardinality(window[k]) > query.limit /\ \A j \in window[k] : Precedes(j, i)'
    <3>1. i \in Committed /\ i \in Visible
      BY <2>2
    <3>2. Asked(k, i)
      BY <1>0, <2>3, <2>5, <3>1 DEF Asked, LedgerDateFilter
    <3>3. \/ i \in window[k]
          \/ Cardinality(window[k]) > query.limit /\ \A j \in window[k] : Precedes(j, i)
      BY <2>1, <3>1, <3>2 DEF WindowIsFirst
    <3> QED
      BY <1>3, <2>2, <3>1, <3>3
  <2> QED
    BY <1>0, <2>4, <2>5 DEF WindowIsFirst
<1> QED
    BY <1>1, <1>2, <1>4, <1>5, <1>6 DEF FInv

(* Rows are written, committed and deleted, and time passes. *)
LEMMA WritersKeep ==
    ASSUME FInv, Pass \/ \E i \in Ids : Insert(i) \/ Commit(i) \/ Delete(i)
    PROVE FInv'
<1>0. row \in [Ids -> RowType] /\ now \in 0..LastTime
    BY DEF FInv, FeedTyped
<1>1. UNCHANGED <<query, walkVars>>
    BY DEF Pass, Insert, Commit, Delete
<1>2. CASE Pass
  <2>1. row' = row /\ now' \in 0..LastTime
    BY <1>0, <1>2, FeedAssumption DEF Pass
  <2> QED
    BY <1>0, <1>1, <2>1, TablesKeep DEF Committed, Visible
<1>3. ASSUME NEW i \in Ids, NEW r \in RowType, row' = [row EXCEPT ![i] = r], now' = now,
             row[i].is \in {"there", "gone"} => r.at = row[i].at /\ r.is = "gone"
      PROVE FInv'
  <2>1. row' \in [Ids -> RowType] /\ now' \in 0..LastTime
    BY <1>0, <1>3
  <2>2. \A j \in Committed : j \in Committed' /\ row'[j].at = row[j].at
    BY <1>0, <1>3 DEF Committed
  <2>3. Committed \cap Visible' \subseteq Visible
    BY <1>0, <1>3 DEF Committed, Visible
  <2> QED
    BY <1>1, <2>1, <2>2, <2>3, TablesKeep
<1>4. ASSUME NEW i \in Ids, Insert(i) PROVE FInv'
  <2> DEFINE r == [at |-> now, is |-> "open"]
  <2>1. r \in RowType
    BY <1>0 DEF RowType
  <2>2. row' = [row EXCEPT ![i] = r] /\ now' = now /\ row[i].is = "none"
    BY <1>4 DEF Insert, Absent
  <2> HIDE DEF r
  <2> QED
    BY <1>3, <2>1, <2>2
<1>5. ASSUME NEW i \in Ids, Commit(i) PROVE FInv'
  <2> DEFINE r == [row[i] EXCEPT !.is = "there"]
  <2>1. r \in RowType
    BY <1>0 DEF RowType
  <2>2. row' = [row EXCEPT ![i] = r] /\ now' = now /\ row[i].is = "open"
    BY <1>5 DEF Commit
  <2> HIDE DEF r
  <2> QED
    BY <1>3, <2>1, <2>2
<1>6. ASSUME NEW i \in Ids, Delete(i) PROVE FInv'
  <2> DEFINE r == [row[i] EXCEPT !.is = "gone"]
  <2>1. r \in RowType /\ r.at = row[i].at /\ r.is = "gone"
    BY <1>0 DEF RowType
  <2>2. row' = [row EXCEPT ![i] = r] /\ now' = now
    BY <1>6 DEF Delete
  <2> HIDE DEF r
  <2> QED
    BY <1>3, <2>1, <2>2
<1> QED
    BY <1>2, <1>4, <1>5, <1>6

(* A page is asked for, and the tables are read one by one. *)
LEMMA ReadsKeep ==
    ASSUME FInv, Request \/ \E k \in query.kinds : ReadTable(k)
    PROVE FInv'
<1>0. UNCHANGED <<row, now, query, position, seen>> /\ walk' = "reading" /\ walk # "done"
    BY DEF Request, ReadTable, tableVars
<1>1. row \in [Ids -> RowType] /\ query \in Queries /\ query.limit \in Nat
    BY <1>0, FeedAssumption DEF FInv, FeedTyped
<1>2. \A i, j : Precedes(i, j)' <=> Precedes(i, j)
    BY <1>0 DEF Precedes
<1>3. PagesInOrder' /\ CursorIsLast'
    BY <1>0, <1>2 DEF FInv, PagesInOrder, CursorIsLast, Precedes
<1>4. Committed' = Committed /\ Visible' = Visible /\ Visible \subseteq Committed
    BY <1>0 DEF Committed, Visible
<1>5. CASE Request
  <2>1. window' = <<>> /\ DOMAIN window' = {} /\ known' = Visible
    BY <1>5 DEF Request
  <2>2. FeedTyped'
    BY <1>0, <2>1 DEF FInv, FeedTyped, Visible
  <2>3. RowsCommitted'
    BY <1>0, <1>4, <2>1 DEF FInv, RowsCommitted
  <2>4. WindowsAreFirst'
    BY <2>1 DEF WindowsAreFirst
  <2> QED
    BY <1>3, <2>2, <2>3, <2>4 DEF FInv
<1>6. ASSUME NEW k \in query.kinds, ReadTable(k) PROVE FInv'
  <2> DEFINE T == {i \in Visible : KindOf[i] = k /\ CursorFilter(i) /\ LedgerDateFilter(i)}
  <2>1. /\ known' = known /\ walk = "reading" /\ k \notin DOMAIN window
        /\ window' = [x \in DOMAIN window \cup {k} |-> IF x = k THEN First(query.limit + 1, T) ELSE window[x]]
    BY <1>6 DEF ReadTable, FindMany, TakeForPage
  <2>2. T \in SUBSET Ids /\ T \subseteq Visible /\ \A i \in T : CursorFilter(i)
    BY DEF Visible
  <2>3. query.limit + 1 \in Nat
    BY <1>1
  <2>4. \A i \in Visible : Asked(k, i) => i \in T
    BY DEF Asked
  <2> HIDE DEF T
  <2> DEFINE W == First(query.limit + 1, T)
  <2>5. /\ W \subseteq T
        /\ \A i \in T \ W : Cardinality(W) >= query.limit + 1 /\ \A j \in W : Precedes(j, i)
    BY <1>1, <2>2, <2>3, FirstRows
  <2>6. Cardinality(W) \in Nat
    <3>1. W \in SUBSET Ids
      BY <2>2, <2>5
    <3> QED
      BY <3>1, FiniteIds
  <2> HIDE DEF W
  <2>7. /\ DOMAIN window' = DOMAIN window \cup {k}
        /\ window'[k] = W /\ \A x \in DOMAIN window : window'[x] = window[x]
    BY <2>1 DEF W
  <2>8. FeedTyped'
    BY <1>0, <2>1, <2>2, <2>5, <2>7 DEF FInv, FeedTyped
  <2>9. RowsCommitted'
    BY <1>0, <1>4, <2>1, <2>2, <2>5, <2>7 DEF FInv, RowsCommitted
  <2>10. \A i : /\ CursorFilter(i)' <=> CursorFilter(i)
                /\ \A x : Asked(x, i)' <=> Asked(x, i)
    BY <1>0, <1>2 DEF CursorFilter, Asked, LedgerDateFilter, Precedes
  <2>11. WindowsAreFirst'
    <3> SUFFICES ASSUME NEW x \in DOMAIN window' PROVE WindowIsFirst(x)'
      BY DEF WindowsAreFirst
    <3>1. CASE x # k
      <4>1. WindowIsFirst(x) /\ window'[x] = window[x]
        BY <2>1, <2>7, <3>1 DEF FInv, WindowsAreFirst
      <4> QED
        BY <1>0, <1>2, <1>4, <2>1, <2>10, <4>1 DEF WindowIsFirst
    <3>2. CASE x = k
      <4>1. \A i \in window'[x] : CursorFilter(i)'
        BY <2>2, <2>5, <2>7, <2>10, <3>2
      <4>2. \A i \in known' \cap Visible' : Asked(x, i)' =>
                \/ i \in window'[x]
                \/ Cardinality(window'[x]) > query'.limit /\ \A j \in window'[x] : Precedes(j, i)'
        <5> SUFFICES ASSUME NEW i \in known' \cap Visible', Asked(x, i)', i \notin W
                     PROVE Cardinality(W) > query.limit /\ \A j \in W : Precedes(j, i)
          BY <1>0, <1>2, <2>7, <3>2
        <5>1. i \in T \ W
          BY <1>4, <2>4, <2>10, <3>2
        <5> QED
          BY <1>1, <2>5, <2>6, <5>1
      <4> QED
        BY <4>1, <4>2 DEF WindowIsFirst
    <3> QED
      BY <3>1, <3>2
  <2> QED
    BY <1>3, <2>8, <2>9, <2>11 DEF FInv
<1> QED
    BY <1>5, <1>6

(* A row that was there all along and is not in the page comes after the   *)
(* page's last row, and the page says that there is more: it was read and  *)
(* left out by the merge, or a whole page of its own table comes before it.*)
LEMMA NoRowIsSkipped ==
    ASSUME FInv, walk = "reading", DOMAIN window = query.kinds,
           NEW rows, rows = UNION {window[k] : k \in DOMAIN window},
           NEW i \in known \cap Visible, KindOf[i] \in query.kinds, CursorFilter(i),
           LedgerDateFilter(i), i \notin First(query.limit, rows)
    PROVE /\ Cardinality(rows) > query.limit
          /\ \A j \in First(query.limit, rows) : Precedes(j, i)
<1>0. /\ row \in [Ids -> RowType] /\ query.limit \in Nat /\ rows \in SUBSET Ids /\ i \in Ids
      /\ IsFiniteSet(rows) /\ Cardinality(rows) \in Nat
  <2>1. row \in [Ids -> RowType] /\ query \in Queries /\ i \in Ids
    BY DEF FInv, FeedTyped, Visible
  <2>2. rows \in SUBSET Ids
    BY DEF FInv, FeedTyped
  <2>3. IsFiniteSet(rows) /\ Cardinality(rows) \in Nat
    BY <2>2, FiniteIds
  <2> QED
    BY <2>1, <2>2, <2>3, FeedAssumption
<1> DEFINE n == query.limit
           P == First(n, rows)
<1>1. /\ P \subseteq rows
      /\ \A x \in rows \ P : Cardinality(P) >= n /\ \A j \in P : Precedes(j, x)
      /\ \A j \in P : Cardinality(Before(rows, j)) < n
    BY <1>0, FirstRows
<1>2. i \notin P
    OBVIOUS
<1>3. IsFiniteSet(P) /\ Cardinality(P) \in Nat
  <2>1. P \in SUBSET Ids
    BY <1>0, <1>1
  <2> QED
    BY <2>1, FiniteIds
<1> HIDE DEF P
<1>4. CASE i \in rows
  <2>1. Cardinality(P) >= n /\ \A j \in P : Precedes(j, i)
    BY <1>1, <1>2, <1>4
  <2>2. Cardinality(P) <= Cardinality(rows) /\ (Cardinality(rows) = Cardinality(P) => rows = P)
    BY <1>0, <1>1, FS_Subset
  <2>3. Cardinality(rows) > n
    BY <1>0, <1>2, <1>3, <1>4, <2>1, <2>2
  <2> QED
    BY <2>1, <2>3 DEF P
<1>5. CASE i \notin rows
  <2>1. PICK k \in DOMAIN window : k = KindOf[i]
    OBVIOUS
  <2>2. i \notin window[k] /\ window[k] \subseteq rows
    BY <1>5
  <2>3. Cardinality(window[k]) > n /\ \A j \in window[k] : Precedes(j, i)
    BY <2>1, <2>2 DEF FInv, WindowsAreFirst, WindowIsFirst, Asked
  <2>4. Cardinality(window[k]) <= Cardinality(rows) /\ Cardinality(window[k]) \in Nat
    <3>1. window[k] \in SUBSET Ids
      BY <1>0, <2>2
    <3> QED
      BY <1>0, <2>2, <3>1, FS_Subset, FiniteIds
  <2>5. ASSUME NEW j \in P PROVE Precedes(j, i)
    <3>1. j \in Ids /\ j \in rows /\ j # i
      BY <1>0, <1>1, <1>5
    <3>2. ASSUME Precedes(i, j) PROVE FALSE
      <4>1. window[k] \subseteq Before(rows, j)
        BY <1>0, <2>2, <2>3, <3>1, <3>2, RowsAreOrdered DEF Before
      <4>2. Before(rows, j) \in SUBSET Ids
        BY <1>0 DEF Before
      <4>3. IsFiniteSet(Before(rows, j)) /\ Cardinality(Before(rows, j)) \in Nat
        BY <4>2, FiniteIds
      <4>4. Cardinality(window[k]) <= Cardinality(Before(rows, j))
        BY <4>1, <4>3, FS_Subset
      <4>5. Cardinality(Before(rows, j)) < n
        BY <1>1
      <4> QED
        BY <1>0, <2>3, <2>4, <4>3, <4>4, <4>5
    <3> QED
      BY <1>0, <3>1, <3>2, RowsAreOrdered
  <2>6. Cardinality(rows) > n
    BY <1>0, <2>3, <2>4
  <2> QED
    BY <2>5, <2>6 DEF P
<1> QED
    BY <1>4, <1>5

(* What a response adds to the pages, and the cursor it carries. *)
LEMMA RespondDoes ==
    ASSUME FInv, Respond
    PROVE \E rows \in SUBSET Ids, items \in Seq(Ids), size \in Nat :
            /\ rows = UNION {window[k] : k \in DOMAIN window}
            /\ items \in [1..size -> First(query.limit, rows)] /\ Len(items) = size
            /\ \A m, n \in 1..size : m < n => Precedes(items[m], items[n])
            /\ \A i \in First(query.limit, rows) : \E m \in 1..size : items[m] = i
            /\ seen' = seen \o items
            /\ \/ walk' = "done" /\ position' = position /\ ~ (Cardinality(rows) > query.limit)
               \/ walk' = "between" /\ size > 0 /\ position' = items[size]
            /\ First(query.limit, rows) \subseteq rows
<1> DEFINE rows == UNION {window[k] : k \in DOMAIN window}
           P == First(query.limit, rows)
<1>0. row \in [Ids -> RowType] /\ query.limit \in Nat /\ query.limit > 0 /\ walk = "reading"
    BY FeedAssumption DEF FInv, FeedTyped, Respond
<1>1. rows \in SUBSET Ids
    BY DEF FInv, FeedTyped
<1>2. /\ seen' = seen \o InOrder(P)
      /\ walk' = IF Cardinality(rows) > query.limit THEN "between" ELSE "done"
      /\ position' = IF Cardinality(rows) > query.limit THEN Last(InOrder(P)) ELSE position
    BY DEF Respond, BuildPage
<1> HIDE DEF rows
<1>3. P \subseteq rows /\ (rows # {} => P # {})
    BY <1>0, <1>1, FirstRows
<1>4. P \in SUBSET Ids
    BY <1>1, <1>3
<1> HIDE DEF P
<1>5. PICK items : items = InOrder(P)
    OBVIOUS
<1>6. PICK size : size = Cardinality(P)
    OBVIOUS
<1>7. /\ items \in [1..size -> P] /\ items \in Seq(P) /\ Len(items) = size /\ size \in Nat
      /\ \A m, n \in 1..size : m < n => Precedes(items[m], items[n])
      /\ \A i \in P : \E m \in 1..size : items[m] = i
    BY <1>0, <1>4, <1>5, <1>6, InOrderLists
<1>8. items \in Seq(Ids)
    BY <1>4, <1>7
<1>9. \/ walk' = "done" /\ position' = position /\ ~ (Cardinality(rows) > query.limit)
      \/ walk' = "between" /\ size > 0 /\ position' = items[size]
  <2>1. CASE Cardinality(rows) > query.limit
    <3>1. rows # {}
      BY <1>0, <2>1, FS_EmptySet
    <3>2. size > 0
      BY <1>3, <1>7, <3>1
    <3> QED
      BY <1>2, <1>5, <1>7, <2>1, <3>2 DEF Last
  <2>2. CASE ~ (Cardinality(rows) > query.limit)
    BY <1>2, <2>2
  <2> QED
    BY <2>1, <2>2
<1>10. rows = UNION {window[k] : k \in DOMAIN window} /\ P = First(query.limit, rows)
    BY DEF rows, P
<1>11. /\ items \in [1..size -> First(query.limit, rows)] /\ Len(items) = size
       /\ \A m, n \in 1..size : m < n => Precedes(items[m], items[n])
       /\ \A i \in First(query.limit, rows) : \E m \in 1..size : items[m] = i
       /\ seen' = seen \o items
       /\ First(query.limit, rows) \subseteq rows
    BY <1>2, <1>3, <1>5, <1>7, <1>10
<1>12. rows \in SUBSET Ids /\ items \in Seq(Ids) /\ size \in Nat
    BY <1>1, <1>7, <1>8
<1> WITNESS rows \in SUBSET Ids, items \in Seq(Ids), size \in Nat
<1> QED
    BY <1>9, <1>10, <1>11

(* The rows of a page come after those of the pages before it. *)
LEMMA RespondKeeps ==
    ASSUME FInv, Respond
    PROVE FInv'
<1>0. /\ UNCHANGED <<row, now, query, known>> /\ walk = "reading" /\ DOMAIN window = query.kinds
      /\ window' = <<>> /\ DOMAIN window' = {}
  <2>1. DOMAIN <<>> = {}
    OBVIOUS
  <2> QED
    BY <2>1 DEF Respond, tableVars
<1>1. PICK rows \in SUBSET Ids, items \in Seq(Ids), size \in Nat :
            /\ rows = UNION {window[k] : k \in DOMAIN window}
            /\ items \in [1..size -> First(query.limit, rows)] /\ Len(items) = size
            /\ \A m, n \in 1..size : m < n => Precedes(items[m], items[n])
            /\ \A i \in First(query.limit, rows) : \E m \in 1..size : items[m] = i
            /\ seen' = seen \o items
            /\ \/ walk' = "done" /\ position' = position /\ ~ (Cardinality(rows) > query.limit)
               \/ walk' = "between" /\ size > 0 /\ position' = items[size]
            /\ First(query.limit, rows) \subseteq rows
    BY RespondDoes
<1>2. /\ row \in [Ids -> RowType] /\ seen \in Seq(Ids) /\ position \in Ids \cup {0}
      /\ Len(seen) \in Nat /\ DOMAIN seen = 1..Len(seen)
    BY DEF FInv, FeedTyped
<1>3. \A m \in 1..size : items[m] \in rows /\ items[m] \in Ids
    BY <1>1
<1>4. /\ seen' \in Seq(Ids) /\ DOMAIN seen' = 1..(Len(seen) + size)
      /\ \A m \in 1..Len(seen) : seen'[m] = seen[m]
      /\ \A m \in 1..size : seen'[Len(seen) + m] = items[m]
    BY <1>1, <1>2
<1>5. ASSUME NEW m \in DOMAIN seen'
      PROVE \/ m \in 1..Len(seen) /\ m \in DOMAIN seen /\ seen'[m] = seen[m]
            \/ \E n \in 1..size : m = Len(seen) + n /\ seen'[m] = items[n]
  <2>1. CASE m <= Len(seen)
    BY <1>2, <1>4, <2>1
  <2>2. CASE m > Len(seen)
    <3>1. m - Len(seen) \in 1..size /\ m = Len(seen) + (m - Len(seen))
      BY <1>1, <1>2, <1>4, <2>2
    <3> QED
      BY <1>4, <3>1
  <2> QED
    BY <1>1, <1>2, <1>4, <2>1, <2>2
<1>6. /\ rows \subseteq Committed
      /\ \A x \in rows : CursorFilter(x)
    BY <1>0, <1>1 DEF FInv, RowsCommitted, WindowsAreFirst, WindowIsFirst
<1>7. FeedTyped'
  <2>1. walk' \in {"between", "done"} /\ position' \in Ids \cup {0}
    BY <1>1, <1>2, <1>3
  <2> QED
    BY <1>0, <1>4, <2>1 DEF FInv, FeedTyped
<1>8. RowsCommitted'
  <2>1. Committed' = Committed
    BY <1>0 DEF Committed
  <2>2. \A m \in DOMAIN seen' : seen'[m] \in Committed
    BY <1>3, <1>5, <1>6 DEF FInv, RowsCommitted
  <2>3. position' # 0 => position' \in Committed
    BY <1>1, <1>3, <1>6 DEF FInv, RowsCommitted
  <2> QED
    BY <1>0, <2>1, <2>2, <2>3 DEF FInv, RowsCommitted
<1>9. ASSUME NEW m \in DOMAIN seen, NEW n \in 1..size PROVE Precedes(seen[m], items[n])
  <2>1. position # 0 /\ (seen[m] = position \/ Precedes(seen[m], position)) /\ seen[m] \in Ids
    BY <1>0, <1>2 DEF FInv, CursorIsLast
  <2>2. Precedes(position, items[n]) /\ items[n] \in Ids
    BY <1>3, <1>6, <2>1 DEF CursorFilter
  <2> QED
    BY <1>2, <2>1, <2>2, RowsAreOrdered
<1>10. \A i, j : Precedes(i, j)' <=> Precedes(i, j)
    BY <1>0 DEF Precedes
<1>11. ASSUME NEW m \in DOMAIN seen', NEW n \in DOMAIN seen', m < n
       PROVE Precedes(seen'[m], seen'[n])
  <2>1. CASE m \in DOMAIN seen /\ seen'[m] = seen[m] /\ n \in DOMAIN seen /\ seen'[n] = seen[n]
    BY <1>11, <2>1 DEF FInv, PagesInOrder
  <2>2. CASE m \in DOMAIN seen /\ seen'[m] = seen[m] /\ \E p \in 1..size : seen'[n] = items[p]
    BY <1>9, <2>2
  <2>3. CASE /\ \E p \in 1..size : m = Len(seen) + p /\ seen'[m] = items[p]
             /\ n \in 1..Len(seen)
    BY <1>2, <1>11, <2>3
  <2>4. CASE /\ \E p \in 1..size : m = Len(seen) + p /\ seen'[m] = items[p]
             /\ \E p \in 1..size : n = Len(seen) + p /\ seen'[n] = items[p]
    <3>1. PICK p \in 1..size : m = Len(seen) + p /\ seen'[m] = items[p]
      BY <2>4
    <3>2. PICK o \in 1..size : n = Len(seen) + o /\ seen'[n] = items[o]
      BY <2>4
    <3>3. p < o
      BY <1>2, <1>11, <3>1, <3>2
    <3> QED
      BY <1>1, <3>1, <3>2, <3>3
  <2> QED
    BY <1>5, <2>1, <2>2, <2>3, <2>4
<1>12. PagesInOrder'
  <2>1. \A m, n \in DOMAIN seen' : m < n => Precedes(seen'[m], seen'[n])
    BY <1>11
  <2> QED
    BY <1>0, <2>1 DEF PagesInOrder, Precedes
<1>13. CursorIsLast'
  <2> SUFFICES ASSUME walk' # "done", NEW m \in DOMAIN seen'
               PROVE position' # 0 /\ (seen'[m] = position' \/ Precedes(seen'[m], position'))
    BY <1>0 DEF CursorIsLast, Precedes
  <2>1. size > 0 /\ position' = items[size] /\ size \in 1..size /\ position' \in Ids
    BY <1>1, <1>3
  <2>2. position' # 0
    BY <2>1, FeedAssumption
  <2>3. CASE m \in DOMAIN seen /\ seen'[m] = seen[m]
    BY <1>9, <2>1, <2>2, <2>3
  <2>4. CASE \E n \in 1..size : seen'[m] = items[n]
    <3>1. PICK n \in 1..size : seen'[m] = items[n]
      BY <2>4
    <3>2. n = size \/ n < size
      BY <1>1
    <3>3. n < size => Precedes(items[n], items[size])
      BY <1>1, <2>1, <3>1
    <3> QED
      BY <2>1, <2>2, <3>1, <3>2, <3>3
  <2> QED
    BY <1>5, <2>3, <2>4
<1>14. WindowsAreFirst'
    BY <1>0 DEF WindowsAreFirst
<1> QED
    BY <1>7, <1>8, <1>12, <1>13, <1>14 DEF FInv

LEMMA FeedKeeps ==
    ASSUME FInv, [Next]_vars
    PROVE FInv'
<1>1. CASE FeedNext
    BY <1>1, ReadsKeep, RespondKeeps, WritersKeep DEF FeedNext
<1>2. CASE UNCHANGED feedVars
  <2>1. UNCHANGED <<row, now, query, walkVars>>
    BY <1>2 DEF feedVars, tableVars
  <2>2. row' \in [Ids -> RowType] /\ now' \in 0..LastTime
    BY <2>1 DEF FInv, FeedTyped
  <2>3. Committed' = Committed /\ Visible' = Visible
    BY <2>1 DEF Committed, Visible
  <2> QED
    BY <2>1, <2>2, <2>3, TablesKeep
<1> QED
    BY <1>1, <1>2 DEF Next, vars

LEMMA FeedInvariant == Spec => []FInv
<1>1. Init => FInv
    BY FeedStarts DEF Init
<1>2. FInv /\ [Next]_vars => FInv'
    BY FeedKeeps
<1> QED
    BY <1>1, <1>2, PTL DEF Spec

(* A walk over the pages meets every row at most once and in order, and    *)
(* leaves out no row that was there while its page was read, for every     *)
(* set of rows, page size, order and interleaving of writes with the reads *)
(* of the tables (cursorFilter, takeForPage, buildPage).                   *)
THEOREM WalksAreComplete == Spec => WalkIsComplete
<1> DEFINE Whole ==
       /\ PagesInOrder'
       /\ \A i \in known \cap Visible :
            (/\ walk = "reading" /\ walk' # "reading"
             /\ position = 0 \/ Precedes(position, i)
             /\ KindOf[i] \in query.kinds /\ query.from <= row[i].at /\ row[i].at <= query.to) =>
            i \in Range(seen') \/ (walk' = "between" /\ Precedes(position', i))
<1>1. ASSUME FInv, [Next]_vars PROVE [Whole]_feedVars
  <2>1. FInv'
    BY <1>1, FeedKeeps
  <2>2. PagesInOrder'
    BY <2>1 DEF FInv
  <2>3. CASE UNCHANGED feedVars
    BY <2>3
  <2>4. CASE walk' = walk \/ walk # "reading"
    BY <2>2, <2>4
  <2>5. ASSUME Respond,
               NEW i \in known \cap Visible, position = 0 \/ Precedes(position, i),
               KindOf[i] \in query.kinds, query.from <= row[i].at, row[i].at <= query.to
        PROVE i \in Range(seen') \/ (walk' = "between" /\ Precedes(position', i))
    <3>1. PICK rows \in SUBSET Ids, items \in Seq(Ids), size \in Nat :
            /\ rows = UNION {window[k] : k \in DOMAIN window}
            /\ items \in [1..size -> First(query.limit, rows)] /\ Len(items) = size
            /\ \A m, n \in 1..size : m < n => Precedes(items[m], items[n])
            /\ \A x \in First(query.limit, rows) : \E m \in 1..size : items[m] = x
            /\ seen' = seen \o items
            /\ \/ walk' = "done" /\ position' = position /\ ~ (Cardinality(rows) > query.limit)
               \/ walk' = "between" /\ size > 0 /\ position' = items[size]
            /\ First(query.limit, rows) \subseteq rows
      BY <1>1, <2>5, RespondDoes
    <3>2. walk = "reading" /\ DOMAIN window = query.kinds
      BY <2>5 DEF Respond
    <3>3. CursorFilter(i) /\ LedgerDateFilter(i)
      BY <2>5 DEF CursorFilter, LedgerDateFilter
    <3>4. CASE i \in First(query.limit, rows)
      <4>1. PICK m \in 1..size : items[m] = i
        BY <3>1, <3>4
      <4>2. seen \in Seq(Ids) /\ Len(seen) \in Nat
        BY <1>1 DEF FInv, FeedTyped
      <4>3. Len(seen) + m \in DOMAIN seen' /\ seen'[Len(seen) + m] = i
        BY <3>1, <4>1, <4>2
      <4> QED
        BY <4>3 DEF Range
    <3>5. CASE i \notin First(query.limit, rows)
      <4>1. /\ Cardinality(rows) > query.limit
            /\ \A j \in First(query.limit, rows) : Precedes(j, i)
        BY <1>1, <2>5, <3>1, <3>2, <3>3, <3>5, NoRowIsSkipped
      <4>2. walk' = "between" /\ position' = items[size] /\ size \in 1..size
        BY <3>1, <4>1
      <4>3. position' \in First(query.limit, rows)
        BY <3>1, <4>2
      <4> QED
        BY <4>1, <4>2, <4>3
    <3> QED
      BY <3>4, <3>5
  <2>6. CASE Respond
    BY <2>2, <2>5, <2>6
  <2>7. CASE FeedNext
    <3>1. Respond \/ walk' = walk \/ walk # "reading"
      BY <2>7 DEF FeedNext, Request, ReadTable, Insert, Commit, Delete, Pass, walkVars
    <3> QED
      BY <2>4, <2>6, <3>1
  <2> QED
    BY <1>1, <2>3, <2>7 DEF Next, vars
<1>2. FInv /\ [Next]_vars => [Whole]_feedVars
    BY <1>1
<1>3. [][Whole]_feedVars => WalkIsComplete
    BY PTL DEF WalkIsComplete
<1> QED
    BY <1>2, <1>3, FeedInvariant, PTL DEF Spec

-----------------------------------------------------------------------------
(* The types of the calls, the limiter and the lists together.  A bucket   *)
(* counts no more than the requests that reached it.                       *)
THEOREM TrafficIsTyped == Spec => []TypeOK
<1>1. LInv => LimiterTypeOK
  <2> SUFFICES ASSUME LInv PROVE LimiterTypeOK
    OBVIOUS
  <2>0. MaxRequests \in Nat /\ LastTick \in Nat /\ Window \in Nat
    BY LimitAssumption
  <2>1. clock \in Nat /\ clock <= LastTick
    BY DEF LInv, LimiterTyped
  <2>2. bucket \in [Keys -> [count : 0..MaxRequests, resetAt : 0..(LastTick + Window)]]
    <3>1. bucket \in [Keys -> [count : Nat, resetAt : Nat]]
      BY DEF LInv, LimiterTyped
    <3>2. \A k \in Keys : bucket[k].count <= MaxRequests /\ bucket[k].resetAt <= LastTick + Window
      <4> TAKE k \in Keys
      <4>1. Counted(k) \in SUBSET Requests
        BY DEF Counted
      <4>2. Cardinality(Counted(k)) \in Nat /\ Cardinality(Counted(k)) <= MaxRequests
        BY <4>1, FiniteRequests
      <4>3. bucket[k].count <= Cardinality(Counted(k)) /\ bucket[k].resetAt <= LastTick + Window
        BY DEF LInv, Accounts
      <4> QED
        BY <2>0, <3>1, <4>2, <4>3
    <3>3. \A k \in Keys : bucket[k] \in [count : 0..MaxRequests, resetAt : 0..(LastTick + Window)]
      BY <2>0, <3>1, <3>2
    <3> QED
      BY <3>1, <3>3
  <2>3. req \in [Requests -> [pc : {"new", "hooked", "admitted", "refused", "skipped"},
                             key : Keys, now : 0..LastTick, at : 0..LastTick]]
    <3>1. req \in [Requests -> RequestRecord]
      BY DEF LInv, LimiterTyped
    <3>2. \A r \in Requests : req[r].now <= LastTick /\ req[r].at <= LastTick
      <4> TAKE r \in Requests
      <4>1. req[r].now \in Nat /\ req[r].at \in Nat
        BY <3>1 DEF RequestRecord
      <4>2. req[r].now <= req[r].at /\ req[r].at <= clock
        BY DEF LInv, Prompt
      <4> QED
        BY <2>0, <2>1, <4>1, <4>2
    <3>3. \A r \in Requests : req[r] \in [pc : {"new", "hooked", "admitted", "refused", "skipped"},
                                         key : Keys, now : 0..LastTick, at : 0..LastTick]
      BY <2>0, <3>1, <3>2 DEF RequestRecord
    <3> QED
      BY <3>1, <3>3
  <2> QED
    BY <2>0, <2>1, <2>2, <2>3 DEF LimiterTypeOK
<1>2. FInv => FeedTypeOK
    BY DEF FInv, FeedTyped, FeedTypeOK, RowType
<1> QED
    BY <1>1, <1>2, CallsAreTyped, LimiterInvariant, FeedInvariant, PTL DEF TypeOK
=============================================================================
