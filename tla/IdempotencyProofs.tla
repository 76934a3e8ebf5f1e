------------------------- MODULE IdempotencyProofs -------------------------
(***************************************************************************)
(* Proofs about Idempotency.  BoundInv holds whatever crashes, times out   *)
(* or overruns; SoleInv and BudgetInv need an in-progress timeout that no  *)
(* request outlives.                                                       *)
(***************************************************************************)
EXTENDS Idempotency, FiniteSetTheorems, TLAPS

(* A request that runs under the key does so for the payload the key is    *)
(* bound to, and one that is about to record has committed.                *)
HeldIsOwn ==
    /\ \A r \in Running : keyState # "absent" /\ keyHash = PayloadOf[r]
    /\ \A r \in Requests : at[r] = "record" => PayloadOf[r] \in done
    /\ keyState # "absent" => keyHash \in Payloads

BoundInv == TypeOK /\ HeldIsOwn /\ CompletedIsCommitted /\ ReplayIsOwn

(* A request holds the key if it runs and will still write the row: one    *)
(* whose 408 the plugin has recorded runs on without it.                   *)
Holds(r) == r \in Running /\ ~ Recorded(r)

(* The key has one holder at most, and its reservation is fresh. *)
SoleInv ==
    /\ \A r, s \in Requests : Holds(r) /\ Holds(s) => r = s
    /\ \A r \in Requests : Holds(r) => keyState = "in_progress" /\ age = "fresh"

(* requests that may still commit, holders and runaways alike *)
Ops == {r \in Requests : at[r] = "op"}

(* another request may get the key, now or after the holder's next step *)
Open ==
    \/ keyState \in {"absent", "failed"}
    \/ keyState = "in_progress" /\ \A r \in Requests : ~ Holds(r)
    \/ \E r \in Requests : Holds(r) /\ at[r] = "fail"

(* Commits made and commits that may come are within the budget, with one  *)
(* to spare for the next holder as long as the key is open.                *)
BudgetInv ==
    /\ commits + Cardinality(Ops) =< CommitBudget
    /\ Open => commits + Cardinality(Ops) + 1 =< CommitBudget

-----------------------------------------------------------------------------
LEMMA BoundInit == Init => BoundInv
<1> SUFFICES ASSUME Init PROVE BoundInv
    OBVIOUS
<1>1. TypeOK
    BY DEF Init, TypeOK, Points, Answers
<1>2. HeldIsOwn
    BY DEF Init, HeldIsOwn, Running
<1>3. CompletedIsCommitted
    BY DEF Init, CompletedIsCommitted
<1>4. ReplayIsOwn
    BY DEF Init, ReplayIsOwn
<1> QED
    BY <1>1, <1>2, <1>3, <1>4 DEF BoundInv

LEMMA BoundStep == BoundInv /\ [Next]_vars => BoundInv'
<1> SUFFICES ASSUME BoundInv, [Next]_vars PROVE BoundInv'
    OBVIOUS
<1> USE KeyAssumption DEF BoundInv, HeldIsOwn, CompletedIsCommitted, ReplayIsOwn,
        Running, TypeOK, Points, Answers
<1>1. CASE UNCHANGED vars
    BY <1>1 DEF vars, rowVars, reqVars, pastVars
<1>2. ASSUME NEW r \in Requests, Lookup(r) PROVE BoundInv'
    BY <1>2 DEF Lookup, Goto, Finish, rowVars, pastVars
<1>3. ASSUME NEW r \in Requests, Insert(r) PROVE BoundInv'
    BY <1>3 DEF Insert, Reserve, Goto, Finish, rowVars, pastVars
<1>4. ASSUME NEW r \in Requests, Reclaim(r) PROVE BoundInv'
    BY <1>4 DEF Reclaim, Reclaimable, Reserve, Goto, Finish, rowVars, pastVars
<1>5. ASSUME NEW r \in Requests, Reread(r) PROVE BoundInv'
    BY <1>5 DEF Reread, Goto, Finish, rowVars, pastVars
<1>6. ASSUME NEW r \in Requests, Operate(r) PROVE BoundInv'
    BY <1>6 DEF Operate, Commit, CommitCap, Goto, Fault, rowVars, pastVars
<1>7. ASSUME NEW r \in Requests, Record(r) PROVE BoundInv'
    BY <1>7 DEF Record, Recorded, Goto, Finish, Fault, rowVars, pastVars
<1>8. ASSUME NEW r \in Requests, MarkFailed(r) PROVE BoundInv'
    BY <1>8 DEF MarkFailed, Recorded, FailKey, Finish, Fault, rowVars, pastVars
<1>9. ASSUME NEW r \in Requests, Timeout(r) PROVE BoundInv'
    BY <1>9 DEF Timeout, FailKey, rowVars, pastVars
<1>10. ASSUME NEW r \in Requests, Crash(r) PROVE BoundInv'
    BY <1>10 DEF Crash, Finish, Fault, rowVars
<1>11. CASE Age
    BY <1>11 DEF Age, reqVars, pastVars
<1> QED
    BY <1>1, <1>2, <1>3, <1>4, <1>5, <1>6, <1>7, <1>8, <1>9, <1>10, <1>11
       DEF Next, Step

-----------------------------------------------------------------------------
(* The key row and the requests keep their types, in both layers.          *)
THEOREM TypeCorrect == Spec => []TypeOK
<1>1. BoundInv => TypeOK
    BY DEF BoundInv
<1> QED
    BY BoundInit, BoundStep, <1>1, PTL DEF Spec

(* Nobody is answered with another payload's result, or with one that      *)
(* never came about: in both layers, under crashes, timeouts and requests  *)
(* that outlive their reservation.  And a completed key stands for a       *)
(* commit of the payload it is bound to.                                   *)
THEOREM RepliesHonest == Spec => []RepliesAreHonest
<1>1. BoundInv => RepliesAreHonest
    BY DEF BoundInv, RepliesAreHonest
<1> QED
    BY BoundInit, BoundStep, <1>1, PTL DEF Spec

-----------------------------------------------------------------------------
LEMMA SoleInit == Init => SoleInv
BY DEF Init, SoleInv, Holds, Running

LEMMA SoleStep ==
    ASSUME TimeoutOutlivesRequest
    PROVE  BoundInv /\ SoleInv /\ [Next]_vars => SoleInv'
<1> SUFFICES ASSUME BoundInv, SoleInv, [Next]_vars PROVE SoleInv'
    OBVIOUS
<1>0. at \in [Requests -> Points] /\ layer \in {"service", "plugin"}
    BY DEF BoundInv, TypeOK
<1> USE <1>0 DEF SoleInv, Holds, Recorded, Running
<1>1. CASE UNCHANGED vars
    BY <1>1 DEF vars, rowVars, reqVars
<1>2. ASSUME NEW r \in Requests, Lookup(r) PROVE SoleInv'
    BY <1>2 DEF Lookup, Goto, Finish, rowVars
<1>3. ASSUME NEW r \in Requests, Insert(r) PROVE SoleInv'
    BY <1>3 DEF Insert, Reserve, Goto, Finish, rowVars
<1>4. ASSUME NEW r \in Requests, Reclaim(r) PROVE SoleInv'
    BY <1>4 DEF Reclaim, Reclaimable, Reserve, Goto, Finish, rowVars
<1>5. ASSUME NEW r \in Requests, Reread(r) PROVE SoleInv'
    BY <1>5 DEF Reread, Finish, rowVars
<1>6. ASSUME NEW r \in Requests, Operate(r) PROVE SoleInv'
    BY <1>6 DEF Operate, Goto, rowVars
<1>7. ASSUME NEW r \in Requests, Record(r) PROVE SoleInv'
    BY <1>7 DEF Record, Goto, Finish, rowVars
<1>8. ASSUME NEW r \in Requests, MarkFailed(r) PROVE SoleInv'
    BY <1>8 DEF MarkFailed, FailKey, Finish, rowVars
<1>9. ASSUME NEW r \in Requests, Timeout(r) PROVE SoleInv'
    BY <1>9 DEF Timeout, FailKey, rowVars
<1>10. ASSUME NEW r \in Requests, Crash(r) PROVE SoleInv'
    BY <1>10 DEF Crash, Finish, rowVars
<1>11. CASE Age
    BY <1>11 DEF Age, reqVars
<1> QED
    BY <1>1, <1>2, <1>3, <1>4, <1>5, <1>6, <1>7, <1>8, <1>9, <1>10, <1>11
       DEF Next, Step

(* In runIdempotent, as long as no request outlives its reservation, no    *)
(* two requests under one key ever run the operation side by side, crashes *)
(* and failed database calls included.                                     *)
THEOREM ServiceExcludes ==
    ASSUME TimeoutOutlivesRequest
    PROVE  Spec => []ServiceRunsAlone
<1>1. BoundInv /\ SoleInv /\ [Next]_vars => SoleInv'
    BY SoleStep
<1>2. SoleInv => ServiceRunsAlone
    BY DEF SoleInv, ServiceRunsAlone, OneExecution, Holds, Recorded, Running
<1> QED
    BY BoundInit, BoundStep, SoleInit, <1>1, <1>2, PTL DEF Spec

-----------------------------------------------------------------------------
(* How the number of requests that may still commit moves with one of them *)
LEMMA OpsMove ==
    ASSUME TypeOK, NEW r \in Requests, NEW point,
           at' = [at EXCEPT ![r] = point]
    PROVE  /\ Cardinality(Ops) \in Nat
           /\ Cardinality(Ops)' \in Nat
           /\ at[r] = "op" /\ point # "op" =>
                 Cardinality(Ops)' = Cardinality(Ops) - 1
           /\ at[r] # "op" /\ point = "op" =>
                 Cardinality(Ops)' = Cardinality(Ops) + 1
           /\ at[r] # "op" /\ point # "op" =>
                 Cardinality(Ops)' = Cardinality(Ops)
<1>1. at \in [Requests -> Points]
    BY DEF TypeOK
<1>2. IsFiniteSet(Ops)
    BY KeyAssumption, FS_Subset DEF Ops
<1>3. Ops' = IF point = "op" THEN Ops \cup {r} ELSE Ops \ {r}
    BY <1>1 DEF Ops
<1>4. r \in Ops <=> at[r] = "op"
    BY DEF Ops
<1>5. Cardinality(Ops) \in Nat
    BY <1>2, FS_CardinalityType
<1>6. CASE point = "op"
    BY <1>2, <1>3, <1>4, <1>5, <1>6, FS_AddElement
<1>7. CASE point # "op"
    <2>1. IsFiniteSet(Ops \ {r}) /\ Cardinality(Ops \ {r}) \in Nat
        BY <1>2, FS_RemoveElement, FS_CardinalityType
    <2>2. Cardinality(Ops \ {r}) = IF r \in Ops THEN Cardinality(Ops) - 1
                                                ELSE Cardinality(Ops)
        BY <1>2, FS_RemoveElement
    <2> QED
        BY <1>3, <1>4, <1>5, <1>7, <2>1, <2>2
<1> QED
    BY <1>6, <1>7

(* ... when it is done with the operation *)
LEMMA OpsLeave ==
    ASSUME TypeOK, NEW r \in Requests, NEW point, at[r] = "op", point # "op",
           at' = [at EXCEPT ![r] = point]
    PROVE  /\ Cardinality(Ops) \in Nat /\ Cardinality(Ops)' \in Nat
           /\ Cardinality(Ops)' = Cardinality(Ops) - 1
BY OpsMove

(* ... and when it is not about to run the operation, before or after *)
LEMMA OpsStay ==
    ASSUME TypeOK, NEW r \in Requests, NEW point, at[r] # "op", point # "op",
           at' = [at EXCEPT ![r] = point]
    PROVE  Cardinality(Ops) \in Nat /\ Cardinality(Ops)' = Cardinality(Ops)
BY OpsMove

LEMMA BudgetInit == Init => BudgetInv
<1> SUFFICES ASSUME Init PROVE BudgetInv
    OBVIOUS
<1>1. Cardinality(Ops) = 0
    <2>1. Ops = {}
        BY DEF Init, Ops
    <2> QED
        BY <2>1, FS_EmptySet
<1>2. commits = 0 /\ faults = 0 /\ timeouts = 0
    BY DEF Init
<1> QED
    BY <1>1, <1>2 DEF BudgetInv, CommitBudget

(* A reservation takes up the commit that an open key had to spare. *)
LEMMA ReserveFits ==
    ASSUME BoundInv, BudgetInv, Open, NEW r \in Requests, at[r] # "op",
           \A s \in Requests : ~ Holds(s),
           Reserve(r), UNCHANGED pastVars
    PROVE  BudgetInv'
<1>0. /\ TypeOK /\ at \in [Requests -> Points]
      /\ commits \in Nat /\ CommitBudget \in Nat
    BY DEF BoundInv, TypeOK, CommitBudget
<1>1. commits' = commits /\ CommitBudget' = CommitBudget
    BY DEF Reserve, CommitBudget, pastVars
<1>2. commits + Cardinality(Ops) + 1 =< CommitBudget
    BY DEF BudgetInv
<1>3. CASE layer = "plugin" /\ r \in timedOut
    <2>1. at' = [at EXCEPT ![r] = "idle"]
        BY <1>3 DEF Reserve, Finish
    <2>2. Cardinality(Ops) \in Nat /\ Cardinality(Ops)' = Cardinality(Ops)
        BY <1>0, <2>1, OpsStay
    <2> QED
        BY <1>0, <1>1, <1>2, <2>2 DEF BudgetInv
<1>4. CASE ~ (layer = "plugin" /\ r \in timedOut)
    <2>1. at' = [at EXCEPT ![r] = "op"] /\ timedOut' = timedOut /\ layer' = layer
        BY <1>4 DEF Reserve, Goto
    <2>2. Cardinality(Ops) \in Nat /\ Cardinality(Ops)' = Cardinality(Ops) + 1
        BY <1>0, <2>1, OpsMove
    <2>3. ~ Open'
        BY <1>0, <1>4, <2>1 DEF Reserve, Open, Holds, Recorded, Running
    <2> QED
        BY <1>0, <1>1, <1>2, <2>2, <2>3 DEF BudgetInv
<1> QED
    BY <1>3, <1>4

LEMMA BudgetStep ==
    ASSUME TimeoutOutlivesRequest
    PROVE  BoundInv /\ SoleInv /\ BudgetInv /\ [Next]_vars => BudgetInv'
<1> SUFFICES ASSUME BoundInv, SoleInv, BudgetInv, [Next]_vars PROVE BudgetInv'
    OBVIOUS
<1>0. /\ TypeOK
      /\ at \in [Requests -> Points] /\ layer \in {"service", "plugin"}
      /\ commits \in Nat /\ faults \in Nat /\ timeouts \in Nat
    BY DEF BoundInv, TypeOK
<1> USE DEF BudgetInv, CommitBudget, Open, Holds, Recorded, Running
<1>1. CASE UNCHANGED vars
    BY <1>1 DEF vars, rowVars, reqVars, pastVars, Ops
<1>2. ASSUME NEW r \in Requests, Lookup(r) PROVE BudgetInv'
    <2>1. CASE \E point \in {"insert", "reclaim"} : Goto(r, point)
        BY <1>0, <1>2, <2>1, OpsMove DEF Lookup, Goto, rowVars, pastVars
    <2>2. CASE \E an, p : Finish(r, an, p)
        BY <1>0, <1>2, <2>2, OpsMove DEF Lookup, Finish, rowVars, pastVars
    <2> QED
        BY <1>2, <2>1, <2>2 DEF Lookup
<1>3. ASSUME NEW r \in Requests, Insert(r) PROVE BudgetInv'
    <2>1. CASE Reserve(r) /\ keyState = "absent"
        <3>1. Open /\ \A q \in Requests : ~ Holds(q)
            BY <2>1 DEF SoleInv
        <3> HIDE DEF BudgetInv, CommitBudget, Open, Holds, Recorded, Running
        <3> QED
            BY <1>3, <2>1, <3>1, ReserveFits DEF Insert
    <2>2. CASE Goto(r, "reread") /\ UNCHANGED rowVars
        <3>1. at[r] # "op" /\ at' = [at EXCEPT ![r] = "reread"] /\ timedOut' = timedOut
            BY <1>3, <2>2 DEF Insert, Goto
        <3>2. Cardinality(Ops) \in Nat /\ Cardinality(Ops)' = Cardinality(Ops)
            BY <1>0, <3>1, OpsStay
        <3> QED
            BY <1>0, <1>3, <2>2, <3>1, <3>2 DEF Insert, rowVars, pastVars
    <2> QED
        BY <1>3, <2>1, <2>2 DEF Insert
<1>4. ASSUME NEW r \in Requests, Reclaim(r) PROVE BudgetInv'
    <2>1. CASE Reserve(r) /\ Reclaimable(r)
        <3>1. Open /\ \A q \in Requests : ~ Holds(q)
            BY <2>1 DEF SoleInv, Reclaimable
        <3> HIDE DEF BudgetInv, CommitBudget, Open, Holds, Recorded, Running
        <3> QED
            BY <1>4, <2>1, <3>1, ReserveFits DEF Reclaim
    <2>2. CASE Goto(r, "reread") /\ UNCHANGED rowVars
        <3>1. at[r] # "op" /\ at' = [at EXCEPT ![r] = "reread"] /\ timedOut' = timedOut
            BY <1>4, <2>2 DEF Reclaim, Goto
        <3>2. Cardinality(Ops) \in Nat /\ Cardinality(Ops)' = Cardinality(Ops)
            BY <1>0, <3>1, OpsStay
        <3> QED
            BY <1>0, <1>4, <2>2, <3>1, <3>2 DEF Reclaim, rowVars, pastVars
    <2> QED
        BY <1>4, <2>1, <2>2 DEF Reclaim
<1>5. ASSUME NEW r \in Requests, Reread(r) PROVE BudgetInv'
    BY <1>0, <1>5, OpsMove DEF Reread, Finish, rowVars, pastVars
<1>6. ASSUME NEW r \in Requests, Operate(r) PROVE BudgetInv'
    <2>1. /\ Cardinality(Ops) \in Nat /\ Cardinality(Ops)' \in Nat
          /\ Cardinality(Ops)' = Cardinality(Ops) - 1
        <3>1. \E point \in {"record", "fail"} : at' = [at EXCEPT ![r] = point]
            BY <1>6 DEF Operate, Goto
        <3>2. at[r] = "op"
            BY <1>6 DEF Operate
        <3> QED
            BY <1>0, <3>1, <3>2, OpsMove
    <2>2. layer' = layer /\ timedOut' = timedOut /\ keyState' = keyState
        BY <1>6 DEF Operate, Goto, rowVars
    <2>3. CASE Goto(r, "record") /\ Commit(r) /\ UNCHANGED <<faults, timeouts>>
        <3>1. commits' =< commits + 1 /\ commits' \in Nat
            BY <1>0, <2>3 DEF Commit, CommitCap
        <3>2. Open' => Open
            BY <1>0, <1>6, <2>2, <2>3 DEF Operate, Goto, SoleInv
        <3> QED
            BY <1>0, <2>1, <2>2, <2>3, <3>1, <3>2
    <2>4. CASE Goto(r, "fail") /\ UNCHANGED pastVars
        BY <1>0, <2>1, <2>2, <2>4 DEF pastVars
    <2>5. CASE Goto(r, "fail") /\ Commit(r) /\ Fault
        <3>1. commits' =< commits + 1 /\ commits' \in Nat /\ faults' = faults + 1
            BY <1>0, <2>5 DEF Commit, CommitCap, Fault
        <3> QED
            BY <1>0, <2>1, <2>2, <2>5, <3>1 DEF Fault
    <2> QED
        BY <1>6, <2>3, <2>4, <2>5 DEF Operate
<1>7. ASSUME NEW r \in Requests, Record(r) PROVE BudgetInv'
    <2>1. CASE Recorded(r)
        BY <1>0, <1>7, <2>1, OpsMove DEF Record, Finish, rowVars, pastVars
    <2>2. CASE ~ Recorded(r) /\ keyState' = "completed"
        BY <1>0, <1>7, <2>2, OpsMove DEF Record, Goto, Finish, Fault, rowVars, pastVars, SoleInv
    <2>3. CASE ~ Recorded(r) /\ Fault
        BY <1>0, <1>7, <2>3, OpsMove DEF Record, Goto, Finish, Fault, rowVars, pastVars
    <2> QED
        BY <1>7, <2>1, <2>2, <2>3 DEF Record
<1>8. ASSUME NEW r \in Requests, MarkFailed(r) PROVE BudgetInv'
    <2>1. /\ Cardinality(Ops) \in Nat /\ Cardinality(Ops)' = Cardinality(Ops)
          /\ commits' = commits /\ layer' = layer /\ timeouts' = timeouts
        <3>1. at[r] # "op" /\ at' = [at EXCEPT ![r] = "idle"]
            BY <1>8 DEF MarkFailed, Finish
        <3>2. Cardinality(Ops) \in Nat /\ Cardinality(Ops)' = Cardinality(Ops)
            BY <1>0, <3>1, OpsStay
        <3> QED
            BY <1>8, <3>2 DEF MarkFailed, FailKey, Fault, rowVars
    <2>2. CASE Recorded(r)
        <3>1. Open' => Open
            BY <1>0, <1>8, <2>2 DEF MarkFailed, Finish, rowVars
        <3> QED
            BY <1>0, <1>8, <2>1, <2>2, <3>1 DEF MarkFailed
    <2>3. CASE ~ Recorded(r)
        <3>1. Open
            BY <1>8, <2>3 DEF MarkFailed
        <3>2. faults' = faults \/ faults' = faults + 1
            BY <1>8 DEF MarkFailed, Fault
        <3> QED
            BY <1>0, <2>1, <3>1, <3>2
    <2> QED
        BY <2>2, <2>3
<1>9. ASSUME NEW r \in Requests, Timeout(r) PROVE BudgetInv'
    <2>1. Ops' = Ops
        BY <1>9 DEF Timeout, Ops
    <2>2. Cardinality(Ops) \in Nat
        BY KeyAssumption, FS_Subset, FS_CardinalityType DEF Ops
    <2> QED
        BY <1>0, <1>9, <2>1, <2>2 DEF Timeout, FailKey, rowVars
<1>10. ASSUME NEW r \in Requests, Crash(r) PROVE BudgetInv'
    <2>1. /\ Cardinality(Ops) \in Nat /\ Cardinality(Ops)' \in Nat
          /\ Cardinality(Ops)' =< Cardinality(Ops)
        <3>1. at' = [at EXCEPT ![r] = "idle"]
            BY <1>10 DEF Crash, Finish
        <3>2. CASE at[r] = "op"
            <4>1. /\ Cardinality(Ops) \in Nat /\ Cardinality(Ops)' \in Nat
                  /\ Cardinality(Ops)' = Cardinality(Ops) - 1
                BY <1>0, <3>1, <3>2, OpsLeave
            <4> QED
                BY <4>1
        <3>3. CASE at[r] # "op"
            <4>1. Cardinality(Ops) \in Nat /\ Cardinality(Ops)' = Cardinality(Ops)
                BY <1>0, <3>1, <3>3, OpsStay
            <4> QED
                BY <4>1
        <3> QED
            BY <3>2, <3>3
    <2>2. /\ commits' = commits /\ layer' = layer
          /\ faults' = faults + 1 /\ timeouts' = timeouts
        BY <1>10 DEF Crash, Fault, rowVars
    <2> QED
        BY <1>0, <2>1, <2>2
<1>11. CASE Age
    BY <1>11 DEF Age, reqVars, pastVars, Ops
<1> QED
    BY <1>1, <1>2, <1>3, <1>4, <1>5, <1>6, <1>7, <1>8, <1>9, <1>10, <1>11
       DEF Next, Step

(* One key commits once, and once more at most for every crash, every      *)
(* failed database call and, at the HTTP layer, every 408: for any number  *)
(* of racing, failing, timed-out and resent requests, as long as none      *)
(* outlives its reservation.                                               *)
THEOREM CommitsWithinBudget ==
    ASSUME TimeoutOutlivesRequest
    PROVE  Spec => []CommitsAreBought
<1>1. BoundInv /\ SoleInv /\ [Next]_vars => SoleInv'
    BY SoleStep
<1>2. BoundInv /\ SoleInv /\ BudgetInv /\ [Next]_vars => BudgetInv'
    BY BudgetStep
<1>3. BoundInv /\ BudgetInv => CommitsAreBought
    <2> SUFFICES ASSUME BoundInv, BudgetInv PROVE CommitsAreBought
        OBVIOUS
    <2>1. Cardinality(Ops) \in Nat
        BY KeyAssumption, FS_Subset, FS_CardinalityType DEF Ops
    <2>2. commits \in Nat /\ CommitBudget \in Nat
        BY DEF BoundInv, TypeOK, CommitBudget
    <2> QED
        BY <2>1, <2>2 DEF BudgetInv, CommitsAreBought
<1> QED
    BY BoundInit, BoundStep, SoleInit, BudgetInit, <1>1, <1>2, <1>3, PTL DEF Spec
=============================================================================
