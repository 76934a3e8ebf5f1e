---------------------------- MODULE Idempotency ----------------------------
(***************************************************************************)
(* One idempotency key: the row (userId, scope, key) and every request     *)
(* that carries it.  Two layers of the API share the protocol:             *)
(*                                                                         *)
(*  - "service": runIdempotent of services/idempotency.ts, wrapped around  *)
(*    one database transaction (settlement create and confirm, treasury);  *)
(*  - "plugin": the preHandler and onSend hooks of plugins/idempotency.ts, *)
(*    wrapped around a whole route (POST /settlements/execute).            *)
(*                                                                         *)
(* Above both sits plugins/request-timeout.ts, which answers a slow        *)
(* request with 408 while its handler runs on.  A request is a process of  *)
(* the server; when it is over the same slot serves the client's next try. *)
(* Nothing calls cleanupExpiredIdempotencyKeys, so no step deletes a row.  *)
(***************************************************************************)
EXTENDS Integers, FiniteSets

CONSTANTS
    Requests,                \* requests in flight under this key
    Payloads,                \* request bodies, told apart by their hash
    PayloadOf,               \* request -> what it carries
    None,                    \* SQL NULL
    MaxFaults,               \* bound: crashes and failed database calls
    MaxTimeouts,             \* bound: requests answered 408
    TimeoutOutlivesRequest   \* TRUE if IN_PROGRESS_TIMEOUT_MS exceeds every request

ASSUME KeyAssumption ==
    /\ IsFiniteSet(Requests)
    /\ PayloadOf \in [Requests -> Payloads]
    /\ None \notin Payloads
    /\ MaxFaults \in Nat
    /\ MaxTimeouts \in Nat
    /\ TimeoutOutlivesRequest \in BOOLEAN

VARIABLES
    \* the row; age: updatedAt against the in-progress timeout
    keyState, keyHash, keyResp, age,
    \* the layer its scope belongs to, for good
    layer,
    \* the requests: where they are, and the answer their client last got
    at, timedOut, answer, got,
    \* history: the payloads whose operation committed, and how many commits
    \* there were in all (CommitCap stands for that many or more)
    done, commits, faults, timeouts

rowVars  == <<keyState, keyHash, keyResp, age, layer>>
reqVars  == <<at, timedOut, answer, got>>
pastVars == <<done, commits, faults, timeouts>>
vars == <<rowVars, reqVars, pastVars>>

Answers == {"none", "ok", "replayed", "conflict", "busy", "error", "timeout"}
Points  == {"idle", "insert", "reclaim", "reread", "op", "record", "fail"}

(* requests that have reserved the key and not yet recorded an outcome *)
Running == {r \in Requests : at[r] \in {"op", "record", "fail"}}

Init ==
    /\ keyState = "absent" /\ keyHash = None /\ keyResp = None
    /\ age = "fresh"
    /\ layer \in {"service", "plugin"}
    /\ at = [r \in Requests |-> "idle"]
    /\ timedOut = {}
    /\ answer = [r \in Requests |-> "none"]
    /\ got = [r \in Requests |-> None]
    /\ done = {} /\ commits = 0
    /\ faults = 0 /\ timeouts = 0

-----------------------------------------------------------------------------
Goto(r, point) ==
    /\ at' = [at EXCEPT ![r] = point]
    /\ UNCHANGED <<timedOut, answer, got>>

(* the reply, dropped if the 408 went out first *)
Finish(r, a, p) ==
    /\ at' = [at EXCEPT ![r] = "idle"]
    /\ timedOut' = timedOut \ {r}
    /\ answer' = [answer EXCEPT ![r] = IF r \in timedOut THEN "timeout" ELSE a]
    /\ got' = [got EXCEPT ![r] = IF r \in timedOut THEN None ELSE p]

Fault ==
    /\ faults < MaxFaults
    /\ faults' = faults + 1
    /\ UNCHANGED timeouts

(* the first findUnique, and what it decides *)
Lookup(r) ==
    /\ at[r] = "idle"
    /\ \/ keyState = "absent" /\ Goto(r, "insert")
       \/ /\ keyState # "absent" /\ keyHash # PayloadOf[r]
          /\ Finish(r, "conflict", None)
       \/ /\ keyState # "absent" /\ keyHash = PayloadOf[r]
          /\ \/ keyState = "completed" /\ Finish(r, "replayed", keyResp)
             \/ keyState = "in_progress" /\ age = "fresh" /\ Finish(r, "busy", None)
             \/ keyState = "in_progress" /\ age = "stale" /\ Goto(r, "reclaim")
             \/ keyState = "failed" /\ Goto(r, "reclaim")
    /\ UNCHANGED <<rowVars, pastVars>>

(* The row is written in_progress.  In the plugin a request that has had   *)
(* its 408 by now goes no further: Fastify does not run the handler of a   *)
(* reply already sent.                                                     *)
Reserve(r) ==
    /\ UNCHANGED layer
    /\ keyState' = "in_progress"
    /\ keyHash' = PayloadOf[r]
    /\ keyResp' = None
    /\ age' = "fresh"
    /\ IF layer = "plugin" /\ r \in timedOut THEN Finish(r, "timeout", None)
                                          ELSE Goto(r, "op")

(* create, against the unique index on (userId, scope, key) *)
Insert(r) ==
    /\ at[r] = "insert"
    /\ IF keyState = "absent" THEN Reserve(r)
                              ELSE Goto(r, "reread") /\ UNCHANGED rowVars
    /\ UNCHANGED pastVars

(* mutant: the update's where clause trusts the state the lookup saw *)
ReclaimableSettled(r) ==
    /\ keyHash = PayloadOf[r]
    /\ keyState = "in_progress" => age = "stale"

(* mutant: an abandoned reservation is not reclaimed *)
ReclaimableFailed(r) ==
    /\ keyHash = PayloadOf[r]
    /\ keyState = "failed"

(* the where clause of the conditional update *)
Reclaimable(r) ==
    /\ keyHash = PayloadOf[r]
    /\ \/ keyState = "failed"
       \/ keyState = "in_progress" /\ age = "stale"

Reclaim(r) ==
    /\ at[r] = "reclaim"
    /\ IF Reclaimable(r) THEN Reserve(r)
                         ELSE Goto(r, "reread") /\ UNCHANGED rowVars
    /\ UNCHANGED pastVars

(* mutant: the loser of the race replays without a look at the payload *)
RereadUnbound(r) ==
    /\ at[r] = "reread"
    /\ \/ keyState = "completed" /\ Finish(r, "replayed", keyResp)
       \/ keyState # "completed" /\ Finish(r, "busy", None)
    /\ UNCHANGED <<rowVars, pastVars>>

(* the loser of an insert or a reclaim reads the winner's row *)
Reread(r) ==
    /\ at[r] = "reread"
    /\ \/ keyHash # PayloadOf[r] /\ Finish(r, "conflict", None)
       \/ /\ keyHash = PayloadOf[r]
          /\ \/ keyState = "completed" /\ Finish(r, "replayed", keyResp)
             \/ keyState # "completed" /\ Finish(r, "busy", None)
    /\ UNCHANGED <<rowVars, pastVars>>

CommitCap == MaxFaults + MaxTimeouts + 2

(* the operation's writes become durable *)
Commit(r) ==
    /\ done' = done \cup {PayloadOf[r]}
    /\ commits' = IF commits = CommitCap THEN commits ELSE commits + 1

(* the operation's transaction commits, rolls back, or commits with the    *)
(* acknowledgement lost, which the caller sees as a failure                *)
Operate(r) ==
    /\ at[r] = "op"
    /\ \/ Goto(r, "record") /\ Commit(r) /\ UNCHANGED <<faults, timeouts>>
       \/ Goto(r, "fail") /\ UNCHANGED pastVars
       \/ Goto(r, "fail") /\ Commit(r) /\ Fault
    /\ UNCHANGED rowVars

(* onSend has already run, for the 408, and records nothing more *)
Recorded(r) == layer = "plugin" /\ r \in timedOut

(* finalize and record after a success: an update by key alone.  If it     *)
(* fails the service treats that as the operation failing, the plugin      *)
(* sends its response and leaves the key in progress.                      *)
Record(r) ==
    /\ at[r] = "record"
    /\ \/ /\ Recorded(r)
          /\ Finish(r, "ok", PayloadOf[r])
          /\ UNCHANGED <<rowVars, pastVars>>
       \/ /\ ~ Recorded(r)
          /\ keyState' = "completed" /\ keyResp' = PayloadOf[r]
          /\ age' = "fresh"
          /\ Finish(r, "ok", PayloadOf[r])
          /\ UNCHANGED <<keyHash, layer, pastVars>>
       \/ /\ ~ Recorded(r)
          /\ Fault
          /\ IF layer = "service" THEN Goto(r, "fail")
                                  ELSE Finish(r, "ok", PayloadOf[r])
          /\ UNCHANGED <<rowVars, done, commits>>

(* the update that marks the key failed *)
FailKey ==
    /\ keyState' = "failed" /\ keyResp' = None
    /\ age' = "fresh"
    /\ UNCHANGED <<keyHash, layer>>

(* ... and after a failure; the error goes out even if this write fails *)
MarkFailed(r) ==
    /\ at[r] = "fail"
    /\ Finish(r, "error", None)
    /\ \/ Recorded(r) /\ UNCHANGED <<rowVars, faults, timeouts>>
       \/ ~ Recorded(r) /\ FailKey /\ UNCHANGED <<faults, timeouts>>
       \/ ~ Recorded(r) /\ Fault /\ UNCHANGED rowVars
    /\ UNCHANGED <<done, commits>>

(* The request-timeout plugin sends its 408 and the handler runs on.  The  *)
(* plugin's onSend sees that 408 like any reply and marks the key failed.  *)
Timeout(r) ==
    /\ at[r] \in {"insert", "reclaim", "reread", "op"}
    /\ r \notin timedOut
    /\ timeouts < MaxTimeouts
    /\ timeouts' = timeouts + 1
    /\ timedOut' = timedOut \cup {r}
    /\ answer' = [answer EXCEPT ![r] = "timeout"]
    /\ got' = [got EXCEPT ![r] = None]
    /\ IF layer = "plugin" /\ at[r] = "op" THEN FailKey ELSE UNCHANGED rowVars
    /\ UNCHANGED <<at, done, commits, faults>>

(* the server process dies *)
Crash(r) ==
    /\ at[r] # "idle"
    /\ Fault
    /\ Finish(r, "error", None)
    /\ UNCHANGED <<rowVars, done, commits>>

(* updatedAt falls behind the in-progress timeout *)
Age ==
    /\ keyState = "in_progress" /\ age = "fresh"
    /\ TimeoutOutlivesRequest => Running = {}
    /\ age' = "stale"
    /\ UNCHANGED <<keyState, keyHash, keyResp, layer, reqVars, pastVars>>

Step(r) ==
    \/ Lookup(r) \/ Insert(r) \/ Reclaim(r) \/ Reread(r)
    \/ Operate(r) \/ Record(r) \/ MarkFailed(r)

Next ==
    \/ \E r \in Requests : Step(r) \/ Timeout(r) \/ Crash(r)
    \/ Age

Spec == Init /\ [][Next]_vars

(* Requests run to their end and clients send again; an abandoned key      *)
(* ages; an operation that is run again and again succeeds in the end.     *)
Fairness ==
    /\ \A r \in Requests : /\ WF_vars(Step(r))
                           /\ SF_vars(Operate(r) /\ at'[r] = "record")
    /\ WF_vars(Age)

FairSpec == Spec /\ Fairness

-----------------------------------------------------------------------------
(* Every variable has its type. *)
TypeOK ==
    /\ keyState \in {"absent", "in_progress", "completed", "failed"}
    /\ keyHash \in Payloads \cup {None} /\ keyResp \in Payloads \cup {None}
    /\ age \in {"fresh", "stale"}
    /\ at \in [Requests -> Points]
    /\ timedOut \subseteq Requests
    /\ answer \in [Requests -> Answers]
    /\ got \in [Requests -> Payloads \cup {None}]
    /\ layer \in {"service", "plugin"}
    /\ done \subseteq Payloads /\ commits \in Nat
    /\ faults \in Nat /\ timeouts \in Nat

(* One key, one durable outcome: however requests under it race, fail and  *)
(* are sent again, the operation commits once, and each crash or failed    *)
(* database call buys at most one commit more; at the HTTP layer, so does  *)
(* each 408.                                                               *)
CommitBudget == 1 + faults + (IF layer = "plugin" THEN timeouts ELSE 0)

CommitsAreBought == commits =< CommitBudget

(* A second request under a reserved key never runs beside the first.      *)
OneExecution == \A r, s \in Requests : r \in Running /\ s \in Running => r = s

(* runIdempotent keeps that promise: in the service layer the operation is *)
(* never run twice at once, whatever crashes, fails or times out.          *)
ServiceRunsAlone == layer = "service" => OneExecution

(* A replay is the result of the request that is being answered: of the    *)
(* same payload, and of an operation that did commit.                      *)
ReplayIsOwn ==
    \A r \in Requests :
        answer[r] \in {"ok", "replayed"} =>
            got[r] = PayloadOf[r] /\ PayloadOf[r] \in done

(* A key is completed only on the strength of a commit of the payload it   *)
(* is bound to.                                                            *)
CompletedIsCommitted ==
    keyState = "completed" => keyResp = keyHash /\ keyHash \in done

(* What a client is told of its key is true (runIdempotent, the idempotency *)
(* plugin).                                                                *)
RepliesAreHonest == ReplayIsOwn /\ CompletedIsCommitted

(* A client that keeps sending its request is served, or told the key is   *)
(* another payload's; a crash never wedges the key.                        *)
EventuallyServed ==
    \A r \in Requests : <>(answer[r] \in {"ok", "replayed", "conflict"})
=============================================================================
