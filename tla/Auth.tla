-------------------------------- MODULE Auth --------------------------------
(***************************************************************************)
(* Logging in with a SEP-10 challenge, and the refresh tokens that keep    *)
(* the session alive.  A challenge is stateless until it is redeemed; then *)
(* a row records it, which a sweep deletes again.  Requests run side by    *)
(* side on several instances, and what one read before an await (the       *)
(* window of a challenge, a token row) may be stale when it writes.        *)
(***************************************************************************)
EXTENDS Integers, FiniteSets

CONSTANTS
    Challenges,   \* challenges that may be issued, a fresh nonce each
    Accounts,     \* wallets; the local user of one is created at its first login
    Wallet,       \* challenge -> the account it is issued to
    Requests,     \* requests in flight
    Tokens,       \* bound: refresh tokens
    None,
    Validity,     \* SEP10_CHALLENGE_VALIDITY_SECONDS
    Skew,         \* CLOCK_SKEW_TOLERANCE_SECONDS
    Grace,        \* CHALLENGE_EXPIRY_GRACE_SECONDS
    Retention,    \* CHALLENGE_RETENTION_MS
    LookupTime,   \* bound the code puts on loadAccount: timeouts, retries and backoff
    Jitter,       \* how far the clock of the sweeping worker may run ahead
    TokenTTL,     \* REFRESH_TOKEN_TTL_MS
    AccessTTL,    \* jwtExpiresIn less TOKEN_EXPIRY_MARGIN_SECONDS
    MaxClock      \* bound

\* A row expires Skew + 1 after the window and is swept Grace later; retention
\* counts a day from the redemption, and a window is ten minutes at most.
ASSUME AuthAssumption ==
    /\ Wallet \in [Challenges -> Accounts]
    /\ None \notin Tokens /\ "ended" \notin Tokens /\ None # "ended"
    /\ {Validity, Skew, Grace, Retention, LookupTime, Jitter} \subseteq Nat
    /\ {TokenTTL, AccessTTL, MaxClock} \subseteq Nat
    /\ LookupTime + Jitter <= Grace + 1
    /\ Validity + Skew + LookupTime + Jitter <= Retention

VARIABLES
    clock,
    window,       \* challenge -> maxTime, 0 before it is issued
    row,          \* challenge -> consumedAt of its Sep10Challenge row, 0 without one
    claims,       \* challenge -> how often it authenticated a request
    born, rotated, revoked,       \* the RefreshToken rows, those with rotatedAt, with revokedAt
    family, parent, user, expires, \* per token: familyId, predecessor, userId, expiresAt
    access,       \* account -> until when its newest JWT is accepted
    at,           \* request -> where it is
    about,        \* request -> its challenge, or its token
    since,        \* request -> the time it read
    seen          \* request -> rows its UPDATE will revoke

challengeVars == <<window, row, claims>>
tokenVars == <<born, rotated, revoked, family, parent, user, expires>>
requestVars == <<at, about, since, seen>>
vars == <<clock, challengeVars, tokenVars, access, requestVars>>

Points == {"idle", "lookup", "lookupOnly", "claimed", "rotate", "commit",
           "revokeFamily", "revokeUser"}

Live == born \ (rotated \cup revoked)
LiveOf(f) == {t \in Live : family[t] = f}

Init ==
    /\ clock = 1
    /\ window = [c \in Challenges |-> 0]
    /\ row = [c \in Challenges |-> 0]
    /\ claims = [c \in Challenges |-> 0]
    /\ born = {} /\ rotated = {} /\ revoked = {}
    /\ family = [t \in Tokens |-> None]
    /\ parent = [t \in Tokens |-> None]
    /\ user = [t \in Tokens |-> None]
    /\ expires = [t \in Tokens |-> 0]
    /\ access = [a \in Accounts |-> 0]
    /\ at = [r \in Requests |-> "idle"]
    /\ about = [r \in Requests |-> None]
    /\ since = [r \in Requests |-> 0]
    /\ seen = [r \in Requests |-> {}]

Move(r, point, what, snapshot) ==
    /\ at' = [at EXCEPT ![r] = point]
    /\ about' = [about EXCEPT ![r] = what]
    /\ since' = [since EXCEPT ![r] = IF point = "idle" THEN 0 ELSE clock]
    /\ seen' = [seen EXCEPT ![r] = snapshot]

Return(r) == Move(r, "idle", None, {})

Advance(r, point) ==
    /\ at' = [at EXCEPT ![r] = point]
    /\ UNCHANGED <<about, since, seen>>

(***************************************************************************)
(* Challenges.                                                             *)
(***************************************************************************)
BuildChallenge(c) ==
    /\ window[c] = 0
    /\ window' = [window EXCEPT ![c] = clock + Validity]
    /\ UNCHANGED <<clock, row, claims, tokenVars, access, requestVars>>

\* validateChallengeEnvelope: an envelope this server built, unaltered; any other
\* is refused before anything is read or written.
Issued(c) == window[c] # 0

\* validateChallengeTimeBounds
WindowOpen(c) == Issued(c) /\ clock < window[c] + Skew

\* readChallenge, up to the lookup of the account's signers.
ReadChallenge(r, c, point) ==
    /\ at[r] = "idle"
    /\ WindowOpen(c)
    /\ Move(r, point, c, {})
    /\ UNCHANGED <<clock, challengeVars, tokenVars, access>>

\* The envelope comes with POST /auth/verify, to log in, or in the Authorization
\* header of one request.
Verify(r, c) == ReadChallenge(r, c, "lookup")
AuthenticateSep10(r, c) == ReadChallenge(r, c, "lookupOnly")

\* The signers are known and the signatures verify: the insert decides.
ConsumeChallenge(r) ==
    /\ at[r] \in {"lookup", "lookupOnly"}
    /\ IF row[about[r]] # 0
         THEN Return(r) /\ UNCHANGED <<row, claims>>
         ELSE /\ row' = [row EXCEPT ![about[r]] = clock]
              /\ claims' = [claims EXCEPT ![about[r]] = @ + 1]
              /\ IF at[r] = "lookup" THEN Advance(r, "claimed") ELSE Return(r)
    /\ UNCHANGED <<clock, window, tokenVars, access>>

\* A row of the RefreshToken table.
InsertToken(t, f, p, a, now) ==
    /\ t \notin born
    /\ born' = born \cup {t}
    /\ family' = [family EXCEPT ![t] = f]
    /\ parent' = [parent EXCEPT ![t] = p]
    /\ user' = [user EXCEPT ![t] = a]
    /\ expires' = [expires EXCEPT ![t] = now + TokenTTL]

\* An access JWT, and whether it is still accepted.
SignToken(a) == access' = [access EXCEPT ![a] = clock + AccessTTL]
VerifyToken(a) == clock < access[a]

\* The rest of POST /auth/verify: the user row, the JWT, the first token of a
\* new family.
IssueRefreshToken(r, t) ==
    /\ at[r] = "claimed"
    /\ InsertToken(t, t, None, Wallet[about[r]], clock)
    /\ SignToken(Wallet[about[r]])
    /\ Return(r)
    /\ UNCHANGED <<clock, challengeVars, rotated, revoked>>

(* mutant: the sweep ignores the skew a row must outlive *)
SweptEarly(c, now) == row[c] # 0 /\ window[c] < now

Swept(c, now) ==
    /\ row[c] # 0
    /\ \/ window[c] + Skew + 1 < now - Grace
       \/ row[c] < now - Retention
       \/ window[c] + Skew + 1 < now - Retention

CleanupChallenges ==
    /\ \E ahead \in 0..Jitter :
          row' = [c \in Challenges |-> IF Swept(c, clock + ahead) THEN 0 ELSE row[c]]
    /\ UNCHANGED <<clock, window, claims, tokenVars, access, requestVars>>

(***************************************************************************)
(* Refresh tokens.  The rotation is a transaction: the row it has updated  *)
(* is locked until it commits, and what it wrote is invisible until then.  *)
(***************************************************************************)
Locks(r, t) == at[r] = "commit" /\ about[r] = t

\* classifyStored: reuse first, then revocation, then expiry.
Classify(t) ==
    IF t \in rotated THEN "reused"
    ELSE IF t \in revoked THEN "revoked"
    ELSE IF expires[t] <= clock THEN "expired" ELSE "ok"

ReadToken(r, t) ==
    /\ at[r] = "idle"
    /\ t \in born
    /\ Classify(t) = "ok"
    /\ Move(r, "rotate", t, {})
    /\ UNCHANGED <<clock, challengeVars, tokenVars, access>>

\* The UPDATE of revokeFamily begins: these are the rows it has found.
ReuseDetected(r, t) ==
    /\ at[r] = "idle"
    /\ t \in born
    /\ Classify(t) = "reused"
    /\ Move(r, "revokeFamily", t, {u \in born \ revoked : family[u] = family[t]})
    /\ UNCHANGED <<clock, challengeVars, tokenVars, access>>

(* mutant: the claim forgets that a token may have been revoked meanwhile *)
ClaimRevokedToken(r) ==
    /\ at[r] = "rotate"
    /\ \A q \in Requests : ~Locks(q, about[r])
    /\ IF about[r] \in rotated THEN Return(r) ELSE Advance(r, "commit")
    /\ UNCHANGED <<clock, challengeVars, tokenVars, access>>

\* The conditional updateMany; it waits for a lock and then looks again.  The
\* loser is answered "reused", and revokes nothing.
ClaimToken(r) ==
    /\ at[r] = "rotate"
    /\ \A q \in Requests : ~Locks(q, about[r])
    /\ IF about[r] \in Live THEN Advance(r, "commit") ELSE Return(r)
    /\ UNCHANGED <<clock, challengeVars, tokenVars, access>>

\* The successor's insert, the COMMIT, and the JWT of the answer.
CommitRotation(r, t) ==
    /\ at[r] = "commit"
    /\ rotated' = rotated \cup {about[r]}
    /\ InsertToken(t, family[about[r]], about[r], user[about[r]], since[r])
    /\ SignToken(user[about[r]])
    /\ Return(r)
    /\ UNCHANGED <<clock, challengeVars, revoked>>

\* POST /auth/logout with a JWT that is still accepted; revokeAllForUser begins.
Logout(r, a) ==
    /\ at[r] = "idle"
    /\ VerifyToken(a)
    /\ Move(r, "revokeUser", None, {t \in Live : user[t] = a})
    /\ UNCHANGED <<clock, challengeVars, tokenVars, access>>

\* An UPDATE waits for the locks on its rows and looks at each again; it never
\* sees a row inserted after it began.
Revoke(r) ==
    /\ at[r] \in {"revokeFamily", "revokeUser"}
    /\ \A q \in Requests, t \in seen[r] : ~Locks(q, t)
    /\ revoked' = revoked \cup
                    (IF at[r] = "revokeUser" THEN seen[r] \ rotated ELSE seen[r])
    /\ Return(r)
    /\ UNCHANGED <<clock, challengeVars, born, rotated, family, parent, user, expires, access>>

(***************************************************************************)
(* Horizon or the store does not answer, the signature is wrong, or the    *)
(* process dies: the request is over, and an open transaction rolls back.  *)
(***************************************************************************)
Abandon(r) ==
    /\ at[r] # "idle"
    /\ Return(r)
    /\ UNCHANGED <<clock, challengeVars, tokenVars, access>>

\* Time passes; loadAccount and the insert end within LookupTime.
Tick ==
    /\ clock < MaxClock
    /\ \A r \in Requests :
          at[r] \in {"lookup", "lookupOnly"} => clock < since[r] + LookupTime
    /\ clock' = clock + 1
    /\ UNCHANGED <<challengeVars, tokenVars, access, requestVars>>

Next ==
    \/ \E c \in Challenges : BuildChallenge(c)
    \/ \E r \in Requests, c \in Challenges : Verify(r, c) \/ AuthenticateSep10(r, c)
    \/ \E r \in Requests : ConsumeChallenge(r)
    \/ \E r \in Requests, t \in Tokens : IssueRefreshToken(r, t)
    \/ CleanupChallenges
    \/ \E r \in Requests, t \in Tokens : ReadToken(r, t)
    \/ \E r \in Requests, t \in Tokens : ReuseDetected(r, t)
    \/ \E r \in Requests : ClaimToken(r)
    \/ \E r \in Requests, t \in Tokens : CommitRotation(r, t)
    \/ \E r \in Requests, a \in Accounts : Logout(r, a)
    \/ \E r \in Requests : Revoke(r)
    \/ \E r \in Requests : Abandon(r)
    \/ Tick

Spec == Init /\ [][Next]_vars

(***************************************************************************)
(* Properties.                                                             *)
(***************************************************************************)
\* Every variable keeps its type (the rows of Sep10Challenge and RefreshToken,
\* and the locals of the handlers).
TypeOK ==
    /\ clock \in Nat
    /\ window \in [Challenges -> Nat]
    /\ row \in [Challenges -> Nat]
    /\ claims \in [Challenges -> Nat]
    /\ born \subseteq Tokens /\ rotated \subseteq born /\ revoked \subseteq born
    /\ family \in [Tokens -> Tokens \cup {None}]
    /\ parent \in [Tokens -> Tokens \cup {None}]
    /\ user \in [Tokens -> Accounts \cup {None}]
    /\ expires \in [Tokens -> Nat]
    /\ access \in [Accounts -> Nat]
    /\ at \in [Requests -> Points]
    /\ about \in [Requests -> Challenges \cup Tokens \cup {None}]
    /\ since \in [Requests -> Nat]
    /\ seen \in [Requests -> SUBSET Tokens]

\* A challenge authenticates one request, however often and at whatever moment
\* its envelope is presented, and whenever the sweep runs (consumeChallenge).
OneLoginPerChallenge == \A c \in Challenges : claims[c] <= 1

\* While a redeemed challenge could still pass the window check, or has passed
\* it in a request that has yet to insert, its row is there (the expiresAt that
\* authenticateChallenge writes, against the cutoffs of cleanupChallenges).
RecordOutlivesChallenge ==
    \A c \in Challenges :
        /\ claims[c] > 0
        /\ \/ WindowOpen(c)
           \/ \E r \in Requests : at[r] \in {"lookup", "lookupOnly"} /\ about[r] = c
        => row[c] # 0

\* A refresh token is exchanged for one successor only, whatever requests race
\* for it (the conditional updateMany of rotateRefreshToken).
ExchangedOnce ==
    \A t, u \in born : parent[t] # None /\ parent[t] = parent[u] => t = u

\* The sessions behave as SessionChain: one current token each, none revived.
Session == INSTANCE SessionChain WITH
    Token <- Tokens,
    None <- None,
    used <- born,
    head <- [f \in Tokens |->
               IF f \notin born \/ family[f] # f THEN None
               ELSE IF LiveOf(f) = {} THEN "ended"
               ELSE CHOOSE t \in LiveOf(f) : TRUE]

SessionSpec == Session!Spec
=============================================================================
