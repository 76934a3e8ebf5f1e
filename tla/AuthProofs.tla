----------------------------- MODULE AuthProofs -----------------------------
(***************************************************************************)
(* Proofs about Auth: a challenge logs in once, given the times that the   *)
(* code configures (AuthAssumption); a refresh token is exchanged once;    *)
(* and the tokens implement SessionChain.                                  *)
(***************************************************************************)
EXTENDS Auth, TLAPS

Looking(r) == at[r] \in {"lookup", "lookupOnly"}

(* What a handler holds is a challenge, or a token that exists. *)
HandlersOK ==
    \A r \in Requests :
        /\ at[r] \in {"lookup", "lookupOnly", "claimed"} => about[r] \in Challenges
        /\ at[r] \in {"rotate", "commit", "revokeFamily"} => about[r] \in born
        /\ seen[r] \subseteq born

(* A request that looks its account up passed the window check not longer  *)
(* ago than a lookup may take.                                             *)
LookupsOK ==
    \A r \in Requests : Looking(r) =>
        /\ window[about[r]] # 0
        /\ since[r] < window[about[r]] + Skew
        /\ clock =< since[r] + LookupTime

(* A window ends Validity after its issue, and a row is as old as it says. *)
RowsOK ==
    /\ clock >= 1
    /\ \A c \in Challenges :
          /\ window[c] =< clock + Validity
          /\ row[c] # 0 => window[c] # 0 /\ window[c] =< row[c] + Validity
          /\ claims[c] > 0 => window[c] # 0

ChallengeInv == LookupsOK /\ RowsOK /\ RecordOutlivesChallenge /\ OneLoginPerChallenge

(* A token locked by a rotation is live and locked by no other; a token    *)
(* that has a successor has been rotated.                                  *)
RotationInv ==
    /\ \A r \in Requests : at[r] = "commit" => about[r] \in Live
    /\ \A r, q \in Requests : at[r] = "commit" /\ at[q] = "commit" /\ about[r] = about[q] => r = q
    /\ \A t \in born : parent[t] # None => parent[t] \in rotated
    /\ ExchangedOnce

(* The tokens of a session are named after the first, and one is live. *)
FamilyInv ==
    /\ \A t \in born : family[t] \in born /\ family[family[t]] = family[t]
    /\ \A t, u \in Live : family[t] = family[u] => t = u

-----------------------------------------------------------------------------
(* The type invariant, with what the handlers hold. *)
TypeInv == TypeOK /\ HandlersOK /\ clock >= 1

(* What a handler's move writes. *)
LEMMA MoveType ==
    ASSUME TypeInv, NEW r \in Requests, NEW p \in Points,
           NEW w \in Challenges \cup Tokens \cup {None}, NEW S \in SUBSET Tokens,
           Move(r, p, w, S)
    PROVE /\ at' \in [Requests -> Points]
          /\ about' \in [Requests -> Challenges \cup Tokens \cup {None}]
          /\ since' \in [Requests -> Nat]
          /\ seen' \in [Requests -> SUBSET Tokens]
          /\ at'[r] = p /\ about'[r] = w /\ seen'[r] = S
          /\ since'[r] = IF p = "idle" THEN 0 ELSE clock
          /\ \A q \in Requests \ {r} : /\ at'[q] = at[q] /\ about'[q] = about[q]
                                       /\ since'[q] = since[q] /\ seen'[q] = seen[q]
    BY DEF Move, TypeInv, TypeOK

(* What the end of a request writes. *)
LEMMA ReturnType ==
    ASSUME TypeInv, NEW r \in Requests, Return(r)
    PROVE /\ at' \in [Requests -> Points]
          /\ about' \in [Requests -> Challenges \cup Tokens \cup {None}]
          /\ since' \in [Requests -> Nat]
          /\ seen' \in [Requests -> SUBSET Tokens]
          /\ at'[r] = "idle" /\ about'[r] = None /\ seen'[r] = {}
          /\ \A q \in Requests \ {r} : /\ at'[q] = at[q] /\ about'[q] = about[q]
                                       /\ since'[q] = since[q] /\ seen'[q] = seen[q]
    BY MoveType DEF Return, Points

(* What a handler's next step writes. *)
LEMMA AdvanceType ==
    ASSUME TypeInv, NEW r \in Requests, NEW p \in Points, Advance(r, p)
    PROVE /\ at' \in [Requests -> Points]
          /\ about' \in [Requests -> Challenges \cup Tokens \cup {None}]
          /\ since' \in [Requests -> Nat]
          /\ seen' \in [Requests -> SUBSET Tokens]
          /\ at'[r] = p /\ \A q \in Requests \ {r} : at'[q] = at[q]
          /\ UNCHANGED <<about, since, seen>>
    BY DEF Advance, TypeInv, TypeOK

(* What the insert of a RefreshToken row writes. *)
LEMMA InsertType ==
    ASSUME TypeInv, NEW t \in Tokens, NEW f \in Tokens \cup {None}, NEW p \in Tokens \cup {None},
           NEW a \in Accounts \cup {None}, NEW now \in Nat, InsertToken(t, f, p, a, now)
    PROVE /\ t \notin born /\ born' = born \cup {t} /\ born' \subseteq Tokens
          /\ family' \in [Tokens -> Tokens \cup {None}]
          /\ parent' \in [Tokens -> Tokens \cup {None}]
          /\ user' \in [Tokens -> Accounts \cup {None}]
          /\ expires' \in [Tokens -> Nat]
          /\ family'[t] = f /\ parent'[t] = p
          /\ \A u \in Tokens \ {t} : family'[u] = family[u] /\ parent'[u] = parent[u]
    BY AuthAssumption DEF InsertToken, TypeInv, TypeOK

(* The expiry of a JWT is a time. *)
LEMMA SignType ==
    ASSUME TypeInv, NEW a, SignToken(a)
    PROVE access' \in [Accounts -> Nat]
<1>1. clock + AccessTTL \in Nat
    BY AuthAssumption DEF TypeInv, TypeOK
<1> QED
    BY <1>1 DEF SignToken, TypeInv, TypeOK

(* A handler that only moves on keeps its type. *)
LEMMA MoveKeeps ==
    ASSUME TypeInv, NEW r \in Requests, NEW p \in Points,
           NEW w \in Challenges \cup Tokens \cup {None}, NEW S \in SUBSET born,
           Move(r, p, w, S), UNCHANGED <<clock, challengeVars, tokenVars, access>>,
           p \in {"lookup", "lookupOnly", "claimed"} => w \in Challenges,
           p \in {"rotate", "commit", "revokeFamily"} => w \in born
    PROVE TypeInv'
<1>1. S \in SUBSET Tokens
    BY DEF TypeInv, TypeOK
<1>2. /\ at' \in [Requests -> Points]
      /\ about' \in [Requests -> Challenges \cup Tokens \cup {None}]
      /\ since' \in [Requests -> Nat]
      /\ seen' \in [Requests -> SUBSET Tokens]
      /\ at'[r] = p /\ about'[r] = w /\ seen'[r] = S
      /\ \A q \in Requests \ {r} : /\ at'[q] = at[q] /\ about'[q] = about[q]
                                   /\ seen'[q] = seen[q]
    BY <1>1, MoveType
<1>3. TypeOK' /\ (clock >= 1)'
    BY <1>2 DEF TypeInv, TypeOK, challengeVars, tokenVars
<1>4. HandlersOK'
    BY <1>2 DEF TypeInv, HandlersOK, tokenVars
<1> QED
    BY <1>3, <1>4 DEF TypeInv

(* The empty database is typed. *)
LEMMA InitType == Init => TypeInv
    BY AuthAssumption DEF Init, TypeInv, TypeOK, HandlersOK, Points

(* The disjuncts of Next, an action each. *)
LEMMA TypeStep == TypeInv /\ [Next]_vars => TypeInv'
<1> SUFFICES ASSUME TypeInv, [Next]_vars PROVE TypeInv'
    OBVIOUS
<1> USE AuthAssumption DEF challengeVars, tokenVars, requestVars
<1>1. ASSUME NEW c \in Challenges, BuildChallenge(c) PROVE TypeInv'
  <2>1. window' \in [Challenges -> Nat]
    BY <1>1 DEF BuildChallenge, TypeInv, TypeOK
  <2>2. UNCHANGED <<clock, row, claims, tokenVars, access, requestVars>>
    BY <1>1 DEF BuildChallenge
  <2> QED
    BY <2>1, <2>2 DEF TypeInv, TypeOK, HandlersOK
<1>2. ASSUME NEW r \in Requests, NEW c \in Challenges, Verify(r, c) \/ AuthenticateSep10(r, c)
      PROVE TypeInv'
  <2>1. PICK p \in {"lookup", "lookupOnly"} : Move(r, p, c, {})
    BY <1>2 DEF Verify, AuthenticateSep10, ReadChallenge
  <2>2. UNCHANGED <<clock, challengeVars, tokenVars, access>>
    BY <1>2 DEF Verify, AuthenticateSep10, ReadChallenge
  <2> QED
    BY <2>1, <2>2, MoveKeeps DEF Points
<1>3. ASSUME NEW r \in Requests, Return(r),
             UNCHANGED <<clock, window, tokenVars, access>>,
             row' \in [Challenges -> Nat], claims' \in [Challenges -> Nat]
      PROVE TypeInv'
    BY <1>3, ReturnType DEF TypeInv, TypeOK, HandlersOK
<1>4. ASSUME NEW r \in Requests, ConsumeChallenge(r) PROVE TypeInv'
  <2>1. about[r] \in Challenges
    BY <1>4 DEF ConsumeChallenge, TypeInv, HandlersOK
  <2>2. /\ row' \in [Challenges -> Nat] /\ claims' \in [Challenges -> Nat]
        /\ UNCHANGED <<clock, window, tokenVars, access>>
    BY <1>4, <2>1 DEF ConsumeChallenge, TypeInv, TypeOK
  <2>3. CASE Return(r)
    BY <1>3, <2>2, <2>3
  <2>4. CASE ~ Return(r)
    <3>1. Advance(r, "claimed")
      BY <1>4, <2>4 DEF ConsumeChallenge
    <3> QED
      BY <2>1, <2>2, <3>1, AdvanceType DEF TypeInv, TypeOK, HandlersOK, Points
  <2> QED
    BY <2>3, <2>4
<1>5. ASSUME NEW r \in Requests, NEW t \in Tokens, IssueRefreshToken(r, t) PROVE TypeInv'
  <2>1. about[r] \in Challenges /\ Wallet[about[r]] \in Accounts
    BY <1>5 DEF IssueRefreshToken, TypeInv, HandlersOK
  <2>2. InsertToken(t, t, None, Wallet[about[r]], clock) /\ clock \in Nat
    BY <1>5 DEF IssueRefreshToken, TypeInv, TypeOK
  <2>3. access' \in [Accounts -> Nat]
    BY <1>5, SignType DEF IssueRefreshToken
  <2>4. Return(r) /\ UNCHANGED <<clock, challengeVars, rotated, revoked>>
    BY <1>5 DEF IssueRefreshToken
  <2>5. /\ born \subseteq born' /\ born' \subseteq Tokens
        /\ family' \in [Tokens -> Tokens \cup {None}]
        /\ parent' \in [Tokens -> Tokens \cup {None}]
        /\ user' \in [Tokens -> Accounts \cup {None}]
        /\ expires' \in [Tokens -> Nat]
    BY <2>1, <2>2, InsertType
  <2> QED
    BY <2>3, <2>4, <2>5, ReturnType DEF TypeInv, TypeOK, HandlersOK
<1>6. CASE CleanupChallenges
    BY <1>6 DEF CleanupChallenges, TypeInv, TypeOK, HandlersOK
<1>7. ASSUME NEW r \in Requests, NEW t \in Tokens, ReadToken(r, t) PROVE TypeInv'
  <2>1. Move(r, "rotate", t, {}) /\ t \in born /\ UNCHANGED <<clock, challengeVars, tokenVars, access>>
    BY <1>7 DEF ReadToken
  <2> QED
    BY <2>1, MoveKeeps DEF Points
<1>8. ASSUME NEW r \in Requests, NEW t \in Tokens, ReuseDetected(r, t) PROVE TypeInv'
  <2>1. PICK S \in SUBSET born : Move(r, "revokeFamily", t, S)
    BY <1>8 DEF ReuseDetected
  <2>2. t \in born /\ UNCHANGED <<clock, challengeVars, tokenVars, access>>
    BY <1>8 DEF ReuseDetected
  <2> QED
    BY <2>1, <2>2, MoveKeeps DEF TypeInv, TypeOK, Points
<1>9. ASSUME NEW r \in Requests, ClaimToken(r) PROVE TypeInv'
  <2>1. UNCHANGED <<clock, challengeVars, tokenVars, access>>
    BY <1>9 DEF ClaimToken
  <2>2. CASE Return(r)
    BY <1>3, <2>1, <2>2 DEF TypeInv, TypeOK
  <2>3. CASE ~ Return(r)
    <3>1. Advance(r, "commit") /\ about[r] \in born
      BY <1>9, <2>3 DEF ClaimToken, Live
    <3> QED
      BY <2>1, <3>1, AdvanceType DEF TypeInv, TypeOK, HandlersOK, Points
  <2> QED
    BY <2>2, <2>3
<1>10. ASSUME NEW r \in Requests, NEW t \in Tokens, CommitRotation(r, t) PROVE TypeInv'
  <2>1. about[r] \in born /\ about[r] \in Tokens
    BY <1>10 DEF CommitRotation, TypeInv, TypeOK, HandlersOK
  <2>2. /\ family[about[r]] \in Tokens \cup {None} /\ user[about[r]] \in Accounts \cup {None}
        /\ since[r] \in Nat
    BY <2>1 DEF TypeInv, TypeOK
  <2>3. InsertToken(t, family[about[r]], about[r], user[about[r]], since[r])
    BY <1>10 DEF CommitRotation
  <2>4. access' \in [Accounts -> Nat]
    BY <1>10, SignType DEF CommitRotation
  <2>5. /\ Return(r) /\ rotated' = rotated \cup {about[r]}
        /\ UNCHANGED <<clock, challengeVars, revoked>>
    BY <1>10 DEF CommitRotation
  <2>6. /\ born \subseteq born' /\ born' \subseteq Tokens
        /\ family' \in [Tokens -> Tokens \cup {None}]
        /\ parent' \in [Tokens -> Tokens \cup {None}]
        /\ user' \in [Tokens -> Accounts \cup {None}]
        /\ expires' \in [Tokens -> Nat]
    BY <2>1, <2>2, <2>3, InsertType
  <2> QED
    BY <2>1, <2>4, <2>5, <2>6, ReturnType DEF TypeInv, TypeOK, HandlersOK
<1>11. ASSUME NEW r \in Requests, NEW a \in Accounts, Logout(r, a) PROVE TypeInv'
  <2>1. PICK S \in SUBSET born : Move(r, "revokeUser", None, S)
    BY <1>11 DEF Logout, Live
  <2>2. UNCHANGED <<clock, challengeVars, tokenVars, access>>
    BY <1>11 DEF Logout
  <2> QED
    BY <2>1, <2>2, MoveKeeps DEF TypeInv, TypeOK, Points
<1>12. ASSUME NEW r \in Requests, Revoke(r) PROVE TypeInv'
  <2>1. revoked' \subseteq born
    BY <1>12 DEF Revoke, TypeInv, TypeOK, HandlersOK
  <2>2. Return(r) /\ UNCHANGED <<clock, challengeVars, born, rotated, family, parent, user, expires, access>>
    BY <1>12 DEF Revoke
  <2> QED
    BY <2>1, <2>2, ReturnType DEF TypeInv, TypeOK, HandlersOK
<1>13. ASSUME NEW r \in Requests, Abandon(r) PROVE TypeInv'
  <2>1. Return(r) /\ UNCHANGED <<clock, challengeVars, tokenVars, access>>
    BY <1>13 DEF Abandon
  <2> QED
    BY <1>3, <2>1 DEF TypeInv, TypeOK
<1>14. CASE Tick
    BY <1>14 DEF Tick, TypeInv, TypeOK, HandlersOK
<1>15. CASE UNCHANGED vars
    BY <1>15 DEF vars, TypeInv, TypeOK, HandlersOK
<1> QED
    BY <1>1, <1>2, <1>4, <1>5, <1>6, <1>7, <1>8, <1>9, <1>10, <1>11, <1>12, <1>13, <1>14,
       <1>15 DEF Next

(***************************************************************************)
(* Challenges.                                                             *)
(***************************************************************************)

(* A step that leaves the challenges and the clock alone, and starts no    *)
(* lookup.                                                                 *)
LEMMA ChallengesKept ==
    ASSUME ChallengeInv, UNCHANGED <<clock, challengeVars>>,
           \A q \in Requests : Looking(q)' =>
               Looking(q) /\ about'[q] = about[q] /\ since'[q] = since[q]
    PROVE ChallengeInv'
<1> USE DEF challengeVars
<1>1. LookupsOK'
    BY DEF ChallengeInv, LookupsOK
<1>2. RowsOK' /\ OneLoginPerChallenge'
    BY DEF ChallengeInv, RowsOK, OneLoginPerChallenge
<1>3. RecordOutlivesChallenge'
    BY DEF ChallengeInv, RecordOutlivesChallenge, WindowOpen, Issued, Looking
<1> QED
    BY <1>1, <1>2, <1>3 DEF ChallengeInv

(* A request that ends, or goes on past the lookup. *)
LEMMA LookupsEnd ==
    ASSUME TypeInv, ChallengeInv, UNCHANGED <<clock, challengeVars>>, NEW r \in Requests,
           NEW p \in Points \ {"lookup", "lookupOnly"},
           NEW w \in Challenges \cup Tokens \cup {None}, NEW S \in SUBSET Tokens,
           Move(r, p, w, S) \/ Advance(r, p)
    PROVE ChallengeInv'
<1>1. CASE Move(r, p, w, S)
  <2>1. /\ at'[r] = p
        /\ \A q \in Requests \ {r} : /\ at'[q] = at[q] /\ about'[q] = about[q]
                                     /\ since'[q] = since[q]
    BY <1>1, MoveType
  <2> QED
    BY <2>1, ChallengesKept DEF Looking
<1>2. CASE Advance(r, p)
  <2>1. /\ at'[r] = p /\ \A q \in Requests \ {r} : at'[q] = at[q]
        /\ UNCHANGED <<about, since>>
    BY <1>2, AdvanceType
  <2> QED
    BY <2>1, ChallengesKept DEF Looking
<1> QED
    BY <1>1, <1>2

(* Until the last lookup that passed the window check is over, the sweep   *)
(* finds nothing to delete: the row outlives the challenge.                *)
LEMMA NotSwept ==
    ASSUME TypeInv, ChallengeInv, NEW c \in Challenges, NEW ahead \in 0..Jitter,
           claims[c] > 0,
           \/ WindowOpen(c)
           \/ \E r \in Requests : at[r] \in {"lookup", "lookupOnly"} /\ about[r] = c
    PROVE row[c] # 0 /\ ~ Swept(c, clock + ahead)
<1>1. row[c] # 0
    BY DEF ChallengeInv, RecordOutlivesChallenge
<1>2. /\ clock \in Nat /\ window[c] \in Nat /\ row[c] \in Nat /\ ahead \in Nat /\ ahead =< Jitter
      /\ Validity \in Nat /\ Skew \in Nat /\ Grace \in Nat /\ Retention \in Nat
      /\ LookupTime \in Nat /\ Jitter \in Nat
      /\ LookupTime + Jitter =< Grace + 1
      /\ Validity + Skew + LookupTime + Jitter =< Retention
    BY AuthAssumption DEF TypeInv, TypeOK
<1>3. clock < window[c] + Skew + LookupTime
  <2>1. CASE WindowOpen(c)
    BY <1>2, <2>1 DEF WindowOpen
  <2>2. ASSUME NEW r \in Requests, at[r] \in {"lookup", "lookupOnly"}, about[r] = c
        PROVE clock < window[c] + Skew + LookupTime
    <3>1. since[r] < window[c] + Skew /\ clock =< since[r] + LookupTime
      BY <2>2 DEF ChallengeInv, LookupsOK, Looking
    <3>2. since[r] \in Nat
      BY DEF TypeInv, TypeOK
    <3> QED
      BY <1>2, <3>1, <3>2
  <2> QED
    BY <2>1, <2>2
<1>4. window[c] =< row[c] + Validity
    BY <1>1 DEF ChallengeInv, RowsOK
<1> QED
    BY <1>1, <1>2, <1>3, <1>4 DEF Swept

(* No challenge has been issued at the start. *)
LEMMA InitChallenges == Init => ChallengeInv
    BY AuthAssumption DEF Init, ChallengeInv, LookupsOK, Looking, RowsOK,
       RecordOutlivesChallenge, OneLoginPerChallenge

(* Only the issue, the lookups, the insert, the sweep and the clock touch  *)
(* what ChallengeInv speaks of.                                            *)
LEMMA ChallengeStep == TypeInv /\ ChallengeInv /\ [Next]_vars => ChallengeInv'
<1> SUFFICES ASSUME TypeInv, ChallengeInv, [Next]_vars PROVE ChallengeInv'
    OBVIOUS
<1> USE DEF challengeVars, tokenVars, requestVars
<1>1. ASSUME NEW c \in Challenges, BuildChallenge(c) PROVE ChallengeInv'
  <2>1. /\ window \in [Challenges -> Nat] /\ clock \in Nat /\ clock >= 1
        /\ claims \in [Challenges -> Nat] /\ row \in [Challenges -> Nat] /\ Validity \in Nat
    BY AuthAssumption DEF TypeInv, TypeOK
  <2>2. /\ window[c] = 0 /\ window' = [window EXCEPT ![c] = clock + Validity]
        /\ UNCHANGED <<clock, row, claims, at, about, since>>
    BY <1>1 DEF BuildChallenge
  <2>3. claims[c] = 0 /\ row[c] = 0 /\ \A q \in Requests : Looking(q) => about[q] # c
    BY <2>1, <2>2 DEF ChallengeInv, RowsOK, LookupsOK
  <2>4. LookupsOK'
    BY <2>1, <2>2, <2>3 DEF ChallengeInv, LookupsOK, Looking, TypeInv, HandlersOK
  <2>5. RowsOK' /\ OneLoginPerChallenge'
    BY <2>1, <2>2, <2>3 DEF ChallengeInv, RowsOK, OneLoginPerChallenge
  <2>6. RecordOutlivesChallenge'
    BY <2>1, <2>2, <2>3 DEF ChallengeInv, RecordOutlivesChallenge, WindowOpen, Issued
  <2> QED
    BY <2>4, <2>5, <2>6 DEF ChallengeInv
<1>2. ASSUME NEW r \in Requests, NEW c \in Challenges, Verify(r, c) \/ AuthenticateSep10(r, c)
      PROVE ChallengeInv'
  <2>1. PICK p \in {"lookup", "lookupOnly"} : Move(r, p, c, {})
    BY <1>2 DEF Verify, AuthenticateSep10, ReadChallenge
  <2>2. WindowOpen(c) /\ UNCHANGED <<clock, challengeVars>>
    BY <1>2 DEF Verify, AuthenticateSep10, ReadChallenge
  <2>3. /\ at'[r] = p /\ about'[r] = c /\ since'[r] = clock
        /\ \A q \in Requests \ {r} : /\ at'[q] = at[q] /\ about'[q] = about[q]
                                     /\ since'[q] = since[q]
    BY <2>1, MoveType DEF Points
  <2>4. LookupsOK'
    BY <2>2, <2>3, AuthAssumption
       DEF ChallengeInv, LookupsOK, Looking, WindowOpen, Issued, TypeInv, TypeOK
  <2>5. RowsOK' /\ OneLoginPerChallenge'
    BY <2>2 DEF ChallengeInv, RowsOK, OneLoginPerChallenge
  <2>6. RecordOutlivesChallenge'
    BY <2>2, <2>3 DEF ChallengeInv, RecordOutlivesChallenge, WindowOpen, Issued
  <2> QED
    BY <2>4, <2>5, <2>6 DEF ChallengeInv
<1>3. ASSUME NEW r \in Requests, ConsumeChallenge(r) PROVE ChallengeInv'
  <2> DEFINE c == about[r]
  <2>1. c \in Challenges /\ Looking(r)
    BY <1>3 DEF ConsumeChallenge, TypeInv, HandlersOK, Looking
  <2>2. PICK p \in {"claimed", "idle"} :
          (p = "claimed" /\ Advance(r, p)) \/ (p = "idle" /\ Move(r, p, None, {}))
    BY <1>3 DEF ConsumeChallenge, Return
  <2>3. CASE row[c] # 0
    <3>1. UNCHANGED <<clock, challengeVars>>
      BY <1>3, <2>3 DEF ConsumeChallenge
    <3> QED
      BY <2>2, <3>1, LookupsEnd DEF Points
  <2>4. CASE row[c] = 0
    <3>1. claims[c] = 0
      BY <2>1, <2>4 DEF ChallengeInv, RecordOutlivesChallenge, Looking, TypeInv, TypeOK
    <3>2. /\ row' = [row EXCEPT ![c] = clock] /\ claims' = [claims EXCEPT ![c] = @ + 1]
          /\ UNCHANGED <<clock, window>>
      BY <1>3, <2>4 DEF ConsumeChallenge
    <3>3. /\ row' \in [Challenges -> Nat] /\ row'[c] = clock /\ clock >= 1
          /\ claims' \in [Challenges -> Nat] /\ claims'[c] = 1
          /\ \A d \in Challenges \ {c} : row'[d] = row[d] /\ claims'[d] = claims[d]
      BY <2>1, <3>1, <3>2 DEF TypeInv, TypeOK
    <3>4. /\ ~ Looking(r)'
          /\ \A q \in Requests \ {r} : /\ at'[q] = at[q] /\ about'[q] = about[q]
                                       /\ since'[q] = since[q]
      BY <2>2, AdvanceType, MoveType DEF Points, Looking
    <3>5. LookupsOK'
      BY <3>2, <3>4 DEF ChallengeInv, LookupsOK, Looking
    <3>6. RowsOK'
      BY <2>1, <3>2, <3>3 DEF ChallengeInv, RowsOK, LookupsOK
    <3>7. OneLoginPerChallenge'
      BY <3>3 DEF ChallengeInv, OneLoginPerChallenge
    <3>8. RecordOutlivesChallenge'
      BY <3>2, <3>3, <3>4 DEF ChallengeInv, RecordOutlivesChallenge, WindowOpen, Issued, Looking,
         TypeInv, TypeOK
    <3> QED
      BY <3>5, <3>6, <3>7, <3>8 DEF ChallengeInv
  <2> QED
    BY <2>3, <2>4
<1>4. ASSUME NEW r \in Requests, NEW t \in Tokens, IssueRefreshToken(r, t) PROVE ChallengeInv'
    BY <1>4, LookupsEnd DEF IssueRefreshToken, Return, Points
<1>5. CASE CleanupChallenges
  <2>1. PICK ahead \in 0..Jitter :
          row' = [c \in Challenges |-> IF Swept(c, clock + ahead) THEN 0 ELSE row[c]]
    BY <1>5 DEF CleanupChallenges
  <2>2. UNCHANGED <<clock, window, claims, at, about, since>>
    BY <1>5 DEF CleanupChallenges
  <2>3. LookupsOK'
    BY <2>2 DEF ChallengeInv, LookupsOK, Looking
  <2>4. RowsOK' /\ OneLoginPerChallenge'
    BY <2>1, <2>2 DEF ChallengeInv, RowsOK, OneLoginPerChallenge
  <2>5. RecordOutlivesChallenge'
    <3> SUFFICES ASSUME NEW c \in Challenges, claims[c] > 0,
                        \/ WindowOpen(c)
                        \/ \E r \in Requests : at[r] \in {"lookup", "lookupOnly"} /\ about[r] = c
                 PROVE row'[c] # 0
      BY <2>2 DEF RecordOutlivesChallenge, WindowOpen, Issued
    <3>1. row[c] # 0 /\ ~ Swept(c, clock + ahead)
      BY NotSwept
    <3> QED
      BY <2>1, <3>1
  <2> QED
    BY <2>3, <2>4, <2>5 DEF ChallengeInv
<1>6. ASSUME NEW r \in Requests, NEW t \in Tokens, ReadToken(r, t) PROVE ChallengeInv'
    BY <1>6, LookupsEnd DEF ReadToken, Points
<1>7. ASSUME NEW r \in Requests, NEW t \in Tokens, ReuseDetected(r, t) PROVE ChallengeInv'
  <2>1. PICK S \in SUBSET born : Move(r, "revokeFamily", t, S)
    BY <1>7 DEF ReuseDetected
  <2>2. UNCHANGED <<clock, challengeVars>> /\ S \in SUBSET Tokens
    BY <1>7 DEF ReuseDetected, TypeInv, TypeOK
  <2> QED
    BY <2>1, <2>2, LookupsEnd DEF Points
<1>8. ASSUME NEW r \in Requests, ClaimToken(r) PROVE ChallengeInv'
    BY <1>8, LookupsEnd DEF ClaimToken, Return, Points
<1>9. ASSUME NEW r \in Requests, NEW t \in Tokens, CommitRotation(r, t) PROVE ChallengeInv'
    BY <1>9, LookupsEnd DEF CommitRotation, Return, Points
<1>10. ASSUME NEW r \in Requests, NEW a \in Accounts, Logout(r, a) PROVE ChallengeInv'
  <2>1. PICK S \in SUBSET born : Move(r, "revokeUser", None, S)
    BY <1>10 DEF Logout, Live
  <2>2. UNCHANGED <<clock, challengeVars>> /\ S \in SUBSET Tokens
    BY <1>10 DEF Logout, TypeInv, TypeOK
  <2> QED
    BY <2>1, <2>2, LookupsEnd DEF Points
<1>11. ASSUME NEW r \in Requests, Revoke(r) \/ Abandon(r) PROVE ChallengeInv'
    BY <1>11, LookupsEnd DEF Revoke, Abandon, Return, Points
<1>12. CASE Tick
  <2>1. /\ clock \in Nat /\ clock' = clock + 1
        /\ UNCHANGED <<challengeVars, at, about, since>>
        /\ \A r \in Requests : Looking(r) => clock < since[r] + LookupTime
    BY <1>12 DEF Tick, Looking, TypeInv, TypeOK
  <2>2. \A r \in Requests : since[r] + LookupTime \in Nat
    BY AuthAssumption DEF TypeInv, TypeOK
  <2>3. LookupsOK'
    BY <2>1, <2>2 DEF ChallengeInv, LookupsOK, Looking
  <2>4. RowsOK'
    BY <2>1, AuthAssumption DEF ChallengeInv, RowsOK, TypeInv, TypeOK
  <2>5. OneLoginPerChallenge'
    BY <2>1 DEF ChallengeInv, OneLoginPerChallenge
  <2>6. RecordOutlivesChallenge'
    BY <2>1, AuthAssumption
       DEF ChallengeInv, RecordOutlivesChallenge, WindowOpen, Issued, TypeInv, TypeOK
  <2> QED
    BY <2>3, <2>4, <2>5, <2>6 DEF ChallengeInv
<1>13. CASE UNCHANGED vars
    BY <1>13, ChallengesKept DEF vars, Looking
<1> QED
    BY <1>1, <1>2, <1>3, <1>4, <1>5, <1>6, <1>7, <1>8, <1>9, <1>10, <1>11, <1>12, <1>13 DEF Next

(***************************************************************************)
(* Refresh tokens.                                                         *)
(***************************************************************************)
TokenInv == RotationInv /\ FamilyInv

(* A step that writes no token row and takes no lock. *)
LEMMA TokensKept ==
    ASSUME TokenInv, UNCHANGED tokenVars,
           \A q \in Requests : at'[q] = "commit" => at[q] = "commit" /\ about'[q] = about[q]
    PROVE TokenInv'
<1> USE DEF tokenVars
<1>1. RotationInv'
    BY DEF TokenInv, RotationInv, ExchangedOnce, Live
<1>2. FamilyInv'
    BY DEF TokenInv, FamilyInv, Live
<1> QED
    BY <1>1, <1>2 DEF TokenInv

(* A request that moves on without taking a lock. *)
LEMMA LocksEnd ==
    ASSUME TypeInv, TokenInv, UNCHANGED tokenVars, NEW r \in Requests,
           NEW p \in Points \ {"commit"},
           NEW w \in Challenges \cup Tokens \cup {None}, NEW S \in SUBSET Tokens,
           Move(r, p, w, S) \/ Advance(r, p)
    PROVE TokenInv'
<1>1. CASE Move(r, p, w, S)
  <2>1. at'[r] = p /\ \A q \in Requests \ {r} : at'[q] = at[q] /\ about'[q] = about[q]
    BY <1>1, MoveType
  <2> QED
    BY <2>1, TokensKept
<1>2. CASE Advance(r, p)
  <2>1. at'[r] = p /\ (\A q \in Requests \ {r} : at'[q] = at[q]) /\ UNCHANGED about
    BY <1>2, AdvanceType
  <2> QED
    BY <2>1, TokensKept
<1> QED
    BY <1>1, <1>2

(* There are no tokens at the start. *)
LEMMA InitTokens == Init => TokenInv
    BY DEF Init, TokenInv, RotationInv, FamilyInv, ExchangedOnce, Live

(* A login, a claim, a rotation and a revocation are the steps that touch  *)
(* what TokenInv speaks of.                                                *)
LEMMA TokenStep == TypeInv /\ TokenInv /\ [Next]_vars => TokenInv'
<1> SUFFICES ASSUME TypeInv, TokenInv, [Next]_vars PROVE TokenInv'
    OBVIOUS
<1> USE DEF tokenVars, requestVars
<1>1. ASSUME NEW c \in Challenges, BuildChallenge(c) PROVE TokenInv'
    BY <1>1, TokensKept DEF BuildChallenge
<1>2. ASSUME NEW r \in Requests, NEW c \in Challenges, Verify(r, c) \/ AuthenticateSep10(r, c)
      PROVE TokenInv'
    BY <1>2, LocksEnd DEF Verify, AuthenticateSep10, ReadChallenge, Points
<1>3. ASSUME NEW r \in Requests, ConsumeChallenge(r) PROVE TokenInv'
    BY <1>3, LocksEnd DEF ConsumeChallenge, Return, Points
<1>4. ASSUME NEW r \in Requests, NEW t \in Tokens, IssueRefreshToken(r, t) PROVE TokenInv'
  <2>1. InsertToken(t, t, None, Wallet[about[r]], clock) /\ Return(r)
        /\ UNCHANGED <<rotated, revoked>>
    BY <1>4 DEF IssueRefreshToken
  <2>2. about[r] \in Challenges /\ Wallet[about[r]] \in Accounts /\ clock \in Nat
    BY <1>4, AuthAssumption DEF IssueRefreshToken, TypeInv, TypeOK, HandlersOK
  <2>3. /\ t \notin born /\ born' = born \cup {t} /\ family'[t] = t /\ parent'[t] = None
        /\ \A u \in Tokens \ {t} : family'[u] = family[u] /\ parent'[u] = parent[u]
    BY <2>1, <2>2, InsertType
  <2>4. /\ at'[r] = "idle"
        /\ \A q \in Requests \ {r} : at'[q] = at[q] /\ about'[q] = about[q]
    BY <2>1, ReturnType
  <2>5. Live \subseteq Live' /\ Live' \subseteq Live \cup {t} /\ Live \subseteq born
        /\ born \subseteq Tokens
    BY <2>1, <2>3 DEF Live, TypeInv, TypeOK
  <2>6. RotationInv'
    BY <2>1, <2>3, <2>4, <2>5 DEF TokenInv, RotationInv, ExchangedOnce
  <2>7. FamilyInv'
    BY <2>3, <2>5 DEF TokenInv, FamilyInv
  <2> QED
    BY <2>6, <2>7 DEF TokenInv
<1>5. CASE CleanupChallenges
    BY <1>5, TokensKept DEF CleanupChallenges
<1>6. ASSUME NEW r \in Requests, NEW t \in Tokens, ReadToken(r, t) PROVE TokenInv'
    BY <1>6, LocksEnd DEF ReadToken, Points
<1>7. ASSUME NEW r \in Requests, NEW t \in Tokens, ReuseDetected(r, t) PROVE TokenInv'
  <2>1. PICK S \in SUBSET born : Move(r, "revokeFamily", t, S)
    BY <1>7 DEF ReuseDetected
  <2>2. UNCHANGED tokenVars /\ S \in SUBSET Tokens
    BY <1>7 DEF ReuseDetected, TypeInv, TypeOK
  <2> QED
    BY <2>1, <2>2, LocksEnd DEF Points
<1>8. ASSUME NEW r \in Requests, ClaimToken(r) PROVE TokenInv'
  <2>1. UNCHANGED tokenVars
    BY <1>8 DEF ClaimToken
  <2>2. CASE about[r] \notin Live
    BY <1>8, <2>1, <2>2, LocksEnd DEF ClaimToken, Return, Points
  <2>3. CASE about[r] \in Live
    <3>1. Advance(r, "commit") /\ \A q \in Requests : ~ Locks(q, about[r])
      BY <1>8, <2>3 DEF ClaimToken
    <3>2. /\ at'[r] = "commit" /\ (\A q \in Requests \ {r} : at'[q] = at[q])
          /\ UNCHANGED about
      BY <3>1, AdvanceType DEF Points
    <3>3. Live' = Live
      BY <2>1 DEF Live
    <3>4. RotationInv'
      BY <2>1, <2>3, <3>1, <3>2, <3>3 DEF TokenInv, RotationInv, ExchangedOnce, Locks
    <3>5. FamilyInv'
      BY <2>1, <3>3 DEF TokenInv, FamilyInv
    <3> QED
      BY <3>4, <3>5 DEF TokenInv
  <2> QED
    BY <2>2, <2>3
<1>9. ASSUME NEW r \in Requests, NEW t \in Tokens, CommitRotation(r, t) PROVE TokenInv'
  <2> DEFINE o == about[r]
  <2>1. /\ InsertToken(t, family[o], o, user[o], since[r]) /\ Return(r)
        /\ rotated' = rotated \cup {o} /\ UNCHANGED revoked /\ at[r] = "commit"
    BY <1>9 DEF CommitRotation
  <2>2. o \in Live /\ o \in Tokens /\ o \in born /\ o \notin rotated
    BY <2>1 DEF TokenInv, RotationInv, Live, TypeInv, TypeOK
  <2>3. /\ family[o] \in Tokens \cup {None} /\ user[o] \in Accounts \cup {None}
        /\ since[r] \in Nat
    BY <2>2 DEF TypeInv, TypeOK
  <2>4. /\ t \notin born /\ born' = born \cup {t} /\ family'[t] = family[o] /\ parent'[t] = o
        /\ \A u \in Tokens \ {t} : family'[u] = family[u] /\ parent'[u] = parent[u]
    <3> HIDE DEF o
    <3>1. o \in Tokens \cup {None}
      BY <2>2
    <3> QED
      BY <2>1, <2>3, <3>1, InsertType
  <2>5. /\ at'[r] = "idle"
        /\ \A q \in Requests \ {r} : at'[q] = at[q] /\ about'[q] = about[q]
    BY <2>1, ReturnType
  <2>6. /\ rotated \subseteq born /\ revoked \subseteq born /\ born \subseteq Tokens
        /\ Live \subseteq born /\ t # o
    BY <2>2, <2>4 DEF Live, TypeInv, TypeOK
  <2>7. Live' = (Live \ {o}) \cup {t}
    BY <2>1, <2>2, <2>4, <2>6 DEF Live
  <2>8. RotationInv'
    <3>1. \A q \in Requests : at'[q] = "commit" => about'[q] \in Live'
      BY <2>1, <2>5, <2>7 DEF TokenInv, RotationInv
    <3>2. \A q, p \in Requests :
            at'[q] = "commit" /\ at'[p] = "commit" /\ about'[q] = about'[p] => q = p
      BY <2>5 DEF TokenInv, RotationInv
    <3>3. \A u \in born' : parent'[u] # None => parent'[u] \in rotated'
      BY <2>1, <2>4, <2>6 DEF TokenInv, RotationInv
    <3>4. \A u \in born : parent[u] # o
      BY <2>2, AuthAssumption DEF TokenInv, RotationInv
    <3>5. ExchangedOnce'
      BY <2>4, <2>6, <3>4 DEF TokenInv, RotationInv, ExchangedOnce
    <3> QED
      BY <3>1, <3>2, <3>3, <3>5 DEF RotationInv
  <2>9. FamilyInv'
    <3>1. ASSUME NEW u \in born'
          PROVE  family'[u] \in born' /\ family'[family'[u]] = family'[u]
      <4>1. PICK v \in born : family'[u] = family[v]
        BY <2>2, <2>4, <2>6
      <4>2. family[v] \in born /\ family[family[v]] = family[v]
        BY DEF TokenInv, FamilyInv
      <4>3. family[v] \in Tokens \ {t}
        BY <2>4, <2>6, <4>2
      <4> QED
        BY <2>4, <4>1, <4>2, <4>3
    <3>2. \A u, v \in Live' : family'[u] = family'[v] => u = v
      BY <2>2, <2>4, <2>6, <2>7 DEF TokenInv, FamilyInv
    <3> QED
      BY <3>1, <3>2 DEF FamilyInv
  <2> QED
    BY <2>8, <2>9 DEF TokenInv
<1>10. ASSUME NEW r \in Requests, NEW a \in Accounts, Logout(r, a) PROVE TokenInv'
  <2>1. PICK S \in SUBSET born : Move(r, "revokeUser", None, S)
    BY <1>10 DEF Logout, Live
  <2>2. UNCHANGED tokenVars /\ S \in SUBSET Tokens
    BY <1>10 DEF Logout, TypeInv, TypeOK
  <2> QED
    BY <2>1, <2>2, LocksEnd DEF Points
<1>11. ASSUME NEW r \in Requests, Revoke(r) PROVE TokenInv'
  <2>1. /\ revoked \subseteq revoked' /\ revoked' \subseteq revoked \cup seen[r] /\ Return(r)
        /\ UNCHANGED <<born, rotated, family, parent>>
        /\ \A q \in Requests, t \in seen[r] : ~ Locks(q, t)
    BY <1>11 DEF Revoke
  <2>2. /\ at'[r] = "idle"
        /\ \A q \in Requests \ {r} : at'[q] = at[q] /\ about'[q] = about[q]
    BY <2>1, ReturnType
  <2>3. Live' \subseteq Live /\ Live \ seen[r] \subseteq Live'
    BY <2>1 DEF Live
  <2>4. RotationInv'
    BY <2>1, <2>2, <2>3 DEF TokenInv, RotationInv, ExchangedOnce, Locks
  <2>5. FamilyInv'
    BY <2>1, <2>3 DEF TokenInv, FamilyInv
  <2> QED
    BY <2>4, <2>5 DEF TokenInv
<1>12. ASSUME NEW r \in Requests, Abandon(r) PROVE TokenInv'
    BY <1>12, LocksEnd DEF Abandon, Return, Points
<1>13. CASE Tick
    BY <1>13, TokensKept DEF Tick
<1>14. CASE UNCHANGED vars
    BY <1>14, TokensKept DEF vars
<1> QED
    BY <1>1, <1>2, <1>3, <1>4, <1>5, <1>6, <1>7, <1>8, <1>9, <1>10, <1>11, <1>12, <1>13, <1>14
       DEF Next

-----------------------------------------------------------------------------
(***************************************************************************)
(* The theorems.                                                           *)
(***************************************************************************)
AuthInv == TypeInv /\ ChallengeInv /\ TokenInv

(* What the handlers hold, the timing of the challenges and the chain of    *)
(* the tokens are kept by every step, with any number of requests.         *)
THEOREM AuthInvariant == Spec => []AuthInv
<1>1. Init => AuthInv
    BY InitType, InitChallenges, InitTokens DEF AuthInv
<1>2. AuthInv /\ [Next]_vars => AuthInv'
    BY TypeStep, ChallengeStep, TokenStep DEF AuthInv
<1> QED
    BY <1>1, <1>2, PTL DEF Spec

(* The rows and the handlers' locals keep their types. *)
THEOREM AuthTypes == Spec => []TypeOK
<1>1. AuthInv => TypeOK
    BY DEF AuthInv, TypeInv
<1> QED
    BY <1>1, AuthInvariant, PTL

(* A challenge authenticates one request (consumeChallenge), for every     *)
(* setting of the times that keeps the row longer than a lookup can last.  *)
THEOREM LoginOnce == Spec => []OneLoginPerChallenge
<1>1. AuthInv => OneLoginPerChallenge
    BY DEF AuthInv, ChallengeInv
<1> QED
    BY <1>1, AuthInvariant, PTL

(* A refresh token has one successor (rotateRefreshToken's conditional     *)
(* update), however many requests present it.                              *)
THEOREM TokenExchangedOnce == Spec => []ExchangedOnce
<1>1. AuthInv => ExchangedOnce
    BY DEF AuthInv, TokenInv, RotationInv
<1> QED
    BY <1>1, AuthInvariant, PTL

-----------------------------------------------------------------------------
(***************************************************************************)
(* The refinement.                                                         *)
(***************************************************************************)
Head == [f \in Tokens |->
           IF f \notin born \/ family[f] # f THEN None
           ELSE IF LiveOf(f) = {} THEN "ended"
           ELSE CHOOSE t \in LiveOf(f) : TRUE]

(* A name that opened no session has no head; a live token is the head of  *)
(* its session; a session without one has ended.                           *)
HeadIs ==
    /\ \A f \in Tokens : f \notin born \/ family[f] # f => Head[f] = None
    /\ \A t \in Live : Head[family[t]] = t
    /\ \A f \in born : family[f] = f /\ (\A t \in Live : family[t] # f) => Head[f] = "ended"

(* The mapping is what it is meant to be. *)
LEMMA HeadOf == AuthInv => HeadIs
<1> SUFFICES ASSUME AuthInv PROVE HeadIs
    OBVIOUS
<1>1. \A f \in Tokens : f \notin born \/ family[f] # f => Head[f] = None
    BY DEF Head
<1>2. ASSUME NEW t \in Live PROVE Head[family[t]] = t
  <2>1. /\ t \in born /\ family[t] \in born /\ family[family[t]] = family[t]
        /\ family[t] \in Tokens
    BY DEF AuthInv, TokenInv, FamilyInv, Live, TypeInv, TypeOK
  <2>2. LiveOf(family[t]) = {t}
    BY DEF LiveOf, AuthInv, TokenInv, FamilyInv
  <2>3. (CHOOSE u \in {t} : TRUE) = t
    OBVIOUS
  <2> QED
    BY <2>1, <2>2, <2>3 DEF Head
<1>3. ASSUME NEW f \in born, family[f] = f, \A t \in Live : family[t] # f
      PROVE Head[f] = "ended"
  <2>1. LiveOf(f) = {} /\ f \in Tokens
    BY <1>3 DEF LiveOf, AuthInv, TypeInv, TypeOK
  <2> QED
    BY <1>3, <2>1 DEF Head
<1> QED
    BY <1>1, <1>2, <1>3 DEF HeadIs

(* And after the step as well. *)
LEMMA HeadOfNext == AuthInv' => HeadIs'
    BY HeadOf, PTL

(* A name whose session has the same live token before and after. *)
LEMMA HeadKept ==
    ASSUME HeadIs, HeadIs', NEW f \in Tokens,
           (f \in born /\ family[f] = f) <=> (f \in born' /\ family'[f] = f),
           \A t : (t \in Live /\ family[t] = f) <=> (t \in Live' /\ family'[t] = f)
    PROVE Head'[f] = Head[f]
<1>1. CASE ~ (f \in born /\ family[f] = f)
    BY <1>1 DEF HeadIs
<1>2. CASE f \in born /\ family[f] = f /\ \E t \in Live : family[t] = f
  <2>1. PICK t \in Live : family[t] = f
    BY <1>2
  <2>2. t \in Live' /\ family'[t] = f
    BY <2>1
  <2> QED
    BY <2>1, <2>2 DEF HeadIs
<1>3. CASE f \in born /\ family[f] = f /\ \A t \in Live : family[t] # f
  <2>1. f \in born' /\ family'[f] = f /\ \A t \in Live' : family'[t] # f
    BY <1>3
  <2> QED
    BY <1>3, <2>1 DEF HeadIs
<1> QED
    BY <1>1, <1>2, <1>3

(* Two heads are compared name by name. *)
LEMMA HeadFunction ==
    /\ Head = [f \in Tokens |-> Head[f]]
    /\ Head' = [f \in Tokens |-> Head'[f]]
    BY DEF Head

(* A login opens a session. *)
LEMMA IssueOpens ==
    ASSUME AuthInv, AuthInv', NEW r \in Requests, NEW t \in Tokens, IssueRefreshToken(r, t)
    PROVE Session!Open(t)
<1>1. InsertToken(t, t, None, Wallet[about[r]], clock) /\ UNCHANGED <<rotated, revoked>>
    BY DEF IssueRefreshToken
<1>2. about[r] \in Challenges /\ Wallet[about[r]] \in Accounts /\ clock \in Nat /\ TypeInv
    BY AuthAssumption DEF IssueRefreshToken, AuthInv, TypeInv, TypeOK, HandlersOK
<1>3. /\ t \notin born /\ born' = born \cup {t} /\ family'[t] = t
      /\ \A u \in Tokens \ {t} : family'[u] = family[u]
    BY <1>1, <1>2, InsertType
<1>4. Live' = Live \cup {t} /\ Live \subseteq born /\ born \subseteq Tokens
    BY <1>1, <1>2, <1>3 DEF Live, TypeInv, TypeOK
<1>5. HeadIs /\ HeadIs'
    BY HeadOf, HeadOfNext
<1>6. \A u \in born : family[u] # t
    BY <1>3 DEF AuthInv, TokenInv, FamilyInv
<1>7. Head[t] = None /\ Head'[t] = t
    BY <1>3, <1>4, <1>5 DEF HeadIs
<1>8. ASSUME NEW f \in Tokens \ {t} PROVE Head'[f] = Head[f]
  <2>1. (f \in born /\ family[f] = f) <=> (f \in born' /\ family'[f] = f)
    BY <1>3
  <2>2. \A u : (u \in Live /\ family[u] = f) <=> (u \in Live' /\ family'[u] = f)
    BY <1>3, <1>4
  <2> QED
    BY <1>5, <2>1, <2>2, HeadKept
<1>9. Head' = [Head EXCEPT ![t] = t]
    BY <1>7, <1>8, HeadFunction
<1> QED
    BY <1>3, <1>7, <1>9 DEF Session!Open, Head

(* A rotation passes the session on. *)
LEMMA RotationPasses ==
    ASSUME AuthInv, AuthInv', NEW r \in Requests, NEW t \in Tokens, CommitRotation(r, t)
    PROVE Session!Pass(family[about[r]], t) /\ family[about[r]] \in Tokens
<1> DEFINE o == about[r]
<1>1. /\ InsertToken(t, family[o], o, user[o], since[r])
      /\ rotated' = rotated \cup {o} /\ UNCHANGED revoked /\ at[r] = "commit"
    BY DEF CommitRotation
<1>2. TypeInv /\ o \in Live /\ o \in Tokens /\ o \in born
    BY <1>1 DEF AuthInv, TokenInv, RotationInv, Live, TypeInv, TypeOK
<1>3. /\ family[o] \in born /\ family[o] \in Tokens /\ family[family[o]] = family[o]
      /\ user[o] \in Accounts \cup {None} /\ since[r] \in Nat
    BY <1>2 DEF AuthInv, TokenInv, FamilyInv, TypeInv, TypeOK
<1>4. /\ t \notin born /\ born' = born \cup {t} /\ family'[t] = family[o]
      /\ \A u \in Tokens \ {t} : family'[u] = family[u]
  <2> HIDE DEF o
  <2>1. o \in Tokens \cup {None} /\ family[o] \in Tokens \cup {None}
    BY <1>2, <1>3
  <2> QED
    BY <1>1, <1>2, <1>3, <2>1, InsertType
<1>5. Live' = (Live \ {o}) \cup {t} /\ Live \subseteq born /\ born \subseteq Tokens
    BY <1>1, <1>2, <1>4 DEF Live, TypeInv, TypeOK
<1>6. HeadIs /\ HeadIs'
    BY HeadOf, HeadOfNext
<1>7. Head[family[o]] = o /\ Head'[family[o]] = t
    BY <1>2, <1>4, <1>5, <1>6 DEF HeadIs
<1>8. ASSUME NEW f \in Tokens \ {family[o]} PROVE Head'[f] = Head[f]
  <2>1. (f \in born /\ family[f] = f) <=> (f \in born' /\ family'[f] = f)
    BY <1>3, <1>4
  <2>2. \A u : (u \in Live /\ family[u] = f) <=> (u \in Live' /\ family'[u] = f)
    BY <1>4, <1>5
  <2> QED
    BY <1>6, <2>1, <2>2, HeadKept
<1>9. Head' = [Head EXCEPT ![family[o]] = t]
    BY <1>3, <1>7, <1>8, HeadFunction
<1> QED
    BY <1>2, <1>3, <1>4, <1>7, <1>9 DEF Session!Pass, Head

(* A revocation ends the sessions whose live token it found. *)
LEMMA RevokeEnds ==
    ASSUME AuthInv, AuthInv', NEW r \in Requests, Revoke(r)
    PROVE (\E G \in SUBSET Tokens : Session!End(G)) \/ UNCHANGED <<Head, born>>
<1> DEFINE F == {f \in Tokens : Head[f] \in Tokens /\ Head'[f] = "ended"}
<1>1. /\ UNCHANGED <<born, rotated, family>> /\ revoked \subseteq revoked'
    BY DEF Revoke
<1>2. Live' \subseteq Live /\ Live \subseteq born /\ born \subseteq Tokens
    BY <1>1 DEF Live, AuthInv, TypeInv, TypeOK
<1>3. HeadIs /\ HeadIs'
    BY HeadOf, HeadOfNext
<1>4. ASSUME NEW f \in Tokens PROVE Head'[f] = IF f \in F THEN "ended" ELSE Head[f]
  <2>1. CASE \E t \in Live \ Live' : family[t] = f
    <3>1. PICK t \in Live \ Live' : family[t] = f
      BY <2>1
    <3>2. Head[f] = t /\ t \in Tokens
      BY <1>2, <1>3, <3>1 DEF HeadIs
    <3>3. f \in born /\ family[f] = f
      BY <1>2, <3>1 DEF AuthInv, TokenInv, FamilyInv
    <3>4. \A u \in Live' : family'[u] # f
      BY <1>1, <1>2, <3>1 DEF AuthInv, TokenInv, FamilyInv
    <3>5. Head'[f] = "ended"
      BY <1>1, <1>3, <3>3, <3>4 DEF HeadIs
    <3> QED
      BY <3>2, <3>5
  <2>2. CASE ~ \E t \in Live \ Live' : family[t] = f
    <3>1. \A u : (u \in Live /\ family[u] = f) <=> (u \in Live' /\ family'[u] = f)
      BY <1>1, <1>2, <2>2
    <3>2. Head'[f] = Head[f]
      BY <1>1, <1>3, <3>1, HeadKept
    <3> QED
      BY <3>2
  <2> QED
    BY <2>1, <2>2
<1>5. Head' = [f \in Tokens |-> IF f \in F THEN "ended" ELSE Head[f]]
    BY <1>4, HeadFunction
<1>6. CASE F = {}
  <2>1. Head' = Head
    BY <1>5, <1>6, HeadFunction
  <2> QED
    BY <1>1, <2>1
<1>7. CASE F # {}
  <2>1. \A f \in F : Head[f] \in Tokens
    OBVIOUS
  <2>2. F \in SUBSET Tokens
    OBVIOUS
  <2>3. PICK G \in SUBSET Tokens : G = F
    BY <2>2
  <2> HIDE DEF F
  <2>4. Session!End(G)
    BY <1>1, <1>5, <1>7, <2>1, <2>3 DEF Session!End, Head
  <2> QED
    BY <2>4
<1> QED
    BY <1>6, <1>7

(* A step that writes no token row leaves the sessions alone. *)
LEMMA SessionsKept ==
    ASSUME AuthInv, AuthInv', UNCHANGED tokenVars
    PROVE UNCHANGED <<Head, born>>
<1>1. UNCHANGED <<born, rotated, revoked, family>>
    BY DEF tokenVars
<1>2. Live' = Live
    BY <1>1 DEF Live
<1>3. HeadIs /\ HeadIs'
    BY HeadOf, HeadOfNext
<1>4. \A f \in Tokens : Head'[f] = Head[f]
    BY <1>1, <1>2, <1>3, HeadKept
<1>5. Head' = Head
    BY <1>4, HeadFunction
<1> QED
    BY <1>1, <1>5

(* No session is open at the start. *)
LEMMA SessionInit == Init => Session!Init
<1> SUFFICES ASSUME Init PROVE Session!Init
    OBVIOUS
<1>1. born = {} /\ Head = [f \in Tokens |-> None]
    BY DEF Init, Head
<1> QED
    BY <1>1 DEF Session!Init, Head

(* Every step maps to a step of SessionChain or to a stutter. *)
LEMMA SessionStep ==
    AuthInv /\ AuthInv' /\ [Next]_vars => [Session!Next]_<<Head, born>>
<1> SUFFICES ASSUME AuthInv, AuthInv', [Next]_vars
             PROVE Session!Next \/ UNCHANGED <<Head, born>>
    OBVIOUS
<1>1. CASE \E r \in Requests, t \in Tokens : IssueRefreshToken(r, t)
    BY <1>1, IssueOpens DEF Session!Next
<1>2. CASE \E r \in Requests, t \in Tokens : CommitRotation(r, t)
    BY <1>2, RotationPasses DEF Session!Next
<1>3. CASE \E r \in Requests : Revoke(r)
    BY <1>3, RevokeEnds DEF Session!Next
<1>4. CASE UNCHANGED tokenVars
    BY <1>4, SessionsKept
<1> QED
    BY <1>1, <1>2, <1>3, <1>4
       DEF Next, vars, BuildChallenge, Verify, AuthenticateSep10, ReadChallenge, ConsumeChallenge,
           CleanupChallenges, ReadToken, ReuseDetected, ClaimToken, Logout, Abandon, Tick

(* The refresh tokens implement SessionChain: a session has one current    *)
(* token, and once revoked or reused it never gets another.                *)
THEOREM SessionsRefine == Spec => SessionSpec
<1> QED
    BY SessionInit, SessionStep, AuthInvariant, PTL DEF Spec, SessionSpec, Session!Spec, Head
=============================================================================
