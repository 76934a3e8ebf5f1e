---------------------------- MODULE SessionChain ----------------------------
(***************************************************************************)
(* What the refresh tokens promise of a login: a session is opened once,   *)
(* has one current token at a time, passes to a token never seen before,   *)
(* and once it has ended it stays ended.                                   *)
(***************************************************************************)
CONSTANTS
    Token,   \* refresh tokens; a session is named after the token it opened with
    None     \* the session of a login that has not happened

VARIABLES
    head,    \* session -> its current token, None before the login, "ended" after the end
    used     \* tokens handed out so far

Init ==
    /\ head = [f \in Token |-> None]
    /\ used = {}

Open(f) ==
    /\ f \notin used
    /\ head[f] = None
    /\ head' = [head EXCEPT ![f] = f]
    /\ used' = used \cup {f}

Pass(f, t) ==
    /\ head[f] \in Token
    /\ t \notin used
    /\ head' = [head EXCEPT ![f] = t]
    /\ used' = used \cup {t}

End(F) ==
    /\ F # {}
    /\ \A f \in F : head[f] \in Token
    /\ head' = [f \in Token |-> IF f \in F THEN "ended" ELSE head[f]]
    /\ UNCHANGED used

Next ==
    \/ \E f \in Token : Open(f)
    \/ \E f \in Token, t \in Token : Pass(f, t)
    \/ \E F \in SUBSET Token : End(F)

Spec == Init /\ [][Next]_<<head, used>>
=============================================================================
