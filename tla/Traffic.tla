------------------------------ MODULE Traffic ------------------------------
(***************************************************************************)
(* A process between its clients and its providers: requests that come in  *)
(* past the limiter, the calls that go out, and the lists that clients     *)
(* walk.  They share no state, so a behaviour has one of the three, as its *)
(* workload says.                                                          *)
(***************************************************************************)
EXTENDS UpstreamCalls, RateLimit, LedgerFeed

vars == <<callsVars, limiterVars, feedVars>>

Init == CallsInit /\ LimiterInit /\ IF workload.lists THEN FeedInit ELSE FeedIdle

Next ==
    \/ CallsNext /\ UNCHANGED <<limiterVars, feedVars>>
    \/ /\ workload.inbound
       /\ LimiterNext /\ UNCHANGED <<callsVars, feedVars>>
    \/ /\ workload.lists
       /\ FeedNext /\ UNCHANGED <<callsVars, limiterVars>>

Spec == Init /\ [][Next]_vars

-----------------------------------------------------------------------------

\* Types of the three parts.
TypeOK == CallsTypeOK /\ LimiterTypeOK /\ FeedTypeOK
=============================================================================
