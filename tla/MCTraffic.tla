----------------------------- MODULE MCTraffic -----------------------------
(***************************************************************************)
(* Up to three calls of any kind at once, two Horizon endpoints, two       *)
(* attempts and a breaker that opens at the second failure; five requests  *)
(* on one key; four rows of the three tables, two of them written or       *)
(* deleted while a client walks.  Calls are interchangeable.               *)
(***************************************************************************)
EXTENDS Traffic, TLC

\* The breaker needs a third call to be probed; the rotation's shared state shows with two.
MCWorkloads == {[kinds |-> {"toml", "poll"}, calls |-> 3, inbound |-> FALSE, lists |-> FALSE],
                [kinds |-> {"start", "query"}, calls |-> 2, inbound |-> FALSE, lists |-> FALSE],
                [kinds |-> {"account", "submit"}, calls |-> 2, inbound |-> FALSE, lists |-> FALSE],
                [kinds |-> {}, calls |-> 0, inbound |-> TRUE, lists |-> FALSE],
                [kinds |-> {}, calls |-> 0, inbound |-> FALSE, lists |-> TRUE]}

MCLimit == [k \in Keys |-> 1]

MCKindOf == <<"expense", "settlement", "expense", "treasury">>

MCQueries ==
    [kinds : {{"expense", "settlement", "treasury"}}, order : {"asc", "desc"},
     limit : {1, 2}, from : {0}, to : {9}]
      \cup [kinds : {{"expense"}}, order : {"asc", "desc"}, limit : {1}, from : {2}, to : {9}]

Symmetry == Permutations(Calls)
=============================================================================
