------------------------------ MODULE SplitMath ------------------------------
(***************************************************************************)
(* The money arithmetic of the repository, in whole stroops: how a bill is *)
(* split, how amounts are apportioned and converted, how balances are      *)
(* netted and which transfers settle them.                                 *)
(***************************************************************************)
EXTENDS Integers, Sequences, FiniteSets, SequencesExt, Functions

CONSTANTS
    Cent,         \* 100 percent, in the unit percentages are rounded to
    RateScale     \* what a conversion rate is scaled by

ASSUME SplitMathAssumption == Cent \in Nat \ {0} /\ RateScale \in Nat \ {0}

Total(s) == SumFunction(s)

(***************************************************************************)
(* computeShares: the split of a new expense.  A percentage comes in       *)
(* tenths of the unit it is rounded to, and the sum may be off by one unit.*)
(***************************************************************************)
Rounded(p) == (p + 5) \div 10

Distance(a, b) == IF a < b THEN b - a ELSE a - b

ValidSplit(total, kind, input) ==
    /\ Len(input) > 0 /\ total > 0
    /\ kind = "custom" => (\A i \in DOMAIN input : input[i] > 0) /\ Total(input) = total
    /\ kind = "percentage" => Distance(Total(input), 10 * Cent) <= 10

(* mutant: the remainder is given away only when it is positive *)
FixRemainderUpward(s, total) ==
    IF total > Total(s) THEN [s EXCEPT ![1] = @ + (total - Total(s))] ELSE s

FixRemainder(s, total) == [s EXCEPT ![1] = @ + (total - Total(s))]

ComputeShares(total, kind, input) ==
    CASE kind = "custom"     -> input
      [] kind = "percentage" ->
           FixRemainder([i \in DOMAIN input |-> (total * Rounded(input[i])) \div Cent], total)
      [] kind = "equal"      ->
           FixRemainder([i \in DOMAIN input |-> total \div Len(input)], total)

(***************************************************************************)
(* Apportionment by largest remainder, which allocateByWeights and         *)
(* convertAllocations share: everyone gets the floor of num[i] / d, and    *)
(* what is missing to the target goes out one by one, to the largest       *)
(* remainders first, in order among equals.                                *)
(***************************************************************************)
Apportion(num, d, target) ==
    LET base == [i \in DOMAIN num |-> num[i] \div d]
        ahead(i) == {j \in DOMAIN num : \/ num[j] % d > num[i] % d
                                        \/ (num[j] % d = num[i] % d /\ j < i)}
        missing == target - Total(base)
    IN  [i \in DOMAIN num |-> base[i] + IF Cardinality(ahead(i)) < missing THEN 1 ELSE 0]

AllocateByWeights(total, weight) ==
    Apportion([i \in DOMAIN weight |-> total * weight[i]], Total(weight), total)

ConvertAllocations(amount, rate) ==
    Apportion([i \in DOMAIN amount |-> amount[i] * rate], RateScale,
              (Total(amount) * rate) \div RateScale)

\* splitExpense; percentages here must make up 100 exactly.
SplitExpense(total, kind, input) ==
    CASE kind = "custom"     -> input
      [] kind = "percentage" -> AllocateByWeights(total, input)
      [] kind = "equal"      -> AllocateByWeights(total, [i \in DOMAIN input |-> 1])

DivideRounded(n, d, mode) ==
    n \div d + IF n % d # 0 /\ (mode = "up" \/ (mode = "half-up" /\ 2 * (n % d) >= d))
                 THEN 1 ELSE 0

ConvertStroops(s, rate, mode) ==
    LET magnitude == DivideRounded((IF s < 0 THEN -s ELSE s) * rate, RateScale, mode)
    IN  IF s < 0 THEN -magnitude ELSE magnitude

(***************************************************************************)
(* suggestSettlements: debtors and creditors, each by falling amount       *)
(* (equals in whatever order the sort leaves them), meet pairwise.         *)
(***************************************************************************)
Falling(S, net) ==
    {s \in SetToSeqs(S) : \A i, j \in DOMAIN s : i < j =>
                             Distance(net[s[i]], 0) >= Distance(net[s[j]], 0)}

(* mutant: both pointers move on, though only one is done *)
MeetOnce(m, ds, cs) ==
    IF m.i > Len(ds) \/ m.j > Len(cs) THEN m
    ELSE LET x == ds[m.i]
             y == cs[m.j]
             t == IF m.left[x] < m.left[y] THEN m.left[x] ELSE m.left[y]
         IN [i |-> m.i + 1, j |-> m.j + 1,
             left |-> [m.left EXCEPT ![x] = @ - t, ![y] = @ - t],
             out |-> Append(m.out, [from |-> x, to |-> y, amount |-> t])]

\* One turn of the loop; none is left when either list is used up.
Meet(m, ds, cs) ==
    IF m.i > Len(ds) \/ m.j > Len(cs) THEN m
    ELSE LET x == ds[m.i]
             y == cs[m.j]
             t == IF m.left[x] < m.left[y] THEN m.left[x] ELSE m.left[y]
         IN [i |-> IF m.left[x] = t THEN m.i + 1 ELSE m.i,
             j |-> IF m.left[y] = t THEN m.j + 1 ELSE m.j,
             left |-> [m.left EXCEPT ![x] = @ - t, ![y] = @ - t],
             out |-> Append(m.out, [from |-> x, to |-> y, amount |-> t])]

\* The loop: as many turns as there are users.
Meetings(net, ds, cs) ==
    LET turns == Cardinality(DOMAIN net)
        run[k \in 0..turns] ==
          IF k = 0 THEN [i |-> 1, j |-> 1, out |-> <<>>,
                         left |-> [u \in DOMAIN net |-> Distance(net[u], 0)]]
          ELSE Meet(run[k - 1], ds, cs)
    IN  run[turns]

Debtors(net) == {u \in DOMAIN net : net[u] < 0}
Creditors(net) == {u \in DOMAIN net : net[u] > 0}

\* Every list of suggestions the sort may lead to.
Suggestions(net) ==
    {Meetings(net, ds, cs).out :
       ds \in Falling(Debtors(net), net), cs \in Falling(Creditors(net), net)}
=============================================================================
