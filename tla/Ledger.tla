------------------------------- MODULE Ledger -------------------------------
(***************************************************************************)
(* Who owes whom in a group: expenses and their shares, settlements of a   *)
(* share and freeform ones, and the balances the routes derive from these  *)
(* rows.  How a settlement is paid is SettlementEngine's subject; here it  *)
(* is confirmed or fails.  Deleting an expense, settling a share and the   *)
(* freeform limit are checked on rows read first and written later, each   *)
(* in one transaction at READ COMMITTED, so a request is two steps.        *)
(***************************************************************************)
EXTENDS SplitMath

CONSTANTS
    Parties,      \* the members of the group
    Assets,
    Target,       \* the asset a breakdown is normalized into
    Bills,        \* bodies of create requests: [payer, asset, total, kind, who, input]
    Amounts,      \* amounts of freeform settlements
    Rates,        \* scaled conversion rates
    Expenses,     \* bound: expense rows, numbered
    Settlements,  \* bound: settlement rows, numbered
    MaxRows,      \* bound: rows of both sorts
    Handlers,     \* requests in flight
    NoRow

Statuses == {"pending", "settling", "settled"}

\* The types of the rows, and of what a request is about to write and has read.
ExpenseRow == [bill : Bills, share : Seq(Int), status : Seq(Statuses)]
SettlementRow ==
    [from : Parties, to : Parties, asset : Assets, amount : Nat \ {0},
     of : Expenses \cup {NoRow}, at : Nat, freeform : BOOLEAN,
     status : {"pending", "confirmed", "failed"}]
Call ==
    [op : {"delete"}, id : Expenses, read : Seq(Statuses)]
      \cup [op : {"settle"}, id : Expenses, at : Nat, asset : Assets, read : Seq(Statuses)]
      \cup [op : {"freeform"}, from : Parties, to : Parties, asset : Assets,
            amount : Nat \ {0}, read : Int]

ASSUME LedgerAssumption ==
    /\ IsFiniteSet(Parties) /\ Parties # {}
    /\ IsFiniteSet(Expenses) /\ Expenses \subseteq Nat
    /\ IsFiniteSet(Settlements) /\ Settlements \subseteq Nat
    /\ Amounts \subseteq Nat \ {0} /\ Rates \subseteq Nat
    /\ NoRow \notin Expenses \cup ExpenseRow \cup SettlementRow \cup Call

\* What createExpenseSchema and the membership checks let through.
ASSUME BillsAssumption ==
    \A b \in Bills : /\ b.payer \in Parties /\ b.asset \in Assets
                     /\ b.total \in Nat /\ b.kind \in {"equal", "custom", "percentage"}
                     /\ b.input \in Seq(Nat) /\ b.who \in Seq(Parties)
                     /\ ValidSplit(b.total, b.kind, b.input)
                     /\ Len(b.who) = Len(b.input)

VARIABLES
    expense,      \* id -> row, NoRow before it is created and after it is deleted
    used,         \* expense ids given out
    settlement,   \* id -> row, NoRow before it is created
    call          \* request -> what it is about to write and what it read

ledgerVars == <<expense, used, settlement, call>>

Rows == {e \in Expenses : expense[e] # NoRow}
Paid == {s \in Settlements : settlement[s] # NoRow}

LedgerInit ==
    /\ expense = [e \in Expenses |-> NoRow]
    /\ used = {}
    /\ settlement = [s \in Settlements |-> NoRow]
    /\ call = [r \in Handlers |-> NoRow]

\* Rows are numbered in the order they are created.
NextId(ids, taken) ==
    {i \in ids \ taken : /\ \A j \in ids \ taken : i <= j
                        /\ Cardinality(used) + Cardinality(Paid) < MaxRows}

(***************************************************************************)
(* Expenses.                                                               *)
(***************************************************************************)
CreateExpense(e, b) ==
    /\ e \in NextId(Expenses, used)
    /\ expense' = [expense EXCEPT ![e] =
         [bill   |-> b,
          share  |-> ComputeShares(b.total, b.kind, b.input),
          status |-> [i \in DOMAIN b.who |-> IF b.who[i] = b.payer THEN "settled" ELSE "pending"]]]
    /\ used' = used \cup {e}
    /\ UNCHANGED <<settlement, call>>

Others(x) == {i \in DOMAIN x.share : x.bill.who[i] # x.bill.payer}

(* mutant: a delete is refused only when every share is settled *)
HasSettledAll(x) == \A i \in Others(x) : x.status[i] = "settled"

HasSettled(x) == \E i \in Others(x) : x.status[i] = "settled"

DeleteCheck(r, e) ==
    /\ call[r] = NoRow
    /\ e \in Rows /\ ~HasSettled(expense[e])
    /\ call' = [call EXCEPT ![r] = [op |-> "delete", id |-> e, read |-> expense[e].status]]
    /\ UNCHANGED <<expense, used, settlement>>

(* mutant: settlements keep the reference to the share that went *)
DeleteExpenseOnly(r) ==
    /\ call[r] # NoRow /\ call[r].op = "delete" /\ call[r].id \in Rows
    /\ expense' = [expense EXCEPT ![call[r].id] = NoRow]
    /\ call' = [call EXCEPT ![r] = NoRow]
    /\ UNCHANGED <<used, settlement>>

\* Shares go with the row; settlements of them stay and lose the reference.
DeleteExpense(r) ==
    /\ call[r] # NoRow /\ call[r].op = "delete" /\ call[r].id \in Rows
    /\ expense' = [expense EXCEPT ![call[r].id] = NoRow]
    /\ settlement' = [s \in Settlements |->
         IF s \in Paid /\ settlement[s].of = call[r].id
           THEN [settlement[s] EXCEPT !.of = NoRow] ELSE settlement[s]]
    /\ call' = [call EXCEPT ![r] = NoRow]
    /\ UNCHANGED used

(***************************************************************************)
(* Settlements.                                                            *)
(***************************************************************************)
\* POST /expenses/:id/settle; the body may name another asset than the bill's.
SettleCheck(r, e, i, asset) ==
    /\ call[r] = NoRow
    /\ e \in Rows /\ i \in Others(expense[e])
    /\ expense[e].status[i] # "settled"
    /\ expense[e].share[i] > 0
    /\ call' = [call EXCEPT ![r] = [op |-> "settle", id |-> e, at |-> i, asset |-> asset,
                                  read |-> expense[e].status]]
    /\ UNCHANGED <<expense, used, settlement>>

SettleShare(r, s) ==
    /\ call[r] # NoRow /\ call[r].op = "settle" /\ call[r].id \in Rows
    /\ s \in NextId(Settlements, Paid)
    /\ LET x == expense[call[r].id]
       IN settlement' = [settlement EXCEPT ![s] =
            [from |-> x.bill.who[call[r].at], to |-> x.bill.payer, asset |-> call[r].asset,
             amount |-> x.share[call[r].at], of |-> call[r].id, at |-> call[r].at,
             freeform |-> FALSE, status |-> "pending"]]
    /\ expense' = [expense EXCEPT ![call[r].id].status[call[r].at] = "settling"]
    /\ call' = [call EXCEPT ![r] = NoRow]
    /\ UNCHANGED used

\* The row the request is about has been deleted: its write fails.
WriteFails(r) ==
    /\ call[r] # NoRow /\ call[r].op # "freeform" /\ call[r].id \notin Rows
    /\ call' = [call EXCEPT ![r] = NoRow]
    /\ UNCHANGED <<expense, used, settlement>>

\* The shares of an expense that somebody owes the payer, and one user's of them.
Unsettled(x) == {i \in Others(x) : x.status[i] # "settled"}
OwedBy(x, u) == {i \in Unsettled(x) : x.bill.who[i] = u}

\* The unsettled shares of one user in the other's expenses.
Owed(from, to) ==
    SumFunctionOnSet([e \in Rows |-> SumFunctionOnSet(expense[e].share, OwedBy(expense[e], from))],
                     {e \in Rows : expense[e].bill.payer = to})

Moved(from, to, statuses) ==
    SumFunctionOnSet([s \in Paid |-> settlement[s].amount],
      {s \in Paid : /\ settlement[s].from = from /\ settlement[s].to = to
                    /\ settlement[s].status \in statuses})

(* mutant: settlements that are not confirmed yet leave the limit alone *)
DebtConfirmedOnly(from, to) ==
    Owed(from, to) - Owed(to, from)
      - Moved(from, to, {"confirmed"}) + Moved(to, from, {"confirmed"})

\* What verifySettlementLimit makes of the rows, over all assets alike.
Debt(from, to) ==
    Owed(from, to) - Owed(to, from)
      - Moved(from, to, {"pending", "confirmed"}) + Moved(to, from, {"pending", "confirmed"})

FreeformCheck(r, from, to, asset, amount) ==
    /\ call[r] = NoRow
    /\ from # to
    /\ amount <= Debt(from, to)
    /\ call' = [call EXCEPT ![r] = [op |-> "freeform", from |-> from, to |-> to, asset |-> asset,
                                  amount |-> amount, read |-> Debt(from, to)]]
    /\ UNCHANGED <<expense, used, settlement>>

FreeformCreate(r, s) ==
    /\ call[r] # NoRow /\ call[r].op = "freeform"
    /\ s \in NextId(Settlements, Paid)
    /\ settlement' = [settlement EXCEPT ![s] =
         [from |-> call[r].from, to |-> call[r].to, asset |-> call[r].asset, amount |-> call[r].amount,
          of |-> NoRow, at |-> 0, freeform |-> TRUE, status |-> "pending"]]
    /\ call' = [call EXCEPT ![r] = NoRow]
    /\ UNCHANGED <<expense, used>>

\* The outcome the settlement engine records; a confirmed one settles its share.
Confirm(s) ==
    /\ s \in Paid /\ settlement[s].status = "pending"
    /\ settlement' = [settlement EXCEPT ![s].status = "confirmed"]
    /\ expense' = IF settlement[s].of = NoRow THEN expense
                  ELSE [expense EXCEPT ![settlement[s].of].status[settlement[s].at] = "settled"]
    /\ UNCHANGED <<used, call>>

Fail(s) ==
    /\ s \in Paid /\ settlement[s].status = "pending"
    /\ settlement' = [settlement EXCEPT ![s].status = "failed"]
    /\ UNCHANGED <<expense, used, call>>

LedgerNext ==
    \/ \E e \in Expenses, b \in Bills : CreateExpense(e, b)
    \/ \E r \in Handlers, e \in Expenses : DeleteCheck(r, e)
    \/ \E r \in Handlers : DeleteExpense(r) \/ WriteFails(r)
    \/ \E r \in Handlers, e \in Rows, a \in Assets :
         \E i \in DOMAIN expense[e].share : SettleCheck(r, e, i, a)
    \/ \E r \in Handlers, s \in Settlements : SettleShare(r, s) \/ FreeformCreate(r, s)
    \/ \E r \in Handlers, f, t \in Parties, a \in Assets, n \in Amounts : FreeformCheck(r, f, t, a, n)
    \/ \E s \in Settlements : Confirm(s) \/ Fail(s)

LedgerSpec == LedgerInit /\ [][LedgerNext]_ledgerVars

(***************************************************************************)
(* What the routes derive from the rows.                                   *)
(***************************************************************************)
\* computeNetBalancesByAsset: the balance sheet of one asset.
Net(u, a) ==
    LET credit == [e \in Rows |-> SumFunctionOnSet(expense[e].share, Unsettled(expense[e]))]
        debit == [e \in Rows |-> SumFunctionOnSet(expense[e].share, OwedBy(expense[e], u))]
        amount == [s \in Paid |-> settlement[s].amount]
        confirmed == {s \in Paid : settlement[s].status = "confirmed" /\ settlement[s].asset = a}
        inAsset == {e \in Rows : expense[e].bill.asset = a}
    IN  SumFunctionOnSet(credit, {e \in inAsset : expense[e].bill.payer = u})
          - SumFunctionOnSet(debit, inAsset)
          + SumFunctionOnSet(amount, {s \in confirmed : settlement[s].from = u})
          - SumFunctionOnSet(amount, {s \in confirmed : settlement[s].to = u})

Nets(a) == [u \in Parties |-> Net(u, a)]

\* calculateGroupExpenseBreakdown: what each user fronted and consumed, gross.
Fronted(u, a) ==
    SumFunctionOnSet([e \in Rows |-> Total(expense[e].share)],
      {e \in Rows : expense[e].bill.asset = a /\ expense[e].bill.payer = u})

Consumed(u, a) ==
    SumFunctionOnSet(
      [e \in Rows |-> SumFunctionOnSet(expense[e].share,
         {i \in DOMAIN expense[e].share : expense[e].bill.who[i] = u})],
      {e \in Rows : expense[e].bill.asset = a})

\* The breakdown is refused when a row does not add up or has a negative share.
Breakable ==
    \A e \in Rows : /\ \A i \in DOMAIN expense[e].share : expense[e].share[i] >= 0
                    /\ Total(expense[e].share) = expense[e].bill.total

\* One asset of it in the order us of its users, normalized with a rate.
Normalized(amount, us, a, rate) ==
    LET amounts == [k \in DOMAIN us |-> amount[us[k]]]
    IN  IF a = Target THEN amounts ELSE ConvertAllocations(amounts, rate)

-----------------------------------------------------------------------------
(***************************************************************************)
(* Properties.                                                             *)
(***************************************************************************)
\* Rows and requests are the records the routes write and hold.
LedgerTypeOK ==
    /\ expense \in [Expenses -> ExpenseRow \cup {NoRow}]
    /\ settlement \in [Settlements -> SettlementRow \cup {NoRow}]
    /\ call \in [Handlers -> Call \cup {NoRow}]
    /\ used \in SUBSET Expenses /\ Rows \subseteq used
    /\ \A e \in Rows : /\ Len(expense[e].share) = Len(expense[e].bill.who)
                       /\ Len(expense[e].status) = Len(expense[e].bill.who)
    /\ \A s \in Paid : /\ settlement[s].from # settlement[s].to
                       /\ settlement[s].of # NoRow =>
                            /\ settlement[s].of \in Rows
                            /\ settlement[s].at \in DOMAIN expense[settlement[s].of].share

\* The shares computeShares stores make up the bill exactly, whatever the
\* rounding of percentages and of the division left over.
SharesCoverBill == \A e \in Rows : Total(expense[e].share) = expense[e].bill.total

\* splitExpense gives every participant less than one stroop more or less than
\* the exact proportion, and the whole bill to all of them.
SplitIsProportional ==
    \A e \in Rows :
      LET b == expense[e].bill
          w == IF b.kind = "equal" THEN [i \in DOMAIN b.input |-> 1] ELSE b.input
          s == SplitExpense(b.total, b.kind, b.input)
      IN  (b.kind = "percentage" => Total(b.input) = 10 * Cent) =>
            /\ Total(s) = b.total
            /\ \A i \in DOMAIN s : Distance(s[i] * Total(w), b.total * w[i]) < Total(w)

\* Following the suggested transfers squares everyone's balance in the asset,
\* with positive transfers, fewer of them than users, and nobody both pays and
\* is paid, whichever order the sort leaves equal amounts in.
SuggestionsSettle ==
    \A a \in Assets : \A net \in {Nets(a)} : \A out \in Suggestions(net) :
      LET moved(S) == SumFunctionOnSet([k \in DOMAIN out |-> out[k].amount], S)
      IN  /\ Len(out) < Cardinality(Parties)
          /\ \A k \in DOMAIN out : out[k].amount > 0
          /\ \A j, k \in DOMAIN out : out[j].from # out[k].to
          /\ \A u \in Parties :
               net[u] + moved({k \in DOMAIN out : out[k].from = u})
                      - moved({k \in DOMAIN out : out[k].to = u}) = 0

\* A breakdown normalized into one asset still balances: in every asset the
\* users front as much as they consume, both are the asset's total converted
\* once, and each entry is less than a stroop from its exact conversion.
BreakdownBalances ==
    Breakable =>
      \A a \in Assets :
        \A fronted \in {[u \in Parties |-> Fronted(u, a)]},
           consumed \in {[u \in Parties |-> Consumed(u, a)]} :
          \A rate \in Rates :
            LET us == SetToSeq(Parties)
                paid == Normalized(fronted, us, a, rate)
                owed == Normalized(consumed, us, a, rate)
            IN  /\ Total(paid) = Total(owed)
                /\ Total(owed) = IF a = Target THEN SumFunction(consumed)
                                 ELSE (SumFunction(consumed) * rate) \div RateScale
                /\ a # Target => \A k \in DOMAIN us :
                     Distance(owed[k] * RateScale, consumed[us[k]] * rate) < RateScale

\* Converting a balance rounds to the nearest amount, halves away from zero,
\* and the other two modes bracket it.
ConversionRounds ==
    \A a \in Assets : \A net \in {Nets(a)} : \A u \in Parties, rate \in Rates :
      LET exact == net[u] * rate
          up == ConvertStroops(net[u], rate, "up") * RateScale
          down == ConvertStroops(net[u], rate, "down") * RateScale
          half == ConvertStroops(net[u], rate, "half-up") * RateScale
      IN  /\ Distance(down, 0) <= Distance(exact, 0) /\ Distance(exact, 0) <= Distance(up, 0)
          /\ Distance(down, exact) < RateScale /\ Distance(up, exact) < RateScale
          /\ half = IF Distance(up, exact) <= Distance(down, exact) THEN up ELSE down

\* Splitting, breaking down and converting neither lose nor invent money
\* (computeShares, splitExpense, convertAllocations, convertStroops).
MoneyIsConserved ==
    SharesCoverBill /\ SplitIsProportional /\ BreakdownBalances /\ ConversionRounds

\* A settled share of another than the payer is lost (its expense deleted, or
\* the share put back to settling) only to a request that read it before it
\* was settled.
PaidShareLostOnlyToRace ==
    [][\A e \in Rows : \A i \in Others(expense[e]) :
         /\ expense[e].status[i] = "settled"
         /\ expense'[e] = NoRow \/ expense'[e].status[i] # "settled"
         => \E r \in Handlers : /\ call[r] # NoRow /\ call'[r] = NoRow
                                /\ call[r].op # "freeform" /\ call[r].id = e
                                /\ call[r].read[i] # "settled"]_ledgerVars

\* A freeform settlement takes the debt below zero only when the debt changed
\* between its check and its write.
OverSettlementNeedsRace ==
    [][\A r \in Handlers, f, t \in Parties :
         (/\ call[r] # NoRow /\ call'[r] = NoRow
          /\ call[r].op = "freeform" /\ call[r].from = f /\ call[r].to = t
          /\ call[r].read = Debt(f, t)) =>
         Owed(f, t)' + Moved(t, f, {"pending", "confirmed"})' >=
           Owed(t, f)' + Moved(f, t, {"pending", "confirmed"})']_ledgerVars

\* Once every share is settled and nobody settled up freely, nobody owes
\* anything in any asset: "Confirmed settlements transfer value from->to and
\* net the books".
BooksNet ==
    ( /\ \A e \in Rows : \A i \in DOMAIN expense[e].share : expense[e].status[i] = "settled"
      /\ \A s \in Paid : ~settlement[s].freeform /\ settlement[s].of # NoRow
      /\ \A s \in Paid : settlement[s].asset = expense[settlement[s].of].bill.asset )
    => \A a \in Assets, u \in Parties : Net(u, a) = 0
=============================================================================
