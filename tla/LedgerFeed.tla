----------------------------- MODULE LedgerFeed -----------------------------
(***************************************************************************)
(* A client that walks a list page by page while rows come and go.  The    *)
(* group ledger merges three tables; a list of one table is the same with  *)
(* one kind.  A row is stamped when its transaction begins and seen once   *)
(* it commits; the tables of a page are read one after the other, in any   *)
(* order and outside any transaction.                                      *)
(***************************************************************************)
EXTENDS Naturals, FiniteSets, SequencesExt

CONSTANTS
    Ids,          \* row ids, numbers in the order of their text
    KindOf,       \* id -> "expense", "settlement" or "treasury"
    Queries,      \* [kinds, order, limit, from, to], what a client asks for
    LastTime,     \* bound: the clock
    MaxWrites     \* bound: rows written or deleted during the walk

ASSUME FeedAssumption ==
    /\ Ids \subseteq Nat \ {0} /\ IsFiniteSet(Ids)
    /\ DOMAIN KindOf = Ids
    /\ \A q \in Queries : q.limit \in Nat \ {0} /\ q.order \in {"asc", "desc"}
    /\ LastTime \in Nat \ {0} /\ MaxWrites \in Nat

VARIABLES
    row,          \* id -> createdAt, and whether the row is visible
    now, writes,
    query,
    walk,         \* "between" pages, "reading" one, "done" when there is no next
    position,     \* the row the cursor names, 0 without one
    window,       \* kind -> the rows its query returned, for the kinds read so far
    known,        \* rows visible when the request for this page came
    seen          \* the ids returned so far

tableVars == <<row, now, writes>>
walkVars == <<walk, position, window, known, seen>>
feedVars == <<tableVars, query, walkVars>>

Absent == [at |-> 0, is |-> "none"]
Visible == {i \in Ids : row[i].is = "there"}

FeedInit ==
    /\ row \in [Ids -> {Absent} \cup [at : 1..LastTime, is : {"there"}]]
    /\ now = LastTime - 1 /\ writes = 0
    /\ \A i \in Ids : row[i].at <= now
    /\ query \in Queries
    /\ walk = "between" /\ position = 0 /\ window = <<>> /\ known = {} /\ seen = <<>>

\* No client and no rows.
FeedIdle ==
    /\ row = [i \in Ids |-> Absent]
    /\ now = 0 /\ writes = MaxWrites
    /\ query = CHOOSE q \in Queries : TRUE
    /\ walk = "done" /\ position = 0 /\ window = <<>> /\ known = {} /\ seen = <<>>

-----------------------------------------------------------------------------
(* The list *)

\* cursorOrderBy
Precedes(i, j) ==
    LET older == row[i].at < row[j].at \/ (row[i].at = row[j].at /\ i < j)
    IN  IF query.order = "asc" THEN older ELSE i # j /\ ~older

CursorFilter(i) == position = 0 \/ Precedes(position, i)

LedgerDateFilter(i) == query.from <= row[i].at /\ row[i].at <= query.to

IncludesType(k) == k \in query.kinds

First(n, S) == {i \in S : Cardinality({j \in S : Precedes(j, i)}) < n}

(* mutant: no row beyond the page *)
TakeForPageExact == query.limit

TakeForPage == query.limit + 1

\* One table's query.
FindMany(k) ==
    First(TakeForPage,
          {i \in Visible : KindOf[i] = k /\ CursorFilter(i) /\ LedgerDateFilter(i)})

\* The rows of S in the order of the list.
InOrder(S) ==
    CHOOSE s \in [1..Cardinality(S) -> S] :
        \A m, n \in 1..Cardinality(S) : m < n => Precedes(s[m], s[n])

\* A page of the rows read: its items, and whether the cursor goes on.
BuildPage(rows) ==
    [items |-> InOrder(First(query.limit, rows)),
     hasMore |-> Cardinality(rows) > query.limit]

-----------------------------------------------------------------------------
(* The client *)

Request ==
    /\ walk = "between"
    /\ walk' = "reading"
    /\ window' = <<>> /\ known' = Visible
    /\ UNCHANGED <<tableVars, query, position, seen>>

ReadTable(k) ==
    /\ walk = "reading" /\ IncludesType(k) /\ k \notin DOMAIN window
    /\ window' = [x \in DOMAIN window \cup {k} |-> IF x = k THEN FindMany(k) ELSE window[x]]
    /\ UNCHANGED <<tableVars, query, walk, position, known, seen>>

\* The tables that were asked for are read: the response, and the client's
\* next request with the cursor it carries.
Respond ==
    /\ walk = "reading" /\ DOMAIN window = query.kinds
    /\ LET page == BuildPage(UNION {window[k] : k \in DOMAIN window})
       IN  /\ seen' = seen \o page.items
           /\ walk' = IF page.hasMore THEN "between" ELSE "done"
           /\ position' = IF page.hasMore THEN Last(page.items) ELSE position
    /\ window' = <<>>
    /\ UNCHANGED <<tableVars, query, known>>

-----------------------------------------------------------------------------
(* The writers *)

Write == walk # "done" /\ writes < MaxWrites /\ writes' = writes + 1

Insert(i) ==
    /\ Write /\ row[i] = Absent
    /\ row' = [row EXCEPT ![i] = [at |-> now, is |-> "open"]]
    /\ UNCHANGED <<now, query, walkVars>>

Commit(i) ==
    /\ row[i].is = "open" /\ walk # "done"
    /\ row' = [row EXCEPT ![i].is = "there"]
    /\ UNCHANGED <<now, writes, query, walkVars>>

\* Of the three, only expenses are ever deleted.
Delete(i) ==
    /\ Write /\ KindOf[i] = "expense" /\ row[i].is = "there"
    /\ row' = [row EXCEPT ![i].is = "gone"]
    /\ UNCHANGED <<now, query, walkVars>>

Pass ==
    /\ walk # "done" /\ now < LastTime
    /\ now' = now + 1
    /\ UNCHANGED <<row, writes, query, walkVars>>

FeedNext ==
    \/ Request \/ Respond \/ Pass
    \/ \E k \in query.kinds : ReadTable(k)
    \/ \E i \in Ids : Insert(i) \/ Commit(i) \/ Delete(i)

-----------------------------------------------------------------------------
\* The walk's variables have their types; hasMore always comes with a row to
\* go on from.
FeedTypeOK ==
    /\ row \in [Ids -> [at : 0..LastTime, is : {"none", "open", "there", "gone"}]]
    /\ walk \in {"between", "reading", "done"}
    /\ position \in Ids \cup {0}
    /\ DOMAIN window \subseteq query.kinds /\ \A k \in DOMAIN window : window[k] \subseteq Ids
    /\ known \subseteq Ids /\ seen \in Seq(Ids)

\* Over all pages together the rows come in one strict order, so none comes
\* twice, whatever is written between two pages or between two of a page's
\* queries.
PagesInOrder == \A m, n \in DOMAIN seen : m < n => Precedes(seen[m], seen[n])

\* A walk over the pages meets every row once and in order, and no page leaves a
\* gap: a row the client asked for, beyond the cursor of the request, that was
\* there when the request came and still is when the answer goes, is in the
\* answer or beyond the cursor the answer carries (cursorFilter, takeForPage).
WalkIsComplete ==
    [][/\ PagesInOrder'
       /\ \A i \in known \cap Visible :
            (/\ walk = "reading" /\ walk' # "reading"
             /\ position = 0 \/ Precedes(position, i)
             /\ KindOf[i] \in query.kinds /\ query.from <= row[i].at /\ row[i].at <= query.to) =>
            i \in Range(seen') \/ (walk' = "between" /\ Precedes(position', i))]_feedVars
=============================================================================
