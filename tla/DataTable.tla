----------------------------- MODULE DataTable ------------------------------
(***************************************************************************)
(* The table every list of the dashboard is shown in: DataTable of         *)
(* frontend/components/tables.tsx with usePagedRows of table-pager.tsx.    *)
(*                                                                         *)
(* A row is [id, facet, column, group, words].  `picked' holds the value   *)
(* chosen per facet (Unset: none yet), `page' the page asked for, `seen'   *)
(* the filters it was asked under.  Rows come from the parent.             *)
(***************************************************************************)
EXTENDS Integers, Sequences, FiniteSets, FiniteSetsExt

CONSTANTS
  Facets, SortColumns, Words,  \* facets, indices of columns, what is searched for
  PageSize,                \* PAGE_SIZE
  AnyValue,                \* "All" in a facet
  Unset

ASSUME TableAssumption == PageSize \in Nat \ {0} /\ IsFiniteSet(Facets)

VARIABLES rows, picks, search, sort, page, seen
tableVars == <<rows, picks, search, sort, page, seen>>

NoPicks == [f \in Facets |-> Unset]
Wants(ticks, f, row) == ticks[f] \in {Unset, AnyValue} \/ row.facet[f] = ticks[f]

\* The values of a facet among the rows the other facets let through.
ChoicesOf(rs, ticks, f) ==
  {r.facet[f] : r \in {q \in rs : \A other \in Facets \ {f} : Wants(ticks, other, q)}}

\* ChoicesOf that are gone are dropped, and the table renders again with what
\* is left until nothing is dropped.
Dropped(rs, ticks) ==
  [f \in Facets |-> IF ticks[f] \in {Unset, AnyValue} \cup ChoicesOf(rs, ticks, f)
                    THEN ticks[f] ELSE Unset]
Settled(rs, ticks) ==
  LET after[n \in 0..Cardinality(Facets)] ==
        IF n = 0 THEN ticks ELSE Dropped(rs, after[n - 1])
  IN after[Cardinality(Facets)]

Visible ==
  {r \in rows : /\ \A f \in Facets : Wants(picks, f, r)
                /\ search = Unset \/ search \in r.words}

\* By the value of the column, either way, and then by id.
SortedBefore(a, b) ==
  LET x == a.column[sort.index]
      y == b.column[sort.index]
  IN IF x # y THEN (x < y) = sort.asc ELSE a.id < b.id
Rank ==
  LET shown == Visible
  IN [row \in shown |-> Cardinality({r \in shown : SortedBefore(r, row)})]

\* Runs of rows with one label, while the table is sorted by its first column.
Grouped == sort.index = 1
Runs ==
  LET rank == Rank
      shown == DOMAIN rank
      starts == {r \in shown : \A q \in shown : rank[q] = rank[r] - 1 => ~Grouped \/ q.group # r.group}
  IN {{r \in shown : /\ rank[start] <= rank[r]
                     /\ \A s \in starts : rank[s] <= rank[start] \/ rank[r] < rank[s]}
      : start \in starts}

Pages == Max({1, (Cardinality(Visible) + PageSize - 1) \div PageSize})
Current == Min({page, Pages - 1})
OnPage(rank, run, n) == {r \in run : n * PageSize <= rank[r] /\ rank[r] < (n + 1) * PageSize}
\* Mutant: the sums of a group are of its part on the page.
PageOfGroupsPart(n) ==
  LET rank == Rank
  IN {g \in {[rows |-> OnPage(rank, run, n), all |-> OnPage(rank, run, n)] : run \in Runs} : g.rows # {}}
\* The part of each run that falls on a page, with the whole run for its sums.
PageOfGroups(n) ==
  LET rank == Rank
  IN {g \in {[rows |-> OnPage(rank, run, n), all |-> run] : run \in Runs} : g.rows # {}}

PageList(current, pages) ==
  IF pages <= 7 THEN 0..(pages - 1)
  ELSE {0, pages - 1, current - 1, current, current + 1} \cap 0..(pages - 1)

-----------------------------------------------------------------------------
\* No rows, no filter, the first column downwards.
TableInit ==
  /\ rows = {} /\ picks = NoPicks /\ search = Unset
  /\ sort = [index |-> 1, asc |-> FALSE] /\ page = 0 /\ seen = <<picks, search, sort>>

\* A render with new filters starts at the first page.
Rendered(asked) ==
  /\ seen' = <<picks', search', sort'>>
  /\ page' = IF seen' = seen THEN asked ELSE 0

RowsChange(newRows) ==
  /\ rows' = newRows /\ picks' = Settled(newRows, picks)
  /\ UNCHANGED <<search, sort>> /\ Rendered(page)
PickFacet ==
  \E f \in Facets :
    /\ Cardinality(ChoicesOf(rows, picks, f)) > 1 \/ picks[f] \notin {Unset, AnyValue}
    /\ \E value \in {AnyValue} \cup ChoicesOf(rows, picks, f) :
         /\ picks' = Settled(rows, [picks EXCEPT ![f] = value])
         /\ UNCHANGED <<rows, search, sort>> /\ Rendered(page)
Search ==
  /\ search' \in Words \cup {Unset} /\ UNCHANGED <<rows, picks, sort>> /\ Rendered(page)
ClearFilters ==
  /\ search # Unset \/ \E f \in Facets : picks[f] \notin {Unset, AnyValue}
  /\ search' = Unset /\ picks' = NoPicks /\ UNCHANGED <<rows, sort>> /\ Rendered(page)
\* By a heading, or (on a phone) by a list that keeps the direction.
Sort ==
  /\ \E i \in SortColumns :
       sort' \in {[index |-> i, asc |-> IF sort.index = i THEN ~sort.asc ELSE TRUE],
                 [index |-> i, asc |-> sort.asc]} \ {sort}
  /\ UNCHANGED <<rows, picks, search>> /\ Rendered(page)
TurnPage ==
  /\ Cardinality(Visible) > PageSize /\ UNCHANGED <<rows, picks, search, sort>>
  /\ \E n \in ({Current - 1, Current + 1} \cup PageList(Current, Pages)) \cap 0..(Pages - 1) :
       Rendered(n)
TableUse == PickFacet \/ Search \/ ClearFilters \/ Sort \/ TurnPage

-----------------------------------------------------------------------------
\* The filters never hide every row: rows may come and go in any order, a
\* choice no row answers is dropped by the same render, and what is left is
\* met by some row (nextPicked, tables.tsx 137-149).
NeverStranded ==
  rows # {} /\ search = Unset => Visible # {}

\* Going through the pages shows every visible row exactly once, and a group
\* on two pages is headed by the sums of the whole group (pageOfGroups).
PagesCover ==
  LET groups == [n \in 0..(Pages - 1) |-> PageOfGroups(n)]
  IN /\ \A r \in Visible :
          Cardinality({at \in UNION {{n} \X groups[n] : n \in DOMAIN groups} : r \in at[2].rows}) = 1
     /\ \A n \in DOMAIN groups : \A g \in groups[n] :
          Grouped => g.all = {r \in Visible : \E q \in g.rows : q.group = r.group}

\* However the rows shrink, the page shown has rows whenever there are any,
\* and the pager offers the page shown, its neighbours and both ends.
PageHasRows ==
  /\ Visible # {} => PageOfGroups(Current) # {}
  /\ \A pages \in 1..9 : \A n \in 0..(pages - 1) :
       {0, pages - 1, n} \cup ({n - 1, n + 1} \cap 0..(pages - 1)) \subseteq PageList(n, pages)

\* The three together: no row is out of reach.
TableShowsAll == NeverStranded /\ PagesCover /\ PageHasRows
=============================================================================
