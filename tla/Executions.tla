----------------------------- MODULE Executions -----------------------------
(***************************************************************************)
(* Fills out of executions: frontend/lib/executions.ts, and what the       *)
(* executions table of components/tables.tsx makes of them.                *)
(*                                                                         *)
(* An execution is a record; order is what groups it (the first two parts  *)
(* of its id), commission and pnl are sets of at most one integer.  Time   *)
(* is counted in half days: an odd time is after the close in New York.    *)
(***************************************************************************)
EXTENDS Integers, FiniteSets, FiniteSetsExt

NoExpiryDay == 0
DayOf(time) == time \div 2
AfterClose(time) == time % 2 = 1

\* Mutant: the account is no part of the key.
OrderKeyOfAny(row) == <<row.order, row.order>>
OrderKey(row) == <<row.account, row.order>>
Parents(group) == {row \in group : row.type = "BAG"}

\* The rows of an order with a combo row are one fill, any other row is one.
Fill(key, lead, legs, combo) == [key |-> key, lead |-> lead, legs |-> legs, combo |-> combo]
GroupFills(rows) ==
  LET group(row) == {other \in rows : OrderKey(other) = OrderKey(row)}
  IN {LET parents == Parents(group(row))
          parent == CHOOSE p \in parents : \A q \in parents : p.id <= q.id
      IN IF parents = {} THEN Fill(<<row.account, row.id>>, row, {}, FALSE)
         ELSE Fill(OrderKey(row), parent, group(row) \ {parent}, TRUE)
      : row \in rows}

\* What the broker books when an option lapses: a price of zero on its last day.
Expired(fill) ==
  /\ ~fill.combo /\ fill.lead.type = "OPT" /\ fill.lead.price = 0
  /\ fill.lead.expiry # NoExpiryDay /\ DayOf(fill.lead.time) >= fill.lead.expiry

FillExpiry(fill) == {r.expiry : r \in {fill.lead} \cup fill.legs} \ {NoExpiryDay}
PastExpiry(fill, now) ==
  /\ FillExpiry(fill) # {}
  /\ LET expiry == Max(FillExpiry(fill))
     IN expiry < DayOf(now) \/ (expiry = DayOf(now) /\ AfterClose(now))

Parts(fill) == IF fill.combo /\ fill.legs # {} THEN fill.legs ELSE {fill.lead}
Cash(row) == (IF row.buy THEN -1 ELSE 1) * row.price * row.quantity * row.multiplier
CashFlow(fill) == SumFunction([r \in Parts(fill) |-> Cash(r)])

\* Nothing until every part has its report.
Commission(fill) ==
  IF Expired(fill) THEN {0}
  ELSE IF \E r \in Parts(fill) : r.commission = {} THEN {}
  ELSE {SumFunction([r \in Parts(fill) |-> Max(r.commission)])}
Realized(fill) ==
  LET told == {r \in Parts(fill) : r.pnl # {}}
  IN IF told = {} THEN {} ELSE {SumFunction([r \in told |-> Max(r.pnl)])}

\* What is not known counts as nothing.
Fees(fills) ==
  SumFunction([f \in fills |-> IF Commission(f) = {} THEN 0 ELSE Max(Commission(f))])
Gains(fills) ==
  SumFunction([f \in fills |-> IF Realized(f) = {} THEN 0 ELSE Max(Realized(f))])
Quantity(fills) == SumFunction([f \in fills |-> f.lead.quantity])
Totals(fills) ==
  LET live == {f \in fills : ~Expired(f)}
  IN [bought |-> Quantity({f \in live : f.lead.buy}),
      sold |-> Quantity({f \in live : ~f.lead.buy}),
      lapsed |-> Quantity(fills \ live),
      net |-> SumFunction([f \in fills |-> CashFlow(f)]),
      fees |-> Fees(fills),
      pending |-> Cardinality({f \in fills : Commission(f) = {}}),
      pnl |-> Gains(fills)]

Side(fill) ==
  CASE Expired(fill) -> "Expired"
    [] ~Expired(fill) /\ fill.combo -> IF CashFlow(fill) > 0 THEN "Credit" ELSE "Debit"
    [] OTHER -> IF fill.lead.buy THEN "Buy" ELSE "Sell"
Instrument(fill) ==
  IF fill.combo THEN "Combo" ELSE IF Expired(fill) THEN "Expiry" ELSE fill.lead.type


\* The price per unit in hundredths, with the commission in it once it is known.
Rate(fill, withCommissions) ==
  LET paid == Commission(fill)
      part == IF fill.combo THEN CHOOSE r \in Parts(fill) : \A q \in Parts(fill) : r.id <= q.id
              ELSE fill.lead
      perUnit == (100 * Max(paid)) \div (fill.lead.quantity * part.multiplier)
  IN 100 * fill.lead.price
     + IF ~withCommissions \/ paid = {} THEN 0 ELSE IF fill.lead.buy THEN perUnit ELSE -perUnit

\* The row of a fill: its facets, the values it is sorted by, its day.
FillFacets == {"Account", "Side", "Instrument"}
FillRow(fill, withCommissions) ==
  [id |-> fill.lead.id, fill |-> fill,
   facet |-> [label \in FillFacets |->
     CASE label = "Account" -> fill.lead.account [] label = "Side" -> Side(fill)
       [] label = "Instrument" -> Instrument(fill)],
   column |-> <<fill.lead.time, Rate(fill, withCommissions), CashFlow(fill)>>,
   group |-> DayOf(fill.lead.time),
   words |-> {r.symbol : r \in {fill.lead} \cup fill.legs}]
=============================================================================
