----------------------------- MODULE RiskLenses -----------------------------
(***************************************************************************)
(* The rows and the columns of the risk table: frontend/lib/risk-lenses.ts *)
(* and lib/scenario-columns.ts, with the parsing of lib/persisted.ts.      *)
(*                                                                         *)
(* A realized leg is [account, key, expiry, contract, pnl, commission]; a  *)
(* column is [shock, kind, id], its id what dropping and moving name.      *)
(***************************************************************************)
EXTENDS Payoff

Lenses == {"asset", "expiry", "account"}
NoExpiry == NoDate
DefaultLevels == {1, 3, 5, 10}
MaxCustom == 8

ExpiryOf(p) == p.expiry
GroupKey(lens, leg) ==
  CASE lens = "asset" -> UnderlyingKey(leg.position)
    [] lens = "expiry" -> ExpiryOf(leg.position)
    [] lens = "account" -> leg.position.account

UnpricedPositions(positions, assumptions) ==
  {p \in positions : /\ p.quantity # 0 /\ p.type \in {"STK", "OPT"}
                     /\ \/ UnderlyingKey(p) \notin DOMAIN assumptions
                        \/ ~ValidAssumption(assumptions[UnderlyingKey(p)])}

\* The commission that is shown apart: of a fill on a contract still held, or
\* of any fill while the closed legs are included.
CommissionAddBack(leg, withClosed, stillOpen) ==
  IF withClosed \/ (leg.pnl = 0 /\ leg.contract \in stillOpen) THEN leg.commission ELSE 0
LegAdjustment(leg, withClosed, withCommissions, stillOpen) ==
  (IF withClosed THEN leg.pnl ELSE 0)
  + IF withCommissions THEN 0 ELSE CommissionAddBack(leg, withClosed, stillOpen)

RealizedGroupKey(lens, leg) ==
  CASE lens = "asset" -> leg.key [] lens = "expiry" -> leg.expiry
    [] lens = "account" -> leg.account
RealizedByGroup(lens, legs, withClosed, withCommissions, stillOpen) ==
  [id \in {RealizedGroupKey(lens, l) : l \in legs} |->
     SumFunction([l \in {k \in legs : RealizedGroupKey(lens, k) = id} |->
                    LegAdjustment(l, withClosed, withCommissions, stillOpen)])]

Shift(curve, by) ==
  [s \in DOMAIN curve |-> [terminal |-> curve[s].terminal + by,
                           modeled |-> curve[s].modeled + by]]
WorstOf(curve) == Min({curve[s].terminal : s \in DOMAIN curve})

\* One row for each group that has an open leg.
BuildRows(lens, legs, assumptions, range, horizon, levels, adjustments) ==
  LET group(id) == {l \in legs : GroupKey(lens, l) = id}
      adjustment(id) == IF id \in DOMAIN adjustments THEN adjustments[id] ELSE 0
      curve(id) == Shift(BuildCurves(group(id), assumptions, range, horizon, levels),
                         adjustment(id))
  IN [id \in {GroupKey(lens, l) : l \in legs} |->
       [legs |-> group(id), keys |-> {UnderlyingKey(l.position) : l \in group(id)},
        curve |-> curve(id), now |-> curve(id)[0].modeled, worst |-> WorstOf(curve(id)),
        adjustment |-> adjustment(id)]]

PreferredFocus(ids) == IF ids = {} THEN {} ELSE {CHOOSE id \in ids : TRUE}

\* A typed percentage is kept positive, below 100 and once.
ParseLevels(values) == {v \in {IF w < 0 THEN -w ELSE w : w \in values} : 0 < v /\ v < 100}

PctColumns(percents) ==
  {[shock |-> s, kind |-> "pct", id |-> <<"pct", s>>] : s \in SignedLevels(percents)}
PriceColumns(prices, spot) ==
  {[shock |-> ((l.price - spot[l.symbol]) * 100) \div spot[l.symbol], kind |-> "price",
    id |-> <<l.symbol, l.price>>] : l \in {q \in prices : spot[q.symbol] > 0}}

\* A price column takes the place of the percentage at the same move; of two
\* prices at one move one stays.
BuildColumns(percents, prices, spot) ==
  LET priced == PriceColumns(prices, spot)
      taken == {c.shock : c \in priced}
  IN {c \in PctColumns(percents) : c.shock \notin taken}
     \cup {CHOOSE c \in priced : c.shock = s : s \in taken}

\* The largest move first, its rise before its fall.
Wider(c, d) ==
  LET size(s) == Max({s, -s})
  IN \/ size(c.shock) > size(d.shock)
     \/ size(c.shock) = size(d.shock) /\ c.shock > d.shock

\* The columns in the order the user gave them, each where it is named first,
\* the others after them.
PlaceIn(order, c) == Min({Len(order) + 1} \cup {i \in DOMAIN order : order[i] = c.id})
OrderColumns(columns, order) ==
  LET before(c, d) == \/ PlaceIn(order, c) < PlaceIn(order, d)
                      \/ PlaceIn(order, c) = PlaceIn(order, d) /\ Wider(c, d)
  IN [i \in 1..Cardinality(columns) |->
        CHOOSE c \in columns : Cardinality({d \in columns : before(d, c)}) = i - 1]

IsDefaultPct(column) ==
  column.kind = "pct" /\ Max({column.shock, -column.shock}) \in DefaultLevels
=============================================================================
