----------------------------- MODULE RiskPanel ------------------------------
(***************************************************************************)
(* The pay-off and risk panel: frontend/components/payoff-panel.tsx with   *)
(* selection.tsx and lens-table.tsx.                                       *)
(*                                                                         *)
(* `held' are the rows the dashboard passes, `today' the model clock,      *)
(* `picked' what is ticked per filter (All: nothing was ever unticked),    *)
(* `lens', `assetFocus' and `expiryFocus' what the table looks at,         *)
(* `closed' and `commissions' the two Include boxes, `days' and `range'    *)
(* the two sliders, `shock' the column model, `overrides' the inputs of    *)
(* the user, `percents', `prices' and `order' the scenario columns,        *)
(* `answered' the selections of cycles whose booked legs were fetched, and *)
(* `book' what the last render computed.                                   *)
(***************************************************************************)
EXTENDS RiskLenses

CONSTANTS
  Pool,          \* the positions the accounts may hold
  Booked,        \* the realized legs the server knows of
  Currencies,    \* the currencies in the order of their names
  LastDay,       \* the clock stops here
  TypedLevels, TypedPrices,  \* what the user types as columns
  Saved,         \* what the browser may have kept: [lens, percents, prices, order]
  MaxClicks,     \* bound on what the user does after the panel is opened
  All            \* no restriction, in a filter and in a focus

VARIABLES held, today, picked, lens, assetFocus, expiryFocus, closed, commissions,
          days, range, shock, overrides, percents, prices, order, answered, clicks, book
riskVars == <<held, today, picked, lens, assetFocus, expiryFocus, closed, commissions,
              days, range, shock, overrides, percents, prices, order, answered, clicks, book>>

Dims == {"account", "expiry"}
Symbols == {p.symbol : p \in Pool}

\* The figures are numbers, and a number that may be absent is a set of them.
\* A price typed is no less than a hundredth of any price: moves are whole
\* percentages here, and that of a smaller price would be one of -100.
ASSUME RiskAssumption ==
  /\ \A p \in Pool :
       /\ {p.quantity, p.multiplier, p.strike, p.expiry} \subseteq Int
       /\ p.cost \cup p.price \cup p.und \cup p.unreal \subseteq Int
  /\ IsFiniteSet(Pool) /\ LastDay \in Nat
  /\ IsFiniteSet(Booked) /\ \A l \in Booked : {l.pnl, l.commission} \subseteq Int
  /\ TypedLevels \subseteq Int /\ TypedPrices \subseteq Int
  /\ \A s \in Saved :
       /\ s.lens \in Lenses /\ s.order \in Seq(ToSet(s.order))
       /\ IsFiniteSet(s.percents) /\ s.percents \subseteq Int
       /\ IsFiniteSet(s.prices) /\ s.prices \subseteq [symbol : Symbols, price : Int]
  /\ \A q \in TypedPrices \cup UNION {{l.price : l \in s.prices} : s \in Saved} :
       q > 0 /\ \A p \in Pool : \A v \in p.price \cup p.und : v <= 100 * q
NoOverride == [volatility |-> {}, beta |-> {}]

\* The currency with the most legs that can be modelled, then the most rows.
CurrencyRank(rows, at) ==
  LET named(c) == {p \in rows : p.currency = c /\ p.quantity # 0}
      modeled(c) == LET legs == PreparedLegs(named(c), at)
                    IN Cardinality({l \in legs : BrokerSpot(legs, UnderlyingKey(l.position)) # {}})
      place(c) == CHOOSE i \in DOMAIN Currencies : Currencies[i] = c
      before(c, d) == \/ modeled(c) > modeled(d)
                      \/ /\ modeled(c) = modeled(d)
                         /\ \/ Cardinality(named(c)) > Cardinality(named(d))
                            \/ /\ Cardinality(named(c)) = Cardinality(named(d))
                               /\ place(c) < place(d)
  IN SetToSortSeq({c \in ToSet(Currencies) : named(c) # {}}, before)

\* The filters.  The options of one follow from what is ticked in the others;
\* a selection that has no option left counts as everything.
DimOf(dim, leg) == IF dim = "account" THEN leg.position.account ELSE ExpiryOf(leg.position)
Ticked(ticks, dim, leg) == ticks[dim] = All \/ DimOf(dim, leg) \in ticks[dim]
\* Mutant: legs without an expiry are no option of the filter by expiry.
OptionsForDated(legs, ticks, dim) ==
  {DimOf(dim, l) : l \in {k \in legs : \A other \in Dims \ {dim} : Ticked(ticks, other, k)}} \ {NoExpiry}
OptionsFor(legs, ticks, dim) ==
  {DimOf(dim, l) : l \in {k \in legs : \A other \in Dims \ {dim} : Ticked(ticks, other, k)}}
StaleIn(ticks, dim, options) == ticks[dim] \notin {All, {}} /\ ticks[dim] \cap options = {}
SelectedOf(ticks, dim, options) ==
  IF ticks[dim] = All \/ StaleIn(ticks, dim, options) THEN options
  ELSE ticks[dim] \cap options

\* What is assumed of an underlying.
Assumption(legs, key, typed, mode) ==
  [spot |-> BrokerSpot(legs, key),
   volatility |-> Default(typed[key].volatility,
                    Default(ImpliedByUnderlying(legs, key), AssumedVol)),
   beta |-> IF mode = "beta" THEN Default(typed[key].beta, 1) ELSE 1]

\* What a render computes from the rows, the clock, the filters and the inputs.
\* The filter by name has no control: all its options are selected.
Filtered(scoped, all, options, ticks) ==
  LET selected == [dim \in Dims |-> SelectedOf(ticks, dim, options[dim])]
      names == {UnderlyingKey(l.position) : l \in {k \in all : \A dim \in Dims : Ticked(ticks, dim, k)}}
  IN [scoped |-> scoped, all |-> all, options |-> options, selected |-> selected, names |-> names,
      legs |-> {l \in all : /\ \A dim \in Dims : DimOf(dim, l) \in selected[dim]
                            /\ UnderlyingKey(l.position) \in names},
      assumptions |-> <<>>]
Assumed(render, typed, mode) ==
  [render EXCEPT !.assumptions =
     [key \in {UnderlyingKey(l.position) : l \in render.legs} |->
        Assumption(render.legs, key, typed, mode)]]
LegsOfRender(scoped, all, ticks) ==
  Filtered(scoped, all, [dim \in Dims |-> OptionsFor(all, ticks, dim)], ticks)
InCurrency(rows, rank) == {p \in rows : rank # <<>> /\ p.currency = rank[1]}
InScope(scoped, at, ticks) == LegsOfRender(scoped, PreparedLegs(scoped, at), ticks)
Render(rows, at, ticks, typed, mode) ==
  Assumed(InScope(InCurrency(rows, CurrencyRank(rows, at)), at, ticks), typed, mode)

RiskInit ==
  /\ held = {} /\ today = 1 /\ picked = [dim \in Dims |-> All]
  /\ \E s \in Saved :
       lens = s.lens /\ percents = ParseLevels(s.percents) /\ prices = s.prices /\ order = s.order
  /\ assetFocus = {} /\ expiryFocus = All
  /\ closed = TRUE /\ commissions = TRUE /\ days = 0 /\ range = 10 /\ shock = "parallel"
  /\ overrides = [key \in Symbols |-> NoOverride]
  /\ answered = {} /\ clicks = 0
  /\ book = Render({}, 1, [dim \in Dims |-> All], overrides, "parallel")

Scoped == book.scoped
AllLegs == book.all
Legs == book.legs
Assumptions == book.assumptions
Options(dim) == book.options[dim]
Selected(dim) == book.selected[dim]
NameOptions == book.names
Stale(dim) == StaleIn(picked, dim, Options(dim))
IsAll(dim) == Selected(dim) = Options(dim)
IsNone(dim) == Selected(dim) = {} /\ Options(dim) # {}

PricedKeys == {key \in DOMAIN Assumptions : ValidAssumption(Assumptions[key])}
Modeled == {l \in Legs : UnderlyingKey(l.position) \in PricedKeys}
MaxDays == Min({365} \cup UNION {l.days : l \in Modeled})
Horizon == Min({days, MaxDays})

\* The scenario columns of the table.
PricesShown == IF lens = "asset" \/ Cardinality(PricedKeys) = 1 THEN prices ELSE {}
Spots == [s \in Symbols |-> IF s \in PricedKeys THEN Default(Assumptions[s].spot, 0) ELSE 0]
NaturalColumns == BuildColumns(percents, PricesShown, Spots)
Columns == OrderColumns(NaturalColumns, order)
Levels == {c.shock : c \in NaturalColumns}
CurvesOf(legs) == BuildCurves(legs, Assumptions, range, Horizon, Levels)

\* The booked legs of the chosen cycles, once the server has answered: those
\* of every underlying, for the filter by name never leaves one out.
Cycles == IF IsAll("expiry") THEN {} ELSE Selected("expiry") \ {NoExpiry}
Settling == Cycles \notin answered
RealizedLegs ==
  IF Settling THEN {}
  ELSE {l \in Booked : /\ Cycles = {} \/ l.expiry \in Cycles
                       /\ IsAll("account") \/ l.account \in Selected("account")}
StillOpen == {p.contract : p \in {q \in Scoped : q.quantity # 0}}
BookedTotal == SumFunction([l \in RealizedLegs |-> l.pnl])

\* What the table is focused on.
AssetOptions == PricedKeys \cup
  {UnderlyingKey(p) : p \in UnpricedPositions(
     {q \in Scoped : /\ q.account \in Selected("account") /\ ExpiryOf(q) \in Selected("expiry")
                     /\ UnderlyingKey(q) \in NameOptions}, Assumptions)}
AssetFocus ==
  IF assetFocus = All THEN {}
  ELSE IF assetFocus # {} /\ assetFocus \subseteq AssetOptions THEN assetFocus
  ELSE PreferredFocus(AssetOptions)
OnAsset(keys) == lens = "asset" \/ AssetFocus = {} \/ keys \subseteq AssetFocus
Viewed == {l \in Modeled : OnAsset({UnderlyingKey(l.position)})}
ViewedRealized == {l \in RealizedLegs : OnAsset({l.key})}
LensRows ==
  BuildRows(lens, Viewed, Assumptions, range, Horizon, Levels,
            RealizedByGroup(lens, ViewedRealized, closed, commissions, StillOpen))
\* The lens by account has no control of its own: it stays on all.
FocusAll ==
  CASE lens = "asset" -> assetFocus = All [] lens = "expiry" -> expiryFocus = All
    [] lens = "account" -> TRUE
Focus(rows) ==
  IF lens = "asset" THEN AssetFocus
  ELSE IF FocusAll THEN {}
  ELSE IF expiryFocus \subseteq DOMAIN rows THEN expiryFocus
  ELSE PreferredFocus(DOMAIN rows)
Ready == Modeled # {}

\* The table: its focus, the booked legs it counts, the groups it is focused
\* on and its total.
ViewRealizedLegs(focus) ==
  IF focus # {} THEN {l \in RealizedLegs : RealizedGroupKey(lens, l) \in focus}
  ELSE ViewedRealized
AllAdjustment(booked) ==
  SumFunction([l \in booked |-> LegAdjustment(l, closed, commissions, StillOpen)])
TotalOf(curve, adjustment) ==
  [legs |-> Viewed, keys |-> {UnderlyingKey(l.position) : l \in Viewed},
   curve |-> curve, now |-> curve[0].modeled, worst |-> WorstOf(curve), adjustment |-> adjustment]
TotalRow(rows, focused, adjustment) ==
  IF focused # {} THEN rows[Default(focused, 0)]
  ELSE TotalOf(Shift(CurvesOf(Viewed), adjustment), adjustment)
TableOf(rows, focus, booked) ==
  [focus |-> focus, focused |-> focus \cap DOMAIN rows, booked |-> booked,
   total |-> TotalRow(rows, focus \cap DOMAIN rows, AllAdjustment(booked))]
TableOn(rows, focus) == TableOf(rows, focus, ViewRealizedLegs(focus))
TableWith(rows) == TableOn(rows, Focus(rows))
Table == TableWith(LensRows)

\* The figures of a table.
Shown(t) == Ready /\ ~Settling /\ (FocusAll \/ t.focused # {})
ViewKeys(t) == IF t.focused = {} /\ ~FocusAll THEN PricedKeys ELSE t.total.keys
ViewBooked(t) == IF closed THEN SumFunction([l \in t.booked |-> l.pnl]) ELSE 0
Split(t) ==
  LET contracts == {<<l.account, l.contract>> : l \in {k \in t.booked : k.pnl # 0}}
      onClosed(l) == closed /\ <<l.account, l.contract>> \in contracts
      paid(legs) == SumFunction([l \in legs |-> CommissionAddBack(l, closed, StillOpen)])
  IN [closed |-> paid({l \in t.booked : onClosed(l)}), open |-> paid({l \in t.booked : ~onClosed(l)})]
\* Mutant: the commission that has a line of its own is also in this one.
OpenNowNet(t) == t.total.now - t.total.adjustment
OpenNow(t) == t.total.now - t.total.adjustment + Split(t).open
OpenAt(t, s) ==
  t.total.curve[s].terminal
  - (IF t.focused # {} THEN t.total.adjustment ELSE 0) + Split(t).open
BookedRow(t) == IF ViewBooked(t) = 0 /\ Split(t).closed = 0 THEN 0 ELSE ViewBooked(t) + Split(t).closed
ChargedRow(t) == IF commissions THEN -(Split(t).open + Split(t).closed) ELSE 0
SplitShown(t) == BookedRow(t) # 0 \/ ChargedRow(t) # 0

-----------------------------------------------------------------------------
\* After a render an effect puts the focus of the lens by expiry back to all
\* when the cycles selected are no longer the same.
Effects(chosen) ==
  /\ book' = Render(held', today', picked', overrides', shock')
  /\ expiryFocus' = IF Selected("expiry")' # Selected("expiry") THEN All ELSE chosen
Click == Scoped # {} /\ clicks < MaxClicks /\ clicks' = clicks + 1
Server == <<held, today, answered>>
Looks == <<lens, assetFocus>>
Money == <<closed, commissions>>
Inputs == <<days, range, shock, overrides>>
Cols == <<percents, prices, order>>

Pick(dim, ticked) ==
  /\ Click /\ picked' = [picked EXCEPT ![dim] = ticked]
  /\ UNCHANGED <<Server, Looks, Money, Inputs, Cols>> /\ Effects(expiryFocus)
Toggle ==
  \E dim \in Dims : \E value \in Options(dim) :
    LET next == IF value \in Selected(dim) THEN Selected(dim) \ {value}
                ELSE Selected(dim) \cup {value}
    IN Pick(dim, IF next = Options(dim) THEN All ELSE next)
SelectAll == \E dim \in Dims : ~IsAll(dim) /\ Pick(dim, All)
Clear == \E dim \in Dims : ~IsNone(dim) /\ Options(dim) # {} /\ Pick(dim, {})

Look(toLens, asset, focus) ==
  /\ Click /\ lens' = toLens /\ assetFocus' = asset
  /\ UNCHANGED <<Server, picked, Money, Inputs, Cols>> /\ Effects(focus)
PickLens == \E next \in Lenses \ {lens} : Look(next, assetFocus, expiryFocus)
PickAsset ==
  \E next \in {All} \cup {{id} : id \in AssetOptions} :
    next # assetFocus /\ Look(lens, next, expiryFocus)
PickExpiry ==
  /\ lens = "expiry"
  /\ \E next \in {All} \cup {{id} : id \in DOMAIN LensRows} :
       next # expiryFocus /\ Look(lens, assetFocus, next)

ToggleCommissions ==
  /\ Click /\ commissions' = ~commissions
  /\ UNCHANGED <<Server, picked, Looks, expiryFocus, closed, Inputs, Cols, book>>
ToggleClosed ==
  /\ BookedTotal # 0 \/ (Ready /\ Settling)
  /\ Click /\ closed' = ~closed
  /\ UNCHANGED <<Server, picked, Looks, expiryFocus, commissions, Inputs, Cols, book>>

Input ==
  /\ Click
  /\ \/ \E d \in 0..Min({MaxDays, LastDay}) \ {days} : days' = d /\ UNCHANGED <<range, shock, overrides>>
     \/ range' \in {10, 20} \ {range} /\ UNCHANGED <<days, shock, overrides>>
     \/ /\ Cardinality(ViewKeys(Table)) > 1 /\ shock' \in {"parallel", "beta"} \ {shock}
        /\ UNCHANGED <<days, range, overrides>>
     \/ /\ \E key \in PricedKeys :
             \/ overrides' = [overrides EXCEPT ![key].volatility = {60}]
             \/ \E b \in {{}, {2}} :
                  shock = "beta" /\ overrides' = [overrides EXCEPT ![key].beta = b]
        /\ UNCHANGED <<days, range, shock>>
  /\ UNCHANGED <<Server, picked, Looks, Money, Cols>> /\ Effects(expiryFocus)

AddLevel ==
  /\ \E v \in ParseLevels(TypedLevels) \ percents :
       Cardinality(percents) < MaxCustom /\ percents' = percents \cup {v}
  /\ UNCHANGED <<prices, order>>
PricesOf(keys) ==
  /\ Cardinality(keys) = 1
  /\ \E symbol \in keys, p \in TypedPrices :
       /\ [symbol |-> symbol, price |-> p] \notin prices
       /\ prices' = prices \cup {[symbol |-> symbol, price |-> p]}
AddPrice ==
  Cardinality(prices) < MaxCustom /\ PricesOf(ViewKeys(Table)) /\ UNCHANGED <<percents, order>>
DropColumn ==
  /\ \E c \in NaturalColumns :
       /\ (c.shock > 0 \/ c.kind = "price") /\ ~IsDefaultPct(c)
       /\ IF c.kind = "price"
          THEN prices' = {l \in prices : <<l.symbol, l.price>> # c.id} /\ UNCHANGED percents
          ELSE percents' = percents \ {c.shock} /\ UNCHANGED prices
  /\ UNCHANGED order
Moved(columns) ==
  \E from \in DOMAIN columns, delta \in {-1, 1} :
    LET ids == [i \in DOMAIN columns |-> columns[i].id]
        to == from + delta
    IN to \in DOMAIN ids /\ order' = [ids EXCEPT ![from] = ids[to], ![to] = ids[from]]
MoveColumn == Shown(Table) /\ Moved(Columns) /\ UNCHANGED <<percents, prices>>
EditColumns ==
  /\ Click /\ (AddLevel \/ AddPrice \/ DropColumn \/ MoveColumn)
  /\ UNCHANGED <<Server, picked, Looks, expiryFocus, Money, Inputs, book>>

\* Rows change one at a time, the day passes, the booked legs arrive.
Feed(newHeld, newToday, newAnswered) ==
  /\ held' = newHeld /\ today' = newToday /\ answered' = newAnswered
  /\ UNCHANGED <<clicks, picked, Looks, Money, Inputs, Cols>> /\ Effects(expiryFocus)
PositionsChange ==
  \E p \in Pool : Feed(IF p \in held THEN held \ {p} ELSE held \cup {p}, today, answered)
DayPasses == today < LastDay /\ Feed(held, today + 1, {})
RealizedArrives == Settling /\ Feed(held, today, answered \cup {Cycles})

RiskNext ==
  \/ Toggle \/ SelectAll \/ Clear \/ PickLens \/ PickAsset \/ PickExpiry
  \/ ToggleCommissions \/ ToggleClosed \/ Input \/ EditColumns
  \/ PositionsChange \/ DayPasses \/ RealizedArrives
RiskSpec == RiskInit /\ [][RiskNext]_riskVars

-----------------------------------------------------------------------------
\* The order the user gave the columns is an order of the columns there are:
\* none is lost or shown twice when prices move, levels are dropped and added
\* again, or a price takes the place of a percentage (orderColumns).
ColumnsKept ==
  /\ Len(Columns) = Cardinality(NaturalColumns) /\ ToSet(Columns) = NaturalColumns
  /\ Cardinality(Levels) = Len(Columns)

\* Every column is in the table once, and the "Open legs", "Booked P&L" and
\* "Commissions" lines add up to the total above the columns: in the MTM
\* column of every view, and in every scenario column of a view focused on one
\* group (lens-table.tsx 154-178).  A view by expiry that is focused on one
\* underlying as well is left out: there the booked lines are those of every
\* underlying (payoff-panel.tsx 315).
SameLegs(t) == lens = "asset" \/ AssetFocus = {} \/ t.focus = {}
LinesAddUp(t) ==
  Shown(t) /\ SplitShown(t) /\ SameLegs(t) =>
    /\ OpenNow(t) + BookedRow(t) + ChargedRow(t) = t.total.now
    /\ t.focused # {} =>
         \A s \in Levels : OpenAt(t, s) + BookedRow(t) + ChargedRow(t) = t.total.curve[s].terminal
TableAddsUp == ColumnsKept /\ LinesAddUp(Table)

\* What the footnote at payoff-panel.tsx 767 says of every view: the open
\* legs, the booked ones and the commission, each counted once, make up the
\* figure of each scenario column.
ScenariosAddUp(t) ==
  Shown(t) /\ SplitShown(t) /\ SameLegs(t) =>
    \A s \in Levels : OpenAt(t, s) + BookedRow(t) + ChargedRow(t) = t.total.curve[s].terminal
RowsAddUp == ScenariosAddUp(Table)

\* The curve drawn before expiry starts from the broker's own mark, whatever
\* volatility is set, and ends on the settlement value (modelLeg, lines
\* 242-264 of payoff.ts).
EstimateMeetsMark ==
  \A l \in Modeled :
    LET a == Assumptions[UnderlyingKey(l.position)] IN
    /\ l.marked # {} /\ l.anchor = a.spot /\ (IsOption(l) => l.days # {0})
         => ModeledPnl(l, a, 0, 0) = Default(l.marked, 0)
    /\ IsOption(l) => \A s \in Levels :
         ModeledPnl(l, a, s, Default(l.days, 0)) = TerminalPnl(l, a, s)

\* While no filter has lost all that was ticked in it, a leg is shown exactly
\* when each filter has it ticked: rows that come and go leave nothing behind
\* that hides a leg (useCrossSelection, where each filter's options depend on
\* what is ticked in the other).
TickedIsShown ==
  (\A dim \in Dims : ~Stale(dim)) =>
    Legs = {l \in AllLegs : \A dim \in Dims : Ticked(picked, dim, l)}

\* The figures of the strategy shown for one underlying: its legs and what is
\* booked, settled at the turns of its pay-off and above its last strike.
Strikes(total) == {Fine * l.strike : l \in {k \in total.legs : IsOption(k)}}
SettledAt(total, price) == TerminalAt(total.legs, price) + Fine * total.adjustment
SlopeAbove(total, top) == SettledAt(total, top + 1) - SettledAt(total, top)

\* "Max loss" and "Max profit" are the lowest and the highest settlement
\* "anywhere from a price of zero up past the highest strike", and read
\* Uncapped exactly when there is none (strategy-payoff.tsx 374 and 378).
AreExtremes(stats, turns, slope) ==
  /\ stats.uncappedDownside = (slope < 0)
  /\ stats.uncappedUpside = (slope > 0)
  /\ slope >= 0 => stats.maxLoss = Min(turns)
  /\ slope <= 0 => stats.maxProfit = Max(turns)
StatsOf(total, key, spot) ==
  AreExtremes(Strategy(total.legs, key, spot, Fine * total.adjustment),
              {SettledAt(total, price) : price \in {0} \cup Strikes(total)},
              SlopeAbove(total, Max({Fine * spot} \cup Strikes(total))))
StatsAreExtremes ==
  \A t \in {Table} : Shown(t) /\ Cardinality(t.total.keys) = 1 =>
    \A key \in t.total.keys : StatsOf(t.total, key, Default(Assumptions[key].spot, 0))

\* What strategyStats can see: no strike is below the curve it looks at or above
\* the last but one of its samples, and over the gap between the last two (about
\* 0.8% of the spot) a slope changes the figures by more than the tolerance.
InReach(total, spot, slope) ==
  /\ \A k \in Strikes(total) :
       LowEnd(spot, WideRange) <= k /\ k < LowEnd(spot, WideRange) + (GridSteps - 1) * Gap(spot, WideRange)
  /\ slope # 0 => Max({slope, -slope}) * Gap(spot, WideRange) > Tolerance(total.legs)

\* The same within that reach; and a loss that is not capped is in the warning
\* above the table when the view has all that is modelled of the underlying.
StatsInReach ==
  \A t \in {Table} : Shown(t) /\ Cardinality(t.total.keys) = 1 =>
    \A key \in t.total.keys : \A spot \in {Default(Assumptions[key].spot, 0)} :
      InReach(t.total, spot, SlopeAbove(t.total, Max({Fine * spot} \cup Strikes(t.total)))) =>
        /\ StatsOf(t.total, key, spot)
        /\ t.total.legs = LegsOf(Modeled, key) =>
             (Strategy(t.total.legs, key, spot, Fine * t.total.adjustment).uncappedDownside
                => key \in UpsideRisks(Modeled))
=============================================================================
