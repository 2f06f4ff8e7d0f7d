------------------------------- MODULE Payoff -------------------------------
(***************************************************************************)
(* The pay-off arithmetic of the dashboard: frontend/lib/payoff.ts and the *)
(* figures strategy-payoff.tsx reads off its curves.                       *)
(*                                                                         *)
(* Money, prices and percentages are integers, chosen so that the          *)
(* divisions of the code are exact.  A number that may be absent is a set  *)
(* of at most one integer.  An expiry is a day number, NoDate for none.    *)
(* The Black-Scholes value is kept as what the panel relies on: intrinsic  *)
(* value plus a time value that grows with volatility and time.            *)
(***************************************************************************)
EXTENDS Integers, Sequences, FiniteSets, FiniteSetsExt, SequencesExt

NoDate == 0
AssumedVol == 3
MaxVol == 6

Default(n, value) == IF n = {} THEN value ELSE CHOOSE v \in n : TRUE
Positive(n) == {v \in n : v > 0}

UnderlyingKey(p) == p.symbol
IsOption(leg) == leg.position.type = "OPT"
LegsOf(legs, key) == {l \in legs : UnderlyingKey(l.position) = key}

\* The reference price: a held stock's mark, else a quoted underlying.
BrokerSpot(legs, key) ==
  LET stocks == UNION {Positive(l.position.price) :
                         l \in {k \in LegsOf(legs, key) : ~IsOption(k)}}
      quotes == UNION {Positive(l.position.und) : l \in LegsOf(legs, key)}
      found == IF stocks # {} THEN stocks ELSE quotes
  IN IF found = {} THEN {} ELSE {Min(found)}

DaysToExpiry(p, at) == p.expiry - at

\* What a position lacks to be drawn.
Unusable(p, at) ==
  \/ p.type \notin {"STK", "OPT"}
  \/ p.currency = "BASE" \/ p.symbol = ""
  \/ p.cost = {} \/ \E c \in p.cost : c < 0
  \/ /\ p.type = "OPT"
     /\ \/ p.multiplier <= 0 \/ p.strike <= 0 \/ p.right \notin {"C", "P"}
        \/ p.expiry = NoDate \/ DaysToExpiry(p, at) < 0

MultiplierOf(p) == IF p.type = "STK" THEN 1 ELSE p.multiplier
MarkedPnl(p) ==
  IF p.unreal # {} THEN p.unreal
  ELSE {p.quantity * (price * MultiplierOf(p) - Default(p.cost, 0)) : price \in p.price}

Leg(p, at) ==
  [position |-> p, quantity |-> p.quantity, cost |-> Default(p.cost, 0),
   multiplier |-> MultiplierOf(p), strike |-> p.strike,
   days |-> IF p.type = "OPT" THEN {DaysToExpiry(p, at)} ELSE {},
   marked |-> MarkedPnl(p),
   anchor |-> IF p.type = "STK" THEN p.price ELSE p.und]

PreparedLegs(positions, at) ==
  {Leg(p, at) : p \in {q \in positions : q.quantity # 0 /\ ~Unusable(q, at)}}

Intrinsic(spot, strike, right) ==
  Max({0, IF right = "C" THEN spot - strike ELSE strike - spot})

OptionValue(spot, strike, right, days, vol) ==
  Intrinsic(spot, strike, right)
  + IF days <= 0 \/ spot = 0 \/ vol = 0 THEN 0
    ELSE (vol * days) \div (1 + Max({spot - strike, strike - spot}))

\* The bisection ends on the highest volatility that is not too dear.
ImpliedVolatility(price, spot, strike, right, days) ==
  LET value(v) == OptionValue(spot, strike, right, days, v)
  IN IF \/ price <= 0 \/ spot <= 0 \/ strike <= 0 \/ days <= 0
        \/ price < Intrinsic(spot, strike, right) \/ value(MaxVol) < price
     THEN {} ELSE {Max({v \in 0..MaxVol : value(v) <= price})}

LegVol(l) ==
  IF ~IsOption(l) \/ l.position.price = {} \/ Positive(l.position.und) = {} THEN {}
  ELSE ImpliedVolatility(Default(l.position.price, 0), Default(l.position.und, 0),
         l.strike, l.position.right, Default(l.days, 0))

\* The median of what the usable marks of one underlying imply.
ImpliedByUnderlying(legs, key) ==
  LET usable == {l \in LegsOf(legs, key) : LegVol(l) # {}}
      count == Cardinality(usable)
      nth(n) == Min({v \in 0..MaxVol : Cardinality({l \in usable : Default(LegVol(l), 0) <= v}) >= n})
  IN IF usable = {} THEN {}
     ELSE {(nth((count + 1) \div 2) + nth(count \div 2 + 1)) \div 2}

\* An assumption is [spot, volatility, beta]; spot is a set.
ValidAssumption(a) == Positive(a.spot) # {} /\ a.volatility >= 0

ShockedSpot(a, shock) == (Default(a.spot, 0) * (100 + shock * a.beta)) \div 100
Remaining(leg, horizon) == Max({0, Default(leg.days, 0) - horizon})
ValueAt(leg, spot, days, vol) ==
  IF IsOption(leg) THEN OptionValue(spot, leg.strike, leg.position.right, days, vol)
  ELSE spot
PnlAt(leg, value) == leg.quantity * (value * leg.multiplier - leg.cost)

\* Mutant: what the mark says beyond the model does not go with time.
ModelGapFlat(leg, a, horizon) ==
  Default(leg.marked, 0)
  - PnlAt(leg, ValueAt(leg, Default(leg.anchor, Default(a.spot, 0)), Default(leg.days, 0), a.volatility))
\* What the broker's mark says beyond the model, less what time takes of it.
ModelGap(leg, a, horizon) ==
  LET anchor == Default(leg.anchor, Default(a.spot, 0))
      days == Default(leg.days, 0)
      gap == Default(leg.marked, 0) - PnlAt(leg, ValueAt(leg, anchor, days, a.volatility))
  IN IF leg.marked = {} THEN 0
     ELSE IF ~IsOption(leg) THEN gap
     ELSE IF days <= 0 THEN 0
     ELSE (gap * Remaining(leg, horizon)) \div days

TerminalPnl(leg, a, shock) ==
  PnlAt(leg, ValueAt(leg, ShockedSpot(a, shock), 0, a.volatility))
ModeledPnl(leg, a, shock, horizon) ==
  PnlAt(leg, ValueAt(leg, ShockedSpot(a, shock), Remaining(leg, horizon), a.volatility))
  + ModelGap(leg, a, horizon)

SignedLevels(magnitudes) == UNION {{m, -m} : m \in magnitudes \ {0}}

\* The moves a curve is drawn at: its ends, zero, the columns and the strikes.
CurveShocks(legs, assumptions, range, levels) ==
  {-range, 0, range} \cup {s \in levels : s > -100}
  \cup {s \in {LET a == assumptions[UnderlyingKey(l.position)]
               IN ((l.strike - Default(a.spot, 0)) * 100) \div (Default(a.spot, 0) * a.beta) :
                 l \in {k \in legs : IsOption(k)
                          /\ assumptions[UnderlyingKey(k.position)].beta > 0}} :
        -range <= s /\ s <= range}

BuildCurves(legs, assumptions, range, horizon, levels) ==
  LET a(l) == assumptions[UnderlyingKey(l.position)]
  IN [s \in CurveShocks(legs, assumptions, range, levels) |->
       [terminal |-> SumFunction([l \in legs |-> TerminalPnl(l, a(l), s)]),
        modeled |-> SumFunction([l \in legs |-> ModeledPnl(l, a(l), s, horizon)])]]

\* Short calls that nothing held is sure to cover.
CallsAt(legs, expiry) ==
  SumFunction([l \in {k \in legs : IsOption(k) /\ k.position.right = "C" /\ k.position.expiry = expiry} |->
                 l.quantity * l.multiplier])
UpsideRisks(legs) ==
  {key \in {UnderlyingKey(l.position) : l \in legs} :
     LET group == LegsOf(legs, key)
         expiries == {l.position.expiry : l \in {k \in group : IsOption(k) /\ k.position.right = "C"}}
         slope(e) == IF Cardinality(expiries) = 1 THEN CallsAt(group, e)
                     ELSE Min({0, CallsAt(group, e)})
     IN SumFunction([l \in {k \in group : ~IsOption(k)} |-> l.quantity])
        + SumFunction([e \in expiries |-> slope(e)]) < 0}

\* One underlying against its own price: the samples, the spot, and the strikes
\* with what is just beside them.  Prices and money are counted in hundredths
\* of a sample, in which every sample is a whole number.
WideRange == 95
GridSteps == 240
Fine == 100 * GridSteps
FineValue(leg, price) ==
  IF IsOption(leg) THEN Intrinsic(price, Fine * leg.strike, leg.position.right) ELSE price
TerminalAt(legs, price) ==
  SumFunction([l \in legs |-> l.quantity * (FineValue(l, price) * l.multiplier - Fine * l.cost)])
LowEnd(spot, range) == GridSteps * spot * (100 - Min({range, WideRange}))
Gap(spot, range) == spot * (range + Min({range, WideRange}))
CurvePrices(legs, spot, range) ==
  LET sample(i) == LowEnd(spot, range) + Gap(spot, range) * i
      strikes == {Fine * l.strike : l \in {k \in legs : IsOption(k)}}
  IN {sample(i) : i \in 0..GridSteps} \cup {Fine * spot}
     \cup {k + d : k \in {s \in strikes : sample(0) <= s /\ s <= sample(GridSteps)}, d \in {-1, 0, 1}}
PriceCurve(legs, spot, range) ==
  [price \in CurvePrices(legs, spot, range) |-> TerminalAt(legs, price)]

Before(prices, price) == Max({p \in prices : p < price})
After(prices, price) == Min({p \in prices : p > price})

\* What a rise of the curve may owe to rounding: one unit of money, or a
\* millionth of the credit.
Tolerance(legs) ==
  LET credit == -SumFunction([l \in legs |-> l.quantity * l.cost])
  IN Max({Fine, (Max({credit, -credit}) * Fine) \div 1000000})

\* Mutant: the value at a price of zero is not looked at.
StrategyStatsInRange(wide, legs, offset) ==
  LET last == Max(DOMAIN wide)
      rising == wide[last] - wide[Before(DOMAIN wide, last)]
      values == {wide[p] + offset : p \in DOMAIN wide}
  IN [maxProfit |-> Max(values), maxLoss |-> Min(values),
      uncappedUpside |-> rising > Tolerance(legs), uncappedDownside |-> rising < -Tolerance(legs)]

\* The extremes of the wide curve, with its value at a price of zero read off
\* the first slope, and whether it goes on beyond its last price.
StrategyStats(wide, legs, offset) ==
  LET first == Min(DOMAIN wide)
      second == After(DOMAIN wide, first)
      last == Max(DOMAIN wide)
      slope == (wide[second] - wide[first]) \div (second - first)
      rising == wide[last] - wide[Before(DOMAIN wide, last)]
      values == {wide[p] + offset : p \in DOMAIN wide} \cup {wide[first] - slope * first + offset}
  IN [maxProfit |-> Max(values), maxLoss |-> Min(values),
      uncappedUpside |-> rising > Tolerance(legs), uncappedDownside |-> rising < -Tolerance(legs)]

Strategy(legs, key, spot, offset) ==
  LET scoped == LegsOf(legs, key)
  IN StrategyStats(PriceCurve(scoped, spot, WideRange), scoped, offset)
=============================================================================
