------------------------------- MODULE DayPnl -------------------------------
(***************************************************************************)
(* The day's profit and loss: the samples the sessions of the worker write *)
(* (snapshots of worker.py), what the API makes of them (intraday and      *)
(* daily_pnl of main.py) and the panel that draws them beside the figures  *)
(* the socket brings (frontend/components/day-pnl.tsx).                    *)
(*                                                                         *)
(* Every sample of a session has a moment of its own, DayTicks of them in  *)
(* a day of the API; the panel's day may begin later (ZoneLag).  A figure  *)
(* is a set of at most one integer.  `answer' is what the query of the      *)
(* present choice has in the cache.                                        *)
(***************************************************************************)
EXTENDS Integers, FiniteSets, SequencesExt

CONSTANTS
  DeskAccounts,     \* the accounts of the dashboard
  Feeds,            \* the sets of accounts that are sampled by one session
  Holds,            \* Holds[a]: what the open legs of a are of
  Earned,           \* Earned[a]: the figure of a at each moment
  EarnedOn,         \* EarnedOn[s]: the figure of a leg of asset s
  DayTicks, ZoneLag,
  WeekDays,         \* days of the longer period
  LastTick,         \* bound on the samples
  MaxNews,          \* bound on the broker's reports and the writes that fail
  MaxPnlUses        \* bound on the clicks
ASSUME PnlAssumption ==
  /\ IsFiniteSet(DeskAccounts) /\ Feeds \subseteq SUBSET DeskAccounts
  /\ {DayTicks, LastTick} \subseteq Nat \ {0}
  /\ \A a \in DeskAccounts :
       /\ IsFiniteSet(Holds[a]) /\ \A s \in Holds[a] : EarnedOn[s] \in Int
       /\ \A t \in 1 .. LastTick : Earned[a][t] \in Int
NoAccount == "every account"

VARIABLES tick, news, told, live, samples, onPage, period, chosen, listed, assetsPicked, answer, failed, pnlUses
pnlVars ==
  <<tick, news, told, live, samples, onPage, period, chosen, listed, assetsPicked, answer, failed, pnlUses>>

DayAt(t) == (t - 1) \div DayTicks
SumOver(S, f(_)) == SumFunction([x \in S |-> f(x)])
\* The figures of a set of rows together.
Sum(rows) == SumOver(rows, LAMBDA r : Max(r.pnl))
Known(rows) == {r \in rows : r.pnl # {}}
Latest(rows) == {r \in rows : \A s \in rows : s.at <= r.at}

\* The query has nothing yet.
NoAnswer == [here |-> FALSE, rows |-> {}, combined |-> {}, unreported |-> {}]

PnlInit ==
  \* The broker has been heard of every account, or of none.
  /\ \E heard \in {{}, DeskAccounts} :
       told = [a \in DeskAccounts |-> IF a \in heard THEN [at |-> 1, pnl |-> {Earned[a][1]}]
                                      ELSE [at |-> 0, pnl |-> {}]]
  /\ tick = 1 /\ news = 0 /\ live = told
  /\ samples = {} /\ answer = NoAnswer /\ failed = FALSE /\ pnlUses = 0
  /\ onPage \in {NoAccount} \cup DeskAccounts /\ period = "day"
  /\ chosen = DeskAccounts /\ listed = FALSE /\ assetsPicked = {}

-----------------------------------------------------------------------------
(* The worker and the API *)

\* The broker reports the day's figure of an account, or that it has none.
BrokerReports(a) ==
  /\ \E pnl \in {{}, {Earned[a][tick]}} :
        told' = [told EXCEPT ![a] = [at |-> tick, pnl |-> pnl]]
  /\ told' # told /\ news < MaxNews /\ news' = news + 1
  /\ UNCHANGED <<tick, live, samples, onPage, period, chosen, listed, assetsPicked, answer, failed, pnlUses>>
\* asset_rows: the legs of the assets, one row for each account and sample.
AssetRows(rows, assets) ==
  {[account |-> r.account, at |-> r.at,
    pnl |-> {SumOver(Holds[r.account] \cap assets, LAMBDA s : EarnedOn[s])}]
   : r \in {s \in rows : Holds[s.account] \cap assets # {}}}
RowsOf(upTo, scope, assets) ==
  LET rows == {r \in samples : r.account \in scope /\ r.at < upTo}
  IN IF assets = {} THEN rows ELSE AssetRows(rows, assets)

\* intraday: a moment is drawn when every account of the day has a row of it
\* and every one that reports at all has a figure by then.
Intraday(found, day) ==
  LET rows == {r \in found : DayAt(r.at) = day}
      present == {r.account : r \in rows}
      reporting == {r.account : r \in Known(rows)}
      by(t) == UNION {Latest({r \in Known(rows) : r.account = a /\ r.at <= t}) : a \in reporting}
      complete == {t \in {r.at : r \in rows} :
                     /\ {r.account : r \in {s \in rows : s.at = t}} = present
                     /\ {r.account : r \in by(t)} = reporting /\ reporting # {}}
  IN [here |-> TRUE, rows |-> rows, unreported |-> present \ reporting,
      combined |-> {[at |-> t, pnl |-> {Sum(by(t))}] : t \in complete}]

\* daily_pnl: the last figure of each account and day, summed up to each day.
Daily(found, from) ==
  LET rows == {r \in Known(found) : DayAt(r.at) >= from}
      last == {r \in rows : r \in Latest({s \in rows : s.account = r.account /\ DayAt(s.at) = DayAt(r.at)})}
      days == {DayAt(r.at) : r \in last}
  IN [here |-> TRUE, rows |-> last, unreported |-> {},
      combined |-> {[at |-> d, pnl |-> {Sum({r \in last : DayAt(r.at) <= d})}] : d \in days}]

-----------------------------------------------------------------------------
(* The panel *)

OfPeriod == period # "day"
Desk == onPage = NoAccount /\ Cardinality(DeskAccounts) > 1
Scope == IF onPage = NoAccount THEN chosen ELSE {onPage}
\* The day, or the first day of the period, that is asked for at t.
DateAt(t) ==
  CASE period = "day" -> DayAt(Max({1, t - ZoneLag}))
    [] period = "week" -> Max({0, DayAt(t) - WeekDays})
    [] period = "all" -> 0
\* The assets of the accounts in view, once their list is here, and of those
\* the ones that are ticked: all when no choice was made or none of it is left.
OfferedAssets == IF listed THEN UNION {Holds[a] : a \in Scope} ELSE {}
TickedAssets ==
  LET left == UNION {p \cap OfferedAssets : p \in assetsPicked}
  IN IF assetsPicked = {} \/ (assetsPicked # {{}} /\ left = {}) THEN OfferedAssets ELSE left
\* Nothing is asked for when every asset is ticked, and when none is.
Filter == IF TickedAssets = OfferedAssets THEN {} ELSE TickedAssets
NoAssets == TickedAssets = {} /\ OfferedAssets # {}
Asked == Scope # {} /\ ~NoAssets
\* What is asked for, the key of the query, and its answer at a moment.
Question == [scope |-> Scope, assets |-> Filter, daily |-> OfPeriod, from |-> DateAt(tick)]
AnswerTo(q, upTo) ==
  LET found == RowsOf(upTo, q.scope, q.assets)
  IN IF upTo = 0 \/ q.scope = {} THEN NoAnswer
     ELSE IF q.daily THEN Daily(found, q.from) ELSE Intraday(found, q.from)
\* Another question has another answer, from when it was last looked at, and
\* that of a day may have failed to be fetched again.
AskedAnew ==
  /\ \E q \in {Question'}, upTo \in 0 .. tick : answer' = AnswerTo(q, upTo)
  /\ failed' \in BOOLEAN /\ (failed' => answer'.here /\ ~OfPeriod')

\* A session writes what it knows of each of its accounts, and of its open
\* legs; any write may fail.  No view shows both, so that one choice of what
\* fails stands for the two.
SessionSamples(feed) ==
  /\ tick < LastTick /\ tick' = tick + 1
  /\ \E written \in SUBSET feed :
       /\ news' = news + Cardinality(feed \ written) /\ news' <= MaxNews
       /\ samples' = samples \cup {[account |-> a, at |-> tick, pnl |-> told[a].pnl] : a \in written}
  /\ UNCHANGED <<told, live, onPage, period, chosen, listed, assetsPicked, pnlUses>>
  \* Another day is another question.
  /\ IF Question' = Question THEN UNCHANGED <<answer, failed>> ELSE answer' = NoAnswer /\ failed' = FALSE

\* The cache has an answer for each choice, or none yet: what was once fetched
\* of a period stays, a new sample has the day fetched anew (applyEvent of
\* live.ts), and a fetch that fails leaves what there was, behind the word that
\* it failed.
Fetch ==
  /\ Asked /\ (~answer.here \/ ~OfPeriod)
  /\ \/ answer' = AnswerTo(Question, tick) /\ failed' = FALSE
     \/ failed' = TRUE /\ UNCHANGED answer
  /\ UNCHANGED <<tick, news, told, live, samples, onPage, period, chosen, listed, assetsPicked, pnlUses>>
\* account.updated over the socket.
HearAccount(a) ==
  /\ live[a] # told[a] /\ live' = [live EXCEPT ![a] = told[a]]
  /\ UNCHANGED <<tick, news, told, samples, onPage, period, chosen, listed, assetsPicked, answer, failed, pnlUses>>
UsePanel ==
  /\ pnlUses < MaxPnlUses /\ pnlUses' = pnlUses + 1
  /\ \/ period' \in {"day", "week", "all"} /\ UNCHANGED <<chosen, listed, assetsPicked>>
     \/ /\ Desk /\ chosen' \in SUBSET DeskAccounts \ {chosen}
        /\ listed' \in BOOLEAN /\ (listed' => chosen' # {}) /\ UNCHANGED <<period, assetsPicked>>
     \/ /\ \E ticked \in SUBSET OfferedAssets : assetsPicked' = IF ticked = OfferedAssets THEN {} ELSE {ticked}
        /\ UNCHANGED <<period, chosen, listed>>
  /\ UNCHANGED <<tick, news, told, live, samples, onPage>> /\ AskedAnew

\* The list of the assets arrives; another filter is another choice.
AssetsArrive ==
  /\ ~listed /\ Scope # {} /\ listed' = TRUE
  /\ UNCHANGED <<tick, news, told, live, samples, onPage, period, chosen, assetsPicked, pnlUses>>
  /\ IF Question' = Question THEN UNCHANGED <<answer, failed>> ELSE AskedAnew

PnlNext ==
  \/ \E a \in DeskAccounts : BrokerReports(a) \/ HearAccount(a)
  \/ \E feed \in Feeds : SessionSamples(feed)
  \/ Fetch \/ UsePanel \/ AssetsArrive
PnlSpec == PnlInit /\ [][PnlNext]_pnlVars

\* The figure of an account in the list beside the chart.
FromLive == ~OfPeriod /\ Filter = {}
PerAccount == {r.account : r \in answer.rows}
\* The accounts that have a line of their own.
Drawn == PerAccount \ answer.unreported
RowsFor(a) == {r \in answer.rows : r.account = a}
Value(a) ==
  IF FromLive THEN live[a].pnl
  ELSE IF OfPeriod THEN IF RowsFor(a) = {} THEN {} ELSE {Sum(RowsFor(a))}
  ELSE UNION {r.pnl : r \in Latest(Known(RowsFor(a)))}
Standings == {a \in IF FromLive THEN Scope ELSE PerAccount : Value(a) # {}}
FigureOf(accounts) == IF accounts = {} THEN {} ELSE {SumOver(accounts, LAMBDA a : Max(Value(a)))}

LiveReported == IF FromLive THEN Standings ELSE {}
LiveTotal == FigureOf(LiveReported)
LiveAt == Max({0} \cup {live[a].at : a \in LiveReported})
LastCombined == UNION {r.pnl : r \in Latest(answer.combined)}
Headline ==
  IF OfPeriod THEN LastCombined
  ELSE IF LiveTotal # {} THEN LiveTotal
  ELSE IF Desk \/ (onPage = NoAccount /\ answer.combined # {}) THEN LastCombined
  ELSE FigureOf(Standings)

\* A line is a sequence of points; the figure the socket brought is its end.
Point(when, value) == [at |-> when, pnl |-> value]
LineOf(rows) ==
  LET points == {Point(r.at, Max(r.pnl)) : r \in Known(rows)}
      before(p) == {q \in points : q.at < p.at}
  IN [i \in 1 .. Cardinality(points) |-> CHOOSE p \in points : Cardinality(before(p)) = i - 1]
\* Mutant: the live figure is always a point of its own.
ExtendLiveAlways(points, when, value) ==
  IF value = {} \/ when = 0 THEN points ELSE Append(points, Point(when, Max(value)))
ExtendLive(points, when, value) ==
  IF value = {} \/ when = 0 THEN points
  ELSE IF points # <<>> /\ when <= Last(points).at
       THEN Append(Front(points), Point(Last(points).at, Max(value)))
  ELSE Append(points, Point(when, Max(value)))
CombinedLine ==
  IF OfPeriod THEN LineOf(answer.combined) ELSE ExtendLive(LineOf(answer.combined), LiveAt, LiveTotal)
PointsFor(a) ==
  IF FromLive THEN ExtendLive(LineOf(RowsFor(a)), live[a].at, live[a].pnl) ELSE LineOf(RowsFor(a))
\* The running sum of an account at each day of the period.
CumulativeAt(a, day) == SumOver({r \in RowsFor(a) : DayAt(r.at) <= day}, LAMBDA r : Max(r.pnl))

Body ==
  CASE ~Asked -> "nothing picked"
    [] Asked /\ failed -> "failed"
    [] Asked /\ ~failed /\ ~answer.here -> "loading"
    [] OTHER -> IF Cardinality({r.at : r \in answer.rows}) < (IF OfPeriod THEN 1 ELSE 2)
                THEN "not enough" ELSE "chart"

-----------------------------------------------------------------------------
\* The panel is of one piece, whatever of the samples, the live figures and
\* the answers is missing, late or from before: where a figure of every
\* account is known its headline is the sum of the figures listed and the end
\* of the line, each account's line ends in the figure it is listed with, the
\* lines of a period add up to the combined one at every day, and no line
\* goes back in time (day-pnl.tsx 104-146 and 189-197).
PnlAddsUp ==
  Body = "chart" =>
    LET lines == {CombinedLine} \cup {PointsFor(a) : a \in Drawn}
    IN /\ OfPeriod \/ LiveTotal # {} => Headline = FigureOf(Standings)
       /\ Headline # {} /\ Desk => Headline = {Last(CombinedLine).pnl}
       /\ ~OfPeriod => \A a \in Standings \cap Drawn : Value(a) = {Last(PointsFor(a)).pnl}
       /\ OfPeriod => \A r \in answer.combined :
            r.pnl = {SumOver(Drawn, LAMBDA a : CumulativeAt(a, r.at))}
       /\ \A line \in lines : \A i \in 1 .. Len(line) - 1 : line[i].at < line[i + 1].at

\* Two accounts that both report are drawn together ("The combined line adds
\* every account that reports a figure", day-pnl.tsx 613); the code does not
\* keep it for accounts of two sessions.
CombinedIsDrawn ==
  Body = "chart" /\ Desk /\ ~OfPeriod /\ {r.account : r \in Known(answer.rows)} = DeskAccounts
    => answer.combined # {}
=============================================================================
