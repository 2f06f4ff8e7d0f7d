---------------------------- MODULE MarketHours -----------------------------
(***************************************************************************)
(* The market clock in the frame of the dashboard: frontend/lib/market.ts  *)
(* and the sign of components/dashboard.tsx that counts down with it.      *)
(*                                                                         *)
(* `minute' is the browser's clock, in minutes.  Day 0 is a Monday.  The   *)
(* minutes of a day are those of New York, which go an hour ahead of the   *)
(* clock once the clocks there have changed.                               *)
(***************************************************************************)
EXTENDS Integers, FiniteSets, FiniteSetsExt

CONSTANTS
  FullHolidays, EarlyCloses,  \* days of the tables of market.ts
  ClockChange,                \* the day whose clocks go forward at two, a Sunday
  TickLength,                 \* minutes between two looks at the clock
  LastMinute                  \* the clock stops here
ASSUME HoursAssumption ==
  ClockChange \in Int /\ ClockChange % 7 = 6 /\ TickLength \in 1..15

VARIABLE minute
hoursVars == minute

DayLength == 24 * 60
GthOpen == 20 * 60 + 15
GthClose == 9 * 60 + 15
RthOpen == 9 * 60 + 30
RthCloseFull == 16 * 60 + 15
RthCloseEarly == 13 * 60 + 15

EtOffset(t) == IF t >= ClockChange * DayLength + 120 THEN 60 ELSE 0
EtDay(t) == (t + EtOffset(t)) \div DayLength
EtMinutes(t) == (t + EtOffset(t)) % DayLength
\* Mutant: the days are forgotten.
InstantToday(t, minutes, addDays) == EtDay(t) * DayLength + minutes - EtOffset(t)
\* The minute of a day near t, by the offset there is at t.
InstantAt(t, minutes, addDays) == (EtDay(t) + addDays) * DayLength + minutes - EtOffset(t)

IsTradingDay(day) == day % 7 < 5 /\ day \notin FullHolidays
RthClose(day) == IF day \in EarlyCloses THEN RthCloseEarly ELSE RthCloseFull

\* The number of days to the next one with trading, looked for a week ahead.
NextTradingDay(t) ==
  LET ahead == {n \in 1 .. 8 : IsTradingDay(EtDay(t + n * DayLength))}
  IN IF ahead = {} THEN 1 ELSE Min(ahead)

\* The session at t, whether it is open, and the instant its countdown ends.
Sign(label, openNow, until) == [label |-> label, openNow |-> openNow, until |-> until]
MarketState(t) ==
  LET day == EtDay(t)
      minutes == EtMinutes(t)
      trading == IsTradingDay(day)
      afterTrading == IsTradingDay(EtDay(t - DayLength))
      ahead == NextTradingDay(t)
      eveningBefore == InstantAt(t, GthOpen, ahead - 1)
  IN CASE trading /\ minutes >= RthOpen /\ minutes < RthClose(day) ->
            Sign("Regular", TRUE, InstantAt(t, RthClose(day), 0))
       [] trading /\ afterTrading /\ minutes < GthClose ->
            Sign("Global", TRUE, InstantAt(t, GthClose, 0))
       [] trading /\ minutes >= GthOpen ->
            Sign("Global", TRUE, InstantAt(t, GthClose, ahead))
       [] trading /\ ~(afterTrading /\ minutes < GthClose) /\ minutes < RthOpen ->
            Sign("Pre-open", FALSE, InstantAt(t, RthOpen, 0))
       [] trading /\ minutes >= RthClose(day) /\ minutes < GthOpen ->
            Sign("Closed", FALSE, InstantAt(t, GthOpen, 0))
       [] OTHER ->
            Sign(IF day \in FullHolidays THEN "Holiday" ELSE "Closed", FALSE,
                 IF eveningBefore > t THEN eveningBefore ELSE InstantAt(t, RthOpen, ahead))

HoursInit == minute = 0
\* setClock: the sign is drawn anew with every tick.
HoursNext == minute < LastMinute /\ minute' = minute + TickLength
HoursSpec == HoursInit /\ [][HoursNext]_hoursVars

-----------------------------------------------------------------------------
\* The countdown that starts at t is kept: until it ends every tick shows the
\* same sign with less to go, and with its end the market opens or closes.
CountdownKept(t) ==
  LET now == MarketState(t)
      next == MarketState(t + TickLength)
  IN /\ now.until > t
     /\ IF now.until > t + TickLength
        THEN next.openNow = now.openNow /\ next.until = now.until
        ELSE next.openNow # now.openNow

\* On a trading day before another, half days among them, what the sign says
\* of the next opening or close is what happens ("opens in" and "closes in"
\* of dashboard.tsx 387-390).
SignIsKept ==
  IsTradingDay(EtDay(minute)) /\ IsTradingDay(EtDay(minute) + 1) => CountdownKept(minute)

\* The same of every instant, as the sign is read; the code does not keep it.
SignIsAlwaysKept == CountdownKept(minute)
=============================================================================
