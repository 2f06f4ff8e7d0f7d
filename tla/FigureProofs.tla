---------------------------- MODULE FigureProofs ----------------------------
(***************************************************************************)
(* Proofs about what the dashboard computes: the sign of the market, the   *)
(* legs and the estimate of the pay-off panel, the fills of the executions *)
(* and the table they are shown in, the day's profit and loss.  The        *)
(* sections are in the order they need each other; the sums and the least  *)
(* elements are used by the later.                                         *)
(***************************************************************************)
EXTENDS MCFigures, FiniteSetTheorems, WellFoundedInduction, TLAPS

(***************************************************************************)
(* The sign of the market. The proof counts the minutes of the market's    *)
(* own day. The clocks change in the night to a Sunday, so they stand      *)
(* still from one trading day to the end of the next; within that stretch  *)
(* the sign is a table of five rows by the minute of the day, and the      *)
(* countdown ends where its row ends.                                      *)
(***************************************************************************)

\* The minute m of the day d, as the market counts them.
Moment(t, d, m) == t + EtOffset(t) = 1440 * d + m /\ 0 <= m /\ m < 1440

\* A number of minutes is so many whole days and a minute of the day.
LEMMA DayAndMinute ==
  ASSUME NEW x \in Int
  PROVE  x \div 1440 \in Int /\ x % 1440 \in 0..1439 /\ x = 1440 * (x \div 1440) + (x % 1440)
<1>1. x \div 1440 \in Int /\ x % 1440 \in 0..1439
  BY SMT
<1>2. x = 1440 * (x \div 1440) + (x % 1440)
  BY Z3
<1> QED
  BY <1>1, <1>2

\* The day and the minute in New York of any instant, and the hour between.
LEMMA Clock ==
  ASSUME NEW t \in Int
  PROVE  /\ EtOffset(t) \in Int /\ EtOffset(t) \in {0, 60} /\ EtDay(t) \in Int
         /\ EtMinutes(t) \in Int /\ 0 <= EtMinutes(t) /\ EtMinutes(t) < 1440
         /\ t + EtOffset(t) = 1440 * EtDay(t) + EtMinutes(t)
<1>1. EtOffset(t) \in {0, 60} /\ EtOffset(t) \in Int
  BY DEF EtOffset
<1> DEFINE x == t + EtOffset(t)
<1>2. x \in Int
  BY <1>1
<1>4. EtDay(t) = x \div 1440 /\ EtMinutes(t) = x % 1440
  BY DEF EtDay, EtMinutes, DayLength
<1> HIDE DEF x
<1>3. x \div 1440 \in Int /\ x % 1440 \in 0..1439 /\ x = 1440 * (x \div 1440) + (x % 1440)
  BY <1>2, DayAndMinute
<1>5. EtDay(t) \in Int /\ EtMinutes(t) \in Int /\ 0 <= EtMinutes(t) /\ EtMinutes(t) < 1440 /\ x = 1440 * EtDay(t) + EtMinutes(t)
  BY <1>3, <1>4
<1> QED
  BY <1>1, <1>5 DEF x

\* What is assumed of the constants: the clocks change on a Sunday and the sign
\* is computed again within a quarter of an hour.
LEMMA Change == ClockChange \in Int /\ ClockChange % 7 = 6 /\ TickLength \in Int /\ 0 < TickLength /\ TickLength <= 15
  BY HoursAssumption DEF HoursAssumption

\* A moment and the day and minute of it, the offset being known.
LEMMA DayIs ==
  ASSUME NEW t \in Int, NEW d \in Int, NEW m \in Int, Moment(t, d, m)
  PROVE  EtDay(t) = d /\ EtMinutes(t) = m
<1> DEFINE e == EtDay(t)
           n == EtMinutes(t)
<1>1. /\ e \in Int /\ n \in Int /\ 0 <= n /\ n < 1440
      /\ 1440 * d + m = 1440 * e + n /\ 0 <= m /\ m < 1440
  BY Clock DEF Moment
<1> HIDE DEF e, n
<1>2. e = d /\ n = m
  BY <1>1
<1> QED
  BY <1>2 DEF e, n

\* The change, told without the offset.
LEMMA OffsetIs ==
  ASSUME NEW t \in Int
  PROVE  /\ EtOffset(t) = 60 <=> t >= 1440 * ClockChange + 120
         /\ EtOffset(t) = 0 <=> t < 1440 * ClockChange + 120
<1>1. ClockChange * DayLength + 120 = 1440 * ClockChange + 120
  BY Change DEF DayLength
<1>2. 1440 * ClockChange + 120 \in Int
  BY Change
<1> QED
  BY <1>1, <1>2 DEF EtOffset

\* On a trading day before another the clocks do not change until the end of
\* the second.
LEMMA ClocksStand ==
  ASSUME NEW t \in Int, IsTradingDay(EtDay(t)), IsTradingDay(EtDay(t) + 1),
         NEW u \in Int, t <= u, u <= t + 1440
  PROVE  EtOffset(u) = EtOffset(t)
<1> DEFINE d == EtDay(t)
           m == EtMinutes(t)
<1>0. d \in Int /\ m \in Int /\ 0 <= m /\ m < 1440 /\ t + EtOffset(t) = 1440 * d + m
  BY Clock
<1>1. d % 7 < 5 /\ (d + 1) % 7 < 5
  BY DEF IsTradingDay
<1> HIDE DEF d, m
<1>2. CASE t >= 1440 * ClockChange + 120
  <2>2. u >= 1440 * ClockChange + 120
    BY <1>2, Change
  <2> QED
    BY <1>2, <2>2, OffsetIs
<1>3. CASE t < 1440 * ClockChange + 120
  <2>1. t = 1440 * d + m
    BY <1>0, <1>3, OffsetIs
  <2>3. d <= ClockChange
    BY <1>0, <1>3, <2>1, Change
  <2>4. d # ClockChange /\ d + 1 # ClockChange
    BY <1>0, <1>1, Change
  <2>5. d + 2 <= ClockChange
    BY <1>0, <2>3, <2>4, Change
  <2>6. u < 1440 * ClockChange + 120
    BY <1>0, <2>1, <2>5, Change
  <2> QED
    BY <1>3, <2>6, OffsetIs
<1> QED
  BY <1>2, <1>3, Change

\* A day ago, in minutes since the epoch, is the day before in New York, as far
\* as the sign asks.
LEMMA Yesterday ==
  ASSUME NEW t \in Int, EtDay(t) % 7 < 5
  PROVE  IsTradingDay(EtDay(t - DayLength)) <=> IsTradingDay(EtDay(t) - 1)
<1> DEFINE d == EtDay(t)
           m == EtMinutes(t)
           u == t - 1440
           e == EtDay(u)
           n == EtMinutes(u)
<1>0. /\ d \in Int /\ m \in Int /\ 0 <= m /\ m < 1440 /\ t + EtOffset(t) = 1440 * d + m
      /\ u \in Int /\ t - DayLength = u
      /\ e \in Int /\ n \in Int /\ 0 <= n /\ n < 1440 /\ u + EtOffset(u) = 1440 * e + n
      /\ EtOffset(u) \in {0, 60} /\ EtOffset(t) \in {0, 60} /\ t = u + 1440 /\ d % 7 < 5
  BY Clock DEF DayLength
<1>a. (EtOffset(t) = 60 <=> t >= 1440 * ClockChange + 120) /\ (EtOffset(u) = 60 <=> u >= 1440 * ClockChange + 120)
      /\ ClockChange \in Int /\ ClockChange % 7 = 6
  BY <1>0, OffsetIs, Change
<1>b. (IsTradingDay(e) <=> IsTradingDay(d - 1)) => IsTradingDay(EtDay(t - DayLength)) <=> IsTradingDay(EtDay(t) - 1)
  BY <1>0
<1> HIDE DEF d, m, u, e, n
<1>1. CASE EtOffset(u) = EtOffset(t)
  <2>1. 1440 * d + m = 1440 * e + n + 1440
    BY <1>0, <1>1
  <2>2. e = d - 1
    BY <1>0, <2>1
  <2> QED
    BY <2>2, <1>b
<1>2. CASE EtOffset(u) # EtOffset(t)
  <2>1. EtOffset(t) = 60 /\ EtOffset(u) = 0
    BY <1>0, <1>a, <1>2
  <2>2. t + 60 = 1440 * d + m /\ t - 1440 = 1440 * e + n
        /\ t >= 1440 * ClockChange + 120 /\ t - 1440 < 1440 * ClockChange + 120
    BY <1>0, <1>a, <2>1
  <2>3. d = ClockChange \/ d = ClockChange + 1
    BY <1>0, <1>a, <2>2
  <2>4. d = ClockChange + 1
    BY <1>0, <1>a, <2>3
  <2>5. e = ClockChange \/ e = ClockChange - 1
    BY <1>0, <1>a, <2>2, <2>4
  <2>6. e % 7 = 6 \/ e % 7 = 5
    BY <1>a, <2>5
  <2>7. ~IsTradingDay(e)
    BY <2>6 DEF IsTradingDay
  <2>8. (d - 1) % 7 = 6
    BY <1>a, <2>4
  <2>9. ~IsTradingDay(d - 1)
    BY <2>8 DEF IsTradingDay
  <2> QED
    BY <1>b, <2>7, <2>9
<1> QED
  BY <1>1, <1>2

\* Before a trading day the next one is tomorrow.
LEMMA TomorrowIsNext ==
  ASSUME NEW t \in Int, IsTradingDay(EtDay(t)), IsTradingDay(EtDay(t) + 1)
  PROVE  NextTradingDay(t) = 1
<1> DEFINE ahead == {n \in 1 .. 8 : IsTradingDay(EtDay(t + n * DayLength))}
           u == t + 1440
<1>1. EtOffset(u) = EtOffset(t)
  <2>1. u \in Int /\ t <= u /\ u <= t + 1440
    OBVIOUS
  <2> HIDE DEF u
  <2> QED
    BY <2>1, ClocksStand
<1>2. /\ EtDay(t) \in Int /\ EtMinutes(t) \in Int /\ 0 <= EtMinutes(t) /\ EtMinutes(t) < 1440
      /\ t + EtOffset(t) = 1440 * EtDay(t) + EtMinutes(t) /\ EtOffset(t) \in Int /\ u \in Int
  BY Clock
<1>3. EtDay(u) = EtDay(t) + 1
  <2>1. u + EtOffset(u) = 1440 * (EtDay(t) + 1) + EtMinutes(t) /\ EtDay(t) + 1 \in Int
    <3> DEFINE d == EtDay(t)
               m == EtMinutes(t)
               o == EtOffset(t)
    <3>1. d \in Int /\ m \in Int /\ o \in Int /\ t + o = 1440 * d + m
      BY <1>2
    <3> HIDE DEF d, m, o
    <3>2. t + 1440 + o = 1440 * (d + 1) + m /\ d + 1 \in Int
      BY <3>1
    <3> QED
      BY <1>1, <3>2 DEF d, m, o
  <2> HIDE DEF u
  <2> QED
    BY <1>2, <2>1, DayIs DEF Moment
<1>4. 1 \in ahead
  <2>1. t + 1 * DayLength = u
    BY DEF DayLength
  <2> HIDE DEF u
  <2> QED
    BY <1>3, <2>1
<1>5. \A n \in ahead : n \in Int /\ 1 <= n
  OBVIOUS
<1>6. NextTradingDay(t) = IF ahead = {} THEN 1 ELSE Min(ahead)
  BY DEF NextTradingDay
<1> HIDE DEF ahead
<1>7. Min(ahead) = 1
  BY <1>4, <1>5 DEF Min
<1> QED
  BY <1>4, <1>6, <1>7

\* An instant of the day, in the minutes since the midnight before t.
LEMMA TodayAt ==
  ASSUME NEW t \in Int, NEW k \in Int, NEW m \in Int, EtMinutes(t) = m
  PROVE  InstantAt(t, k, 0) = t - m + k
<1>1. PICK d \in Int : d = EtDay(t)
  BY Clock
<1>2. PICK o \in Int : o = EtOffset(t)
  BY Clock
<1>3. t + o = 1440 * d + m
  BY <1>1, <1>2, Clock
<1>4. InstantAt(t, k, 0) = (d + 0) * 1440 + k - o
  BY <1>1, <1>2 DEF InstantAt, DayLength
<1> QED
  BY <1>3, <1>4

\* An instant of the next day, likewise.
LEMMA TomorrowAt ==
  ASSUME NEW t \in Int, NEW k \in Int, NEW m \in Int, EtMinutes(t) = m
  PROVE  InstantAt(t, k, 1) = t - m + k + 1440
<1>1. PICK d \in Int : d = EtDay(t)
  BY Clock
<1>2. PICK o \in Int : o = EtOffset(t)
  BY Clock
<1>3. t + o = 1440 * d + m
  BY <1>1, <1>2, Clock
<1>4. InstantAt(t, k, 1) = (d + 1) * 1440 + k - o
  BY <1>1, <1>2 DEF InstantAt, DayLength
<1> QED
  BY <1>3, <1>4

\* The hours of the day in minutes.
LEMMA Hours ==
  /\ DayLength = 1440 /\ GthOpen = 1215 /\ GthClose = 555 /\ RthOpen = 570
  /\ RthCloseFull = 975 /\ RthCloseEarly = 795
  BY DEF DayLength, GthOpen, GthClose, RthOpen, RthCloseFull, RthCloseEarly

\* A session closes at one of two times.
LEMMA Closing ==
  ASSUME NEW day
  PROVE  RthClose(day) \in {795, 975} /\ RthClose(day) \in Int
  BY Hours DEF RthClose

\* The sign at the minute m of a trading day that closes at r.
IsOpen(t, until) == MarketState(t).openNow = TRUE /\ MarketState(t).until = until
IsShut(t, until) == MarketState(t).openNow = FALSE /\ MarketState(t).until = until
Trades(t) == MarketState(t).openNow = TRUE
Rests(t) == MarketState(t).openNow = FALSE

\* The sign at the minute m of a trading day that closes at r: one of five
\* rows.
LEMMA SignAt ==
  ASSUME NEW t \in Int, NEW d \in Int, NEW m \in Int, Moment(t, d, m), IsTradingDay(d),
         NEW r \in Int, r = RthClose(d)
  PROVE  /\ IsTradingDay(d - 1) /\ m < 555 => IsOpen(t, t - m + 555)
         /\ (~IsTradingDay(d - 1) \/ m >= 555) /\ m < 570 => IsShut(t, t - m + 570)
         /\ m >= 570 /\ m < r => IsOpen(t, t - m + r)
         /\ m >= r /\ m < 1215 => IsShut(t, t - m + 1215)
         /\ m >= 1215 /\ IsTradingDay(d + 1) => IsOpen(t, t - m + 1995)
<1> DEFINE day == EtDay(t)
           minutes == EtMinutes(t)
           n == NextTradingDay(t)
           after == IsTradingDay(EtDay(t - DayLength))
           regular == IsTradingDay(day) /\ minutes >= RthOpen /\ minutes < RthClose(day)
           morning == IsTradingDay(day) /\ after /\ minutes < GthClose
           evening == IsTradingDay(day) /\ minutes >= GthOpen
           before == IsTradingDay(day) /\ ~(after /\ minutes < GthClose) /\ minutes < RthOpen
           resting == IsTradingDay(day) /\ minutes >= RthClose(day) /\ minutes < GthOpen
           eve == InstantAt(t, GthOpen, n - 1)
           s1 == Sign("Regular", TRUE, InstantAt(t, RthClose(day), 0))
           s2 == Sign("Global", TRUE, InstantAt(t, GthClose, 0))
           s3 == Sign("Global", TRUE, InstantAt(t, GthClose, n))
           s4 == Sign("Pre-open", FALSE, InstantAt(t, RthOpen, 0))
           s5 == Sign("Closed", FALSE, InstantAt(t, GthOpen, 0))
           s6 == Sign(IF day \in FullHolidays THEN "Holiday" ELSE "Closed", FALSE,
                      IF eve > t THEN eve ELSE InstantAt(t, RthOpen, n))
<1>1. MarketState(t) = CASE regular -> s1 [] morning -> s2 [] evening -> s3
                         [] before -> s4 [] resting -> s5 [] OTHER -> s6
  BY Zenon DEF MarketState
<1>2. day = d /\ minutes = m
  BY DayIs
<1>3. IsTradingDay(day) /\ RthClose(day) = r /\ r \in {795, 975}
  BY <1>2, Closing
<1>4. after <=> IsTradingDay(d - 1)
  <2>1. d % 7 < 5 /\ EtDay(t) % 7 < 5
    BY <1>2 DEF IsTradingDay
  <2>2. IsTradingDay(EtDay(t) - 1) <=> IsTradingDay(d - 1)
    BY <1>2, Zenon
  <2> QED
    BY <2>1, <2>2, Yesterday
<1>5. /\ regular <=> m >= 570 /\ m < r
      /\ morning <=> after /\ m < 555
      /\ evening <=> m >= 1215
      /\ before <=> ~(after /\ m < 555) /\ m < 570
      /\ resting <=> m >= r /\ m < 1215
  BY <1>2, <1>3, Hours
<1>6. /\ s1.openNow = TRUE /\ s1.until = t - m + r
      /\ s2.openNow = TRUE /\ s2.until = t - m + 555
      /\ s4.openNow = FALSE /\ s4.until = t - m + 570
      /\ s5.openNow = FALSE /\ s5.until = t - m + 1215
  <2>1. \A k \in Int : InstantAt(t, k, 0) = t - m + k
    BY <1>2, TodayAt
  <2> QED
    BY <1>3, <2>1, Hours DEF Sign
<1>7. IsTradingDay(d + 1) => s3.openNow = TRUE /\ s3.until = t - m + 1995
  <2> SUFFICES ASSUME IsTradingDay(d + 1) PROVE s3.openNow = TRUE /\ s3.until = t - m + 1995
    OBVIOUS
  <2>1. IsTradingDay(EtDay(t)) /\ IsTradingDay(EtDay(t) + 1)
    BY <1>2, Zenon
  <2>2. n = 1
    BY <2>1, TomorrowIsNext
  <2>3. InstantAt(t, 555, 1) = t - m + 1995
    <3>1. EtMinutes(t) = m
      BY <1>2
    <3>2. PICK k \in Int : k = 555
      OBVIOUS
    <3>3. InstantAt(t, k, 1) = t - m + k + 1440
      BY <3>1, TomorrowAt
    <3> QED
      BY <3>2, <3>3
  <2> QED
    BY <2>2, <2>3, Hours DEF Sign
<1> HIDE DEF regular, morning, evening, before, resting, s1, s2, s3, s4, s5, s6, after
<1>8. ASSUME IsTradingDay(d - 1), m < 555
      PROVE  IsOpen(t, t - m + 555)
  <2>1. ~regular /\ morning /\ ~evening /\ ~before /\ ~resting
    BY <1>3, <1>4, <1>5, <1>8
  <2>2. MarketState(t) = s2
    BY <1>1, <2>1, Zenon
  <2> QED
    BY <1>6, <2>2 DEF IsOpen
<1>9. ASSUME ~IsTradingDay(d - 1) \/ m >= 555, m < 570
      PROVE  IsShut(t, t - m + 570)
  <2>1. ~regular /\ ~morning /\ ~evening /\ before /\ ~resting
    BY <1>3, <1>4, <1>5, <1>9
  <2>2. MarketState(t) = s4
    BY <1>1, <2>1, Zenon
  <2> QED
    BY <1>6, <2>2 DEF IsShut
<1>10. ASSUME m >= 570, m < r
       PROVE  IsOpen(t, t - m + r)
  <2>1. regular /\ ~morning /\ ~evening /\ ~before /\ ~resting
    BY <1>3, <1>4, <1>5, <1>10
  <2>2. MarketState(t) = s1
    BY <1>1, <2>1, Zenon
  <2> QED
    BY <1>6, <2>2 DEF IsOpen
<1>11. ASSUME m >= r, m < 1215
       PROVE  IsShut(t, t - m + 1215)
  <2>1. ~regular /\ ~morning /\ ~evening /\ ~before /\ resting
    BY <1>3, <1>4, <1>5, <1>11
  <2>2. MarketState(t) = s5
    BY <1>1, <2>1, Zenon
  <2> QED
    BY <1>6, <2>2 DEF IsShut
<1>12. ASSUME m >= 1215, IsTradingDay(d + 1)
       PROVE  IsOpen(t, t - m + 1995)
  <2>1. ~regular /\ ~morning /\ evening /\ ~before /\ ~resting
    BY <1>3, <1>4, <1>5, <1>12
  <2>2. MarketState(t) = s3
    BY <1>1, <2>1, Zenon
  <2> QED
    BY <1>7, <1>12, <2>2 DEF IsOpen
<1> QED
  BY <1>8, <1>9, <1>10, <1>11, <1>12

\* What a countdown owes, in terms of the two signs.
KeptBy(t, u) ==
  /\ MarketState(t).until > t
  /\ IF MarketState(t).until > u
     THEN MarketState(u).openNow = MarketState(t).openNow /\ MarketState(u).until = MarketState(t).until
     ELSE MarketState(u).openNow # MarketState(t).openNow

\* Open now and, with the same end, at the next tick.
LEMMA OpenLasts ==
  ASSUME NEW t \in Int, NEW u \in Int, NEW until \in Int,
         u = t + TickLength, IsOpen(t, until), until > t, until > u, IsOpen(u, until)
  PROVE  CountdownKept(t)
<1>1. u = t + TickLength => (KeptBy(t, u) => CountdownKept(t))
  BY Zenon DEF CountdownKept, KeptBy
<1> QED
  BY <1>1 DEF IsOpen, KeptBy, Rests

\* Open now and closed once the end is reached.
LEMMA OpenEnds ==
  ASSUME NEW t \in Int, NEW u \in Int, NEW until \in Int,
         u = t + TickLength, IsOpen(t, until), until > t, until <= u, Rests(u)
  PROVE  CountdownKept(t)
<1>1. u = t + TickLength => (KeptBy(t, u) => CountdownKept(t))
  BY Zenon DEF CountdownKept, KeptBy
<1> QED
  BY <1>1 DEF IsOpen, KeptBy, Rests

\* Closed now and, with the same end, at the next tick.
LEMMA ShutLasts ==
  ASSUME NEW t \in Int, NEW u \in Int, NEW until \in Int,
         u = t + TickLength, IsShut(t, until), until > t, until > u, IsShut(u, until)
  PROVE  CountdownKept(t)
<1>1. u = t + TickLength => (KeptBy(t, u) => CountdownKept(t))
  BY Zenon DEF CountdownKept, KeptBy
<1> QED
  BY <1>1 DEF IsShut, KeptBy, Trades

\* Closed now and open once the end is reached.
LEMMA ShutEnds ==
  ASSUME NEW t \in Int, NEW u \in Int, NEW until \in Int,
         u = t + TickLength, IsShut(t, until), until > t, until <= u, Trades(u)
  PROVE  CountdownKept(t)
<1>1. u = t + TickLength => (KeptBy(t, u) => CountdownKept(t))
  BY Zenon DEF CountdownKept, KeptBy
<1> QED
  BY <1>1 DEF IsShut, KeptBy, Trades

\* Both ticks on one day: a row lasts, or the next row follows its end.
LEMMA SameDay ==
  ASSUME NEW t \in Int, NEW u \in Int, NEW d \in Int, NEW m \in Int, NEW n \in Int, NEW r \in Int,
         NEW k \in Int, k = TickLength, u = t + k, n = m + k, 0 < k, k <= 15, r \in {795, 975},
         Moment(t, d, m), Moment(u, d, n), IsTradingDay(d), IsTradingDay(d + 1), r = RthClose(d)
  PROVE  CountdownKept(t)
<1> DEFINE p == IsTradingDay(d - 1)
<1>0. u = t + TickLength
  OBVIOUS
<1>1. 0 <= m /\ m < 1440 /\ u - n = t - m
  BY DEF Moment
<1>2. /\ p /\ m < 555 => IsOpen(t, t - m + 555)
      /\ (~p \/ m >= 555) /\ m < 570 => IsShut(t, t - m + 570)
      /\ m >= 570 /\ m < r => IsOpen(t, t - m + r)
      /\ m >= r /\ m < 1215 => IsShut(t, t - m + 1215)
      /\ m >= 1215 => IsOpen(t, t - m + 1995)
  BY SignAt
<1>3. /\ p /\ n < 555 => IsOpen(u, u - n + 555)
      /\ (~p \/ n >= 555) /\ n < 570 => IsShut(u, u - n + 570)
      /\ n >= 570 /\ n < r => IsOpen(u, u - n + r)
      /\ n >= r /\ n < 1215 => IsShut(u, u - n + 1215)
      /\ n >= 1215 => IsOpen(u, u - n + 1995)
  BY SignAt
<1>4. /\ IsOpen(u, u - n + 555) => IsOpen(u, t - m + 555) /\ Trades(u)
      /\ IsShut(u, u - n + 570) => IsShut(u, t - m + 570) /\ Rests(u)
      /\ IsOpen(u, u - n + r) => IsOpen(u, t - m + r) /\ Trades(u)
      /\ IsShut(u, u - n + 1215) => IsShut(u, t - m + 1215) /\ Rests(u)
      /\ IsOpen(u, u - n + 1995) => IsOpen(u, t - m + 1995) /\ Trades(u)
  BY <1>1 DEF IsOpen, IsShut, Trades, Rests
<1> HIDE DEF p
<1>5. CASE p /\ m < 555
  <2>1. PICK until \in Int : until = t - m + 555
    OBVIOUS
  <2>2. IsOpen(t, until) /\ until > t
    BY <1>1, <1>2, <1>5, <2>1
  <2>3. until > u => IsOpen(u, until)
    BY <1>1, <1>3, <1>4, <1>5, <2>1
  <2>4. until <= u => Rests(u)
    BY <1>1, <1>3, <1>4, <1>5, <2>1
  <2>5. CASE until > u
    BY <1>0, <2>2, <2>3, <2>5, OpenLasts
  <2>6. CASE until <= u
    BY <1>0, <2>2, <2>4, <2>6, OpenEnds
  <2> QED
    BY <2>5, <2>6
<1>6. CASE (~p \/ m >= 555) /\ m < 570
  <2>1. PICK until \in Int : until = t - m + 570
    OBVIOUS
  <2>2. IsShut(t, until) /\ until > t
    BY <1>1, <1>2, <1>6, <2>1
  <2>3. until > u => IsShut(u, until)
    BY <1>1, <1>3, <1>4, <1>6, <2>1
  <2>4. until <= u => Trades(u)
    BY <1>1, <1>3, <1>4, <1>6, <2>1
  <2>5. CASE until > u
    BY <1>0, <2>2, <2>3, <2>5, ShutLasts
  <2>6. CASE until <= u
    BY <1>0, <2>2, <2>4, <2>6, ShutEnds
  <2> QED
    BY <2>5, <2>6
<1>7. CASE m >= 570 /\ m < r
  <2>1. PICK until \in Int : until = t - m + r
    OBVIOUS
  <2>2. IsOpen(t, until) /\ until > t
    BY <1>1, <1>2, <1>7, <2>1
  <2>3. until > u => IsOpen(u, until)
    BY <1>1, <1>3, <1>4, <1>7, <2>1
  <2>4. until <= u => Rests(u)
    BY <1>1, <1>3, <1>4, <1>7, <2>1
  <2>5. CASE until > u
    BY <1>0, <2>2, <2>3, <2>5, OpenLasts
  <2>6. CASE until <= u
    BY <1>0, <2>2, <2>4, <2>6, OpenEnds
  <2> QED
    BY <2>5, <2>6
<1>8. CASE m >= r /\ m < 1215
  <2>1. PICK until \in Int : until = t - m + 1215
    OBVIOUS
  <2>2. IsShut(t, until) /\ until > t
    BY <1>1, <1>2, <1>8, <2>1
  <2>3. until > u => IsShut(u, until)
    BY <1>1, <1>3, <1>4, <1>8, <2>1
  <2>4. until <= u => Trades(u)
    BY <1>1, <1>3, <1>4, <1>8, <2>1
  <2>5. CASE until > u
    BY <1>0, <2>2, <2>3, <2>5, ShutLasts
  <2>6. CASE until <= u
    BY <1>0, <2>2, <2>4, <2>6, ShutEnds
  <2> QED
    BY <2>5, <2>6
<1>9. CASE m >= 1215
  <2>1. PICK until \in Int : until = t - m + 1995
    OBVIOUS
  <2>2. IsOpen(t, until) /\ until > t
    BY <1>1, <1>2, <1>9, <2>1
  <2>3. until > u => IsOpen(u, until)
    BY <1>1, <1>3, <1>4, <1>9, <2>1
  <2>4. until <= u => Rests(u)
    BY <1>1, <1>3, <1>4, <1>9, <2>1
  <2>5. CASE until > u
    BY <1>0, <2>2, <2>3, <2>5, OpenLasts
  <2>6. CASE until <= u
    BY <1>0, <2>2, <2>4, <2>6, OpenEnds
  <2> QED
    BY <2>5, <2>6
<1> QED
  BY <1>1, <1>5, <1>6, <1>7, <1>8, <1>9

\* A tick across midnight: the session of the night goes on.
LEMMA NextDay ==
  ASSUME NEW t \in Int, NEW u \in Int, NEW d \in Int, NEW e \in Int, NEW m \in Int, NEW n \in Int,
         NEW k \in Int, k = TickLength, u = t + k, n = m + k - 1440, 0 < k, k <= 15, e = d + 1,
         Moment(t, d, m), Moment(u, e, n), IsTradingDay(d), IsTradingDay(e)
  PROVE  CountdownKept(t)
<1>1. 0 <= n /\ m < 1440 /\ u - n + 555 = t - m + 1995 /\ m >= 1215 /\ n < 555
  BY DEF Moment
<1>2. IsTradingDay(d + 1) /\ IsTradingDay(e - 1)
  <2>1. d + 1 = e /\ e - 1 = d
    OBVIOUS
  <2> QED
    BY <2>1
<1>3. IsOpen(t, t - m + 1995)
  <2>1. PICK r \in Int : r = RthClose(d)
    BY Closing
  <2> QED
    BY <1>1, <1>2, <2>1, SignAt
<1>4. IsOpen(u, u - n + 555)
  <2>1. PICK r \in Int : r = RthClose(e)
    BY Closing
  <2> QED
    BY <1>1, <1>2, <2>1, SignAt
<1>5. PICK until \in Int : until = t - m + 1995
  OBVIOUS
<1>6. IsOpen(t, until) /\ IsOpen(u, until) /\ until > t /\ ~(until <= u)
  BY <1>1, <1>3, <1>4, <1>5
<1> QED
  <2>1. u = t + TickLength /\ until > u
    BY <1>6
  <2> QED
    BY <1>6, <2>1, OpenLasts

\* Every instant on a trading day before another.
LEMMA Kept ==
  ASSUME NEW t \in Int, IsTradingDay(EtDay(t)), IsTradingDay(EtDay(t) + 1)
  PROVE  CountdownKept(t)
<1>1. PICK d \in Int : d = EtDay(t)
  BY Clock
<1>2. PICK m \in Int : m = EtMinutes(t)
  BY Clock
<1>3. PICK k \in Int : k = TickLength
  BY Change
<1>4. PICK u \in Int : u = t + k
  OBVIOUS
<1>5. PICK o \in Int : o = EtOffset(t)
  BY Clock
<1>6. Moment(t, d, m) /\ IsTradingDay(d) /\ IsTradingDay(d + 1) /\ 0 <= m /\ m < 1440 /\ t + o = 1440 * d + m
  BY <1>1, <1>2, <1>5, Clock DEF Moment
<1>7. t <= u /\ u <= t + 1440 /\ 0 < k /\ k <= 15
  BY <1>3, <1>4, Change
<1>8. EtOffset(u) = o
  BY <1>5, <1>7, ClocksStand
<1>9. PICK r \in {795, 975} : r = RthClose(d)
  BY Closing
<1>10. CASE m + k < 1440
  <2>1. PICK n \in Int : n = m + k
    OBVIOUS
  <2>2. Moment(u, d, n)
    BY <1>4, <1>6, <1>7, <1>8, <1>10, <2>1 DEF Moment
  <2> QED
    BY <1>3, <1>4, <1>6, <1>7, <1>9, <2>1, <2>2, SameDay
<1>11. CASE m + k >= 1440
  <2>1. PICK n \in Int : n = m + k - 1440
    OBVIOUS
  <2>2. PICK e \in Int : e = d + 1
    OBVIOUS
  <2>3. Moment(u, e, n) /\ IsTradingDay(e)
    BY <1>4, <1>6, <1>7, <1>8, <1>11, <2>1, <2>2 DEF Moment
  <2> QED
    BY <1>3, <1>4, <1>6, <1>7, <2>1, <2>2, <2>3, NextDay
<1> QED
  BY <1>10, <1>11

\* On a trading day before another, however long the clock has run, the end the
\* market sign counts down to is ahead, stays put until it is reached and is
\* then when the market opens or closes (marketState of
\* frontend/lib/market.ts).
THEOREM SignHolds == HoursSpec => []SignIsKept
<1>1. HoursInit => minute \in Int
  BY DEF HoursInit
<1>2. minute \in Int /\ [HoursNext]_hoursVars => (minute \in Int)'
  BY Change DEF HoursNext, hoursVars
<1>3. minute \in Int => SignIsKept
  BY Kept DEF SignIsKept
<1> QED
  BY <1>1, <1>2, <1>3, PTL DEF HoursSpec

-----------------------------------------------------------------------------
(***************************************************************************)
(* The legs of the pay-off panel. Every action that changes what the book  *)
(* is computed from renders it again, so it is always what a render of the *)
(* present state computes; what a render does with the ticks is then a     *)
(* fact about one render.                                                  *)
(***************************************************************************)

\* A render shows the ticked legs, unless a filter lost all that was ticked.
LEMMA RenderShows ==
  ASSUME NEW at, NEW entries, NEW typed, NEW mode, NEW ticks,
         NEW render, render = Render(entries, at, ticks, typed, mode),
         \A dim \in Dims : ~StaleIn(ticks, dim, render.options[dim])
  PROVE  render.legs = {l \in render.all : \A dim \in Dims : Ticked(ticks, dim, l)}
<1> DEFINE inside == InCurrency(entries, CurrencyRank(entries, at))
           all == PreparedLegs(inside, at)
           options == [dim \in Dims |-> OptionsFor(all, ticks, dim)]
           chosenOf == [dim \in Dims |-> SelectedOf(ticks, dim, options[dim])]
           namesOf == {UnderlyingKey(l.position) : l \in {k \in all : \A dim \in Dims : Ticked(ticks, dim, k)}}
           filtered == Filtered(inside, all, options, ticks)
<1>1. filtered = [scoped |-> inside, all |-> all, options |-> options, selected |-> chosenOf, names |-> namesOf,
                  legs |-> {l \in all : /\ \A dim \in Dims : DimOf(dim, l) \in chosenOf[dim]
                                        /\ UnderlyingKey(l.position) \in namesOf},
                  assumptions |-> <<>>]
  BY DEF Filtered
<1>2. render = Assumed(filtered, typed, mode)
  BY DEF Render, InScope, LegsOfRender
<1>3. render.all = filtered.all /\ render.options = filtered.options /\ render.legs = filtered.legs
  <2> HIDE DEF filtered
  <2>1. render = [filtered EXCEPT !.assumptions =
                   [key \in {UnderlyingKey(l.position) : l \in filtered.legs} |->
                      Assumption(filtered.legs, key, typed, mode)]]
    BY <1>2 DEF Assumed
  <2>2. filtered.all = all /\ DOMAIN filtered = {"scoped", "all", "options", "selected", "names", "legs", "assumptions"}
    BY <1>1
  <2> QED
    BY <2>1, <2>2
<1> HIDE DEF inside
<1>4. /\ render.all = all /\ render.options = options
      /\ render.legs = {l \in all : /\ \A dim \in Dims : DimOf(dim, l) \in chosenOf[dim]
                                    /\ UnderlyingKey(l.position) \in namesOf}
  BY <1>1, <1>3
<1> HIDE DEF all, filtered
<1>5. ASSUME NEW l \in all, \A dim \in Dims : Ticked(ticks, dim, l)
      PROVE  l \in render.legs
  <2>1. ASSUME NEW dim \in Dims
        PROVE  DimOf(dim, l) \in chosenOf[dim]
    <3>1. DimOf(dim, l) \in options[dim]
      BY <1>5, <2>1 DEF OptionsFor
    <3>2. ~StaleIn(ticks, dim, options[dim])
      BY <1>4, <2>1
    <3>3. ticks[dim] = All \/ DimOf(dim, l) \in ticks[dim]
      BY <1>5, <2>1 DEF Ticked
    <3> HIDE DEF options
    <3> QED
      BY <2>1, <3>1, <3>2, <3>3 DEF SelectedOf
  <2>2. UnderlyingKey(l.position) \in namesOf
    BY <1>5
  <2> QED
    BY <1>4, <2>1, <2>2
<1>6. ASSUME NEW l \in render.legs, NEW dim \in Dims
      PROVE  Ticked(ticks, dim, l)
  <2>1. DimOf(dim, l) \in chosenOf[dim]
    BY <1>4, <1>6
  <2>2. ~StaleIn(ticks, dim, options[dim])
    BY <1>4, <1>6
  <2> HIDE DEF options
  <2> QED
    BY <1>6, <2>1, <2>2 DEF SelectedOf, Ticked
<1>7. render.legs \subseteq all
  BY <1>4
<1> QED
  BY <1>4, <1>5, <1>6, <1>7

\* What the panel shows is what a render of its state computes.
BookIsFresh == book = Render(held, today, picked, overrides, shock)

\* Whatever moves renders the book again.
LEMMA BookStaysFresh == BookIsFresh /\ [RiskNext]_riskVars => BookIsFresh'
<1> SUFFICES ASSUME BookIsFresh, [RiskNext]_riskVars
             PROVE  BookIsFresh'
  OBVIOUS
<1>1. ASSUME NEW chosenNext, Effects(chosenNext)
      PROVE  BookIsFresh'
  BY <1>1 DEF Effects, BookIsFresh
<1>2. ASSUME UNCHANGED <<held, today, picked, overrides, shock, book>>
      PROVE  BookIsFresh'
  BY <1>2 DEF BookIsFresh
<1>3. CASE Toggle \/ SelectAll \/ Clear
  BY <1>1, <1>3 DEF Toggle, SelectAll, Clear, Pick
<1>4. CASE PickLens \/ PickAsset \/ PickExpiry
  BY <1>1, <1>4 DEF PickLens, PickAsset, PickExpiry, Look
<1>5. CASE ToggleCommissions \/ ToggleClosed \/ EditColumns
  BY <1>2, <1>5 DEF ToggleCommissions, ToggleClosed, EditColumns, Server, Inputs
<1>6. CASE Input
  BY <1>1, <1>6 DEF Input
<1>7. CASE PositionsChange \/ DayPasses \/ RealizedArrives
  BY <1>1, <1>7 DEF PositionsChange, DayPasses, RealizedArrives, Feed
<1>8. CASE UNCHANGED riskVars
  BY <1>2, <1>8 DEF riskVars
<1> QED
  BY <1>3, <1>4, <1>5, <1>6, <1>7, <1>8 DEF RiskNext

\* However rows come and go and whatever is ticked in between, a leg is shown
\* exactly when each filter has it ticked, unless a filter lost all that was
\* ticked in it (useCrossSelection of payoff-panel.tsx).
THEOREM TickedHolds == RiskSpec => []TickedIsShown
<1>1. RiskInit => BookIsFresh
  BY DEF RiskInit, BookIsFresh
<1>2. BookIsFresh => TickedIsShown
  BY RenderShows DEF BookIsFresh, TickedIsShown, Stale, Options, Legs, AllLegs
<1> QED
  BY <1>1, <1>2, BookStaysFresh, PTL DEF RiskSpec

-----------------------------------------------------------------------------
(***************************************************************************)
(* The estimate of the panel against the marks. The invariant is that the  *)
(* book is fresh, the held rows are of the pool and what the user typed    *)
(* are numbers. With it every figure on the way from a mark to an estimate *)
(* is a number, the price of an option given the volatility its own mark   *)
(* implies is the mark, and at its expiry the settlement value.            *)
(***************************************************************************)

Less == {pair \in Nat \X Nat : pair[1] < pair[2]}

\* Every set of natural numbers has a least one.
LEMMA LessIsWellFounded == IsWellFoundedOn(Less, Nat)
  BY NatLessThanWellFounded DEF OpToRel, Less
LEMMA HasLeast ==
  ASSUME NEW T, T \subseteq Nat, T # {}
  PROVE  \E least \in T : \A k \in T : least <= k
<1>1. PICK least \in T : \A k \in T : ~(<<k, least>> \in Less)
  BY LessIsWellFounded, WFMin
<1>2. ASSUME NEW k \in T PROVE least <= k
  <2>1. <<k, least>> \in Nat \X Nat /\ ~(<<k, least>> \in Less) /\ <<k, least>>[1] = k /\ <<k, least>>[2] = least
    BY <1>1
  <2> QED
    BY <2>1 DEF Less
<1> QED
  BY <1>2

\* The least and the greatest of a set of numbers, where there is one.
LEMMA MinIs ==
  ASSUME NEW T, T \subseteq Int, T # {}, NEW low \in Int, \A k \in T : low <= k
  PROVE  Min(T) \in T /\ \A k \in T : Min(T) <= k
<1> DEFINE up == {k - low : k \in T}
<1>1. \A k \in T : k \in Int /\ k - low \in Nat
  OBVIOUS
<1>2. up \subseteq Nat /\ up # {}
  BY <1>1
<1>3. PICK d \in up : \A k \in up : d <= k
  BY <1>2, HasLeast
<1>4. PICK least \in T : d = least - low
  OBVIOUS
<1>5. ASSUME NEW k \in T PROVE least <= k
  <2>1. k - low \in up
    OBVIOUS
  <2>2. least - low <= k - low
    BY <1>3, <1>4, <2>1
  <2> QED
    BY <1>1, <1>4, <2>2
<1> QED
  BY <1>5 DEF Min
LEMMA MaxIs ==
  ASSUME NEW T, T \subseteq Int, T # {}, NEW high \in Int, \A k \in T : k <= high
  PROVE  Max(T) \in T /\ \A k \in T : k <= Max(T)
<1> DEFINE down == {high - k : k \in T}
<1>1. \A k \in T : k \in Int /\ high - k \in Nat
  OBVIOUS
<1>2. down \subseteq Nat /\ down # {}
  BY <1>1
<1>3. PICK d \in down : \A k \in down : d <= k
  BY <1>2, HasLeast
<1>4. PICK most \in T : d = high - most
  OBVIOUS
<1>5. ASSUME NEW k \in T PROVE k <= most
  <2>1. high - k \in down
    OBVIOUS
  <2>2. high - most <= high - k
    BY <1>3, <1>4, <2>1
  <2> QED
    BY <1>1, <1>4, <2>2
<1> QED
  BY <1>5 DEF Max
LEMMA MaxOfTwo ==
  ASSUME NEW a \in Int, NEW b \in Int
  PROVE  Max({a, b}) = IF a >= b THEN a ELSE b
  BY DEF Max
LEMMA MinOfTwo ==
  ASSUME NEW a \in Int, NEW b \in Int
  PROVE  Min({a, b}) = IF a <= b THEN a ELSE b
  BY DEF Min

\* A value that may be missing, and what stands for it.
LEMMA DefaultIs ==
  ASSUME NEW n, NEW other
  PROVE  /\ n # {} => Default(n, other) \in n
         /\ n = {} => Default(n, other) = other
         /\ \A v : n = {v} => Default(n, other) = v
  BY DEF Default

\* The value of an option, of a leg and its profit are whole numbers.
LEMMA OptionIsNumber ==
  ASSUME NEW spot \in Int, NEW strike \in Int, NEW right, NEW d \in Int, NEW vol \in Int
  PROVE  OptionValue(spot, strike, right, d, vol) \in Int
<1>1. Intrinsic(spot, strike, right) \in Int
  BY MaxOfTwo DEF Intrinsic
<1>2. Max({spot - strike, strike - spot}) \in Nat
  BY MaxOfTwo
<1>3. vol * d \in Int
  OBVIOUS
<1>4. (vol * d) \div (1 + Max({spot - strike, strike - spot})) \in Int
  BY <1>2, <1>3
<1> QED
  BY <1>1, <1>4 DEF OptionValue

LEMMA ValueIsNumber ==
  ASSUME NEW leg, leg.strike \in Int, NEW spot \in Int, NEW d \in Int, NEW vol \in Int
  PROVE  ValueAt(leg, spot, d, vol) \in Int
  BY OptionIsNumber DEF ValueAt
LEMMA PnlIsNumber ==
  ASSUME NEW leg, leg.quantity \in Int, leg.multiplier \in Int, leg.cost \in Int, NEW v \in Int
  PROVE  PnlAt(leg, v) \in Int
  BY DEF PnlAt

\* What the scale multiplies it divides again.
LEMMA Whole ==
  ASSUME NEW g \in Int, NEW d \in Int, d > 0
  PROVE  (g * d) \div d = g /\ (g * 0) \div d = 0
  BY Z3
LEMMA Percent ==
  ASSUME NEW s \in Int
  PROVE  (s * 100) \div 100 = s
  BY Z3

\* The legs a render makes of positions of the pool, and what they carry.
LegOf(l, at) == \E p \in Pool : l = Leg(p, at) /\ ~Unusable(p, at)
LEMMA LegFields ==
  ASSUME NEW at \in Nat, NEW l, LegOf(l, at)
  PROVE  /\ l.quantity \in Int /\ l.cost \in Int /\ l.multiplier \in Int /\ l.strike \in Int
         /\ l.marked \subseteq Int /\ l.anchor \subseteq Int
         /\ l.position \in Pool
         /\ IsOption(l) => \E d \in Nat : l.days = {d}
         /\ ~IsOption(l) => l.days = {}
<1>1. PICK p \in Pool : l = Leg(p, at) /\ ~Unusable(p, at)
  BY DEF LegOf
<1>2. /\ p.quantity \in Int /\ p.multiplier \in Int /\ p.strike \in Int /\ p.expiry \in Int
      /\ p.cost \subseteq Int /\ p.price \subseteq Int /\ p.und \subseteq Int /\ p.unreal \subseteq Int
  BY RiskAssumption
<1>3. /\ l.position = p /\ l.quantity = p.quantity /\ l.cost = Default(p.cost, 0)
      /\ l.multiplier = MultiplierOf(p) /\ l.strike = p.strike
      /\ l.days = (IF p.type = "OPT" THEN {DaysToExpiry(p, at)} ELSE {})
      /\ l.marked = MarkedPnl(p) /\ l.anchor = (IF p.type = "STK" THEN p.price ELSE p.und)
  BY <1>1 DEF Leg
<1>4. l.cost \in Int
  BY <1>2, <1>3, DefaultIs
<1>5. l.multiplier \in Int
  BY <1>2, <1>3 DEF MultiplierOf
<1>6. l.marked \subseteq Int
  <2>1. \A price \in p.price : p.quantity * (price * MultiplierOf(p) - Default(p.cost, 0)) \in Int
    BY <1>2, <1>3, <1>4, <1>5
  <2> QED
    BY <1>2, <1>3, <2>1 DEF MarkedPnl
<1>7. IsOption(l) <=> p.type = "OPT"
  BY <1>3 DEF IsOption
<1>8. p.type = "OPT" => DaysToExpiry(p, at) \in Nat
  <2>1. p.type = "OPT" => ~(DaysToExpiry(p, at) < 0)
    BY <1>1, Zenon DEF Unusable
  <2> QED
    BY <1>2, <2>1 DEF DaysToExpiry
<1>9. IsOption(l) => \E d \in Nat : l.days = {d}
  BY <1>3, <1>7, <1>8
<1>10. ~IsOption(l) => l.days = {}
  BY <1>3, <1>7
<1> QED
  BY <1>2, <1>3, <1>4, <1>5, <1>6, <1>9, <1>10

Quoted(v) == \E p \in Pool : v \in p.price \cup p.und

\* The broker's price of an underlying is one whole number, where there is one,
\* and a figure of a position of the pool.
LEMMA SpotIs ==
  ASSUME NEW legs, \A l \in legs : l.position \in Pool, NEW key
  PROVE  BrokerSpot(legs, key) # {} => \E s \in Int : BrokerSpot(legs, key) = {s} /\ Quoted(s)
<1> DEFINE stocks == UNION {Positive(l.position.price) :
                              l \in {k \in LegsOf(legs, key) : ~IsOption(k)}}
           quotes == UNION {Positive(l.position.und) : l \in LegsOf(legs, key)}
           found == IF stocks # {} THEN stocks ELSE quotes
<1>1. stocks \subseteq Int /\ \A v \in stocks : 0 <= v /\ Quoted(v)
  <2>1. \A l \in LegsOf(legs, key) : l.position.price \subseteq Int
    BY RiskAssumption DEF LegsOf
  <2>2. \A v \in stocks : \E l \in LegsOf(legs, key) : v \in Positive(l.position.price)
    OBVIOUS
  <2>3. \A v \in stocks : \E l \in LegsOf(legs, key) : v \in l.position.price /\ v > 0
    BY <2>2 DEF Positive
  <2> HIDE DEF stocks
  <2>4. ASSUME NEW v \in stocks PROVE v \in Int /\ 0 <= v /\ Quoted(v)
    <3>1. PICK l \in LegsOf(legs, key) : v \in l.position.price /\ v > 0
      BY <2>3
    <3>2. v \in Int
      BY <2>1, <3>1
    <3>3. Quoted(v)
      BY <3>1 DEF LegsOf, Quoted
    <3> QED
      BY <3>1, <3>2, <3>3
  <2> QED
    BY <2>4
<1>2. quotes \subseteq Int /\ \A v \in quotes : 0 <= v /\ Quoted(v)
  <2>1. \A l \in LegsOf(legs, key) : l.position.und \subseteq Int
    BY RiskAssumption DEF LegsOf
  <2>2. \A v \in quotes : \E l \in LegsOf(legs, key) : v \in Positive(l.position.und)
    OBVIOUS
  <2>3. \A v \in quotes : \E l \in LegsOf(legs, key) : v \in l.position.und /\ v > 0
    BY <2>2 DEF Positive
  <2> HIDE DEF quotes
  <2>4. ASSUME NEW v \in quotes PROVE v \in Int /\ 0 <= v /\ Quoted(v)
    <3>1. PICK l \in LegsOf(legs, key) : v \in l.position.und /\ v > 0
      BY <2>3
    <3>2. v \in Int
      BY <2>1, <3>1
    <3>3. Quoted(v)
      BY <3>1 DEF LegsOf, Quoted
    <3> QED
      BY <3>1, <3>2, <3>3
  <2> QED
    BY <2>4
<1>3. found \subseteq Int /\ \A v \in found : 0 <= v /\ Quoted(v)
  BY <1>1, <1>2
<1>4. BrokerSpot(legs, key) = IF found = {} THEN {} ELSE {Min(found)}
  BY DEF BrokerSpot
<1>5. found # {} => Min(found) \in Int /\ Quoted(Min(found))
  <2> HIDE DEF found
  <2>1. 0 \in Int
    OBVIOUS
  <2>2. found # {} => Min(found) \in found
    BY <1>3, <2>1, MinIs
  <2> QED
    BY <1>3, <2>2
<1> QED
  BY <1>4, <1>5

\* A mark implies a volatility of the grid, and the marks of one underlying a
\* whole number between those they imply.
LEMMA LegVolIs ==
  ASSUME NEW at \in Nat, NEW l, LegOf(l, at)
  PROVE  LegVol(l) \subseteq 0..MaxVol
<1> DEFINE price == Default(l.position.price, 0)
           und == Default(l.position.und, 0)
           days_ == Default(l.days, 0)
           value(v) == OptionValue(und, l.strike, l.position.right, days_, v)
           under == {v \in 0..MaxVol : value(v) <= price}
<1>1. SUFFICES ASSUME LegVol(l) # {}
               PROVE  LegVol(l) \subseteq 0..MaxVol
  OBVIOUS
<1>2. /\ IsOption(l) /\ l.position.price # {} /\ Positive(l.position.und) # {}
      /\ LegVol(l) = ImpliedVolatility(price, und, l.strike, l.position.right, days_)
  BY <1>1 DEF LegVol
<1>3. ~(price < Intrinsic(und, l.strike, l.position.right)) /\ LegVol(l) = {Max(under)}
  BY <1>1, <1>2 DEF ImpliedVolatility
<1>4. l.position \in Pool /\ l.strike \in Int
  BY LegFields
<1>5. price \in Int
  BY <1>2, <1>4, DefaultIs, RiskAssumption
<1>6. und \in Int
  BY <1>4, DefaultIs, RiskAssumption
<1>7. Intrinsic(und, l.strike, l.position.right) \in Int
  BY <1>4, <1>6, MaxOfTwo DEF Intrinsic
<1>8. value(0) = Intrinsic(und, l.strike, l.position.right)
  <2>1. value(0) = Intrinsic(und, l.strike, l.position.right) + 0
    BY DEF OptionValue
  <2> QED
    BY <1>7, <2>1
<1>9. 0 \in under
  BY <1>3, <1>5, <1>7, <1>8 DEF MaxVol
<1>10. under \subseteq Int /\ \A v \in under : v <= MaxVol
  BY DEF MaxVol
<1>11. Max(under) \in under
  <2>1. MaxVol \in Int
    BY DEF MaxVol
  <2> HIDE DEF under
  <2> QED
    BY <1>9, <1>10, <2>1, MaxIs
<1> QED
  BY <1>3, <1>11

\* The volatility implied by the legs of an underlying is a whole number.
LEMMA ImpliedIs ==
  ASSUME NEW at \in Nat, NEW legs, IsFiniteSet(legs), \A l \in legs : LegOf(l, at), NEW key
  PROVE  ImpliedByUnderlying(legs, key) \subseteq Int
<1> DEFINE usable == {l \in LegsOf(legs, key) : LegVol(l) # {}}
           count == Cardinality(usable)
           low(v) == {l \in usable : Default(LegVol(l), 0) <= v}
           least(n) == {v \in 0..MaxVol : Cardinality(low(v)) >= n}
           nth(n) == Min(least(n))
<1>1. ImpliedByUnderlying(legs, key) =
        IF usable = {} THEN {} ELSE {(nth((count + 1) \div 2) + nth(count \div 2 + 1)) \div 2}
  BY DEF ImpliedByUnderlying
<1>2. IsFiniteSet(usable) /\ count \in Nat
  <2>1. usable \subseteq legs
    BY DEF LegsOf
  <2> QED
    BY <2>1, FS_Subset, FS_CardinalityType
<1>3. \A l \in usable : Default(LegVol(l), 0) \in 0..MaxVol
  <2>1. \A l \in usable : LegVol(l) # {} /\ LegVol(l) \subseteq 0..MaxVol
    BY LegVolIs DEF LegsOf
  <2> QED
    BY <2>1, DefaultIs
<1>4. low(MaxVol) = usable
  BY <1>3
<1>5. ASSUME NEW n \in Int, n <= count
      PROVE  nth(n) \in Int
  <2>1. MaxVol \in least(n)
    <3>1. MaxVol \in 0..MaxVol
      BY DEF MaxVol
    <3> QED
      BY <1>2, <1>4, <1>5, <3>1
  <2>2. least(n) \subseteq Int /\ \A v \in least(n) : 0 <= v
    BY DEF MaxVol
  <2>3. 0 \in Int /\ least(n) # {}
    <3> HIDE DEF least
    <3> QED
      BY <2>1
  <2> DEFINE lowest == least(n)
  <2>4. Min(lowest) \in lowest
    <3> HIDE DEF lowest
    <3> SUFFICES lowest \subseteq Int /\ (\A v \in lowest : 0 <= v) /\ lowest # {}
      BY MinIs, <2>3
    <3> QED
      BY <2>2, <2>3 DEF lowest
  <2>5. nth(n) = Min(lowest)
    OBVIOUS
  <2> HIDE DEF lowest, nth
  <2> QED
    BY <2>2, <2>4, <2>5 DEF lowest
<1>6. usable # {} => count > 0
  BY <1>2, FS_EmptySet
<1> HIDE DEF nth, count, usable
<1>7. ASSUME usable # {}
      PROVE  (nth((count + 1) \div 2) + nth(count \div 2 + 1)) \div 2 \in Int
  <2>1. (count + 1) \div 2 \in Int /\ (count + 1) \div 2 <= count
    BY <1>2, <1>6, <1>7
  <2>2. count \div 2 + 1 \in Int /\ count \div 2 + 1 <= count
    BY <1>2, <1>6, <1>7
  <2> QED
    BY <1>5, <2>1, <2>2
<1> QED
  BY <1>1, <1>7

\* What is assumed of the underlyings of a set of legs.
Given(legs, typed, mode) ==
  [key \in {UnderlyingKey(l.position) : l \in legs} |-> Assumption(legs, key, typed, mode)]

\* What a render makes of rows of the pool: finitely many legs of the pool, and
\* an assumption of each of their underlyings.
LEMMA RenderFields ==
  ASSUME NEW entries, entries \subseteq Pool, NEW at, NEW typed, NEW mode, NEW ticks,
         NEW render, render = Render(entries, at, ticks, typed, mode)
  PROVE  /\ render.scoped \subseteq entries /\ render.all = PreparedLegs(render.scoped, at)
         /\ IsFiniteSet(render.legs) /\ render.legs \subseteq render.all
         /\ \A l \in render.legs : LegOf(l, at)
         /\ render.assumptions = Given(render.legs, typed, mode)
<1> DEFINE inside == InCurrency(entries, CurrencyRank(entries, at))
           all == PreparedLegs(inside, at)
           options == [dim \in Dims |-> OptionsFor(all, ticks, dim)]
           filtered == Filtered(inside, all, options, ticks)
<1>1. /\ filtered.scoped = inside /\ filtered.all = all /\ filtered.legs \subseteq all
      /\ DOMAIN filtered = {"scoped", "all", "options", "selected", "names", "legs", "assumptions"}
  BY DEF Filtered
<1>2. render = [filtered EXCEPT !.assumptions = Given(filtered.legs, typed, mode)]
  BY DEF Render, InScope, LegsOfRender, Assumed, Given
<1> HIDE DEF filtered
<1>3. /\ render.scoped = inside /\ render.all = all /\ render.legs = filtered.legs
      /\ render.assumptions = Given(filtered.legs, typed, mode)
  BY <1>1, <1>2
<1>4. inside \subseteq entries
  BY DEF InCurrency
<1> HIDE DEF inside
<1>5. IsFiniteSet(all)
  <2> DEFINE usable == {q \in inside : q.quantity # 0 /\ ~Unusable(q, at)}
  <2>1. usable \subseteq Pool
    BY <1>4
  <2>2. IsFiniteSet(usable)
    BY <2>1, FS_Subset, RiskAssumption
  <2>3. all = {Leg(p, at) : p \in usable}
    BY DEF PreparedLegs
  <2> HIDE DEF usable
  <2> DEFINE legOf == [p \in usable |-> Leg(p, at)]
  <2>4. legOf \in Surjection(usable, {Leg(p, at) : p \in usable})
    BY DEF Surjection
  <2>5. IsFiniteSet({Leg(p, at) : p \in usable})
    BY <2>2, <2>4, FS_Surjection
  <2> QED
    BY <2>3, <2>5
<1>6. \A l \in all : LegOf(l, at)
  BY <1>4 DEF PreparedLegs, LegOf
<1>7. IsFiniteSet(render.legs)
  BY <1>1, <1>3, <1>5, FS_Subset
<1> QED
  BY <1>1, <1>3, <1>4, <1>6, <1>7

\* What a row of the underlying of a leg is assumed to be.
LEMMA AssumptionIs ==
  ASSUME NEW at \in Nat, NEW legs, IsFiniteSet(legs), \A l \in legs : LegOf(l, at),
         NEW typed, NEW key, typed[key].volatility \subseteq Int, typed[key].beta \subseteq Int,
         NEW mode, NEW a, a = Assumption(legs, key, typed, mode), ValidAssumption(a)
  PROVE  /\ \E s \in Int : s > 0 /\ a.spot = {s} /\ Quoted(s)
         /\ a.volatility \in Int /\ a.beta \in Int
<1>1. /\ a.spot = BrokerSpot(legs, key)
      /\ a.volatility = Default(typed[key].volatility, Default(ImpliedByUnderlying(legs, key), AssumedVol))
      /\ a.beta = IF mode = "beta" THEN Default(typed[key].beta, 1) ELSE 1
  BY DEF Assumption
<1>2. PICK s \in Int : a.spot = {s} /\ Quoted(s)
  <2>1. a.spot # {}
    BY DEF ValidAssumption, Positive
  <2>2. \A l \in legs : l.position \in Pool
    BY LegFields
  <2> QED
    BY <1>1, <2>1, <2>2, SpotIs
<1>3. s > 0
  BY <1>2 DEF ValidAssumption, Positive
<1>4. Default(ImpliedByUnderlying(legs, key), AssumedVol) \in Int
  <2>1. AssumedVol \in Int
    BY DEF AssumedVol
  <2> QED
    BY <2>1, ImpliedIs, DefaultIs
<1>5. a.volatility \in Int
  BY <1>1, <1>4, DefaultIs
<1>6. a.beta \in Int
  BY <1>1, DefaultIs
<1> QED
  BY <1>2, <1>3, <1>5, <1>6

\* Every run of the panel: its rows are of the pool and what the user typed are
\* numbers, with the book as fresh as before.
PanelInv ==
  /\ BookIsFresh
  /\ held \subseteq Pool /\ today \in Nat
  /\ overrides \in [Symbols -> [volatility : SUBSET Int, beta : SUBSET Int]]
  /\ percents \subseteq Int /\ prices \subseteq [symbol : Symbols, price : Int]

\* What every book of a run holds.
LEMMA BookFields ==
  ASSUME PanelInv
  PROVE  /\ IsFiniteSet(Legs) /\ \A l \in Legs : LegOf(l, today)
         /\ Assumptions = Given(Legs, overrides, shock)
         /\ \A l \in Legs : UnderlyingKey(l.position) \in Symbols
         /\ PricedKeys \subseteq Symbols /\ Modeled \subseteq Legs
<1>1. book = Render(held, today, picked, overrides, shock) /\ held \subseteq Pool /\ today \in Nat
  BY DEF PanelInv, BookIsFresh
<1>2. /\ IsFiniteSet(Legs) /\ \A l \in Legs : LegOf(l, today)
      /\ Assumptions = Given(Legs, overrides, shock)
  <2>1. /\ IsFiniteSet(book.legs) /\ \A l \in book.legs : LegOf(l, today)
        /\ book.assumptions = Given(book.legs, overrides, shock)
    BY <1>1, RenderFields
  <2> QED
    BY <2>1 DEF Legs, Assumptions
<1>3. \A l \in Legs : UnderlyingKey(l.position) \in Symbols
  BY <1>1, <1>2, LegFields DEF UnderlyingKey, Symbols
<1>4. PricedKeys \subseteq Symbols
  BY <1>2, <1>3 DEF PricedKeys, Given
<1> QED
  BY <1>2, <1>3, <1>4 DEF Modeled

\* The price columns the user adds are of underlyings of the pool.
LEMMA ViewKeysAre ==
  ASSUME PanelInv
  PROVE  ViewKeys(Table) \subseteq Symbols
<1> DEFINE lines == LensRows
           focus == Focus(lines)
           focused == focus \cap DOMAIN lines
           sum == AllAdjustment(ViewRealizedLegs(focus))
<1>1. Viewed \subseteq Legs
  BY DEF Viewed, Modeled
<1>2. \A id \in DOMAIN lines : lines[id].keys \subseteq Symbols
  <2> DEFINE group(id) == {l \in Viewed : GroupKey(lens, l) = id}
  <2>1. \A id \in DOMAIN lines : lines[id].keys = {UnderlyingKey(l.position) : l \in group(id)}
    BY DEF LensRows, BuildRows
  <2> QED
    BY <1>1, <2>1, BookFields
<1>3. Table.total = TotalRow(lines, focused, sum) /\ Table.focused = focused
  BY DEF Table, TableWith, TableOn, TableOf
<1> HIDE DEF lines, sum
<1>4. TotalRow(lines, focused, sum).keys \subseteq Symbols
  <2>1. CASE focused # {}
    <3>1. Default(focused, 0) \in DOMAIN lines
      BY <2>1, DefaultIs
    <3> QED
      BY <1>2, <2>1, <3>1 DEF TotalRow
  <2>2. CASE focused = {}
    <3>1. TotalRow(lines, focused, sum).keys = {UnderlyingKey(l.position) : l \in Viewed}
      BY <2>2 DEF TotalRow, TotalOf
    <3> QED
      BY <1>1, <3>1, BookFields
  <2> QED
    BY <2>1, <2>2
<1> QED
  BY <1>3, <1>4, BookFields DEF ViewKeys

\* The invariant holds of the first render and of each after it.
LEMMA PanelInit == RiskInit => PanelInv
<1> SUFFICES ASSUME RiskInit PROVE PanelInv
  OBVIOUS
<1>1. BookIsFresh /\ held = {} /\ today = 1
  BY DEF RiskInit, BookIsFresh
<1>2. overrides \in [Symbols -> [volatility : SUBSET Int, beta : SUBSET Int]]
  BY DEF RiskInit, NoOverride
<1>3. PICK s \in Saved : percents = ParseLevels(s.percents) /\ prices = s.prices
  BY DEF RiskInit
<1>4. s.percents \subseteq Int /\ s.prices \subseteq [symbol : Symbols, price : Int]
  BY RiskAssumption
<1>5. ParseLevels(s.percents) \subseteq Int
  BY <1>4 DEF ParseLevels
<1> QED
  BY <1>1, <1>2, <1>3, <1>4, <1>5 DEF PanelInv

\* One step of the panel, an action at a time.
LEMMA PanelStep == PanelInv /\ [RiskNext]_riskVars => PanelInv'
<1> SUFFICES ASSUME PanelInv, [RiskNext]_riskVars
             PROVE  PanelInv'
  OBVIOUS
<1> USE DEF Server, Looks, Money, Inputs, Cols
<1>1. BookIsFresh'
  BY BookStaysFresh DEF PanelInv
<1>2. ASSUME UNCHANGED <<held, today, overrides, percents, prices>>
      PROVE  PanelInv'
  BY <1>1, <1>2 DEF PanelInv
<1>3. CASE Toggle \/ SelectAll \/ Clear
  BY <1>2, <1>3 DEF Toggle, SelectAll, Clear, Pick
<1>4. CASE PickLens \/ PickAsset \/ PickExpiry
  BY <1>2, <1>4 DEF PickLens, PickAsset, PickExpiry, Look
<1>5. CASE ToggleCommissions \/ ToggleClosed
  BY <1>2, <1>5 DEF ToggleCommissions, ToggleClosed
<1>6. CASE Input
  <2>1. UNCHANGED <<held, today, percents, prices>>
    BY <1>6 DEF Input
  <2>2. \/ overrides' = overrides
        \/ \E key \in PricedKeys : \/ overrides' = [overrides EXCEPT ![key].volatility = {60}]
                                   \/ \E b \in {{}, {2}} : overrides' = [overrides EXCEPT ![key].beta = b]
    BY <1>6 DEF Input
  <2>3. overrides' \in [Symbols -> [volatility : SUBSET Int, beta : SUBSET Int]]
    <3>1. overrides \in [Symbols -> [volatility : SUBSET Int, beta : SUBSET Int]]
      BY DEF PanelInv
    <3>2. ASSUME NEW key \in PricedKeys, overrides' = [overrides EXCEPT ![key].volatility = {60}]
          PROVE  overrides' \in [Symbols -> [volatility : SUBSET Int, beta : SUBSET Int]]
      BY <3>1, <3>2, BookFields
    <3>3. ASSUME NEW key \in PricedKeys, NEW b \in {{}, {2}}, overrides' = [overrides EXCEPT ![key].beta = b]
          PROVE  overrides' \in [Symbols -> [volatility : SUBSET Int, beta : SUBSET Int]]
      <4>1. b \in SUBSET Int
        OBVIOUS
      <4> QED
        BY <3>1, <3>3, <4>1, BookFields
    <3> QED
      BY <2>2, <3>1, <3>2, <3>3
  <2> QED
    BY <1>1, <2>1, <2>3 DEF PanelInv
<1>7. CASE EditColumns
  <2>1. UNCHANGED <<held, today, overrides>>
    BY <1>7 DEF EditColumns
  <2>2. percents \subseteq Int /\ prices \subseteq [symbol : Symbols, price : Int]
    BY DEF PanelInv
  <2>3. CASE AddLevel
    <3>1. ParseLevels(TypedLevels) \subseteq Int
      BY RiskAssumption DEF ParseLevels
    <3> QED
      BY <1>1, <2>1, <2>2, <2>3, <3>1 DEF AddLevel, PanelInv
  <2>4. CASE AddPrice
    <3>1. PICK symbol \in ViewKeys(Table), p \in TypedPrices :
            prices' = prices \cup {[symbol |-> symbol, price |-> p]}
      BY <2>4, Zenon DEF AddPrice, PricesOf
    <3>2. symbol \in Symbols /\ p \in Int
      BY ViewKeysAre, RiskAssumption
    <3>3. percents' = percents
      BY <2>4 DEF AddPrice
    <3> QED
      BY <1>1, <2>1, <2>2, <3>1, <3>2, <3>3 DEF PanelInv
  <2>5. CASE DropColumn
    <3>1. percents' \subseteq percents /\ prices' \subseteq prices
      BY <2>5 DEF DropColumn
    <3> QED
      BY <1>1, <2>1, <2>2, <3>1 DEF PanelInv
  <2>6. CASE MoveColumn
    BY <1>2, <2>1, <2>6 DEF MoveColumn
  <2> QED
    BY <1>7, <2>3, <2>4, <2>5, <2>6 DEF EditColumns
<1>8. CASE PositionsChange \/ DayPasses \/ RealizedArrives
  <2>1. UNCHANGED <<overrides, percents, prices>>
    BY <1>8 DEF PositionsChange, DayPasses, RealizedArrives, Feed
  <2>2. held' \subseteq Pool
    BY <1>8 DEF PanelInv, PositionsChange, DayPasses, RealizedArrives, Feed
  <2>3. today' \in Nat
    BY <1>8 DEF PanelInv, PositionsChange, DayPasses, RealizedArrives, Feed
  <2> QED
    BY <1>1, <2>1, <2>2, <2>3 DEF PanelInv
<1>9. CASE UNCHANGED riskVars
  BY <1>2, <1>9 DEF riskVars
<1> QED
  BY <1>3, <1>4, <1>5, <1>6, <1>7, <1>8, <1>9 DEF RiskNext

\* What is assumed of an underlying that has a price.
LEMMA KeyIs ==
  ASSUME PanelInv, NEW key \in PricedKeys
  PROVE  /\ \E s \in Int : s > 0 /\ Assumptions[key].spot = {s} /\ Quoted(s)
         /\ Assumptions[key].volatility \in Int /\ Assumptions[key].beta \in Int
<1>1. /\ IsFiniteSet(Legs) /\ \A l \in Legs : LegOf(l, today)
      /\ Assumptions = Given(Legs, overrides, shock) /\ key \in Symbols
  BY BookFields
<1>2. key \in DOMAIN Assumptions /\ ValidAssumption(Assumptions[key])
  BY DEF PricedKeys
<1>3. Assumptions[key] = Assumption(Legs, key, overrides, shock)
  BY <1>1, <1>2 DEF Given
<1>4. overrides[key].volatility \subseteq Int /\ overrides[key].beta \subseteq Int /\ today \in Nat
  BY <1>1 DEF PanelInv
<1> HIDE DEF Legs
<1> QED
  BY <1>1, <1>2, <1>3, <1>4, AssumptionIs

\* The moves of the scenario columns are whole numbers.
LEMMA LevelsAre == PanelInv => Levels \subseteq Int
<1> SUFFICES ASSUME PanelInv PROVE Levels \subseteq Int
  OBVIOUS
<1> DEFINE shown == PricesShown
           spots == Spots
           priced == PriceColumns(shown, spots)
           natural == BuildColumns(percents, shown, spots)
<1>1. percents \subseteq Int /\ shown \subseteq [symbol : Symbols, price : Int]
  BY DEF PanelInv, PricesShown
<1>2. \A s \in Symbols : spots[s] \in Int
  <2>1. \A s \in PricedKeys : Default(Assumptions[s].spot, 0) \in Int
    BY KeyIs, DefaultIs
  <2> QED
    BY <2>1 DEF Spots
<1> HIDE DEF shown, spots
<1>3. \A c \in priced : c.shock \in Int
  <2>1. ASSUME NEW q \in shown, spots[q.symbol] > 0
        PROVE  ((q.price - spots[q.symbol]) * 100) \div spots[q.symbol] \in Int
    <3>1. q.price \in Int /\ spots[q.symbol] \in Int
      BY <1>1, <1>2
    <3>2. (q.price - spots[q.symbol]) * 100 \in Int
      BY <3>1
    <3> QED
      BY <2>1, <3>1, <3>2
  <2> QED
    BY <2>1 DEF PriceColumns
<1>4. \A c \in PctColumns(percents) : c.shock \in Int
  <2>1. SignedLevels(percents) \subseteq Int
    BY <1>1 DEF SignedLevels
  <2> QED
    BY <2>1 DEF PctColumns
<1>5. \A c \in natural : c \in PctColumns(percents) \/ c \in priced
  <2> HIDE DEF priced
  <2>1. natural = {c \in PctColumns(percents) : c.shock \notin {d.shock : d \in priced}}
                  \cup {CHOOSE c \in priced : c.shock = s : s \in {d.shock : d \in priced}}
    BY DEF BuildColumns, priced
  <2>2. \A s \in {d.shock : d \in priced} : (CHOOSE c \in priced : c.shock = s) \in priced
    OBVIOUS
  <2> QED
    BY <2>1, <2>2
<1> QED
  <2>1. NaturalColumns = natural
    BY DEF NaturalColumns, shown, spots
  <2> HIDE DEF natural, priced
  <2>2. \A c \in natural : c.shock \in Int
    BY <1>3, <1>4, <1>5
  <2> QED
    BY <2>1, <2>2 DEF Levels

\* The estimate of a leg at once is its mark, where the quote it was marked at
\* is the price assumed; at its expiry it is the settlement value.
LEMMA MarkIsMet ==
  ASSUME PanelInv, NEW l \in Modeled, NEW a, a = Assumptions[UnderlyingKey(l.position)],
         l.marked # {}, l.anchor = a.spot, IsOption(l) => l.days # {0}
  PROVE  ModeledPnl(l, a, 0, 0) = Default(l.marked, 0)
<1> DEFINE d == Default(l.days, 0)
           value == PnlAt(l, ValueAt(l, Default(l.anchor, Default(a.spot, 0)), d, a.volatility))
           gap == Default(l.marked, 0) - value
<1>1. PICK s \in Int : s > 0 /\ a.spot = {s} /\ a.volatility \in Int /\ a.beta \in Int
  BY KeyIs DEF Modeled
<1>2. LegOf(l, today) /\ today \in Nat
  BY BookFields DEF PanelInv
<1>3. /\ l.quantity \in Int /\ l.cost \in Int /\ l.multiplier \in Int /\ l.strike \in Int
      /\ l.marked \subseteq Int
      /\ IsOption(l) => \E n \in Nat : l.days = {n}
      /\ ~IsOption(l) => l.days = {}
  BY <1>2, LegFields
<1>4. d \in Nat /\ (IsOption(l) => d > 0)
  <2>1. CASE IsOption(l)
    BY <1>3, <2>1, DefaultIs
  <2>2. CASE ~IsOption(l)
    BY <1>3, <2>2, DefaultIs
  <2> QED
    BY <2>1, <2>2
<1>5. Default(l.marked, 0) \in Int
  BY <1>3, DefaultIs
<1>6. Default(a.spot, 0) = s /\ Default(l.anchor, Default(a.spot, 0)) = s
  BY <1>1, DefaultIs
<1>7. ShockedSpot(a, 0) = s
  <2>1. 100 + 0 * a.beta = 100
    BY <1>1
  <2> QED
    BY <1>6, <2>1, Percent DEF ShockedSpot
<1>8. Remaining(l, 0) = d
  BY <1>4, MaxOfTwo DEF Remaining
<1>9. value \in Int /\ value = PnlAt(l, ValueAt(l, s, d, a.volatility))
  BY <1>1, <1>3, <1>4, <1>6, ValueIsNumber, PnlIsNumber
<1> HIDE DEF value, d
<1>10. ModelGap(l, a, 0) = gap
  <2>1. gap \in Int
    BY <1>5, <1>9
  <2>2. IsOption(l) => (gap * d) \div d = gap
    BY <1>4, <2>1, Whole
  <2>3. ModelGap(l, a, 0) = IF ~IsOption(l) THEN gap ELSE IF d <= 0 THEN 0 ELSE (gap * Remaining(l, 0)) \div d
    BY DEF ModelGap, value, d
  <2> QED
    BY <1>4, <1>8, <2>2, <2>3
<1>11. ModeledPnl(l, a, 0, 0) = value + gap
  BY <1>7, <1>8, <1>9, <1>10 DEF ModeledPnl
<1> QED
  BY <1>5, <1>9, <1>11

\* The estimate at the expiry of the leg itself.
LEMMA SettlementIsMet ==
  ASSUME PanelInv, NEW l \in Modeled, NEW a, a = Assumptions[UnderlyingKey(l.position)],
         IsOption(l), NEW s \in Levels
  PROVE  ModeledPnl(l, a, s, Default(l.days, 0)) = TerminalPnl(l, a, s)
<1> DEFINE d == Default(l.days, 0)
           value == PnlAt(l, ValueAt(l, Default(l.anchor, Default(a.spot, 0)), d, a.volatility))
           gap == Default(l.marked, 0) - value
<1>1. PICK spot \in Int : spot > 0 /\ a.spot = {spot} /\ a.volatility \in Int /\ a.beta \in Int
  BY KeyIs DEF Modeled
<1>2. LegOf(l, today) /\ today \in Nat
  BY BookFields DEF PanelInv
<1>3. /\ l.quantity \in Int /\ l.cost \in Int /\ l.multiplier \in Int /\ l.strike \in Int
      /\ l.marked \subseteq Int /\ l.anchor \subseteq Int
      /\ IsOption(l) => \E n \in Nat : l.days = {n}
  BY <1>2, LegFields
<1>4. d \in Nat
  BY <1>3, DefaultIs
<1>5. Default(a.spot, 0) = spot
  BY <1>1, DefaultIs
<1>6. value \in Int
  BY <1>1, <1>3, <1>4, <1>5, DefaultIs, ValueIsNumber, PnlIsNumber
<1>7. ShockedSpot(a, s) \in Int
  <2>1. s \in Int
    BY LevelsAre
  <2>2. spot * (100 + s * a.beta) \in Int
    BY <1>1, <2>1
  <2>3. (spot * (100 + s * a.beta)) \div 100 \in Int
    BY <2>2
  <2> QED
    BY <1>5, <2>3 DEF ShockedSpot
<1>8. Remaining(l, d) = 0
  BY <1>4, MaxOfTwo DEF Remaining
<1> HIDE DEF value, d
<1>9. ModelGap(l, a, d) = 0
  <2>1. l.marked # {} => gap \in Int
    BY <1>3, <1>6, DefaultIs
  <2>2. ASSUME l.marked # {}, ~(d <= 0)
        PROVE  (gap * 0) \div d = 0
    <3>1. gap \in Int /\ d \in Int /\ d > 0
      BY <1>4, <2>1, <2>2
    <3> HIDE DEF gap
    <3> QED
      BY <3>1, Whole
  <2>3. ModelGap(l, a, d) = IF l.marked = {} THEN 0 ELSE IF d <= 0 THEN 0
                            ELSE (gap * Remaining(l, d)) \div d
    BY DEF ModelGap, value, d
  <2> QED
    BY <1>8, <2>2, <2>3
<1>10. TerminalPnl(l, a, s) \in Int
  BY <1>1, <1>3, <1>7, ValueIsNumber, PnlIsNumber DEF TerminalPnl
<1>11. ModeledPnl(l, a, s, d) = TerminalPnl(l, a, s) + 0
  BY <1>8, <1>9 DEF ModeledPnl, TerminalPnl
<1> QED
  BY <1>10, <1>11 DEF d

\* For every pool of positions and whatever the user assumes, the curve of a
\* leg before its expiry starts from the broker's mark where the quote it was
\* marked at is the price assumed, and ends on what the leg settles at
\* (modelLeg of frontend/lib/payoff.ts, lines 242-264).
THEOREM EstimateHolds == RiskSpec => []EstimateMeetsMark
<1>1. PanelInv => EstimateMeetsMark
  BY MarkIsMet, SettlementIsMet DEF EstimateMeetsMark
<1> QED
  BY <1>1, PanelInit, PanelStep, PTL DEF RiskSpec

-----------------------------------------------------------------------------
(***************************************************************************)
(* Sums over finite sets. A sum of the library adds the elements in the    *)
(* order it happens to choose them; that the order does not matter, and    *)
(* that a sum over disjoint parts is the sum of their sums, is what an     *)
(* account's figures rest on. There is no induction on a property here: a  *)
(* property of all finite sets is proved by taking a smallest set without  *)
(* it.                                                                     *)
(***************************************************************************)

\* Sums over finite sets: the sum of f over s, one element after the other, in
\* the order the library chooses them.
OneOf(s) == CHOOSE x \in s : TRUE
Adds(f, S, g) ==
  g = [s \in SUBSET S |-> IF s = {} THEN 0 ELSE f[OneOf(s)] + g[s \ {OneOf(s)}]]
Total(f, s) == (CHOOSE g : Adds(f, s, g))[s]

\* The sum of the library is the one above.
LEMMA SumIsTotal ==
  ASSUME NEW f
  PROVE  SumFunction(f) = Total(f, DOMAIN f)
  BY Zenon DEF SumFunction, SumFunctionOnSet, FoldFunctionOnSet, MapThenFoldSet, Adds, OneOf, Total

\* What is true of no smallest finite set is true of every one.
LEMMA SmallestBad ==
  ASSUME NEW bad, \A s \in bad : IsFiniteSet(s), bad # {}
  PROVE  \E s \in bad : \A t \in bad : Cardinality(s) <= Cardinality(t)
<1> DEFINE sizes == {Cardinality(s) : s \in bad}
<1>1. sizes \subseteq Nat /\ sizes # {}
  BY FS_CardinalityType
<1>2. PICK least \in sizes : \A k \in sizes : least <= k
  BY <1>1, HasLeast
<1> QED
  BY <1>2

\* A set without one of its elements has fewer.
LEMMA OneLess ==
  ASSUME NEW s, IsFiniteSet(s), NEW x \in s
  PROVE  IsFiniteSet(s \ {x}) /\ Cardinality(s) \in Nat /\ Cardinality(s \ {x}) < Cardinality(s)
<1>1. Cardinality(s) \in Nat
  BY FS_CardinalityType
<1>2. IsFiniteSet(s \ {x}) /\ Cardinality(s \ {x}) = Cardinality(s) - 1
  BY FS_RemoveElement
<1> QED
  BY <1>1, <1>2

\* Two such functions agree where both are defined.
LEMMA AddsAgree ==
  ASSUME NEW f, NEW S, IsFiniteSet(S), NEW T, T \in SUBSET S, NEW g, Adds(f, S, g), NEW h, Adds(f, T, h)
  PROVE  g[T] = h[T] /\ \A u \in SUBSET T : g[u] = h[u]
<1> DEFINE bad == {s \in SUBSET T : g[s] # h[s]}
<1>1. SUFFICES ASSUME bad # {} PROVE FALSE
  OBVIOUS
<1>2. \A s \in bad : IsFiniteSet(s)
  BY FS_Subset
<1>3. PICK s \in bad : \A t \in bad : Cardinality(s) <= Cardinality(t)
  <2> HIDE DEF bad
  <2> QED
    BY <1>1, <1>2, SmallestBad
<1>4. CASE s = {}
  BY <1>3, <1>4 DEF Adds
<1>5. CASE s # {}
  <2> DEFINE x == OneOf(s)
             rest == s \ {x}
  <2>1. x \in s /\ rest \in SUBSET T
    BY <1>3, <1>5 DEF OneOf
  <2>2. g[s] = f[x] + g[rest] /\ h[s] = f[x] + h[rest]
    BY <1>3, <1>5 DEF Adds
  <2>3. Cardinality(s) \in Nat /\ Cardinality(rest) \in Nat /\ Cardinality(rest) < Cardinality(s)
    BY <1>2, <1>3, <2>1, OneLess, FS_CardinalityType
  <2>4. rest \notin bad
    BY <1>3, <2>3
  <2>5. g[rest] = h[rest]
    BY <2>1, <2>4
  <2> QED
    BY <1>3, <2>2, <2>5
<1> QED
  BY <1>4, <1>5

\* The part of such a function is one of the smaller set.
LEMMA AddsPart ==
  ASSUME NEW f, NEW S, NEW T \in SUBSET S, NEW g, Adds(f, S, g)
  PROVE  Adds(f, T, [s \in SUBSET T |-> g[s]])
<1> DEFINE h == [s \in SUBSET T |-> g[s]]
<1>1. ASSUME NEW s \in SUBSET T
      PROVE  h[s] = IF s = {} THEN 0 ELSE f[OneOf(s)] + h[s \ {OneOf(s)}]
  <2>1. s \in SUBSET S /\ s \ {OneOf(s)} \in SUBSET T
    OBVIOUS
  <2>2. g[s] = IF s = {} THEN 0 ELSE f[OneOf(s)] + g[s \ {OneOf(s)}]
    BY <2>1 DEF Adds
  <2> QED
    BY <2>1, <2>2
<1> QED
  BY <1>1 DEF Adds

\* There is such a function of the parts of any finite set.
LEMMA AddsExists ==
  ASSUME NEW f, NEW S, IsFiniteSet(S)
  PROVE  \E g : Adds(f, S, g)
<1> DEFINE bad == {s \in SUBSET S : ~\E g : Adds(f, s, g)}
<1>1. SUFFICES ASSUME bad # {} PROVE FALSE
  OBVIOUS
<1>2. \A s \in bad : IsFiniteSet(s)
  BY FS_Subset
<1>3. PICK T \in bad : \A t \in bad : Cardinality(T) <= Cardinality(t)
  <2> HIDE DEF bad
  <2> QED
    BY <1>1, <1>2, SmallestBad
<1>4. T \in SUBSET S /\ IsFiniteSet(T) /\ Cardinality(T) \in Nat
  BY <1>2, <1>3, FS_CardinalityType
<1>5. ASSUME NEW u \in SUBSET T, u # T
      PROVE  Adds(f, u, CHOOSE g : Adds(f, u, g))
  <2>1. PICK x \in T : x \notin u
    BY <1>5
  <2>2. u \in SUBSET (T \ {x})
    BY <1>5, <2>1
  <2>3. IsFiniteSet(T \ {x}) /\ Cardinality(T \ {x}) < Cardinality(T) /\ Cardinality(T \ {x}) \in Nat
    BY <1>4, OneLess, FS_CardinalityType
  <2>4. Cardinality(u) \in Nat /\ Cardinality(u) <= Cardinality(T \ {x})
    BY <2>2, <2>3, FS_Subset, FS_CardinalityType
  <2>5. ~(Cardinality(T) <= Cardinality(u))
    BY <1>4, <2>3, <2>4
  <2>6. u \notin bad
    BY <1>3, <2>5
  <2> QED
    BY <1>4, <2>6
<1> DEFINE val == [u \in SUBSET T |-> Total(f, u)]
           g == [s \in SUBSET T |-> IF s = {} THEN 0 ELSE f[OneOf(s)] + val[s \ {OneOf(s)}]]
<1>6. ASSUME NEW u \in SUBSET T, u # T
      PROVE  g[u] = val[u]
  <2> DEFINE own == CHOOSE k : Adds(f, u, k)
  <2>1. Adds(f, u, own)
    BY <1>5, <1>6
  <2> HIDE DEF own
  <2>2. val[u] = own[u]
    BY DEF Total, own
  <2>3. own[u] = IF u = {} THEN 0 ELSE f[OneOf(u)] + own[u \ {OneOf(u)}]
    BY <2>1 DEF Adds
  <2>4. CASE u = {}
    BY <2>2, <2>3, <2>4
  <2>5. CASE u # {}
    <3> DEFINE rest == u \ {OneOf(u)}
               small == CHOOSE k : Adds(f, rest, k)
    <3>1. rest \in SUBSET u /\ rest \in SUBSET T /\ rest # T
      <4>1. OneOf(u) \in u
        BY <2>5 DEF OneOf
      <4> QED
        BY <1>6, <4>1
    <3>2. Adds(f, rest, small)
      BY <1>5, <3>1
    <3>3. IsFiniteSet(u)
      BY <1>4, FS_Subset
    <3> HIDE DEF small, rest
    <3>4. own[rest] = small[rest]
      <4>1. \A s \in SUBSET rest : own[s] = small[s]
        BY <2>1, <3>1, <3>2, <3>3, AddsAgree
      <4> QED
        BY <4>1
    <3>5. val[rest] = small[rest]
      BY <3>1 DEF Total, small
    <3>6. g[u] = f[OneOf(u)] + val[rest]
      BY <2>5 DEF rest
    <3> QED
      BY <2>2, <2>3, <2>5, <3>4, <3>5, <3>6 DEF rest
  <2> QED
    BY <2>4, <2>5
<1>7. ASSUME NEW s \in SUBSET T
      PROVE  g[s] = IF s = {} THEN 0 ELSE f[OneOf(s)] + g[s \ {OneOf(s)}]
  <2>1. CASE s = {}
    BY <2>1
  <2>2. CASE s # {}
    <3>1. s \ {OneOf(s)} \in SUBSET T /\ s \ {OneOf(s)} # T
      BY <2>2 DEF OneOf
    <3>2. g[s \ {OneOf(s)}] = val[s \ {OneOf(s)}]
      BY <1>6, <3>1
    <3> HIDE DEF val
    <3> QED
      BY <2>2, <3>2
  <2> QED
    BY <2>1, <2>2
<1>8. Adds(f, T, g)
  <2> DEFINE gg == g
  <2>1. gg = [s \in SUBSET T |-> gg[s]]
    OBVIOUS
  <2>2. \A s \in SUBSET T : gg[s] = IF s = {} THEN 0 ELSE f[OneOf(s)] + gg[s \ {OneOf(s)}]
    BY <1>7
  <2> HIDE DEF gg
  <2>3. Adds(f, T, gg)
    BY <2>1, <2>2 DEF Adds
  <2> QED
    BY <2>3 DEF gg
<1> QED
  BY <1>3, <1>8

\* A sum is the chosen element and the sum of the rest.
LEMMA TotalStep ==
  ASSUME NEW f, NEW s, IsFiniteSet(s)
  PROVE  Total(f, s) = IF s = {} THEN 0 ELSE f[OneOf(s)] + Total(f, s \ {OneOf(s)})
<1>1. PICK own : own = (CHOOSE g : Adds(f, s, g))
  OBVIOUS
<1>2. PICK rest : rest = s \ {OneOf(s)}
  OBVIOUS
<1>3. PICK small : small = (CHOOSE g : Adds(f, rest, g))
  OBVIOUS
<1>4. rest \in SUBSET s /\ IsFiniteSet(rest)
  BY <1>2, FS_Subset
<1>5. Adds(f, s, own) /\ Adds(f, rest, small)
  BY <1>1, <1>3, <1>4, AddsExists
<1>6. Total(f, s) = own[s] /\ Total(f, rest) = small[rest]
  BY <1>1, <1>3 DEF Total
<1>7. own[s] = IF s = {} THEN 0 ELSE f[OneOf(s)] + own[rest]
  BY <1>2, <1>5 DEF Adds
<1>8. own[rest] = small[rest]
  BY <1>4, <1>5, AddsAgree
<1> QED
  BY <1>2, <1>6, <1>7, <1>8

\* A sum is of the values of its elements, and over no element nothing.
LEMMA TotalOfNone == \A f : Total(f, {}) = 0
<1> SUFFICES ASSUME NEW f PROVE Total(f, {}) = 0
  OBVIOUS
<1> QED
  BY TotalStep, FS_EmptySet

\* A sum depends on the values of the function alone.
LEMMA TotalSame ==
  ASSUME NEW f, NEW h, NEW S, IsFiniteSet(S), \A x \in S : f[x] = h[x]
  PROVE  Total(f, S) = Total(h, S)
<1> DEFINE bad == {s \in SUBSET S : Total(f, s) # Total(h, s)}
<1>1. SUFFICES ASSUME bad # {} PROVE FALSE
  OBVIOUS
<1>2. \A s \in bad : IsFiniteSet(s)
  BY FS_Subset
<1>3. PICK s \in bad : \A t \in bad : Cardinality(s) <= Cardinality(t)
  <2> HIDE DEF bad
  <2> QED
    BY <1>1, <1>2, SmallestBad
<1>4. IsFiniteSet(s) /\ s \in SUBSET S /\ Total(f, s) # Total(h, s)
  BY <1>2, <1>3
<1>5. s # {}
  BY <1>4, TotalOfNone
<1>6. PICK x \in s : x = OneOf(s)
  BY <1>5 DEF OneOf
<1>7. PICK rest : rest = s \ {x}
  OBVIOUS
<1>8. Total(f, s) = f[x] + Total(f, rest) /\ Total(h, s) = h[x] + Total(h, rest)
  BY <1>4, <1>5, <1>6, <1>7, TotalStep
<1>9. rest \in SUBSET S /\ IsFiniteSet(rest)
  BY <1>4, <1>7, FS_Subset
<1>10. ~(Cardinality(s) <= Cardinality(rest))
  <2>1. Cardinality(rest) < Cardinality(s) /\ Cardinality(s) \in Nat /\ Cardinality(rest) \in Nat
    BY <1>4, <1>7, <1>9, OneLess, FS_CardinalityType
  <2> QED
    BY <2>1
<1>11. Total(f, rest) = Total(h, rest)
  BY <1>3, <1>9, <1>10
<1> QED
  BY <1>4, <1>6, <1>8, <1>11

\* It does not matter in which order the elements are added.
LEMMA TotalRemove ==
  ASSUME NEW f, NEW S, IsFiniteSet(S), \A x \in S : f[x] \in Int
  PROVE  /\ Total(f, S) \in Int
         /\ \A x \in S : Total(f, S) = f[x] + Total(f, S \ {x})
<1> DEFINE fine(s) == Total(f, s) \in Int /\ \A x \in s : Total(f, s) = f[x] + Total(f, s \ {x})
           bad == {s \in SUBSET S : ~fine(s)}
<1>1. SUFFICES ASSUME bad # {} PROVE FALSE
  OBVIOUS
<1>2. \A s \in bad : IsFiniteSet(s)
  BY FS_Subset
<1>3. PICK s \in bad : \A t \in bad : Cardinality(s) <= Cardinality(t)
  <2> HIDE DEF bad
  <2> QED
    BY <1>1, <1>2, SmallestBad
<1>4. IsFiniteSet(s) /\ s \in SUBSET S
  BY <1>2, <1>3
<1>5. ASSUME NEW x \in s
      PROVE  fine(s \ {x}) /\ s \ {x} \in SUBSET S
  <2>1. s \ {x} \in SUBSET S /\ IsFiniteSet(s \ {x})
    BY <1>4, FS_Subset
  <2>2. Cardinality(s \ {x}) < Cardinality(s) /\ Cardinality(s) \in Nat /\ Cardinality(s \ {x}) \in Nat
    BY <1>4, <2>1, OneLess, FS_CardinalityType
  <2>3. PICK rest : rest = s \ {x}
    OBVIOUS
  <2>4. ~(Cardinality(s) <= Cardinality(rest))
    BY <2>2, <2>3
  <2>5. rest \notin bad
    BY <1>3, <2>4
  <2> QED
    BY <2>1, <2>3, <2>5
<1>6. CASE s = {}
  <2>1. Total(f, s) = 0
    BY <1>6, TotalOfNone
  <2> QED
    BY <1>3, <1>6, <2>1
<1>7. CASE s # {}
  <2>1. PICK p \in s : p = OneOf(s)
    BY <1>7 DEF OneOf
  <2>2. Total(f, s) = f[p] + Total(f, s \ {p})
    BY <1>4, <1>7, <2>1, TotalStep
  <2>3. Total(f, s \ {p}) \in Int /\ f[p] \in Int
    BY <1>4, <1>5
  <2>4. ASSUME NEW x \in s
        PROVE  Total(f, s) = f[x] + Total(f, s \ {x})
    <3>1. CASE x = p
      BY <2>2, <3>1
    <3>2. CASE x # p
      <4>1. x \in s \ {p} /\ p \in s \ {x}
        BY <3>2
      <4>2. PICK both : both = (s \ {p}) \ {x}
        OBVIOUS
      <4>3. both = (s \ {x}) \ {p}
        BY <4>2
      <4>4. Total(f, s \ {p}) = f[x] + Total(f, both)
        BY <1>5, <4>1, <4>2
      <4>5. Total(f, s \ {x}) = f[p] + Total(f, both)
        BY <1>5, <4>1, <4>3
      <4>6. Total(f, both) \in Int
        <5>1. fine(s \ {p})
          BY <1>5
        <5>2. IsFiniteSet(both) /\ both \in SUBSET S
          BY <1>4, <4>2, FS_Subset
        <5>3. Cardinality(both) < Cardinality(s \ {p}) /\ Cardinality(s \ {p}) < Cardinality(s)
          BY <1>4, <4>1, <4>2, OneLess
        <5>4. Cardinality(both) \in Nat /\ Cardinality(s \ {p}) \in Nat /\ Cardinality(s) \in Nat
          BY <1>4, <4>1, OneLess, <5>2, FS_CardinalityType
        <5>5. both \notin bad
          BY <1>3, <5>3, <5>4
        <5> QED
          BY <5>2, <5>5
      <4>7. f[x] \in Int /\ f[p] \in Int
        BY <1>4
      <4> QED
        BY <2>2, <4>4, <4>5, <4>6, <4>7
    <3> QED
      BY <3>1, <3>2
  <2>5. Total(f, s) \in Int
    BY <2>2, <2>3
  <2> QED
    BY <1>3, <2>4, <2>5
<1> QED
  BY <1>6, <1>7

\* A sum over two disjoint parts is the sum of the two.
LEMMA TotalOfTwo ==
  ASSUME NEW f, NEW S, IsFiniteSet(S), \A x \in S : f[x] \in Int,
         NEW A \in SUBSET S, NEW B \in SUBSET S, A \cap B = {}
  PROVE  Total(f, A \cup B) = Total(f, A) + Total(f, B)
<1> DEFINE bad == {s \in SUBSET A : Total(f, s \cup B) # Total(f, s) + Total(f, B)}
<1>0. \A s \in SUBSET S : IsFiniteSet(s) /\ \A x \in s : f[x] \in Int
  BY FS_Subset
<1>1. SUFFICES ASSUME bad # {} PROVE FALSE
  OBVIOUS
<1>2. \A s \in bad : IsFiniteSet(s)
  BY <1>0
<1>3. PICK s \in bad : \A t \in bad : Cardinality(s) <= Cardinality(t)
  <2> HIDE DEF bad
  <2> QED
    BY <1>1, <1>2, SmallestBad
<1>4. IsFiniteSet(s) /\ s \in SUBSET A /\ Total(f, s \cup B) # Total(f, s) + Total(f, B)
  BY <1>2, <1>3
<1>5. Total(f, B) \in Int /\ Total(f, s) \in Int
  BY <1>0, <1>4, TotalRemove
<1>6. s # {}
  <2>1. SUFFICES ASSUME s = {} PROVE FALSE
    OBVIOUS
  <2>2. s \cup B = B /\ Total(f, s) = 0
    BY <2>1, TotalOfNone
  <2> QED
    BY <1>4, <1>5, <2>2
<1>7. PICK x \in s : TRUE
  BY <1>6
<1>8. PICK rest : rest = s \ {x}
  OBVIOUS
<1>9. PICK whole : whole = s \cup B
  OBVIOUS
<1>10. x \in whole /\ whole \ {x} = rest \cup B /\ whole \in SUBSET S /\ rest \in SUBSET A
  BY <1>4, <1>8, <1>9
<1>11. Total(f, whole) = f[x] + Total(f, rest \cup B) /\ Total(f, s) = f[x] + Total(f, rest)
  <2>1. IsFiniteSet(whole) /\ \A y \in whole : f[y] \in Int
    BY <1>0, <1>10
  <2>2. Total(f, whole) = f[x] + Total(f, whole \ {x})
    BY <1>10, <2>1, TotalRemove
  <2>3. \A y \in s : f[y] \in Int
    BY <1>0, <1>4
  <2>4. Total(f, s) = f[x] + Total(f, s \ {x})
    BY <1>4, <2>3, TotalRemove
  <2> QED
    BY <1>8, <1>10, <2>2, <2>4
<1>12. Total(f, rest \cup B) = Total(f, rest) + Total(f, B)
  <2>1. Cardinality(rest) < Cardinality(s) /\ Cardinality(s) \in Nat /\ IsFiniteSet(rest)
    BY <1>4, <1>8, OneLess
  <2>2. Cardinality(rest) \in Nat
    BY <2>1, FS_CardinalityType
  <2>3. rest \notin bad
    BY <1>3, <2>1, <2>2
  <2> QED
    BY <1>10, <2>3
<1>13. Total(f, rest) \in Int /\ f[x] \in Int
  <2>1. rest \in SUBSET S
    BY <1>10
  <2> QED
    BY <1>0, <1>4, <2>1, TotalRemove
<1> QED
  BY <1>4, <1>5, <1>9, <1>11, <1>12, <1>13

\* A sum over disjoint parts is the sum of the sums over each.
LEMMA TotalOfParts ==
  ASSUME NEW f, NEW P, IsFiniteSet(P), NEW part, NEW S, IsFiniteSet(S),
         \A x \in S : f[x] \in Int,
         \A b \in P : part[b] \subseteq S,
         \A b, c \in P : b # c => part[b] \cap part[c] = {},
         NEW sums, \A b \in P : sums[b] = Total(f, part[b])
  PROVE  Total(sums, P) = Total(f, UNION {part[b] : b \in P})
<1> DEFINE of(Q) == UNION {part[b] : b \in Q}
           bad == {Q \in SUBSET P : Total(sums, Q) # Total(f, of(Q))}
<1>0. \A T \in SUBSET S : IsFiniteSet(T) /\ \A x \in T : f[x] \in Int
  BY FS_Subset
<1>1. SUFFICES ASSUME bad # {} PROVE FALSE
  OBVIOUS
<1>2. \A Q \in bad : IsFiniteSet(Q)
  BY FS_Subset
<1>3. PICK Q \in bad : \A t \in bad : Cardinality(Q) <= Cardinality(t)
  <2> HIDE DEF bad
  <2> QED
    BY <1>1, <1>2, SmallestBad
<1>4. IsFiniteSet(Q) /\ Q \in SUBSET P /\ Total(sums, Q) # Total(f, of(Q))
  BY <1>2, <1>3
<1>5. \A b \in P : sums[b] \in Int
  <2>1. \A b \in P : Total(f, part[b]) \in Int
    <3>1. SUFFICES ASSUME NEW b \in P PROVE Total(f, part[b]) \in Int
      OBVIOUS
    <3>2. IsFiniteSet(part[b]) /\ \A x \in part[b] : f[x] \in Int
      BY <1>0
    <3> QED
      BY <3>2, TotalRemove
  <2> QED
    BY <2>1
<1>6. Q # {}
  <2>1. SUFFICES ASSUME Q = {} PROVE FALSE
    OBVIOUS
  <2>2. of(Q) = {}
    BY <2>1
  <2> HIDE DEF of
  <2> QED
    BY <1>4, <2>1, <2>2, TotalOfNone
<1>7. PICK b \in Q : TRUE
  BY <1>6
<1>8. PICK rest : rest = Q \ {b}
  OBVIOUS
<1>9. Total(sums, Q) = sums[b] + Total(sums, rest)
  <2>1. \A c \in Q : sums[c] \in Int
    BY <1>4, <1>5
  <2> QED
    BY <1>4, <1>7, <1>8, <2>1, TotalRemove
<1>10. Total(sums, rest) = Total(f, of(rest))
  <2>1. Cardinality(rest) < Cardinality(Q) /\ Cardinality(Q) \in Nat /\ IsFiniteSet(rest)
    BY <1>4, <1>7, <1>8, OneLess
  <2>2. Cardinality(rest) \in Nat
    BY <2>1, FS_CardinalityType
  <2>3. rest \notin bad
    BY <1>3, <2>1, <2>2
  <2> QED
    BY <1>4, <1>8, <2>3
<1>11. of(Q) = part[b] \cup of(rest) /\ part[b] \cap of(rest) = {} /\ of(rest) \in SUBSET S /\ part[b] \in SUBSET S
  <2>1. of(Q) = part[b] \cup of(rest)
    BY <1>7, <1>8
  <2>2. \A c \in rest : part[b] \cap part[c] = {}
    BY <1>4, <1>7, <1>8
  <2>3. part[b] \cap of(rest) = {}
    BY <2>2
  <2>4. of(rest) \in SUBSET S /\ part[b] \in SUBSET S
    BY <1>4, <1>7, <1>8
  <2> QED
    BY <2>1, <2>3, <2>4
<1>12. PICK one : one = part[b]
  OBVIOUS
<1>13. PICK more : more = of(rest)
  OBVIOUS
<1>14. PICK all : all = of(Q)
  OBVIOUS
<1> HIDE DEF of
<1>15. Total(f, one \cup more) = Total(f, one) + Total(f, more)
  <2>1. one \in SUBSET S /\ more \in SUBSET S /\ one \cap more = {}
    BY <1>11, <1>12, <1>13
  <2> QED
    BY <2>1, TotalOfTwo
<1> QED
  BY <1>4, <1>9, <1>10, <1>11, <1>12, <1>13, <1>14, <1>15

\* The sum of a function that takes a value of each element of a set.
LEMMA SumIs ==
  ASSUME NEW f, NEW g, IsFiniteSet(DOMAIN f), \A x \in DOMAIN f : f[x] = g[x]
  PROVE  SumFunction(f) = Total(g, DOMAIN f)
<1>1. Total(f, DOMAIN f) = Total(g, DOMAIN f)
  <2>1. PICK S : S = DOMAIN f
    OBVIOUS
  <2> QED
    BY <2>1, TotalSame
<1> QED
  BY <1>1, SumIsTotal

-----------------------------------------------------------------------------
(***************************************************************************)
(* Lists. The columns of the panel, the points of a line and the rows of a *)
(* table are listed by their rank: the member at a place is the one with   *)
(* that many before it. Of a finite set in a total order each has a place  *)
(* of its own, and every place is taken.                                   *)
(***************************************************************************)

\* A finite set has finitely many images.
LEMMA ImageIsFinite ==
  ASSUME NEW S, IsFiniteSet(S), NEW f, NEW T, T = {f[x] : x \in S}
  PROVE  IsFiniteSet(T)
<1>1. PICK onto : onto = [x \in S |-> f[x]]
  OBVIOUS
<1>2. onto \in Surjection(S, T)
  BY <1>1 DEF Surjection
<1> QED
  BY <1>2, FS_Surjection

\* The members of a finite set in a total order, below[p] those before p: each
\* has a place of its own, the number of those before it.
LEMMA Places ==
  ASSUME NEW S, IsFiniteSet(S), NEW below,
         \A p \in S : below[p] \in SUBSET S /\ p \notin below[p],
         \A p, q \in S : p = q \/ p \in below[q] \/ q \in below[p],
         \A p, q \in S : p \in below[q] => below[p] \subseteq below[q],
         NEW place, place = [p \in S |-> Cardinality(below[p])]
  PROVE  /\ Cardinality(S) \in Nat
         /\ place \in [S -> 0..(Cardinality(S) - 1)]
         /\ \A p, q \in S : place[p] = place[q] => p = q
         /\ \A p, q \in S : p \in below[q] <=> place[p] < place[q]
         /\ \A k \in 0..(Cardinality(S) - 1) : \E p \in S : place[p] = k
<1>1. Cardinality(S) \in Nat
  BY FS_CardinalityType
<1>2. ASSUME NEW p \in S
      PROVE  IsFiniteSet(below[p]) /\ Cardinality(below[p]) \in 0..(Cardinality(S) - 1)
  <2>1. below[p] \in SUBSET (S \ {p})
    OBVIOUS
  <2>2. IsFiniteSet(S \ {p}) /\ Cardinality(S \ {p}) = Cardinality(S) - 1
    BY FS_RemoveElement
  <2>3. IsFiniteSet(below[p]) /\ Cardinality(below[p]) <= Cardinality(S) - 1
    BY <2>1, <2>2, FS_Subset
  <2>4. Cardinality(below[p]) \in Nat
    BY <2>3, FS_CardinalityType
  <2> QED
    BY <1>1, <2>3, <2>4
<1>3. ASSUME NEW p \in S, NEW q \in S, p \in below[q]
      PROVE  Cardinality(below[p]) < Cardinality(below[q])
  <2>1. below[p] \in SUBSET (below[q] \ {p})
    BY <1>3
  <2>2. IsFiniteSet(below[q]) /\ Cardinality(below[q]) \in Int /\ Cardinality(below[p]) \in Int
    BY <1>1, <1>2
  <2>3. IsFiniteSet(below[q] \ {p}) /\ Cardinality(below[q] \ {p}) = Cardinality(below[q]) - 1
    BY <1>3, <2>2, FS_RemoveElement
  <2>4. Cardinality(below[p]) <= Cardinality(below[q] \ {p})
    BY <2>1, <2>3, FS_Subset
  <2> QED
    BY <2>2, <2>3, <2>4
<1>4. place \in [S -> 0..(Cardinality(S) - 1)]
  BY <1>2
<1>5. \A p \in S : place[p] \in Int
  BY <1>4
<1>6. \A p, q \in S : p \in below[q] => place[p] < place[q]
  BY <1>3
<1>7. ASSUME NEW p \in S, NEW q \in S
      PROVE  (place[p] = place[q] => p = q) /\ (p \in below[q] <=> place[p] < place[q])
  <2>1. place[p] \in Int /\ place[q] \in Int
    BY <1>5
  <2>2. CASE p \in below[q]
    BY <1>6, <2>1, <2>2
  <2>3. CASE q \in below[p]
    <3>1. place[q] < place[p]
      BY <1>6, <2>3
    <3>2. ~(p \in below[q])
      BY <1>6, <2>1, <3>1
    <3> QED
      BY <2>1, <3>1, <3>2
  <2>4. CASE p = q
    BY <2>1, <2>4
  <2> QED
    BY <2>2, <2>3, <2>4
<1>8. place \in Surjection(S, 0..(Cardinality(S) - 1))
  <2>1. PICK to : to = 0..(Cardinality(S) - 1)
    OBVIOUS
  <2>2. IsFiniteSet(to) /\ Cardinality(to) = Cardinality(S)
    <3>1. 0 \in Int /\ Cardinality(S) - 1 \in Int
      BY <1>1
    <3>2. IsFiniteSet(to) /\ Cardinality(to) = IF 0 > Cardinality(S) - 1 THEN 0 ELSE (Cardinality(S) - 1) - 0 + 1
      BY <2>1, <3>1, FS_Interval
    <3> QED
      BY <1>1, <3>2
  <2>3. place \in Injection(S, to)
    BY <1>4, <1>7, <2>1 DEF Injection, IsInjective
  <2>4. place \in Surjection(S, to)
    BY <2>2, <2>3, FS_Injection
  <2> QED
    BY <2>1, <2>4
<1>9. \A k \in 0..(Cardinality(S) - 1) : \E p \in S : place[p] = k
  BY <1>8 DEF Surjection
<1> QED
  BY <1>1, <1>4, <1>7, <1>9

\* A function from the first n numbers is a sequence.
LEMMA ListIs ==
  ASSUME NEW n \in Nat, NEW f
  PROVE  /\ [i \in 1..n |-> f[i]] \in Seq({f[i] : i \in 1..n})
         /\ Len([i \in 1..n |-> f[i]]) = n
  OBVIOUS
InPlaces(S, n, place) ==
  /\ place \in [S -> 0..(n - 1)]
  /\ \A p, q \in S : place[p] = place[q] => p = q
  /\ \A k \in 0..(n - 1) : \E p \in S : place[p] = k
ListedBy(S, n, place) == [i \in 1..n |-> CHOOSE p \in S : place[p] = i - 1]
IsListing(list, S, n, place) ==
  /\ Len(list) = n /\ list = [i \in 1..n |-> list[i]]
  /\ \A i \in 1..n : list[i] \in S /\ place[list[i]] = i - 1
  /\ \A p \in S : \E i \in 1..n : list[i] = p

\* So they are listed one by one.
LEMMA ListedByPlace ==
  ASSUME NEW S, NEW n \in Nat, NEW place, InPlaces(S, n, place),
         NEW list, list = ListedBy(S, n, place)
  PROVE  IsListing(list, S, n, place)
<1> USE DEF InPlaces, ListedBy
<1>1. ASSUME NEW i \in 1..n PROVE list[i] \in S /\ place[list[i]] = i - 1
  <2>1. i - 1 \in 0..(n - 1)
    OBVIOUS
  <2>2. \E p \in S : place[p] = i - 1
    BY <2>1
  <2>3. list[i] = CHOOSE p \in S : place[p] = i - 1
    OBVIOUS
  <2> QED
    BY <2>2, <2>3
<1>2. ASSUME NEW p \in S PROVE \E i \in 1..n : list[i] = p
  <2>1. place[p] \in 0..(n - 1)
    OBVIOUS
  <2>2. place[p] + 1 \in 1..n /\ (place[p] + 1) - 1 = place[p]
    BY <2>1
  <2>3. PICK i \in 1..n : i - 1 = place[p]
    BY <2>2
  <2> QED
    BY <1>1, <2>3
<1>3. Len(list) = n /\ list = [i \in 1..n |-> list[i]]
  BY ListIs
<1> QED
  BY <1>1, <1>2, <1>3 DEF IsListing

-----------------------------------------------------------------------------
(***************************************************************************)
(* The table of the panel. Its columns are finitely many moves, each of    *)
(* one column, in an order that the user's own comes before. The lines     *)
(* above the total are sums over the same booked legs, and the adjustment  *)
(* of a row in focus is a sum over those of its group; every other figure  *)
(* is a number. The invariant adds to that of the estimate that the focus  *)
(* is on everything or on one group, and what the columns are made of.     *)
(***************************************************************************)

\* What the table is looked at with: one lens, a focus on everything or on one
\* group, finitely many columns, and prices of which a move can be named.
AsTyped(v) == v \in Int /\ v > 0 /\ \A p \in Pool : \A u \in p.price \cup p.und : u <= 100 * v
IsOrder(list) == Len(list) \in Nat /\ list = [i \in 1..Len(list) |-> list[i]]
LooksFine ==
  /\ lens \in Lenses /\ days \in Int /\ range \in Int
  /\ assetFocus \in {All, {}} \/ \E id : assetFocus = {id}
  /\ expiryFocus = All \/ \E id : expiryFocus = {id}
ColumnsFine ==
  /\ IsFiniteSet(percents) /\ \A v \in percents : v < 100 /\ 0 < v
  /\ IsFiniteSet(prices) /\ \A q \in prices : AsTyped(q.price)
  /\ IsOrder(order)
LensInv == PanelInv /\ LooksFine /\ ColumnsFine

\* No two of the columns are of one move, and no move takes all there is.
LEMMA PctAre ==
  ASSUME PanelInv, ColumnsFine
  PROVE  /\ IsFiniteSet(PctColumns(percents))
         /\ \A c \in PctColumns(percents) : c.shock \in Int /\ -100 < c.shock
         /\ \A c, d \in PctColumns(percents) : c.shock = d.shock => c = d
<1>1. percents \subseteq Int /\ IsFiniteSet(percents) /\ \A v \in percents : v < 100 /\ 0 < v
  BY DEF PanelInv, ColumnsFine
<1>2. PICK falls : falls = {-m : m \in percents}
  OBVIOUS
<1>3. IsFiniteSet(falls)
  <2>1. PICK f : f = [m \in percents |-> -m]
    OBVIOUS
  <2>2. falls = {f[m] : m \in percents}
    BY <1>2, <2>1
  <2> QED
    BY <1>1, <2>2, ImageIsFinite
<1>4. PICK signed : signed = SignedLevels(percents)
  OBVIOUS
<1>5. signed \subseteq percents \cup falls
  BY <1>2, <1>4 DEF SignedLevels
<1>6. IsFiniteSet(signed)
  BY <1>1, <1>3, <1>5, FS_Union, FS_Subset
<1>7. \A s \in signed : s \in Int /\ -100 < s
  BY <1>1, <1>2, <1>5
<1>8. PICK f : f = [s \in signed |-> [shock |-> s, kind |-> "pct", id |-> <<"pct", s>>]]
  OBVIOUS
<1>9. PctColumns(percents) = {f[s] : s \in signed}
  BY <1>4, <1>8 DEF PctColumns
<1>10. \A s \in signed : f[s].shock = s
  BY <1>8
<1>11. IsFiniteSet(PctColumns(percents))
  BY <1>6, <1>9, ImageIsFinite
<1> QED
  BY <1>7, <1>9, <1>10, <1>11
LEMMA PricesAre ==
  ASSUME PanelInv, ColumnsFine, NEW priced, priced = PriceColumns(PricesShown, Spots)
  PROVE  /\ IsFiniteSet(priced)
         /\ \A c \in priced : c.shock \in Int /\ -100 < c.shock
<1>1. PICK shown : shown = PricesShown
  OBVIOUS
<1>2. PICK spots : spots = Spots
  OBVIOUS
<1>3. PICK used : used = {q \in shown : spots[q.symbol] > 0}
  OBVIOUS
<1>4. shown \subseteq prices /\ prices \subseteq [symbol : Symbols, price : Int] /\ IsFiniteSet(prices)
  BY <1>1 DEF PricesShown, PanelInv, ColumnsFine
<1>5. IsFiniteSet(used)
  BY <1>3, <1>4, FS_Subset
<1>6. PICK f : f = [q \in used |-> [shock |-> ((q.price - spots[q.symbol]) * 100) \div spots[q.symbol],
                                    kind |-> "price", id |-> <<q.symbol, q.price>>]]
  OBVIOUS
<1>7. priced = {f[q] : q \in used}
  BY <1>1, <1>2, <1>3, <1>6 DEF PriceColumns
<1>8. \A q \in used : f[q].shock = ((q.price - spots[q.symbol]) * 100) \div spots[q.symbol]
  BY <1>6
<1>9. ASSUME NEW q \in used
      PROVE  f[q].shock \in Int /\ -100 < f[q].shock
  <2>1. q.symbol \in Symbols /\ q.price \in Int /\ AsTyped(q.price)
    BY <1>3, <1>4 DEF ColumnsFine
  <2>2. spots[q.symbol] > 0
    BY <1>3
  <2>3. spots[q.symbol] = IF q.symbol \in PricedKeys THEN Default(Assumptions[q.symbol].spot, 0) ELSE 0
    BY <1>2, <2>1 DEF Spots
  <2>4. q.symbol \in PricedKeys
    <3>1. SUFFICES ASSUME q.symbol \notin PricedKeys PROVE FALSE
      OBVIOUS
    <3> QED
      BY <2>2, <2>3, <3>1
  <2>5. PICK s \in Int : s > 0 /\ Assumptions[q.symbol].spot = {s} /\ Quoted(s)
    BY <2>4, KeyIs
  <2>6. spots[q.symbol] = s
    BY <2>3, <2>4, <2>5, DefaultIs
  <2>7. s <= 100 * q.price
    BY <2>1, <2>5 DEF AsTyped, Quoted
  <2>8. PICK p \in Int : p = q.price
    BY <2>1
  <2>9. ((p - s) * 100) \div s \in Int /\ -100 < ((p - s) * 100) \div s
    BY <2>5, <2>7, <2>8, Z3
  <2> QED
    BY <1>8, <2>6, <2>8, <2>9
<1> QED
  BY <1>5, <1>7, <1>9, ImageIsFinite
LEMMA NaturalAre ==
  ASSUME PanelInv, ColumnsFine
  PROVE  /\ IsFiniteSet(NaturalColumns)
         /\ \A c \in NaturalColumns : c.shock \in Int /\ -100 < c.shock
         /\ \A c, d \in NaturalColumns : c.shock = d.shock => c = d
<1>1. PICK priced : priced = PriceColumns(PricesShown, Spots)
  OBVIOUS
<1>2. PICK pct : pct = PctColumns(percents)
  OBVIOUS
<1>3. PICK moves : moves = {c.shock : c \in priced}
  OBVIOUS
<1>4. PICK one : one = [s \in moves |-> CHOOSE c \in priced : c.shock = s]
  OBVIOUS
<1>5. NaturalColumns = {c \in pct : c.shock \notin moves} \cup {one[s] : s \in moves}
  <2>1. NaturalColumns = {c \in pct : c.shock \notin {d.shock : d \in priced}}
                         \cup {CHOOSE c \in priced : c.shock = s : s \in {d.shock : d \in priced}}
    BY <1>1, <1>2 DEF NaturalColumns, BuildColumns
  <2>2. {CHOOSE c \in priced : c.shock = s : s \in moves} = {one[s] : s \in moves}
    BY <1>4
  <2> QED
    BY <1>3, <2>1, <2>2
<1>6. \A s \in moves : one[s] \in priced /\ one[s].shock = s
  BY <1>3, <1>4
<1>7. IsFiniteSet(priced) /\ \A c \in priced : c.shock \in Int /\ -100 < c.shock
  BY <1>1, PricesAre
<1>8. /\ IsFiniteSet(pct) /\ \A c \in pct : c.shock \in Int /\ -100 < c.shock
      /\ \A c, d \in pct : c.shock = d.shock => c = d
  BY <1>2, PctAre
<1>9. NaturalColumns \subseteq pct \cup priced
  BY <1>5, <1>6
<1>10. IsFiniteSet(NaturalColumns)
  BY <1>7, <1>8, <1>9, FS_Union, FS_Subset
<1>11. \A c \in NaturalColumns : c.shock \in Int /\ -100 < c.shock
  BY <1>7, <1>8, <1>9
<1>12. ASSUME NEW c \in NaturalColumns, NEW d \in NaturalColumns, c.shock = d.shock
       PROVE  c = d
  <2>1. \A e \in NaturalColumns : (e \in pct /\ e.shock \notin moves) \/ (e.shock \in moves /\ e = one[e.shock])
    BY <1>5, <1>6
  <2> QED
    BY <1>8, <1>12, <2>1
<1> QED
  BY <1>10, <1>11, <1>12

\* The order the user gave has a place for every column, and moves are compared
\* by size.
LEMMA PlaceIsNumber ==
  ASSUME ColumnsFine, NEW c
  PROVE  PlaceIn(order, c) \in Int
<1>1. PICK T : T = {Len(order) + 1} \cup {i \in DOMAIN order : order[i] = c.id}
  OBVIOUS
<1>2. Len(order) \in Nat /\ DOMAIN order = 1..Len(order)
  BY DEF ColumnsFine, IsOrder
<1>3. T \subseteq Int /\ T # {} /\ 0 \in Int /\ \A i \in T : 0 <= i
  BY <1>1, <1>2
<1>4. Min(T) \in T
  BY <1>3, MinIs
<1> QED
  BY <1>1, <1>3, <1>4 DEF PlaceIn
LEMMA WiderIs ==
  ASSUME NEW c, NEW d, NEW e, c.shock \in Int, d.shock \in Int, e.shock \in Int
  PROVE  /\ ~Wider(c, c)
         /\ Wider(c, d) \/ Wider(d, c) \/ c.shock = d.shock
         /\ Wider(c, d) /\ Wider(d, e) => Wider(c, e)
<1>1. ASSUME NEW s \in Int PROVE Max({s, -s}) = IF s >= -s THEN s ELSE -s
  BY MaxOfTwo
<1> QED
  BY <1>1 DEF Wider

\* So the columns are in one order, each at one place.
LEMMA ColumnsAre ==
  ASSUME PanelInv, ColumnsFine
  PROVE  Cardinality(NaturalColumns) \in Nat /\ \E place : IsListing(Columns, NaturalColumns, Cardinality(NaturalColumns), place)
<1>1. PICK S : S = NaturalColumns
  OBVIOUS
<1>2. /\ IsFiniteSet(S) /\ \A c \in S : c.shock \in Int
      /\ \A c, d \in S : c.shock = d.shock => c = d
  BY <1>1, NaturalAre
<1>3. PICK at : at = [c \in S |-> PlaceIn(order, c)]
  OBVIOUS
<1>4. \A c \in S : at[c] \in Int
  BY <1>3, PlaceIsNumber
<1>5. PICK below : below = [p \in S |-> {q \in S : at[q] < at[p] \/ (at[q] = at[p] /\ Wider(q, p))}]
  OBVIOUS
<1>6. \A p, q \in S : q \in below[p] <=> at[q] < at[p] \/ (at[q] = at[p] /\ Wider(q, p))
  BY <1>5
<1>7. \A p \in S : below[p] \in SUBSET S /\ p \notin below[p]
  BY <1>2, <1>4, <1>5, <1>6, WiderIs
<1>8. ASSUME NEW p \in S, NEW q \in S
      PROVE  p = q \/ p \in below[q] \/ q \in below[p]
  <2>1. at[p] \in Int /\ at[q] \in Int /\ (Wider(p, q) \/ Wider(q, p) \/ p = q)
    BY <1>2, <1>4, WiderIs
  <2> QED
    BY <1>6, <2>1
<1>9. ASSUME NEW p \in S, NEW q \in S, p \in below[q]
      PROVE  below[p] \subseteq below[q]
  <2>1. SUFFICES ASSUME NEW r \in below[p] PROVE r \in below[q]
    OBVIOUS
  <2>2. r \in S
    BY <1>7
  <2>3. at[p] \in Int /\ at[q] \in Int /\ at[r] \in Int /\ (Wider(r, p) /\ Wider(p, q) => Wider(r, q))
    BY <1>2, <1>4, <2>2, WiderIs
  <2> QED
    BY <1>6, <1>9, <2>1, <2>2, <2>3
<1>10. PICK place : place = [p \in S |-> Cardinality(below[p])]
  OBVIOUS
<1>11. PICK n : n = Cardinality(S)
  OBVIOUS
<1>12. n \in Nat /\ InPlaces(S, n, place)
  <2>1. /\ n \in Nat /\ place \in [S -> 0..(n - 1)]
        /\ \A p, q \in S : place[p] = place[q] => p = q
        /\ \A k \in 0..(n - 1) : \E p \in S : place[p] = k
    BY <1>2, <1>7, <1>8, <1>9, <1>10, <1>11, Places
  <2> QED
    BY <2>1 DEF InPlaces
<1>13. Columns = ListedBy(S, n, place)
  <2> DEFINE behind(c) == {d \in S : \/ PlaceIn(order, d) < PlaceIn(order, c)
                                     \/ PlaceIn(order, d) = PlaceIn(order, c) /\ Wider(d, c)}
  <2>1. Columns = [i \in 1..n |-> CHOOSE c \in S : Cardinality(behind(c)) = i - 1]
    BY <1>1, <1>11 DEF Columns, OrderColumns
  <2>2. \A c \in S : behind(c) = below[c]
    BY <1>3, <1>5
  <2>3. \A c \in S : Cardinality(behind(c)) = place[c]
    BY <1>10, <2>2
  <2> HIDE DEF behind
  <2>4. ASSUME NEW i \in 1..n
        PROVE  (CHOOSE c \in S : Cardinality(behind(c)) = i - 1) = (CHOOSE c \in S : place[c] = i - 1)
    <3>1. \A c \in S : Cardinality(behind(c)) = i - 1 <=> place[c] = i - 1
      BY <2>3
    <3> QED
      BY <3>1
  <2>5. Columns = [i \in 1..n |-> CHOOSE c \in S : place[c] = i - 1]
    BY <2>1, <2>4
  <2> QED
    BY <2>5 DEF ListedBy
<1>14. IsListing(Columns, S, n, place)
  BY <1>12, <1>13, ListedByPlace, Zenon
<1> QED
  BY <1>1, <1>11, <1>12, <1>14

\* None is lost or shown twice.
LEMMA AllAreKept ==
  ASSUME PanelInv, ColumnsFine
  PROVE  ColumnsKept
<1>1. PICK S : S = NaturalColumns
  OBVIOUS
<1>2. PICK n : n = Cardinality(S)
  OBVIOUS
<1>3. /\ IsFiniteSet(S) /\ \A c \in S : c.shock \in Int
      /\ \A c, d \in S : c.shock = d.shock => c = d
  BY <1>1, NaturalAre
<1>4. PICK place : IsListing(Columns, S, n, place)
  BY <1>1, <1>2, ColumnsAre
<1>5. /\ Len(Columns) = n /\ Columns = [i \in 1..n |-> Columns[i]]
      /\ \A i \in 1..n : Columns[i] \in S
      /\ \A c \in S : \E i \in 1..n : Columns[i] = c
  BY <1>4 DEF IsListing
<1>6. ToSet(Columns) = S
  <2>1. DOMAIN Columns = 1..n
    BY <1>5
  <2>2. ToSet(Columns) = {Columns[i] : i \in 1..n}
    BY <2>1 DEF ToSet
  <2>3. (\A i \in 1..n : Columns[i] \in S) /\ \A c \in S : \E i \in 1..n : Columns[i] = c
    BY <1>5
  <2> QED
    BY <2>2, <2>3
<1>7. PICK f : f = [c \in S |-> c.shock]
  OBVIOUS
<1>8. Levels = {f[c] : c \in S}
  BY <1>1, <1>7 DEF Levels
<1>9. f \in Bijection(S, Levels)
  <2>1. f \in Surjection(S, Levels)
    BY <1>7, <1>8 DEF Surjection
  <2>2. f \in Injection(S, Levels)
    BY <1>3, <1>7, <1>8 DEF Injection, IsInjective
  <2> QED
    BY <2>1, <2>2 DEF Bijection
<1>10. Cardinality(Levels) = n
  BY <1>2, <1>3, <1>9, FS_Bijection DEF ExistsBijection
<1> QED
  BY <1>1, <1>2, <1>5, <1>6, <1>10 DEF ColumnsKept

\* A sum of sums is the sum of the two, and of nothing nothing.
LEMMA TotalOfSums ==
  ASSUME NEW S, IsFiniteSet(S), NEW f, NEW g, NEW h,
         \A x \in S : g[x] \in Int /\ h[x] \in Int /\ f[x] = g[x] + h[x]
  PROVE  Total(f, S) = Total(g, S) + Total(h, S)
<1> DEFINE bad == {s \in SUBSET S : Total(f, s) # Total(g, s) + Total(h, s)}
<1>1. SUFFICES ASSUME bad # {} PROVE FALSE
  OBVIOUS
<1>2. \A s \in bad : IsFiniteSet(s)
  BY FS_Subset
<1>3. PICK s \in bad : \A t \in bad : Cardinality(s) <= Cardinality(t)
  <2> HIDE DEF bad
  <2> QED
    BY <1>1, <1>2, SmallestBad
<1>4. IsFiniteSet(s) /\ s \in SUBSET S /\ Total(f, s) # Total(g, s) + Total(h, s)
  BY <1>2, <1>3
<1>5. s # {}
  <2>1. SUFFICES ASSUME s = {} PROVE FALSE
    OBVIOUS
  <2>2. Total(f, s) = 0 /\ Total(g, s) = 0 /\ Total(h, s) = 0
    BY <2>1, TotalOfNone
  <2> QED
    BY <1>4, <2>2
<1>6. PICK x \in s : TRUE
  BY <1>5
<1>7. PICK rest : rest = s \ {x}
  OBVIOUS
<1>8. /\ \A y \in s : g[y] \in Int /\ h[y] \in Int /\ f[y] \in Int
      /\ f[x] = g[x] + h[x]
  BY <1>4
<1>9. Total(f, s) = f[x] + Total(f, rest)
  BY <1>4, <1>7, <1>8, TotalRemove
<1>10. Total(g, s) = g[x] + Total(g, rest)
  BY <1>4, <1>7, <1>8, TotalRemove
<1>11. Total(h, s) = h[x] + Total(h, rest)
  BY <1>4, <1>7, <1>8, TotalRemove
<1>12. IsFiniteSet(rest) /\ rest \in SUBSET S /\ Cardinality(rest) < Cardinality(s)
  BY <1>4, <1>7, OneLess
<1>13. Total(f, rest) = Total(g, rest) + Total(h, rest)
  <2>1. ~(Cardinality(s) <= Cardinality(rest))
    <3>1. Cardinality(s) \in Nat /\ Cardinality(rest) \in Nat
      BY <1>4, <1>12, FS_CardinalityType
    <3> QED
      BY <1>12, <3>1
  <2>2. rest \notin bad
    BY <1>3, <2>1
  <2> QED
    BY <1>12, <2>2
<1>14. Total(g, rest) \in Int /\ Total(h, rest) \in Int
  <2>1. \A y \in rest : g[y] \in Int /\ h[y] \in Int
    BY <1>12
  <2>2. Total(g, rest) \in Int
    BY <1>12, <2>1, TotalRemove
  <2>3. Total(h, rest) \in Int
    BY <1>12, <2>1, TotalRemove
  <2> QED
    BY <2>2, <2>3
<1>15. Total(f, s) = Total(g, s) + Total(h, s)
  BY <1>6, <1>8, <1>9, <1>10, <1>11, <1>13, <1>14
<1> QED
  BY <1>4, <1>15
LEMMA TotalOfZeros ==
  ASSUME NEW S, IsFiniteSet(S), NEW f, \A x \in S : f[x] = 0
  PROVE  Total(f, S) = 0
<1>1. \A x \in S : f[x] \in Int /\ f[x] = f[x] + f[x]
  OBVIOUS
<1>2. PICK sum : sum = Total(f, S)
  OBVIOUS
<1>3. sum = sum + sum
  BY <1>1, <1>2, TotalOfSums
<1>4. \A x \in S : f[x] \in Int
  BY <1>1
<1>5. sum \in Int
  BY <1>2, <1>4, TotalRemove
<1>6. \A n \in Int : n = n + n => n = 0
  OBVIOUS
<1>7. sum = 0
  BY <1>3, <1>5, <1>6
<1> QED
  BY <1>2, <1>7

\* What the booked legs add, and the parts it is shown in.
PnlOf == [l \in Booked |-> l.pnl]
BackOf == [l \in Booked |-> CommissionAddBack(l, closed, StillOpen)]
ChangeOf == [l \in Booked |-> LegAdjustment(l, closed, commissions, StillOpen)]

\* The booked legs are finitely many, and all of their figures are numbers.
LEMMA BookedLegs ==
  ASSUME NEW legs, legs \subseteq Booked
  PROVE  /\ IsFiniteSet(legs)
         /\ \A l \in legs : PnlOf[l] \in Int /\ BackOf[l] \in Int /\ ChangeOf[l] \in Int
         /\ AllAdjustment(legs) = Total(ChangeOf, legs) /\ AllAdjustment(legs) \in Int
<1>1. IsFiniteSet(legs)
  BY RiskAssumption, FS_Subset
<1>2. \A l \in legs : l.pnl \in Int /\ l.commission \in Int
  BY RiskAssumption
<1>3. \A l \in legs : PnlOf[l] = l.pnl /\ BackOf[l] = CommissionAddBack(l, closed, StillOpen)
                      /\ ChangeOf[l] = LegAdjustment(l, closed, commissions, StillOpen)
  BY DEF PnlOf, BackOf, ChangeOf
<1>4. \A l \in legs : CommissionAddBack(l, closed, StillOpen) \in Int
  BY <1>2 DEF CommissionAddBack
<1>5. \A l \in legs : LegAdjustment(l, closed, commissions, StillOpen) \in Int
  BY <1>2, <1>4 DEF LegAdjustment
<1>6. AllAdjustment(legs) = Total(ChangeOf, legs)
  <2>1. PICK f : f = [l \in legs |-> LegAdjustment(l, closed, commissions, StillOpen)]
    OBVIOUS
  <2>2. DOMAIN f = legs /\ \A l \in DOMAIN f : f[l] = ChangeOf[l]
    BY <1>3, <2>1
  <2>3. SumFunction(f) = Total(ChangeOf, DOMAIN f)
    BY <1>1, <2>2, SumIs
  <2> QED
    BY <2>1, <2>2, <2>3 DEF AllAdjustment
<1>7. Total(ChangeOf, legs) \in Int
  BY <1>1, <1>3, <1>5, TotalRemove
<1> QED
  BY <1>1, <1>2, <1>3, <1>4, <1>5, <1>6, <1>7

\* The adjustment of booked legs is what they made and the commission that is
\* not shown apart.
LEMMA ChangeIs ==
  ASSUME NEW legs, legs \subseteq Booked
  PROVE  /\ Total(PnlOf, legs) \in Int /\ Total(BackOf, legs) \in Int
         /\ AllAdjustment(legs) = (IF closed THEN Total(PnlOf, legs) ELSE 0)
                                  + (IF commissions THEN 0 ELSE Total(BackOf, legs))
<1>1. /\ IsFiniteSet(legs)
      /\ \A l \in legs : PnlOf[l] \in Int /\ BackOf[l] \in Int /\ ChangeOf[l] \in Int
      /\ AllAdjustment(legs) = Total(ChangeOf, legs)
  BY BookedLegs
<1>2. PICK pnl : pnl = [l \in Booked |-> IF closed THEN PnlOf[l] ELSE 0]
  OBVIOUS
<1>3. PICK back : back = [l \in Booked |-> IF commissions THEN 0 ELSE BackOf[l]]
  OBVIOUS
<1>4. \A l \in legs : pnl[l] \in Int /\ back[l] \in Int
  BY <1>1, <1>2, <1>3
<1>5. \A l \in legs : ChangeOf[l] = pnl[l] + back[l]
  BY <1>2, <1>3 DEF ChangeOf, LegAdjustment, PnlOf, BackOf
<1>6. Total(ChangeOf, legs) = Total(pnl, legs) + Total(back, legs)
  BY <1>1, <1>4, <1>5, TotalOfSums
<1>7. Total(pnl, legs) = IF closed THEN Total(PnlOf, legs) ELSE 0
  <2>1. CASE closed
    <3>1. \A l \in legs : pnl[l] = PnlOf[l]
      BY <1>2, <2>1
    <3> QED
      BY <1>1, <2>1, <3>1, TotalSame
  <2>2. CASE ~closed
    <3>1. \A l \in legs : pnl[l] = 0
      BY <1>2, <2>2
    <3> QED
      BY <1>1, <2>2, <3>1, TotalOfZeros
  <2> QED
    BY <2>1, <2>2
<1>8. Total(back, legs) = IF commissions THEN 0 ELSE Total(BackOf, legs)
  <2>1. CASE ~commissions
    <3>1. \A l \in legs : back[l] = BackOf[l]
      BY <1>3, <2>1
    <3> QED
      BY <1>1, <2>1, <3>1, TotalSame
  <2>2. CASE commissions
    <3>1. \A l \in legs : back[l] = 0
      BY <1>3, <2>2
    <3> QED
      BY <1>1, <2>2, <3>1, TotalOfZeros
  <2> QED
    BY <2>1, <2>2
<1>9. Total(PnlOf, legs) \in Int /\ Total(BackOf, legs) \in Int
  <2>1. Total(PnlOf, legs) \in Int
    BY <1>1, TotalRemove
  <2>2. Total(BackOf, legs) \in Int
    BY <1>1, TotalRemove
  <2> QED
    BY <2>1, <2>2
<1> QED
  BY <1>1, <1>6, <1>7, <1>8, <1>9

\* The three lines of a table are that adjustment.
LEMMA PartsAre ==
  ASSUME NEW t, t.booked \subseteq Booked
  PROVE  /\ Split(t).open \in Int /\ Split(t).closed \in Int
         /\ ViewBooked(t) \in Int
         /\ Split(t).open + BookedRow(t) + ChargedRow(t) = AllAdjustment(t.booked)
<1>1. PICK legs : legs = t.booked
  OBVIOUS
<1>2. PICK apart : apart = {l \in legs : closed /\ <<l.account, l.contract>> \in
                                           {<<k.account, k.contract>> : k \in {j \in legs : j.pnl # 0}}}
  OBVIOUS
<1>3. PICK others : others = legs \ apart
  OBVIOUS
<1>4. /\ IsFiniteSet(legs) /\ legs \subseteq Booked
      /\ \A l \in legs : PnlOf[l] \in Int /\ BackOf[l] \in Int
  BY <1>1, BookedLegs
<1>5. apart \subseteq legs /\ others \subseteq legs /\ apart \cap others = {} /\ apart \cup others = legs
  BY <1>2, <1>3
<1>6. ASSUME NEW T, T \subseteq legs
      PROVE  SumFunction([l \in T |-> CommissionAddBack(l, closed, StillOpen)]) = Total(BackOf, T)
  <2>1. PICK f : f = [l \in T |-> CommissionAddBack(l, closed, StillOpen)]
    OBVIOUS
  <2>2. DOMAIN f = T /\ IsFiniteSet(T)
    BY <1>4, <1>6, <2>1, FS_Subset
  <2>3. \A l \in DOMAIN f : f[l] = BackOf[l]
    BY <1>4, <1>6, <2>1 DEF BackOf
  <2>4. SumFunction(f) = Total(BackOf, DOMAIN f)
    BY <2>2, <2>3, SumIs
  <2> QED
    BY <2>1, <2>2, <2>4
<1>7. Split(t).closed = Total(BackOf, apart) /\ Split(t).open = Total(BackOf, others)
  <2>1. others = {l \in legs : ~(closed /\ <<l.account, l.contract>> \in
                                   {<<k.account, k.contract>> : k \in {j \in legs : j.pnl # 0}})}
    BY <1>2, <1>3
  <2>2. Split(t) = [closed |-> SumFunction([l \in apart |-> CommissionAddBack(l, closed, StillOpen)]),
                    open |-> SumFunction([l \in others |-> CommissionAddBack(l, closed, StillOpen)])]
    BY <1>1, <1>2, <2>1, Zenon DEF Split
  <2> QED
    BY <1>5, <1>6, <2>2
<1>8. Total(BackOf, legs) = Total(BackOf, apart) + Total(BackOf, others)
  BY <1>4, <1>5, TotalOfTwo
<1>9. Total(BackOf, apart) \in Int /\ Total(BackOf, others) \in Int
  <2>1. Total(BackOf, apart) \in Int
    BY <1>4, <1>5, ChangeIs
  <2>2. Total(BackOf, others) \in Int
    BY <1>4, <1>5, ChangeIs
  <2> QED
    BY <2>1, <2>2
<1>10. ViewBooked(t) = IF closed THEN Total(PnlOf, legs) ELSE 0
  <2>1. PICK f : f = [l \in legs |-> l.pnl]
    OBVIOUS
  <2>2. DOMAIN f = legs /\ \A l \in DOMAIN f : f[l] = PnlOf[l]
    BY <1>4, <2>1 DEF PnlOf
  <2>3. SumFunction(f) = Total(PnlOf, legs)
    BY <1>4, <2>2, SumIs
  <2> QED
    BY <1>1, <2>1, <2>3 DEF ViewBooked
<1>11. /\ Total(PnlOf, legs) \in Int
       /\ AllAdjustment(legs) = (IF closed THEN Total(PnlOf, legs) ELSE 0)
                                + (IF commissions THEN 0 ELSE Total(BackOf, legs))
  BY <1>4, ChangeIs
<1>12. BookedRow(t) = ViewBooked(t) + Split(t).closed
  <2>1. ViewBooked(t) \in Int /\ Split(t).closed \in Int
    BY <1>7, <1>9, <1>10, <1>11
  <2> QED
    BY <2>1 DEF BookedRow
<1>13. ChargedRow(t) = IF commissions THEN -(Split(t).open + Split(t).closed) ELSE 0
  BY DEF ChargedRow
<1> QED
  BY <1>1, <1>7, <1>8, <1>9, <1>10, <1>11, <1>12, <1>13

\* The figures of every leg of a row are numbers.
LEMMA HorizonIsNumber == LensInv => Horizon \in Int
<1> SUFFICES ASSUME LensInv PROVE Horizon \in Int
  OBVIOUS
<1>1. PICK T : T = {365} \cup UNION {l.days : l \in Modeled}
  OBVIOUS
<1>2. \A l \in Modeled : l.days \subseteq Nat
  <2>1. \A l \in Modeled : LegOf(l, today) /\ today \in Nat
    BY BookFields DEF LensInv, PanelInv
  <2> QED
    BY <2>1, LegFields
<1>3. T \subseteq Int /\ T # {} /\ 0 \in Int /\ \A n \in T : 0 <= n
  BY <1>1, <1>2
<1>4. MaxDays \in Int
  <2>1. Min(T) \in T
    BY <1>3, MinIs
  <2> QED
    BY <1>1, <1>3, <2>1 DEF MaxDays
<1>5. days \in Int
  BY DEF LensInv, LooksFine
<1> QED
  BY <1>4, <1>5, MinOfTwo DEF Horizon
LEMMA LegIsNumber ==
  ASSUME LensInv, NEW l \in Modeled, NEW a, a = Assumptions[UnderlyingKey(l.position)], NEW s \in Int
  PROVE  TerminalPnl(l, a, s) \in Int /\ ModeledPnl(l, a, s, Horizon) \in Int
<1>1. PICK spot \in Int : spot > 0 /\ a.spot = {spot} /\ a.volatility \in Int /\ a.beta \in Int
  BY KeyIs DEF Modeled, LensInv
<1>2. LegOf(l, today) /\ today \in Nat
  BY BookFields DEF PanelInv, LensInv
<1>3. /\ l.quantity \in Int /\ l.cost \in Int /\ l.multiplier \in Int /\ l.strike \in Int
      /\ l.marked \subseteq Int /\ l.anchor \subseteq Int
      /\ IsOption(l) => \E n \in Nat : l.days = {n}
      /\ ~IsOption(l) => l.days = {}
  BY <1>2, LegFields
<1>4. PICK d \in Nat : d = Default(l.days, 0)
  <2>1. CASE IsOption(l)
    BY <1>3, <2>1, DefaultIs
  <2>2. CASE ~IsOption(l)
    BY <1>3, <2>2, DefaultIs
  <2> QED
    BY <2>1, <2>2
<1>5. ShockedSpot(a, s) \in Int
  <2>1. Default(a.spot, 0) = spot
    BY <1>1, DefaultIs
  <2>2. spot * (100 + s * a.beta) \in Int
    BY <1>1
  <2>3. (spot * (100 + s * a.beta)) \div 100 \in Int
    BY <2>2
  <2> QED
    BY <2>1, <2>3 DEF ShockedSpot
<1>6. Remaining(l, Horizon) \in Int
  <2>1. d - Horizon \in Int
    BY HorizonIsNumber
  <2> QED
    BY <1>4, <2>1, MaxOfTwo DEF Remaining
<1>7. TerminalPnl(l, a, s) \in Int
  BY <1>1, <1>3, <1>5, ValueIsNumber, PnlIsNumber DEF TerminalPnl
<1>8. PICK value \in Int : value = PnlAt(l, ValueAt(l, Default(l.anchor, Default(a.spot, 0)), d, a.volatility))
  <2>1. Default(l.anchor, Default(a.spot, 0)) \in Int
    BY <1>1, <1>3, DefaultIs
  <2> QED
    BY <1>1, <1>3, <2>1, ValueIsNumber, PnlIsNumber
<1>9. ModelGap(l, a, Horizon) \in Int
  <2>1. Default(l.marked, 0) \in Int
    BY <1>3, DefaultIs
  <2>2. PICK gap \in Int : gap = Default(l.marked, 0) - value
    BY <2>1
  <2>3. d > 0 => (gap * Remaining(l, Horizon)) \div d \in Int
    <3>1. gap * Remaining(l, Horizon) \in Int
      BY <1>6
    <3> QED
      BY <3>1
  <2>4. ModelGap(l, a, Horizon) =
          IF l.marked = {} THEN 0 ELSE IF ~IsOption(l) THEN gap
          ELSE IF d <= 0 THEN 0 ELSE (gap * Remaining(l, Horizon)) \div d
    BY <1>4, <1>8, <2>2 DEF ModelGap
  <2> QED
    BY <2>3, <2>4
<1>10. PnlAt(l, ValueAt(l, ShockedSpot(a, s), Remaining(l, Horizon), a.volatility)) \in Int
  BY <1>1, <1>3, <1>5, <1>6, ValueIsNumber, PnlIsNumber
<1> QED
  BY <1>7, <1>9, <1>10 DEF ModeledPnl

\* So are those of its curve, at the start and at every column.
LEMMA CurveIsNumber ==
  ASSUME LensInv, NEW legs, legs \subseteq Viewed,
         NEW curve, curve = BuildCurves(legs, Assumptions, range, Horizon, Levels), NEW by \in Int
  PROVE  \A s \in {0} \cup Levels : /\ Shift(curve, by)[s].terminal \in Int
                                    /\ Shift(curve, by)[s].modeled \in Int
<1>1. PICK moves : moves = CurveShocks(legs, Assumptions, range, Levels)
  OBVIOUS
<1>2. \A s \in Levels : s \in Int /\ -100 < s
  BY NaturalAre DEF Levels, LensInv
<1>3. \A s \in {0} \cup Levels : s \in moves /\ s \in Int
  BY <1>1, <1>2 DEF CurveShocks
<1>4. SUFFICES ASSUME NEW s \in {0} \cup Levels
               PROVE  Shift(curve, by)[s].terminal \in Int /\ Shift(curve, by)[s].modeled \in Int
  OBVIOUS
<1>5. PICK end : end = [l \in legs |-> TerminalPnl(l, Assumptions[UnderlyingKey(l.position)], s)]
  OBVIOUS
<1>6. PICK mid : mid = [l \in legs |-> ModeledPnl(l, Assumptions[UnderlyingKey(l.position)], s, Horizon)]
  OBVIOUS
<1>7. curve[s] = [terminal |-> SumFunction(end), modeled |-> SumFunction(mid)] /\ DOMAIN curve = moves
  <2>1. curve = [k \in moves |->
                  [terminal |-> SumFunction([l \in legs |-> TerminalPnl(l, Assumptions[UnderlyingKey(l.position)], k)]),
                   modeled |-> SumFunction([l \in legs |->
                                  ModeledPnl(l, Assumptions[UnderlyingKey(l.position)], k, Horizon)])]]
    BY <1>1 DEF BuildCurves
  <2>2. s \in moves
    BY <1>3
  <2>3. curve[s] = [terminal |-> SumFunction([l \in legs |-> TerminalPnl(l, Assumptions[UnderlyingKey(l.position)], s)]),
                    modeled |-> SumFunction([l \in legs |->
                                   ModeledPnl(l, Assumptions[UnderlyingKey(l.position)], s, Horizon)])]
    BY <2>1, <2>2
  <2> QED
    BY <1>5, <1>6, <2>1, <2>3
<1>8. IsFiniteSet(legs) /\ \A l \in legs : l \in Modeled
  <2>1. legs \subseteq Modeled /\ Modeled \subseteq Legs /\ IsFiniteSet(Legs)
    BY BookFields DEF Viewed, LensInv
  <2> QED
    BY <2>1, FS_Subset
<1>9. \A l \in legs : end[l] \in Int /\ mid[l] \in Int
  BY <1>3, <1>5, <1>6, <1>8, LegIsNumber
<1>10. SumFunction(end) \in Int
  <2>1. DOMAIN end = legs /\ \A l \in legs : end[l] \in Int
    BY <1>5, <1>9
  <2> QED
    BY <1>8, <2>1, SumIsTotal, TotalRemove
<1>11. SumFunction(mid) \in Int
  <2>1. DOMAIN mid = legs /\ \A l \in legs : mid[l] \in Int
    BY <1>6, <1>9
  <2> QED
    BY <1>8, <2>1, SumIsTotal, TotalRemove
<1>12. Shift(curve, by)[s] = [terminal |-> curve[s].terminal + by, modeled |-> curve[s].modeled + by]
  BY <1>3, <1>7 DEF Shift
<1> QED
  BY <1>7, <1>10, <1>11, <1>12

\* The focus is on everything or on one group.
LEMMA FocusIsOne ==
  ASSUME LensInv, NEW lines
  PROVE  Focus(lines) = {} \/ \E id : Focus(lines) = {id}
<1>1. \A ids : PreferredFocus(ids) = {} \/ \E id : PreferredFocus(ids) = {id}
  BY DEF PreferredFocus
<1>2. AssetFocus = {} \/ \E id : AssetFocus = {id}
  <2>1. assetFocus = All \/ assetFocus = {} \/ \E id : assetFocus = {id}
    BY DEF LensInv, LooksFine
  <2> QED
    BY <1>1, <2>1 DEF AssetFocus
<1>3. expiryFocus = All \/ \E id : expiryFocus = {id}
  BY DEF LensInv, LooksFine
<1>4. CASE lens = "asset"
  BY <1>2, <1>4 DEF Focus
<1>5. CASE lens = "expiry"
  <2>1. FocusAll <=> expiryFocus = All
    BY <1>5 DEF FocusAll
  <2> QED
    BY <1>1, <1>3, <1>5, <2>1 DEF Focus
<1>6. CASE lens = "account"
  <2>1. FocusAll
    BY <1>6 DEF FocusAll
  <2> QED
    BY <1>6, <2>1 DEF Focus
<1> QED
  BY <1>4, <1>5, <1>6 DEF LensInv, LooksFine, Lenses

\* The adjustment of a row is of the booked legs of its group.
LEMMA RowOfGroup ==
  ASSUME LensInv, NEW id \in DOMAIN LensRows, NEW row, row = LensRows[id],
         NEW legs, legs = {l \in Viewed : GroupKey(lens, l) = id},
         NEW curve, curve = BuildCurves(legs, Assumptions, range, Horizon, Levels),
         NEW own, own = {l \in ViewedRealized : RealizedGroupKey(lens, l) = id}
  PROVE  /\ row.adjustment = AllAdjustment(own)
         /\ row.curve = Shift(curve, row.adjustment)
         /\ row.now = row.curve[0].modeled
<1>1. PICK adjustments : adjustments = RealizedByGroup(lens, ViewedRealized, closed, commissions, StillOpen)
  OBVIOUS
<1>2. PICK by : by = IF id \in DOMAIN adjustments THEN adjustments[id] ELSE 0
  OBVIOUS
<1>3. row.adjustment = by /\ row.curve = Shift(curve, by) /\ row.now = Shift(curve, by)[0].modeled
  <2>1. id \in {GroupKey(lens, l) : l \in Viewed}
    BY DEF LensRows, BuildRows
  <2>2. LensRows[id] = [legs |-> legs, keys |-> {UnderlyingKey(l.position) : l \in legs},
                        curve |-> Shift(curve, by), now |-> Shift(curve, by)[0].modeled,
                        worst |-> WorstOf(Shift(curve, by)), adjustment |-> by]
    BY <1>1, <1>2, <2>1 DEF LensRows, BuildRows
  <2> QED
    BY <2>2
<1>4. by = AllAdjustment(own)
  <2>1. DOMAIN adjustments = {RealizedGroupKey(lens, l) : l \in ViewedRealized}
    BY <1>1 DEF RealizedByGroup
  <2>2. CASE id \in DOMAIN adjustments
    <3>1. adjustments[id] = SumFunction([l \in {k \in ViewedRealized : RealizedGroupKey(lens, k) = id} |->
                                          LegAdjustment(l, closed, commissions, StillOpen)])
      BY <1>1, <2>1, <2>2 DEF RealizedByGroup
    <3> QED
      BY <1>2, <2>2, <3>1 DEF AllAdjustment
  <2>3. CASE id \notin DOMAIN adjustments
    <3>1. own = {}
      BY <2>1, <2>3
    <3>2. AllAdjustment(own) = Total(ChangeOf, own)
      BY <3>1, BookedLegs
    <3> QED
      BY <1>2, <2>3, <3>1, <3>2, TotalOfNone
  <2> QED
    BY <2>2, <2>3
<1> QED
  BY <1>3, <1>4

\* So in any state of the invariant the lines add up.
LEMMA LinesDoAdd == LensInv => LinesAddUp(Table)
<1> SUFFICES ASSUME LensInv PROVE LinesAddUp(Table)
  OBVIOUS
<1>1. PICK t : t = Table
  OBVIOUS
<1>2. PICK lines : lines = LensRows
  OBVIOUS
<1>3. PICK focus : focus = Focus(lines)
  OBVIOUS
<1>4. PICK focused : focused = focus \cap DOMAIN lines
  OBVIOUS
<1>5. PICK legs : legs = ViewRealizedLegs(focus)
  OBVIOUS
<1>6. /\ t.focus = focus /\ t.focused = focused /\ t.booked = legs
      /\ t.total = TotalRow(lines, focused, AllAdjustment(legs))
  BY <1>1, <1>2, <1>3, <1>4, <1>5 DEF Table, TableWith, TableOn, TableOf
<1>7. RealizedLegs \subseteq Booked /\ ViewedRealized \subseteq RealizedLegs /\ legs \subseteq Booked
  BY <1>5 DEF RealizedLegs, ViewedRealized, ViewRealizedLegs
<1>8. PICK sum \in Int : sum = AllAdjustment(legs)
  BY <1>7, BookedLegs
<1>9. /\ Split(t).open \in Int /\ Split(t).closed \in Int /\ ViewBooked(t) \in Int
      /\ Split(t).open + BookedRow(t) + ChargedRow(t) = sum
  BY <1>6, <1>7, <1>8, PartsAre
<1>10. BookedRow(t) \in Int /\ ChargedRow(t) \in Int
  BY <1>9 DEF BookedRow, ChargedRow
<1>11. SUFFICES ASSUME SameLegs(t)
                PROVE  /\ OpenNow(t) + BookedRow(t) + ChargedRow(t) = t.total.now
                       /\ t.focused # {} =>
                            \A s \in Levels : OpenAt(t, s) + BookedRow(t) + ChargedRow(t) = t.total.curve[s].terminal
  BY <1>1 DEF LinesAddUp
<1>12. /\ t.total.adjustment = sum /\ t.total.now \in Int
       /\ t.focused # {} => \A s \in Levels : t.total.curve[s].terminal \in Int
  <2>1. CASE focused = {}
    <3>1. PICK curve : curve = BuildCurves(Viewed, Assumptions, range, Horizon, Levels)
      OBVIOUS
    <3>2. t.total = TotalOf(Shift(curve, sum), sum)
      BY <1>6, <1>8, <2>1, <3>1 DEF TotalRow, CurvesOf
    <3>3. t.total.adjustment = sum /\ t.total.now = Shift(curve, sum)[0].modeled
      BY <3>2 DEF TotalOf
    <3>4. Shift(curve, sum)[0].modeled \in Int
      BY <3>1, CurveIsNumber
    <3> QED
      BY <1>6, <2>1, <3>3, <3>4
  <2>2. CASE focused # {}
    <3>1. PICK id : focus = {id}
      BY <1>3, <1>4, <2>2, FocusIsOne
    <3>2. focused = {id} /\ id \in DOMAIN LensRows /\ t.total = LensRows[id]
      <4>1. focused = {id}
        BY <1>4, <2>2, <3>1
      <4>2. Default(focused, 0) = id
        BY <4>1, DefaultIs
      <4> QED
        BY <1>2, <1>4, <1>6, <2>2, <4>1, <4>2 DEF TotalRow
    <3>3. ViewedRealized = RealizedLegs
      <4>1. lens = "asset" \/ AssetFocus = {}
        BY <1>6, <1>11, <3>1 DEF SameLegs
      <4> QED
        BY <4>1 DEF ViewedRealized, OnAsset
    <3>4. legs = {l \in ViewedRealized : RealizedGroupKey(lens, l) = id}
      BY <1>5, <3>1, <3>3 DEF ViewRealizedLegs
    <3>5. PICK group : group = {l \in Viewed : GroupKey(lens, l) = id}
      OBVIOUS
    <3>6. PICK curve : curve = BuildCurves(group, Assumptions, range, Horizon, Levels)
      OBVIOUS
    <3>7. /\ t.total.adjustment = sum /\ t.total.curve = Shift(curve, t.total.adjustment)
          /\ t.total.now = t.total.curve[0].modeled
      BY <1>8, <3>2, <3>4, <3>5, <3>6, RowOfGroup
    <3>8. \A s \in {0} \cup Levels : Shift(curve, sum)[s].terminal \in Int /\ Shift(curve, sum)[s].modeled \in Int
      BY <3>5, <3>6, CurveIsNumber
    <3> QED
      BY <3>7, <3>8
  <2> QED
    BY <2>1, <2>2
<1>13. OpenNow(t) = t.total.now - sum + Split(t).open
  BY <1>12 DEF OpenNow
<1>14. ASSUME NEW s \in Levels, t.focused # {}
       PROVE  OpenAt(t, s) + BookedRow(t) + ChargedRow(t) = t.total.curve[s].terminal
  <2>1. OpenAt(t, s) = t.total.curve[s].terminal - sum + Split(t).open
    BY <1>12, <1>14 DEF OpenAt
  <2>2. t.total.curve[s].terminal \in Int
    BY <1>12, <1>14
  <2> QED
    BY <1>9, <1>10, <2>1, <2>2
<1> QED
  BY <1>9, <1>10, <1>12, <1>13, <1>14

\* Percentages that are typed or were kept lie between 0 and 100.
LEMMA ParsedAre ==
  ASSUME NEW typed, typed \subseteq Int
  PROVE  /\ \A v \in ParseLevels(typed) : v \in Int /\ v < 100 /\ 0 < v
         /\ IsFiniteSet(typed) => IsFiniteSet(ParseLevels(typed))
<1>1. PICK size : size = [w \in typed |-> IF w < 0 THEN -w ELSE w]
  OBVIOUS
<1>2. PICK sizes : sizes = {size[w] : w \in typed}
  OBVIOUS
<1>3. ParseLevels(typed) = {v \in sizes : 0 < v /\ v < 100}
  BY <1>1, <1>2 DEF ParseLevels
<1>4. \A v \in sizes : v \in Int
  BY <1>1, <1>2
<1>5. IsFiniteSet(typed) => IsFiniteSet(sizes)
  BY <1>2, ImageIsFinite
<1>6. IsFiniteSet(sizes) => IsFiniteSet({v \in sizes : 0 < v /\ v < 100})
  BY FS_Subset
<1> QED
  BY <1>3, <1>4, <1>5, <1>6

\* The invariant holds at the start.
LEMMA LensStart == RiskInit => LensInv
<1> SUFFICES ASSUME RiskInit PROVE LensInv
  OBVIOUS
<1>1. PICK s \in Saved : lens = s.lens /\ percents = ParseLevels(s.percents) /\ prices = s.prices /\ order = s.order
  BY DEF RiskInit
<1>2. /\ s.lens \in Lenses /\ s.order \in Seq(ToSet(s.order))
      /\ IsFiniteSet(s.percents) /\ s.percents \subseteq Int
      /\ IsFiniteSet(s.prices) /\ s.prices \subseteq [symbol : Symbols, price : Int]
  BY RiskAssumption
<1>3. LooksFine
  BY <1>1, <1>2 DEF LooksFine, RiskInit
<1>4. IsFiniteSet(percents) /\ \A v \in percents : v < 100 /\ 0 < v
  BY <1>1, <1>2, ParsedAre
<1>5. \A q \in prices : AsTyped(q.price)
  <2>1. SUFFICES ASSUME NEW q \in prices PROVE AsTyped(q.price)
    OBVIOUS
  <2>2. q.price \in Int
    BY <1>1, <1>2
  <2>3. q.price \in TypedPrices \cup UNION {{l.price : l \in r.prices} : r \in Saved}
    BY <1>1
  <2>4. q.price > 0 /\ \A p \in Pool : \A v \in p.price \cup p.und : v <= 100 * q.price
    BY <2>3, RiskAssumption
  <2> QED
    BY <2>2, <2>4 DEF AsTyped
<1>6. IsOrder(order)
  BY <1>1, <1>2 DEF IsOrder
<1> QED
  BY <1>1, <1>2, <1>3, <1>4, <1>5, <1>6, PanelInit DEF LensInv, ColumnsFine

\* Moving a column leaves an order of the columns there are.
LEMMA OrderStays ==
  ASSUME PanelInv, ColumnsFine, Moved(Columns)
  PROVE  IsOrder(order')
<1>1. PICK n : n = Cardinality(NaturalColumns)
  OBVIOUS
<1>2. n \in Nat /\ \E place : IsListing(Columns, NaturalColumns, n, place)
  BY <1>1, ColumnsAre
<1>3. PICK columns : columns = Columns
  OBVIOUS
<1>4. DOMAIN columns = 1..n
  <2>1. columns = [i \in 1..n |-> columns[i]]
    BY <1>2, <1>3 DEF IsListing
  <2> QED
    BY <2>1
<1>5. PICK ids : ids = [i \in DOMAIN columns |-> columns[i].id]
  OBVIOUS
<1>6. \E from \in DOMAIN columns, delta \in {-1, 1} :
        order' = [ids EXCEPT ![from] = ids[from + delta], ![from + delta] = ids[from]]
  <2>1. Moved(columns)
    BY <1>3
  <2> QED
    BY <1>5, <2>1, Zenon DEF Moved
<1>7. PICK next : next = order'
  OBVIOUS
<1>8. next = [i \in 1..n |-> next[i]]
  <2>1. DOMAIN ids = 1..n
    BY <1>4, <1>5
  <2>2. PICK from \in DOMAIN columns, delta \in {-1, 1} :
          next = [ids EXCEPT ![from] = ids[from + delta], ![from + delta] = ids[from]]
    BY <1>6, <1>7
  <2>3. next = [i \in DOMAIN ids |-> next[i]]
    BY <2>2
  <2> QED
    BY <2>1, <2>3
<1>9. Len(next) = n
  BY <1>2, <1>8, ListIs
<1> QED
  BY <1>2, <1>7, <1>8, <1>9 DEF IsOrder

\* Every step keeps the invariant.
LEMMA LensStep == LensInv /\ [RiskNext]_riskVars => LensInv'
<1> SUFFICES ASSUME LensInv, [RiskNext]_riskVars
             PROVE  LensInv'
  OBVIOUS
<1> USE DEF Server, Looks, Money, Inputs, Cols
<1>1. PanelInv /\ LooksFine /\ ColumnsFine /\ PanelInv'
  BY PanelStep DEF LensInv
<1>2. ASSUME UNCHANGED <<lens, assetFocus, days, range, percents, prices, order>>,
             expiryFocus' \in {expiryFocus, All}
      PROVE  LensInv'
  <2>1. LooksFine'
    BY <1>1, <1>2 DEF LooksFine
  <2>2. ColumnsFine'
    BY <1>1, <1>2 DEF ColumnsFine, IsOrder, AsTyped
  <2> QED
    BY <1>1, <2>1, <2>2 DEF LensInv
<1>3. ASSUME NEW to, Effects(to) PROVE expiryFocus' \in {to, All}
  BY <1>3 DEF Effects
<1>4. CASE Toggle \/ SelectAll \/ Clear
  <2>1. PICK dim, ticked : dim \in Dims /\ Pick(dim, ticked)
    BY <1>4 DEF Toggle, SelectAll, Clear
  <2> QED
    BY <1>2, <1>3, <2>1 DEF Pick
<1>5. CASE PickLens \/ PickAsset \/ PickExpiry
  <2>1. PICK toLens, asset, focus :
          /\ Look(toLens, asset, focus) /\ toLens \in Lenses
          /\ asset \in {All, {}} \/ \E id : asset = {id}
          /\ focus = All \/ \E id : focus = {id}
    <3>1. CASE PickLens
      BY <1>1, <3>1 DEF PickLens, LooksFine
    <3>2. CASE PickAsset
      <4>1. PICK next \in {All} \cup {{id} : id \in AssetOptions} : Look(lens, next, expiryFocus)
        BY <3>2 DEF PickAsset
      <4> QED
        BY <1>1, <4>1 DEF LooksFine
    <3>3. CASE PickExpiry
      <4>1. PICK next \in {All} \cup {{id} : id \in DOMAIN LensRows} : Look(lens, assetFocus, next)
        BY <3>3 DEF PickExpiry
      <4> QED
        BY <1>1, <4>1 DEF LooksFine
    <3> QED
      BY <1>5, <3>1, <3>2, <3>3
  <2>2. /\ lens' = toLens /\ assetFocus' = asset /\ UNCHANGED <<days, range, percents, prices, order>>
        /\ Effects(focus)
    BY <2>1 DEF Look
  <2>3. LooksFine'
    BY <1>1, <1>3, <2>1, <2>2 DEF LooksFine
  <2>4. ColumnsFine'
    BY <1>1, <2>2 DEF ColumnsFine, IsOrder, AsTyped
  <2> QED
    BY <1>1, <2>3, <2>4 DEF LensInv
<1>6. CASE ToggleCommissions \/ ToggleClosed
  BY <1>2, <1>6 DEF ToggleCommissions, ToggleClosed
<1>7. CASE Input
  <2>1. UNCHANGED <<lens, assetFocus, percents, prices, order>> /\ Effects(expiryFocus)
    BY <1>7 DEF Input
  <2>2. days' \in Int /\ range' \in Int
    <3>1. days \in Int /\ range \in Int
      BY <1>1 DEF LooksFine
    <3>2. \/ days' \in 0..Min({MaxDays, LastDay}) /\ range' = range
          \/ range' \in {10, 20} /\ days' = days
          \/ days' = days /\ range' = range
      BY <1>7 DEF Input
    <3> QED
      BY <3>1, <3>2
  <2>3. LooksFine'
    BY <1>1, <1>3, <2>1, <2>2 DEF LooksFine
  <2>4. ColumnsFine'
    BY <1>1, <2>1 DEF ColumnsFine, IsOrder, AsTyped
  <2> QED
    BY <1>1, <2>3, <2>4 DEF LensInv
<1>8. CASE EditColumns
  <2>1. UNCHANGED <<lens, assetFocus, expiryFocus, days, range>>
    BY <1>8 DEF EditColumns
  <2>2. LooksFine'
    BY <1>1, <2>1 DEF LooksFine
  <2>3. /\ IsFiniteSet(percents) /\ \A v \in percents : v < 100 /\ 0 < v
        /\ IsFiniteSet(prices) /\ \A q \in prices : AsTyped(q.price)
        /\ IsOrder(order)
    BY <1>1 DEF ColumnsFine
  <2>4. /\ IsFiniteSet(percents') /\ \A v \in percents' : v < 100 /\ 0 < v
        /\ IsFiniteSet(prices') /\ \A q \in prices' : AsTyped(q.price)
        /\ IsOrder(order')
    <3>1. CASE AddLevel
      <4>1. PICK v \in ParseLevels(TypedLevels) : percents' = percents \cup {v}
        BY <3>1 DEF AddLevel
      <4>2. v < 100 /\ 0 < v
        BY ParsedAre, RiskAssumption
      <4>3. IsFiniteSet(percents')
        BY <2>3, <4>1, FS_AddElement
      <4> QED
        BY <2>3, <3>1, <4>1, <4>2, <4>3 DEF AddLevel
    <3>2. CASE AddPrice
      <4>1. PICK symbol \in ViewKeys(Table), p \in TypedPrices : prices' = prices \cup {[symbol |-> symbol, price |-> p]}
        BY <3>2, Zenon DEF AddPrice, PricesOf
      <4>2. AsTyped(p)
        BY RiskAssumption DEF AsTyped
      <4>3. IsFiniteSet(prices')
        BY <2>3, <4>1, FS_AddElement
      <4>4. \A q \in prices' : AsTyped(q.price)
        BY <2>3, <4>1, <4>2
      <4> QED
        BY <2>3, <3>2, <4>3, <4>4 DEF AddPrice
    <3>3. CASE DropColumn
      <4>1. percents' \subseteq percents /\ prices' \subseteq prices /\ order' = order
        BY <3>3 DEF DropColumn
      <4> QED
        BY <2>3, <4>1, FS_Subset
    <3>4. CASE MoveColumn
      <4>1. UNCHANGED <<percents, prices>> /\ Moved(Columns)
        BY <3>4 DEF MoveColumn
      <4>2. IsOrder(order')
        BY <1>1, <4>1, OrderStays
      <4> QED
        BY <2>3, <4>1, <4>2
    <3> QED
      BY <1>8, <3>1, <3>2, <3>3, <3>4 DEF EditColumns
  <2>5. ColumnsFine'
    BY <2>4 DEF ColumnsFine, AsTyped, IsOrder
  <2> QED
    BY <1>1, <2>2, <2>5 DEF LensInv
<1>9. CASE PositionsChange \/ DayPasses \/ RealizedArrives
  <2>1. UNCHANGED <<lens, assetFocus, days, range, percents, prices, order>> /\ Effects(expiryFocus)
    BY <1>9 DEF PositionsChange, DayPasses, RealizedArrives, Feed
  <2> QED
    BY <1>2, <1>3, <2>1
<1>10. CASE UNCHANGED riskVars
  BY <1>2, <1>10 DEF riskVars
<1> QED
  BY <1>4, <1>5, <1>6, <1>7, <1>8, <1>9, <1>10 DEF RiskNext

\* However positions, days and booked legs come and go and whatever the user
\* focuses, types, drops and moves, every scenario column is in the table once,
\* and the lines of open legs, booked profit and commissions add up to the
\* total above the columns (orderColumns of scenario-columns.ts, lens-table.tsx
\* 154-178).
THEOREM LinesSumUp == RiskSpec => []TableAddsUp
<1>1. LensInv => TableAddsUp
  BY AllAreKept, LinesDoAdd DEF TableAddsUp, LensInv
<1> QED
  BY <1>1, LensStart, LensStep, PTL DEF RiskSpec

-----------------------------------------------------------------------------
(***************************************************************************)
(* The fills. The executions received are of those sent, with or without   *)
(* the commission, and no two of one id. Two executions of one order are   *)
(* in one fill exactly when the order has a combo row, so a fill is the    *)
(* class of its lead, the classes are disjoint and the net premium is a    *)
(* sum over them.                                                          *)
(***************************************************************************)

\* The executions the table has are of those there are, each known by its id.
Alike(r, e) ==
  /\ r.id = e.id /\ r.account = e.account /\ r.order = e.order /\ r.type = e.type
  /\ r.buy = e.buy /\ r.price = e.price /\ r.quantity = e.quantity /\ r.multiplier = e.multiplier
  /\ r.time = e.time /\ r.commission \in {{}, e.commission}
ReceivedInv ==
  /\ IsFiniteSet(received)
  /\ \A r \in received : \E e \in Sent : r = e \/ r = AsSent(e)
  /\ \A r, q \in received : r.id = q.id => r = q

\* An execution without its commission is otherwise what was sent.
LEMMA AsSentIsAlike == \A e \in Sent : Alike(AsSent(e), e)
<1> SUFFICES ASSUME NEW e \in Sent PROVE Alike(AsSent(e), e)
  OBVIOUS
<1>1. {"id", "account", "order", "type", "buy", "price", "quantity", "multiplier", "time"} \subseteq DOMAIN e
  BY SentAssumption
<1> QED
  BY <1>1 DEF AsSent, Alike

\* Whatever was received is like one that was sent.
LEMMA AreAlike ==
  ASSUME ReceivedInv
  PROVE  \A r \in received : \E e \in Sent : Alike(r, e)
<1> SUFFICES ASSUME NEW r \in received PROVE \E e \in Sent : Alike(r, e)
  OBVIOUS
<1>1. PICK e \in Sent : r = e \/ r = AsSent(e)
  BY DEF ReceivedInv
<1>2. Alike(e, e)
  BY DEF Alike
<1> QED
  BY <1>1, <1>2, AsSentIsAlike

\* A fill arrives, its commission follows or the oldest are lost: what is
\* received stays of what is sent, with one execution of an id.
LEMMA ReceivedStep == ReceivedInv /\ [ExecNext]_execVars => ReceivedInv'
<1> SUFFICES ASSUME ReceivedInv, [ExecNext]_execVars
             PROVE  ReceivedInv'
  OBVIOUS
<1>1. ASSUME received' \subseteq received
      PROVE  ReceivedInv'
  BY <1>1, FS_Subset DEF ReceivedInv
<1>2. CASE ExecutionsChange
  <2>1. CASE received # {} /\ LET oldest == Min({r.time : r \in received})
                               IN Shows({r \in received : r.time > oldest}, showExpired)
    BY <1>1, <2>1 DEF Shows
  <2>2. ASSUME NEW e \in Sent, \A r \in received : r.id # e.id,
               Shows(received \cup {AsSent(e)}, showExpired)
        PROVE  ReceivedInv'
    <3>1. received' = received \cup {AsSent(e)}
      BY <2>2 DEF Shows
    <3>2. AsSent(e).id = e.id
      BY AsSentIsAlike DEF Alike
    <3>3. IsFiniteSet(received')
      BY <3>1, FS_AddElement DEF ReceivedInv
    <3> QED
      BY <2>2, <3>1, <3>2, <3>3 DEF ReceivedInv
  <2>3. ASSUME NEW e \in Sent, AsSent(e) \in received,
               Shows((received \ {AsSent(e)}) \cup {e}, showExpired)
        PROVE  ReceivedInv'
    <3>1. received' = (received \ {AsSent(e)}) \cup {e}
      BY <2>3 DEF Shows
    <3>2. AsSent(e).id = e.id
      BY AsSentIsAlike DEF Alike
    <3>3. IsFiniteSet(received')
      BY <3>1, FS_AddElement, FS_RemoveElement DEF ReceivedInv
    <3>4. \A r \in received \ {AsSent(e)} : r.id # e.id
      BY <2>3, <3>2 DEF ReceivedInv
    <3> QED
      BY <3>1, <3>3, <3>4 DEF ReceivedInv
  <2> QED
    BY <1>2, <2>1, <2>2, <2>3 DEF ExecutionsChange
<1>3. CASE TimePasses
  BY <1>1, <1>3 DEF TimePasses
<1>4. CASE Use
  BY <1>1, <1>4 DEF Use, ToggleExpired, ToggleNetRate, Shows
<1>5. CASE UNCHANGED execVars
  BY <1>1, <1>5 DEF execVars
<1> QED
  BY <1>2, <1>3, <1>4, <1>5 DEF ExecNext

\* What follows of two executions: no id is the number of an order, and a combo
\* has one row.
LEMMA Received ==
  ASSUME ReceivedInv
  PROVE  /\ \A r \in received : Cash(r) \in Int /\ r.id \in Int
         /\ \A r, q \in received :
              /\ r.id = q.id => r = q
              /\ r.order # q.id
              /\ r.type = "BAG" /\ q.type = "BAG" /\ OrderKey(r) = OrderKey(q) => r = q
<1>1. ASSUME NEW r \in received
      PROVE  Cash(r) \in Int /\ r.id \in Int
  <2>1. PICK e \in Sent : Alike(r, e)
    BY AreAlike
  <2>2. r.price \in Int /\ r.quantity \in Nat /\ r.multiplier \in Nat /\ r.id \in Int
    BY <2>1, SentAssumption DEF Alike
  <2>3. r.price * r.quantity * r.multiplier \in Int /\ (-1) * r.price * r.quantity * r.multiplier \in Int
        /\ 1 * r.price * r.quantity * r.multiplier \in Int
    BY <2>2
  <2> QED
    BY <2>2, <2>3 DEF Cash
<1>2. ASSUME NEW r \in received, NEW q \in received
      PROVE  /\ r.id = q.id => r = q
             /\ r.order # q.id
             /\ r.type = "BAG" /\ q.type = "BAG" /\ OrderKey(r) = OrderKey(q) => r = q
  <2>1. PICK e \in Sent : Alike(r, e)
    BY AreAlike
  <2>2. PICK f \in Sent : Alike(q, f)
    BY AreAlike
  <2>3. r.id = q.id => r = q
    BY DEF ReceivedInv
  <2>4. r.order # q.id
    BY <2>1, <2>2, SentAssumption DEF Alike
  <2>5. ASSUME r.type = "BAG", q.type = "BAG", OrderKey(r) = OrderKey(q)
        PROVE  r = q
    <3>1. e.type = "BAG" /\ f.type = "BAG" /\ OrderKey(e) = OrderKey(f)
      BY <2>1, <2>2, <2>5 DEF Alike, OrderKey
    <3>2. e = f
      BY <3>1, SentAssumption
    <3> QED
      BY <2>1, <2>2, <2>3, <3>2 DEF Alike
  <2> QED
    BY <2>3, <2>4, <2>5
<1> QED
  BY <1>1, <1>2

\* The fill an execution is in, and what it holds.
Group(r) == {other \in received : OrderKey(other) = OrderKey(r)}
FillOf(r) ==
  LET parents == Parents(Group(r))
      parent == CHOOSE p \in parents : \A q \in parents : p.id <= q.id
  IN IF parents = {} THEN Fill(<<r.account, r.id>>, r, {}, FALSE)
     ELSE Fill(OrderKey(r), parent, Group(r) \ {parent}, TRUE)
Held(f) == {f.lead} \cup f.legs

\* The fills are those the executions are in.
LEMMA AllFills == GroupFills(received) = {FillOf(r) : r \in received}
  BY DEF GroupFills, FillOf, Group

\* An order without a combo row has a fill for each execution.
LEMMA FillAlone ==
  ASSUME NEW r \in received, \A q \in Group(r) : q.type # "BAG"
  PROVE  FillOf(r) = [key |-> <<r.account, r.id>>, lead |-> r, legs |-> {}, combo |-> FALSE]
<1>1. Parents(Group(r)) = {}
  BY DEF Parents
<1> QED
  BY <1>1 DEF FillOf, Fill

\* One with a combo row is a single fill, led by that row.
LEMMA FillTogether ==
  ASSUME ReceivedInv, NEW r \in received, NEW b \in Group(r), b.type = "BAG"
  PROVE  FillOf(r) = [key |-> OrderKey(r), lead |-> b, legs |-> Group(r) \ {b}, combo |-> TRUE]
<1>1. b \in received /\ b.id \in Int
  BY Received DEF Group
<1>2. Parents(Group(r)) = {b}
  <2>1. \A q \in Group(r) : q.type = "BAG" => q = b
    BY <1>1, Received DEF Group
  <2> QED
    BY <2>1 DEF Parents
<1>3. (CHOOSE p \in {b} : \A q \in {b} : p.id <= q.id) = b
  BY <1>1
<1> QED
  BY <1>2, <1>3 DEF FillOf, Fill

\* The fill of an execution holds it, and only executions of that fill.
LEMMA FillHolds ==
  ASSUME ReceivedInv, NEW r \in received
  PROVE  /\ r \in Held(FillOf(r)) /\ Held(FillOf(r)) \subseteq received
         /\ \A q \in Held(FillOf(r)) : FillOf(q) = FillOf(r) /\ q.account = r.account
<1>1. r \in Group(r) /\ Group(r) \subseteq received
  BY DEF Group
<1>2. CASE \A q \in Group(r) : q.type # "BAG"
  <2>1. Held(FillOf(r)) = {r}
    BY <1>2, FillAlone DEF Held
  <2> QED
    BY <2>1
<1>3. ASSUME NEW b \in Group(r), b.type = "BAG"
      PROVE  /\ r \in Held(FillOf(r)) /\ Held(FillOf(r)) \subseteq received
             /\ \A q \in Held(FillOf(r)) : FillOf(q) = FillOf(r) /\ q.account = r.account
  <2>1. Held(FillOf(r)) = Group(r)
    BY <1>3, FillTogether DEF Held
  <2>2. ASSUME NEW q \in Group(r)
        PROVE  FillOf(q) = FillOf(r) /\ q.account = r.account
    <3>1. OrderKey(q) = OrderKey(r) /\ Group(q) = Group(r) /\ q \in received
      BY DEF Group
    <3>2. FillOf(q) = [key |-> OrderKey(q), lead |-> b, legs |-> Group(q) \ {b}, combo |-> TRUE]
      BY <1>3, <3>1, FillTogether
    <3>3. FillOf(r) = [key |-> OrderKey(r), lead |-> b, legs |-> Group(r) \ {b}, combo |-> TRUE]
      BY <1>3, FillTogether
    <3>4. q.account = r.account
      BY <3>1 DEF OrderKey
    <3> QED
      BY <3>1, <3>2, <3>3, <3>4
  <2> QED
    BY <1>1, <2>1, <2>2
<1> QED
  BY <1>2, <1>3

\* Two executions with fills of one key are in one fill.
LEMMA KeysDiffer ==
  ASSUME ReceivedInv, NEW r \in received, NEW q \in received, FillOf(r).key = FillOf(q).key
  PROVE  FillOf(r) = FillOf(q)
<1> DEFINE alone(p) == \A b \in Group(p) : b.type # "BAG"
<1>1. ASSUME NEW p \in received, alone(p) PROVE FillOf(p).key = <<p.account, p.id>>
  BY <1>1, FillAlone
<1>2. ASSUME NEW p \in received, ~alone(p) PROVE FillOf(p).key = <<p.account, p.order>>
  BY <1>2, FillTogether DEF OrderKey
<1>3. CASE alone(r) /\ alone(q)
  <2>1. r.id = q.id
    BY <1>1, <1>3
  <2> QED
    BY <2>1 DEF ReceivedInv
<1>4. CASE ~alone(r) /\ ~alone(q)
  <2>1. OrderKey(r) = OrderKey(q)
    BY <1>2, <1>4 DEF OrderKey
  <2>2. q \in Group(r)
    BY <2>1 DEF Group
  <2>3. Held(FillOf(r)) = Group(r)
    <3>1. PICK b \in Group(r) : b.type = "BAG"
      BY <1>4
    <3> QED
      BY <3>1, FillTogether DEF Held
  <2> QED
    BY <2>2, <2>3, FillHolds
<1>5. CASE alone(r) /\ ~alone(q)
  <2>1. r.id = q.order
    BY <1>1, <1>2, <1>5
  <2> QED
    BY <2>1, Received
<1>6. CASE ~alone(r) /\ alone(q)
  <2>1. q.id = r.order
    BY <1>1, <1>2, <1>6
  <2> QED
    BY <2>1, Received
<1> QED
  BY <1>3, <1>4, <1>5, <1>6

\* The cash of a fill is of its legs, and of its combo row when there is none.
LegsWith(e) == {r \in received : OrderKey(r) = OrderKey(e) /\ r.type # "BAG"}
Counted == {r \in received : r.type = "BAG" => LegsWith(r) = {}}
LEMMA FillParts ==
  ASSUME ReceivedInv, NEW r \in received
  PROVE  /\ Parts(FillOf(r)) \subseteq Held(FillOf(r)) /\ Parts(FillOf(r)) \subseteq Counted
         /\ r \in Counted => r \in Parts(FillOf(r))
<1>1. r \in Group(r) /\ Group(r) \subseteq received
  BY DEF Group
<1>2. CASE \A q \in Group(r) : q.type # "BAG"
  <2>1. Parts(FillOf(r)) = {r} /\ Held(FillOf(r)) = {r}
    BY <1>2, FillAlone DEF Parts, Held
  <2>2. r \in Counted
    BY <1>1, <1>2 DEF Counted
  <2> QED
    BY <2>1, <2>2
<1>3. ASSUME NEW b \in Group(r), b.type = "BAG"
      PROVE  /\ Parts(FillOf(r)) \subseteq Held(FillOf(r)) /\ Parts(FillOf(r)) \subseteq Counted
             /\ r \in Counted => r \in Parts(FillOf(r))
  <2>1. /\ Held(FillOf(r)) = Group(r)
        /\ Parts(FillOf(r)) = IF Group(r) \ {b} # {} THEN Group(r) \ {b} ELSE {b}
    <3>1. PICK f : f = FillOf(r)
      OBVIOUS
    <3>2. f = [key |-> OrderKey(r), lead |-> b, legs |-> Group(r) \ {b}, combo |-> TRUE]
      BY <1>3, <3>1, FillTogether
    <3>3. f.lead = b /\ f.legs = Group(r) \ {b} /\ f.combo
      BY <3>2
    <3>4. Held(f) = Group(r)
      BY <1>3, <3>3 DEF Held
    <3>5. Parts(f) = IF Group(r) \ {b} # {} THEN Group(r) \ {b} ELSE {b}
      BY <3>3, Zenon DEF Parts
    <3> QED
      BY <3>1, <3>4, <3>5
  <2>2. \A q \in Group(r) \ {b} : q.type # "BAG"
    BY <1>1, <1>3, Received DEF Group
  <2>3. \A q \in Group(r) : LegsWith(q) = Group(r) \ {b}
    BY <1>3, <2>2 DEF Group, LegsWith
  <2> QED
    BY <1>1, <1>3, <2>1, <2>2, <2>3 DEF Counted
<1> QED
  BY <1>2, <1>3

\* An execution is in one fill, of one account, and no two fills have one key.
LEMMA FillsAreOnce ==
  ASSUME ReceivedInv, NEW all, all = GroupFills(received)
  PROVE  /\ \A e \in received : Cardinality({f \in all : e \in Held(f)}) = 1
         /\ \A f \in all : {r.account : r \in Held(f)} = {f.lead.account}
         /\ Cardinality({f.key : f \in all}) = Cardinality(all)
         /\ IsFiniteSet(all)
<1>1. all = {FillOf(r) : r \in received}
  BY AllFills
<1>2. ASSUME NEW e \in received
      PROVE  Cardinality({f \in all : e \in Held(f)}) = 1
  <2>1. {f \in all : e \in Held(f)} = {FillOf(e)}
    BY <1>1, FillHolds
  <2> QED
    BY <2>1, FS_Singleton
<1>3. ASSUME NEW f \in all
      PROVE  {r.account : r \in Held(f)} = {f.lead.account}
  <2>1. PICK r \in received : f = FillOf(r)
    BY <1>1
  <2>2. f.lead \in Held(f)
    BY DEF Held
  <2>3. \A q \in Held(f) : q.account = r.account
    BY <2>1, FillHolds
  <2> QED
    BY <2>2, <2>3
<1>4. IsFiniteSet(all)
  <2> DEFINE fillOf == [r \in received |-> FillOf(r)]
  <2>1. fillOf \in Surjection(received, all)
    BY <1>1 DEF Surjection
  <2> QED
    BY <2>1, FS_Surjection DEF ReceivedInv
<1>5. Cardinality({f.key : f \in all}) = Cardinality(all)
  <2> DEFINE keyOf == [f \in all |-> f.key]
             keys == {f.key : f \in all}
  <2>1. keyOf \in Surjection(all, keys)
    BY DEF Surjection
  <2>2. \A f, g \in all : f.key = g.key => f = g
    BY <1>1, KeysDiffer
  <2>3. keyOf \in Injection(all, keys)
    BY <2>2 DEF Injection, IsInjective
  <2> HIDE DEF keyOf, keys
  <2>4. Cardinality(keys) = Cardinality(all)
    BY <1>4, <2>1, <2>3, FS_Surjection
  <2> QED
    BY <2>4 DEF keys
<1> QED
  BY <1>2, <1>3, <1>4, <1>5

\* The net premium is a sum over disjoint parts.
LEMMA NetIsCash ==
  ASSUME ReceivedInv, NEW all, all = GroupFills(received)
  PROVE  SumFunction([f \in all |-> CashFlow(f)]) = SumFunction([e \in Counted |-> Cash(e)])
<1>1. PICK cash : cash = [e \in received |-> Cash(e)]
  OBVIOUS
<1>2. PICK part : part = [f \in all |-> Parts(f)]
  OBVIOUS
<1>3. PICK sums : sums = [f \in all |-> CashFlow(f)]
  OBVIOUS
<1>4. all = {FillOf(r) : r \in received} /\ IsFiniteSet(all)
  BY AllFills, FillsAreOnce
<1>5. \A f \in all : Parts(f) \subseteq Held(f) /\ Parts(f) \subseteq Counted /\ Held(f) \subseteq received
  BY <1>4, FillParts, FillHolds
<1>6. IsFiniteSet(received) /\ \A e \in received : cash[e] \in Int
  BY <1>1, Received DEF ReceivedInv
<1>7. \A f, g \in all : f # g => part[f] \cap part[g] = {}
  <2>1. \A f \in all : \A e \in Held(f) : FillOf(e) = f
    BY <1>4, FillHolds
  <2> QED
    BY <1>2, <1>5, <2>1
<1>8. ASSUME NEW f \in all PROVE sums[f] = Total(cash, part[f])
  <2>1. PICK own : own = [r \in Parts(f) |-> Cash(r)]
    OBVIOUS
  <2>2. IsFiniteSet(DOMAIN own) /\ DOMAIN own = part[f]
    BY <1>2, <1>5, <1>6, <2>1, FS_Subset
  <2>3. \A r \in DOMAIN own : own[r] = cash[r]
    BY <1>1, <1>5, <2>1
  <2>4. SumFunction(own) = Total(cash, DOMAIN own)
    BY <2>2, <2>3, SumIs
  <2>5. sums[f] = SumFunction(own)
    BY <1>3, <2>1 DEF CashFlow
  <2> QED
    BY <2>2, <2>4, <2>5
<1>9. UNION {part[f] : f \in all} = Counted
  <2>1. \A e \in Counted : FillOf(e) \in all /\ e \in part[FillOf(e)]
    BY <1>2, <1>4, FillParts DEF Counted
  <2>2. \A f \in all : part[f] \subseteq Counted
    BY <1>2, <1>5
  <2> QED
    BY <2>1, <2>2
<1>10. Total(sums, all) = Total(cash, Counted)
  <2>1. \A f \in all : part[f] \subseteq received
    BY <1>2, <1>5
  <2>2. Total(sums, all) = Total(cash, UNION {part[f] : f \in all})
    BY <1>4, <1>6, <1>7, <1>8, <2>1, TotalOfParts
  <2> QED
    BY <1>9, <2>2
<1>11. SumFunction(sums) = Total(sums, all)
  BY <1>3, SumIsTotal
<1>12. PICK counted : counted = [e \in Counted |-> Cash(e)]
  OBVIOUS
<1>13. SumFunction(counted) = Total(cash, Counted)
  <2>1. DOMAIN counted = Counted /\ Counted \subseteq received
    BY <1>12 DEF Counted
  <2>2. IsFiniteSet(DOMAIN counted)
    BY <1>6, <2>1, FS_Subset
  <2>3. \A e \in DOMAIN counted : counted[e] = cash[e]
    BY <1>1, <1>12, <2>1
  <2> QED
    BY <2>1, <2>2, <2>3, SumIs
<1> QED
  BY <1>3, <1>10, <1>11, <1>12, <1>13

\* In whatever order executions and commissions arrive and the oldest are lost,
\* every execution is in exactly one fill of its own account, and the net
\* premium over the table is the cash of each of them once, no combo row beside
\* its legs (groupFills of frontend/lib/executions.ts, Totals of tables.tsx).
THEOREM FillsHold == ExecSpec => []FillsPartition
<1>1. ExecInit => ReceivedInv
  BY FS_EmptySet DEF ExecInit, ReceivedInv
<1>2. ASSUME ReceivedInv PROVE FillsPartition
  <2>1. PICK all : all = GroupFills(received)
    OBVIOUS
  <2>2. /\ \A e \in received : Cardinality({f \in all : e \in {f.lead} \cup f.legs}) = 1
        /\ \A f \in all : {r.account : r \in {f.lead} \cup f.legs} = {f.lead.account}
        /\ Cardinality({f.key : f \in all}) = Cardinality(all)
    BY <1>2, <2>1, FillsAreOnce DEF Held
  <2>3. Totals(all).net = SumFunction([f \in all |-> CashFlow(f)])
    BY DEF Totals
  <2>4. SumFunction([f \in all |-> CashFlow(f)]) =
          SumFunction([e \in {r \in received : r.type = "BAG" => LegsWith(r) = {}} |-> Cash(e)])
    BY <1>2, <2>1, NetIsCash DEF Counted
  <2> QED
    BY <2>1, <2>2, <2>3, <2>4 DEF FillsPartition, LegsWith
<1> QED
  BY <1>1, <1>2, ReceivedStep, PTL DEF ExecSpec

-----------------------------------------------------------------------------
(***************************************************************************)
(* The day's profit and loss. The samples are of one account and moment    *)
(* each, so an answer made of them has one row of an account at a moment,  *)
(* or on a day of a period, and its combined line is of the sums over      *)
(* those rows. The invariant is that of the samples and of what was heard, *)
(* and that the answer in the cache is one to the choice that is made;     *)
(* what the panel draws of such an answer is then a matter of one state.   *)
(***************************************************************************)

\* A figure is missing or one number; rows have one moment each.
Figure(n) == n = {} \/ \E v \in Int : n = {v}
LineFine(rs) ==
  /\ IsFiniteSet(rs)
  /\ \A r \in rs : r.at \in Int /\ Figure(r.pnl)
  /\ \A r, q \in rs : r.at = q.at => r = q

\* The largest of one number, and the number a figure holds.
LEMMA MaxOfOne == \A v \in Int : Max({v}) = v
  BY DEF Max
LEMMA NumberIs == \A n : Figure(n) /\ n # {} => Max(n) \in Int /\ n = {Max(n)}
  BY MaxOfOne DEF Figure

\* A line goes up, and its last point is the last of them.
Rising(line) == \A i \in 1..(Len(line) - 1) : line[i].at < line[i + 1].at
IsLine(line) ==
  /\ Len(line) \in Nat /\ line = [i \in 1..Len(line) |-> line[i]]
  /\ \A i \in 1..Len(line) : line[i].at \in Int
  /\ Rising(line)

\* What Append makes of a sequence.
LEMMA Listed ==
  ASSUME NEW s, NEW n \in Nat, Len(s) = n, s = [i \in 1..n |-> s[i]], NEW e
  PROVE  /\ Len(Append(s, e)) = n + 1 /\ Append(s, e)[n + 1] = e
         /\ \A i \in 1..n : Append(s, e)[i] = s[i]
<1>1. s \in Seq({s[i] : i \in 1..n})
  BY ListIs
<1>2. PICK T : T = {s[i] : i \in 1..n} \cup {e}
  OBVIOUS
<1>3. s \in Seq(T) /\ e \in T
  BY <1>1, <1>2
<1> QED
  BY <1>3

\* The line of rows with one moment each goes up, and it ends in the latest
\* figure.
LEMMA LineIs ==
  ASSUME NEW rs, LineFine(rs), NEW line, line = LineOf(rs)
  PROVE  /\ IsLine(line)
         /\ Known(rs) = {} => line = <<>>
         /\ Known(rs) # {} => /\ line # <<>> /\ Last(line).pnl \in Int
                              /\ UNION {r.pnl : r \in Latest(Known(rs))} = {Last(line).pnl}
<1>1. PICK S : S = {Point(r.at, Max(r.pnl)) : r \in Known(rs)}
  OBVIOUS
<1>2. PICK below : below = [p \in S |-> {q \in S : q.at < p.at}]
  OBVIOUS
<1>3. /\ IsFiniteSet(Known(rs)) /\ Known(rs) \subseteq rs
      /\ \A r \in Known(rs) : r.at \in Int /\ Max(r.pnl) \in Int /\ r.pnl = {Max(r.pnl)}
  <2>1. Known(rs) \subseteq rs
    BY DEF Known
  <2> QED
    BY <2>1, FS_Subset, NumberIs DEF LineFine, Known
<1>4. IsFiniteSet(S)
  <2>1. PICK into : into = [r \in Known(rs) |-> Point(r.at, Max(r.pnl))]
    OBVIOUS
  <2>2. into \in Surjection(Known(rs), S)
    BY <1>1, <2>1 DEF Surjection
  <2> QED
    BY <1>3, <2>2, FS_Surjection
<1>5. \A p \in S : \E r \in Known(rs) : p.at = r.at /\ p.pnl = Max(r.pnl) /\ p = Point(r.at, Max(r.pnl))
  BY <1>1 DEF Point
<1>6. \A p \in S : p.at \in Int /\ p.pnl \in Int
  BY <1>3, <1>5
<1>7. \A p, q \in S : p.at = q.at => p = q
  BY <1>3, <1>5 DEF LineFine
<1>8. PICK n : n = Cardinality(S)
  OBVIOUS
<1>12. PICK place : place = [p \in S |-> Cardinality(below[p])]
  OBVIOUS
<1>9. /\ n \in Nat /\ place \in [S -> 0..(n - 1)]
      /\ \A p, q \in S : place[p] = place[q] => p = q
      /\ \A p, q \in S : p.at < q.at <=> place[p] < place[q]
      /\ \A k \in 0..(n - 1) : \E p \in S : place[p] = k
  <2>1. \A p, q \in S : p \in below[q] <=> p.at < q.at
    BY <1>2
  <2>2. \A p \in S : below[p] \in SUBSET S /\ p \notin below[p]
    BY <1>2, <1>6
  <2>3. \A p, q \in S : p = q \/ p \in below[q] \/ q \in below[p]
    BY <1>6, <1>7, <2>1
  <2>4. \A p, q \in S : p \in below[q] => below[p] \subseteq below[q]
    BY <1>2, <1>6
  <2>5. /\ n \in Nat /\ place \in [S -> 0..(n - 1)]
        /\ \A p, q \in S : place[p] = place[q] => p = q
        /\ \A p, q \in S : p \in below[q] <=> place[p] < place[q]
        /\ \A k \in 0..(n - 1) : \E p \in S : place[p] = k
    BY <1>4, <1>8, <1>12, <2>2, <2>3, <2>4, Places
  <2> QED
    BY <2>1, <2>5
<1>10. line = [i \in 1..n |-> CHOOSE p \in S : place[p] = i - 1]
  <2>1. LineOf(rs) = [i \in 1..Cardinality({Point(r.at, Max(r.pnl)) : r \in Known(rs)}) |->
                        CHOOSE p \in {Point(r.at, Max(r.pnl)) : r \in Known(rs)} :
                          Cardinality({q \in {Point(r.at, Max(r.pnl)) : r \in Known(rs)} : q.at < p.at}) = i - 1]
    BY DEF LineOf
  <2>2. line = [i \in 1..Cardinality(S) |-> CHOOSE p \in S : Cardinality({q \in S : q.at < p.at}) = i - 1]
    BY <1>1, <2>1
  <2>3. ASSUME NEW i \in 1..n
        PROVE  (CHOOSE p \in S : Cardinality({q \in S : q.at < p.at}) = i - 1) = (CHOOSE p \in S : place[p] = i - 1)
    <3>1. \A p \in S : Cardinality({q \in S : q.at < p.at}) = i - 1 <=> place[p] = i - 1
      BY <1>2, <1>12
    <3> QED
      BY <3>1
  <2> QED
    BY <1>8, <2>2, <2>3
<1>11. /\ Len(line) = n /\ line = [i \in 1..n |-> line[i]]
       /\ \A i \in 1..n : line[i] \in S /\ place[line[i]] = i - 1
  <2>1. InPlaces(S, n, place)
    BY <1>9 DEF InPlaces
  <2>2. line = ListedBy(S, n, place)
    BY <1>10 DEF ListedBy
  <2>3. n \in Nat
    BY <1>9
  <2>4. IsListing(line, S, n, place)
    BY <2>1, <2>2, <2>3, ListedByPlace, Zenon
  <2> QED
    BY <2>4 DEF IsListing
<1>13. IsLine(line)
  <2>1. ASSUME NEW i \in 1..(n - 1)
        PROVE  line[i].at < line[i + 1].at
    <3>1. i \in 1..n /\ i + 1 \in 1..n /\ i - 1 < (i + 1) - 1
      BY <1>9
    <3>2. place[line[i]] < place[line[i + 1]] /\ line[i] \in S /\ line[i + 1] \in S
      BY <1>11, <3>1
    <3> QED
      BY <1>9, <3>2
  <2>2. \A i \in 1..n : line[i].at \in Int
    BY <1>6, <1>11
  <2> QED
    BY <1>9, <1>11, <2>1, <2>2 DEF IsLine, Rising
<1>14. ASSUME Known(rs) = {} PROVE line = <<>>
  <2>1. S = {}
    BY <1>1, <1>14
  <2>2. n = 0
    BY <1>8, <2>1, FS_EmptySet
  <2> QED
    BY <1>11, <2>2
<1>15. ASSUME Known(rs) # {}
       PROVE  /\ line # <<>> /\ Last(line).pnl \in Int
              /\ UNION {r.pnl : r \in Latest(Known(rs))} = {Last(line).pnl}
  <2>1. PICK x \in S : TRUE
    BY <1>1, <1>15
  <2>2. n \in 1..n /\ n > 0
    BY <1>9, <2>1
  <2>3. line # <<>> /\ Last(line) = line[n] /\ line[n] \in S /\ place[line[n]] = n - 1
    BY <1>11, <2>2 DEF Last
  <2>4. \A p \in S : p.at <= line[n].at
    <3>1. \A p \in S : ~(place[line[n]] < place[p])
      BY <1>9, <2>3
    <3>2. \A p \in S : ~(line[n].at < p.at)
      BY <1>9, <2>3, <3>1
    <3> QED
      BY <1>6, <2>3, <3>2
  <2>5. PICK r \in Known(rs) : line[n].at = r.at /\ line[n].pnl = Max(r.pnl)
    BY <1>5, <2>3
  <2>6. \A q \in Known(rs) : q.at <= r.at
    <3>1. \A q \in Known(rs) : Point(q.at, Max(q.pnl)) \in S /\ Point(q.at, Max(q.pnl)).at = q.at
      BY <1>1 DEF Point
    <3> QED
      BY <2>4, <2>5, <3>1
  <2>7. Latest(Known(rs)) = {r}
    <3>1. r \in Latest(Known(rs))
      BY <2>5, <2>6 DEF Latest
    <3>2. ASSUME NEW q \in Latest(Known(rs)) PROVE q = r
      <4>1. q \in Known(rs) /\ r.at <= q.at /\ q.at <= r.at
        BY <2>5, <2>6 DEF Latest
      <4>2. q.at = r.at
        BY <1>3, <4>1
      <4> QED
        BY <1>3, <4>1, <4>2 DEF LineFine
    <3> QED
      BY <3>1, <3>2
  <2>8. UNION {q.pnl : q \in {r}} = r.pnl
    OBVIOUS
  <2> QED
    BY <1>3, <2>3, <2>5, <2>7, <2>8
<1> QED
  BY <1>13, <1>14, <1>15

\* The figure the socket brought is the end of a line that still goes up.
LEMMA ExtendIs ==
  ASSUME NEW line, IsLine(line), NEW when \in Nat, NEW value, Figure(value),
         value # {} => when > 0, NEW out, out = ExtendLive(line, when, value)
  PROVE  /\ Rising(out)
         /\ value = {} => out = line
         /\ value # {} => value = {Last(out).pnl}
<1>1. CASE value = {}
  BY <1>1 DEF ExtendLive, IsLine
<1>2. CASE value # {} /\ line # <<>> /\ when <= Last(line).at
  <2>1. PICK v \in Int : value = {v} /\ Max(value) = v
    BY <1>2, MaxOfOne DEF Figure
  <2>2. PICK n : n = Len(line)
    OBVIOUS
  <2>3. n \in Nat /\ n # 0 /\ line = [i \in 1..n |-> line[i]] /\ \A i \in 1..n : line[i].at \in Int
    BY <1>2, <2>2 DEF IsLine
  <2>4. PICK end : end = Point(line[n].at, v)
    OBVIOUS
  <2>5. Front(line) = [i \in 1..(n - 1) |-> line[i]]
    BY <2>2, <2>3 DEF Front
  <2>6. out = Append(Front(line), end)
    BY <1>2, <2>1, <2>2, <2>4 DEF ExtendLive, Last
  <2>7. n - 1 \in Nat /\ (n - 1) + 1 = n
    BY <2>3
  <2>8. Len(out) = n /\ out[n] = end /\ \A i \in 1..(n - 1) : out[i] = line[i]
    <3>1. PICK fr : fr = Front(line)
      OBVIOUS
    <3>2. Len(fr) = n - 1 /\ fr = [i \in 1..(n - 1) |-> fr[i]] /\ \A i \in 1..(n - 1) : fr[i] = line[i]
      BY <2>5, <2>7, <3>1
    <3>3. /\ Len(Append(fr, end)) = (n - 1) + 1 /\ Append(fr, end)[(n - 1) + 1] = end
          /\ \A i \in 1..(n - 1) : Append(fr, end)[i] = fr[i]
      BY <2>7, <3>2, Listed
    <3> QED
      BY <2>6, <2>7, <3>1, <3>2, <3>3
  <2>9. Rising(out)
    <3>1. SUFFICES ASSUME NEW i \in 1..(n - 1) PROVE out[i].at < out[i + 1].at
      BY <2>8 DEF Rising
    <3>5. out[n].at = line[n].at
      BY <2>4, <2>8 DEF Point
    <3>2. line[i].at < line[i + 1].at
      BY <2>2 DEF IsLine, Rising
    <3>3. i + 1 \in 1..(n - 1) \/ i + 1 = n
      BY <2>3
    <3>4. out[i] = line[i] /\ out[i + 1].at = line[i + 1].at
      BY <2>8, <3>3, <3>5
    <3> QED
      BY <3>2, <3>4
  <2>10. Last(out) = end /\ end.pnl = v
    BY <2>4, <2>8 DEF Last, Point
  <2> QED
    BY <1>2, <2>1, <2>9, <2>10
<1>3. CASE value # {} /\ ~(line # <<>> /\ when <= Last(line).at)
  <2>1. PICK v \in Int : value = {v} /\ Max(value) = v
    BY <1>3, MaxOfOne DEF Figure
  <2>2. PICK n : n = Len(line)
    OBVIOUS
  <2>3. n \in Nat /\ line = [i \in 1..n |-> line[i]] /\ \A i \in 1..n : line[i].at \in Int
    BY <2>2 DEF IsLine
  <2>4. PICK end : end = Point(when, v)
    OBVIOUS
  <2>5. out = Append(line, end)
    BY <1>3, <2>1, <2>4 DEF ExtendLive
  <2>6. Len(out) = n + 1 /\ out[n + 1] = end /\ \A i \in 1..n : out[i] = line[i]
    BY <2>2, <2>3, <2>5, Listed
  <2>7. (n + 1) - 1 = n
    BY <2>3
  <2>8. Rising(out)
    <3>1. SUFFICES ASSUME NEW i \in 1..n PROVE out[i].at < out[i + 1].at
      BY <2>6, <2>7 DEF Rising
    <3>2. CASE i # n
      <4>1. i \in 1..(n - 1) /\ i + 1 \in 1..n
        BY <2>3, <3>2
      <4>2. line[i].at < line[i + 1].at
        BY <2>2, <4>1 DEF IsLine, Rising
      <4> QED
        BY <2>6, <4>1, <4>2
    <3>3. CASE i = n
      <4>1. n # 0 /\ n \in 1..n
        BY <2>3, <3>3
      <4>2. line # <<>> /\ Last(line) = line[n]
        BY <2>2, <2>3, <4>1 DEF Last
      <4>3. line[n].at < when
        BY <1>3, <2>3, <4>1, <4>2
      <4>4. out[n] = line[n] /\ out[n + 1].at = when
        BY <2>4, <2>6, <4>1 DEF Point
      <4> QED
        BY <3>3, <4>3, <4>4
    <3> QED
      BY <3>2, <3>3
  <2>9. Last(out) = end /\ end.pnl = v
    BY <2>4, <2>6 DEF Last, Point
  <2> QED
    BY <1>3, <2>1, <2>8, <2>9
<1> QED
  BY <1>1, <1>2, <1>3

\* Rows of an answer, or samples: one of an account and a moment.
RowsFine(rs) ==
  /\ IsFiniteSet(rs)
  /\ \A r \in rs : r.account \in DeskAccounts /\ r.at \in Nat /\ Figure(r.pnl)
  /\ \A r, q \in rs : r.account = q.account /\ r.at = q.at => r = q
\* What an answer of the API is, of one day or of a period.
AnswerFine(given, daily) ==
  /\ RowsFine(given.rows)
  /\ LineFine(given.combined) /\ \A r \in given.combined : r.pnl # {}
  /\ daily => /\ given.unreported = {} /\ \A r \in given.rows : r.pnl # {}
              /\ given.combined = {[at |-> d, pnl |-> {Sum({r \in given.rows : DayAt(r.at) <= d})}]
                                   : d \in {DayAt(r.at) : r \in given.rows}}

\* A day of the API is a number.
LEMMA DayIsInt == \A t \in Nat : DayAt(t) \in Int
<1>1. DayTicks \in Nat /\ DayTicks > 0
  BY PnlAssumption
<1>2. ASSUME NEW t \in Nat, NEW n \in Nat, n > 0 PROVE (t - 1) \div n \in Int
  BY <1>2
<1> QED
  BY <1>1, <1>2 DEF DayAt

\* The figures of rows together are a sum over them.
LEMMA SumOfRows ==
  ASSUME NEW rs, IsFiniteSet(rs), \A r \in rs : Figure(r.pnl) /\ r.pnl # {},
         NEW f, \A r \in rs : f[r] = Max(r.pnl)
  PROVE  Sum(rs) = Total(f, rs) /\ Sum(rs) \in Int
<1>1. PICK own : own = [x \in rs |-> Max(x.pnl)]
  OBVIOUS
<1>2. Sum(rs) = SumFunction([x \in rs |-> Max(x.pnl)])
  BY DEF Sum, SumOver
<1>3. DOMAIN own = rs /\ \A x \in rs : own[x] = f[x]
  BY <1>1
<1>4. SumFunction(own) = Total(f, rs)
  BY <1>3, SumIs
<1>5. \A r \in rs : f[r] \in Int
  BY NumberIs
<1> QED
  BY <1>1, <1>2, <1>4, <1>5, TotalRemove

\* Some of the rows, and what the API finds of the samples.
LEMMA SomeRows ==
  ASSUME NEW rs, RowsFine(rs), NEW some \in SUBSET rs
  PROVE  RowsFine(some)
  BY FS_Subset DEF RowsFine

LEMMA RowsFound ==
  ASSUME RowsFine(samples), NEW upTo, NEW scope, NEW assets
  PROVE  RowsFine(RowsOf(upTo, scope, assets))
<1>1. PICK rs : rs = {r \in samples : r.account \in scope /\ r.at < upTo}
  OBVIOUS
<1>2. RowsFine(rs)
  BY <1>1, SomeRows
<1>3. RowsOf(upTo, scope, assets) = IF assets = {} THEN rs ELSE AssetRows(rs, assets)
  BY <1>1 DEF RowsOf
<1>4. RowsFine(AssetRows(rs, assets))
  <2>1. PICK with : with = {s \in rs : Holds[s.account] \cap assets # {}}
    OBVIOUS
  <2>2. PICK sum : sum = [a \in DeskAccounts |-> SumFunction([s \in Holds[a] \cap assets |-> EarnedOn[s]])]
    OBVIOUS
  <2>3. RowsFine(with)
    BY <1>2, <2>1, SomeRows
  <2>4. \A r \in with : r.account \in DeskAccounts /\ r.at \in Nat
    BY <2>3 DEF RowsFine
  <2>5. AssetRows(rs, assets) =
          {[account |-> r.account, at |-> r.at,
            pnl |-> {SumFunction([s \in Holds[r.account] \cap assets |-> EarnedOn[s]])}] : r \in with}
    BY <2>1 DEF AssetRows, SumOver
  <2>6. PICK row : row = [r \in with |-> [account |-> r.account, at |-> r.at, pnl |-> {sum[r.account]}]]
    OBVIOUS
  <2>7. AssetRows(rs, assets) = {row[r] : r \in with}
    BY <2>2, <2>4, <2>5, <2>6
  <2>8. \A a \in DeskAccounts : sum[a] \in Int
    <3>1. SUFFICES ASSUME NEW a \in DeskAccounts PROVE sum[a] \in Int
      OBVIOUS
    <3>2. PICK legs : legs = Holds[a] \cap assets
      OBVIOUS
    <3>3. PICK each : each = [s \in legs |-> EarnedOn[s]]
      OBVIOUS
    <3>4. IsFiniteSet(legs) /\ \A s \in legs : EarnedOn[s] \in Int
      BY <3>2, PnlAssumption, FS_Subset
    <3>5. DOMAIN each = legs /\ \A s \in legs : each[s] \in Int
      BY <3>3, <3>4
    <3>6. SumFunction(each) = Total(each, legs) /\ Total(each, legs) \in Int
      BY <3>4, <3>5, SumIsTotal, TotalRemove
    <3> QED
      BY <2>2, <3>2, <3>3, <3>6
  <2>9. \A r \in with : row[r].account = r.account /\ row[r].at = r.at /\ Figure(row[r].pnl)
    BY <2>4, <2>6, <2>8 DEF Figure
  <2>10. IsFiniteSet(AssetRows(rs, assets))
    BY <2>3, <2>7, ImageIsFinite DEF RowsFine
  <2>11. \A r, q \in with : row[r].account = row[q].account /\ row[r].at = row[q].at => r = q
    BY <2>3, <2>9 DEF RowsFine
  <2> QED
    BY <2>4, <2>7, <2>9, <2>10, <2>11 DEF RowsFine
<1> QED
  BY <1>2, <1>3, <1>4

\* Of one day: a row of an account at a moment, and a combined point at a
\* moment.
LEMMA IntradayFine ==
  ASSUME NEW found, RowsFine(found), NEW day
  PROVE  AnswerFine(Intraday(found, day), FALSE)
<1>1. PICK rs : rs = {r \in found : DayAt(r.at) = day}
  OBVIOUS
<1>2. PICK reporting : reporting = {r.account : r \in Known(rs)}
  OBVIOUS
<1>3. PICK by : by = [t \in Nat |-> UNION {Latest({r \in Known(rs) : r.account = a /\ r.at <= t}) : a \in reporting}]
  OBVIOUS
<1>4. PICK moments : moments = {t \in {r.at : r \in rs} :
         /\ {r.account : r \in {s \in rs : s.at = t}} = {r.account : r \in rs}
         /\ {r.account : r \in UNION {Latest({r \in Known(rs) : r.account = a /\ r.at <= t}) : a \in reporting}}
              = reporting
         /\ reporting # {}}
  OBVIOUS
<1>5. PICK figure : figure = [t \in Nat |-> Sum(by[t])]
  OBVIOUS
<1>6. RowsFine(rs)
  BY <1>1, SomeRows
<1>7. moments \in SUBSET {r.at : r \in rs} /\ moments \subseteq Nat
  BY <1>4, <1>6 DEF RowsFine
<1>8. IsFiniteSet(moments)
  <2>1. PICK f : f = [r \in rs |-> r.at]
    OBVIOUS
  <2>2. PICK times : times = {r.at : r \in rs}
    OBVIOUS
  <2>3. times = {f[r] : r \in rs}
    BY <2>1, <2>2
  <2>4. IsFiniteSet(rs)
    BY <1>6 DEF RowsFine
  <2>5. IsFiniteSet(times)
    BY <2>3, <2>4, ImageIsFinite
  <2> QED
    BY <1>7, <2>2, <2>5, FS_Subset
<1>9. ASSUME NEW t \in Nat PROVE figure[t] \in Int
  <2>1. by[t] \in SUBSET rs /\ \A r \in by[t] : r.pnl # {}
    BY <1>3 DEF Latest, Known
  <2>2. RowsFine(by[t])
    BY <1>6, <2>1, SomeRows
  <2>3. PICK f : f = [r \in by[t] |-> Max(r.pnl)]
    OBVIOUS
  <2>4. /\ IsFiniteSet(by[t]) /\ \A r \in by[t] : Figure(r.pnl) /\ r.pnl # {}
        /\ \A r \in by[t] : f[r] = Max(r.pnl)
    BY <2>1, <2>2, <2>3 DEF RowsFine
  <2>5. Sum(by[t]) \in Int
    BY <2>4, SumOfRows
  <2> QED
    BY <1>5, <2>5
<1>10. PICK given : given = Intraday(found, day)
  OBVIOUS
<1>11. given.rows = rs
  BY <1>1, <1>10 DEF Intraday
<1>12. given.combined = {[at |-> t, pnl |-> {figure[t]}] : t \in moments}
  <2>1. Intraday(found, day).combined =
          {[at |-> t, pnl |-> {Sum(UNION {Latest({r \in Known({r \in found : DayAt(r.at) = day}) : r.account = a /\ r.at <= t})
              : a \in {r.account : r \in Known({r \in found : DayAt(r.at) = day})}})}]
           : t \in {t \in {r.at : r \in {r \in found : DayAt(r.at) = day}} :
               /\ {r.account : r \in {s \in {r \in found : DayAt(r.at) = day} : s.at = t}} = {r.account : r \in {r \in found : DayAt(r.at) = day}}
               /\ {r.account : r \in UNION {Latest({r \in Known({r \in found : DayAt(r.at) = day}) : r.account = a /\ r.at <= t})
                    : a \in {r.account : r \in Known({r \in found : DayAt(r.at) = day})}}}
                    = {r.account : r \in Known({r \in found : DayAt(r.at) = day})}
               /\ {r.account : r \in Known({r \in found : DayAt(r.at) = day})} # {}}}
    BY DEF Intraday
  <2>2. Intraday(found, day).combined =
          {[at |-> t, pnl |-> {Sum(UNION {Latest({r \in Known(rs) : r.account = a /\ r.at <= t}) : a \in reporting})}]
           : t \in moments}
    BY <1>1, <1>2, <1>4, <2>1
  <2>3. \A t \in moments :
          figure[t] = Sum(UNION {Latest({r \in Known(rs) : r.account = a /\ r.at <= t}) : a \in reporting})
    BY <1>3, <1>5, <1>7
  <2>4. PICK drawn : drawn = [t \in moments |->
          [at |-> t, pnl |-> {Sum(UNION {Latest({r \in Known(rs) : r.account = a /\ r.at <= t}) : a \in reporting})}]]
    OBVIOUS
  <2>5. \A t \in moments : drawn[t] = [at |-> t, pnl |-> {figure[t]}]
    BY <2>3, <2>4
  <2>6. given.combined = {drawn[t] : t \in moments}
    BY <1>10, <2>2, <2>4
  <2> QED
    BY <2>5, <2>6
<1>13. PICK point : point = [t \in moments |-> [at |-> t, pnl |-> {figure[t]}]]
  OBVIOUS
<1>14. PICK points : points = {point[t] : t \in moments}
  OBVIOUS
<1>15. given.combined = points
  BY <1>12, <1>13, <1>14
<1>16. \A t \in moments : t \in Int /\ point[t].at = t /\ Figure(point[t].pnl) /\ point[t].pnl # {}
  <2>1. ASSUME NEW t \in moments PROVE t \in Int /\ figure[t] \in Int
    <3>1. t \in Nat
      BY <1>7
    <3> QED
      BY <1>9, <3>1
  <2> QED
    BY <1>13, <2>1 DEF Figure
<1>17. LineFine(points)
  <2>1. IsFiniteSet(points)
    BY <1>8, <1>14, ImageIsFinite
  <2> QED
    BY <1>14, <1>16, <2>1 DEF LineFine
<1>18. \A r \in points : r.pnl # {}
  BY <1>14, <1>16
<1> QED
  BY <1>6, <1>10, <1>11, <1>15, <1>17, <1>18 DEF AnswerFine

\* Of a period: a row of an account on a day, and a sum to each of the days.
LEMMA DailyFine ==
  ASSUME NEW found, RowsFine(found), NEW from
  PROVE  AnswerFine(Daily(found, from), TRUE)
<1>1. PICK given : given = Daily(found, from)
  OBVIOUS
<1>2. PICK rs : rs = {r \in Known(found) : DayAt(r.at) >= from}
  OBVIOUS
<1>3. given.rows = {r \in rs : r \in Latest({s \in rs : s.account = r.account /\ DayAt(s.at) = DayAt(r.at)})}
  BY <1>1, <1>2 DEF Daily
<1>4. given.unreported = {}
  BY <1>1 DEF Daily
<1>5. PICK last : last = given.rows
  OBVIOUS
<1>6. last \in SUBSET found /\ \A r \in last : r.pnl # {}
  BY <1>2, <1>3, <1>5 DEF Known
<1>7. RowsFine(last)
  BY <1>6, SomeRows
<1>8. given.combined = {[at |-> d, pnl |-> {Sum({r \in last : DayAt(r.at) <= d})}] : d \in {DayAt(r.at) : r \in last}}
  BY <1>1, <1>2, <1>3, <1>5 DEF Daily
<1>9. PICK dates : dates = {DayAt(r.at) : r \in last}
  OBVIOUS
<1>10. PICK figure : figure = [d \in Int |-> Sum({r \in last : DayAt(r.at) <= d})]
  OBVIOUS
<1>11. IsFiniteSet(dates) /\ dates \subseteq Int
  <2>1. PICK f : f = [r \in last |-> DayAt(r.at)]
    OBVIOUS
  <2>2. dates = {f[r] : r \in last}
    BY <1>9, <2>1
  <2>3. IsFiniteSet(dates)
    BY <1>7, <2>2, ImageIsFinite DEF RowsFine
  <2> QED
    BY <1>7, <1>9, <2>3, DayIsInt DEF RowsFine
<1>12. ASSUME NEW d \in Int PROVE figure[d] \in Int
  <2>1. PICK some : some = {r \in last : DayAt(r.at) <= d}
    OBVIOUS
  <2>2. RowsFine(some) /\ \A r \in some : r.pnl # {}
    BY <1>6, <1>7, <2>1, SomeRows
  <2>3. PICK f : f = [r \in some |-> Max(r.pnl)]
    OBVIOUS
  <2>4. /\ IsFiniteSet(some) /\ \A r \in some : Figure(r.pnl) /\ r.pnl # {}
        /\ \A r \in some : f[r] = Max(r.pnl)
    BY <2>2, <2>3 DEF RowsFine
  <2>5. Sum(some) \in Int
    BY <2>4, SumOfRows
  <2> QED
    BY <1>10, <2>1, <2>5
<1>13. given.combined = {[at |-> d, pnl |-> {figure[d]}] : d \in dates}
  <2>1. \A d \in dates : figure[d] = Sum({r \in last : DayAt(r.at) <= d})
    BY <1>10, <1>11
  <2> QED
    BY <1>8, <1>9, <2>1
<1>14. LineFine(given.combined) /\ \A r \in given.combined : r.pnl # {}
  <2>1. PICK point : point = [t \in dates |-> [at |-> t, pnl |-> {figure[t]}]]
    OBVIOUS
  <2>2. PICK points : points = {point[t] : t \in dates}
    OBVIOUS
  <2>3. given.combined = points
    BY <1>13, <2>1, <2>2
  <2>4. \A t \in dates : t \in Int /\ point[t].at = t /\ Figure(point[t].pnl) /\ point[t].pnl # {}
    <3>1. \A t \in dates : t \in Int /\ figure[t] \in Int
      BY <1>11, <1>12
    <3> QED
      BY <2>1, <3>1 DEF Figure
  <2>5. LineFine(points)
    <3>1. IsFiniteSet(points)
      BY <1>11, <2>2, ImageIsFinite
    <3> QED
      BY <2>2, <2>4, <3>1 DEF LineFine
  <2>6. \A r \in points : r.pnl # {}
    BY <2>2, <2>4
  <2> QED
    BY <2>3, <2>5, <2>6
<1> QED
  BY <1>1, <1>4, <1>5, <1>6, <1>7, <1>8, <1>14 DEF AnswerFine

\* So is whatever the query is answered with.
LEMMA AnswerIsFine ==
  ASSUME RowsFine(samples), NEW q, NEW upTo, AnswerTo(q, upTo).here
  PROVE  AnswerFine(AnswerTo(q, upTo), q.daily)
<1>1. PICK found : found = RowsOf(upTo, q.scope, q.assets)
  OBVIOUS
<1>2. RowsFine(found)
  BY <1>1, RowsFound
<1>3. AnswerTo(q, upTo) = IF upTo = 0 \/ q.scope = {} THEN NoAnswer
                         ELSE IF q.daily THEN Daily(found, q.from) ELSE Intraday(found, q.from)
  BY <1>1 DEF AnswerTo
<1>4. NoAnswer.here = FALSE
  BY DEF NoAnswer
<1>5. AnswerTo(q, upTo) = IF q.daily THEN Daily(found, q.from) ELSE Intraday(found, q.from)
  BY <1>3, <1>4
<1>6. CASE q.daily
  BY <1>2, <1>5, <1>6, DailyFine DEF AnswerFine
<1>7. CASE ~q.daily
  BY <1>2, <1>5, <1>7, IntradayFine DEF AnswerFine
<1> QED
  BY <1>6, <1>7

\* What the broker, or the socket, said of an account.
HeardFine(heard) == heard.at \in Nat /\ Figure(heard.pnl) /\ (heard.pnl # {} => heard.at > 0)
\* What an answer of the cache rests on: the samples, the figures heard and
\* the choice the answer is for.
WorkerFine ==
  /\ tick \in 1..LastTick
  /\ told = [a \in DeskAccounts |-> told[a]] /\ live = [a \in DeskAccounts |-> live[a]]
  /\ \A a \in DeskAccounts : HeardFine(told[a]) /\ HeardFine(live[a])
  /\ RowsFine(samples) /\ \A r \in samples : r.at < tick
PanelFine ==
  /\ onPage \in {NoAccount} \cup DeskAccounts /\ chosen \subseteq DeskAccounts
  /\ answer.here => AnswerFine(answer, OfPeriod)

\* The invariant holds at the start.
LEMMA PnlStart == PnlInit => WorkerFine /\ PanelFine
<1> SUFFICES ASSUME PnlInit PROVE WorkerFine /\ PanelFine
  OBVIOUS
<1>1. LastTick \in Nat /\ LastTick # 0
  BY PnlAssumption
<1>2. tick = 1 /\ live = told /\ samples = {}
  BY DEF PnlInit
<1>3. ~answer.here
  BY DEF PnlInit, NoAnswer
<1>4. onPage \in {NoAccount} \cup DeskAccounts /\ chosen \subseteq DeskAccounts
  BY DEF PnlInit
<1>5. RowsFine(samples)
  BY <1>2, FS_EmptySet DEF RowsFine
<1>6. PICK heard : told = [a \in DeskAccounts |-> IF a \in heard THEN [at |-> 1, pnl |-> {Earned[a][1]}]
                                                  ELSE [at |-> 0, pnl |-> {}]]
  BY DEF PnlInit
<1>7. ASSUME NEW a \in DeskAccounts PROVE HeardFine(told[a])
  <2>1. Earned[a][1] \in Int
    <3>1. 1 \in 1..LastTick
      BY <1>1
    <3> QED
      BY <3>1, PnlAssumption
  <2>2. CASE a \in heard
    <3>1. told[a].at = 1 /\ told[a].pnl = {Earned[a][1]}
      BY <1>6, <2>2
    <3> QED
      BY <2>1, <3>1 DEF HeardFine, Figure
  <2>3. CASE a \notin heard
    <3>1. told[a].at = 0 /\ told[a].pnl = {}
      BY <1>6, <2>3
    <3> QED
      BY <3>1 DEF HeardFine, Figure
  <2> QED
    BY <2>2, <2>3
<1>8. told = [a \in DeskAccounts |-> told[a]]
  BY <1>6
<1>9. tick \in 1..LastTick
  BY <1>1, <1>2
<1>10. WorkerFine
  BY <1>2, <1>5, <1>7, <1>8, <1>9 DEF WorkerFine
<1> QED
  BY <1>3, <1>4, <1>10 DEF PanelFine

\* The samples and the figures heard, one action at a time.
LEMMA ReportStep ==
  ASSUME WorkerFine, NEW a \in DeskAccounts, BrokerReports(a)
  PROVE  WorkerFine'
<1>1. tick' = tick /\ live' = live /\ samples' = samples
  BY DEF BrokerReports
<1>2. PICK pnl \in {{}, {Earned[a][tick]}} : told' = [told EXCEPT ![a] = [at |-> tick, pnl |-> pnl]]
  BY DEF BrokerReports
<1>3. tick \in Nat /\ tick > 0 /\ Figure(pnl)
  <2>1. tick \in Nat /\ tick > 0 /\ LastTick \in Nat
    BY PnlAssumption DEF WorkerFine
  <2>2. Earned[a][tick] \in Int
    BY PnlAssumption DEF WorkerFine
  <2> QED
    BY <2>1, <2>2 DEF Figure
<1>4. HeardFine([at |-> tick, pnl |-> pnl])
  BY <1>3 DEF HeardFine
<1>5. told' = [b \in DeskAccounts |-> IF b = a THEN [at |-> tick, pnl |-> pnl] ELSE told[b]]
  BY <1>2 DEF WorkerFine
<1>6. \A b \in DeskAccounts : HeardFine(told'[b])
  BY <1>4, <1>5 DEF WorkerFine
<1>7. told' = [b \in DeskAccounts |-> told'[b]]
  BY <1>5
<1>8. RowsFine(samples) /\ RowsFine(samples)'
  BY <1>1 DEF WorkerFine, RowsFine
<1>9. \A b \in DeskAccounts : HeardFine(told[b])' /\ HeardFine(live[b])'
  BY <1>1, <1>6 DEF WorkerFine, HeardFine
<1> QED
  BY <1>1, <1>7, <1>8, <1>9 DEF WorkerFine

LEMMA HearStep ==
  ASSUME WorkerFine, NEW a \in DeskAccounts, HearAccount(a)
  PROVE  WorkerFine'
<1>1. tick' = tick /\ told' = told /\ samples' = samples /\ live' = [live EXCEPT ![a] = told[a]]
  BY DEF HearAccount
<1>2. live' = [b \in DeskAccounts |-> IF b = a THEN told[b] ELSE live[b]]
  BY <1>1 DEF WorkerFine
<1>3. \A b \in DeskAccounts : HeardFine(live'[b])
  BY <1>2 DEF WorkerFine
<1>4. live' = [b \in DeskAccounts |-> live'[b]]
  BY <1>2
<1>5. \A b \in DeskAccounts : HeardFine(told[b])' /\ HeardFine(live[b])'
  BY <1>1, <1>3 DEF WorkerFine, HeardFine
<1>6. RowsFine(samples)'
  BY <1>1 DEF WorkerFine, RowsFine
<1> QED
  BY <1>1, <1>4, <1>5, <1>6 DEF WorkerFine

\* A session writes at a moment no sample has yet.
LEMMA SampleStep ==
  ASSUME WorkerFine, NEW feed \in Feeds, SessionSamples(feed)
  PROVE  WorkerFine'
<1>1. tick' = tick + 1 /\ tick < LastTick /\ told' = told /\ live' = live
  BY DEF SessionSamples
<1>2. PICK written \in SUBSET feed :
        samples' = samples \cup {[account |-> a, at |-> tick, pnl |-> told[a].pnl] : a \in written}
  BY DEF SessionSamples
<1>3. written \in SUBSET DeskAccounts
  BY PnlAssumption
<1>4. PICK row : row = [a \in written |-> [account |-> a, at |-> tick, pnl |-> told[a].pnl]]
  OBVIOUS
<1>5. PICK added : added = {row[a] : a \in written}
  OBVIOUS
<1>6. samples' = samples \cup added
  BY <1>2, <1>4, <1>5
<1>7. tick \in Nat /\ tick' \in 1..LastTick /\ tick < tick'
  BY <1>1, PnlAssumption DEF WorkerFine
<1>8. IsFiniteSet(added)
  <2>1. IsFiniteSet(written)
    BY <1>3, PnlAssumption, FS_Subset
  <2> QED
    BY <1>5, <2>1, ImageIsFinite
<1>9. \A a \in written : row[a].account = a /\ row[a].at = tick /\ Figure(row[a].pnl)
  BY <1>3, <1>4 DEF WorkerFine, HeardFine
<1>10. /\ \A r \in added : r.account \in DeskAccounts /\ r.at = tick /\ Figure(r.pnl)
       /\ \A r, q \in added : r.account = q.account => r = q
  BY <1>3, <1>5, <1>9
<1>11. /\ IsFiniteSet(samples) /\ \A r, q \in samples : r.account = q.account /\ r.at = q.at => r = q
       /\ \A r \in samples : r.account \in DeskAccounts /\ r.at \in Nat /\ Figure(r.pnl) /\ r.at < tick
  BY DEF WorkerFine, RowsFine
<1>12. PICK after : after = samples'
  OBVIOUS
<1>13. RowsFine(after) /\ \A r \in after : r.at < tick'
  <2>1. IsFiniteSet(after)
    BY <1>6, <1>8, <1>11, <1>12, FS_Union
  <2>2. \A r \in after : r \in samples \/ r \in added
    BY <1>6, <1>12
  <2>3. \A r \in after : r.account \in DeskAccounts /\ r.at \in Nat /\ Figure(r.pnl) /\ r.at < tick'
    BY <1>7, <1>10, <1>11, <2>2
  <2>4. \A r \in samples, q \in added : r.at # q.at
    BY <1>7, <1>10, <1>11
  <2>5. \A r, q \in after : r.account = q.account /\ r.at = q.at => r = q
    BY <1>10, <1>11, <2>2, <2>4
  <2> QED
    BY <2>1, <2>3, <2>5 DEF RowsFine
<1>14. RowsFine(samples)'
  BY <1>12, <1>13 DEF RowsFine
<1>15. \A b \in DeskAccounts : HeardFine(told[b])' /\ HeardFine(live[b])'
  BY <1>1 DEF WorkerFine, HeardFine
<1>16. told' = [a \in DeskAccounts |-> told'[a]] /\ live' = [a \in DeskAccounts |-> live'[a]]
  BY <1>1 DEF WorkerFine
<1> QED
  BY <1>7, <1>12, <1>13, <1>14, <1>15, <1>16 DEF WorkerFine

\* Whatever is answered is for the choice that is made.
LEMMA AnsweredAnew ==
  ASSUME WorkerFine, AskedAnew
  PROVE  (answer.here => AnswerFine(answer, OfPeriod))'
<1>1. PICK q \in {Question'}, upTo \in 0..tick : answer' = AnswerTo(q, upTo)
  BY DEF AskedAnew
<1>2. q.daily = OfPeriod'
  BY <1>1 DEF Question
<1>3. ASSUME answer'.here PROVE AnswerFine(answer', OfPeriod')
  BY <1>1, <1>2, <1>3, AnswerIsFine DEF WorkerFine
<1> QED
  BY <1>3 DEF AnswerFine, RowsFine, LineFine

\* An answer that stays is for the choice that stays.
LEMMA AnswerStays ==
  ASSUME answer.here => AnswerFine(answer, OfPeriod), UNCHANGED <<answer, period>>
  PROVE  (answer.here => AnswerFine(answer, OfPeriod))'
  BY DEF AnswerFine, RowsFine, LineFine, OfPeriod

\* The panel, one action at a time.
LEMMA PnlPanelStep ==
  ASSUME WorkerFine, PanelFine, PnlNext
  PROVE  PanelFine'
<1> USE DEF PanelFine
<1>1. ASSUME NEW a \in DeskAccounts, BrokerReports(a) PROVE PanelFine'
  BY <1>1, AnswerStays DEF BrokerReports
<1>2. ASSUME NEW a \in DeskAccounts, HearAccount(a) PROVE PanelFine'
  BY <1>2, AnswerStays DEF HearAccount
<1>3. ASSUME NEW feed \in Feeds, SessionSamples(feed) PROVE PanelFine'
  <2>1. UNCHANGED <<onPage, chosen, period>>
    BY <1>3 DEF SessionSamples
  <2>2. answer' = answer \/ answer' = NoAnswer
    BY <1>3 DEF SessionSamples
  <2>3. CASE answer' = answer
    BY <2>1, <2>3, AnswerStays
  <2>4. CASE answer' = NoAnswer
    BY <2>1, <2>4 DEF NoAnswer
  <2> QED
    BY <2>2, <2>3, <2>4
<1>4. ASSUME Fetch PROVE PanelFine'
  <2>1. UNCHANGED <<onPage, chosen, period>>
    BY <1>4 DEF Fetch
  <2>2. answer' = answer \/ answer' = AnswerTo(Question, tick)
    BY <1>4 DEF Fetch
  <2>3. CASE answer' = answer
    BY <2>1, <2>3, AnswerStays
  <2>4. CASE answer' = AnswerTo(Question, tick)
    <3>1. Question.daily = OfPeriod /\ OfPeriod' = OfPeriod
      BY <2>1 DEF Question, OfPeriod
    <3>2. answer'.here => AnswerFine(answer', OfPeriod')
      BY <2>4, <3>1, AnswerIsFine DEF WorkerFine
    <3>3. (answer.here => AnswerFine(answer, OfPeriod))'
      BY <3>2 DEF AnswerFine, RowsFine, LineFine
    <3> QED
      BY <2>1, <3>3
  <2> QED
    BY <2>2, <2>3, <2>4
<1>5. ASSUME UsePanel PROVE PanelFine'
  <2>1. AskedAnew /\ onPage' = onPage
    BY <1>5 DEF UsePanel
  <2>2. chosen' \subseteq DeskAccounts
    BY <1>5 DEF UsePanel
  <2> QED
    BY <2>1, <2>2, AnsweredAnew
<1>6. ASSUME AssetsArrive PROVE PanelFine'
  <2>1. UNCHANGED <<onPage, chosen, period>>
    BY <1>6 DEF AssetsArrive
  <2>2. answer' = answer \/ AskedAnew
    BY <1>6 DEF AssetsArrive
  <2>3. CASE answer' = answer
    BY <2>1, <2>3, AnswerStays
  <2>4. CASE AskedAnew
    BY <2>1, <2>4, AnsweredAnew
  <2> QED
    BY <2>2, <2>3, <2>4
<1> QED
  BY <1>1, <1>2, <1>3, <1>4, <1>5, <1>6 DEF PnlNext

\* Every step keeps the invariant.
LEMMA PnlStays ==
  ASSUME WorkerFine, PanelFine, [PnlNext]_pnlVars
  PROVE  WorkerFine' /\ PanelFine'
<1>1. CASE UNCHANGED pnlVars
  <2>1. UNCHANGED <<tick, told, live, samples, onPage, chosen, answer, period>>
    BY <1>1 DEF pnlVars
  <2>2. WorkerFine'
    BY <2>1 DEF WorkerFine, HeardFine, RowsFine
  <2>3. PanelFine'
    BY <2>1, AnswerStays DEF PanelFine
  <2> QED
    BY <2>2, <2>3
<1>2. CASE PnlNext
  <2>1. UNCHANGED <<tick, told, live, samples>> => WorkerFine'
    BY DEF WorkerFine, HeardFine, RowsFine
  <2>2. Fetch \/ UsePanel \/ AssetsArrive => UNCHANGED <<tick, told, live, samples>>
    BY DEF Fetch, UsePanel, AssetsArrive
  <2>3. WorkerFine'
    BY <1>2, <2>1, <2>2, ReportStep, HearStep, SampleStep DEF PnlNext
  <2> QED
    BY <1>2, <2>3, PnlPanelStep
<1> QED
  BY <1>1, <1>2

\* A finite set of integers is bounded.
LEMMA HasMost ==
  ASSUME NEW S, IsFiniteSet(S), S \subseteq Int
  PROVE  \E high \in Int : \A k \in S : k <= high
<1> DEFINE bad == {s \in SUBSET S : ~\E high \in Int : \A k \in s : k <= high}
<1>1. SUFFICES ASSUME bad # {} PROVE FALSE
  BY <1>1
<1>2. \A s \in bad : IsFiniteSet(s)
  BY FS_Subset
<1>3. PICK s \in bad : \A t \in bad : Cardinality(s) <= Cardinality(t)
  <2> HIDE DEF bad
  <2> QED
    BY <1>1, <1>2, SmallestBad
<1>4. s \subseteq Int /\ ~\E high \in Int : \A k \in s : k <= high
  OBVIOUS
<1>5. PICK x \in s : TRUE
  BY <1>4
<1>6. PICK rest : rest = s \ {x}
  OBVIOUS
<1>7. ~(Cardinality(s) <= Cardinality(rest))
  <2>1. Cardinality(s) \in Nat /\ Cardinality(rest) = Cardinality(s) - 1
    BY <1>2, <1>6, FS_CardinalityType, FS_RemoveElement
  <2> QED
    BY <2>1
<1>8. PICK high \in Int : \A k \in rest : k <= high
  BY <1>3, <1>6, <1>7
<1>9. \A k \in s : k \in rest \/ k = x
  BY <1>6
<1>10. CASE x <= high
  BY <1>4, <1>8, <1>9, <1>10
<1>11. CASE ~(x <= high)
  <2>1. x \in Int /\ \A k \in s : k \in Int
    BY <1>4
  <2>2. \A k \in s : k <= x
    BY <1>8, <1>9, <1>11, <2>1
  <2> QED
    BY <1>4, <2>1, <2>2
<1> QED
  BY <1>10, <1>11

\* A chart is drawn of an answer.
LEMMA ChartHas ==
  ASSUME PanelFine, Body = "chart"
  PROVE  AnswerFine(answer, OfPeriod)
  BY DEF Body, PanelFine

\* The rows of an account are a line of its own.
LEMMA RowsOfOne ==
  ASSUME RowsFine(answer.rows), NEW a
  PROVE  LineFine(RowsFor(a)) /\ RowsFor(a) \in SUBSET answer.rows
<1>1. RowsFor(a) \in SUBSET answer.rows /\ \A r \in RowsFor(a) : r.account = a
  BY DEF RowsFor
<1>2. RowsFine(RowsFor(a))
  BY <1>1, SomeRows
<1> QED
  BY <1>1, <1>2 DEF RowsFine, LineFine

\* The accounts that are drawn are accounts of the dashboard, with rows.
LEMMA DrawnAreOurs ==
  ASSUME RowsFine(answer.rows)
  PROVE  /\ IsFiniteSet(PerAccount) /\ PerAccount \subseteq DeskAccounts /\ Drawn \subseteq PerAccount
         /\ \A a \in PerAccount : RowsFor(a) # {}
<1>1. PerAccount \subseteq DeskAccounts /\ Drawn \subseteq PerAccount
  BY DEF PerAccount, Drawn, RowsFine
<1>2. IsFiniteSet(PerAccount)
  BY <1>1, PnlAssumption, FS_Subset
<1>3. \A a \in PerAccount : RowsFor(a) # {}
  BY DEF PerAccount, RowsFor
<1> QED
  BY <1>1, <1>2, <1>3

LEMMA AllCombined ==
  ASSUME NEW rs, \A r \in rs : r.pnl # {}
  PROVE  Known(rs) = rs
  BY DEF Known

\* What the socket brought, together: a number that was heard at some moment.
LEMMA LiveIsFine ==
  ASSUME WorkerFine, PanelFine
  PROVE  LiveAt \in Nat /\ Figure(LiveTotal) /\ (LiveTotal # {} => LiveAt > 0)
<1>1. PICK heard : heard = LiveReported
  OBVIOUS
<1>2. \A a \in heard : a \in Scope /\ Value(a) # {} /\ Value(a) = live[a].pnl
  BY <1>1 DEF LiveReported, Standings, Value
<1>3. Scope \subseteq DeskAccounts
  BY DEF Scope, PanelFine
<1>4. heard \in SUBSET DeskAccounts /\ IsFiniteSet(heard)
  BY <1>2, <1>3, PnlAssumption, FS_Subset
<1>5. \A a \in heard : live[a].at \in Nat /\ live[a].at > 0 /\ Figure(Value(a)) /\ Value(a) # {}
  BY <1>2, <1>4 DEF WorkerFine, HeardFine
<1>6. PICK f : f = [a \in heard |-> Max(Value(a))]
  OBVIOUS
<1>7. SumFunction(f) \in Int
  <2>1. DOMAIN f = heard /\ \A a \in heard : f[a] \in Int
    BY <1>5, <1>6, NumberIs
  <2> QED
    BY <1>4, <2>1, SumIsTotal, TotalRemove
<1>8. LiveTotal = IF heard = {} THEN {} ELSE {SumFunction(f)}
  BY <1>1, <1>6 DEF LiveTotal, FigureOf, SumOver
<1>9. Figure(LiveTotal) /\ (LiveTotal # {} => heard # {})
  BY <1>7, <1>8 DEF Figure
<1>10. LiveAt \in {0} \cup {live[a].at : a \in heard} /\ \A t \in {0} \cup {live[a].at : a \in heard} : t <= LiveAt
  <2>1. PICK times : times = {0} \cup {live[a].at : a \in heard}
    OBVIOUS
  <2>2. PICK at : at = [a \in heard |-> live[a].at]
    OBVIOUS
  <2>3. PICK some : some = {at[a] : a \in heard}
    OBVIOUS
  <2>4. IsFiniteSet(some)
    BY <1>4, <2>3, ImageIsFinite
  <2>5. times = some \cup {0}
    BY <2>1, <2>2, <2>3
  <2>6. IsFiniteSet(times) /\ times # {} /\ times \subseteq Int
    BY <1>5, <2>1, <2>4, <2>5, FS_AddElement
  <2>7. LiveAt = Max(times)
    BY <1>1, <2>1 DEF LiveAt
  <2>8. PICK high \in Int : \A t \in times : t <= high
    BY <2>6, HasMost
  <2>9. Max(times) \in times /\ \A t \in times : t <= Max(times)
    BY <2>6, <2>8, MaxIs
  <2> QED
    BY <2>1, <2>7, <2>9
<1>11. LiveAt \in Nat
  BY <1>5, <1>10
<1>12. ASSUME NEW a \in heard PROVE LiveAt > 0
  <2>1. live[a].at <= LiveAt
    BY <1>10
  <2> QED
    BY <1>5, <1>11, <2>1
<1> QED
  BY <1>9, <1>11, <1>12

\* The figures of some rows, account by account.
LEMMA SumByAccount ==
  ASSUME RowsFine(answer.rows), \A r \in answer.rows : r.pnl # {},
         NEW some \in SUBSET answer.rows,
         NEW sums, \A a \in PerAccount : sums[a] = Sum({r \in some : r.account = a})
  PROVE  Total(sums, PerAccount) = Sum(some) /\ Sum(some) \in Int
<1>1. PICK f : f = [r \in some |-> Max(r.pnl)]
  OBVIOUS
<1>2. IsFiniteSet(some) /\ \A r \in some : Figure(r.pnl) /\ r.pnl # {} /\ f[r] = Max(r.pnl)
  BY <1>1, FS_Subset DEF RowsFine
<1>3. PICK part : part = [a \in PerAccount |-> {r \in some : r.account = a}]
  OBVIOUS
<1>4. \A r \in some : f[r] \in Int
  BY <1>2, NumberIs
<1>5. ASSUME NEW a \in PerAccount PROVE sums[a] = Total(f, part[a])
  <2>1. part[a] = {r \in some : r.account = a}
    BY <1>3
  <2>2. part[a] \in SUBSET some
    BY <2>1
  <2>3. IsFiniteSet(part[a]) /\ \A r \in part[a] : Figure(r.pnl) /\ r.pnl # {} /\ f[r] = Max(r.pnl)
    BY <1>2, <2>2, FS_Subset
  <2>4. Sum(part[a]) = Total(f, part[a])
    BY <2>3, SumOfRows
  <2> QED
    BY <2>1, <2>4
<1>6. IsFiniteSet(PerAccount)
  BY DrawnAreOurs
<1>7. \A a \in PerAccount : part[a] \subseteq some
  BY <1>3
<1>8. \A a, b \in PerAccount : a # b => part[a] \cap part[b] = {}
  BY <1>3
<1>9. Total(sums, PerAccount) = Total(f, UNION {part[a] : a \in PerAccount})
  BY <1>2, <1>4, <1>5, <1>6, <1>7, <1>8, TotalOfParts
<1>10. UNION {part[a] : a \in PerAccount} = some
  <2>1. \A r \in some : r.account \in PerAccount
    BY DEF PerAccount
  <2> QED
    BY <1>3, <2>1
<1>11. Sum(some) = Total(f, some) /\ Sum(some) \in Int
  BY <1>2, SumOfRows
<1> QED
  BY <1>9, <1>10, <1>11

\* A period: its line is of the sums of all the accounts to each of its days.
LEMMA PeriodAddsUp ==
  ASSUME AnswerFine(answer, OfPeriod), OfPeriod
  PROVE  /\ \A r \in answer.combined : r.pnl = {SumOver(Drawn, LAMBDA a : CumulativeAt(a, r.at))}
         /\ LastCombined = FigureOf(Standings)
<1>1. /\ RowsFine(answer.rows) /\ answer.unreported = {} /\ \A r \in answer.rows : r.pnl # {}
      /\ answer.combined = {[at |-> d, pnl |-> {Sum({r \in answer.rows : DayAt(r.at) <= d})}]
                            : d \in {DayAt(r.at) : r \in answer.rows}}
  BY DEF AnswerFine
<1>2. Drawn = PerAccount
  BY <1>1 DEF Drawn
<1>3. IsFiniteSet(answer.rows) /\ \A r \in answer.rows : DayAt(r.at) \in Int
  BY <1>1, DayIsInt DEF RowsFine
<1>4. IsFiniteSet(PerAccount) /\ \A a \in PerAccount : RowsFor(a) # {}
  BY <1>1, DrawnAreOurs
<1>5. ASSUME NEW c \in answer.combined
      PROVE  c.pnl = {SumOver(Drawn, LAMBDA a : CumulativeAt(a, c.at))}
  <2>1. PICK d \in {DayAt(r.at) : r \in answer.rows} :
          c = [at |-> d, pnl |-> {Sum({r \in answer.rows : DayAt(r.at) <= d})}]
    BY <1>1
  <2>2. PICK some : some = {r \in answer.rows : DayAt(r.at) <= d}
    OBVIOUS
  <2>3. PICK sums : sums = [a \in PerAccount |-> CumulativeAt(a, d)]
    OBVIOUS
  <2>4. ASSUME NEW a \in PerAccount PROVE sums[a] = Sum({r \in some : r.account = a})
    <3>1. CumulativeAt(a, d) = SumFunction([x \in {r \in RowsFor(a) : DayAt(r.at) <= d} |-> Max(x.pnl)])
      BY DEF CumulativeAt, SumOver
    <3>2. {r \in RowsFor(a) : DayAt(r.at) <= d} = {r \in some : r.account = a}
      BY <2>2 DEF RowsFor
    <3>3. Sum({r \in some : r.account = a}) = SumFunction([x \in {r \in some : r.account = a} |-> Max(x.pnl)])
      BY DEF Sum, SumOver
    <3> QED
      BY <2>3, <3>1, <3>2, <3>3
  <2>5. Total(sums, PerAccount) = Sum(some)
    BY <1>1, <2>2, <2>4, SumByAccount
  <2>6. SumFunction(sums) = Total(sums, PerAccount)
    BY <2>3, SumIsTotal
  <2>7. SumOver(Drawn, LAMBDA a : CumulativeAt(a, c.at)) = SumFunction([a \in Drawn |-> CumulativeAt(a, c.at)])
    BY DEF SumOver
  <2>8. c.at = d /\ c.pnl = {Sum(some)}
    BY <2>1, <2>2
  <2>9. [a \in Drawn |-> CumulativeAt(a, c.at)] = sums
    BY <1>2, <2>3, <2>8
  <2>10. SumFunction([a \in Drawn |-> CumulativeAt(a, c.at)]) = Sum(some)
    BY <2>5, <2>6, <2>9
  <2>11. SumOver(Drawn, LAMBDA a : CumulativeAt(a, c.at)) = Sum(some)
    BY <2>7, <2>10
  <2> QED
    BY <2>8, <2>11
<1>6. PICK sums : sums = [a \in PerAccount |-> Sum(RowsFor(a))]
  OBVIOUS
<1>7. Total(sums, PerAccount) = Sum(answer.rows) /\ Sum(answer.rows) \in Int
  <2>1. \A a \in PerAccount : sums[a] = Sum({r \in answer.rows : r.account = a})
    BY <1>6 DEF RowsFor
  <2>2. PICK some : some = answer.rows
    OBVIOUS
  <2>3. some \in SUBSET answer.rows /\ \A a \in PerAccount : sums[a] = Sum({r \in some : r.account = a})
    BY <2>1, <2>2
  <2>4. Total(sums, PerAccount) = Sum(some) /\ Sum(some) \in Int
    BY <1>1, <2>3, SumByAccount
  <2> QED
    BY <2>2, <2>4
<1>8. \A a \in PerAccount : Value(a) = {sums[a]} /\ sums[a] \in Int
  <2>1. SUFFICES ASSUME NEW a \in PerAccount PROVE Value(a) = {sums[a]} /\ sums[a] \in Int
    OBVIOUS
  <2>2. Value(a) = {Sum(RowsFor(a))}
    BY <1>4 DEF Value, FromLive
  <2>3. RowsFor(a) \in SUBSET answer.rows
    BY DEF RowsFor
  <2>4. PICK f : f = [r \in RowsFor(a) |-> Max(r.pnl)]
    OBVIOUS
  <2>5. IsFiniteSet(RowsFor(a)) /\ \A r \in RowsFor(a) : Figure(r.pnl) /\ r.pnl # {} /\ f[r] = Max(r.pnl)
    BY <1>1, <2>3, <2>4, FS_Subset DEF RowsFine
  <2>6. Sum(RowsFor(a)) \in Int
    BY <2>5, SumOfRows
  <2> QED
    BY <1>6, <2>2, <2>6
<1>9. Standings = PerAccount
  BY <1>8 DEF Standings, FromLive
<1>10. CASE answer.rows = {}
  <2>1. PerAccount = {} /\ answer.combined = {}
    BY <1>1, <1>10 DEF PerAccount
  <2>2. LastCombined = {}
    BY <2>1 DEF LastCombined, Latest
  <2>3. FigureOf(Standings) = {}
    BY <1>9, <2>1 DEF FigureOf
  <2> QED
    BY <1>5, <2>2, <2>3
<1>11. CASE answer.rows # {}
  <2>1. PICK dates : dates = {DayAt(r.at) : r \in answer.rows}
    OBVIOUS
  <2>2. PICK f : f = [r \in answer.rows |-> DayAt(r.at)]
    OBVIOUS
  <2>3. IsFiniteSet(dates) /\ dates # {} /\ dates \subseteq Int
    <3>1. dates = {f[r] : r \in answer.rows}
      BY <2>1, <2>2
    <3>2. IsFiniteSet(dates)
      BY <1>3, <3>1, ImageIsFinite
    <3> QED
      BY <1>3, <1>11, <2>1, <3>2
  <2>4. PICK high \in Int : \A d \in dates : d <= high
    BY <2>3, HasMost
  <2>5. PICK top : top = Max(dates)
    OBVIOUS
  <2>6. top \in dates /\ \A d \in dates : d <= top
    BY <2>3, <2>4, <2>5, MaxIs
  <2>7. {r \in answer.rows : DayAt(r.at) <= top} = answer.rows
    BY <2>1, <2>6
  <2>8. PICK end : end = [at |-> top, pnl |-> {Sum(answer.rows)}]
    OBVIOUS
  <2>9. end \in answer.combined
    <3>1. end = [at |-> top, pnl |-> {Sum({r \in answer.rows : DayAt(r.at) <= top})}]
      BY <2>7, <2>8
    <3> QED
      BY <1>1, <2>1, <2>6, <3>1
  <2>10. \A c \in answer.combined : c.at \in dates
    BY <1>1, <2>1
  <2>11. Latest(answer.combined) = {end}
    <3>1. end \in Latest(answer.combined)
      BY <2>6, <2>8, <2>9, <2>10 DEF Latest
    <3>2. ASSUME NEW c \in Latest(answer.combined) PROVE c = end
      <4>1. c \in answer.combined /\ end.at <= c.at
        BY <2>9 DEF Latest
      <4>2. c.at \in dates /\ end.at = top
        BY <2>8, <2>10, <4>1
      <4>3. c.at = end.at
        <5>1. c.at \in Int /\ end.at \in Int /\ c.at <= end.at
          BY <2>3, <2>6, <4>2
        <5> QED
          BY <4>1, <5>1
      <4>4. LineFine(answer.combined)
        BY DEF AnswerFine
      <4> QED
        BY <2>9, <4>1, <4>3, <4>4 DEF LineFine
    <3> QED
      BY <3>1, <3>2
  <2>12. LastCombined = {Sum(answer.rows)}
    BY <2>8, <2>11 DEF LastCombined
  <2>13. PerAccount # {}
    BY <1>11 DEF PerAccount
  <2>14. FigureOf(Standings) = {SumFunction([a \in PerAccount |-> Max(Value(a))])}
    BY <1>9, <2>13 DEF FigureOf, SumOver
  <2>15. \A a \in PerAccount : Max(Value(a)) = sums[a]
    BY <1>8, MaxOfOne
  <2>16. [a \in PerAccount |-> Max(Value(a))] = sums
    BY <1>6, <2>15
  <2>17. SumFunction(sums) = Total(sums, PerAccount)
    BY <1>6, SumIsTotal
  <2> QED
    BY <1>5, <1>7, <2>12, <2>14, <2>16, <2>17
<1> QED
  BY <1>10, <1>11

\* The end of the line, and the headline.
LEMMA LinesHold ==
  ASSUME WorkerFine, PanelFine, AnswerFine(answer, OfPeriod)
  PROVE  /\ Rising(CombinedLine)
         /\ Headline # {} /\ Desk => Headline = {Last(CombinedLine).pnl}
         /\ \A a \in Drawn : Rising(PointsFor(a))
         /\ ~OfPeriod => \A a \in Standings \cap Drawn : Value(a) = {Last(PointsFor(a)).pnl}
<1>1. LineFine(answer.combined) /\ (\A r \in answer.combined : r.pnl # {}) /\ RowsFine(answer.rows)
  BY DEF AnswerFine
<1>2. PICK line : line = LineOf(answer.combined)
  OBVIOUS
<1>3. Known(answer.combined) = answer.combined
  BY <1>1, AllCombined
<1>4. /\ IsLine(line) /\ Rising(line)
      /\ answer.combined = {} => line = <<>>
      /\ answer.combined # {} => LastCombined = {Last(line).pnl}
  BY <1>1, <1>2, <1>3, LineIs DEF IsLine, LastCombined
<1>5. LastCombined # {} => LastCombined = {Last(line).pnl}
  <2>1. answer.combined = {} => LastCombined = {}
    BY DEF LastCombined, Latest
  <2> QED
    BY <1>4, <2>1
<1>6. LiveAt \in Nat /\ Figure(LiveTotal) /\ (LiveTotal # {} => LiveAt > 0)
  BY LiveIsFine
<1>7. PICK long : long = ExtendLive(line, LiveAt, LiveTotal)
  OBVIOUS
<1>8. /\ Rising(long) /\ (LiveTotal = {} => long = line)
      /\ LiveTotal # {} => LiveTotal = {Last(long).pnl}
  BY <1>4, <1>6, <1>7, ExtendIs
<1>9. CombinedLine = IF OfPeriod THEN line ELSE long
  BY <1>2, <1>7 DEF CombinedLine
<1>10. Rising(CombinedLine)
  BY <1>4, <1>8, <1>9
<1>11. ASSUME Headline # {}, Desk PROVE Headline = {Last(CombinedLine).pnl}
  <2>1. CASE OfPeriod
    <3>1. Headline = LastCombined /\ CombinedLine = line
      BY <1>9, <2>1 DEF Headline
    <3> QED
      BY <1>5, <1>11, <3>1
  <2>2. CASE ~OfPeriod /\ LiveTotal # {}
    <3>1. Headline = LiveTotal /\ CombinedLine = long
      BY <1>9, <2>2 DEF Headline
    <3> QED
      BY <1>8, <2>2, <3>1
  <2>3. CASE ~OfPeriod /\ LiveTotal = {}
    <3>1. Headline = LastCombined /\ CombinedLine = line
      BY <1>8, <1>9, <1>11, <2>3 DEF Headline
    <3> QED
      BY <1>5, <1>11, <3>1
  <2> QED
    BY <2>1, <2>2, <2>3
<1>12. ASSUME NEW a \in Drawn
       PROVE  /\ Rising(PointsFor(a))
              /\ ~OfPeriod /\ Value(a) # {} => Value(a) = {Last(PointsFor(a)).pnl}
  <2>1. a \in DeskAccounts
    BY <1>1, DrawnAreOurs
  <2>2. LineFine(RowsFor(a))
    BY <1>1, RowsOfOne
  <2>3. PICK own : own = LineOf(RowsFor(a))
    OBVIOUS
  <2>4. /\ IsLine(own) /\ Rising(own)
        /\ Known(RowsFor(a)) # {} => UNION {r.pnl : r \in Latest(Known(RowsFor(a)))} = {Last(own).pnl}
    BY <2>2, <2>3, LineIs DEF IsLine
  <2>5. CASE FromLive
    <3>1. HeardFine(live[a])
      BY <2>1 DEF WorkerFine
    <3>2. live[a].at \in Nat /\ Figure(live[a].pnl) /\ (live[a].pnl # {} => live[a].at > 0)
      BY <3>1 DEF HeardFine
    <3>3. PointsFor(a) = ExtendLive(own, live[a].at, live[a].pnl) /\ Value(a) = live[a].pnl
      BY <2>3, <2>5 DEF PointsFor, Value
    <3>4. PICK when, value : when = live[a].at /\ value = live[a].pnl
      BY <3>2
    <3>5. PICK points : points = PointsFor(a)
      OBVIOUS
    <3>6. Rising(points) /\ (value # {} => value = {Last(points).pnl})
      BY <2>4, <3>2, <3>3, <3>4, <3>5, ExtendIs
    <3> QED
      BY <3>3, <3>4, <3>5, <3>6
  <2>6. CASE ~FromLive
    <3>1. PointsFor(a) = own
      BY <2>3, <2>6 DEF PointsFor
    <3>2. ASSUME ~OfPeriod, Value(a) # {} PROVE Value(a) = {Last(own).pnl}
      <4>1. Value(a) = UNION {r.pnl : r \in Latest(Known(RowsFor(a)))}
        BY <2>6, <3>2 DEF Value
      <4>2. Known(RowsFor(a)) # {}
        <5>1. Known(RowsFor(a)) = {} => Latest(Known(RowsFor(a))) = {}
          BY DEF Latest
        <5> QED
          BY <3>2, <4>1, <5>1
      <4> QED
        BY <2>4, <4>1, <4>2
    <3> QED
      BY <2>4, <3>1, <3>2
  <2> QED
    BY <2>5, <2>6
<1>13. \A a \in Standings : Value(a) # {}
  BY DEF Standings
<1> QED
  BY <1>10, <1>11, <1>12, <1>13

\* Of any state of the invariant the panel adds up.
LEMMA PnlAdds ==
  ASSUME WorkerFine, PanelFine
  PROVE  PnlAddsUp
<1>1. SUFFICES ASSUME Body = "chart" PROVE PnlAddsUp
  BY DEF PnlAddsUp
<1>2. AnswerFine(answer, OfPeriod)
  BY <1>1, ChartHas
<1>3. OfPeriod \/ LiveTotal # {} => Headline = FigureOf(Standings)
  <2>1. CASE OfPeriod
    BY <1>2, <2>1, PeriodAddsUp DEF Headline
  <2>2. CASE ~OfPeriod /\ LiveTotal # {}
    <3>1. Headline = LiveTotal /\ LiveTotal = FigureOf(LiveReported) /\ LiveReported # {}
      BY <2>2 DEF Headline, LiveTotal, FigureOf
    <3>2. LiveReported = Standings
      BY <3>1 DEF LiveReported
    <3> QED
      BY <3>1, <3>2
  <2> QED
    BY <2>1, <2>2
<1>4. /\ Rising(CombinedLine) /\ \A a \in Drawn : Rising(PointsFor(a))
      /\ Headline # {} /\ Desk => Headline = {Last(CombinedLine).pnl}
      /\ ~OfPeriod => \A a \in Standings \cap Drawn : Value(a) = {Last(PointsFor(a)).pnl}
  BY <1>2, LinesHold
<1>5. OfPeriod => \A r \in answer.combined :
            r.pnl = {SumOver(Drawn, LAMBDA a : CumulativeAt(a, r.at))}
  BY <1>2, PeriodAddsUp
<1>6. \A line \in {CombinedLine} \cup {PointsFor(a) : a \in Drawn} :
        \A i \in 1 .. Len(line) - 1 : line[i].at < line[i + 1].at
  BY <1>4 DEF Rising
<1> QED
  BY <1>3, <1>4, <1>5, <1>6 DEF PnlAddsUp

\* Whatever samples, reports and answers are missing, late or from before, the
\* panel is of one piece: the headline is the sum of the figures listed and the
\* end of the line, every account's line ends in its figure, the lines of a
\* period add up to the combined one at every day, and no line goes back in
\* time (day-pnl.tsx, lines 104-146 and 189-197).
THEOREM PnlHolds == PnlSpec => []PnlAddsUp
<1>1. PnlInit => WorkerFine /\ PanelFine
  BY PnlStart
<1>2. WorkerFine /\ PanelFine /\ [PnlNext]_pnlVars => (WorkerFine /\ PanelFine)'
  BY PnlStays
<1>3. WorkerFine /\ PanelFine => PnlAddsUp
  BY PnlAdds
<1> QED
  BY <1>1, <1>2, <1>3, PTL DEF PnlSpec

-----------------------------------------------------------------------------
(***************************************************************************)
(* The table. Choices no row answers are dropped once per render: every    *)
(* render that drops drops one at least, so after as many renders as there *)
(* are facets the rest is answered, and some row is shown. The order of    *)
(* the rows is total, so their ranks are the places from 0 on, each on one *)
(* page; a run is what has one label; a row is in one part of one run.     *)
(***************************************************************************)

\* Dropping the choices no row answers, so often.
Iterates(g, n, rs, ticks) ==
  g = [k \in 0..n |-> IF k = 0 THEN ticks ELSE Dropped(rs, g[k - 1])]

\* The function Settled chooses exists for any number of renders.
LEMMA IteratesExist ==
  ASSUME NEW rs, NEW ticks
  PROVE  \A n \in Nat : \E g : Iterates(g, n, rs, ticks)
<1> DEFINE bad == {n \in Nat : ~\E g : Iterates(g, n, rs, ticks)}
<1>1. SUFFICES ASSUME bad # {} PROVE FALSE
  OBVIOUS
<1>2. PICK n \in bad : \A k \in bad : n <= k
  <2>1. bad \subseteq Nat
    OBVIOUS
  <2> HIDE DEF bad
  <2> QED
    BY <1>1, <2>1, HasLeast
<1>3. CASE n = 0
  <2>1. PICK g : g = [k \in 0..0 |-> ticks]
    OBVIOUS
  <2>2. Iterates(g, 0, rs, ticks)
    BY <2>1 DEF Iterates
  <2> QED
    BY <1>2, <1>3, <2>2
<1>4. CASE n # 0
  <2>1. n \in Nat /\ n - 1 \in Nat /\ n - 1 \notin bad
    BY <1>2, <1>4
  <2>2. PICK h : Iterates(h, n - 1, rs, ticks)
    BY <2>1
  <2>3. PICK g : g = [k \in 0..n |-> IF k < n THEN h[k] ELSE Dropped(rs, h[n - 1])]
    OBVIOUS
  <2>4. \A k \in 0..(n - 1) : h[k] = IF k = 0 THEN ticks ELSE Dropped(rs, h[k - 1])
    BY <2>2 DEF Iterates
  <2>5. ASSUME NEW k \in 0..n
        PROVE  g[k] = IF k = 0 THEN ticks ELSE Dropped(rs, g[k - 1])
    <3>1. CASE k = 0
      BY <1>4, <2>1, <2>3, <2>4, <3>1
    <3>2. CASE k # 0 /\ k < n
      <4>1. k \in 0..(n - 1) /\ k - 1 \in 0..n /\ k - 1 < n
        BY <2>1, <3>2
      <4>2. g[k] = h[k] /\ g[k - 1] = h[k - 1]
        BY <2>3, <3>2, <4>1
      <4> QED
        BY <2>4, <3>2, <4>1, <4>2
    <3>3. CASE k # 0 /\ ~(k < n)
      <4>1. k = n /\ k - 1 \in 0..n /\ k - 1 < n
        BY <2>1, <3>3
      <4>2. g[k] = Dropped(rs, h[n - 1]) /\ g[k - 1] = h[n - 1]
        BY <2>3, <3>3, <4>1
      <4> QED
        BY <3>3, <4>2
    <3> QED
      BY <3>1, <3>2, <3>3
  <2>6. g = [k \in 0..n |-> g[k]]
    BY <2>3
  <2>7. Iterates(g, n, rs, ticks)
    BY <2>5, <2>6 DEF Iterates
  <2> QED
    BY <1>2, <2>7
<1> QED
  BY <1>3, <1>4

\* Every choice is one some row answers that the other choices let through.
Answered(rs, ticks) ==
  \A f \in Facets : ticks[f] \in {Unset, AnyValue} \cup ChoicesOf(rs, ticks, f)
Chosen(ticks) == {f \in Facets : ticks[f] # Unset}

\* A render drops a choice, or nothing is left to drop.
LEMMA DropsOrRests ==
  ASSUME NEW rs, NEW ticks, ticks = [f \in Facets |-> ticks[f]]
  PROVE  /\ Dropped(rs, ticks) = [f \in Facets |-> Dropped(rs, ticks)[f]]
         /\ Answered(rs, ticks) => Dropped(rs, ticks) = ticks
         /\ ~Answered(rs, ticks) => Cardinality(Chosen(Dropped(rs, ticks))) < Cardinality(Chosen(ticks))
         /\ Cardinality(Chosen(ticks)) \in 0..Cardinality(Facets) /\ Cardinality(Facets) \in Nat
         /\ Cardinality(Chosen(ticks)) = 0 => Answered(rs, ticks)
<1>1. PICK left : left = Dropped(rs, ticks)
  OBVIOUS
<1>2. left = [f \in Facets |-> IF ticks[f] \in {Unset, AnyValue} \cup ChoicesOf(rs, ticks, f)
                               THEN ticks[f] ELSE Unset]
  BY <1>1 DEF Dropped
<1>3. left = [f \in Facets |-> left[f]]
  BY <1>2
<1>4. ASSUME Answered(rs, ticks) PROVE left = ticks
  <2>1. \A f \in Facets : left[f] = ticks[f]
    BY <1>2, <1>4 DEF Answered
  <2> QED
    BY <1>3, <2>1
<1>5. IsFiniteSet(Chosen(ticks)) /\ Cardinality(Chosen(ticks)) \in 0..Cardinality(Facets) /\ Cardinality(Facets) \in Nat
  <2>1. Chosen(ticks) \in SUBSET Facets /\ IsFiniteSet(Facets)
    BY TableAssumption DEF Chosen
  <2>2. IsFiniteSet(Chosen(ticks)) /\ Cardinality(Chosen(ticks)) <= Cardinality(Facets)
    BY <2>1, FS_Subset
  <2>3. Cardinality(Chosen(ticks)) \in Nat /\ Cardinality(Facets) \in Nat
    BY <2>1, <2>2, FS_CardinalityType
  <2> QED
    BY <2>2, <2>3
<1>6. ASSUME ~Answered(rs, ticks)
      PROVE  Cardinality(Chosen(left)) < Cardinality(Chosen(ticks))
  <2>1. PICK f \in Facets : ticks[f] \notin {Unset, AnyValue} \cup ChoicesOf(rs, ticks, f)
    BY <1>6 DEF Answered
  <2>2. f \in Chosen(ticks) /\ f \notin Chosen(left) /\ Chosen(left) \subseteq Chosen(ticks)
    BY <1>2, <2>1 DEF Chosen
  <2>3. Chosen(left) \in SUBSET (Chosen(ticks) \ {f})
    BY <2>2
  <2>4. /\ IsFiniteSet(Chosen(ticks) \ {f})
        /\ Cardinality(Chosen(ticks) \ {f}) < Cardinality(Chosen(ticks))
    BY <1>5, <2>2, OneLess
  <2>5. Cardinality(Chosen(left)) <= Cardinality(Chosen(ticks) \ {f}) /\ IsFiniteSet(Chosen(left))
    BY <2>3, <2>4, FS_Subset
  <2>6. Cardinality(Chosen(left)) \in Nat /\ Cardinality(Chosen(ticks) \ {f}) \in Nat
    BY <2>4, <2>5, FS_CardinalityType
  <2> QED
    BY <1>5, <2>4, <2>5, <2>6
<1>7. ASSUME Cardinality(Chosen(ticks)) = 0 PROVE Answered(rs, ticks)
  <2>1. Chosen(ticks) = {}
    BY <1>5, <1>7, FS_EmptySet
  <2> QED
    BY <2>1 DEF Chosen, Answered
<1> QED
  BY <1>1, <1>3, <1>4, <1>5, <1>6, <1>7

\* What is left when the table has settled is answered.
LEMMA SettledIsAnswered ==
  ASSUME NEW rs, NEW ticks, ticks = [f \in Facets |-> ticks[f]], NEW left, left = Settled(rs, ticks)
  PROVE  Answered(rs, left) /\ left = [f \in Facets |-> left[f]]
<1>1. PICK most : most = Cardinality(Facets)
  OBVIOUS
<1>2. most \in Nat
  BY <1>1, FS_CardinalityType, TableAssumption
<1>3. PICK after : after = (CHOOSE g : Iterates(g, most, rs, ticks))
  OBVIOUS
<1>4. left = after[most]
  BY <1>1, <1>3, Zenon DEF Settled, Iterates
<1>5. Iterates(after, most, rs, ticks)
  BY <1>2, <1>3, IteratesExist
<1>6. \A k \in 0..most : after[k] = IF k = 0 THEN ticks ELSE Dropped(rs, after[k - 1])
  BY <1>5 DEF Iterates
<1> DEFINE fine(k) == /\ after[k] = [f \in Facets |-> after[k][f]]
                      /\ Answered(rs, after[k]) \/ Cardinality(Chosen(after[k])) <= most - k
           bad == {k \in 0..most : ~fine(k)}
<1>7. bad = {}
  <2>1. SUFFICES ASSUME bad # {} PROVE FALSE
    OBVIOUS
  <2>2. PICK n \in bad : \A k \in bad : n <= k
    <3>1. bad \subseteq Nat
      BY <1>2
    <3> HIDE DEF bad
    <3> QED
      BY <2>1, <3>1, HasLeast
  <2>3. n # 0
    <3>1. SUFFICES ASSUME n = 0 PROVE FALSE
      OBVIOUS
    <3>2. after[0] = ticks
      BY <1>2, <1>6
    <3>3. Cardinality(Chosen(ticks)) \in 0..most
      BY <1>1, DropsOrRests
    <3>4. Cardinality(Chosen(ticks)) <= most - 0
      BY <1>2, <3>3
    <3> QED
      BY <2>2, <3>1, <3>2, <3>4
  <2>4. n \in 0..most /\ n - 1 \in 0..most /\ n - 1 \notin bad
    <3>1. n \in 0..most
      BY <2>2
    <3>2. n - 1 \in 0..most /\ ~(n <= n - 1)
      BY <1>2, <2>3, <3>1
    <3> HIDE DEF bad
    <3> QED
      BY <2>2, <3>1, <3>2
  <2>5. fine(n - 1)
    BY <2>4
  <2>6. PICK was : was = after[n - 1]
    OBVIOUS
  <2>7. PICK is : is = Dropped(rs, was)
    OBVIOUS
  <2>8. after[n] = is
    BY <1>6, <2>3, <2>4, <2>6, <2>7
  <2>9. /\ is = [f \in Facets |-> is[f]]
        /\ Answered(rs, was) => is = was
        /\ ~Answered(rs, was) => Cardinality(Chosen(is)) < Cardinality(Chosen(was))
        /\ Cardinality(Chosen(was)) \in Nat
    BY <2>5, <2>6, <2>7, DropsOrRests
  <2>10. Cardinality(Chosen(is)) \in Nat
    <3>1. Cardinality(Chosen(is)) \in 0..most
      BY <1>1, <2>9, DropsOrRests
    <3> QED
      BY <1>2, <3>1
  <2>11. CASE Answered(rs, was)
    BY <2>2, <2>8, <2>9, <2>11
  <2>12. CASE ~Answered(rs, was)
    <3>1. Cardinality(Chosen(was)) <= most - (n - 1)
      BY <2>5, <2>6, <2>12
    <3>2. Cardinality(Chosen(is)) <= most - n
      BY <1>2, <2>4, <2>9, <2>10, <2>12, <3>1
    <3> QED
      BY <2>2, <2>8, <2>9, <3>2
  <2> QED
    BY <2>11, <2>12
<1>8. fine(most)
  BY <1>2, <1>7
<1>9. Answered(rs, left)
  <2>1. CASE Cardinality(Chosen(left)) <= most - most
    <3>1. Cardinality(Chosen(left)) \in Nat
      BY <1>4, <1>8, DropsOrRests
    <3>2. Cardinality(Chosen(left)) = 0
      BY <1>2, <2>1, <3>1
    <3> QED
      BY <1>4, <1>8, <3>2, DropsOrRests
  <2> QED
    BY <1>4, <1>8, <2>1
<1> QED
  BY <1>4, <1>8, <1>9

\* The rows a table is given, and what it keeps of its own.
RowsOk ==
  /\ IsFiniteSet(rows)
  /\ \A r \in rows : /\ r.id \in Int /\ r.group = DayOf(r.column[1])
                     /\ \A i \in 1..3 : r.column[i] \in Int
  /\ \A r, q \in rows : r.id = q.id => r = q
TableOk ==
  /\ Answered(rows, picks) /\ picks = [f \in Facets |-> picks[f]]
  /\ page \in Nat /\ sort.index \in 1..3 /\ sort.asc \in BOOLEAN

\* Answered choices leave a row: one that answers any choice that is made.
LEMMA NotStranded == TableOk => NeverStranded
<1> SUFFICES ASSUME TableOk, rows # {}, search = Unset PROVE Visible # {}
  BY DEF NeverStranded
<1>1. CASE \A f \in Facets : picks[f] \in {Unset, AnyValue}
  BY <1>1 DEF Visible, Wants
<1>2. CASE \E f \in Facets : picks[f] \notin {Unset, AnyValue}
  <2>1. PICK f \in Facets : picks[f] \notin {Unset, AnyValue}
    BY <1>2
  <2>2. picks[f] \in ChoicesOf(rows, picks, f)
    BY <2>1 DEF TableOk, Answered
  <2>3. PICK r \in rows : r.facet[f] = picks[f] /\ \A other \in Facets \ {f} : Wants(picks, other, r)
    BY <2>2 DEF ChoicesOf
  <2>4. \A g \in Facets : Wants(picks, g, r)
    BY <2>3 DEF Wants
  <2> QED
    BY <2>4 DEF Visible
<1> QED
  BY <1>1, <1>2

\* The rows are in one order.
LEMMA BeforeIs ==
  ASSUME TableOk, NEW a, NEW b, a.column[sort.index] \in Int, b.column[sort.index] \in Int
  PROVE  /\ sort.asc => (SortedBefore(a, b) <=>
              IF a.column[sort.index] # b.column[sort.index]
              THEN a.column[sort.index] < b.column[sort.index] ELSE a.id < b.id)
         /\ ~sort.asc => (SortedBefore(a, b) <=>
              IF a.column[sort.index] # b.column[sort.index]
              THEN ~(a.column[sort.index] < b.column[sort.index]) ELSE a.id < b.id)
<1>1. PICK x \in Int : x = a.column[sort.index]
  OBVIOUS
<1>2. PICK y \in Int : y = b.column[sort.index]
  OBVIOUS
<1>3. PICK up \in BOOLEAN : up = sort.asc
  BY Zenon DEF TableOk
<1>4. SortedBefore(a, b) <=> IF x # y THEN (x < y) = up ELSE a.id < b.id
  BY <1>1, <1>2, <1>3, Zenon DEF SortedBefore
<1>5. CASE ~up
  <2>1. ((x < y) = up) <=> ~(x < y)
    BY ONLY <1>5, x \in Int, y \in Int, up \in BOOLEAN
  <2>2. ~sort.asc
    BY <1>3, <1>5, Zenon
  <2> QED
    BY <1>1, <1>2, <1>4, <2>1, <2>2, Zenon
<1>6. CASE up
  <2>1. ((x < y) = up) <=> (x < y)
    BY ONLY <1>6, x \in Int, y \in Int, up \in BOOLEAN
  <2>2. sort.asc
    BY <1>3, <1>6, Zenon
  <2> QED
    BY <1>1, <1>2, <1>4, <2>1, <2>2, Zenon
<1> QED
  BY <1>5, <1>6

\* It is a total order.
LEMMA OneOrder ==
  ASSUME RowsOk, TableOk
  PROVE  /\ \A a \in rows : ~SortedBefore(a, a)
         /\ \A a, b \in rows : a # b => SortedBefore(a, b) \/ SortedBefore(b, a)
         /\ \A a, b, c \in rows : SortedBefore(a, b) /\ SortedBefore(b, c) => SortedBefore(a, c)
<1>1. \A a \in rows : a.id \in Int /\ a.column[sort.index] \in Int
  BY DEF RowsOk, TableOk
<1>2. \A a, b \in rows : a.id = b.id => a = b
  BY DEF RowsOk
<1>3. CASE sort.asc
  <2>1. \A a, b \in rows : SortedBefore(a, b) <=>
              IF a.column[sort.index] # b.column[sort.index]
              THEN a.column[sort.index] < b.column[sort.index] ELSE a.id < b.id
    BY <1>1, <1>3, BeforeIs, Zenon
  <2> QED
    BY <1>1, <1>2, <2>1
<1>4. CASE ~sort.asc
  <2>1. \A a, b \in rows : SortedBefore(a, b) <=>
              IF a.column[sort.index] # b.column[sort.index]
              THEN ~(a.column[sort.index] < b.column[sort.index]) ELSE a.id < b.id
    BY <1>1, <1>4, BeforeIs, Zenon
  <2> QED
    BY <1>1, <1>2, <2>1
<1> QED
  BY <1>3, <1>4

\* So each visible row has a place of its own, from the first to the last.
LEMMA PlacesAre ==
  ASSUME RowsOk, TableOk, NEW places, places = Rank, NEW shown, shown = Visible
  PROVE  /\ IsFiniteSet(shown) /\ shown \subseteq rows /\ DOMAIN places = shown
         /\ Cardinality(shown) \in Nat
         /\ places \in [shown -> 0..(Cardinality(shown) - 1)]
         /\ \A a, b \in shown : places[a] = places[b] => a = b
         /\ \A k \in 0..(Cardinality(shown) - 1) : \E r \in shown : places[r] = k
         /\ \A a, b \in shown : places[a] < places[b] => SortedBefore(a, b)
<1>1. shown \subseteq rows /\ IsFiniteSet(shown)
  <2>1. shown \subseteq rows
    BY DEF Visible
  <2> QED
    BY <2>1, FS_Subset DEF RowsOk
<1>2. PICK below : below = [r \in shown |-> {q \in shown : SortedBefore(q, r)}]
  OBVIOUS
<1>3. places = [r \in shown |-> Cardinality(below[r])]
  BY <1>2 DEF Rank
<1>4. \A a, b \in shown : a \in below[b] <=> SortedBefore(a, b)
  BY <1>2
<1>5. /\ \A r \in shown : below[r] \in SUBSET shown /\ r \notin below[r]
      /\ \A a, b \in shown : a = b \/ a \in below[b] \/ b \in below[a]
      /\ \A a, b \in shown : a \in below[b] => below[a] \subseteq below[b]
  BY <1>1, <1>2, OneOrder
<1>6. /\ Cardinality(shown) \in Nat
      /\ places \in [shown -> 0..(Cardinality(shown) - 1)]
      /\ \A a, b \in shown : places[a] = places[b] => a = b
      /\ \A a, b \in shown : a \in below[b] <=> places[a] < places[b]
      /\ \A k \in 0..(Cardinality(shown) - 1) : \E r \in shown : places[r] = k
  BY <1>1, <1>3, <1>5, Places
<1> QED
  BY <1>1, <1>3, <1>4, <1>6

\* The runs of the rows in their places.
Starts(places, shown) ==
  {r \in shown : \A q \in shown : places[q] = places[r] - 1 => ~Grouped \/ q.group # r.group}
RunFrom(places, shown, start) ==
  {r \in shown : /\ places[start] <= places[r]
                 /\ \A s \in Starts(places, shown) : places[s] <= places[start] \/ places[r] < places[s]}
LEMMA RunsAre ==
  ASSUME NEW places, places = Rank, NEW shown, shown = DOMAIN places
  PROVE  Runs = {RunFrom(places, shown, start) : start \in Starts(places, shown)}
<1>1. Runs = {RunFrom(Rank, DOMAIN Rank, start) : start \in Starts(Rank, DOMAIN Rank)}
  BY DEF Runs, RunFrom, Starts
<1> QED
  BY <1>1

\* A row is in the run of the last start before it, and in no other.
LEMMA InOneRun ==
  ASSUME RowsOk, TableOk, NEW places, places = Rank, NEW shown, shown = Visible, NEW r \in shown
  PROVE  \E s \in Starts(places, shown) :
           /\ r \in RunFrom(places, shown, s)
           /\ \A t \in Starts(places, shown) : r \in RunFrom(places, shown, t) => t = s
<1>1. /\ places \in [shown -> 0..(Cardinality(shown) - 1)] /\ Cardinality(shown) \in Nat
      /\ \A a, b \in shown : places[a] = places[b] => a = b
      /\ \A k \in 0..(Cardinality(shown) - 1) : \E q \in shown : places[q] = k
  BY PlacesAre
<1>2. \A q \in shown : places[q] \in Nat
  BY <1>1
<1> DEFINE starts == Starts(places, shown)
           upTo == {places[s] : s \in {t \in starts : places[t] <= places[r]}}
<1>3. starts \subseteq shown
  BY DEF Starts
<1>4. upTo # {}
  <2>1. PICK first \in shown : places[first] = 0
    <3>1. 0 \in 0..(Cardinality(shown) - 1)
      BY <1>1, <1>2
    <3> QED
      BY <1>1, <3>1
  <2>2. first \in starts
    BY <1>2, <2>1 DEF Starts
  <2>3. places[first] <= places[r]
    BY <1>2, <2>1
  <2> QED
    BY <2>2, <2>3
<1> HIDE DEF starts
<1>5. PICK high \in Nat : high = places[r]
  BY <1>2
<1>6. PICK most : most = Max(upTo)
  OBVIOUS
<1>7. most \in upTo /\ \A k \in upTo : k <= most
  <2>1. upTo \subseteq Int /\ \A k \in upTo : k <= high
    BY <1>2, <1>3, <1>5
  <2>2. high \in Int
    OBVIOUS
  <2> HIDE DEF upTo
  <2> QED
    BY <1>4, <1>6, <2>1, <2>2, MaxIs
<1>8. PICK s \in starts : places[s] = most /\ places[s] <= places[r]
  BY <1>7
<1>9. r \in RunFrom(places, shown, s)
  <2>1. \A t \in starts : places[t] <= places[s] \/ places[r] < places[t]
    BY <1>2, <1>3, <1>7, <1>8
  <2> QED
    BY <1>8, <2>1 DEF RunFrom, starts
<1>10. ASSUME NEW t \in starts, r \in RunFrom(places, shown, t)
       PROVE  t = s
  <2>1. places[t] <= places[r] /\ (places[s] <= places[t] \/ places[r] < places[s])
    BY <1>10 DEF RunFrom, starts
  <2>2. places[t] <= places[s]
    BY <1>7, <1>8, <1>10, <2>1
  <2>3. places[t] = places[s]
    BY <1>2, <1>3, <1>8, <1>10, <2>1, <2>2
  <2> QED
    BY <1>1, <1>3, <1>8, <1>10, <2>3
<1> QED
  BY <1>9, <1>10 DEF starts

\* Under a sort by the first column the rows of one label are next to each
\* other, and a run is all of them.
LEMMA GroupsFollow ==
  ASSUME RowsOk, TableOk, Grouped, NEW places, places = Rank, NEW shown, shown = Visible,
         NEW a \in shown, NEW b \in shown, NEW c \in shown,
         places[a] <= places[b], places[b] <= places[c], a.group = c.group
  PROVE  a.group = b.group
<1>1. /\ places \in [shown -> 0..(Cardinality(shown) - 1)] /\ Cardinality(shown) \in Nat
      /\ \A p, q \in shown : places[p] = places[q] => p = q
      /\ \A p, q \in shown : places[p] < places[q] => SortedBefore(p, q)
      /\ shown \subseteq rows
  BY PlacesAre
<1>2. \A q \in shown : places[q] \in Int
  BY <1>1
<1>3. \A q \in shown : q.column[1] \in Int /\ q.group = q.column[1] \div 2
  BY <1>1 DEF RowsOk, DayOf
<1>4. sort.index = 1 /\ sort.asc \in BOOLEAN
  BY DEF Grouped, TableOk
<1>5. (a = b \/ SortedBefore(a, b)) /\ (b = c \/ SortedBefore(b, c))
  BY <1>1, <1>2
<1>6. PICK x \in Int, y \in Int, z \in Int : x = a.column[1] /\ y = b.column[1] /\ z = c.column[1]
  BY <1>3
<1>7. CASE sort.asc
  <2>1. x <= y /\ y <= z
    BY <1>4, <1>5, <1>6, <1>7, BeforeIs
  <2>2. x \div 2 <= y \div 2 /\ y \div 2 <= z \div 2
    BY ONLY <2>1, x \in Int, y \in Int, z \in Int
  <2>3. x \div 2 \in Int /\ y \div 2 \in Int /\ z \div 2 \in Int
    OBVIOUS
  <2> QED
    BY <1>3, <1>6, <2>2, <2>3
<1>8. CASE ~sort.asc
  <2>1. y <= x /\ z <= y
    BY <1>4, <1>5, <1>6, <1>8, BeforeIs
  <2>2. y \div 2 <= x \div 2 /\ z \div 2 <= y \div 2
    BY ONLY <2>1, x \in Int, y \in Int, z \in Int
  <2>3. x \div 2 \in Int /\ y \div 2 \in Int /\ z \div 2 \in Int
    OBVIOUS
  <2> QED
    BY <1>3, <1>6, <2>2, <2>3
<1> QED
  BY <1>7, <1>8

LEMMA RunIsGroup ==
  ASSUME RowsOk, TableOk, Grouped, NEW places, places = Rank, NEW shown, shown = Visible,
         NEW start \in Starts(places, shown)
  PROVE  \A r \in shown : r \in RunFrom(places, shown, start) <=> r.group = start.group
<1>1. /\ places \in [shown -> 0..(Cardinality(shown) - 1)] /\ Cardinality(shown) \in Nat
      /\ \A a, b \in shown : places[a] = places[b] => a = b
      /\ \A k \in 0..(Cardinality(shown) - 1) : \E q \in shown : places[q] = k
  BY PlacesAre
<1>2. \A q \in shown : places[q] \in Nat
  BY <1>1
<1>3. Starts(places, shown) \subseteq shown
  BY DEF Starts
\* Every row before a start has another label, and so has the row at a start
\* and those before it.
<1>4. ASSUME NEW s \in Starts(places, shown), NEW a \in shown, places[a] < places[s]
      PROVE  a.group # s.group
  <2>1. places[s] - 1 \in 0..(Cardinality(shown) - 1)
    BY <1>1, <1>2, <1>3, <1>4
  <2>2. PICK q \in shown : places[q] = places[s] - 1
    BY <1>1, <2>1
  <2>3. q.group # s.group
    BY <2>2 DEF Starts
  <2>4. places[a] <= places[q] /\ places[q] <= places[s]
    BY <1>2, <1>3, <1>4, <2>2
  <2>5. a.group = s.group => a.group = q.group
    BY <1>3, <2>4, GroupsFollow
  <2> QED
    BY <2>3, <2>5
<1>5. ASSUME NEW r \in shown, r.group = start.group
      PROVE  r \in RunFrom(places, shown, start)
  <2>1. ~(places[r] < places[start])
    BY <1>4, <1>5
  <2>2. ASSUME NEW s \in Starts(places, shown), places[start] < places[s]
        PROVE  places[r] < places[s]
    <3>1. SUFFICES ASSUME places[s] <= places[r] PROVE FALSE
      BY <1>2, <1>3
    <3>2. start.group = s.group
      <4>1. places[start] <= places[s]
        BY <1>2, <1>3, <2>2
      <4> QED
        BY <1>3, <1>5, <3>1, <4>1, GroupsFollow
    <3> QED
      BY <1>3, <1>4, <2>2, <3>2
  <2> QED
    BY <1>2, <1>3, <2>1, <2>2 DEF RunFrom
<1>6. ASSUME NEW r \in RunFrom(places, shown, start)
      PROVE  r.group = start.group
  <2> DEFINE bad == {k \in Nat : \E q \in shown : /\ places[q] = k /\ q \in RunFrom(places, shown, start)
                                                  /\ q.group # start.group}
  <2>1. SUFFICES ASSUME bad # {} PROVE FALSE
    <3>1. r \in shown
      BY DEF RunFrom
    <3> QED
      BY <1>2, <3>1
  <2>2. PICK k \in bad : \A j \in bad : k <= j
    <3>1. bad \subseteq Nat
      OBVIOUS
    <3> HIDE DEF bad
    <3> QED
      BY <2>1, <3>1, HasLeast
  <2>3. PICK q \in shown : places[q] = k /\ q \in RunFrom(places, shown, start) /\ q.group # start.group
    BY <2>2
  <2>4. /\ places[start] <= places[q]
        /\ \A s \in Starts(places, shown) : places[s] <= places[start] \/ places[q] < places[s]
    BY <2>3 DEF RunFrom
  <2>5. q # start /\ places[start] < places[q]
    BY <1>1, <1>2, <1>3, <2>3, <2>4
  <2>6. q \notin Starts(places, shown)
    BY <1>2, <1>3, <2>4, <2>5
  <2>7. PICK p \in shown : places[p] = places[q] - 1 /\ p.group = q.group
    BY <2>3, <2>6 DEF Starts
  <2>8. p \in RunFrom(places, shown, start)
    <3>1. places[start] <= places[p]
      BY <1>2, <1>3, <2>5, <2>7
    <3>2. \A s \in Starts(places, shown) : places[s] <= places[start] \/ places[p] < places[s]
      BY <1>2, <1>3, <2>4, <2>7
    <3> QED
      BY <3>1, <3>2 DEF RunFrom
  <2>9. places[p] \in bad
    BY <1>2, <2>3, <2>7, <2>8
  <2>10. ~(k <= places[p])
    BY <1>2, <2>3, <2>7
  <2> HIDE DEF bad
  <2> QED
    BY <2>2, <2>9, <2>10
<1> QED
  BY <1>5, <1>6

\* The pages: each place is on one of them, and the last one has a place.
LEMMA Times ==
  ASSUME NEW a \in Int, NEW b \in Int, a <= b, NEW d \in Nat
  PROVE  a * d \in Int /\ b * d \in Int /\ a * d <= b * d
  BY Z3

\* A number of rows in pages of one length.
LEMMA Parted ==
  ASSUME NEW x \in Nat, NEW d \in Nat \ {0}
  PROVE  x \div d \in Nat /\ (x \div d) * d \in Nat /\ (x \div d) * d <= x /\ x < (x \div d) * d + d
  BY Z3
LEMMA OneMore ==
  ASSUME NEW n \in Int, NEW d \in Nat
  PROVE  (n + 1) * d = n * d + d /\ (n - 1) * d = n * d - d /\ n * d \in Int
  BY Z3
On(n, k) == n * PageSize <= k /\ k < (n + 1) * PageSize

\* No place is on two pages.
LEMMA OnOnePage ==
  ASSUME NEW n \in Int, NEW m \in Int, NEW k \in Int, On(n, k), On(m, k)
  PROVE  n = m
<1>1. PageSize \in Nat
  BY TableAssumption
<1>2. ASSUME NEW i \in Int, NEW j \in Int, On(i, k), On(j, k), i < j PROVE FALSE
  <2>1. (i + 1) * PageSize \in Int /\ j * PageSize \in Int /\ (i + 1) * PageSize <= j * PageSize
    <3>1. i + 1 \in Int /\ i + 1 <= j
      BY <1>2
    <3> QED
      BY <1>1, <3>1, Times
  <2> QED
    BY <1>2, <2>1 DEF On
<1> QED
  BY <1>2

\* Every place is on a page, and there is no page beyond the last place.
LEMMA PagesAre ==
  ASSUME NEW many \in Nat, many = Cardinality(Visible)
  PROVE  /\ Pages \in Nat \ {0}
         /\ \A k \in 0..(many - 1) : \E n \in 0..(Pages - 1) : On(n, k)
         /\ many > 0 => (Pages - 1) * PageSize < many
<1>1. PageSize \in Nat \ {0} /\ PageSize \in Int
  BY TableAssumption
<1>2. many + PageSize - 1 \in Nat
  BY <1>1
<1>3. PICK all : all = (many + PageSize - 1) \div PageSize
  OBVIOUS
<1>4. /\ all \in Nat /\ all * PageSize \in Nat /\ all * PageSize <= many + PageSize - 1
      /\ many + PageSize - 1 < all * PageSize + PageSize
  BY <1>1, <1>2, <1>3, Parted
<1>5. Pages = IF 1 >= all THEN 1 ELSE all
  <2>1. Pages = Max({1, all})
    BY <1>3 DEF Pages
  <2> QED
    BY <1>4, <2>1, MaxOfTwo
<1>6. many > 0 => all > 0
  <2>1. SUFFICES ASSUME many > 0, all = 0 PROVE FALSE
    BY <1>4
  <2>2. all * PageSize = 0
    BY <1>1, <2>1
  <2> QED
    BY <1>1, <1>4, <2>1, <2>2
<1>7. many > 0 => Pages = all
  BY <1>4, <1>5, <1>6
<1>8. many > 0 => (Pages - 1) * PageSize < many
  <2>1. (all - 1) * PageSize = all * PageSize - PageSize
    BY <1>1, <1>4, OneMore
  <2>2. (all - 1) * PageSize < many
    BY <1>1, <1>4, <2>1
  <2> QED
    BY <1>7, <2>2
<1>9. ASSUME NEW k \in 0..(many - 1)
      PROVE  \E n \in 0..(Pages - 1) : On(n, k)
  <2>1. k \in Nat /\ k <= many - 1 /\ many > 0
    OBVIOUS
  <2>2. PICK n : n = k \div PageSize
    OBVIOUS
  <2>3. n \in Nat /\ n * PageSize \in Nat /\ n * PageSize <= k /\ k < n * PageSize + PageSize
    BY <1>1, <2>1, <2>2, Parted
  <2>4. (n + 1) * PageSize = n * PageSize + PageSize
    BY <1>1, <2>3, OneMore
  <2>5. ~(all <= n)
    <3>1. SUFFICES ASSUME all <= n PROVE FALSE
      OBVIOUS
    <3>2. all * PageSize <= n * PageSize
      BY <1>1, <1>4, <2>3, <3>1, Times
    <3> QED
      BY <1>1, <1>4, <2>1, <2>3, <3>2
  <2>6. n \in 0..(Pages - 1)
    BY <1>4, <1>7, <2>1, <2>3, <2>5
  <2> QED
    BY <2>3, <2>4, <2>6 DEF On
<1> QED
  BY <1>4, <1>5, <1>8, <1>9

\* The groups of a page, from the runs.
LEMMA PartsOfRuns ==
  ASSUME NEW places, places = Rank, NEW shown, shown = DOMAIN places, NEW n
  PROVE  PageOfGroups(n) =
           {g \in {[rows |-> OnPage(places, RunFrom(places, shown, s), n), all |-> RunFrom(places, shown, s)]
                     : s \in Starts(places, shown)} : g.rows # {}}
<1>1. Runs = {RunFrom(places, shown, start) : start \in Starts(places, shown)}
  BY RunsAre
<1> QED
  BY <1>1 DEF PageOfGroups

LEMMA RowOnPage ==
  ASSUME NEW places, NEW run, NEW n, NEW r
  PROVE  r \in OnPage(places, run, n) <=> r \in run /\ On(n, places[r])
  BY DEF OnPage, On

\* A row is in one part of one run on one page.
LEMMA OnceOnAPage ==
  ASSUME RowsOk, TableOk, NEW r \in Visible
  PROVE  \E n \in 0..(Pages - 1) : \E g :
           /\ g \in PageOfGroups(n) /\ r \in g.rows
           /\ \A m \in 0..(Pages - 1) : \A h \in PageOfGroups(m) : r \in h.rows => m = n /\ h = g
<1>1. PICK places : places = Rank
  OBVIOUS
<1>2. PICK shown : shown = Visible
  OBVIOUS
<1>3. /\ places \in [shown -> 0..(Cardinality(shown) - 1)] /\ Cardinality(shown) \in Nat
      /\ shown = DOMAIN places
  BY <1>1, <1>2, PlacesAre
<1>4. PICK n \in 0..(Pages - 1) : On(n, places[r])
  <2>1. places[r] \in 0..(Cardinality(shown) - 1)
    BY <1>2, <1>3
  <2> QED
    BY <1>2, <1>3, <2>1, PagesAre
<1>5. PICK s \in Starts(places, shown) :
           /\ r \in RunFrom(places, shown, s)
           /\ \A t \in Starts(places, shown) : r \in RunFrom(places, shown, t) => t = s
  BY <1>1, <1>2, InOneRun
<1>6. PICK g : g = [rows |-> OnPage(places, RunFrom(places, shown, s), n), all |-> RunFrom(places, shown, s)]
  OBVIOUS
<1>7. r \in g.rows
  BY <1>4, <1>5, <1>6, RowOnPage
<1>8. g \in PageOfGroups(n)
  BY <1>1, <1>3, <1>6, <1>7, PartsOfRuns
<1>9. ASSUME NEW m \in 0..(Pages - 1), NEW h \in PageOfGroups(m), r \in h.rows
      PROVE  m = n /\ h = g
  <2>1. PICK t \in Starts(places, shown) :
           h = [rows |-> OnPage(places, RunFrom(places, shown, t), m), all |-> RunFrom(places, shown, t)]
    BY <1>1, <1>3, PartsOfRuns
  <2>2. r \in RunFrom(places, shown, t) /\ On(m, places[r])
    BY <1>9, <2>1, RowOnPage
  <2>3. t = s
    BY <1>5, <2>2
  <2>4. m = n
    <3>1. places[r] \in Int /\ n \in Int /\ m \in Int
      BY <1>2, <1>3
    <3> QED
      BY <1>4, <2>2, <3>1, OnOnePage
  <2> QED
    BY <1>6, <2>1, <2>3, <2>4
<1> QED
  BY <1>7, <1>8, <1>9

\* The pages cover the rows, and a group on two pages is known whole.
LEMMA PagesDoCover == RowsOk /\ TableOk => PagesCover
<1> SUFFICES ASSUME RowsOk, TableOk PROVE PagesCover
  OBVIOUS
<1>1. PICK parts : parts = [n \in 0..(Pages - 1) |-> PageOfGroups(n)]
  OBVIOUS
<1>2. ASSUME NEW r \in Visible
      PROVE  Cardinality({at \in UNION {{n} \X parts[n] : n \in DOMAIN parts} : r \in at[2].rows}) = 1
  <2>0. PICK n \in 0..(Pages - 1) : \E g :
           /\ g \in PageOfGroups(n) /\ r \in g.rows
           /\ \A m \in 0..(Pages - 1) : \A h \in PageOfGroups(m) : r \in h.rows => m = n /\ h = g
    BY OnceOnAPage
  <2>1. PICK g :
           /\ g \in PageOfGroups(n) /\ r \in g.rows
           /\ \A m \in 0..(Pages - 1) : \A h \in PageOfGroups(m) : r \in h.rows => m = n /\ h = g
    BY <2>0
  <2>2. {at \in UNION {{m} \X parts[m] : m \in DOMAIN parts} : r \in at[2].rows} = {<<n, g>>}
    <3>1. ASSUME NEW at \in UNION {{m} \X parts[m] : m \in DOMAIN parts}, r \in at[2].rows
          PROVE  at = <<n, g>>
      <4>1. PICK m \in DOMAIN parts : at \in {m} \X parts[m]
        BY <3>1
      <4>2. m \in 0..(Pages - 1) /\ parts[m] = PageOfGroups(m)
        BY <1>1, <4>1
      <4>3. at = <<m, at[2]>> /\ at[2] \in PageOfGroups(m)
        BY <4>1, <4>2
      <4> QED
        BY <2>1, <3>1, <4>2, <4>3
    <3>2. <<n, g>> \in UNION {{m} \X parts[m] : m \in DOMAIN parts} /\ r \in <<n, g>>[2].rows
      <4>1. n \in DOMAIN parts /\ parts[n] = PageOfGroups(n)
        BY <1>1
      <4>2. <<n, g>> \in {n} \X parts[n]
        BY <2>1, <4>1
      <4> QED
        BY <2>1, <4>1, <4>2
    <3> QED
      BY <3>1, <3>2
  <2> QED
    BY <2>2, FS_Singleton
<1>3. ASSUME NEW n \in DOMAIN parts, NEW g \in parts[n], Grouped
      PROVE  g.all = {r \in Visible : \E q \in g.rows : q.group = r.group}
  <2>1. PICK places : places = Rank
    OBVIOUS
  <2>2. PICK shown : shown = Visible
    OBVIOUS
  <2>3. shown = DOMAIN places
    BY <2>1, <2>2, PlacesAre
  <2>4. PICK s \in Starts(places, shown) :
           /\ g = [rows |-> OnPage(places, RunFrom(places, shown, s), n), all |-> RunFrom(places, shown, s)]
           /\ g.rows # {}
    BY <1>1, <2>1, <2>3, PartsOfRuns
  <2>5. \A r \in shown : r \in g.all <=> r.group = s.group
    BY <1>3, <2>1, <2>2, <2>4, RunIsGroup
  <2>6. g.all \subseteq shown /\ g.rows \subseteq g.all
    BY <2>4 DEF RunFrom, OnPage
  <2> QED
    BY <2>2, <2>4, <2>5, <2>6
<1> QED
  BY <1>1, <1>2, <1>3 DEF PagesCover

\* The page shown is one there is, and the pager offers its neighbours.
LEMMA PagesHaveRows == RowsOk /\ TableOk => PageHasRows
<1> SUFFICES ASSUME RowsOk, TableOk PROVE PageHasRows
  OBVIOUS
<1>1. ASSUME Visible # {} PROVE PageOfGroups(Current) # {}
  <2>1. PICK places : places = Rank
    OBVIOUS
  <2>2. PICK shown : shown = Visible
    OBVIOUS
  <2>3. /\ places \in [shown -> 0..(Cardinality(shown) - 1)] /\ Cardinality(shown) \in Nat
        /\ \A k \in 0..(Cardinality(shown) - 1) : \E r \in shown : places[r] = k
        /\ IsFiniteSet(shown) /\ shown = DOMAIN places
    BY <2>1, <2>2, PlacesAre
  <2>4. Cardinality(shown) > 0
    BY <1>1, <2>2, <2>3, FS_EmptySet
  <2>5. Pages \in Nat \ {0} /\ (Pages - 1) * PageSize < Cardinality(shown)
    BY <2>2, <2>3, <2>4, PagesAre
  <2>6. PICK current : current = Current
    OBVIOUS
  <2>7. current \in 0..(Pages - 1)
    <3>1. page \in Nat /\ Pages - 1 \in Nat
      BY <2>5 DEF TableOk
    <3>2. Current = IF page <= Pages - 1 THEN page ELSE Pages - 1
      BY <3>1, MinOfTwo DEF Current
    <3> QED
      BY <2>6, <3>1, <3>2
  <2>8. PageSize \in Nat /\ PageSize > 0
    BY TableAssumption
  <2>9. /\ current * PageSize \in Nat /\ current * PageSize < Cardinality(shown)
        /\ (current + 1) * PageSize = current * PageSize + PageSize
    <3>1. current \in Int /\ Pages - 1 \in Int /\ current <= Pages - 1 /\ 0 <= current
      BY <2>5, <2>7
    <3>2. current * PageSize \in Int /\ (Pages - 1) * PageSize \in Int /\ current * PageSize <= (Pages - 1) * PageSize
      BY <2>8, <3>1, Times
    <3>3. 0 * PageSize <= current * PageSize
      BY <2>8, <3>1, Times
    <3>4. (current + 1) * PageSize = current * PageSize + PageSize
      BY <2>8, <3>1, OneMore
    <3> QED
      BY <2>3, <2>5, <2>8, <3>2, <3>3, <3>4
  <2>10. PICK k \in Nat : k = current * PageSize
    BY <2>9
  <2>11. PICK r \in shown : places[r] = k
    BY <2>3, <2>9, <2>10
  <2>12. On(current, places[r])
    BY <2>8, <2>9, <2>10, <2>11 DEF On
  <2>13. PICK s \in Starts(places, shown) : r \in RunFrom(places, shown, s)
    BY <2>1, <2>2, InOneRun
  <2>14. r \in OnPage(places, RunFrom(places, shown, s), current)
    BY <2>12, <2>13, RowOnPage
  <2>15. PICK g : g = [rows |-> OnPage(places, RunFrom(places, shown, s), current),
                       all |-> RunFrom(places, shown, s)]
    OBVIOUS
  <2>16. g \in PageOfGroups(current)
    <3>1. g.rows # {}
      BY <2>14, <2>15
    <3> QED
      BY <2>1, <2>3, <2>15, <3>1, PartsOfRuns
  <2> QED
    BY <2>6, <2>16
<1>2. ASSUME NEW pages \in 1..9, NEW n \in 0..(pages - 1)
      PROVE  {0, pages - 1, n} \cup ({n - 1, n + 1} \cap 0..(pages - 1)) \subseteq PageList(n, pages)
  <2>1. 0 \in 0..(pages - 1) /\ pages - 1 \in 0..(pages - 1)
    OBVIOUS
  <2> QED
    BY <2>1 DEF PageList
<1> QED
  BY <1>1, <1>2 DEF PageHasRows

\* The rows of the table of executions have numbers in their columns.
LEMMA HasLowest ==
  ASSUME NEW S, IsFiniteSet(S), S # {}, S \subseteq Int
  PROVE  \E x \in S : \A y \in S : x <= y
<1> DEFINE lowest(T) == \E x \in T : \A y \in T : x <= y
           bad == {T \in SUBSET S : T # {} /\ ~lowest(T)}
<1>1. SUFFICES ASSUME bad # {} PROVE FALSE
  OBVIOUS
<1>2. \A T \in bad : IsFiniteSet(T)
  BY FS_Subset
<1>3. PICK T \in bad : \A t \in bad : Cardinality(T) <= Cardinality(t)
  <2> HIDE DEF bad
  <2> QED
    BY <1>1, <1>2, SmallestBad
<1>4. IsFiniteSet(T) /\ T \in SUBSET S /\ T # {} /\ ~lowest(T)
  BY <1>2, <1>3
<1>5. PICK x \in T : TRUE
  BY <1>4
<1>6. PICK rest : rest = T \ {x}
  OBVIOUS
<1>7. rest # {}
  BY <1>4, <1>6
<1>8. ~(Cardinality(T) <= Cardinality(rest))
  <2>1. Cardinality(rest) < Cardinality(T) /\ Cardinality(T) \in Nat /\ IsFiniteSet(rest)
    BY <1>4, <1>6, OneLess
  <2>2. Cardinality(rest) \in Nat
    BY <2>1, FS_CardinalityType
  <2> QED
    BY <2>1, <2>2
<1>9. lowest(rest)
  <2>1. rest \in SUBSET S
    BY <1>4, <1>6
  <2> QED
    BY <1>3, <1>7, <1>8, <2>1
<1> QED
  BY <1>4, <1>6, <1>9

\* The figures of an execution are numbers.
LEMMA ReceivedAre ==
  ASSUME ReceivedInv
  PROVE  \A r \in received :
           /\ r.id \in Int /\ r.time \in Int /\ r.price \in Int /\ Cash(r) \in Int
           /\ r.quantity \in Nat \ {0} /\ r.multiplier \in Nat \ {0}
           /\ r.commission # {} => \E paid \in Int : r.commission = {paid}
<1> SUFFICES ASSUME NEW r \in received
             PROVE  /\ r.id \in Int /\ r.time \in Int /\ r.price \in Int /\ Cash(r) \in Int
                    /\ r.quantity \in Nat \ {0} /\ r.multiplier \in Nat \ {0}
                    /\ r.commission # {} => \E paid \in Int : r.commission = {paid}
  OBVIOUS
<1>1. PICK e \in Sent : Alike(r, e)
  BY AreAlike
<1>2. /\ e.id \in Int /\ e.time \in Int /\ e.price \in Int
      /\ e.quantity \in Nat \ {0} /\ e.multiplier \in Nat \ {0}
      /\ \E paid \in Int : e.commission = {paid}
  BY SentAssumption
<1> QED
  BY <1>1, <1>2, Received DEF Alike

\* A sum of numbers is one.
LEMMA SumIsNumber ==
  ASSUME NEW f, IsFiniteSet(DOMAIN f), \A x \in DOMAIN f : f[x] \in Int
  PROVE  SumFunction(f) \in Int
<1>1. PICK S : S = DOMAIN f
  OBVIOUS
<1>2. Total(f, S) \in Int
  BY <1>1, TotalRemove
<1> QED
  BY <1>1, <1>2, SumIsTotal

\* A fill is that of its lead, and its parts are executions received.
LEMMA FillFields ==
  ASSUME ReceivedInv, NEW f \in GroupFills(received)
  PROVE  /\ f.lead \in received /\ FillOf(f.lead) = f
         /\ IsFiniteSet(Parts(f)) /\ Parts(f) # {} /\ Parts(f) \subseteq received
<1>1. PICK r \in received : f = FillOf(r)
  BY AllFills
<1>2. Held(f) \subseteq received /\ f.lead \in Held(f) /\ \A q \in Held(f) : FillOf(q) = f
  BY <1>1, FillHolds DEF Held
<1>3. Parts(f) \subseteq Held(f)
  BY <1>1, FillParts
<1>4. Parts(f) # {}
  BY DEF Parts
<1>5. IsFiniteSet(Parts(f))
  BY <1>2, <1>3, FS_Subset DEF ReceivedInv
<1> QED
  BY <1>2, <1>3, <1>4, <1>5

\* The cash of a fill, its commission once it is known and its rate are
\* numbers.
LEMMA CashIsNumber ==
  ASSUME ReceivedInv, NEW f \in GroupFills(received)
  PROVE  CashFlow(f) \in Int
<1>1. PICK cash : cash = [r \in Parts(f) |-> Cash(r)]
  OBVIOUS
<1>2. IsFiniteSet(DOMAIN cash) /\ \A r \in DOMAIN cash : cash[r] \in Int
  BY <1>1, FillFields, ReceivedAre
<1> QED
  BY <1>1, <1>2, SumIsNumber DEF CashFlow

LEMMA CommissionIs ==
  ASSUME ReceivedInv, NEW f \in GroupFills(received), Commission(f) # {}
  PROVE  \E paid \in Int : Commission(f) = {paid}
<1>1. CASE Expired(f)
  BY <1>1 DEF Commission
<1>2. CASE ~Expired(f)
  <2>1. PICK own : own = [r \in Parts(f) |-> Max(r.commission)]
    OBVIOUS
  <2>2. (\A r \in Parts(f) : r.commission # {}) /\ Commission(f) = {SumFunction(own)}
    BY <1>2, <2>1 DEF Commission
  <2>3. ASSUME NEW r \in Parts(f) PROVE own[r] \in Int
    <3>1. PICK paid \in Int : r.commission = {paid}
      BY <2>2, FillFields, ReceivedAre
    <3>2. Max({paid}) = paid
      BY DEF Max
    <3> QED
      BY <2>1, <3>1, <3>2
  <2>4. IsFiniteSet(DOMAIN own) /\ \A r \in DOMAIN own : own[r] \in Int
    BY <2>1, <2>3, FillFields
  <2>5. SumFunction(own) \in Int
    BY <2>4, SumIsNumber
  <2> QED
    BY <2>2, <2>5
<1> QED
  BY <1>1, <1>2

LEMMA RateIsNumber ==
  ASSUME ReceivedInv, NEW f \in GroupFills(received), NEW w
  PROVE  Rate(f, w) \in Int
<1>1. PICK part : part = IF f.combo THEN CHOOSE r \in Parts(f) : \A q \in Parts(f) : r.id <= q.id ELSE f.lead
  OBVIOUS
<1>2. part \in received
  <2>1. PICK legs : legs = Parts(f)
    OBVIOUS
  <2>2. IsFiniteSet(legs) /\ legs # {} /\ legs \subseteq received /\ f.lead \in received
    BY <2>1, FillFields
  <2>3. \A r \in legs : r.id \in Int
    BY <2>2, ReceivedAre
  <2>4. \E r \in legs : \A q \in legs : r.id <= q.id
    <3>1. PICK idOf : idOf = [r \in legs |-> r.id]
      OBVIOUS
    <3>2. PICK ids : ids = {r.id : r \in legs}
      OBVIOUS
    <3>3. idOf \in Surjection(legs, ids)
      BY <3>1, <3>2 DEF Surjection
    <3>4. IsFiniteSet(ids)
      BY <2>2, <3>3, FS_Surjection
    <3>5. ids # {} /\ ids \subseteq Int
      BY <2>2, <2>3, <3>2
    <3>6. PICK least \in ids : \A y \in ids : least <= y
      BY <3>4, <3>5, HasLowest
    <3> QED
      BY <3>2, <3>6
  <2>5. (CHOOSE r \in legs : \A q \in legs : r.id <= q.id) \in legs
    BY <2>4
  <2> QED
    BY <1>1, <2>1, <2>2, <2>5
<1>3. f.lead \in received
  BY FillFields
<1>4. PICK paid : paid = Commission(f)
  OBVIOUS
<1>5. PICK perUnit : perUnit = (100 * Max(paid)) \div (f.lead.quantity * part.multiplier)
  OBVIOUS
<1>6. paid # {} => perUnit \in Int
  <2>1. SUFFICES ASSUME paid # {} PROVE perUnit \in Int
    OBVIOUS
  <2>2. PICK v \in Int : paid = {v}
    BY <1>4, <2>1, CommissionIs
  <2>3. Max({v}) = v
    BY DEF Max
  <2>4. PICK q \in Nat \ {0} : q = f.lead.quantity
    BY <1>3, ReceivedAre
  <2>5. PICK m \in Nat \ {0} : m = part.multiplier
    BY <1>2, ReceivedAre
  <2>6. PICK n \in Nat : n = q * m /\ n > 0
    BY Z3
  <2>7. (100 * v) \div n \in Int
    BY <2>6
  <2> QED
    BY <1>5, <2>2, <2>3, <2>4, <2>5, <2>6, <2>7
<1>7. 100 * f.lead.price \in Int
  BY <1>3, ReceivedAre
<1>8. PICK charge : charge = IF ~w \/ paid = {} THEN 0 ELSE IF f.lead.buy THEN perUnit ELSE -perUnit
  OBVIOUS
<1>9. Rate(f, w) = 100 * f.lead.price + charge
  BY <1>1, <1>4, <1>5, <1>8 DEF Rate
<1>10. charge \in Int
  BY <1>6, <1>8
<1> QED
  BY <1>7, <1>9, <1>10

\* The rows of the table of executions are of fills of what it was given.
ExecInv ==
  /\ ReceivedInv
  /\ fills \subseteq GroupFills(received)
  /\ rows = {FillRow(f, withCommissions) : f \in fills}

\* The row of a fill is known by the id of its lead and sorts by numbers.
LEMMA RowIs ==
  ASSUME ReceivedInv, NEW f \in GroupFills(received), NEW w
  PROVE  LET r == FillRow(f, w)
         IN /\ r.id = f.lead.id /\ r.id \in Int /\ r.group = DayOf(r.column[1])
            /\ \A i \in 1..3 : r.column[i] \in Int
<1>1. PICK r : r = FillRow(f, w)
  OBVIOUS
<1>2. PICK rate \in Int : rate = Rate(f, w)
  BY RateIsNumber
<1>3. PICK cash \in Int : cash = CashFlow(f)
  BY CashIsNumber
<1>4. f.lead \in received
  BY FillFields
<1>5. f.lead.id \in Int /\ f.lead.time \in Int
  BY <1>4, ReceivedAre
<1>6. r.id = f.lead.id /\ r.group = DayOf(f.lead.time) /\ r.column = <<f.lead.time, rate, cash>>
  BY <1>1, <1>2, <1>3 DEF FillRow
<1>7. r.column[1] = f.lead.time /\ r.column[2] = rate /\ r.column[3] = cash
  BY <1>6
<1>8. \A i \in 1..3 : i = 1 \/ i = 2 \/ i = 3
  OBVIOUS
<1> QED
  BY <1>1, <1>5, <1>6, <1>7, <1>8

\* So the rows of the table are as the proofs above need them.
LEMMA RowsFit == ExecInv => RowsOk
<1> SUFFICES ASSUME ExecInv PROVE RowsOk
  OBVIOUS
<1>1. ReceivedInv /\ fills \subseteq GroupFills(received)
  BY DEF ExecInv
<1>2. PICK into : into = [f \in fills |-> FillRow(f, withCommissions)]
  OBVIOUS
<1>3. into \in Surjection(fills, rows)
  BY <1>2 DEF ExecInv, Surjection
<1>4. IsFiniteSet(rows)
  BY <1>1, <1>3, FillsAreOnce, FS_Subset, FS_Surjection
<1>5. \A r \in rows : \E f \in fills : r = FillRow(f, withCommissions)
  BY DEF ExecInv
<1>6. ASSUME NEW r \in rows
      PROVE  r.id \in Int /\ r.group = DayOf(r.column[1]) /\ \A i \in 1..3 : r.column[i] \in Int
  BY <1>1, <1>5, RowIs
<1>7. ASSUME NEW r \in rows, NEW q \in rows, r.id = q.id
      PROVE  r = q
  <2>1. PICK f \in fills : r = FillRow(f, withCommissions)
    BY <1>5
  <2>2. PICK g \in fills : q = FillRow(g, withCommissions)
    BY <1>5
  <2>3. f \in GroupFills(received) /\ g \in GroupFills(received)
    BY <1>1
  <2>4. r.id = f.lead.id /\ q.id = g.lead.id
    BY <1>1, <2>1, <2>2, <2>3, RowIs
  <2>5. /\ f.lead \in received /\ FillOf(f.lead) = f
        /\ g.lead \in received /\ FillOf(g.lead) = g
    BY <1>1, <2>3, FillFields
  <2>6. f.lead = g.lead
    BY <1>1, <1>7, <2>4, <2>5 DEF ReceivedInv
  <2> QED
    BY <2>1, <2>2, <2>5, <2>6
<1> QED
  BY <1>4, <1>6, <1>7 DEF RowsOk

\* What a render with other rows and what the user does leave of the choices.
LEMMA RowsStep ==
  ASSUME TableOk, NEW given, RowsChange(given)
  PROVE  TableOk'
<1>1. PICK left : left = Settled(given, picks)
  OBVIOUS
<1>2. Answered(given, left) /\ left = [f \in Facets |-> left[f]]
  BY <1>1, SettledIsAnswered DEF TableOk
<1>3. rows' = given /\ picks' = left /\ sort' = sort /\ page' \in {page, 0}
  BY <1>1 DEF RowsChange, Rendered
<1>4. Answered(rows, picks)'
  BY <1>2, <1>3 DEF Answered, ChoicesOf, Wants
<1> QED
  BY <1>2, <1>3, <1>4 DEF TableOk

\* What the user picks, sorts by or turns to leaves the choices answered.
LEMMA UseStep ==
  ASSUME RowsOk, TableOk, TableUse
  PROVE  TableOk'
<1>1. ASSUME Answered(rows', picks'), picks' = [f \in Facets |-> picks'[f]],
             page' \in Nat, sort'.index \in 1..3, sort'.asc \in BOOLEAN
      PROVE  TableOk'
  BY <1>1 DEF TableOk, Answered, ChoicesOf, Wants
<1>2. CASE PickFacet
  <2>1. PICK f \in Facets, value \in {AnyValue} \cup UNION {ChoicesOf(rows, picks, g) : g \in Facets} :
          /\ picks' = Settled(rows, [picks EXCEPT ![f] = value])
          /\ UNCHANGED <<rows, search, sort>> /\ Rendered(page)
    BY <1>2 DEF PickFacet
  <2>2. PICK ticks : ticks = [picks EXCEPT ![f] = value]
    OBVIOUS
  <2>3. PICK left : left = Settled(rows, ticks)
    OBVIOUS
  <2>4. ticks = [g \in Facets |-> ticks[g]]
    BY <2>2 DEF TableOk
  <2>5. Answered(rows, left) /\ left = [g \in Facets |-> left[g]]
    BY <2>3, <2>4, SettledIsAnswered
  <2>6. picks' = left /\ rows' = rows /\ sort' = sort /\ page' \in {page, 0}
    BY <2>1, <2>2, <2>3 DEF Rendered
  <2> QED
    BY <1>1, <2>5, <2>6 DEF TableOk
<1>3. CASE Search
  <2>1. picks' = picks /\ rows' = rows /\ sort' = sort /\ page' \in {page, 0}
    BY <1>3 DEF Search, Rendered
  <2> QED
    BY <1>1, <2>1 DEF TableOk
<1>4. CASE ClearFilters
  <2>1. picks' = NoPicks /\ rows' = rows /\ sort' = sort /\ page' \in {page, 0}
    BY <1>4 DEF ClearFilters, Rendered
  <2>2. Answered(rows, NoPicks) /\ NoPicks = [f \in Facets |-> NoPicks[f]]
    BY DEF Answered, NoPicks
  <2> QED
    BY <1>1, <2>1, <2>2 DEF TableOk
<1>5. CASE Sort
  <2>1. picks' = picks /\ rows' = rows /\ page' \in {page, 0}
    BY <1>5 DEF Sort, Rendered
  <2>2. PICK i \in SortColumns :
          \/ sort' = [index |-> i, asc |-> IF sort.index = i THEN ~sort.asc ELSE TRUE]
          \/ sort' = [index |-> i, asc |-> sort.asc]
    BY <1>5, Zenon DEF Sort
  <2>3. i \in 1..3
    BY SentAssumption
  <2>4. PICK turned \in BOOLEAN : turned = IF sort.index = i THEN ~sort.asc ELSE TRUE
    BY Zenon DEF TableOk
  <2>5. PICK kept \in BOOLEAN : kept = sort.asc
    BY Zenon DEF TableOk
  <2>6. \E up \in BOOLEAN : sort' = [index |-> i, asc |-> up]
    BY <2>2, <2>4, <2>5, Zenon
  <2>7. PICK up \in BOOLEAN : sort' = [index |-> i, asc |-> up]
    BY <2>6, Zenon
  <2>8. sort'.index = i
    BY <2>7
  <2>9. sort'.asc \in BOOLEAN
    <3>1. sort'.asc = up
      BY <2>7, Zenon
    <3> QED
      BY <3>1, Zenon
  <2> QED
    <3>1. Answered(rows', picks') /\ picks' = [f \in Facets |-> picks'[f]] /\ page' \in Nat
      BY <2>1 DEF TableOk
    <3>2. sort'.index \in 1..3
      BY <2>3, <2>8
    <3> QED
      BY <1>1, <2>9, <3>1, <3>2, Zenon
<1>6. CASE TurnPage
  <2>1. picks' = picks /\ rows' = rows /\ sort' = sort
    BY <1>6 DEF TurnPage, Rendered
  <2>2. Pages \in Nat
    <3>1. IsFiniteSet(Visible)
      BY FS_Subset DEF RowsOk, Visible
    <3> QED
      BY <3>1, FS_CardinalityType, PagesAre
  <2>3. PICK n \in 0..(Pages - 1) : Rendered(n)
    BY <1>6 DEF TurnPage
  <2>4. page' \in {n, 0}
    BY <2>3 DEF Rendered
  <2>5. page' \in Nat
    BY <2>2, <2>3, <2>4
  <2> QED
    BY <1>1, <2>1, <2>5 DEF TableOk
<1> QED
  BY <1>2, <1>3, <1>4, <1>5, <1>6 DEF TableUse

\* One step of the table of executions.
LEMMA ExecInvStep ==
  ASSUME ExecInv, TableOk, [ExecNext]_execVars
  PROVE  ExecInv' /\ TableOk'
<1>1. ReceivedInv'
  BY ReceivedStep DEF ExecInv
<1>2. ASSUME NEW execs, NEW also, Shows(execs, also), withCommissions' = withCommissions
      PROVE  ExecInv' /\ TableOk'
  <2>1. PICK given : given = {FillRow(f, withCommissions) : f \in fills'}
    OBVIOUS
  <2>2. received' = execs /\ fills' = ShownFills(execs, also, now) /\ RowsChange(given)
    BY <1>2, <2>1 DEF Shows
  <2>3. fills' \subseteq GroupFills(received')
    BY <2>2 DEF ShownFills
  <2>4. rows' = {FillRow(f, withCommissions') : f \in fills'}
    BY <1>2, <2>1, <2>2 DEF RowsChange
  <2>5. ExecInv'
    BY <1>1, <2>3, <2>4 DEF ExecInv
  <2> QED
    BY <2>2, <2>5, RowsStep
<1>3. CASE ExecutionsChange
  <2>1. \E execs : Shows(execs, showExpired)
    BY <1>3 DEF ExecutionsChange
  <2>2. withCommissions' = withCommissions
    BY <1>3 DEF ExecutionsChange
  <2> QED
    BY <1>2, <2>1, <2>2
<1>4. CASE TimePasses \/ UNCHANGED execVars
  <2>1. /\ received' = received /\ withCommissions' = withCommissions /\ fills' = fills
        /\ UNCHANGED <<rows, picks, page, sort>>
    BY <1>4 DEF TimePasses, execVars, tableVars
  <2>2. ExecInv'
    BY <1>1, <2>1 DEF ExecInv
  <2>3. TableOk'
    BY <2>1 DEF TableOk, Answered, ChoicesOf, Wants
  <2> QED
    BY <2>2, <2>3
<1>5. CASE Use
  <2>1. CASE ToggleExpired
    BY <1>2, <2>1 DEF ToggleExpired
  <2>2. CASE ToggleNetRate
    <3>1. PICK given : given = {FillRow(f, withCommissions') : f \in fills}
      OBVIOUS
    <3>2. RowsChange(given) /\ received' = received /\ fills' = fills
      BY <2>2, <3>1 DEF ToggleNetRate
    <3>3. rows' = {FillRow(f, withCommissions') : f \in fills'}
      BY <3>1, <3>2 DEF RowsChange
    <3>4. ExecInv'
      BY <1>1, <3>2, <3>3 DEF ExecInv
    <3> QED
      BY <3>2, <3>4, RowsStep
  <2>3. CASE TableUse /\ UNCHANGED <<received, showExpired, withCommissions, fills>>
    <3>1. TableOk'
      BY <2>3, RowsFit, UseStep
    <3>2. rows' = rows
      BY <2>3 DEF TableUse, PickFacet, Search, ClearFilters, Sort, TurnPage
    <3>3. ExecInv'
      BY <1>1, <2>3, <3>2 DEF ExecInv
    <3> QED
      BY <3>1, <3>3
  <2> QED
    BY <1>5, <2>1, <2>2, <2>3 DEF Use
<1> QED
  BY <1>3, <1>4, <1>5 DEF ExecNext

\* However executions come and go under filters, sorting and paging, the
\* filters never hide every row, going through the pages shows each visible row
\* once with its group's sums whole, and the page shown has rows (nextPicked of
\* tables.tsx, lines 137-149, and pageOfGroups).
THEOREM TableHolds == ExecSpec => []TableShowsAll
<1>1. ExecInit => ExecInv /\ TableOk
  <2> SUFFICES ASSUME ExecInit PROVE ExecInv /\ TableOk
    OBVIOUS
  <2>1. ExecInv
    BY FS_EmptySet DEF ExecInit, TableInit, ExecInv, ReceivedInv
  <2>2. rows = {} /\ picks = NoPicks /\ page = 0 /\ sort = [index |-> 1, asc |-> FALSE]
    BY DEF ExecInit, TableInit
  <2>3. Answered(rows, picks) /\ picks = [f \in Facets |-> picks[f]]
    BY <2>2 DEF Answered, NoPicks
  <2>4. sort.index \in 1..3 /\ page \in Nat
    BY <2>2
  <2>5. sort.asc \in BOOLEAN
    BY <2>2
  <2> QED
    BY <2>1, <2>3, <2>4, <2>5 DEF TableOk
<1>2. ExecInv /\ TableOk /\ [ExecNext]_execVars => ExecInv' /\ TableOk'
  BY ExecInvStep
<1>3. ExecInv /\ TableOk => TableShowsAll
  BY RowsFit, NotStranded, PagesDoCover, PagesHaveRows DEF TableShowsAll
<1> QED
  BY <1>1, <1>2, <1>3, PTL DEF ExecSpec

-----------------------------------------------------------------------------
(***************************************************************************)
(* The figures of a strategy. What legs settle at is a sum of curves each  *)
(* of which turns at its strike, so between two strikes it is straight and *)
(* its extremes are at the turns; strikes inside the range lie among the   *)
(* prices drawn, the first slope is exact and leads to the value at zero,  *)
(* and between the last two samples it is that above every strike. A slope *)
(* there that falls is of stocks and calls, and what the warning adds up   *)
(* is no more. Prices and money are the hundredths of a sample of Payoff.  *)
(***************************************************************************)

\* A sum of multiples is the multiple of the sum.
LEMMA TotalOfTimes ==
  ASSUME NEW S, IsFiniteSet(S), NEW f, NEW g, NEW c \in Int,
         \A x \in S : g[x] \in Int /\ f[x] = g[x] * c
  PROVE  Total(f, S) = Total(g, S) * c
<1> DEFINE bad == {s \in SUBSET S : Total(f, s) # Total(g, s) * c}
<1>1. SUFFICES ASSUME bad # {} PROVE FALSE
  OBVIOUS
<1>2. \A s \in bad : IsFiniteSet(s)
  BY FS_Subset
<1>3. PICK s \in bad : \A t \in bad : Cardinality(s) <= Cardinality(t)
  <2> HIDE DEF bad
  <2> QED
    BY <1>1, <1>2, SmallestBad
<1>4. IsFiniteSet(s) /\ s \in SUBSET S /\ Total(f, s) # Total(g, s) * c
  BY <1>2, <1>3
<1>5. s # {}
  <2>1. SUFFICES ASSUME s = {} PROVE FALSE
    OBVIOUS
  <2>2. Total(f, s) = 0 /\ Total(g, s) = 0
    BY <2>1, TotalOfNone
  <2> QED
    BY <1>4, <2>2
<1>6. PICK x \in s : TRUE
  BY <1>5
<1>7. PICK rest : rest = s \ {x}
  OBVIOUS
<1>8. \A y \in s : g[y] \in Int /\ f[y] \in Int /\ f[y] = g[y] * c
  BY <1>4
<1>9. Total(f, s) = f[x] + Total(f, rest) /\ Total(g, s) = g[x] + Total(g, rest)
  <2>1. \A y \in s : f[y] \in Int
    BY <1>8
  <2>2. \A y \in s : g[y] \in Int
    BY <1>8
  <2>3. Total(f, s) = f[x] + Total(f, rest)
    BY <1>4, <1>7, <2>1, TotalRemove
  <2>4. Total(g, s) = g[x] + Total(g, rest)
    BY <1>4, <1>7, <2>2, TotalRemove
  <2> QED
    BY <2>3, <2>4
<1>10. IsFiniteSet(rest) /\ rest \in SUBSET S /\ Cardinality(rest) < Cardinality(s)
  BY <1>4, <1>7, OneLess
<1>11. Total(f, rest) = Total(g, rest) * c
  <2>1. Cardinality(s) \in Nat /\ Cardinality(rest) \in Nat
    BY <1>4, <1>10, FS_CardinalityType
  <2>2. rest \notin bad
    BY <1>3, <1>10, <2>1
  <2> QED
    BY <1>10, <2>2
<1>12. Total(g, rest) \in Int
  <2>1. \A y \in rest : g[y] \in Int
    BY <1>10
  <2> QED
    BY <1>10, <2>1, TotalRemove
<1>13. \A m, n \in Int : (m + n) * c = m * c + n * c
  OBVIOUS
<1>14. Total(f, s) = Total(g, s) * c
  BY <1>6, <1>8, <1>9, <1>11, <1>12, <1>13
<1> QED
  BY <1>4, <1>14

\* A sum of what is not negative is not negative.
LEMMA TotalOfGains ==
  ASSUME NEW S, IsFiniteSet(S), NEW f, \A x \in S : f[x] \in Int /\ f[x] >= 0
  PROVE  Total(f, S) >= 0
<1> DEFINE bad == {s \in SUBSET S : ~(Total(f, s) >= 0)}
<1>1. SUFFICES ASSUME bad # {} PROVE FALSE
  OBVIOUS
<1>2. \A s \in bad : IsFiniteSet(s)
  BY FS_Subset
<1>3. PICK s \in bad : \A t \in bad : Cardinality(s) <= Cardinality(t)
  <2> HIDE DEF bad
  <2> QED
    BY <1>1, <1>2, SmallestBad
<1>4. IsFiniteSet(s) /\ s \in SUBSET S /\ ~(Total(f, s) >= 0)
  BY <1>2, <1>3
<1>5. s # {}
  <2>1. SUFFICES ASSUME s = {} PROVE FALSE
    OBVIOUS
  <2>2. Total(f, s) = 0
    BY <2>1, TotalOfNone
  <2> QED
    BY <1>4, <2>2
<1>6. PICK x \in s : TRUE
  BY <1>5
<1>7. PICK rest : rest = s \ {x}
  OBVIOUS
<1>8. \A y \in s : f[y] \in Int
  BY <1>4
<1>9. Total(f, s) = f[x] + Total(f, rest)
  BY <1>4, <1>7, <1>8, TotalRemove
<1>10. IsFiniteSet(rest) /\ rest \in SUBSET S /\ Cardinality(rest) < Cardinality(s)
  BY <1>4, <1>7, OneLess
<1>11. Total(f, rest) >= 0
  <2>1. Cardinality(s) \in Nat /\ Cardinality(rest) \in Nat
    BY <1>4, <1>10, FS_CardinalityType
  <2>2. rest \notin bad
    BY <1>3, <1>10, <2>1
  <2> QED
    BY <1>10, <2>2
<1>12. Total(f, rest) \in Int
  <2>1. \A y \in rest : f[y] \in Int
    BY <1>8, <1>10
  <2> QED
    BY <1>10, <2>1, TotalRemove
<1>13. f[x] \in Int /\ f[x] >= 0
  BY <1>4, <1>6
<1> QED
  BY <1>4, <1>9, <1>11, <1>12, <1>13

\* What a leg carries that can be settled.
Settles(l) ==
  /\ l.quantity \in Int /\ l.cost \in Int /\ l.multiplier \in Int /\ l.strike \in Int
  /\ IsOption(l) => l.position.right \in {"C", "P"} /\ l.strike > 0
  /\ ~IsOption(l) => l.multiplier = 1

\* Every leg of the panel is one.
LEMMA LegSettles ==
  ASSUME NEW at \in Nat, NEW l, LegOf(l, at)
  PROVE  Settles(l)
<1>1. PICK p \in Pool : l = Leg(p, at) /\ ~Unusable(p, at)
  BY DEF LegOf
<1>2. /\ l.position = p /\ l.multiplier = MultiplierOf(p) /\ l.strike = p.strike
  BY <1>1 DEF Leg
<1>3. IsOption(l) <=> p.type = "OPT"
  BY <1>2 DEF IsOption
<1>4. p.type \in {"STK", "OPT"} /\ (p.type = "OPT" => ~(p.strike <= 0) /\ p.right \in {"C", "P"})
  BY <1>1, Zenon DEF Unusable
<1>5. p.strike \in Int
  BY RiskAssumption
<1>6. IsOption(l) => l.position.right \in {"C", "P"} /\ l.strike > 0
  BY <1>2, <1>3, <1>4, <1>5
<1>7. ~IsOption(l) => l.multiplier = 1
  BY <1>2, <1>3, <1>4 DEF MultiplierOf
<1> QED
  BY <1>6, <1>7, LegFields DEF Settles

\* What a leg settles at, and by how much that rises with the price above a.
Bend(l) == Fine * l.strike
Proceeds(l, price) == l.quantity * (FineValue(l, price) * l.multiplier - Fine * l.cost)
Rise(l, a) ==
  IF ~IsOption(l) THEN l.quantity
  ELSE IF l.position.right = "C" /\ Bend(l) <= a THEN l.quantity * l.multiplier
  ELSE IF l.position.right = "P" /\ Bend(l) > a THEN -(l.quantity * l.multiplier) ELSE 0

\* There are 240 samples.
LEMMA FineIs == GridSteps = 240 /\ Fine = 24000 /\ Fine \in Int
  BY DEF GridSteps, Fine

\* What an option is worth at once.
LEMMA IntrinsicIs ==
  ASSUME NEW x \in Int, NEW k \in Int, NEW right
  PROVE  /\ Intrinsic(x, k, right) \in Int
         /\ right = "C" => Intrinsic(x, k, right) = IF k <= x THEN x - k ELSE 0
         /\ right # "C" => Intrinsic(x, k, right) = IF x <= k THEN k - x ELSE 0
<1>1. PICK gain : gain = IF right = "C" THEN x - k ELSE k - x
  OBVIOUS
<1>2. gain \in Int /\ 0 \in Int
  BY <1>1
<1>3. Intrinsic(x, k, right) = Max({0, gain})
  BY <1>1 DEF Intrinsic
<1>4. Max({0, gain}) = IF 0 >= gain THEN 0 ELSE gain
  BY <1>2, MaxOfTwo
<1> QED
  BY <1>1, <1>2, <1>3, <1>4

\* With no strike between two prices, a leg rises between them by its slope at
\* the lower.
LEMMA LegRises ==
  ASSUME NEW l, Settles(l), NEW a \in Int, NEW p \in Int, a <= p,
         IsOption(l) => Bend(l) <= a \/ p <= Bend(l)
  PROVE  /\ Proceeds(l, a) \in Int /\ Proceeds(l, p) \in Int /\ Rise(l, a) \in Int
         /\ Proceeds(l, p) = Proceeds(l, a) + Rise(l, a) * (p - a)
<1>1. PICK q \in Int : q = l.quantity
  BY DEF Settles
<1>2. PICK m \in Int : m = l.multiplier
  BY DEF Settles
<1>3. PICK c \in Int : c = Fine * l.cost
  BY FineIs DEF Settles
<1>4. PICK k \in Int : k = Bend(l)
  BY FineIs DEF Settles, Bend
<1>5. q * m \in Int
  OBVIOUS
<1>6. Rise(l, a) \in Int
  BY <1>1, <1>2, <1>5 DEF Rise
<1>7. CASE ~IsOption(l)
  <2>1. m = 1
    BY <1>2, <1>7 DEF Settles
  <2>2. Proceeds(l, a) = q * (a * 1 - c) /\ Proceeds(l, p) = q * (p * 1 - c) /\ Rise(l, a) = q
    BY <1>1, <1>2, <1>3, <1>7, <2>1 DEF Proceeds, FineValue, Rise
  <2>3. q * (p * 1 - c) = q * (a * 1 - c) + q * (p - a)
    OBVIOUS
  <2> QED
    BY <1>6, <2>2, <2>3
<1>8. CASE IsOption(l)
  <2> DEFINE V(x) == Intrinsic(x, k, l.position.right)
  <2>1. \A x \in Int : Proceeds(l, x) = q * (V(x) * m - c)
    <3>1. \A x \in Int : FineValue(l, x) = V(x)
      BY <1>4, <1>8 DEF FineValue, Bend
    <3>2. \A x \in Int : V(x) \in Int
      BY <1>4, IntrinsicIs
    <3> QED
      BY <1>1, <1>2, <1>3, <3>1, <3>2 DEF Proceeds
  <2>2. /\ V(a) \in Int /\ V(p) \in Int
        /\ l.position.right = "C" /\ k <= a => V(p) = V(a) + (p - a)
        /\ l.position.right = "P" /\ k > a => V(p) = V(a) - (p - a)
        /\ ~(l.position.right = "C" /\ k <= a) /\ ~(l.position.right = "P" /\ k > a) => V(p) = V(a)
    <3>1. l.position.right \in {"C", "P"} /\ (k <= a \/ p <= k)
      BY <1>4, <1>8 DEF Settles
    <3>2. CASE l.position.right = "C"
      BY <3>1, <3>2, IntrinsicIs
    <3>3. CASE l.position.right = "P"
      BY <3>1, <3>3, IntrinsicIs
    <3> QED
      BY <3>1, <3>2, <3>3
  <2> HIDE DEF V
  <2>3. PICK v \in Int : v = V(a)
    BY <2>2
  <2>4. /\ q * ((v + (p - a)) * m - c) = q * (v * m - c) + (q * m) * (p - a)
        /\ q * ((v - (p - a)) * m - c) = q * (v * m - c) + (-(q * m)) * (p - a)
    BY Z3
  <2>5. Proceeds(l, a) \in Int /\ Proceeds(l, p) \in Int
    BY <2>1, <2>2
  <2>6. CASE l.position.right = "C" /\ k <= a
    <3>1. Rise(l, a) = q * m
      BY <1>1, <1>2, <1>4, <1>8, <2>6 DEF Rise
    <3> QED
      BY <1>6, <2>1, <2>2, <2>3, <2>4, <2>5, <2>6, <3>1
  <2>7. CASE l.position.right = "P" /\ k > a
    <3>1. Rise(l, a) = -(q * m)
      BY <1>1, <1>2, <1>4, <1>8, <2>7 DEF Rise
    <3> QED
      BY <1>6, <2>1, <2>2, <2>3, <2>4, <2>5, <2>7, <3>1
  <2>8. CASE ~(l.position.right = "C" /\ k <= a) /\ ~(l.position.right = "P" /\ k > a)
    <3>1. Rise(l, a) = 0
      BY <1>4, <1>8, <2>8 DEF Rise
    <3>2. Proceeds(l, p) = Proceeds(l, a)
      BY <2>1, <2>2, <2>8
    <3>3. 0 * (p - a) = 0
      OBVIOUS
    <3> QED
      BY <2>5, <3>1, <3>2, <3>3
  <2> QED
    BY <2>6, <2>7, <2>8
<1> QED
  BY <1>7, <1>8

\* What legs settle at is a curve of straight pieces that turns at the strikes.
Turning(legs) == {Bend(l) : l \in {k \in legs : IsOption(k)}}
Slope(legs, a) == Total([l \in legs |-> Rise(l, a)], legs)
AllSettle(legs) == IsFiniteSet(legs) /\ \A l \in legs : Settles(l)

\* And so do the legs together.
LEMMA CurveRises ==
  ASSUME NEW legs, AllSettle(legs), NEW a \in Int, NEW p \in Int, a <= p,
         \A k \in Turning(legs) : k <= a \/ p <= k
  PROVE  /\ TerminalAt(legs, a) \in Int /\ TerminalAt(legs, p) \in Int /\ Slope(legs, a) \in Int
         /\ TerminalAt(legs, p) = TerminalAt(legs, a) + Slope(legs, a) * (p - a)
<1>1. PICK low : low = [l \in legs |-> Proceeds(l, a)]
  OBVIOUS
<1>2. PICK high : high = [l \in legs |-> Proceeds(l, p)]
  OBVIOUS
<1>3. PICK rise : rise = [l \in legs |-> Rise(l, a)]
  OBVIOUS
<1>4. PICK gain : gain = [l \in legs |-> Rise(l, a) * (p - a)]
  OBVIOUS
<1>5. ASSUME NEW l \in legs
      PROVE  /\ low[l] \in Int /\ high[l] \in Int /\ rise[l] \in Int /\ gain[l] \in Int
             /\ gain[l] = rise[l] * (p - a) /\ high[l] = low[l] + gain[l]
  <2>1. Settles(l)
    BY DEF AllSettle
  <2>2. IsOption(l) => Bend(l) <= a \/ p <= Bend(l)
    BY DEF Turning
  <2>3. /\ Proceeds(l, a) \in Int /\ Proceeds(l, p) \in Int /\ Rise(l, a) \in Int
        /\ Proceeds(l, p) = Proceeds(l, a) + Rise(l, a) * (p - a)
    BY <2>1, <2>2, LegRises
  <2>4. low[l] = Proceeds(l, a) /\ high[l] = Proceeds(l, p) /\ rise[l] = Rise(l, a) /\ gain[l] = Rise(l, a) * (p - a)
    BY <1>1, <1>2, <1>3, <1>4
  <2>5. Rise(l, a) * (p - a) \in Int
    BY <2>3
  <2> QED
    BY <2>3, <2>4, <2>5
<1>6. IsFiniteSet(legs) /\ p - a \in Int
  BY DEF AllSettle
<1>7. Total(high, legs) = Total(low, legs) + Total(gain, legs)
  BY <1>5, <1>6, TotalOfSums
<1>8. Total(gain, legs) = Total(rise, legs) * (p - a)
  <2>1. PICK c \in Int : c = p - a
    BY <1>6
  <2>2. \A l \in legs : rise[l] \in Int /\ gain[l] = rise[l] * c
    BY <1>5, <2>1
  <2>3. Total(gain, legs) = Total(rise, legs) * c
    BY <1>6, <2>2, TotalOfTimes
  <2> QED
    BY <2>1, <2>3
<1>9. Total(low, legs) \in Int /\ Total(high, legs) \in Int /\ Total(rise, legs) \in Int
  <2>1. Total(low, legs) \in Int
    BY <1>5, <1>6, TotalRemove
  <2>2. Total(high, legs) \in Int
    BY <1>5, <1>6, TotalRemove
  <2>3. Total(rise, legs) \in Int
    BY <1>5, <1>6, TotalRemove
  <2> QED
    BY <2>1, <2>2, <2>3
<1>10. TerminalAt(legs, a) = Total(low, legs) /\ TerminalAt(legs, p) = Total(high, legs)
  <2>1. TerminalAt(legs, a) = SumFunction(low) /\ DOMAIN low = legs
    BY <1>1 DEF TerminalAt, Proceeds
  <2>2. TerminalAt(legs, p) = SumFunction(high) /\ DOMAIN high = legs
    BY <1>2 DEF TerminalAt, Proceeds
  <2> QED
    BY <2>1, <2>2, SumIsTotal
<1>11. Slope(legs, a) = Total(rise, legs)
  BY <1>3 DEF Slope
<1> QED
  BY <1>7, <1>8, <1>9, <1>10, <1>11

\* The slope is the same at two prices with the same strikes below.
LEMMA SlopeStays ==
  ASSUME NEW legs, AllSettle(legs), NEW a \in Int, NEW b \in Int,
         \A k \in Turning(legs) : k <= a <=> k <= b
  PROVE  Slope(legs, a) = Slope(legs, b)
<1>1. PICK f : f = [l \in legs |-> Rise(l, a)]
  OBVIOUS
<1>2. PICK g : g = [l \in legs |-> Rise(l, b)]
  OBVIOUS
<1>3. ASSUME NEW l \in legs PROVE f[l] = g[l]
  <2>1. f[l] = Rise(l, a) /\ g[l] = Rise(l, b)
    BY <1>1, <1>2
  <2>2. Bend(l) \in Int
    BY FineIs DEF AllSettle, Settles, Bend
  <2>3. CASE ~IsOption(l)
    BY <2>1, <2>3 DEF Rise
  <2>4. CASE IsOption(l)
    <3>1. Bend(l) <= a <=> Bend(l) <= b
      BY <2>4 DEF Turning
    <3>2. Bend(l) > a <=> Bend(l) > b
      BY <2>2, <3>1
    <3> QED
      BY <2>1, <3>1, <3>2 DEF Rise
  <2> QED
    BY <2>3, <2>4
<1>4. Total(f, legs) = Total(g, legs)
  BY <1>3, TotalSame DEF AllSettle
<1> QED
  BY <1>1, <1>2, <1>4 DEF Slope

\* The strikes are finitely many numbers above zero.
LEMMA StrikesAre ==
  ASSUME NEW legs, AllSettle(legs)
  PROVE  /\ \A k \in Turning(legs) : k \in Int /\ k > 0
         /\ IsFiniteSet(Turning(legs))
<1>1. \A k \in Turning(legs) : k \in Int /\ k > 0
  BY FineIs DEF Turning, AllSettle, Settles, Bend
<1>2. PICK options : options = {k \in legs : IsOption(k)}
  OBVIOUS
<1>3. PICK f : f = [l \in options |-> Bend(l)]
  OBVIOUS
<1>4. IsFiniteSet(options)
  BY <1>2, FS_Subset DEF AllSettle
<1>5. Turning(legs) = {f[l] : l \in options}
  <2>1. \A l \in options : f[l] = Bend(l)
    BY <1>3
  <2>2. Turning(legs) = {Bend(l) : l \in options}
    BY <1>2 DEF Turning
  <2> QED
    BY <2>1, <2>2
<1>6. IsFiniteSet(Turning(legs))
  BY <1>4, <1>5, ImageIsFinite
<1> QED
  BY <1>1, <1>6

\* Between two turns, and above the last, a straight piece has its lowest and
\* its highest point at a turn.
LEMMA Extremes ==
  ASSUME NEW legs, AllSettle(legs), NEW top \in Int, \A k \in Turning(legs) : k <= top, top >= 0,
         NEW p \in Nat, NEW turns, turns = {0} \cup Turning(legs)
  PROVE  /\ Slope(legs, top) >= 0 => \E t \in turns : TerminalAt(legs, t) <= TerminalAt(legs, p)
         /\ Slope(legs, top) <= 0 => \E t \in turns : TerminalAt(legs, p) <= TerminalAt(legs, t)
<1>1. 0 \in turns /\ \A k \in turns : k \in Int /\ k >= 0
  BY StrikesAre
<1>p. p \in Int /\ 0 <= p
  OBVIOUS
<1>2. PICK below : below = {k \in turns : k <= p}
  OBVIOUS
<1>3. PICK above : above = {k \in turns : k > p}
  OBVIOUS
<1>4. PICK a : a = Max(below)
  OBVIOUS
<1>5. a \in below /\ \A k \in below : k <= a
  <2>1. below \subseteq Int /\ 0 \in below /\ \A k \in below : k <= p
    BY <1>1, <1>2, <1>p
  <2>2. below # {}
    BY <2>1
  <2> QED
    BY <1>4, <1>p, <2>1, <2>2, MaxIs
<1>6. a \in Int /\ 0 <= a /\ a <= p /\ a \in turns
  BY <1>1, <1>2, <1>5
<1>7. PICK s : s = Slope(legs, a)
  OBVIOUS
<1>8. \A k \in Turning(legs) : k <= a \/ k > p
  <2>1. \A k \in Turning(legs) : k \in Int /\ k \in turns
    BY StrikesAre
  <2> QED
    BY <1>2, <1>5, <2>1
<1>9. /\ TerminalAt(legs, a) \in Int /\ TerminalAt(legs, p) \in Int /\ s \in Int
      /\ TerminalAt(legs, p) = TerminalAt(legs, a) + s * (p - a)
  <2>1. \A k \in Turning(legs) : k <= a \/ p <= k
    BY <1>8, StrikesAre
  <2> QED
    BY <1>6, <1>7, <2>1, CurveRises
<1>10. PICK d \in Nat : d = p - a
  BY <1>6
<1>11. CASE above = {}
  <2>1. \A k \in Turning(legs) : k <= a <=> k <= top
    <3>1. \A k \in Turning(legs) : k \in turns /\ k \in Int
      BY StrikesAre
    <3> QED
      BY <1>3, <1>8, <1>11, <3>1
  <2>2. s = Slope(legs, top)
    BY <1>6, <1>7, <2>1, SlopeStays
  <2>3. (s >= 0 => s * d >= 0) /\ (s <= 0 => s * d <= 0)
    BY <1>9, <1>10, Z3
  <2>4. s * d \in Int
    BY <1>9
  <2> QED
    BY <1>6, <1>9, <1>10, <2>2, <2>3, <2>4
<1>12. CASE above # {}
  <2>1. PICK b : b = Min(above)
    OBVIOUS
  <2>2. b \in above /\ \A k \in above : b <= k
    <3>1. \A k \in above : k \in Int /\ k > p
      BY <1>1, <1>3
    <3>2. above \subseteq Int /\ \A k \in above : p <= k
      BY <1>p, <3>1
    <3> QED
      BY <1>12, <1>p, <2>1, <3>2, MinIs
  <2>3. b \in Int /\ p < b /\ b \in turns
    BY <1>1, <1>3, <2>2
  <2>4. \A k \in Turning(legs) : k <= a \/ b <= k
    <3>1. \A k \in Turning(legs) : k \in turns
      OBVIOUS
    <3> QED
      BY <1>3, <1>8, <2>2, <3>1
  <2>5. /\ TerminalAt(legs, b) \in Int
        /\ TerminalAt(legs, b) = TerminalAt(legs, a) + s * (b - a)
    BY <1>6, <1>7, <2>3, <2>4, CurveRises
  <2>6. PICK e \in Nat : e = b - p
    BY <2>3
  <2>7. s * (b - a) = s * d + s * e
    <3>1. b - a = d + e
      BY <1>6, <1>10, <2>3, <2>6
    <3>2. s * (d + e) = s * d + s * e
      BY <1>9
    <3> QED
      BY <3>1, <3>2
  <2>8. /\ s >= 0 => s * d >= 0 /\ s * e >= 0
        /\ s <= 0 => s * d <= 0 /\ s * e <= 0
    BY <1>9, Z3
  <2>9. s * d \in Int /\ s * e \in Int
    BY <1>9
  <2>10. TerminalAt(legs, p) = TerminalAt(legs, a) + s * d /\ TerminalAt(legs, b) = TerminalAt(legs, p) + s * e
    BY <1>9, <1>10, <2>5, <2>7, <2>9
  <2>11. CASE s >= 0
    <3>1. TerminalAt(legs, a) <= TerminalAt(legs, p) /\ TerminalAt(legs, p) <= TerminalAt(legs, b)
      BY <1>9, <2>5, <2>8, <2>9, <2>10, <2>11
    <3> QED
      BY <1>6, <2>3, <3>1
  <2>12. CASE s <= 0
    <3>1. TerminalAt(legs, b) <= TerminalAt(legs, p) /\ TerminalAt(legs, p) <= TerminalAt(legs, a)
      BY <1>9, <2>5, <2>8, <2>9, <2>10, <2>12
    <3> QED
      BY <1>6, <2>3, <3>1
  <2> QED
    BY <1>9, <2>11, <2>12
<1> QED
  BY <1>11, <1>12

\* The sign of a product.
LEMMA Signs ==
  ASSUME NEW n \in Int, NEW d \in Nat
  PROVE  n * d \in Int /\ (n >= 0 => n * d >= 0) /\ (n <= 0 => n * d <= 0)
  OBVIOUS

\* The samples, and the gap between two of them.
LEMMA GridIs ==
  ASSUME NEW spot \in Int
  PROVE  LowEnd(spot, WideRange) = 1200 * spot /\ Gap(spot, WideRange) = 190 * spot
<1>1. WideRange = 95 /\ WideRange \in Int
  BY DEF WideRange
<1>2. Min({WideRange, WideRange}) = 95
  BY <1>1, MinOfTwo
<1>3. LowEnd(spot, WideRange) = 240 * spot * (100 - 95)
  BY <1>2, FineIs DEF LowEnd
<1>4. Gap(spot, WideRange) = spot * (95 + 95)
  BY <1>1, <1>2 DEF Gap
<1> QED
  BY <1>3, <1>4

\* The prices a curve is drawn at, when the strikes lie inside its range: two
\* below or at the first strike, and the last two samples above the last.
LEMMA CurvePoints ==
  ASSUME NEW legs, AllSettle(legs), NEW spot \in Int, spot > 0,
         \A k \in Turning(legs) :
           LowEnd(spot, WideRange) <= k
             /\ k < LowEnd(spot, WideRange) + (GridSteps - 1) * Gap(spot, WideRange),
         NEW D, D = CurvePrices(legs, spot, WideRange)
  PROVE  \E first, second, before, last \in D :
           /\ D \subseteq Nat /\ Turning(legs) \subseteq D
           /\ first = Min(D) /\ second = After(D, first) /\ last = Max(D) /\ before = Before(D, last)
           /\ first < second /\ last - before = Gap(spot, WideRange) /\ Fine * spot <= before
           /\ \A k \in Turning(legs) : first < k /\ second <= k /\ k <= before
<1>1. PICK lo \in Int : lo = LowEnd(spot, WideRange) /\ lo = 1200 * spot
  BY GridIs
<1>2. PICK g \in Int : g = Gap(spot, WideRange) /\ g = 190 * spot
  BY GridIs
<1>3. PICK base \in Int : base = Fine * spot /\ base = 24000 * spot
  BY FineIs
<1>4. PICK mid \in Int : mid = lo + g * 239
  OBVIOUS
<1>h. PICK hi \in Int : hi = lo + g * 240
  OBVIOUS
<1>a. /\ 0 <= lo /\ lo < base /\ base <= mid /\ mid + g = hi /\ 0 < g /\ lo < mid /\ mid < hi
  BY <1>1, <1>2, <1>3, <1>4, <1>h
<1>5. \A k \in Turning(legs) : k \in Int /\ lo <= k /\ k < mid /\ 0 < k
  <2>1. (GridSteps - 1) * Gap(spot, WideRange) = g * 239
    BY <1>2, FineIs
  <2> QED
    BY <1>1, <1>4, <2>1, StrikesAre
<1>s. \A i \in 0..240 : /\ lo + g * i \in Int /\ lo <= lo + g * i /\ lo + g * i <= hi
                        /\ lo + g * i = hi \/ lo + g * i <= mid
  <2>1. TAKE i \in 0..240
  <2>2. g * i \in Int /\ 0 <= g * i
    BY <1>a, Signs
  <2>3. CASE i = 240
    BY <1>a, <1>h, <2>2, <2>3
  <2>4. CASE i # 240
    <3>1. PICK n \in Nat : n = 239 - i
      BY <2>4
    <3>2. g * n \in Int /\ 0 <= g * n
      BY <1>a, Signs
    <3>3. g * 239 = g * i + g * n
      <4>1. g * (i + n) = g * i + g * n
        OBVIOUS
      <4>2. i + n = 239
        BY <3>1
      <4> QED
        BY <4>1, <4>2
    <3>4. lo + g * i <= mid
      BY <1>4, <2>2, <3>2, <3>3
    <3> QED
      BY <1>a, <2>2, <3>4
  <2> QED
    BY <2>3, <2>4
<1>6. \A p : p \in D <=> \/ \E i \in 0..240 : p = lo + g * i
                        \/ p = base
                        \/ \E k \in Turning(legs), d \in {-1, 0, 1} : p = k + d
  <2> DEFINE sample(i) == LowEnd(spot, WideRange) + Gap(spot, WideRange) * i
             ks == {Fine * l.strike : l \in {k \in legs : IsOption(k)}}
             grid == {sample(i) : i \in 0..GridSteps}
             near == {k + d : k \in {j \in ks : sample(0) <= j /\ j <= sample(GridSteps)}, d \in {-1, 0, 1}}
  <2>1. D = grid \cup {Fine * spot} \cup near
    BY DEF CurvePrices
  <2>2. \A p : p \in grid <=> \E i \in 0..240 : p = lo + g * i
    <3>1. GridSteps = 240
      BY FineIs
    <3>2. \A i : sample(i) = lo + g * i
      BY <1>1, <1>2
    <3> HIDE DEF sample
    <3> QED
      BY <3>1, <3>2
  <2>3. {j \in ks : sample(0) <= j /\ j <= sample(GridSteps)} = Turning(legs)
    <3>1. ks = Turning(legs)
      BY Zenon DEF Turning, Bend
    <3>2. sample(0) = lo /\ sample(GridSteps) = hi
      <4>1. sample(0) = lo
        BY <1>1, <1>2
      <4>2. sample(GridSteps) = hi
        BY <1>1, <1>2, <1>h, FineIs
      <4> QED
        BY <4>1, <4>2
    <3>3. \A j \in Turning(legs) : lo <= j /\ j <= hi
      BY <1>5, <1>a
    <3> HIDE DEF ks, sample
    <3> QED
      BY <3>1, <3>2, <3>3
  <2>4. \A p : p \in near <=> \E k \in Turning(legs), d \in {-1, 0, 1} : p = k + d
    <3>1. \A p : p \in near <=> \E k \in {j \in ks : sample(0) <= j /\ j <= sample(GridSteps)},
                                   d \in {-1, 0, 1} : p = k + d
      <4> HIDE DEF ks, sample
      <4> QED
        OBVIOUS
    <3> HIDE DEF near, ks, sample
    <3> QED
      BY <2>3, <3>1
  <2> HIDE DEF grid, near
  <2> QED
    BY <1>3, <2>1, <2>2, <2>4
<1>7. \A k \in Turning(legs) : k - 1 \in D /\ k \in D /\ k + 1 \in D
  <2>1. TAKE k \in Turning(legs)
  <2>2. k \in Int
    BY <1>5
  <2>3. \A d \in {-1, 0, 1} : k + d \in D
    <3>1. TAKE d \in {-1, 0, 1}
    <3>2. \E i \in Turning(legs), j \in {-1, 0, 1} : k + d = i + j
      OBVIOUS
    <3> QED
      BY <1>6, <3>2
  <2>4. -1 \in {-1, 0, 1} /\ 0 \in {-1, 0, 1} /\ 1 \in {-1, 0, 1}
    OBVIOUS
  <2>5. k + (-1) \in D /\ k + 0 \in D /\ k + 1 \in D
    BY <2>3, <2>4, Zenon
  <2>6. k + (-1) = k - 1 /\ k + 0 = k
    BY <2>2
  <2> QED
    BY <2>5, <2>6
<1>8. \A p \in D : p \in Int /\ 0 <= p /\ p <= hi /\ (p = hi \/ p <= mid)
  <2>1. TAKE p \in D
  <2>2. CASE \E i \in 0..240 : p = lo + g * i
    BY <1>a, <1>s, <2>2
  <2>3. CASE p = base
    BY <1>a, <2>3
  <2>4. CASE \E k \in Turning(legs), d \in {-1, 0, 1} : p = k + d
    <3>1. PICK k \in Turning(legs), d \in {-1, 0, 1} : p = k + d
      BY <2>4
    <3>2. k \in Int /\ k < mid /\ 0 < k /\ d \in Int /\ -1 <= d /\ d <= 1
      BY <1>5
    <3> QED
      BY <1>a, <3>1, <3>2
  <2> QED
    BY <1>6, <2>2, <2>3, <2>4
<1>9. hi \in D /\ mid \in D /\ lo \in D
  <2>1. 240 \in 0..240 /\ 239 \in 0..240 /\ 0 \in 0..240 /\ lo = lo + g * 0
    OBVIOUS
  <2> QED
    BY <1>4, <1>6, <1>h, <2>1
<1>10. D \subseteq Int /\ \A p \in D : 0 <= p /\ p <= hi
  BY <1>8
<1>11. PICK first \in D : first = Min(D) /\ \A p \in D : first <= p
  BY <1>9, <1>10, MinIs
<1>12. Max(D) = hi
  <2>1. Max(D) \in D /\ \A p \in D : p <= Max(D)
    BY <1>9, <1>10, MaxIs
  <2>2. hi <= Max(D) /\ Max(D) <= hi /\ Max(D) \in Int
    BY <1>9, <1>10, <2>1
  <2> QED
    BY <2>2
<1>13. PICK later : later = {p \in D : p > first}
  OBVIOUS
<1>14. PICK earlier : earlier = {p \in D : p < hi}
  OBVIOUS
<1>15. first \in Int /\ first < hi /\ first <= lo
  BY <1>a, <1>9, <1>10, <1>11
<1>16. PICK second \in later : second = Min(later) /\ \A p \in later : second <= p
  <2>1. later \subseteq Int /\ later # {} /\ \A p \in later : first <= p
    BY <1>9, <1>10, <1>13, <1>15
  <2> QED
    BY <1>15, <2>1, MinIs
<1>17. mid = Max(earlier) /\ mid \in earlier
  <2>1. \A p \in earlier : p <= mid /\ p \in Int
    BY <1>8, <1>14
  <2>2. mid \in earlier
    BY <1>9, <1>14, <1>a
  <2>3. earlier \subseteq Int /\ earlier # {} /\ mid \in Int
    BY <2>1, <2>2
  <2>4. Max(earlier) \in earlier /\ \A p \in earlier : p <= Max(earlier)
    BY <2>1, <2>3, MaxIs
  <2>5. Max(earlier) <= mid /\ mid <= Max(earlier) /\ Max(earlier) \in Int
    BY <2>1, <2>2, <2>4
  <2> QED
    BY <2>2, <2>5
<1>18. second \in D /\ first < second /\ second = After(D, first)
  BY <1>13, <1>16 DEF After
<1>19. mid = Before(D, hi) /\ hi - mid = Gap(spot, WideRange) /\ Fine * spot <= mid
  <2>1. mid = Before(D, hi)
    BY <1>14, <1>17 DEF Before
  <2> QED
    BY <1>2, <1>3, <1>a, <2>1
<1>21. \A k \in Turning(legs) : first < k /\ second <= k /\ k <= mid
  <2>1. TAKE k \in Turning(legs)
  <2>2. k \in Int /\ k < mid /\ k \in D /\ k - 1 \in D
    BY <1>5, <1>7
  <2>3. first < k
    <3>1. first <= k - 1
      BY <1>11, <2>2
    <3> QED
      BY <1>15, <2>2, <3>1
  <2>4. second <= k
    <3>1. k \in later
      BY <1>13, <2>2, <2>3
    <3> QED
      BY <1>16, <3>1
  <2>5. k <= mid
    BY <2>2
  <2> QED
    BY <2>3, <2>4, <2>5
<1>22. D \subseteq Nat /\ Turning(legs) \subseteq D
  BY <1>7, <1>8
<1> QED
  BY <1>9, <1>11, <1>12, <1>18, <1>19, <1>21, <1>22

\* Two sets of numbers with a common least or greatest element.
LEMMA SameExtreme ==
  ASSUME NEW turns, turns \subseteq Int, IsFiniteSet(turns), turns # {},
         NEW values, values \subseteq Int, turns \subseteq values
  PROVE  /\ (\A v \in values : \E t \in turns : t <= v) => Min(values) = Min(turns)
         /\ (\A v \in values : \E t \in turns : v <= t) => Max(values) = Max(turns)
<1>1. PICK low \in turns : \A t \in turns : low <= t
  BY HasLowest
<1>2. PICK high \in Int : \A t \in turns : t <= high
  BY HasMost
<1>3. Max(turns) \in turns /\ \A t \in turns : t <= Max(turns)
  BY <1>2, MaxIs
<1>4. low \in Int /\ Min(turns) \in turns /\ \A t \in turns : Min(turns) <= t
  BY <1>1, MinIs
<1>5. ASSUME \A v \in values : \E t \in turns : t <= v
      PROVE  Min(values) = Min(turns)
  <2>1. PICK m \in Int : m = Min(turns) /\ m \in values
    BY <1>4
  <2>2. \A v \in values : m <= v
    BY <1>4, <1>5, <2>1
  <2>3. values # {}
    BY <2>1
  <2>4. Min(values) \in values /\ \A v \in values : Min(values) <= v
    BY <2>1, <2>2, <2>3, MinIs
  <2>5. m <= Min(values) /\ Min(values) <= m /\ Min(values) \in Int
    BY <2>1, <2>2, <2>4
  <2> QED
    BY <2>1, <2>5
<1>6. ASSUME \A v \in values : \E t \in turns : v <= t
      PROVE  Max(values) = Max(turns)
  <2>1. PICK m \in Int : m = Max(turns) /\ m \in values
    BY <1>3
  <2>2. \A v \in values : v <= m
    BY <1>3, <1>6, <2>1
  <2>3. values # {}
    BY <2>1
  <2>4. Max(values) \in values /\ \A v \in values : v <= Max(values)
    BY <2>1, <2>2, <2>3, MaxIs
  <2>5. m <= Max(values) /\ Max(values) <= m /\ Max(values) \in Int
    BY <2>1, <2>2, <2>4
  <2> QED
    BY <2>1, <2>5
<1> QED
  BY <1>5, <1>6

\* What is taken for rounding is a number.
LEMMA ToleranceIs ==
  ASSUME NEW legs, AllSettle(legs)
  PROVE  Tolerance(legs) \in Int /\ Tolerance(legs) >= 1
<1>1. PICK f : f = [l \in legs |-> l.quantity * l.cost]
  OBVIOUS
<1>2. \A l \in legs : f[l] \in Int
  BY <1>1 DEF AllSettle, Settles
<1>3. Total(f, legs) \in Int
  BY <1>2, TotalRemove DEF AllSettle
<1>4. SumFunction(f) = Total(f, legs)
  BY <1>1, SumIsTotal
<1>5. PICK c \in Int : c = -SumFunction([l \in legs |-> l.quantity * l.cost])
  BY <1>1, <1>3, <1>4
<1>6. PICK m \in Int : m = Max({c, -c})
  BY MaxOfTwo
<1>7. (m * Fine) \div 1000000 \in Int
  BY FineIs, SMT
<1>8. Tolerance(legs) = Max({Fine, (m * Fine) \div 1000000})
  BY <1>5, <1>6 DEF Tolerance
<1> QED
  BY <1>7, <1>8, FineIs, MaxOfTwo

\* The slope above the last strike.
LEMMA SlopeIs ==
  ASSUME NEW total, AllSettle(total.legs), total.adjustment \in Int, NEW spot \in Int, spot > 0,
         NEW top, top = Max({Fine * spot} \cup Strikes(total))
  PROVE  /\ top \in Int /\ top > 0 /\ \A k \in Turning(total.legs) : k <= top
         /\ Slope(total.legs, top) \in Int /\ SlopeAbove(total, top) = Slope(total.legs, top)
<1>1. PICK legs : legs = total.legs
  OBVIOUS
<1>2. Strikes(total) = Turning(legs) /\ AllSettle(legs)
  BY <1>1 DEF Strikes, Turning, Bend
<1>b. PICK base \in Int : base = Fine * spot /\ base > 0
  BY FineIs
<1>3. top \in {base} \cup Turning(legs) /\ \A k \in {base} \cup Turning(legs) : k <= top
  <2>1. PICK all : all = {base} \cup Turning(legs)
    OBVIOUS
  <2>2. all \subseteq Int /\ all # {} /\ IsFiniteSet(all)
    <3>1. IsFiniteSet(Turning(legs)) /\ IsFiniteSet({base})
      BY <1>2, StrikesAre, FS_Singleton
    <3> QED
      BY <1>2, <2>1, <3>1, StrikesAre, FS_Union
  <2>3. PICK high \in Int : \A k \in all : k <= high
    BY <2>2, HasMost
  <2>4. Max(all) \in all /\ \A k \in all : k <= Max(all)
    BY <2>2, <2>3, MaxIs
  <2> QED
    BY <1>2, <1>b, <2>1, <2>4
<1>4. top \in Int /\ top > 0
  BY <1>2, <1>3, <1>b, StrikesAre
<1>5. PICK next \in Int : next = top + 1 /\ top <= next
  BY <1>4
<1>6. \A k \in Turning(legs) : k <= top \/ next <= k
  BY <1>3
<1>7. /\ TerminalAt(legs, top) \in Int /\ TerminalAt(legs, next) \in Int /\ Slope(legs, top) \in Int
      /\ TerminalAt(legs, next) = TerminalAt(legs, top) + Slope(legs, top) * (next - top)
  BY <1>2, <1>4, <1>5, <1>6, CurveRises
<1>8. Slope(legs, top) * (next - top) = Slope(legs, top)
  <2>1. next - top = 1
    BY <1>4, <1>5
  <2> QED
    BY <1>7, <2>1
<1>9. SlopeAbove(total, top) = (TerminalAt(legs, next) + Fine * total.adjustment)
                               - (TerminalAt(legs, top) + Fine * total.adjustment)
  BY <1>1, <1>5 DEF SlopeAbove, SettledAt
<1>10. SlopeAbove(total, top) = Slope(legs, top)
  <2>1. PICK by \in Int : by = Fine * total.adjustment
    BY FineIs
  <2> QED
    BY <1>7, <1>8, <1>9, <2>1
<1> QED
  BY <1>1, <1>3, <1>4, <1>7, <1>10

\* What is computed from the curve is what the curve is.
LEMMA FiguresAre ==
  ASSUME NEW total, NEW legs, legs = total.legs, AllSettle(legs), NEW by \in Int, by = Fine * total.adjustment,
         total.adjustment \in Int, NEW spot \in Int, spot > 0,
         NEW slope, slope = SlopeAbove(total, Max({Fine * spot} \cup Strikes(total))),
         InReach(total, spot, slope),
         NEW stats, stats = StrategyStats(PriceCurve(legs, spot, WideRange), legs, by)
  PROVE  AreExtremes(stats, {SettledAt(total, price) : price \in {0} \cup Strikes(total)}, slope)
<1>1. PICK base \in Int : base = Fine * spot /\ base > 0
  BY FineIs
<1>2. Strikes(total) = Turning(legs)
  BY DEF Strikes, Turning, Bend
<1>3. PICK top : top = Max({base} \cup Strikes(total))
  OBVIOUS
<1>4. /\ top \in Int /\ top > 0 /\ \A k \in Turning(legs) : k <= top
      /\ slope \in Int /\ slope = Slope(legs, top)
  BY <1>1, <1>3, SlopeIs
<1>5. PICK D : D = CurvePrices(legs, spot, WideRange)
  OBVIOUS
<1>6. PICK first, second, before, last \in D :
        /\ D \subseteq Nat /\ Turning(legs) \subseteq D
        /\ first = Min(D) /\ second = After(D, first) /\ last = Max(D) /\ before = Before(D, last)
        /\ first < second /\ last - before = Gap(spot, WideRange) /\ base <= before
        /\ \A k \in Turning(legs) : first < k /\ second <= k /\ k <= before
  <2>1. \A k \in Turning(legs) :
          LowEnd(spot, WideRange) <= k
            /\ k < LowEnd(spot, WideRange) + (GridSteps - 1) * Gap(spot, WideRange)
    BY <1>2 DEF InReach
  <2> QED
    BY <1>1, <1>5, <2>1, CurvePoints
<1>7. /\ first \in Int /\ second \in Int /\ before \in Int /\ last \in Int
      /\ 0 <= first /\ 0 < before
  BY <1>1, <1>6
<1>8. PICK wide : wide = PriceCurve(legs, spot, WideRange)
  OBVIOUS
<1>9. DOMAIN wide = D /\ \A p \in D : wide[p] = TerminalAt(legs, p) /\ wide[p] \in Int
  <2>1. wide = [p \in D |-> TerminalAt(legs, p)]
    BY <1>5, <1>8 DEF PriceCurve
  <2>2. \A p \in D : TerminalAt(legs, p) \in Int
    <3>1. TAKE p \in D
    <3>2. p \in Int /\ p <= p /\ \A k \in Turning(legs) : k <= p \/ p <= k
      BY <1>6, StrikesAre
    <3> QED
      BY <3>2, CurveRises
  <2> QED
    BY <2>1, <2>2
<1>10. PICK zero \in Int : zero = TerminalAt(legs, 0)
  <2>1. 0 \in Int /\ 0 <= 0 /\ \A k \in Turning(legs) : k <= 0 \/ 0 <= k
    BY StrikesAre
  <2> QED
    BY <2>1, CurveRises
<1>11. wide[first] - ((wide[second] - wide[first]) \div (second - first)) * first = zero
  <2>1. PICK s : s = Slope(legs, first)
    OBVIOUS
  <2>2. wide[second] = wide[first] + s * (second - first) /\ s \in Int
    <3>1. \A k \in Turning(legs) : k <= first \/ second <= k
      BY <1>6
    <3>2. first <= second
      BY <1>6, <1>7
    <3>3. TerminalAt(legs, second) = TerminalAt(legs, first) + s * (second - first) /\ s \in Int
      BY <1>7, <2>1, <3>1, <3>2, CurveRises
    <3> QED
      BY <1>6, <1>9, <3>3
  <2>3. wide[first] = zero + s * first
    <3>1. \A k \in Turning(legs) : k <= 0 \/ first <= k
      BY <1>6, <1>7, StrikesAre
    <3>2. TerminalAt(legs, first) = TerminalAt(legs, 0) + Slope(legs, 0) * (first - 0)
      BY <1>7, <3>1, CurveRises
    <3>3. Slope(legs, 0) = s
      <4>1. \A k \in Turning(legs) : k <= 0 <=> k <= first
        BY <1>6, <1>7, StrikesAre
      <4> QED
        BY <1>7, <2>1, <4>1, SlopeStays
    <3>4. first - 0 = first
      BY <1>7
    <3> QED
      BY <1>6, <1>9, <1>10, <3>2, <3>3, <3>4
  <2>4. PICK d \in Int : d = second - first /\ d > 0
    BY <1>6, <1>7
  <2>5. (s * d) \div d = s
    BY <2>2, <2>4, Whole
  <2>6. s * d \in Int /\ s * first \in Int
    BY <1>7, <2>2, <2>4
  <2>7. wide[second] - wide[first] = s * d
    BY <1>6, <1>9, <2>2, <2>4, <2>6
  <2>8. (wide[second] - wide[first]) \div (second - first) = s
    BY <2>4, <2>5, <2>7
  <2> QED
    BY <1>6, <1>9, <2>3, <2>6, <2>8
<1>12. PICK rising : rising = wide[last] - wide[before]
  OBVIOUS
<1>13. PICK gap \in Nat : gap = last - before /\ gap = Gap(spot, WideRange) /\ gap > 0
  <2>1. Gap(spot, WideRange) = 190 * spot
    BY GridIs
  <2> QED
    BY <1>6, <2>1
<1>14. rising = slope * gap
  <2>1. Slope(legs, before) = slope
    <3>1. \A k \in Turning(legs) : k <= before <=> k <= top
      BY <1>4, <1>6
    <3> QED
      BY <1>4, <1>7, <3>1, SlopeStays
  <2>2. \A k \in Turning(legs) : k <= before \/ last <= k
    BY <1>6
  <2>3. before <= last
    BY <1>7, <1>13
  <2>4. TerminalAt(legs, last) = TerminalAt(legs, before) + slope * (last - before)
    BY <1>7, <2>1, <2>2, <2>3, CurveRises
  <2>5. slope * gap \in Int
    BY <1>4
  <2> QED
    BY <1>6, <1>9, <1>12, <1>13, <2>4, <2>5
<1>16. PICK tolerance \in Int : tolerance = Tolerance(legs) /\ tolerance >= 1
  BY ToleranceIs
<1>17. slope # 0 => Max({slope, -slope}) * gap > tolerance
  BY <1>13, <1>16 DEF InReach
<1>18. (rising < -tolerance) = (slope < 0) /\ (rising > tolerance) = (slope > 0)
  <2>1. Max({slope, -slope}) = IF slope >= -slope THEN slope ELSE -slope
    <3>1. slope \in Int /\ -slope \in Int
      BY <1>4
    <3> QED
      BY <3>1, MaxOfTwo
  <2>2. slope * gap \in Int /\ (-slope) * gap = -(slope * gap)
    BY <1>4
  <2>3. CASE slope > 0
    <3>1. slope * gap > tolerance
      BY <1>4, <1>17, <2>1, <2>3
    <3>2. rising > tolerance /\ ~(rising < -tolerance)
      BY <1>14, <1>16, <2>2, <3>1
    <3> QED
      BY <1>4, <2>3, <3>2
  <2>4. CASE slope < 0
    <3>1. (-slope) * gap > tolerance
      BY <1>4, <1>17, <2>1, <2>4
    <3>2. rising < -tolerance /\ ~(rising > tolerance)
      BY <1>14, <1>16, <2>2, <3>1
    <3> QED
      BY <1>4, <2>4, <3>2
  <2>5. CASE slope = 0
    <3>1. slope * gap = 0
      BY <2>5
    <3>2. rising = 0
      BY <1>14, <3>1
    <3> QED
      BY <1>16, <2>5, <3>2
  <2> QED
    BY <1>4, <2>3, <2>4, <2>5
<1>19. PICK values : values = {wide[p] + by : p \in D} \cup {zero + by}
  OBVIOUS
<1>20. /\ stats.uncappedDownside = (rising < -tolerance) /\ stats.uncappedUpside = (rising > tolerance)
       /\ stats.maxLoss = Min(values) /\ stats.maxProfit = Max(values)
  <2> DEFINE f == Min(DOMAIN wide)
             s == After(DOMAIN wide, f)
             v == {wide[p] + by : p \in DOMAIN wide} \cup {wide[f] - ((wide[s] - wide[f]) \div (s - f)) * f + by}
             r == wide[Max(DOMAIN wide)] - wide[Before(DOMAIN wide, Max(DOMAIN wide))]
  <2>1. stats = [maxProfit |-> Max(v), maxLoss |-> Min(v),
                 uncappedUpside |-> r > Tolerance(legs), uncappedDownside |-> r < -Tolerance(legs)]
    BY <1>8 DEF StrategyStats
  <2>2. f = first /\ s = second /\ r = rising
    BY <1>6, <1>9, <1>12
  <2>3. v = values
    BY <1>9, <1>11, <1>19, <2>2
  <2> HIDE DEF v, r
  <2> QED
    BY <1>16, <2>1, <2>2, <2>3
<1>21. PICK ends : ends = {0} \cup Turning(legs)
  OBVIOUS
<1>22. PICK turns : turns = {SettledAt(total, price) : price \in ends}
  OBVIOUS
<1>23. \A t \in ends : t \in Nat /\ (t = 0 \/ t \in D) /\ TerminalAt(legs, t) \in Int /\ TerminalAt(legs, t) + by \in turns
  <2>1. TAKE t \in ends
  <2>2. t = 0 \/ t \in D
    BY <1>6, <1>21
  <2>3. t \in Nat /\ TerminalAt(legs, t) \in Int
    <3>1. CASE t = 0
      BY <1>10, <3>1
    <3>2. CASE t \in D
      BY <1>6, <1>9, <3>2
    <3> QED
      BY <2>2, <3>1, <3>2
  <2>4. SettledAt(total, t) = TerminalAt(legs, t) + by
    BY DEF SettledAt
  <2> QED
    BY <1>22, <2>2, <2>3, <2>4
<1>24. /\ turns \subseteq Int /\ turns # {} /\ IsFiniteSet(turns) /\ turns \subseteq values
  <2>1. PICK f : f = [t \in ends |-> SettledAt(total, t)]
    OBVIOUS
  <2>2. IsFiniteSet(ends)
    <3>1. IsFiniteSet(Turning(legs)) /\ IsFiniteSet({0})
      BY StrikesAre, FS_Singleton
    <3> QED
      BY <1>21, <3>1, FS_Union
  <2>3. turns = {f[t] : t \in ends}
    BY <1>22, <2>1
  <2>4. IsFiniteSet(turns)
    BY <2>2, <2>3, ImageIsFinite
  <2>5. \A v \in turns : v \in Int /\ v \in values
    <3>1. TAKE v \in turns
    <3>2. PICK t \in ends : v = SettledAt(total, t)
      BY <1>22
    <3>3. v = TerminalAt(legs, t) + by
      BY <3>2 DEF SettledAt
    <3>4. v \in Int
      BY <1>23, <3>3
    <3>5. CASE t = 0
      BY <1>10, <1>19, <3>3, <3>5
    <3>6. CASE t \in D
      BY <1>9, <1>19, <3>3, <3>6
    <3> QED
      BY <1>23, <3>4, <3>5, <3>6
  <2>6. 0 \in ends
    BY <1>21
  <2> QED
    BY <1>22, <2>4, <2>5, <2>6
<1>25. \A v \in values : \E p \in Nat : v = TerminalAt(legs, p) + by /\ TerminalAt(legs, p) \in Int
  <2>1. TAKE v \in values
  <2>2. CASE v = zero + by
    BY <1>10, <2>2
  <2>3. CASE v \in {wide[p] + by : p \in D}
    BY <1>6, <1>9, <2>3
  <2> QED
    BY <1>19, <2>2, <2>3
<1>26. values \subseteq Int
  BY <1>25
<1>e. top \in Int /\ (\A k \in Turning(legs) : k <= top) /\ top >= 0 /\ slope = Slope(legs, top)
  BY <1>4
<1>27. slope >= 0 => \A v \in values : \E t \in turns : t <= v
  <2> SUFFICES ASSUME slope >= 0, NEW v \in values PROVE \E t \in turns : t <= v
    OBVIOUS
  <2>1. PICK p \in Nat : v = TerminalAt(legs, p) + by /\ TerminalAt(legs, p) \in Int
    BY <1>25
  <2>2. PICK t \in ends : TerminalAt(legs, t) <= TerminalAt(legs, p)
    <3>1. Slope(legs, top) >= 0 => \E t \in ends : TerminalAt(legs, t) <= TerminalAt(legs, p)
      BY <1>e, <1>21, Extremes
    <3> QED
      BY <1>e, <3>1
  <2> QED
    BY <1>23, <2>1, <2>2
<1>28. slope <= 0 => \A v \in values : \E t \in turns : v <= t
  <2> SUFFICES ASSUME slope <= 0, NEW v \in values PROVE \E t \in turns : v <= t
    OBVIOUS
  <2>1. PICK p \in Nat : v = TerminalAt(legs, p) + by /\ TerminalAt(legs, p) \in Int
    BY <1>25
  <2>2. PICK t \in ends : TerminalAt(legs, p) <= TerminalAt(legs, t)
    <3>1. Slope(legs, top) <= 0 => \E t \in ends : TerminalAt(legs, p) <= TerminalAt(legs, t)
      BY <1>e, <1>21, Extremes
    <3> QED
      BY <1>e, <3>1
  <2> QED
    BY <1>23, <2>1, <2>2
<1>29. slope >= 0 => Min(values) = Min(turns)
  BY <1>24, <1>26, <1>27, SameExtreme
<1>30. slope <= 0 => Max(values) = Max(turns)
  BY <1>24, <1>26, <1>28, SameExtreme
<1>31. AreExtremes(stats, turns, slope)
  BY <1>18, <1>20, <1>29, <1>30 DEF AreExtremes
<1> QED
  BY <1>2, <1>21, <1>22, <1>31

\* A sum of less is no more.
LEMMA TotalOfLess ==
  ASSUME NEW S, IsFiniteSet(S), NEW f, NEW g,
         \A x \in S : f[x] \in Int /\ g[x] \in Int /\ f[x] <= g[x]
  PROVE  Total(f, S) \in Int /\ Total(g, S) \in Int /\ Total(f, S) <= Total(g, S)
<1>1. PICK h : h = [x \in S |-> g[x] - f[x]]
  OBVIOUS
<1>2. \A x \in S : h[x] \in Int /\ h[x] >= 0 /\ g[x] = f[x] + h[x]
  BY <1>1
<1>3. Total(h, S) >= 0
  BY <1>2, TotalOfGains
<1>4. Total(g, S) = Total(f, S) + Total(h, S)
  BY <1>2, TotalOfSums
<1>5. Total(f, S) \in Int
  BY TotalRemove
<1>6. Total(h, S) \in Int
  BY <1>2, TotalRemove
<1> QED
  BY <1>3, <1>4, <1>5, <1>6

\* A slope above the last strike that falls is of the stocks and the calls: what
\* the warning adds up is no more.
LEMMA FallingIsWarned ==
  ASSUME NEW all, NEW key, NEW legs, legs = LegsOf(all, key), AllSettle(legs),
         NEW top \in Int, \A k \in Turning(legs) : k <= top, Slope(legs, top) < 0
  PROVE  key \in UpsideRisks(all)
<1>1. PICK rise : rise = [l \in legs |-> Rise(l, top)]
  OBVIOUS
<1>2. PICK stocks : stocks = {k \in legs : ~IsOption(k)}
  OBVIOUS
<1>3. PICK calls : calls = {k \in legs : IsOption(k) /\ k.position.right = "C"}
  OBVIOUS
<1>4. PICK puts : puts = legs \ (stocks \cup calls)
  OBVIOUS
<1>5. PICK expiries : expiries = {l.position.expiry : l \in calls}
  OBVIOUS
<1>6. IsFiniteSet(legs) /\ \A l \in legs : Settles(l)
  BY DEF AllSettle
<1>7. \A l \in legs : rise[l] \in Int
  BY <1>1, <1>6 DEF Rise, Settles
<1>8. \A l \in stocks : rise[l] = l.quantity
  BY <1>1, <1>2 DEF Rise
<1>9. \A l \in calls : rise[l] = l.quantity * l.multiplier
  <2>1. TAKE l \in calls
  <2>2. Bend(l) <= top
    BY <1>3 DEF Turning
  <2> QED
    BY <1>1, <1>3, <2>2 DEF Rise
<1>10. \A l \in puts : rise[l] = 0
  <2>1. TAKE l \in puts
  <2>2. l \in legs /\ IsOption(l) /\ l.position.right # "C"
    BY <1>2, <1>3, <1>4
  <2>3. Bend(l) <= top /\ Bend(l) \in Int
    BY <1>6, <2>2, FineIs DEF Turning, Settles, Bend
  <2> QED
    BY <1>1, <2>2, <2>3 DEF Rise
<1>11. Slope(legs, top) = Total(rise, stocks) + Total(rise, calls)
  <2>1. Total(rise, (stocks \cup calls) \cup puts) = Total(rise, stocks \cup calls) + Total(rise, puts)
    <3>1. stocks \cup calls \in SUBSET legs /\ puts \in SUBSET legs /\ (stocks \cup calls) \cap puts = {}
      BY <1>2, <1>3, <1>4
    <3> QED
      BY <1>6, <1>7, <3>1, TotalOfTwo
  <2>2. Total(rise, stocks \cup calls) = Total(rise, stocks) + Total(rise, calls)
    <3>1. stocks \in SUBSET legs /\ calls \in SUBSET legs /\ stocks \cap calls = {}
      BY <1>2, <1>3
    <3> QED
      BY <1>6, <1>7, <3>1, TotalOfTwo
  <2>3. Total(rise, puts) = 0
    <3>1. IsFiniteSet(puts)
      BY <1>4, <1>6, FS_Subset
    <3> QED
      BY <1>10, <3>1, TotalOfZeros
  <2>4. (stocks \cup calls) \cup puts = legs
    BY <1>2, <1>3, <1>4
  <2>5. Total(rise, stocks) \in Int /\ Total(rise, calls) \in Int
    <3>1. IsFiniteSet(stocks) /\ IsFiniteSet(calls)
      BY <1>2, <1>3, <1>6, FS_Subset
    <3>2. (\A l \in stocks : rise[l] \in Int) /\ (\A l \in calls : rise[l] \in Int)
      BY <1>2, <1>3, <1>7
    <3>3. Total(rise, stocks) \in Int
      BY <3>1, <3>2, TotalRemove
    <3>4. Total(rise, calls) \in Int
      BY <3>1, <3>2, TotalRemove
    <3> QED
      BY <3>3, <3>4
  <2>6. Slope(legs, top) = Total(rise, legs)
    BY <1>1 DEF Slope
  <2>7. Total(rise, legs) = Total(rise, stocks \cup calls) + Total(rise, puts)
    BY <2>1, <2>4, Zenon
  <2> QED
    BY <2>2, <2>3, <2>5, <2>6, <2>7
<1>12. IsFiniteSet(stocks) /\ IsFiniteSet(calls) /\ IsFiniteSet(expiries)
  <2>1. IsFiniteSet(stocks) /\ IsFiniteSet(calls)
    BY <1>2, <1>3, <1>6, FS_Subset
  <2>2. PICK f : f = [l \in calls |-> l.position.expiry]
    OBVIOUS
  <2>3. expiries = {f[l] : l \in calls}
    BY <1>5, <2>2
  <2>4. IsFiniteSet(expiries)
    BY <2>1, <2>3, ImageIsFinite
  <2> QED
    BY <2>1, <2>4
<1>13. PICK due : due = [e \in expiries |-> {k \in calls : k.position.expiry = e}]
  OBVIOUS
<1>14. PICK each : each = [e \in expiries |-> CallsAt(legs, e)]
  OBVIOUS
<1>15. \A e \in expiries : each[e] = Total(rise, due[e]) /\ each[e] \in Int
  <2>1. TAKE e \in expiries
  <2>2. PICK f : f = [l \in {k \in legs : IsOption(k) /\ k.position.right = "C" /\ k.position.expiry = e} |->
                        l.quantity * l.multiplier]
    OBVIOUS
  <2>3. DOMAIN f = due[e] /\ due[e] \subseteq calls
    BY <1>3, <1>13, <2>2
  <2>4. \A l \in DOMAIN f : f[l] = rise[l] /\ rise[l] \in Int
    <3>1. \A l \in due[e] : l \in calls /\ l \in legs
      BY <1>3, <2>3
    <3>2. \A l \in DOMAIN f : f[l] = l.quantity * l.multiplier
      BY <2>2
    <3> QED
      BY <1>7, <1>9, <2>3, <3>1, <3>2
  <2>5. IsFiniteSet(due[e])
    BY <1>12, <2>3, FS_Subset
  <2>6. SumFunction(f) = Total(rise, DOMAIN f)
    BY <2>3, <2>4, <2>5, SumIs
  <2>7. Total(rise, due[e]) \in Int
    BY <2>3, <2>4, <2>5, TotalRemove
  <2>8. CallsAt(legs, e) = SumFunction(f)
    BY <2>2 DEF CallsAt
  <2>9. each[e] = CallsAt(legs, e)
    BY <1>14
  <2> QED
    BY <2>3, <2>6, <2>7, <2>8, <2>9
<1>16. Total(each, expiries) = Total(rise, calls)
  <2>1. \A b \in expiries : due[b] \subseteq calls
    BY <1>13
  <2>2. \A b, c \in expiries : b # c => due[b] \cap due[c] = {}
    BY <1>13
  <2>3. \A l \in calls : rise[l] \in Int
    BY <1>3, <1>7
  <2>4. Total(each, expiries) = Total(rise, UNION {due[b] : b \in expiries})
    BY <1>12, <1>15, <2>1, <2>2, <2>3, TotalOfParts
  <2>5. UNION {due[b] : b \in expiries} = calls
    <3>1. \A l \in calls : l.position.expiry \in expiries /\ l \in due[l.position.expiry]
      BY <1>5, <1>13
    <3> QED
      BY <2>1, <3>1
  <2> QED
    BY <2>4, <2>5
<1>17. PICK shares : shares = [l \in stocks |-> l.quantity]
  OBVIOUS
<1>18. SumFunction(shares) = Total(rise, stocks)
  <2>1. DOMAIN shares = stocks /\ \A l \in DOMAIN shares : shares[l] = rise[l]
    BY <1>8, <1>17
  <2>2. SumFunction(shares) = Total(rise, DOMAIN shares)
    BY <1>12, <2>1, SumIs
  <2> QED
    BY <2>1, <2>2
<1>19. PICK sure : sure = [e \in expiries |-> IF Cardinality(expiries) = 1 THEN CallsAt(legs, e)
                                              ELSE Min({0, CallsAt(legs, e)})]
  OBVIOUS
<1>20. \A e \in expiries : sure[e] \in Int /\ each[e] \in Int /\ sure[e] <= each[e]
  <2>1. TAKE e \in expiries
  <2>2. each[e] \in Int /\ CallsAt(legs, e) = each[e]
    BY <1>14, <1>15
  <2>3. Min({0, each[e]}) = IF 0 <= each[e] THEN 0 ELSE each[e]
    BY <2>2, MinOfTwo
  <2>4. sure[e] = IF Cardinality(expiries) = 1 THEN each[e] ELSE Min({0, each[e]})
    BY <1>19, <2>2
  <2> QED
    BY <2>2, <2>3, <2>4
<1>21. Total(sure, expiries) \in Int /\ Total(each, expiries) \in Int /\ Total(sure, expiries) <= Total(each, expiries)
  BY <1>12, <1>20, TotalOfLess
<1>22. SumFunction(sure) = Total(sure, expiries)
  BY <1>19, SumIsTotal
<1>23. Total(rise, stocks) \in Int
  <2>1. \A l \in stocks : rise[l] \in Int
    BY <1>2, <1>7
  <2> QED
    BY <1>12, <2>1, TotalRemove
<1>24. SumFunction(shares) + SumFunction(sure) < 0
  BY <1>11, <1>16, <1>18, <1>21, <1>22, <1>23
<1>25. key \in {UnderlyingKey(l.position) : l \in all}
  <2>1. legs # {}
    <3>1. SUFFICES ASSUME legs = {} PROVE FALSE
      OBVIOUS
    <3>2. Slope(legs, top) = 0
      BY <3>1, TotalOfNone DEF Slope
    <3> QED
      BY <3>2
  <2> QED
    BY <2>1 DEF LegsOf
<1>26. expiries = {l.position.expiry : l \in {k \in legs : IsOption(k) /\ k.position.right = "C"}}
  BY <1>3, <1>5
<1> QED
  BY <1>2, <1>17, <1>19, <1>24, <1>25, <1>26 DEF UpsideRisks

\* The legs of the view of one underlying settle, and what is booked on them is
\* a number.
LEMMA TotalIsFine ==
  ASSUME LensInv, NEW t, t = Table
  PROVE  /\ AllSettle(t.total.legs) /\ t.total.legs \subseteq Modeled /\ t.total.adjustment \in Int
         /\ t.total.keys = {UnderlyingKey(l.position) : l \in t.total.legs}
<1>1. PICK lines : lines = LensRows
  OBVIOUS
<1>2. PICK focus : focus = Focus(lines)
  OBVIOUS
<1>3. PICK focused : focused = focus \cap DOMAIN lines
  OBVIOUS
<1>4. PICK booked : booked = ViewRealizedLegs(focus)
  OBVIOUS
<1>5. t.total = TotalRow(lines, focused, AllAdjustment(booked))
  BY <1>1, <1>2, <1>3, <1>4 DEF Table, TableWith, TableOn, TableOf
<1>6. RealizedLegs \subseteq Booked /\ ViewedRealized \subseteq RealizedLegs /\ booked \subseteq Booked
  BY <1>4 DEF RealizedLegs, ViewedRealized, ViewRealizedLegs
<1>7. Viewed \subseteq Modeled
  BY DEF Viewed
<1>8. /\ t.total.legs \subseteq Viewed /\ t.total.adjustment \in Int
      /\ t.total.keys = {UnderlyingKey(l.position) : l \in t.total.legs}
  <2>1. CASE focused = {}
    <3>1. AllAdjustment(booked) \in Int
      BY <1>6, BookedLegs
    <3>2. t.total = TotalOf(Shift(CurvesOf(Viewed), AllAdjustment(booked)), AllAdjustment(booked))
      BY <1>5, <2>1 DEF TotalRow
    <3> QED
      BY <3>1, <3>2 DEF TotalOf
  <2>2. CASE focused # {}
    <3>1. PICK id : id = Default(focused, 0)
      OBVIOUS
    <3>2. id \in DOMAIN LensRows /\ t.total = LensRows[id]
      BY <1>1, <1>3, <1>5, <2>2, <3>1, DefaultIs DEF TotalRow
    <3>3. PICK own : own = {l \in ViewedRealized : RealizedGroupKey(lens, l) = id}
      OBVIOUS
    <3>4. t.total.adjustment = AllAdjustment(own)
      BY <3>2, <3>3, RowOfGroup
    <3>5. AllAdjustment(own) \in Int
      BY <1>6, <3>3, BookedLegs
    <3>6. PICK group : group = {l \in Viewed : GroupKey(lens, l) = id}
      OBVIOUS
    <3>7. LensRows[id].legs = group /\ LensRows[id].keys = {UnderlyingKey(l.position) : l \in group}
      <4>1. id \in {GroupKey(lens, l) : l \in Viewed}
        BY <3>2 DEF LensRows, BuildRows
      <4> QED
        BY <3>6, <4>1 DEF LensRows, BuildRows
    <3> QED
      BY <3>2, <3>4, <3>5, <3>6, <3>7
  <2> QED
    BY <2>1, <2>2
<1>9. IsFiniteSet(Legs) /\ Modeled \subseteq Legs /\ \A l \in Legs : LegOf(l, today)
  BY BookFields DEF LensInv
<1>10. today \in Nat
  BY DEF LensInv, PanelInv
<1>11. \A l \in Legs : Settles(l)
  BY <1>9, <1>10, LegSettles
<1>12. AllSettle(t.total.legs)
  <2>1. t.total.legs \subseteq Legs
    BY <1>7, <1>8, <1>9
  <2> QED
    BY <1>9, <1>11, <2>1, FS_Subset DEF AllSettle
<1> QED
  BY <1>7, <1>8, <1>12

\* So within its reach the panel shows the extremes, and warns.
LEMMA StatsDoReach == LensInv => StatsInReach
<1> SUFFICES ASSUME LensInv PROVE StatsInReach
  OBVIOUS
<1>1. SUFFICES ASSUME NEW t, t = Table, Cardinality(t.total.keys) = 1, NEW key \in t.total.keys,
                      NEW spot, spot = Default(Assumptions[key].spot, 0),
                      NEW slope, slope = SlopeAbove(t.total, Max({Fine * spot} \cup Strikes(t.total))),
                      InReach(t.total, spot, slope)
               PROVE  /\ StatsOf(t.total, key, spot)
                      /\ t.total.legs = LegsOf(Modeled, key) =>
                           (Strategy(t.total.legs, key, spot, Fine * t.total.adjustment).uncappedDownside
                              => key \in UpsideRisks(Modeled))
  BY DEF StatsInReach
<1>2. PICK total : total = t.total
  OBVIOUS
<1>3. PICK legs : legs = total.legs
  OBVIOUS
<1>4. PICK by : by = Fine * total.adjustment
  OBVIOUS
<1>5. /\ AllSettle(legs) /\ legs \subseteq Modeled /\ total.adjustment \in Int /\ by \in Int
      /\ total.keys = {UnderlyingKey(l.position) : l \in legs}
  BY <1>1, <1>2, <1>3, <1>4, TotalIsFine, FineIs
<1>6. spot \in Int /\ spot > 0
  <2>1. key \in PricedKeys
    BY <1>1, <1>2, <1>5 DEF Modeled
  <2>2. PICK s \in Int : s > 0 /\ Assumptions[key].spot = {s}
    BY <2>1, KeyIs DEF LensInv
  <2> QED
    BY <1>1, <2>2, DefaultIs
<1>7. LegsOf(legs, key) = legs
  <2>1. total.keys = {key}
    <3>1. Cardinality({key}) = 1 /\ IsFiniteSet({key})
      BY FS_Singleton
    <3>2. PICK k : total.keys = {k}
      <4>1. IsFiniteSet(total.keys)
        <5>1. PICK f : f = [l \in legs |-> UnderlyingKey(l.position)]
          OBVIOUS
        <5>2. total.keys = {f[l] : l \in legs}
          BY <1>5, <5>1
        <5>3. IsFiniteSet(legs)
          BY <1>5 DEF AllSettle
        <5> QED
          BY <5>2, <5>3, ImageIsFinite
      <4> QED
        BY <1>1, <1>2, <4>1, FS_Singleton
    <3> QED
      BY <1>1, <1>2, <3>2
  <2> QED
    BY <1>5, <2>1 DEF LegsOf
<1>9. PICK stats : stats = Strategy(legs, key, spot, by)
  OBVIOUS
<1>10. stats = StrategyStats(PriceCurve(legs, spot, WideRange), legs, by)
  BY <1>7, <1>9 DEF Strategy
<1>11. AreExtremes(stats, {SettledAt(total, price) : price \in {0} \cup Strikes(total)}, slope)
  <2>1. slope = SlopeAbove(total, Max({Fine * spot} \cup Strikes(total))) /\ InReach(total, spot, slope)
    BY <1>1, <1>2
  <2> QED
    BY <1>3, <1>4, <1>5, <1>6, <1>10, <2>1, FiguresAre
<1>12. StatsOf(total, key, spot)
  BY <1>1, <1>2, <1>3, <1>4, <1>9, <1>11 DEF StatsOf
<1>13. ASSUME legs = LegsOf(Modeled, key), stats.uncappedDownside PROVE key \in UpsideRisks(Modeled)
  <2>1. PICK top : top = Max({Fine * spot} \cup Strikes(total))
    OBVIOUS
  <2>2. top \in Int /\ (\A k \in Turning(legs) : k <= top) /\ slope = Slope(legs, top)
    BY <1>1, <1>2, <1>3, <1>4, <1>5, <1>6, <2>1, SlopeIs
  <2>3. slope < 0
    BY <1>11, <1>13 DEF AreExtremes
  <2> QED
    BY <1>5, <1>13, <2>2, <2>3, FallingIsWarned
<1> QED
  BY <1>2, <1>3, <1>4, <1>9, <1>12, <1>13

\* Of one underlying whose strikes lie inside the range looked at, below the
\* last but one of its 240 samples, and whose slope changes the figures by more
\* than is taken for rounding over the gap between the last two, "Max loss" and
\* "Max profit" are the extremes of the settlement at every price from zero up,
\* Uncapped is shown exactly where there is none, and an uncapped loss is in the
\* warning (strategyStats and upsideRisks of payoff.ts).
THEOREM StatsHold == RiskSpec => []StatsInReach
  BY StatsDoReach, LensStart, LensStep, PTL DEF RiskSpec

-----------------------------------------------------------------------------

\* The parts of the run share no state: each of its behaviours is one of every
\* part, and what is proved of a part holds of it.
THEOREM FiguresHold ==
  Spec => [](/\ SignIsKept /\ TickedIsShown /\ EstimateMeetsMark /\ TableAddsUp
             /\ StatsInReach /\ FillsPartition /\ PnlAddsUp /\ TableShowsAll)
<1>1. Init => RiskInit /\ ExecInit /\ PnlInit /\ HoursInit
  BY DEF Init
<1>2. [Next]_<<panel, riskVars, execVars, pnlVars, hoursVars>>
        => [RiskNext]_riskVars /\ [ExecNext]_execVars /\ [PnlNext]_pnlVars /\ [HoursNext]_hoursVars
  BY DEF Next
<1>3. Spec => RiskSpec /\ ExecSpec /\ PnlSpec /\ HoursSpec
  BY <1>1, <1>2, PTL DEF Spec, RiskSpec, ExecSpec, PnlSpec, HoursSpec
<1> QED
  BY <1>3, SignHolds, TickedHolds, EstimateHolds, LinesSumUp, StatsHold, FillsHold, PnlHolds, TableHolds, PTL
=============================================================================
