----------------------------- MODULE AlertBell ------------------------------
(***************************************************************************)
(* The bell of the dashboard: frontend/components/alert-bell.tsx with the  *)
(* alert.raised branch of lib/live.ts and GET /alerts behind its feed.     *)
(*                                                                         *)
(* Alerts are numbered as they are raised; alert a is stamped 2a.  `stream'*)
(* is the last one streamed, `durable' the last one the consumer has put   *)
(* into MongoDB, `heard' how far the socket has come.  `line' is down,     *)
(* accepted (what passes is sent to nobody), subscribed or up.  `feed' is  *)
(* the query of the rows, newest first.  `overtaken' says that the answer  *)
(* last shown lacks what had passed before it, `strayed' that one ever did *)
(* or that more alerts were late than fit and newer rows made way for them.*)
(***************************************************************************)
EXTENDS QueryCache, Sequences, FiniteSetsExt, SequencesExt

CONSTANTS
  AnswerLimit,   \* how many alerts an answer holds
  KeepLimit,     \* and how many rows are kept
  MaxRaised, MaxLineFaults   \* bounds
ASSUME BellAssumption ==
  /\ {AnswerLimit, KeepLimit} \subseteq Nat \ {0} /\ AnswerLimit <= KeepLimit
  /\ {MaxRaised, MaxLineFaults} \subseteq Nat

VARIABLES stream, durable, heard, line, feed, overtaken, strayed,
          bellOpen, sound, seen, newest, primed, lineFaults,
          backlog,   \* what had been raised when the dashboard was opened
          looked,    \* what was on the screen when the bell was opened
          rung       \* what the bell has rung for
bellVars == <<stream, durable, heard, line, feed, overtaken, strayed, bellOpen, sound, seen,
              newest, primed, lineFaults, backlog, looked, rung>>

Stamp(alert) == 2 * alert
Unread == {alert \in ToSet(feed.data) : Stamp(alert) > seen}
\* The last alerts, newest first.
Latest(n) == [i \in 1..Min({n, AnswerLimit}) |-> n + 1 - i]

BellInit ==
  /\ stream \in 0..1 /\ durable = stream /\ heard = stream /\ line = "down" /\ feed = NewQuery
  /\ overtaken = FALSE /\ strayed = FALSE /\ bellOpen = FALSE /\ sound \in BOOLEAN
  /\ seen = 0 /\ newest = 0 /\ primed = FALSE /\ lineFaults = 0
  /\ backlog = stream /\ looked = {} /\ rung = {}

\* Mutant: the first rows shown count as news.
RingsUnprimed ==
  IF feed'.data = Nothing \/ Head(feed'.data) = newest THEN UNCHANGED <<primed, newest, rung>>
  ELSE /\ primed' = TRUE /\ newest' = Head(feed'.data)
       /\ rung' = IF sound' /\ Stamp(newest') > seen' THEN rung \cup {newest'} ELSE rung
\* The effect of every render: a new alert on top rings, but for the first.
Rings ==
  IF feed'.data = Nothing \/ (primed /\ Head(feed'.data) = newest)
  THEN UNCHANGED <<primed, newest, rung>>
  ELSE /\ primed' = TRUE /\ newest' = Head(feed'.data)
       /\ rung' = IF primed /\ sound' /\ Stamp(newest') > seen' THEN rung \cup {newest'} ELSE rung
Bell == <<bellOpen, sound, seen, looked>>
BellPast == <<lineFaults, backlog>>

-----------------------------------------------------------------------------
\* An alert is streamed; the durable consumer writes it down later.
Raised ==
  /\ stream < MaxRaised /\ stream' = stream + 1
  /\ UNCHANGED <<durable, heard, line, feed, overtaken, strayed, newest, primed, rung, Bell, BellPast>>
WrittenDown ==
  /\ durable < stream /\ durable' = durable + 1
  /\ UNCHANGED <<stream, heard, line, feed, overtaken, strayed, newest, primed, rung, Bell, BellPast>>

\* The socket starts at the end of the stream and follows it.
LineAccepted ==
  /\ line = "down" /\ line' = "accepted" /\ heard' = stream
  /\ UNCHANGED <<stream, durable, feed, overtaken, strayed, newest, primed, rung, Bell, BellPast>>
Unheard ==
  /\ line = "accepted" /\ heard < stream /\ heard' = heard + 1
  /\ UNCHANGED <<stream, durable, line, feed, overtaken, strayed, newest, primed, rung, Bell, BellPast>>
LineSubscribed ==
  /\ line = "accepted" /\ line' = "subscribed"
  /\ UNCHANGED <<stream, durable, heard, feed, overtaken, strayed, newest, primed, rung, Bell, BellPast>>
\* Mutant: the feed is not fetched again.
LineUpOnly ==
  /\ line = "subscribed" /\ line' = "up"
  /\ UNCHANGED <<stream, durable, heard, feed, overtaken, strayed, newest, primed, rung, Bell, BellPast>>
LineUp ==
  /\ line = "subscribed" /\ line' = "up" /\ feed' = Invalidated(feed)
  /\ UNCHANGED <<stream, durable, heard, overtaken, strayed, newest, primed, rung, Bell, BellPast>>
LineDown ==
  /\ line # "down" /\ line' = "down" /\ lineFaults < MaxLineFaults /\ lineFaults' = lineFaults + 1
  /\ UNCHANGED <<stream, durable, heard, feed, overtaken, strayed, newest, primed, rung, Bell, backlog>>

\* What is heard goes on top; where it was among the rows, they close up.
Kept(rows, alert) ==
  LET listed == alert \in ToSet(rows)
      at == IF listed THEN CHOOSE i \in DOMAIN rows : rows[i] = alert ELSE Len(rows) + 1
      length == IF listed THEN Len(rows) ELSE Len(rows) + 1
  IN [i \in 1..Min({length, KeepLimit}) |->
        IF i = 1 THEN alert ELSE IF i <= at THEN rows[i - 1] ELSE rows[i]]
\* An alert that is heard goes on top, also before the first answer.
Hear ==
  /\ line \in {"subscribed", "up"} /\ heard < stream /\ heard' = heard + 1
  /\ feed' = [Updated(feed, Kept(feed.data, heard')) EXCEPT !.loaded = TRUE]
  /\ strayed' = (strayed \/ \E row \in ToSet(feed.data) \ ToSet(feed'.data) : row > heard')
  /\ UNCHANGED <<stream, durable, line, overtaken, Bell, BellPast>> /\ Rings

FeedRead ==
  /\ feed.fetch = "asked" /\ feed' = AnsweredWith(feed, Latest(durable))
  /\ UNCHANGED <<stream, durable, heard, line, overtaken, strayed, newest, primed, rung, Bell, BellPast>>
FeedArrives ==
  /\ feed.fetch = "answered" /\ feed' = Arrived(feed)
  /\ overtaken' = (heard > Max({0} \cup ToSet(feed.answer))) /\ strayed' = (strayed \/ overtaken')
  /\ UNCHANGED <<stream, durable, heard, line, Bell, BellPast>> /\ Rings
FeedFails ==
  /\ ~NotFetching(feed) /\ lineFaults < MaxLineFaults /\ lineFaults' = lineFaults + 1
  /\ feed' = Failed(feed) /\ overtaken' = (overtaken \/ NotFetching(feed'))
  /\ UNCHANGED <<stream, durable, heard, line, strayed, newest, primed, rung, Bell, backlog>>

\* Up to the newest row, which need not be the top one; up to now without rows.
MarkSeen ==
  /\ seen' = IF feed.data = Nothing THEN Stamp(stream) + 1 ELSE Stamp(Max(ToSet(feed.data)))
  /\ looked' = looked \cup ToSet(feed.data)
Backdrop == <<stream, durable, heard, line, feed, overtaken, strayed, BellPast>>
PressBell ==
  /\ bellOpen' = ~bellOpen
  /\ IF bellOpen THEN UNCHANGED <<seen, looked>> ELSE MarkSeen
  /\ UNCHANGED <<Backdrop, sound>> /\ Rings
ClickAway ==
  /\ bellOpen /\ bellOpen' = FALSE /\ UNCHANGED <<Backdrop, sound, seen, looked, newest, primed, rung>>
ToggleSound ==
  /\ bellOpen /\ sound' = ~sound /\ UNCHANGED <<Backdrop, bellOpen, seen, looked>> /\ Rings

BellNext ==
  \/ Raised \/ WrittenDown \/ LineAccepted \/ Unheard \/ LineSubscribed \/ LineUp \/ LineDown \/ Hear
  \/ FeedRead \/ FeedArrives \/ FeedFails \/ PressBell \/ ClickAway \/ ToggleSound
BellSpec == BellInit /\ [][BellNext]_bellVars

-----------------------------------------------------------------------------
\* The types of the bell's state; no alert is listed twice.
BellTypeOK ==
  /\ durable \in 0..stream /\ heard \in 0..stream /\ line \in {"down", "accepted", "subscribed", "up"}
  /\ Len(feed.data) <= KeepLimit /\ IsInjective(feed.data) /\ ToSet(feed.data) \subseteq 1..stream
  /\ {bellOpen, sound, primed, overtaken, strayed} \subseteq BOOLEAN /\ seen \in 0..(2 * stream + 1)

\* When nothing is on its way the bell shows the last alerts, newest first,
\* whatever was missed while the line was down and whichever of the answers
\* and the events came first, unless the answer had been read before an event
\* it came after, or failed twice (live.ts 14-18 and 176-182).
BellSettles ==
  line = "up" /\ heard = stream /\ NotFetching(feed) /\ ~overtaken =>
    SubSeq(feed.data, 1, Min({Len(feed.data), AnswerLimit})) = Latest(stream)

\* What the member has had before is not brought up again, in whatever order
\* the rows come: what was on the screen when the bell was opened does not
\* count as unread (markSeen, 124-131), and what was raised before the
\* dashboard was opened does not ring (primed, 98-110).
OldIsQuiet ==
  ~strayed => looked \cap Unread = {} /\ \A alert \in rung : alert > backlog
=============================================================================
