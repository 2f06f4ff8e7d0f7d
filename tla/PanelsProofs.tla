---------------------------- MODULE PanelsProofs ----------------------------
(***************************************************************************)
(* Proofs about the frame of the dashboard, the alert bell and the rows on *)
(* the screen, and about the panels together (those of RequestProofs among *)
(* them).  The parts share no state and their proofs are independent; they *)
(* are in one module because the last part needs them all.                 *)
(***************************************************************************)
EXTENDS MCPanels, RequestProofs, SequenceTheorems, WellFoundedInduction

(***************************************************************************)
(* The frame.  Nothing is assumed of how often its effect runs: one        *)
(* connector at most was not stopped, and the one that LIVE is shown of    *)
(* was acknowledged and has not closed yet.                                *)
(***************************************************************************)
\* A connector is a record of its three fields (an EXCEPT changes its stage).
Connector(c) == c = [n |-> c.n, of |-> c.of, stage |-> c.stage]
Shaped == \A c \in connectors : Connector(c)
\* One connector at most was not stopped.
Alone == \A c, d \in Running : c = d
\* LIVE is owed to a socket that was acknowledged and has not yet closed.
Owed == online => \E c \in connectors : c.stage \in {"live", "closing"}
SocketInv == Shaped /\ Alone /\ Owed
sockets == <<connectors, online>>

\* A connector that moves on is in the stage it moved to and keeps its shape.
LEMMA Moving ==
  ASSUME NEW c, Connector(c), NEW to
  PROVE  /\ Connector([c EXCEPT !.stage = to])
         /\ [c EXCEPT !.stage = to].stage = to
  <1>1. [c EXCEPT !.stage = to] = [n |-> c.n, of |-> c.of, stage |-> to]
    BY DEF Connector
  <1> QED  BY <1>1 DEF Connector

\* While one connector runs, its next stage leaves it the only one.
LEMMA BecomesAlone ==
  ASSUME SocketInv, NEW c \in connectors, c.stage # "closing", NEW to, Becomes(c, to)
  PROVE  Shaped' /\ Alone'
  <1> DEFINE moved == [c EXCEPT !.stage = to]
  <1>1. connectors' = (connectors \ {c}) \cup {moved}  BY DEF Becomes
  <1>2. Connector(moved)  BY Moving DEF SocketInv, Shaped
  <1>3. Shaped'  BY <1>1, <1>2 DEF SocketInv, Shaped, Connector
  <1>4. ASSUME NEW d \in Running'  PROVE d = moved
    <2>1. SUFFICES ASSUME d \in connectors \ {c}, d.stage # "closing"  PROVE FALSE
      BY <1>1, <1>4 DEF Running
    <2>2. c \in Running /\ d \in Running  BY <2>1 DEF Running
    <2> QED  BY <2>1, <2>2 DEF SocketInv, Alone
  <1>5. Alone'  BY <1>4 DEF Alone
  <1> QED  BY <1>3, <1>5

\* The effect stops every connector there was and starts one.
LEMMA EffectKeepsSocket ==
  ASSUME SocketInv, LiveEffect
  PROVE  SocketInv'
  <1> DEFINE new == [n |-> calls, of |-> Allowed, stage |-> "opening"]
             started == IF Allowed = {} THEN {} ELSE {new}
  <1>1. connectors' = Stopped(connectors) \cup started /\ online' = online
    BY DEF LiveEffect
  <1>2. ASSUME NEW d \in Stopped(connectors)
        PROVE  Connector(d) /\ d.stage = "closing"
    <2>1. PICK c \in connectors : d = [c EXCEPT !.stage = "closing"]
      BY <1>2 DEF Stopped
    <2> QED  BY <2>1, Moving DEF SocketInv, Shaped
  <1>3. Connector(new) /\ started \subseteq {new}  BY DEF Connector
  <1>4. Shaped'  BY <1>1, <1>2, <1>3 DEF Shaped, Connector
  <1>5. Running' \subseteq {new}  BY <1>1, <1>2, <1>3 DEF Running
  <1>6. Alone'  BY <1>5 DEF Alone
  <1>7. Owed'
    <2>1. SUFFICES ASSUME online  PROVE \E c \in connectors' : c.stage \in {"live", "closing"}
      BY <1>1 DEF Owed
    <2>2. PICK c \in connectors : c.stage \in {"live", "closing"}
      BY <2>1 DEF SocketInv, Owed
    <2>3. [c EXCEPT !.stage = "closing"] \in Stopped(connectors)
      BY <2>2 DEF Stopped
    <2> QED  BY <1>1, <1>2, <2>3
  <1> QED  BY <1>4, <1>6, <1>7 DEF SocketInv

\* Whatever a socket does, of a connector that was stopped or not.
LEMMA SocketKeepsSocket ==
  ASSUME SocketInv, NEW c \in connectors, Acknowledged(c) \/ OnClose(c) \/ Retry(c)
  PROVE  SocketInv'
  <1>1. CASE Acknowledged(c)
    <2>1. c.stage = "opening" /\ Becomes(c, "live")  BY <1>1 DEF Acknowledged
    <2>2. Shaped' /\ Alone'  BY <2>1, BecomesAlone
    <2>3. [c EXCEPT !.stage = "live"] \in connectors'  BY <2>1 DEF Becomes
    <2>4. [c EXCEPT !.stage = "live"].stage = "live"  BY Moving DEF SocketInv, Shaped
    <2>5. Owed'  BY <2>3, <2>4 DEF Owed
    <2> QED  BY <2>2, <2>5 DEF SocketInv
  <1>2. CASE OnClose(c)
    <2>1. ~online'  BY <1>2 DEF OnClose
    <2>2. CASE c.stage = "closing" /\ connectors' = connectors \ {c}
      <3>1. Shaped'  BY <2>2 DEF SocketInv, Shaped, Connector
      <3>2. Running' \subseteq Running  BY <2>2 DEF Running
      <3>3. Alone'  BY <3>2 DEF SocketInv, Alone
      <3> QED  BY <2>1, <3>1, <3>3 DEF SocketInv, Owed
    <2>3. CASE c.stage \in {"opening", "live"} /\ Becomes(c, "waiting")
      <3>1. Shaped' /\ Alone'  BY <2>3, BecomesAlone
      <3> QED  BY <2>1, <3>1 DEF SocketInv, Owed
    <2> QED  BY <1>2, <2>2, <2>3 DEF OnClose
  <1>3. CASE Retry(c)
    <2>1. c.stage = "waiting" /\ Becomes(c, "opening") /\ online' = online
      BY <1>3 DEF Retry
    <2>2. Shaped' /\ Alone'  BY <2>1, BecomesAlone
    <2>3. connectors \ {c} \subseteq connectors'  BY <2>1 DEF Becomes
    <2>4. Owed'  BY <2>1, <2>3 DEF SocketInv, Owed
    <2> QED  BY <2>2, <2>4 DEF SocketInv
  <1> QED  BY <1>1, <1>2, <1>3

\* The sockets in every reachable state.
THEOREM SocketInvariant == ShellSpec => []SocketInv
  <1>1. ShellInit => SocketInv
    BY DEF ShellInit, SocketInv, Shaped, Alone, Owed, Running
  <1>2. SocketInv /\ [ShellNext]_shellVars => SocketInv'
    <2>1. SUFFICES ASSUME SocketInv, [ShellNext]_shellVars  PROVE SocketInv'  OBVIOUS
    <2>2. CASE LiveEffect  BY <2>1, <2>2, EffectKeepsSocket
    <2>3. CASE SocketMoves  BY <2>1, <2>3, SocketKeepsSocket DEF SocketMoves
    <2>4. CASE UNCHANGED sockets
      BY <2>1, <2>4 DEF SocketInv, Shaped, Alone, Owed, Running, sockets
    <2>5. \/ LiveEffect \/ SocketMoves \/ UNCHANGED sockets
      BY <2>1 DEF ShellNext, RoleChanges, GrantsChange, MeFetched, AccountsFetched,
                  ShowView, PickCurrency, shellVars, sockets
    <2> QED  BY <2>2, <2>3, <2>4, <2>5
  <1> QED  BY <1>1, <1>2, PTL DEF ShellSpec

\* However often the accounts change and the line goes, one socket at most is
\* open or about to be, and LIVE is only shown of an acknowledged one.
THEOREM OneSocketAtATime == ShellSpec => []OneSocket
  <1>1. SocketInv => OneSocket
    <2>1. SUFFICES ASSUME SocketInv  PROVE Cardinality(Running) <= 1
      BY DEF SocketInv, Owed, OneSocket
    <2>2. CASE Running = {}  BY <2>2, FS_EmptySet
    <2>3. CASE Running # {}
      <3>1. PICK c \in Running : TRUE  BY <2>3
      <3>2. Running = {c}  BY <2>1, <3>1 DEF SocketInv, Alone
      <3> QED  BY <3>2, FS_Singleton
    <2> QED  BY <2>2, <2>3
  <1> QED  BY <1>1, SocketInvariant, PTL

-----------------------------------------------------------------------------
\* The accounts the dashboard has were granted at some time.
GrantInv == accounts \in Grants /\ granted \in Grants

\* The accounts of a grant are of finitely many currencies.
LEMMA FewCurrencies ==
  ASSUME NEW a \in Grants
  PROVE  IsFiniteSet(CurrenciesOf(a))
  <1>1. PICK s \in SUBSET AccountIds : a \in [s -> AccountCurrencies]  BY DEF Grants
  <1>2. IsFiniteSet(DOMAIN a)  BY <1>1, ShellAssumption, FS_Subset
  <1> DEFINE values == {a[id] : id \in DOMAIN a}
  <1>3. a \in [DOMAIN a -> values]  BY <1>1
  <1>4. \A v \in values : \E id \in DOMAIN a : a[id] = v  OBVIOUS
  <1>5. a \in Surjection(DOMAIN a, values)  BY <1>3, <1>4 DEF Surjection
  <1>6. IsFiniteSet(values)  BY <1>2, <1>5, FS_Surjection
  <1>7. CurrenciesOf(a) \in SUBSET values  BY DEF CurrenciesOf
  <1> HIDE DEF values
  <1> QED  BY <1>6, <1>7, FS_Subset

\* A total that is not marked as mixed is of the currency it is labelled with.
LEMMA OneCurrency ==
  ASSUME GrantInv
  PROVE  FigureIsOneCurrency
  <1>1. SUFFICES ASSUME ~Mixed, NEW id \in Monetary, accounts[id] # "BASE"
                 PROVE  accounts[id] = CurrencyLabel
    BY DEF FigureIsOneCurrency
  <1>2. CASE ~Aggregating  BY <1>1, <1>2 DEF Monetary, CurrencyLabel
  <1>3. CASE Aggregating
    <2> DEFINE named == CurrenciesOf(accounts)
    <2>1. accounts[id] \in named  BY <1>1 DEF Monetary, CurrenciesOf
    <2>2. IsFiniteSet(named)  BY FewCurrencies DEF GrantInv
    <2>3. First \in named  BY <2>1 DEF First
    <2>4. Cardinality(named) \in Nat /\ Cardinality(named) <= 1
      BY <1>1, <1>3, <2>2, FS_CardinalityType DEF Mixed
    <2>5. accounts[id] = First
      <3>1. SUFFICES ASSUME accounts[id] # First  PROVE FALSE  OBVIOUS
      <3>2. IsFiniteSet({First}) /\ Cardinality({First}) = 1  BY FS_Singleton
      <3>3. {First} \subseteq named /\ {First} # named  BY <2>1, <2>3, <3>1
      <3>4. {First} \in SUBSET named  BY <3>3
      <3> HIDE DEF named
      <3>5. /\ Cardinality({First}) <= Cardinality(named)
            /\ Cardinality(named) = Cardinality({First}) => named = {First}
        BY <2>2, <3>4, FS_Subset
      <3> QED  BY <2>4, <3>2, <3>3, <3>5
    <2>6. CurrencyLabel = First  BY <1>1, <1>3, <2>1 DEF CurrencyLabel
    <2> QED  BY <2>5, <2>6
  <1> QED  BY <1>2, <1>3

\* In every reachable state a total that is not marked as mixed is of one
\* currency, the one it is labelled with.
THEOREM TotalsAreOfOneCurrency == ShellSpec => []FigureIsOneCurrency
  <1>1. ShellInit => GrantInv
    <2>1. {} \in SUBSET AccountIds  OBVIOUS
    <2>2. [i \in {} |-> "BASE"] \in Grants  BY <2>1 DEF Grants
    <2>3. \E g \in Grants : DOMAIN g = {}  BY <2>2
    <2>4. NoAccounts \in Grants  BY <2>3 DEF NoAccounts
    <2> QED  BY <2>4 DEF ShellInit, GrantInv
  <1>2. GrantInv /\ [ShellNext]_shellVars => GrantInv'
    <2>1. SUFFICES ASSUME GrantInv, [ShellNext]_shellVars  PROVE GrantInv'  OBVIOUS
    <2>2. CASE GrantsChange  BY <2>1, <2>2 DEF GrantsChange, GrantInv
    <2>3. CASE AccountsFetched  BY <2>1, <2>3 DEF AccountsFetched, GrantInv
    <2>4. CASE UNCHANGED <<accounts, granted>>  BY <2>1, <2>4 DEF GrantInv
    <2>5. GrantsChange \/ AccountsFetched \/ UNCHANGED <<accounts, granted>>
      BY <2>1 DEF ShellNext, RoleChanges, MeFetched, ShowView, PickCurrency,
                  LiveEffect, SocketMoves, shellVars
    <2> QED  BY <2>2, <2>3, <2>4, <2>5
  <1> QED  BY <1>1, <1>2, OneCurrency, PTL DEF ShellSpec

-----------------------------------------------------------------------------
LEMMA GrantsInitially == NoAccounts \in Grants
  <1>1. {} \in SUBSET AccountIds  OBVIOUS
  <1>2. [i \in {} |-> "BASE"] \in Grants  BY <1>1 DEF Grants
  <1>3. \E g \in Grants : DOMAIN g = {}  BY <1>2
  <1> QED  BY <1>3 DEF NoAccounts

\* A connector that moves on is in one of the four stages.
LEMMA StagesTyped ==
  ASSUME SocketInv, ShellTypeOK, LiveEffect \/ SocketMoves
  PROVE  \A c \in connectors' : c.stage \in {"opening", "live", "waiting", "closing"}
  <1> DEFINE Stages == {"opening", "live", "waiting", "closing"}
  <1>1. ASSUME NEW c \in connectors, NEW to \in Stages
        PROVE  [c EXCEPT !.stage = to].stage \in Stages
    BY <1>1, Moving DEF SocketInv, Shaped
  <1>2. \A c \in connectors : c.stage \in Stages  BY DEF ShellTypeOK
  <1>3. CASE LiveEffect
    <2>1. \A d \in Stopped(connectors) : d.stage \in Stages  BY <1>1 DEF Stopped
    <2> QED  BY <1>3, <2>1 DEF LiveEffect
  <1>4. CASE SocketMoves
    <2>1. PICK c \in connectors : Acknowledged(c) \/ OnClose(c) \/ Retry(c)
      BY <1>4 DEF SocketMoves
    <2>2. \/ connectors' = connectors \ {c}
          \/ \E to \in Stages : Becomes(c, to)
      BY <2>1 DEF Acknowledged, OnClose, Retry
    <2> QED  BY <1>1, <1>2, <2>2 DEF Becomes
  <1> QED  BY <1>3, <1>4

\* The state of the frame has its types in every reachable state; the view
\* that is asked for is one of those that exist, also when the role changed.
THEOREM ShellTypeCorrect == ShellSpec => []ShellTypeOK
  <1>1. ShellInit => ShellTypeOK
    <2>1. SUFFICES ASSUME ShellInit  PROVE ShellTypeOK  OBVIOUS
    <2>2. principal \in Principals /\ me = Nobody  BY <2>1 DEF ShellInit
    <2>3. granted \in Grants /\ accounts \in Grants  BY <2>1, GrantsInitially DEF ShellInit
    <2>4. requested \in Views /\ online \in BOOLEAN /\ calls \in Nat /\ connectors = {}
      BY <2>1 DEF ShellInit
    <2> QED  BY <2>2, <2>3, <2>4 DEF ShellTypeOK
  <1>2. SocketInv /\ ShellTypeOK /\ [ShellNext]_shellVars => ShellTypeOK'
    <2>1. SUFFICES ASSUME SocketInv, ShellTypeOK, [ShellNext]_shellVars  PROVE ShellTypeOK'
      OBVIOUS
    <2>2. CASE LiveEffect
      <3>1. /\ principal' = principal /\ granted' = granted /\ me' = me /\ accounts' = accounts
            /\ requested' = requested /\ online' = online /\ calls' = calls + 1
        BY <2>2 DEF LiveEffect
      <3> QED  BY <2>1, <2>2, <3>1, StagesTyped DEF ShellTypeOK
    <2>3. CASE SocketMoves
      <3>1. /\ principal' = principal /\ granted' = granted /\ me' = me /\ accounts' = accounts
            /\ requested' = requested /\ calls' = calls
        BY <2>3 DEF SocketMoves
      <3>2. online' \in BOOLEAN
        BY <2>1, <2>3 DEF SocketMoves, Acknowledged, OnClose, Retry, ShellTypeOK
      <3> QED  BY <2>1, <2>3, <3>1, <3>2, StagesTyped DEF ShellTypeOK
    <2>4. CASE RoleChanges \/ GrantsChange
      BY <2>1, <2>4 DEF RoleChanges, GrantsChange, ShellTypeOK
    <2>5. CASE MeFetched \/ AccountsFetched
      BY <2>1, <2>5 DEF MeFetched, AccountsFetched, ShellTypeOK
    <2>6. CASE ShowView \/ PickCurrency
      BY <2>1, <2>6 DEF ShowView, PickCurrency, VisibleNav, ShellTypeOK
    <2>7. CASE UNCHANGED shellVars
      BY <2>1, <2>7 DEF shellVars, ShellTypeOK
    <2> QED  BY <2>1, <2>2, <2>3, <2>4, <2>5, <2>6, <2>7 DEF ShellNext
  <1> QED  BY <1>1, <1>2, SocketInvariant, PTL DEF ShellSpec

-----------------------------------------------------------------------------
(***************************************************************************)
(* The bell.  The rows are followed by what they hold: when the feed was   *)
(* answered last everything up to some d was written down and everything   *)
(* up to some h had been heard, and the rows are what was heard since,     *)
(* then what remains of the answer (Follows).  That they are never newer   *)
(* than what was written down or heard (PassedInv) keeps what was looked   *)
(* at looked at (QuietInv).                                                *)
(***************************************************************************)
Larger(a, b) == IF a <= b THEN b ELSE a
Smaller(a, b) == IF a <= b THEN a ELSE b
Over(a, b) == IF a <= b THEN 0 ELSE a - b
\* The newest alert of an answer.
Top(rows) == IF Len(rows) = 0 THEN 0 ELSE rows[1]
Rows == feed.data
Distinct(s) == \A i, j \in 1..Len(s) : s[i] = s[j] => i = j
BellTyped ==
  /\ stream \in Nat /\ durable \in 0..stream /\ heard \in 0..stream
  /\ backlog \in Nat /\ backlog <= durable /\ backlog <= heard
  /\ line \in {"down", "accepted", "subscribed", "up"}
  /\ {bellOpen, sound, primed, overtaken, strayed} \subseteq BOOLEAN
  /\ seen \in 0..(2 * stream + 1) /\ newest \in Nat /\ looked \subseteq Nat
FeedTyped ==
  /\ Query(feed) /\ feed.fetch \in {"idle", "asked", "answered"} /\ feed.loaded \in BOOLEAN
  /\ Rows \in Seq(Nat) /\ Len(Rows) <= KeepLimit /\ Distinct(Rows)
  /\ \A i \in 1..Len(Rows) : Rows[i] \in 1..stream
  /\ feed.fetch = "answered" =>
       /\ Top(feed.answer) \in Nat /\ backlog <= Top(feed.answer) /\ Top(feed.answer) <= durable
       /\ feed.answer = Latest(Top(feed.answer))
\* No row is newer than what was written down or heard, when it was read.
Passed(row) ==
  /\ row <= Larger(durable, heard)
  /\ feed.fetch = "answered" => row <= Larger(Top(feed.answer), heard)
PassedInv ==
  /\ \A i \in 1..Len(Rows) : Passed(Rows[i])
  /\ primed => newest >= backlog /\ Passed(newest)
  /\ Len(Rows) # 0 => primed /\ newest = Rows[1]
\* The newest row is not older than what was looked at.
QuietInv ==
  ~strayed =>
    /\ \A alert \in looked : Stamp(alert) <= seen /\ \E i \in 1..Len(Rows) : alert <= Rows[i]
    /\ \A alert \in rung : alert > backlog
\* The rows since an answer that held everything up to d and came when h had
\* been heard: what was heard since, then what remains of the answer.
Expected(now, h, d, i) ==
  IF now < d /\ now - h < i /\ i <= d - h THEN d + 1 - i + (now - h)
  ELSE IF now < d /\ now - h < i THEN d + 1 - i ELSE now + 1 - i
Expect(now, h, d) ==
  (now - h) + Over(d, Larger(Over(d, AnswerLimit), now)) + Over(h, Over(d, AnswerLimit))
Follows(rows, now, h, d) ==
  /\ Len(rows) >= Smaller(KeepLimit, Expect(now, h, d))
  /\ \A i \in 1..Len(rows) : rows[i] = Expected(now, h, d, i)
SettledInv ==
  line = "up" /\ NotFetching(feed) /\ ~overtaken =>
    \E h \in 0..heard, d \in 0..stream : h <= d /\ Follows(Rows, heard, h, d)
BellInv == BellTyped /\ FeedTyped /\ PassedInv /\ QuietInv /\ SettledInv

-----------------------------------------------------------------------------
LEMMA BellConstants == /\ AnswerLimit \in Nat /\ KeepLimit \in Nat /\ 0 < AnswerLimit
                       /\ AnswerLimit <= KeepLimit
  BY BellAssumption DEF BellAssumption

LEMMA MinOfTwo ==
  ASSUME NEW a \in Nat, NEW b \in Nat
  PROVE  Min({a, b}) = Smaller(a, b)
<1>1. Smaller(a, b) \in {a, b} /\ \A y \in {a, b} : Smaller(a, b) <= y
  BY DEF Smaller
<1>2. \A x \in {a, b} : (\A y \in {a, b} : x <= y) => x = Smaller(a, b)
  BY DEF Smaller
<1> QED
  BY <1>1, <1>2 DEF Min

\* A function on 1..n is a sequence of that length.
LEMMA Listed ==
  ASSUME NEW n \in Nat, NEW S, NEW s \in [1..n -> S]
  PROVE  s \in Seq(S) /\ Len(s) = n /\ DOMAIN s = 1..n
  OBVIOUS

LEMMA LatestRows ==
  ASSUME NEW n \in Nat
  PROVE  /\ Latest(n) \in Seq(Nat) /\ Len(Latest(n)) = Smaller(n, AnswerLimit)
         /\ \A i \in 1..Len(Latest(n)) : Latest(n)[i] = n + 1 - i
         /\ Top(Latest(n)) = n
<1>1. Min({n, AnswerLimit}) = Smaller(n, AnswerLimit)
  BY BellConstants, MinOfTwo
<1>2. Smaller(n, AnswerLimit) \in Nat /\ Smaller(n, AnswerLimit) <= n
  BY BellConstants DEF Smaller
<1>3. Latest(n) \in [1..Smaller(n, AnswerLimit) -> Nat]
      /\ \A i \in 1..Smaller(n, AnswerLimit) : Latest(n)[i] = n + 1 - i
  <2> DEFINE k == Smaller(n, AnswerLimit)
  <2>1. Latest(n) = [i \in 1..k |-> n + 1 - i] /\ k \in Nat /\ k <= n
    BY <1>1, <1>2 DEF Latest
  <2> HIDE DEF k
  <2>2. \A i \in 1..k : n + 1 - i \in Nat
    BY <2>1
  <2>3. Latest(n) \in [1..k -> Nat] /\ \A i \in 1..k : Latest(n)[i] = n + 1 - i
    BY <2>1, <2>2
  <2> QED
    BY <2>3 DEF k
<1>4. Latest(n) \in Seq(Nat) /\ Len(Latest(n)) = Smaller(n, AnswerLimit)
  BY <1>2, <1>3, Listed
<1>5. Top(Latest(n)) = n
  BY <1>3, <1>4, BellConstants DEF Top, Smaller
<1> QED
  BY <1>3, <1>4, <1>5

\* What is heard comes on top; the rows above its old place move down.
LEMMA KeptRows ==
  ASSUME NEW rows \in Seq(Nat), NEW alert \in Nat
  PROVE  \E at \in 1..(Len(rows) + 1) :
           /\ at <= Len(rows) => rows[at] = alert
           /\ at = Len(rows) + 1 => \A i \in 1..Len(rows) : rows[i] # alert
           /\ Kept(rows, alert) \in Seq(Nat)
           /\ Len(Kept(rows, alert)) = Smaller(IF at <= Len(rows) THEN Len(rows) ELSE Len(rows) + 1, KeepLimit)
           /\ 0 < Len(Kept(rows, alert)) /\ Kept(rows, alert)[1] = alert
           /\ \A i \in 2..Len(Kept(rows, alert)) :
                Kept(rows, alert)[i] = IF i <= at THEN rows[i - 1] ELSE rows[i]
<1>1. DOMAIN rows = 1..Len(rows) /\ Len(rows) \in Nat /\ \A i \in 1..Len(rows) : rows[i] \in Nat
  OBVIOUS
<1> DEFINE listed == alert \in ToSet(rows)
           at == IF listed THEN CHOOSE i \in DOMAIN rows : rows[i] = alert ELSE Len(rows) + 1
           length == IF listed THEN Len(rows) ELSE Len(rows) + 1
           kept == [i \in 1..Min({length, KeepLimit}) |->
                      IF i = 1 THEN alert ELSE IF i <= at THEN rows[i - 1] ELSE rows[i]]
<1>2. listed <=> \E i \in 1..Len(rows) : rows[i] = alert
  BY <1>1 DEF ToSet
<1>3. /\ at \in 1..(Len(rows) + 1)
      /\ at <= Len(rows) => rows[at] = alert
      /\ at = Len(rows) + 1 => \A i \in 1..Len(rows) : rows[i] # alert
      /\ length = IF at <= Len(rows) THEN Len(rows) ELSE Len(rows) + 1
  <2>1. CASE listed
    <3>1. at \in 1..Len(rows) /\ rows[at] = alert
      BY <1>1, <1>2, <2>1
    <3> QED
      BY <1>1, <2>1, <3>1
  <2>2. CASE ~listed
    BY <1>1, <1>2, <2>2
  <2> QED
    BY <2>1, <2>2
<1>4. Kept(rows, alert) = kept
  BY DEF Kept
<1> DEFINE n == Smaller(length, KeepLimit)
<1> HIDE DEF listed, at, length
<1>5. length \in Nat /\ 0 < length
  BY <1>1, <1>3
<1>6. Min({length, KeepLimit}) = n
  BY <1>5, BellConstants, MinOfTwo
<1>7. n \in Nat /\ 0 < n /\ n <= length
  BY <1>5, BellConstants DEF Smaller
<1> HIDE DEF n
<1>8. ASSUME NEW i \in 1..n
      PROVE  (IF i = 1 THEN alert ELSE IF i <= at THEN rows[i - 1] ELSE rows[i]) \in Nat
  <2>1. i = 1 \/ (i # 1 /\ i <= at) \/ (i # 1 /\ at < i)
    BY <1>3, <1>7
  <2>2. i # 1 /\ i <= at => i - 1 \in 1..Len(rows)
    BY <1>1, <1>3, <1>7
  <2>3. i # 1 /\ at < i => i \in 1..Len(rows)
    <3>1. i \in Nat /\ at \in Nat /\ i <= length /\ 1 <= i /\ at <= Len(rows) + 1
      <4>1. i \in Nat /\ 1 <= i /\ i <= n
        BY <1>7
      <4>2. at \in Nat /\ at <= Len(rows) + 1
        BY <1>1, <1>3
      <4> QED
        BY <1>5, <1>7, <4>1, <4>2
    <3>2. CASE at <= Len(rows)
      <4>1. length = Len(rows)
        BY <1>3, <3>2
      <4> QED
        BY <1>1, <3>1, <4>1
    <3>3. CASE ~(at <= Len(rows))
      <4>1. length = Len(rows) + 1
        BY <1>3, <3>3
      <4> QED
        BY <1>1, <3>1, <3>3, <4>1
    <3> QED
      BY <3>2, <3>3
  <2>4. ~(at < i /\ i <= at)
    BY <1>3, <1>7
  <2> QED
    BY <1>1, <2>1, <2>2, <2>3, <2>4
<1>9. kept \in [1..n -> Nat] /\ kept[1] = alert
      /\ \A i \in 2..n : kept[i] = IF i <= at THEN rows[i - 1] ELSE rows[i]
  <2>1. kept = [i \in 1..n |-> IF i = 1 THEN alert ELSE IF i <= at THEN rows[i - 1] ELSE rows[i]]
    BY <1>6
  <2> HIDE DEF kept
  <2>2. kept \in [1..n -> Nat]
    BY <1>8, <2>1
  <2>3. kept[1] = alert
    BY <1>7, <2>1
  <2>4. ASSUME NEW i \in 2..n PROVE i \in 1..n /\ i # 1
    BY <1>7
  <2> QED
    BY <2>1, <2>2, <2>3, <2>4
<1> HIDE DEF kept
<1>10. kept \in Seq(Nat) /\ Len(kept) = n
  BY <1>7, <1>9, Listed
<1> QED
  BY <1>3, <1>4, <1>7, <1>9, <1>10 DEF n

\* A set of bounded numbers has a greatest one: the numbers are well-founded.
Less == {pair \in Nat \X Nat : pair[1] < pair[2]}
LEMMA LessIsWellFounded == IsWellFoundedOn(Less, Nat)
  BY NatLessThanWellFounded DEF OpToRel, Less
LEMMA HasLeast ==
  ASSUME NEW S, S \subseteq Nat, S # {}
  PROVE  \E x \in S : \A y \in S : x <= y
<1>1. PICK x \in S : \A y \in S : ~(<<y, x>> \in Less)
  BY LessIsWellFounded, WFMin
<1>2. ASSUME NEW y \in S PROVE x <= y
  <2>1. <<y, x>> \in Nat \X Nat /\ ~(<<y, x>> \in Less) /\ <<y, x>>[1] = y /\ <<y, x>>[2] = x
    BY <1>1
  <2> QED
    BY <2>1 DEF Less
<1> QED
  BY <1>2
\* A set of numbers up to n has a greatest element.
LEMMA HasGreatest ==
  ASSUME NEW n \in Nat, NEW S, S \subseteq 0..n, S # {}
  PROVE  Max(S) \in S /\ \A y \in S : y <= Max(S)
<1> DEFINE T == {n - x : x \in S}
<1>1. T \subseteq Nat /\ T # {} /\ \A x \in S : x \in Nat /\ x <= n
  <2>1. \A x \in S : x \in Nat /\ x <= n /\ n - x \in Nat
    OBVIOUS
  <2>2. PICK x \in S : TRUE
    OBVIOUS
  <2>3. n - x \in T
    OBVIOUS
  <2> QED
    BY <2>1, <2>3
<1>2. PICK t \in T : \A y \in T : t <= y
  BY <1>1, HasLeast
<1>3. PICK x \in S : t = n - x
  OBVIOUS
<1>4. ASSUME NEW y \in S PROVE x >= y
  <2>1. n - y \in T
    OBVIOUS
  <2>2. n - x <= n - y
    BY <1>2, <1>3, <2>1
  <2>3. n \in Nat /\ x \in Nat /\ y \in Nat
    BY <1>1
  <2> HIDE DEF T
  <2> QED
    BY ONLY <2>2, <2>3
<1>5. Max(S) \in S /\ \A y \in S : Max(S) >= y
  BY <1>4 DEF Max
<1> QED
  BY <1>1, <1>5

-----------------------------------------------------------------------------
\* The rows after an answer, and after what is heard next.
LEMMA FollowsAnswer ==
  ASSUME NEW d \in Nat, NEW h \in 0..d
  PROVE  Follows(Latest(d), h, h, d)
<1>1. /\ Len(Latest(d)) = Smaller(d, AnswerLimit)
      /\ \A i \in 1..Len(Latest(d)) : Latest(d)[i] = d + 1 - i
  BY LatestRows
<1>2. Smaller(d, AnswerLimit) >= Smaller(KeepLimit, Expect(h, h, d))
  BY BellConstants DEF Smaller, Larger, Over, Expect
<1>3. Smaller(d, AnswerLimit) \in Nat
  BY BellConstants DEF Smaller
<1>4. ASSUME NEW i \in Nat, 1 <= i
      PROVE  Expected(h, h, d, i) = d + 1 - i
  BY <1>4 DEF Expected
<1>5. \A i \in 1..Len(Latest(d)) : i \in Nat /\ 1 <= i
  BY <1>1, <1>3
<1> QED
  BY <1>1, <1>2, <1>4, <1>5 DEF Follows

\* What is heard next was at d - h, or is newer than every row.
LEMMA NextPlace ==
  ASSUME NEW now \in Nat, NEW h \in 0..now, NEW d \in Nat, h <= d,
         NEW i \in Nat, 1 <= i
  PROVE  /\ Expected(now, h, d, i) = now + 1 <=> now < d /\ i = d - h
         /\ ~(now < d) => Expected(now + 1, h, d, i + 1) = Expected(now, h, d, i)
         /\ now < d /\ i < d - h => Expected(now + 1, h, d, i + 1) = Expected(now, h, d, i)
         /\ now < d /\ d - h < i => Expected(now + 1, h, d, i) = Expected(now, h, d, i)
         /\ Expected(now + 1, h, d, 1) = now + 1
  BY DEF Expected

LEMMA NextLength ==
  ASSUME NEW now \in Nat, NEW h \in 0..now, NEW d \in Nat, h <= d, NEW n \in Nat,
         n >= Smaller(KeepLimit, Expect(now, h, d)), n <= KeepLimit
  PROVE  /\ Smaller(n + 1, KeepLimit) >= Smaller(KeepLimit, Expect(now + 1, h, d))
         /\ now < d /\ d - h <= n => n >= Smaller(KeepLimit, Expect(now + 1, h, d))
  BY BellConstants DEF Smaller, Larger, Over, Expect

LEMMA FollowsKept ==
  ASSUME NEW rows \in Seq(Nat), Len(rows) <= KeepLimit, NEW now \in Nat, NEW h \in 0..now,
         NEW d \in Nat, h <= d, Follows(rows, now, h, d), NEW alert \in Nat, alert = now + 1
  PROVE  Follows(Kept(rows, alert), alert, h, d)
<1> DEFINE kept == Kept(rows, alert)
<1>0. Len(rows) \in Nat
  OBVIOUS
<1>1. PICK at \in 1..(Len(rows) + 1) :
        /\ at <= Len(rows) => rows[at] = alert
        /\ at = Len(rows) + 1 => \A i \in 1..Len(rows) : rows[i] # alert
        /\ kept \in Seq(Nat)
        /\ Len(kept) = Smaller(IF at <= Len(rows) THEN Len(rows) ELSE Len(rows) + 1, KeepLimit)
        /\ 0 < Len(kept) /\ kept[1] = alert
        /\ \A i \in 2..Len(kept) : kept[i] = IF i <= at THEN rows[i - 1] ELSE rows[i]
  BY ONLY rows \in Seq(Nat), alert \in Nat, KeptRows
<1> HIDE DEF kept
<1>2. /\ Len(rows) >= Smaller(KeepLimit, Expect(now, h, d))
      /\ \A i \in 1..Len(rows) : rows[i] = Expected(now, h, d, i)
  BY DEF Follows
<1>3. at \in Nat /\ 1 <= at /\ at <= Len(rows) + 1 /\ Len(kept) \in Nat
  BY <1>0, <1>1
\* Where it was: at d - h, or nowhere.
<1>4. /\ at <= Len(rows) => now < d /\ at = d - h
      /\ now < d /\ d - h <= Len(rows) => at = d - h
  <2>1. at <= Len(rows) => now < d /\ at = d - h
    <3>1. SUFFICES ASSUME at <= Len(rows) PROVE now < d /\ at = d - h
      OBVIOUS
    <3>2. Expected(now, h, d, at) = now + 1
      BY <1>1, <1>2, <1>3, <3>1
    <3> QED
      BY <1>3, <3>2, NextPlace
  <2>2. now < d /\ d - h <= Len(rows) => at = d - h
    <3>1. SUFFICES ASSUME now < d, d - h <= Len(rows) PROVE at = d - h
      OBVIOUS
    <3>2. d - h \in 1..Len(rows) /\ d - h \in Nat /\ 1 <= d - h
      BY <1>0, <3>1
    <3>3. Expected(now, h, d, d - h) = now + 1
      BY <3>1, <3>2, NextPlace
    <3>4. at # Len(rows) + 1
      BY <1>1, <1>2, <3>2, <3>3
    <3> QED
      BY <1>0, <1>3, <2>1, <3>4
  <2> QED
    BY <2>1, <2>2
<1>5. Len(kept) >= Smaller(KeepLimit, Expect(alert, h, d))
  <2>1. CASE at <= Len(rows)
    <3>1. Len(rows) >= Smaller(KeepLimit, Expect(now + 1, h, d))
      BY <1>0, <1>2, <1>4, <2>1, NextLength
    <3>2. Len(kept) = Len(rows)
      BY <1>0, <1>1, <2>1, BellConstants DEF Smaller
    <3> QED
      BY <3>1, <3>2
  <2>2. CASE ~(at <= Len(rows))
    <3>1. Smaller(Len(rows) + 1, KeepLimit) >= Smaller(KeepLimit, Expect(now + 1, h, d))
      BY <1>0, <1>2, NextLength
    <3> QED
      BY <1>1, <2>2, <3>1
  <2> QED
    BY <2>1, <2>2
<1>6. Len(kept) <= IF at <= Len(rows) THEN Len(rows) ELSE Len(rows) + 1
  BY <1>0, <1>1, BellConstants DEF Smaller
<1>7. ASSUME NEW i \in 1..Len(kept)
      PROVE  kept[i] = Expected(alert, h, d, i)
  <2>0. i \in Nat /\ 1 <= i /\ i <= Len(kept)
    BY <1>3
  <2>1. CASE i = 1
    <3>1. Expected(now + 1, h, d, 1) = now + 1
      BY NextPlace
    <3> QED
      BY <1>1, <2>1, <3>1
  <2>2. CASE i # 1 /\ i <= at
    <3>1. i - 1 \in 1..Len(rows) /\ i - 1 \in Nat /\ 1 <= i - 1 /\ (i - 1) + 1 = i
      BY <1>0, <1>3, <2>0, <2>2
    <3>2. kept[i] = Expected(now, h, d, i - 1)
      <4>1. i \in 2..Len(kept)
        BY <1>3, <2>0, <2>2
      <4> QED
        BY <1>1, <1>2, <2>2, <3>1, <4>1
    <3>3. ~(now < d) \/ (now < d /\ i - 1 < d - h)
      <4>1. CASE now < d
        <5>1. CASE at <= Len(rows)
          BY <1>3, <1>4, <2>0, <2>2, <5>1
        <5>2. CASE ~(at <= Len(rows))
          BY <1>0, <1>3, <1>4, <2>0, <2>2, <4>1, <5>2
        <5> QED
          BY <5>1, <5>2
      <4> QED
        BY <4>1
    <3>4. ASSUME NEW j \in Nat, j = i - 1
          PROVE  Expected(now + 1, h, d, j + 1) = Expected(now, h, d, j)
      <4>1. 1 <= j /\ (~(now < d) \/ (now < d /\ j < d - h))
        BY <3>1, <3>3, <3>4
      <4> QED
        BY ONLY now \in Nat, h \in 0..now, d \in Nat, h <= d, j \in Nat, <4>1, NextPlace
    <3> QED
      BY <1>0, <3>1, <3>2, <3>4
  <2>3. CASE i # 1 /\ ~(i <= at)
    <3>1. at <= Len(rows) /\ i \in 1..Len(rows)
      BY <1>0, <1>3, <1>6, <2>0, <2>3
    <3>2. kept[i] = Expected(now, h, d, i)
      <4>1. i \in 2..Len(kept)
        BY <1>3, <2>0, <2>3
      <4> QED
        BY <1>1, <1>2, <2>3, <3>1, <4>1
    <3>3. now < d /\ d - h < i
      BY <1>3, <1>4, <2>0, <2>3, <3>1
    <3>4. Expected(now + 1, h, d, i) = Expected(now, h, d, i)
      BY <2>0, <3>3, NextPlace
    <3> QED
      BY <3>2, <3>4
  <2> QED
    BY <2>1, <2>2, <2>3
<1>8. Follows(kept, alert, h, d)
  BY <1>5, <1>7 DEF Follows
<1> QED
  BY <1>8 DEF kept

\* Every row keeps its place in the order, and none is listed twice.
LEMMA KeptTyped ==
  ASSUME NEW rows \in Seq(Nat), Len(rows) <= KeepLimit, Distinct(rows), NEW alert \in Nat
  PROVE  /\ Kept(rows, alert) \in Seq(Nat) /\ Len(Kept(rows, alert)) <= KeepLimit
         /\ 0 < Len(Kept(rows, alert)) /\ Kept(rows, alert)[1] = alert
         /\ Distinct(Kept(rows, alert))
         /\ \A i \in 1..Len(Kept(rows, alert)) :
              Kept(rows, alert)[i] = alert \/ \E j \in 1..Len(rows) : Kept(rows, alert)[i] = rows[j]
<1> DEFINE kept == Kept(rows, alert)
<1>0. Len(rows) \in Nat
  OBVIOUS
<1>1. PICK at \in 1..(Len(rows) + 1) :
        /\ at <= Len(rows) => rows[at] = alert
        /\ at = Len(rows) + 1 => \A i \in 1..Len(rows) : rows[i] # alert
        /\ kept \in Seq(Nat)
        /\ Len(kept) = Smaller(IF at <= Len(rows) THEN Len(rows) ELSE Len(rows) + 1, KeepLimit)
        /\ 0 < Len(kept) /\ kept[1] = alert
        /\ \A i \in 2..Len(kept) : kept[i] = IF i <= at THEN rows[i - 1] ELSE rows[i]
  BY KeptRows
<1> HIDE DEF kept
<1>2. at \in Nat /\ 1 <= at /\ at <= Len(rows) + 1 /\ Len(kept) \in Nat
  BY <1>0, <1>1
<1>3. /\ Len(kept) <= KeepLimit
      /\ Len(kept) <= IF at <= Len(rows) THEN Len(rows) ELSE Len(rows) + 1
  BY <1>0, <1>1, BellConstants DEF Smaller
<1> DEFINE old(i) == IF i <= at THEN i - 1 ELSE i
<1>4. ASSUME NEW i \in 2..Len(kept)
      PROVE  old(i) \in 1..Len(rows) /\ old(i) # at /\ kept[i] = rows[old(i)]
  <2>1. i \in Nat /\ 2 <= i /\ i <= Len(kept)
    BY <1>2
  <2>2. CASE i <= at
    BY <1>0, <1>1, <1>2, <2>1, <2>2
  <2>3. CASE ~(i <= at)
    BY <1>0, <1>1, <1>2, <1>3, <2>1, <2>3
  <2> QED
    BY <2>2, <2>3
<1>5. ASSUME NEW i \in 2..Len(kept), NEW j \in 2..Len(kept), old(i) = old(j)
      PROVE  i = j
  <2>1. i \in Nat /\ j \in Nat
    BY <1>2
  <2> QED
    BY <1>2, <1>5, <2>1
<1> HIDE DEF old
<1>6. ASSUME NEW i \in 2..Len(kept)
      PROVE  kept[i] # alert
  <2>1. CASE at <= Len(rows)
    <3>1. at \in 1..Len(rows)
      BY <1>0, <1>2, <2>1
    <3> QED
      BY <1>1, <1>4, <2>1, <3>1 DEF Distinct
  <2>2. CASE ~(at <= Len(rows))
    <3>1. at = Len(rows) + 1
      BY <1>0, <1>2, <2>2
    <3> QED
      BY <1>1, <1>4, <3>1
  <2> QED
    BY <2>1, <2>2
<1>7. \A i \in 1..Len(kept) : i = 1 \/ i \in 2..Len(kept)
  BY <1>2
<1>8. Distinct(kept)
  <2>1. SUFFICES ASSUME NEW i \in 1..Len(kept), NEW j \in 1..Len(kept), kept[i] = kept[j]
                 PROVE  i = j
    BY DEF Distinct
  <2>2. CASE i = 1 \/ j = 1
    BY <1>1, <1>6, <1>7, <2>1, <2>2
  <2>3. CASE i # 1 /\ j # 1
    <3>1. i \in 2..Len(kept) /\ j \in 2..Len(kept)
      BY <1>7, <2>3
    <3>2. old(i) = old(j)
      BY <1>4, <2>1, <3>1 DEF Distinct
    <3> QED
      BY <1>5, <3>1, <3>2
  <2> QED
    BY <2>2, <2>3
<1>9. \A i \in 1..Len(kept) : kept[i] = alert \/ \E j \in 1..Len(rows) : kept[i] = rows[j]
  BY <1>1, <1>4, <1>7
<1> QED
  BY <1>1, <1>3, <1>8, <1>9 DEF kept

-----------------------------------------------------------------------------
\* What a render does to the bell, and that it does nothing without new rows.
LEMMA Ringing ==
  ASSUME PassedInv, BellTyped, Rings, feed'.data \in Seq(Nat)
  PROVE  /\ primed' \in BOOLEAN /\ newest' \in Nat /\ (primed => primed')
         /\ Len(feed'.data) # 0 => primed' /\ newest' = feed'.data[1]
         /\ Len(feed'.data) = 0 => primed' = primed /\ newest' = newest
         /\ \A alert \in rung' : alert \in rung \/ (primed /\ alert = newest' /\ newest' # newest)
         /\ feed'.data = feed.data => primed' = primed /\ newest' = newest
<1>1. feed'.data = Nothing <=> Len(feed'.data) = 0
  BY DEF Nothing
<1>2. feed'.data # Nothing => Head(feed'.data) = feed'.data[1] /\ feed'.data[1] \in Nat
  BY DEF Nothing
<1>3. CASE feed'.data = Nothing \/ (primed /\ Head(feed'.data) = newest)
  BY <1>1, <1>2, <1>3 DEF Rings, BellTyped
<1>4. CASE ~(feed'.data = Nothing \/ (primed /\ Head(feed'.data) = newest))
  <2>1. primed' = TRUE /\ newest' = Head(feed'.data)
        /\ rung' = IF primed /\ sound' /\ Stamp(newest') > seen' THEN rung \cup {newest'} ELSE rung
    BY <1>4 DEF Rings
  <2>2. \A alert \in rung' : alert \in rung \/ (primed /\ alert = newest' /\ newest' # newest)
    BY <1>4, <2>1
  <2>3. feed'.data # feed.data
    BY <1>1, <1>2, <1>4 DEF PassedInv, Rows
  <2> QED
    BY <1>1, <1>2, <1>4, <2>1, <2>2, <2>3
<1> QED
  BY <1>3, <1>4

LEMMA BellInitially == BellInit => BellInv
<1> SUFFICES ASSUME BellInit PROVE BellInv
  OBVIOUS
<1>1. Query(feed) /\ feed.fetch = "asked" /\ feed.loaded = FALSE /\ feed.data = << >>
  BY DEF BellInit, Query, NewQuery, Nothing
<1>2. Len(Rows) = 0 /\ Rows \in Seq(Nat)
  BY <1>1 DEF Rows
<1>3. BellTyped
  <2>1. {bellOpen, sound, primed, overtaken, strayed} \subseteq BOOLEAN
    BY DEF BellInit
  <2>2. /\ stream \in Nat /\ durable \in 0..stream /\ heard \in 0..stream
        /\ backlog \in Nat /\ backlog <= durable /\ backlog <= heard
        /\ seen \in 0..(2 * stream + 1) /\ newest \in Nat
    BY DEF BellInit
  <2>3. line \in {"down", "accepted", "subscribed", "up"} /\ looked \subseteq Nat
    BY DEF BellInit
  <2> QED
    BY <2>1, <2>2, <2>3 DEF BellTyped
<1>4. FeedTyped
  <2>1. \A i \in 1..Len(Rows) : FALSE
    BY <1>2
  <2>2. Distinct(Rows) /\ Len(Rows) <= KeepLimit
    BY <1>2, <2>1, BellConstants DEF Distinct
  <2>3. feed.fetch \in {"idle", "asked", "answered"} /\ feed.fetch # "answered"
        /\ feed.loaded \in BOOLEAN
    BY <1>1
  <2> QED
    BY <1>1, <1>2, <2>1, <2>2, <2>3 DEF FeedTyped
<1>5. PassedInv /\ QuietInv /\ SettledInv
  BY <1>1, <1>2 DEF BellInit, PassedInv, QuietInv, SettledInv, NotFetching
<1> QED
  BY <1>3, <1>4, <1>5 DEF BellInv

\* Alerts are raised and written down, the socket hears what is for nobody.
LEMMA BackstageKeeps ==
  ASSUME BellInv, Raised \/ WrittenDown \/ LineAccepted \/ Unheard \/ LineSubscribed \/ LineDown
  PROVE  BellInv'
<1>1. /\ stream \in Nat /\ durable \in 0..stream /\ heard \in 0..stream /\ backlog \in Nat
      /\ backlog <= durable /\ backlog <= heard
  BY DEF BellInv, BellTyped
<1>2. /\ stream' \in Nat /\ durable' \in 0..stream' /\ heard' \in 0..stream'
      /\ stream <= stream' /\ durable <= durable' /\ heard <= heard'
      /\ feed' = feed /\ overtaken' = overtaken /\ strayed' = strayed /\ newest' = newest
      /\ primed' = primed /\ rung' = rung /\ bellOpen' = bellOpen /\ sound' = sound /\ seen' = seen
      /\ looked' = looked /\ backlog' = backlog
      /\ line' \in {"down", "accepted", "subscribed", "up"}
  BY <1>1 DEF Raised, WrittenDown, LineAccepted, Unheard, LineSubscribed, LineDown, Bell, BellPast,
              BellInv, BellTyped
<1>3. line' = "up" => line = "up" /\ heard' = heard
  BY DEF Raised, WrittenDown, LineAccepted, Unheard, LineSubscribed, LineDown
<1>4. BellTyped'
  BY <1>1, <1>2 DEF BellInv, BellTyped
<1>5. FeedTyped'
  BY <1>1, <1>2 DEF BellInv, FeedTyped, Rows
<1>6. PassedInv'
  <2>1. Larger(durable, heard) <= Larger(durable', heard')
    BY <1>1, <1>2 DEF Larger
  <2>2. feed.fetch = "answered" => Larger(Top(feed.answer), heard) <= Larger(Top(feed.answer), heard')
    BY <1>1, <1>2 DEF Larger, BellInv, FeedTyped
  <2>3. /\ Larger(durable, heard) \in Nat /\ Larger(durable', heard') \in Nat
        /\ feed.fetch = "answered" =>
             Larger(Top(feed.answer), heard) \in Nat /\ Larger(Top(feed.answer), heard') \in Nat
    BY <1>1, <1>2 DEF Larger, BellInv, FeedTyped
  <2>4. ASSUME NEW row \in Nat, Passed(row)
        PROVE  /\ row <= Larger(durable', heard')
               /\ feed.fetch = "answered" => row <= Larger(Top(feed.answer), heard')
    BY <2>1, <2>2, <2>3, <2>4 DEF Passed
  <2>5. Rows' = Rows
    BY <1>2 DEF Rows
  <2>6. newest \in Nat /\ \A i \in 1..Len(Rows) : Rows[i] \in Nat
    BY DEF BellInv, BellTyped, FeedTyped
  <2> QED
    BY <1>2, <2>4, <2>5, <2>6 DEF BellInv, PassedInv, Passed
<1>7. QuietInv'
  BY <1>2 DEF BellInv, QuietInv, Rows
<1>8. SettledInv'
  BY <1>1, <1>2, <1>3 DEF BellInv, SettledInv, Rows
<1> QED
  BY <1>4, <1>5, <1>6, <1>7, <1>8 DEF BellInv

\* The line is up, or the feed is read: the rows stay, the fetch moves on.
LEMMA FetchKeepsBell ==
  ASSUME BellInv, LineUp \/ FeedRead \/ FeedFails
  PROVE  BellInv'
<1>0. Query(feed) /\ FeedTyped /\ BellTyped
  BY DEF BellInv, FeedTyped
<1>1. /\ stream \in Nat /\ durable \in 0..stream /\ heard \in 0..stream /\ backlog \in Nat
      /\ backlog <= durable /\ backlog <= heard
  BY <1>0 DEF BellTyped
<1>2. /\ stream' = stream /\ durable' = durable /\ heard' = heard
      /\ strayed' = strayed /\ newest' = newest
      /\ primed' = primed /\ rung' = rung /\ bellOpen' = bellOpen /\ sound' = sound /\ seen' = seen
      /\ looked' = looked /\ backlog' = backlog
      /\ line' \in {"down", "accepted", "subscribed", "up"} /\ overtaken' \in BOOLEAN
  BY <1>0 DEF LineUp, FeedRead, FeedFails, Bell, BellPast, BellTyped
<1>3. /\ Query(feed') /\ feed'.loaded = feed.loaded /\ feed'.data = feed.data
      /\ \/ feed'.fetch \in {"asked", "idle"}
         \/ feed'.fetch = "answered" /\ feed'.answer = Latest(durable)
         \/ feed' = feed /\ ~NotFetching(feed)
      /\ ~NotFetching(feed') \/ overtaken'
  <2>1. CASE LineUp
    BY <1>0, <2>1, Invalidating DEF LineUp, NotFetching
  <2>2. CASE FeedRead
    <3>1. feed' = AnsweredWith(feed, Latest(durable))
      BY <2>2 DEF FeedRead
    <3> QED
      BY <1>0, <3>1, Given DEF NotFetching
  <2>3. CASE FeedFails
    <3>1. feed' = Failed(feed) /\ overtaken' = (overtaken \/ NotFetching(feed'))
      BY <2>3 DEF FeedFails
    <3> QED
      BY <1>0, <3>1, Queries DEF NotFetching
  <2> QED
    BY <2>1, <2>2, <2>3
<1>4. BellTyped'
  BY <1>0, <1>1, <1>2 DEF BellTyped
<1>5. Latest(durable) \in Seq(Nat) /\ Top(Latest(durable)) = durable
  BY <1>1, LatestRows
<1>6. FeedTyped'
  <2>1. feed'.fetch = "answered" =>
          /\ Top(feed'.answer) \in Nat /\ backlog <= Top(feed'.answer) /\ Top(feed'.answer) <= durable
          /\ feed'.answer = Latest(Top(feed'.answer))
    BY <1>0, <1>1, <1>3, <1>5 DEF FeedTyped
  <2>2. feed'.fetch \in {"idle", "asked", "answered"}
    BY <1>0, <1>3 DEF FeedTyped
  <2> QED
    BY <1>0, <1>2, <1>3, <2>1, <2>2 DEF FeedTyped, Rows
<1>7. PassedInv'
  <2>1. ASSUME NEW row, Passed(row)
        PROVE  /\ row <= Larger(durable', heard')
               /\ feed'.fetch = "answered" => row <= Larger(Top(feed'.answer), heard')
    BY <1>2, <1>3, <1>5, <2>1 DEF Passed
  <2> QED
    BY <1>2, <1>3, <2>1 DEF BellInv, PassedInv, Passed, Rows
<1>8. QuietInv'
  BY <1>2, <1>3 DEF BellInv, QuietInv, Rows
<1>9. SettledInv'
  BY <1>3 DEF SettledInv
<1> QED
  BY <1>4, <1>6, <1>7, <1>8, <1>9 DEF BellInv

\* What is heard next comes on top of the rows.
LEMMA HearKeeps ==
  ASSUME BellInv, Hear
  PROVE  BellInv'
<1>0. Query(feed) /\ FeedTyped /\ BellTyped /\ PassedInv
  BY DEF BellInv, FeedTyped
<1>1. /\ stream \in Nat /\ durable \in 0..stream /\ heard \in 0..stream /\ backlog \in Nat
      /\ backlog <= durable /\ backlog <= heard
  BY <1>0 DEF BellTyped
<1>2. /\ stream' = stream /\ durable' = durable /\ line' = line /\ overtaken' = overtaken
      /\ bellOpen' = bellOpen /\ sound' = sound /\ seen' = seen /\ looked' = looked
      /\ backlog' = backlog
      /\ heard' = heard + 1 /\ heard < stream
      /\ strayed' = (strayed \/ \E row \in ToSet(feed.data) \ ToSet(feed'.data) : row > heard')
      /\ Rings
  BY DEF Hear, Bell, BellPast
<1>3. /\ heard' \in 1..stream /\ heard' \in Nat /\ stream' \in Nat
  BY <1>1, <1>2
<1>4. Rows \in Seq(Nat) /\ Len(Rows) \in Nat /\ Len(Rows) <= KeepLimit /\ Distinct(Rows)
      /\ \A i \in 1..Len(Rows) : Rows[i] \in 1..stream /\ Rows[i] \in Nat
  <2>1. Rows \in Seq(Nat) /\ Len(Rows) <= KeepLimit /\ Distinct(Rows)
        /\ \A i \in 1..Len(Rows) : Rows[i] \in 1..stream
    BY <1>0 DEF FeedTyped
  <2> QED
    BY <1>1, <2>1
\* The feed, and its rows.
<1>5. /\ Query(feed') /\ feed'.fetch = feed.fetch /\ feed'.answer = feed.answer
      /\ feed'.loaded = TRUE /\ feed'.data = Kept(Rows, heard')
  <2> DEFINE q == Updated(feed, Kept(feed.data, heard'))
  <2>1. Query(q) /\ q.fetch = feed.fetch /\ q.data = Kept(feed.data, heard') /\ q.answer = feed.answer
    BY <1>0, Given
  <2>2. feed' = [q EXCEPT !.loaded = TRUE]
    BY DEF Hear
  <2> HIDE DEF q
  <2>3. Query(feed') /\ feed'.fetch = q.fetch /\ feed'.answer = q.answer /\ feed'.data = q.data
        /\ feed'.loaded = TRUE
    BY <2>1, <2>2 DEF Query
  <2> QED
    BY <2>1, <2>3 DEF Rows
<1>6. \E alert \in Nat : alert = heard'
  BY <1>3
<1>7. /\ feed'.data \in Seq(Nat) /\ Len(feed'.data) <= KeepLimit
      /\ 0 < Len(feed'.data) /\ feed'.data[1] = heard' /\ Distinct(feed'.data)
      /\ \A i \in 1..Len(feed'.data) :
           feed'.data[i] = heard' \/ \E j \in 1..Len(Rows) : feed'.data[i] = Rows[j]
  BY <1>4, <1>5, <1>6, KeptTyped
<1>8. \A i \in 1..Len(feed'.data) : feed'.data[i] \in 1..stream
  BY <1>3, <1>4, <1>7
<1>9. /\ primed' \in BOOLEAN /\ newest' \in Nat /\ (primed => primed')
      /\ primed' /\ newest' = heard'
      /\ \A alert \in rung' : alert \in rung \/ alert = heard'
  <2>1. Len(feed'.data) # 0
    BY <1>7
  <2> QED
    BY <1>0, <1>2, <1>7, <2>1, Ringing
<1>10. BellTyped'
  <2>1. strayed' \in BOOLEAN
    BY <1>0, <1>2 DEF BellTyped
  <2>2. {bellOpen', sound', primed', overtaken', strayed'} \subseteq BOOLEAN
    BY <1>0, <1>2, <1>9, <2>1 DEF BellTyped
  <2>3. heard' \in 0..stream' /\ backlog' <= heard'
    BY <1>1, <1>2
  <2> QED
    BY <1>0, <1>1, <1>2, <1>9, <2>2, <2>3 DEF BellTyped
<1>11. FeedTyped'
  <2>1. feed'.fetch \in {"idle", "asked", "answered"} /\ feed'.loaded \in BOOLEAN
    BY <1>0, <1>5 DEF FeedTyped
  <2>2. feed'.fetch = "answered" =>
          /\ Top(feed'.answer) \in Nat /\ backlog' <= Top(feed'.answer)
          /\ Top(feed'.answer) <= durable' /\ feed'.answer = Latest(Top(feed'.answer))
    BY <1>0, <1>2, <1>5 DEF FeedTyped
  <2> QED
    BY <1>2, <1>5, <1>7, <1>8, <2>1, <2>2 DEF FeedTyped, Rows
<1>12. PassedInv'
  <2>1. feed.fetch = "answered" => Top(feed.answer) \in Nat
    BY <1>0 DEF FeedTyped
  <2>2. ASSUME NEW row \in Nat, row = heard' \/ Passed(row)
        PROVE  /\ row <= Larger(durable', heard')
               /\ feed'.fetch = "answered" => row <= Larger(Top(feed'.answer), heard')
    <3>1. row <= Larger(durable, heard + 1)
      BY <1>1, <1>2, <2>2 DEF Passed, Larger
    <3>2. feed.fetch = "answered" => row <= Larger(Top(feed.answer), heard + 1)
      BY <1>1, <1>2, <2>1, <2>2 DEF Passed, Larger
    <3> QED
      BY <1>2, <1>5, <3>1, <3>2
  <2>4. \A i \in 1..Len(feed'.data) :
          /\ feed'.data[i] \in Nat
          /\ feed'.data[i] = heard' \/ Passed(feed'.data[i])
    BY <1>0, <1>3, <1>4, <1>7 DEF PassedInv
  <2>5. \A i \in 1..Len(feed'.data) :
          /\ feed'.data[i] <= Larger(durable', heard')
          /\ feed'.fetch = "answered" => feed'.data[i] <= Larger(Top(feed'.answer), heard')
    BY <2>2, <2>4
  <2>6. /\ newest' <= Larger(durable', heard')
        /\ feed'.fetch = "answered" => newest' <= Larger(Top(feed'.answer), heard')
    BY <1>9, <2>2
  <2>7. newest' >= backlog'
    BY <1>1, <1>2, <1>9
  <2>8. Len(feed'.data) # 0 => primed' /\ newest' = feed'.data[1]
    BY <1>7, <1>9
  <2> QED
    BY <2>5, <2>6, <2>7, <2>8 DEF PassedInv, Passed, Rows
<1>13. QuietInv'
  <2>1. SUFFICES ASSUME ~strayed'
                 PROVE  /\ \A alert \in looked : Stamp(alert) <= seen
                             /\ \E i \in 1..Len(feed'.data) : alert <= feed'.data[i]
                        /\ \A alert \in rung' : alert > backlog
    BY <1>2 DEF QuietInv, Rows, Stamp
  <2>2. ~strayed /\ \A row \in ToSet(feed.data) \ ToSet(feed'.data) : ~(row > heard')
    BY <1>2, <2>1
  <2>3. QuietInv /\ ~strayed
    BY <2>2 DEF BellInv
  <2>4. ASSUME NEW alert \in looked
        PROVE  \E i \in 1..Len(feed'.data) : alert <= feed'.data[i]
    <3>1. PICK j \in 1..Len(Rows) : alert <= Rows[j]
      BY <2>3 DEF QuietInv
    <3>2. alert \in Nat /\ Rows[j] \in Nat
      BY <1>0, <1>4 DEF BellTyped
    <3>3. CASE Rows[j] \in ToSet(feed'.data)
      <4>1. PICK i \in 1..Len(feed'.data) : Rows[j] = feed'.data[i]
        <5>1. DOMAIN feed'.data = 1..Len(feed'.data)
          BY <1>7
        <5> QED
          BY <3>3, <5>1 DEF ToSet
      <4> QED
        BY <3>1, <4>1
    <3>4. CASE Rows[j] \notin ToSet(feed'.data)
      <4>1. Rows[j] \in ToSet(feed.data)
        BY <1>4 DEF ToSet, Rows
      <4>2. ~(Rows[j] > heard')
        BY <2>2, <3>4, <4>1
      <4>3. alert <= heard' /\ 1 \in 1..Len(feed'.data)
        BY <1>3, <1>7, <3>1, <3>2, <4>2
      <4> QED
        BY <1>7, <4>3
    <3> QED
      BY <3>3, <3>4
  <2>5. heard' > backlog
    BY <1>1, <1>2
  <2> QED
    BY <1>9, <2>3, <2>4, <2>5 DEF QuietInv
<1>14. SettledInv'
  <2>1. SUFFICES ASSUME line = "up", NotFetching(feed), ~overtaken
                 PROVE  \E h \in 0..heard', d \in 0..stream : h <= d /\ Follows(feed'.data, heard', h, d)
    BY <1>2, <1>5 DEF SettledInv, NotFetching, Rows
  <2>2. SettledInv
    BY DEF BellInv
  <2>3. PICK h \in 0..heard : \E d \in 0..stream : h <= d /\ Follows(Rows, heard, h, d)
    BY <2>1, <2>2 DEF SettledInv
  <2>4. PICK d \in 0..stream : h <= d /\ Follows(Rows, heard, h, d)
    BY <2>3
  <2>5. heard \in Nat /\ d \in Nat /\ h \in 0..heard'
    BY <1>1, <1>2
  <2>6. PICK alert \in Nat : alert = heard'
    BY <1>6
  <2>7. Follows(Kept(Rows, alert), alert, h, d)
    <3>1. alert = heard + 1
      BY <1>2, <2>6
    <3> QED
      BY <1>4, <2>4, <2>5, <3>1, FollowsKept
  <2>8. Follows(feed'.data, heard', h, d)
    BY <1>5, <2>6, <2>7
  <2> QED
    BY <2>4, <2>5, <2>8
<1> QED
  BY <1>10, <1>11, <1>12, <1>13, <1>14 DEF BellInv

\* An answer takes the place of the rows.
LEMMA ArrivesKeeps ==
  ASSUME BellInv, FeedArrives
  PROVE  BellInv'
<1> DEFINE d == Top(feed.answer)
<1>0. Query(feed) /\ FeedTyped /\ BellTyped /\ PassedInv /\ feed.fetch = "answered"
  BY DEF BellInv, FeedTyped, FeedArrives
<1>1. /\ stream \in Nat /\ durable \in 0..stream /\ heard \in 0..stream /\ backlog \in Nat
      /\ backlog <= durable /\ backlog <= heard
  BY <1>0 DEF BellTyped
<1>2. /\ stream' = stream /\ durable' = durable /\ line' = line /\ heard' = heard
      /\ bellOpen' = bellOpen /\ sound' = sound /\ seen' = seen /\ looked' = looked
      /\ backlog' = backlog
      /\ overtaken' = (heard > Max({0} \cup ToSet(feed.answer)))
      /\ strayed' = (strayed \/ overtaken')
      /\ Rings
  BY DEF FeedArrives, Bell, BellPast
<1>3. d \in Nat /\ backlog <= d /\ d <= durable /\ feed.answer = Latest(d)
  BY <1>0 DEF FeedTyped
<1>4. /\ Query(feed') /\ feed'.fetch = "idle" /\ feed'.loaded = TRUE /\ feed'.data = feed.answer
  <2>1. feed' = Arrived(feed)
    BY DEF FeedArrives
  <2> QED
    BY <1>0, <2>1, Queries
<1> HIDE DEF d
<1>5. /\ Latest(d) \in Seq(Nat) /\ Len(Latest(d)) = Smaller(d, AnswerLimit)
      /\ \A i \in 1..Len(Latest(d)) : Latest(d)[i] = d + 1 - i
  BY <1>3, LatestRows
<1>6. /\ feed'.data = Latest(d) /\ feed'.data \in Seq(Nat)
      /\ Len(feed'.data) \in Nat /\ Len(feed'.data) <= d /\ Len(feed'.data) <= KeepLimit
      /\ \A i \in 1..Len(feed'.data) : feed'.data[i] = d + 1 - i
      /\ (d = 0 <=> Len(feed'.data) = 0)
  <2>1. Smaller(d, AnswerLimit) \in Nat /\ Smaller(d, AnswerLimit) <= d
        /\ Smaller(d, AnswerLimit) <= KeepLimit /\ (d = 0 <=> Smaller(d, AnswerLimit) = 0)
    BY <1>3, BellConstants DEF Smaller
  <2> QED
    BY <1>3, <1>4, <1>5, <2>1
<1>7. \A i \in 1..Len(feed'.data) : feed'.data[i] \in 1..stream /\ feed'.data[i] <= d
  BY <1>1, <1>3, <1>6
<1>8. d # 0 => 1 \in 1..Len(feed'.data) /\ feed'.data[1] = d
  BY <1>3, <1>6
<1>9. ~overtaken' => heard <= d
  <2>1. \A row \in ToSet(feed.answer) : row \in Nat /\ row <= d
    <3>1. DOMAIN feed.answer = 1..Len(feed.answer) /\ feed.answer = feed'.data
      BY <1>4, <1>6
    <3>2. \A i \in 1..Len(feed.answer) : feed.answer[i] \in Nat /\ feed.answer[i] <= d
      BY <1>1, <1>7, <3>1
    <3> QED
      BY <3>1, <3>2 DEF ToSet
  <2> DEFINE S == {0} \cup ToSet(feed.answer)
  <2>2. S \subseteq 0..d /\ S # {}
    BY <1>3, <2>1
  <2> HIDE DEF S
  <2>3. Max(S) \in S
    BY <1>3, <2>2, HasGreatest
  <2>4. Max(S) \in 0..d
    BY <2>2, <2>3
  <2>5. overtaken' <=> heard > Max(S)
    BY <1>2 DEF S
  <2>6. ~(heard > Max(S)) => heard <= d
    BY <1>1, <1>3, <2>4
  <2> QED
    BY <2>5, <2>6
<1>10. /\ primed' \in BOOLEAN /\ newest' \in Nat /\ (primed => primed')
       /\ d # 0 => primed' /\ newest' = d
       /\ d = 0 => primed' = primed /\ newest' = newest
       /\ \A alert \in rung' : alert \in rung \/ (primed /\ alert = newest' /\ newest' # newest)
  BY <1>0, <1>2, <1>6, <1>8, Ringing
<1>11. BellTyped'
  <2>1. strayed' \in BOOLEAN /\ overtaken' \in BOOLEAN
    BY <1>0, <1>2 DEF BellTyped
  <2>2. {bellOpen', sound', primed', overtaken', strayed'} \subseteq BOOLEAN
    BY <1>0, <1>2, <1>10, <2>1 DEF BellTyped
  <2> QED
    BY <1>0, <1>1, <1>2, <1>10, <2>2 DEF BellTyped
<1>12. FeedTyped'
  <2>1. Distinct(feed'.data)
    BY <1>3, <1>6 DEF Distinct
  <2>2. feed'.fetch \in {"idle", "asked", "answered"} /\ feed'.fetch # "answered"
        /\ feed'.loaded \in BOOLEAN
    BY <1>4
  <2> QED
    BY <1>2, <1>4, <1>6, <1>7, <2>1, <2>2 DEF FeedTyped, Rows
<1>13. PassedInv'
  <2>1. \A i \in 1..Len(feed'.data) : feed'.data[i] <= Larger(durable, heard)
    BY <1>1, <1>3, <1>7 DEF Larger
  <2>2. primed' => newest' >= backlog /\ newest' <= Larger(durable, heard)
    <3>1. CASE d = 0
      BY <1>0, <1>10, <3>1 DEF PassedInv, Passed
    <3>2. CASE d # 0
      BY <1>1, <1>3, <1>10, <3>2 DEF Larger
    <3> QED
      BY <3>1, <3>2
  <2>3. Len(feed'.data) # 0 => primed' /\ newest' = feed'.data[1]
    BY <1>6, <1>8, <1>10
  <2> QED
    BY <1>2, <1>4, <2>1, <2>2, <2>3 DEF PassedInv, Passed, Rows
<1>14. QuietInv'
  <2>1. SUFFICES ASSUME ~strayed'
                 PROVE  /\ \A alert \in looked : Stamp(alert) <= seen
                             /\ \E i \in 1..Len(feed'.data) : alert <= feed'.data[i]
                        /\ \A alert \in rung' : alert > backlog
    BY <1>2 DEF QuietInv, Rows, Stamp
  <2>2. QuietInv /\ ~strayed /\ heard <= d
    BY <1>2, <1>9, <2>1 DEF BellInv
  <2>3. Larger(d, heard) = d
    BY <1>1, <1>3, <2>2 DEF Larger
  <2>4. ASSUME NEW alert \in looked
        PROVE  \E i \in 1..Len(feed'.data) : alert <= feed'.data[i]
    <3>1. PICK j \in 1..Len(Rows) : alert <= Rows[j]
      BY <2>2 DEF QuietInv
    <3>2. alert \in Nat /\ Rows[j] \in 1..stream /\ Rows[j] <= d
      BY <1>0, <2>3 DEF BellTyped, FeedTyped, PassedInv, Passed, d
    <3>3. alert <= d /\ d # 0
      BY <1>1, <1>3, <3>1, <3>2
    <3> QED
      BY <1>8, <3>3
  <2>5. ASSUME primed, newest' # newest PROVE newest' > backlog
    <3>1. d # 0 /\ newest' = d
      BY <1>10, <2>5
    <3>2. newest \in Nat /\ newest >= backlog /\ newest <= d
      BY <1>0, <2>3, <2>5 DEF BellTyped, PassedInv, Passed, d
    <3> QED
      BY <1>1, <1>3, <2>5, <3>1, <3>2
  <2> QED
    BY <1>10, <2>2, <2>4, <2>5 DEF QuietInv
<1>15. SettledInv'
  <2>1. SUFFICES ASSUME ~overtaken'
                 PROVE  \E h \in 0..heard, e \in 0..stream : h <= e /\ Follows(feed'.data, heard, h, e)
    BY <1>2 DEF SettledInv, Rows
  <2>2. heard \in 0..d /\ heard \in 0..heard /\ d \in 0..stream /\ heard <= d
    BY <1>1, <1>3, <1>9, <2>1
  <2>3. Follows(feed'.data, heard, heard, d)
    BY <1>3, <1>6, <2>2, FollowsAnswer
  <2> QED
    BY <2>2, <2>3
<1> QED
  BY <1>11, <1>12, <1>13, <1>14, <1>15 DEF BellInv

\* The bell is opened and closed, its sound turned on and off: the rows stay,
\* so that nothing rings.
LEMMA MemberKeeps ==
  ASSUME BellInv, PressBell \/ ClickAway \/ ToggleSound
  PROVE  BellInv'
<1>0. FeedTyped /\ BellTyped /\ PassedInv /\ QuietInv /\ SettledInv
  BY DEF BellInv
<1>1. /\ stream' = stream /\ durable' = durable /\ heard' = heard /\ line' = line /\ feed' = feed
      /\ overtaken' = overtaken /\ strayed' = strayed /\ backlog' = backlog
      /\ Rings \/ (newest' = newest /\ primed' = primed /\ rung' = rung)
      /\ bellOpen' \in BOOLEAN /\ sound' \in BOOLEAN
      /\ (PressBell /\ MarkSeen) \/ (seen' = seen /\ looked' = looked)
  <2>1. {bellOpen, sound} \subseteq BOOLEAN
    BY <1>0 DEF BellTyped
  <2>2. CASE PressBell
    BY <2>1, <2>2 DEF PressBell, Backdrop, BellPast
  <2>3. CASE ClickAway
    BY <2>1, <2>3 DEF ClickAway, Backdrop, BellPast
  <2>4. CASE ToggleSound
    BY <2>1, <2>4 DEF ToggleSound, Backdrop, BellPast
  <2> QED
    BY <2>2, <2>3, <2>4
<1>2. /\ stream \in Nat /\ Rows \in Seq(Nat) /\ Len(Rows) \in Nat /\ Rows = feed.data
      /\ \A i \in 1..Len(Rows) : Rows[i] \in 1..stream
  <2>1. stream \in Nat /\ Rows \in Seq(Nat) /\ \A i \in 1..Len(Rows) : Rows[i] \in 1..stream
    BY <1>0 DEF BellTyped, FeedTyped
  <2> QED
    BY <2>1 DEF Rows
<1>3. /\ newest' = newest /\ primed' = primed
      /\ \A alert \in rung' : alert \in rung
  <2>1. CASE Rings
    <3>1. feed'.data \in Seq(Nat) /\ feed'.data = feed.data
      BY <1>1, <1>2
    <3> QED
      BY <1>0, <2>1, <3>1, Ringing
  <2>2. CASE ~Rings
    BY <1>1, <2>2
  <2> QED
    BY <2>1, <2>2
<1>4. /\ seen' \in 0..(2 * stream + 1) /\ looked' \subseteq Nat
      /\ ~strayed => \A alert \in looked' : Stamp(alert) <= seen' /\ \E i \in 1..Len(Rows) : alert <= Rows[i]
  <2>1. CASE seen' = seen /\ looked' = looked
    BY <1>0, <2>1 DEF BellTyped, QuietInv
  <2>2. CASE MarkSeen /\ Len(Rows) = 0
    <3>1. feed.data = Nothing /\ ToSet(feed.data) = {}
      <4>1. feed.data = << >>
        BY <1>2, <2>2
      <4> QED
        BY <4>1 DEF ToSet, Nothing
    <3>2. seen' = 2 * stream + 1 /\ looked' = looked
      BY <2>2, <3>1 DEF MarkSeen, Stamp
    <3>3. ~strayed => \A alert \in looked : FALSE
      BY <1>0, <2>2 DEF QuietInv
    <3> QED
      BY <1>0, <1>2, <3>2, <3>3 DEF BellTyped
  <2>3. CASE MarkSeen /\ Len(Rows) # 0
    <3> DEFINE S == ToSet(feed.data)
    <3>1. DOMAIN Rows = 1..Len(Rows) /\ 1 \in 1..Len(Rows)
      BY <1>2, <2>3
    <3>2. /\ \A x \in S : \E i \in 1..Len(Rows) : x = Rows[i]
          /\ \A i \in 1..Len(Rows) : Rows[i] \in S
      BY <1>2, <3>1 DEF ToSet
    <3>3. feed.data # Nothing
      BY <1>2, <2>3 DEF Nothing
    <3>4. seen' = Stamp(Max(S)) /\ looked' = looked \cup S
      BY <2>3, <3>3 DEF MarkSeen
    <3> HIDE DEF S
    <3>5. S \subseteq 0..stream /\ S # {}
      BY <1>2, <3>1, <3>2
    <3>6. Max(S) \in S /\ \A y \in S : y <= Max(S)
      BY <1>2, <3>5, HasGreatest
    <3>7. Max(S) \in Nat /\ Max(S) <= stream
      <4>1. Max(S) \in 0..stream
        BY <3>5, <3>6
      <4> QED
        BY <1>2, <4>1
    <3>8. seen' \in 0..(2 * stream + 1)
      BY <1>2, <3>4, <3>7 DEF Stamp
    <3>9. ASSUME NEW alert \in looked', ~strayed
          PROVE  Stamp(alert) <= seen' /\ \E i \in 1..Len(Rows) : alert <= Rows[i]
      <4>1. CASE alert \in S
        <5>1. PICK i \in 1..Len(Rows) : alert = Rows[i]
          BY <3>2, <4>1
        <5>2. alert \in Nat /\ alert <= Max(S)
          BY <3>5, <3>6, <4>1
        <5> QED
          BY <3>4, <3>7, <5>1, <5>2 DEF Stamp
      <4>2. CASE alert \in looked
        <5>1. PICK i \in 1..Len(Rows) : alert <= Rows[i]
          BY <1>0, <3>9, <4>2 DEF QuietInv
        <5>2. alert \in Nat /\ Rows[i] \in Nat /\ Rows[i] <= Max(S)
          BY <1>0, <1>2, <3>2, <3>6, <4>2 DEF BellTyped
        <5> QED
          BY <3>4, <3>7, <5>1, <5>2 DEF Stamp
      <4> QED
        BY <3>4, <4>1, <4>2
    <3>10. looked' \subseteq Nat
      BY <1>0, <3>4, <3>5 DEF BellTyped
    <3> QED
      BY <3>8, <3>9, <3>10
  <2> QED
    BY <1>1, <2>1, <2>2, <2>3
<1>5. BellTyped'
  <2>1. {bellOpen', sound', primed', overtaken', strayed'} \subseteq BOOLEAN
    BY <1>0, <1>1, <1>3 DEF BellTyped
  <2> QED
    BY <1>0, <1>1, <1>3, <1>4, <2>1 DEF BellTyped
<1>6. FeedTyped'
  BY <1>0, <1>1 DEF FeedTyped, Rows
<1>7. PassedInv'
  BY <1>0, <1>1, <1>3 DEF PassedInv, Passed, Rows
<1>8. QuietInv'
  BY <1>0, <1>1, <1>3, <1>4 DEF QuietInv, Rows
<1>9. SettledInv'
  BY <1>0, <1>1 DEF SettledInv, Rows
<1> QED
  BY <1>5, <1>6, <1>7, <1>8, <1>9 DEF BellInv

LEMMA BellAlways == BellSpec => []BellInv
<1>1. BellInit => BellInv
  BY BellInitially
<1>2. BellInv /\ [BellNext]_bellVars => BellInv'
  <2>1. SUFFICES ASSUME BellInv, [BellNext]_bellVars PROVE BellInv'
    OBVIOUS
  <2>2. CASE Raised \/ WrittenDown \/ LineAccepted \/ Unheard \/ LineSubscribed \/ LineDown
    BY <2>1, <2>2, BackstageKeeps
  <2>3. CASE LineUp \/ FeedRead \/ FeedFails
    BY <2>1, <2>3, FetchKeepsBell
  <2>4. CASE Hear
    BY <2>1, <2>4, HearKeeps
  <2>5. CASE FeedArrives
    BY <2>1, <2>5, ArrivesKeeps
  <2>6. CASE PressBell \/ ClickAway \/ ToggleSound
    BY <2>1, <2>6, MemberKeeps
  <2>7. CASE UNCHANGED bellVars
    BY <2>1, <2>7 DEF bellVars, BellInv, BellTyped, FeedTyped, PassedInv, Passed, QuietInv,
                      SettledInv, Rows
  <2> QED
    BY <2>1, <2>2, <2>3, <2>4, <2>5, <2>6, <2>7 DEF BellNext
<1> QED
  BY <1>1, <1>2, PTL DEF BellSpec

\* The bell's state has its types, and no alert is listed twice, for any number
\* of alerts, whatever an answer holds and however many rows are kept.
THEOREM BellTypeCorrect == BellSpec => []BellTypeOK
<1>1. BellInv => BellTypeOK
  <2>1. SUFFICES ASSUME BellInv PROVE BellTypeOK
    OBVIOUS
  <2>2. BellTyped /\ FeedTyped
    BY <2>1 DEF BellInv
  <2>3. /\ feed.data \in Seq(Nat) /\ Len(feed.data) <= KeepLimit
        /\ \A i \in 1..Len(feed.data) : feed.data[i] \in 1..stream
        /\ \A i, j \in 1..Len(feed.data) : feed.data[i] = feed.data[j] => i = j
    BY <2>2 DEF FeedTyped, Rows, Distinct
  <2>4. DOMAIN feed.data = 1..Len(feed.data)
    BY <2>3
  <2>5. IsInjective(feed.data)
    BY <2>3, <2>4 DEF IsInjective
  <2>6. ToSet(feed.data) \subseteq 1..stream
    BY <2>3, <2>4 DEF ToSet
  <2> QED
    BY <2>2, <2>3, <2>5, <2>6 DEF BellTypeOK, BellTyped
<1> QED
  BY <1>1, BellAlways, PTL

\* When nothing is on its way the bell shows the last alerts, newest first: the
\* rows are what was heard since an answer and what remains of that answer,
\* and an answer that lacks nothing is followed by everything.
THEOREM TheBellSettles == BellSpec => []BellSettles
<1>1. BellInv => BellSettles
  <2>1. SUFFICES ASSUME BellInv, line = "up", heard = stream, NotFetching(feed), ~overtaken
                 PROVE  SubSeq(feed.data, 1, Min({Len(feed.data), AnswerLimit})) = Latest(stream)
    BY DEF BellSettles
  <2>2. stream \in Nat /\ heard \in Nat
    BY <2>1 DEF BellInv, BellTyped
  <2>3. /\ Rows \in Seq(Nat) /\ Len(Rows) \in Nat /\ Len(Rows) <= KeepLimit /\ Rows = feed.data
        /\ \A i \in 1..Len(Rows) : Rows[i] \in 1..stream
    <3>1. /\ Rows \in Seq(Nat) /\ Len(Rows) <= KeepLimit
          /\ \A i \in 1..Len(Rows) : Rows[i] \in 1..stream
      BY <2>1 DEF BellInv, FeedTyped
    <3> QED
      BY <3>1 DEF Rows
  <2>4. PICK h \in 0..heard : \E d \in 0..stream : h <= d /\ Follows(Rows, heard, h, d)
    BY <2>1 DEF BellInv, SettledInv
  <2>5. PICK d \in 0..stream : h <= d /\ Follows(Rows, heard, h, d)
    BY <2>4
  <2>6. \A i \in 1..Len(Rows) : Rows[i] = stream + 1 - i
    <3>1. \A i \in 1..Len(Rows) : Rows[i] = Expected(heard, h, d, i)
      BY <2>5 DEF Follows
    <3>2. ~(heard < d)
      BY <2>1, <2>2
    <3> QED
      BY <2>1, <3>1, <3>2 DEF Expected
  <2> DEFINE n == Smaller(Len(Rows), AnswerLimit)
  <2>7. n = Smaller(stream, AnswerLimit) /\ n \in Nat /\ n <= Len(Rows)
    <3>1. Len(Rows) >= Smaller(KeepLimit, Expect(stream, h, d))
      BY <2>1, <2>5 DEF Follows
    <3>2. Len(Rows) <= stream
      <4>1. CASE Len(Rows) = 0
        BY <2>2, <4>1
      <4>2. CASE Len(Rows) # 0
        <5>1. Len(Rows) \in 1..Len(Rows)
          BY <2>3, <4>2
        <5>2. Rows[Len(Rows)] = stream + 1 - Len(Rows) /\ Rows[Len(Rows)] \in 1..stream
          BY <2>3, <2>6, <5>1
        <5> QED
          BY <2>2, <2>3, <5>2
      <4> QED
        BY <4>1, <4>2
    <3>3. h \in 0..stream /\ d \in 0..stream
      BY <2>1
    <3>4. Smaller(KeepLimit, Expect(stream, h, d)) >= Smaller(stream, AnswerLimit)
      BY <2>2, <2>5, <3>3, BellConstants DEF Smaller, Larger, Over, Expect
    <3>5. Smaller(KeepLimit, Expect(stream, h, d)) \in Int
      BY <2>2, <3>3, BellConstants DEF Smaller, Larger, Over, Expect
    <3>6. Len(Rows) >= Smaller(stream, AnswerLimit)
      <4>1. Smaller(stream, AnswerLimit) \in Int
        BY <2>2, BellConstants DEF Smaller
      <4> QED
        BY <2>3, <3>1, <3>4, <3>5, <4>1
    <3> QED
      BY <2>2, <2>3, <3>2, <3>6, BellConstants DEF Smaller
  <2>8. Min({Len(feed.data), AnswerLimit}) = n
    BY <2>3, BellConstants, MinOfTwo
  <2> HIDE DEF n
  <2>9. SubSeq(Rows, 1, n) = [i \in 1..n |-> stream + 1 - i]
    <3>1. /\ SubSeq(Rows, 1, n) \in Seq(Nat) /\ Len(SubSeq(Rows, 1, n)) = n
          /\ \A i \in 1..n : SubSeq(Rows, 1, n)[i] = Rows[i]
      BY <2>3, <2>7
    <3>2. \A i \in 1..n : Rows[i] = stream + 1 - i
      BY <2>3, <2>6, <2>7
    <3> DEFINE short == SubSeq(Rows, 1, n)
    <3>3. short = [i \in 1..Len(short) |-> short[i]]
      BY <3>1
    <3> HIDE DEF short
    <3>4. Len(short) = n /\ \A i \in 1..n : short[i] = stream + 1 - i
      BY <3>1, <3>2 DEF short
    <3>5. short = [i \in 1..n |-> stream + 1 - i]
      BY <3>3, <3>4
    <3> QED
      BY <3>5 DEF short
  <2>10. Latest(stream) = [i \in 1..n |-> stream + 1 - i]
    <3>1. Min({stream, AnswerLimit}) = n
      BY <2>2, <2>7, BellConstants, MinOfTwo
    <3> QED
      BY <3>1 DEF Latest
  <2> QED
    BY <2>3, <2>8, <2>9, <2>10
<1> QED
  BY <1>1, BellAlways, PTL

\* What the member has had before is not brought up again: no row is newer than
\* what was written down or heard, so that whatever takes the place of the rows
\* is as new as what was looked at and as what rang.
THEOREM OldStaysQuiet == BellSpec => []OldIsQuiet
<1>1. BellInv => OldIsQuiet
  <2>1. SUFFICES ASSUME BellInv, ~strayed
                 PROVE  looked \cap Unread = {} /\ \A alert \in rung : alert > backlog
    BY DEF OldIsQuiet
  <2>2. QuietInv /\ looked \subseteq Nat /\ seen \in Nat
    BY <2>1 DEF BellInv, BellTyped
  <2>3. \A alert \in looked : Stamp(alert) <= seen /\ Stamp(alert) \in Nat
    BY <2>1, <2>2 DEF QuietInv, Stamp
  <2>4. \A alert \in Unread : Stamp(alert) > seen
    BY DEF Unread
  <2>5. looked \cap Unread = {}
    <3>1. SUFFICES ASSUME NEW alert \in looked, alert \in Unread PROVE FALSE
      OBVIOUS
    <3>2. Stamp(alert) > seen /\ Stamp(alert) <= seen /\ Stamp(alert) \in Nat
      BY <2>3, <2>4, <3>1
    <3> QED
      BY <2>2, <3>2
  <2> QED
    BY <2>1, <2>2, <2>5 DEF QuietInv
<1> QED
  BY <1>1, BellAlways, PTL

-----------------------------------------------------------------------------
(***************************************************************************)
(* The rows on the screen.  While the line is live and the list is not     *)
(* known to be behind, the rows of an item are those there are, or an      *)
(* event about it is still to come, and the last event about an item says  *)
(* how it is (LogInv, RowsInv); the count likewise, of the events that may *)
(* change it (CountInv).  At rest nothing is to come.                      *)
(***************************************************************************)
AllRows == {Row(id, n) : id \in Items, n \in 0..Terminal}
DistinctIds(rows) == \A i, j \in 1..Len(rows) : rows[i].id = rows[j].id => i = j
RowsOf(rows, id) == {row \in ToSet(rows) : row.id = id}
\* The rows there are of each item: one or none.
Current == [id \in Items |-> IF Gone(Row(id, stage[id])) THEN {} ELSE {Row(id, stage[id])}]

GoneOf(row, of) == row.stage = 0 \/ (of = "orders" /\ row.stage = Terminal)
\* An event of one row or of all the open orders, and what it leaves of an item.
Event(e, of) ==
  /\ e.all => of = "orders" /\ DistinctIds(e.rows)
  /\ ~e.all => Len(e.rows) = 1 /\ (of = "orders" => e.rows[1].stage # 0)
Touches(e, id) == e.all \/ e.rows[1].id = id
Left(e, id, of) ==
  IF e.all THEN RowsOf(e.rows, id) ELSE IF GoneOf(e.rows[1], of) THEN {} ELSE {e.rows[1]}
\* Whether it may be about the number of rows.
Recounts(e, of) == e.all \/ e.rows[1].stage = 1 \/ GoneOf(e.rows[1], of)

Events == [rows : Seq(AllRows), all : BOOLEAN]
LiveTyped ==
  /\ kind \in {"positions", "orders"}
  /\ stage \in [Items -> 0..Terminal] /\ (kind = "positions" => \A id \in Items : stage[id] # Terminal)
  /\ socket \in {"closed", "accepted", "subscribed", "live", "dead"}
  /\ log \in Seq(Events) /\ cursor \in 0..Len(log)
  /\ connected \in BOOLEAN /\ behind \subseteq Lists
  /\ \A k \in 1..Len(log) : Event(log[k], kind)
QueriesTyped ==
  /\ query = [l \in Lists |-> query[l]]
  /\ \A l \in Lists :
       /\ Query(query[l]) /\ query[l].fetch \in {"idle", "asked", "answered"}
       /\ query[l].loaded \in BOOLEAN
       /\ query[l].fetch = "idle" /\ l \notin behind => query[l].loaded
RowsTyped ==
  /\ query["rows"].data \in Seq(AllRows)
  /\ query["rows"].fetch = "answered" => query["rows"].answer \in Seq(AllRows)
OneRowInv ==
  kind = "positions" =>
    /\ DistinctIds(query["rows"].data)
    /\ query["rows"].fetch = "answered" => DistinctIds(query["rows"].answer)
\* The last event about an item says how it is.
LogSays(events, current, of) ==
  \A id \in DOMAIN current : \A k \in 1..Len(events) :
    Touches(events[k], id) /\ (\A j \in (k + 1)..Len(events) : ~Touches(events[j], id)) =>
      Left(events[k], id, of) = current[id]
LogInv == LogSays(log, Current, kind)
\* The rows of an item are those there are, or an event about it is to come.
Agrees(rows, from, events, current) ==
  /\ DistinctIds(rows)
  /\ \A id \in DOMAIN current :
       (\A k \in (from + 1)..Len(events) : ~Touches(events[k], id)) => RowsOf(rows, id) = current[id]
RowsInv ==
  socket = "live" /\ "rows" \notin behind =>
    /\ query["rows"].fetch = "idle" => Agrees(query["rows"].data, cursor, log, Current)
    /\ query["rows"].fetch = "answered" => Agrees(query["rows"].answer, cursor, log, Current)
\* The number is that of the rows, or an event that may change it is to come.
Counted(value, from, events, of, count) ==
  (\A k \in (from + 1)..Len(events) : ~Recounts(events[k], of)) => value = <<count>>
CountInv ==
  socket = "live" /\ "accounts" \notin behind =>
    /\ query["accounts"].fetch = "idle" =>
         Counted(query["accounts"].data, cursor, log, kind, Cardinality(OpenRows))
    /\ query["accounts"].fetch = "answered" =>
         Counted(query["accounts"].answer, cursor, log, kind, Cardinality(OpenRows))
LiveInv ==
  LiveTyped /\ QueriesTyped /\ RowsTyped /\ OneRowInv /\ LogInv /\ RowsInv /\ CountInv

-----------------------------------------------------------------------------
\* What a row is made of.
LEMMA RowIs ==
  ASSUME NEW id, NEW n \in Nat
  PROVE  /\ Row(id, n).id = id /\ Row(id, n).stage = n
         /\ Row(id, n).perm \in BOOLEAN /\ (Row(id, n).perm <=> kind = "orders" /\ n > 1)
  BY DEF Row

\* There are finitely many items.
LEMMA FiniteItems == IsFiniteSet(Items)
  BY LiveAssumption DEF LiveAssumption, Items

\* The rows that are open: one for each item that is.
LEMMA OpenAre ==
  ASSUME stage \in [Items -> 0..Terminal]
  PROVE  /\ IsFiniteSet(OpenRows) /\ OpenRows \subseteq AllRows
         /\ \A r, s \in OpenRows : r.id = s.id => r = s
         /\ \A id \in Items : {row \in OpenRows : row.id = id} = Current[id]
         /\ \A row \in OpenRows : row.id \in Items
<1> DEFINE every == {Row(id, stage[id]) : id \in Items}
           f == [id \in Items |-> Row(id, stage[id])]
<1>1. \A id \in Items : stage[id] \in 0..Terminal /\ stage[id] \in Nat
  BY DEF Terminal
<1>2. \A id \in Items : Row(id, stage[id]).id = id
  BY <1>1, RowIs
<1>3. IsFiniteSet(every)
  <2>1. f \in Surjection(Items, every)
    BY DEF Surjection
  <2> QED
    BY <2>1, FiniteItems, FS_Surjection
<1>4. OpenRows \subseteq every /\ OpenRows = {row \in every : ~Gone(row)}
  BY DEF OpenRows
<1>5. IsFiniteSet(OpenRows)
  BY <1>3, <1>4, FS_Subset
<1>6. OpenRows \subseteq AllRows
  BY <1>1, <1>4 DEF AllRows
<1>7. \A r \in OpenRows : r.id \in Items /\ r = Row(r.id, stage[r.id])
  BY <1>2, <1>4
<1>8. \A id \in Items : {row \in OpenRows : row.id = id} = Current[id]
  <2>1. SUFFICES ASSUME NEW id \in Items PROVE {row \in OpenRows : row.id = id} = Current[id]
    OBVIOUS
  <2>2. Current[id] = IF Gone(Row(id, stage[id])) THEN {} ELSE {Row(id, stage[id])}
    BY DEF Current
  <2>3. ~Gone(Row(id, stage[id])) => Row(id, stage[id]) \in OpenRows
    BY DEF OpenRows
  <2>4. \A row \in OpenRows : row.id = id => row = Row(id, stage[id]) /\ ~Gone(row)
    BY <1>4, <1>7
  <2> QED
    BY <1>2, <2>2, <2>3, <2>4
<1> QED
  BY <1>5, <1>6, <1>7, <1>8

\* A list of a finite set names every element of it once.
LEMMA SetListed ==
  ASSUME NEW S, IsFiniteSet(S)
  PROVE  /\ SetToSeq(S) \in Seq(S) /\ ToSet(SetToSeq(S)) = S
         /\ \A i, j \in 1..Len(SetToSeq(S)) : SetToSeq(S)[i] = SetToSeq(S)[j] => i = j
<1> DEFINE n == Cardinality(S)
           named == SetToSeq(S)
<1>1. n \in Nat /\ ExistsBijection(1..n, S)
  BY FS_CardinalityType
<1>2. PICK f : f \in [1..n -> S] /\ IsInjective(f)
  BY <1>1 DEF ExistsBijection, Bijection, Injection
<1>3. named \in [1..n -> S] /\ IsInjective(named)
  BY <1>2 DEF SetToSeq
<1> HIDE DEF named
<1>4. named \in Injection(1..n, S)
  BY <1>3 DEF Injection
<1>5. Cardinality(1..n) = n
  <2>1. Cardinality(1..n) = IF 1 > n THEN 0 ELSE n - 1 + 1
    BY <1>1, FS_Interval
  <2> QED
    BY <1>1, <2>1
<1>6. named \in Surjection(1..n, S)
  BY <1>4, <1>5, FS_Injection
<1> HIDE DEF n
<1>7. named \in Seq(S) /\ Len(named) = n /\ DOMAIN named = 1..n
  BY <1>1, <1>3, Listed
<1>8. ToSet(named) = S
  BY <1>3, <1>6, <1>7 DEF ToSet, Surjection
<1>9. \A i, j \in 1..Len(named) : named[i] = named[j] => i = j
  BY <1>3, <1>7 DEF IsInjective
<1> QED
  BY <1>7, <1>8, <1>9 DEF named

\* What the API answers of the rows.
LEMMA StoredRows ==
  ASSUME stage \in [Items -> 0..Terminal]
  PROVE  /\ Stored("rows") \in Seq(AllRows) /\ ToSet(Stored("rows")) = OpenRows
         /\ DistinctIds(Stored("rows"))
         /\ \A id \in Items : RowsOf(Stored("rows"), id) = Current[id]
<1>1. Stored("rows") = SetToSeq(OpenRows)
  BY DEF Stored
<1> DEFINE named == SetToSeq(OpenRows)
<1>2. /\ named \in Seq(OpenRows) /\ ToSet(named) = OpenRows
      /\ \A i, j \in 1..Len(named) : named[i] = named[j] => i = j
  BY OpenAre, SetListed
<1>3. /\ OpenRows \subseteq AllRows /\ \A r, s \in OpenRows : r.id = s.id => r = s
      /\ \A id \in Items : {row \in OpenRows : row.id = id} = Current[id]
  BY OpenAre
<1> HIDE DEF named
<1>4. named \in Seq(AllRows)
  BY <1>2, <1>3, SeqMonotonic
<1>5. \A i \in 1..Len(named) : named[i] \in OpenRows
  BY <1>2
<1>6. DistinctIds(named)
  BY <1>2, <1>3, <1>5 DEF DistinctIds
<1>7. \A id \in Items : RowsOf(named, id) = Current[id]
  BY <1>2, <1>3 DEF RowsOf
<1> QED
  BY <1>1, <1>2, <1>4, <1>6, <1>7 DEF named

\* The same as one formula, which holds after a step too.
LEMMA StoredNext ==
  stage \in [Items -> 0..Terminal]
    => /\ Stored("rows") \in Seq(AllRows) /\ DistinctIds(Stored("rows"))
       /\ \A id \in Items : RowsOf(Stored("rows"), id) = Current[id]
  BY StoredRows

-----------------------------------------------------------------------------
\* A sequence without one of its elements.
LEMMA Removing ==
  ASSUME NEW S, NEW s \in Seq(S), NEW i \in 1..Len(s)
  PROVE  /\ RemoveAt(s, i) \in Seq(S) /\ Len(RemoveAt(s, i)) = Len(s) - 1
         /\ \A k \in 1..(Len(s) - 1) : RemoveAt(s, i)[k] = IF k < i THEN s[k] ELSE s[k + 1]
<1> DEFINE a == SubSeq(s, 1, i - 1)
           b == SubSeq(s, i + 1, Len(s))
<1>0. Len(s) \in Nat /\ i \in Nat /\ 1 <= i /\ i <= Len(s)
  OBVIOUS
<1>1. /\ a \in Seq(S) /\ Len(a) = i - 1 /\ \A k \in 1..(i - 1) : a[k] = s[k]
  BY <1>0
<1>2. /\ b \in Seq(S) /\ Len(b) = Len(s) - i /\ \A k \in 1..(Len(s) - i) : b[k] = s[i + k]
  BY <1>0
<1>3. RemoveAt(s, i) = a \o b
  BY DEF RemoveAt
<1> HIDE DEF a, b
<1>4. /\ a \o b \in Seq(S) /\ Len(a \o b) = Len(a) + Len(b)
      /\ \A k \in 1..(Len(a) + Len(b)) : (a \o b)[k] = IF k <= Len(a) THEN a[k] ELSE b[k - Len(a)]
  BY <1>1, <1>2, ConcatProperties
<1>5. Len(a) + Len(b) = Len(s) - 1
  BY <1>0, <1>1, <1>2
<1>6. ASSUME NEW k \in 1..(Len(s) - 1)
      PROVE  (a \o b)[k] = IF k < i THEN s[k] ELSE s[k + 1]
  <2>1. CASE k < i
    BY <1>0, <1>1, <1>4, <1>5, <2>1
  <2>2. CASE ~(k < i)
    <3>1. (a \o b)[k] = b[k - (i - 1)]
      BY <1>0, <1>1, <1>4, <1>5, <2>2
    <3>2. k - (i - 1) \in 1..(Len(s) - i) /\ i + (k - (i - 1)) = k + 1
      BY <1>0, <2>2
    <3> QED
      BY <1>2, <2>2, <3>1, <3>2
  <2> QED
    BY <2>1, <2>2
<1> QED
  BY <1>3, <1>4, <1>5, <1>6

\* The rows of an item, and how they change when a row goes, comes or is replaced.
LEMMA InRows ==
  ASSUME NEW S, NEW s \in Seq(S), NEW id, NEW row
  PROVE  row \in RowsOf(s, id) <=> row.id = id /\ \E i \in 1..Len(s) : row = s[i]
<1>1. DOMAIN s = 1..Len(s)
  OBVIOUS
<1> QED
  BY <1>1 DEF RowsOf, ToSet

\* The rows without one of them.
LEMMA Without ==
  ASSUME NEW S, NEW s \in Seq(S), NEW i \in 1..Len(s), DistinctIds(s)
  PROVE  /\ DistinctIds(RemoveAt(s, i))
         /\ \A id : RowsOf(RemoveAt(s, i), id) = IF id = s[i].id THEN {} ELSE RowsOf(s, id)
<1> DEFINE t == RemoveAt(s, i)
<1>0. Len(s) \in Nat /\ i \in Nat /\ 1 <= i /\ i <= Len(s)
  OBVIOUS
<1>1. /\ t \in Seq(S) /\ Len(t) = Len(s) - 1
      /\ \A k \in 1..(Len(s) - 1) : t[k] = IF k < i THEN s[k] ELSE s[k + 1]
  BY Removing
<1> HIDE DEF t
<1>2. ASSUME NEW k \in 1..Len(t)
      PROVE  \E j \in 1..Len(s) : j # i /\ t[k] = s[j] /\ j = IF k < i THEN k ELSE k + 1
  <2>1. k \in Nat /\ 1 <= k /\ k <= Len(s) - 1 /\ k \in 1..(Len(s) - 1)
    BY <1>0, <1>1
  <2>2. CASE k < i
    BY <1>0, <1>1, <2>1, <2>2
  <2>3. CASE ~(k < i)
    BY <1>0, <1>1, <2>1, <2>3
  <2> QED
    BY <2>2, <2>3
<1>3. ASSUME NEW j \in 1..Len(s), j # i
      PROVE  \E k \in 1..Len(t) : t[k] = s[j]
  <2>1. CASE j < i
    <3>1. j \in 1..(Len(s) - 1)
      BY <1>0, <2>1
    <3> QED
      BY <1>1, <2>1, <3>1
  <2>2. CASE ~(j < i)
    <3>1. j - 1 \in 1..(Len(s) - 1) /\ ~(j - 1 < i) /\ (j - 1) + 1 = j
      BY <1>0, <1>3, <2>2
    <3> QED
      BY <1>1, <3>1
  <2> QED
    BY <2>1, <2>2
<1>4. DistinctIds(t)
  <2>1. SUFFICES ASSUME NEW k \in 1..Len(t), NEW l \in 1..Len(t), t[k].id = t[l].id
                 PROVE  k = l
    BY DEF DistinctIds
  <2>2. PICK j \in 1..Len(s) : t[k] = s[j] /\ j = IF k < i THEN k ELSE k + 1
    BY <1>2
  <2>3. PICK m \in 1..Len(s) : t[l] = s[m] /\ m = IF l < i THEN l ELSE l + 1
    BY <1>2
  <2>4. j = m
    BY <2>1, <2>2, <2>3 DEF DistinctIds
  <2>5. k \in Nat /\ l \in Nat
    BY <1>0, <1>1
  <2> QED
    BY <1>0, <2>2, <2>3, <2>4, <2>5
<1>5. ASSUME NEW id PROVE RowsOf(t, id) = IF id = s[i].id THEN {} ELSE RowsOf(s, id)
  <2>1. ASSUME NEW row
        PROVE  row \in RowsOf(t, id) <=> row \in RowsOf(s, id) /\ id # s[i].id
    <3>1. ASSUME row \in RowsOf(t, id) PROVE row \in RowsOf(s, id) /\ id # s[i].id
      <4>1. PICK k \in 1..Len(t) : row = t[k] /\ row.id = id
        BY <1>1, <3>1, InRows
      <4>2. PICK j \in 1..Len(s) : j # i /\ t[k] = s[j]
        BY <1>2
      <4> QED
        BY <4>1, <4>2, InRows DEF DistinctIds
    <3>2. ASSUME row \in RowsOf(s, id), id # s[i].id PROVE row \in RowsOf(t, id)
      <4>1. PICK j \in 1..Len(s) : row = s[j] /\ row.id = id
        BY <3>2, InRows
      <4>2. j # i
        BY <3>2, <4>1
      <4>3. PICK k \in 1..Len(t) : t[k] = s[j]
        BY <1>3, <4>2
      <4> QED
        BY <1>1, <4>1, <4>3, InRows
    <3> QED
      BY <3>1, <3>2
  <2> QED
    BY <2>1
<1> QED
  BY <1>4, <1>5 DEF t

Topped(t, data, s) == t = <<data>> \o s
Replaced(t, s, i, data) == t = [s EXCEPT ![i] = data]
\* The rows under a new one.
LEMMA OnTop ==
  ASSUME NEW S, NEW s \in Seq(S), NEW data \in S, NEW t, Topped(t, data, s)
  PROVE  /\ t \in Seq(S)
         /\ DistinctIds(t) =>
              \A id : RowsOf(t, id) = IF id = data.id THEN {data} ELSE RowsOf(s, id)
<1> DEFINE one == <<data>>
<1>0. Len(s) \in Nat
  OBVIOUS
<1>1. one \in Seq(S) /\ Len(one) = 1 /\ one[1] = data /\ t = one \o s
  BY DEF Topped
<1> HIDE DEF one
<1>2. /\ t \in Seq(S) /\ Len(t) = 1 + Len(s)
      /\ \A k \in 1..(1 + Len(s)) : t[k] = IF k <= 1 THEN one[k] ELSE s[k - 1]
  <2>1. /\ t \in Seq(S) /\ Len(t) = Len(one) + Len(s)
        /\ \A k \in 1..(Len(one) + Len(s)) : t[k] = IF k <= Len(one) THEN one[k] ELSE s[k - Len(one)]
    BY <1>1, ConcatProperties
  <2> QED
    BY <1>1, <2>1
<1>3. t[1] = data /\ 1 \in 1..Len(t)
  BY <1>0, <1>1, <1>2
<1>4. ASSUME NEW j \in 1..Len(s) PROVE t[j + 1] = s[j] /\ j + 1 \in 1..Len(t) /\ j + 1 # 1
  BY <1>0, <1>2
<1>5. ASSUME NEW k \in 1..Len(t) PROVE k = 1 \/ \E j \in 1..Len(s) : k = j + 1 /\ t[k] = s[j]
  <2>1. CASE k = 1
    BY <2>1
  <2>2. CASE k # 1
    <3>1. k - 1 \in 1..Len(s) /\ k = (k - 1) + 1
      BY <1>0, <1>2, <2>2
    <3> QED
      BY <1>4, <3>1
  <2> QED
    BY <2>1, <2>2
<1>6. ASSUME DistinctIds(t), NEW id
      PROVE  RowsOf(t, id) = IF id = data.id THEN {data} ELSE RowsOf(s, id)
  <2>1. \A j \in 1..Len(s) : s[j].id # data.id
    BY <1>3, <1>4, <1>6 DEF DistinctIds
  <2>2. ASSUME NEW row
        PROVE  row \in RowsOf(t, id) <=>
                 IF id = data.id THEN row = data ELSE row \in RowsOf(s, id)
    <3>1. row \in RowsOf(t, id) <=> row.id = id /\ \E k \in 1..Len(t) : row = t[k]
      BY <1>2, InRows
    <3>2. row \in RowsOf(s, id) <=> row.id = id /\ \E j \in 1..Len(s) : row = s[j]
      BY InRows
    <3>3. (\E k \in 1..Len(t) : row = t[k]) <=> row = data \/ \E j \in 1..Len(s) : row = s[j]
      <4>1. ASSUME NEW k \in 1..Len(t), row = t[k]
            PROVE  row = data \/ \E j \in 1..Len(s) : row = s[j]
        BY <1>3, <1>5, <4>1
      <4>2. ASSUME NEW j \in 1..Len(s), row = s[j] PROVE \E k \in 1..Len(t) : row = t[k]
        BY <1>4, <4>2
      <4> QED
        BY <1>3, <4>1, <4>2
    <3> QED
      BY <2>1, <3>1, <3>2, <3>3
  <2> QED
    BY <2>2
<1> QED
  BY <1>2, <1>6

\* The rows with one more after them.
LEMMA AtEnd ==
  ASSUME NEW S, NEW s \in Seq(S), NEW data \in S, DistinctIds(s),
         \A j \in 1..Len(s) : s[j].id # data.id
  PROVE  /\ Append(s, data) \in Seq(S) /\ DistinctIds(Append(s, data))
         /\ \A id : RowsOf(Append(s, data), id) = IF id = data.id THEN {data} ELSE RowsOf(s, id)
<1> DEFINE t == Append(s, data)
<1>0. Len(s) \in Nat
  OBVIOUS
<1>1. /\ t \in Seq(S) /\ Len(t) = Len(s) + 1 /\ t[Len(s) + 1] = data
      /\ \A j \in 1..Len(s) : t[j] = s[j]
  OBVIOUS
<1> HIDE DEF t
<1>2. ASSUME NEW k \in 1..Len(t)
      PROVE  (k \in 1..Len(s) /\ t[k] = s[k]) \/ (k = Len(s) + 1 /\ t[k] = data)
  <2>1. k \in 1..Len(s) \/ k = Len(s) + 1
    BY <1>0, <1>1
  <2> QED
    BY <1>1, <2>1
<1>3. DistinctIds(t)
  <2>1. SUFFICES ASSUME NEW k \in 1..Len(t), NEW l \in 1..Len(t), t[k].id = t[l].id
                 PROVE  k = l
    BY DEF DistinctIds
  <2> QED
    BY <1>2, <2>1 DEF DistinctIds
<1>4. ASSUME NEW id
      PROVE  RowsOf(t, id) = IF id = data.id THEN {data} ELSE RowsOf(s, id)
  <2>1. ASSUME NEW row
        PROVE  row \in RowsOf(t, id) <=>
                 IF id = data.id THEN row = data ELSE row \in RowsOf(s, id)
    <3>1. row \in RowsOf(t, id) <=> row.id = id /\ \E k \in 1..Len(t) : row = t[k]
      BY <1>1, InRows
    <3>2. row \in RowsOf(s, id) <=> row.id = id /\ \E j \in 1..Len(s) : row = s[j]
      BY InRows
    <3>3. (\E k \in 1..Len(t) : row = t[k]) <=> row = data \/ \E j \in 1..Len(s) : row = s[j]
      <4>1. Len(s) + 1 \in 1..Len(t) /\ \A j \in 1..Len(s) : j \in 1..Len(t)
        BY <1>0, <1>1
      <4> QED
        BY <1>1, <1>2, <4>1
    <3> QED
      BY <3>1, <3>2, <3>3
  <2>2. CASE id = data.id
    BY <2>1, <2>2
  <2>3. CASE id # data.id
    BY <2>1, <2>3
  <2> QED
    BY <2>2, <2>3
<1> QED
  BY <1>1, <1>3, <1>4 DEF t

\* The rows with one in the place of another of its item.
LEMMA InPlace ==
  ASSUME NEW S, NEW s \in Seq(S), NEW data \in S, NEW i \in 1..Len(s), DistinctIds(s),
         s[i].id = data.id, NEW t, Replaced(t, s, i, data)
  PROVE  /\ t \in Seq(S) /\ DistinctIds(t)
         /\ \A id : RowsOf(t, id) = IF id = data.id THEN {data} ELSE RowsOf(s, id)
<1>1. /\ t \in Seq(S) /\ Len(t) = Len(s) /\ t[i] = data
      /\ \A j \in 1..Len(s) : j # i => t[j] = s[j]
  BY DEF Replaced
<1>2. \A j \in 1..Len(s) : t[j].id = s[j].id
  BY <1>1
<1>3. DistinctIds(t)
  BY <1>1, <1>2 DEF DistinctIds
<1>4. ASSUME NEW id
      PROVE  RowsOf(t, id) = IF id = data.id THEN {data} ELSE RowsOf(s, id)
  <2>1. ASSUME NEW row
        PROVE  row \in RowsOf(t, id) <=>
                 IF id = data.id THEN row = data ELSE row \in RowsOf(s, id)
    <3>1. row \in RowsOf(t, id) <=> row.id = id /\ \E k \in 1..Len(s) : row = t[k]
      BY <1>1, InRows
    <3>2. row \in RowsOf(s, id) <=> row.id = id /\ \E j \in 1..Len(s) : row = s[j]
      BY InRows
    <3>3. \A k \in 1..Len(s) : s[k].id = data.id => k = i
      BY DEF DistinctIds
    <3> QED
      BY <1>1, <1>2, <3>1, <3>2, <3>3
  <2> QED
    BY <2>1
<1> QED
  BY <1>1, <1>3, <1>4

\* A row there may be is of an item, and is known by IBKR's number from stage 2 on.
LEMMA ARowIs ==
  ASSUME NEW row \in AllRows
  PROVE  /\ row.id \in Items /\ row.stage \in Nat /\ row.perm \in BOOLEAN
         /\ row.perm <=> kind = "orders" /\ row.stage > 1
<1>1. PICK id \in Items : \E n \in 0..Terminal : row = Row(id, n)
  BY DEF AllRows
<1>2. PICK n \in 0..Terminal : row = Row(id, n)
  BY <1>1
<1>3. n \in Nat
  BY DEF Terminal
<1> QED
  BY <1>2, <1>3, RowIs

\* What an event does to the rows: the row it is about is taken out or
\* replaced, and stands there once, unless it was there under both numbers.
LEMMA AppliedRows ==
  ASSUME NEW rows \in Seq(AllRows), NEW data \in AllRows
  PROVE  /\ Applied(rows, data) \in Seq(AllRows)
         /\ DistinctIds(rows) /\ kind # "orders" => DistinctIds(Applied(rows, data))
         /\ DistinctIds(rows) /\ DistinctIds(Applied(rows, data)) /\ (kind = "orders" => data.stage # 0) =>
              \A id : RowsOf(Applied(rows, data), id) =
                IF id = data.id THEN IF Gone(data) THEN {} ELSE {data} ELSE RowsOf(rows, id)
<1> DEFINE at == {i \in DOMAIN rows : Same(rows[i], data)}
           index == CHOOSE i \in at : \A j \in at : i <= j
           rest == IF at = {} THEN rows ELSE RemoveAt(rows, index)
           new == Applied(rows, data)
<1>0. Len(rows) \in Nat /\ DOMAIN rows = 1..Len(rows) /\ \A i \in 1..Len(rows) : rows[i] \in AllRows
  OBVIOUS
<1>1. \A i \in at : i \in 1..Len(rows) /\ rows[i].id = data.id
  BY <1>0 DEF Same
<1>2. at = {} => \A i \in 1..Len(rows) : ~Same(rows[i], data)
  BY <1>0
<1>3. at # {} => index \in 1..Len(rows) /\ rows[index].id = data.id
  <2>1. SUFFICES ASSUME at # {} PROVE index \in at
    BY <1>1
  <2>2. at \subseteq Nat
    BY <1>0
  <2> HIDE DEF at
  <2> QED
    BY <2>1, <2>2, HasLeast
<1>4. new = IF Gone(data) THEN rest
            ELSE IF kind = "orders" THEN <<data>> \o rest
            ELSE IF at = {} THEN Append(rows, data) ELSE [rows EXCEPT ![index] = data]
  BY DEF Applied
<1> HIDE DEF at, index, rest, new
<1>5. rest \in Seq(AllRows)
  BY <1>3, Removing DEF rest
<1>6. new \in Seq(AllRows)
  <2>1. <<data>> \o rest \in Seq(AllRows)
    <3>1. Topped(<<data>> \o rest, data, rest)
      BY DEF Topped
    <3> QED
      BY <1>5, <3>1, OnTop
  <2>2. Append(rows, data) \in Seq(AllRows)
    OBVIOUS
  <2>3. at # {} => [rows EXCEPT ![index] = data] \in Seq(AllRows)
    BY <1>3
  <2> QED
    BY <1>4, <1>5, <2>1, <2>2, <2>3
<1>7. ASSUME DistinctIds(rows)
      PROVE  /\ DistinctIds(rest)
             /\ \A id : id # data.id => RowsOf(rest, id) = RowsOf(rows, id)
             /\ at # {} => RowsOf(rest, data.id) = {}
  <2>1. CASE at = {}
    BY <1>7, <2>1 DEF rest
  <2>2. CASE at # {}
    <3>1. rest = RemoveAt(rows, index)
      BY <2>2 DEF rest
    <3> QED
      BY <1>3, <1>7, <2>2, <3>1, Without
  <2> QED
    BY <2>1, <2>2
\* A position is known by its contract alone.
<1>8. ASSUME kind # "orders", at = {}
      PROVE  \A j \in 1..Len(rows) : rows[j].id # data.id
  <2>1. \A j \in 1..Len(rows) : ~rows[j].perm /\ rows[j].perm \in BOOLEAN
    BY <1>0, <1>8, ARowIs
  <2>2. ~data.perm /\ data.perm \in BOOLEAN
    BY <1>8, ARowIs
  <2> QED
    BY <1>2, <1>8, <2>1, <2>2 DEF Same
<1>9. ASSUME DistinctIds(rows), kind # "orders"
      PROVE  DistinctIds(new)
  <2>1. CASE Gone(data)
    BY <1>4, <1>7, <1>9, <2>1
  <2>2. CASE ~Gone(data) /\ at = {}
    BY <1>4, <1>8, <1>9, <2>2, AtEnd
  <2>3. CASE ~Gone(data) /\ at # {}
    <3>1. Replaced(new, rows, index, data)
      BY <1>4, <1>9, <2>3 DEF Replaced
    <3> QED
      BY <1>3, <1>9, <2>3, <3>1, InPlace
  <2> QED
    BY <2>1, <2>2, <2>3
<1>10. ASSUME DistinctIds(rows), DistinctIds(new), kind = "orders" => data.stage # 0, NEW id
       PROVE  RowsOf(new, id) =
                IF id = data.id THEN IF Gone(data) THEN {} ELSE {data} ELSE RowsOf(rows, id)
  <2>1. CASE Gone(data)
    <3>1. new = rest
      BY <1>4, <2>1
    <3>2. at = {} => RowsOf(rows, data.id) = {}
      <4>1. SUFFICES ASSUME at = {}, NEW row \in RowsOf(rows, data.id) PROVE FALSE
        OBVIOUS
      <4>2. PICK j \in 1..Len(rows) : row = rows[j] /\ row.id = data.id
        BY InRows
      <4>3. ~Same(row, data) /\ row \in AllRows
        BY <1>0, <1>2, <4>1, <4>2
      <4>4. data.perm \/ ~row.perm
        <5>1. CASE kind = "orders"
          <6>1. data.stage = Terminal /\ data.stage > 1
            BY <1>10, <2>1, <5>1 DEF Gone, Terminal
          <6> QED
            BY <5>1, <6>1, ARowIs
        <5>2. CASE kind # "orders"
          BY <4>3, <5>2, ARowIs
        <5> QED
          BY <5>1, <5>2
      <4>5. row.perm \in BOOLEAN /\ data.perm \in BOOLEAN
        BY <4>3, ARowIs
      <4> QED
        BY <4>2, <4>3, <4>4, <4>5 DEF Same
    <3>3. RowsOf(rest, data.id) = {}
      <4>1. at = {} => rest = rows
        BY DEF rest
      <4> QED
        BY <1>7, <1>10, <3>2, <4>1
    <3> QED
      BY <1>7, <1>10, <2>1, <3>1, <3>3
  <2>2. CASE ~Gone(data) /\ kind = "orders"
    <3>1. Topped(new, data, rest)
      BY <1>4, <2>2 DEF Topped
    <3>2. RowsOf(new, id) = IF id = data.id THEN {data} ELSE RowsOf(rest, id)
      BY <1>5, <1>10, <3>1, OnTop
    <3> QED
      BY <1>7, <1>10, <2>2, <3>2
  <2>3. CASE ~Gone(data) /\ kind # "orders" /\ at = {}
    <3>1. new = Append(rows, data)
      BY <1>4, <2>3
    <3>2. RowsOf(new, id) = IF id = data.id THEN {data} ELSE RowsOf(rows, id)
      BY <1>8, <1>10, <2>3, <3>1, AtEnd
    <3> QED
      BY <2>3, <3>2
  <2>4. CASE ~Gone(data) /\ kind # "orders" /\ at # {}
    <3>1. Replaced(new, rows, index, data)
      BY <1>4, <2>4 DEF Replaced
    <3>2. index \in 1..Len(rows) /\ rows[index].id = data.id
      BY <1>3, <2>4
    <3>3. RowsOf(new, id) = IF id = data.id THEN {data} ELSE RowsOf(rows, id)
      BY <1>10, <3>1, <3>2, InPlace
    <3> QED
      BY <2>4, <3>3
  <2> QED
    BY <2>1, <2>2, <2>3, <2>4
<1> QED
  BY <1>6, <1>9, <1>10 DEF new

-----------------------------------------------------------------------------
\* A behaviour is about one kind.
LEMMA KindStays ==
  ASSUME kind' = kind
  PROVE  Items' = Items /\ AllRows' = AllRows /\ Events' = Events
<1>1. Items' = Items
  BY DEF Items
<1>2. AllRows' = AllRows
  BY <1>1 DEF AllRows, Row
<1> QED
  BY <1>1, <1>2 DEF Events
\* What is open stays open while no row changes.
LEMMA StageStays ==
  ASSUME kind' = kind, stage' = stage
  PROVE  Current' = Current /\ OpenRows' = OpenRows
<1>1. Items' = Items
  BY DEF Items
<1> QED
  BY <1>1 DEF Current, OpenRows, Row, Gone

\* The dashboard is opened.
LEMMA LiveInitially == LiveInit => LiveInv
<1> SUFFICES ASSUME LiveInit PROVE LiveInv
  OBVIOUS
<1>1. /\ Query(NewQuery) /\ NewQuery.fetch = "asked" /\ NewQuery.loaded = FALSE
      /\ NewQuery.data = << >>
  BY DEF NewQuery, Query, Nothing
<1>2. \A l \in Lists : query[l] = NewQuery
  BY DEF LiveInit
<1>3. "rows" \in Lists /\ "accounts" \in Lists
  BY DEF Lists
<1>4. log = << >> /\ log \in Seq(Events) /\ Len(log) = 0
  BY DEF LiveInit
<1>5. LiveTyped
  <2>1. stage \in [Items -> 0..Terminal] /\ \A id \in Items : stage[id] # Terminal
    BY DEF LiveInit, Terminal
  <2>2. cursor \in 0..Len(log) /\ \A k \in 1..Len(log) : Event(log[k], kind)
    BY <1>4 DEF LiveInit
  <2>3. connected \in BOOLEAN /\ behind \subseteq Lists /\ kind \in {"positions", "orders"}
        /\ socket \in {"closed", "accepted", "subscribed", "live", "dead"}
    BY DEF LiveInit
  <2> QED
    BY <1>4, <2>1, <2>2, <2>3 DEF LiveTyped
<1>6. QueriesTyped
  BY <1>1, <1>2 DEF LiveInit, QueriesTyped
<1>7. RowsTyped /\ OneRowInv
  <2>1. query["rows"].data = << >> /\ query["rows"].fetch # "answered"
    BY <1>1, <1>2, <1>3
  <2>2. query["rows"].data \in Seq(AllRows) /\ Len(query["rows"].data) = 0
    BY <2>1
  <2>3. DistinctIds(query["rows"].data)
    BY <2>2 DEF DistinctIds
  <2> QED
    BY <2>1, <2>2, <2>3 DEF RowsTyped, OneRowInv
<1>8. LogInv
  BY <1>4 DEF LogInv, LogSays
<1>9. RowsInv /\ CountInv
  BY DEF LiveInit, RowsInv, CountInv
<1> QED
  BY <1>5, <1>6, <1>7, <1>8, <1>9 DEF LiveInv

\* The socket is not live: nothing is said of the rows.
LEMMA LineKeepsLive ==
  ASSUME LiveInv, Accept \/ Skip \/ Subscribe \/ LineDies \/ Closed
  PROVE  LiveInv'
<1>1. /\ kind' = kind /\ stage' = stage /\ log' = log /\ query' = query /\ behind' = behind
      /\ socket' \in {"closed", "accepted", "subscribed", "live", "dead"} /\ socket' # "live"
      /\ cursor' \in 0..Len(log) /\ connected' \in BOOLEAN
  <2>1. log \in Seq(Events) /\ Len(log) \in Nat /\ cursor \in 0..Len(log) /\ connected \in BOOLEAN
    <3>1. log \in Seq(Events) /\ cursor \in 0..Len(log) /\ connected \in BOOLEAN
      BY DEF LiveInv, LiveTyped
    <3> QED
      BY <3>1
  <2>2. CASE Accept
    BY <2>1, <2>2 DEF Accept, Server
  <2>3. CASE Skip
    BY <2>1, <2>3 DEF Skip, Server
  <2>4. CASE Subscribe \/ LineDies
    BY <2>1, <2>4 DEF Subscribe, LineDies, Server
  <2>5. CASE Closed
    BY <2>1, <2>5 DEF Closed, Server
  <2> QED
    BY <2>2, <2>3, <2>4, <2>5
<1>2. Items' = Items /\ AllRows' = AllRows /\ Events' = Events /\ Current' = Current
  BY <1>1, KindStays, StageStays
<1>3. LiveTyped'
  BY <1>1, <1>2 DEF LiveInv, LiveTyped, Event
<1>4. QueriesTyped' /\ RowsTyped' /\ OneRowInv'
  BY <1>1, <1>2 DEF LiveInv, QueriesTyped, RowsTyped, OneRowInv
<1>5. LogInv'
  BY <1>1, <1>2 DEF LiveInv, LogInv
<1>6. RowsInv' /\ CountInv'
  BY <1>1 DEF RowsInv, CountInv
<1> QED
  BY <1>3, <1>4, <1>5, <1>6 DEF LiveInv

\* What is published is the last word about the items it touches.
LEMMA Publishing ==
  ASSUME LiveInv, NEW event \in Events, Event(event, kind), NEW current, NEW count,
         DOMAIN current = DOMAIN Current,
         \A id \in DOMAIN Current : current[id] =
           IF Touches(event, id) THEN Left(event, id, kind) ELSE Current[id],
         Recounts(event, kind) \/ count = Cardinality(OpenRows), log' = Append(log, event)
  PROVE  /\ log' \in Seq(Events) /\ cursor \in 0..Len(log')
         /\ \A k \in 1..Len(log') : Event(log'[k], kind)
         /\ LogSays(log', current, kind)
         /\ \A rows : Agrees(rows, cursor, log, Current) => Agrees(rows, cursor, log', current)
         /\ \A value : Counted(value, cursor, log, kind, Cardinality(OpenRows)) =>
                         Counted(value, cursor, log', kind, count)
<1>0. log \in Seq(Events) /\ Len(log) \in Nat /\ cursor \in 0..Len(log) /\ cursor \in Nat
  <2>1. log \in Seq(Events) /\ cursor \in 0..Len(log)
    BY DEF LiveInv, LiveTyped
  <2> QED
    BY <2>1
<1>1. /\ log' \in Seq(Events) /\ Len(log') = Len(log) + 1 /\ log'[Len(log) + 1] = event
      /\ \A k \in 1..Len(log) : log'[k] = log[k]
  BY <1>0
<1>2. ASSUME NEW k \in 1..Len(log')
      PROVE  k \in 1..Len(log) \/ (k = Len(log') /\ log'[k] = event)
  BY <1>0, <1>1
<1>3. \A k \in 1..Len(log') : Event(log'[k], kind)
  BY <1>1, <1>2 DEF LiveInv, LiveTyped
<1>4. cursor \in 0..Len(log')
  BY <1>0, <1>1
<1>5. LogSays(log', current, kind)
  <2>1. SUFFICES ASSUME NEW id \in DOMAIN current, NEW k \in 1..Len(log'), Touches(log'[k], id),
                        \A j \in (k + 1)..Len(log') : ~Touches(log'[j], id)
                 PROVE  Left(log'[k], id, kind) = current[id]
    BY DEF LogSays
  <2>2. CASE k = Len(log') /\ log'[k] = event
    BY <2>1, <2>2
  <2>3. CASE k \in 1..Len(log)
    <3>1. Len(log') \in (k + 1)..Len(log') /\ log'[Len(log')] = event
      BY <1>0, <1>1, <2>3
    <3>2. ~Touches(event, id)
      BY <2>1, <3>1
    <3>3. \A j \in (k + 1)..Len(log) : j \in (k + 1)..Len(log') /\ log'[j] = log[j]
      BY <1>0, <1>1, <2>3
    <3>4. \A j \in (k + 1)..Len(log) : ~Touches(log[j], id)
      BY <2>1, <3>3
    <3>5. Left(log[k], id, kind) = Current[id]
      BY <1>1, <2>1, <2>3, <3>4 DEF LiveInv, LogInv, LogSays
    <3> QED
      BY <1>1, <2>1, <2>3, <3>2, <3>5
  <2> QED
    BY <1>2, <2>2, <2>3
<1>6. ASSUME NEW k \in (cursor + 1)..Len(log)
      PROVE  k \in (cursor + 1)..Len(log') /\ log'[k] = log[k]
  BY <1>0, <1>1
<1>7. Len(log') \in (cursor + 1)..Len(log') /\ log'[Len(log')] = event
  BY <1>0, <1>1
<1>8. ASSUME NEW rows, Agrees(rows, cursor, log, Current)
      PROVE  Agrees(rows, cursor, log', current)
  <2>1. SUFFICES ASSUME NEW id \in DOMAIN current,
                        \A k \in (cursor + 1)..Len(log') : ~Touches(log'[k], id)
                 PROVE  RowsOf(rows, id) = current[id]
    BY <1>8 DEF Agrees
  <2>2. ~Touches(event, id)
    BY <1>7, <2>1
  <2>3. \A k \in (cursor + 1)..Len(log) : ~Touches(log[k], id)
    BY <1>6, <2>1
  <2> QED
    BY <1>8, <2>2, <2>3 DEF Agrees
<1>9. ASSUME NEW value, Counted(value, cursor, log, kind, Cardinality(OpenRows))
      PROVE  Counted(value, cursor, log', kind, count)
  <2>1. SUFFICES ASSUME \A k \in (cursor + 1)..Len(log') : ~Recounts(log'[k], kind)
                 PROVE  value = <<count>>
    BY DEF Counted
  <2>2. ~Recounts(event, kind)
    BY <1>7, <2>1
  <2>3. \A k \in (cursor + 1)..Len(log) : ~Recounts(log[k], kind)
    BY <1>6, <2>1
  <2> QED
    BY <1>9, <2>2, <2>3 DEF Counted
<1> QED
  BY <1>1, <1>3, <1>4, <1>5, <1>8, <1>9
\* What one row that changes leaves of the others, and of their number.
LEMMA OneChanges ==
  ASSUME LiveInv, NEW id \in Items, NEW n \in 0..Terminal, Change(id, n)
  PROVE  /\ stage' \in [Items -> 0..Terminal]
         /\ \A x \in Items : Current'[x] =
              IF x = id THEN IF Gone(Row(id, n)) THEN {} ELSE {Row(id, n)} ELSE Current[x]
         /\ ~Gone(Row(id, n)) /\ ~Gone(Row(id, stage[id])) =>
              Cardinality(OpenRows') = Cardinality(OpenRows)
<1>0. stage \in [Items -> 0..Terminal] /\ kind' = kind /\ stage' = [stage EXCEPT ![id] = n]
  BY DEF LiveInv, LiveTyped, Change
<1>1. stage' \in [Items -> 0..Terminal] /\ stage'[id] = n
      /\ \A x \in Items : x # id => stage'[x] = stage[x]
  BY <1>0
<1>2. Items' = Items
  BY <1>0 DEF Items
<1>3. \A x \in Items : Current'[x] =
        IF x = id THEN IF Gone(Row(id, n)) THEN {} ELSE {Row(id, n)} ELSE Current[x]
  BY <1>0, <1>1, <1>2 DEF Current, Row, Gone
<1>4. \A x \in Items : stage[x] \in Nat /\ stage'[x] \in Nat
  BY <1>0, <1>1 DEF Terminal
<1>5. ASSUME ~Gone(Row(id, n)), ~Gone(Row(id, stage[id]))
      PROVE  Cardinality(OpenRows') = Cardinality(OpenRows)
  <2> DEFINE old == Row(id, stage[id])
             new == Row(id, n)
             rest == OpenRows \ {old}
  <2>1. OpenRows' = {row \in {Row(x, stage'[x]) : x \in Items} : ~Gone(row)}
    BY <1>0, <1>2 DEF OpenRows, Row, Gone
  <2>2. old \in OpenRows /\ old.id = id /\ new.id = id
    BY <1>4, <1>5, RowIs DEF OpenRows, Terminal
  <2>3. \A x \in Items : Row(x, stage[x]).id = x /\ Row(x, stage'[x]).id = x
    BY <1>4, RowIs
  <2> HIDE DEF old, new
  <2>4. new \notin rest
    <3>1. \A row \in OpenRows : row.id = id => row = old
      BY <2>3 DEF OpenRows, old
    <3> QED
      BY <2>2, <3>1
  <2>5. OpenRows' = rest \cup {new}
    <3>1. \A x \in Items : x # id => Row(x, stage'[x]) = Row(x, stage[x]) /\ Row(x, stage[x]) # old
      BY <1>1, <2>2, <2>3
    <3>2. Row(id, stage'[id]) = new
      BY <1>1 DEF new
    <3>3. rest = {row \in {Row(x, stage[x]) : x \in Items \ {id}} : ~Gone(row)}
      BY <2>2, <2>3, <3>1 DEF OpenRows, old
    <3> QED
      BY <1>5, <2>1, <3>1, <3>2, <3>3 DEF new
  <2>6. IsFiniteSet(OpenRows)
    BY <1>0, OpenAre
  <2>7. IsFiniteSet(rest) /\ Cardinality(rest) = Cardinality(OpenRows) - 1
    BY <2>2, <2>6, FS_RemoveElement
  <2>8. Cardinality(OpenRows') = Cardinality(rest) + 1
    BY <2>4, <2>5, <2>7, FS_AddElement
  <2> QED
    BY <2>6, <2>7, <2>8, FS_CardinalityType
<1> QED
  BY <1>1, <1>3, <1>5

\* The rest of the invariant, when something has been published.
LEMMA PublishKeepsLive ==
  ASSUME LiveInv, NEW event \in Events, Event(event, kind), Publish(event), kind' = kind,
         stage' \in [Items -> 0..Terminal],
         kind = "positions" => \A id \in Items : stage'[id] # Terminal,
         \A id \in Items : Current'[id] =
           IF Touches(event, id) THEN Left(event, id, kind) ELSE Current[id],
         Recounts(event, kind) \/ Cardinality(OpenRows') = Cardinality(OpenRows)
  PROVE  LiveInv'
<1>1. /\ log' = Append(log, event) /\ cursor' = cursor /\ socket' = socket
      /\ connected' = connected /\ query' = query /\ behind' = behind
  BY DEF Publish
<1>2. Items' = Items /\ AllRows' = AllRows /\ Events' = Events
  BY KindStays
<1>3. DOMAIN Current = Items /\ DOMAIN Current' = Items
  BY <1>2 DEF Current
<1>4. /\ log' \in Seq(Events) /\ cursor \in 0..Len(log')
      /\ \A k \in 1..Len(log') : Event(log'[k], kind)
      /\ LogSays(log', Current', kind)
      /\ \A rows : Agrees(rows, cursor, log, Current) => Agrees(rows, cursor, log', Current')
      /\ \A value : Counted(value, cursor, log, kind, Cardinality(OpenRows)) =>
                      Counted(value, cursor, log', kind, Cardinality(OpenRows'))
  BY <1>1, <1>3, Publishing
<1>5. LiveTyped'
  <2>1. \A k \in 1..Len(log') : Event(log'[k], kind')
    BY <1>4
  <2> QED
    BY <1>1, <1>2, <1>4, <2>1 DEF LiveInv, LiveTyped, Event
<1>6. QueriesTyped' /\ RowsTyped' /\ OneRowInv'
  BY <1>1, <1>2 DEF LiveInv, QueriesTyped, RowsTyped, OneRowInv
<1>7. LogInv'
  BY <1>4 DEF LogInv
<1>8. RowsInv' /\ CountInv'
  BY <1>1, <1>4 DEF LiveInv, RowsInv, CountInv
<1> QED
  BY <1>5, <1>6, <1>7, <1>8 DEF LiveInv

\* A row changes and its event is published.
LEMMA ChangeKeepsLive ==
  ASSUME LiveInv, NEW id \in Items, NEW n \in 0..Terminal, Change(id, n),
         kind = "positions" => n # Terminal, kind = "orders" => n # 0,
         n = 1 \/ Gone(Row(id, n)) \/ ~Gone(Row(id, stage[id]))
  PROVE  LiveInv'
<1> DEFINE event == [rows |-> <<Row(id, n)>>, all |-> FALSE]
           row == Row(id, n)
<1>0. n \in Nat /\ row \in AllRows /\ row.id = id /\ row.stage = n
  BY RowIs DEF Terminal, AllRows
<1>1. kind' = kind /\ Publish(event) /\ stage' = [stage EXCEPT ![id] = n]
  BY DEF Change
<1> HIDE DEF row
<1>2. /\ event.rows = <<row>> /\ event.rows[1] = row /\ event.all = FALSE /\ Len(event.rows) = 1
      /\ event \in Events
  BY <1>0 DEF Events, row
<1> HIDE DEF event
<1>3. Event(event, kind)
  BY <1>0, <1>2 DEF Event
<1>4. GoneOf(row, kind) <=> Gone(row)
  BY DEF GoneOf, Gone
<1>5. stage \in [Items -> 0..Terminal] /\ (kind = "positions" => \A x \in Items : stage[x] # Terminal)
  BY DEF LiveInv, LiveTyped
<1>6. kind = "positions" => \A x \in Items : stage'[x] # Terminal
  BY <1>1, <1>5
<1>7. \A x \in Items : Current'[x] =
        IF Touches(event, x) THEN Left(event, x, kind) ELSE Current[x]
  BY <1>0, <1>2, <1>4, OneChanges DEF Touches, Left, row
<1>8. Recounts(event, kind) \/ Cardinality(OpenRows') = Cardinality(OpenRows)
  BY <1>0, <1>2, <1>4, OneChanges DEF Recounts, row
<1> QED
  BY <1>1, <1>2, <1>3, <1>6, <1>7, <1>8, OneChanges, PublishKeepsLive

\* The broker session moves.
LEMMA ServerKeepsLive ==
  ASSUME LiveInv, PositionChanges \/ PositionCloses \/ OrderMoves \/ OrdersReconciled
  PROVE  LiveInv'
<1>0. stage \in [Items -> 0..Terminal] /\ (kind = "positions" => \A x \in Items : stage[x] # Terminal)
  BY DEF LiveInv, LiveTyped
<1>1. CASE PositionChanges
  <2>1. PICK c \in Contracts : Change(c, IF stage[c] = 1 THEN 2 ELSE 1)
    BY <1>1 DEF PositionChanges
  <2>2. kind = "positions" /\ c \in Items
    BY <1>1 DEF PositionChanges, Items
  <2>3. CASE stage[c] = 1
    <3>1. Change(c, 2) /\ 2 \in 0..Terminal /\ 2 # Terminal
      BY <2>1, <2>3 DEF Terminal
    <3>2. ~Gone(Row(c, stage[c]))
      BY <2>2, <2>3, RowIs DEF Gone
    <3> QED
      BY <2>2, <3>1, <3>2, ChangeKeepsLive
  <2>4. CASE stage[c] # 1
    <3>1. Change(c, 1) /\ 1 \in 0..Terminal /\ 1 # Terminal
      BY <2>1, <2>4 DEF Terminal
    <3> QED
      BY <2>2, <3>1, ChangeKeepsLive
  <2> QED
    BY <2>3, <2>4
<1>2. CASE PositionCloses
  <2>1. PICK c \in Contracts : Change(c, 0)
    BY <1>2 DEF PositionCloses
  <2>2. kind = "positions" /\ c \in Items
    BY <1>2 DEF PositionCloses, Items
  <2>3. 0 \in 0..Terminal /\ 0 # Terminal
    BY DEF Terminal
  <2>4. Gone(Row(c, 0))
    BY RowIs DEF Gone
  <2> QED
    BY <2>1, <2>2, <2>3, <2>4, ChangeKeepsLive
<1>3. CASE OrderMoves
  <2>1. PICK o \in Orders : stage[o] < Terminal /\ Change(o, stage[o] + 1)
    BY <1>3 DEF OrderMoves
  <2>2. kind = "orders" /\ o \in Items
    BY <1>3 DEF OrderMoves, Items
  <2>3. stage[o] \in 0..2 /\ stage[o] + 1 \in 0..Terminal /\ stage[o] + 1 # 0
    BY <1>0, <2>1, <2>2 DEF Terminal
  <2>4. \/ stage[o] + 1 = 1 \/ Gone(Row(o, stage[o] + 1)) \/ ~Gone(Row(o, stage[o]))
    <3>1. CASE stage[o] = 0
      BY <3>1
    <3>2. CASE stage[o] = 1
      BY <3>2, RowIs DEF Gone, Terminal
    <3>3. CASE stage[o] = 2
      BY <3>3, RowIs DEF Gone, Terminal
    <3> QED
      BY <2>3, <3>1, <3>2, <3>3
  <2>5. kind = "positions" => stage[o] + 1 # Terminal
    BY <2>2
  <2> QED
    BY <2>1, <2>2, <2>3, <2>4, <2>5, ChangeKeepsLive
<1>4. CASE OrdersReconciled
  <2> DEFINE event == [rows |-> Stored("rows")', all |-> TRUE]
  <2>1. kind = "orders" /\ Publish(event) /\ kind' = kind /\ stage' \in [Orders -> 0..Terminal]
    BY <1>4 DEF OrdersReconciled
  <2>2. Items' = Items /\ Items = Orders /\ AllRows' = AllRows
    BY <2>1, KindStays DEF Items
  <2>3. /\ Stored("rows")' \in Seq(AllRows) /\ DistinctIds(Stored("rows")')
        /\ \A id \in Items : RowsOf(Stored("rows")', id) = Current'[id]
    <3>1. (stage \in [Items -> 0..Terminal]
             => /\ Stored("rows") \in Seq(AllRows) /\ DistinctIds(Stored("rows"))
                /\ \A id \in Items : RowsOf(Stored("rows"), id) = Current[id])'
      BY StoredNext, PTL
    <3>2. stage' \in [Items' -> 0..Terminal]
      BY <2>1, <2>2
    <3>3. /\ Stored("rows")' \in Seq(AllRows') /\ DistinctIds(Stored("rows")')
          /\ \A id \in Items' : RowsOf(Stored("rows")', id) = Current'[id]
      BY <3>1, <3>2 DEF DistinctIds, RowsOf, Terminal
    <3> QED
      BY <2>2, <3>3
  <2>4. event.rows = Stored("rows")' /\ event.all = TRUE /\ event \in Events
    BY <2>3 DEF Events
  <2> HIDE DEF event
  <2>5. Event(event, kind)
    BY <2>1, <2>3, <2>4 DEF Event
  <2>6. Recounts(event, kind)
    BY <2>4 DEF Recounts
  <2>7. \A id \in Items : Current'[id] =
          IF Touches(event, id) THEN Left(event, id, kind) ELSE Current[id]
    BY <2>3, <2>4 DEF Touches, Left
  <2>8. stage' \in [Items -> 0..Terminal] /\ (kind = "positions" => \A id \in Items : stage'[id] # Terminal)
    BY <2>1, <2>2
  <2> QED
    BY <2>1, <2>4, <2>5, <2>6, <2>7, <2>8, PublishKeepsLive
<1> QED
  BY <1>1, <1>2, <1>3, <1>4

-----------------------------------------------------------------------------
\* What the list of the rows is after an event: rows there are, each of them
\* once if the list was that of positions, and as the event says.
After(old, event) ==
  IF ~old.loaded THEN old
  ELSE Updated(old, IF event.all THEN event.rows ELSE Applied(old.data, event.rows[1]))
LEMMA RowsAfter ==
  ASSUME LiveInv, NEW event \in Events, Event(event, kind), NEW new, new = After(query["rows"], event)
  PROVE  /\ Query(new) /\ new.fetch = query["rows"].fetch /\ new.loaded = query["rows"].loaded
            /\ new.answer = query["rows"].answer /\ new.data \in Seq(AllRows)
         /\ kind = "positions" => DistinctIds(new.data)
         /\ query["rows"].loaded /\ DistinctIds(query["rows"].data) /\ DistinctIds(new.data) =>
              \A id : RowsOf(new.data, id) =
                IF Touches(event, id) THEN Left(event, id, kind) ELSE RowsOf(query["rows"].data, id)
<1> DEFINE old == query["rows"]
           data == IF event.all THEN event.rows ELSE Applied(old.data, event.rows[1])
<1>0. /\ Query(old) /\ old.loaded \in BOOLEAN /\ old.data \in Seq(AllRows)
      /\ kind = "positions" => DistinctIds(old.data)
  BY DEF LiveInv, QueriesTyped, RowsTyped, OneRowInv, Lists
<1>1. kind \in {"positions", "orders"}
  BY DEF LiveInv, LiveTyped
<1> HIDE DEF old
<1>2. event.rows \in Seq(AllRows) /\ event.all \in BOOLEAN
  BY DEF Events
<1>3. ~event.all => event.rows[1] \in AllRows
  BY <1>2 DEF Event
<1>4. /\ data \in Seq(AllRows)
      /\ kind = "positions" => DistinctIds(data)
  BY <1>0, <1>2, <1>3, AppliedRows DEF Event
<1>5. ASSUME DistinctIds(old.data), DistinctIds(data), NEW id
      PROVE  RowsOf(data, id) =
               IF Touches(event, id) THEN Left(event, id, kind) ELSE RowsOf(old.data, id)
  <2>1. CASE event.all
    BY <2>1 DEF Touches, Left
  <2>2. CASE ~event.all
    <3> DEFINE row == event.rows[1]
    <3>1. data = Applied(old.data, row) /\ row \in AllRows /\ (kind = "orders" => row.stage # 0)
      BY <1>3, <2>2 DEF Event
    <3>2. GoneOf(row, kind) <=> Gone(row)
      BY DEF GoneOf, Gone
    <3>3. DistinctIds(Applied(old.data, row)) /\ DistinctIds(old.data) /\ old.data \in Seq(AllRows)
      BY <1>0, <1>5, <3>1
    <3> HIDE DEF row
    <3>4. RowsOf(Applied(old.data, row), id) =
            IF id = row.id THEN IF Gone(row) THEN {} ELSE {row} ELSE RowsOf(old.data, id)
      BY <3>1, <3>3, AppliedRows
    <3> QED
      BY <2>2, <3>1, <3>2, <3>4 DEF Touches, Left, row
  <2> QED
    BY <2>1, <2>2
<1> HIDE DEF data
<1>6. CASE ~old.loaded
  <2>1. new = old
    BY <1>6 DEF After, old
  <2> QED
    BY <1>0, <1>6, <2>1 DEF old
<1>7. CASE old.loaded
  <2>1. new = Updated(old, data)
    BY <1>7 DEF After, data, old
  <2>2. /\ Query(new) /\ new.fetch = old.fetch /\ new.loaded = old.loaded
        /\ new.data = data /\ new.answer = old.answer
    BY <1>0, <2>1, Given
  <2> QED
    BY <1>4, <1>5, <2>2 DEF old
<1> QED
  BY <1>0, <1>6, <1>7

\* The rows follow the event.
LEMMA AgreesOn ==
  ASSUME LiveInv, cursor < Len(log), NEW old, NEW new, Agrees(old, cursor, log, Current),
         DistinctIds(new),
         \A id \in Items : RowsOf(new, id) =
           IF Touches(log[cursor + 1], id) THEN Left(log[cursor + 1], id, kind) ELSE RowsOf(old, id)
  PROVE  Agrees(new, cursor + 1, log, Current)
<1>0. log \in Seq(Events) /\ Len(log) \in Nat /\ cursor \in Nat /\ cursor + 1 \in 1..Len(log)
  <2>1. log \in Seq(Events) /\ cursor \in 0..Len(log)
    BY DEF LiveInv, LiveTyped
  <2> QED
    BY <2>1
<1>1. DOMAIN Current = Items
  BY DEF Current
<1>2. SUFFICES ASSUME NEW id \in Items,
                      \A k \in (cursor + 1 + 1)..Len(log) : ~Touches(log[k], id)
               PROVE  RowsOf(new, id) = Current[id]
  BY <1>1 DEF Agrees
<1>3. CASE Touches(log[cursor + 1], id)
  <2>1. Left(log[cursor + 1], id, kind) = Current[id]
    BY <1>0, <1>1, <1>2, <1>3 DEF LiveInv, LogInv, LogSays
  <2> QED
    BY <1>3, <2>1
<1>4. CASE ~Touches(log[cursor + 1], id)
  <2>1. \A k \in (cursor + 1)..Len(log) : k = cursor + 1 \/ k \in (cursor + 1 + 1)..Len(log)
    BY <1>0
  <2>2. \A k \in (cursor + 1)..Len(log) : ~Touches(log[k], id)
    BY <1>2, <1>4, <2>1
  <2>3. RowsOf(old, id) = Current[id]
    BY <1>1, <2>2 DEF Agrees
  <2> QED
    BY <1>4, <2>3
<1> QED
  BY <1>3, <1>4

\* The number outlives an event that cannot change it.
LEMMA CountedOn ==
  ASSUME LiveInv, cursor < Len(log), ~Recounts(log[cursor + 1], kind), NEW value, NEW count,
         Counted(value, cursor, log, kind, count)
  PROVE  Counted(value, cursor + 1, log, kind, count)
<1>0. Len(log) \in Nat /\ cursor \in Nat
  <2>1. log \in Seq(Events) /\ cursor \in 0..Len(log)
    BY DEF LiveInv, LiveTyped
  <2> QED
    BY <2>1
<1>1. \A k \in (cursor + 1)..Len(log) : k = cursor + 1 \/ k \in (cursor + 1 + 1)..Len(log)
  BY <1>0
<1> QED
  BY <1>1 DEF Counted

\* What only the browser does leaves the types of the server's state.
LEMMA ServerStays ==
  ASSUME LiveInv, UNCHANGED Server, socket' \in {"closed", "accepted", "subscribed", "live", "dead"},
         cursor' \in 0..Len(log), connected' \in BOOLEAN, behind' \subseteq Lists
  PROVE  /\ LiveTyped' /\ LogInv'
         /\ kind' = kind /\ log' = log /\ AllRows' = AllRows
         /\ Current' = Current /\ OpenRows' = OpenRows
<1>1. kind' = kind /\ stage' = stage /\ log' = log
  BY DEF Server
<1>2. Items' = Items /\ AllRows' = AllRows /\ Events' = Events /\ Current' = Current
      /\ OpenRows' = OpenRows
  BY <1>1, KindStays, StageStays
<1>3. LiveTyped'
  BY <1>1, <1>2 DEF LiveInv, LiveTyped, Event
<1>4. LogInv'
  BY <1>1, <1>2 DEF LiveInv, LogInv
<1> QED
  BY <1>1, <1>2, <1>3, <1>4

\* The browser handles an event.
LEMMA HandleEventKeepsLive ==
  ASSUME LiveInv, HandleEvent
  PROVE  LiveInv'
<1> DEFINE event == log[cursor + 1]
           old == query["rows"]
           new == After(old, event)
           counts == ~old.loaded \/ Len(new.data) # Len(old.data)
           known == ~counts /\ (event.all \/ event.rows[1].stage = 1 \/ Gone(event.rows[1]))
           twice == old.loaded /\ \E i, j \in DOMAIN new.data : i # j /\ new.data[i].id = new.data[j].id
           count == query["accounts"]
<1>1. /\ socket \in {"subscribed", "live"} /\ cursor < Len(log) /\ cursor' = cursor + 1
      /\ query' = [query EXCEPT !["rows"] = new,
                     !["accounts"] = IF counts THEN Invalidated(@) ELSE @]
      /\ behind' = Behind(IF counts THEN Lists ELSE {"rows"})
                     \cup (IF known THEN {"accounts"} ELSE {}) \cup (IF twice THEN {"rows"} ELSE {})
      /\ UNCHANGED <<Server, socket, connected, faults>>
  BY DEF HandleEvent, After
<1>2. /\ LiveTyped /\ QueriesTyped /\ RowsTyped /\ OneRowInv /\ LogInv /\ RowsInv /\ CountInv
  BY DEF LiveInv
<1>3. /\ log \in Seq(Events) /\ Len(log) \in Nat /\ cursor \in Nat /\ cursor + 1 \in 1..Len(log)
      /\ connected \in BOOLEAN /\ behind \subseteq Lists
  <2>1. log \in Seq(Events) /\ cursor \in 0..Len(log) /\ connected \in BOOLEAN /\ behind \subseteq Lists
    BY <1>2 DEF LiveTyped
  <2> QED
    BY <1>1, <2>1
<1>4. event \in Events /\ Event(event, kind)
  BY <1>2, <1>3 DEF LiveTyped
<1>5. /\ Query(new) /\ new.fetch = old.fetch /\ new.loaded = old.loaded
         /\ new.answer = old.answer /\ new.data \in Seq(AllRows)
      /\ kind = "positions" => DistinctIds(new.data)
      /\ old.loaded /\ DistinctIds(old.data) /\ DistinctIds(new.data) =>
           \A id : RowsOf(new.data, id) =
             IF Touches(event, id) THEN Left(event, id, kind) ELSE RowsOf(old.data, id)
  BY <1>2, <1>4, RowsAfter
<1>6. /\ "rows" \in Lists /\ "accounts" \in Lists /\ \A l \in Lists : l = "rows" \/ l = "accounts"
      /\ "rows" # "accounts"
  BY DEF Lists
<1>7. /\ Query(old) /\ Query(count) /\ query = [l \in Lists |-> query[l]]
      /\ old.fetch \in {"idle", "asked", "answered"} /\ count.fetch \in {"idle", "asked", "answered"}
      /\ old.loaded \in BOOLEAN /\ count.loaded \in BOOLEAN
      /\ old.fetch = "idle" /\ "rows" \notin behind => old.loaded
      /\ count.fetch = "idle" /\ "accounts" \notin behind => count.loaded
  BY <1>2, <1>6 DEF QueriesTyped
<1> DEFINE next == IF counts THEN Invalidated(count) ELSE count
<1>8. /\ query' = [l \in Lists |-> query'[l]] /\ query'["rows"] = new /\ query'["accounts"] = next
  BY <1>1, <1>6, <1>7
<1>9. /\ Query(next) /\ next.loaded = count.loaded /\ next.data = count.data
      /\ \/ counts /\ next.fetch = "asked"
         \/ next = count /\ (counts => ~count.loaded /\ count.fetch # "idle")
  BY <1>7, Invalidating DEF NotFetching
<1>10. twice <=> old.loaded /\ ~DistinctIds(new.data)
  <2>1. DOMAIN new.data = 1..Len(new.data)
    BY <1>5
  <2> QED
    BY <2>1 DEF DistinctIds
<1>11. known <=> ~counts /\ Recounts(event, kind)
  BY DEF Recounts, GoneOf, Gone
<1> HIDE DEF event, old, new, counts, known, twice, count, next
<1>12. /\ "rows" \in behind' <=>
            twice \/ (("rows" \in behind \/ old.fetch = "answered") /\ old.fetch # "asked")
       /\ "accounts" \in behind' <=>
            known \/ (("accounts" \in behind \/ (counts /\ count.fetch = "answered"))
                        /\ next.fetch # "asked")
       /\ behind' \subseteq Lists
  <2>1. behind' = {l \in behind \cup {k \in (IF counts THEN Lists ELSE {"rows"}) :
                                         query[k].fetch = "answered"} : query'[l].fetch # "asked"}
                    \cup (IF known THEN {"accounts"} ELSE {}) \cup (IF twice THEN {"rows"} ELSE {})
    BY <1>1 DEF Behind
  <2>2. /\ query["rows"].fetch = old.fetch /\ query["accounts"].fetch = count.fetch
        /\ query'["rows"].fetch = old.fetch /\ query'["accounts"].fetch = next.fetch
    BY <1>5, <1>8 DEF old, count
  <2>3. behind' \subseteq Lists
    BY <1>3, <1>6, <2>1
  <2> QED
    BY <1>6, <2>1, <2>2, <2>3
<1>13. /\ LiveTyped' /\ LogInv' /\ kind' = kind /\ log' = log /\ AllRows' = AllRows
       /\ Current' = Current /\ OpenRows' = OpenRows
  <2>1. cursor' \in 0..Len(log) /\ socket' = socket /\ connected' = connected /\ UNCHANGED Server
    BY <1>1, <1>3
  <2> QED
    BY <1>1, <1>3, <1>12, <2>1, ServerStays
<1>14. QueriesTyped'
  <2>1. /\ Query(query'["rows"]) /\ query'["rows"].fetch \in {"idle", "asked", "answered"}
        /\ query'["rows"].loaded \in BOOLEAN
        /\ query'["rows"].fetch = "idle" /\ "rows" \notin behind' => query'["rows"].loaded
    BY <1>5, <1>7, <1>8, <1>12
  <2>2. /\ Query(query'["accounts"]) /\ query'["accounts"].fetch \in {"idle", "asked", "answered"}
        /\ query'["accounts"].loaded \in BOOLEAN
        /\ query'["accounts"].fetch = "idle" /\ "accounts" \notin behind' =>
             query'["accounts"].loaded
    BY <1>7, <1>8, <1>9, <1>12
  <2> QED
    BY <1>6, <1>8, <2>1, <2>2 DEF QueriesTyped
<1>15. RowsTyped'
  BY <1>2, <1>5, <1>8, <1>13 DEF RowsTyped, old
<1>16. OneRowInv'
  BY <1>2, <1>5, <1>8, <1>13 DEF OneRowInv, old
<1>17. RowsInv'
  <2>1. SUFFICES ASSUME socket = "live", ~twice, "rows" \notin behind, new.fetch = "idle"
                 PROVE  Agrees(new.data, cursor + 1, log, Current)
    BY <1>1, <1>5, <1>7, <1>8, <1>12, <1>13 DEF RowsInv
  <2>2. old.loaded /\ Agrees(old.data, cursor, log, Current)
    BY <1>2, <1>5, <1>7, <2>1 DEF RowsInv, old
  <2>3. DistinctIds(old.data) /\ DistinctIds(new.data)
    BY <1>10, <2>1, <2>2 DEF Agrees
  <2>4. \A id \in Items : RowsOf(new.data, id) =
          IF Touches(log[cursor + 1], id) THEN Left(log[cursor + 1], id, kind)
          ELSE RowsOf(old.data, id)
    BY <1>5, <2>2, <2>3 DEF event
  <2> QED
    BY <1>1, <2>2, <2>3, <2>4, AgreesOn
<1>18. CountInv'
  <2>1. SUFFICES ASSUME socket = "live", "accounts" \notin behind'
                 PROVE  /\ next.fetch = "idle" =>
                             Counted(next.data, cursor + 1, log, kind, Cardinality(OpenRows))
                        /\ next.fetch = "answered" =>
                             Counted(next.answer, cursor + 1, log, kind, Cardinality(OpenRows))
    BY <1>1, <1>8, <1>13 DEF CountInv
  <2>2. SUFFICES ASSUME next.fetch \in {"idle", "answered"}
                 PROVE  /\ next.fetch = "idle" =>
                             Counted(next.data, cursor + 1, log, kind, Cardinality(OpenRows))
                        /\ next.fetch = "answered" =>
                             Counted(next.answer, cursor + 1, log, kind, Cardinality(OpenRows))
    OBVIOUS
  <2>3. next = count /\ ~counts /\ "accounts" \notin behind /\ ~known
    BY <1>7, <1>9, <1>12, <2>1, <2>2
  <2>4. ~Recounts(log[cursor + 1], kind)
    BY <1>11, <2>3 DEF event
  <2>5. /\ count.fetch = "idle" => Counted(count.data, cursor, log, kind, Cardinality(OpenRows))
        /\ count.fetch = "answered" => Counted(count.answer, cursor, log, kind, Cardinality(OpenRows))
    BY <1>2, <2>1, <2>3 DEF CountInv, count
  <2> QED
    BY <1>1, <2>3, <2>4, <2>5, CountedOn
<1> QED
  BY <1>13, <1>14, <1>15, <1>16, <1>17, <1>18 DEF LiveInv

\* After the acknowledgement every answer on its way is dropped or known to be
\* behind.
LEMMA SubscribedKeepsLive ==
  ASSUME LiveInv, HandleSubscribed
  PROVE  LiveInv'
<1>1. /\ socket' = "live" /\ connected' = TRUE /\ behind' = Behind(Lists)
      /\ query' = [l \in Lists |-> Invalidated(query[l])] /\ UNCHANGED <<Server, cursor, faults>>
  BY DEF HandleSubscribed
<1>2. LiveTyped /\ QueriesTyped /\ RowsTyped /\ OneRowInv
  BY DEF LiveInv
<1>3. cursor' \in 0..Len(log) /\ behind \subseteq Lists
  BY <1>1, <1>2 DEF LiveTyped
<1>4. behind' = {l \in behind \cup {k \in Lists : query[k].fetch = "answered"} :
                   query'[l].fetch # "asked"}
  BY <1>1 DEF Behind
<1>5. behind' \subseteq Lists
  BY <1>3, <1>4
<1>6. /\ LiveTyped' /\ LogInv' /\ kind' = kind /\ log' = log /\ AllRows' = AllRows
      /\ Current' = Current /\ OpenRows' = OpenRows
  BY <1>1, <1>3, <1>5, ServerStays
<1>7. ASSUME NEW l \in Lists
      PROVE  /\ Query(query'[l]) /\ query'[l].loaded \in BOOLEAN /\ query'[l].data = query[l].data
             /\ query'[l].fetch = "asked" \/ (query'[l] = query[l] /\ query[l].fetch # "idle")
             /\ query'[l].fetch \in {"asked", "answered"}
             /\ query'[l].fetch = "answered" => l \in behind'
  <2>1. query'[l] = Invalidated(query[l])
    BY <1>1
  <2>2. /\ Query(query[l]) /\ query[l].loaded \in BOOLEAN
        /\ query[l].fetch \in {"idle", "asked", "answered"}
    BY <1>2 DEF QueriesTyped
  <2>3. /\ Query(query'[l]) /\ query'[l].loaded = query[l].loaded /\ query'[l].data = query[l].data
        /\ query'[l].fetch = "asked" \/ (query'[l] = query[l] /\ query[l].fetch # "idle")
    BY <2>1, <2>2, Invalidating DEF NotFetching
  <2> QED
    BY <1>4, <2>2, <2>3
<1>8. QueriesTyped'
  <2>1. query' = [l \in Lists |-> query'[l]]
    BY <1>1
  <2> QED
    BY <1>7, <2>1 DEF QueriesTyped
<1>9. "rows" \in Lists /\ "accounts" \in Lists
  BY DEF Lists
<1>10. RowsTyped' /\ OneRowInv'
  BY <1>2, <1>6, <1>7, <1>9 DEF RowsTyped, OneRowInv
<1>11. RowsInv' /\ CountInv'
  BY <1>7, <1>9 DEF RowsInv, CountInv
<1> QED
  BY <1>6, <1>8, <1>10, <1>11 DEF LiveInv

\* One list is fetched; the other stays as it is.
LEMMA FetchesKeepLive ==
  ASSUME LiveInv, Read \/ Arrive \/ Fail
  PROVE  LiveInv'
<1>1. /\ LiveTyped /\ QueriesTyped /\ RowsTyped /\ OneRowInv /\ LogInv /\ RowsInv /\ CountInv
  BY DEF LiveInv
<1>2. PICK l \in Lists :
        \/ /\ query[l].fetch = "asked" /\ Fetch(l, AnsweredWith(query[l], Stored(l)))
           /\ UNCHANGED <<behind, faults>>
        \/ /\ query[l].fetch = "answered" /\ Fetch(l, Arrived(query[l])) /\ UNCHANGED <<behind, faults>>
        \/ /\ ~NotFetching(query[l]) /\ Fetch(l, Failed(query[l]))
           /\ behind' = IF query'[l].fetch = "asked" THEN behind \ {l} ELSE behind \cup {l}
  BY DEF Read, Arrive, Fail
<1>3. UNCHANGED Server /\ cursor' = cursor /\ socket' = socket /\ connected' = connected
  BY <1>2 DEF Fetch
<1>4. query = [m \in Lists |-> query[m]] /\ Query(query[l]) /\ query[l].loaded \in BOOLEAN
  BY <1>1 DEF QueriesTyped
<1>5. /\ query' = [m \in Lists |-> query'[m]] /\ \A m \in Lists : m # l => query'[m] = query[m]
  BY <1>2, <1>4 DEF Fetch
<1>6. /\ Query(query'[l]) /\ query'[l].loaded \in BOOLEAN
      /\ \/ /\ query'[l].fetch = "answered" /\ query'[l].answer = Stored(l)
            /\ query'[l].data = query[l].data /\ behind' = behind
         \/ /\ query'[l].fetch = "idle" /\ query'[l].loaded /\ query'[l].data = query[l].answer
            /\ query[l].fetch = "answered" /\ behind' = behind
         \/ /\ query'[l].fetch = "asked" /\ query'[l].data = query[l].data
            /\ behind' = behind \ {l}
         \/ /\ query'[l].fetch = "idle" /\ query'[l].data = query[l].data
            /\ behind' = behind \cup {l}
  <2>1. CASE query[l].fetch = "asked" /\ Fetch(l, AnsweredWith(query[l], Stored(l))) /\ behind' = behind
    <3>1. query'[l] = AnsweredWith(query[l], Stored(l))
      BY <1>4, <2>1 DEF Fetch
    <3> QED
      BY <1>4, <2>1, <3>1, Given
  <2>2. CASE query[l].fetch = "answered" /\ Fetch(l, Arrived(query[l])) /\ behind' = behind
    <3>1. query'[l] = Arrived(query[l])
      BY <1>4, <2>2 DEF Fetch
    <3>2. /\ Query(Arrived(query[l])) /\ Arrived(query[l]).fetch = "idle"
          /\ Arrived(query[l]).loaded = TRUE /\ Arrived(query[l]).data = query[l].answer
      BY ONLY <1>4, Queries
    <3> QED
      BY <2>2, <3>1, <3>2
  <2>3. CASE /\ Fetch(l, Failed(query[l]))
             /\ behind' = IF query'[l].fetch = "asked" THEN behind \ {l} ELSE behind \cup {l}
    <3>1. query'[l] = Failed(query[l])
      BY <1>4, <2>3 DEF Fetch
    <3>2. /\ Query(Failed(query[l])) /\ Failed(query[l]).fetch \in {"asked", "idle"}
          /\ Failed(query[l]).loaded = query[l].loaded /\ Failed(query[l]).data = query[l].data
      BY ONLY <1>4, Queries
    <3> QED
      BY <1>4, <2>3, <3>1, <3>2
  <2> QED
    BY <1>2, <2>1, <2>2, <2>3
<1>7. /\ \A m \in Lists : m # l => (m \in behind' <=> m \in behind)
      /\ behind' \subseteq Lists /\ query'[l].fetch \in {"idle", "asked", "answered"}
  BY <1>1, <1>6 DEF LiveTyped
<1>8. /\ LiveTyped' /\ LogInv' /\ kind' = kind /\ log' = log /\ AllRows' = AllRows
      /\ Current' = Current /\ OpenRows' = OpenRows
  BY <1>1, <1>3, <1>7, ServerStays DEF LiveTyped
<1>9. QueriesTyped'
  BY <1>1, <1>5, <1>6, <1>7 DEF QueriesTyped
<1>10. /\ Stored("rows") \in Seq(AllRows) /\ DistinctIds(Stored("rows"))
       /\ \A id \in Items : RowsOf(Stored("rows"), id) = Current[id]
  BY <1>1, StoredRows DEF LiveTyped
<1>11. "rows" \in Lists /\ "accounts" \in Lists /\ "rows" # "accounts"
  BY DEF Lists
<1>12. RowsTyped'
  <2>1. CASE l = "rows"
    BY <1>1, <1>6, <1>8, <1>10, <2>1 DEF RowsTyped
  <2>2. CASE l # "rows"
    BY <1>1, <1>5, <1>8, <1>11, <2>2 DEF RowsTyped
  <2> QED
    BY <2>1, <2>2
<1>13. OneRowInv'
  <2>1. CASE l = "rows"
    BY <1>1, <1>6, <1>8, <1>10, <2>1 DEF OneRowInv
  <2>2. CASE l # "rows"
    BY <1>1, <1>5, <1>8, <1>11, <2>2 DEF OneRowInv
  <2> QED
    BY <2>1, <2>2
<1>14. RowsInv'
  <2>1. CASE l = "rows"
    <3>1. Agrees(Stored("rows"), cursor, log, Current)
      <4>1. DOMAIN Current = Items
        BY DEF Current
      <4> QED
        BY <1>10, <4>1 DEF Agrees
    <3> QED
      BY <1>1, <1>3, <1>6, <1>8, <2>1, <3>1 DEF RowsInv
  <2>2. CASE l # "rows"
    BY <1>1, <1>3, <1>5, <1>7, <1>8, <1>11, <2>2 DEF RowsInv
  <2> QED
    BY <2>1, <2>2
<1>15. CountInv'
  <2>1. CASE l = "accounts"
    <3>1. Counted(Stored("accounts"), cursor, log, kind, Cardinality(OpenRows))
      BY DEF Counted, Stored
    <3> QED
      BY <1>1, <1>3, <1>6, <1>8, <2>1, <3>1 DEF CountInv
  <2>2. CASE l # "accounts"
    BY <1>1, <1>3, <1>5, <1>7, <1>8, <1>11, <2>2 DEF CountInv
  <2> QED
    BY <2>1, <2>2
<1> QED
  BY <1>8, <1>9, <1>12, <1>13, <1>14, <1>15 DEF LiveInv

-----------------------------------------------------------------------------
\* The invariant holds in every reachable state.
LEMMA LiveAlways == LiveSpec => []LiveInv
<1>1. LiveInit => LiveInv
  BY LiveInitially
<1>2. LiveInv /\ [LiveNext]_liveVars => LiveInv'
  <2>1. SUFFICES ASSUME LiveInv, [LiveNext]_liveVars PROVE LiveInv'
    OBVIOUS
  <2>2. CASE PositionChanges \/ PositionCloses \/ OrderMoves \/ OrdersReconciled
    BY <2>1, <2>2, ServerKeepsLive
  <2>3. CASE Accept \/ Skip \/ Subscribe \/ LineDies \/ Closed
    BY <2>1, <2>3, LineKeepsLive
  <2>4. CASE HandleEvent
    BY <2>1, <2>4, HandleEventKeepsLive
  <2>5. CASE HandleSubscribed
    BY <2>1, <2>5, SubscribedKeepsLive
  <2>6. CASE Read \/ Arrive \/ Fail
    BY <2>1, <2>6, FetchesKeepLive
  <2>7. CASE UNCHANGED liveVars
    <3>1. /\ kind' = kind /\ stage' = stage /\ log' = log /\ cursor' = cursor /\ socket' = socket
          /\ connected' = connected /\ query' = query /\ behind' = behind
      BY <2>7 DEF liveVars
    <3>2. UNCHANGED Server /\ cursor' \in 0..Len(log) /\ connected' \in BOOLEAN /\ behind' \subseteq Lists
          /\ socket' \in {"closed", "accepted", "subscribed", "live", "dead"}
      BY <2>1, <3>1 DEF LiveInv, LiveTyped, Server
    <3>3. LiveTyped' /\ LogInv' /\ AllRows' = AllRows /\ Current' = Current /\ OpenRows' = OpenRows
      BY <2>1, <3>2, ServerStays
    <3>4. QueriesTyped' /\ RowsTyped' /\ OneRowInv' /\ RowsInv' /\ CountInv'
      BY <2>1, <3>1, <3>3 DEF LiveInv, QueriesTyped, RowsTyped, OneRowInv, RowsInv, CountInv
    <3> QED
      BY <3>3, <3>4 DEF LiveInv
  <2> QED
    BY <2>1, <2>2, <2>3, <2>4, <2>5, <2>6, <2>7 DEF LiveNext
<1> QED
  BY <1>1, <1>2, PTL DEF LiveSpec

\* The cache and the socket keep their types, for any numbers of items, changes
\* and faults.
THEOREM LiveTypeCorrect == LiveSpec => []LiveTypeOK
<1>1. LiveInv => LiveTypeOK
  BY DEF LiveInv, LiveTyped, QueriesTyped, LiveTypeOK
<1> QED
  BY <1>1, LiveAlways, PTL

\* Gaps are recovered, whatever was missed while the line was down, and no
\* contract is on the screen twice (applyEvent and connectLive of live.ts, the
\* queries of dashboard.tsx).
THEOREM GapsAreRecovered == LiveSpec => []GapsRecovered
<1>1. ASSUME LiveInv PROVE OneRowPerContract
  <2>1. DOMAIN query["rows"].data = 1..Len(query["rows"].data)
    BY <1>1 DEF LiveInv, RowsTyped
  <2> QED
    BY <1>1, <2>1 DEF LiveInv, OneRowInv, DistinctIds, OneRowPerContract, Shown
<1>2. ASSUME LiveInv, AtRest
      PROVE  /\ socket = "live" /\ cursor = Len(log) /\ query["rows"].fetch = "idle"
             /\ query["accounts"].fetch = "idle" /\ \A k \in (cursor + 1)..Len(log) : FALSE
  <2>1. Len(log) \in Nat
    BY <1>2 DEF LiveInv, LiveTyped
  <2> QED
    BY <1>2, <2>1 DEF AtRest, Lists, NotFetching
<1>3. ASSUME LiveInv, AtRest, "rows" \notin behind PROVE ToSet(Shown) = OpenRows
  <2>1. Agrees(Shown, cursor, log, Current)
    BY <1>2, <1>3 DEF LiveInv, RowsInv, Shown
  <2>2. DOMAIN Current = Items
    BY DEF Current
  <2>3. \A id \in Items : RowsOf(Shown, id) = Current[id]
    BY <1>2, <1>3, <2>1, <2>2 DEF Agrees
  <2>4. Shown \in Seq(AllRows)
    BY <1>3 DEF LiveInv, RowsTyped, Shown
  <2>5. \A row \in ToSet(Shown) : row.id \in Items
    <3>1. \A row \in ToSet(Shown) : row \in AllRows
      BY <2>4 DEF ToSet
    <3> QED
      BY <3>1, ARowIs
  <2>6. /\ \A id \in Items : {row \in OpenRows : row.id = id} = Current[id]
        /\ \A row \in OpenRows : row.id \in Items
    BY <1>3, OpenAre DEF LiveInv, LiveTyped
  <2>7. ASSUME NEW row PROVE row \in ToSet(Shown) <=> row \in OpenRows
    <3>1. row \in ToSet(Shown) => row \in Current[row.id] /\ row.id \in Items
      BY <2>3, <2>5 DEF RowsOf
    <3>2. row \in OpenRows => row \in Current[row.id] /\ row.id \in Items
      BY <2>6
    <3>3. row.id \in Items /\ row \in Current[row.id] => row \in ToSet(Shown) /\ row \in OpenRows
      BY <2>3, <2>6 DEF RowsOf
    <3> QED
      BY <3>1, <3>2, <3>3
  <2> QED
    BY <2>7
<1>4. ASSUME LiveInv, AtRest, "accounts" \notin behind
      PROVE  query["accounts"].data = Stored("accounts")
  <2>1. Counted(query["accounts"].data, cursor, log, kind, Cardinality(OpenRows))
    BY <1>2, <1>4 DEF LiveInv, CountInv
  <2> QED
    BY <1>2, <1>4, <2>1 DEF Counted, Stored
<1>5. LiveInv => GapsRecovered
  BY <1>1, <1>3, <1>4 DEF GapsRecovered
<1> QED
  BY <1>5, LiveAlways, PTL

-----------------------------------------------------------------------------
(***************************************************************************)
(* The panels together.  A step of the whole is a step of one panel, which *)
(* the others do not notice: the whole implements each of its parts, and   *)
(* what was proved of a part holds of it there.                            *)
(***************************************************************************)
LEMMA StepsOfThePanels ==
  ASSUME [Next]_<<panel, panelVars>>
  PROVE  /\ [GatewayNext]_gatewayVars /\ [NameNext]_nameVars
         /\ [ConnectionsNext]_connectionVars /\ [ShellNext]_shellVars
         /\ [LiveNext]_liveVars /\ [BellNext]_bellVars /\ [AlertsNext]_alertVars
BY DEF Next, panelVars

\* A behaviour of the composition is one of every panel (MCPanels).
THEOREM EveryPanelBehaves ==
  Spec => /\ GatewaySpec /\ NameSpec /\ ConnectionsSpec /\ ShellSpec
          /\ LiveSpec /\ BellSpec /\ AlertsSpec
<1>1. Init => /\ GatewayInit /\ NameInit /\ ConnectionsInit /\ ShellInit
              /\ LiveInit /\ BellInit /\ AlertsInit
  BY DEF Init
<1>2. [Next]_<<panel, panelVars>> =>
        /\ [GatewayNext]_gatewayVars /\ [NameNext]_nameVars
        /\ [ConnectionsNext]_connectionVars /\ [ShellNext]_shellVars
        /\ [LiveNext]_liveVars /\ [BellNext]_bellVars /\ [AlertsNext]_alertVars
  BY StepsOfThePanels
<1> QED
  BY <1>1, <1>2, PTL DEF Spec, GatewaySpec, NameSpec, ConnectionsSpec, ShellSpec,
     LiveSpec, BellSpec, AlertsSpec

\* What waits for its answer sends no second request, in any of the three
\* panels that have a request of their own (busy, savingRef).
THEOREM NoSecondRequestIsSent == Spec => []NoSecondRequest
<1>1. OneCommandAtATime /\ OneSaveAtATime /\ OneCommandPerConnection => NoSecondRequest
  BY DEF NoSecondRequest
<1> QED
  BY <1>1, EveryPanelBehaves, CommandsFollowEachOther, RenamesFollowEachOther, OneCommandEach, PTL

\* Every panel keeps its types, whichever of them moves.
THEOREM PanelsTypeCorrect == Spec => []PanelsTypeOK
<1>1. (GatewayTypeOK /\ NameTypeOK /\ ConnectionsTypeOK /\ ShellTypeOK
       /\ LiveTypeOK /\ BellTypeOK /\ AlertsTypeOK) => PanelsTypeOK
  BY DEF PanelsTypeOK
<1> QED
  BY <1>1, EveryPanelBehaves, GatewayTypeCorrect, NameTypeCorrect, ConnectionsTyped,
     ShellTypeCorrect, LiveTypeCorrect, BellTypeCorrect, AlertsTypeCorrect, PTL
=============================================================================
