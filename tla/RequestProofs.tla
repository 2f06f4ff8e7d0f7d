--------------------------- MODULE RequestProofs ----------------------------
(***************************************************************************)
(* The four places of the dashboard from which a member sends something:   *)
(* the gateway panel, the name of an account, the cards of the connections *)
(* and the settings of the alerts.  Whatever waits for its answer sends no *)
(* second request, what is sent was meant, and what is shown follows what  *)
(* was done: the list of the connections, and the settings.                *)
(***************************************************************************)
EXTENDS GatewayPanel, AccountName, Connections, AlertsPanel, FiniteSetTheorems, TLAPS

-----------------------------------------------------------------------------
(***************************************************************************)
(* The gateway panel.  For any times and any number of commands it has one *)
(* under way, and the guard of the API keeps every login it finds open     *)
(* from being cancelled by an operator who was not asked.  The argument    *)
(* follows two numbers: that of the request the panel asked about (a box   *)
(* is only opened over a copy that shows a request, so that what is sent   *)
(* from it, and only that, is forced, names one), and that of the last     *)
(* request in the log when the API looked.  A command that passed then and *)
(* finds the same request when it is carried out had found it too old.     *)
(***************************************************************************)
PushInv ==
  /\ push \in Nat /\ doc.push \in Nat /\ (login = "two_factor" => push # 0)
  /\ doc.phase = "two_factor" => doc.push # 0
RequestInv ==
  /\ requests # {} => busy = TRUE
  /\ \A r, s \in requests : r = s
  /\ requests \subseteq InFlight /\ \A r \in requests : r.force => r.asked # 0
  /\ confirming \in Interrupts \cup {"none"} /\ (confirming # "none" => askedOf # 0)
  /\ askedOf \in Nat /\ commands \in Nat
PanelInv == PushInv /\ RequestInv
-----------------------------------------------------------------------------
LEMMA PanelInitially == GatewayInit => PanelInv
<1> SUFFICES ASSUME GatewayInit PROVE PanelInv
  OBVIOUS
<1>1. PushInv
  BY DEF GatewayInit, PushInv, State, Asking
<1>2. RequestInv
  BY DEF GatewayInit, RequestInv
<1> QED
  BY <1>1, <1>2 DEF PanelInv

\* A command is sent only by a panel that is idle, so it is the only one.
NewRequest(action, force, asked) ==
  [action |-> action, force |-> force, asked |-> asked, id |-> commands,
   knew |-> IF doc.phase = "two_factor" THEN doc.push ELSE 0, stage |-> "sent", saw |-> 0]
LEMMA SentAlone ==
  ASSUME PanelInv, ~busy, NEW action \in Actions, NEW force \in BOOLEAN, NEW asked \in Nat,
         Send(action, force, asked)
  PROVE  /\ requests = {} /\ requests' = {NewRequest(action, force, asked)}
         /\ NewRequest(action, force, asked) \in InFlight
<1>1. requests = {}
  BY DEF PanelInv, RequestInv
<1>2. requests' = {NewRequest(action, force, asked)}
  BY <1>1 DEF Send, NewRequest
<1>3. commands \in Nat /\ doc.push \in Nat
  BY DEF PanelInv, RequestInv, PushInv
<1>4. (IF doc.phase = "two_factor" THEN doc.push ELSE 0) \in Nat
  BY <1>3
<1> QED
  BY <1>1, <1>2, <1>3, <1>4 DEF NewRequest, InFlight

LEMMA SendInv ==
  ASSUME PanelInv, ~busy, NEW action \in Actions, NEW force \in BOOLEAN, NEW asked \in Nat,
         Send(action, force, asked), force => asked # 0
  PROVE  RequestInv' /\ requests = {}
<1> DEFINE q == NewRequest(action, force, asked)
<1>1. requests = {} /\ requests' = {q} /\ q \in InFlight
  BY SentAlone
<1>2. q.force = force /\ q.asked = asked
  BY DEF NewRequest
<1>3. busy' = TRUE /\ confirming' = "none" /\ askedOf' = 0 /\ commands' \in Nat
  BY DEF Send, PanelInv, RequestInv
<1> HIDE DEF q
<1> QED
  BY <1>1, <1>2, <1>3 DEF RequestInv

LEMMA InterruptInv ==
  ASSUME PanelInv, ~busy, NEW action \in Interrupts, Interrupt(action)
  PROVE  RequestInv' /\ requests = {}
<1>1. CASE Awaiting(doc, time)
  <2>1. Ask(action)
    BY <1>1 DEF Interrupt
  <2>2. doc.push # 0 /\ doc.push \in Nat
    BY <1>1 DEF Awaiting, PanelInv, PushInv
  <2>3. /\ confirming' = action /\ askedOf' # 0 /\ askedOf' \in Nat /\ busy' = busy
        /\ requests' = requests /\ commands' = commands
    BY <2>1, <2>2 DEF Ask
  <2> QED
    BY <2>3 DEF PanelInv, RequestInv
<1>2. CASE ~Awaiting(doc, time)
  <2>1. Send(action, FALSE, 0)
    BY <1>2 DEF Interrupt
  <2> QED
    BY <2>1, SendInv DEF Actions
<1> QED
  BY <1>1, <1>2

LEMMA PrimaryIsAction == PrimaryAction \in Actions \cup {"none"}
  BY DEF PrimaryAction, Actions, Interrupts

\* Every button of the panel leaves the gateway and its copy alone.
PanelPress ==
  \/ PressStop \/ PressPrimary \/ CancelAndGo \/ KeepWaiting
  \/ Configure \/ SaveForm \/ SaveTarget
LEMMA PressInv == ASSUME PanelInv, PanelPress PROVE PanelInv' /\ requests = {}
<1>1. ~busy /\ UNCHANGED <<Host, locked, time, doc>>
  BY DEF PanelPress, PressStop, PressPrimary, CancelAndGo, KeepWaiting, Configure, SaveForm,
         SaveTarget, Idle
<1>2. PushInv'
  BY <1>1 DEF PanelInv, PushInv, Host
<1>3. RequestInv' /\ requests = {}
  <2>1. CASE PressStop
    BY <2>1, <1>1, InterruptInv DEF PressStop, Interrupts
  <2>2. CASE PressPrimary
    <3>1. CASE PrimaryAction = "restart"
      BY <3>1, <2>2, <1>1, InterruptInv DEF PressPrimary, Interrupts
    <3>2. CASE PrimaryAction # "restart"
      <4>1. Send(PrimaryAction, FALSE, 0) /\ PrimaryAction \in Actions
        BY <3>2, <2>2, PrimaryIsAction DEF PressPrimary
      <4> QED
        BY <4>1, <1>1, SendInv
    <3> QED
      BY <3>1, <3>2
  <2>3. CASE CancelAndGo
    <3>1. confirming \in Actions /\ askedOf \in Nat /\ askedOf # 0 /\ Send(confirming, TRUE, askedOf)
      BY <2>3 DEF CancelAndGo, PanelInv, RequestInv, Actions
    <3> QED
      BY <3>1, <1>1, SendInv
  <2>4. CASE KeepWaiting
    BY <1>1, <2>4 DEF KeepWaiting, PanelInv, RequestInv
  <2>5. CASE Configure
    BY <1>1, <2>5 DEF Configure, PanelInv, RequestInv
  <2>6. CASE SaveForm \/ SaveTarget
    BY <2>6, <1>1, SendInv DEF SaveForm, SaveTarget, Actions
  <2> QED
    BY <2>1, <2>2, <2>3, <2>4, <2>5, <2>6 DEF PanelPress
<1> QED
  BY <1>2, <1>3 DEF PanelInv

\* The API answers the one command there is, or takes it a stage further.
LEMMA AnswerInv ==
  ASSUME PanelInv, NEW r \in requests, NEW done, Answer(r, done)
  PROVE  requests' = {} /\ RequestInv'
<1>1. requests' = {} /\ UNCHANGED <<confirming, askedOf, commands>>
  BY DEF Answer, PanelInv, RequestInv
<1> QED
  BY <1>1 DEF PanelInv, RequestInv

Further(r, to, seen) == [r EXCEPT !.stage = to, !.saw = seen]
LEMMA AdvanceInv ==
  ASSUME PanelInv, NEW r \in requests, NEW to \in {"passed", "locked"}, NEW seen \in Nat,
         Advance(r, to, seen)
  PROVE  /\ RequestInv' /\ requests' = {Further(r, to, seen)}
         /\ Further(r, to, seen).stage = to /\ Further(r, to, seen).saw = seen
         /\ Further(r, to, seen).action = r.action /\ Further(r, to, seen).force = r.force
         /\ Further(r, to, seen).knew = r.knew /\ Further(r, to, seen).asked = r.asked
<1> DEFINE q == Further(r, to, seen)
<1>1. r \in InFlight
  BY DEF PanelInv, RequestInv
<1>2. /\ q \in InFlight /\ q.stage = to /\ q.saw = seen /\ q.action = r.action
      /\ q.force = r.force /\ q.knew = r.knew /\ q.asked = r.asked
  BY <1>1 DEF Further, InFlight
<1>3. requests' = {q}
  BY DEF Advance, Further, PanelInv, RequestInv
<1>4. UNCHANGED <<busy, confirming, askedOf, commands>>
  BY DEF Advance, Panel
<1> HIDE DEF q
<1>5. RequestInv'
  BY <1>2, <1>3, <1>4 DEF PanelInv, RequestInv
<1> QED
  BY <1>2, <1>3, <1>5 DEF q

\* What the API does with a command: it answers it, and the host has done it
\* or not, or it takes it on and nothing else happens.
Served(r) ==
  \/ \E done : Answer(r, done) /\ (UNCHANGED Host \/ Execute(r))
  \/ r.stage = "sent" /\ ~Blocked(r) /\ Advance(r, "passed", push)
  \/ r.stage = "passed" /\ Advance(r, "locked", r.saw)
LEMMA ServeCases == ASSUME Serve PROVE \E r \in requests : Served(r)
<1>1. PICK r \in requests : PassGuard(r) \/ TakeLock(r) \/ Execute(r)
  BY DEF Serve
<1>2. Served(r)
  BY <1>1 DEF PassGuard, TakeLock, Refuse, Execute, Served
<1> QED
  BY <1>2

LEMMA ExecuteMoves ==
  ASSUME PanelInv, NEW r \in requests, Execute(r)
  PROVE  /\ UNCHANGED <<push, sentAt>> /\ (login' = login \/ login' = "starting")
         /\ (running' = running \/ login' = "starting" \/ running' = FALSE)
         /\ State.phase = "two_factor" /\ (~running' \/ login' = "starting")
              => r.action \in Interrupts /\ r.stage = "locked"
<1>1. r.action \in Actions
  BY DEF PanelInv, RequestInv, InFlight
<1> QED
  BY <1>1 DEF Execute, Actions, Interrupts, Host, State, Asking

LEMMA ServeInv == ASSUME PanelInv, Serve PROVE PanelInv'
<1>1. PICK r \in requests : Served(r)
  BY ServeCases
<1>2. r \in InFlight
  BY DEF PanelInv, RequestInv
<1>3. RequestInv'
  BY <1>1, <1>2, AnswerInv, AdvanceInv DEF Served, PanelInv, PushInv, InFlight
<1>4. doc' = doc /\ push' = push /\ (login' = login \/ login' = "starting")
  BY <1>1, ExecuteMoves DEF Served, Answer, Advance, Panel, Host
<1> QED
  BY <1>3, <1>4 DEF PanelInv, PushInv

LEMMA PanelStep == PanelInv /\ [GatewayNext]_gatewayVars => PanelInv'
<1> SUFFICES ASSUME PanelInv, [GatewayNext]_gatewayVars PROVE PanelInv'
  OBVIOUS
<1>1. CASE UNCHANGED gatewayVars
  BY <1>1 DEF gatewayVars, PanelInv, PushInv, RequestInv
<1>2. CASE LoginMoves
  <2>1. RequestInv' /\ doc' = doc
    BY <1>2 DEF LoginMoves, Panel, PanelInv, RequestInv
  <2>2. push' \in Nat /\ (login' = "two_factor" => push' # 0)
    BY <1>2 DEF LoginMoves, PanelInv, PushInv
  <2> QED
    BY <2>1, <2>2 DEF PanelInv, PushInv
<1>3. CASE LinkMoves \/ Tick
  BY <1>3 DEF LinkMoves, Tick, Panel, Host, PanelInv, PushInv, RequestInv
<1>4. CASE Published
  <2>1. State.phase = "two_factor" => login = "two_factor"
    BY DEF State, Asking
  <2>2. UNCHANGED <<Host, busy, confirming, askedOf, requests, commands>> /\ doc' = State
    BY <1>4 DEF Published
  <2>3. State.push \in Nat /\ (State.phase = "two_factor" => State.push # 0)
    BY DEF State, Asking, PanelInv, PushInv
  <2> QED
    BY <2>1, <2>2, <2>3 DEF Host, PanelInv, PushInv, RequestInv
<1>5. CASE PanelPress
  BY <1>5, PressInv
<1>6. CASE Serve
  BY <1>6, ServeInv
<1> QED
  BY <1>1, <1>2, <1>3, <1>4, <1>5, <1>6 DEF GatewayNext, PanelPress
-----------------------------------------------------------------------------
\* The copy is of this request or of an older one, and a command that was
\* sent without a question knew of no request, of an older one, or of one that
\* could no longer be approved.  One that has passed the guard found no request,
\* an older one, or one with no more than the grace time left.
TimesInv ==
  /\ time \in Nat /\ sentAt \in Nat /\ doc.push <= push
  /\ doc.push = push /\ login = "two_factor" => doc.sentAt = sentAt
NewsInv ==
  \A r \in requests :
    /\ r.knew \in Nat /\ r.knew <= push
    /\ r.action \in Interrupts /\ ~r.force /\ r.knew = push /\ login = "two_factor"
         => time - sentAt >= Timeout
Harmless(r) ==
  Guarded(r) /\ r.saw = push /\ State.phase = "two_factor" => TimeLeft(State, time) <= Grace
LookInv == \A r \in requests : r.stage # "sent" => r.saw <= push /\ Harmless(r)
FullInv == PanelInv /\ TimesInv /\ NewsInv /\ LookInv

LEMMA FullInitially == GatewayInit => FullInv
<1> SUFFICES ASSUME GatewayInit PROVE FullInv
  OBVIOUS
<1>1. TimesInv
  BY DEF GatewayInit, TimesInv, State, Asking
<1>2. NewsInv
  BY DEF GatewayInit, NewsInv
<1>3. LookInv
  BY DEF GatewayInit, LookInv
<1> QED
  BY <1>1, <1>2, <1>3, PanelInitially DEF FullInv

\* What a panel that does not ask knows: nothing that can be approved.
LEMMA SendNews ==
  ASSUME FullInv, ~busy, NEW action \in Actions, NEW force \in BOOLEAN, NEW asked \in Nat,
         Send(action, force, asked), UNCHANGED <<Host, time>>,
         action \in Interrupts /\ ~force => ~Awaiting(doc, time)
  PROVE  NewsInv' /\ LookInv'
<1> DEFINE q == NewRequest(action, force, asked)
<1>1. requests' = {q}
  BY SentAlone DEF FullInv
<1>3. /\ q.action = action /\ q.force = force /\ q.stage = "sent"
      /\ q.knew = IF doc.phase = "two_factor" THEN doc.push ELSE 0
  BY DEF NewRequest
<1>4. q.knew \in Nat /\ q.knew <= push
  BY <1>3 DEF FullInv, TimesInv, PanelInv, PushInv
<1>5. ASSUME action \in Interrupts, ~force, q.knew = push, login = "two_factor"
      PROVE  time - sentAt >= Timeout
  <2>1. doc.phase = "two_factor" /\ doc.push = push /\ doc.sentAt = sentAt
    BY <1>3, <1>5 DEF FullInv, TimesInv, PanelInv, PushInv
  <2>2. ~(TimeLeft(doc, time) > 0)
    BY <1>5, <2>1 DEF Awaiting
  <2> QED
    BY <2>1, <2>2, GatewayAssumption DEF TimeLeft, GatewayAssumption, FullInv, TimesInv
<1>6. push' = push /\ sentAt' = sentAt /\ time' = time /\ login' = login
  BY DEF Host
<1> HIDE DEF q
<1>7. NewsInv'
  BY <1>1, <1>3, <1>4, <1>5, <1>6 DEF NewsInv
<1>8. LookInv'
  BY <1>1, <1>3 DEF LookInv
<1> QED
  BY <1>7, <1>8

\* A box that opens, and one that closes, leave the commands as they were.
LEMMA StayingNews ==
  ASSUME FullInv, requests' = requests, UNCHANGED <<Host, time>>
  PROVE  NewsInv' /\ LookInv'
<1>1. UNCHANGED <<State, login, push, sentAt, time>>
  BY DEF State, Asking, Host
<1>2. NewsInv'
  BY <1>1 DEF FullInv, NewsInv
<1>3. LookInv'
  BY <1>1 DEF FullInv, LookInv, Harmless
<1> QED
  BY <1>2, <1>3

LEMMA InterruptNews ==
  ASSUME FullInv, ~busy, NEW action \in Interrupts, Interrupt(action), UNCHANGED <<Host, time>>
  PROVE  NewsInv' /\ LookInv'
<1>1. CASE Awaiting(doc, time)
  BY <1>1, StayingNews DEF Interrupt, Ask
<1>2. CASE ~Awaiting(doc, time)
  <2>1. Send(action, FALSE, 0) /\ action \in Actions
    BY <1>2 DEF Interrupt, Actions
  <2> QED
    BY <1>2, <2>1, SendNews
<1> QED
  BY <1>1, <1>2

LEMMA PrimaryIsNoStop == PrimaryAction # "restart" => PrimaryAction \notin Interrupts
  BY DEF PrimaryAction, Interrupts

LEMMA PressNews == ASSUME FullInv, PanelPress PROVE NewsInv' /\ LookInv'
<1>1. ~busy /\ UNCHANGED <<Host, time>>
  BY DEF PanelPress, PressStop, PressPrimary, CancelAndGo, KeepWaiting, Configure, SaveForm,
         SaveTarget, Idle
<1>2. CASE PressStop
  BY <1>1, <1>2, InterruptNews DEF PressStop, Interrupts
<1>3. CASE PressPrimary
  <2>1. CASE PrimaryAction = "restart"
    BY <1>1, <1>3, <2>1, InterruptNews DEF PressPrimary, Interrupts
  <2>2. CASE PrimaryAction # "restart"
    <3>1. Send(PrimaryAction, FALSE, 0) /\ PrimaryAction \notin Interrupts /\ PrimaryAction \in Actions
      BY <1>3, <2>2, PrimaryIsNoStop, PrimaryIsAction DEF PressPrimary
    <3> QED
      BY <1>1, <3>1, SendNews
  <2> QED
    BY <2>1, <2>2
<1>4. CASE CancelAndGo
  <2>1. confirming \in Actions /\ askedOf \in Nat /\ Send(confirming, TRUE, askedOf)
    BY <1>4 DEF CancelAndGo, FullInv, PanelInv, RequestInv, Actions
  <2> QED
    BY <1>1, <2>1, SendNews
<1>5. CASE KeepWaiting \/ Configure
  BY <1>1, <1>5, StayingNews DEF KeepWaiting, Configure
<1>6. CASE SaveForm \/ SaveTarget
  BY <1>1, <1>6, SendNews DEF SaveForm, SaveTarget, Interrupts, Actions
<1> QED
  BY <1>2, <1>3, <1>4, <1>5, <1>6 DEF PanelPress

\* A command that goes on has not been blocked, and keeps what it saw.
LEMMA ServeNews == ASSUME FullInv, Serve PROVE NewsInv' /\ LookInv'
<1>1. PICK r \in requests : Served(r)
  BY ServeCases
<1>2. r \in InFlight /\ push \in Nat /\ PanelInv
  BY DEF FullInv, PanelInv, RequestInv, PushInv
<1>3. CASE \E done : Answer(r, done)
  <2>1. requests' = {}
    BY <1>2, <1>3, AnswerInv
  <2> QED
    BY <2>1 DEF NewsInv, LookInv
<1>4. ASSUME NEW to \in {"passed", "locked"}, NEW seen \in Nat, Advance(r, to, seen),
             seen <= push,
             Guarded(r) /\ seen = push /\ State.phase = "two_factor" => TimeLeft(State, time) <= Grace
      PROVE  NewsInv' /\ LookInv'
  <2> DEFINE q == Further(r, to, seen)
  <2>1. /\ requests' = {q} /\ q.stage = to /\ q.saw = seen /\ q.action = r.action
        /\ q.force = r.force /\ q.knew = r.knew
    BY <1>2, <1>4, AdvanceInv
  <2>2. UNCHANGED <<State, login, push, sentAt, time>>
    BY <1>4 DEF Advance, State, Asking, Host
  <2> HIDE DEF q
  <2>3. NewsInv'
    BY <2>1, <2>2 DEF FullInv, NewsInv
  <2>4. Guarded(q) = Guarded(r)
    BY <2>1 DEF Guarded
  <2>5. LookInv'
    BY <1>4, <2>1, <2>2, <2>4 DEF LookInv, Harmless
  <2> QED
    BY <2>3, <2>5
<1>5. CASE r.stage = "sent" /\ ~Blocked(r) /\ Advance(r, "passed", push)
  <2>1. Guarded(r) /\ State.phase = "two_factor" => ~(TimeLeft(State, time) > Grace)
    BY <1>5 DEF Blocked
  <2>2. TimeLeft(State, time) \in Int /\ Grace \in Int
    BY GatewayAssumption DEF TimeLeft, State, Asking, GatewayAssumption, FullInv, TimesInv
  <2> QED
    BY <1>2, <1>4, <1>5, <2>1, <2>2
<1>6. CASE r.stage = "passed" /\ Advance(r, "locked", r.saw)
  <2>1. r.saw \in Nat /\ r.saw <= push /\ Harmless(r)
    BY <1>2, <1>6 DEF InFlight, FullInv, LookInv
  <2> QED
    BY <1>4, <1>6, <2>1 DEF Harmless
<1> QED
  BY <1>1, <1>3, <1>5, <1>6 DEF Served

LEMMA FullStep == FullInv /\ [GatewayNext]_gatewayVars => FullInv'
<1> SUFFICES ASSUME FullInv, [GatewayNext]_gatewayVars PROVE FullInv'
  OBVIOUS
<1>1. PanelInv'
  BY PanelStep DEF FullInv
<1>2. TimesInv'
  <2>1. CASE UNCHANGED gatewayVars
    BY <2>1 DEF gatewayVars, FullInv, TimesInv
  <2>2. CASE LoginMoves
    BY <2>2 DEF LoginMoves, Panel, FullInv, TimesInv, PanelInv, PushInv
  <2>3. CASE LinkMoves
    BY <2>3 DEF LinkMoves, Panel, FullInv, TimesInv
  <2>4. CASE Tick
    BY <2>4 DEF Tick, Panel, Host, FullInv, TimesInv
  <2>5. CASE Published
    <3>1. doc' = State /\ UNCHANGED <<Host, time>>
      BY <2>5 DEF Published
    <3>2. State.push <= push /\ (State.push = push /\ login = "two_factor" => State.sentAt = sentAt)
      BY DEF State, Asking, FullInv, PanelInv, PushInv
    <3> QED
      BY <3>1, <3>2 DEF Host, FullInv, TimesInv, PanelInv, PushInv
  <2>6. CASE PanelPress
    BY <2>6 DEF PanelPress, PressStop, PressPrimary, CancelAndGo, KeepWaiting, Configure, SaveForm,
                SaveTarget, Idle, Host, FullInv, TimesInv
  <2>7. CASE Serve
    <3>1. PICK r \in requests : Served(r)
      BY <2>7, ServeCases
    <3>2. doc' = doc /\ time' = time
      BY <3>1 DEF Served, Answer, Advance, Panel
    <3>3. push' = push /\ sentAt' = sentAt /\ (login' = "two_factor" => login = "two_factor")
      BY <3>1, ExecuteMoves DEF Served, Advance, Host, FullInv
    <3> QED
      BY <3>2, <3>3 DEF FullInv, TimesInv
  <2> QED
    BY <2>1, <2>2, <2>3, <2>4, <2>5, <2>6, <2>7 DEF GatewayNext, PanelPress
<1>3. NewsInv' /\ LookInv'
  <2>1. CASE UNCHANGED gatewayVars
    BY <2>1, StayingNews DEF gatewayVars, Host
  <2>2. CASE LoginMoves
    <3>1. requests' = requests /\ time' = time /\ running' = running
      BY <2>2 DEF LoginMoves
    <3>2. \/ push' = push /\ login' # "two_factor"
          \/ push' = push + 1
      BY <2>2 DEF LoginMoves
    <3>3. push \in Nat
      BY DEF FullInv, PanelInv, PushInv
    <3>4. NewsInv'
      BY <3>1, <3>2, <3>3 DEF FullInv, NewsInv
    <3>5. State'.phase = "two_factor" => login' = "two_factor"
      BY DEF State, Asking
    <3>6. ASSUME NEW r \in requests, r.stage # "sent"
          PROVE  r.saw <= push' /\ (r.saw = push' => State'.phase # "two_factor")
      <4>1. r.saw \in Nat /\ r.saw <= push
        BY <3>6 DEF FullInv, LookInv, PanelInv, RequestInv, InFlight
      <4> QED
        BY <3>2, <3>3, <3>5, <4>1
    <3>7. LookInv'
      BY <3>1, <3>6 DEF LookInv, Harmless
    <3> QED
      BY <3>4, <3>7
  <2>3. CASE LinkMoves
    <3>1. UNCHANGED <<requests, login, push, sentAt, time>> /\ State'.phase = State.phase
          /\ State'.sentAt = State.sentAt
      BY <2>3 DEF LinkMoves, State, Asking
    <3>2. TimeLeft(State', time') = TimeLeft(State, time)
      BY <3>1 DEF TimeLeft
    <3>3. LookInv'
      BY <3>1, <3>2 DEF FullInv, LookInv, Harmless, Guarded
    <3> QED
      BY <3>1, <3>3 DEF FullInv, NewsInv
  <2>4. CASE Published
    BY <2>4, StayingNews DEF Published
  <2>5. CASE Tick
    <3>1. requests' = requests /\ time' = time + 1 /\ UNCHANGED <<State, login, push, sentAt>>
      BY <2>5 DEF Tick, Host, State, Asking
    <3>2. NewsInv'
      BY <3>1, GatewayAssumption DEF FullInv, TimesInv, NewsInv, GatewayAssumption
    <3>3. State.sentAt \in Nat
      BY DEF State, Asking, FullInv, TimesInv
    <3>4. TimeLeft(State, time + 1) <= TimeLeft(State, time) /\ TimeLeft(State, time) \in Int
          /\ TimeLeft(State, time + 1) \in Int
      BY <3>3, GatewayAssumption DEF TimeLeft, FullInv, TimesInv, GatewayAssumption
    <3>5. LookInv'
      BY <3>1, <3>4, GatewayAssumption DEF FullInv, LookInv, Harmless, Guarded, GatewayAssumption
    <3> QED
      BY <3>2, <3>5
  <2>6. CASE PanelPress
    BY <2>6, PressNews
  <2>7. CASE Serve
    BY <2>7, ServeNews
  <2> QED
    BY <2>1, <2>2, <2>3, <2>4, <2>5, <2>6, <2>7 DEF GatewayNext, PanelPress
<1> QED
  BY <1>1, <1>2, <1>3 DEF FullInv
-----------------------------------------------------------------------------
\* Whatever is clicked while a command is answered, no second one is sent.
THEOREM CommandsFollowEachOther == GatewaySpec => []OneCommandAtATime
<1>1. PanelInv => OneCommandAtATime
  <2> SUFFICES ASSUME PanelInv PROVE Cardinality(requests) <= 1
    BY DEF OneCommandAtATime
  <2>1. CASE requests = {}
    BY <2>1, FS_EmptySet
  <2>2. CASE requests # {}
    <3>1. PICK r \in requests : requests = {r}
      BY <2>2 DEF PanelInv, RequestInv
    <3>2. Cardinality({r}) = 1
      BY FS_Singleton
    <3> QED
      BY <3>1, <3>2
  <2> QED
    BY <2>1, <2>2
<1> QED
  BY <1>1, PanelInitially, PanelStep, PTL DEF GatewaySpec

\* A step that cancels a login with more than the grace time left carries out a
\* command whose operator was asked, or one that passed before there was it.
LEMMA CancelsKnowingly ==
  ASSUME FullInv, [GatewayNext]_gatewayVars, NEW r \in requests \ requests', Cancels
  PROVE  r.asked # 0 \/ r.saw # push
<1>1. State.phase = "two_factor" /\ running /\ login = "two_factor" /\ TimeLeft(State, time) > Grace
  BY DEF Cancels, Awaiting, State, Asking
<1>2. Serve
  BY <1>1, PressInv DEF GatewayNext, PanelPress, LoginMoves, LinkMoves, Tick, Published,
                        gatewayVars, FullInv
<1>3. PICK q \in requests : Served(q)
  BY <1>2, ServeCases
<1>4. q = r /\ r \in InFlight
  BY DEF FullInv, PanelInv, RequestInv
<1>5. ~UNCHANGED Host
  BY <1>1 DEF Cancels, Host
<1>6. Execute(r)
  BY <1>3, <1>4, <1>5 DEF Served, Advance
<1>7. r.action \in Interrupts /\ r.stage = "locked"
  BY <1>1, <1>6, ExecuteMoves DEF Cancels, FullInv
<1>8. r.force => r.asked # 0
  BY DEF FullInv, PanelInv, RequestInv
<1>9. Harmless(r)
  BY <1>7 DEF FullInv, LookInv
<1>10. TimeLeft(State, time) \in Int /\ Grace \in Int
  BY GatewayAssumption DEF TimeLeft, State, Asking, GatewayAssumption, FullInv, TimesInv
<1>11. r.saw = push => ~Guarded(r)
  BY <1>1, <1>9, <1>10 DEF Harmless
<1> QED
  BY <1>7, <1>8, <1>11 DEF Guarded

\* No login that can still be approved is cancelled by an operator who was not
\* asked, unless the gateway made it after the command had passed the guard.
THEOREM NoLoginIsCancelledUnasked == GatewaySpec => NoSilentCancel
<1>1. FullInv /\ [GatewayNext]_gatewayVars =>
        [\A r \in requests \ requests' : Cancels => r.asked # 0 \/ r.saw # push]_gatewayVars
  BY CancelsKnowingly
<1> QED
  BY <1>1, FullInitially, FullStep, PTL DEF GatewaySpec, NoSilentCancel

\* The guard of the API never refuses an operator whose panel knew of the
\* request: it counts down against the same instant.
THEOREM GuardRefusesOnlyNews == GatewaySpec => []RefusedIsNews
<1>1. FullInv => RefusedIsNews
  <2> SUFFICES ASSUME FullInv, NEW r \in requests, Blocked(r), r.knew = push PROVE FALSE
    BY DEF RefusedIsNews
  <2>1. State.phase = "two_factor" /\ State.sentAt = sentAt /\ login = "two_factor"
    BY DEF Blocked, State, Asking
  <2>2. time - sentAt >= Timeout
    BY <2>1 DEF Blocked, Guarded, FullInv, NewsInv, PanelInv, PushInv
  <2>3. TimeLeft(State, time) = 0
    BY <2>1, <2>2 DEF TimeLeft
  <2> QED
    BY <2>3, GatewayAssumption DEF Blocked, GatewayAssumption
<1> QED
  BY <1>1, FullInitially, FullStep, PTL DEF GatewaySpec

LEMMA PressTyped ==
  ASSUME PanelInv, GatewayTypeOK, PanelPress
  PROVE  /\ UNCHANGED <<Host, locked>> /\ busy' \in BOOLEAN /\ configuring' \in BOOLEAN
         /\ commands' \in 0..MaxCommands
<1> USE DEF PressStop, PressPrimary, CancelAndGo, KeepWaiting, Configure, SaveForm, SaveTarget
<1>1. UNCHANGED <<Host, locked>>
  BY DEF PanelPress, Idle
<1>2. busy \in BOOLEAN /\ configuring \in BOOLEAN /\ commands \in 0..MaxCommands
  BY DEF GatewayTypeOK
<1>3. configuring' \in BOOLEAN
  BY <1>2 DEF PanelPress
<1>4. ASSUME NEW action, NEW force, NEW asked, Send(action, force, asked)
      PROVE  busy' \in BOOLEAN /\ commands' \in 0..MaxCommands
  BY <1>2, <1>4, GatewayAssumption DEF Send, GatewayAssumption
<1>5. ASSUME NEW action, Interrupt(action)
      PROVE  busy' \in BOOLEAN /\ commands' \in 0..MaxCommands
  BY <1>2, <1>4, <1>5 DEF Interrupt, Ask
<1>6. busy' \in BOOLEAN /\ commands' \in 0..MaxCommands
  BY <1>2, <1>4, <1>5 DEF PanelPress
<1> QED
  BY <1>1, <1>3, <1>6

LEMMA GatewayTypesKept ==
  ASSUME PanelInv, GatewayTypeOK, [GatewayNext]_gatewayVars
  PROVE  GatewayTypeOK'
<1>0. /\ busy \in BOOLEAN /\ configuring \in BOOLEAN /\ running \in BOOLEAN
      /\ login \in Logins /\ push \in 0..MaxPushes /\ link \in Links /\ locked \subseteq Actions
      /\ confirming \in Interrupts \cup {"none"} /\ commands \in 0..MaxCommands
  BY DEF GatewayTypeOK
<1>00. confirming' \in Interrupts \cup {"none"} /\ requests' \subseteq InFlight
  BY PanelStep DEF PanelInv, RequestInv
<1>1. CASE UNCHANGED gatewayVars
  BY <1>1 DEF gatewayVars, GatewayTypeOK
<1>2. CASE LoginMoves
  <2>1. login' \in Logins
    BY <1>0, <1>2 DEF LoginMoves, NextLogins, Logins
  <2>2. push' \in 0..MaxPushes
    BY <1>0, <1>2, GatewayAssumption DEF LoginMoves, GatewayAssumption
  <2> QED
    BY <1>0, <1>00, <1>2, <2>1, <2>2 DEF LoginMoves, Panel, GatewayTypeOK
<1>3. CASE LinkMoves \/ Tick
  BY <1>0, <1>00, <1>3 DEF LinkMoves, Tick, Host, Panel, GatewayTypeOK
<1>4. CASE Published
  BY <1>0, <1>00, <1>4 DEF Published, Host, GatewayTypeOK
<1>5. CASE PanelPress
  BY <1>0, <1>00, <1>5, PressTyped DEF Host, GatewayTypeOK
<1>6. CASE Serve
  <2>1. PICK r \in requests : PassGuard(r) \/ TakeLock(r) \/ Execute(r)
    BY <1>6 DEF Serve
  <2>2. r.action \in Actions
    BY DEF PanelInv, RequestInv, InFlight
  <2>3. busy' \in BOOLEAN /\ configuring' \in BOOLEAN /\ commands' = commands
    BY <1>0, <2>1 DEF PassGuard, TakeLock, Refuse, Execute, Answer, Advance, Panel
  <2>4. locked' \subseteq Actions
    BY <1>0, <2>1, <2>2 DEF PassGuard, TakeLock, Refuse, Execute
  <2>5. running' \in BOOLEAN /\ login' \in Logins /\ push' = push /\ link' \in Links
    <3>1. CASE UNCHANGED Host
      BY <1>0, <3>1 DEF Host
    <3>2. CASE Execute(r) /\ ~UNCHANGED Host
      BY <1>0, <2>2, <3>2, GatewayAssumption
         DEF Execute, Host, Actions, Interrupts, Logins, GatewayAssumption
    <3> QED
      BY <2>1, <3>1, <3>2 DEF PassGuard, TakeLock, Refuse, Advance
  <2> QED
    BY <1>0, <1>00, <2>3, <2>4, <2>5 DEF GatewayTypeOK
<1> QED
  BY <1>1, <1>2, <1>3, <1>4, <1>5, <1>6 DEF GatewayNext, PanelPress

\* The types of the panel's and the gateway's state, for any times and bounds.
THEOREM GatewayTypeCorrect == GatewaySpec => []GatewayTypeOK
<1>1. GatewayInit => GatewayTypeOK
  <2>1. SUFFICES ASSUME GatewayInit PROVE GatewayTypeOK
    OBVIOUS
  <2>2. push \in 0..MaxPushes /\ commands \in 0..MaxCommands /\ link \in Links
    BY <2>1, GatewayAssumption DEF GatewayInit, GatewayAssumption
  <2> QED
    BY <2>1, <2>2 DEF GatewayInit, GatewayTypeOK, Logins
<1>2. PanelInv /\ GatewayTypeOK /\ [GatewayNext]_gatewayVars => GatewayTypeOK'
  BY GatewayTypesKept
<1> QED
  BY <1>1, <1>2, PanelInitially, PanelStep, PTL DEF GatewaySpec

-----------------------------------------------------------------------------
(***************************************************************************)
(* The name of an account.  For any set of names there is one rename under *)
(* way at a time, and nothing is sent that was not typed or was given up.   *)
(* The argument follows the form: a request is under way only from a form   *)
(* that is open and marked as saving, and a form that is being removed has  *)
(* nothing left to send, because it was left with Escape or as the row is.  *)
(***************************************************************************)
FormInv ==
  /\ flying # <<>> => Len(flying) = 1 /\ editing /\ saving /\ savingRef /\ ~leaving
  /\ leaving => ~editing /\ (skipSave \/ draft = shown)
\* What the form has been through since it was opened.
EditInv ==
  /\ editing => ~abandoned
  /\ editing /\ ~typed => draft = opened
NameInv == NameTypeOK /\ FormInv /\ EditInv
Sending == Len(flying') > Len(flying) => ~abandoned /\ (typed \/ shown # opened)
-----------------------------------------------------------------------------
LEMMA NameInitially == NameInit => NameInv
<1> SUFFICES ASSUME NameInit PROVE NameInv
  OBVIOUS
<1>1. flying = <<>> /\ flying \in Seq(Names)
  BY DEF NameInit
<1>2. edits \in 0..MaxEdits /\ others \in 0..MaxEdits
  BY NamesAssumption DEF NameInit, NamesAssumption
<1>3. NameTypeOK
  BY <1>1, <1>2 DEF NameInit, NameTypeOK
<1>4. FormInv
  BY <1>1 DEF NameInit, FormInv
<1>5. EditInv
  BY DEF NameInit, EditInv
<1> QED
  BY <1>4, <1>5, <1>3 DEF NameInv

LEMMA OneSent == ASSUME NameInv PROVE Len(flying) <= 1
<1>1. flying \in Seq(Names) /\ (flying # <<>> => Len(flying) = 1)
  BY DEF NameInv, NameTypeOK, FormInv
<1>2. CASE flying = <<>>
  BY <1>2
<1>3. CASE flying # <<>>
  <2>1. Len(flying) = 1
    BY <1>1, <1>3
  <2> QED
    BY <2>1
<1> QED
  BY <1>2, <1>3

\* save() either sends what is in the form or leaves the requests alone.
LEMMA SaveSendsOrNot ==
  ASSUME Save
  PROVE  \/ /\ flying' = flying /\ savingRef' = savingRef /\ saving' = saving
            /\ skipSave' = skipSave \/ skipSave' = FALSE
            /\ editing' = editing \/ (editing' = FALSE /\ ~skipSave /\ ~savingRef /\ draft = shown)
            /\ ~skipSave => skipSave' = skipSave
         \/ /\ ~skipSave /\ ~savingRef /\ draft # shown /\ flying' = Append(flying, draft)
            /\ savingRef' = TRUE /\ saving' = TRUE /\ UNCHANGED <<editing, skipSave>>
  BY DEF Save

LEMMA SavesInv ==
  ASSUME NameInv, Saves,
         \/ editing /\ ~leaving /\ leaving' = (editing' = FALSE) /\ ~saving
         \/ editing /\ ~leaving /\ leaving' = leaving
         \/ leaving /\ leaving' = FALSE
  PROVE  NameInv' /\ Sending
<1>1. UNCHANGED <<stored, shown, draft, opened, typed, abandoned, edits, others>>
  BY DEF Saves, Past
<1>2. Save
  BY DEF Saves
<1>3. flying \in Seq(Names) /\ draft \in Names /\ leaving \in BOOLEAN /\ editing \in BOOLEAN
  BY DEF NameInv, NameTypeOK
<1>4. CASE flying' = flying
  <2>1. /\ savingRef' = savingRef /\ saving' = saving
        /\ skipSave' = skipSave \/ skipSave' = FALSE
        /\ editing' = editing \/ (editing' = FALSE /\ ~skipSave /\ ~savingRef /\ draft = shown)
        /\ ~skipSave => skipSave' = skipSave
    <3>1. flying # Append(flying, draft)
      BY <1>3
    <3> QED
      BY <1>2, <1>4, <3>1, SaveSendsOrNot
  <2>2. NameTypeOK'
    BY <1>1, <1>4, <2>1 DEF NameInv, NameTypeOK
  <2>3. leaving' => ~editing' /\ (skipSave' \/ draft' = shown')
    BY <1>1, <1>3, <2>1 DEF NameInv, FormInv
  <2>4. flying' # <<>> => Len(flying') = 1 /\ editing' /\ saving' /\ savingRef' /\ ~leaving'
    BY <1>4, <1>3, <2>1 DEF NameInv, FormInv
  <2>5. EditInv'
    BY <1>1, <1>3, <2>1 DEF NameInv, EditInv
  <2> QED
    BY <1>4, <2>2, <2>3, <2>4, <2>5 DEF Sending, NameInv, FormInv
<1>5. CASE flying' # flying
  <2>1. /\ ~skipSave /\ ~savingRef /\ draft # shown /\ flying' = Append(flying, draft)
        /\ savingRef' = TRUE /\ saving' = TRUE /\ UNCHANGED <<editing, skipSave>>
    BY <1>2, <1>5, SaveSendsOrNot
  <2>2. editing /\ ~leaving /\ leaving' = FALSE
    BY <1>3, <2>1 DEF NameInv, FormInv
  <2>3. flying = <<>>
    BY <2>1 DEF NameInv, FormInv
  <2>4. flying' \in Seq(Names) /\ Len(flying') = 1
    BY <1>3, <2>1, <2>3
  <2>5. NameTypeOK'
    BY <1>1, <2>1, <2>2, <2>4 DEF NameInv, NameTypeOK
  <2>6. FormInv' /\ EditInv'
    BY <1>1, <2>1, <2>2, <2>4 DEF NameInv, FormInv, EditInv
  <2>7. Sending
    BY <1>1, <2>1, <2>2 DEF Sending, NameInv, EditInv
  <2> QED
    BY <2>5, <2>6, <2>7 DEF NameInv
<1> QED
  BY <1>4, <1>5

\* A step that neither saves nor answers leaves the requests alone.
LEMMA NothingSent ==
  ASSUME NameInv, flying' = flying, NameTypeOK',
         flying # <<>> => UNCHANGED <<editing, saving, savingRef, leaving>>,
         leaving' => ~editing' /\ (skipSave' \/ draft' = shown'), EditInv'
  PROVE  NameInv' /\ Sending
<1>1. Sending
  BY OneSent DEF Sending, NameInv, NameTypeOK
<1>2. FormInv'
  BY DEF FormInv, NameInv
<1> QED
  BY <1>1, <1>2 DEF NameInv

LEMMA NameStep == NameInv /\ [NameNext]_nameVars => NameInv' /\ Sending
<1> SUFFICES ASSUME NameInv, [NameNext]_nameVars PROVE NameInv' /\ Sending
  OBVIOUS
<1> USE DEF Edit, Past
<1>1. CASE UNCHANGED nameVars
  <2>1. NameTypeOK' /\ EditInv'
    BY <1>1 DEF nameVars, NameInv, NameTypeOK, EditInv
  <2> QED
    BY <1>1, <2>1, NothingSent DEF nameVars, NameInv, FormInv
<1>2. CASE ~leaving /\ Open
  <2>1. edits' \in 0..MaxEdits
    BY <1>2, NamesAssumption DEF Open, NameInv, NameTypeOK, NamesAssumption
  <2>2. NameTypeOK'
    BY <1>2, <2>1 DEF Open, NameInv, NameTypeOK
  <2>3. flying = <<>> /\ ~leaving'
    BY <1>2 DEF Open, NameInv, FormInv
  <2>4. EditInv'
    BY <1>2 DEF Open, EditInv
  <2> QED
    BY <1>2, <2>2, <2>3, <2>4, NothingSent DEF Open
<1>3. CASE ~leaving /\ Type
  <2>1. NameTypeOK'
    BY <1>3 DEF Type, NameInv, NameTypeOK
  <2>2. EditInv' /\ ~leaving'
    BY <1>3 DEF Type, NameInv, EditInv
  <2> QED
    BY <1>3, <2>1, <2>2, NothingSent DEF Type
<1>4. CASE ~leaving /\ (Enter \/ Blur)
  BY <1>4, SavesInv DEF Enter, Blur
<1>5. CASE ~leaving /\ Escape
  <2>1. NameTypeOK'
    BY <1>5 DEF Escape, NameInv, NameTypeOK
  <2>2. flying = <<>>
    BY <1>5 DEF Escape, NameInv, FormInv
  <2>3. EditInv'
    BY <1>5 DEF Escape, EditInv
  <2> QED
    BY <1>5, <2>1, <2>2, <2>3, NothingSent DEF Escape
<1>6. CASE BlurLast
  BY <1>6, SavesInv DEF BlurLast
<1>7. CASE NoBlur
  <2>1. NameTypeOK'
    BY <1>7 DEF NoBlur, NameInv, NameTypeOK
  <2>2. flying = <<>>
    BY <1>7 DEF NoBlur, NameInv, FormInv
  <2>3. EditInv'
    BY <1>7 DEF NoBlur, NameInv, EditInv
  <2> QED
    BY <1>7, <2>1, <2>2, <2>3, NothingSent DEF NoBlur
<1>8. CASE Renamed \/ Refused
  <2>1. flying # <<>> /\ Len(flying) = 1 /\ ~leaving /\ flying' = Tail(flying)
    BY <1>8 DEF Renamed, Refused, NameInv, FormInv
  <2>2. flying \in Seq(Names)
    BY DEF NameInv, NameTypeOK
  <2>3. flying' = <<>> /\ flying' \in Seq(Names) /\ Head(flying) \in Names
    BY <2>1, <2>2
  <2>4. NameTypeOK'
    BY <1>8, <2>3 DEF Renamed, Refused, Close, NameInv, NameTypeOK
  <2>5. FormInv'
    BY <1>8, <2>1, <2>3 DEF Renamed, Refused, FormInv
  <2>6. EditInv'
    BY <1>8 DEF Renamed, Refused, Close, EditInv
  <2>7. Len(flying') = 0
    BY <2>3
  <2> QED
    BY <2>1, <2>4, <2>5, <2>6, <2>7 DEF Sending, NameInv
<1>9. CASE NamedElsewhere
  <2>1. others' \in 0..MaxEdits
    BY <1>9, NamesAssumption DEF NamedElsewhere, NameInv, NameTypeOK, NamesAssumption
  <2>2. NameTypeOK'
    BY <1>9, <2>1 DEF NamedElsewhere, NameInv, NameTypeOK
  <2>3. EditInv' /\ (leaving' => ~editing' /\ (skipSave' \/ draft' = shown'))
    BY <1>9 DEF NamedElsewhere, NameInv, EditInv, FormInv
  <2> QED
    BY <1>9, <2>2, <2>3, NothingSent DEF NamedElsewhere
<1>10. CASE RowsFetched
  <2>1. NameTypeOK'
    BY <1>10 DEF RowsFetched, NameInv, NameTypeOK
  <2>2. EditInv' /\ ~leaving'
    BY <1>10 DEF RowsFetched, NameInv, EditInv
  <2> QED
    BY <1>10, <2>1, <2>2, NothingSent DEF RowsFetched
<1> QED
  BY <1>1, <1>2, <1>3, <1>4, <1>5, <1>6, <1>7, <1>8, <1>9, <1>10 DEF NameNext
-----------------------------------------------------------------------------
\* The state of the cell keeps its types.
THEOREM NameTypeCorrect == NameSpec => []NameTypeOK
<1>1. NameInv => NameTypeOK
  BY DEF NameInv
<1> QED
  BY <1>1, NameInitially, NameStep, PTL DEF NameSpec

\* savingRef keeps Enter, the loss of the focus and the next opening of the
\* form from having two renames of one account under way.
THEOREM RenamesFollowEachOther == NameSpec => []OneSaveAtATime
<1>1. NameInv => OneSaveAtATime
  BY OneSent DEF OneSaveAtATime
<1> QED
  BY <1>1, NameInitially, NameStep, PTL DEF NameSpec

\* What was left with Escape, or was never typed, is not sent (skipSave).
THEOREM GivenUpIsNotSent == NameSpec => OnlyEditsAreSent
<1>1. NameInv /\ [NameNext]_nameVars =>
        [Len(flying') > Len(flying) => ~abandoned /\ (typed \/ shown # opened)]_nameVars
  BY NameStep DEF Sending
<1> QED
  BY <1>1, NameInitially, NameStep, PTL DEF NameSpec, OnlyEditsAreSent

-----------------------------------------------------------------------------
(***************************************************************************)
(* The cards of the connections.  Two things are followed.  A command keeps *)
(* its card busy while the row is there; the row cannot come back, because *)
(* a connection is removed for good and the list never goes back to an      *)
(* older answer; so that a card without a command is one without a request. *)
(* And the last answer is the registry, unless something changed that the   *)
(* list was not asked for after.                                            *)
(***************************************************************************)
\* A query is a record of its five fields.
Query(q) == q = [field \in {"loaded", "data", "fetch", "answer", "tries"} |-> q[field]]

\* What each operation of the cache leaves a query.
LEMMA Queries ==
  ASSUME NEW q, Query(q)
  PROVE  /\ Query(Fetching(q)) /\ Fetching(q).fetch = "asked"
            /\ Fetching(q).loaded = q.loaded /\ Fetching(q).data = q.data
         /\ Query(Arrived(q)) /\ Arrived(q).fetch = "idle" /\ Arrived(q).loaded = TRUE
            /\ Arrived(q).data = q.answer
         /\ Query(Failed(q)) /\ Failed(q).fetch \in {"asked", "idle"}
            /\ Failed(q).loaded = q.loaded /\ Failed(q).data = q.data
<1>1. Query(Fetching(q)) /\ Fetching(q).fetch = "asked"
            /\ Fetching(q).loaded = q.loaded /\ Fetching(q).data = q.data
  BY DEF Query, Fetching
<1>2. Query(Arrived(q)) /\ Arrived(q).fetch = "idle" /\ Arrived(q).loaded = TRUE
            /\ Arrived(q).data = q.answer
  BY DEF Query, Arrived
<1>3. Query(Failed(q)) /\ Failed(q).fetch \in {"asked", "idle"}
            /\ Failed(q).loaded = q.loaded /\ Failed(q).data = q.data
  BY DEF Query, Failed
<1>4. QED
  BY <1>1, <1>2, <1>3
LEMMA Given ==
  ASSUME NEW q, Query(q), NEW value
  PROVE  /\ Query(AnsweredWith(q, value)) /\ AnsweredWith(q, value).fetch = "answered"
            /\ AnsweredWith(q, value).loaded = q.loaded /\ AnsweredWith(q, value).data = q.data
            /\ AnsweredWith(q, value).answer = value
         /\ Query(Updated(q, value)) /\ Updated(q, value).fetch = q.fetch
            /\ Updated(q, value).loaded = q.loaded /\ Updated(q, value).data = value
            /\ Updated(q, value).answer = q.answer
  BY DEF Query, AnsweredWith, Updated
LEMMA New == Query(NewQuery) /\ NewQuery.loaded = FALSE
  BY DEF Query, NewQuery
LEMMA Invalidating ==
  ASSUME NEW q, Query(q)
  PROVE  /\ Query(Invalidated(q)) /\ Invalidated(q).loaded = q.loaded
         /\ Invalidated(q).data = q.data
         /\ \/ Invalidated(q).fetch = "asked"
            \/ Invalidated(q) = q /\ ~q.loaded /\ ~NotFetching(q)
<1>1. CASE q.loaded \/ NotFetching(q)
  <2>1. Invalidated(q) = Fetching(q)
    BY <1>1 DEF Invalidated
  <2>2. /\ Query(Fetching(q)) /\ Fetching(q).fetch = "asked"
        /\ Fetching(q).loaded = q.loaded /\ Fetching(q).data = q.data
    BY Queries
  <2>3. QED
    BY <2>1, <2>2
<1>2. CASE ~(q.loaded \/ NotFetching(q))
  BY <1>2 DEF Invalidated
<1>3. QED
  BY <1>1, <1>2
-----------------------------------------------------------------------------
ListRow == [status : Statuses \cup {"NEW", "REMOVED"}, login : BOOLEAN]
Card == [busy : 0..MaxIssued, form : BOOLEAN, box : BOOLEAN, link : BOOLEAN]
Whats == {"create", "enable", "disable", "start", "reconnect", "link", "check", "save", "remove"}
Sent == [n : 1..MaxIssued, what : Whats, id : Ids, at : {"sent", "done", "refused"}]
ConnTyped ==
  /\ registry \in [Ids -> ListRow] /\ cards \in [Ids -> Card]
  /\ Query(list)
  /\ list.fetch \in {"idle", "asked", "answered"} /\ list.loaded \in BOOLEAN
  /\ gaveWay \in BOOLEAN /\ adding \in BOOLEAN /\ unread \in BOOLEAN /\ upset \in BOOLEAN
  /\ issued \in 0..MaxIssued /\ flight \subseteq Sent
  /\ \A c \in flight : c.n <= issued
  /\ \A c, d \in flight : c.n = d.n => c = d

\* A connection is never NEW again, and REMOVED for good.
NoEarlier(old, new) == \A id \in Ids :
  /\ old[id].status # "NEW" => new[id].status # "NEW"
  /\ old[id].status = "REMOVED" => new[id].status = "REMOVED"
\* What the browser has is the registry of some time, and the answer on its
\* way is not older than what is shown.
ListInv ==
  /\ list.loaded => list.data \in [Ids -> ListRow] /\ NoEarlier(list.data, registry)
  /\ list.fetch = "answered" => list.answer \in [Ids -> ListRow] /\ NoEarlier(list.answer, registry)
  /\ list.loaded /\ list.fetch = "answered" => NoEarlier(list.data, list.answer)
\* If nothing was missed, the last answer is the registry.
FollowInv ==
  ~unread /\ (\A c \in flight : c.at # "done") =>
    /\ NotFetching(list) /\ list.loaded /\ ~gaveWay => list.data = registry
    /\ list.fetch = "answered" => list.answer = registry
\* A command keeps its card busy, or has lost it with the connection.
BusyInv ==
  ~upset =>
    /\ gaveWay => flight = {}
    /\ \A c \in flight : c.what # "create" =>
         /\ list.loaded
         /\ \/ list.data[c.id].status \in Statuses /\ cards[c.id].busy = c.n
            \/ list.data[c.id].status = "REMOVED"
    /\ \A c, d \in flight : c.id = d.id /\ c.what # "create" /\ d.what # "create" => c = d
ConnInv == ConnTyped /\ ListInv /\ FollowInv /\ BusyInv
LEMMA ConnInitially == ConnectionsInit => ConnInv
<1> SUFFICES ASSUME ConnectionsInit PROVE ConnInv
  OBVIOUS
<1> USE DEF ConnectionsInit
<1>1. Query(list) /\ list.loaded = FALSE /\ list.fetch = "asked"
  BY DEF NewQuery, Query
<1>2. ConnTyped
  <2>1. registry \in [Ids -> ListRow]
    BY DEF ListRow, Statuses
  <2>2. cards \in [Ids -> Card] /\ issued \in 0..MaxIssued
    BY ConnectionsAssumption DEF ConnectionsAssumption, Card, NewCard
  <2> QED
    BY <1>1, <2>1, <2>2 DEF ConnTyped
<1>3. ListInv /\ FollowInv /\ BusyInv
  BY <1>1 DEF ListInv, FollowInv, BusyInv, NotFetching
<1> QED
  BY <1>2, <1>3 DEF ConnInv

\* The cards after a step, whatever it made of them.
LEMMA CardsTyped ==
  ASSUME NEW new \in [Ids -> Card], Cards(new)
  PROVE  /\ cards' \in [Ids -> Card]
         /\ \A id \in Mounted(list', gaveWay') : cards'[id] = new[id]
<1>1. NewCard \in Card
  BY ConnectionsAssumption DEF ConnectionsAssumption, NewCard, Card
<1>2. QED
  BY <1>1 DEF Cards, Mounted

\* A row on the screen is one of the tenant's connections.
LEMMA PresentRows ==
  ASSUME NEW id \in Present
  PROVE  id \in Ids /\ list.loaded /\ ~gaveWay /\ list.data[id].status \in Statuses
  BY DEF Present, Mounted

\* With the list loaded and no error in its place, the rows are on the screen.
LEMMA RowsPresent ==
  ASSUME NEW id \in Ids, list.loaded, ~gaveWay, list.data[id].status \in Statuses
  PROVE  id \in Present
  BY DEF Present, Mounted

LEMMA PressKeeps ==
  ASSUME ConnInv, ToggleAdding \/ Press
  PROVE  ConnInv'
<1> USE DEF ConnInv
<1>1. UNCHANGED <<registry, list, gaveWay, issued, troubles, unread, upset, flight>>
  BY DEF ToggleAdding, Press, Untouched
<1>2. CASE ToggleAdding
  BY <1>1, <1>2 DEF ToggleAdding, ConnTyped, ListInv, FollowInv, BusyInv
<1>3. CASE Press
  <2>1. PICK id \in Ids : ToggleForm(id) \/ OpenBox(id) \/ KeepIt(id)
    BY <1>3 DEF Press
  <2>2. /\ cards[id] \in Card /\ id \in Present
        /\ \E on \in BOOLEAN : \/ Cards([cards EXCEPT ![id].form = on])
                              \/ Cards([cards EXCEPT ![id].box = on])
    <3>1. cards[id] \in Card /\ id \in Present
      BY <2>1 DEF ToggleForm, OpenBox, KeepIt, ConnTyped
    <3> DEFINE on == ~cards[id].form
    <3>2. ASSUME ToggleForm(id) PROVE Cards([cards EXCEPT ![id].form = on])
      BY <3>2 DEF ToggleForm
    <3>3. on \in BOOLEAN
      OBVIOUS
    <3> HIDE DEF on
    <3> QED
      BY <2>1, <3>1, <3>2, <3>3 DEF OpenBox, KeepIt
  <2>3. PICK new : /\ Cards(new) /\ new \in [Ids -> Card]
                   /\ \A other \in Ids : new[other].busy = cards[other].busy
    <3>1. cards \in [Ids -> Card]
      BY DEF ConnTyped
    <3>2. ASSUME NEW on \in BOOLEAN, NEW new,
                 \/ new = [cards EXCEPT ![id].form = on]
                 \/ new = [cards EXCEPT ![id].box = on]
          PROVE  /\ new \in [Ids -> Card]
                 /\ \A other \in Ids : new[other].busy = cards[other].busy
      BY <3>1, <3>2 DEF Card
    <3> QED
      BY <2>2, <3>2
  <2>4. /\ cards' \in [Ids -> Card]
        /\ \A other \in Mounted(list', gaveWay') : cards'[other].busy = cards[other].busy
    BY <2>3, CardsTyped DEF Mounted
  <2>5. ConnTyped'
    BY <1>1, <1>3, <2>4 DEF Press, ConnTyped
  <2>6. ListInv' /\ FollowInv'
    BY <1>1 DEF ListInv, FollowInv
  <2>7. BusyInv'
    BY <1>1, <2>4 DEF BusyInv, Mounted, ConnTyped, Sent
  <2> QED
    BY <2>5, <2>6, <2>7
<1> QED
  BY <1>2, <1>3

\* A request takes the next number.
LEMMA Issuing ==
  ASSUME ConnInv, NEW what \in Whats, NEW id \in Ids, Issue(what, id)
  PROVE  /\ issued' \in 0..MaxIssued /\ issued' = issued + 1 /\ flight' \subseteq Sent
         /\ \A c \in flight' : c.n <= issued'
         /\ \A c, d \in flight' : c.n = d.n => c = d
         /\ \A c \in flight' \ flight : c.n = issued + 1 /\ c.what = what /\ c.id = id /\ c.at = "sent"
         /\ \A c \in flight : c.n < issued + 1
         /\ \A c, d \in flight' \ flight : c = d
         /\ flight \subseteq flight'
<1> DEFINE new == [n |-> issued + 1, what |-> what, id |-> id, at |-> "sent"]
<1>1. issued' = issued + 1 /\ issued < MaxIssued /\ flight' = flight \cup {new}
  BY DEF Issue
<1>2. /\ issued \in 0..MaxIssued /\ MaxIssued \in Nat /\ flight \subseteq Sent
      /\ \A c \in flight : c.n <= issued /\ c.n \in Nat
      /\ \A c, d \in flight : c.n = d.n => c = d
  BY ConnectionsAssumption DEF ConnectionsAssumption, ConnInv, ConnTyped, Sent
<1>3. new \in Sent /\ new.n = issued + 1 /\ new.what = what /\ new.id = id /\ new.at = "sent"
  BY <1>1, <1>2 DEF Sent
<1> HIDE DEF new
<1>4. \A c \in flight : c.n < issued + 1
  BY <1>2
<1>5. QED
  BY <1>1, <1>2, <1>3, <1>4

LEMMA CommandKeeps ==
  ASSUME ConnInv, Command
  PROVE  ConnInv'
<1> USE DEF ConnInv
<1>0. PICK id \in Present :
        /\ cards[id].busy = 0 /\ \E what \in Offered(id) : Issue(what, id)
        /\ Cards([cards EXCEPT ![id].busy = issued + 1])
  BY DEF Command
<1>1. PICK what \in Offered(id) :
        /\ cards[id].busy = 0 /\ Issue(what, id)
        /\ Cards([cards EXCEPT ![id].busy = issued + 1])
  BY <1>0
<1>2. UNCHANGED <<registry, list, gaveWay, adding, troubles, unread, upset>>
  BY <1>1 DEF Issue
<1>3. id \in Ids /\ list.loaded /\ ~gaveWay /\ list.data[id].status \in Statuses
  BY PresentRows
<1>4. what \in Whats \ {"create"}
  BY DEF Offered, Whats
<1>5. /\ issued' \in 0..MaxIssued /\ issued' = issued + 1 /\ flight' \subseteq Sent
      /\ \A c \in flight' : c.n <= issued'
      /\ \A c, d \in flight' : c.n = d.n => c = d
      /\ \A c \in flight' \ flight : c.n = issued + 1 /\ c.what = what /\ c.id = id /\ c.at = "sent"
      /\ \A c, d \in flight' \ flight : c = d
      /\ flight \subseteq flight'
  BY <1>1, <1>3, <1>4, Issuing
<1>6. /\ cards' \in [Ids -> Card]
      /\ \A other \in Mounted(list, gaveWay) :
           cards'[other].busy = IF other = id THEN issued + 1 ELSE cards[other].busy
  <2> DEFINE new == [cards EXCEPT ![id].busy = issued + 1]
  <2>1. new \in [Ids -> Card]
    BY <1>3, <1>5 DEF ConnTyped, Card
  <2>2. \A other \in Ids : new[other].busy = IF other = id THEN issued + 1 ELSE cards[other].busy
    BY <1>3 DEF ConnTyped, Card
  <2>3. Cards(new)
    BY <1>1
  <2> HIDE DEF new
  <2> QED
    BY <1>2, <2>1, <2>2, <2>3, CardsTyped DEF Mounted
<1>7. ConnTyped'
  BY <1>2, <1>5, <1>6 DEF ConnTyped
<1>8. ListInv' /\ FollowInv'
  BY <1>2, <1>5 DEF ListInv, FollowInv
<1>9. BusyInv'
  <2> SUFFICES ASSUME ~upset PROVE BusyInv'
    BY <1>2 DEF BusyInv
  <2>1. \A c \in flight : c.what # "create" => c.id # id
    BY <1>1, <1>3 DEF BusyInv, ConnTyped, Sent, Statuses
  <2>2. ASSUME NEW c \in flight', c.what # "create"
        PROVE  \/ list.data[c.id].status \in Statuses /\ cards'[c.id].busy = c.n
               \/ list.data[c.id].status = "REMOVED"
    <3>1. CASE c \in flight
      <4>1. c.id # id /\ c.id \in Ids
        BY <2>1, <2>2, <3>1 DEF ConnTyped, Sent
      <4>2. CASE list.data[c.id].status \in Statuses /\ cards[c.id].busy = c.n
        BY <1>3, <1>6, <4>1, <4>2 DEF Mounted
      <4> QED
        BY <2>2, <3>1, <4>2 DEF BusyInv
    <3>2. CASE c \notin flight
      BY <1>3, <1>5, <1>6, <3>2 DEF Mounted
    <3> QED
      BY <3>1, <3>2
  <2>3. \A c, d \in flight' : c.id = d.id /\ c.what # "create" /\ d.what # "create" => c = d
    BY <1>5, <2>1 DEF BusyInv
  <2> QED
    BY <1>2, <1>3, <2>2, <2>3 DEF BusyInv
<1> QED
  BY <1>7, <1>8, <1>9

LEMMA CreateKeeps ==
  ASSUME ConnInv, Create
  PROVE  ConnInv'
<1> USE DEF ConnInv
<1>1. PICK id \in Ids : Issue("create", id)
  BY DEF Create
<1>2. ~gaveWay /\ UNCHANGED <<registry, list, gaveWay, adding, troubles, unread, upset, cards>>
  BY <1>1 DEF Issue, Create
<1>3. /\ issued' \in 0..MaxIssued /\ issued' = issued + 1 /\ flight' \subseteq Sent
      /\ \A c \in flight' : c.n <= issued'
      /\ \A c, d \in flight' : c.n = d.n => c = d
      /\ \A c \in flight' \ flight : c.what = "create" /\ c.at = "sent"
      /\ flight \subseteq flight'
  BY <1>1, Issuing DEF Whats
<1>4. ConnTyped'
  BY <1>2, <1>3 DEF ConnTyped
<1>5. ListInv' /\ FollowInv' /\ BusyInv'
  BY <1>2, <1>3 DEF ListInv, FollowInv, BusyInv
<1> QED
  BY <1>4, <1>5

\* A command that passes on is the same command, at its next station.
LEMMA Passing ==
  ASSUME ConnTyped, NEW c \in flight, NEW at \in {"done", "refused"}, Pass(c, at)
  PROVE  /\ flight' \subseteq Sent
         /\ \A d \in flight' : \E e \in flight : e.n = d.n /\ e.what = d.what /\ e.id = d.id
                                              /\ (d = e \/ (e = c /\ d.at = at))
         /\ \E d \in flight' : d.at = at
         /\ \A d, e \in flight' : d.n = e.n => d = e
         /\ \A d \in flight \ {c} : d \in flight'
<1> DEFINE passed == [c EXCEPT !.at = at]
<1>1. flight' = (flight \ {c}) \cup {passed}
  BY DEF Pass
<1>2. passed \in Sent /\ passed.n = c.n /\ passed.what = c.what /\ passed.id = c.id /\ passed.at = at
  BY DEF ConnTyped, Sent
<1> HIDE DEF passed
<1>3. \A d, e \in flight : d.n = e.n => d = e
  BY DEF ConnTyped
<1>4. flight \subseteq Sent
  BY DEF ConnTyped
<1>5. \A d, e \in flight' : d.n = e.n => d = e
  <2> SUFFICES ASSUME NEW d \in flight', NEW e \in flight', d.n = e.n PROVE d = e
    OBVIOUS
  <2>1. CASE d = passed /\ e # passed
    BY <1>1, <1>2, <1>3, <2>1
  <2>2. CASE d # passed /\ e = passed
    BY <1>1, <1>2, <1>3, <2>2
  <2>3. CASE d # passed /\ e # passed
    BY <1>1, <1>3, <2>3
  <2> QED
    BY <2>1, <2>2, <2>3
<1>6. \A d \in flight' : \E e \in flight : e.n = d.n /\ e.what = d.what /\ e.id = d.id
                                         /\ (d = e \/ (e = c /\ d.at = at))
  BY <1>1, <1>2
<1> QED
  BY <1>1, <1>2, <1>4, <1>5, <1>6

\* What keeps a card busy for its command.
LEMMA BusyKept ==
  ASSUME ConnInv, ~upset' => ~upset, ~upset' /\ gaveWay' => flight' = {},
         list.loaded => list'.loaded,
         \A d \in flight' : \E e \in flight : e.n = d.n /\ e.what = d.what /\ e.id = d.id,
         \A d, e \in flight' : d.n = e.n => d = e,
         \A id \in Ids : list.loaded /\ list.data[id].status = "REMOVED" => list'.data[id].status = "REMOVED",
         \A d \in flight' :
           list.loaded /\ ~gaveWay' /\ list.data[d.id].status \in Statuses /\ cards[d.id].busy = d.n =>
             \/ list'.data[d.id].status \in Statuses /\ cards'[d.id].busy = d.n
             \/ list'.data[d.id].status = "REMOVED"
  PROVE  BusyInv'
<1> SUFFICES ASSUME ~upset' PROVE BusyInv'
  BY DEF BusyInv
<1>1. \A d \in flight' : d.id \in Ids
  BY DEF ConnInv, ConnTyped, Sent
<1>2. ASSUME NEW d \in flight', d.what # "create"
      PROVE  /\ list'.loaded
             /\ \/ list'.data[d.id].status \in Statuses /\ cards'[d.id].busy = d.n
                \/ list'.data[d.id].status = "REMOVED"
  <2>1. PICK e \in flight : e.n = d.n /\ e.what = d.what /\ e.id = d.id
    OBVIOUS
  <2>2. /\ list.loaded
        /\ \/ list.data[d.id].status \in Statuses /\ cards[d.id].busy = d.n
           \/ list.data[d.id].status = "REMOVED"
    BY <1>2, <2>1 DEF ConnInv, BusyInv
  <2>3. ~gaveWay'
    BY <1>2
  <2> QED
    BY <1>1, <2>2, <2>3
<1>3. ASSUME NEW c \in flight', NEW d \in flight', c.id = d.id, c.what # "create", d.what # "create"
      PROVE  c = d
  <2>1. PICK e \in flight : e.n = c.n /\ e.what = c.what /\ e.id = c.id
    OBVIOUS
  <2>2. PICK f \in flight : f.n = d.n /\ f.what = d.what /\ f.id = d.id
    OBVIOUS
  <2>3. e = f
    BY <1>3, <2>1, <2>2 DEF ConnInv, BusyInv
  <2> QED
    BY <2>1, <2>2, <2>3
<1> QED
  BY <1>2, <1>3 DEF BusyInv

LEMMA NoEarlierTransitive ==
  ASSUME NEW a, NEW b, NEW c, NoEarlier(a, b), NoEarlier(b, c)
  PROVE  NoEarlier(a, c)
  BY DEF NoEarlier

\* The API changes the registry: what the browser has stays behind it.
LEMMA RegistryMoves ==
  ASSUME ConnInv, list' = list, registry' \in [Ids -> ListRow], NoEarlier(registry, registry')
  PROVE  ListInv'
  BY NoEarlierTransitive DEF ConnInv, ListInv

LEMMA CarryOutKeeps ==
  ASSUME ConnInv, CarryOut
  PROVE  ConnInv'
<1> USE DEF ConnInv
<1>1. UNCHANGED <<list, gaveWay, adding, cards, issued, troubles, unread, upset>>
  BY DEF CarryOut
<1>2. PICK c \in flight :
        /\ c.at = "sent"
        /\ \/ /\ Known(c) /\ registry' = [registry EXCEPT ![c.id] = Outcome(c)] /\ Pass(c, "done")
           \/ /\ UNCHANGED registry /\ Pass(c, "refused")
  BY DEF CarryOut
<1>3. PICK at \in {"done", "refused"} : /\ Pass(c, at)
        /\ \/ at = "done" /\ Known(c) /\ registry' = [registry EXCEPT ![c.id] = Outcome(c)]
           \/ at = "refused" /\ registry' = registry
  BY <1>2
<1>4. /\ flight' \subseteq Sent
      /\ \A d \in flight' : \E e \in flight : e.n = d.n /\ e.what = d.what /\ e.id = d.id
                                           /\ (d = e \/ (e = c /\ d.at = at))
      /\ \E d \in flight' : d.at = at
      /\ \A d, e \in flight' : d.n = e.n => d = e
      /\ \A d \in flight \ {c} : d \in flight'
  BY <1>3, Passing
<1>5. registry' \in [Ids -> ListRow] /\ NoEarlier(registry, registry')
  <2>1. CASE registry' = registry
    BY <2>1 DEF ConnTyped, NoEarlier
  <2>2. CASE Known(c) /\ registry' = [registry EXCEPT ![c.id] = Outcome(c)]
    <3>1. c.id \in Ids /\ registry[c.id] \in ListRow /\ c.what \in Whats
      BY DEF ConnTyped, Sent
    <3>2. Outcome(c) \in ListRow /\ Outcome(c).status # "NEW"
      BY <2>2, <3>1 DEF Outcome, Known, Whats, ListRow, Statuses
    <3>3. registry[c.id].status # "REMOVED"
      BY <2>2 DEF Known, Statuses
    <3> QED
      BY <2>2, <3>1, <3>2, <3>3 DEF ConnTyped, NoEarlier
  <2> QED
    BY <1>3, <2>1, <2>2
<1>6. ConnTyped'
  <2>1. \A d \in flight' : d.n <= issued
    BY <1>4 DEF ConnTyped
  <2> QED
    BY <1>1, <1>4, <1>5, <2>1 DEF ConnTyped
<1>7. ListInv'
  BY <1>1, <1>5, RegistryMoves
<1>8. FollowInv'
  <2>1. CASE at = "done"
    BY <1>4, <2>1 DEF FollowInv
  <2>2. CASE at = "refused"
    <3>1. (\A d \in flight' : d.at # "done") => \A d \in flight : d.at # "done"
      BY <1>2, <1>4, <2>2
    <3>2. registry' = registry
      BY <1>3, <2>2
    <3> QED
      BY <1>1, <3>1, <3>2 DEF FollowInv
  <2> QED
    BY <2>1, <2>2
<1>9. BusyInv'
  <2>1. ~upset' /\ gaveWay' => flight' = {}
    BY <1>1, <1>4 DEF BusyInv
  <2>2. \A d \in flight' : \E e \in flight : e.n = d.n /\ e.what = d.what /\ e.id = d.id
    BY <1>4
  <2> QED
    BY <1>1, <1>4, <2>1, <2>2, BusyKept
<1> QED
  BY <1>6, <1>7, <1>8, <1>9

LEMMA ChangedElsewhereKeeps ==
  ASSUME ConnInv, ChangedElsewhere
  PROVE  ConnInv'
<1> USE DEF ConnInv
<1>1. UNCHANGED <<list, gaveWay, adding, cards, flight, issued, upset>>
      /\ unread' = (unread \/ list.fetch # "asked")
  BY DEF ChangedElsewhere
<1>2. PICK id \in Ids, status \in {"DISABLED", "REMOVED"} :
        /\ registry[id].status \in Statuses \ {status}
        /\ registry' = [registry EXCEPT ![id].status = status]
  BY DEF ChangedElsewhere
<1>3. registry' \in [Ids -> ListRow] /\ NoEarlier(registry, registry')
  BY <1>2 DEF ConnTyped, ListRow, NoEarlier, Statuses
<1>4. ConnTyped'
  BY <1>1, <1>3 DEF ConnTyped
<1>5. ListInv'
  BY <1>1, <1>3, RegistryMoves
<1>6. FollowInv'
  BY <1>1 DEF FollowInv, NotFetching
<1>7. BusyInv'
  BY <1>1 DEF BusyInv
<1> QED
  BY <1>4, <1>5, <1>6, <1>7

\* Asking anew forgets what was missed only where nothing older can arrive.
LEMMA AskingAnew ==
  ASSUME ConnInv, NEW missed \in BOOLEAN, AskAnew(missed)
  PROVE  /\ Query(list') /\ list'.loaded = list.loaded /\ list'.data = list.data
         /\ list'.fetch \in {"idle", "asked", "answered"} /\ unread' \in BOOLEAN
         /\ \/ list'.fetch = "asked"
            \/ list' = list /\ ~list.loaded /\ list.fetch = "answered" /\ unread' = missed
<1>1. list' = Invalidated(list) /\ unread' = (missed /\ ~list.loaded /\ list.fetch = "answered")
  BY DEF AskAnew
<1>2. /\ Query(list') /\ list'.loaded = list.loaded /\ list'.data = list.data
      /\ \/ list'.fetch = "asked"
         \/ list' = list /\ ~list.loaded /\ ~NotFetching(list)
  BY <1>1, Invalidating DEF ConnInv, ConnTyped
<1> QED
  BY <1>1, <1>2 DEF ConnInv, ConnTyped, NotFetching

\* The list after it was asked for anew.
LEMMA AnewKeeps ==
  ASSUME ConnInv, NEW missed \in BOOLEAN, AskAnew(missed), registry' = registry
  PROVE  /\ ListInv'
         /\ missed \/ (missed = unread /\ flight' = flight) => FollowInv'
<1>1. /\ list'.loaded = list.loaded /\ list'.data = list.data
      /\ \/ list'.fetch = "asked"
         \/ list' = list /\ ~list.loaded /\ list.fetch = "answered" /\ unread' = missed
  BY AskingAnew
<1>2. ListInv'
  BY <1>1 DEF ConnInv, ListInv
<1>3. list'.fetch = "asked" => FollowInv'
  BY DEF FollowInv, NotFetching
<1>4. unread' => FollowInv'
  BY DEF FollowInv
<1>5. list' = list /\ unread' = unread /\ ~list.loaded /\ flight' = flight => FollowInv'
  BY DEF ConnInv, FollowInv
<1> QED
  BY <1>1, <1>2, <1>3, <1>4, <1>5

\* The card of a command that is over is free again; no other card changes.
LEMMA Finishing ==
  ASSUME ConnInv, NEW c \in flight, NEW done \in Card, done.busy = 0, Cards(Finish(c, done)),
         flight' = flight \ {c}
  PROVE  /\ cards' \in [Ids -> Card]
         /\ \A d \in flight' :
              d.id \in Mounted(list', gaveWay') /\ cards[d.id].busy = d.n => cards'[d.id].busy = d.n
<1> DEFINE new == Finish(c, done)
<1>1. /\ new \in [Ids -> Card]
      /\ \A id \in Ids : new[id] = IF id = c.id /\ cards[id].busy = c.n THEN done ELSE cards[id]
  BY DEF ConnInv, ConnTyped, Finish
<1>2. /\ cards' \in [Ids -> Card]
      /\ \A id \in Mounted(list', gaveWay') : cards'[id] = new[id]
  <2>1. Cards(new)
    OBVIOUS
  <2> HIDE DEF new
  <2> QED
    BY <1>1, <2>1, CardsTyped
<1>3. ASSUME NEW d \in flight', d.id \in Mounted(list', gaveWay'), cards[d.id].busy = d.n
      PROVE  cards'[d.id].busy = d.n
  <2>1. d \in flight /\ d # c /\ d.id \in Ids
    BY DEF ConnInv, ConnTyped, Sent
  <2>2. d.n # c.n
    BY <2>1 DEF ConnInv, ConnTyped
  <2> HIDE DEF new
  <2> QED
    BY <1>1, <1>2, <1>3, <2>1, <2>2
<1> QED
  BY <1>2, <1>3

LEMMA AcknowledgeKeeps ==
  ASSUME ConnInv, Acknowledge
  PROVE  ConnInv'
<1> USE DEF ConnInv
<1>1. UNCHANGED <<registry, issued, troubles, upset>>
  BY DEF Acknowledge
<1>2. PICK c \in flight :
       /\ c.at = "done" /\ flight' = flight \ {c}
       /\ adding' = (adding /\ c.what # "create")
       /\ AskAnew(TRUE) /\ UNCHANGED gaveWay
       /\ LET card == cards[c.id] IN
          Cards(Finish(c, [card EXCEPT !.busy = 0, !.form = (@ /\ c.what # "save"),
                                       !.link = (@ \/ c.what = "link")]))
  BY DEF Acknowledge
<1> DEFINE card == cards[c.id]
           done == [card EXCEPT !.busy = 0, !.form = (@ /\ c.what # "save"),
                                !.link = (@ \/ c.what = "link")]
<1>3. done \in Card /\ done.busy = 0
  <2>1. card \in Card
    BY DEF ConnTyped, Sent
  <2> DEFINE f == card.form /\ c.what # "save"
             l == card.link \/ c.what = "link"
  <2>2. f \in BOOLEAN /\ l \in BOOLEAN
    BY <2>1 DEF Card
  <2>3. done = [card EXCEPT !.busy = 0, !.form = f, !.link = l]
    BY <2>1 DEF Card
  <2>4. 0 \in 0..MaxIssued
    BY ConnectionsAssumption DEF ConnectionsAssumption
  <2> HIDE DEF f, l, card, done
  <2> QED
    BY <2>1, <2>2, <2>3, <2>4 DEF Card
<1>4. Cards(Finish(c, done))
  BY <1>2
<1> HIDE DEF done
<1>5. /\ cards' \in [Ids -> Card]
      /\ \A d \in flight' :
           d.id \in Mounted(list', gaveWay') /\ cards[d.id].busy = d.n => cards'[d.id].busy = d.n
  BY <1>2, <1>3, <1>4, Finishing
<1>6. /\ Query(list') /\ list'.loaded = list.loaded /\ list'.data = list.data
      /\ list'.fetch \in {"idle", "asked", "answered"} /\ unread' \in BOOLEAN
  BY <1>2, AskingAnew
<1>7. ConnTyped'
  BY <1>1, <1>2, <1>5, <1>6 DEF ConnTyped
<1>8. ListInv' /\ FollowInv'
  BY <1>1, <1>2, AnewKeeps
<1>9. BusyInv'
  <2>1. ~upset' /\ gaveWay' => flight' = {}
    BY <1>1, <1>2 DEF BusyInv
  <2>2. \A d \in flight' : d \in flight /\ d.id \in Ids
    BY <1>2 DEF ConnTyped, Sent
  <2>3. \A d \in flight' :
           list.loaded /\ ~gaveWay' /\ list.data[d.id].status \in Statuses =>
             d.id \in Mounted(list', gaveWay')
    BY <1>6, <2>2 DEF Mounted
  <2>4. \A d, e \in flight' : d.n = e.n => d = e
    BY <1>7 DEF ConnTyped
  <2> QED
    BY <1>1, <1>5, <1>6, <2>1, <2>2, <2>3, <2>4, BusyKept
<1> QED
  BY <1>7, <1>8, <1>9

LEMMA ComplainKeeps ==
  ASSUME ConnInv, Complain
  PROVE  ConnInv'
<1> USE DEF ConnInv
<1>1. UNCHANGED <<registry, adding, issued, upset>>
  BY DEF Complain
<1>2. PICK c \in flight :
       /\ c.at \in {"done", "refused"} /\ flight' = flight \ {c}
       /\ unread' = (unread \/ c.at = "done") /\ UNCHANGED <<list, gaveWay>>
       /\ Cards(Finish(c, [cards[c.id] EXCEPT !.busy = 0]))
  BY DEF Complain
<1> DEFINE done == [cards[c.id] EXCEPT !.busy = 0]
<1>3. done \in Card /\ done.busy = 0
  <2>1. cards[c.id] \in Card /\ 0 \in 0..MaxIssued
    BY ConnectionsAssumption DEF ConnectionsAssumption, ConnTyped, Sent
  <2> QED
    BY <2>1 DEF Card
<1>4. Cards(Finish(c, done))
  BY <1>2
<1> HIDE DEF done
<1>5. /\ cards' \in [Ids -> Card]
      /\ \A d \in flight' :
           d.id \in Mounted(list', gaveWay') /\ cards[d.id].busy = d.n => cards'[d.id].busy = d.n
  BY <1>2, <1>3, <1>4, Finishing
<1>6. unread' \in BOOLEAN
  BY <1>2 DEF ConnTyped
<1>7. ConnTyped'
  BY <1>1, <1>2, <1>5, <1>6 DEF ConnTyped
<1>8. ListInv' /\ FollowInv'
  BY <1>1, <1>2 DEF ListInv, FollowInv
<1>9. BusyInv'
  <2>1. ~upset' /\ gaveWay' => flight' = {}
    BY <1>1, <1>2 DEF BusyInv
  <2>2. \A d \in flight' : d \in flight /\ d.id \in Ids
    BY <1>2 DEF ConnTyped, Sent
  <2>3. \A d \in flight' :
           list.loaded /\ ~gaveWay' /\ list.data[d.id].status \in Statuses =>
             d.id \in Mounted(list', gaveWay')
    BY <1>2, <2>2 DEF Mounted
  <2>4. \A d, e \in flight' : d.n = e.n => d = e
    BY <1>7 DEF ConnTyped
  <2> QED
    BY <1>1, <1>2, <1>5, <2>1, <2>2, <2>3, <2>4, BusyKept
<1> QED
  BY <1>7, <1>8, <1>9

\* A card stays as it is while its row is on the screen.
LEMMA CardsStay ==
  ASSUME ConnInv, Cards(cards)
  PROVE  /\ cards' \in [Ids -> Card]
         /\ \A id \in Mounted(list', gaveWay') : cards'[id] = cards[id]
  BY CardsTyped DEF ConnInv, ConnTyped

LEMMA ListMovesKeep ==
  ASSUME ConnInv, ListMoves
  PROVE  ConnInv'
<1> USE DEF ConnInv
<1>1. UNCHANGED <<registry, adding, flight, issued>>
  BY DEF ListMoves
<1>0. /\ Query(list)
      /\ \A d \in flight' : d \in flight /\ d.id \in Ids
      /\ \A d, e \in flight' : d.n = e.n => d = e
  BY <1>1 DEF ConnTyped, Sent
<1>2. CASE ListRead
  <2>1. /\ list.fetch = "asked" /\ list' = AnsweredWith(list, registry)
        /\ UNCHANGED <<gaveWay, cards, troubles, unread, upset>>
    BY <1>2 DEF ListRead
  <2>2. /\ Query(list') /\ list'.fetch = "answered" /\ list'.loaded = list.loaded
        /\ list'.data = list.data /\ list'.answer = registry
    BY <1>0, <2>1, Given
  <2>3. ConnTyped'
    BY <1>1, <2>1, <2>2 DEF ConnTyped
  <2>4. ListInv'
    BY <1>1, <2>1, <2>2 DEF ListInv, NoEarlier, ConnTyped
  <2>5. FollowInv'
    BY <1>1, <2>2 DEF FollowInv, NotFetching
  <2>6. BusyInv'
    BY <1>1, <2>1, <2>2 DEF BusyInv
  <2> QED
    BY <2>3, <2>4, <2>5, <2>6
<1>3. CASE ListArrives
  <2>1. /\ list.fetch = "answered" /\ list' = Arrived(list) /\ gaveWay' = FALSE /\ Cards(cards)
        /\ UNCHANGED <<troubles, unread, upset>>
    BY <1>3 DEF ListArrives
  <2>2. /\ Query(list') /\ list'.fetch = "idle" /\ list'.loaded = TRUE /\ list'.data = list.answer
    BY <1>0, <2>1, Queries
  <2>3. /\ cards' \in [Ids -> Card]
        /\ \A id \in Mounted(list', gaveWay') : cards'[id] = cards[id]
    BY <2>1, CardsStay
  <2>4. ConnTyped'
    BY <1>1, <2>1, <2>2, <2>3 DEF ConnTyped
  <2>5. ListInv'
    BY <1>1, <2>1, <2>2 DEF ListInv
  <2>6. FollowInv'
    BY <1>1, <2>1, <2>2 DEF FollowInv, NotFetching
  <2>7. \A id \in Ids : list.loaded /\ list.data[id].status = "REMOVED" => list'.data[id].status = "REMOVED"
    BY <2>1, <2>2 DEF ListInv, NoEarlier
  <2>8. \A id \in Ids : list.loaded /\ list.data[id].status \in Statuses =>
          \/ list'.data[id].status \in Statuses /\ id \in Mounted(list', gaveWay')
          \/ list'.data[id].status = "REMOVED"
    BY <2>1, <2>2 DEF ListInv, NoEarlier, Mounted, ListRow, Statuses
  <2>9. \A d \in flight' :
           list.loaded /\ ~gaveWay' /\ list.data[d.id].status \in Statuses /\ cards[d.id].busy = d.n =>
             \/ list'.data[d.id].status \in Statuses /\ cards'[d.id].busy = d.n
             \/ list'.data[d.id].status = "REMOVED"
    BY <1>0, <2>3, <2>8
  <2>10. BusyInv'
    BY <1>0, <1>1, <2>1, <2>2, <2>7, <2>9, BusyKept
  <2> QED
    BY <2>4, <2>5, <2>6, <2>10
<1>4. CASE ListFails
  <2>1. /\ ~NotFetching(list)
        /\ list' = Failed(list) /\ gaveWay' = (gaveWay \/ NotFetching(list')) /\ Cards(cards)
        /\ unread' = (unread /\ list'.fetch # "asked")
        /\ upset' = (upset \/ (gaveWay' /\ flight # {}))
    BY <1>4 DEF ListFails
  <2>2. /\ Query(list') /\ list'.fetch \in {"asked", "idle"} /\ list'.loaded = list.loaded
        /\ list'.data = list.data
    BY <1>0, <2>1, Queries
  <2>3. /\ cards' \in [Ids -> Card]
        /\ \A id \in Mounted(list', gaveWay') : cards'[id] = cards[id]
    BY <2>1, CardsStay
  <2>4. gaveWay' \in BOOLEAN /\ unread' \in BOOLEAN /\ upset' \in BOOLEAN
    BY <2>1 DEF ConnTyped
  <2>5. ConnTyped'
    BY <1>1, <2>2, <2>3, <2>4 DEF ConnTyped
  <2>6. ListInv'
    BY <1>1, <2>2 DEF ListInv
  <2>7. FollowInv'
    BY <2>1, <2>2 DEF FollowInv, NotFetching
  <2>8. \A d \in flight' :
           list.loaded /\ ~gaveWay' /\ list.data[d.id].status \in Statuses =>
             d.id \in Mounted(list', gaveWay')
    BY <1>0, <2>2 DEF Mounted
  <2>9. (~upset' => ~upset) /\ (~upset' /\ gaveWay' => flight' = {})
    BY <1>1, <2>1
  <2>10. BusyInv'
    BY <1>0, <1>1, <2>2, <2>3, <2>8, <2>9, BusyKept
  <2> QED
    BY <2>5, <2>6, <2>7, <2>10
<1>5. CASE Resubscribed
  <2>1. AskAnew(unread) /\ UNCHANGED <<gaveWay, cards, troubles, upset>> /\ unread \in BOOLEAN
    BY <1>5 DEF Resubscribed, ConnTyped
  <2>2. /\ Query(list') /\ list'.loaded = list.loaded /\ list'.data = list.data
        /\ list'.fetch \in {"idle", "asked", "answered"} /\ unread' \in BOOLEAN
    BY <2>1, AskingAnew
  <2>3. ConnTyped'
    BY <1>1, <2>1, <2>2 DEF ConnTyped
  <2>4. ListInv' /\ FollowInv'
    BY <1>1, <2>1, AnewKeeps
  <2>5. BusyInv'
    BY <1>1, <2>1, <2>2 DEF BusyInv
  <2> QED
    BY <2>3, <2>4, <2>5
<1> QED
  BY <1>2, <1>3, <1>4, <1>5 DEF ListMoves

LEMMA ConnStep == ConnInv /\ [ConnectionsNext]_connectionVars => ConnInv'
<1> SUFFICES ASSUME ConnInv, [ConnectionsNext]_connectionVars PROVE ConnInv'
  OBVIOUS
<1>1. CASE UNCHANGED connectionVars
  BY <1>1 DEF connectionVars, ConnInv, ConnTyped, ListInv, FollowInv, BusyInv
<1> QED
  BY <1>1, PressKeeps, CommandKeeps, CreateKeeps, CarryOutKeeps, AcknowledgeKeeps, ComplainKeeps,
     ChangedElsewhereKeeps, ListMovesKeep DEF ConnectionsNext

\* A connection has one command under way, however often its card comes and
\* goes with the list, unless an error took the place of busy cards (run,
\* busy).
THEOREM OneCommandEach == ConnectionsSpec => []OneCommandPerConnection
<1>1. ConnInv => OneCommandPerConnection
  BY DEF ConnInv, BusyInv, OneCommandPerConnection
<1> QED
  BY <1>1, ConnInitially, ConnStep, PTL DEF ConnectionsSpec

\* With every command answered and no answer on its way, the cards are the
\* registry, for any connections and any number of commands and troubles
\* (refresh, useQuery).
THEOREM TheListFollows == ConnectionsSpec => []ListFollows
<1>1. ConnInv => ListFollows
  BY DEF ConnInv, FollowInv, ListFollows
<1> QED
  BY <1>1, ConnInitially, ConnStep, PTL DEF ConnectionsSpec

\* The types of the panel.
THEOREM ConnectionsTyped == ConnectionsSpec => []ConnectionsTypeOK
<1>1. ConnInv => ConnectionsTypeOK
  BY DEF ConnInv, ConnTyped, ConnectionsTypeOK, ListRow, Card
<1> QED
  BY <1>1, ConnInitially, ConnStep, PTL DEF ConnectionsSpec

-----------------------------------------------------------------------------
(***************************************************************************)
(* The settings of the alerts.  When nothing is on its way, what is shown  *)
(* is what the API holds and what the member wants, unless two requests     *)
(* crossed.  The argument says who knows the preferences: the API, the      *)
(* answer of a save that is done, the answer of a fetch; a save that        *)
(* crossed nothing is alone but for links, which change no preference, so   *)
(* that whichever of them arrives last brings what the API holds.  Of the   *)
(* chat only a code that is shown, a fetch that failed or an unlinking that *)
(* is not answered may leave the panel with an old opinion.                 *)
(***************************************************************************)
\* What the settings of a member look like, and a request.
Settings == [linked : BOOLEAN, prefs : [Channels -> Wishes]]
Patch == [triggers : SUBSET Triggers] \cup Wishes
PostFields == {"id", "what", "channel", "patch", "done", "orphan", "answer"}
Post(c, last) ==
  /\ c = [f \in PostFields |-> c[f]]
  /\ c.id \in 1..last /\ c.what \in {"link", "unlink", "save"} /\ c.channel \in Channels
  /\ c.done \in BOOLEAN /\ c.orphan \in BOOLEAN /\ (c.done => c.answer \in Settings)
  /\ c.what = "save" => c.patch \in Patch
MemberTyped ==
  /\ prefs \in [Channels -> Wishes] /\ wanted \in [Channels -> Wishes]
  /\ sent \in Nat /\ codes \subseteq 1..sent
  /\ {chat, failing, marked, onTab, crossed, astray} \subseteq BOOLEAN
SettingsTyped ==
  /\ Query(settings)
  /\ settings.loaded \in BOOLEAN /\ settings.fetch \in {"idle", "asked", "answered"}
  /\ settings.loaded => Seen \in Settings
  /\ settings.fetch = "answered" => settings.answer \in Settings
\* A code is shown and requests are sent only by a panel that has settings.
PostsTyped ==
  /\ \A c \in posts : Post(c, sent)
  /\ posts # {} => settings.loaded
  /\ ~onTab => \A c \in posts : c.orphan
PostsCounted == IsFiniteSet(posts) /\ Cardinality(posts) <= sent
CodeInv ==
  /\ shownCode \in 0..sent /\ (shownCode # 0 => settings.loaded /\ ~Seen.linked /\ onTab)
MarkInv == onTab /\ NotFetching(settings) /\ marked => failing
AlertsTyped == MemberTyped /\ SettingsTyped /\ PostsTyped /\ PostsCounted /\ CodeInv /\ MarkInv

IsSave(c) == c.what = "save"
\* A save that crossed nothing is alone: but for links, and nothing is fetched.
LoneSave ==
  ~crossed => \A c \in posts : IsSave(c) =>
    NotFetching(settings) /\ \A d \in posts : d # c => d.what = "link"
\* What is shown are the preferences of the API, or what it has answered is.
PrefsKnown ==
  ~crossed =>
    /\ settings.loaded /\ (\A c \in posts : ~(IsSave(c) /\ c.done)) => Seen.prefs = prefs
    /\ \A c \in posts : IsSave(c) /\ c.done => c.answer.prefs = prefs
    /\ settings.fetch = "answered" => settings.answer.prefs = prefs
\* The preferences once a save is carried out.
Saved(old, channel, patch) == [old EXCEPT ![channel] = Patched(@, patch)]
\* What the member wants is what the API holds, once the save is done.
WishesKept ==
  ~crossed =>
    /\ (\A c \in posts : IsSave(c) => c.done) => prefs = wanted
    /\ \A c \in posts : IsSave(c) /\ ~c.done =>
         wanted = Saved(prefs, c.channel, c.patch)
\* An answer that knows of no chat is stale only while a code is shown, one
\* that knows of a chat that is gone only until the unlinking is answered.
Unlinked == \E c \in posts : c.what = "unlink" /\ c.done
Stale(linked, has, gone, code) == (linked /\ ~has /\ ~gone) \/ (~linked /\ has /\ code = 0)
Knows(linked) == ~Stale(linked, chat, Unlinked, shownCode)
ChatKnown ==
  ~crossed /\ ~astray =>
    /\ NotFetching(settings) /\ settings.loaded /\ ~failing /\ ~marked => Knows(Seen.linked)
    /\ settings.fetch = "answered" => Knows(settings.answer.linked)
    /\ \A c \in posts : IsSave(c) /\ c.done => Knows(c.answer.linked)
AlertsInv == AlertsTyped /\ LoneSave /\ PrefsKnown /\ WishesKept /\ ChatKnown
-----------------------------------------------------------------------------
LEMMA AlertsInitially == AlertsInit => AlertsInv
<1> SUFFICES ASSUME AlertsInit PROVE AlertsInv
  OBVIOUS
<1>1. Query(settings) /\ settings.loaded = FALSE /\ settings.fetch = "asked"
  BY DEF AlertsInit, Query, NewQuery
<1>2. IsFiniteSet(posts) /\ Cardinality(posts) = 0 /\ posts = {}
  BY FS_EmptySet DEF AlertsInit
<1>3. ~settings.loaded /\ settings.loaded \in BOOLEAN /\ ~NotFetching(settings)
  BY <1>1 DEF NotFetching
<1>4. MemberTyped
  BY DEF AlertsInit, MemberTyped
<1>5. SettingsTyped
  BY <1>1, <1>3 DEF SettingsTyped
<1>6. PostsTyped /\ PostsCounted
  <2>1. Cardinality(posts) <= sent
    BY <1>2 DEF AlertsInit
  <2> QED
    BY <1>2, <2>1 DEF PostsTyped, PostsCounted
<1>7. CodeInv /\ MarkInv
  BY <1>3 DEF AlertsInit, CodeInv, MarkInv
<1> QED
  BY <1>1, <1>2, <1>3, <1>4, <1>5, <1>6, <1>7
     DEF AlertsInit, AlertsInv, AlertsTyped, LoneSave, PrefsKnown, WishesKept, ChatKnown

\* How many there are of a finite set, and one more, one less or one replaced.
LEMMA Counting ==
  ASSUME NEW S, IsFiniteSet(S)
  PROVE  /\ Cardinality(S) \in Nat
         /\ \A d : IsFiniteSet(S \cup {d}) /\ Cardinality(S \cup {d}) <= Cardinality(S) + 1
         /\ \A c : IsFiniteSet(S \ {c}) /\ Cardinality(S \ {c}) <= Cardinality(S)
         /\ \A c \in S : \A d : /\ IsFiniteSet((S \ {c}) \cup {d})
                              /\ Cardinality((S \ {c}) \cup {d}) <= Cardinality(S)
<1>1. ASSUME NEW T, IsFiniteSet(T), NEW d
      PROVE  /\ IsFiniteSet(T \cup {d}) /\ Cardinality(T) \in Nat
             /\ Cardinality(T \cup {d}) <= Cardinality(T) + 1
  <2>1. Cardinality(T) \in Nat
    BY <1>1, FS_CardinalityType
  <2>2. /\ IsFiniteSet(T \cup {d})
        /\ Cardinality(T \cup {d}) = IF d \in T THEN Cardinality(T) ELSE Cardinality(T) + 1
    BY <1>1, FS_AddElement
  <2> QED
    BY <2>1, <2>2
<1>2. ASSUME NEW c
      PROVE  /\ IsFiniteSet(S \ {c}) /\ Cardinality(S \ {c}) <= Cardinality(S)
             /\ c \in S => Cardinality(S \ {c}) = Cardinality(S) - 1
  <2>1. Cardinality(S) \in Nat
    BY <1>1
  <2>2. /\ IsFiniteSet(S \ {c})
        /\ Cardinality(S \ {c}) = IF c \in S THEN Cardinality(S) - 1 ELSE Cardinality(S)
    BY FS_RemoveElement
  <2> QED
    BY <2>1, <2>2
<1>3. ASSUME NEW c \in S, NEW d
      PROVE  /\ IsFiniteSet((S \ {c}) \cup {d})
             /\ Cardinality((S \ {c}) \cup {d}) <= Cardinality(S)
  <2> DEFINE T == S \ {c}
  <2>1. IsFiniteSet(T) /\ Cardinality(T) = Cardinality(S) - 1
    BY <1>2
  <2>2. Cardinality(S) \in Nat
    BY <1>1
  <2> HIDE DEF T
  <2>3. /\ IsFiniteSet(T \cup {d}) /\ Cardinality(T) \in Nat
        /\ Cardinality(T \cup {d}) <= Cardinality(T) + 1
    BY <1>1, <2>1
  <2>4. IsFiniteSet(T \cup {d}) /\ Cardinality(T \cup {d}) <= Cardinality(S)
    BY <2>1, <2>2, <2>3, FS_CardinalityType
  <2> QED
    BY <2>4 DEF T
<1> QED
  BY <1>1, <1>2, <1>3

\* What a save meets is remembered.
LEMMA Crossing ==
  ASSUME crossed \in BOOLEAN, Crosses
  PROVE  /\ crossed' \in BOOLEAN
         /\ ~crossed' => /\ ~crossed
                         /\ \A c \in posts' : IsSave(c) =>
                              NotFetching(settings') /\ \A d \in posts' : d # c => d.what = "link"
  BY DEF Crosses, IsSave

\* A request, and what the member wants with it.
LEMMA RequestKeeps ==
  ASSUME AlertsInv, NEW what \in {"link", "unlink", "save"}, NEW channel \in Channels, NEW patch,
         Request(what, channel, patch), wanted' \in [Channels -> Wishes],
         what = "save" =>
           /\ patch \in Patch
           /\ Seen.prefs = prefs /\ prefs = wanted =>
                wanted' = Saved(prefs, channel, patch),
         what # "save" => wanted' = wanted
  PROVE  AlertsInv'
<1> DEFINE c == [id |-> sent', what |-> what, channel |-> channel, patch |-> patch,
                 done |-> FALSE, orphan |-> FALSE, answer |-> Nothing]
<1>1. /\ Usable /\ sent' = sent + 1 /\ posts' = posts \cup {c} /\ Crosses
      /\ UNCHANGED <<chat, codes, prefs, settings, failing, marked, onTab, shownCode, astray>>
  BY DEF Request, ServerSide, Cached
<1>2. /\ sent \in Nat /\ crossed \in BOOLEAN /\ \A d \in posts : Post(d, sent)
      /\ settings.loaded /\ onTab
  BY <1>1 DEF AlertsInv, AlertsTyped, MemberTyped, PostsTyped, Usable
<1>3. /\ Post(c, sent') /\ c.what = what /\ c.channel = channel /\ c.patch = patch /\ c.done = FALSE
      /\ c.orphan = FALSE /\ c \notin posts
  <2>1. c.id = sent + 1
    BY <1>1
  <2> QED
    BY <1>1, <1>2, <2>1 DEF Post, PostFields
<1> HIDE DEF c
<1>4. \A d \in posts' : Post(d, sent')
  BY <1>1, <1>2, <1>3 DEF Post
<1>5. /\ crossed' \in BOOLEAN
      /\ ~crossed' => /\ ~crossed
                      /\ \A d \in posts' : IsSave(d) =>
                           NotFetching(settings') /\ \A e \in posts' : e # d => e.what = "link"
  BY <1>1, <1>2, Crossing
<1>6. MemberTyped'
  BY <1>1, <1>2, <1>5 DEF AlertsInv, AlertsTyped, MemberTyped
<1>7. SettingsTyped' /\ MarkInv' /\ CodeInv'
  BY <1>1, <1>2 DEF AlertsInv, AlertsTyped, SettingsTyped, MarkInv, CodeInv,
                           NotFetching, Seen
<1>8. PostsTyped' /\ PostsCounted'
  <2>1. PostsTyped'
    BY <1>1, <1>2, <1>4 DEF PostsTyped
  <2>2. IsFiniteSet(posts) /\ Cardinality(posts) <= sent
    BY DEF AlertsInv, AlertsTyped, PostsCounted
  <2>3. /\ IsFiniteSet(posts \cup {c}) /\ Cardinality(posts \cup {c}) <= Cardinality(posts) + 1
        /\ Cardinality(posts) \in Nat /\ Cardinality(posts \cup {c}) \in Nat
    BY <2>2, Counting, FS_CardinalityType
  <2> QED
    BY <1>1, <1>2, <2>1, <2>2, <2>3 DEF PostsCounted
<1>9. LoneSave'
  BY <1>5 DEF LoneSave
<1>10. PrefsKnown'
  BY <1>1, <1>3, <1>5 DEF AlertsInv, PrefsKnown, Seen
<1>11. WishesKept'
  <2> SUFFICES ASSUME ~crossed' PROVE WishesKept'
    BY DEF WishesKept
  <2>1. \A d \in posts : IsSave(d) => what = "link" /\ d # c
    BY <1>1, <1>3, <1>5 DEF IsSave
  <2>2. what = "save" => \A d \in posts : ~IsSave(d)
    BY <2>1
  <2>3. CASE what = "save"
    <3>1. Seen.prefs = prefs /\ prefs = wanted
      BY <1>2, <1>5, <2>2, <2>3 DEF AlertsInv, PrefsKnown, WishesKept
    <3>2. wanted' = Saved(prefs, channel, patch) /\ IsSave(c)
      BY <1>3, <2>3, <3>1 DEF IsSave
    <3>3. \A d \in posts' : IsSave(d) => d = c
      BY <1>1, <2>2, <2>3
    <3>4. c \in posts' /\ ~c.done /\ wanted' = Saved(prefs', c.channel, c.patch)
      BY <1>1, <1>3, <3>2
    <3> QED
      BY <3>2, <3>3, <3>4 DEF WishesKept
  <2>4. CASE what # "save"
    BY <1>1, <1>3, <1>5, <2>4 DEF AlertsInv, WishesKept, IsSave
  <2> QED
    BY <2>3, <2>4
<1>12. ChatKnown'
  BY <1>1, <1>3, <1>5 DEF AlertsInv, ChatKnown, Knows, Stale, Unlinked, NotFetching, Seen
<1> QED
  BY <1>6, <1>7, <1>8, <1>9, <1>10, <1>11, <1>12 DEF AlertsInv, AlertsTyped

LEMMA PatchedTyped ==
  ASSUME NEW wishes \in Wishes, NEW patch \in Patch
  PROVE  Patched(wishes, patch) \in Wishes
  BY DEF Wishes, Patch, Patched

\* What the buttons ask for.
LEMMA ButtonsKeep ==
  ASSUME AlertsInv,
         \/ ConnectTelegram \/ Disconnect
         \/ \E channel \in Channels : \/ \E trigger \in Triggers : Toggle(channel, trigger)
                                      \/ \E level \in Levels : AddOrRemove(channel, level)
  PROVE  AlertsInv'
<1>0. /\ "personal" \in Channels /\ wanted \in [Channels -> Wishes] /\ prefs \in [Channels -> Wishes]
      /\ settings.loaded => Seen \in Settings
  BY AlertsAssumption DEF AlertsAssumption, AlertsInv, AlertsTyped, MemberTyped, SettingsTyped
<1>1. CASE ConnectTelegram
  BY <1>0, <1>1, RequestKeeps DEF ConnectTelegram
<1>2. CASE Disconnect
  BY <1>0, <1>2, RequestKeeps DEF Disconnect
<1>3. ASSUME NEW channel \in Channels, NEW trigger \in Triggers, Toggle(channel, trigger)
      PROVE  AlertsInv'
  <2> DEFINE now == Seen.prefs[channel]
             patch == [triggers |-> Flipped(now.triggers, trigger)]
  <2>1. /\ Request("save", channel, patch)
        /\ wanted' = [wanted EXCEPT ![channel].triggers = Wanting(@, now.triggers, trigger)]
        /\ now \in Wishes
    BY <1>0, <1>3 DEF Toggle, Usable, Settings
  <2>2. patch \in Patch
    BY <2>1 DEF Patch, Wishes, Flipped
  <2>3. wanted' \in [Channels -> Wishes]
    BY <1>0, <2>1 DEF Wishes, Wanting
  <2>4. ASSUME Seen.prefs = prefs, prefs = wanted
        PROVE  wanted' = Saved(prefs, channel, patch)
    <3>1. Patched(now, patch) = [now EXCEPT !.triggers = Flipped(now.triggers, trigger)]
      BY <2>1 DEF Patched, Wishes
    <3>2. wanted' = [prefs EXCEPT ![channel].triggers = Flipped(now.triggers, trigger)]
      BY <2>1, <2>4 DEF Wanting, Flipped
    <3> QED
      BY <1>0, <2>4, <3>1, <3>2 DEF Saved
  <2> HIDE DEF now, patch
  <2> QED
    BY <2>1, <2>2, <2>3, <2>4, RequestKeeps
<1>4. ASSUME NEW channel \in Channels, NEW level \in Levels, AddOrRemove(channel, level)
      PROVE  AlertsInv'
  <2> DEFINE now == Seen.prefs[channel]
             patch == [triggers |-> now.triggers, levels |-> Flipped(now.levels, level)]
  <2>1. /\ Request("save", channel, patch)
        /\ wanted' = [wanted EXCEPT ![channel].levels = Wanting(@, now.levels, level)]
        /\ now \in Wishes
    BY <1>0, <1>4 DEF AddOrRemove, Usable, Settings
  <2>2. patch \in Patch
    BY <2>1 DEF Patch, Wishes, Flipped
  <2>3. wanted' \in [Channels -> Wishes]
    BY <1>0, <2>1 DEF Wishes, Wanting
  <2>4. ASSUME Seen.prefs = prefs, prefs = wanted
        PROVE  wanted' = Saved(prefs, channel, patch)
    <3>1. Patched(now, patch) = [now EXCEPT !.levels = Flipped(now.levels, level)]
      BY <2>1 DEF Patched, Wishes
    <3>2. wanted' = [prefs EXCEPT ![channel].levels = Flipped(now.levels, level)]
      BY <2>1, <2>4 DEF Wanting, Flipped
    <3> QED
      BY <1>0, <2>4, <3>1, <3>2 DEF Saved
  <2> HIDE DEF now, patch
  <2> QED
    BY <2>1, <2>2, <2>3, <2>4, RequestKeeps
<1> QED
  BY <1>1, <1>2, <1>3, <1>4

LEMMA DoneKeeps ==
  ASSUME AlertsInv, NEW c \in posts, Done(c)
  PROVE  AlertsInv'
<1> DEFINE d == [c EXCEPT !.done = TRUE, !.answer = AlertSettings']
<1>1. /\ ~c.done /\ posts' = (posts \ {c}) \cup {d}
      /\ chat' = (chat /\ c.what # "unlink")
      /\ codes' = IF c.what = "link" THEN codes \cup {c.id} ELSE codes
      /\ prefs' = IF IsSave(c) THEN Saved(prefs, c.channel, c.patch) ELSE prefs
      /\ UNCHANGED <<settings, failing, marked, onTab, shownCode, sent, wanted, crossed, astray>>
  BY DEF Done, Cached, AlertBounds, IsSave, Saved
<1>2. /\ Post(c, sent) /\ MemberTyped /\ \A e \in posts : Post(e, sent)
  BY DEF AlertsInv, AlertsTyped, PostsTyped
<1>3. prefs' \in [Channels -> Wishes] /\ chat' \in BOOLEAN
  BY <1>1, <1>2, PatchedTyped DEF Saved, MemberTyped, Post, IsSave
<1>4. /\ Post(d, sent) /\ d.what = c.what /\ d.channel = c.channel /\ d.patch = c.patch
      /\ d.orphan = c.orphan /\ d.done = TRUE
      /\ d.answer \in Settings /\ d.answer.linked = chat' /\ d.answer.prefs = prefs'
  <2>1. AlertSettings' = [linked |-> chat', prefs |-> prefs'] /\ AlertSettings' \in Settings
    BY <1>3 DEF AlertSettings, Settings
  <2>2. d.answer = AlertSettings'
    BY <1>2 DEF Post, PostFields
  <2> QED
    BY <1>2, <2>1, <2>2 DEF Post, PostFields
<1> HIDE DEF d
<1>5. MemberTyped'
  BY <1>1, <1>2, <1>3 DEF MemberTyped, Post
<1>6. SettingsTyped' /\ MarkInv' /\ CodeInv'
  BY <1>1 DEF AlertsInv, AlertsTyped, SettingsTyped, MarkInv, CodeInv, NotFetching, Seen
<1>7. PostsTyped' /\ PostsCounted'
  <2>1. IsFiniteSet(posts) /\ Cardinality(posts) <= sent /\ sent \in Nat
    BY <1>2 DEF AlertsInv, AlertsTyped, PostsCounted, MemberTyped
  <2>2. /\ IsFiniteSet((posts \ {c}) \cup {d})
        /\ Cardinality((posts \ {c}) \cup {d}) <= Cardinality(posts)
        /\ Cardinality(posts) \in Nat /\ Cardinality((posts \ {c}) \cup {d}) \in Nat
    BY <2>1, Counting, FS_CardinalityType
  <2>3. PostsTyped'
    BY <1>1, <1>2, <1>4 DEF AlertsInv, AlertsTyped, PostsTyped
  <2> QED
    BY <1>1, <2>1, <2>2, <2>3 DEF PostsCounted
<1>8. LoneSave'
  BY <1>1, <1>4 DEF AlertsInv, LoneSave, IsSave
<1>9. ASSUME ~crossed, IsSave(c)
      PROVE  ~(settings.fetch = "answered") /\ \A e \in posts : IsSave(e) => e = c
  BY <1>9 DEF AlertsInv, LoneSave, IsSave, NotFetching
<1>10. PrefsKnown'
  <2>1. CASE IsSave(c)
    BY <1>1, <1>4, <1>9, <2>1 DEF PrefsKnown, IsSave
  <2>2. CASE ~IsSave(c)
    BY <1>1, <1>4, <2>2 DEF AlertsInv, PrefsKnown, IsSave, Seen
  <2> QED
    BY <2>1, <2>2
<1>11. WishesKept'
  <2>1. CASE IsSave(c)
    BY <1>1, <1>4, <1>9, <2>1 DEF AlertsInv, WishesKept, IsSave
  <2>2. CASE ~IsSave(c)
    BY <1>1, <1>4, <2>2 DEF AlertsInv, WishesKept, IsSave
  <2> QED
    BY <2>1, <2>2
<1>12. ChatKnown'
  <2>1. CASE c.what = "unlink"
    <3>1. Unlinked' /\ ~chat'
      BY <1>1, <1>4, <2>1 DEF Unlinked
    <3> QED
      BY <3>1 DEF ChatKnown, Knows, Stale
  <2>2. CASE c.what # "unlink"
    <3>1. (Unlinked' <=> Unlinked) /\ (chat' <=> chat)
      BY <1>1, <1>2, <1>4, <2>2 DEF Unlinked, MemberTyped
    <3>2. \A linked : Stale(linked, chat', Unlinked', shownCode') <=> ~Knows(linked)
      BY <1>1, <3>1 DEF Knows, Stale
    <3>3. ~Stale(d.answer.linked, chat', Unlinked', shownCode')
      BY <1>4 DEF Stale
    <3> QED
      BY <1>1, <1>4, <3>2, <3>3 DEF AlertsInv, ChatKnown, Knows, IsSave, NotFetching, Seen
  <2> QED
    BY <2>1, <2>2
<1> QED
  BY <1>5, <1>6, <1>7, <1>8, <1>10, <1>11, <1>12 DEF AlertsInv, AlertsTyped

\* A request that is over is taken off.
LEMMA OnePostLess ==
  ASSUME AlertsInv, NEW c \in posts, posts' = posts \ {c}, UNCHANGED <<sent, onTab>>,
         settings'.loaded = settings.loaded
  PROVE  PostsTyped' /\ PostsCounted'
<1>1. IsFiniteSet(posts) /\ Cardinality(posts) <= sent /\ sent \in Nat /\ PostsTyped
  BY DEF AlertsInv, AlertsTyped, PostsCounted, MemberTyped
<1>2. /\ IsFiniteSet(posts \ {c}) /\ Cardinality(posts \ {c}) <= Cardinality(posts)
      /\ Cardinality(posts) \in Nat /\ Cardinality(posts \ {c}) \in Nat
  BY <1>1, Counting, FS_CardinalityType
<1> QED
  BY <1>1, <1>2 DEF PostsTyped, PostsCounted

LEMMA RefusalKeeps ==
  ASSUME AlertsInv, NEW c \in posts, CallRefused(c)
  PROVE  AlertsInv'
<1>1. /\ ~c.done /\ posts' = posts \ {c} /\ wanted' = IF IsSave(c) THEN prefs ELSE wanted
      /\ UNCHANGED <<chat, codes, prefs, settings, failing, marked, onTab, shownCode, sent, crossed, astray>>
  BY DEF CallRefused, ServerSide, Cached, IsSave
<1>2. MemberTyped' /\ SettingsTyped' /\ CodeInv' /\ MarkInv'
  BY <1>1 DEF AlertsInv, AlertsTyped, MemberTyped, SettingsTyped, CodeInv, MarkInv, NotFetching, Seen
<1>3. PostsTyped' /\ PostsCounted'
  BY <1>1, OnePostLess
<1>4. LoneSave' /\ PrefsKnown'
  BY <1>1 DEF AlertsInv, LoneSave, PrefsKnown, Seen, NotFetching, IsSave
<1>5. WishesKept'
  BY <1>1 DEF AlertsInv, LoneSave, WishesKept, IsSave
<1>6. ChatKnown'
  <2>1. Unlinked' <=> Unlinked
    BY <1>1 DEF Unlinked
  <2> QED
    BY <1>1, <2>1 DEF AlertsInv, ChatKnown, Knows, NotFetching, Seen
<1> QED
  BY <1>2, <1>3, <1>4, <1>5, <1>6 DEF AlertsInv, AlertsTyped

\* What every answer has in common.
LEMMA Answering ==
  ASSUME AlertsInv, NEW c \in posts, c.done, posts' = posts \ {c}, Crosses,
         UNCHANGED <<chat, codes, prefs, onTab, sent, wanted>>, settings'.loaded = settings.loaded,
         failing' \in BOOLEAN, marked' \in BOOLEAN, astray' \in BOOLEAN
  PROVE  /\ MemberTyped' /\ PostsTyped' /\ PostsCounted' /\ LoneSave' /\ WishesKept'
         /\ ~crossed' => ~crossed
<1>1. /\ crossed' \in BOOLEAN
      /\ ~crossed' => /\ ~crossed
                      /\ \A d \in posts' : IsSave(d) =>
                           NotFetching(settings') /\ \A e \in posts' : e # d => e.what = "link"
  BY Crossing DEF AlertsInv, AlertsTyped, MemberTyped
<1>2. MemberTyped' /\ LoneSave'
  BY <1>1 DEF AlertsInv, AlertsTyped, MemberTyped, LoneSave
<1>3. PostsTyped' /\ PostsCounted'
  BY OnePostLess
<1>4. WishesKept'
  BY <1>1 DEF AlertsInv, WishesKept
<1> QED
  BY <1>1, <1>2, <1>3, <1>4

LEMMA LinkAnswerKeeps ==
  ASSUME AlertsInv, NEW c \in posts, Answered(c), LinkAnswered(c)
  PROVE  AlertsInv'
<1>1. /\ c.done /\ c.what = "link" /\ posts' = posts \ {c} /\ Crosses
      /\ UNCHANGED <<chat, codes, prefs, onTab, sent, wanted, settings, failing, marked>>
      /\ \/ c.orphan /\ shownCode' = shownCode /\ astray' = TRUE
         \/ /\ ~c.orphan /\ astray' = astray
            /\ shownCode' = IF settings.loaded /\ Seen.linked THEN 0 ELSE c.id
  BY DEF Answered, LinkAnswered, ShowCode, ServerSide, Cached, AlertBounds, Seen
<1>2. /\ MemberTyped /\ Post(c, sent) /\ settings.loaded /\ CodeInv /\ (~onTab => c.orphan)
  BY DEF AlertsInv, AlertsTyped, PostsTyped
<1>3. /\ MemberTyped' /\ PostsTyped' /\ PostsCounted' /\ LoneSave' /\ WishesKept'
      /\ ~crossed' => ~crossed
  BY <1>1, <1>2, Answering DEF MemberTyped
<1>4. SettingsTyped' /\ MarkInv'
  BY <1>1 DEF AlertsInv, AlertsTyped, SettingsTyped, MarkInv, NotFetching, Seen
<1>5. CodeInv'
  BY <1>1, <1>2 DEF CodeInv, Post, Seen, MemberTyped
<1>6. PrefsKnown'
  BY <1>1, <1>3 DEF AlertsInv, PrefsKnown, IsSave, Seen
<1>7. ChatKnown'
  <2>1. CASE astray'
    BY <2>1 DEF ChatKnown
  <2>2. CASE ~astray'
    <3>1. ~astray /\ (shownCode # 0 => shownCode' # 0) /\ (Unlinked' <=> Unlinked)
      BY <1>1, <1>2, <2>2 DEF CodeInv, Post, Unlinked
    <3>2. \A linked : Stale(linked, chat', Unlinked', shownCode') => ~Knows(linked)
      BY <1>1, <3>1 DEF Knows, Stale
    <3> QED
      BY <1>1, <1>3, <3>1, <3>2 DEF AlertsInv, ChatKnown, Knows, NotFetching, Seen
  <2> QED
    BY <2>1, <2>2
<1> QED
  BY <1>3, <1>4, <1>5, <1>6, <1>7 DEF AlertsInv, AlertsTyped

LEMMA UnlinkAnswerKeeps ==
  ASSUME AlertsInv, NEW c \in posts, Answered(c), UnlinkAnswered(c)
  PROVE  AlertsInv'
<1>1. /\ c.done /\ c.what = "unlink" /\ posts' = posts \ {c} /\ Crosses
      /\ UNCHANGED <<chat, codes, prefs, onTab, sent, wanted, failing>>
      /\ shownCode' = (IF c.orphan THEN shownCode ELSE 0)
      /\ settings' = (IF onTab THEN Invalidated(settings) ELSE settings) /\ marked' = TRUE
      /\ astray' = (astray \/ (~onTab /\ ~NotFetching(settings)))
  BY DEF Answered, UnlinkAnswered, ServerSide, Cached, AlertBounds
<1>2. /\ MemberTyped /\ settings.loaded /\ CodeInv /\ SettingsTyped
  BY DEF AlertsInv, AlertsTyped, PostsTyped
<1>3. /\ Query(settings') /\ settings'.loaded = settings.loaded /\ settings'.data = settings.data
      /\ IF onTab THEN settings'.fetch = "asked" ELSE settings' = settings
  BY <1>1, <1>2, Invalidating DEF SettingsTyped
<1>4. /\ MemberTyped' /\ PostsTyped' /\ PostsCounted' /\ LoneSave' /\ WishesKept'
      /\ ~crossed' => ~crossed
  BY <1>1, <1>2, <1>3, Answering DEF MemberTyped
<1>5. SettingsTyped' /\ MarkInv' /\ CodeInv'
  <2>1. settings'.fetch \in {"idle", "asked", "answered"} /\ (settings'.fetch = "answered" => settings' = settings)
    BY <1>2, <1>3 DEF SettingsTyped
  <2>2. SettingsTyped'
    BY <1>2, <1>3, <2>1 DEF SettingsTyped, Seen
  <2>3. MarkInv'
    BY <1>1, <1>3 DEF MarkInv, NotFetching
  <2>4. CodeInv'
    <3>1. sent \in Nat /\ shownCode' \in {0, shownCode}
      BY <1>1, <1>2 DEF MemberTyped
    <3>2. shownCode' # 0 => shownCode # 0
      BY <3>1
    <3>3. shownCode' \in 0..sent'
      BY <1>1, <1>2, <3>1 DEF CodeInv
    <3>4. shownCode' # 0 => settings'.loaded /\ ~settings'.data.linked /\ onTab'
      BY <1>1, <1>2, <1>3, <3>2 DEF CodeInv, Seen
    <3> QED
      BY <3>3, <3>4 DEF CodeInv, Seen
  <2> QED
    BY <2>2, <2>3, <2>4
<1>6. PrefsKnown'
  BY <1>1, <1>3, <1>4 DEF AlertsInv, PrefsKnown, IsSave, Seen
<1>7. ChatKnown'
  <2> SUFFICES ASSUME ~crossed', ~astray' PROVE ChatKnown'
    BY DEF ChatKnown
  <2>1. \A d \in posts' : ~(IsSave(d) /\ d.done)
    BY <1>1, <1>4 DEF AlertsInv, LoneSave, IsSave
  <2>2. settings'.fetch # "answered" /\ marked'
    BY <1>1, <1>2, <1>3 DEF NotFetching, SettingsTyped
  <2> QED
    BY <2>1, <2>2 DEF ChatKnown
<1> QED
  BY <1>4, <1>5, <1>6, <1>7 DEF AlertsInv, AlertsTyped

LEMMA SaveAnswerKeeps ==
  ASSUME AlertsInv, NEW c \in posts, Answered(c), SaveAnswered(c)
  PROVE  AlertsInv'
<1>1. /\ c.done /\ IsSave(c) /\ posts' = posts \ {c} /\ Crosses
      /\ UNCHANGED <<chat, codes, prefs, onTab, sent, wanted, astray>>
      /\ settings' = Updated(settings, c.answer) /\ failing' = FALSE /\ marked' = FALSE
      /\ shownCode' = IF settings'.loaded /\ settings'.data.linked THEN 0 ELSE shownCode
  BY DEF Answered, SaveAnswered, ShowCode, ServerSide, Cached, AlertBounds, IsSave
<1>2. /\ MemberTyped /\ settings.loaded /\ CodeInv /\ SettingsTyped /\ c.answer \in Settings
  BY <1>1 DEF AlertsInv, AlertsTyped, PostsTyped, Post
<1>3. /\ Query(settings') /\ settings'.loaded = settings.loaded /\ settings'.data = c.answer
      /\ settings'.fetch = settings.fetch /\ settings'.answer = settings.answer
  <2>1. LET q == Updated(settings, c.answer)
        IN /\ Query(q) /\ q.loaded = settings.loaded /\ q.data = c.answer
           /\ q.fetch = settings.fetch /\ q.answer = settings.answer
    <3>1. Query(settings)
      BY <1>2 DEF SettingsTyped
    <3> QED
      BY <3>1, Given
  <2> QED
    BY <1>1, <2>1
<1>4. /\ MemberTyped' /\ PostsTyped' /\ PostsCounted' /\ LoneSave' /\ WishesKept'
      /\ ~crossed' => ~crossed
  BY <1>1, <1>2, <1>3, Answering DEF MemberTyped
<1>5. SettingsTyped' /\ MarkInv' /\ CodeInv'
  BY <1>1, <1>2, <1>3 DEF SettingsTyped, MarkInv, CodeInv, NotFetching, Seen, MemberTyped
<1>6. PrefsKnown'
  BY <1>1, <1>3, <1>4 DEF AlertsInv, PrefsKnown, IsSave, Seen
<1>7. ChatKnown'
  <2> SUFFICES ASSUME ~crossed', ~astray' PROVE ChatKnown'
    BY DEF ChatKnown
  <2>1. /\ \A d \in posts' : ~(IsSave(d) /\ d.done)
        /\ settings'.fetch # "answered"
    BY <1>1, <1>3, <1>4 DEF AlertsInv, LoneSave, IsSave, NotFetching
  <2>2. Knows(c.answer.linked) /\ c.answer.linked \in BOOLEAN
    BY <1>1, <1>2, <1>4 DEF AlertsInv, ChatKnown, Settings
  <2>3. ~Stale(c.answer.linked, chat', Unlinked', shownCode')
    <3>1. Unlinked => Unlinked'
      BY <1>1 DEF Unlinked, IsSave
    <3> QED
      BY <1>1, <1>2, <1>3, <2>2, <3>1 DEF Knows, Stale, CodeInv
  <2> QED
    BY <1>3, <2>1, <2>3 DEF ChatKnown, Knows, Seen
<1> QED
  BY <1>4, <1>5, <1>6, <1>7 DEF AlertsInv, AlertsTyped

LEMMA CodesKeep ==
  ASSUME AlertsInv, NEW code \in codes, Starts(code) \/ CodeExpires(code)
  PROVE  AlertsInv'
<1>1. /\ codes' \subseteq codes
      /\ UNCHANGED <<prefs, settings, failing, marked, onTab, shownCode, posts, sent, wanted, crossed>>
      /\ \/ chat' = chat /\ astray' = astray
         \/ chat' = TRUE /\ astray' = (astray \/ shownCode # code)
  BY DEF Starts, CodeExpires, Cached, AlertBounds
<1>2. code \in 1..sent /\ sent \in Nat
  BY DEF AlertsInv, AlertsTyped, MemberTyped
<1>3. MemberTyped' /\ SettingsTyped' /\ CodeInv' /\ MarkInv'
  BY <1>1 DEF AlertsInv, AlertsTyped, MemberTyped, SettingsTyped, CodeInv, MarkInv, NotFetching, Seen
<1>4. PostsTyped' /\ PostsCounted' /\ LoneSave' /\ PrefsKnown' /\ WishesKept'
  BY <1>1 DEF AlertsInv, AlertsTyped, PostsTyped, PostsCounted, LoneSave, PrefsKnown, WishesKept,
              Seen, NotFetching, IsSave
<1>5. ChatKnown'
  <2> SUFFICES ASSUME ~crossed', ~astray' PROVE ChatKnown'
    BY DEF ChatKnown
  <2>1. /\ ~astray /\ (Unlinked' <=> Unlinked)
        /\ \/ chat' = chat
           \/ chat' = TRUE /\ shownCode # 0
    <3>1. Unlinked' <=> Unlinked
      BY <1>1 DEF Unlinked
    <3>2. code # 0
      BY <1>2
    <3>3. CASE chat' = chat /\ astray' = astray
      BY <3>1, <3>3
    <3>4. CASE chat' = TRUE /\ astray' = (astray \/ shownCode # code)
      BY <3>1, <3>2, <3>4
    <3> QED
      BY <1>1, <3>3, <3>4
  <2>2. \A linked : Stale(linked, chat', Unlinked', shownCode') => ~Knows(linked)
    BY <1>1, <2>1 DEF Knows, Stale
  <2> QED
    BY <1>1, <2>1, <2>2 DEF AlertsInv, ChatKnown, Knows, NotFetching, Seen
<1> QED
  BY <1>3, <1>4, <1>5 DEF AlertsInv, AlertsTyped

\* A fetch that begins, on the screen or when the tab comes back.
LEMMA FetchKeeps ==
  ASSUME AlertsInv, Crosses, UNCHANGED <<chat, codes, prefs, marked, shownCode, posts, sent, wanted, astray>>,
         \/ settings' = Fetching(settings)
         \/ settings' = settings /\ ~(onTab' /\ NotFetching(settings) /\ marked),
         failing' = failing, onTab' = TRUE
  PROVE  AlertsInv'
<1>1. MemberTyped /\ SettingsTyped /\ CodeInv
  BY DEF AlertsInv, AlertsTyped
<1>2. /\ Query(settings') /\ settings'.loaded = settings.loaded /\ settings'.data = settings.data
      /\ \/ settings'.fetch = "asked"
         \/ settings' = settings /\ ~(onTab' /\ NotFetching(settings) /\ marked)
  <2>1. Query(settings)
    BY <1>1 DEF SettingsTyped
  <2>2. LET q == Fetching(settings)
        IN Query(q) /\ q.loaded = settings.loaded /\ q.data = settings.data /\ q.fetch = "asked"
    BY <2>1, Queries
  <2> QED
    BY <2>1, <2>2
<1>3. /\ crossed' \in BOOLEAN
      /\ ~crossed' => /\ ~crossed
                      /\ \A d \in posts' : IsSave(d) =>
                           NotFetching(settings') /\ \A e \in posts' : e # d => e.what = "link"
  BY <1>1, Crossing DEF MemberTyped
<1>4. MemberTyped' /\ SettingsTyped' /\ LoneSave'
  BY <1>1, <1>2, <1>3 DEF MemberTyped, SettingsTyped, LoneSave, Seen
<1>5. CodeInv' /\ MarkInv'
  <2>1. MarkInv'
    BY <1>2 DEF AlertsInv, AlertsTyped, MarkInv, NotFetching
  <2>2. CodeInv'
    BY <1>1, <1>2 DEF CodeInv, Seen
  <2> QED
    BY <2>1, <2>2
<1>6. PostsTyped' /\ PostsCounted' /\ WishesKept'
  BY <1>2, <1>3 DEF AlertsInv, AlertsTyped, PostsTyped, PostsCounted, WishesKept, IsSave
<1>7. PrefsKnown'
  BY <1>2, <1>3 DEF AlertsInv, PrefsKnown, IsSave, Seen
<1>8. ChatKnown'
  <2>1. Unlinked' <=> Unlinked
    BY DEF Unlinked
  <2> QED
    BY <1>2, <1>3, <2>1 DEF AlertsInv, ChatKnown, Knows, NotFetching, Seen, IsSave
<1> QED
  BY <1>4, <1>5, <1>6, <1>7, <1>8 DEF AlertsInv, AlertsTyped

LEMMA ReadKeeps ==
  ASSUME AlertsInv, SettingsRead
  PROVE  AlertsInv'
<1>1. /\ settings.fetch = "asked" /\ settings' = AnsweredWith(settings, AlertSettings)
      /\ UNCHANGED <<chat, codes, prefs, failing, marked, onTab, shownCode, posts, sent, wanted,
                     crossed, astray>>
  BY DEF SettingsRead, ServerSide, AlertBounds
<1>2. /\ MemberTyped /\ SettingsTyped /\ Query(settings)
  BY DEF AlertsInv, AlertsTyped, SettingsTyped
<1>3. /\ Query(settings') /\ settings'.loaded = settings.loaded /\ settings'.data = settings.data
      /\ settings'.fetch = "answered" /\ settings'.answer = AlertSettings
  BY <1>1, <1>2, Given
<1>4. AlertSettings.linked = chat /\ AlertSettings.prefs = prefs /\ AlertSettings \in Settings
  BY <1>2 DEF AlertSettings, Settings, MemberTyped
<1>5. MemberTyped' /\ SettingsTyped'
  BY <1>1, <1>2, <1>3, <1>4 DEF MemberTyped, SettingsTyped, Seen
<1>6. CodeInv' /\ MarkInv' /\ PostsTyped' /\ PostsCounted'
  BY <1>1, <1>3 DEF AlertsInv, AlertsTyped, CodeInv, MarkInv, PostsTyped, PostsCounted, NotFetching, Seen
<1>7. LoneSave' /\ WishesKept'
  BY <1>1, <1>3 DEF AlertsInv, LoneSave, WishesKept, NotFetching, IsSave
<1>8. PrefsKnown'
  BY <1>1, <1>3, <1>4 DEF AlertsInv, PrefsKnown, IsSave, Seen
<1>9. ChatKnown'
  <2>1. /\ Unlinked' <=> Unlinked
        /\ ~Stale(settings'.answer.linked, chat', Unlinked', shownCode')
    BY <1>1, <1>3, <1>4 DEF Unlinked, Stale
  <2> QED
    BY <1>1, <1>3, <2>1 DEF AlertsInv, ChatKnown, Knows, Stale, NotFetching, Seen, IsSave
<1> QED
  BY <1>5, <1>6, <1>7, <1>8, <1>9 DEF AlertsInv, AlertsTyped

LEMMA ArrivalKeeps ==
  ASSUME AlertsInv, SettingsArrive
  PROVE  AlertsInv'
<1>1. /\ settings.fetch = "answered" /\ settings' = Arrived(settings)
      /\ failing' = FALSE /\ marked' = FALSE
      /\ shownCode' = IF settings'.loaded /\ settings'.data.linked THEN 0 ELSE shownCode
      /\ UNCHANGED <<chat, codes, prefs, onTab, posts, sent, wanted, crossed, astray>>
  BY DEF SettingsArrive, ShowCode, ServerSide, AlertBounds
<1>2. /\ MemberTyped /\ SettingsTyped /\ Query(settings) /\ CodeInv /\ settings.answer \in Settings
  BY <1>1 DEF AlertsInv, AlertsTyped, SettingsTyped
<1>3. /\ Query(settings') /\ settings'.loaded = TRUE /\ settings'.data = settings.answer
      /\ settings'.fetch = "idle"
  BY <1>1, <1>2, Queries
<1>4. /\ settings.answer.linked \in BOOLEAN
      /\ shownCode' = IF settings.answer.linked THEN 0 ELSE shownCode
  BY <1>1, <1>2, <1>3 DEF Settings
<1>5. MemberTyped' /\ SettingsTyped'
  BY <1>1, <1>2, <1>3 DEF MemberTyped, SettingsTyped, Seen
<1>6. CodeInv' /\ MarkInv'
  BY <1>1, <1>2, <1>3, <1>4 DEF CodeInv, MarkInv, Seen, MemberTyped
<1>7. PostsTyped' /\ PostsCounted'
  BY <1>1, <1>3 DEF AlertsInv, AlertsTyped, PostsTyped, PostsCounted
<1>8. LoneSave' /\ WishesKept'
  BY <1>1, <1>3 DEF AlertsInv, LoneSave, WishesKept, NotFetching, IsSave
<1>9. PrefsKnown'
  BY <1>1, <1>3 DEF AlertsInv, PrefsKnown, LoneSave, NotFetching, IsSave, Seen
<1>10. ChatKnown'
  <2> SUFFICES ASSUME ~crossed, ~astray PROVE ChatKnown'
    BY <1>1 DEF ChatKnown
  <2>1. \A d \in posts' : ~IsSave(d)
    BY <1>1 DEF AlertsInv, LoneSave, NotFetching
  <2>2. Knows(settings.answer.linked) /\ (Unlinked' <=> Unlinked)
    BY <1>1 DEF AlertsInv, ChatKnown, Unlinked
  <2>3. ~Stale(settings'.data.linked, chat', Unlinked', shownCode')
    BY <1>1, <1>3, <1>4, <2>2 DEF Knows, Stale
  <2> QED
    BY <1>3, <2>1, <2>3 DEF ChatKnown, Knows, Seen
<1> QED
  BY <1>5, <1>6, <1>7, <1>8, <1>9, <1>10 DEF AlertsInv, AlertsTyped

LEMMA FailureKeeps ==
  ASSUME AlertsInv, SettingsFail
  PROVE  AlertsInv'
<1>1. /\ ~NotFetching(settings)
      /\ settings' = IF onTab THEN Failed(settings) ELSE [settings EXCEPT !.fetch = "idle"]
      /\ failing' = (failing \/ NotFetching(settings'))
      /\ UNCHANGED <<chat, codes, prefs, marked, onTab, shownCode, posts, sent, wanted, crossed, astray>>
  BY DEF SettingsFail, ServerSide
<1>2. /\ MemberTyped /\ SettingsTyped /\ Query(settings) /\ CodeInv
  BY DEF AlertsInv, AlertsTyped, SettingsTyped
<1>3. /\ Query(settings') /\ settings'.loaded = settings.loaded /\ settings'.data = settings.data
      /\ settings'.fetch \in {"asked", "idle"}
  <2>1. CASE onTab
    BY <1>1, <1>2, <2>1, Queries
  <2>2. CASE ~onTab
    BY <1>1, <1>2, <2>2 DEF Query
  <2> QED
    BY <2>1, <2>2
<1>4. /\ settings'.fetch # "answered" /\ (NotFetching(settings') => failing') /\ failing' \in BOOLEAN
  BY <1>1, <1>2, <1>3 DEF MemberTyped
<1>5. MemberTyped' /\ SettingsTyped'
  BY <1>1, <1>2, <1>3, <1>4 DEF MemberTyped, SettingsTyped, Seen
<1>6. CodeInv' /\ MarkInv' /\ PostsTyped' /\ PostsCounted'
  <2>1. MarkInv'
    BY <1>4 DEF MarkInv
  <2>2. CodeInv'
    BY <1>1, <1>2, <1>3 DEF CodeInv, Seen
  <2>3. PostsTyped' /\ PostsCounted'
    BY <1>1, <1>3 DEF AlertsInv, AlertsTyped, PostsTyped, PostsCounted
  <2> QED
    BY <2>1, <2>2, <2>3
<1>7. LoneSave' /\ WishesKept'
  BY <1>1 DEF AlertsInv, LoneSave, WishesKept, NotFetching, IsSave
<1>8. PrefsKnown'
  BY <1>1, <1>3 DEF AlertsInv, PrefsKnown, IsSave, Seen
<1>9. ChatKnown'
  <2>1. Unlinked' <=> Unlinked
    BY <1>1 DEF Unlinked
  <2> QED
    BY <1>1, <1>4, <2>1 DEF AlertsInv, ChatKnown, Knows, IsSave
<1> QED
  BY <1>5, <1>6, <1>7, <1>8, <1>9 DEF AlertsInv, AlertsTyped

\* The tab is left: what is under way loses its panel.
LEMMA LeaveKeeps ==
  ASSUME AlertsInv, Leave
  PROVE  AlertsInv'
<1> DEFINE Orphan(c) == [c EXCEPT !.orphan = TRUE]
<1>1. /\ onTab /\ onTab' = FALSE /\ shownCode' = 0 /\ posts' = {Orphan(c) : c \in posts}
      /\ astray' = (astray \/ shownCode # 0)
      /\ UNCHANGED <<chat, codes, prefs, settings, failing, marked, sent, wanted, crossed>>
  BY DEF Leave, ServerSide, Cached
<1>2. /\ MemberTyped /\ SettingsTyped /\ PostsTyped /\ PostsCounted /\ sent \in Nat
  BY DEF AlertsInv, AlertsTyped, MemberTyped
<1>3. \A c \in posts :
        /\ Post(Orphan(c), sent) /\ Orphan(c).orphan = TRUE
        /\ Orphan(c).what = c.what /\ Orphan(c).done = c.done /\ Orphan(c).answer = c.answer
        /\ Orphan(c).channel = c.channel /\ Orphan(c).patch = c.patch /\ Orphan(c).id = c.id
  BY <1>2 DEF PostsTyped, Post, PostFields
<1>4. PostsCounted'
  <2> DEFINE f == [c \in posts |-> Orphan(c)]
  <2>1. f \in Surjection(posts, posts')
    BY <1>1 DEF Surjection
  <2> HIDE DEF f
  <2>2. IsFiniteSet(posts) /\ Cardinality(posts) <= sent
    BY <1>2 DEF PostsCounted
  <2>3. IsFiniteSet(posts') /\ Cardinality(posts') <= Cardinality(posts)
    BY <2>1, <2>2, FS_Surjection
  <2>4. Cardinality(posts) \in Nat /\ Cardinality(posts') \in Nat
    BY <2>2, <2>3, FS_CardinalityType
  <2> QED
    BY <1>1, <1>2, <2>2, <2>3, <2>4 DEF PostsCounted
<1> HIDE DEF Orphan
<1>5. PostsTyped'
  BY <1>1, <1>2, <1>3 DEF PostsTyped
<1>6. MemberTyped' /\ SettingsTyped' /\ CodeInv' /\ MarkInv'
  <2>1. MemberTyped' /\ SettingsTyped' /\ MarkInv'
    BY <1>1, <1>2 DEF MemberTyped, SettingsTyped, MarkInv, Seen
  <2>2. CodeInv'
    BY <1>1, <1>2 DEF CodeInv
  <2> QED
    BY <2>1, <2>2
<1>7. LoneSave'
  BY <1>1, <1>3 DEF AlertsInv, LoneSave, IsSave, NotFetching
<1>8. PrefsKnown'
  BY <1>1, <1>3 DEF AlertsInv, PrefsKnown, IsSave, Seen
<1>9. WishesKept'
  BY <1>1, <1>3 DEF AlertsInv, WishesKept, IsSave
<1>10. ChatKnown'
  <2> SUFFICES ASSUME ~crossed', ~astray' PROVE ChatKnown'
    BY DEF ChatKnown
  <2>1. Unlinked' <=> Unlinked
    BY <1>1, <1>3 DEF Unlinked
  <2>2. ~astray /\ shownCode = 0
    BY <1>1
  <2>3. \A linked : Stale(linked, chat', Unlinked', shownCode') => ~Knows(linked)
    BY <1>1, <2>1, <2>2 DEF Knows, Stale
  <2>4. \A e \in posts' : \E c \in posts : (IsSave(e) /\ e.done => IsSave(c) /\ c.done) /\ e.answer = c.answer
    BY <1>1, <1>3 DEF IsSave
  <2> QED
    BY <1>1, <2>2, <2>3, <2>4 DEF AlertsInv, ChatKnown, Knows, NotFetching, Seen
<1> QED
  BY <1>4, <1>5, <1>6, <1>7, <1>8, <1>9, <1>10 DEF AlertsInv, AlertsTyped

LEMMA TabKeeps ==
  ASSUME AlertsInv, Poll \/ Return
  PROVE  AlertsInv'
<1>1. CASE Poll
  <2>1. onTab = TRUE /\ onTab' = onTab
    BY <1>1 DEF Poll, AlertsInv, AlertsTyped, MemberTyped
  <2> QED
    BY <1>1, <2>1, FetchKeeps DEF Poll, FetchSettings, ServerSide, AlertBounds
<1>2. CASE Return
  BY <1>2, FetchKeeps DEF Return, FetchSettings, ServerSide, AlertBounds
<1> QED
  BY <1>1, <1>2

LEMMA AlertsStep == AlertsInv /\ [AlertsNext]_alertVars => AlertsInv'
<1> SUFFICES ASSUME AlertsInv, [AlertsNext]_alertVars PROVE AlertsInv'
  OBVIOUS
<1>1. CASE UNCHANGED alertVars
  <2>1. AlertsTyped'
    BY <1>1 DEF alertVars, AlertsInv, AlertsTyped, MemberTyped, SettingsTyped, PostsTyped, PostsCounted,
                CodeInv, MarkInv, Seen, NotFetching
  <2>2. LoneSave' /\ PrefsKnown' /\ WishesKept'
    BY <1>1 DEF alertVars, AlertsInv, LoneSave, PrefsKnown, WishesKept, Seen, NotFetching
  <2>3. ChatKnown'
    BY <1>1 DEF alertVars, AlertsInv, ChatKnown, Knows, Unlinked, Seen, NotFetching
  <2> QED
    BY <2>1, <2>2, <2>3 DEF AlertsInv
<1>2. CASE \E c \in posts : Answered(c)
  <2>1. PICK c \in posts : Answered(c)
    BY <1>2
  <2> QED
    BY <2>1, LinkAnswerKeeps, UnlinkAnswerKeeps, SaveAnswerKeeps DEF Answered
<1> QED
  BY <1>1, <1>2, ButtonsKeep, DoneKeeps, RefusalKeeps, CodesKeep, ReadKeeps, ArrivalKeeps, FailureKeeps,
     LeaveKeeps, TabKeeps DEF AlertsNext

\* The types of the panel; no code is shown beside a linked chat.
THEOREM AlertsTypeCorrect == AlertsSpec => []AlertsTypeOK
<1>1. AlertsInv => AlertsTypeOK
  <2> SUFFICES ASSUME AlertsInv PROVE AlertsTypeOK
    OBVIOUS
  <2> QED
    BY DEF AlertsInv, AlertsTyped, MemberTyped, SettingsTyped, PostsCounted, CodeInv, AlertsTypeOK, Settings
<1> QED
  BY <1>1, AlertsInitially, AlertsStep, PTL DEF AlertsSpec

\* For any channels, triggers, levels and number of requests, whichever of
\* them and of the answers came first: an idle panel shows what the API holds,
\* and the API holds what the member chose (alerts-panel.tsx, patch, unlink,
\* the polling of a link code).
THEOREM TheSettingsSettle == AlertsSpec => []SettingsSettle
<1>1. AlertsInv => SettingsSettle
  <2> SUFFICES ASSUME AlertsInv PROVE SettingsSettle
    OBVIOUS
  <2>1. posts = {} /\ ~crossed => prefs = wanted
    BY DEF AlertsInv, WishesKept
  <2>2. ASSUME Usable, AllAnswered, shownCode = 0, ~crossed, ~astray
        PROVE  Seen = AlertSettings
    <3>1. settings.loaded /\ ~failing /\ ~marked /\ NotFetching(settings) /\ posts = {}
      BY <2>2 DEF Usable, AllAnswered, AlertsInv, AlertsTyped, MarkInv
    <3>2. Seen \in Settings /\ Seen.prefs = prefs /\ chat \in BOOLEAN
      BY <2>2, <3>1 DEF AlertsInv, PrefsKnown, AlertsTyped, SettingsTyped, MemberTyped
    <3>3. Seen.linked = chat
      <4>1. Knows(Seen.linked) /\ ~Unlinked
        BY <2>2, <3>1 DEF AlertsInv, ChatKnown, Unlinked
      <4>2. Seen.linked <=> chat
        BY <2>2, <4>1 DEF Knows, Stale
      <4> QED
        BY <3>2, <4>2 DEF Settings
    <3> QED
      BY <3>2, <3>3 DEF Settings, AlertSettings
  <2> QED
    BY <2>1, <2>2 DEF SettingsSettle
<1> QED
  BY <1>1, AlertsInitially, AlertsStep, PTL DEF AlertsSpec
=============================================================================
