---------------------------- MODULE GatewayPanel ----------------------------
(***************************************************************************)
(* The IB Gateway panel of the dashboard: frontend/components/             *)
(* gateway-status.tsx with lib/two-factor.ts, the commands of the API it   *)
(* sends (process, reconnect, credentials, target) and the guard of        *)
(* backend/app/main.py in front of them.                                   *)
(*                                                                         *)
(* The gateway: `running' its process, `login' what its log says, `push'   *)
(* the number of the last two-factor request and `sentAt' its time while   *)
(* it is open, `link' the worker's session.  `doc' is the copy the panel   *)
(* has of it.  A command in flight is at a stage of its handler, and       *)
(* remembers the push its operator was asked about, the one the panel knew *)
(* of and the last one there was when the API looked at the log (0: none). *)
(***************************************************************************)
EXTENDS Integers, FiniteSets

CONSTANTS
  Timeout,     \* a two-factor request can be approved for so long
  Grace,       \* and is not worth waiting for with no more than this left
  Links,       \* what the worker may report of its session
  LastMoment, MaxPushes, MaxCommands   \* bounds
ASSUME GatewayAssumption ==
  /\ {Timeout, Grace, LastMoment, MaxPushes, MaxCommands} \subseteq Nat
  /\ {"DISCONNECTED", "CONNECTING"} \subseteq Links

VARIABLES running, login, push, sentAt, link, locked, time,
          doc, busy, confirming, askedOf, configuring, requests, commands
gatewayVars == <<running, login, push, sentAt, link, locked, time,
                 doc, busy, confirming, askedOf, configuring, requests, commands>>
Host == <<running, login, push, sentAt, link>>
Panel == <<doc, busy, confirming, askedOf, configuring>>

Logins == {"starting", "connecting", "connecting_stale", "two_factor",
           "two_factor_device_required", "auth_failed", "logged_in"}
Live == {"CONNECTED", "DEGRADED"}
Attaching == {"CONNECTING", "RECONNECTING"}
Interrupts == {"stop", "restart"}
Actions == Interrupts \cup {"start", "reconnect", "credentials", "target"}
InFlight == [action : Actions, force : BOOLEAN, asked : Nat, knew : Nat, id : Nat,
             stage : {"sent", "passed", "locked"}, saw : Nat]

\* The login as the API reports it: an open port means logged in, and a
\* two-factor request is told of while it is open.
Asking == running /\ login = "two_factor"
State == [running |-> running, phase |-> IF running THEN login ELSE "down",
          push |-> IF Asking THEN push ELSE 0, sentAt |-> IF Asking THEN sentAt ELSE 0,
          link |-> link]
PortOpen(state) == state.phase = "logged_in"
TimeLeft(state, at) ==
  IF state.phase # "two_factor" THEN 0
  ELSE IF at - state.sentAt >= Timeout THEN 0 ELSE Timeout - (at - state.sentAt)
Awaiting(state, at) == state.phase = "two_factor" /\ TimeLeft(state, at) > 0
EffectivePhase(state, at) ==
  IF state.phase = "two_factor" /\ TimeLeft(state, at) = 0 THEN "two_factor_expired"
  ELSE state.phase
FullyOnline == EffectivePhase(doc, time) = "logged_in" /\ PortOpen(doc)

\* The button the panel offers ("none": it only says what is awaited).
PrimaryAction ==
  LET phase == EffectivePhase(doc, time) IN
  CASE FullyOnline -> "none"
    [] ~FullyOnline /\ Awaiting(doc, time) -> "none"
    [] ~FullyOnline /\ ~Awaiting(doc, time) /\ ~doc.running -> "start"
    [] /\ ~FullyOnline /\ doc.running
       /\ phase \in {"two_factor_expired", "auth_failed", "connecting_stale"} -> "restart"
    [] OTHER ->
         IF doc.link \notin Attaching /\ PortOpen(doc) /\ doc.link \in {"FAILED", "DISCONNECTED"}
         THEN "reconnect" ELSE "none"

GatewayInit ==
  /\ running = FALSE /\ login = "starting" /\ push = 0 /\ sentAt = 0 /\ link = "DISCONNECTED"
  /\ locked = {} /\ time = 0 /\ doc = State /\ busy = FALSE /\ confirming = "none"
  /\ askedOf = 0 /\ configuring = FALSE /\ requests = {} /\ commands = 0

-----------------------------------------------------------------------------
\* The gateway logs in, is stuck and goes on after all, asks for a second
\* factor (again, when it retries), is approved, refused or logged off, and
\* begins anew; the worker attaches and loses it.
NextLogins ==
  CASE login = "starting" -> {"connecting"}
    [] login \in {"connecting", "connecting_stale"} ->
         {"connecting", "connecting_stale", "two_factor", "two_factor_device_required",
          "auth_failed", "logged_in"} \ {login}
    [] login = "two_factor" -> {"two_factor", "logged_in"}
    [] login = "logged_in" -> {"starting", "connecting"}
    [] login \in {"two_factor_device_required", "auth_failed"} -> {"starting", "logged_in"}
LoginMoves ==
  /\ running /\ login' \in NextLogins
  /\ IF login' = "two_factor" THEN push < MaxPushes /\ push' = push + 1 /\ sentAt' = time
     ELSE push' = push /\ sentAt' = 0
  /\ UNCHANGED <<running, link, locked, time, Panel, requests, commands>>
LinkMoves ==
  /\ link' \in (IF running /\ login = "logged_in" THEN Links
               ELSE Links \ Live) \ {link}
  /\ UNCHANGED <<running, login, push, sentAt, locked, time, Panel, requests, commands>>
Tick ==
  /\ time < LastMoment /\ time' = time + 1 /\ locked' = {}
  /\ UNCHANGED <<Host, Panel, requests, commands>>

\* gateway.updated, or an answer to GET /gateway.
Published ==
  /\ doc # State /\ doc' = State
  /\ UNCHANGED <<Host, locked, time, busy, confirming, askedOf, configuring, requests, commands>>

\* run() of the panel.
Send(action, force, asked) ==
  /\ commands < MaxCommands /\ commands' = commands + 1
  /\ busy' = TRUE /\ confirming' = "none" /\ askedOf' = 0
  /\ requests' = requests \cup
       {[action |-> action, force |-> force, asked |-> asked, id |-> commands,
         knew |-> IF doc.phase = "two_factor" THEN doc.push ELSE 0,
         stage |-> "sent", saw |-> 0]}
Ask(action) ==
  /\ confirming' = action /\ askedOf' = doc.push
  /\ UNCHANGED <<busy, requests, commands>>
Interrupt(action) ==
  IF Awaiting(doc, time) THEN Ask(action) ELSE Send(action, FALSE, 0)

Idle == ~busy /\ UNCHANGED <<Host, locked, time, doc>>
PressStop == Idle /\ doc.running /\ Interrupt("stop") /\ UNCHANGED configuring
PressPrimary ==
  /\ Idle /\ PrimaryAction # "none" /\ UNCHANGED configuring
  /\ IF PrimaryAction = "restart" THEN Interrupt("restart") ELSE Send(PrimaryAction, FALSE, 0)
CancelAndGo ==
  /\ Idle /\ confirming # "none" /\ Send(confirming, TRUE, askedOf) /\ UNCHANGED configuring
KeepWaiting ==
  /\ Idle /\ confirming # "none" /\ confirming' = "none" /\ askedOf' = 0
  /\ UNCHANGED <<busy, configuring, requests, commands>>
Configure ==
  /\ Idle /\ configuring' = ~configuring
  /\ UNCHANGED <<busy, confirming, askedOf, requests, commands>>
SaveForm ==
  /\ Idle /\ configuring /\ Send("credentials", FALSE, 0) /\ UNCHANGED configuring
SaveTarget ==
  /\ Idle /\ configuring /\ Send("target", FALSE, 0) /\ UNCHANGED configuring

-----------------------------------------------------------------------------
Guarded(r) == r.action \in Interrupts /\ ~r.force
\* Mutant: the comparison with the grace time is the wrong way round.
BlockedAtTheEnd(r) ==
  /\ r.stage = "sent" /\ Guarded(r)
  /\ State.phase = "two_factor" /\ TimeLeft(State, time) <= Grace
\* The API reads the log of the gateway, takes the lock of a few seconds per
\* command, notes it for the audit and then calls the host.  It waits for an
\* answer between them, and the gateway goes on meanwhile.
Blocked(r) ==
  /\ r.stage = "sent" /\ Guarded(r)
  /\ State.phase = "two_factor" /\ TimeLeft(State, time) > Grace
Advance(r, to, seen) ==
  /\ requests' = (requests \ {r}) \cup {[r EXCEPT !.stage = to, !.saw = seen]}
  /\ UNCHANGED <<Host, time, Panel, commands>>
Answer(r, done) ==
  /\ requests' = requests \ {r} /\ busy' = FALSE
  /\ configuring' = (configuring /\ ~(done /\ r.action \in {"credentials", "target"}))
  /\ UNCHANGED <<time, doc, confirming, askedOf, commands>>
Refuse(r) == Answer(r, FALSE) /\ UNCHANGED <<Host, locked>>
PassGuard(r) ==
  /\ r.stage = "sent" /\ UNCHANGED locked
  /\ IF Blocked(r) THEN Refuse(r) ELSE Advance(r, "passed", push)
TakeLock(r) ==
  /\ r.stage = "passed"
  /\ \/ r.action \in locked /\ Refuse(r)
     \/ r.action \notin locked /\ locked' = locked \cup {r.action} /\ Advance(r, "locked", r.saw)
Execute(r) ==
  /\ r.stage = "locked" /\ UNCHANGED locked
  /\ \/ /\ Answer(r, FALSE) /\ UNCHANGED Host      \* the audit or the host fails
     \/ /\ Answer(r, TRUE)
        /\ CASE r.action = "stop" ->
                  running' = FALSE /\ link' = "DISCONNECTED" /\ UNCHANGED <<login, push, sentAt>>
             [] r.action = "start" /\ running -> UNCHANGED Host
             [] r.action = "restart" \/ (r.action = "start" /\ ~running) ->
                  /\ running' = TRUE /\ login' = "starting" /\ link' = "DISCONNECTED"
                  /\ UNCHANGED <<push, sentAt>>
             [] r.action \in {"reconnect", "target"} ->
                  link' = "CONNECTING" /\ UNCHANGED <<running, login, push, sentAt>>
             [] r.action = "credentials" -> UNCHANGED Host
Serve == \E r \in requests : PassGuard(r) \/ TakeLock(r) \/ Execute(r)

GatewayNext ==
  \/ LoginMoves \/ LinkMoves \/ Tick \/ Published
  \/ PressStop \/ PressPrimary \/ CancelAndGo \/ KeepWaiting
  \/ Configure \/ SaveForm \/ SaveTarget \/ Serve
GatewaySpec == GatewayInit /\ [][GatewayNext]_gatewayVars

-----------------------------------------------------------------------------
\* The types of the panel's and the gateway's state.
GatewayTypeOK ==
  /\ running \in BOOLEAN /\ login \in Logins /\ push \in 0..MaxPushes /\ link \in Links
  /\ locked \subseteq Actions /\ {busy, configuring} \subseteq BOOLEAN
  /\ confirming \in Interrupts \cup {"none"} /\ commands \in 0..MaxCommands
  /\ requests \subseteq InFlight

\* One panel never has two commands under way, whatever is clicked while one
\* is answered (busy).
OneCommandAtATime == Cardinality(requests) <= 1

\* A command cancels a two-factor request that has more than the grace time
\* left: it ends the process or starts the login again while one is open.
Cancels ==
  /\ Awaiting(State, time) /\ TimeLeft(State, time) > Grace /\ State.push = push'
  /\ ~running' \/ login' = "starting"

\* Such a request is cancelled only by an operator who was asked, or by a
\* command that had passed the guard before the gateway made it: not by a
\* panel that has not heard of it yet, nor by a command sent before it that
\* finds it in the log (the restart guard, main.py 612-628).
NoSilentCancel ==
  [][\A r \in requests \ requests' : Cancels => r.asked # 0 \/ r.saw # push]_gatewayVars

\* What the README (lines 268-273) says of the guard: while a request is
\* outstanding and more than the grace time remains, only a command sent with
\* force stops or restarts the gateway.
PushIsGuarded ==
  [][\A r \in requests \ requests' : Cancels => r.force]_gatewayVars

\* The guard never refuses an operator whose panel knew of the request: the
\* panel counts down against the same instant as the API, so what it offers
\* without asking (the restart after a timeout among it) is let through.
RefusedIsNews ==
  \A r \in requests : Blocked(r) => r.knew # push

\* What the button says while the gateway is online: it "is logged in and the
\* worker is streaming" (gateway-status.tsx 102).
OnlineIsStreaming == FullyOnline => doc.link \in Live
=============================================================================
