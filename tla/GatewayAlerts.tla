--------------------------- MODULE GatewayAlerts ---------------------------
(***************************************************************************)
(* What a tenant's desk is told of its gateways (worker.AlertDispatcher).   *)
(*                                                                         *)
(* The dispatcher reads the tenant stream as a group of its own and only    *)
(* ever new entries.  Each turn of its loop it reads a batch, reports the   *)
(* conditions that have lasted the grace period (sweep_pending), and then   *)
(* handles the batch (gateway_changed).  What it has reported of a gateway  *)
(* is in Redis as well as in memory, what is pending is in memory alone.    *)
(*                                                                         *)
(* An error in the turn is logged and the rest of the batch is dropped: it  *)
(* stays pending in the group, which nobody reads.  Telegram's own failures *)
(* are swallowed by telegram.send and are not told apart from a message     *)
(* that was sent.  The dispatcher's own alert.raised events, which share    *)
(* the stream and are ignored when read, are left out, and so are the texts,*)
(* with the duration of an outage they name.                                *)
(***************************************************************************)
EXTENDS Naturals, Sequences

CONSTANTS
  Keys,        \* gateway connections of the tenant
  None,
  Grace,       \* alert_gateway_grace_seconds, in ticks
  MaxUnread,   \* bound: events of a gateway in the stream
  MaxChanges,  \* bound: changes of class and login prompts
  MaxFaults    \* bound: errors and restarts of the dispatcher

Statuses == {"CONNECTED", "DEGRADED", "DISCONNECTED", "RECONNECTING", "FAILED"}

Classes == {"up", "degraded", "down", "attention"}

ASSUME AlertsAssumption ==
  /\ None \notin Classes \cup Keys
  /\ None \notin [key : Keys, class : Classes, debounced : BOOLEAN]
  /\ None \notin [status : Statuses, age : 0 .. Grace]
  /\ Grace \in Nat \ {0}
  /\ MaxUnread \in Nat /\ MaxChanges \in Nat /\ MaxFaults \in Nat

VARIABLES
  status,   \* what the session of the gateway has published last
  stream,   \* events the group has not read
  phase,    \* where the loop is
  batch,    \* the entries it has read
  todo,     \* the gateways sweep_pending has listed and not yet looked at
  memory,   \* AlertState.gateway
  pending,  \* AlertState.pending: the status, and for how long
  store,    \* the alerted:gateway:<key> entries of Redis
  say,      \* the message deliver() has been called with
  spell,    \* history: the class last told, until another one is handled
  upAge,    \* history: ticks since "up" was handled, up to Grace
  changes, faults

source == <<status, stream, changes>>
loop == <<phase, batch, todo>>
state == <<memory, pending, store>>
vars == <<source, loop, state, say, spell, upAge, faults>>

Event == [key : Keys, status : Statuses, prompt : BOOLEAN]
Message == [key : Keys, class : Classes, debounced : BOOLEAN]

TypeOK ==
  /\ status \in [Keys -> Statuses]
  /\ stream \in Seq(Event) /\ batch \in Seq(Event)
  /\ phase \in {"asleep", "sweep", "handle"} /\ todo \subseteq Keys
  /\ memory \in [Keys -> Classes \cup {None}]
  /\ store \in [Keys -> Classes \cup {None}]
  /\ pending \in [Keys -> [status : Statuses, age : 0 .. Grace] \cup {None}]
  /\ say \in Message \cup {None}
  /\ spell \in [Keys -> Classes \cup {None}]
  /\ upAge \in [Keys -> 0 .. Grace]
  /\ changes \in Nat /\ faults \in Nat

\* gateway_class of a status alone.
ClassOf(s) == CASE s = "CONNECTED" -> "up"
                [] s = "DEGRADED" -> "degraded"
                [] s \in {"DISCONNECTED", "RECONNECTING", "FAILED"} -> "down"

\* A login phase that needs somebody goes before the status.
Class(e) == IF e.prompt THEN "attention" ELSE ClassOf(e.status)

\* The store may hold what an earlier dispatcher reported.
Init ==
  /\ status = [k \in Keys |-> "DISCONNECTED"]
  /\ stream = <<>> /\ batch = <<>> /\ phase = "asleep" /\ todo = {}
  /\ memory = [k \in Keys |-> None]
  /\ store \in [Keys -> {None, "up", "down"}]
  /\ pending = [k \in Keys |-> None]
  /\ say = None
  /\ spell = [k \in Keys |-> None]
  /\ upAge = [k \in Keys |-> Grace]
  /\ changes = 0 /\ faults = 0
-----------------------------------------------------------------------------
(* The gateways                                                             *)

\* What live() publishes after what: an attempt, its outcome, heartbeats with
\* the status broker_error() and farm_recovered() leave, a lost connection.
Follows == [s \in Statuses |->
  CASE s = "CONNECTED" -> {"CONNECTED", "DEGRADED", "DISCONNECTED"}
    [] s = "DEGRADED" -> {"CONNECTED", "DEGRADED", "DISCONNECTED"}
    [] s = "DISCONNECTED" -> {"RECONNECTING", "FAILED"}
    [] s = "FAILED" -> {"RECONNECTING", "DISCONNECTED"}
    [] s = "RECONNECTING" -> {"RECONNECTING", "CONNECTED", "DEGRADED", "DISCONNECTED"}]

Unread(k) == Len(SelectSeq(stream, LAMBDA e : e.key = k))

Append1(k, s, prompt) ==
  /\ Unread(k) < MaxUnread
  /\ stream' = Append(stream, [key |-> k, status |-> s, prompt |-> prompt])
  /\ UNCHANGED <<loop, state, say, spell, upAge, faults>>

\* The gateway goes on as it is: heartbeats, or one attempt after another.
Republish(k) == \E s \in Follows[status[k]] :
  /\ ClassOf(s) = ClassOf(status[k])
  /\ status' = [status EXCEPT ![k] = s]
  /\ Append1(k, s, FALSE) /\ UNCHANGED changes

Changes(k) == \E s \in Follows[status[k]] :
  /\ ClassOf(s) # ClassOf(status[k])
  /\ changes < MaxChanges /\ changes' = changes + 1
  /\ status' = [status EXCEPT ![k] = s]
  /\ Append1(k, s, FALSE)

\* watch_gateway_logins finds the login at a phase somebody must attend to.
Prompts(k) ==
  /\ ClassOf(status[k]) = "down"
  /\ changes < MaxChanges /\ changes' = changes + 1
  /\ Append1(k, status[k], TRUE) /\ UNCHANGED status
-----------------------------------------------------------------------------
(* The loop                                                                 *)

Fault == faults < MaxFaults /\ faults' = faults + 1

\* alerts.dispatch_failed: the turn is over.
Abort == phase' = "asleep" /\ batch' = <<>> /\ todo' = {} /\ say' = None

\* XREADGROUP ">" with a block of a second.
Read ==
  /\ phase = "asleep"
  /\ phase' = "sweep" /\ batch' = stream /\ stream' = <<>>
  /\ todo' = {k \in Keys : pending[k] # None}
  /\ UNCHANGED <<status, changes, state, say, spell, upAge, faults>>

\* remember_gateway: memory, then Redis, which may fail; then what comes next.
Remember(k, class, then) ==
  /\ memory' = [memory EXCEPT ![k] = class]
  /\ \/ store' = [store EXCEPT ![k] = class] /\ then /\ UNCHANGED faults
     \/ Fault /\ Abort /\ UNCHANGED store

Call(k, class, debounced) ==
  /\ say' = [key |-> k, class |-> class, debounced |-> debounced]
  /\ UNCHANGED <<phase, batch>>

\* Mutant: the pending entry goes before its age is looked at.
SweepForgetting(k) ==
  /\ phase = "sweep" /\ say = None /\ k \in todo
  /\ pending' = [pending EXCEPT ![k] = None]
  /\ LET class == ClassOf(pending[k].status) IN
     IF pending[k].age < Grace \/ memory[k] = class
       THEN todo' = todo \ {k} /\ UNCHANGED <<phase, batch, memory, store, say, faults>>
       ELSE Remember(k, class, Call(k, class, TRUE) /\ todo' = todo \ {k})
  /\ UNCHANGED <<source, spell, upAge>>

\* sweep_pending, for one gateway.
Sweep(k) ==
  /\ phase = "sweep" /\ say = None /\ k \in todo
  /\ IF pending[k].age < Grace
       THEN todo' = todo \ {k} /\ UNCHANGED <<phase, batch, state, say, faults>>
       ELSE /\ pending' = [pending EXCEPT ![k] = None]
            /\ LET class == ClassOf(pending[k].status) IN
               IF memory[k] = class
                 THEN todo' = todo \ {k} /\ UNCHANGED <<phase, batch, memory, store, say, faults>>
                 ELSE Remember(k, class, Call(k, class, TRUE) /\ todo' = todo \ {k})
  /\ UNCHANGED <<source, spell, upAge>>

\* settle_risk and announce_events come between the sweep and the batch.
Swept ==
  /\ phase = "sweep" /\ say = None /\ todo = {}
  /\ \/ phase' = "handle" /\ UNCHANGED <<batch, todo, say, faults>>
     \/ Fault /\ Abort
  /\ UNCHANGED <<source, state, spell, upAge>>

\* An entry has been handled, and is acknowledged.
Acked == batch' = Tail(batch) /\ UNCHANGED phase

\* deliver: members and preferences are read, the messages sent, the alert
\* appended to the stream; an error may come before or after the sending.
Deliver ==
  /\ say # None
  /\ \E sent \in BOOLEAN :
       /\ spell' = IF sent THEN [spell EXCEPT ![say.key] = say.class] ELSE spell
       /\ \/ /\ sent /\ say' = None
             /\ IF phase = "handle" THEN Acked ELSE UNCHANGED <<phase, batch>>
             /\ UNCHANGED <<todo, faults>>
          \/ Fault /\ Abort
  /\ UNCHANGED <<source, state, upAge>>
-----------------------------------------------------------------------------
(* gateway_changed, for the entry at the head of the batch                  *)

\* Mutant: what Redis remembers is not asked for.
RecallMemory(k) == memory[k]

\* What was reported of it: after a restart, what Redis remembers.
Recall(k) == IF memory[k] = None THEN store[k] ELSE memory[k]

\* The entry is of gateway k and class c.
Handles(k, c) ==
  /\ phase = "handle" /\ say = None /\ batch # <<>>
  /\ k = Head(batch).key /\ c = Class(Head(batch))
  /\ spell' = [spell EXCEPT ![k] = IF @ = c THEN @ ELSE None]
  /\ upAge' = IF c = "up" THEN [upAge EXCEPT ![k] = 0] ELSE upAge
  /\ UNCHANGED <<source, todo>>

Nothing == say' = None /\ Acked

\* Mutant: only a recovery that is told clears what is pending.
UpKeepsPending(k) ==
  /\ Handles(k, "up")
  /\ pending' = IF Recall(k) \in {None, "up"} THEN pending ELSE [pending EXCEPT ![k] = None]
  /\ Remember(k, "up", IF Recall(k) \in {None, "up"} THEN Nothing ELSE Call(k, "up", FALSE))

\* It is back, which is news only if something else was reported.
Up(k) ==
  /\ Handles(k, "up")
  /\ pending' = [pending EXCEPT ![k] = None]
  /\ Remember(k, "up", IF Recall(k) \in {None, "up"} THEN Nothing ELSE Call(k, "up", FALSE))

\* Of the class that was reported: the pending entry, if any, stays.
Same(k, c) ==
  /\ c # "up" /\ Recall(k) = c /\ Handles(k, c)
  /\ memory' = [memory EXCEPT ![k] = c]
  /\ Nothing /\ UNCHANGED <<pending, store, faults>>

IsUrgent(e) == Class(e) = "attention" \/ e.status = "FAILED"

\* FAILED and a login prompt do not wait for the grace period.  The pending
\* entry goes after Redis has answered.
Urgent(k, c) ==
  /\ c # "up" /\ Recall(k) # c /\ Handles(k, c) /\ IsUrgent(Head(batch))
  /\ Remember(k, c, Call(k, c, FALSE))
  /\ pending' = IF say' = None THEN pending ELSE [pending EXCEPT ![k] = None]

\* Anything else waits, unless something waits already.
Debounce(k, c) ==
  /\ c # "up" /\ Recall(k) # c /\ Handles(k, c) /\ ~IsUrgent(Head(batch))
  /\ pending' = IF pending[k] = None
                  THEN [pending EXCEPT ![k] = [status |-> Head(batch).status, age |-> 0]]
                  ELSE pending
  /\ memory' = [memory EXCEPT ![k] = Recall(k)]
  /\ Nothing /\ UNCHANGED <<store, faults>>

\* The label or the stored class cannot be read: the entry is acknowledged, the
\* others of the batch are not handled either.
HandleFails ==
  /\ phase = "handle" /\ say = None /\ batch # <<>>
  /\ Fault /\ Abort
  /\ UNCHANGED <<source, state, spell, upAge>>

Handled ==
  /\ phase = "handle" /\ say = None /\ batch = <<>>
  /\ phase' = "asleep"
  /\ UNCHANGED <<source, batch, todo, state, say, spell, upAge, faults>>

\* The worker is started again.
Restart ==
  /\ Fault /\ Abort
  /\ memory' = [k \in Keys |-> None] /\ pending' = [k \in Keys |-> None]
  /\ UNCHANGED <<source, store, spell, upAge>>

Older(n) == IF n < Grace THEN n + 1 ELSE n

Tick ==
  /\ pending' = [k \in Keys |-> IF pending[k] = None THEN None
                                ELSE [pending[k] EXCEPT !.age = Older(@)]]
  /\ upAge' = [k \in Keys |-> Older(upAge[k])]
  /\ UNCHANGED <<source, loop, memory, store, say, spell, faults>>

Dispatch == \/ Read \/ Swept \/ Deliver \/ Handled
            \/ \E k \in Keys : Sweep(k) \/ Up(k)
            \/ \E k \in Keys, c \in Classes : Same(k, c) \/ Urgent(k, c) \/ Debounce(k, c)

Next == \/ Dispatch \/ HandleFails \/ Restart \/ Tick
        \/ \E k \in Keys : Republish(k) \/ Changes(k) \/ Prompts(k)

Spec == Init /\ [][Next]_vars

\* The loop goes round, time passes, and a session publishes its status with
\* every heartbeat and every attempt.
FairSpec == /\ Spec /\ WF_vars(Dispatch) /\ WF_vars(Tick)
            /\ \A k \in Keys : WF_vars(Republish(k))
-----------------------------------------------------------------------------
(* Properties *)

\* "one outage should be one alert": nothing is told twice of a gateway between
\* two events of another class, through restarts, dropped batches and errors
\* between Redis and the message.
OneAlertPerOutage == say # None => spell[say.key] # say.class

\* A blip says nothing: a debounced message is of a gateway which has not been
\* seen up for as long as the grace period, although a sweep comes before the
\* batch that may hold its recovery.
BlipIsSilent == say # None /\ say.debounced => upAge[say.key] = Grace

\* Once a gateway stays as it is, that is what the desk has been told: batches
\* that were dropped and conditions that were pending are made good by the
\* heartbeats that follow.
Converges == \A k \in Keys, c \in {"up", "degraded", "down"} :
  <>[](ClassOf(status[k]) = c) => <>[](memory[k] = c)
=============================================================================
