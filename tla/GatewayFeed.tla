----------------------------- MODULE GatewayFeed -----------------------------
(***************************************************************************)
(* What one gateway session does with what the broker tells it              *)
(* (worker.GatewaySession): the callbacks put events on a bounded queue     *)
(* without waiting, process() takes them off and publishes each to Redis    *)
(* and to the tenant's stream, and live() connects, reads the broker's      *)
(* snapshots, polls orders and fills at every heartbeat and starts over     *)
(* when a fault is set.                                                     *)
(*                                                                         *)
(* live() is one coroutine: between two of its awaits nothing else runs, so *)
(* a step here is the code between two awaits.  An order is the number of   *)
(* its version, the last of which is terminal; a fill is 1 when executed    *)
(* and 2 with its commission; a position is held or not.                    *)
(***************************************************************************)
EXTENDS Naturals, Sequences, SequencesExt

CONSTANTS
  Orders, Fills, Contracts,
  MaxQueue,    \* asyncio.Queue(maxsize=20000)
  Terminal,    \* bound: the versions of an order; the last is terminal
  MaxChanges,  \* bound: what happens at the broker
  MaxFaults    \* bound: disconnections, failed connects, commands, ended sessions

ASSUME FeedAssumption ==
  /\ IsFiniteSet(Orders) /\ IsFiniteSet(Fills) /\ IsFiniteSet(Contracts)
  /\ MaxQueue \in Nat \ {0} /\ Terminal \in Nat \ {0}
  /\ MaxChanges \in Nat /\ MaxFaults \in Nat

VARIABLES
  order, fill, held,      \* the broker: versions, and the contracts held
  phase,                  \* the await live() is at
  connected, fault,
  synced,                 \* sync() is behind it: the heartbeat loop
  snapshot,               \* the open orders poll_orders waits to queue
  current,                \* the contracts sync() found held
  queue,
  orderSeen, fillSeen,    \* order_versions, execution_versions
  known,                  \* self.positions
  active, row,            \* Redis: active orders (0: none), position rows
  sentOrder, sentFill,    \* the stream: the last version of each
  changes, faults

broker == <<order, fill, held, changes>>
redis == <<active, row, sentOrder, sentFill>>
session == <<snapshot, current, orderSeen, fillSeen, known, synced>>
vars == <<broker, redis, session, phase, connected, fault, queue, faults>>

Phases == {"down", "connecting", "positions", "orders", "put", "fills", "rows", "check", "wait"}

OrderEvent(o, v) == [kind |-> "order", key |-> o, at |-> v]
FillEvent(x, v) == [kind |-> "execution", key |-> x, at |-> v]
PositionEvent(c, isHeld) == [kind |-> "position", key |-> c, at |-> isHeld]
Reconciled(open) == [kind |-> "orders.reconciled", open |-> open]

Event == [kind : {"order"}, key : Orders, at : 1 .. Terminal]
           \cup [kind : {"execution"}, key : Fills, at : 1 .. 2]
           \cup [kind : {"position"}, key : Contracts, at : BOOLEAN]
           \cup [kind : {"orders.reconciled"}, open : [Orders -> 0 .. Terminal]]

TypeOK ==
  /\ order \in [Orders -> 0 .. Terminal] /\ fill \in [Fills -> 0 .. 2]
  /\ held \subseteq Contracts /\ current \subseteq Contracts
  /\ phase \in Phases
  /\ connected \in BOOLEAN /\ fault \in BOOLEAN /\ synced \in BOOLEAN
  /\ snapshot \in [Orders -> 0 .. Terminal]
  /\ queue \in Seq(Event) /\ Len(queue) <= MaxQueue
  /\ orderSeen \in [Orders -> 0 .. Terminal] /\ fillSeen \in [Fills -> 0 .. 2]
  /\ known \in [Contracts -> {"none", "open", "flat"}]
  /\ active \in [Orders -> 0 .. Terminal] /\ row \subseteq Contracts
  /\ sentOrder \in [Orders -> 0 .. Terminal] /\ sentFill \in [Fills -> 0 .. 2]
  /\ changes \in Nat /\ faults \in Nat

\* What a terminal order leaves among the active ones is nothing.
Listed(v) == IF v = Terminal THEN 0 ELSE v

\* A session starts on what an earlier one has left in Redis.
Init ==
  /\ order = [o \in Orders |-> 0] /\ fill = [x \in Fills |-> 0]
  /\ held \in SUBSET Contracts /\ row \in SUBSET Contracts
  /\ phase = "down" /\ connected = FALSE /\ fault = FALSE /\ synced = FALSE
  /\ snapshot = [o \in Orders |-> 0] /\ current = {}
  /\ queue = <<>>
  /\ orderSeen = [o \in Orders |-> 0] /\ fillSeen = [x \in Fills |-> 0]
  /\ known = [c \in Contracts |-> "none"]
  /\ active = [o \in Orders |-> 0]
  /\ sentOrder = [o \in Orders |-> 0] /\ sentFill = [x \in Fills |-> 0]
  /\ changes = 0 /\ faults = 0

\* enqueue of several events without an await between: those that find the
\* queue full are logged and dropped, and the fault is set.
Fitting(s) == IF Len(s) <= MaxQueue THEN s ELSE SubSeq(s, 1, MaxQueue)
Overflows(items) == Len(queue) + Len(items) > MaxQueue

Enqueue(items) ==
  /\ queue' = Fitting(queue \o items)
  /\ fault' = (fault \/ Overflows(items))

Fault == faults < MaxFaults /\ faults' = faults + 1
GoDown == phase' = "down" /\ connected' = FALSE
-----------------------------------------------------------------------------
(* The broker, and the callbacks it makes while the session is connected.   *)

Changes == changes < MaxChanges /\ changes' = changes + 1

OrderChanges(o) ==
  /\ Changes
  /\ \E v \in order[o] + 1 .. Terminal :
       /\ order' = [order EXCEPT ![o] = v]
       /\ IF connected THEN /\ Enqueue(<<OrderEvent(o, v)>>)
                            /\ orderSeen' = [orderSeen EXCEPT ![o] = v]
                       ELSE UNCHANGED <<queue, fault, orderSeen>>
  /\ UNCHANGED <<fill, held, redis, phase, connected, synced, snapshot, current,
                 fillSeen, known, faults>>

\* The version is recorded whether or not the event found room.
FillValues(xs, version) ==
  /\ \E items \in SetToSeqs({FillEvent(x, version[x]) : x \in {y \in xs : fillSeen[y] # version[y]}}) :
       Enqueue(items)
  /\ fillSeen' = [x \in Fills |-> IF x \in xs THEN version[x] ELSE fillSeen[x]]

FillArrives(x) ==
  /\ Changes
  /\ fill[x] < 2
  /\ fill' = [fill EXCEPT ![x] = @ + 1]
  /\ IF connected THEN FillValues({x}, fill')
                  ELSE UNCHANGED <<queue, fault, fillSeen>>
  /\ UNCHANGED <<order, held, redis, phase, connected, synced, snapshot, current,
                 orderSeen, known, faults>>

PositionChanges(c) ==
  /\ Changes
  /\ held' = IF c \in held THEN held \ {c} ELSE held \cup {c}
  /\ IF connected
       THEN /\ Enqueue(<<PositionEvent(c, c \in held')>>)
            /\ known' = [known EXCEPT ![c] = IF c \in held' THEN "open" ELSE "flat"]
       ELSE UNCHANGED <<queue, fault, known>>
  /\ UNCHANGED <<order, fill, redis, phase, connected, synced, snapshot, current,
                 orderSeen, fillSeen, faults>>

\* position_pnl repeats the position with its new valuation.
PnlTick(c) ==
  /\ Changes
  /\ connected /\ known[c] # "none"
  /\ Enqueue(<<PositionEvent(c, known[c] = "open")>>)
  /\ UNCHANGED <<order, fill, held, redis, session, phase, connected, faults>>

Disconnect ==
  /\ connected /\ Fault
  /\ connected' = FALSE /\ fault' = TRUE
  /\ UNCHANGED <<broker, redis, session, phase, queue>>

\* The reconnect command; a fatal broker error.
Command ==
  /\ ~fault /\ Fault
  /\ fault' = TRUE
  /\ UNCHANGED <<broker, redis, session, phase, connected, queue>>
-----------------------------------------------------------------------------
(* live(): connect and sync().                                              *)

Connect ==
  /\ phase = "down"
  /\ phase' = "connecting" /\ fault' = FALSE /\ synced' = FALSE
  /\ orderSeen' = [o \in Orders |-> 0]
  /\ known' = [c \in Contracts |-> "none"]
  /\ UNCHANGED <<broker, redis, connected, snapshot, current, queue, fillSeen, faults>>

Connected ==
  /\ phase = "connecting"
  /\ phase' = "positions" /\ connected' = TRUE
  /\ UNCHANGED <<broker, redis, session, fault, queue, faults>>

ConnectFails ==
  /\ phase = "connecting" /\ Fault
  /\ GoDown
  /\ UNCHANGED <<broker, redis, session, fault, queue>>

\* A request pending when the connection is lost raises.
RequestFails ==
  /\ phase \in {"positions", "orders", "fills"} /\ ~connected
  /\ GoDown
  /\ UNCHANGED <<broker, redis, session, fault, queue, faults>>

SyncPositions ==
  /\ phase = "positions" /\ connected
  /\ \E items \in SetToSeqs({PositionEvent(c, TRUE) : c \in held}) : Enqueue(items)
  /\ known' = [c \in Contracts |-> IF c \in held THEN "open" ELSE known[c]]
  /\ phase' = "orders"
  /\ UNCHANGED <<broker, redis, connected, synced, snapshot, current, orderSeen, fillSeen, faults>>

\* Mutant: sync() does not compare the rows with what it found.
SyncRowsNever ==
  /\ phase = "rows"
  /\ phase' = "check"
  /\ UNCHANGED <<broker, redis, session, connected, fault, queue, faults>>

\* The rows of Redis are read as they are now: the events still in the queue
\* are not in them.
SyncRows ==
  /\ phase = "rows"
  /\ \E items \in SetToSeqs({PositionEvent(c, FALSE) : c \in row \ current}) : Enqueue(items)
  /\ phase' = "check"
  /\ UNCHANGED <<broker, redis, session, connected, faults>>

\* Mutant: the fault is cleared once the snapshots are in.
FinishSyncClears ==
  /\ phase = "check"
  /\ phase' = "wait" /\ synced' = TRUE /\ fault' = FALSE
  /\ UNCHANGED <<broker, redis, connected, snapshot, current, orderSeen, fillSeen, known,
                 queue, faults>>

FinishSync ==
  /\ phase = "check"
  /\ IF fault THEN GoDown /\ UNCHANGED synced
              ELSE phase' = "wait" /\ synced' = TRUE /\ UNCHANGED connected
  /\ UNCHANGED <<broker, redis, snapshot, current, orderSeen, fillSeen, known, fault, queue, faults>>
-----------------------------------------------------------------------------
(* live(): what sync() and every heartbeat do.                              *)

\* poll_orders: the open orders whose version is new, then, behind a put that
\* waits for room, all of them.
PollOrders ==
  /\ phase = "orders" /\ connected
  /\ LET open == {o \in Orders : order[o] \in 1 .. Terminal - 1}
         fresh == {OrderEvent(o, order[o]) : o \in {p \in open : orderSeen[p] # order[p]}}
         all == [o \in Orders |-> IF o \in open THEN order[o] ELSE 0]
     IN \E items \in SetToSeqs(fresh) :
          /\ fault' = (fault \/ Overflows(items))
          /\ orderSeen' = [o \in Orders |-> IF o \in open THEN order[o] ELSE orderSeen[o]]
          /\ IF Len(queue \o items) < MaxQueue
               THEN /\ queue' = queue \o items \o <<Reconciled(all)>>
                    /\ phase' = "fills" /\ UNCHANGED snapshot
               ELSE /\ queue' = Fitting(queue \o items)
                    /\ phase' = "put" /\ snapshot' = all
  /\ UNCHANGED <<broker, redis, connected, synced, current, fillSeen, known, faults>>

PutSnapshot ==
  /\ phase = "put" /\ Len(queue) < MaxQueue
  /\ queue' = Append(queue, Reconciled(snapshot))
  /\ phase' = "fills"
  /\ UNCHANGED <<broker, redis, session, connected, fault, faults>>

\* After the fills, sync() notes which contracts are held and asks Redis for
\* the rows; the heartbeat loop waits.
PollFills ==
  /\ phase = "fills" /\ connected
  /\ FillValues({x \in Fills : fill[x] > 0}, fill)
  /\ IF synced THEN phase' = "wait" /\ UNCHANGED current
               ELSE phase' = "rows" /\ current' = held
  /\ UNCHANGED <<broker, redis, connected, synced, snapshot, orderSeen, known, faults>>

Heartbeat ==
  /\ phase = "wait"
  /\ IF fault THEN GoDown ELSE phase' = "orders" /\ UNCHANGED connected
  /\ UNCHANGED <<broker, redis, session, fault, queue, faults>>

Live == \/ Connect \/ Connected \/ RequestFails \/ SyncPositions \/ SyncRows \/ FinishSync
        \/ PollOrders \/ PutSnapshot \/ PollFills \/ Heartbeat
-----------------------------------------------------------------------------
(* process(): one event, one transaction (StateRepository.publish).         *)

\* Mutant: a reconciliation also publishes the orders it lists.
AppliedAgain(event) ==
  CASE event.kind = "order" ->
         /\ active' = [active EXCEPT ![event.key] = Listed(event.at)]
         /\ sentOrder' = [sentOrder EXCEPT ![event.key] = event.at]
         /\ UNCHANGED <<row, sentFill>>
    [] event.kind = "orders.reconciled" ->
         /\ active' = event.open
         /\ sentOrder' = [o \in Orders |-> IF event.open[o] # 0 THEN event.open[o] ELSE sentOrder[o]]
         /\ UNCHANGED <<row, sentFill>>

\* Mutant: a reconciliation adds the orders it lists and removes none.
AppliedAdding(event) ==
  CASE event.kind = "order" ->
         /\ active' = [active EXCEPT ![event.key] = Listed(event.at)]
         /\ sentOrder' = [sentOrder EXCEPT ![event.key] = event.at]
         /\ UNCHANGED <<row, sentFill>>
    [] event.kind = "orders.reconciled" ->
         /\ active' = [o \in Orders |-> IF event.open[o] # 0 THEN event.open[o] ELSE active[o]]
         /\ UNCHANGED <<row, sentOrder, sentFill>>

Applied(event) ==
  CASE event.kind = "order" ->
         /\ active' = [active EXCEPT ![event.key] = Listed(event.at)]
         /\ sentOrder' = [sentOrder EXCEPT ![event.key] = event.at]
         /\ UNCHANGED <<row, sentFill>>
    [] event.kind = "orders.reconciled" ->
         /\ active' = event.open
         /\ UNCHANGED <<row, sentOrder, sentFill>>
    [] event.kind = "execution" ->
         /\ sentFill' = [sentFill EXCEPT ![event.key] = event.at]
         /\ UNCHANGED <<row, active, sentOrder>>
    [] event.kind = "position" ->
         /\ row' = IF event.at THEN row \cup {event.key} ELSE row \ {event.key}
         /\ UNCHANGED <<active, sentOrder, sentFill>>

Process ==
  /\ queue # <<>>
  /\ Applied(Head(queue))
  /\ queue' = Tail(queue)
  /\ UNCHANGED <<broker, session, phase, connected, fault, faults>>

\* Mutant: the versions of the fills outlive the queue.
SessionEndsKeeping ==
  /\ Fault
  /\ GoDown
  /\ queue' = <<>> /\ fault' = FALSE /\ synced' = FALSE
  /\ orderSeen' = [o \in Orders |-> 0]
  /\ known' = [c \in Contracts |-> "none"]
  /\ UNCHANGED <<broker, redis, snapshot, current, fillSeen>>

\* A publication fails, the lease is lost, the worker dies: what the session
\* has in memory is gone, and the supervisor starts another.
SessionEnds ==
  /\ Fault
  /\ GoDown
  /\ queue' = <<>> /\ fault' = FALSE /\ synced' = FALSE
  /\ orderSeen' = [o \in Orders |-> 0] /\ fillSeen' = [x \in Fills |-> 0]
  /\ known' = [c \in Contracts |-> "none"]
  /\ UNCHANGED <<broker, redis, snapshot, current>>

Broker == \/ \E o \in Orders : OrderChanges(o)
          \/ \E x \in Fills : FillArrives(x)
          \/ \E c \in Contracts : PositionChanges(c) \/ PnlTick(c)

Next == Broker \/ Disconnect \/ Command \/ ConnectFails \/ SessionEnds \/ Live \/ Process

Spec == Init /\ [][Next]_vars

\* The event loop runs every coroutine whose await is done; the broker answers
\* or the request times out.
FairSpec == Spec /\ WF_vars(Live) /\ WF_vars(Process)

\* The rule, when Redis is quick: the queue drains while live() sleeps between
\* two heartbeats and before it connects again.
Drained == phase \in {"down", "wait"} /\ phase' \in {"connecting", "orders"} => queue = <<>>

PromptSpec == /\ Init /\ [][Next /\ Drained]_vars
              /\ WF_vars(Live /\ Drained) /\ WF_vars(Process)
-----------------------------------------------------------------------------
(* Properties *)

\* The versions of an order enter the stream in the broker's order, whatever is
\* dropped, polled again or lost with a session: the consumer may rely on it.
OrderStreamForward == [][\A o \in Orders : sentOrder'[o] >= sentOrder[o]]_vars

\* "queue failure is logged and forces resynchronization": a fault is never
\* forgotten, whatever live() waits for when it is set.
FaultForcesResync == fault ~> (phase = "connecting" /\ ~fault)

\* When the broker is quiet, Redis shows its open orders and no other, although
\* events were dropped and snapshots overtaken.
OpenOrdersShown == \A o \in Orders : <>[](active[o] = Listed(order[o]))

\* "queue failure is logged and forces resynchronization", for what was dropped:
\* once a synchronized session has nothing left to publish, the present version
\* of every open order has been published, whatever found the queue full,
\* changed while the session was away or was polled twice.
OpenOrdersSent == synced /\ connected /\ ~fault /\ queue = <<>> =>
  \A o \in Orders : order[o] \in 1 .. Terminal - 1 => sentOrder[o] = order[o]

\* Every execution the broker reports reaches the stream, in its last version.
FillsReachStream == \A x \in Fills : <>[](sentFill[x] = fill[x])

\* "Successful snapshots reconcile positions": once a synchronized session has
\* nothing left to publish, no position the broker has closed is still shown.
NoGhost == phase = "wait" /\ connected /\ ~fault /\ queue = <<>> => row \subseteq held
=============================================================================
