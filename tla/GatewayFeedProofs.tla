-------------------------- MODULE GatewayFeedProofs --------------------------
(***************************************************************************)
(* The feed of one session, for any number of orders, any size of the queue *)
(* and any number of faults: the versions of an order reach the stream in   *)
(* the broker's order.  What makes it so: an order event is queued with the *)
(* version the broker is at, so no version in the queue is newer than one   *)
(* behind it, and none is older than what has been published.               *)
(*                                                                          *)
(* And the rows shown are no ghosts: a position the broker no longer holds  *)
(* is shown only while a report that takes it away is queued, or while the  *)
(* session has still to look at what is open.                               *)
(*                                                                          *)
(* And no open order is forgotten: what a connected session without fault   *)
(* has recorded of an order is queued or published, and what it has not     *)
(* recorded its next poll finds.                                            *)
(***************************************************************************)
EXTENDS GatewayFeed, FiniteSetTheorems, TLAPS

IsOrder(e) == e.kind = "order"

\* Every queued version lies between the published one and the broker's.
Bounded == \A i \in 1 .. Len(queue) : IsOrder(queue[i]) =>
  sentOrder[queue[i].key] <= queue[i].at /\ queue[i].at <= order[queue[i].key]

\* The versions of one order are queued in order.
Sorted == \A i, j \in 1 .. Len(queue) :
  i < j /\ IsOrder(queue[i]) /\ IsOrder(queue[j]) /\ queue[i].key = queue[j].key =>
    queue[i].at <= queue[j].at

SentBehind == \A o \in Orders : sentOrder[o] <= order[o]

FeedInv == TypeOK /\ Bounded /\ Sorted /\ SentBehind

\* What a step may do to the queue: append events, those of orders at the
\* version the broker is at.
Extends ==
  /\ queue' \in Seq(Event) /\ Len(queue') <= MaxQueue
  /\ Len(queue) <= Len(queue')
  /\ \A i \in 1 .. Len(queue) : queue'[i] = queue[i]
  /\ \A i \in Len(queue) + 1 .. Len(queue') :
       IsOrder(queue'[i]) => queue'[i].at = order'[queue'[i].key]
-----------------------------------------------------------------------------
(* Sequences *)

\* What SetToSeqs returns: the members of the set, in some order.
LEMMA Orderings ==
  ASSUME NEW S, IsFiniteSet(S), NEW items \in SetToSeqs(S)
  PROVE  /\ items \in Seq(S)
         /\ \A e \in S : \E i \in 1 .. Len(items) : items[i] = e
<1>1. Cardinality(S) \in Nat
  BY FS_CardinalityType
<1>2. items \in Injection(1 .. Cardinality(S), S)
  BY DEF SetToSeqs, Injection, IsInjective
<1>3. items \in [1 .. Cardinality(S) -> S]
  BY DEF SetToSeqs
<1>4. items \in Surjection(1 .. Cardinality(S), S)
  <2>1. Cardinality(1 .. Cardinality(S)) = Cardinality(S)
    BY <1>1, FS_Interval
  <2>2. QED
    BY <1>2, <2>1, FS_Injection
<1>5. \A e \in S : \E i \in 1 .. Cardinality(S) : items[i] = e
  BY <1>4 DEF Surjection
<1>6. items \in Seq(S) /\ Len(items) = Cardinality(S)
  BY <1>1, <1>3
<1>7. QED
  BY <1>5, <1>6

\* Enqueue keeps what is queued and drops only what does not fit.
LEMMA EnqueueExtends ==
  ASSUME TypeOK, NEW items \in Seq(Event), queue' = Fitting(queue \o items),
         \A i \in 1 .. Len(items) : IsOrder(items[i]) => items[i].at = order'[items[i].key]
  PROVE  Extends
<1> DEFINE all == queue \o items
<1>1. /\ all \in Seq(Event)
      /\ Len(all) = Len(queue) + Len(items)
      /\ \A i \in 1 .. Len(all) :
           all[i] = IF i <= Len(queue) THEN queue[i] ELSE items[i - Len(queue)]
  BY DEF TypeOK
<1>2. MaxQueue \in Nat /\ Len(queue) \in Nat /\ Len(items) \in Nat /\ Len(queue) <= MaxQueue
  BY FeedAssumption DEF FeedAssumption, TypeOK
<1> HIDE DEF all
<1>3. /\ queue' \in Seq(Event)
      /\ Len(queue') = IF Len(all) <= MaxQueue THEN Len(all) ELSE MaxQueue
      /\ \A i \in 1 .. Len(queue') : queue'[i] = all[i]
  <2>1. CASE Len(all) <= MaxQueue
    BY <1>1, <2>1 DEF Fitting, all
  <2>2. CASE ~(Len(all) <= MaxQueue)
    <3>1. queue' = SubSeq(all, 1, MaxQueue)
      BY <2>2 DEF Fitting, all
    <3>2. MaxQueue < Len(all)
      BY <1>1, <1>2, <2>2
    <3>3. queue' \in Seq(Event) /\ Len(queue') = MaxQueue
      BY <1>1, <1>2, <3>1, <3>2
    <3>4. \A i \in 1 .. MaxQueue : queue'[i] = all[i]
      BY <1>1, <1>2, <3>1, <3>2
    <3>5. QED
      BY <2>2, <3>3, <3>4
  <2>3. QED
    BY <2>1, <2>2
<1>4. Len(queue) <= Len(queue') /\ Len(queue') <= MaxQueue /\ Len(queue') <= Len(all)
  BY <1>1, <1>2, <1>3
<1>5. \A i \in 1 .. Len(queue) : queue'[i] = queue[i]
  BY <1>1, <1>2, <1>3, <1>4
<1>6. ASSUME NEW i \in Len(queue) + 1 .. Len(queue'), IsOrder(queue'[i])
      PROVE  queue'[i].at = order'[queue'[i].key]
  <2>1. queue'[i] = items[i - Len(queue)] /\ i - Len(queue) \in 1 .. Len(items)
    BY <1>1, <1>2, <1>3, <1>4
  <2>2. QED
    BY <1>6, <2>1
<1>7. QED
  BY <1>3, <1>4, <1>5, <1>6 DEF Extends

\* The invariant needs no more of a step that publishes nothing.
LEMMA ExtendsKeeps ==
  ASSUME FeedInv, Extends, sentOrder' = sentOrder,
         order' \in [Orders -> 0 .. Terminal],
         \A o \in Orders : order[o] <= order'[o]
  PROVE  Bounded' /\ Sorted' /\ SentBehind'
<1>1. \A i \in 1 .. Len(queue') : IsOrder(queue'[i]) =>
        queue'[i].key \in Orders /\ queue'[i].at \in Nat
  BY DEF Extends, Event, IsOrder
<1>2. \A o \in Orders : order[o] \in Nat /\ order'[o] \in Nat /\ sentOrder[o] \in Nat
  BY DEF FeedInv, TypeOK
<1>3. Len(queue) \in Nat /\ Len(queue') \in Nat
  BY DEF FeedInv, TypeOK, Extends
<1>4. \A i \in 1 .. Len(queue') : IsOrder(queue'[i]) =>
        \/ i \in 1 .. Len(queue) /\ queue'[i] = queue[i]
        \/ i > Len(queue) /\ queue'[i].at = order'[queue'[i].key]
  BY <1>3 DEF Extends
<1>5. SentBehind'
  BY <1>2 DEF FeedInv, SentBehind
<1>6. Bounded'
  BY <1>1, <1>2, <1>3, <1>4 DEF FeedInv, Bounded, SentBehind
<1>7. Sorted'
  <2> SUFFICES ASSUME NEW i \in 1 .. Len(queue'), NEW j \in 1 .. Len(queue'), i < j,
                      IsOrder(queue'[i]), IsOrder(queue'[j]), queue'[i].key = queue'[j].key
               PROVE  queue'[i].at <= queue'[j].at
    BY DEF Sorted
  <2>1. CASE j <= Len(queue)
    BY <2>1, <1>3, <1>4 DEF FeedInv, Sorted
  <2>2. CASE j > Len(queue)
    <3>1. queue'[j].at = order'[queue'[j].key]
      BY <2>2, <1>3, <1>4
    <3>2. queue'[i].at <= order'[queue'[i].key]
      BY <1>6 DEF Bounded
    <3>3. QED
      BY <3>1, <3>2
  <2>3. QED
    BY <2>1, <2>2, <1>3
<1>8. QED
  BY <1>5, <1>6, <1>7
-----------------------------------------------------------------------------
(* The sets of events a step queues are finite sets of events.              *)

LEMMA ImageFinite ==
  ASSUME NEW D, IsFiniteSet(D), NEW f, f \in [D -> {f[d] : d \in D}]
  PROVE  IsFiniteSet({f[d] : d \in D})
<1>1. f \in Surjection(D, {f[d] : d \in D})
  BY DEF Surjection
<1>2. QED
  BY <1>1, FS_Surjection

\* Position events of a finite set of contracts, all open or all closed.
LEMMA PositionEvents ==
  ASSUME NEW C \in SUBSET Contracts, NEW isHeld \in BOOLEAN,
         NEW items \in SetToSeqs({PositionEvent(c, isHeld) : c \in C})
  PROVE  /\ items \in Seq(Event)
         /\ \A i \in 1 .. Len(items) : ~IsOrder(items[i])
         /\ \A i \in 1 .. Len(items) : items[i].at = isHeld /\ items[i].key \in C
         /\ \A c \in C : \E i \in 1 .. Len(items) : items[i].kind = "position" /\ items[i].key = c
<1> DEFINE f == [c \in C |-> PositionEvent(c, isHeld)]
           S == {PositionEvent(c, isHeld) : c \in C}
<1>1. IsFiniteSet(C)
  BY FS_Subset, FeedAssumption DEF FeedAssumption
<1>2. S = {f[c] : c \in C} /\ f \in [C -> {f[c] : c \in C}]
  OBVIOUS
<1>3. IsFiniteSet(S)
  <2> HIDE DEF f, S
  <2>1. QED
    BY <1>1, <1>2, ImageFinite
<1>4. items \in Seq(S) /\ \A e \in S : \E i \in 1 .. Len(items) : items[i] = e
  <2> HIDE DEF f
  <2>1. QED
    BY <1>3, Orderings
<1>5. S \subseteq Event /\ \A e \in S : ~IsOrder(e) /\ e.at = isHeld /\ e.key \in C
  BY DEF Event, PositionEvent, IsOrder
<1>6. ASSUME NEW c \in C
      PROVE  \E e \in S : e.kind = "position" /\ e.key = c
  <2>1. PositionEvent(c, isHeld) \in S
    OBVIOUS
  <2>2. PositionEvent(c, isHeld).kind = "position" /\ PositionEvent(c, isHeld).key = c
    BY DEF PositionEvent
  <2>3. QED
    BY <2>1, <2>2
<1> HIDE DEF S
<1>7. QED
  BY <1>4, <1>5, <1>6

\* Order events at the version each order is at.
LEMMA OrderEvents ==
  ASSUME TypeOK, NEW O \in SUBSET Orders, \A o \in O : order[o] \in 1 .. Terminal,
         NEW items \in SetToSeqs({OrderEvent(o, order[o]) : o \in O})
  PROVE  /\ items \in Seq(Event)
         /\ \A i \in 1 .. Len(items) : IsOrder(items[i]) => items[i].at = order[items[i].key]
         /\ \A i \in 1 .. Len(items) : items[i].kind # "position"
         /\ \A o \in O : \E i \in 1 .. Len(items) : items[i] = OrderEvent(o, order[o])
<1> DEFINE f == [o \in O |-> OrderEvent(o, order[o])]
           S == {OrderEvent(o, order[o]) : o \in O}
<1>1. IsFiniteSet(O)
  BY FS_Subset, FeedAssumption DEF FeedAssumption
<1>2. S = {f[o] : o \in O} /\ f \in [O -> {f[o] : o \in O}]
  OBVIOUS
<1>3. IsFiniteSet(S)
  <2> HIDE DEF f, S
  <2>1. QED
    BY <1>1, <1>2, ImageFinite
<1>4. items \in Seq(S) /\ \A e \in S : \E i \in 1 .. Len(items) : items[i] = e
  <2> HIDE DEF f
  <2>1. QED
    BY <1>3, Orderings
<1>5. S \subseteq Event /\ \A e \in S : e.at = order[e.key] /\ e.kind # "position"
  BY DEF Event, OrderEvent, TypeOK
<1>6. \A o \in O : OrderEvent(o, order[o]) \in S
  OBVIOUS
<1> HIDE DEF S
<1>7. QED
  BY <1>4, <1>5, <1>6

\* Fill events; the fills recorded.
LEMMA FillEvents ==
  ASSUME TypeOK, NEW xs \in SUBSET Fills, NEW version \in [Fills -> 0 .. 2],
         \A x \in xs : version[x] \in 1 .. 2,
         NEW items \in SetToSeqs({FillEvent(x, version[x]) : x \in {y \in xs : fillSeen[y] # version[y]}})
  PROVE  /\ items \in Seq(Event)
         /\ \A i \in 1 .. Len(items) : ~IsOrder(items[i]) /\ items[i].kind # "position"
<1> DEFINE X == {y \in xs : fillSeen[y] # version[y]}
           f == [x \in X |-> FillEvent(x, version[x])]
           S == {FillEvent(x, version[x]) : x \in X}
<1>1. IsFiniteSet(X)
  BY FS_Subset, FeedAssumption DEF FeedAssumption
<1>2. S = {f[x] : x \in X} /\ f \in [X -> {f[x] : x \in X}]
  OBVIOUS
<1>3. IsFiniteSet(S)
  <2> HIDE DEF f, S, X
  <2>1. QED
    BY <1>1, <1>2, ImageFinite
<1>4. items \in Seq(S)
  <2> HIDE DEF f
  <2>1. QED
    BY <1>3, Orderings
<1>5. S \subseteq Event /\ \A e \in S : ~IsOrder(e) /\ e.kind # "position"
  BY DEF Event, FillEvent, IsOrder
<1> HIDE DEF S
<1>6. QED
  BY <1>4, <1>5
-----------------------------------------------------------------------------
(* The steps.  A step of the broker or of live() extends the queue;         *)
(* Process takes from it.                                                   *)

LEMMA QueueKept ==
  ASSUME TypeOK, queue' = queue
  PROVE  Extends
  BY DEF TypeOK, Extends

\* The broker's steps.
LEMMA BrokerExtends ==
  ASSUME TypeOK, Broker
  PROVE  /\ TypeOK' /\ Extends /\ sentOrder' = sentOrder
         /\ \A o \in Orders : order[o] <= order'[o]
<1> USE FeedAssumption DEF FeedAssumption, redis, session, broker, Changes
<1>1. ASSUME NEW o \in Orders, OrderChanges(o)
      PROVE  /\ TypeOK' /\ Extends /\ sentOrder' = sentOrder
             /\ \A p \in Orders : order[p] <= order'[p]
  <2>1. PICK v \in order[o] + 1 .. Terminal :
          /\ order' = [order EXCEPT ![o] = v]
          /\ IF connected THEN /\ Enqueue(<<OrderEvent(o, v)>>)
                               /\ orderSeen' = [orderSeen EXCEPT ![o] = v]
                          ELSE UNCHANGED <<queue, fault, orderSeen>>
    BY <1>1 DEF OrderChanges
  <2>2. order[o] \in 0 .. Terminal /\ v \in 1 .. Terminal /\ order[o] <= v
    BY DEF TypeOK
  <2>3. order' \in [Orders -> 0 .. Terminal] /\ \A p \in Orders : order[p] <= order'[p]
    BY <2>1, <2>2 DEF TypeOK
  <2>4. Extends
    <3>1. CASE connected
      <4> DEFINE items == <<OrderEvent(o, v)>>
      <4>1. OrderEvent(o, v) \in Event
        BY <2>2 DEF OrderEvent, Event
      <4>2. items \in Seq(Event) /\ Len(items) = 1 /\ items[1] = OrderEvent(o, v)
        BY <4>1
      <4>3. OrderEvent(o, v).at = order'[OrderEvent(o, v).key]
        BY <2>1 DEF OrderEvent, TypeOK
      <4>4. queue' = Fitting(queue \o items)
        BY <2>1, <3>1 DEF Enqueue
      <4> HIDE DEF items
      <4>5. \A i \in 1 .. Len(items) : IsOrder(items[i]) => items[i].at = order'[items[i].key]
        BY <4>2, <4>3
      <4>6. QED
        BY <4>2, <4>4, <4>5, EnqueueExtends
    <3>2. CASE ~connected
      BY <2>1, <3>2, QueueKept
    <3>3. QED
      BY <3>1, <3>2
  <2>5. orderSeen' \in [Orders -> 0 .. Terminal] /\ fault' \in BOOLEAN
    <3>1. fault \in BOOLEAN /\ orderSeen \in [Orders -> 0 .. Terminal]
      BY DEF TypeOK
    <3>2. CASE connected
      <4>1. fault' = (fault \/ Overflows(<<OrderEvent(o, v)>>))
        BY <2>1, <3>2 DEF Enqueue
      <4>2. orderSeen' = [orderSeen EXCEPT ![o] = v]
        BY <2>1, <3>2
      <4>3. QED
        BY <2>2, <3>1, <4>1, <4>2
    <3>3. CASE ~connected
      BY <2>1, <3>1, <3>3
    <3>4. QED
      BY <3>2, <3>3
  <2>6. QED
    BY <1>1, <2>3, <2>4, <2>5 DEF OrderChanges, TypeOK, Extends
<1>2. ASSUME NEW x \in Fills, FillArrives(x)
      PROVE  TypeOK' /\ Extends /\ sentOrder' = sentOrder /\ order' = order
  <2>1. fill' \in [Fills -> 0 .. 2] /\ fill'[x] \in 1 .. 2
    <3>1. fill' = [fill EXCEPT ![x] = fill[x] + 1] /\ fill[x] < 2
      BY <1>2 DEF FillArrives
    <3>2. fill \in [Fills -> 0 .. 2]
      BY DEF TypeOK
    <3>3. QED
      BY <3>1, <3>2
  <2>2. Extends /\ fault' \in BOOLEAN /\ fillSeen' \in [Fills -> 0 .. 2]
    <3>1. CASE connected
      <4>1. FillValues({x}, fill')
        BY <1>2, <3>1 DEF FillArrives
      <4>2. PICK items \in SetToSeqs({FillEvent(y, fill'[y]) : y \in {z \in {x} : fillSeen[z] # fill'[z]}}) :
              Enqueue(items)
        BY <4>1 DEF FillValues
      <4>3. items \in Seq(Event) /\ \A i \in 1 .. Len(items) : ~IsOrder(items[i])
        BY <2>1, FillEvents
      <4>4. Extends /\ fault' \in BOOLEAN
        BY <4>2, <4>3, EnqueueExtends DEF Enqueue, TypeOK
      <4>5. fillSeen' \in [Fills -> 0 .. 2]
        BY <2>1, <4>1 DEF FillValues, TypeOK
      <4>6. QED
        BY <4>4, <4>5
    <3>2. CASE ~connected
      BY <1>2, <3>2, QueueKept DEF FillArrives, TypeOK
    <3>3. QED
      BY <3>1, <3>2
  <2>3. QED
    BY <1>2, <2>1, <2>2 DEF FillArrives, TypeOK, Extends
<1>3. ASSUME NEW c \in Contracts, PositionChanges(c) \/ PnlTick(c)
      PROVE  TypeOK' /\ Extends /\ sentOrder' = sentOrder /\ order' = order
  <2>1. Extends /\ fault' \in BOOLEAN
    <3>1. ASSUME NEW isHeld \in BOOLEAN, Enqueue(<<PositionEvent(c, isHeld)>>)
          PROVE  Extends /\ fault' \in BOOLEAN
      <4> DEFINE items == <<PositionEvent(c, isHeld)>>
      <4>1. PositionEvent(c, isHeld) \in Event /\ ~IsOrder(PositionEvent(c, isHeld))
        BY DEF PositionEvent, Event, IsOrder
      <4>2. items \in Seq(Event) /\ \A i \in 1 .. Len(items) : ~IsOrder(items[i])
        BY <4>1
      <4>3. Enqueue(items)
        BY <3>1
      <4> HIDE DEF items
      <4>4. QED
        BY <4>2, <4>3, EnqueueExtends DEF Enqueue, TypeOK
    <3>2. (queue' = queue /\ fault' = fault) \/ \E isHeld \in BOOLEAN : Enqueue(<<PositionEvent(c, isHeld)>>)
      <4>1. (c \in held') \in BOOLEAN /\ (known[c] = "open") \in BOOLEAN
        OBVIOUS
      <4>2. CASE PositionChanges(c)
        BY <4>1, <4>2 DEF PositionChanges
      <4>3. CASE PnlTick(c)
        BY <4>1, <4>3 DEF PnlTick
      <4>4. QED
        BY <1>3, <4>2, <4>3
    <3>3. QED
      BY <3>1, <3>2, QueueKept DEF TypeOK
  <2>2. CASE PositionChanges(c)
    <3>1. held' \subseteq Contracts /\ known' \in [Contracts -> {"none", "open", "flat"}]
      BY <2>2 DEF PositionChanges, TypeOK
    <3>2. QED
      BY <2>1, <2>2, <3>1 DEF PositionChanges, TypeOK, Extends
  <2>3. CASE PnlTick(c)
    BY <2>1, <2>3 DEF PnlTick, TypeOK, Extends
  <2>4. QED
    BY <1>3, <2>2, <2>3
<1>4. \A p \in Orders : order[p] <= order[p]
  BY DEF TypeOK
<1>5. QED
  BY <1>1, <1>2, <1>3, <1>4 DEF Broker

\* The steps of live(), and those that only set a fault.
LEMMA LiveExtends ==
  ASSUME TypeOK, Live \/ Disconnect \/ Command \/ ConnectFails
  PROVE  TypeOK' /\ Extends /\ sentOrder' = sentOrder /\ order' = order
<1> USE FeedAssumption DEF FeedAssumption, redis, session, broker, GoDown, Fault, Phases
<1>1. CASE Disconnect \/ Command \/ ConnectFails \/ Connect \/ Connected \/ RequestFails
           \/ FinishSync \/ Heartbeat
  <2>1. queue' = queue
    BY <1>1 DEF Disconnect, Command, ConnectFails, Connect, Connected, RequestFails,
                FinishSync, Heartbeat
  <2>2. Extends
    BY <2>1, QueueKept
  <2>11. queue' \in Seq(Event) /\ Len(queue') <= MaxQueue
    BY <2>1 DEF TypeOK
  <2>3. CASE Disconnect
    <3>1. connected' \in BOOLEAN /\ fault' \in BOOLEAN
      BY <2>3 DEF Disconnect
    <3>2. UNCHANGED <<broker, redis, session, phase>> /\ faults' = faults + 1
      BY <2>3 DEF Disconnect
    <3>3. QED
      BY <2>2, <2>11, <3>1, <3>2 DEF TypeOK
  <2>4. CASE Command
    BY <2>2, <2>4, <2>11 DEF Command, TypeOK
  <2>8. CASE ConnectFails \/ RequestFails
    <3>1. connected' \in BOOLEAN /\ phase' \in Phases
      BY <2>8 DEF ConnectFails, RequestFails
    <3>2. UNCHANGED <<broker, redis, session, fault>> /\ faults' \in Nat
      BY <2>8 DEF ConnectFails, RequestFails, TypeOK
    <3>3. QED
      BY <2>2, <2>11, <3>1, <3>2 DEF TypeOK
  <2>9. CASE Connected
    BY <2>2, <2>9, <2>11 DEF Connected, TypeOK
  <2>10. CASE Connect
    <3>1. fault' \in BOOLEAN /\ synced' \in BOOLEAN /\ phase' \in Phases
      BY <2>10 DEF Connect
    <3>2. /\ orderSeen' \in [Orders -> 0 .. Terminal]
          /\ known' \in [Contracts -> {"none", "open", "flat"}]
      BY <2>10 DEF Connect
    <3>3. UNCHANGED <<broker, redis, connected, snapshot, current, fillSeen, faults>>
      BY <2>10 DEF Connect
    <3>4. QED
      BY <2>2, <2>11, <3>1, <3>2, <3>3 DEF TypeOK
  <2>5. CASE FinishSync
    BY <2>2, <2>5, <2>11 DEF FinishSync, TypeOK
  <2>6. CASE Heartbeat
    BY <2>2, <2>6, <2>11 DEF Heartbeat, TypeOK
  <2>7. QED
    BY <1>1, <2>2, <2>3, <2>4, <2>5, <2>6, <2>8, <2>9, <2>10
<1>2. CASE SyncPositions
  <2>1. PICK items \in SetToSeqs({PositionEvent(c, TRUE) : c \in held}) : Enqueue(items)
    BY <1>2 DEF SyncPositions
  <2>2. items \in Seq(Event) /\ \A i \in 1 .. Len(items) : ~IsOrder(items[i])
    BY PositionEvents DEF TypeOK
  <2>3. Extends /\ fault' \in BOOLEAN
    BY <2>1, <2>2, EnqueueExtends DEF Enqueue, TypeOK
  <2>4. QED
    BY <1>2, <2>3 DEF SyncPositions, TypeOK, Extends
<1>3. CASE SyncRows
  <2>1. PICK items \in SetToSeqs({PositionEvent(c, FALSE) : c \in row \ current}) : Enqueue(items)
    BY <1>3 DEF SyncRows
  <2>2. row \ current \in SUBSET Contracts
    BY DEF TypeOK
  <2>3. items \in Seq(Event) /\ \A i \in 1 .. Len(items) : ~IsOrder(items[i])
    BY <2>2, PositionEvents
  <2>4. Extends /\ fault' \in BOOLEAN
    BY <2>1, <2>3, EnqueueExtends DEF Enqueue, TypeOK
  <2>5. QED
    BY <1>3, <2>4 DEF SyncRows, TypeOK, Extends
<1>4. CASE PollFills
  <2> DEFINE xs == {x \in Fills : fill[x] > 0}
  <2>1. FillValues(xs, fill)
    BY <1>4 DEF PollFills
  <2>2. PICK items \in SetToSeqs({FillEvent(y, fill[y]) : y \in {z \in xs : fillSeen[z] # fill[z]}}) :
          Enqueue(items)
    BY <2>1 DEF FillValues
  <2>3. fill \in [Fills -> 0 .. 2] /\ xs \in SUBSET Fills /\ \A x \in xs : fill[x] \in 1 .. 2
    BY DEF TypeOK
  <2>4. items \in Seq(Event) /\ \A i \in 1 .. Len(items) : ~IsOrder(items[i])
    <3> HIDE DEF xs
    <3>1. QED
      BY <2>3, FillEvents
  <2>5. Extends /\ fault' \in BOOLEAN
    BY <2>2, <2>4, EnqueueExtends DEF Enqueue, TypeOK
  <2>6. fillSeen' \in [Fills -> 0 .. 2]
    BY <2>1 DEF FillValues, TypeOK
  <2>7. QED
    BY <1>4, <2>5, <2>6 DEF PollFills, TypeOK, Extends
<1>5. CASE PollOrders \/ PutSnapshot
  <2>1. ASSUME NEW all \in [Orders -> 0 .. Terminal]
        PROVE  Reconciled(all) \in Event /\ ~IsOrder(Reconciled(all))
    BY DEF Reconciled, Event, IsOrder
  <2>2. CASE PutSnapshot
    <3> DEFINE e == Reconciled(snapshot)
    <3>1. e \in Event /\ ~IsOrder(e)
      BY <2>1 DEF TypeOK
    <3>2. queue' = Append(queue, e) /\ Len(queue) < MaxQueue
      BY <2>2 DEF PutSnapshot
    <3> HIDE DEF e
    <3>3. Extends
      BY <3>1, <3>2 DEF Extends, TypeOK
    <3>4. QED
      BY <2>2, <3>3 DEF PutSnapshot, TypeOK, Extends
  <2>3. CASE PollOrders
    <3> DEFINE open == {o \in Orders : order[o] \in 1 .. Terminal - 1}
               O == {p \in open : orderSeen[p] # order[p]}
               all == [o \in Orders |-> IF o \in open THEN order[o] ELSE 0]
               e == Reconciled(all)
    <3>1. PICK items \in SetToSeqs({OrderEvent(o, order[o]) : o \in O}) :
            /\ fault' = (fault \/ Overflows(items))
            /\ orderSeen' = [o \in Orders |-> IF o \in open THEN order[o] ELSE orderSeen[o]]
            /\ IF Len(queue \o items) < MaxQueue
                 THEN /\ queue' = queue \o items \o <<e>>
                      /\ phase' = "fills" /\ UNCHANGED snapshot
                 ELSE /\ queue' = Fitting(queue \o items)
                      /\ phase' = "put" /\ snapshot' = all
      BY <2>3 DEF PollOrders
    <3>2. /\ O \in SUBSET Orders /\ \A o \in O : order[o] \in 1 .. Terminal
          /\ all \in [Orders -> 0 .. Terminal] /\ order' = order
          /\ e \in Event /\ ~IsOrder(e)
          /\ orderSeen' \in [Orders -> 0 .. Terminal]
      <4>1. all \in [Orders -> 0 .. Terminal]
        BY DEF TypeOK
      <4>2. e \in Event /\ ~IsOrder(e)
        <5> HIDE DEF all
        <5>1. QED
          BY <2>1, <4>1
      <4>3. QED
        BY <2>3, <3>1, <4>1, <4>2 DEF TypeOK, PollOrders
    <3>3. /\ items \in Seq(Event)
          /\ \A i \in 1 .. Len(items) : IsOrder(items[i]) => items[i].at = order'[items[i].key]
      <4> HIDE DEF O
      <4>1. QED
        BY <3>2, OrderEvents
    <3> HIDE DEF e, O, all
    <3>4. Extends
      <4>1. CASE Len(queue \o items) < MaxQueue
        <5> DEFINE rest == items \o <<e>>
        <5>1. /\ rest \in Seq(Event) /\ Len(rest) = Len(items) + 1
              /\ \A i \in 1 .. Len(rest) : rest[i] = IF i <= Len(items) THEN items[i] ELSE e
          BY <3>2, <3>3
        <5>2. queue \o rest \in Seq(Event) /\ Len(queue \o rest) = Len(queue) + Len(rest)
          BY <5>1 DEF TypeOK
        <5>3. queue' = queue \o rest
          <6>1. queue' = queue \o items \o <<e>>
            BY <3>1, <4>1
          <6>2. queue \in Seq(Event) /\ <<e>> \in Seq(Event)
            BY <3>2 DEF TypeOK
          <6>3. QED
            BY <3>3, <6>1, <6>2
        <5>4. Len(queue \o rest) <= MaxQueue
          BY <3>3, <4>1, <5>1, <5>2 DEF TypeOK
        <5>5. queue' = Fitting(queue \o rest)
          BY <5>3, <5>4 DEF Fitting
        <5>6. \A i \in 1 .. Len(rest) : IsOrder(rest[i]) => rest[i].at = order'[rest[i].key]
          BY <3>2, <3>3, <5>1
        <5> HIDE DEF rest
        <5>7. QED
          BY <5>1, <5>5, <5>6, EnqueueExtends
      <4>2. CASE ~(Len(queue \o items) < MaxQueue)
        <5>1. queue' = Fitting(queue \o items)
          BY <3>1, <4>2
        <5>2. QED
          BY <3>3, <5>1, EnqueueExtends
      <4>3. QED
        BY <4>1, <4>2
    <3>5. /\ snapshot' \in [Orders -> 0 .. Terminal] /\ phase' \in Phases /\ fault' \in BOOLEAN
      BY <3>1, <3>2 DEF TypeOK
    <3>6. QED
      BY <2>3, <3>2, <3>4, <3>5 DEF PollOrders, TypeOK, Extends
  <2>4. QED
    BY <1>5, <2>2, <2>3
<1>6. QED
  BY <1>1, <1>2, <1>3, <1>4, <1>5 DEF Live

\* process(): the head of the queue is published, what is behind it is not
\* older.
LEMMA ProcessKeeps ==
  ASSUME FeedInv, Process
  PROVE  FeedInv' /\ \A o \in Orders : sentOrder[o] <= sentOrder'[o]
<1> USE FeedAssumption DEF FeedAssumption, session, broker
<1> DEFINE e == Head(queue)
<1>1. /\ queue \in Seq(Event) /\ queue # <<>> /\ Len(queue) <= MaxQueue
      /\ queue' = Tail(queue) /\ order' = order
  BY DEF Process, FeedInv, TypeOK
<1>2. /\ Len(queue) \in Nat \ {0} /\ e = queue[1] /\ e \in Event
      /\ queue' \in Seq(Event) /\ Len(queue') = Len(queue) - 1
      /\ \A i \in 1 .. Len(queue') : i + 1 \in 1 .. Len(queue) /\ queue'[i] = queue[i + 1]
  BY <1>1
<1>3. Applied(e)
  BY DEF Process
<1> HIDE DEF e
<1>4. CASE IsOrder(e)
  <2>1. /\ e.key \in Orders /\ e.at \in 1 .. Terminal
        /\ sentOrder[e.key] <= e.at /\ e.at <= order[e.key]
    BY <1>2, <1>4 DEF FeedInv, Bounded, IsOrder, Event
  <2>2. /\ active' = [active EXCEPT ![e.key] = Listed(e.at)]
        /\ sentOrder' = [sentOrder EXCEPT ![e.key] = e.at]
        /\ UNCHANGED <<row, sentFill>>
    BY <1>3, <1>4 DEF Applied, IsOrder
  <2>3. TypeOK'
    BY <1>1, <1>2, <2>1, <2>2 DEF Process, FeedInv, TypeOK, Listed
  <2>4. \A o \in Orders : sentOrder[o] <= sentOrder'[o]
    BY <2>1, <2>2 DEF FeedInv, TypeOK
  <2>5. SentBehind'
    BY <1>1, <2>1, <2>2 DEF FeedInv, TypeOK, SentBehind
  <2>6. Bounded'
    <3> SUFFICES ASSUME NEW i \in 1 .. Len(queue'), IsOrder(queue'[i])
                 PROVE  /\ sentOrder'[queue'[i].key] <= queue'[i].at
                        /\ queue'[i].at <= order'[queue'[i].key]
      BY DEF Bounded
    <3>1. i + 1 \in 1 .. Len(queue) /\ queue'[i] = queue[i + 1] /\ 1 \in 1 .. Len(queue) /\ 1 < i + 1
      BY <1>2
    <3>2. /\ sentOrder[queue'[i].key] <= queue'[i].at
          /\ queue'[i].at <= order[queue'[i].key]
      BY <3>1 DEF FeedInv, Bounded
    <3>3. queue'[i].key = e.key => e.at <= queue'[i].at
      BY <1>2, <1>4, <3>1 DEF FeedInv, Sorted
    <3>4. queue'[i].key \in Orders
      BY <1>2 DEF Event, IsOrder
    <3>5. QED
      BY <1>1, <2>2, <3>2, <3>3, <3>4 DEF FeedInv, TypeOK
  <2>7. Sorted'
    BY <1>2 DEF FeedInv, Sorted
  <2>8. QED
    BY <2>3, <2>4, <2>5, <2>6, <2>7 DEF FeedInv
<1>5. CASE ~IsOrder(e)
  <2>1. /\ sentOrder' = sentOrder
        /\ active' \in [Orders -> 0 .. Terminal] /\ row' \subseteq Contracts
        /\ sentFill' \in [Fills -> 0 .. 2]
    <3>1. e.kind \in {"execution", "position", "orders.reconciled"}
      BY <1>2, <1>5 DEF Event, IsOrder
    <3>2. CASE e.kind = "execution"
      <4>1. e.key \in Fills /\ e.at \in 0 .. 2
        BY <1>2, <3>2 DEF Event
      <4>2. /\ sentFill' = [sentFill EXCEPT ![e.key] = e.at]
            /\ UNCHANGED <<row, active, sentOrder>>
        BY <1>3, <3>2 DEF Applied
      <4>3. QED
        BY <4>1, <4>2 DEF FeedInv, TypeOK
    <3>3. CASE e.kind = "position"
      BY <1>2, <1>3, <3>3 DEF Applied, FeedInv, TypeOK, Event
    <3>4. CASE e.kind = "orders.reconciled"
      BY <1>2, <1>3, <3>4 DEF Applied, FeedInv, TypeOK, Event
    <3>5. QED
      BY <3>1, <3>2, <3>3, <3>4
  <2>2. TypeOK'
    BY <1>1, <1>2, <2>1 DEF Process, FeedInv, TypeOK
  <2>3. Bounded' /\ Sorted' /\ SentBehind'
    BY <1>1, <1>2, <2>1 DEF FeedInv, Bounded, Sorted, SentBehind
  <2>4. \A o \in Orders : sentOrder[o] <= sentOrder'[o]
    BY <2>1 DEF FeedInv, TypeOK
  <2>5. QED
    BY <2>2, <2>3, <2>4 DEF FeedInv
<1>6. QED
  BY <1>4, <1>5

LEMMA FeedInit == Init => FeedInv
<1> SUFFICES ASSUME Init PROVE FeedInv
  OBVIOUS
<1> USE FeedAssumption DEF FeedAssumption, Init
<1>1. TypeOK
  <2>1. queue \in Seq(Event) /\ Len(queue) <= MaxQueue
    OBVIOUS
  <2>2. /\ connected \in BOOLEAN /\ fault \in BOOLEAN /\ synced \in BOOLEAN
        /\ phase \in Phases /\ changes \in Nat /\ faults \in Nat
    BY DEF Phases
  <2>3. /\ order \in [Orders -> 0 .. Terminal] /\ snapshot \in [Orders -> 0 .. Terminal]
        /\ orderSeen \in [Orders -> 0 .. Terminal] /\ active \in [Orders -> 0 .. Terminal]
        /\ sentOrder \in [Orders -> 0 .. Terminal]
    OBVIOUS
  <2>4. /\ fill \in [Fills -> 0 .. 2] /\ fillSeen \in [Fills -> 0 .. 2]
        /\ sentFill \in [Fills -> 0 .. 2]
        /\ known \in [Contracts -> {"none", "open", "flat"}]
    OBVIOUS
  <2>5. held \subseteq Contracts /\ current \subseteq Contracts /\ row \subseteq Contracts
    OBVIOUS
  <2>6. QED
    BY <2>1, <2>2, <2>3, <2>4, <2>5 DEF TypeOK
<1>2. Bounded /\ Sorted /\ SentBehind
  BY DEF Bounded, Sorted, SentBehind
<1>3. QED
  BY <1>1, <1>2 DEF FeedInv

LEMMA FeedStep ==
  FeedInv /\ [Next]_vars =>
    FeedInv' /\ [\A o \in Orders : sentOrder'[o] >= sentOrder[o]]_vars
<1> SUFFICES ASSUME FeedInv, [Next]_vars
             PROVE  FeedInv' /\ \A o \in Orders : sentOrder'[o] >= sentOrder[o]
  OBVIOUS
<1> USE DEF FeedInv
<1>0. \A o \in Orders : order[o] <= order[o] /\ sentOrder[o] >= sentOrder[o]
  BY DEF TypeOK
<1>1. CASE UNCHANGED vars
  BY <1>0, <1>1 DEF vars, broker, redis, session, TypeOK, Bounded, Sorted, SentBehind
<1>2. CASE Broker \/ Live \/ Disconnect \/ Command \/ ConnectFails
  <2>1. /\ TypeOK' /\ Extends /\ sentOrder' = sentOrder
        /\ \A o \in Orders : order[o] <= order'[o]
    BY <1>0, <1>2, BrokerExtends, LiveExtends
  <2>2. order' \in [Orders -> 0 .. Terminal]
    BY <2>1 DEF TypeOK
  <2>3. Bounded' /\ Sorted' /\ SentBehind'
    BY <2>1, <2>2, ExtendsKeeps
  <2>4. QED
    BY <1>0, <2>1, <2>3
<1>3. CASE Process
  BY <1>0, <1>3, ProcessKeeps DEF TypeOK
<1>4. CASE SessionEnds
  <2>1. queue' = <<>> /\ order' = order /\ sentOrder' = sentOrder
    BY <1>4 DEF SessionEnds, broker, redis
  <2>5. queue' \in Seq(Event) /\ Len(queue') <= MaxQueue
    BY <2>1, FeedAssumption DEF FeedAssumption
  <2>6. /\ connected' \in BOOLEAN /\ fault' \in BOOLEAN /\ synced' \in BOOLEAN
        /\ phase' \in Phases
    BY <1>4 DEF SessionEnds, GoDown, Phases
  <2>9. faults' \in Nat
    BY <1>4 DEF SessionEnds, Fault, TypeOK
  <2>7. /\ orderSeen' \in [Orders -> 0 .. Terminal] /\ fillSeen' \in [Fills -> 0 .. 2]
        /\ known' \in [Contracts -> {"none", "open", "flat"}]
    BY <1>4, FeedAssumption DEF SessionEnds, FeedAssumption
  <2>8. UNCHANGED <<broker, redis, snapshot, current>>
    BY <1>4 DEF SessionEnds
  <2>2. TypeOK'
    BY <2>5, <2>6, <2>7, <2>8, <2>9 DEF broker, redis, TypeOK
  <2>3. Bounded' /\ Sorted' /\ SentBehind'
    BY <2>1 DEF Bounded, Sorted, SentBehind
  <2>4. QED
    BY <1>0, <2>1, <2>2, <2>3
<1>5. QED
  BY <1>1, <1>2, <1>3, <1>4 DEF Next
-----------------------------------------------------------------------------
(* No ghosts.  What will be shown of a contract once the queue is published *)
(* is what its last event says, or what Redis shows if it has none.  While  *)
(* the session is connected and without fault, nothing was dropped, and the *)
(* last event of a contract opens it only if the broker holds it; the rows  *)
(* without an event are compared with the broker once, by sync().           *)

About(c, i) == queue[i].kind = "position" /\ queue[i].key = c

Silent(c) == \A i \in 1 .. Len(queue) : ~About(c, i)

Opened(c) == \E i \in 1 .. Len(queue) :
  About(c, i) /\ queue[i].at = TRUE /\ \A j \in i + 1 .. Len(queue) : ~About(c, j)

WillShow(c) == Opened(c) \/ (c \in row /\ Silent(c))

Phased ==
  /\ phase \in {"down", "connecting"} => ~connected
  /\ phase \in {"connecting", "positions"} => ~synced
  /\ phase = "wait" => synced
  /\ phase = "connecting" => queue = <<>> /\ known = [c \in Contracts |-> "none"]

KnownIsHeld == \A c \in Contracts : known[c] = "open" => c \in held
OpenedIsHeld == \A c \in Contracts : Opened(c) => c \in held
ClosedIsGone == phase = "rows" => \A c \in current \ held : ~WillShow(c)
ShownIsHeld == phase = "check" \/ synced => \A c \in Contracts : WillShow(c) => c \in held

RowsInv == Phased /\ (connected /\ ~fault =>
                       KnownIsHeld /\ OpenedIsHeld /\ ClosedIsGone /\ ShownIsHeld)

\* What a step queues about positions: it opens no contract but those of opens,
\* and has an event for each of said.
Says(opens, said) ==
  /\ \A i \in Len(queue) + 1 .. Len(queue') :
       queue'[i].kind = "position" /\ queue'[i].at = TRUE => queue'[i].key \in opens
  /\ \A c \in said : \E i \in Len(queue) + 1 .. Len(queue') : About(c, i)'

\* Only what a step opens, and what it says nothing of, is shown after it.
LEMMA Saying ==
  ASSUME TypeOK, Extends, row' = row, NEW opens, NEW said, Says(opens, said), NEW c
  PROVE  /\ Opened(c)' => c \in opens \/ (Opened(c) /\ c \notin said)
         /\ WillShow(c)' => c \in opens \/ (WillShow(c) /\ c \notin said)
<1>1. Len(queue) \in Nat /\ Len(queue') \in Nat /\ Len(queue) <= Len(queue')
  BY DEF TypeOK, Extends
<1>2. \A i \in 1 .. Len(queue) : i \in 1 .. Len(queue') /\ (About(c, i)' <=> About(c, i))
  BY <1>1 DEF Extends, About
<1>3. ASSUME Silent(c)' PROVE Silent(c) /\ c \notin said
  <2>1. \A i \in 1 .. Len(queue') : ~About(c, i)'
    BY <1>3 DEF Silent
  <2>2. \A i \in Len(queue) + 1 .. Len(queue') : i \in 1 .. Len(queue')
    BY <1>1
  <2>3. QED
    BY <1>2, <2>1, <2>2 DEF Silent, Says
<1>4. ASSUME Opened(c)' PROVE c \in opens \/ (Opened(c) /\ c \notin said)
  <2>1. PICK i \in 1 .. Len(queue') :
          About(c, i)' /\ queue'[i].at = TRUE /\ \A j \in i + 1 .. Len(queue') : ~About(c, j)'
    BY <1>4 DEF Opened
  <2>2. CASE i > Len(queue)
    <3>1. i \in Len(queue) + 1 .. Len(queue')
      BY <1>1, <2>2
    <3>2. QED
      BY <2>1, <3>1 DEF Says, About
  <2>3. CASE ~(i > Len(queue))
    <3>1. i \in 1 .. Len(queue)
      BY <1>1, <2>3
    <3>2. \A j \in Len(queue) + 1 .. Len(queue') : j \in i + 1 .. Len(queue')
      BY <1>1, <3>1
    <3>3. c \notin said
      BY <2>1, <3>2 DEF Says
    <3>4. \A j \in i + 1 .. Len(queue) : j \in i + 1 .. Len(queue') /\ j \in 1 .. Len(queue)
      BY <1>1, <3>1
    <3>5. queue[i] = queue'[i]
      BY <3>1 DEF Extends
    <3>6. Opened(c)
      BY <1>2, <2>1, <3>1, <3>4, <3>5 DEF Opened
    <3>7. QED
      BY <3>3, <3>6
  <2>4. QED
    BY <2>2, <2>3
<1>5. QED
  BY <1>3, <1>4 DEF WillShow

\* A step after which there is no fault has dropped nothing.
LEMMA Whole ==
  ASSUME TypeOK, NEW items \in Seq(Event), Enqueue(items), ~fault'
  PROVE  ~fault /\ queue' = queue \o items
<1>1. ~fault /\ ~Overflows(items)
  BY DEF Enqueue
<1>2. Len(queue \o items) = Len(queue) + Len(items) /\ Len(queue) \in Nat /\ Len(items) \in Nat
  BY DEF TypeOK
<1>3. Len(queue \o items) <= MaxQueue
  BY <1>1, <1>2, FeedAssumption DEF FeedAssumption, Overflows
<1>4. QED
  BY <1>1, <1>3 DEF Enqueue, Fitting

\* What the appended events say.
LEMMA WholeSays ==
  ASSUME TypeOK, NEW items \in Seq(Event), queue' = queue \o items, NEW opens, NEW said,
         \A i \in 1 .. Len(items) :
           items[i].kind = "position" /\ items[i].at = TRUE => items[i].key \in opens,
         \A c \in said : \E i \in 1 .. Len(items) : items[i].kind = "position" /\ items[i].key = c
  PROVE  Says(opens, said)
<1>1. /\ Len(queue') = Len(queue) + Len(items) /\ Len(queue) \in Nat /\ Len(items) \in Nat
      /\ \A i \in 1 .. Len(queue') :
           queue'[i] = IF i <= Len(queue) THEN queue[i] ELSE items[i - Len(queue)]
  BY DEF TypeOK
<1>2. \A i \in Len(queue) + 1 .. Len(queue') :
        i - Len(queue) \in 1 .. Len(items) /\ queue'[i] = items[i - Len(queue)]
  BY <1>1
<1>3. \A k \in 1 .. Len(items) :
        /\ k + Len(queue) \in Len(queue) + 1 .. Len(queue')
        /\ queue'[k + Len(queue)] = items[k]
  BY <1>1
<1>4. ASSUME NEW c \in said
      PROVE  \E i \in Len(queue) + 1 .. Len(queue') : About(c, i)'
  <2>1. PICK k \in 1 .. Len(items) : items[k].kind = "position" /\ items[k].key = c
    OBVIOUS
  <2>2. PICK i \in Len(queue) + 1 .. Len(queue') : queue'[i] = items[k]
    BY <1>3
  <2>3. About(c, i)'
    BY <2>1, <2>2 DEF About
  <2>4. QED
    BY <2>2, <2>3
<1>5. QED
  BY <1>2, <1>4 DEF Says

LEMMA WholeSilent ==
  ASSUME TypeOK, NEW items \in Seq(Event), queue' = queue \o items,
         \A i \in 1 .. Len(items) : items[i].kind # "position"
  PROVE  Says({}, {})
<1> DEFINE none == {}
<1>1. \A c \in none : \E i \in 1 .. Len(items) : items[i].kind = "position" /\ items[i].key = c
  OBVIOUS
<1>2. Says(none, none)
  <2> HIDE DEF none
  <2>1. QED
    BY <1>1, WholeSays
<1>3. QED
  BY <1>2

\* What keeps the rows right: a step opens only what is held after it, and has
\* an event for what it finds closed.
LEMMA RowsKept ==
  ASSUME TypeOK, Extends, row' = row, NEW opens, NEW said, Says(opens, said),
         KnownIsHeld, OpenedIsHeld, ClosedIsGone, ShownIsHeld,
         opens \subseteq held', held \ held' \subseteq said,
         \A c \in Contracts : known'[c] = "open" => known[c] = "open" \/ c \in held',
         \A c \in held \ held' : known'[c] # "open",
         phase' = "rows" => current' \subseteq held' \/ (phase = "rows" /\ current' = current),
         phase' = "check" => phase = "check",
         synced' => synced \/ phase = "check"
  PROVE  KnownIsHeld' /\ OpenedIsHeld' /\ ClosedIsGone' /\ ShownIsHeld'
<1>1. \A c \in Contracts :
        /\ Opened(c)' => c \in held' \/ (Opened(c) /\ c \notin held \ held')
        /\ WillShow(c)' => c \in held' \/ (WillShow(c) /\ c \notin held \ held')
  BY Saying
<1>2. KnownIsHeld'
  BY DEF KnownIsHeld
<1>3. OpenedIsHeld'
  BY <1>1 DEF OpenedIsHeld
<1>4. ClosedIsGone'
  BY <1>1 DEF ClosedIsGone, TypeOK
<1>5. ShownIsHeld'
  BY <1>1 DEF ShownIsHeld
<1>6. QED
  BY <1>2, <1>3, <1>4, <1>5

\* The rows of a session that is down, or that has a fault, need nothing.
LEMMA PhasedKept ==
  ASSUME Phased, phase' = phase, connected' = connected, synced' = synced,
         ~connected => queue' = queue /\ known' = known
  PROVE  Phased'
  BY DEF Phased

LEMMA BrokerRows ==
  ASSUME FeedInv, RowsInv, Broker
  PROVE  RowsInv'
<1> USE DEF FeedInv, redis, session, broker, Changes
<1>1. TypeOK' /\ Extends
  BY BrokerExtends
<1>2. ASSUME NEW o \in Orders, OrderChanges(o)
      PROVE  RowsInv'
  <2>1. Phased'
    BY <1>2, PhasedKept DEF OrderChanges, RowsInv
  <2>2. ASSUME connected', ~fault'
        PROVE  KnownIsHeld' /\ OpenedIsHeld' /\ ClosedIsGone' /\ ShownIsHeld'
    <3>1. /\ connected /\ UNCHANGED <<held, row, phase, synced, current, known>>
          /\ \E v \in 1 .. Terminal : Enqueue(<<OrderEvent(o, v)>>)
      <4>1. PICK v \in order[o] + 1 .. Terminal :
              IF connected THEN Enqueue(<<OrderEvent(o, v)>>) ELSE TRUE
        BY <1>2 DEF OrderChanges
      <4>2. v \in 1 .. Terminal
        BY DEF TypeOK
      <4>3. QED
        BY <1>2, <2>2, <4>1, <4>2 DEF OrderChanges
    <3>2. PICK v \in 1 .. Terminal : Enqueue(<<OrderEvent(o, v)>>)
      BY <3>1
    <3> DEFINE items == <<OrderEvent(o, v)>>
    <3>3. items \in Seq(Event) /\ \A i \in 1 .. Len(items) : items[i].kind # "position"
      BY DEF OrderEvent, Event
    <3>4. Enqueue(items)
      BY <3>2
    <3> HIDE DEF items
    <3>5. ~fault /\ queue' = queue \o items
      BY <2>2, <3>3, <3>4, Whole
    <3>6. Says({}, {})
      BY <3>3, <3>5, WholeSilent
    <3>7. QED
      BY <1>1, <3>1, <3>5, <3>6, RowsKept DEF RowsInv
  <2>3. QED
    BY <2>1, <2>2 DEF RowsInv
<1>3. ASSUME NEW x \in Fills, FillArrives(x)
      PROVE  RowsInv'
  <2>1. Phased'
    BY <1>3, PhasedKept DEF FillArrives, RowsInv
  <2>2. ASSUME connected', ~fault'
        PROVE  KnownIsHeld' /\ OpenedIsHeld' /\ ClosedIsGone' /\ ShownIsHeld'
    <3>1. connected /\ UNCHANGED <<held, row, phase, synced, current, known>>
      BY <1>3, <2>2 DEF FillArrives
    <3>2. PICK items \in SetToSeqs({FillEvent(y, fill'[y]) : y \in {z \in {x} : fillSeen[z] # fill'[z]}}) :
            Enqueue(items)
      BY <1>3, <3>1 DEF FillArrives, FillValues
    <3>3. fill' \in [Fills -> 0 .. 2] /\ fill'[x] \in 1 .. 2
      <4>1. fill' = [fill EXCEPT ![x] = fill[x] + 1] /\ fill[x] < 2 /\ fill \in [Fills -> 0 .. 2]
        BY <1>3 DEF FillArrives, TypeOK
      <4>2. QED
        BY <4>1
    <3>4. items \in Seq(Event) /\ \A i \in 1 .. Len(items) : items[i].kind # "position"
      BY <3>3, FillEvents
    <3>5. ~fault /\ queue' = queue \o items
      BY <2>2, <3>2, <3>4, Whole
    <3>6. Says({}, {})
      BY <3>4, <3>5, WholeSilent
    <3>7. QED
      BY <1>1, <3>1, <3>5, <3>6, RowsKept DEF RowsInv
  <2>3. QED
    BY <2>1, <2>2 DEF RowsInv
<1>4. ASSUME NEW c \in Contracts, NEW isHeld \in BOOLEAN,
             connected, ~fault', Enqueue(<<PositionEvent(c, isHeld)>>)
      PROVE  ~fault /\ Says(IF isHeld THEN {c} ELSE {}, {c})
  <2> DEFINE items == <<PositionEvent(c, isHeld)>>
             opens == IF isHeld THEN {c} ELSE {}
             said == {c}
  <2>1. /\ items \in Seq(Event) /\ Len(items) = 1
        /\ items[1].kind = "position" /\ items[1].key = c /\ items[1].at = isHeld
    BY DEF PositionEvent, Event
  <2>2. Enqueue(items)
    BY <1>4
  <2> HIDE DEF items
  <2>3. ~fault /\ queue' = queue \o items
    BY <1>4, <2>1, <2>2, Whole
  <2>4. /\ \A i \in 1 .. Len(items) : i = 1
        /\ 1 \in 1 .. Len(items)
    BY <2>1
  <2>5. /\ \A i \in 1 .. Len(items) : items[i].kind = "position" /\ items[i].at = TRUE =>
                                       items[i].key \in opens
        /\ \A d \in said : \E i \in 1 .. Len(items) : items[i].kind = "position" /\ items[i].key = d
    BY <2>1, <2>4
  <2>6. Says(opens, said)
    <3> HIDE DEF opens, said
    <3>1. QED
      BY <2>1, <2>3, <2>5, WholeSays
  <2>7. QED
    BY <2>3, <2>6
<1>5. ASSUME NEW c \in Contracts, PositionChanges(c)
      PROVE  RowsInv'
  <2>1. Phased'
    BY <1>5, PhasedKept DEF PositionChanges, RowsInv
  <2>2. ASSUME connected', ~fault'
        PROVE  KnownIsHeld' /\ OpenedIsHeld' /\ ClosedIsGone' /\ ShownIsHeld'
    <3>1. /\ connected /\ UNCHANGED <<row, phase, synced, current>>
          /\ held' = IF c \in held THEN held \ {c} ELSE held \cup {c}
          /\ Enqueue(<<PositionEvent(c, c \in held')>>)
          /\ known' = [known EXCEPT ![c] = IF c \in held' THEN "open" ELSE "flat"]
      BY <1>5, <2>2 DEF PositionChanges
    <3>2. ~fault /\ Says(IF c \in held' THEN {c} ELSE {}, {c})
      <4> DEFINE isHeld == c \in held'
      <4>1. isHeld \in BOOLEAN
        OBVIOUS
      <4>2. Enqueue(<<PositionEvent(c, isHeld)>>)
        BY <3>1
      <4>3. ~fault /\ Says(IF isHeld THEN {c} ELSE {}, {c})
        <5> HIDE DEF isHeld
        <5>1. QED
          BY <1>4, <2>2, <3>1, <4>1, <4>2
      <4>4. QED
        BY <4>3
    <3>3. /\ (IF c \in held' THEN {c} ELSE {}) \subseteq held'
          /\ held \ held' \subseteq {c}
          /\ \A d \in Contracts : known'[d] = "open" => known[d] = "open" \/ d \in held'
          /\ \A d \in held \ held' : known'[d] # "open"
      BY <3>1 DEF TypeOK
    <3>4. QED
      BY <1>1, <3>1, <3>2, <3>3, RowsKept DEF RowsInv
  <2>3. QED
    BY <2>1, <2>2 DEF RowsInv
<1>6. ASSUME NEW c \in Contracts, PnlTick(c)
      PROVE  RowsInv'
  <2>1. Phased'
    BY <1>6, PhasedKept DEF PnlTick, RowsInv
  <2>2. ASSUME connected', ~fault'
        PROVE  KnownIsHeld' /\ OpenedIsHeld' /\ ClosedIsGone' /\ ShownIsHeld'
    <3>1. /\ connected /\ UNCHANGED <<held, row, phase, synced, current, known>>
          /\ Enqueue(<<PositionEvent(c, known[c] = "open")>>)
      BY <1>6 DEF PnlTick
    <3>2. ~fault /\ Says(IF known[c] = "open" THEN {c} ELSE {}, {c})
      BY <1>4, <2>2, <3>1
    <3>3. (IF known[c] = "open" THEN {c} ELSE {}) \subseteq held'
      BY <2>2, <3>1, <3>2 DEF RowsInv, KnownIsHeld
    <3>4. QED
      BY <1>1, <3>1, <3>2, <3>3, RowsKept DEF RowsInv
  <2>3. QED
    BY <2>1, <2>2 DEF RowsInv
<1>7. QED
  BY <1>2, <1>3, <1>5, <1>6 DEF Broker

\* A step that queues nothing.
LEMMA QuietRows ==
  ASSUME TypeOK, RowsInv, queue' = queue, connected, ~fault,
         UNCHANGED <<held, row, known, current>>,
         phase' # "rows", phase' # "check", synced' => synced \/ phase = "check"
  PROVE  KnownIsHeld' /\ OpenedIsHeld' /\ ClosedIsGone' /\ ShownIsHeld'
<1>1. Extends
  BY QueueKept
<1>2. \A i \in Len(queue) + 1 .. Len(queue') : FALSE
  BY DEF TypeOK
<1>3. Says({}, {})
  BY <1>2 DEF Says
<1>4. QED
  BY <1>1, <1>3, RowsKept DEF RowsInv

LEMMA LiveRows ==
  ASSUME FeedInv, RowsInv, Live \/ Disconnect \/ Command \/ ConnectFails, Drained
  PROVE  RowsInv'
<1> USE DEF FeedInv, redis, session, broker, GoDown, Fault
<1>1. TypeOK' /\ Extends
  BY LiveExtends
<1>2. CASE Disconnect \/ Command
  BY <1>2 DEF Disconnect, Command, RowsInv, Phased
<1>3. CASE ConnectFails \/ RequestFails
  BY <1>3 DEF ConnectFails, RequestFails, RowsInv, Phased
<1>4. CASE Connect
  <2>1. queue' = <<>> /\ ~connected' /\ phase' = "connecting"
    BY <1>4 DEF Connect, Drained, RowsInv, Phased
  <2>2. ~synced' /\ known' = [c \in Contracts |-> "none"]
    BY <1>4 DEF Connect
  <2>3. QED
    BY <2>1, <2>2 DEF RowsInv, Phased
<1>5. CASE Connected
  <2>1. /\ queue' = <<>> /\ ~synced' /\ known' = [c \in Contracts |-> "none"]
        /\ phase' = "positions"
    BY <1>5 DEF Connected, RowsInv, Phased
  <2>2. KnownIsHeld'
    BY <2>1 DEF KnownIsHeld
  <2>3. OpenedIsHeld'
    BY <2>1 DEF OpenedIsHeld, Opened
  <2>4. QED
    BY <2>1, <2>2, <2>3 DEF RowsInv, Phased, ClosedIsGone, ShownIsHeld
<1>6. CASE FinishSync
  <2>1. /\ queue' = queue /\ UNCHANGED <<held, row, known, current, fault>>
        /\ phase = "check" /\ phase' \in {"down", "wait"} /\ (phase' = "down" => ~connected')
        /\ (phase' = "wait" => synced' /\ connected' = connected)
    BY <1>6 DEF FinishSync
  <2>2. QED
    BY <2>1, QuietRows DEF RowsInv, Phased
<1>7. CASE Heartbeat
  <2>1. /\ queue' = queue /\ UNCHANGED <<held, row, known, current, synced, fault>>
        /\ phase' \in {"down", "orders"} /\ (phase' = "down" => ~connected')
        /\ (phase' = "orders" => connected' = connected)
    BY <1>7 DEF Heartbeat
  <2>2. QED
    BY <2>1, QuietRows DEF RowsInv, Phased
<1>8. CASE SyncPositions
  <2>1. /\ phase' = "orders" /\ ~synced' /\ connected /\ UNCHANGED <<held, row, current>>
        /\ known' = [c \in Contracts |-> IF c \in held THEN "open" ELSE known[c]]
    BY <1>8 DEF SyncPositions, RowsInv, Phased
  <2>2. ASSUME ~fault'
        PROVE  KnownIsHeld' /\ OpenedIsHeld' /\ ClosedIsGone' /\ ShownIsHeld'
    <3>1. PICK items \in SetToSeqs({PositionEvent(c, TRUE) : c \in held}) : Enqueue(items)
      BY <1>8 DEF SyncPositions
    <3>2. /\ items \in Seq(Event)
          /\ \A i \in 1 .. Len(items) : items[i].at = TRUE /\ items[i].key \in held
      BY PositionEvents DEF TypeOK
    <3>3. ~fault /\ queue' = queue \o items
      BY <2>2, <3>1, <3>2, Whole
    <3> DEFINE said == {}
    <3>4. \A c \in said : \E i \in 1 .. Len(items) : items[i].kind = "position" /\ items[i].key = c
      OBVIOUS
    <3>5. held \ held' \subseteq said
      BY <2>1
    <3>6. /\ \A c \in Contracts : known'[c] = "open" => known[c] = "open" \/ c \in held'
          /\ \A c \in held \ held' : known'[c] # "open"
      BY <2>1
    <3> HIDE DEF said
    <3>7. Says(held, said)
      BY <3>2, <3>3, <3>4, WholeSays
    <3>8. QED
      BY <1>1, <2>1, <3>3, <3>5, <3>6, <3>7, RowsKept DEF RowsInv
  <2>3. QED
    BY <2>1, <2>2 DEF RowsInv, Phased
<1>9. CASE SyncRows
  <2>1. phase = "rows" /\ phase' = "check" /\ UNCHANGED <<held, row, current, known, connected>>
    BY <1>9 DEF SyncRows
  <2>2. ASSUME connected', ~fault'
        PROVE  KnownIsHeld' /\ OpenedIsHeld' /\ ClosedIsGone' /\ ShownIsHeld'
    <3> DEFINE said == row \ current
               opens == {}
    <3>1. PICK items \in SetToSeqs({PositionEvent(c, FALSE) : c \in said}) : Enqueue(items)
      BY <1>9 DEF SyncRows
    <3>2. said \in SUBSET Contracts
      BY DEF TypeOK
    <3>3. /\ items \in Seq(Event)
          /\ \A i \in 1 .. Len(items) : items[i].at = FALSE
          /\ \A c \in said : \E i \in 1 .. Len(items) : items[i].kind = "position" /\ items[i].key = c
      <4> HIDE DEF said
      <4>1. QED
        BY <3>1, <3>2, PositionEvents
    <3>4. ~fault /\ queue' = queue \o items
      BY <2>2, <3>1, <3>3, Whole
    <3>5. Says(opens, said)
      <4> HIDE DEF said, opens
      <4>1. QED
        BY <3>3, <3>4, WholeSays
    <3>6. \A c \in Contracts : (Opened(c)' => Opened(c)) /\ (WillShow(c)' => WillShow(c) /\ c \notin said)
      <4>1. \A c \in opens : FALSE
        OBVIOUS
      <4> HIDE DEF said, opens
      <4>2. QED
        BY <1>1, <2>1, <3>5, <4>1, Saying
    <3>7. KnownIsHeld' /\ OpenedIsHeld'
      BY <2>1, <2>2, <3>4, <3>6 DEF RowsInv, KnownIsHeld, OpenedIsHeld
    <3>8. \A c \in Contracts : WillShow(c)' => c \in held'
      BY <2>1, <2>2, <3>4, <3>6 DEF RowsInv, WillShow, OpenedIsHeld, ClosedIsGone
    <3>9. QED
      BY <2>1, <3>7, <3>8 DEF ClosedIsGone, ShownIsHeld
  <2>3. Phased'
    BY <2>1 DEF RowsInv, Phased
  <2>4. QED
    BY <2>2, <2>3 DEF RowsInv
<1>10. CASE PollFills
  <2>1. /\ connected /\ UNCHANGED <<held, row, known, synced, connected>>
        /\ \/ synced /\ phase' = "wait" /\ current' = current
           \/ ~synced /\ phase' = "rows" /\ current' = held
    BY <1>10 DEF PollFills
  <2>2. ASSUME ~fault'
        PROVE  KnownIsHeld' /\ OpenedIsHeld' /\ ClosedIsGone' /\ ShownIsHeld'
    <3> DEFINE xs == {x \in Fills : fill[x] > 0}
    <3>1. FillValues(xs, fill)
      BY <1>10 DEF PollFills
    <3>2. PICK items \in SetToSeqs({FillEvent(y, fill[y]) : y \in {z \in xs : fillSeen[z] # fill[z]}}) :
            Enqueue(items)
      BY <3>1 DEF FillValues
    <3>3. fill \in [Fills -> 0 .. 2] /\ xs \in SUBSET Fills /\ \A x \in xs : fill[x] \in 1 .. 2
      BY DEF TypeOK
    <3>4. items \in Seq(Event) /\ \A i \in 1 .. Len(items) : items[i].kind # "position"
      <4> HIDE DEF xs
      <4>1. QED
        BY <3>3, FillEvents
    <3>5. ~fault /\ queue' = queue \o items
      BY <2>2, <3>2, <3>4, Whole
    <3>6. Says({}, {})
      BY <3>4, <3>5, WholeSilent
    <3>7. QED
      BY <1>1, <2>1, <3>5, <3>6, RowsKept DEF RowsInv
  <2>3. QED
    BY <2>1, <2>2 DEF RowsInv, Phased
<1>11. CASE PutSnapshot
  <2> DEFINE e == Reconciled(snapshot)
             items == <<e>>
  <2>1. e \in Event /\ e.kind # "position"
    BY DEF Reconciled, Event, TypeOK
  <2>2. queue' = Append(queue, e) /\ phase' = "fills"
        /\ UNCHANGED <<held, row, known, current, synced, connected, fault>>
    BY <1>11 DEF PutSnapshot
  <2> HIDE DEF e
  <2>3. /\ items \in Seq(Event) /\ \A i \in 1 .. Len(items) : items[i].kind # "position"
        /\ queue' = queue \o items
    BY <2>1, <2>2 DEF TypeOK
  <2>4. Says({}, {})
    <3> HIDE DEF items
    <3>1. QED
      BY <2>3, WholeSilent
  <2>5. QED
    BY <1>1, <2>2, <2>4, RowsKept DEF RowsInv, Phased
<1>12. CASE PollOrders
  <2> DEFINE open == {o \in Orders : order[o] \in 1 .. Terminal - 1}
             O == {p \in open : orderSeen[p] # order[p]}
             all == [o \in Orders |-> IF o \in open THEN order[o] ELSE 0]
             e == Reconciled(all)
  <2>1. PICK items \in SetToSeqs({OrderEvent(o, order[o]) : o \in O}) :
          /\ fault' = (fault \/ Overflows(items))
          /\ IF Len(queue \o items) < MaxQueue
               THEN queue' = queue \o items \o <<e>> /\ phase' = "fills"
               ELSE queue' = Fitting(queue \o items) /\ phase' = "put"
    BY <1>12 DEF PollOrders
  <2>2. O \in SUBSET Orders /\ (\A o \in O : order[o] \in 1 .. Terminal) /\ all \in [Orders -> 0 .. Terminal]
    <3>1. all \in [Orders -> 0 .. Terminal]
      BY FeedAssumption DEF FeedAssumption, TypeOK
    <3>2. O \in SUBSET Orders /\ \A o \in O : order[o] \in 1 .. Terminal
      BY FeedAssumption DEF FeedAssumption
    <3>3. QED
      BY <3>1, <3>2
  <2>3. e \in Event /\ e.kind # "position"
    <3> HIDE DEF all
    <3>1. QED
      BY <2>2 DEF Reconciled, Event
  <2>4. items \in Seq(Event) /\ \A i \in 1 .. Len(items) : items[i].kind # "position"
    <3> HIDE DEF O
    <3>1. QED
      BY <2>2, OrderEvents
  <2>5. connected /\ UNCHANGED <<held, row, known, current, synced, connected>>
    BY <1>12 DEF PollOrders
  <2> HIDE DEF e, O, all
  <2>6. ASSUME ~fault' PROVE ~fault /\ Says({}, {})
    <3>1. CASE Len(queue \o items) < MaxQueue
      <4> DEFINE rest == items \o <<e>>
      <4>1. rest \in Seq(Event) /\ \A i \in 1 .. Len(rest) : rest[i].kind # "position"
        <5>1. /\ rest \in Seq(Event) /\ Len(rest) = Len(items) + 1
              /\ \A i \in 1 .. Len(rest) : rest[i] = IF i <= Len(items) THEN items[i] ELSE e
          BY <2>3, <2>4
        <5>2. QED
          BY <2>3, <2>4, <5>1
      <4>2. queue' = queue \o rest
        <5>1. queue' = queue \o items \o <<e>>
          BY <2>1, <3>1
        <5>2. queue \in Seq(Event) /\ <<e>> \in Seq(Event)
          BY <2>3 DEF TypeOK
        <5>3. QED
          BY <2>4, <5>1, <5>2
      <4> HIDE DEF rest
      <4>3. QED
        BY <2>1, <2>6, <4>1, <4>2, WholeSilent
    <3>2. CASE ~(Len(queue \o items) < MaxQueue)
      <4>1. Enqueue(items)
        BY <2>1, <3>2 DEF Enqueue
      <4>2. ~fault /\ queue' = queue \o items
        BY <2>4, <2>6, <4>1, Whole
      <4>3. QED
        BY <2>4, <4>2, WholeSilent
    <3>3. QED
      BY <3>1, <3>2
  <2>7. phase' \in {"fills", "put"}
    BY <2>1
  <2>8. QED
    BY <1>1, <2>5, <2>6, <2>7, RowsKept DEF RowsInv, Phased
<1>13. QED
  BY <1>2, <1>3, <1>4, <1>5, <1>6, <1>7, <1>8, <1>9, <1>10, <1>11, <1>12 DEF Live

\* What is published is shown, and no longer queued.
LEMMA ProcessRows ==
  ASSUME FeedInv, RowsInv, Process
  PROVE  RowsInv'
<1> USE DEF FeedInv, session, broker
<1> DEFINE e == Head(queue)
<1>1. /\ Applied(e) /\ queue # <<>> /\ queue' = Tail(queue)
      /\ UNCHANGED <<held, phase, connected, fault, synced, known, current>>
  BY DEF Process
<1>2. /\ Len(queue) \in Nat \ {0} /\ e = queue[1] /\ e \in Event /\ Len(queue') = Len(queue) - 1
      /\ \A i \in 1 .. Len(queue') : i + 1 \in 1 .. Len(queue) /\ queue'[i] = queue[i + 1]
  BY <1>1 DEF TypeOK
<1> HIDE DEF e
<1>3. \A c, i : i \in 1 .. Len(queue') => (About(c, i)' <=> About(c, i + 1))
  BY <1>2 DEF About
<1>4. ASSUME NEW c, Opened(c)' PROVE Opened(c)
  <2>1. PICK i \in 1 .. Len(queue') :
          About(c, i)' /\ queue'[i].at = TRUE /\ \A j \in i + 1 .. Len(queue') : ~About(c, j)'
    BY <1>4 DEF Opened
  <2>2. \A j \in i + 2 .. Len(queue) : ~About(c, j)
    <3> SUFFICES ASSUME NEW j \in i + 2 .. Len(queue) PROVE ~About(c, j)
      OBVIOUS
    <3>1. j - 1 \in i + 1 .. Len(queue') /\ j - 1 \in 1 .. Len(queue') /\ (j - 1) + 1 = j
      BY <1>2
    <3> DEFINE k == j - 1
    <3>2. ~About(c, k)' /\ k \in 1 .. Len(queue') /\ k + 1 = j
      BY <2>1, <3>1
    <3> HIDE DEF k
    <3>3. QED
      BY <1>3, <3>2
  <2>3. i + 1 \in 1 .. Len(queue) /\ About(c, i + 1) /\ queue[i + 1].at = TRUE /\ (i + 1) + 1 = i + 2
    BY <1>2, <1>3, <2>1
  <2>4. QED
    BY <2>2, <2>3 DEF Opened
<1>5. ASSUME NEW c, WillShow(c)' PROVE WillShow(c)
  <2>1. CASE Opened(c)'
    BY <1>4, <2>1 DEF WillShow
  <2>2. CASE c \in row' /\ Silent(c)'
    <3>1. \A i \in 2 .. Len(queue) : ~About(c, i)
      <4> SUFFICES ASSUME NEW i \in 2 .. Len(queue) PROVE ~About(c, i)
        OBVIOUS
      <4> DEFINE k == i - 1
      <4>1. k \in 1 .. Len(queue') /\ k + 1 = i
        BY <1>2
      <4> HIDE DEF k
      <4>2. QED
        BY <1>3, <2>2, <4>1 DEF Silent
    <3>2. CASE About(c, 1)
      <4>1. e.kind = "position" /\ e.key = c /\ e.at \in BOOLEAN
        BY <1>2, <3>2 DEF About, Event
      <4>2. row' = IF e.at THEN row \cup {e.key} ELSE row \ {e.key}
        BY <1>1, <4>1 DEF Applied
      <4>3. e.at = TRUE
        BY <2>2, <4>1, <4>2
      <4>4. 1 \in 1 .. Len(queue) /\ 1 + 1 = 2
        BY <1>2
      <4>5. QED
        BY <1>2, <3>1, <3>2, <4>3, <4>4 DEF Opened, WillShow
    <3>3. CASE ~About(c, 1)
      <4>1. c \in row
        <5>1. e.kind # "position" \/ e.key # c
          BY <1>2, <3>3 DEF About
        <5>2. e.kind \in {"order", "execution", "position", "orders.reconciled"}
          BY <1>2 DEF Event
        <5>3. CASE e.kind = "position"
          <6>1. row' = IF e.at THEN row \cup {e.key} ELSE row \ {e.key}
            BY <1>1, <5>3 DEF Applied
          <6>2. QED
            BY <2>2, <5>1, <5>3, <6>1
        <5>4. CASE e.kind # "position"
          <6>1. row' = row
            BY <1>1, <5>2, <5>4 DEF Applied
          <6>2. QED
            BY <2>2, <6>1
        <5>5. QED
          BY <5>3, <5>4
      <4>2. \A i \in 1 .. Len(queue) : i = 1 \/ i \in 2 .. Len(queue)
        BY <1>2
      <4>3. QED
        BY <3>1, <3>3, <4>1, <4>2 DEF WillShow, Silent
    <3>4. QED
      BY <3>2, <3>3
  <2>3. QED
    BY <1>5, <2>1, <2>2 DEF WillShow
<1>6. Phased'
  BY <1>1 DEF RowsInv, Phased
<1>7. QED
  BY <1>1, <1>4, <1>5, <1>6
  DEF RowsInv, KnownIsHeld, OpenedIsHeld, ClosedIsGone, ShownIsHeld

LEMMA RowsStep == FeedInv /\ RowsInv /\ [Next /\ Drained]_vars => RowsInv'
<1> SUFFICES ASSUME FeedInv, RowsInv, [Next /\ Drained]_vars PROVE RowsInv'
  OBVIOUS
<1>1. CASE UNCHANGED vars
  BY <1>1 DEF vars, broker, redis, session, RowsInv, Phased, KnownIsHeld, OpenedIsHeld,
              ClosedIsGone, ShownIsHeld, WillShow, Opened, Silent, About
<1>2. CASE SessionEnds
  BY <1>2 DEF SessionEnds, GoDown, RowsInv, Phased
<1>3. QED
  BY <1>1, <1>2, BrokerRows, LiveRows, ProcessRows DEF Next
-----------------------------------------------------------------------------
(* What was seen is sent.  A session that is connected and without fault    *)
(* has dropped nothing: a version it has recorded as seen is queued or      *)
(* published.  A version it has not recorded is found by the next poll, and *)
(* from the first poll on the session has recorded every open order; a      *)
(* session that connects anew has recorded none.                            *)

InHand(o) ==
  \/ sentOrder[o] = order[o]
  \/ \E i \in 1 .. Len(queue) :
       IsOrder(queue[i]) /\ queue[i].key = o /\ queue[i].at = order[o]

HasPolled == synced \/ phase \in {"put", "fills", "rows", "check", "wait"}

SeenIsInHand == \A o \in Orders : order[o] # 0 /\ orderSeen[o] = order[o] => InHand(o)
OpenIsSeen == \A o \in Orders : order[o] \in 1 .. Terminal - 1 => orderSeen[o] = order[o]

Fresh ==
  /\ phase \in {"down", "connecting"} => ~connected
  /\ phase \in {"connecting", "positions"} => ~synced
  /\ phase = "wait" => synced
  /\ phase = "connecting" => \A o \in Orders : orderSeen[o] = 0

OrdersInv == /\ Fresh
             /\ connected /\ ~fault => SeenIsInHand
             /\ connected /\ ~fault /\ HasPolled => OpenIsSeen

\* Where appended events are.
LEMMA Appended ==
  ASSUME NEW s \in Seq(Event), NEW t \in Seq(Event)
  PROVE  \A k \in 1 .. Len(t) :
           Len(s) + k \in 1 .. Len(s \o t) /\ (s \o t)[Len(s) + k] = t[k]
  OBVIOUS

\* What is queued stays queued until it is published.
LEMMA HandKept ==
  ASSUME TypeOK, Extends, sentOrder' = sentOrder,
         NEW o \in Orders, order'[o] = order[o], InHand(o)
  PROVE  InHand(o)'
<1>1. /\ Len(queue) \in Nat /\ Len(queue') \in Nat /\ Len(queue) <= Len(queue')
      /\ \A i \in 1 .. Len(queue) : i \in 1 .. Len(queue') /\ queue'[i] = queue[i]
  BY DEF TypeOK, Extends
<1>2. CASE sentOrder[o] = order[o]
  BY <1>2 DEF InHand
<1>3. CASE \E i \in 1 .. Len(queue) :
             IsOrder(queue[i]) /\ queue[i].key = o /\ queue[i].at = order[o]
  <2>1. PICK i \in 1 .. Len(queue) :
               IsOrder(queue[i]) /\ queue[i].key = o /\ queue[i].at = order[o]
    BY <1>3
  <2>2. i \in 1 .. Len(queue') /\ queue'[i] = queue[i]
    BY <1>1
  <2>3. QED
    BY <2>1, <2>2 DEF InHand, IsOrder
<1>4. QED
  BY <1>2, <1>3 DEF InHand

\* A step that is not about orders.
LEMMA OrdersKept ==
  ASSUME TypeOK, OrdersInv, Extends, UNCHANGED <<sentOrder, order, orderSeen>>, Fresh',
         connected' /\ ~fault' => connected /\ ~fault,
         HasPolled' => HasPolled
  PROVE  OrdersInv'
<1>1. connected' /\ ~fault' => SeenIsInHand'
  BY HandKept DEF OrdersInv, SeenIsInHand
<1>2. QED
  BY <1>1 DEF OrdersInv, OpenIsSeen

\* The callback queues the version it records.
LEMMA ChangeOrders ==
  ASSUME FeedInv, OrdersInv, NEW o \in Orders, OrderChanges(o)
  PROVE  OrdersInv'
<1> USE DEF FeedInv
<1>1. Extends /\ sentOrder' = sentOrder
  BY BrokerExtends DEF Broker
<1>2. PICK v \in order[o] + 1 .. Terminal :
        /\ order' = [order EXCEPT ![o] = v]
        /\ IF connected THEN /\ Enqueue(<<OrderEvent(o, v)>>)
                             /\ orderSeen' = [orderSeen EXCEPT ![o] = v]
                        ELSE UNCHANGED <<queue, fault, orderSeen>>
  BY DEF OrderChanges
<1>3. UNCHANGED <<phase, connected, synced>>
  BY DEF OrderChanges
<1>4. v \in 1 .. Terminal /\ order'[o] = v /\ \A p \in Orders \ {o} : order'[p] = order[p]
  BY <1>2, FeedAssumption DEF FeedAssumption, TypeOK
<1>5. CASE ~connected
  BY <1>2, <1>3, <1>5 DEF OrdersInv, Fresh
<1>6. CASE connected
  <2>1. /\ Enqueue(<<OrderEvent(o, v)>>)
        /\ orderSeen'[o] = v /\ \A p \in Orders \ {o} : orderSeen'[p] = orderSeen[p]
    BY <1>2, <1>6 DEF TypeOK
  <2>2. Fresh'
    BY <1>3, <1>6 DEF OrdersInv, Fresh
  <2>3. ASSUME ~fault' PROVE SeenIsInHand' /\ (HasPolled' => OpenIsSeen')
    <3> DEFINE items == <<OrderEvent(o, v)>>
    <3>1. items \in Seq(Event) /\ Len(items) = 1 /\ items[1] = OrderEvent(o, v)
      BY <1>4 DEF OrderEvent, Event
    <3>2. Enqueue(items)
      BY <2>1
    <3> HIDE DEF items
    <3>3. ~fault /\ queue' = queue \o items
      BY <2>3, <3>1, <3>2, Whole
    <3>4. InHand(o)'
      <4>1. /\ Len(queue) + 1 \in 1 .. Len(queue')
            /\ queue'[Len(queue) + 1] = OrderEvent(o, v)
        <5>1. queue \in Seq(Event) /\ Len(queue) \in Nat
          BY DEF TypeOK
        <5>2. items \in Seq(Event) /\ 1 \in 1 .. Len(items)
          BY <3>1
        <5>3. QED
          BY <3>1, <3>3, <5>1, <5>2, Appended
      <4>2. PICK i \in 1 .. Len(queue') : queue'[i] = OrderEvent(o, v)
        BY <4>1
      <4>3. QED
        BY <1>4, <4>2 DEF InHand, IsOrder, OrderEvent
    <3>5. \A p \in Orders \ {o} : order[p] # 0 /\ orderSeen[p] = order[p] => InHand(p)'
      BY <1>1, <1>4, <1>6, <3>3, HandKept DEF OrdersInv, SeenIsInHand
    <3>6. SeenIsInHand'
      BY <1>4, <2>1, <3>4, <3>5 DEF SeenIsInHand
    <3>7. HasPolled' => OpenIsSeen'
      BY <1>3, <1>4, <1>6, <2>1, <3>3 DEF OrdersInv, HasPolled, OpenIsSeen
    <3>8. QED
      BY <3>6, <3>7
  <2>4. QED
    BY <2>2, <2>3 DEF OrdersInv
<1>7. QED
  BY <1>5, <1>6

\* A poll queues the versions it records, and records every open order.
LEMMA PollSendsOrders ==
  ASSUME FeedInv, OrdersInv, PollOrders
  PROVE  OrdersInv'
<1> USE DEF FeedInv
<1> DEFINE open == {o \in Orders : order[o] \in 1 .. Terminal - 1}
           O == {p \in open : orderSeen[p] # order[p]}
           all == [o \in Orders |-> IF o \in open THEN order[o] ELSE 0]
           e == Reconciled(all)
<1>1. Extends /\ sentOrder' = sentOrder /\ order' = order
  BY LiveExtends DEF Live
<1>2. PICK items \in SetToSeqs({OrderEvent(o, order[o]) : o \in O}) :
        /\ fault' = (fault \/ Overflows(items))
        /\ orderSeen' = [o \in Orders |-> IF o \in open THEN order[o] ELSE orderSeen[o]]
        /\ IF Len(queue \o items) < MaxQueue
             THEN queue' = queue \o items \o <<e>> /\ phase' = "fills"
             ELSE queue' = Fitting(queue \o items) /\ phase' = "put"
  BY DEF PollOrders
<1>3. phase = "orders" /\ connected /\ connected' /\ synced' = synced
  BY DEF PollOrders, session
<1>4. O \in SUBSET Orders /\ \A o \in O : order[o] \in 1 .. Terminal
  BY FeedAssumption DEF FeedAssumption
<1>5. /\ items \in Seq(Event)
      /\ \A o \in O : \E i \in 1 .. Len(items) : items[i] = OrderEvent(o, order[o])
  <2> HIDE DEF O
  <2>1. QED
    BY <1>2, <1>4, OrderEvents
<1>6. ASSUME ~fault'
      PROVE  /\ ~fault
             /\ \A k \in 1 .. Len(items) :
                  \E i \in 1 .. Len(queue') : queue'[i] = items[k]
  <2> HIDE DEF e, O, open
  <2>1. ~fault
    BY <1>2, <1>6
  <2>2. \/ queue' = queue \o items \o <<e>>
        \/ queue' = queue \o items
    <3>1. CASE Len(queue \o items) < MaxQueue
      BY <1>2, <3>1
    <3>2. CASE ~(Len(queue \o items) < MaxQueue)
      <4>1. Enqueue(items)
        BY <1>2, <3>2 DEF Enqueue
      <4>2. QED
        BY <1>5, <1>6, <4>1, Whole
    <3>3. QED
      BY <3>1, <3>2
  <2>3. \A k \in 1 .. Len(items) :
          Len(queue) + k \in 1 .. Len(queue') /\ queue'[Len(queue) + k] = items[k]
    <3>1. queue \in Seq(Event) /\ Len(queue) \in Nat /\ Len(items) \in Nat
      BY <1>5 DEF TypeOK
    <3>2. CASE queue' = queue \o items
      BY <1>5, <3>1, <3>2
    <3>3. CASE queue' = queue \o items \o <<e>>
      <4> DEFINE both == queue \o items
      <4>1. /\ Len(both) = Len(queue) + Len(items)
            /\ \A k \in 1 .. Len(items) : both[Len(queue) + k] = items[k]
        BY <1>5, <3>1
      <4>2. both \in Seq(Event)
        BY <1>5, <3>1
      <4> HIDE DEF both
      <4>3. Len(both \o <<e>>) = Len(both) + 1 /\ \A i \in 1 .. Len(both) : (both \o <<e>>)[i] = both[i]
        BY <4>2
      <4>4. queue' = both \o <<e>>
        BY <3>3 DEF both
      <4>5. QED
        BY <3>1, <4>1, <4>3, <4>4
    <3>4. QED
      BY <2>2, <3>2, <3>3
  <2>4. QED
    BY <2>1, <2>3
<1>7. ASSUME ~fault', NEW o \in O PROVE InHand(o)'
  <2>1. PICK k \in 1 .. Len(items) : items[k] = OrderEvent(o, order[o])
    BY <1>5
  <2>2. PICK i \in 1 .. Len(queue') : queue'[i] = OrderEvent(o, order[o])
    BY <1>6, <1>7, <2>1
  <2>3. QED
    BY <1>1, <2>2 DEF InHand, IsOrder, OrderEvent
<1>8. ASSUME ~fault' PROVE SeenIsInHand'
  <2> SUFFICES ASSUME NEW o \in Orders, order'[o] # 0, orderSeen'[o] = order'[o]
               PROVE  InHand(o)'
    BY DEF SeenIsInHand
  <2>1. CASE o \in O
    BY <1>7, <1>8, <2>1
  <2>2. CASE o \notin O
    <3>1. orderSeen[o] = order[o] /\ order[o] # 0
      BY <1>1, <1>2, <2>2
    <3>2. InHand(o)
      BY <1>3, <1>6, <1>8, <3>1 DEF OrdersInv, SeenIsInHand
    <3>3. QED
      BY <1>1, <3>2, HandKept
  <2>3. QED
    BY <2>1, <2>2
<1>9. OpenIsSeen'
  BY <1>1, <1>2 DEF OpenIsSeen
<1>10. Fresh'
  BY <1>2, <1>3 DEF Fresh
<1>11. QED
  BY <1>8, <1>9, <1>10 DEF OrdersInv

LEMMA LiveOrders ==
  ASSUME FeedInv, OrdersInv, Live \/ Disconnect \/ Command \/ ConnectFails
  PROVE  OrdersInv'
<1> USE DEF FeedInv, redis, session, broker, GoDown, Fault
<1>1. TypeOK' /\ Extends /\ sentOrder' = sentOrder /\ order' = order
  BY LiveExtends
<1>2. CASE Connect
  BY <1>2 DEF Connect, OrdersInv, Fresh
<1>3. CASE Connected
  BY <1>3 DEF Connected, OrdersInv, Fresh, SeenIsInHand, HasPolled
<1>4. CASE ConnectFails \/ RequestFails
  BY <1>4 DEF ConnectFails, RequestFails, OrdersInv, Fresh
<1>5. CASE Disconnect
  BY <1>5 DEF Disconnect, OrdersInv, Fresh
<1>6. CASE Command
  BY <1>6 DEF Command, OrdersInv, Fresh
<1>7. CASE PollOrders
  BY <1>7, PollSendsOrders
<1>8. CASE SyncPositions \/ SyncRows \/ FinishSync \/ PutSnapshot \/ PollFills \/ Heartbeat
  <2>1. orderSeen' = orderSeen
    BY <1>8 DEF SyncPositions, SyncRows, FinishSync, PutSnapshot, PollFills, Heartbeat
  <2>2. fault' = fault \/ fault'
    <3>1. fault' \in BOOLEAN
      BY <1>1 DEF TypeOK
    <3>2. ASSUME fault PROVE fault'
      BY <1>8, <3>2 DEF SyncPositions, SyncRows, FinishSync, PutSnapshot, PollFills,
                        FillValues, Enqueue, Heartbeat
    <3>3. QED
      BY <3>1, <3>2 DEF TypeOK
  <2>3. Fresh' /\ (connected' => connected) /\ (HasPolled' => HasPolled \/ ~connected')
    <3> USE DEF OrdersInv, Fresh, HasPolled
    <3>1. CASE SyncPositions
      BY <3>1 DEF SyncPositions
    <3>2. CASE SyncRows
      BY <3>2 DEF SyncRows
    <3>3. CASE FinishSync
      BY <3>3 DEF FinishSync
    <3>4. CASE PutSnapshot
      BY <3>4 DEF PutSnapshot
    <3>5. CASE PollFills
      BY <3>5 DEF PollFills
    <3>6. CASE Heartbeat
      BY <3>6 DEF Heartbeat
    <3>7. QED
      BY <1>8, <3>1, <3>2, <3>3, <3>4, <3>5, <3>6
  <2>4. CASE ~connected'
    BY <2>3, <2>4 DEF OrdersInv
  <2>5. CASE connected'
    BY <1>1, <2>1, <2>2, <2>3, <2>5, OrdersKept
  <2>6. QED
    BY <2>4, <2>5
<1>9. QED
  BY <1>2, <1>3, <1>4, <1>5, <1>6, <1>7, <1>8 DEF Live

LEMMA BrokerOrders ==
  ASSUME FeedInv, OrdersInv, Broker
  PROVE  OrdersInv'
<1> USE DEF FeedInv, redis, session, broker
<1>1. ASSUME NEW o \in Orders, OrderChanges(o) PROVE OrdersInv'
  BY <1>1, ChangeOrders
<1>2. ASSUME ~(\E o \in Orders : OrderChanges(o)) PROVE OrdersInv'
  <2>1. \/ \E x \in Fills : FillArrives(x)
        \/ \E c \in Contracts : PositionChanges(c) \/ PnlTick(c)
    BY <1>2 DEF Broker
  <2>2. Extends /\ sentOrder' = sentOrder
    BY BrokerExtends
  <2>3. UNCHANGED <<order, orderSeen, phase, connected, synced>>
    BY <2>1 DEF FillArrives, PositionChanges, PnlTick
  <2>4. fault => fault'
    BY <2>1 DEF FillArrives, PositionChanges, PnlTick, FillValues, Enqueue
  <2>5. Fresh' /\ (HasPolled' => HasPolled)
    BY <2>3 DEF OrdersInv, Fresh, HasPolled
  <2>6. QED
    BY <2>2, <2>3, <2>4, <2>5, OrdersKept
<1>3. QED
  BY <1>1, <1>2

\* What is published is not older than what was, nor newer than the broker's.
LEMMA ProcessOrders ==
  ASSUME FeedInv, OrdersInv, Process
  PROVE  OrdersInv'
<1> USE DEF session, broker
<1>1. FeedInv' /\ \A o \in Orders : sentOrder[o] <= sentOrder'[o]
  BY ProcessKeeps
<1>2. /\ UNCHANGED <<order, orderSeen, phase, connected, fault, synced>>
      /\ queue # <<>> /\ queue' = Tail(queue) /\ Applied(Head(queue))
  BY DEF Process
<1>3. /\ Len(queue) \in Nat \ {0} /\ Head(queue) = queue[1]
      /\ Len(queue') = Len(queue) - 1
      /\ \A i \in 1 .. Len(queue') : queue'[i] = queue[i + 1]
  BY <1>2 DEF FeedInv, TypeOK
<1>4. ASSUME NEW o \in Orders, InHand(o) PROVE InHand(o)'
  <2>1. /\ sentOrder[o] \in Nat /\ sentOrder'[o] \in Nat /\ order[o] \in Nat
        /\ sentOrder[o] <= sentOrder'[o] /\ sentOrder'[o] <= order[o]
    BY <1>1, <1>2 DEF FeedInv, TypeOK, SentBehind
  <2>2. CASE sentOrder[o] = order[o]
    BY <1>2, <2>1, <2>2 DEF InHand
  <2>3. ASSUME NEW i \in 1 .. Len(queue),
               IsOrder(queue[i]), queue[i].key = o, queue[i].at = order[o]
        PROVE  InHand(o)'
    <3>1. CASE i = 1
      <4>1. sentOrder' = [sentOrder EXCEPT ![o] = order[o]]
        BY <1>2, <1>3, <2>3, <3>1 DEF Applied, IsOrder
      <4>2. QED
        BY <1>2, <4>1 DEF InHand, FeedInv, TypeOK
    <3>2. CASE i # 1
      <4> DEFINE k == i - 1
      <4>1. k \in 1 .. Len(queue') /\ queue'[k] = queue[i]
        <5>1. k \in 1 .. Len(queue') /\ k + 1 = i
          BY <1>3, <3>2
        <5>2. QED
          BY <1>3, <5>1
      <4> HIDE DEF k
      <4>2. QED
        BY <1>2, <2>3, <4>1 DEF InHand, IsOrder
    <3>3. QED
      BY <3>1, <3>2
  <2>4. QED
    BY <1>4, <2>2, <2>3 DEF InHand
<1>5. QED
  BY <1>2, <1>4 DEF OrdersInv, Fresh, SeenIsInHand, HasPolled, OpenIsSeen

LEMMA OrdersStep == FeedInv /\ OrdersInv /\ [Next]_vars => OrdersInv'
<1> SUFFICES ASSUME FeedInv, OrdersInv, [Next]_vars PROVE OrdersInv'
  OBVIOUS
<1>1. CASE UNCHANGED vars
  BY <1>1 DEF vars, broker, redis, session, OrdersInv, Fresh, SeenIsInHand, HasPolled,
              OpenIsSeen, InHand, IsOrder
<1>2. CASE SessionEnds
  BY <1>2 DEF SessionEnds, GoDown, OrdersInv, Fresh
<1>3. QED
  BY <1>1, <1>2, BrokerOrders, LiveOrders, ProcessOrders DEF Next
-----------------------------------------------------------------------------
\* The state of a session and of what it publishes is what its type says: the
\* queue never exceeds its size.
THEOREM FeedTypeCorrect == Spec => []TypeOK
<1>1. FeedInv => TypeOK
  BY DEF FeedInv
<1>2. FeedInv /\ [Next]_vars => FeedInv'
  BY FeedStep
<1>3. QED
  BY <1>1, <1>2, FeedInit, PTL DEF Spec

\* The versions of an order enter the stream in the broker's order, through
\* full queues, reconnections, polls and sessions that end (enqueue,
\* order_value, poll_orders, process).
THEOREM OrdersInOrder == Spec => OrderStreamForward
<1> DEFINE Forward == \A o \in Orders : sentOrder'[o] >= sentOrder[o]
<1>1. FeedInv /\ [Next]_vars => FeedInv' /\ [Forward]_vars
  BY FeedStep
<1>2. QED
  BY <1>1, FeedInit, PTL DEF Spec, OrderStreamForward

\* Once a session has synchronized and nothing is left to publish, no position
\* the broker has closed is shown, whatever opened and closed while sync()
\* waited, if the queue is empty whenever live() connects or wakes up (sync,
\* position_value, process).
THEOREM NoGhosts == PromptSpec => []NoGhost
<1>1. Init => FeedInv /\ RowsInv
  <2>1. Init => RowsInv
    BY DEF Init, RowsInv, Phased
  <2>2. QED
    BY <2>1, FeedInit
<1>2. FeedInv /\ RowsInv /\ [Next /\ Drained]_vars => (FeedInv /\ RowsInv)'
  <2>1. [Next /\ Drained]_vars => [Next]_vars
    OBVIOUS
  <2>2. QED
    BY <2>1, FeedStep, RowsStep
<1>3. FeedInv /\ RowsInv => NoGhost
  <2> SUFFICES ASSUME FeedInv, RowsInv, phase = "wait", connected, ~fault, queue = <<>>,
                      NEW c \in row
               PROVE  c \in held
    BY DEF NoGhost
  <2>1. c \in Contracts /\ Len(queue) = 0
    BY DEF FeedInv, TypeOK
  <2>2. WillShow(c)
    BY <2>1 DEF WillShow, Silent
  <2>3. QED
    BY <2>1, <2>2 DEF RowsInv, Phased, ShownIsHeld
<1>4. QED
  BY <1>1, <1>2, <1>3, PTL DEF PromptSpec

\* Once a session has synchronized and nothing is left to publish, the stream
\* has the present version of every open order, however small the queue, and
\* whatever was dropped or changed while the session was away (enqueue,
\* order_value, poll_orders, live).
THEOREM OpenOrdersAreSent == Spec => []OpenOrdersSent
<1>1. Init => FeedInv /\ OrdersInv
  <2>1. Init => OrdersInv
    BY DEF Init, OrdersInv, Fresh
  <2>2. QED
    BY <2>1, FeedInit
<1>2. FeedInv /\ OrdersInv /\ [Next]_vars => (FeedInv /\ OrdersInv)'
  BY FeedStep, OrdersStep
<1>3. FeedInv /\ OrdersInv => OpenOrdersSent
  <2> SUFFICES ASSUME FeedInv, OrdersInv, synced, connected, ~fault, queue = <<>>,
                      NEW o \in Orders, order[o] \in 1 .. Terminal - 1
               PROVE  sentOrder[o] = order[o]
    BY DEF OpenOrdersSent
  <2>1. InHand(o)
    BY DEF OrdersInv, HasPolled, OpenIsSeen, SeenIsInHand
  <2>2. QED
    BY <2>1 DEF InHand
<1>4. QED
  BY <1>1, <1>2, <1>3, PTL DEF Spec
=============================================================================
