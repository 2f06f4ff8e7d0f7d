--------------------------- MODULE DurableStream ---------------------------
(***************************************************************************)
(* The durable path of one tenant's events: StateRepository appends an      *)
(* event to the tenant's Redis stream, the durable consumer of a worker     *)
(* reads it through the consumer group, writes it to MongoDB in several     *)
(* calls and acknowledges it (worker.durable_consumer, db.persist).         *)
(*                                                                         *)
(* Every MongoDB call is a step of its own, so a crash or an error may fall *)
(* between any two of them.  All workers read as the consumer "primary" of  *)
(* the same group, so they share one pending-entries list.                  *)
(*                                                                         *)
(* An event is [kind, id, known]: known says that an order carries a        *)
(* perm_id > 0, or that a fill carries its commission.  Its index in the    *)
(* log stands for its content, its timestamp and its event_id.              *)
(***************************************************************************)
EXTENDS Integers, Sequences, FiniteSets

CONSTANTS
  Workers,    \* the worker processes that run a consumer for the tenant
  Orders,     \* orders at the broker
  Fills,      \* execution ids
  States,     \* last-writer documents: a connection's last_state, an account's owner
  Inputs,     \* the events sessions may publish
  BatchSize,  \* XREADGROUP's count (100 in the code)
  MaxLen,     \* event_stream_maxlen
  MaxEvents,  \* bound: events published
  MaxFaults   \* bound: exceptions and crashes, together

Kinds == {"order", "fill", "state", "alert", "other"}

ASSUME ConstantsAssumption ==
  /\ BatchSize \in Nat \ {0}
  /\ MaxLen \in Nat \ {0}
  /\ MaxEvents \in Nat
  /\ MaxFaults \in Nat
  /\ Inputs \subseteq [kind : Kinds, id : Orders \cup Fills \cup States,
                       known : BOOLEAN]
  /\ \A e \in Inputs : /\ e.kind = "order" => e.id \in Orders
                       /\ e.kind = "fill" => e.id \in Fills
                       /\ e.kind = "state" => e.id \in States

VARIABLES
  log,        \* every event appended so far; entries 1..trimmed are gone
  trimmed,
  delivered,  \* the group's last-delivered id
  pel,        \* delivered to "primary" and not acknowledged
  pc, pending, batch, torn, previous, provisional,  \* locals of each consumer
  orderDoc,   \* db.orders; key <<o, FALSE>> is account:client:order, <<o, TRUE>> is perm
  journal,    \* db.order_events and db.alerts, by event id
  fillDoc,    \* db.executions
  stateDoc,   \* db.broker_connections.last_state, db.ibkr_accounts.connection_id
  faults

stream == <<log, trimmed, delivered, pel>>
locals == <<pc, pending, batch, torn, previous, provisional>>
docs   == <<orderDoc, journal, fillDoc, stateDoc>>
vars   == <<stream, locals, docs, faults>>

NoDoc == [at |-> 0, created |-> 0]
NoFill == [base |-> 0, commission |-> 0]

OrderDocs == [at : Nat, created : Nat]
FillDocs == [base : Nat, commission : Nat]
Steps == {"off", "idle", "next", "prov", "replace", "delete", "journal",
          "enrich", "ack"}

TypeOK ==
  /\ log \in Seq(Inputs)
  /\ trimmed \in 0 .. Len(log)
  /\ delivered \in 0 .. Len(log)
  /\ pel \subseteq 1 .. delivered
  /\ pc \in [Workers -> Steps]
  /\ pending \in [Workers -> BOOLEAN]
  /\ batch \in [Workers -> SUBSET (1 .. Len(log))]
  /\ torn \in [Workers -> SUBSET (1 .. Len(log))]
  /\ previous \in [Workers -> Nat]
  /\ provisional \in [Workers -> Nat]
  /\ orderDoc \in [Orders \X BOOLEAN -> OrderDocs]
  /\ journal \subseteq 1 .. Len(log)
  /\ fillDoc \in [Fills -> FillDocs]
  /\ stateDoc \in [States -> Nat]
  /\ faults \in Nat

Init ==
  /\ log = <<>> /\ trimmed = 0 /\ delivered = 0 /\ pel = {}
  /\ pc = [w \in Workers |-> "off"]
  /\ pending = [w \in Workers |-> TRUE]
  /\ batch = [w \in Workers |-> {}]
  /\ torn = [w \in Workers |-> {}]
  /\ previous = [w \in Workers |-> 0]
  /\ provisional = [w \in Workers |-> 0]
  /\ orderDoc = [k \in Orders \X BOOLEAN |-> NoDoc]
  /\ journal = {}
  /\ fillDoc = [x \in Fills |-> NoFill]
  /\ stateDoc = [s \in States |-> 0]
  /\ faults = 0

-----------------------------------------------------------------------------
(* Publication *)

\* The broker assigns perm_id once: an order never loses it again.
PermIsKept(e) == \A i \in 1 .. Len(log) :
    log[i].kind = "order" /\ e.kind = "order" /\ log[i].id = e.id
      => (log[i].known => e.known)

\* XADD with MAXLEN ~: Redis may drop any number of entries beyond MaxLen.
Publish(e) ==
  /\ Len(log) < MaxEvents
  /\ PermIsKept(e)
  /\ log' = Append(log, e)
  /\ \E t \in trimmed .. Len(log) + 1 :
        /\ t = trimmed \/ t <= Len(log) + 1 - MaxLen
        /\ trimmed' = t
  /\ UNCHANGED <<delivered, pel, locals, docs, faults>>

-----------------------------------------------------------------------------
(* The read loop *)

\* The first BatchSize entries of a set of stream ids.
FirstOf(S) == {i \in S : Cardinality({j \in S : j < i}) < BatchSize}

\* The id of the entry a consumer is at: the for loop takes ids in order.
AtEntry(w, i) == i \in batch[w] /\ \A j \in batch[w] : i <= j

Start(w) ==
  /\ pc[w] = "off"
  /\ pc' = [pc EXCEPT ![w] = "idle"]
  /\ pending' = [pending EXCEPT ![w] = TRUE]
  /\ UNCHANGED <<stream, batch, torn, previous, provisional, docs, faults>>

\* XREADGROUP from "0": what was delivered and never acknowledged.  Entries
\* trimmed meanwhile come back without fields.
ReadPending(w) ==
  /\ pc[w] = "idle" /\ pending[w] /\ pel # {}
  /\ batch' = [batch EXCEPT ![w] = FirstOf(pel)]
  /\ torn' = [torn EXCEPT ![w] = FirstOf(pel) \cap 1 .. trimmed]
  /\ pc' = [pc EXCEPT ![w] = "next"]
  /\ UNCHANGED <<stream, pending, previous, provisional, docs, faults>>

NothingPending(w) ==
  /\ pc[w] = "idle" /\ pending[w] /\ pel = {}
  /\ pending' = [pending EXCEPT ![w] = FALSE]
  /\ UNCHANGED <<stream, pc, batch, torn, previous, provisional, docs, faults>>

\* XREADGROUP from ">": the oldest entries nobody was given.
Undelivered == {i \in 1 .. Len(log) : i > delivered /\ i > trimmed}

\* Mutant: XREADGROUP with NOACK.
ReadNewNoAck(w) ==
  /\ pc[w] = "idle" /\ ~pending[w] /\ Undelivered # {}
  /\ batch' = [batch EXCEPT ![w] = FirstOf(Undelivered)]
  /\ torn' = [torn EXCEPT ![w] = {}]
  /\ delivered' \in FirstOf(Undelivered)
  /\ \A i \in FirstOf(Undelivered) : i <= delivered'
  /\ pc' = [pc EXCEPT ![w] = "next"]
  /\ UNCHANGED <<log, trimmed, pel, pending, previous, provisional, docs, faults>>

ReadNew(w) ==
  /\ pc[w] = "idle" /\ ~pending[w] /\ Undelivered # {}
  /\ batch' = [batch EXCEPT ![w] = FirstOf(Undelivered)]
  /\ torn' = [torn EXCEPT ![w] = {}]
  /\ pel' = pel \cup FirstOf(Undelivered)
  /\ delivered' \in FirstOf(Undelivered)
  /\ \A i \in FirstOf(Undelivered) : i <= delivered'
  /\ pc' = [pc EXCEPT ![w] = "next"]
  /\ UNCHANGED <<log, trimmed, pending, previous, provisional, docs, faults>>

BatchDone(w) ==
  /\ pc[w] = "next" /\ batch[w] = {}
  /\ pc' = [pc EXCEPT ![w] = "idle"]
  /\ UNCHANGED <<stream, pending, batch, torn, previous, provisional, docs, faults>>

\* Mutant: the error is logged and the loop goes on with ">".
RecoverOnward(w) ==
  /\ pc' = [pc EXCEPT ![w] = "idle"]
  /\ batch' = [batch EXCEPT ![w] = {}]
  /\ UNCHANGED <<stream, pending, torn, previous, provisional, docs>>

\* The except branch: whatever is left of the batch stays pending.
Recover(w) ==
  /\ pc' = [pc EXCEPT ![w] = "idle"]
  /\ pending' = [pending EXCEPT ![w] = TRUE]
  /\ batch' = [batch EXCEPT ![w] = {}]
  /\ UNCHANGED <<stream, torn, previous, provisional, docs>>

\* Redis or MongoDB raises, before or after the call took effect.
Fail(w) ==
  /\ faults < MaxFaults
  /\ pc[w] # "off"
  /\ faults' = faults + 1
  /\ Recover(w)

\* fields["event"] of a trimmed entry raises KeyError, like any other error.
LostEntry(w) ==
  /\ pc[w] = "next"
  /\ \E i \in torn[w] : AtEntry(w, i)
  /\ Recover(w)
  /\ UNCHANGED faults

\* The process dies, or the supervisor cancels the consumer.
Crash(w) ==
  /\ faults < MaxFaults
  /\ pc[w] # "off"
  /\ faults' = faults + 1
  /\ pc' = [pc EXCEPT ![w] = "off"]
  /\ batch' = [batch EXCEPT ![w] = {}]
  /\ UNCHANGED <<stream, pending, torn, previous, provisional, docs>>

Ack(w) ==
  /\ pc[w] = "ack"
  /\ \E i \in batch[w] :
        /\ AtEntry(w, i)
        /\ pel' = pel \ {i}
        /\ batch' = [batch EXCEPT ![w] = @ \ {i}]
  /\ pc' = [pc EXCEPT ![w] = "next"]
  /\ UNCHANGED <<log, trimmed, delivered, pending, torn, previous, provisional,
                 docs, faults>>

-----------------------------------------------------------------------------
(* persist: one action per MongoDB call *)

Entry(w, i, kind) ==
  /\ AtEntry(w, i)
  /\ log[i].kind = kind

Begin(w, i, kind) ==
  /\ pc[w] = "next"
  /\ Entry(w, i, kind)
  /\ i \notin torn[w]

GoTo(w, step) ==
  /\ pc' = [pc EXCEPT ![w] = step]
  /\ UNCHANGED <<stream, pending, batch, torn, faults>>

OrderKey(e) == <<e.id, e.known>>

\* Mutant: the provisional document is looked for only when the order has no
\* perm document yet.
FindOrderOnce(w) == \E i \in batch[w] :
  /\ Begin(w, i, "order")
  /\ previous' = [previous EXCEPT ![w] = orderDoc[OrderKey(log[i])].created]
  /\ provisional' = [provisional EXCEPT ![w] = 0]
  /\ GoTo(w, IF log[i].known /\ previous'[w] = 0 THEN "prov" ELSE "replace")
  /\ UNCHANGED docs

FindOrder(w) == \E i \in batch[w] :
  /\ Begin(w, i, "order")
  /\ previous' = [previous EXCEPT ![w] = orderDoc[OrderKey(log[i])].created]
  /\ provisional' = [provisional EXCEPT ![w] = 0]
  /\ GoTo(w, IF log[i].known THEN "prov" ELSE "replace")
  /\ UNCHANGED docs

FindProvisional(w) == \E i \in batch[w] :
  /\ pc[w] = "prov"
  /\ Entry(w, i, "order")
  /\ provisional' = [provisional EXCEPT ![w] = orderDoc[<<log[i].id, FALSE>>].created]
  /\ GoTo(w, "replace")
  /\ UNCHANGED <<previous, docs>>

CreatedAtNow(w, i) == i

CreatedAt(w, i) == IF previous[w] # 0 THEN previous[w]
                   ELSE IF provisional[w] # 0 THEN provisional[w] ELSE i

ReplaceOrder(w) == \E i \in batch[w] :
  /\ pc[w] = "replace"
  /\ Entry(w, i, "order")
  /\ orderDoc' = [orderDoc EXCEPT ![OrderKey(log[i])] =
                    [at |-> i, created |-> CreatedAt(w, i)]]
  /\ GoTo(w, IF provisional[w] # 0 THEN "delete" ELSE "journal")
  /\ UNCHANGED <<previous, provisional, journal, fillDoc, stateDoc>>

DeleteProvisional(w) == \E i \in batch[w] :
  /\ pc[w] = "delete"
  /\ Entry(w, i, "order")
  /\ orderDoc' = [orderDoc EXCEPT ![<<log[i].id, FALSE>>] = NoDoc]
  /\ GoTo(w, "journal")
  /\ UNCHANGED <<previous, provisional, journal, fillDoc, stateDoc>>

JournalOrder(w) == \E i \in batch[w] :
  /\ pc[w] = "journal"
  /\ Entry(w, i, "order")
  /\ journal' = journal \cup {i}
  /\ GoTo(w, "ack")
  /\ UNCHANGED <<previous, provisional, orderDoc, fillDoc, stateDoc>>

RecordAlert(w) == \E i \in batch[w] :
  /\ Begin(w, i, "alert")
  /\ journal' = journal \cup {i}
  /\ GoTo(w, "ack")
  /\ UNCHANGED <<previous, provisional, orderDoc, fillDoc, stateDoc>>

\* gateway.* and account.updated: $set, the last writer wins.
SetState(w) == \E i \in batch[w] :
  /\ Begin(w, i, "state")
  /\ stateDoc' = [stateDoc EXCEPT ![log[i].id] = i]
  /\ GoTo(w, "ack")
  /\ UNCHANGED <<previous, provisional, orderDoc, journal, fillDoc>>

\* Mutant: $set of the whole fill.
InsertFillOver(w) == \E i \in batch[w] :
  /\ Begin(w, i, "fill")
  /\ fillDoc' = [fillDoc EXCEPT ![log[i].id] =
                   [base |-> i, commission |-> IF log[i].known THEN i ELSE 0]]
  /\ GoTo(w, IF log[i].known THEN "enrich" ELSE "ack")
  /\ UNCHANGED <<previous, provisional, orderDoc, journal, stateDoc>>

\* $setOnInsert of the whole fill, then $set of what the commission report brings.
InsertFill(w) == \E i \in batch[w] :
  /\ Begin(w, i, "fill")
  /\ fillDoc' = [fillDoc EXCEPT ![log[i].id] =
                   IF @.base # 0 THEN @
                   ELSE [base |-> i, commission |-> IF log[i].known THEN i ELSE 0]]
  /\ GoTo(w, IF log[i].known THEN "enrich" ELSE "ack")
  /\ UNCHANGED <<previous, provisional, orderDoc, journal, stateDoc>>

EnrichFill(w) == \E i \in batch[w] :
  /\ pc[w] = "enrich"
  /\ Entry(w, i, "fill")
  /\ fillDoc' = [fillDoc EXCEPT ![log[i].id].commission = i]
  /\ GoTo(w, "ack")
  /\ UNCHANGED <<previous, provisional, orderDoc, journal, stateDoc>>

\* Positions, snapshots and reconciliations are not kept in MongoDB.
SkipOther(w) == \E i \in batch[w] :
  /\ Begin(w, i, "other")
  /\ GoTo(w, "ack")
  /\ UNCHANGED <<previous, provisional, docs>>

Persist(w) ==
  \/ FindOrder(w) \/ FindProvisional(w) \/ ReplaceOrder(w)
  \/ DeleteProvisional(w) \/ JournalOrder(w) \/ RecordAlert(w)
  \/ SetState(w) \/ InsertFill(w) \/ EnrichFill(w) \/ SkipOther(w)

Consume(w) ==
  \/ Start(w) \/ ReadPending(w) \/ NothingPending(w) \/ ReadNew(w)
  \/ BatchDone(w) \/ LostEntry(w) \/ Ack(w) \/ Persist(w)

Next ==
  \/ \E e \in Inputs : Publish(e)
  \/ \E w \in Workers : Consume(w) \/ Fail(w) \/ Crash(w)

Spec == Init /\ [][Next]_vars

\* A consumer keeps running its loop, and a dead worker is restarted; nothing
\* makes a session publish, an error occur or a process die.
FairSpec == Spec /\ \A w \in Workers : WF_vars(Consume(w))
-----------------------------------------------------------------------------
(* Properties *)

\* What the order list shows for o: the perm document, or the provisional one.
Shown(o) == IF orderDoc[<<o, TRUE>>].at # 0 THEN orderDoc[<<o, TRUE>>]
            ELSE orderDoc[<<o, FALSE>>]

\* The order history never goes back: whatever is replayed after an error or
\* a restart, the document of an order never shows an event older than the
\* one it showed (replace_one is unconditional, so this rests on replaying
\* in stream order).
OrderNeverRegresses ==
  [][\A k \in Orders \X BOOLEAN :
        \/ orderDoc'[k].at >= orderDoc[k].at
        \/ orderDoc'[k] = NoDoc /\ ~k[2] /\ orderDoc[<<k[1], TRUE>>].at > orderDoc[k].at]_vars

\* What the documents say of event i: itself, or something later.
Durable(i) == LET e == log[i] IN
  CASE e.kind = "order" -> Shown(e.id).at >= i /\ i \in journal
    [] e.kind = "fill"  -> fillDoc[e.id].base \in 1 .. i /\ (e.known => fillDoc[e.id].commission >= i)
    [] e.kind = "state" -> stateDoc[e.id] >= i
    [] e.kind = "alert" -> i \in journal
    [] OTHER -> TRUE

\* XACK only after the writes: an acknowledged event is in the documents, and an
\* order event also in order_events.  Of a trimmed entry the group no longer
\* tells whether it was acknowledged.
AckedIsDurable == \A i \in trimmed + 1 .. delivered : i \notin pel => Durable(i)

\* An order has two documents only while the event that merges them is still
\* unacknowledged: no provisional document outlives the perm document.
OneDocumentPerOrder == \A o \in Orders :
  (orderDoc[<<o, TRUE>>].at # 0 /\ orderDoc[<<o, FALSE>>].at # 0)
     => orderDoc[<<o, TRUE>>].at \in pel

\* A recorded fill keeps the fields of its first report; commission and
\* realised P&L are only ever set, never taken back to an older report.
FillsAreImmutable ==
  [][\A x \in Fills : fillDoc[x].base # 0 =>
        /\ fillDoc'[x].base = fillDoc[x].base
        /\ fillDoc'[x].commission >= fillDoc[x].commission]_vars

\* What was delivered and never acknowledged is in the hands of a consumer, or a
\* consumer reads it again before anything new: no error, cancellation or crash
\* leaves an entry that only a restart would find ("0" and ">" of
\* durable_consumer, worker.py 61-82).
NothingStranded == \A i \in pel : \E w \in Workers :
  i \in batch[w] \/ pending[w] \/ pc[w] = "off"

\* Every published event is sooner or later acknowledged.
EveryEventAcked == \A i \in 1 .. MaxEvents :
  (Len(log) >= i) ~> (i <= delivered /\ i \notin pel)

\* The detailed path implements the abstract ledger of orders.
Ledger == INSTANCE OrderLedger WITH
            Horizon <- MaxEvents,
            book <- [o \in Orders |-> Shown(o).at],
            opened <- [o \in Orders |-> Shown(o).created]
ImplementsLedger == Ledger!Spec
=============================================================================
