------------------------ MODULE DurableStreamProofs ------------------------
(***************************************************************************)
(* What the durable path guarantees for every number of orders, fills,      *)
(* events, faults and every retention, when one worker consumes the tenant: *)
(* TypeCorrect holds for any number of workers, the rest for one.           *)
(*                                                                         *)
(* The argument: replace_one is unconditional, so nothing but the order of  *)
(* replay protects a document.  The pending list always holds exactly what  *)
(* is newer than (or the same as) everything in the documents, and the      *)
(* batch is always its oldest part; so the entry being written is never     *)
(* older than what it overwrites.                                           *)
(***************************************************************************)
EXTENDS DurableStream, FiniteSetTheorems, TLAPS

\* Everything recorded is older than everything pending.
Behind ==
  /\ \A k \in Orders \X BOOLEAN :
        /\ orderDoc[k].at <= delivered
        /\ \A i \in pel : orderDoc[k].at <= i
  /\ \A x \in Fills :
        /\ fillDoc[x].commission <= delivered
        /\ \A i \in pel : fillDoc[x].commission <= i

\* The batch is the oldest part of the pending list, and all of it once the
\* backlog has been drained.
BatchIsOldest(w) ==
  /\ batch[w] \subseteq pel
  /\ \A j \in batch[w] : \A i \in pel : i \notin batch[w] => j < i
  /\ pc[w] \in {"off", "idle"} => batch[w] = {}
  /\ pc[w] # "off" /\ ~pending[w] => pel = batch[w]

\* A document shows an event of its own order and key.
DocSource ==
  \A k \in Orders \X BOOLEAN :
     /\ orderDoc[k].at # 0 <=> orderDoc[k].created # 0
     /\ orderDoc[k].at # 0 =>
          /\ orderDoc[k].at \in 1 .. Len(log)
          /\ log[orderDoc[k].at].kind = "order"
          /\ OrderKey(log[orderDoc[k].at]) = k

\* perm_id is never lost again along the log.
PermKept == \A i, j \in 1 .. Len(log) :
  (i < j /\ log[i].kind = "order" /\ log[j].kind = "order"
     /\ log[i].id = log[j].id /\ log[i].known) => log[j].known

\* What persist has found or done so far for the entry it is at.
DoneFor(w, i) ==
  /\ pc[w] = "prov" => log[i].kind = "order" /\ log[i].known
  /\ pc[w] = "replace" =>
       /\ log[i].kind = "order"
       /\ provisional[w] = IF log[i].known THEN orderDoc[<<log[i].id, FALSE>>].created ELSE 0
  /\ pc[w] = "delete" =>
       /\ log[i].kind = "order" /\ log[i].known
       /\ orderDoc[<<log[i].id, TRUE>>].at = i
  /\ pc[w] = "journal" => log[i].kind = "order"
  /\ pc[w] \in {"journal", "ack"} /\ log[i].kind = "order" /\ log[i].known =>
       orderDoc[<<log[i].id, FALSE>>].at = 0
  /\ pc[w] = "enrich" => log[i].kind = "fill"

Progress(w) == \A i \in batch[w] : AtEntry(w, i) => DoneFor(w, i)

IInv(w) == /\ TypeOK
           /\ Behind
           /\ BatchIsOldest(w)
           /\ DocSource
           /\ PermKept
           /\ Progress(w)
           /\ OneDocumentPerOrder
-----------------------------------------------------------------------------
(* FirstOf takes a lower part of a set of stream ids. *)
LEMMA FirstOfIsSubset == \A S : FirstOf(S) \subseteq S
BY DEF FirstOf

LEMMA FirstOfIsOldest ==
  ASSUME NEW n \in Nat, NEW S \in SUBSET (1 .. n),
         NEW i \in S, NEW j \in FirstOf(S), i \notin FirstOf(S)
  PROVE  j < i
<1> DEFINE Below(m) == {k \in S : k < m}
<1>1. \A m : IsFiniteSet(Below(m))
  <2>1. IsFiniteSet(1 .. n)  BY FS_Interval
  <2>2. IsFiniteSet(S)  BY <2>1, FS_Subset
  <2>3. QED  BY <2>2, FS_Subset
<1>2. SUFFICES ASSUME ~(j < i) PROVE FALSE
  OBVIOUS
<1>3. Below(i) \subseteq Below(j)
  <2>1. j \in S  BY FirstOfIsSubset
  <2>2. i \in Int /\ j \in Int /\ \A k \in S : k \in Int  BY <2>1
  <2>3. ASSUME NEW k \in S, k < i PROVE k < j
    BY <1>2, <2>2, <2>3
  <2>4. QED  BY <2>3
<1>4. Cardinality(Below(i)) <= Cardinality(Below(j))
  BY <1>1, <1>3, FS_Subset
<1>5. Cardinality(Below(i)) \in Nat /\ Cardinality(Below(j)) \in Nat
  BY <1>1, FS_CardinalityType
<1>6. Cardinality(Below(j)) < BatchSize /\ ~(Cardinality(Below(i)) < BatchSize)
  BY DEF FirstOf
<1>7. QED  BY <1>4, <1>5, <1>6, ConstantsAssumption

-----------------------------------------------------------------------------
(* Every variable keeps its type, with any number of workers. *)
LEMMA InitType == Init => TypeOK
BY ConstantsAssumption DEF Init, TypeOK, NoDoc, NoFill, OrderDocs, FillDocs, Steps

LEMMA PublishType == ASSUME TypeOK, NEW e \in Inputs, Publish(e) PROVE TypeOK'
BY DEF TypeOK, Publish, locals, docs

LEMMA ConsumeType ==
  ASSUME TypeOK, NEW w \in Workers, Consume(w) \/ Fail(w) \/ Crash(w)
  PROVE  TypeOK'
<1> USE DEF TypeOK, stream, locals, docs
<1>0. Len(log) \in Nat /\ delivered \in Nat /\ delivered <= Len(log)
  OBVIOUS
<1>1. CASE Start(w)  BY <1>1 DEF Start, Steps
<1>2. CASE ReadPending(w)
  <2>1. FirstOf(pel) \subseteq pel  BY FirstOfIsSubset
  <2>2. FirstOf(pel) \in SUBSET (1 .. Len(log))
    <3>1. \A i \in pel : i \in 1 .. Len(log)  BY <1>0
    <3>2. QED  BY <2>1, <3>1
  <2>3. QED  BY <1>2, <2>2 DEF ReadPending, Steps
<1>3. CASE NothingPending(w)  BY <1>3 DEF NothingPending
<1>4. CASE ReadNew(w)
  <2>1. FirstOf(Undelivered) \subseteq Undelivered  BY FirstOfIsSubset
  <2>2. Undelivered \subseteq 1 .. Len(log)  BY DEF Undelivered
  <2>3. delivered' \in FirstOf(Undelivered) /\ delivered' > delivered
    BY <1>4, <2>1 DEF ReadNew, Undelivered
  <2>4. pel' \subseteq 1 .. delivered'
    <3>1. delivered' \in Nat /\ \A i \in FirstOf(Undelivered) : i \in 1 .. delivered'
      <4>1. \A i \in FirstOf(Undelivered) : i \in 1 .. Len(log)
        BY <2>1, <2>2
      <4>2. \A i \in FirstOf(Undelivered) : i <= delivered'
        BY <1>4 DEF ReadNew
      <4>3. delivered' \in 1 .. Len(log)  BY <2>3, <4>1
      <4>4. QED  BY <1>0, <4>1, <4>2, <4>3
    <3>2. \A i \in pel : i \in 1 .. delivered'
      BY <1>0, <2>3, <3>1
    <3>3. QED  BY <1>4, <3>1, <3>2 DEF ReadNew
  <2>5. QED
    BY <1>4, <2>1, <2>2, <2>3, <2>4 DEF ReadNew, Steps
<1>5. CASE BatchDone(w)  BY <1>5 DEF BatchDone, Steps
<1>6. CASE LostEntry(w)  BY <1>6 DEF LostEntry, Recover, Steps
<1>7. CASE Ack(w)  BY <1>7 DEF Ack, Steps
<1>8. CASE Fail(w)  BY <1>8 DEF Fail, Recover, Steps
<1>9. CASE Crash(w)  BY <1>9 DEF Crash, Steps
<1>10. CASE FindOrder(w)
  <2>1. PICK i \in batch[w] : Begin(w, i, "order") /\
          previous' = [previous EXCEPT ![w] = orderDoc[OrderKey(log[i])].created]
    BY <1>10 DEF FindOrder
  <2>2. log[i] \in Inputs /\ log[i].kind = "order"  BY <2>1 DEF Begin, Entry
  <2>3. OrderKey(log[i]) \in Orders \X BOOLEAN
    BY <2>2, ConstantsAssumption DEF OrderKey
  <2>4. previous' \in [Workers -> Nat]  BY <2>1, <2>3 DEF OrderDocs
  <2>5. QED  BY <1>10, <2>4 DEF FindOrder, GoTo, Steps
<1>11. CASE FindProvisional(w)
  <2>1. PICK i \in batch[w] : Entry(w, i, "order") /\
          provisional' = [provisional EXCEPT ![w] = orderDoc[<<log[i].id, FALSE>>].created]
    BY <1>11 DEF FindProvisional
  <2>2. log[i] \in Inputs /\ log[i].kind = "order"  BY <2>1 DEF Entry
  <2>3. <<log[i].id, FALSE>> \in Orders \X BOOLEAN  BY <2>2, ConstantsAssumption
  <2>4. provisional' \in [Workers -> Nat]  BY <2>1, <2>3 DEF OrderDocs
  <2>5. QED  BY <1>11, <2>4 DEF FindProvisional, GoTo, Steps
<1>12. CASE ReplaceOrder(w)
  <2>1. PICK i \in batch[w] : orderDoc' = [orderDoc EXCEPT ![OrderKey(log[i])] =
                    [at |-> i, created |-> CreatedAt(w, i)]]
    BY <1>12 DEF ReplaceOrder
  <2>2. CreatedAt(w, i) \in Nat /\ i \in Nat  BY DEF CreatedAt
  <2>3. orderDoc' \in [Orders \X BOOLEAN -> OrderDocs]
    BY <2>1, <2>2 DEF OrderDocs
  <2>4. QED  BY <1>12, <2>3 DEF ReplaceOrder, GoTo, Steps
<1>13. CASE DeleteProvisional(w)
  <2>1. NoDoc \in OrderDocs  BY DEF NoDoc, OrderDocs
  <2>2. orderDoc' \in [Orders \X BOOLEAN -> OrderDocs]
    BY <1>13, <2>1 DEF DeleteProvisional
  <2>3. QED  BY <1>13, <2>2 DEF DeleteProvisional, GoTo, Steps
<1>14. CASE JournalOrder(w)  BY <1>14 DEF JournalOrder, GoTo, Steps
<1>15. CASE RecordAlert(w)  BY <1>15 DEF RecordAlert, GoTo, Steps
<1>16. CASE SetState(w)
  <2>1. PICK i \in batch[w] : stateDoc' = [stateDoc EXCEPT ![log[i].id] = i]
    BY <1>16 DEF SetState
  <2>2. i \in Nat  BY <1>0
  <2>3. stateDoc' \in [States -> Nat]  BY <2>1, <2>2
  <2>4. QED  BY <1>16, <2>3 DEF SetState, GoTo, Steps
<1>17. CASE InsertFill(w)
  <2>1. PICK i \in batch[w] : fillDoc' = [fillDoc EXCEPT ![log[i].id] =
                   IF @.base # 0 THEN @
                   ELSE [base |-> i, commission |-> IF log[i].known THEN i ELSE 0]]
    BY <1>17 DEF InsertFill
  <2>2. i \in Nat  OBVIOUS
  <2>3. fillDoc' \in [Fills -> FillDocs]  BY <2>1, <2>2 DEF FillDocs
  <2>4. QED  BY <1>17, <2>3 DEF InsertFill, GoTo, Steps
<1>18. CASE EnrichFill(w)
  <2>1. PICK i \in batch[w] :
          fillDoc' = [fillDoc EXCEPT ![log[i].id].commission = i]
    BY <1>18 DEF EnrichFill
  <2>2. i \in Nat  OBVIOUS
  <2>3. fillDoc' \in [Fills -> FillDocs]  BY <2>1, <2>2 DEF FillDocs
  <2>4. QED  BY <1>18, <2>3 DEF EnrichFill, GoTo, Steps
<1>19. CASE SkipOther(w)  BY <1>19 DEF SkipOther, GoTo, Steps
<1>20. QED
  BY <1>1, <1>2, <1>3, <1>4, <1>5, <1>6, <1>7, <1>8, <1>9, <1>10, <1>11, <1>12,
     <1>13, <1>14, <1>15, <1>16, <1>17, <1>18, <1>19 DEF Consume, Persist

LEMMA NextType == TypeOK /\ [Next]_vars => TypeOK'
<1> SUFFICES ASSUME TypeOK, [Next]_vars PROVE TypeOK'
  OBVIOUS
<1>1. CASE \E e \in Inputs : Publish(e)  BY <1>1, PublishType
<1>2. CASE \E w \in Workers : Consume(w) \/ Fail(w) \/ Crash(w)
  BY <1>2, ConsumeType
<1>3. CASE UNCHANGED vars  BY <1>3 DEF vars, stream, locals, docs, TypeOK
<1>4. QED  BY <1>1, <1>2, <1>3 DEF Next

\* The types hold in every reachable state of the durable path.
THEOREM TypeCorrect == Spec => []TypeOK
BY InitType, NextType, PTL DEF Spec
-----------------------------------------------------------------------------
(* Any number of workers share the pending entries. A consumer that reads  *)
(* has nothing left of its last batch, so what it reads anew is added to   *)
(* what is in hand and never takes its place.                              *)
HandsEmpty == \A w \in Workers : pc[w] \in {"idle", "off"} => batch[w] = {}
SInv == TypeOK /\ HandsEmpty /\ NothingStranded

\* A step of one consumer leaves the hands of the others alone.
LEMMA LoopStranded ==
  ASSUME SInv, NEW w \in Workers,
         \/ Start(w) \/ ReadPending(w) \/ NothingPending(w) \/ ReadNew(w) \/ BatchDone(w)
         \/ LostEntry(w) \/ Ack(w) \/ Fail(w) \/ Crash(w)
  PROVE  HandsEmpty' /\ NothingStranded'
<1> USE DEF SInv, TypeOK, HandsEmpty, NothingStranded
<1>1. CASE Start(w)  BY <1>1 DEF Start, stream
<1>2. CASE ReadPending(w)
  <2>1. FirstOf(pel) \subseteq pel  BY FirstOfIsSubset
  <2>2. pel' = pel /\ pending' = pending /\ pending[w] /\ pc' = [pc EXCEPT ![w] = "next"]
        /\ \A v \in Workers : v # w => batch'[v] = batch[v]
    BY <1>2 DEF ReadPending, stream
  <2>3. NothingStranded'  BY <2>2
  <2>4. HandsEmpty'  BY <2>2
  <2>5. QED  BY <2>3, <2>4
<1>3. CASE NothingPending(w)  BY <1>3 DEF NothingPending, stream
<1>4. CASE ReadNew(w)
  <2>1. /\ pel' = pel \cup FirstOf(Undelivered) /\ batch' = [batch EXCEPT ![w] = FirstOf(Undelivered)]
        /\ pending' = pending /\ pc' = [pc EXCEPT ![w] = "next"] /\ pc[w] = "idle" /\ ~pending[w]
    BY <1>4 DEF ReadNew
  <2>2. ASSUME NEW i \in pel'
        PROVE  \E v \in Workers : i \in batch'[v] \/ pending'[v] \/ pc'[v] = "off"
    <3>1. CASE i \in FirstOf(Undelivered)  BY <2>1, <3>1
    <3>2. CASE i \in pel
      <4>1. PICK v \in Workers : i \in batch[v] \/ pending[v] \/ pc[v] = "off"  BY <3>2
      <4>2. v # w  BY <2>1, <4>1
      <4>3. QED  BY <2>1, <4>1, <4>2
    <3>3. QED  BY <2>1, <2>2, <3>1, <3>2
  <2>3. HandsEmpty'  BY <2>1
  <2>4. QED  BY <2>2, <2>3
<1>5. CASE BatchDone(w)  BY <1>5 DEF BatchDone, stream
<1>6. CASE LostEntry(w)  BY <1>6 DEF LostEntry, Recover, stream
<1>7. CASE Ack(w)
  <2>1. PICK j \in batch[w] : pel' = pel \ {j} /\ batch' = [batch EXCEPT ![w] = @ \ {j}]
    BY <1>7 DEF Ack
  <2>2. pending' = pending /\ pc' = [pc EXCEPT ![w] = "next"]  BY <1>7 DEF Ack
  <2>3. ASSUME NEW i \in pel'
        PROVE  \E v \in Workers : i \in batch'[v] \/ pending'[v] \/ pc'[v] = "off"
    <3>1. PICK v \in Workers : i \in batch[v] \/ pending[v] \/ pc[v] = "off"  BY <2>1, <2>3
    <3>2. i \in batch[v] => i \in batch'[v]  BY <2>1, <2>3
    <3>3. pc[v] = "off" => v # w  BY <1>7 DEF Ack
    <3>4. QED  BY <2>2, <3>1, <3>2, <3>3
  <2>4. HandsEmpty'  BY <2>1, <2>2
  <2>5. QED  BY <2>3, <2>4
<1>8. CASE Fail(w)  BY <1>8 DEF Fail, Recover, stream
<1>9. CASE Crash(w)  BY <1>9 DEF Crash, stream
<1>10. QED  BY <1>1, <1>2, <1>3, <1>4, <1>5, <1>6, <1>7, <1>8, <1>9

\* The writes of a consumer neither take an entry nor drop one.
LEMMA PersistStranded ==
  ASSUME SInv, NEW w \in Workers, Persist(w)
  PROVE  HandsEmpty' /\ NothingStranded'
<1>1. /\ pel' = pel /\ pending' = pending /\ batch' = batch
      /\ \E step \in Steps \ {"idle", "off"} : pc' = [pc EXCEPT ![w] = step]
      /\ pc[w] \notin {"idle", "off"}
  BY DEF Persist, FindOrder, FindProvisional, ReplaceOrder, DeleteProvisional, JournalOrder,
     RecordAlert, SetState, InsertFill, EnrichFill, SkipOther, Begin, GoTo, stream, Steps
<1>2. QED  BY <1>1 DEF SInv, TypeOK, HandsEmpty, NothingStranded

\* However many workers consume a tenant and whatever fails, is cancelled or
\* crashes, an entry that was delivered and not acknowledged is in the hands of
\* a consumer or will be read again before anything new (durable_consumer,
\* worker.py 57-82).
THEOREM PendingIsReadAgain == Spec => []NothingStranded
<1>1. Init => SInv
  <2>1. Init => HandsEmpty /\ NothingStranded  BY DEF Init, HandsEmpty, NothingStranded
  <2>2. QED  BY <2>1, InitType DEF SInv
<1>2. SInv /\ [Next]_vars => SInv'
  <2>1. SUFFICES ASSUME SInv, [Next]_vars PROVE SInv'  OBVIOUS
  <2>2. TypeOK'  BY <2>1, NextType DEF SInv
  <2>3. CASE \E e \in Inputs : Publish(e)
    BY <2>1, <2>2, <2>3 DEF SInv, HandsEmpty, NothingStranded, Publish, locals
  <2>4. CASE \E w \in Workers : Consume(w) \/ Fail(w) \/ Crash(w)
    BY <2>1, <2>2, <2>4, LoopStranded, PersistStranded DEF SInv, Consume
  <2>5. CASE UNCHANGED vars
    BY <2>1, <2>2, <2>5 DEF SInv, HandsEmpty, NothingStranded, vars, stream, locals
  <2>6. QED  BY <2>1, <2>3, <2>4, <2>5 DEF Next
<1>3. SInv => NothingStranded  BY DEF SInv
<1>4. QED  BY <1>1, <1>2, <1>3, PTL DEF Spec
-----------------------------------------------------------------------------
(* One worker.  The entry a consumer is at is the oldest pending one. *)
LEMMA CurrentIsOldest ==
  ASSUME NEW w \in Workers, IInv(w), NEW i \in batch[w], AtEntry(w, i)
  PROVE  /\ i \in pel /\ i \in 1 .. Len(log) /\ i <= delivered
         /\ \A j \in pel : i <= j
         /\ \A j \in batch[w] : AtEntry(w, j) => j = i
<1>1. /\ Len(log) \in Nat /\ delivered \in Nat /\ delivered <= Len(log)
      /\ batch[w] \subseteq 1 .. Len(log) /\ pel \subseteq 1 .. delivered
  BY DEF IInv, TypeOK
<1>2. i \in pel  BY DEF IInv, BatchIsOldest
<1>3. i \in 1 .. Len(log) /\ i <= delivered  BY <1>1, <1>2
<1>4. ASSUME NEW j \in pel PROVE i <= j
  <2>1. i \in Int /\ j \in Int  BY <1>1, <1>2
  <2>2. CASE j \in batch[w]  BY <2>2 DEF AtEntry
  <2>3. CASE j \notin batch[w]
    BY <2>1, <2>3 DEF IInv, BatchIsOldest
  <2>4. QED  BY <2>2, <2>3
<1>5. ASSUME NEW j \in batch[w], AtEntry(w, j) PROVE j = i
  <2>1. i \in Int /\ j \in Int  BY <1>1
  <2>2. i <= j /\ j <= i  BY <1>5 DEF AtEntry
  <2>3. QED  BY <2>1, <2>2
<1>6. QED  BY <1>2, <1>3, <1>4, <1>5

LEMMA InitInv == ASSUME NEW w \in Workers, Init PROVE IInv(w)
<1>1. TypeOK  BY InitType
<1>2. Behind  BY DEF Init, Behind, NoDoc, NoFill
<1>3. BatchIsOldest(w)  BY DEF Init, BatchIsOldest
<1>4. DocSource  BY DEF Init, DocSource, NoDoc
<1>5. PermKept
  <2>1. Len(log) = 0  BY DEF Init
  <2>2. QED  BY <2>1 DEF PermKept
<1>6. Progress(w)  BY DEF Init, Progress, DoneFor
<1>7. OneDocumentPerOrder  BY DEF Init, OneDocumentPerOrder, NoDoc
<1>8. QED  BY <1>1, <1>2, <1>3, <1>4, <1>5, <1>6, <1>7 DEF IInv

LEMMA PublishInv ==
  ASSUME NEW w \in Workers, IInv(w), NEW e \in Inputs, Publish(e)
  PROVE  IInv(w)'
<1> USE DEF Publish, locals, docs
<1>1. TypeOK /\ TypeOK'  BY PublishType DEF IInv
<1>2. /\ Len(log) \in Nat /\ Len(log') = Len(log) + 1
      /\ \A i \in 1 .. Len(log) : log'[i] = log[i]
      /\ log'[Len(log) + 1] = e
  BY <1>1 DEF TypeOK
<1>3. Behind'  BY DEF IInv, Behind
<1>4. BatchIsOldest(w)'  BY DEF IInv, BatchIsOldest
<1>5. DocSource'
  <2>1. SUFFICES ASSUME NEW k \in Orders \X BOOLEAN, orderDoc[k].at # 0
        PROVE  /\ orderDoc[k].at \in 1 .. Len(log')
               /\ log'[orderDoc[k].at].kind = "order"
               /\ <<log'[orderDoc[k].at].id, log'[orderDoc[k].at].known>> = k
    BY DEF IInv, DocSource, OrderKey
  <2>2. /\ orderDoc[k].at \in 1 .. Len(log)
        /\ log[orderDoc[k].at].kind = "order"
        /\ <<log[orderDoc[k].at].id, log[orderDoc[k].at].known>> = k
    BY <2>1 DEF IInv, DocSource, OrderKey
  <2>3. QED  BY <1>2, <2>2
<1>6. PermKept'
  <2>1. SUFFICES ASSUME NEW i \in 1 .. Len(log'), NEW j \in 1 .. Len(log'), i < j,
                        log'[i].kind = "order", log'[j].kind = "order",
                        log'[i].id = log'[j].id, log'[i].known
        PROVE  log'[j].known
    BY DEF PermKept
  <2>2. i \in 1 .. Len(log) /\ log'[i] = log[i]  BY <1>2, <2>1
  <2>3. CASE j \in 1 .. Len(log)
    BY <1>2, <2>1, <2>2, <2>3 DEF IInv, PermKept
  <2>4. CASE j = Len(log) + 1
    BY <1>2, <2>1, <2>2, <2>4 DEF PermIsKept
  <2>5. QED  BY <1>2, <2>3, <2>4
<1>7. Progress(w)'
  <2>1. \A i \in batch[w] : log'[i] = log[i]  BY <1>1, <1>2 DEF TypeOK
  <2>2. Progress(w)  BY DEF IInv
  <2>3. UNCHANGED <<pc, batch, provisional, orderDoc>>  OBVIOUS
  <2>4. \A i \in batch[w] : AtEntry(w, i)' <=> AtEntry(w, i)
    BY <2>3 DEF AtEntry
  <2>5. SUFFICES ASSUME NEW i \in batch[w], AtEntry(w, i)
        PROVE DoneFor(w, i)'
    BY <2>3, <2>4 DEF Progress
  <2>6. DoneFor(w, i) /\ log'[i] = log[i]  BY <2>1, <2>2, <2>5 DEF Progress
  <2>7. QED  BY <2>3, <2>6 DEF DoneFor
<1>8. OneDocumentPerOrder'  BY DEF IInv, OneDocumentPerOrder
<1>9. QED  BY <1>1, <1>3, <1>4, <1>5, <1>6, <1>7, <1>8 DEF IInv

(* The read loop and XACK leave every document alone. *)
LEMMA LoopInv ==
  ASSUME NEW w \in Workers, IInv(w),
         \/ Start(w) \/ ReadPending(w) \/ NothingPending(w) \/ ReadNew(w)
         \/ BatchDone(w) \/ LostEntry(w) \/ Ack(w) \/ Fail(w) \/ Crash(w)
  PROVE  IInv(w)'
<1> USE DEF stream, locals, docs
<1>1. TypeOK /\ TypeOK'  BY ConsumeType DEF IInv, Consume
<1>2. /\ Len(log) \in Nat /\ delivered \in Nat /\ delivered <= Len(log)
      /\ batch[w] \subseteq 1 .. Len(log) /\ pel \subseteq 1 .. delivered
      /\ pc[w] \in Steps
  BY <1>1 DEF TypeOK
<1>3. UNCHANGED <<log, docs>>
  BY DEF Start, ReadPending, NothingPending, ReadNew, BatchDone, LostEntry, Ack,
         Fail, Recover, Crash
<1>4. DocSource' /\ PermKept'
  <2>1. DocSource /\ PermKept  BY DEF IInv
  <2>2. DocSource'  BY <1>3, <2>1 DEF DocSource, OrderKey
  <2>3. PermKept'  BY <1>3, <2>1 DEF PermKept
  <2>4. QED  BY <2>2, <2>3
<1>5. CASE \/ Start(w) \/ NothingPending(w) \/ BatchDone(w) \/ LostEntry(w)
           \/ Fail(w) \/ Crash(w)
  <2> USE <1>5 DEF Start, NothingPending, BatchDone, LostEntry, Fail, Recover, Crash
  <2>1. UNCHANGED <<pel, delivered>>  OBVIOUS
  <2>2. Behind'  BY <1>3, <2>1 DEF IInv, Behind
  <2>3. OneDocumentPerOrder'  BY <1>3, <2>1 DEF IInv, OneDocumentPerOrder
  <2>4. BatchIsOldest(w)' /\ batch'[w] = {}
    <3>1. batch'[w] = {}  BY <1>1 DEF IInv, BatchIsOldest, TypeOK
    <3>2. pc'[w] # "off" /\ ~pending'[w] => pel' = {}
      BY <1>1 DEF IInv, BatchIsOldest, TypeOK
    <3>3. QED  BY <3>1, <3>2 DEF BatchIsOldest
  <2>5. Progress(w)'  BY <2>4 DEF Progress, DoneFor
  <2>6. QED  BY <1>1, <1>4, <2>2, <2>3, <2>4, <2>5 DEF IInv
<1>6. CASE ReadPending(w)
  <2> USE <1>6 DEF ReadPending
  <2>1. UNCHANGED <<pel, delivered>>  OBVIOUS
  <2>2. Behind'  BY <1>3, <2>1 DEF IInv, Behind
  <2>3. OneDocumentPerOrder'  BY <1>3, <2>1 DEF IInv, OneDocumentPerOrder
  <2>4. BatchIsOldest(w)'
    <3>1. batch'[w] = FirstOf(pel) /\ FirstOf(pel) \subseteq pel
      BY <1>1, FirstOfIsSubset DEF TypeOK
    <3>2. pc'[w] = "next" /\ pending'[w]  BY <1>1 DEF TypeOK
    <3>3. \A j \in FirstOf(pel) : \A i \in pel : i \notin FirstOf(pel) => j < i
      BY <1>2, FirstOfIsOldest
    <3>4. QED  BY <2>1, <3>1, <3>2, <3>3 DEF BatchIsOldest
  <2>5. Progress(w)'
    <3>1. pc'[w] = "next"  BY <1>1 DEF TypeOK
    <3>2. QED  BY <3>1 DEF Progress, DoneFor
  <2>6. QED  BY <1>1, <1>4, <2>2, <2>3, <2>4, <2>5 DEF IInv
<1>7. CASE ReadNew(w)
  <2> USE <1>7 DEF ReadNew
  <2>1. FirstOf(Undelivered) \subseteq Undelivered  BY FirstOfIsSubset
  <2>2. pel = {}  BY DEF IInv, BatchIsOldest
  <2>3. pel' = FirstOf(Undelivered) /\ batch'[w] = pel' /\ pc'[w] = "next"
    BY <1>1, <2>2 DEF TypeOK
  <2>4. delivered' \in Nat /\ delivered' > delivered
    <3>1. delivered' \in Undelivered  BY <2>1
    <3>2. QED  BY <1>2, <3>1 DEF Undelivered
  <2>5. \A i \in pel' : i \in Nat /\ i > delivered
    <3>1. ASSUME NEW i \in Undelivered PROVE i \in Nat /\ i > delivered
      BY <1>2 DEF Undelivered
    <3>2. QED  BY <2>1, <2>3, <3>1
  <2>6. Behind'
    <3>1. \A k \in Orders \X BOOLEAN : orderDoc[k].at \in Nat /\ orderDoc[k].at <= delivered
      BY <1>1 DEF IInv, Behind, TypeOK, OrderDocs
    <3>2. \A x \in Fills : fillDoc[x].commission \in Nat /\ fillDoc[x].commission <= delivered
      BY <1>1 DEF IInv, Behind, TypeOK, FillDocs
    <3>3. ASSUME NEW n \in Nat, n <= delivered
          PROVE  n <= delivered' /\ \A i \in pel' : n <= i
      BY <1>2, <2>4, <2>5, <3>3
    <3>4. QED  BY <1>3, <3>1, <3>2, <3>3 DEF Behind
  <2>7. OneDocumentPerOrder'  BY <1>3, <2>2 DEF IInv, OneDocumentPerOrder
  <2>8. BatchIsOldest(w)'  BY <2>3 DEF BatchIsOldest
  <2>9. Progress(w)'  BY <2>3 DEF Progress, DoneFor
  <2>10. QED  BY <1>1, <1>4, <2>6, <2>7, <2>8, <2>9 DEF IInv
<1>8. CASE Ack(w)
  <2>1. PICK i \in batch[w] : /\ AtEntry(w, i) /\ pel' = pel \ {i}
                              /\ batch'[w] = batch[w] \ {i}
    BY <1>1, <1>8 DEF Ack, TypeOK
  <2>2. /\ pc[w] = "ack" /\ pc'[w] = "next"
        /\ UNCHANGED <<delivered, pending>>
    BY <1>1, <1>8 DEF Ack, TypeOK
  <2>3. Behind'  BY <1>3, <2>1, <2>2 DEF IInv, Behind
  <2>4. BatchIsOldest(w)'
    BY <2>1, <2>2 DEF IInv, BatchIsOldest
  <2>5. Progress(w)'  BY <2>2 DEF Progress, DoneFor
  <2>6. OneDocumentPerOrder'
    <3>1. SUFFICES ASSUME NEW o \in Orders, orderDoc[<<o, TRUE>>].at # 0,
                          orderDoc[<<o, FALSE>>].at # 0
          PROVE  orderDoc[<<o, TRUE>>].at # i
      BY <1>3, <2>1 DEF IInv, OneDocumentPerOrder
    <3>2. SUFFICES ASSUME orderDoc[<<o, TRUE>>].at = i PROVE FALSE
      OBVIOUS
    <3>3. log[i].kind = "order" /\ log[i].id = o /\ log[i].known
      <4>1. <<o, TRUE>> \in Orders \X BOOLEAN  OBVIOUS
      <4>2. /\ log[i].kind = "order"
            /\ <<log[i].id, log[i].known>> = <<o, TRUE>>
        BY <3>1, <3>2, <4>1 DEF IInv, DocSource, OrderKey
      <4>3. QED  BY <4>2
    <3>4. orderDoc[<<log[i].id, FALSE>>].at = 0
      BY <2>1, <2>2, <3>3 DEF IInv, Progress, DoneFor
    <3>5. QED  BY <3>1, <3>3, <3>4
  <2>7. QED  BY <1>1, <1>4, <2>3, <2>4, <2>5, <2>6 DEF IInv
<1>9. QED  BY <1>5, <1>6, <1>7, <1>8

(* A step of persist leaves the stream and the batch alone; what is left to  *)
(* show is about the documents and about the entry it is at.                *)
LEMMA PersistFrame ==
  ASSUME NEW w \in Workers, IInv(w), Persist(w)
  PROVE  /\ UNCHANGED <<log, delivered, pel, batch>>
         /\ TypeOK /\ TypeOK'
         /\ BatchIsOldest(w)' /\ PermKept'
         /\ \E i \in batch[w] : AtEntry(w, i) /\ (DoneFor(w, i)' => Progress(w)')
<1> USE DEF stream, GoTo
<1>1. TypeOK /\ TypeOK'  BY ConsumeType DEF IInv, Consume
<1>2. UNCHANGED <<log, delivered, pel, batch, pending>>
  BY DEF Persist, FindOrder, FindProvisional, ReplaceOrder, DeleteProvisional,
         JournalOrder, RecordAlert, SetState, InsertFill, EnrichFill, SkipOther
<1>3. pc[w] \notin {"off", "idle"} /\ pc'[w] \notin {"off", "idle"}
  <2>1. pc[w] \in {"next", "prov", "replace", "delete", "journal", "enrich"}
    BY DEF Persist, FindOrder, FindProvisional, ReplaceOrder, DeleteProvisional,
           JournalOrder, RecordAlert, SetState, InsertFill, EnrichFill, SkipOther, Begin
  <2>2. \E step \in {"prov", "replace", "delete", "journal", "enrich", "ack"} :
           pc' = [pc EXCEPT ![w] = step]
    <3>1. CASE FindOrder(w)  BY <3>1 DEF FindOrder
    <3>2. CASE FindProvisional(w)  BY <3>2 DEF FindProvisional
    <3>3. CASE ReplaceOrder(w)  BY <3>3 DEF ReplaceOrder
    <3>4. CASE DeleteProvisional(w) \/ JournalOrder(w)
      BY <3>4 DEF DeleteProvisional, JournalOrder
    <3>5. CASE RecordAlert(w) \/ SetState(w) \/ SkipOther(w)
      BY <3>5 DEF RecordAlert, SetState, SkipOther
    <3>6. CASE InsertFill(w)  BY <3>6 DEF InsertFill
    <3>7. CASE EnrichFill(w)  BY <3>7 DEF EnrichFill
    <3>8. QED
      BY <3>1, <3>2, <3>3, <3>4, <3>5, <3>6, <3>7 DEF Persist
  <2>3. PICK step \in {"prov", "replace", "delete", "journal", "enrich", "ack"} :
           pc' = [pc EXCEPT ![w] = step]
    BY <2>2
  <2>4. pc'[w] = step  BY <1>1, <2>3 DEF TypeOK
  <2>5. QED  BY <2>1, <2>3, <2>4
<1>4. PICK i \in batch[w] : AtEntry(w, i)
  BY DEF Persist, FindOrder, FindProvisional, ReplaceOrder, DeleteProvisional,
         JournalOrder, RecordAlert, SetState, InsertFill, EnrichFill, SkipOther,
         Begin, Entry
<1>5. BatchIsOldest(w)'  BY <1>2, <1>3 DEF IInv, BatchIsOldest
<1>6. PermKept'  BY <1>2 DEF IInv, PermKept
<1>7. DoneFor(w, i)' => Progress(w)'
  <2>1. \A j \in batch[w] : AtEntry(w, j) => j = i  BY <1>4, CurrentIsOldest
  <2>2. \A j \in batch'[w] : AtEntry(w, j)' => j = i  BY <1>2, <2>1 DEF AtEntry
  <2>3. QED  BY <1>2, <2>2 DEF Progress
<1>8. QED  BY <1>1, <1>2, <1>4, <1>5, <1>6, <1>7

(* Steps of persist that write no order and no fill. *)
LEMMA OtherWritesInv ==
  ASSUME NEW w \in Workers, IInv(w),
         \/ FindOrder(w) \/ FindProvisional(w) \/ JournalOrder(w)
         \/ RecordAlert(w) \/ SetState(w) \/ SkipOther(w)
  PROVE  IInv(w)'
<1>1. /\ UNCHANGED <<log, delivered, pel, batch>>
      /\ TypeOK /\ TypeOK' /\ BatchIsOldest(w)' /\ PermKept'
  BY PersistFrame DEF Persist
<1>2. PICK i \in batch[w] : AtEntry(w, i) /\ (DoneFor(w, i)' => Progress(w)')
  BY PersistFrame DEF Persist
<1>3. UNCHANGED <<orderDoc, fillDoc>>
  BY DEF FindOrder, FindProvisional, JournalOrder, RecordAlert, SetState, SkipOther, docs
<1>4. Behind' /\ OneDocumentPerOrder'
  <2>1. Behind'  BY <1>1, <1>3 DEF IInv, Behind
  <2>2. OneDocumentPerOrder'  BY <1>1, <1>3 DEF IInv, OneDocumentPerOrder
  <2>3. QED  BY <2>1, <2>2
<1>5. DocSource'
  <2>1. DocSource  BY DEF IInv
  <2>2. QED  BY <1>1, <1>3, <2>1 DEF DocSource, OrderKey
<1>6. \A j \in batch[w] : AtEntry(w, j) => j = i  BY <1>2, CurrentIsOldest
<1>7. DoneFor(w, i)  BY <1>2 DEF IInv, Progress
<1> USE DEF GoTo, Entry, Begin
<1>8. CASE FindOrder(w)
  <2>1. /\ log[i].kind = "order"
        /\ provisional'[w] = 0
        /\ pc'[w] = IF log[i].known THEN "prov" ELSE "replace"
    BY <1>1, <1>6, <1>8 DEF FindOrder, TypeOK
  <2>2. DoneFor(w, i)'  BY <1>1, <1>3, <2>1 DEF DoneFor
  <2>3. QED  BY <1>1, <1>2, <1>4, <1>5, <2>2 DEF IInv
<1>9. CASE FindProvisional(w)
  <2>1. /\ log[i].kind = "order" /\ log[i].known
        /\ provisional'[w] = orderDoc[<<log[i].id, FALSE>>].created
        /\ pc'[w] = "replace"
    BY <1>1, <1>6, <1>7, <1>9 DEF FindProvisional, TypeOK, DoneFor
  <2>2. DoneFor(w, i)'  BY <1>1, <1>3, <2>1 DEF DoneFor
  <2>3. QED  BY <1>1, <1>2, <1>4, <1>5, <2>2 DEF IInv
<1>10. CASE JournalOrder(w)
  <2>1. pc[w] = "journal" /\ pc'[w] = "ack"
    BY <1>1, <1>10 DEF JournalOrder, TypeOK
  <2>2. DoneFor(w, i)'  BY <1>1, <1>3, <1>7, <2>1 DEF DoneFor
  <2>3. QED  BY <1>1, <1>2, <1>4, <1>5, <2>2 DEF IInv
<1>11. CASE RecordAlert(w) \/ SetState(w) \/ SkipOther(w)
  <2>1. pc'[w] = "ack" /\ log[i].kind # "order"
    BY <1>1, <1>6, <1>11 DEF RecordAlert, SetState, SkipOther, TypeOK
  <2>2. DoneFor(w, i)'  BY <1>1, <2>1 DEF DoneFor
  <2>3. QED  BY <1>1, <1>2, <1>4, <1>5, <2>2 DEF IInv
<1>12. QED  BY <1>8, <1>9, <1>10, <1>11

(* The document an order event replaces shows nothing newer. *)
LEMMA ReplaceInv ==
  ASSUME NEW w \in Workers, IInv(w), ReplaceOrder(w)
  PROVE  IInv(w)' /\ \A k \in Orders \X BOOLEAN : orderDoc'[k].at >= orderDoc[k].at
<1>1. /\ UNCHANGED <<log, delivered, pel, batch>>
      /\ TypeOK /\ TypeOK' /\ BatchIsOldest(w)' /\ PermKept'
  BY PersistFrame DEF Persist
<1>2. PICK i \in batch[w] : AtEntry(w, i) /\ (DoneFor(w, i)' => Progress(w)')
  BY PersistFrame DEF Persist
<1>3. /\ i \in pel /\ i \in 1 .. Len(log) /\ i <= delivered
      /\ \A j \in pel : i <= j
      /\ \A j \in batch[w] : AtEntry(w, j) => j = i
  BY <1>2, CurrentIsOldest
<1>4. DoneFor(w, i)  BY <1>2 DEF IInv, Progress
<1> DEFINE key == OrderKey(log[i])
<1>5. /\ log[i].kind = "order"
      /\ orderDoc' = [orderDoc EXCEPT ![key] = [at |-> i, created |-> CreatedAt(w, i)]]
      /\ pc[w] = "replace"
      /\ pc'[w] = IF provisional[w] # 0 THEN "delete" ELSE "journal"
      /\ UNCHANGED <<provisional, fillDoc>>
  BY <1>1, <1>3 DEF ReplaceOrder, Entry, GoTo, TypeOK
<1>6. key \in Orders \X BOOLEAN
  <2>1. log[i] \in Inputs  BY <1>1, <1>3 DEF TypeOK
  <2>2. QED  BY <1>5, <2>1, ConstantsAssumption DEF OrderKey
<1>7. i \in Nat /\ i # 0 /\ CreatedAt(w, i) # 0
  BY <1>3 DEF CreatedAt
<1>8. /\ orderDoc'[key].at = i /\ orderDoc'[key].created # 0
      /\ \A k \in Orders \X BOOLEAN : k # key => orderDoc'[k] = orderDoc[k]
  BY <1>1, <1>5, <1>6, <1>7 DEF TypeOK
<1>9. \A k \in Orders \X BOOLEAN : orderDoc[k].at \in Nat /\ orderDoc[k].at <= i
  BY <1>1, <1>3 DEF IInv, Behind, TypeOK, OrderDocs
<1>10. \A k \in Orders \X BOOLEAN : orderDoc'[k].at >= orderDoc[k].at
  BY <1>7, <1>8, <1>9
<1>11. Behind'
  <2>1. \A k \in Orders \X BOOLEAN : orderDoc'[k].at <= delivered /\ \A j \in pel : orderDoc'[k].at <= j
    BY <1>3, <1>8 DEF IInv, Behind
  <2>2. QED  BY <1>1, <1>5, <2>1 DEF IInv, Behind
<1>12. DocSource'
  <2>1. DocSource  BY DEF IInv
  <2>2. QED  BY <1>1, <1>3, <1>5, <1>7, <1>8, <2>1 DEF DocSource, OrderKey
<1>13. provisional[w] = IF log[i].known THEN orderDoc[<<log[i].id, FALSE>>].created ELSE 0
  BY <1>4, <1>5 DEF DoneFor
<1>14. DoneFor(w, i)'
  <2>1. CASE provisional[w] # 0
    <3>1. log[i].known /\ key = <<log[i].id, TRUE>>
      BY <1>6, <1>13, <2>1 DEF OrderKey
    <3>2. QED  BY <1>1, <1>5, <1>8, <2>1, <3>1 DEF DoneFor
  <2>2. CASE provisional[w] = 0
    <3>1. SUFFICES ASSUME log[i].known PROVE orderDoc'[<<log[i].id, FALSE>>].at = 0
      BY <1>1, <1>5, <2>2 DEF DoneFor
    <3>2. /\ <<log[i].id, FALSE>> \in Orders \X BOOLEAN
          /\ <<log[i].id, FALSE>> # key
      BY <1>6, <3>1 DEF OrderKey
    <3>3. orderDoc[<<log[i].id, FALSE>>].at = 0
      BY <1>13, <2>2, <3>1, <3>2 DEF IInv, DocSource
    <3>4. QED  BY <1>8, <3>2, <3>3
  <2>3. QED  BY <2>1, <2>2
<1>15. OneDocumentPerOrder'
  <2>1. SUFFICES ASSUME NEW o \in Orders, orderDoc'[<<o, TRUE>>].at # 0,
                        orderDoc'[<<o, FALSE>>].at # 0
        PROVE  orderDoc'[<<o, TRUE>>].at \in pel
    BY <1>1 DEF OneDocumentPerOrder
  <2>2. CASE key = <<o, TRUE>>  BY <1>3, <1>8, <2>2
  <2>3. CASE key = <<o, FALSE>>
    <3>1. /\ <<o, TRUE>> \in Orders \X BOOLEAN
          /\ <<o, TRUE>> # key
      <4>1. <<o, TRUE>> # <<o, FALSE>>  OBVIOUS
      <4>2. QED  BY <2>3, <4>1
    <3>2. orderDoc[<<o, TRUE>>].at # 0  BY <1>8, <2>1, <3>1
    <3>3. PICK a \in 1 .. Len(log) : /\ a = orderDoc[<<o, TRUE>>].at
                                     /\ log[a].kind = "order"
                                     /\ OrderKey(log[a]) = <<o, TRUE>>
      BY <3>1, <3>2 DEF IInv, DocSource
    <3>4. a <= i  BY <1>9, <3>1, <3>3
    <3>5. log[a].id = o /\ log[a].known = TRUE /\ log[i].id = o /\ log[i].known = FALSE
      BY <2>3, <3>3 DEF OrderKey
    <3>6. a < i  BY <1>3, <3>3, <3>4, <3>5
    <3>7. log[i].known  BY <1>3, <1>5, <3>3, <3>5, <3>6 DEF IInv, PermKept
    <3>8. QED  BY <3>5, <3>7
  <2>4. CASE key # <<o, TRUE>> /\ key # <<o, FALSE>>
    <3>1. /\ orderDoc'[<<o, TRUE>>] = orderDoc[<<o, TRUE>>]
          /\ orderDoc'[<<o, FALSE>>] = orderDoc[<<o, FALSE>>]
      BY <1>8, <2>4
    <3>2. QED  BY <2>1, <3>1 DEF IInv, OneDocumentPerOrder
  <2>5. QED  BY <2>2, <2>3, <2>4
<1>16. QED  BY <1>1, <1>2, <1>10, <1>11, <1>12, <1>14, <1>15 DEF IInv

LEMMA DeleteInv ==
  ASSUME NEW w \in Workers, IInv(w), DeleteProvisional(w)
  PROVE  /\ IInv(w)'
         /\ \A k \in Orders \X BOOLEAN :
              \/ orderDoc'[k].at >= orderDoc[k].at
              \/ /\ orderDoc'[k] = NoDoc /\ ~k[2]
                 /\ orderDoc[<<k[1], TRUE>>].at > orderDoc[k].at
<1>1. /\ UNCHANGED <<log, delivered, pel, batch>>
      /\ TypeOK /\ TypeOK' /\ BatchIsOldest(w)' /\ PermKept'
  BY PersistFrame DEF Persist
<1>2. PICK i \in batch[w] : AtEntry(w, i) /\ (DoneFor(w, i)' => Progress(w)')
  BY PersistFrame DEF Persist
<1>3. /\ i \in pel /\ i \in 1 .. Len(log) /\ i <= delivered
      /\ \A j \in pel : i <= j
      /\ \A j \in batch[w] : AtEntry(w, j) => j = i
  BY <1>2, CurrentIsOldest
<1> DEFINE old == <<log[i].id, FALSE>>
           new == <<log[i].id, TRUE>>
<1>4. /\ log[i].kind = "order"
      /\ orderDoc' = [orderDoc EXCEPT ![old] = NoDoc]
      /\ pc[w] = "delete"
      /\ pc'[w] = "journal"
      /\ UNCHANGED fillDoc
  BY <1>1, <1>3 DEF DeleteProvisional, Entry, GoTo, TypeOK
<1>5. log[i].known /\ orderDoc[new].at = i
  BY <1>2, <1>4 DEF IInv, Progress, DoneFor
<1>6. old \in Orders \X BOOLEAN /\ new \in Orders \X BOOLEAN
  <2>1. log[i] \in Inputs  BY <1>1, <1>3 DEF TypeOK
  <2>2. QED  BY <1>4, <2>1, ConstantsAssumption
<1>7. /\ orderDoc'[old] = NoDoc
      /\ \A k \in Orders \X BOOLEAN : k # old => orderDoc'[k] = orderDoc[k]
  BY <1>1, <1>4, <1>6 DEF TypeOK
<1>8. orderDoc[old].at < i
  <2>1. orderDoc[old].at \in Nat /\ orderDoc[old].at <= i
    BY <1>1, <1>3, <1>6 DEF IInv, Behind, TypeOK, OrderDocs
  <2>2. orderDoc[old].at # i
    <3>1. SUFFICES ASSUME orderDoc[old].at = i PROVE FALSE
      OBVIOUS
    <3>2. OrderKey(log[i]) = old
      <4>1. DocSource /\ i # 0  BY <1>3 DEF IInv
      <4>2. QED  BY <1>6, <3>1, <4>1 DEF DocSource
    <3>3. log[i].known = FALSE  BY <3>2 DEF OrderKey
    <3>4. QED  BY <1>5, <3>3
  <2>3. QED  BY <1>3, <2>1, <2>2
<1>9. \A k \in Orders \X BOOLEAN : orderDoc[k].at \in Nat
  BY <1>1 DEF TypeOK, OrderDocs
<1>10. \A k \in Orders \X BOOLEAN :
              \/ orderDoc'[k].at >= orderDoc[k].at
              \/ /\ orderDoc'[k] = NoDoc /\ ~k[2]
                 /\ orderDoc[<<k[1], TRUE>>].at > orderDoc[k].at
  <2>1. TAKE k \in Orders \X BOOLEAN
  <2>2. CASE k = old
    <3>1. <<k[1], TRUE>> = new /\ k[2] = FALSE  BY <2>2
    <3>2. orderDoc[<<k[1], TRUE>>].at > orderDoc[k].at
      BY <1>3, <1>5, <1>8, <1>9, <1>6, <2>2, <3>1
    <3>3. QED  BY <1>7, <2>2, <3>1, <3>2
  <2>3. CASE k # old
    <3>1. orderDoc'[k].at = orderDoc[k].at /\ orderDoc[k].at \in Nat
      BY <1>7, <1>9, <2>3
    <3>2. QED  BY <3>1
  <2>4. QED  BY <2>2, <2>3
<1>11. Behind'
  <2>1. NoDoc.at = 0  BY DEF NoDoc
  <2>2. delivered \in Nat /\ pel \subseteq Nat  BY <1>1 DEF TypeOK
  <2>3. \A k \in Orders \X BOOLEAN : orderDoc'[k].at <= delivered /\ \A j \in pel : orderDoc'[k].at <= j
    <3>1. TAKE k \in Orders \X BOOLEAN
    <3>2. CASE k = old
      <4>1. orderDoc'[k].at = 0  BY <1>7, <2>1, <3>2
      <4>2. QED  BY <2>2, <4>1
    <3>3. CASE k # old
      <4>1. orderDoc'[k] = orderDoc[k]  BY <1>7, <3>3
      <4>2. QED  BY <4>1 DEF IInv, Behind
    <3>4. QED  BY <3>2, <3>3
  <2>4. QED  BY <1>1, <1>4, <2>3 DEF IInv, Behind
<1>12. DocSource'
  <2>1. DocSource  BY DEF IInv
  <2>2. NoDoc.at = 0 /\ NoDoc.created = 0  BY DEF NoDoc
  <2>3. QED  BY <1>1, <1>7, <2>1, <2>2 DEF DocSource, OrderKey
<1>13. DoneFor(w, i)'
  <2>1. orderDoc'[old].at = 0  BY <1>7 DEF NoDoc
  <2>2. QED  BY <1>1, <1>4, <2>1 DEF DoneFor
<1>14. OneDocumentPerOrder'
  <2>1. SUFFICES ASSUME NEW o \in Orders, orderDoc'[<<o, TRUE>>].at # 0,
                        orderDoc'[<<o, FALSE>>].at # 0
        PROVE  orderDoc'[<<o, TRUE>>].at \in pel
    BY <1>1 DEF OneDocumentPerOrder
  <2>2. <<o, FALSE>> # old
    <3>1. orderDoc'[old].at = 0  BY <1>7 DEF NoDoc
    <3>2. QED  BY <2>1, <3>1
  <2>3. <<o, TRUE>> # old
    <3>1. <<o, TRUE>>[2] # old[2]  OBVIOUS
    <3>2. QED  BY <3>1
  <2>4. /\ orderDoc'[<<o, TRUE>>] = orderDoc[<<o, TRUE>>]
        /\ orderDoc'[<<o, FALSE>>] = orderDoc[<<o, FALSE>>]
    BY <1>7, <2>2, <2>3
  <2>5. QED  BY <2>1, <2>4 DEF IInv, OneDocumentPerOrder
<1>15. QED  BY <1>1, <1>2, <1>10, <1>11, <1>12, <1>13, <1>14 DEF IInv

(* Writing a fill keeps its first report and moves its commission forward. *)
LEMMA FillInv ==
  ASSUME NEW w \in Workers, IInv(w), InsertFill(w) \/ EnrichFill(w)
  PROVE  /\ IInv(w)'
         /\ \A x \in Fills : fillDoc[x].base # 0 =>
              /\ fillDoc'[x].base = fillDoc[x].base
              /\ fillDoc'[x].commission >= fillDoc[x].commission
<1>1. /\ UNCHANGED <<log, delivered, pel, batch>>
      /\ TypeOK /\ TypeOK' /\ BatchIsOldest(w)' /\ PermKept'
  BY PersistFrame DEF Persist
<1>2. PICK i \in batch[w] : AtEntry(w, i) /\ (DoneFor(w, i)' => Progress(w)')
  BY PersistFrame DEF Persist
<1>3. /\ i \in pel /\ i \in 1 .. Len(log) /\ i <= delivered
      /\ \A j \in pel : i <= j
      /\ \A j \in batch[w] : AtEntry(w, j) => j = i
  BY <1>2, CurrentIsOldest
<1>4. DoneFor(w, i)  BY <1>2 DEF IInv, Progress
<1>5. UNCHANGED orderDoc  BY DEF InsertFill, EnrichFill
<1>6. log[i].kind = "fill" /\ pc'[w] \in {"enrich", "ack"}
  BY <1>1, <1>3 DEF InsertFill, EnrichFill, Begin, Entry, GoTo, TypeOK
<1>7. log[i].id \in Fills
  <2>1. log[i] \in Inputs  BY <1>1, <1>3 DEF TypeOK
  <2>2. QED  BY <1>6, <2>1, ConstantsAssumption
<1>8. \A x \in Fills : /\ fillDoc[x].base \in Nat
                       /\ fillDoc[x].commission \in Nat /\ fillDoc[x].commission <= i
  BY <1>1, <1>3 DEF IInv, Behind, TypeOK, FillDocs
<1>9. \A x \in Fills : x # log[i].id => fillDoc'[x] = fillDoc[x]
  BY <1>1, <1>3 DEF InsertFill, EnrichFill, TypeOK, Begin, Entry
<1>10. \/ fillDoc'[log[i].id] = fillDoc[log[i].id]
       \/ fillDoc[log[i].id].base = 0 /\ fillDoc'[log[i].id].commission \in {0, i}
       \/ /\ fillDoc'[log[i].id].base = fillDoc[log[i].id].base
          /\ fillDoc'[log[i].id].commission = i
  <2>1. CASE InsertFill(w)
    BY <1>1, <1>3, <1>7, <2>1 DEF InsertFill, TypeOK, Begin, Entry
  <2>2. CASE EnrichFill(w)
    BY <1>1, <1>3, <1>7, <2>2 DEF EnrichFill, TypeOK, Entry, FillDocs
  <2>3. QED  BY <2>1, <2>2
<1>11. Behind'
  <2>1. delivered \in Nat /\ pel \subseteq Nat  BY <1>1 DEF TypeOK
  <2>2. \A x \in Fills : /\ fillDoc'[x].commission <= delivered
                         /\ \A j \in pel : fillDoc'[x].commission <= j
    BY <1>3, <1>9, <1>10, <2>1 DEF IInv, Behind
  <2>3. QED  BY <1>1, <1>5, <2>2 DEF IInv, Behind
<1>12. DocSource'
  <2>1. DocSource  BY DEF IInv
  <2>2. QED  BY <1>1, <1>5, <2>1 DEF DocSource, OrderKey
<1>13. OneDocumentPerOrder'  BY <1>1, <1>5 DEF IInv, OneDocumentPerOrder
<1>14. DoneFor(w, i)'  BY <1>1, <1>6 DEF DoneFor
<1>15. \A x \in Fills : fillDoc[x].base # 0 =>
              /\ fillDoc'[x].base = fillDoc[x].base
              /\ fillDoc'[x].commission >= fillDoc[x].commission
  BY <1>3, <1>8, <1>9, <1>10
<1>16. QED  BY <1>1, <1>2, <1>11, <1>12, <1>13, <1>14, <1>15 DEF IInv

-----------------------------------------------------------------------------
(* The step, and what follows from it. *)
LEMMA StepInv ==
  ASSUME NEW w, Workers = {w}, IInv(w), [Next]_vars
  PROVE  /\ IInv(w)'
         /\ \A k \in Orders \X BOOLEAN :
              \/ orderDoc'[k].at >= orderDoc[k].at
              \/ /\ orderDoc'[k] = NoDoc /\ ~k[2]
                 /\ orderDoc[<<k[1], TRUE>>].at > orderDoc[k].at
         /\ \A x \in Fills : fillDoc[x].base # 0 =>
              /\ fillDoc'[x].base = fillDoc[x].base
              /\ fillDoc'[x].commission >= fillDoc[x].commission
<1>1. w \in Workers /\ \A v \in Workers : v = w  OBVIOUS
<1>2. /\ \A k \in Orders \X BOOLEAN : orderDoc[k].at >= orderDoc[k].at
      /\ \A x \in Fills : fillDoc[x].commission >= fillDoc[x].commission
  BY DEF IInv, TypeOK, OrderDocs, FillDocs
<1>3. CASE \E e \in Inputs : Publish(e)
  BY <1>1, <1>2, <1>3, PublishInv DEF Publish, docs
<1>4. CASE \/ Start(w) \/ ReadPending(w) \/ NothingPending(w) \/ ReadNew(w)
           \/ BatchDone(w) \/ LostEntry(w) \/ Ack(w) \/ Fail(w) \/ Crash(w)
  <2>1. UNCHANGED <<orderDoc, fillDoc>>
    BY <1>4 DEF Start, ReadPending, NothingPending, ReadNew, BatchDone, LostEntry,
                Ack, Fail, Recover, Crash, docs
  <2>2. QED  BY <1>1, <1>2, <1>4, <2>1, LoopInv
<1>5. CASE \/ FindOrder(w) \/ FindProvisional(w) \/ JournalOrder(w)
           \/ RecordAlert(w) \/ SetState(w) \/ SkipOther(w)
  <2>1. UNCHANGED <<orderDoc, fillDoc>>
    BY <1>5 DEF FindOrder, FindProvisional, JournalOrder, RecordAlert, SetState,
                SkipOther, docs
  <2>2. QED  BY <1>1, <1>2, <1>5, <2>1, OtherWritesInv
<1>6. CASE ReplaceOrder(w)
  <2>1. UNCHANGED fillDoc  BY <1>6 DEF ReplaceOrder
  <2>2. QED  BY <1>1, <1>2, <1>6, <2>1, ReplaceInv
<1>7. CASE DeleteProvisional(w)
  <2>1. UNCHANGED fillDoc  BY <1>7 DEF DeleteProvisional
  <2>2. QED  BY <1>1, <1>2, <1>7, <2>1, DeleteInv
<1>8. CASE InsertFill(w) \/ EnrichFill(w)
  <2>1. UNCHANGED orderDoc  BY <1>8 DEF InsertFill, EnrichFill
  <2>2. QED  BY <1>1, <1>2, <1>8, <2>1, FillInv
<1>9. CASE UNCHANGED vars
  <2>1. TypeOK'  BY NextType DEF IInv
  <2>2. UNCHANGED <<log, delivered, pel, pc, pending, batch, provisional, orderDoc, fillDoc>>
    BY <1>9 DEF vars, stream, locals, docs
  <2>3. Behind' /\ OneDocumentPerOrder'
    BY <2>2 DEF IInv, Behind, OneDocumentPerOrder
  <2>4. BatchIsOldest(w)'  BY <2>2 DEF IInv, BatchIsOldest
  <2>5. DocSource' /\ PermKept'
    BY <2>2 DEF IInv, DocSource, OrderKey, PermKept
  <2>6. Progress(w)'
    <3>1. Progress(w)  BY DEF IInv
    <3>2. QED  BY <2>2, <3>1 DEF Progress, DoneFor, AtEntry
  <2>7. QED  BY <1>2, <2>1, <2>2, <2>3, <2>4, <2>5, <2>6 DEF IInv
<1>10. QED
  BY <1>1, <1>3, <1>4, <1>5, <1>6, <1>7, <1>8, <1>9 DEF Next, Consume, Persist

LEMMA OneWorkerInv == ASSUME NEW w, Workers = {w} PROVE Spec => []IInv(w)
<1>1. Init => IInv(w)  BY InitInv
<1>2. IInv(w) /\ [Next]_vars => IInv(w)'  BY StepInv
<1>3. QED  BY <1>1, <1>2, PTL DEF Spec

\* With one worker, replays after errors, crashes and trimming never take an
\* order's document back to an older event.
THEOREM HistoryMovesForward ==
  ASSUME NEW w, Workers = {w} PROVE Spec => OrderNeverRegresses
<1>1. Spec => []IInv(w)  BY OneWorkerInv
<1> DEFINE Forward == \A k \in Orders \X BOOLEAN :
        \/ orderDoc'[k].at >= orderDoc[k].at
        \/ orderDoc'[k] = NoDoc /\ ~k[2] /\ orderDoc[<<k[1], TRUE>>].at > orderDoc[k].at
<1>2. IInv(w) /\ [Next]_vars => [Forward]_vars  BY StepInv
<1>3. QED  BY <1>1, <1>2, PTL DEF Spec, OrderNeverRegresses

\* With one worker, a recorded fill keeps its first report and its commission
\* is never taken back.
THEOREM FillsStand ==
  ASSUME NEW w, Workers = {w} PROVE Spec => FillsAreImmutable
<1>1. Spec => []IInv(w)  BY OneWorkerInv
<1> DEFINE Kept == \A x \in Fills : fillDoc[x].base # 0 =>
        /\ fillDoc'[x].base = fillDoc[x].base
        /\ fillDoc'[x].commission >= fillDoc[x].commission
<1>2. IInv(w) /\ [Next]_vars => [Kept]_vars  BY StepInv
<1>3. QED  BY <1>1, <1>2, PTL DEF Spec, FillsAreImmutable

\* With one worker, a provisional document never outlives the acknowledgement
\* of the event that replaced it.
THEOREM NoGhostDocument ==
  ASSUME NEW w, Workers = {w} PROVE Spec => []OneDocumentPerOrder
<1>1. Spec => []IInv(w)  BY OneWorkerInv
<1>2. IInv(w) => OneDocumentPerOrder  BY DEF IInv
<1>3. QED  BY <1>1, <1>2, PTL
-----------------------------------------------------------------------------
(* What is acknowledged is in the documents.  The documents only move        *)
(* forward, so it is enough that the entry at work is written when its       *)
(* persist is done.                                                         *)

\* The other documents are older than everything pending as well.
OthersBehind ==
  /\ \A s \in States : stateDoc[s] <= delivered /\ \A i \in pel : stateDoc[s] <= i
  /\ \A x \in Fills : fillDoc[x].base <= delivered /\ \A i \in pel : fillDoc[x].base <= i

\* What persist has found and written of the entry it is at.
WrittenFor(w, i) ==
  /\ pc[w] \in {"prov", "replace"} => previous[w] = orderDoc[OrderKey(log[i])].created
  /\ pc[w] \in {"delete", "journal"} => Shown(log[i].id).at >= i
  /\ pc[w] = "enrich" => fillDoc[log[i].id].base \in 1 .. i
  /\ pc[w] = "ack" => Durable(i)
Written(w) == \A i \in batch[w] : AtEntry(w, i) => WrittenFor(w, i)

DInv(w) == IInv(w) /\ OthersBehind /\ Written(w) /\ AckedIsDurable

\* Only persist writes, and one call writes one kind of document.
LEMMA WhoWrites ==
  ASSUME NEW w, Workers = {w}, [Next]_vars
  PROVE  /\ orderDoc' = orderDoc \/ ReplaceOrder(w) \/ DeleteProvisional(w)
         /\ fillDoc' = fillDoc \/ InsertFill(w) \/ EnrichFill(w)
         /\ stateDoc' = stateDoc \/ SetState(w)
         /\ journal \subseteq journal'
<1> USE DEF docs
<1>1. CASE \E e \in Inputs : Publish(e)  BY <1>1 DEF Publish
<1>2. CASE UNCHANGED vars  BY <1>2 DEF vars
<1>3. CASE Consume(w) \/ Fail(w) \/ Crash(w)
  <2>1. CASE Persist(w)
    BY <2>1 DEF Persist, FindOrder, FindProvisional, ReplaceOrder, DeleteProvisional,
           JournalOrder, RecordAlert, SetState, InsertFill, EnrichFill, SkipOther
  <2>2. CASE \/ Start(w) \/ ReadPending(w) \/ NothingPending(w) \/ ReadNew(w)
             \/ BatchDone(w) \/ LostEntry(w) \/ Ack(w) \/ Fail(w) \/ Crash(w)
    BY <2>2 DEF Start, ReadPending, NothingPending, ReadNew, BatchDone, LostEntry,
                Ack, Fail, Recover, Crash
  <2>3. QED  BY <1>3, <2>1, <2>2 DEF Consume
<1>4. QED  BY <1>1, <1>2, <1>3 DEF Next

\* An order without perm_id has no perm document yet.
LEMMA NotYetPerm ==
  ASSUME NEW w \in Workers, IInv(w), NEW i \in batch[w], AtEntry(w, i),
         log[i].kind = "order", ~log[i].known
  PROVE  orderDoc[<<log[i].id, TRUE>>].at = 0
<1> DEFINE new == <<log[i].id, TRUE>>
<1>1. i \in pel /\ i \in 1 .. Len(log)  BY CurrentIsOldest
<1>2. new \in Orders \X BOOLEAN
  <2>1. log[i] \in Inputs  BY <1>1 DEF IInv, TypeOK
  <2>2. QED  BY <2>1, ConstantsAssumption
<1>3. SUFFICES ASSUME orderDoc[new].at # 0 PROVE FALSE  OBVIOUS
<1>4. PICK a \in 1 .. Len(log) : /\ a = orderDoc[new].at
                                 /\ log[a].kind = "order" /\ OrderKey(log[a]) = new
  BY <1>2, <1>3 DEF IInv, DocSource
<1>5. log[a].id = log[i].id /\ log[a].known = TRUE  BY <1>4 DEF OrderKey
<1>6. a <= i /\ a # i  BY <1>1, <1>2, <1>4, <1>5 DEF IInv, Behind
<1>7. a < i /\ log[a].known  BY <1>1, <1>5, <1>6
<1>8. log[i].known  BY <1>1, <1>4, <1>5, <1>7 DEF IInv, PermKept
<1>9. QED  BY <1>8

\* A replaced document is the one shown, and shows the entry at work.
LEMMA ReplaceShows ==
  ASSUME NEW w \in Workers, IInv(w), ReplaceOrder(w),
         NEW i \in batch[w], AtEntry(w, i)
  PROVE  /\ log[i].kind = "order" /\ log[i].id \in Orders
         /\ \A o \in Orders : o = log[i].id =>
              Shown(o)' = [at |-> i, created |-> CreatedAt(w, i)]
         /\ Shown(log[i].id) = IF orderDoc[OrderKey(log[i])].at # 0 THEN orderDoc[OrderKey(log[i])]
                               ELSE orderDoc[<<log[i].id, FALSE>>]
         /\ Shown(log[i].id).at <= i
         /\ \A o \in Orders : o # log[i].id => Shown(o)' = Shown(o)
<1> DEFINE key == OrderKey(log[i])
           new == <<log[i].id, TRUE>>
           old == <<log[i].id, FALSE>>
           doc == [at |-> i, created |-> CreatedAt(w, i)]
<1>1. /\ i \in pel /\ i \in 1 .. Len(log) /\ i # 0
      /\ \A j \in batch[w] : AtEntry(w, j) => j = i
  BY CurrentIsOldest
<1>2. TypeOK /\ UNCHANGED log  BY PersistFrame DEF Persist
<1>3. /\ log[i].kind = "order"
      /\ orderDoc' = [orderDoc EXCEPT ![key] = doc]
  BY <1>1 DEF ReplaceOrder, Entry
<1>4. log[i].id \in Orders /\ log[i].known \in BOOLEAN
  <2>1. log[i] \in Inputs  BY <1>1, <1>2 DEF TypeOK
  <2>2. QED  BY <1>3, <2>1, ConstantsAssumption
<1>5. new \in Orders \X BOOLEAN /\ old \in Orders \X BOOLEAN /\ new # old  BY <1>4
<1>6. /\ orderDoc'[key] = doc
      /\ \A k \in Orders \X BOOLEAN : k # key => orderDoc'[k] = orderDoc[k]
      /\ key = IF log[i].known THEN new ELSE old
  BY <1>2, <1>3, <1>4, <1>5 DEF TypeOK, OrderKey
<1>7. ~log[i].known => orderDoc[new].at = 0  BY <1>3, NotYetPerm
<1>8. ASSUME NEW o \in Orders, o = log[i].id PROVE Shown(o)' = doc
  <2>1. CASE log[i].known  BY <1>1, <1>6, <1>8, <2>1 DEF Shown
  <2>2. CASE ~log[i].known
    <3>1. orderDoc'[new].at = 0 /\ orderDoc'[old] = doc
      BY <1>5, <1>6, <1>7, <2>2
    <3>2. QED  BY <1>8, <3>1 DEF Shown
  <2>3. QED  BY <2>1, <2>2
<1>9. Shown(log[i].id) = IF orderDoc[key].at # 0 THEN orderDoc[key] ELSE orderDoc[old]
  BY <1>6, <1>7 DEF Shown
<1>10. Shown(log[i].id).at <= i
  BY <1>1, <1>5 DEF Shown, IInv, Behind
<1>11. ASSUME NEW o \in Orders, o # log[i].id PROVE Shown(o)' = Shown(o)
  <2>1. <<o, TRUE>> # key /\ <<o, FALSE>> # key  BY <1>11 DEF OrderKey
  <2>2. /\ orderDoc'[<<o, TRUE>>] = orderDoc[<<o, TRUE>>]
        /\ orderDoc'[<<o, FALSE>>] = orderDoc[<<o, FALSE>>]
    BY <1>6, <2>1
  <2>3. QED  BY <2>2 DEF Shown
<1>12. QED  BY <1>3, <1>4, <1>8, <1>9, <1>10, <1>11

\* The provisional document goes when the perm document is shown already.
LEMMA DeleteShows ==
  ASSUME NEW w \in Workers, IInv(w), DeleteProvisional(w)
  PROVE  \A o \in Orders : Shown(o)' = Shown(o)
<1>1. PICK i \in batch[w] : AtEntry(w, i) /\ pc[w] = "delete"
                            /\ orderDoc' = [orderDoc EXCEPT ![<<log[i].id, FALSE>>] = NoDoc]
  BY DEF DeleteProvisional, Entry
<1>2. i # 0 /\ orderDoc[<<log[i].id, TRUE>>].at = i
  <2>1. i \in 1 .. Len(log)  BY <1>1, CurrentIsOldest
  <2>2. DoneFor(w, i)  BY <1>1 DEF IInv, Progress
  <2>3. Len(log) \in Nat  BY DEF IInv, TypeOK
  <2>4. i # 0  BY <2>1, <2>3
  <2>5. QED  BY <1>1, <2>2, <2>4 DEF DoneFor
<1>3. TAKE o \in Orders
<1>4. orderDoc'[<<o, TRUE>>] = orderDoc[<<o, TRUE>>]
  <2>1. <<o, TRUE>> # <<log[i].id, FALSE>>
    <3>1. <<o, TRUE>>[2] # <<log[i].id, FALSE>>[2]  OBVIOUS
    <3>2. QED  BY <3>1
  <2>2. <<o, TRUE>> \in Orders \X BOOLEAN  OBVIOUS
  <2>3. QED  BY <1>1, <2>1, <2>2 DEF IInv, TypeOK
<1>5. CASE o = log[i].id  BY <1>2, <1>4, <1>5 DEF Shown
<1>6. CASE o # log[i].id
  <2>1. <<o, FALSE>> # <<log[i].id, FALSE>>  BY <1>6
  <2>2. <<o, FALSE>> \in Orders \X BOOLEAN  OBVIOUS
  <2>3. orderDoc'[<<o, FALSE>>] = orderDoc[<<o, FALSE>>]
    BY <1>1, <2>1, <2>2 DEF IInv, TypeOK
  <2>4. QED  BY <1>4, <2>3 DEF Shown
<1>7. QED  BY <1>5, <1>6

\* A last writer's document is overwritten by something newer.
LEMMA StateForward ==
  ASSUME NEW w \in Workers, IInv(w), OthersBehind, SetState(w)
  PROVE  /\ \A s \in States : stateDoc'[s] >= stateDoc[s]
         /\ OthersBehind'
<1>1. PICK i \in batch[w] : /\ AtEntry(w, i) /\ stateDoc' = [stateDoc EXCEPT ![log[i].id] = i]
  BY DEF SetState, Begin, Entry
<1>2. UNCHANGED <<log, delivered, pel, batch>> /\ TypeOK  BY PersistFrame DEF Persist
<1>3. i \in pel /\ i <= delivered /\ i \in Nat /\ \A j \in pel : i <= j
  BY <1>1, CurrentIsOldest
<1>4. \A s \in States : stateDoc[s] \in Nat /\ (stateDoc'[s] = stateDoc[s] \/ stateDoc'[s] = i)
  BY <1>1, <1>2 DEF TypeOK
<1>5. \A s \in States : stateDoc[s] <= i  BY <1>3 DEF OthersBehind
<1>6. \A s \in States : stateDoc'[s] >= stateDoc[s]  BY <1>3, <1>4, <1>5
<1>7. fillDoc' = fillDoc  BY DEF SetState
<1>8. OthersBehind'  BY <1>2, <1>3, <1>4, <1>7 DEF OthersBehind
<1>9. QED  BY <1>6, <1>8

\* What a document says of an event it goes on saying.
LEMMA DurableStays ==
  ASSUME NEW w, Workers = {w}, IInv(w), OthersBehind, [Next]_vars,
         NEW i \in 1 .. Len(log), Durable(i)
  PROVE  Durable(i)' /\ log'[i] = log[i]
<1>1. w \in Workers /\ TypeOK  BY DEF IInv
<1>2. log'[i] = log[i]
  <2>1. log' = log \/ \E e \in Inputs : log' = Append(log, e)
    <3>1. CASE \E e \in Inputs : Publish(e)  BY <3>1 DEF Publish
    <3>2. CASE UNCHANGED vars  BY <3>2 DEF vars, stream
    <3>3. CASE Persist(w)  BY <1>1, <3>3, PersistFrame
    <3>4. CASE \/ Start(w) \/ ReadPending(w) \/ NothingPending(w) \/ ReadNew(w)
               \/ BatchDone(w) \/ LostEntry(w) \/ Ack(w) \/ Fail(w) \/ Crash(w)
      BY <3>4 DEF Start, ReadPending, NothingPending, ReadNew, BatchDone, LostEntry,
                  Ack, Fail, Recover, Crash, stream
    <3>5. QED  BY <3>1, <3>2, <3>3, <3>4 DEF Next, Consume
  <2>2. QED  BY <1>1, <2>1 DEF TypeOK
<1>3. log[i] \in Inputs  BY <1>1 DEF TypeOK
<1>4. ASSUME NEW o \in Orders, Shown(o).at >= i PROVE Shown(o)'.at >= i
  <2>1. CASE orderDoc' = orderDoc  BY <1>4, <2>1 DEF Shown
  <2>2. CASE ReplaceOrder(w)
    <3>1. PICK j \in batch[w] : AtEntry(w, j)  BY <2>2 DEF ReplaceOrder, Entry
    <3>2. j \in Nat  BY <1>1 DEF TypeOK
    <3>3. Shown(o)' = Shown(o) \/ (Shown(o)'.at = j /\ Shown(o).at <= j)
      <4>1. CASE o = log[j].id
        <5>1. Shown(o)' = [at |-> j, created |-> CreatedAt(w, j)] /\ Shown(o).at <= j
          BY <1>1, <2>2, <3>1, <4>1, ReplaceShows
        <5>2. QED  BY <5>1
      <4>2. CASE o # log[j].id  BY <1>1, <2>2, <3>1, <4>2, ReplaceShows
      <4>3. QED  BY <4>1, <4>2
    <3>4. Shown(o).at \in Nat  BY <1>1 DEF TypeOK, Shown, OrderDocs
    <3>5. QED  BY <1>4, <3>2, <3>3, <3>4
  <2>3. CASE DeleteProvisional(w)  BY <1>1, <1>4, <2>3, DeleteShows
  <2>4. QED  BY <2>1, <2>2, <2>3, WhoWrites
<1>5. journal \subseteq journal'  BY WhoWrites
<1>6. ASSUME NEW x \in Fills, fillDoc[x].base \in 1 .. i
      PROVE  /\ fillDoc'[x].base = fillDoc[x].base
             /\ fillDoc[x].commission >= i => fillDoc'[x].commission >= i
  <2>1. fillDoc[x].base # 0  BY <1>6
  <2>2. /\ fillDoc'[x].base = fillDoc[x].base
        /\ fillDoc'[x].commission >= fillDoc[x].commission
    BY <2>1, StepInv
  <2>3. fillDoc[x].commission \in Nat /\ fillDoc'[x].commission \in Nat
    BY <1>1, NextType DEF TypeOK, FillDocs
  <2>4. QED  BY <2>2, <2>3
<1>7. ASSUME NEW s \in States, stateDoc[s] >= i PROVE stateDoc'[s] >= i
  <2>1. CASE stateDoc' = stateDoc  BY <1>7, <2>1
  <2>2. CASE SetState(w)
    <3>1. stateDoc'[s] >= stateDoc[s]  BY <1>1, <2>2, StateForward
    <3>2. stateDoc[s] \in Nat /\ stateDoc'[s] \in Nat  BY <1>1, NextType DEF TypeOK
    <3>3. QED  BY <1>7, <3>1, <3>2
  <2>3. QED  BY <2>1, <2>2, WhoWrites
<1>8. CASE log[i].kind = "order"
  BY <1>2, <1>3, <1>4, <1>5, <1>8, ConstantsAssumption DEF Durable
<1>9. CASE log[i].kind = "fill"
  <2>1. log[i].id \in Fills  BY <1>3, <1>9, ConstantsAssumption
  <2>2. /\ fillDoc[log[i].id].base \in 1 .. i
        /\ log[i].known => fillDoc[log[i].id].commission >= i
    BY <1>9 DEF Durable
  <2>3. /\ fillDoc'[log[i].id].base \in 1 .. i
        /\ log[i].known => fillDoc'[log[i].id].commission >= i
    BY <1>6, <2>1, <2>2
  <2>4. QED  BY <1>2, <1>9, <2>3 DEF Durable
<1>10. CASE log[i].kind = "state"
  BY <1>2, <1>3, <1>7, <1>10, ConstantsAssumption DEF Durable
<1>11. CASE log[i].kind = "alert"  BY <1>2, <1>5, <1>11 DEF Durable
<1>12. CASE log[i].kind = "other"  BY <1>2, <1>12 DEF Durable
<1>13. QED
  <2>1. log[i].kind \in Kinds  BY <1>3, ConstantsAssumption
  <2>2. QED  BY <1>2, <1>8, <1>9, <1>10, <1>11, <1>12, <2>1 DEF Kinds

LEMMA InitD == ASSUME NEW w \in Workers, Init PROVE DInv(w)
<1>1. IInv(w)  BY InitInv
<1>2. OthersBehind  BY DEF Init, OthersBehind, NoFill
<1>3. Written(w)  BY DEF Init, Written, WrittenFor
<1>4. AckedIsDurable  BY DEF Init, AckedIsDurable
<1>5. QED  BY <1>1, <1>2, <1>3, <1>4 DEF DInv

\* Of a part of the stream that is trimmed further.
LEMMA Narrower ==
  ASSUME NEW t \in Nat, NEW u \in Nat, u >= t, NEW d \in Nat, NEW n \in Nat, d <= n,
         NEW i \in u + 1 .. d
  PROVE  i \in t + 1 .. d /\ i \in 1 .. n
OBVIOUS

\* As long as nothing is delivered and nothing is acknowledged.
LEMMA AckedStays ==
  ASSUME NEW w, Workers = {w}, DInv(w), [Next]_vars,
         UNCHANGED <<delivered, pel>>, trimmed' >= trimmed
  PROVE  AckedIsDurable'
<1>1. IInv(w)' /\ IInv(w)  BY StepInv DEF DInv
<1>2. /\ trimmed \in Nat /\ trimmed' \in Nat /\ delivered \in Nat
      /\ Len(log) \in Nat /\ delivered <= Len(log)
  BY <1>1 DEF IInv, TypeOK
<1>3. ASSUME NEW i \in trimmed' + 1 .. delivered, i \notin pel PROVE Durable(i)'
  <2>1. i \in trimmed + 1 .. delivered /\ i \in 1 .. Len(log)
    BY <1>2, <1>3, Narrower, Zenon
  <2>2. Durable(i)  BY <1>3, <2>1 DEF DInv, AckedIsDurable
  <2>3. QED  BY <2>1, <2>2, DurableStays DEF DInv
<1>4. QED  BY <1>3 DEF AckedIsDurable

\* A step that writes nothing and gives the consumer nothing to write.
LEMMA IdleD ==
  ASSUME NEW w, Workers = {w}, DInv(w), [Next]_vars,
         UNCHANGED <<delivered, pel, docs>>, trimmed' >= trimmed,
         batch'[w] = {} \/ pc'[w] = "next"
  PROVE  DInv(w)'
<1>1. IInv(w)' /\ IInv(w)  BY StepInv DEF DInv
<1>2. OthersBehind'  BY DEF DInv, OthersBehind, docs
<1>3. Written(w)'  BY DEF Written, WrittenFor
<1>4. AckedIsDurable'  BY AckedStays
<1>5. QED  BY <1>1, <1>2, <1>3, <1>4 DEF DInv

LEMMA PublishD ==
  ASSUME NEW w, Workers = {w}, DInv(w), NEW e \in Inputs, Publish(e)
  PROVE  DInv(w)'
<1>1. [Next]_vars  BY DEF Next
<1>2. IInv(w)' /\ IInv(w)  BY <1>1, StepInv DEF DInv
<1>3. UNCHANGED <<delivered, pel, locals, docs>>  BY DEF Publish
<1>4. TypeOK /\ Len(log) \in Nat  BY <1>2 DEF IInv, TypeOK
<1>5. OthersBehind'  BY <1>3 DEF DInv, OthersBehind, docs
<1>6. \A i \in 1 .. Len(log) : log'[i] = log[i]  BY <1>4 DEF Publish, TypeOK
<1>7. Written(w)'
  <2>1. \A i \in batch[w] : i \in 1 .. Len(log) /\ log'[i] = log[i]
    BY <1>4, <1>6 DEF TypeOK
  <2>2. UNCHANGED <<pc, batch, previous, orderDoc, fillDoc>>  BY <1>3 DEF locals, docs
  <2>3. SUFFICES ASSUME NEW i \in batch[w], AtEntry(w, i) PROVE WrittenFor(w, i)'
    BY <2>2 DEF Written, AtEntry
  <2>4. WrittenFor(w, i) /\ log'[i] = log[i] /\ i \in 1 .. Len(log)
    BY <2>1, <2>3 DEF DInv, Written
  <2>5. pc[w] = "ack" => Durable(i)'
    BY <1>1, <2>4, DurableStays DEF DInv, WrittenFor
  <2>6. QED  BY <2>2, <2>4, <2>5 DEF WrittenFor, Shown, OrderKey
<1>8. AckedIsDurable'
  <2>1. trimmed' >= trimmed  BY <1>4 DEF Publish, TypeOK
  <2>2. QED  BY <1>1, <1>3, <2>1, AckedStays
<1>9. QED  BY <1>2, <1>5, <1>7, <1>8 DEF DInv

\* What is read anew is newer than everything delivered, and skips nothing that
\* is still in the stream.
LEMMA ReadNewD ==
  ASSUME NEW w, Workers = {w}, DInv(w), ReadNew(w)
  PROVE  DInv(w)'
<1>1. [Next]_vars  BY DEF Next, Consume
<1>2. IInv(w)' /\ IInv(w)  BY <1>1, StepInv DEF DInv
<1>3. /\ Len(log) \in Nat /\ delivered \in Nat /\ trimmed \in Nat
      /\ delivered' \in Nat /\ delivered <= Len(log)
      /\ TypeOK
  BY <1>2 DEF IInv, TypeOK
<1>4. FirstOf(Undelivered) \subseteq Undelivered /\ Undelivered \in SUBSET (1 .. Len(log))
  BY FirstOfIsSubset DEF Undelivered
<1>5. pel = {}  BY <1>2 DEF IInv, BatchIsOldest, ReadNew
<1>6. /\ pel' = FirstOf(Undelivered) /\ delivered' \in FirstOf(Undelivered)
      /\ UNCHANGED <<log, trimmed, docs>>
  BY <1>5 DEF ReadNew
<1>7. delivered' > delivered /\ \A i \in pel' : i \in Nat /\ i > delivered
  BY <1>3, <1>4, <1>6 DEF Undelivered
<1>8. OthersBehind'
  <2>1. \A s \in States : stateDoc[s] \in Nat /\ stateDoc[s] <= delivered
    BY <1>3 DEF DInv, OthersBehind, TypeOK
  <2>2. \A x \in Fills : fillDoc[x].base \in Nat /\ fillDoc[x].base <= delivered
    BY <1>3 DEF DInv, OthersBehind, TypeOK, FillDocs
  <2>3. ASSUME NEW n \in Nat, n <= delivered
        PROVE  n <= delivered' /\ \A i \in pel' : n <= i
    BY <1>3, <1>7, <2>3
  <2>4. QED  BY <1>6, <2>1, <2>2, <2>3 DEF OthersBehind, docs
<1>9. Written(w)'
  <2>1. pc'[w] = "next"  BY <1>3 DEF ReadNew, TypeOK
  <2>2. QED  BY <2>1 DEF Written, WrittenFor
<1>10. AckedIsDurable'
  <2>1. ASSUME NEW i \in trimmed + 1 .. delivered', i \notin pel' PROVE i <= delivered
    <3>1. SUFFICES ASSUME i > delivered PROVE FALSE  BY <1>3
    <3>2. delivered' <= Len(log)  BY <1>3, <1>4, <1>6
    <3>3. i \in Undelivered  BY <1>3, <3>1, <3>2 DEF Undelivered
    <3>4. delivered' < i  BY <1>3, <1>4, <1>6, <2>1, <3>3, FirstOfIsOldest
    <3>5. QED  BY <1>3, <3>4
  <2>2. ASSUME NEW i \in trimmed + 1 .. delivered', i \notin pel' PROVE Durable(i)'
    <3>1. i \in trimmed + 1 .. delivered /\ i \in 1 .. Len(log)  BY <1>3, <2>1, <2>2
    <3>2. Durable(i)  BY <1>5, <3>1 DEF DInv, AckedIsDurable
    <3>3. QED  BY <1>1, <3>1, <3>2, DurableStays DEF DInv
  <2>3. QED  BY <1>6, <2>2 DEF AckedIsDurable
<1>11. QED  BY <1>2, <1>8, <1>9, <1>10 DEF DInv

\* XACK comes after the last write of persist.
LEMMA AckD ==
  ASSUME NEW w, Workers = {w}, DInv(w), Ack(w)
  PROVE  DInv(w)'
<1>1. [Next]_vars  BY DEF Next, Consume
<1>2. IInv(w)' /\ IInv(w) /\ w \in Workers  BY <1>1, StepInv DEF DInv
<1>3. PICK j \in batch[w] : AtEntry(w, j) /\ pel' = pel \ {j} /\ pc[w] = "ack"
  BY DEF Ack
<1>4. UNCHANGED <<log, trimmed, delivered, docs>>  BY DEF Ack
<1>5. Durable(j) /\ j \in 1 .. Len(log)
  BY <1>2, <1>3, CurrentIsOldest DEF DInv, Written, WrittenFor
<1>6. OthersBehind'  BY <1>3, <1>4 DEF DInv, OthersBehind, docs
<1>7. Written(w)'
  <2>1. pc'[w] = "next"  BY <1>2 DEF Ack, IInv, TypeOK
  <2>2. QED  BY <2>1 DEF Written, WrittenFor
<1>8. AckedIsDurable'
  <2>1. /\ trimmed \in Nat /\ delivered \in Nat
        /\ Len(log) \in Nat /\ delivered <= Len(log)
    BY <1>2 DEF IInv, TypeOK
  <2>2. ASSUME NEW i \in trimmed + 1 .. delivered, i \notin pel' PROVE Durable(i)'
    <3>1. i \in 1 .. Len(log)  BY <2>1, <2>2
    <3>2. Durable(i)  BY <1>3, <1>5, <2>2 DEF DInv, AckedIsDurable
    <3>3. QED  BY <1>1, <3>1, <3>2, DurableStays DEF DInv
  <2>3. QED  BY <1>4, <2>2 DEF AckedIsDurable
<1>9. QED  BY <1>2, <1>6, <1>7, <1>8 DEF DInv

\* A call of persist writes the entry at work.
LEMMA PersistWrites ==
  ASSUME NEW w, Workers = {w}, DInv(w), Persist(w),
         NEW i \in batch[w], AtEntry(w, i)
  PROVE  WrittenFor(w, i)'
<1>1. w \in Workers /\ IInv(w) /\ [Next]_vars  BY DEF DInv, Next, Consume
<1>2. UNCHANGED <<log, delivered, pel, batch>> /\ TypeOK /\ TypeOK'
  BY <1>1, PersistFrame
<1>3. /\ i \in 1 .. Len(log) /\ i \in Nat /\ i # 0 /\ i \in pel
      /\ \A j \in batch[w] : AtEntry(w, j) => j = i
  BY <1>1, CurrentIsOldest
<1>4. log[i] \in Inputs  BY <1>2, <1>3 DEF TypeOK
<1>5. WrittenFor(w, i)  BY DEF DInv, Written
<1> USE DEF GoTo, Begin, Entry
<1>6. CASE FindOrder(w)
  <2>1. /\ previous'[w] = orderDoc[OrderKey(log[i])].created
        /\ pc'[w] \in {"prov", "replace"} /\ orderDoc' = orderDoc
    BY <1>2, <1>3, <1>6 DEF FindOrder, TypeOK, docs
  <2>2. QED  BY <1>2, <2>1 DEF WrittenFor, OrderKey
<1>7. CASE FindProvisional(w)
  <2>1. /\ previous' = previous /\ pc[w] = "prov"
        /\ pc'[w] = "replace" /\ orderDoc' = orderDoc
    BY <1>2, <1>7 DEF FindProvisional, TypeOK, docs
  <2>2. QED  BY <1>2, <1>5, <2>1 DEF WrittenFor, OrderKey
<1>8. CASE ReplaceOrder(w)
  <2>1. /\ log[i].id \in Orders
        /\ \A o \in Orders : o = log[i].id => Shown(o)' = [at |-> i, created |-> CreatedAt(w, i)]
    BY <1>1, <1>8, ReplaceShows
  <2>2. \A o \in Orders : o = log[i].id => Shown(o)'.at >= i  BY <1>3, <2>1
  <2>3. Shown(log[i].id)'.at >= i
    <3>1. log'[i].id = log[i].id  BY <1>2
    <3>2. PICK o \in Orders : o = log[i].id  BY <2>1
    <3>3. Shown(o)'.at >= i  BY <2>2, <3>2
    <3>4. QED  BY <3>1, <3>2, <3>3 DEF Shown
  <2>4. pc'[w] \in {"delete", "journal"}  BY <1>2, <1>8 DEF ReplaceOrder, TypeOK
  <2>5. QED  BY <1>2, <2>3, <2>4 DEF WrittenFor
<1>9. CASE DeleteProvisional(w)
  <2>1. pc[w] = "delete" /\ pc'[w] = "journal" /\ log[i].kind = "order"
    BY <1>2, <1>3, <1>9 DEF DeleteProvisional, TypeOK
  <2>2. log[i].id \in Orders  BY <1>4, <2>1, ConstantsAssumption
  <2>3. Shown(log[i].id).at >= i  BY <1>5, <2>1 DEF WrittenFor
  <2>4. \A o \in Orders : o = log[i].id => Shown(o)'.at >= i
    BY <1>1, <1>9, <2>3, DeleteShows
  <2>5. Shown(log[i].id)'.at >= i  BY <1>2, <2>2, <2>4 DEF Shown
  <2>6. QED  BY <1>2, <2>1, <2>5 DEF WrittenFor
<1>10. CASE JournalOrder(w)
  <2>1. /\ pc[w] = "journal" /\ pc'[w] = "ack" /\ log[i].kind = "order"
        /\ i \in journal' /\ orderDoc' = orderDoc
    BY <1>2, <1>3, <1>10 DEF JournalOrder, TypeOK
  <2>2. Shown(log[i].id)'.at >= i  BY <1>2, <1>5, <2>1 DEF WrittenFor, Shown
  <2>3. QED  BY <1>2, <2>1, <2>2 DEF WrittenFor, Durable
<1>11. CASE RecordAlert(w)
  <2>1. pc'[w] = "ack" /\ log[i].kind = "alert" /\ i \in journal'
    BY <1>2, <1>3, <1>11 DEF RecordAlert, TypeOK
  <2>2. QED  BY <1>2, <2>1 DEF WrittenFor, Durable
<1>12. CASE SetState(w)
  <2>1. /\ pc'[w] = "ack" /\ log[i].kind = "state"
        /\ stateDoc' = [stateDoc EXCEPT ![log[i].id] = i]
    BY <1>2, <1>3, <1>12 DEF SetState, TypeOK
  <2>2. log[i].id \in States  BY <1>4, <2>1, ConstantsAssumption
  <2>3. stateDoc'[log[i].id] = i  BY <1>2, <2>1, <2>2 DEF TypeOK
  <2>4. QED  BY <1>2, <1>3, <2>1, <2>3 DEF WrittenFor, Durable
<1>13. CASE InsertFill(w)
  <2>1. /\ log[i].kind = "fill"
        /\ pc'[w] = IF log[i].known THEN "enrich" ELSE "ack"
        /\ fillDoc' = [fillDoc EXCEPT ![log[i].id] =
                   IF @.base # 0 THEN @
                   ELSE [base |-> i, commission |-> IF log[i].known THEN i ELSE 0]]
    BY <1>2, <1>3, <1>13 DEF InsertFill, TypeOK
  <2>2. log[i].id \in Fills  BY <1>4, <2>1, ConstantsAssumption
  <2>3. fillDoc[log[i].id].base \in Nat /\ fillDoc[log[i].id].base <= i
    BY <1>2, <1>3, <2>2 DEF DInv, OthersBehind, TypeOK, FillDocs
  <2>4. fillDoc'[log[i].id].base \in 1 .. i
    BY <1>2, <1>3, <2>1, <2>2, <2>3 DEF TypeOK
  <2>5. QED  BY <1>2, <2>1, <2>4 DEF WrittenFor, Durable
<1>14. CASE EnrichFill(w)
  <2>1. /\ log[i].kind = "fill" /\ pc[w] = "enrich" /\ pc'[w] = "ack"
        /\ fillDoc' = [fillDoc EXCEPT ![log[i].id].commission = i]
    BY <1>2, <1>3, <1>14 DEF EnrichFill, TypeOK
  <2>2. log[i].id \in Fills  BY <1>4, <2>1, ConstantsAssumption
  <2>3. fillDoc[log[i].id].base \in 1 .. i  BY <1>5, <2>1 DEF WrittenFor
  <2>4. fillDoc'[log[i].id].base \in 1 .. i /\ fillDoc'[log[i].id].commission = i
    BY <1>2, <2>1, <2>2, <2>3 DEF TypeOK, FillDocs
  <2>5. QED  BY <1>2, <1>3, <2>1, <2>4 DEF WrittenFor, Durable
<1>15. CASE SkipOther(w)
  <2>1. pc'[w] = "ack" /\ log[i].kind = "other"
    BY <1>2, <1>3, <1>15 DEF SkipOther, TypeOK
  <2>2. QED  BY <1>2, <2>1 DEF WrittenFor, Durable
<1>16. QED
  BY <1>6, <1>7, <1>8, <1>9, <1>10, <1>11, <1>12, <1>13, <1>14, <1>15 DEF Persist

LEMMA PersistD ==
  ASSUME NEW w, Workers = {w}, DInv(w), Persist(w)
  PROVE  DInv(w)'
<1>1. [Next]_vars /\ w \in Workers  BY DEF Next, Consume
<1>2. IInv(w)' /\ IInv(w)  BY <1>1, StepInv DEF DInv
<1>3. /\ UNCHANGED <<log, delivered, pel, batch>>
      /\ \E i \in batch[w] : AtEntry(w, i)
  BY <1>1, <1>2, PersistFrame
<1>4. UNCHANGED trimmed
  BY DEF Persist, FindOrder, FindProvisional, ReplaceOrder, DeleteProvisional,
         JournalOrder, RecordAlert, SetState, InsertFill, EnrichFill, SkipOther, GoTo, stream
<1>5. PICK i \in batch[w] : AtEntry(w, i)  BY <1>3
<1>6. /\ i \in pel /\ i <= delivered /\ i \in Nat /\ \A j \in pel : i <= j
      /\ \A j \in batch[w] : AtEntry(w, j) => j = i
  <2>1. /\ i \in pel /\ i \in 1 .. Len(log) /\ i <= delivered /\ \A j \in pel : i <= j
        /\ \A j \in batch[w] : AtEntry(w, j) => j = i
    BY <1>1, <1>2, <1>5, CurrentIsOldest
  <2>2. i \in Nat  BY <2>1
  <2>3. QED  BY <2>1, <2>2
<1>7. Written(w)'
  <2>1. WrittenFor(w, i)'  BY <1>5, PersistWrites
  <2>2. \A j \in batch'[w] : AtEntry(w, j)' => j = i  BY <1>3, <1>6 DEF AtEntry
  <2>3. QED  BY <2>1, <2>2 DEF Written
<1>8. OthersBehind'
  <2>1. CASE SetState(w)  BY <1>1, <1>2, <2>1, StateForward DEF DInv
  <2>2. CASE InsertFill(w) \/ EnrichFill(w)
    <3>1. stateDoc' = stateDoc  BY <2>2 DEF InsertFill, EnrichFill
    <3>2. \A x \in Fills : fillDoc'[x].base \in {fillDoc[x].base, i}
      <4>1. CASE InsertFill(w)
        BY <1>2, <1>6, <4>1 DEF InsertFill, Begin, Entry, IInv, TypeOK, FillDocs
      <4>2. CASE EnrichFill(w)
        BY <1>2, <1>6, <4>2 DEF EnrichFill, Entry, IInv, TypeOK, FillDocs
      <4>3. QED  BY <2>2, <4>1, <4>2
    <3>3. QED  BY <1>3, <1>6, <3>1, <3>2 DEF DInv, OthersBehind
  <2>3. CASE stateDoc' = stateDoc /\ fillDoc' = fillDoc
    BY <1>3, <2>3 DEF DInv, OthersBehind
  <2>4. QED
    <3>1. SetState(w) => fillDoc' = fillDoc  BY DEF SetState
    <3>2. InsertFill(w) \/ EnrichFill(w) => stateDoc' = stateDoc
      BY DEF InsertFill, EnrichFill
    <3>3. QED  BY <1>1, <2>1, <2>2, <2>3, WhoWrites
<1>9. AckedIsDurable'
  <2>1. trimmed' >= trimmed  BY <1>2, <1>4 DEF IInv, TypeOK
  <2>2. QED  BY <1>1, <1>3, <2>1, AckedStays
<1>10. QED  BY <1>2, <1>7, <1>8, <1>9 DEF DInv

LEMMA StepD == ASSUME NEW w, Workers = {w}, DInv(w), [Next]_vars PROVE DInv(w)'
<1>1. IInv(w) /\ TypeOK /\ w \in Workers  BY DEF DInv, IInv
<1>2. trimmed \in Nat /\ trimmed >= trimmed  BY <1>1 DEF TypeOK
<1>3. CASE \E e \in Inputs : Publish(e)  BY <1>3, PublishD
<1>4. CASE ReadNew(w)  BY <1>4, ReadNewD
<1>5. CASE Ack(w)  BY <1>5, AckD
<1>6. CASE Persist(w)  BY <1>6, PersistD
<1>7. CASE ReadPending(w)
  <2>1. UNCHANGED <<delivered, pel, docs, trimmed>> /\ pc'[w] = "next"
    BY <1>1, <1>7 DEF ReadPending, TypeOK, stream
  <2>2. QED  BY <1>2, <2>1, IdleD
<1>8. CASE \/ Start(w) \/ NothingPending(w) \/ BatchDone(w) \/ LostEntry(w)
           \/ Fail(w) \/ Crash(w)
  <2>1. UNCHANGED <<delivered, pel, docs, trimmed>>
    BY <1>8 DEF Start, NothingPending, BatchDone, LostEntry, Fail, Recover, Crash, stream
  <2>2. batch'[w] = {}
    BY <1>1, <1>8 DEF Start, NothingPending, BatchDone, LostEntry, Fail, Recover, Crash,
                      IInv, BatchIsOldest, TypeOK
  <2>3. QED  BY <1>2, <2>1, <2>2, IdleD
<1>9. CASE UNCHANGED vars
  <2>1. /\ UNCHANGED <<log, trimmed, delivered, pel, pc, batch, previous>>
        /\ UNCHANGED <<orderDoc, journal, fillDoc, stateDoc>>
    BY <1>9 DEF vars, stream, locals, docs
  <2>2. IInv(w)'  BY StepInv DEF DInv
  <2>3. OthersBehind'  BY <2>1 DEF DInv, OthersBehind
  <2>4. \A i \in 1 .. Len(log) : Durable(i) => Durable(i)'  BY <1>1, DurableStays DEF DInv
  <2>5. Written(w)'
    <3>1. SUFFICES ASSUME NEW i \in batch[w], AtEntry(w, i) PROVE WrittenFor(w, i)'
      BY <2>1 DEF Written, AtEntry
    <3>2. i \in 1 .. Len(log)  BY <1>1, <3>1, CurrentIsOldest
    <3>3. WrittenFor(w, i)  BY <3>1 DEF DInv, Written
    <3>4. QED  BY <2>1, <2>4, <3>2, <3>3 DEF WrittenFor, Shown, OrderKey
  <2>6. AckedIsDurable'  BY <1>2, <2>1, AckedStays
  <2>7. QED  BY <2>2, <2>3, <2>5, <2>6 DEF DInv
<1>10. QED
  BY <1>1, <1>3, <1>4, <1>5, <1>6, <1>7, <1>8, <1>9 DEF Next, Consume

LEMMA OneWorkerD == ASSUME NEW w, Workers = {w} PROVE Spec => []DInv(w)
<1>1. Init => DInv(w)  BY InitD
<1>2. DInv(w) /\ [Next]_vars => DInv(w)'  BY StepD
<1>3. QED  BY <1>1, <1>2, PTL DEF Spec

\* With one worker, every event that is acknowledged and was not trimmed is in
\* the documents, whatever fails between any two calls and is replayed.
THEOREM AcknowledgedIsWritten ==
  ASSUME NEW w, Workers = {w} PROVE Spec => []AckedIsDurable
<1>1. Spec => []DInv(w)  BY OneWorkerD
<1>2. DInv(w) => AckedIsDurable  BY DEF DInv
<1>3. QED  BY <1>1, <1>2, PTL
-----------------------------------------------------------------------------
(* Every step is a step of the abstract ledger, or none that it can see.     *)

book == [o \in Orders |-> Shown(o).at]
opened == [o \in Orders |-> Shown(o).created]
LInv(w) == DInv(w) /\ trimmed = 0

\* Nothing of the order is left out before the entry at work: what is older is
\* acknowledged, so the order shows it.
LEMMA OldestNotShown ==
  ASSUME NEW w, Workers = {w}, LInv(w), NEW i \in batch[w], AtEntry(w, i),
         log[i].kind = "order", log[i].id \in Orders, Shown(log[i].id).at # i
  PROVE  Ledger!NextOf(log[i].id, i)
<1> DEFINE o == log[i].id
<1>1. IInv(w) /\ AckedIsDurable /\ trimmed = 0 /\ w \in Workers  BY DEF LInv, DInv
<1>2. /\ i \in pel /\ i \in 1 .. Len(log) /\ i <= delivered
      /\ \A j \in pel : i <= j
  BY <1>1, CurrentIsOldest
<1>3. /\ Len(log) \in Nat /\ delivered \in Nat /\ Shown(o).at \in Nat
      /\ Shown(o).at <= i
  <2>1. Len(log) \in Nat /\ delivered \in Nat  BY <1>1 DEF IInv, TypeOK
  <2>2. <<o, TRUE>> \in Orders \X BOOLEAN /\ <<o, FALSE>> \in Orders \X BOOLEAN
    OBVIOUS
  <2>3. \A k \in Orders \X BOOLEAN : orderDoc[k] \in OrderDocs
    BY <1>1 DEF IInv, TypeOK
  <2>4. \A k \in Orders \X BOOLEAN : orderDoc[k].at \in Nat
    BY <2>3 DEF OrderDocs
  <2>5. \A k \in Orders \X BOOLEAN : orderDoc[k].at <= i
    BY <1>1, <1>2 DEF IInv, Behind
  <2>6. QED  BY <2>1, <2>2, <2>4, <2>5 DEF Shown
<1>4. i > book[o] /\ book[o] = Shown(o).at  BY <1>2, <1>3 DEF book
<1>5. ASSUME NEW j \in 1 .. Len(log), j > book[o], j < i, Ledger!OfOrder(o, j)
      PROVE  FALSE
  <2>1. j \in trimmed + 1 .. delivered /\ j \notin pel  BY <1>1, <1>2, <1>3, <1>5
  <2>2. Durable(j)  BY <1>1, <2>1 DEF AckedIsDurable
  <2>3. Shown(o).at >= j  BY <1>5, <2>2 DEF Durable, Ledger!OfOrder
  <2>4. QED  BY <1>3, <1>4, <1>5, <2>3
<1>6. Ledger!OfOrder(o, i)  BY DEF Ledger!OfOrder
<1>7. QED  BY <1>4, <1>5, <1>6 DEF Ledger!NextOf, book

\* A document that is replaced keeps the creation time the order had.
LEMMA CreatedKept ==
  ASSUME NEW w, Workers = {w}, DInv(w), ReplaceOrder(w),
         NEW i \in batch[w], AtEntry(w, i)
  PROVE  /\ CreatedAt(w, i) = IF Shown(log[i].id).created = 0 THEN i
                              ELSE Shown(log[i].id).created
         /\ Shown(log[i].id).at = 0 <=> Shown(log[i].id).created = 0
<1> DEFINE key == OrderKey(log[i])
           old == <<log[i].id, FALSE>>
<1>1. IInv(w) /\ w \in Workers /\ TypeOK  BY DEF DInv, IInv
<1>2. /\ i \in 1 .. Len(log)
      /\ \A j \in batch[w] : AtEntry(w, j) => j = i
  BY <1>1, CurrentIsOldest
<1>3. /\ log[i].kind = "order" /\ log[i].id \in Orders
      /\ Shown(log[i].id) = IF orderDoc[key].at # 0 THEN orderDoc[key] ELSE orderDoc[old]
  BY <1>1, ReplaceShows
<1>4. pc[w] = "replace"  BY DEF ReplaceOrder
<1>5. /\ previous[w] = orderDoc[key].created
      /\ provisional[w] = IF log[i].known THEN orderDoc[old].created ELSE 0
  <2>1. WrittenFor(w, i)  BY DEF DInv, Written
  <2>2. DoneFor(w, i)  BY <1>1 DEF IInv, Progress
  <2>3. QED  BY <1>4, <2>1, <2>2 DEF WrittenFor, DoneFor
<1>6. log[i].known \in BOOLEAN
  <2>1. log[i] \in Inputs  BY <1>1, <1>2 DEF TypeOK
  <2>2. QED  BY <2>1, ConstantsAssumption
<1>7. key \in Orders \X BOOLEAN /\ old \in Orders \X BOOLEAN  BY <1>3, <1>6 DEF OrderKey
<1>8. /\ orderDoc[key].at # 0 <=> orderDoc[key].created # 0
      /\ orderDoc[old].at # 0 <=> orderDoc[old].created # 0
  BY <1>1, <1>7 DEF IInv, DocSource
<1>9. ~log[i].known => key = old  BY <1>6 DEF OrderKey
<1>10. QED  BY <1>3, <1>5, <1>8, <1>9 DEF CreatedAt

LEMMA LedgerStep ==
  ASSUME NEW w, Workers = {w}, LInv(w), [Next]_vars
  PROVE  Ledger!Next \/ UNCHANGED <<log, book, opened>>
<1>1. IInv(w) /\ w \in Workers /\ TypeOK /\ DInv(w)  BY DEF LInv, DInv, IInv
<1>2. orderDoc' = orderDoc => book' = book /\ opened' = opened
  BY DEF book, opened, Shown
<1>3. CASE \E e \in Inputs : Publish(e)
  <2>1. PICK e \in Inputs : Publish(e)  BY <1>3
  <2>2. log' = Append(log, e) /\ orderDoc' = orderDoc  BY <2>1 DEF Publish, docs
  <2>3. Ledger!Publish
    BY <1>2, <2>2 DEF Ledger!Publish, book, opened
  <2>4. QED  BY <2>3 DEF Ledger!Next
<1>4. CASE UNCHANGED vars
  BY <1>2, <1>4 DEF vars, stream, docs
<1>5. CASE ReplaceOrder(w)
  <2>1. PICK i \in batch[w] : AtEntry(w, i)  BY <1>5 DEF ReplaceOrder, Entry
  <2>2. i \in Nat /\ i # 0 /\ log' = log
    <3>1. i \in 1 .. Len(log)  BY <1>1, <2>1, CurrentIsOldest
    <3>2. log' = log  BY <1>1, <1>5, PersistFrame DEF Persist
    <3>3. QED  BY <3>1, <3>2
  <2> DEFINE o == log[i].id
  <2>3. /\ log[i].kind = "order" /\ o \in Orders
        /\ \A p \in Orders : p = o => Shown(p)' = [at |-> i, created |-> CreatedAt(w, i)]
        /\ \A p \in Orders : p # o => Shown(p)' = Shown(p)
    BY <1>1, <1>5, <2>1, ReplaceShows
  <2>4. /\ CreatedAt(w, i) = IF opened[o] = 0 THEN i ELSE opened[o]
        /\ book[o] = 0 <=> opened[o] = 0
    BY <1>1, <1>5, <2>1, <2>3, CreatedKept DEF book, opened
  <2>5. /\ book' = [book EXCEPT ![o] = i]
        /\ opened' = [opened EXCEPT ![o] = CreatedAt(w, i)]
    <3>1. \A p \in Orders : /\ Shown(p)'.at = IF p = o THEN i ELSE Shown(p).at
                            /\ Shown(p)'.created = IF p = o THEN CreatedAt(w, i) ELSE Shown(p).created
      BY <2>3
    <3>2. /\ book' = [p \in Orders |-> Shown(p)'.at]
          /\ opened' = [p \in Orders |-> Shown(p)'.created]
      BY DEF book, opened
    <3>3. book' = [p \in Orders |-> IF p = o THEN i ELSE Shown(p).at]
      BY <3>1, <3>2
    <3>4. opened' = [p \in Orders |-> IF p = o THEN CreatedAt(w, i) ELSE Shown(p).created]
      BY <3>1, <3>2
    <3>5. QED  BY <3>3, <3>4 DEF book, opened
  <2>6. CASE book[o] = i
    <3>1. CreatedAt(w, i) = opened[o]  BY <2>2, <2>4, <2>6
    <3>2. QED  BY <2>2, <2>3, <2>5, <2>6, <3>1 DEF book, opened
  <2>7. CASE book[o] # i
    <3>1. Ledger!NextOf(o, i)  BY <2>1, <2>3, <2>7, OldestNotShown DEF book
    <3>2. i \in 1 .. Len(log)  BY <1>1, <2>1, CurrentIsOldest
    <3>3. Ledger!Reflect(o)
      BY <2>2, <2>4, <2>5, <3>1, <3>2 DEF Ledger!Reflect, book, opened
    <3>4. QED  BY <2>3, <3>3 DEF Ledger!Next
  <2>8. QED  BY <2>6, <2>7
<1>6. CASE DeleteProvisional(w)
  <2>1. \A o \in Orders : Shown(o)' = Shown(o)  BY <1>1, <1>6, DeleteShows
  <2>2. log' = log  BY <1>1, <1>6, PersistFrame DEF Persist
  <2>3. QED  BY <2>1, <2>2 DEF book, opened
<1>7. CASE orderDoc' = orderDoc /\ log' = log  BY <1>2, <1>7
<1>8. QED
  <2>1. (\E e \in Inputs : Publish(e)) \/ UNCHANGED vars \/ log' = log
    <3>1. Persist(w) => log' = log  BY <1>1, PersistFrame
    <3>2. \/ Start(w) \/ ReadPending(w) \/ NothingPending(w) \/ ReadNew(w)
          \/ BatchDone(w) \/ LostEntry(w) \/ Ack(w) \/ Fail(w) \/ Crash(w)
          => log' = log
      BY DEF Start, ReadPending, NothingPending, ReadNew, BatchDone, LostEntry, Ack,
             Fail, Recover, Crash, stream
    <3>3. QED  BY <3>1, <3>2 DEF Next, Consume
  <2>2. QED  BY <1>3, <1>4, <1>5, <1>6, <1>7, <2>1, WhoWrites

\* With one worker and a stream long enough for what is published, whatever is
\* published, fails, crashes and is replayed, the order documents go through the
\* events as the ledger does: one at a time, none left out, each order with the
\* creation time of its first.
THEOREM HistoryImplementsLedger ==
  ASSUME NEW w, Workers = {w}, MaxEvents <= MaxLen
  PROVE  Spec => Ledger!Safety
<1>1. Init => LInv(w)  BY InitD DEF LInv, Init
<1>2. LInv(w) /\ [Next]_vars => LInv(w)'
  <2>1. SUFFICES ASSUME LInv(w), [Next]_vars PROVE LInv(w)'  OBVIOUS
  <2>2. DInv(w)' /\ TypeOK  BY <2>1, StepD DEF LInv, DInv, IInv
  <2>3. trimmed' = 0
    <3>1. CASE \E e \in Inputs : Publish(e)
      <4>1. PICK t \in trimmed .. Len(log) + 1 :
              (t = trimmed \/ t <= Len(log) + 1 - MaxLen) /\ trimmed' = t
        BY <3>1 DEF Publish
      <4>2. Len(log) \in Nat /\ Len(log) < MaxEvents /\ trimmed = 0
        BY <2>1, <2>2, <3>1 DEF Publish, TypeOK, LInv
      <4>3. Len(log) + 1 - MaxLen <= 0  BY <4>2, ConstantsAssumption
      <4>4. QED  BY <4>1, <4>2, <4>3, ConstantsAssumption
    <3>2. CASE trimmed' = trimmed  BY <2>1, <3>2 DEF LInv
    <3>3. (\E e \in Inputs : Publish(e)) \/ trimmed' = trimmed
      BY <2>1 DEF Next, Consume, Persist, FindOrder, FindProvisional, ReplaceOrder,
         DeleteProvisional, JournalOrder, RecordAlert, SetState, InsertFill, EnrichFill,
         SkipOther, GoTo, Start, ReadPending, NothingPending, ReadNew, BatchDone,
         LostEntry, Ack, Fail, Recover, Crash, stream, vars
    <3>4. QED  BY <3>1, <3>2, <3>3
  <2>4. QED  BY <2>2, <2>3 DEF LInv
<1>3. Init => Ledger!Init
  <2>1. SUFFICES ASSUME Init PROVE Ledger!Init  OBVIOUS
  <2>2. \A o \in Orders : Shown(o) = NoDoc
    <3>1. TAKE o \in Orders
    <3>2. <<o, TRUE>> \in Orders \X BOOLEAN /\ <<o, FALSE>> \in Orders \X BOOLEAN
      OBVIOUS
    <3>3. orderDoc[<<o, TRUE>>] = NoDoc /\ orderDoc[<<o, FALSE>>] = NoDoc
      BY <2>1, <3>2 DEF Init
    <3>4. QED  BY <3>3 DEF Shown
  <2>3. \A o \in Orders : Shown(o).at = 0 /\ Shown(o).created = 0
    BY <2>2 DEF NoDoc
  <2>4. [o \in Orders |-> Shown(o).at] = [o \in Orders |-> 0]  BY <2>3
  <2>5. [o \in Orders |-> Shown(o).created] = [o \in Orders |-> 0]  BY <2>3
  <2>6. QED  BY <2>1, <2>4, <2>5 DEF Init, Ledger!Init
<1>4. LInv(w) /\ [Next]_vars => [Ledger!Next]_(Ledger!vars)
  BY LedgerStep DEF Ledger!vars, book, opened
<1>5. QED  BY <1>1, <1>2, <1>3, <1>4, PTL DEF Spec, Ledger!Safety
=============================================================================
