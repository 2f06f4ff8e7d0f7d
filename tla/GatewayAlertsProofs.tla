------------------------ MODULE GatewayAlertsProofs ------------------------
(***************************************************************************)
(* What the desk is told, for any number of gateways, any grace period and  *)
(* any number of dropped batches and restarts: no class twice in one spell, *)
(* and no blip.  The argument: what was told in this spell is what Redis    *)
(* remembers, a gateway with something pending has been told nothing since  *)
(* its last change, and a pending entry is no older than the time since the *)
(* gateway was seen up.                                                     *)
(***************************************************************************)
EXTENDS GatewayAlerts, TLAPS

\* What Redis, memory and the pending entry say of what was told.
Remembered(k) ==
  /\ pending[k] # None => spell[k] = None /\ pending[k].age <= upAge[k]
  /\ spell[k] # None => store[k] = spell[k] /\ memory[k] \in {None, spell[k]}

\* A message about to be sent is remembered, is news, and nothing waits behind it.
IsNews ==
  say # None => /\ spell[say.key] = None /\ pending[say.key] = None
                /\ memory[say.key] = say.class /\ store[say.key] = say.class
                /\ say.debounced => upAge[say.key] = Grace

\* What the sweep has yet to look at is pending.
Listed == /\ \A k \in todo : pending[k] # None
          /\ phase # "sweep" => todo = {}
          /\ say # None /\ phase = "handle" => batch # <<>>

AlertsInv == TypeOK /\ (\A k \in Keys : Remembered(k)) /\ IsNews /\ Listed
-----------------------------------------------------------------------------
LEMMA AlertsInit == Init => AlertsInv
  BY AlertsAssumption
  DEF AlertsAssumption, Init, AlertsInv, TypeOK, Remembered, IsNews, Listed, Classes, Statuses

\* What a status or an entry says is one of the classes.
LEMMA ClassTypes == /\ \A s \in Statuses : ClassOf(s) \in Classes
                    /\ \A e \in Event : Class(e) \in Classes
  BY DEF ClassOf, Class, Classes, Statuses, Event

\* Handling an entry, whatever it leads to, leaves the batch a sequence of entries.
LEMMA BatchType ==
  ASSUME TypeOK, batch # <<>>
  PROVE  Tail(batch) \in Seq(Event) /\ Head(batch) \in Event
  BY DEF TypeOK

\* A session publishes statuses.
LEMMA FollowsType == \A s \in Statuses : Follows[s] \subseteq Statuses
  BY DEF Follows, Statuses

LEMMA PendingType ==
  ASSUME TypeOK, NEW k \in Keys, pending[k] # None
  PROVE  /\ pending[k] \in [status : Statuses, age : 0 .. Grace]
         /\ pending[k].age \in 0 .. Grace /\ pending[k].status \in Statuses
<1>1. pending[k] \in [status : Statuses, age : 0 .. Grace] \cup {None}
  BY DEF TypeOK
<1>2. QED
  BY <1>1

\* remember_gateway and what goes with it keep the types of the state ...
LEMMA StateTypes ==
  ASSUME TypeOK, NEW k \in Keys, NEW c \in Classes,
         memory' = [memory EXCEPT ![k] = c],
         store' = store \/ store' = [store EXCEPT ![k] = c],
         pending' = pending \/ pending' = [pending EXCEPT ![k] = None]
  PROVE  /\ memory' \in [Keys -> Classes \cup {None}]
         /\ store' \in [Keys -> Classes \cup {None}]
         /\ pending' \in [Keys -> [status : Statuses, age : 0 .. Grace] \cup {None}]
<1>1. [memory EXCEPT ![k] = c] \in [Keys -> Classes \cup {None}]
  BY DEF TypeOK
<1>2. [store EXCEPT ![k] = c] \in [Keys -> Classes \cup {None}]
  BY DEF TypeOK
<1>3. [pending EXCEPT ![k] = None] \in [Keys -> [status : Statuses, age : 0 .. Grace] \cup {None}]
  BY DEF TypeOK
<1>4. /\ store \in [Keys -> Classes \cup {None}]
      /\ pending \in [Keys -> [status : Statuses, age : 0 .. Grace] \cup {None}]
  BY DEF TypeOK
<1>5. QED
  BY <1>1, <1>2, <1>3, <1>4

\* ... and of the loop.
LEMMA LoopTypes ==
  ASSUME TypeOK, NEW k \in Keys, NEW c \in Classes, NEW debounced \in BOOLEAN,
         say' = None \/ say' = [key |-> k, class |-> c, debounced |-> debounced],
         batch' = <<>> \/ batch' = batch \/ (batch # <<>> /\ batch' = Tail(batch)),
         phase' = "asleep" \/ phase' = phase,
         todo' = {} \/ todo' = todo \/ todo' = todo \ {k}
  PROVE  /\ phase' \in {"asleep", "sweep", "handle"} /\ todo' \subseteq Keys
         /\ batch' \in Seq(Event) /\ say' \in Message \cup {None}
<1>1. [key |-> k, class |-> c, debounced |-> debounced] \in Message
  BY DEF Message
<1>2. say' \in Message \cup {None}
  BY <1>1
<1>3. batch' \in Seq(Event)
  <2>1. batch \in Seq(Event)
    BY DEF TypeOK
  <2>2. <<>> \in Seq(Event)
    OBVIOUS
  <2>3. batch # <<>> => Tail(batch) \in Seq(Event)
    BY <2>1
  <2>4. QED
    BY <2>1, <2>2, <2>3
<1>4. QED
  BY <1>2, <1>3 DEF TypeOK

LEMMA AlertsNext == AlertsInv /\ [Next]_vars => AlertsInv'
<1> SUFFICES ASSUME AlertsInv, [Next]_vars PROVE AlertsInv'
  OBVIOUS
<1> USE AlertsAssumption DEF AlertsAssumption, AlertsInv, source, loop, state, Fault
<1>1. CASE UNCHANGED vars
  BY <1>1 DEF vars, TypeOK, Remembered, IsNews, Listed
<1>2. CASE Read
  BY <1>2 DEF Read, TypeOK, Remembered, IsNews, Listed
<1>3. CASE Swept
  <2>1. TypeOK'
    <3>1. CASE phase' = "handle" /\ UNCHANGED <<batch, todo, say, faults>>
      BY <1>3, <3>1 DEF Swept, TypeOK
    <3>2. CASE Fault /\ Abort
      BY <1>3, <3>2 DEF Swept, Abort, TypeOK
    <3>3. QED
      BY <1>3, <3>1, <3>2 DEF Swept
  <2>2. (\A k \in Keys : Remembered(k)') /\ IsNews' /\ Listed'
    BY <1>3 DEF Swept, Abort, Remembered, IsNews, Listed
  <2>3. QED
    BY <2>1, <2>2
<1>4. CASE Handled
  BY <1>4 DEF Handled, TypeOK, Remembered, IsNews, Listed
<1>5. CASE HandleFails
  BY <1>5 DEF HandleFails, Abort, TypeOK, Remembered, IsNews, Listed
<1>6. CASE Restart
  BY <1>6 DEF Restart, Abort, TypeOK, Remembered, IsNews, Listed
<1>7. CASE Tick
  <2> USE <1>7 DEF Tick, Older
  <2>1. \A k \in Keys : pending[k] # None => pending[k].age \in 0 .. Grace /\ pending[k].status \in Statuses
    BY PendingType
  <2>2. TypeOK'
    <3>1. \A k \in Keys : pending'[k] \in [status : Statuses, age : 0 .. Grace] \cup {None}
      <4> TAKE k \in Keys
      <4>1. CASE pending[k] = None
        BY <4>1
      <4>2. CASE pending[k] # None
        <5>1. pending[k] \in [status : Statuses, age : 0 .. Grace]
          BY <4>2, PendingType
        <5>2. pending'[k] = [pending[k] EXCEPT !.age = Older(@)]
          BY <4>2
        <5>3. QED
          BY <5>1, <5>2
      <4>3. QED
        BY <4>1, <4>2
    <3>2. pending' \in [Keys -> [status : Statuses, age : 0 .. Grace] \cup {None}]
      BY <3>1
    <3>3. upAge' \in [Keys -> 0 .. Grace]
      BY DEF TypeOK
    <3>4. QED
      BY <3>2, <3>3 DEF TypeOK
  <2>3. \A k \in Keys : Remembered(k)'
    BY <2>1, <2>2 DEF TypeOK, Remembered
  <2>4. IsNews'
    BY DEF TypeOK, IsNews, Message
  <2>5. Listed'
    <3>1. \A k \in Keys : pending[k] # None => pending'[k] \in [status : Statuses, age : 0 .. Grace]
      <4> TAKE k \in Keys
      <4> HAVE pending[k] # None
      <4>1. pending[k] \in [status : Statuses, age : 0 .. Grace]
        BY PendingType
      <4>2. pending'[k] = [pending[k] EXCEPT !.age = Older(@)]
        OBVIOUS
      <4>3. QED
        BY <4>1, <4>2
    <3>2. \A k \in Keys : pending[k] # None => pending'[k] # None
      BY <3>1
    <3>3. QED
      BY <3>2 DEF TypeOK, Listed
  <2>6. QED
    BY <2>2, <2>3, <2>4, <2>5
<1>8. CASE Deliver
  <2>1. say \in Message /\ say.key \in Keys /\ say.class \in Classes
    BY <1>8 DEF Deliver, TypeOK, Message
  <2>2. PICK sent \in BOOLEAN :
          /\ spell' = IF sent THEN [spell EXCEPT ![say.key] = say.class] ELSE spell
          /\ \/ /\ sent /\ say' = None
                /\ IF phase = "handle" THEN Acked ELSE UNCHANGED <<phase, batch>>
                /\ UNCHANGED <<todo, faults>>
             \/ Fault /\ Abort
    BY <1>8 DEF Deliver
  <2>3. TypeOK'
    <3>1. batch' \in Seq(Event) /\ phase' \in {"asleep", "sweep", "handle"} /\ todo' \subseteq Keys /\ say' = None
      <4>1. CASE Fault /\ Abort
        BY <4>1 DEF Abort
      <4>2. CASE phase = "handle" /\ Acked /\ say' = None /\ todo' = todo
        BY <1>8, <4>2 DEF Deliver, Listed, Acked, TypeOK
      <4>3. CASE UNCHANGED <<phase, batch, todo>> /\ say' = None
        BY <4>3 DEF TypeOK
      <4>4. QED
        BY <2>2, <4>1, <4>2, <4>3
    <3>2. spell' \in [Keys -> Classes \cup {None}] /\ faults' \in Nat
      BY <2>1, <2>2 DEF Acked, Abort, TypeOK
    <3>3. QED
      BY <1>8, <3>1, <3>2 DEF Deliver, TypeOK
  <2>4. \A k \in Keys : Remembered(k)'
    BY <1>8, <2>1, <2>2 DEF Deliver, TypeOK, IsNews, Remembered
  <2>5. IsNews' /\ Listed'
    BY <1>8, <2>2 DEF Deliver, Acked, Abort, IsNews, Listed
  <2>6. QED
    BY <2>3, <2>4, <2>5
<1>9. ASSUME NEW k \in Keys, Republish(k) \/ Changes(k) \/ Prompts(k) PROVE AlertsInv'
  <2>1. PICK s \in Statuses, prompt \in BOOLEAN :
          /\ status' \in [Keys -> Statuses]
          /\ stream' = Append(stream, [key |-> k, status |-> s, prompt |-> prompt])
          /\ changes' \in Nat /\ UNCHANGED <<loop, state, say, spell, upAge, faults>>
    <3>1. status[k] \in Statuses /\ Follows[status[k]] \subseteq Statuses
      BY FollowsType DEF TypeOK
    <3>2. CASE Republish(k)
      <4>1. PICK s \in Follows[status[k]] :
              /\ status' = [status EXCEPT ![k] = s]
              /\ stream' = Append(stream, [key |-> k, status |-> s, prompt |-> FALSE])
              /\ changes' = changes \/ changes' = changes + 1
              /\ UNCHANGED <<loop, state, say, spell, upAge, faults>>
        BY <3>2 DEF Republish, Append1
      <4>2. s \in Statuses
        BY <3>1
      <4>3. status' \in [Keys -> Statuses] /\ changes' \in Nat
        BY <4>1, <4>2 DEF TypeOK
      <4>4. QED
        BY <4>1, <4>2, <4>3
    <3>3. CASE Changes(k)
      <4>1. PICK s \in Follows[status[k]] :
              /\ status' = [status EXCEPT ![k] = s]
              /\ stream' = Append(stream, [key |-> k, status |-> s, prompt |-> FALSE])
              /\ changes' = changes \/ changes' = changes + 1
              /\ UNCHANGED <<loop, state, say, spell, upAge, faults>>
        BY <3>3 DEF Changes, Append1
      <4>2. s \in Statuses
        BY <3>1
      <4>3. status' \in [Keys -> Statuses] /\ changes' \in Nat
        BY <4>1, <4>2 DEF TypeOK
      <4>4. QED
        BY <4>1, <4>2, <4>3
    <3>4. CASE Prompts(k)
      <4>1. /\ status' = status /\ changes' = changes + 1
            /\ stream' = Append(stream, [key |-> k, status |-> status[k], prompt |-> TRUE])
            /\ UNCHANGED <<loop, state, say, spell, upAge, faults>>
        BY <3>4 DEF Prompts, Append1
      <4>2. status' \in [Keys -> Statuses] /\ changes' \in Nat
        BY <4>1 DEF TypeOK
      <4>3. QED
        BY <3>1, <4>1, <4>2
    <3>5. QED
      BY <1>9, <3>2, <3>3, <3>4
  <2>2. stream' \in Seq(Event)
    BY <2>1 DEF TypeOK, Event
  <2>3. QED
    BY <2>1, <2>2 DEF TypeOK, Remembered, IsNews, Listed
<1>10. ASSUME NEW k \in Keys, Sweep(k) PROVE AlertsInv'
  <2> USE <1>10 DEF Sweep
  <2> DEFINE class == ClassOf(pending[k].status)
  <2>1. pending[k] # None /\ phase = "sweep" /\ say = None
    BY DEF Listed
  <2>2. pending[k].age \in 0 .. Grace /\ class \in Classes /\ spell[k] = None /\ pending[k].age <= upAge[k]
    BY <2>1, ClassTypes DEF TypeOK, Remembered
  <2> HIDE DEF class
  <2>3. CASE pending[k].age < Grace
    BY <2>3 DEF TypeOK, Remembered, IsNews, Listed
  <2>4. CASE pending[k].age >= Grace /\ memory[k] = class
    <3>1. /\ pending' = [pending EXCEPT ![k] = None] /\ todo' = todo \ {k}
          /\ UNCHANGED <<phase, batch, memory, store, say, faults>>
      BY <2>2, <2>4 DEF class
    <3>2. pending' \in [Keys -> [status : Statuses, age : 0 .. Grace] \cup {None}]
      BY <3>1 DEF TypeOK
    <3>3. TypeOK'
      BY <3>1, <3>2 DEF TypeOK
    <3>4. (\A j \in Keys : Remembered(j)') /\ IsNews' /\ Listed'
      BY <2>1, <3>1 DEF TypeOK, Remembered, IsNews, Listed
    <3>5. QED
      BY <3>3, <3>4
  <2>5. CASE pending[k].age >= Grace /\ memory[k] # class
    <3>1. /\ pending' = [pending EXCEPT ![k] = None]
          /\ memory' = [memory EXCEPT ![k] = class]
          /\ \/ /\ store' = [store EXCEPT ![k] = class] /\ todo' = todo \ {k}
                /\ say' = [key |-> k, class |-> class, debounced |-> TRUE]
                /\ UNCHANGED <<phase, batch, faults>>
             \/ Fault /\ Abort /\ UNCHANGED store
      BY <2>2, <2>5 DEF class, Remember, Call
    <3>2. upAge[k] = Grace
      BY <2>2, <2>5 DEF TypeOK
    <3>3. TypeOK'
      <4>1. /\ pending' \in [Keys -> [status : Statuses, age : 0 .. Grace] \cup {None}]
            /\ memory' \in [Keys -> Classes \cup {None}] /\ store' \in [Keys -> Classes \cup {None}]
        <5>1. store' = store \/ store' = [store EXCEPT ![k] = class]
          BY <3>1
        <5>2. QED
          BY <2>2, <3>1, <5>1, StateTypes
      <4>2. /\ phase' \in {"asleep", "sweep", "handle"} /\ todo' \subseteq Keys
            /\ batch' \in Seq(Event) /\ say' \in Message \cup {None}
        <5>1. say' = None \/ say' = [key |-> k, class |-> class, debounced |-> TRUE]
          BY <2>1, <3>1 DEF Abort
        <5>2. batch' = <<>> \/ batch' = batch \/ (batch # <<>> /\ batch' = Tail(batch))
          BY <2>1, <3>1 DEF Abort
        <5>3. phase' = "asleep" \/ phase' = phase
          BY <3>1 DEF Abort
        <5>4. todo' = {} \/ todo' = todo \/ todo' = todo \ {k}
          BY <2>1, <3>1 DEF Abort
        <5>5. QED
          BY <2>2, <5>1, <5>2, <5>3, <5>4, LoopTypes
      <4>3. faults' \in Nat
        BY <3>1 DEF TypeOK
      <4>4. QED
        BY <4>1, <4>2, <4>3 DEF TypeOK
    <3>4. \A j \in Keys : Remembered(j)'
      BY <2>2, <3>1 DEF TypeOK, Remembered
    <3>5. IsNews'
      BY <2>2, <3>1, <3>2 DEF Abort, TypeOK, IsNews
    <3>6. Listed'
      BY <2>1, <3>1 DEF Abort, TypeOK, Listed
    <3>7. QED
      BY <3>3, <3>4, <3>5, <3>6
  <2>6. QED
    BY <2>2, <2>3, <2>4, <2>5
<1>11. ASSUME NEW k \in Keys, NEW c \in Classes, Handles(k, c),
              (Up(k) /\ c = "up") \/ Same(k, c) \/ Urgent(k, c) \/ Debounce(k, c)
       PROVE AlertsInv'
  <2> USE <1>11 DEF Handles
  <2>1. /\ batch # <<>> /\ phase = "handle" /\ say = None /\ todo = {}
        /\ Tail(batch) \in Seq(Event) /\ Head(batch) \in Event /\ Head(batch).status \in Statuses
    BY BatchType DEF Listed, Event
  <2>2. /\ spell' \in [Keys -> Classes \cup {None}] /\ upAge' \in [Keys -> 0 .. Grace]
        /\ Recall(k) \in Classes \cup {None}
    BY DEF TypeOK, Recall
  \* What is told of another class, or not remembered at all, is forgotten.
  <2>3. Recall(k) # c => spell'[k] = None
    BY DEF TypeOK, Remembered, Recall
  <2>4. \A j \in Keys \ {k} : spell'[j] = spell[j] /\ upAge'[j] = upAge[j]
    BY DEF TypeOK
  <2>5. CASE Up(k) /\ c = "up"
    <3>1. /\ pending' = [pending EXCEPT ![k] = None]
          /\ memory' = [memory EXCEPT ![k] = c]
          /\ \/ /\ store' = [store EXCEPT ![k] = c] /\ UNCHANGED faults
                /\ \/ Recall(k) \in {None, "up"} /\ say' = None /\ batch' = Tail(batch) /\ phase' = phase
                   \/ /\ Recall(k) \notin {None, "up"}
                      /\ say' = [key |-> k, class |-> c, debounced |-> FALSE]
                      /\ UNCHANGED <<phase, batch>>
             \/ Fault /\ Abort /\ UNCHANGED store
      BY <2>5 DEF Up, Remember, Nothing, Acked, Call
    <3>2. TypeOK'
      <4>1. /\ pending' \in [Keys -> [status : Statuses, age : 0 .. Grace] \cup {None}]
            /\ memory' \in [Keys -> Classes \cup {None}] /\ store' \in [Keys -> Classes \cup {None}]
        <5>1. store' = store \/ store' = [store EXCEPT ![k] = c]
          BY <3>1
        <5>2. QED
          BY <2>2, <3>1, <5>1, StateTypes
      <4>2. /\ phase' \in {"asleep", "sweep", "handle"} /\ todo' \subseteq Keys
            /\ batch' \in Seq(Event) /\ say' \in Message \cup {None}
        <5>1. say' = None \/ say' = [key |-> k, class |-> c, debounced |-> FALSE]
          BY <2>1, <3>1 DEF Abort
        <5>2. batch' = <<>> \/ batch' = batch \/ (batch # <<>> /\ batch' = Tail(batch))
          BY <2>1, <3>1 DEF Abort
        <5>3. phase' = "asleep" \/ phase' = phase
          BY <3>1 DEF Abort
        <5>4. todo' = {} \/ todo' = todo \/ todo' = todo \ {k}
          BY <2>1, <3>1 DEF Abort
        <5>5. QED
          BY <2>2, <5>1, <5>2, <5>3, <5>4, LoopTypes
      <4>3. faults' \in Nat
        BY <3>1 DEF TypeOK
      <4>4. QED
        BY <2>2, <4>1, <4>2, <4>3 DEF TypeOK
    <3>3. \A j \in Keys : Remembered(j)'
      BY <2>2, <2>4, <2>5, <3>1 DEF TypeOK, Remembered, Recall
    <3>4. IsNews'
      BY <2>1, <2>3, <2>5, <3>1 DEF Abort, TypeOK, IsNews
    <3>5. Listed'
      BY <2>1, <3>1 DEF Abort, Listed
    <3>6. QED
      BY <3>2, <3>3, <3>4, <3>5
  <2>6. CASE Same(k, c)
    <3>1. TypeOK'
      BY <2>1, <2>2, <2>6 DEF Same, Nothing, Acked, TypeOK
    <3>2. \A j \in Keys : Remembered(j)'
      BY <2>2, <2>6 DEF Same, Recall, TypeOK, Remembered
    <3>3. IsNews' /\ Listed'
      BY <2>1, <2>6 DEF Same, Nothing, Acked, IsNews, Listed
    <3>4. QED
      BY <3>1, <3>2, <3>3
  <2>7. CASE Urgent(k, c)
    <3>1. /\ pending' = IF say' = None THEN pending ELSE [pending EXCEPT ![k] = None]
          /\ Recall(k) # c /\ upAge' = upAge
          /\ memory' = [memory EXCEPT ![k] = c]
          /\ \/ /\ store' = [store EXCEPT ![k] = c]
                /\ say' = [key |-> k, class |-> c, debounced |-> FALSE]
                /\ UNCHANGED <<phase, batch, faults>>
             \/ Fault /\ Abort /\ UNCHANGED store
      BY <2>7 DEF Urgent, Remember, Call
    <3>2. TypeOK'
      <4>1. /\ pending' \in [Keys -> [status : Statuses, age : 0 .. Grace] \cup {None}]
            /\ memory' \in [Keys -> Classes \cup {None}] /\ store' \in [Keys -> Classes \cup {None}]
        <5>1. store' = store \/ store' = [store EXCEPT ![k] = c]
          BY <3>1
        <5>2. QED
          BY <2>2, <3>1, <5>1, StateTypes
      <4>2. /\ phase' \in {"asleep", "sweep", "handle"} /\ todo' \subseteq Keys
            /\ batch' \in Seq(Event) /\ say' \in Message \cup {None}
        <5>1. say' = None \/ say' = [key |-> k, class |-> c, debounced |-> FALSE]
          BY <2>1, <3>1 DEF Abort
        <5>2. batch' = <<>> \/ batch' = batch \/ (batch # <<>> /\ batch' = Tail(batch))
          BY <2>1, <3>1 DEF Abort
        <5>3. phase' = "asleep" \/ phase' = phase
          BY <3>1 DEF Abort
        <5>4. todo' = {} \/ todo' = todo \/ todo' = todo \ {k}
          BY <2>1, <3>1 DEF Abort
        <5>5. QED
          BY <2>2, <5>1, <5>2, <5>3, <5>4, LoopTypes
      <4>3. faults' \in Nat
        BY <3>1 DEF TypeOK
      <4>4. QED
        BY <2>2, <4>1, <4>2, <4>3 DEF TypeOK
    <3>3. \A j \in Keys : Remembered(j)'
      BY <2>2, <2>3, <2>4, <3>1 DEF TypeOK, Remembered
    <3>4. IsNews'
      BY <2>1, <2>3, <3>1 DEF Abort, TypeOK, IsNews
    <3>5. Listed'
      BY <2>1, <3>1 DEF Abort, Listed
    <3>6. QED
      BY <3>2, <3>3, <3>4, <3>5
  <2>8. CASE Debounce(k, c)
    <3>1. /\ pending' = IF pending[k] = None
                          THEN [pending EXCEPT ![k] = [status |-> Head(batch).status, age |-> 0]]
                          ELSE pending
          /\ memory' = [memory EXCEPT ![k] = Recall(k)]
          /\ Nothing /\ UNCHANGED <<store, faults>> /\ Recall(k) # c /\ upAge' = upAge
      BY <2>8 DEF Debounce
    <3>2. [status |-> Head(batch).status, age |-> 0] \in [status : Statuses, age : 0 .. Grace]
      BY <2>1
    <3>3. pending' \in [Keys -> [status : Statuses, age : 0 .. Grace] \cup {None}]
      BY <3>1, <3>2 DEF TypeOK
    <3>4. TypeOK'
      BY <2>1, <2>2, <3>1, <3>3 DEF Nothing, Acked, TypeOK
    <3>5. \A j \in Keys : Remembered(j)'
      BY <2>2, <2>3, <2>4, <3>1 DEF TypeOK, Remembered
    <3>6. IsNews' /\ Listed'
      BY <2>1, <3>1 DEF Nothing, Acked, IsNews, Listed
    <3>7. QED
      BY <3>4, <3>5, <3>6
  <2>9. QED
    BY <2>5, <2>6, <2>7, <2>8
<1>12. ASSUME NEW k \in Keys, Up(k) PROVE AlertsInv'
  BY <1>11, <1>12 DEF Up, Classes
<1>13. ASSUME NEW k \in Keys, NEW c \in Classes, Same(k, c) \/ Urgent(k, c) \/ Debounce(k, c) PROVE AlertsInv'
  <2>1. Handles(k, c)
    BY <1>13 DEF Same, Urgent, Debounce
  <2>2. QED
    BY <1>11, <1>13, <2>1
<1>14. QED
  BY <1>1, <1>2, <1>3, <1>4, <1>5, <1>6, <1>7, <1>8, <1>9, <1>10, <1>12, <1>13
  DEF Next, Dispatch

LEMMA AlwaysAlertsInv == Spec => []AlertsInv
<1>1. Init => AlertsInv
  BY AlertsInit
<1>2. AlertsInv /\ [Next]_vars => AlertsInv'
  BY AlertsNext
<1>3. QED
  BY <1>1, <1>2, PTL DEF Spec
-----------------------------------------------------------------------------
\* The dispatcher's memory, what is pending and what Redis remembers keep
\* their types.
THEOREM AlertsTypeCorrect == Spec => []TypeOK
<1>1. AlertsInv => TypeOK
  BY DEF AlertsInv
<1>2. QED
  BY <1>1, AlwaysAlertsInv, PTL

\* "one outage should be one alert", for any number of gateways, dropped
\* batches and restarts.
THEOREM OutageToldOnce == Spec => []OneAlertPerOutage
<1>1. AlertsInv => OneAlertPerOutage
  BY AlertsAssumption
  DEF AlertsAssumption, AlertsInv, IsNews, OneAlertPerOutage, TypeOK, Message
<1>2. QED
  BY <1>1, AlwaysAlertsInv, PTL

\* A debounced message is of a gateway that has not been seen up for the whole
\* grace period.
THEOREM BlipsAreSilent == Spec => []BlipIsSilent
<1>1. AlertsInv => BlipIsSilent
  BY DEF AlertsInv, IsNews, BlipIsSilent
<1>2. QED
  BY <1>1, AlwaysAlertsInv, PTL
=============================================================================
