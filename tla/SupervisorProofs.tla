-------------------------- MODULE SupervisorProofs --------------------------
(***************************************************************************)
(* For any number of connections and tenants: reconcile() never has two     *)
(* session tasks for one connection, and never a session whose tenant has   *)
(* no consumer.  The argument follows one round: what it has yet to look at *)
(* is in the dict, what it has looked at and kept is what it has read, so   *)
(* the tenants it finds are those of every session it leaves, and each      *)
(* connection has the session its document called for.                      *)
(***************************************************************************)
EXTENDS Supervisor, TLAPS

\* The dict and the tasks: a task belongs to an entry, and is the only one.
Counted(c) ==
  /\ running[c] = IF task[c] \in {"running", "cancelled"} THEN 1 ELSE 0
  /\ sessions[c] = Unset <=> task[c] = "none"
  /\ hold[c] > 0 => task[c] \in {"none", "ended"}

\* The round: what it has yet to look at, what it waits for, what it has kept.
Round ==
  /\ \A c \in todo : sessions[c] # Unset
  /\ todo # {} => phase \in {"sessions", "await"}
  /\ phase = "await" => at \in Connections /\ at \notin todo /\ sessions[at] # Unset
  /\ \A c \in Connections :
       /\ phase \in {"sessions", "await"} /\ sessions[c] # Unset /\ c \notin todo =>
            wanted[c] = sessions[c] \/ (phase = "await" /\ c = at)
       /\ phase \in Kinds => sessions[c] = wanted[c] \/ (sessions[c] = Unset /\ hold[c] > 0)

SupInv == /\ TypeOK
          /\ \A c \in Connections : Counted(c)
          /\ Round
          /\ SessionHasConsumer
-----------------------------------------------------------------------------
LEMMA InitInv == Init => SupInv
  BY SupervisorAssumption
  DEF SupervisorAssumption, Init, SupInv, TypeOK, Counted, Round, SessionHasConsumer, Kinds

LEMMA NextInv == SupInv /\ [Next]_vars => SupInv'
<1> SUFFICES ASSUME SupInv, [Next]_vars PROVE SupInv'
  OBVIOUS
<1> USE SupervisorAssumption DEF SupervisorAssumption, SupInv, loop, tasks, Fault, Kinds
<1>1. CASE UNCHANGED vars
  BY <1>1 DEF vars, TypeOK, Counted, Round, SessionHasConsumer
<1>2. CASE Read
  BY <1>2 DEF Read, TypeOK, Counted, Round, SessionHasConsumer
<1>3. CASE ReadFails
  BY <1>3 DEF ReadFails, TypeOK, Counted, Round, SessionHasConsumer
<1>4. CASE ProcessExits
  BY <1>4 DEF ProcessExits, TypeOK, Counted, Round, SessionHasConsumer, Kinds
<1>5. ASSUME NEW c \in Connections, RegistryChanges(c) PROVE SupInv'
  BY <1>5 DEF RegistryChanges, TypeOK, Counted, Round, SessionHasConsumer
<1>6. ASSUME NEW c \in Connections, Keep(c) PROVE SupInv'
  BY <1>6 DEF Keep, Keeps, TypeOK, Counted, Round, SessionHasConsumer
<1>7. ASSUME NEW c \in Connections, End(c) PROVE SupInv'
  <2>1. TypeOK'
    BY <1>7 DEF End, TypeOK
  <2>2. \A d \in Connections : Counted(d)'
    BY <1>7 DEF End, TypeOK, Counted, Round
  <2>3. Round'
    BY <1>7 DEF End, TypeOK, Round
  <2>4. SessionHasConsumer'
    BY <1>7 DEF End, TypeOK, SessionHasConsumer
  <2>5. QED
    BY <2>1, <2>2, <2>3, <2>4
<1>8. ASSUME NEW c \in Connections, Ended(c) PROVE SupInv'
  <2>1. TypeOK'
    BY <1>8 DEF Ended, TypeOK
  <2>2. \A d \in Connections : Counted(d)'
    BY <1>8 DEF Ended, TypeOK, Counted
  <2>3. Round'
    BY <1>8 DEF Ended, TypeOK, Round
  <2>4. SessionHasConsumer'
    BY <1>8 DEF Ended, TypeOK, SessionHasConsumer
  <2>5. QED
    BY <2>1, <2>2, <2>3, <2>4
<1>9. CASE StartSessions
  <2>1. TypeOK'
    BY <1>9 DEF StartSessions, Startable, TypeOK
  <2>2. \A d \in Connections : Counted(d)'
    BY <1>9 DEF StartSessions, Startable, TypeOK, Counted
  <2>3. Round'
    BY <1>9 DEF StartSessions, Startable, TypeOK, Round
  <2>4. SessionHasConsumer'
    BY <1>9 DEF StartSessions, TypeOK, SessionHasConsumer
  <2>5. QED
    BY <2>1, <2>2, <2>3, <2>4
<1>10. ASSUME NEW kind \in Kinds, StartHelpers(kind) PROVE SupInv'
  <2>1. TypeOK' /\ Round' /\ \A d \in Connections : Counted(d)'
    BY <1>10 DEF StartHelpers, TypeOK, Round, Counted, Kinds
  <2>2. ASSUME NEW c \in Connections, sessions'[c] # Unset
        PROVE  helper'[<<"consumer", TenantOf[c]>>] # "none"
    <3> DEFINE h == <<"consumer", TenantOf[c]>>
    <3>1. h \in Kinds \X Tenants /\ h[1] = "consumer" /\ h[2] = TenantOf[c]
      BY DEF Kinds
    <3>2. CASE kind = "consumer"
      <4>1. TenantOf[c] \in Served(wanted)
        BY <1>10, <2>2, <3>2 DEF StartHelpers, Round, Served
      <4>2. helper'[h] = IF helper[h] = "none" THEN "starting" ELSE helper[h]
        BY <1>10, <3>1, <3>2, <4>1 DEF StartHelpers
      <4>3. QED
        BY <4>2
    <3>3. CASE kind # "consumer"
      <4>1. helper'[h] = helper[h]
        BY <1>10, <3>1, <3>3 DEF StartHelpers
      <4>2. QED
        BY <1>10, <2>2, <3>3, <4>1 DEF StartHelpers, SessionHasConsumer
    <3>4. QED
      BY <3>2, <3>3
  <2>3. QED
    BY <2>1, <2>2 DEF SessionHasConsumer
<1>11. ASSUME NEW c \in Connections, SessionEnds(c) \/ SessionStops(c) PROVE SupInv'
  BY <1>11 DEF SessionEnds, SessionStops, TypeOK, Counted, Round, SessionHasConsumer
<1>12. ASSUME NEW h \in Kinds \X Tenants, HelperReady(h) \/ HelperRefused(h) PROVE SupInv'
  <2>1. PICK status \in {"running", "dead"} :
          /\ helper[h] = "starting"
          /\ helper' = [helper EXCEPT ![h] = status]
          /\ UNCHANGED <<registry, loop, tasks, changes>>
          /\ faults' \in Nat
    BY <1>12 DEF HelperReady, HelperRefused, TypeOK
  <2>2. TypeOK'
    BY <2>1 DEF TypeOK
  <2>3. Round' /\ \A c \in Connections : Counted(c)'
    BY <2>1 DEF Counted, Round
  <2>4. SessionHasConsumer'
    <3>1. \A g \in Kinds \X Tenants : helper[g] # "none" => helper'[g] # "none"
      BY <2>1 DEF TypeOK
    <3>2. \A c \in Connections : <<"consumer", TenantOf[c]>> \in Kinds \X Tenants
      BY DEF Kinds
    <3>3. QED
      BY <2>1, <3>1, <3>2 DEF SessionHasConsumer
  <2>5. QED
    BY <2>2, <2>3, <2>4
<1>13. QED
  BY <1>1, <1>2, <1>3, <1>4, <1>5, <1>6, <1>7, <1>8, <1>9, <1>10, <1>11, <1>12
  DEF Next, Reconcile

LEMMA SupInvHolds == Spec => []SupInv
  BY InitInv, NextInv, PTL DEF Spec

\* The dicts and the tasks of the supervisor are what their types say.
THEOREM SupervisorTypeCorrect == Spec => []TypeOK
<1>1. SupInv => TypeOK
  BY DEF SupInv
<1>2. QED
  BY <1>1, SupInvHolds, PTL

\* The session of a connection has ended before the next one starts: End waits
\* for it (the gather before `del self.sessions[...]`).
THEOREM SessionsDoNotOverlap == Spec => []OneSessionPerConnection
<1>1. SupInv => OneSessionPerConnection
  BY DEF SupInv, Counted, OneSessionPerConnection
<1>2. QED
  BY <1>1, SupInvHolds, PTL

\* A tenant's consumer is there before its first session can publish and until
\* its last one is gone, however the registry changes during a round.
THEOREM ConsumerOutlivesSessions == Spec => []SessionHasConsumer
<1>1. SupInv => SessionHasConsumer
  BY DEF SupInv
<1>2. QED
  BY <1>1, SupInvHolds, PTL

\* A round leaves the sessions its reading of the registry calls for, and a
\* session that ended by itself is not started again before its time
\* (reconcile() up to its helpers).
THEOREM RoundsServe == Spec => []RoundServes
<1>1. SupInv => RoundServes
  BY SupervisorAssumption DEF SupervisorAssumption, SupInv, TypeOK, Counted, Round, RoundServes
<1>2. QED
  BY <1>1, SupInvHolds, PTL
=============================================================================
