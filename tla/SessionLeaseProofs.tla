------------------------- MODULE SessionLeaseProofs -------------------------
(***************************************************************************)
(* The lease of one connection, for any number of workers and sessions:     *)
(* while no step is later than the lease has room for, the lease keeps two  *)
(* sessions apart and its holder keeps it.  The argument is a countdown:    *)
(* the time the key has left and the time since the session renewed add up  *)
(* to TTL, and the next renewal is due long before either runs out.         *)
(***************************************************************************)
EXTENDS SessionLease, TLAPS

\* What the margin is: a renewal that is as late as it can be still precedes
\* the expiry (5 s of sleep against LEASE_SECONDS = 20).
InTime == RenewEvery + MaxLag < TTL

\* A session at work holds the lease, and its renewal is on its way.
Countdown(w) ==
  pc[w] = "live" =>
    /\ owner = Token(w)
    /\ left = TTL - since[w]
    /\ since[w] <= RenewEvery + lag[w]

LeaseInv == TypeOK /\ \A w \in Workers : Countdown(w)

\* A session that has found its lease gone does not find it back.
Loss(w) ==
  /\ pc[w] = "live" => ~noticed[w]
  /\ pc[w] = "ending" /\ noticed[w] => owner # Token(w)
  /\ provider = "gateway" /\ pc[w] \in {"goodbye", "release"} => ~noticed[w]

LossInv == TypeOK /\ \A w \in Workers : Loss(w)
-----------------------------------------------------------------------------
LEMMA InitType == Init => TypeOK
  BY LeaseAssumption DEF LeaseAssumption, Init, TypeOK, Phases, NoToken

LEMMA NextType == TypeOK /\ [Next]_vars => TypeOK'
<1> SUFFICES ASSUME TypeOK, [Next]_vars PROVE TypeOK'
  OBVIOUS
<1> USE LeaseAssumption DEF LeaseAssumption, TypeOK, Phases, NoToken, Token, GoTo, Fault
<1>1. CASE UNCHANGED vars
  BY <1>1 DEF vars
<1>2. CASE Tick
  BY <1>2 DEF Tick, Due
<1>3. ASSUME NEW w \in Workers, Step(w) PROVE TypeOK'
  <2>1. CASE Spawn(w)
    BY <2>1 DEF Spawn
  <2>2. CASE Acquire(w)
    BY <2>2 DEF Acquire, TakeLease
  <2>3. CASE HeldElsewhere(w)
    BY <2>3 DEF HeldElsewhere
  <2>4. CASE Publish(w)
    BY <2>4 DEF Publish
  <2>5. CASE Renew(w)
    BY <2>5 DEF Renew
  <2>6. CASE RenewRefused(w)
    BY <2>6 DEF RenewRefused
  <2>7. CASE EndAsHolder(w)
    BY <2>7 DEF EndAsHolder
  <2>8. CASE EndSilently(w)
    BY <2>8 DEF EndSilently
  <2>9. CASE Goodbye(w)
    BY <2>9 DEF Goodbye
  <2>10. CASE Release(w)
    BY <2>10 DEF Release
  <2>11. QED
    BY <1>3, <2>1, <2>2, <2>3, <2>4, <2>5, <2>6, <2>7, <2>8, <2>9, <2>10 DEF Step
<1>4. ASSUME NEW w \in Workers, Stop(w) \/ Die(w) PROVE TypeOK'
  BY <1>4 DEF Stop, Die
<1>5. ASSUME NEW w \in Workers, CancelAcquire(w) PROVE TypeOK'
  BY <1>5 DEF CancelAcquire, TakeLease
<1>6. QED
  BY <1>1, <1>2, <1>3, <1>4, <1>5 DEF Next

\* A worker's token is no other worker's, and never the absent key.
LEMMA TokensDiffer ==
  ASSUME NEW v \in Workers, NEW w \in Workers, NEW m \in Nat, NEW n \in Nat
  PROVE  /\ <<w, n>> # NoToken
         /\ <<v, m>> = <<w, n>> => v = w
  BY LeaseAssumption DEF LeaseAssumption, NoToken

\* The state is what its type says, whatever the timing (every handler of
\* Session, GatewaySession.run and SnapTradeSession.run).
THEOREM LeaseTypeCorrect == Spec => []TypeOK
<1>1. Init => TypeOK
  BY InitType
<1>2. TypeOK /\ [Next]_vars => TypeOK'
  BY NextType
<1>3. QED
  BY <1>1, <1>2, PTL DEF Spec
-----------------------------------------------------------------------------
(* The countdown. *)

LEMMA TickKeepsCountdown ==
  ASSUME InTime, LeaseInv, Tick, NEW w \in Workers
  PROVE  Countdown(w)'
<1> USE LeaseAssumption DEF LeaseAssumption, LeaseInv, TypeOK, Countdown, Token
<1> SUFFICES ASSUME pc'[w] = "live" PROVE Countdown(w)'
  OBVIOUS
<1>1. /\ pc[w] = "live" /\ gen' = gen
      /\ since'[w] = since[w] + 1
      /\ lag'[w] = IF since[w] >= RenewEvery THEN lag[w] + 1 ELSE 0
      /\ since[w] >= RenewEvery => lag[w] < MaxLag
  BY DEF Tick, Due
<1>2. /\ owner = Token(w)
      /\ left = TTL - since[w]
      /\ since[w] <= RenewEvery + lag[w]
  BY <1>1
<1>3. since[w] \in Nat /\ lag[w] \in 0 .. MaxLag
  OBVIOUS
<1>4. since[w] + 1 < TTL
  BY <1>1, <1>2, <1>3 DEF InTime
<1>5. left' = TTL - since'[w] /\ owner' = owner
  BY <1>1, <1>2, <1>3, <1>4 DEF Tick
<1>6. since'[w] <= RenewEvery + lag'[w]
  BY <1>1, <1>2, <1>3
<1>7. QED
  BY <1>1, <1>2, <1>5, <1>6

LEMMA StepKeepsCountdown ==
  ASSUME InTime, LeaseInv, [Next]_vars, NEW v \in Workers
  PROVE  Countdown(v)'
<1> USE DEF LeaseInv, GoTo
<1>0. \A w \in Workers : pc[w] = "live" => owner # NoToken /\ (owner[1] = v => w = v)
  BY TokensDiffer DEF Countdown, Token, TypeOK
<1>1. CASE UNCHANGED vars
  BY <1>1 DEF vars, Countdown, Token
<1>2. CASE Tick
  BY <1>2, TickKeepsCountdown
<1>3. ASSUME NEW w \in Workers, Step(w) PROVE Countdown(v)'
  <2> USE DEF TypeOK, Countdown, Token
  <2>1. CASE Spawn(w)
    BY <2>1 DEF Spawn
  <2>2. CASE Acquire(w)
    BY <2>2, <1>0, LeaseAssumption DEF Acquire, TakeLease, LeaseAssumption
  <2>3. CASE HeldElsewhere(w)
    BY <2>3 DEF HeldElsewhere
  <2>4. CASE Publish(w)
    BY <2>4 DEF Publish
  <2>5. CASE Renew(w)
    BY <2>5, <1>0, LeaseAssumption DEF Renew, LeaseAssumption
  <2>6. CASE RenewRefused(w)
    BY <2>6 DEF RenewRefused
  <2>7. CASE EndAsHolder(w)
    BY <2>7 DEF EndAsHolder
  <2>8. CASE EndSilently(w)
    BY <2>8 DEF EndSilently
  <2>9. CASE Goodbye(w)
    BY <2>9 DEF Goodbye
  <2>10. CASE Release(w)
    BY <2>10 DEF Release
  <2>11. QED
    BY <1>3, <2>1, <2>2, <2>3, <2>4, <2>5, <2>6, <2>7, <2>8, <2>9, <2>10 DEF Step
<1>4. ASSUME NEW w \in Workers, Stop(w) \/ Die(w) PROVE Countdown(v)'
  BY <1>4 DEF Stop, Die, TypeOK, Countdown, Token
<1>5. ASSUME NEW w \in Workers, CancelAcquire(w) PROVE Countdown(v)'
  BY <1>5, <1>0 DEF CancelAcquire, TakeLease, TypeOK, Countdown, Token
<1>6. QED
  BY <1>1, <1>2, <1>3, <1>4, <1>5 DEF Next

LEMMA LeaseInvHolds == ASSUME InTime PROVE Spec => []LeaseInv
<1>1. Init => LeaseInv
  BY InitType DEF Init, LeaseInv, Countdown
<1>2. LeaseInv /\ [Next]_vars => LeaseInv'
  BY NextType, StepKeepsCountdown DEF LeaseInv
<1>3. QED
  BY <1>1, <1>2, PTL DEF Spec

\* Two workers are safe: with the margin, two sessions of a connection are
\* never at the broker at once (Session.acquire, Session.renew).
THEOREM LeaseIsExclusive == ASSUME InTime PROVE Spec => []OneSessionAtBroker
<1>1. LeaseInv => OneSessionAtBroker
  BY TokensDiffer DEF LeaseInv, TypeOK, Countdown, Token, OneSessionAtBroker
<1>2. Spec => []LeaseInv
  BY LeaseInvHolds
<1>3. QED
  BY <1>1, <1>2, PTL

\* A session at work keeps its lease: nothing another session does, its late
\* release least of all, takes it away (RELEASE, RENEW, SET NX).
THEOREM HolderStays == ASSUME InTime PROVE Spec => HolderIsNotDisplaced
<1> DEFINE Kept == \A w \in Workers :
        pc[w] = "live" /\ pc'[w] = "live" => owner' = <<w, gen'[w]>>
<1>1. LeaseInv' => [Kept]_vars
  BY DEF LeaseInv, Countdown, Token
<1>2. Spec => []LeaseInv
  BY LeaseInvHolds
<1>3. QED
  BY <1>1, <1>2, PTL DEF HolderIsNotDisplaced
-----------------------------------------------------------------------------
(* After a loss. *)

LEMMA StepKeepsLoss ==
  ASSUME LossInv, [Next]_vars, NEW v \in Workers
  PROVE  Loss(v)'
<1> USE LeaseAssumption DEF LossInv, GoTo, TypeOK, Loss, Token
<1>1. CASE UNCHANGED vars
  BY <1>1 DEF vars
<1>2. CASE Tick
  BY <1>2, TokensDiffer DEF Tick
<1>3. ASSUME NEW w \in Workers, Step(w) PROVE Loss(v)'
  <2>1. CASE Spawn(w)
    BY <2>1 DEF Spawn
  <2>2. CASE Acquire(w)
    BY <2>2, TokensDiffer DEF Acquire, TakeLease
  <2>3. CASE HeldElsewhere(w)
    BY <2>3 DEF HeldElsewhere
  <2>4. CASE Publish(w)
    BY <2>4 DEF Publish
  <2>5. CASE Renew(w)
    BY <2>5 DEF Renew
  <2>6. CASE RenewRefused(w)
    BY <2>6 DEF RenewRefused
  <2>7. CASE EndAsHolder(w)
    BY <2>7 DEF EndAsHolder
  <2>8. CASE EndSilently(w)
    BY <2>8 DEF EndSilently
  <2>9. CASE Goodbye(w)
    BY <2>9 DEF Goodbye
  <2>10. CASE Release(w)
    BY <2>10, TokensDiffer DEF Release
  <2>11. QED
    BY <1>3, <2>1, <2>2, <2>3, <2>4, <2>5, <2>6, <2>7, <2>8, <2>9, <2>10 DEF Step
<1>4. ASSUME NEW w \in Workers, Stop(w) \/ Die(w) PROVE Loss(v)'
  BY <1>4 DEF Stop, Die
<1>5. ASSUME NEW w \in Workers, CancelAcquire(w) PROVE Loss(v)'
  BY <1>5, TokensDiffer DEF CancelAcquire, TakeLease
<1>6. QED
  BY <1>1, <1>2, <1>3, <1>4, <1>5 DEF Next

LEMMA LossInvHolds == Spec => []LossInv
<1>1. Init => LossInv
  BY InitType DEF Init, LossInv, Loss
<1>2. LossInv /\ [Next]_vars => LossInv'
  BY NextType, StepKeepsLoss DEF LossInv
<1>3. QED
  BY <1>1, <1>2, PTL DEF Spec

\* For gateway connections, and with no assumption on the timing: a session
\* that has found its lease gone says nothing more (the lease is read again in
\* GatewaySession.run's finally).
THEOREM LossIsSilent ==
  ASSUME Providers = {"gateway"} PROVE Spec => LossStopsNoOther
<1> DEFINE Silent == shown' # shown /\ owner # NoToken /\ shown.by = owner =>
                       ~noticed[shown'.by[1]]
<1>1. LossInv /\ [Next]_vars => [Silent]_vars
  <2> SUFFICES ASSUME LossInv, [Next]_vars, shown' # shown
               PROVE  ~noticed[shown'.by[1]]
    OBVIOUS
  <2> USE DEF LossInv, TypeOK, Loss, Token, GoTo
  <2>1. PICK w \in Workers : Publish(w) \/ Goodbye(w)
    BY DEF Next, vars, Step, Tick, Spawn, Acquire, TakeLease, HeldElsewhere, Renew,
           RenewRefused, EndAsHolder, EndSilently, Release, Stop, Die, CancelAcquire
  <2>2. shown'.by[1] = w /\ provider = "gateway"
    BY <2>1 DEF Publish, Goodbye
  <2>3. ~noticed[w]
    BY <2>1, <2>2 DEF Publish, Goodbye
  <2>4. QED
    BY <2>2, <2>3
<1>2. Spec => []LossInv
  BY LossInvHolds
<1>3. QED
  BY <1>1, <1>2, PTL DEF Spec, LossStopsNoOther
-----------------------------------------------------------------------------
(* After a death. *)

\* A lease left behind runs out, whatever the timing and however many sessions
\* are late: SET NX, and RENEW's and RELEASE's look at the token, leave the key
\* of a session that is not at work to its time to live.
THEOREM OrphansRunOut == Spec => OrphanRunsOut
<1> DEFINE RunsOut == Orphan => owner' = NoToken \/ (owner' = owner /\ left' <= left /\ Orphan')
<1>1. TypeOK /\ [Next]_vars => [RunsOut]_vars
  <2> SUFFICES ASSUME TypeOK, Next, Orphan, owner' # NoToken
               PROVE  owner' = owner /\ left' <= left /\ Orphan'
    BY DEF vars
  <2> USE LeaseAssumption DEF LeaseAssumption, TypeOK, Orphan, Token, GoTo
  <2>1. CASE Tick
    BY <2>1 DEF Tick
  <2>2. ASSUME NEW w \in Workers, Step(w) PROVE owner' = owner /\ left' <= left /\ Orphan'
    <3>1. CASE Spawn(w)
      BY <3>1 DEF Spawn
    <3>2. CASE HeldElsewhere(w) \/ EndAsHolder(w) \/ EndSilently(w)
      BY <3>2 DEF HeldElsewhere, EndAsHolder, EndSilently
    <3>3. CASE Publish(w) \/ Goodbye(w)
      BY <3>3 DEF Publish, Goodbye
    <3>4. CASE RenewRefused(w)
      BY <3>4 DEF RenewRefused
    <3>5. CASE Release(w)
      BY <3>5 DEF Release
    <3>6. ~Acquire(w) /\ ~Renew(w)
      BY DEF Acquire, TakeLease, Renew
    <3>7. QED
      BY <2>2, <3>1, <3>2, <3>3, <3>4, <3>5, <3>6 DEF Step
  <2>3. ASSUME NEW w \in Workers, Stop(w) \/ Die(w)
        PROVE  owner' = owner /\ left' <= left /\ Orphan'
    BY <2>3 DEF Stop, Die
  <2>4. ASSUME NEW w \in Workers PROVE ~CancelAcquire(w)
    BY DEF CancelAcquire, TakeLease
  <2>5. QED
    BY <2>1, <2>2, <2>3, <2>4 DEF Next
<1>2. Spec => []TypeOK
  BY LeaseTypeCorrect
<1>3. QED
  BY <1>1, <1>2, PTL DEF Spec, OrphanRunsOut
=============================================================================
