---------------------------- MODULE SessionLease ----------------------------
(***************************************************************************)
(* The lease that keeps the sessions two worker processes run for one       *)
(* broker connection apart (worker.Session, GatewaySession.run,             *)
(* SnapTradeSession.run): SET NX EX to acquire, a token-checked EXPIRE to   *)
(* renew, a token-checked DEL to release, and what a session says about the *)
(* connection when it ends.                                                 *)
(*                                                                         *)
(* Time is counted in units of the renewal period (5 s); Tick lets one      *)
(* pass.  A worker may be late with a step that is due by MaxLag units: an  *)
(* event loop that is blocked, a slow Redis call.                           *)
(***************************************************************************)
EXTENDS Integers, FiniteSets

CONSTANTS
  Workers,
  Providers,    \* the kinds of connection considered
  None,         \* no worker
  TTL,          \* LEASE_SECONDS
  RenewEvery,   \* the sleep of renew()
  MaxLag,       \* bound: how late a due step may run
  MaxSessions,  \* bound: sessions a worker starts
  MaxFaults     \* bound: stops, deaths and cancellations

ASSUME LeaseAssumption ==
  /\ Providers \subseteq {"gateway", "snaptrade"}
  /\ TTL \in Nat \ {0} /\ RenewEvery \in Nat /\ MaxLag \in Nat
  /\ MaxSessions \in Nat /\ MaxFaults \in Nat
  /\ None \notin Workers

VARIABLES
  provider,
  owner, left,  \* the lease key: its token, and the time to live it has left
  gen,          \* number of the worker's session; the token is <<w, gen[w]>>
  pc,           \* where the session is in run()
  since,        \* time since the session last renewed
  lag,          \* time for which its next step has been due
  noticed,      \* renew() found the lease gone
  shown,        \* the gateway key: who wrote it and what it says
  faults

vars == <<provider, owner, left, gen, pc, since, lag, noticed, shown, faults>>

Phases == {"none", "start", "live", "ending", "goodbye", "release"}
Token(w) == <<w, gen[w]>>
NoToken == <<None, 0>>   \* no lease key

TypeOK ==
  /\ provider \in Providers
  /\ owner \in (Workers \X Nat) \cup {NoToken}
  /\ left \in 0 .. TTL
  /\ gen \in [Workers -> Nat]
  /\ pc \in [Workers -> Phases]
  /\ since \in [Workers -> Nat]
  /\ lag \in [Workers -> 0 .. MaxLag]
  /\ noticed \in [Workers -> BOOLEAN]
  /\ shown \in [by : (Workers \X Nat) \cup {NoToken}, status : {"CONNECTED", "DISCONNECTED"}]
  /\ faults \in Nat

Init ==
  /\ provider \in Providers
  /\ owner = NoToken /\ left = 0
  /\ gen = [w \in Workers |-> 0]
  /\ pc = [w \in Workers |-> "none"]
  /\ since = [w \in Workers |-> 0]
  /\ lag = [w \in Workers |-> 0]
  /\ noticed = [w \in Workers |-> FALSE]
  /\ shown = [by |-> NoToken, status |-> "DISCONNECTED"]
  /\ faults = 0

GoTo(w, phase) == /\ pc' = [pc EXCEPT ![w] = phase]
                  /\ lag' = [lag EXCEPT ![w] = 0]

Fault == faults < MaxFaults /\ faults' = faults + 1

\* The supervisor builds a session and starts run().
Spawn(w) ==
  /\ pc[w] = "none" /\ gen[w] < MaxSessions
  /\ GoTo(w, "start")
  /\ UNCHANGED <<provider, owner, left, gen, since, noticed, shown, faults>>

\* Mutant: SET without NX.
TakeLeaseOver(w) ==
  /\ gen' = [gen EXCEPT ![w] = @ + 1]
  /\ owner' = <<w, gen[w] + 1>>
  /\ left' = TTL

TakeLease(w) ==
  /\ owner = NoToken
  /\ gen' = [gen EXCEPT ![w] = @ + 1]
  /\ owner' = <<w, gen[w] + 1>>
  /\ left' = TTL

Acquire(w) ==
  /\ pc[w] = "start"
  /\ TakeLease(w)
  /\ since' = [since EXCEPT ![w] = 0]
  /\ noticed' = [noticed EXCEPT ![w] = FALSE]
  /\ GoTo(w, "live")
  /\ UNCHANGED <<provider, shown, faults>>

\* "lease held elsewhere": the session returns, the supervisor tries again later.
HeldElsewhere(w) ==
  /\ pc[w] = "start" /\ owner # NoToken
  /\ GoTo(w, "none")
  /\ UNCHANGED <<provider, owner, left, gen, since, noticed, shown, faults>>

\* acquire() is awaited outside the try: cancelled after Redis has set the key,
\* it leaves a lease nobody renews or releases.
CancelAcquire(w) ==
  /\ pc[w] = "start" /\ Fault
  /\ TakeLease(w)
  /\ GoTo(w, "none")
  /\ UNCHANGED <<provider, since, noticed, shown>>

\* The session at work: broker calls, and publish_gateway with what it sees.
Publish(w) ==
  /\ pc[w] = "live"
  /\ shown' = [by |-> Token(w), status |-> "CONNECTED"]
  /\ UNCHANGED <<provider, owner, left, gen, pc, since, lag, noticed, faults>>

\* RENEW extends the key only if it still holds this session's token.
Renew(w) ==
  /\ pc[w] = "live" /\ since[w] >= RenewEvery
  /\ owner = Token(w)
  /\ left' = TTL
  /\ since' = [since EXCEPT ![w] = 0]
  /\ lag' = [lag EXCEPT ![w] = 0]
  /\ UNCHANGED <<provider, owner, gen, pc, noticed, shown, faults>>

RenewRefused(w) ==
  /\ pc[w] = "live" /\ since[w] >= RenewEvery
  /\ owner # Token(w)
  /\ noticed' = [noticed EXCEPT ![w] = TRUE]
  /\ GoTo(w, "ending")
  /\ UNCHANGED <<provider, owner, left, gen, since, shown, faults>>

\* stop, a changed registry entry, or a task of the session that failed.
Stop(w) ==
  /\ pc[w] = "live" /\ Fault
  /\ GoTo(w, "ending")
  /\ UNCHANGED <<provider, owner, left, gen, since, noticed, shown>>

\* Mutant: the goodbye without a look at the lease.
EndAsAnyone(w) ==
  /\ pc[w] = "ending"
  /\ GoTo(w, "goodbye")
  /\ UNCHANGED <<provider, owner, left, gen, since, noticed, shown, faults>>

\* GatewaySession's finally reads the lease before it says goodbye;
\* SnapTradeSession's does not.
EndAsHolder(w) ==
  /\ pc[w] = "ending"
  /\ provider = "gateway" => owner = Token(w)
  /\ GoTo(w, "goodbye")
  /\ UNCHANGED <<provider, owner, left, gen, since, noticed, shown, faults>>

EndSilently(w) ==
  /\ pc[w] = "ending"
  /\ provider = "gateway" /\ owner # Token(w)
  /\ GoTo(w, "none")
  /\ UNCHANGED <<provider, owner, left, gen, since, noticed, shown, faults>>

Goodbye(w) ==
  /\ pc[w] = "goodbye"
  /\ shown' = [by |-> Token(w), status |-> "DISCONNECTED"]
  /\ GoTo(w, "release")
  /\ UNCHANGED <<provider, owner, left, gen, since, noticed, faults>>

\* Mutant: DEL without a look at the token.
ReleaseAny(w) ==
  /\ pc[w] = "release"
  /\ owner' = NoToken /\ left' = 0
  /\ GoTo(w, "none")
  /\ UNCHANGED <<provider, gen, since, noticed, shown, faults>>

\* RELEASE deletes the key only if it still holds this session's token.
Release(w) ==
  /\ pc[w] = "release"
  /\ IF owner = Token(w) THEN owner' = NoToken /\ left' = 0
                         ELSE UNCHANGED <<owner, left>>
  /\ GoTo(w, "none")
  /\ UNCHANGED <<provider, gen, since, noticed, shown, faults>>

\* The process dies, or Redis raises in the finally: the lease stays behind.
Die(w) ==
  /\ pc[w] # "none" /\ Fault
  /\ GoTo(w, "none")
  /\ UNCHANGED <<provider, owner, left, gen, since, noticed, shown>>

\* A step of w is due unless its renewal is still asleep.
Due(w) == /\ pc[w] # "none"
          /\ pc[w] = "live" => since[w] >= RenewEvery

\* Mutant: SET without EX.
TickForEver ==
  /\ \A w \in Workers : Due(w) => lag[w] < MaxLag
  /\ lag' = [w \in Workers |-> IF Due(w) THEN lag[w] + 1 ELSE 0]
  /\ since' = [w \in Workers |-> IF pc[w] = "live" THEN since[w] + 1 ELSE since[w]]
  /\ UNCHANGED <<provider, owner, left, gen, pc, noticed, shown, faults>>

Tick ==
  /\ \A w \in Workers : Due(w) => lag[w] < MaxLag
  /\ lag' = [w \in Workers |-> IF Due(w) THEN lag[w] + 1 ELSE 0]
  /\ since' = [w \in Workers |-> IF pc[w] = "live" THEN since[w] + 1 ELSE since[w]]
  /\ left' = IF left > 0 THEN left - 1 ELSE 0
  /\ owner' = IF left <= 1 THEN NoToken ELSE owner
  /\ UNCHANGED <<provider, gen, pc, noticed, shown, faults>>

Step(w) == \/ Spawn(w) \/ Acquire(w) \/ HeldElsewhere(w) \/ Publish(w)
           \/ Renew(w) \/ RenewRefused(w)
           \/ EndAsHolder(w) \/ EndSilently(w) \/ Goodbye(w) \/ Release(w)

Next == Tick \/ \E w \in Workers : Step(w) \/ Stop(w) \/ CancelAcquire(w) \/ Die(w)

Spec == Init /\ [][Next]_vars

\* Time passes, the supervisor starts what is wanted, and a coroutine whose
\* await is done runs.
FairSpec == /\ Spec
            /\ WF_vars(Tick)
            /\ \A w \in Workers :
                 /\ WF_vars(Spawn(w)) /\ WF_vars(Acquire(w) \/ HeldElsewhere(w))
                 /\ WF_vars(Renew(w) \/ RenewRefused(w))
                 /\ WF_vars(EndAsHolder(w) \/ EndSilently(w))
                 /\ WF_vars(Goodbye(w)) /\ WF_vars(Release(w))
-----------------------------------------------------------------------------
(* Properties *)

\* As long as no worker is later than the lease allows for, only one session
\* at a time works at the broker: two workers are safe.
OneSessionAtBroker == \A v, w \in Workers :
  pc[v] = "live" /\ pc[w] = "live" => v = w

\* A session at work loses its lease to nobody: not to another worker's
\* acquire, and not to the late release of a session that ended before it.
HolderIsNotDisplaced ==
  [][\A w \in Workers :
       pc[w] = "live" /\ pc'[w] = "live" => owner' = <<w, gen'[w]>>]_vars

\* A lost lease stops the session that lost it and no other: a session that
\* has found its lease gone does not overwrite what the session that holds it
\* now has reported of the connection.
LossStopsNoOther ==
  [][shown' # shown /\ owner # NoToken /\ shown.by = owner =>
       ~noticed[shown'.by[1]]]_vars

\* A lease that was left behind runs out: whatever sessions do that are late or
\* that have lost it, nobody extends the key of a session that is not at work,
\* nobody takes it before it is gone, and no session comes back to it.
Orphan == owner # NoToken /\ \A w \in Workers : pc[w] = "live" => owner # Token(w)
OrphanRunsOut ==
  [][Orphan => owner' = NoToken \/ (owner' = owner /\ left' <= left /\ Orphan')]_vars

\* However sessions end, even leaving their lease behind, the connection is
\* served again.
ServedAgain == (\A w \in Workers : pc[w] # "live") ~> (\E w \in Workers : pc[w] = "live")
=============================================================================
