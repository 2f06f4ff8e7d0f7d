----------------------------- MODULE Supervisor -----------------------------
(***************************************************************************)
(* The worker process as a supervisor (worker.Supervisor): reconcile()      *)
(* compares the connection registry with the session tasks it holds, ends   *)
(* those that are not wanted, changed or done, starts those that are        *)
(* missing, and keeps one durable consumer and one alert dispatcher for     *)
(* every tenant that has a connection.                                      *)
(*                                                                         *)
(* reconcile() awaits a session it ends, so the registry changes and tasks  *)
(* end while it works on what it has read; between two awaits it is atomic. *)
(***************************************************************************)
EXTENDS Naturals, FiniteSets

CONSTANTS
  Connections, Tenants,
  TenantOf,      \* the tenant of each connection
  Fingerprints,  \* what a session is built from, as far as it matters
  Unset,         \* not in the registry, no session
  Backoff,       \* SESSION_RESTART_BACKOFF, in rounds of SUPERVISE_INTERVAL
  MaxChanges,    \* bound: changes of the registry
  MaxFaults      \* bound: tasks that end, reads and writes that fail, exits

ASSUME SupervisorAssumption ==
  /\ TenantOf \in [Connections -> Tenants]
  /\ Unset \notin Fingerprints \cup Connections
  /\ Backoff \in Nat /\ MaxChanges \in Nat /\ MaxFaults \in Nat

VARIABLES
  registry,       \* registry.supervised(): the fingerprint of each document
  phase,          \* where reconcile() is
  wanted, todo,   \* what it has read, and the sessions it has yet to look at
  at,             \* the session it waits for
  sessions,       \* the dict: the fingerprint its session was built from
  task,           \* ... and what the session's task is doing
  running,        \* session tasks of a connection that have not ended
  hold,           \* restart_after, in rounds
  helper,         \* the dicts consumers and dispatchers
  changes, faults

loop == <<phase, wanted, todo, at>>
tasks == <<sessions, task, running, hold>>
vars == <<registry, loop, tasks, helper, changes, faults>>

Kinds == {"consumer", "dispatcher"}
Served(docs) == {TenantOf[c] : c \in {d \in Connections : docs[d] # Unset}}

TypeOK ==
  /\ registry \in [Connections -> Fingerprints \cup {Unset}]
  /\ phase \in {"asleep", "sessions", "await", "consumer", "dispatcher"}
  /\ wanted \in [Connections -> Fingerprints \cup {Unset}]
  /\ todo \subseteq Connections /\ at \in Connections \cup {Unset}
  /\ sessions \in [Connections -> Fingerprints \cup {Unset}]
  /\ task \in [Connections -> {"none", "running", "cancelled", "ended"}]
  /\ running \in [Connections -> Nat]
  /\ hold \in [Connections -> 0 .. Backoff]
  /\ helper \in [Kinds \X Tenants -> {"none", "starting", "running", "dead"}]
  /\ changes \in Nat /\ faults \in Nat

Init ==
  /\ registry \in [Connections -> Fingerprints \cup {Unset}]
  /\ phase = "asleep"
  /\ wanted = [c \in Connections |-> Unset] /\ todo = {} /\ at = Unset
  /\ sessions = [c \in Connections |-> Unset]
  /\ task = [c \in Connections |-> "none"]
  /\ running = [c \in Connections |-> 0]
  /\ hold = [c \in Connections |-> 0]
  /\ helper = [h \in Kinds \X Tenants |-> "none"]
  /\ changes = 0 /\ faults = 0

Fault == faults < MaxFaults /\ faults' = faults + 1

\* The API enables, disables or edits a connection, or the tenant's status.
RegistryChanges(c) ==
  /\ changes < MaxChanges /\ changes' = changes + 1
  /\ \E f \in (Fingerprints \cup {Unset}) \ {registry[c]} :
       registry' = [registry EXCEPT ![c] = f]
  /\ UNCHANGED <<loop, tasks, helper, faults>>
-----------------------------------------------------------------------------
(* reconcile()                                                              *)

\* A round begins: SUPERVISE_INTERVAL has passed, the registry is read.
Read ==
  /\ phase = "asleep"
  /\ phase' = "sessions"
  /\ wanted' = registry
  /\ todo' = {c \in Connections : sessions[c] # Unset}
  /\ hold' = [c \in Connections |-> IF hold[c] > 0 THEN hold[c] - 1 ELSE 0]
  /\ UNCHANGED <<registry, at, sessions, task, running, helper, changes, faults>>

\* MongoDB does not answer: logged, and the round is over.
ReadFails ==
  /\ phase = "asleep" /\ Fault
  /\ hold' = [c \in Connections |-> IF hold[c] > 0 THEN hold[c] - 1 ELSE 0]
  /\ UNCHANGED <<registry, loop, sessions, task, running, helper, changes>>

\* Mutant: only the fingerprints are compared.
KeepsEnded(c) == wanted[c] = sessions[c]

Keeps(c) == wanted[c] = sessions[c] /\ task[c] # "ended"

Keep(c) ==
  /\ phase = "sessions" /\ c \in todo /\ Keeps(c)
  /\ todo' = todo \ {c}
  /\ UNCHANGED <<registry, phase, wanted, at, tasks, helper, changes, faults>>

\* Mutant: the session is cancelled and not waited for.
EndNow(c) ==
  /\ phase = "sessions" /\ c \in todo /\ ~Keeps(c)
  /\ todo' = todo \ {c}
  /\ sessions' = [sessions EXCEPT ![c] = Unset]
  /\ task' = [task EXCEPT ![c] = "none"]
  /\ UNCHANGED <<registry, phase, wanted, at, running, hold, helper, changes, faults>>

\* The session is stopped and cancelled; the round waits until it has ended.
End(c) ==
  /\ phase = "sessions" /\ c \in todo /\ ~Keeps(c)
  /\ phase' = "await" /\ at' = c /\ todo' = todo \ {c}
  /\ IF task[c] = "ended"
       THEN hold' = [hold EXCEPT ![c] = Backoff] /\ UNCHANGED task
       ELSE task' = [task EXCEPT ![c] = "cancelled"] /\ UNCHANGED hold
  /\ UNCHANGED <<registry, wanted, sessions, running, helper, changes, faults>>

Ended(c) ==
  /\ phase = "await" /\ c = at /\ task[c] = "ended"
  /\ phase' = "sessions" /\ at' = Unset
  /\ sessions' = [sessions EXCEPT ![c] = Unset]
  /\ task' = [task EXCEPT ![c] = "none"]
  /\ UNCHANGED <<registry, wanted, todo, running, hold, helper, changes, faults>>

Startable == {c \in Connections : wanted[c] # Unset /\ sessions[c] = Unset /\ hold[c] = 0}

\* Mutant: the registry is read again for the sessions to start.
StartSessionsAnew ==
  /\ phase = "sessions" /\ todo = {}
  /\ LET fresh == {c \in Connections : registry[c] # Unset /\ sessions[c] = Unset /\ hold[c] = 0}
     IN /\ sessions' = [c \in Connections |-> IF c \in fresh THEN registry[c] ELSE sessions[c]]
        /\ task' = [c \in Connections |-> IF c \in fresh THEN "running" ELSE task[c]]
        /\ running' = [c \in Connections |-> IF c \in fresh THEN running[c] + 1 ELSE running[c]]
  /\ phase' = "consumer"
  /\ UNCHANGED <<registry, wanted, todo, at, hold, helper, changes, faults>>

StartSessions ==
  /\ phase = "sessions" /\ todo = {}
  /\ sessions' = [c \in Connections |-> IF c \in Startable THEN wanted[c] ELSE sessions[c]]
  /\ task' = [c \in Connections |-> IF c \in Startable THEN "running" ELSE task[c]]
  /\ running' = [c \in Connections |-> IF c \in Startable THEN running[c] + 1 ELSE running[c]]
  /\ phase' = "consumer"
  /\ UNCHANGED <<registry, wanted, todo, at, hold, helper, changes, faults>>

\* The consumers, then the dispatchers: a tenant that has none gets one, that
\* of a tenant that is not served any more is cancelled.  What the task of one
\* that is there is doing is not looked at.
StartHelpers(kind) ==
  /\ phase = kind
  /\ helper' = [h \in Kinds \X Tenants |->
       CASE h[1] # kind -> helper[h]
         [] h[1] = kind /\ h[2] \notin Served(wanted) -> "none"
         [] h[1] = kind /\ h[2] \in Served(wanted) ->
              IF helper[h] = "none" THEN "starting" ELSE helper[h]]
  /\ phase' = IF kind = "consumer" THEN "dispatcher" ELSE "asleep"
  /\ UNCHANGED <<registry, wanted, todo, at, tasks, changes, faults>>
-----------------------------------------------------------------------------
(* The tasks                                                                *)

\* A session ends by itself: it crashed, it lost its lease, or another worker
\* holds it.
SessionEnds(c) ==
  /\ task[c] = "running" /\ Fault
  /\ task' = [task EXCEPT ![c] = "ended"]
  /\ running' = [running EXCEPT ![c] = @ - 1]
  /\ UNCHANGED <<registry, loop, sessions, hold, helper, changes>>

\* A cancelled session has run its finally.
SessionStops(c) ==
  /\ task[c] = "cancelled"
  /\ task' = [task EXCEPT ![c] = "ended"]
  /\ running' = [running EXCEPT ![c] = @ - 1]
  /\ UNCHANGED <<registry, loop, sessions, hold, helper, changes, faults>>

\* A consumer or a dispatcher creates its consumer group, and is in its loop,
\* which outlives every error.
HelperReady(h) ==
  /\ helper[h] = "starting"
  /\ helper' = [helper EXCEPT ![h] = "running"]
  /\ UNCHANGED <<registry, loop, tasks, changes, faults>>

\* Redis refuses XGROUP CREATE (out of memory, a failing AOF, an outage): the
\* error leaves the coroutine.
HelperRefused(h) ==
  /\ helper[h] = "starting" /\ Fault
  /\ helper' = [helper EXCEPT ![h] = "dead"]
  /\ UNCHANGED <<registry, loop, tasks, changes>>

\* The process exits and is started again.
ProcessExits ==
  /\ Fault
  /\ phase' = "asleep" /\ todo' = {} /\ at' = Unset
  /\ sessions' = [c \in Connections |-> Unset]
  /\ task' = [c \in Connections |-> "none"]
  /\ running' = [c \in Connections |-> 0]
  /\ hold' = [c \in Connections |-> 0]
  /\ helper' = [h \in Kinds \X Tenants |-> "none"]
  /\ UNCHANGED <<registry, wanted, changes>>

Reconcile == \/ Read \/ StartSessions
             \/ \E c \in Connections : Keep(c) \/ End(c) \/ Ended(c)
             \/ \E kind \in Kinds : StartHelpers(kind)

Next == \/ Reconcile \/ ReadFails \/ ProcessExits
        \/ \E c \in Connections : RegistryChanges(c) \/ SessionEnds(c) \/ SessionStops(c)
        \/ \E h \in Kinds \X Tenants : HelperReady(h) \/ HelperRefused(h)

Spec == Init /\ [][Next]_vars

\* supervise() loops for ever, a cancelled task runs its finally, and a task
\* that is scheduled runs.
FairSpec == /\ Spec /\ WF_vars(Reconcile)
            /\ \A c \in Connections : WF_vars(SessionStops(c))
            /\ \A h \in Kinds \X Tenants : WF_vars(HelperReady(h))
-----------------------------------------------------------------------------
(* Properties *)

\* A connection has one session: the old one has ended, its goodbye said and
\* its lease released, before the next one starts.
OneSessionPerConnection == \A c \in Connections : running[c] <= 1

\* No session publishes for a tenant whose events nobody has been put to
\* persist: its consumer comes with the first session and leaves after the last.
SessionHasConsumer == \A c \in Connections :
  sessions[c] # Unset /\ phase # "consumer" => helper[<<"consumer", TenantOf[c]>>] # "none"

\* A round leaves what it has read: whatever it had to end and wait for, and
\* whatever changed meanwhile, each connection then has the session its document
\* called for, of that fingerprint, and the others have none.  One whose session
\* ended by itself has none until its wait is over.
RoundServes == \A c \in Connections :
  /\ phase \in Kinds => sessions[c] = wanted[c] \/ (sessions[c] = Unset /\ hold[c] > 0)
  /\ hold[c] > 0 => running[c] = 0

\* "holds one session per enabled connection": once the registry is quiet, the
\* sessions are those it names, each built from its present document, and the
\* helpers those of the tenants it names, although the rounds worked on stale
\* readings and sessions failed.
ServesRegistry ==
  /\ \A c \in Connections :
       <>[](sessions[c] = registry[c] /\ (registry[c] # Unset => task[c] = "running"))
  /\ \A h \in Kinds \X Tenants :
       <>[](helper[h] # "none" <=> h[2] \in Served(registry))

\* "plus one durable MongoDB consumer per tenant": and it consumes.
ConsumerRuns == \A t \in Tenants :
  <>[](t \in Served(registry) => helper[<<"consumer", t>>] = "running")
=============================================================================
