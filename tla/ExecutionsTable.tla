-------------------------- MODULE ExecutionsTable --------------------------
(***************************************************************************)
(* The table of executions: ExecutionsTable of frontend/components/        *)
(* tables.tsx, a DataTable of the fills its executions make up.            *)
(*                                                                         *)
(* `received' are the executions the dashboard passes, `now' the clock in  *)
(* half days, `fills' the memo of the fills shown: it is computed when the *)
(* executions or the box change, not when time passes.                     *)
(***************************************************************************)
EXTENDS DataTable, Executions

CONSTANTS
  Sent,      \* the executions there are, reported in full
  Late,      \* the ones whose commission is reported after the fill
  LastTime,  \* the clock stops here
  MaxUses    \* bound on what the user does with the table

\* An execution is known by its id, of which the order is only the beginning,
\* and a combo has one row of its own in an order.
ASSUME SentAssumption ==
  /\ IsFiniteSet(Sent) /\ Late \subseteq Sent /\ SortColumns \subseteq 1..3
  /\ \A e \in Sent :
       /\ {"id", "account", "order", "type", "buy", "price", "quantity", "multiplier", "time"} \subseteq DOMAIN e
       /\ {e.id, e.time, e.price} \subseteq Int /\ {e.quantity, e.multiplier} \subseteq Nat \ {0}
       /\ \E paid \in e.commission \cap Int : e.commission = {paid}
  /\ \A e, f \in Sent :
       /\ e.id = f.id => e = f
       /\ e.order # f.id
       /\ e.type = "BAG" /\ f.type = "BAG" /\ OrderKey(e) = OrderKey(f) => e = f

VARIABLES received, now, showExpired, withCommissions, fills, uses
execVars == <<tableVars, received, now, showExpired, withCommissions, fills, uses>>

ShownFills(execs, expiredToo, at) ==
  {f \in GroupFills(execs) : expiredToo \/ ~PastExpiry(f, at)}
AsSent(e) == IF e \in Late THEN [e EXCEPT !.commission = {}] ELSE e

ExecInit ==
  /\ TableInit /\ received = {} /\ now = 2 /\ showExpired = FALSE
  /\ withCommissions = FALSE /\ fills = {} /\ uses = 0

Shows(execs, expiredToo) ==
  /\ received' = execs /\ showExpired' = expiredToo
  /\ fills' = ShownFills(execs, expiredToo, now)
  /\ RowsChange({FillRow(f, withCommissions) : f \in fills'})

\* A fill may arrive without its commission, the commission follows, and a
\* list that is fetched again may have lost its oldest.
ExecutionsChange ==
  /\ \/ \E e \in Sent :
          \/ /\ \A r \in received : r.id # e.id
             /\ Shows(received \cup {AsSent(e)}, showExpired)
          \/ /\ e \in Late /\ AsSent(e) \in received
             /\ Shows((received \ {AsSent(e)}) \cup {e}, showExpired)
     \/ /\ received # {}
        /\ LET oldest == Min({r.time : r \in received})
           IN Shows({r \in received : r.time > oldest}, showExpired)
  /\ UNCHANGED <<now, withCommissions, uses>>
TimePasses ==
  /\ now < LastTime /\ now' = now + 1
  /\ UNCHANGED <<tableVars, received, showExpired, withCommissions, fills, uses>>

ToggleExpired ==
  /\ Shows(received, ~showExpired) /\ UNCHANGED withCommissions
ToggleNetRate ==
  /\ withCommissions' = ~withCommissions
  /\ RowsChange({FillRow(f, withCommissions') : f \in fills})
  /\ UNCHANGED <<received, showExpired, fills>>
Use ==
  /\ uses < MaxUses /\ uses' = uses + 1 /\ UNCHANGED now
  /\ \/ ToggleExpired \/ ToggleNetRate
     \/ TableUse /\ UNCHANGED <<received, showExpired, withCommissions, fills>>

ExecNext == ExecutionsChange \/ TimePasses \/ Use
ExecSpec == ExecInit /\ [][ExecNext]_execVars

-----------------------------------------------------------------------------
\* Every execution is in exactly one fill, of its own account, and the net
\* premium above the table is the cash of all of them with no combo counted
\* beside its legs, whatever order the parts arrive in (groupFills).
FillsPartition ==
  LET all == GroupFills(received)
      rowsOf(f) == {f.lead} \cup f.legs
      legsOf(e) == {r \in received : OrderKey(r) = OrderKey(e) /\ r.type # "BAG"}
  IN /\ \A e \in received : Cardinality({f \in all : e \in rowsOf(f)}) = 1
     /\ \A f \in all : {r.account : r \in rowsOf(f)} = {f.lead.account}
     /\ Cardinality({f.key : f \in all}) = Cardinality(all)
     /\ Totals(all).net =
          SumFunction([e \in {r \in received : r.type = "BAG" => legsOf(r) = {}} |-> Cash(e)])
=============================================================================
