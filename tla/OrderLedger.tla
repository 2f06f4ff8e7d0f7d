---------------------------- MODULE OrderLedger ----------------------------
(***************************************************************************)
(* What durable order history promises, without its mechanism: every       *)
(* order has one entry; the entry goes through the order's events in the    *)
(* order they were published, one at a time, and keeps the creation time   *)
(* of the first.  DurableStream implements it.                             *)
(***************************************************************************)
EXTENDS Naturals, Sequences

CONSTANTS Orders, Inputs,
          Horizon   \* bound: how many events Reflected speaks of

VARIABLES log,     \* every event ever published, oldest first
          book,    \* book[o]: index of the event the entry of o shows, 0 if none
          opened   \* opened[o]: index of the event whose created_at o keeps

vars == <<log, book, opened>>

OfOrder(o, i) == log[i].kind = "order" /\ log[i].id = o

Init == /\ log = <<>>
        /\ book = [o \in Orders |-> 0]
        /\ opened = [o \in Orders |-> 0]

Publish == /\ \E e \in Inputs : log' = Append(log, e)
           /\ UNCHANGED <<book, opened>>

\* i is the oldest event of o that its entry does not show yet.
NextOf(o, i) == /\ i > book[o]
                /\ OfOrder(o, i)
                /\ \A j \in 1 .. Len(log) : j > book[o] /\ j < i => ~OfOrder(o, j)

Reflect(o) == \E i \in 1 .. Len(log) :
                 /\ NextOf(o, i)
                 /\ book' = [book EXCEPT ![o] = i]
                 /\ opened' = [opened EXCEPT ![o] = IF @ = 0 THEN i ELSE @]
                 /\ UNCHANGED log

Next == Publish \/ \E o \in Orders : Reflect(o)

\* Every published order event is sooner or later shown (or overtaken by a
\* later event of the same order).
Reflected == \A o \in Orders : \A i \in 1 .. Horizon :
                (i \in 1 .. Len(log) /\ OfOrder(o, i)) ~> (book[o] >= i)

Safety == Init /\ [][Next]_vars
Spec == Safety /\ Reflected
=============================================================================
