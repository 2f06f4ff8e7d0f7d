-------------------------- MODULE MCDurableStream --------------------------
(* Small instances of DurableStream: what sessions may publish.            *)
EXTENDS DurableStream

CONSTANTS o1, x1, s1, a1

Ev(kind, id, known) == [kind |-> kind, id |-> id, known |-> known]

\* One order with and without perm_id, one fill with and without commission,
\* a gateway state, an alert, an event MongoDB keeps nothing of.
MCInputs == {Ev("order", o1, FALSE), Ev("order", o1, TRUE),
             Ev("fill", x1, FALSE), Ev("fill", x1, TRUE), Ev("state", s1, TRUE),
             Ev("alert", s1, TRUE), Ev("other", s1, TRUE)}

\* Orders only, for the refinement and the two-worker runs.
MCOrders == {Ev("order", o1, FALSE), Ev("order", o1, TRUE),
             Ev("order", a1, TRUE)}
=============================================================================
