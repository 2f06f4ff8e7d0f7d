---------------------------- MODULE MCSupervisor ----------------------------
(* Connections of one tenant, which share its consumer and its dispatcher. *)
EXTENDS Supervisor
CONSTANTS c1, c2, t1, f1, f2
MCTenantOf == [c \in Connections |-> t1]
=============================================================================
