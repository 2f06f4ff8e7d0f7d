--------------------------- MODULE MCSessionLease ---------------------------
(* Two workers that both supervise one connection.                         *)
EXTENDS SessionLease
CONSTANTS w1, w2
=============================================================================
