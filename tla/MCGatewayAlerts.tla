--------------------------- MODULE MCGatewayAlerts ---------------------------
(* The gateways of one tenant, for TLC. *)
EXTENDS GatewayAlerts
CONSTANTS g1, g2
=============================================================================
