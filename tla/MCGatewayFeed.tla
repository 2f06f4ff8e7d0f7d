--------------------------- MODULE MCGatewayFeed ---------------------------
(* One gateway session with a queue of very few places.                    *)
EXTENDS GatewayFeed
CONSTANTS o1, o2, x1, c1
=============================================================================
