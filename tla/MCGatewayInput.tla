--------------------------- MODULE MCGatewayInput ---------------------------
(* GatewayInput on small instances. *)
EXTENDS GatewayInput
=============================================================================
