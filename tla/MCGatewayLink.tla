--------------------------- MODULE MCGatewayLink ---------------------------
(***************************************************************************)
(* Small instances of GatewayLink for TLC.                                 *)
(***************************************************************************)
EXTENDS GatewayLink, TLC
=============================================================================
