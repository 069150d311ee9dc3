------------------------------ MODULE MCPairing ------------------------------
(* The instance of Pairing that MCPairing.cfg completes.                    *)
EXTENDS Pairing

MCFleet == <<"main", "scout">>
=============================================================================
