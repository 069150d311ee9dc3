--------------------------- MODULE MCFleetSnapshot ---------------------------
(* The instance of FleetSnapshot that MCFleetSnapshot.cfg completes.        *)
EXTENDS FleetSnapshot

CONSTANTS g1, g2, c1

MCGateways == {g1, g2}
MCTabs == {c1}
=============================================================================
