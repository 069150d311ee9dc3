\* Two gateways, two identities.
SPECIFICATION PairingFairSpec
CONSTANTS
  Fleet <- MCFleet
  MaxIds = 2
INVARIANTS
  ReportIsTrue
PROPERTIES
  LinksFollow
CHECK_DEADLOCK FALSE
