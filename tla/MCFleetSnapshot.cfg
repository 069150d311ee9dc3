\* Two gateways, one tab, one change, one fault.
SPECIFICATION FairSpec
CONSTANTS
  g1 = g1
  g2 = g2
  c1 = c1
  Gateways <- MCGateways
  Tabs <- MCTabs
  MaxVersion = 1
  MaxChanges = 1
  MaxFaults = 1
PROPERTIES
  KeepsPromise
  Settles
CHECK_DEADLOCK FALSE
