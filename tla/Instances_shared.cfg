SPECIFICATION FairSpec
CONSTANTS
  None = None
  Daemons = {d1, d2, d3}
  Guis = {g1, g2}
INVARIANTS
  ServingIsReachable
  StaleNeverBlocks
  SettledIsReachable
PROPERTIES
  StartLeadsToReachable
