SPECIFICATION FairSpec
CONSTANTS
  Nobody = Nobody
  Clients = {c1, c2, c3}
INVARIANTS
  OnlyStopEnds
PROPERTIES
  StopEnds
  QueuedServed
