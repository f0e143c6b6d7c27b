SPECIFICATION FairSpec
CONSTANTS
  Nobody = Nobody
  Clients = {c1, c2}
PROPERTY HandlersSpawned
