SPECIFICATION FairSpec
CONSTANTS
  None = None
  Default = Default
  Devices = {Default}
  Conns = {c1, c2}
  Procs = {p1}
PROPERTIES
  ShutdownEnds
