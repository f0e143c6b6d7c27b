SPECIFICATION Spec
CONSTANTS
  None = None
  Default = Default
  d1 = d1
  Devices = {Default, d1}
  Conns = {c1, c2}
  Procs = {p1, p2}
SYMMETRY Symmetry
INVARIANTS
  SingleEmulator
  CheckStillHolds
  RegisteredChildIsActive
  OffMeansNoEmulator
  StatusNamesDevice
PROPERTIES
  RestartKeepsDevice
  OnlyAskedKill
  RequestsInTurn
