SPECIFICATION Spec
CONSTANTS
  Guis = {g}
  Clis = {c}
  Daemon = daemon
  Default = default
  p1 = p1
  p2 = p2
  PixelLite <- MCPixelLite
  CliNames = {default, p2}
  None = None
  MaxCommands = 2
  MaxMishaps = 1
INVARIANTS
  EmptyHasWriter
  GarbageNeedsRace
  SelectionSticks
PROPERTIES
  CreateIsFresh
  BootIsAsked
