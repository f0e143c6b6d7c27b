SPECIFICATION VmSpec
CONSTANTS
  IdxMod = 8
  QueueMax = 4
  Descs = 7
  Layouts <- MCLayouts
  v = v
  empty = empty
  Values <- MCValues
  Empty = empty
INVARIANTS
  CursorsAgree
PROPERTIES
  InOrderOnce
  FlagEndsLoop
