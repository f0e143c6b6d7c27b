SPECIFICATION Spec
CONSTANTS
  None = None
  Managers = {m1, m2, m3, m4}
  Taps = {t1, t2}
  Ifaces = {e1, e2}
  MaxRefused = 2
SYMMETRY Symmetry
INVARIANTS
  ForwardsStay
  NothingLeft
