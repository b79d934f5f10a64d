CONSTANTS
  NoMonitor = NoMonitor
  Monitors = {m1, m2, m3}
  Windows = {}
  MaxTag = 1
  EditedTags = {0, 1}
SPECIFICATION Spec
SYMMETRY MonitorSymmetry
INVARIANTS NeverAborts
CHECK_DEADLOCK FALSE
