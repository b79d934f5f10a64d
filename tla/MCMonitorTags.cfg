CONSTANTS
  NoMonitor = NoMonitor
  Monitors = {m1, m2, m3}
  Windows = {w1}
  MaxTag = 1
  EditedTags = {0, 1}
SPECIFICATION Spec
SYMMETRY MonitorSymmetry
INVARIANT LinksSound
PROPERTIES OthersKeepTheirTag ToggleReturns ViewShowsWholeSet
CHECK_DEADLOCK FALSE
