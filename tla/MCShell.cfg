SPECIFICATION Spec
CONSTANTS
  m1 = m1
  m2 = m2
  w1 = w1
  w2 = w2
  w3 = w3
  s1 = s1
  s2 = s2
  k1 = k1
  k2 = k2
  kb1 = kb1
  kb2 = kb2
  None = None
  Mons <- MCMons
  MonitorBox <- MCMonitorBox
  Windows = {w1, w2, w3}
  WindowTag <- MCWindowTag
  WindowBox <- MCWindowBox
  Surfaces = {s1, s2}
  Constraints = {k1, k2}
  Constraint <- MCConstraint
  Devices = {kb1, kb2}
  DeviceType <- MCDeviceType
  Spots <- MCSpots
  MaxTag = 2
  Setups <- MCSetups
INVARIANTS
  RoomIsShared
  ConstraintsSound
  PointerFocusIsShown
PROPERTIES
  KeyboardComesBack
  SloppyFollows
