CONSTANTS
  Tags = {0, 1}
  Names = {tile, monocle, two_pane}
  tile = tile
  monocle = monocle
  two_pane = two_pane
  BuiltinRing <- MCRing
  BuiltinLayout = two_pane
  AreaLimits <- MCAreaLimits
  Setups <- MCSetups
SPECIFICATION Spec
INVARIANT
  LayoutsSound
PROPERTIES
  PreviousIsSecond
  PlacesSound
  RingStaysInside
CHECK_DEADLOCK FALSE
