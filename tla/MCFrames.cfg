SPECIFICATION Spec
CONSTANTS
  Windows = {"a", "b"}
  None = None
  Places <- MCPlaces
  Screen <- MCScreen
  Areas <- MCAreas
  Spots <- MCSpots
  Boxes <- MCBoxes
  Ratios <- MCRatios
  Setups <- MCSetups
INVARIANTS SceneAgrees GeometrySound TiledApart
PROPERTY DragIsRigid
