CONSTANTS
  Windows = {w1, w2, w3}
  None = None
  MaxTag = 1
  NewPositions = {0}
  ShownSets <- MCShownSets
  Setups <- MCSetups
SPECIFICATION Spec
SYMMETRY WindowSymmetry
INVARIANTS
  ListsSound
  FocusSound
  ScratchpadAgrees
  CommandsUndo
PROPERTY
  CommandsDeliver
CHECK_DEADLOCK FALSE
