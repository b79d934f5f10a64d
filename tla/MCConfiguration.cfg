SPECIFICATION Spec
CONSTANTS
  Modifiers = {}
  Tags = {0, 1}
  FirstLayout = 1
  DefaultKeys <- MCDefaultKeys
  DefaultNames = 1
  MaxListeners = 3
  Setups <- MCSetups
INVARIANTS ConfigurationSound CopiesAgree PointersSound
PROPERTY EveryCallReturns
