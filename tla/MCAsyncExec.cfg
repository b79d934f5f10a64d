CONSTANTS
  Jobs = {j1, j2, j3}
  WithFunction = {j1, j2}
  NoJob = NoJob
SPECIFICATION AsyncFairSpec
INVARIANT HandlerSound
PROPERTIES LastResultDelivered PromiseKept
CHECK_DEADLOCK FALSE
