CONSTANTS
  Jobs = {j1, j2}
  WithFunction = {j1, j2}
  NoJob = NoJob
SPECIFICATION AsyncFairSpec
PROPERTY EveryResultDelivered
CHECK_DEADLOCK FALSE
