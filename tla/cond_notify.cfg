CONSTANTS
  Requested = 3
  MaxInBatch = 0
  BatchSize = 2
  Drivers = {"manual"}
  Usage = {}
  MaxCreate = 3
  MaxCalls = 2
  CondUsage = {"surplus"}
SPECIFICATION CondSpec
INVARIANTS
  NotifiedWaits
CHECK_DEADLOCK FALSE
