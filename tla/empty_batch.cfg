CONSTANTS
  Requested = 1
  MaxInBatch = 1
  BatchSize = 2
  Drivers = {"run"}
  Usage = {"emptyBatch"}
  MaxCreate = 1
  MaxCalls = 2
SPECIFICATION FairSpec
PROPERTIES
  RunReturns
CHECK_DEADLOCK FALSE
