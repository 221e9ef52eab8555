CONSTANTS
  Requested = 2
  MaxInBatch = 1
  BatchSize = 2
  Drivers = {"run"}
  Usage = {"nestedBatch"}
  MaxCreate = 2
  MaxCalls = 2
SPECIFICATION FairSpec
PROPERTIES
  RunReturns
CHECK_DEADLOCK FALSE
