CONSTANTS
  Requested = 2
  MaxInBatch = 2
  BatchSize = 3
  Drivers = {"run", "manual"}
  Usage = {}
  MaxCreate = 3
  MaxCalls = 1
SPECIFICATION FairSpec
INVARIANTS
  TypeOK
  NotIdleCount
  BatchJoin
  JoinQueued
  BatchInv
  AssertsHold
  PoolsSuffice
PROPERTIES
  RunReturns
CHECK_DEADLOCK FALSE
