CONSTANTS
  Requested = 3
  MaxInBatch = 0
  BatchSize = 2
  Drivers = {"run", "manual"}
  Usage = {}
  MaxCreate = 3
  MaxCalls = 3
  Mutex = {m1, m2}
  NoMutex = NoMutex
SPECIFICATION MutexFairSpec
INVARIANTS
  MutexTypeOK
  MutexInv
  QueueOfWaiters
  WaiterQueued
PROPERTIES
  ImplementsMutex
  InOrderOutsideRun
  MutexProgress
CHECK_DEADLOCK FALSE
