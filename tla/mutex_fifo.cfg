CONSTANTS
  Requested = 3
  MaxInBatch = 0
  BatchSize = 2
  Drivers = {"run"}
  Usage = {}
  MaxCreate = 3
  MaxCalls = 3
  Mutex = {m1}
  NoMutex = NoMutex
SPECIFICATION MutexSpec
PROPERTIES
  ServedInOrder
CHECK_DEADLOCK FALSE
