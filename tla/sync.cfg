CONSTANTS
  Requested = 3
  MaxInBatch = 0
  BatchSize = 2
  Drivers = {"run", "manual"}
  Usage = {}
  MaxCreate = 3
  MaxCalls = 2
  CondUsage = {}
  ChannelSize = 2
SPECIFICATION SyncSpec
INVARIANTS
  RWListSound
  RWInv
  CondWaitersKept
  NotificationKept
  SlotsConserved
  SemWaitersKept
  OneCall
  DoWaitersKept
PROPERTIES
  ImplementsRWLock
  ImplementsFifo
  SyncProgress
CHECK_DEADLOCK FALSE
