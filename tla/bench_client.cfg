CONSTANTS
  Fds = {1, 2}
  MaxTimers = 4
  MaxLazy = 0
  MaxLate = 1
  Clients = 2
  RateLimit = 2
  MaxReq = 2
  CheckTicks = 1
  ConnectTicks = 1
  IoTicks = 2
  RefreshTicks = 2
  RunTicks = 4
  MaxWon = 3
SPECIFICATION BenchSpec
INVARIANTS
  EventOfStatus
  ReplacedInTime
  SuccessesKept
CHECK_DEADLOCK FALSE
