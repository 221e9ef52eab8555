CONSTANTS
  Fds = {1}
  MaxTimers = 9
  MaxLazy = 0
  MaxLate = 1
  Clients = 1
  RateLimit = 1
  MaxReq = 2
  ConnectTicks = 1
  IoTicks = 1
  RefreshTicks = 1
  RunTicks = 1
  Parts = 1
SPECIFICATION CoClientSpec
INVARIANTS
  ClearedWhileOpen
CHECK_DEADLOCK FALSE
