CONSTANTS
  Fds = {1}
  MaxTimers = 9
  MaxLazy = 1
  MaxLate = 1
  Clients = 1
  RateLimit = 1
  MaxReq = 2
  ConnectTicks = 1
  IoTicks = 1
  RefreshTicks = 1
  RunTicks = 1
  Parts = 2
SPECIFICATION CoClientSpec
INVARIANTS
  TimerAccounts
  SleepsInTime
  WaitIsBounded
  CallBackInTime
PROPERTY
  Stops
CHECK_DEADLOCK FALSE
