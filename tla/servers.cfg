CONSTANTS
  HeadLen = 2
  Clients = 2
  Threads = 3
  Requests <- RequestsOf
  SendBuf = 2
  BufferSize = 1
  PoolSize = 2
  Consumers = 2
SPECIFICATION ServersSpec
INVARIANTS
  AnswerExact
  SoleOwner
  SlotsAccount
PROPERTIES
  Answered
  Released
CHECK_DEADLOCK FALSE
