SPECIFICATION Spec
CONSTANTS
  A = A
  B = B
  k1 = k1
  k2 = k2
  k3 = k3
  NoServer = NoServer
  Servers <- MCServers
  Key <- MCKey
  MaxAttempts = 2
  Configs <- PoolConfigs
INVARIANTS
  TypeOK
  NoNullDereference
  RoundsServeAll
  RunCompletesUnretried
  AllReturned
  SendOrder
  ReplyMatchesUnretried
  ScheduledOrReleased
  FailsOverOnceHandled
  OneServer
  FailedIsIdle
  PendingIsBuildingOrFailed
PROPERTIES
  ImplementsRequests
CHECK_DEADLOCK FALSE
