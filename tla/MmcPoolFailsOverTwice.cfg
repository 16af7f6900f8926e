SPECIFICATION Spec
CONSTANTS
  A = A
  B = B
  k1 = k1
  k2 = k2
  k3 = k3
  NoServer = NoServer
  Servers <- MCServers
  Key <- MCKey
  MaxAttempts = 2
  Configs <- DeadConfigs
INVARIANT FailsOverOnce
CHECK_DEADLOCK FALSE
