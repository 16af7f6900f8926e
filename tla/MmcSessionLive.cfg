SPECIFICATION LiveSpec
CONSTANTS
  A = A
  B = B
  p1 = p1
  p2 = p2
  p3 = p3
  Old = Old
  None = None
  Unread = Unread
  Page <- MCPage
  Server <- MCServer
  Probes <- MCProbes
  MaxAttempts = 2
  Redundancy = 2
  LockTimeout = 1
  Binary = FALSE
  MaxFaults = 0
PROPERTIES
  ReadReturns
  HandlersReturn
CHECK_DEADLOCK FALSE
