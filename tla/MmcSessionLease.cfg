SPECIFICATION LeaseSpec
CONSTANTS
  A = A
  B = B
  p1 = p1
  p2 = p2
  p3 = p3
  Old = Old
  None = None
  Unread = Unread
  Page <- MCPages
  Server <- MCServer
  Probes <- MCProbes
  MaxAttempts = 3
  Redundancy = 2
  LockTimeout = 2
  Binary = FALSE
  MaxFaults = 0
INVARIANT LeaseHeld
CHECK_DEADLOCK FALSE
