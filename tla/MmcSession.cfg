SPECIFICATION Spec
CONSTANTS
  A = A
  B = B
  p1 = p1
  p2 = p2
  p3 = p3
  Old = Old
  None = None
  Unread = Unread
  Page <- MCPage
  Server <- MCServer
  Probes <- MCProbes
  MaxAttempts = 3
  Redundancy = 2
  LockTimeout = 2
  Binary = FALSE
  MaxFaults = 1
SYMMETRY MCSymmetry
INVARIANTS
  TypeOK
  OneHolder
  HeldIsCurrent
  Serialised
PROPERTIES
  LeaseRuns
CHECK_DEADLOCK FALSE
