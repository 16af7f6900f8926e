SPECIFICATION Spec
CONSTANTS
  A = A
  B = B
  k1 = k1
  k2 = k2
  k3 = k3
  Server = {A, B}
  Key = {k1, k2, k3}
  Home <- AAB
  Arrays <- Tcp
  Single = {k1}
  NoServer = NoServer
  Garbage = Garbage
  Length = 2
  RequestIds = 3
  MaxFaults = 1
CHECK_DEADLOCK FALSE
INVARIANT GetReturnsItem
