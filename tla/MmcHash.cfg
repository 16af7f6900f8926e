SPECIFICATION Spec
CONSTANTS
  A = A
  B = B
  C = C
  NoServer = NoServer
  Server <- MCServer
  POINTS = 1
  BUCKETS = 5
  Space = 6
  Shift = 1
  Mask = 4
  MaxWeight = 2
  MaxAdded = 3
  MaxPoints = 6
  Positions <- MCPositions
  KeyHashes <- MCKeyHashes
  Orders <- MCOrders
INVARIANTS
  SearchInBounds
  KeyMapped
PROPERTIES
  RemapsToNew
  FindReturns
CHECK_DEADLOCK FALSE
