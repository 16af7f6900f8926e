SPECIFICATION Spec
CONSTANTS
  p1 = p1
  p2 = p2
  p3 = p3
  p4 = p4
  Ptr <- MCPtr
  NoPtr = NoPtr
  Junk = Junk
  Prealloc = 1
SYMMETRY MCSymmetry
INVARIANTS
  RingInv
  NoDuplicates
  RemoveTakesOut
PROPERTIES
  ImplementsFifo
