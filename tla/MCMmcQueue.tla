---------------------------- MODULE MCMmcQueue ----------------------------
(* MmcQueue for TLC: four pointers on a buffer that grows by two cells,   *)
(* so that it is reallocated when it is full, in every rotation.          *)
EXTENDS MmcQueue, TLC

CONSTANTS p1, p2, p3, p4

MCPtr == {p1, p2, p3, p4}

MCSymmetry == Permutations(MCPtr)
============================================================================
