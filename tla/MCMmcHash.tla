----------------------------- MODULE MCMmcHash -----------------------------
(* MmcHash for TLC: three servers with one or two points each on a circle.   *)
(* The points of different servers alternate, follow one another or enclose *)
(* one another; or they coincide, all of them or some, or leave the last    *)
(* buckets to the wrap-around.                                              *)
EXTENDS MmcHash, TLC

CONSTANTS A, B, C

MCServer == {A, B, C}
(* Which server has which points does not matter, since they are added in   *)
(* every order: of the ways that only differ in that, one is enough.        *)
Points(p, q, r) == A :> p @@ B :> q @@ C :> r
MCPositions ==
  {Points(<<0, 3>>, <<1, 4>>, <<2, 5>>), Points(<<0, 1>>, <<2, 3>>, <<4, 5>>),
   Points(<<0, 5>>, <<1, 2>>, <<3, 4>>), Points(<<0, 2>>, <<0, 2>>, <<0, 2>>),
   Points(<<1, 3>>, <<1, 4>>, <<3, 5>>), Points(<<0, 1>>, <<1, 2>>, <<2, 3>>)}
MCOrders == [n \in 0 .. MaxPoints |-> Permutations(1 .. n)]
MCKeyHashes == {0, BUCKETS - 1}
=============================================================================
