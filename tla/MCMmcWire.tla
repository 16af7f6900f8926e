----------------------------- MODULE MCMmcWire -----------------------------
(* MmcWire with two servers and three keys; the arrays of keys have both   *)
(* keys at one server, or at two.                                          *)
EXTENDS MmcWire

CONSTANTS A, B, k1, k2, k3

AAB    == (k1 :> A) @@ (k2 :> A) @@ (k3 :> B)
Both   == {{k1, k2}, {k1, k3}}
Tcp    == [p \in {"text", "binary"} |-> Both]
TcpUdp == [p \in {"text", "binary", "udp"} |-> IF p = "udp" THEN {{k1, k2}} ELSE Both]
Udp    == [p \in {"udp"} |-> {{k1, k2}}]
=============================================================================
