--------------------------- MODULE MCMmcSession ---------------------------
(* MmcSession for TLC: two pages, or three, that share one session on two    *)
(* mirrors.  The second key of the failover sequence hashes to the first     *)
(* server again, so that mmc_pool_find_next has to skip it.                  *)
EXTENDS MmcSession, TLC

CONSTANTS A, B, p1, p2, p3

MCServer == {A, B}
MCPage   == {p1, p2}
MCPages  == {p1, p2, p3}
MCProbes == <<A, A, B>>

MCSymmetry == Permutations(MCPage)
============================================================================
