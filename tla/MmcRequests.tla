---------------------------- MODULE MmcRequests ----------------------------
(***************************************************************************)
(* What the scheduler of memcache_pool.c promises about each request: at   *)
(* any time it is on the free list, held by the code that is building or   *)
(* placing it, or with one server, which has to answer it.  A request is   *)
(* given to a server only by whoever holds it; a server that fails gives   *)
(* back what it had; only an answer frees a request that is with a server. *)
(***************************************************************************)
EXTENDS Naturals, Sequences

CONSTANTS Server

VARIABLE where       \* where[r]: "free", "held", or the server that has it

RInit == where = <<>>

Create == where' = Append(where, "held")

Move(R, from, to) ==
  /\ \A r \in R : where[r] = from
  /\ where' = [r \in DOMAIN where |-> IF r \in R THEN to ELSE where[r]]

Take(r)        == Move({r}, "free", "held")
Place(r, s)    == Move({r}, "held", s)
Answered(r, s) == Move({r}, s, "free")
Withdraw(s)    == \E R \in SUBSET DOMAIN where : Move(R, s, "held")
Drop(r)        == Move({r}, "held", "free")

RNext ==
  \/ Create
  \/ \E r \in DOMAIN where :
       Take(r) \/ Drop(r) \/ \E s \in Server : Place(r, s) \/ Answered(r, s)
  \/ \E s \in Server : Withdraw(s)

RSpec == RInit /\ [][RNext]_where
============================================================================
