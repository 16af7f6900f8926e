---------------------------- MODULE MmcQueueOps ----------------------------
(***************************************************************************)
(* The operations of memcache_queue.[ch] on the abstract value of a queue, *)
(* the sequence of its pointers, oldest first.  MmcPool is modelled with   *)
(* them, MmcFifo is the queue that has them, and MmcQueue, the ring buffer *)
(* of the code, implements MmcFifo.                                        *)
(***************************************************************************)
EXTENDS Naturals, SequencesExt

(* mmc_queue_push: a pointer that is already queued stays where it is. *)
Push(q, x) == IF x \in ToSet(q) THEN q ELSE Append(q, x)

(* mmc_queue_pop: the pointer returned, and the queue that is left. *)
Popped(q, null) == IF q = <<>> THEN null ELSE Head(q)
Rest(q) == IF q = <<>> THEN <<>> ELSE Tail(q)

(* mmc_queue_remove. *)
Without(q, x) == RemoveFirst(q, x)
============================================================================
