------------------------------ MODULE MmcFifo ------------------------------
(***************************************************************************)
(* What memcache_queue.[ch] promises to the request scheduler: a queue of  *)
(* pointers in which a pointer is present at most once, that hands them    *)
(* back in the order they were first pushed.  Its operations are those of  *)
(* MmcQueueOps, which the scheduler (MmcPool) is modelled with; MmcQueue,  *)
(* the ring buffer of the code, is shown to implement it.                  *)
(***************************************************************************)
EXTENDS MmcQueueOps

CONSTANTS Ptr,      \* the pointers that can be queued
          NoPtr     \* NULL, what a pop from an empty queue returns

VARIABLES fifo,     \* the queued pointers, oldest first
          ret       \* the pointer returned by the last pop

avars == <<fifo, ret>>

AInit == fifo = <<>> /\ ret = NoPtr

APush(p) == fifo' = Push(fifo, p) /\ UNCHANGED ret

APop == ret' = Popped(fifo, NoPtr) /\ fifo' = Rest(fifo)

ARemove(p) == fifo' = Without(fifo, p) /\ UNCHANGED ret

AClear == fifo' = <<>> /\ UNCHANGED ret

ANext == \/ \E p \in Ptr : APush(p) \/ ARemove(p)
         \/ APop
         \/ AClear

ASpec == AInit /\ [][ANext]_avars
============================================================================
