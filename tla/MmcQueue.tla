----------------------------- MODULE MmcQueue -----------------------------
(***************************************************************************)
(* The ring buffer of memcache_queue.[ch].  Every queue of the scheduler   *)
(* is one of these: the send and read queue of each server, the sending,   *)
(* reading and pending queues of the pool, the free list, the servers a    *)
(* request already failed on.                                              *)
(*                                                                         *)
(* A queue is the C struct: items (the allocated cells), alloc, head (the  *)
(* cell of the newest item), tail (the cell of the oldest) and len.  Cells *)
(* that erealloc has just added hold Junk, whatever the allocator returns. *)
(*                                                                         *)
(* mmc_queue_remove is a loop over the old buffer that pushes what it      *)
(* keeps onto a released queue; its steps are actions here, with the old   *)
(* buffer in "original", so that the loop is checked and not assumed.      *)
(***************************************************************************)
EXTENDS Integers, Sequences

CONSTANTS Ptr,        \* the pointers that are queued
          NoPtr,      \* NULL
          Junk,       \* the contents of a cell nothing was stored in
          Prealloc    \* MMC_QUEUE_PREALLOC, 25 in the code

ASSUME PreallocAssumption == Prealloc \in Nat
ASSUME PtrAssumption == NoPtr \notin Ptr /\ Junk \notin Ptr /\ Junk # NoPtr

VARIABLES queue,      \* the queue
          original,   \* local of mmc_queue_remove: the buffer it drains
          removing,   \* argument of the mmc_queue_remove in progress, or NoPtr
          ret         \* the pointer returned by the last mmc_queue_pop

vars == <<queue, original, removing, ret>>

Cell == Ptr \cup {Junk}

(* A zeroed struct: what mmc_queue_release and mmc_queue_free leave. *)
Released == [items |-> [i \in 0 .. -1 |-> Junk],
             alloc |-> 0, head |-> 0, tail |-> 0, len |-> 0]

(* The cell of the i-th item, counted from the tail. *)
Pos(q, i) == IF q.tail + i < q.alloc THEN q.tail + i ELSE i - (q.alloc - q.tail)

Item(q, i) == q.items[Pos(q, i)]

Contains(q, p) == \E i \in 0 .. q.len - 1 : Item(q, i) = p

(* The index one cell further round the ring. *)
Advance(q, i) == IF i + 1 >= q.alloc THEN 0 ELSE i + 1

(* Mutant of Grow: items that wrap round the end are not moved. *)
GrowInPlace(q) ==
  LET size == q.alloc + 1 + Prealloc
  IN [q EXCEPT !.items = [i \in 0 .. size - 1 |-> IF i < q.alloc THEN q.items[i] ELSE Junk],
               !.alloc = size]

(* mmc_queue_push's reallocation: the cells from the tail to the old end   *)
(* move to the new end when the items wrap round.                          *)
Grow(q) ==
  LET increase == 1 + Prealloc
      size     == q.alloc + increase
      moved    == q.head < q.tail
      cell(i)  == IF moved /\ i >= q.tail + increase THEN q.items[i - increase]
                  ELSE IF i < q.alloc THEN q.items[i]
                  ELSE Junk
  IN [items |-> [i \in 0 .. size - 1 |-> cell(i)],
      alloc |-> size,
      head  |-> q.head,
      tail  |-> IF moved THEN q.tail + increase ELSE q.tail,
      len   |-> q.len]

(* Mutant of Store: the head moves on in an empty queue, too. *)
StorePast(q, p) ==
  LET h == Advance(q, q.head)
  IN [items |-> [q.items EXCEPT ![h] = p],
      alloc |-> q.alloc, head |-> h, tail |-> q.tail, len |-> q.len + 1]

Store(q, p) ==
  LET h == IF q.len > 0 THEN Advance(q, q.head) ELSE q.head
  IN [items |-> [q.items EXCEPT ![h] = p],
      alloc |-> q.alloc, head |-> h, tail |-> q.tail, len |-> q.len + 1]

PushNew(q, p) == Store(IF q.len >= q.alloc THEN Grow(q) ELSE q, p)

(* Mutant of PushOn: no check for a pointer that is queued already. *)
PushOnAgain(q, p) == PushNew(q, p)

PushOn(q, p) == IF Contains(q, p) THEN q ELSE PushNew(q, p)

(* The queue after mmc_queue_pop; the pointer returned is Popped(q). *)
PopFrom(q) ==
  IF q.len = 0 THEN q
  ELSE [items |-> q.items, alloc |-> q.alloc, head |-> q.head,
        tail |-> IF q.len > 1 THEN Advance(q, q.tail) ELSE q.tail,
        len |-> q.len - 1]

Popped(q) == IF q.len = 0 THEN NoPtr ELSE q.items[q.tail]

Reset(q) == [items |-> q.items, alloc |-> q.alloc,
             head |-> 0, tail |-> 0, len |-> 0]

----------------------------------------------------------------------------

Init == /\ queue = Released /\ original = Released
        /\ removing = NoPtr
        /\ ret = NoPtr

Idle == removing = NoPtr

Push(p) == /\ Idle
           /\ queue' = PushOn(queue, p)
           /\ UNCHANGED <<original, removing, ret>>

Pop == /\ Idle
       /\ queue' = PopFrom(queue)
       /\ ret' = Popped(queue)
       /\ UNCHANGED <<original, removing>>

Clear == /\ Idle
         /\ queue' \in {Released, Reset(queue)}
         /\ UNCHANGED <<original, removing, ret>>

(* mmc_queue_remove: the struct is saved and the queue zeroed ...          *)
BeginRemove(p) == /\ Idle
                  /\ original' = queue
                  /\ queue' = Released
                  /\ removing' = p
                  /\ UNCHANGED ret

(* Mutant of RemoveItem: the item to remove is pushed back like the others. *)
RemoveItemKeeps == /\ ~Idle
                   /\ original.len > 0
                   /\ original' = PopFrom(original)
                   /\ queue' = PushOn(queue, Popped(original))
                   /\ UNCHANGED <<removing, ret>>

(* ... every item but the removed one is popped and pushed back ...        *)
RemoveItem == /\ ~Idle
              /\ original.len > 0
              /\ original' = PopFrom(original)
              /\ queue' = IF Popped(original) = removing THEN queue
                          ELSE PushOn(queue, Popped(original))
              /\ UNCHANGED <<removing, ret>>

(* ... and the old buffer is freed. *)
EndRemove == /\ ~Idle
             /\ original.len = 0
             /\ original' = Released
             /\ removing' = NoPtr
             /\ UNCHANGED <<queue, ret>>

Next == \/ \E p \in Ptr : Push(p) \/ BeginRemove(p)
        \/ Pop
        \/ Clear
        \/ RemoveItem
        \/ EndRemove

Spec == Init /\ [][Next]_vars

----------------------------------------------------------------------------

(* The items of a queue, oldest first. *)
Contents(q) == [i \in 1 .. q.len |-> Item(q, i - 1)]

(* The struct is consistent: the indices are inside the buffer, the head   *)
(* is the cell of the last item, and every item is a pointer somebody      *)
(* pushed, never a cell the last reallocation left unwritten.              *)
RingOK(q) ==
  /\ q \in [items : [0 .. q.alloc - 1 -> Cell],
            alloc : Nat, head : Nat, tail : Nat, len : 0 .. q.alloc]
  /\ q.alloc = 0 => q.head = 0 /\ q.tail = 0
  /\ q.alloc > 0 => q.head < q.alloc /\ q.tail < q.alloc
  /\ q.head = IF q.len = 0 THEN q.tail ELSE Pos(q, q.len - 1)
  /\ \A i \in 0 .. q.len - 1 : Item(q, i) \in Ptr

Distinct(q) ==
  \A i, j \in 0 .. q.len - 1 : Item(q, i) = Item(q, j) => i = j

(* Type and structural invariant (memcache_queue.c:29-121): both           *)
(* buffers stay consistent through growth, wrap-around and the loop of     *)
(* mmc_queue_remove.                                                       *)
RingInv ==
  /\ RingOK(queue) /\ RingOK(original)
  /\ removing \in Ptr \cup {NoPtr}
  /\ ret \in Ptr \cup {NoPtr}
  /\ Idle => original = Released

(* A pointer is queued once: the duplicate check of mmc_queue_push         *)
(* (memcache_queue.c:30) sees every item, whatever the rotation of the     *)
(* ring, and the loop of mmc_queue_remove never queues an item twice.      *)
NoDuplicates ==
  /\ Distinct(queue) /\ Distinct(original)
  /\ \A i \in 0 .. queue.len - 1 : ~Contains(original, Item(queue, i))

(* The item to remove is gone when mmc_queue_remove returns                *)
(* (memcache_queue.c:114-120), wherever in the ring it was.                *)
RemoveTakesOut ==
  ~Idle /\ original.len = 0 => ~Contains(queue, removing)

(* The ring implements the abstract queue, memcache_queue.c:29-121: items  *)
(* come out in the order they went in, mmc_queue_remove takes out one item *)
(* and keeps the order of the others, and growing the buffer is invisible. *)
(* During the loop of mmc_queue_remove the abstract queue is what is       *)
(* already back on the queue followed by what the loop has still to move.  *)
Fifo == INSTANCE MmcFifo WITH fifo <- Contents(queue) \o Contents(original)

ImplementsFifo == Fifo!ASpec
============================================================================
