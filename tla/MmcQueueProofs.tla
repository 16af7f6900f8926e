-------------------------- MODULE MmcQueueProofs --------------------------
(***************************************************************************)
(* The ring buffer of memcache_queue.[ch] is a FIFO queue without          *)
(* duplicates, for every set of pointers and every growth increment.       *)
(*                                                                         *)
(* The argument is in three layers.  The lemmas on Grow, Store and PopFrom *)
(* say what each does to the struct and to its items; they are arithmetic  *)
(* on the indices of the ring.  From them, RingInv and NoDuplicates are    *)
(* inductive.  Under these, every step of the ring is a step of MmcFifo or *)
(* a stutter of it.                                                        *)
(***************************************************************************)
EXTENDS MmcQueue, SequenceTheorems, TLAPS

(* RingOK, with the record opened: what the arithmetic below needs.        *)
LEMMA RingFields ==
  ASSUME NEW q, RingOK(q)
  PROVE  /\ q = [items |-> q.items, alloc |-> q.alloc, head |-> q.head,
                 tail |-> q.tail, len |-> q.len]
         /\ q.items \in [0 .. q.alloc - 1 -> Cell]
         /\ q.alloc \in Nat /\ q.head \in Nat /\ q.tail \in Nat
         /\ q.len \in Nat /\ q.len <= q.alloc
BY DEF RingOK

(* The reallocation of mmc_queue_push (memcache_queue.c:32-42) keeps every *)
(* item of a full queue in its place in the order and leaves free cells.   *)
LEMMA GrowKeepsItems ==
  ASSUME NEW q, RingOK(q), q.len >= q.alloc
  PROVE  /\ RingOK(Grow(q))
         /\ Grow(q).len = q.len
         /\ Grow(q).len < Grow(q).alloc
         /\ \A i \in 0 .. q.len - 1 : Item(Grow(q), i) = Item(q, i)
<1> DEFINE g == Grow(q)
<1>1. /\ q.items \in [0 .. q.alloc - 1 -> Cell]
      /\ q.alloc \in Nat /\ q.head \in Nat /\ q.tail \in Nat
      /\ q.len \in Nat /\ q.len = q.alloc
  BY RingFields
<1>2. /\ g.alloc = q.alloc + 1 + Prealloc
      /\ g.alloc \in Nat
      /\ g.head = q.head /\ g.len = q.len
      /\ g.tail = IF q.head < q.tail THEN q.tail + 1 + Prealloc ELSE q.tail
  BY <1>1, PreallocAssumption DEF Grow
<1>3. g.items = [i \in 0 .. g.alloc - 1 |->
                   IF q.head < q.tail /\ i >= q.tail + (1 + Prealloc)
                     THEN q.items[i - (1 + Prealloc)]
                   ELSE IF i < q.alloc THEN q.items[i]
                   ELSE Junk]
  BY <1>1, PreallocAssumption DEF Grow
<1>g. g = [items |-> g.items, alloc |-> g.alloc, head |-> g.head,
             tail |-> g.tail, len |-> g.len]
  BY DEF Grow
<1> HIDE DEF g
<1>4. g.items \in [0 .. g.alloc - 1 -> Cell]
  <2>1. ASSUME NEW i \in 0 .. g.alloc - 1 PROVE g.items[i] \in Cell
    <3>1. CASE q.head < q.tail /\ i >= q.tail + (1 + Prealloc)
      <4>1. i - (1 + Prealloc) \in 0 .. q.alloc - 1
        BY <1>1, <1>2, <2>1, <3>1, PreallocAssumption
      <4> QED BY <1>1, <1>3, <2>1, <3>1, <4>1
    <3>2. CASE ~(q.head < q.tail /\ i >= q.tail + (1 + Prealloc)) /\ i < q.alloc
      <4>1. i \in 0 .. q.alloc - 1
        BY <1>1, <1>2, <2>1, <3>2, PreallocAssumption
      <4> QED BY <1>1, <1>3, <2>1, <3>2, <4>1
    <3>3. CASE ~(q.head < q.tail /\ i >= q.tail + (1 + Prealloc)) /\ ~(i < q.alloc)
      BY <1>3, <2>1, <3>3 DEF Cell
    <3> QED BY <3>1, <3>2, <3>3
  <2> QED BY <1>3, <2>1
<1>5. g \in [items : [0 .. g.alloc - 1 -> Cell],
             alloc : Nat, head : Nat, tail : Nat, len : 0 .. g.alloc]
  <2>2. g.tail \in Nat /\ g.len \in 0 .. g.alloc
    BY <1>1, <1>2, PreallocAssumption
  <2> QED BY <1>1, <1>2, <1>g, <1>4, <2>2
<1>6. /\ q.alloc = 0 => q.head = 0 /\ q.tail = 0
      /\ q.alloc > 0 => q.head < q.alloc /\ q.tail < q.alloc
      /\ q.head = IF q.len = 0 THEN q.tail ELSE Pos(q, q.len - 1)
  BY DEF RingOK
<1>7. ASSUME NEW i \in 0 .. q.len - 1
      PROVE  /\ Item(g, i) = Item(q, i)
             /\ Pos(g, i) \in 0 .. g.alloc - 1
  <2>1. Pos(q, i) \in 0 .. q.alloc - 1
    BY <1>1, <1>6 DEF Pos
  <2>2. Pos(g, i) \in 0 .. g.alloc - 1
    <3>1. CASE q.head < q.tail
      <4>1. g.tail = q.tail + 1 + Prealloc /\ g.tail < g.alloc
        BY <1>1, <1>2, <1>6, <3>1, PreallocAssumption
      <4>2. i < g.alloc /\ i \in Nat /\ g.alloc \in Nat /\ g.tail \in Nat
        BY <1>1, <1>2, <4>1, PreallocAssumption
      <4> QED BY <4>1, <4>2 DEF Pos
    <3>2. CASE ~(q.head < q.tail)
      <4>1. q.tail = 0
        BY <1>1, <1>6, <3>2 DEF Pos
      <4>2. g.tail = 0
        BY <1>2, <3>2, <4>1
      <4>3. i < g.alloc /\ i \in Nat /\ g.alloc \in Nat
        BY <1>1, <1>2, PreallocAssumption
      <4> QED BY <4>2, <4>3 DEF Pos
    <3> QED BY <3>1, <3>2
  <2>3. g.items[Pos(g, i)] = q.items[Pos(q, i)]
    <3>1. CASE q.head < q.tail /\ q.tail + i < q.alloc
      <4>1. g.tail = q.tail + 1 + Prealloc
        BY <1>2, <3>1
      <4>2. Pos(q, i) = q.tail + i
        BY <3>1 DEF Pos
      <4>3. g.tail + i < g.alloc
        BY <1>1, <1>2, <3>1, <4>1, PreallocAssumption
      <4>4. Pos(g, i) = g.tail + i
        BY <4>3 DEF Pos
      <4>5. /\ Pos(g, i) >= q.tail + (1 + Prealloc)
            /\ Pos(g, i) - (1 + Prealloc) = Pos(q, i)
        BY <1>1, <4>1, <4>2, <4>4, PreallocAssumption
      <4> QED BY <1>3, <2>2, <3>1, <4>5
    <3>2. CASE q.head < q.tail /\ ~(q.tail + i < q.alloc)
      <4>1. g.tail = q.tail + 1 + Prealloc
        BY <1>2, <3>2
      <4>2. Pos(q, i) = i - (q.alloc - q.tail)
        BY <3>2 DEF Pos
      <4>3. ~(g.tail + i < g.alloc)
        BY <1>1, <1>2, <3>2, <4>1, PreallocAssumption
      <4>4. Pos(g, i) = Pos(q, i)
        BY <1>1, <1>2, <4>1, <4>2, <4>3, PreallocAssumption DEF Pos
      <4>5. ~(Pos(g, i) >= q.tail + (1 + Prealloc)) /\ Pos(g, i) < q.alloc
        BY <1>1, <2>1, <4>2, <4>4, PreallocAssumption
      <4> QED BY <1>3, <2>2, <4>4, <4>5
    <3>3. CASE ~(q.head < q.tail)
      <4>1. q.tail = 0 /\ g.tail = 0
        BY <1>1, <1>2, <1>6, <3>3 DEF Pos
      <4>2. Pos(q, i) = i /\ Pos(g, i) = i
        BY <1>1, <1>2, <4>1, PreallocAssumption DEF Pos
      <4> QED BY <1>1, <1>3, <2>1, <2>2, <3>3, <4>2
    <3> QED BY <3>1, <3>2, <3>3
  <2> QED BY <2>2, <2>3 DEF Item
<1>8. \A i \in 0 .. q.len - 1 : Item(g, i) \in Ptr
  BY <1>7 DEF RingOK
<1>9. g.head = IF g.len = 0 THEN g.tail ELSE Pos(g, g.len - 1)
  BY <1>1, <1>2, <1>6, PreallocAssumption DEF Pos
<1>10. g.head < g.alloc /\ g.tail < g.alloc /\ g.alloc > 0 /\ g.len < g.alloc
  BY <1>1, <1>2, <1>6, PreallocAssumption
<1>11. RingOK(g)
  BY <1>2, <1>5, <1>8, <1>9, <1>10 DEF RingOK
<1> QED BY <1>2, <1>7, <1>10, <1>11 DEF g

(* mmc_queue_push's write (memcache_queue.c:44-53) into a buffer with room *)
(* appends: the older items are untouched and the new one is the last.     *)
LEMMA StoreAppends ==
  ASSUME NEW q, NEW p \in Ptr, RingOK(q), q.len < q.alloc
  PROVE  /\ RingOK(Store(q, p))
         /\ Store(q, p).len = q.len + 1
         /\ \A i \in 0 .. q.len - 1 : Item(Store(q, p), i) = Item(q, i)
         /\ Item(Store(q, p), q.len) = p
<1> DEFINE h == IF q.len > 0 THEN Advance(q, q.head) ELSE q.head
           s == Store(q, p)
<1>1. /\ q = [items |-> q.items, alloc |-> q.alloc, head |-> q.head,
              tail |-> q.tail, len |-> q.len]
      /\ q.items \in [0 .. q.alloc - 1 -> Cell]
      /\ q.alloc \in Nat /\ q.head \in Nat /\ q.tail \in Nat
      /\ q.len \in Nat
  BY RingFields
<1>2. /\ q.head < q.alloc /\ q.tail < q.alloc
      /\ q.head = IF q.len = 0 THEN q.tail ELSE Pos(q, q.len - 1)
  BY <1>1 DEF RingOK
<1>3. s = [items |-> [q.items EXCEPT ![h] = p], alloc |-> q.alloc,
           head |-> h, tail |-> q.tail, len |-> q.len + 1]
  BY <1>1 DEF Store
<1> HIDE DEF s
<1>4. h \in 0 .. q.alloc - 1
  BY <1>1, <1>2 DEF Advance
<1>5. h = Pos(s, q.len)
  BY <1>1, <1>2, <1>3 DEF Pos, Advance
<1>6. ASSUME NEW i \in 0 .. q.len - 1
      PROVE  Pos(s, i) = Pos(q, i) /\ Pos(q, i) \in 0 .. q.alloc - 1 /\ Pos(q, i) # h
  <2>1. Pos(s, i) = Pos(q, i) /\ Pos(q, i) \in 0 .. q.alloc - 1
    BY <1>1, <1>2, <1>3 DEF Pos
  <2>2. Pos(q, q.len) = h
    BY <1>3, <1>5 DEF Pos
  <2>3. Pos(q, i) # Pos(q, q.len)
    BY <1>1, <1>2 DEF Pos
  <2> QED BY <2>1, <2>2, <2>3
<1>7. \A i \in 0 .. q.len - 1 : Item(s, i) = Item(q, i)
  BY <1>1, <1>3, <1>6 DEF Item
<1>8. Item(s, q.len) = p
  BY <1>1, <1>3, <1>4, <1>5 DEF Item
<1>9. \A i \in 0 .. s.len - 1 : Item(s, i) \in Ptr
  <2>1. ASSUME NEW i \in 0 .. s.len - 1 PROVE Item(s, i) \in Ptr
    <3>1. i \in 0 .. q.len - 1 \/ i = q.len
      BY <1>1, <1>3
    <3> QED BY <1>7, <1>8, <3>1 DEF RingOK
  <2> QED BY <2>1
<1>10. s \in [items : [0 .. s.alloc - 1 -> Cell],
              alloc : Nat, head : Nat, tail : Nat, len : 0 .. s.alloc]
  <2>1. [q.items EXCEPT ![h] = p] \in [0 .. q.alloc - 1 -> Cell]
    BY <1>1, <1>4 DEF Cell
  <2> QED BY <1>1, <1>3, <1>4, <2>1
<1>11. RingOK(s)
  <2>1. s.head = IF s.len = 0 THEN s.tail ELSE Pos(s, s.len - 1)
    <3>1. s.len - 1 = q.len /\ s.len # 0 /\ s.head = h
      BY <1>1, <1>3
    <3> QED BY <1>5, <3>1
  <2>2. s.alloc > 0 /\ s.head < s.alloc /\ s.tail < s.alloc
    BY <1>1, <1>2, <1>3, <1>4
  <2>3. s.alloc # 0
    BY <1>1, <1>3, <2>2
  <2> QED BY <1>9, <1>10, <2>1, <2>2, <2>3 DEF RingOK
<1> QED BY <1>3, <1>7, <1>8, <1>11 DEF s

(* mmc_queue_push of a pointer that is not queued (memcache_queue.c:32-53).*)
LEMMA PushNewAppends ==
  ASSUME NEW q, NEW p \in Ptr, RingOK(q)
  PROVE  /\ RingOK(PushNew(q, p))
         /\ PushNew(q, p).len = q.len + 1
         /\ \A i \in 0 .. q.len - 1 : Item(PushNew(q, p), i) = Item(q, i)
         /\ Item(PushNew(q, p), q.len) = p
<1>1. CASE q.len >= q.alloc
  <2> DEFINE g == Grow(q)
  <2>1. /\ RingOK(g) /\ g.len = q.len /\ g.len < g.alloc
        /\ \A i \in 0 .. q.len - 1 : Item(g, i) = Item(q, i)
    BY <1>1, GrowKeepsItems
  <2>2. PushNew(q, p) = Store(g, p)
    BY <1>1 DEF PushNew
  <2> HIDE DEF g
  <2> QED BY <2>1, <2>2, StoreAppends
<1>2. CASE ~(q.len >= q.alloc)
  <2>1. PushNew(q, p) = Store(q, p)
    BY <1>2 DEF PushNew
  <2>2. q.len < q.alloc
    BY <1>2, RingFields
  <2> QED BY <2>1, <2>2, StoreAppends
<1> QED BY <1>1, <1>2

(* mmc_queue_pop of a queue that is not empty (memcache_queue.c:56-72).    *)
LEMMA PopTakesOldest ==
  ASSUME NEW q, RingOK(q), q.len > 0
  PROVE  /\ RingOK(PopFrom(q))
         /\ PopFrom(q).len = q.len - 1
         /\ \A i \in 0 .. q.len - 2 : Item(PopFrom(q), i) = Item(q, i + 1)
         /\ Popped(q) = Item(q, 0)
         /\ Popped(q) \in Ptr
<1> DEFINE t == IF q.len > 1 THEN Advance(q, q.tail) ELSE q.tail
           s == PopFrom(q)
<1>1. /\ q = [items |-> q.items, alloc |-> q.alloc, head |-> q.head,
              tail |-> q.tail, len |-> q.len]
      /\ q.items \in [0 .. q.alloc - 1 -> Cell]
      /\ q.alloc \in Nat /\ q.head \in Nat /\ q.tail \in Nat
      /\ q.len \in Nat /\ q.len <= q.alloc
  BY RingFields
<1>2. /\ q.head < q.alloc /\ q.tail < q.alloc
      /\ q.head = Pos(q, q.len - 1)
  BY <1>1 DEF RingOK
<1>3. s = [items |-> q.items, alloc |-> q.alloc, head |-> q.head,
           tail |-> t, len |-> q.len - 1]
  BY <1>1 DEF PopFrom
<1> HIDE DEF s
<1>4. t \in 0 .. q.alloc - 1
  BY <1>1, <1>2 DEF Advance
<1>5. ASSUME NEW i \in 0 .. q.len - 2
      PROVE  Pos(s, i) = Pos(q, i + 1)
  <2>1. q.len > 1
    BY <1>1
  <2>2. CASE q.tail + 1 >= q.alloc
    <3>1. s.tail = 0 /\ q.tail = q.alloc - 1 /\ s.alloc = q.alloc
      BY <1>1, <1>2, <1>3, <2>1, <2>2 DEF Advance
    <3>2. i < q.alloc /\ ~(q.tail + (i + 1) < q.alloc)
      BY <1>1, <2>2
    <3>3. Pos(s, i) = i
      BY <1>1, <3>1, <3>2 DEF Pos
    <3> QED BY <1>1, <3>1, <3>2, <3>3 DEF Pos
  <2>3. CASE ~(q.tail + 1 >= q.alloc)
    <3>1. s.tail = q.tail + 1 /\ s.alloc = q.alloc
      BY <1>1, <1>3, <2>1, <2>3 DEF Advance
    <3> QED BY <1>1, <3>1 DEF Pos
  <2> QED BY <2>2, <2>3
<1>6. \A i \in 0 .. q.len - 2 : Item(s, i) = Item(q, i + 1)
  BY <1>3, <1>5 DEF Item
<1>7. Popped(q) = Item(q, 0)
  <2>1. Pos(q, 0) = q.tail
    BY <1>1, <1>2 DEF Pos
  <2> QED BY <1>1, <2>1 DEF Popped, Item
<1>8. Popped(q) \in Ptr
  BY <1>1, <1>7 DEF RingOK
<1>9. \A i \in 0 .. s.len - 1 : Item(s, i) \in Ptr
  <2>1. ASSUME NEW i \in 0 .. s.len - 1 PROVE Item(s, i) \in Ptr
    <3>1. i \in 0 .. q.len - 2 /\ i + 1 \in 0 .. q.len - 1
      BY <1>1, <1>3
    <3> QED BY <1>6, <3>1 DEF RingOK
  <2> QED BY <2>1
<1>10. s.head = IF s.len = 0 THEN s.tail ELSE Pos(s, s.len - 1)
  <2>1. CASE q.len = 1
    <3>1. Pos(q, 0) = q.tail /\ t = q.tail
      BY <1>1, <1>2, <2>1 DEF Pos
    <3> QED BY <1>2, <1>3, <2>1, <3>1
  <2>2. CASE q.len # 1
    <3>1. q.len - 2 \in 0 .. q.len - 2 /\ s.len # 0
      BY <1>1, <1>3, <2>2
    <3>2. Pos(s, q.len - 2) = Pos(q, (q.len - 2) + 1)
      BY <1>5, <3>1
    <3>3. (q.len - 2) + 1 = q.len - 1 /\ s.len - 1 = q.len - 2 /\ s.head = q.head
      BY <1>1, <1>3
    <3> QED BY <1>2, <3>1, <3>2, <3>3
  <2> QED BY <2>1, <2>2
<1>11. s \in [items : [0 .. s.alloc - 1 -> Cell],
              alloc : Nat, head : Nat, tail : Nat, len : 0 .. s.alloc]
  <2>1. t \in Nat /\ q.len - 1 \in 0 .. q.alloc
    BY <1>1, <1>4
  <2> HIDE DEF t
  <2> QED BY <1>1, <1>3, <2>1
<1>12. s.alloc > 0 /\ s.alloc # 0 /\ s.head < s.alloc /\ s.tail < s.alloc
  BY <1>1, <1>2, <1>3, <1>4
<1>13. RingOK(s)
  BY <1>9, <1>10, <1>11, <1>12 DEF RingOK
<1> QED BY <1>3, <1>6, <1>7, <1>8, <1>13 DEF s

(* The abstract contents are a sequence of pointers.                       *)
LEMMA ContentsIsSeq ==
  ASSUME NEW q, RingOK(q)
  PROVE  /\ Contents(q) \in Seq(Ptr)
         /\ Len(Contents(q)) = q.len
         /\ \A k \in 1 .. q.len : Contents(q)[k] = Item(q, k - 1)
<1>1. q.len \in Nat
  BY RingFields
<1>2. \A k \in 1 .. q.len : Item(q, k - 1) \in Ptr
  <2>1. ASSUME NEW k \in 1 .. q.len PROVE k - 1 \in 0 .. q.len - 1
    BY <1>1
  <2> QED BY <2>1 DEF RingOK
<1>3. Contents(q) \in [1 .. q.len -> Ptr]
  BY <1>2 DEF Contents
<1>4. DOMAIN Contents(q) = 1 .. q.len
  BY DEF Contents
<1>5. \A k \in 1 .. q.len : Contents(q)[k] = Item(q, k - 1)
  BY DEF Contents
<1>6. Contents(q) \in Seq(Ptr)
  BY <1>1, <1>3
<1>7. Len(Contents(q)) = q.len
  BY <1>1, <1>4, <1>6, LenProperties
<1> QED BY <1>5, <1>6, <1>7

LEMMA ReleasedOK ==
  RingOK(Released) /\ Released.len = 0
<1>1. [i \in 0 .. -1 |-> Junk] \in [0 .. 0 - 1 -> Cell]
  BY DEF Cell
<1> QED BY <1>1 DEF RingOK, Released

LEMMA ResetOK ==
  ASSUME NEW q, RingOK(q)
  PROVE  RingOK(Reset(q)) /\ Reset(q).len = 0
<1>1. /\ q.items \in [0 .. q.alloc - 1 -> Cell] /\ q.alloc \in Nat
  BY RingFields
<1>2. Reset(q) = [items |-> q.items, alloc |-> q.alloc,
                  head |-> 0, tail |-> 0, len |-> 0]
  BY DEF Reset
<1> HIDE DEF Reset
<1>3. Reset(q) \in [items : [0 .. q.alloc - 1 -> Cell],
                    alloc : Nat, head : Nat, tail : Nat, len : 0 .. q.alloc]
  BY <1>1, <1>2
<1> QED BY <1>1, <1>2, <1>3 DEF RingOK

(* Pushing on a queue where the pointer is absent, or present.             *)
LEMMA PushOnAppends ==
  ASSUME NEW q, NEW p \in Ptr, RingOK(q), Distinct(q)
  PROVE  /\ RingOK(PushOn(q, p))
         /\ Distinct(PushOn(q, p))
         /\ Contains(q, p) => PushOn(q, p) = q
         /\ ~Contains(q, p) =>
               /\ PushOn(q, p).len = q.len + 1
               /\ \A i \in 0 .. q.len - 1 : Item(PushOn(q, p), i) = Item(q, i)
               /\ Item(PushOn(q, p), q.len) = p
<1>1. CASE Contains(q, p)
  BY <1>1 DEF PushOn
<1>2. CASE ~Contains(q, p)
  <2> DEFINE n == PushNew(q, p)
  <2>1. PushOn(q, p) = n
    BY <1>2 DEF PushOn
  <2>2. /\ RingOK(n) /\ n.len = q.len + 1 /\ q.len \in Nat
        /\ \A i \in 0 .. q.len - 1 : Item(n, i) = Item(q, i)
        /\ Item(n, q.len) = p
    BY PushNewAppends, RingFields
  <2> HIDE DEF n
  <2>3. ASSUME NEW i \in 0 .. n.len - 1, NEW j \in 0 .. n.len - 1,
               Item(n, i) = Item(n, j)
        PROVE  i = j
    <3>1. /\ i \in 0 .. q.len - 1 \/ i = q.len
          /\ j \in 0 .. q.len - 1 \/ j = q.len
      BY <2>2
    <3> QED BY <1>2, <2>2, <2>3, <3>1 DEF Contains, Distinct
  <2>4. Distinct(n)
    BY <2>3 DEF Distinct
  <2> QED BY <1>2, <2>1, <2>2, <2>4
<1> QED BY <1>1, <1>2

----------------------------------------------------------------------------

(* NoDuplicates and RemoveTakesOut with what they rest on: every item the  *)
(* removal loop has pushed back differs from the one being removed and     *)
(* from those it has still to move.                                        *)
IInv == /\ RingInv
        /\ NoDuplicates
        /\ ~Idle => removing \in Ptr /\ ~Contains(queue, removing)

LEMMA InitIInv == Init => IInv
<1> SUFFICES ASSUME Init PROVE IInv
  OBVIOUS
<1>1. RingOK(Released) /\ Released.len = 0
  BY ReleasedOK
<1> HIDE DEF Released
<1> QED BY <1>1, PtrAssumption DEF Init, IInv, RingInv, NoDuplicates, Distinct, Contains, Idle

(* A queue without items has no duplicates and contains nothing.           *)
LEMMA EmptyDistinct ==
  ASSUME NEW q, q.len = 0
  PROVE  Distinct(q) /\ \A p : ~Contains(q, p)
BY DEF Distinct, Contains

LEMMA PopDistinct ==
  ASSUME NEW q, RingOK(q), Distinct(q), q.len > 0
  PROVE  /\ Distinct(PopFrom(q))
         /\ ~Contains(PopFrom(q), Popped(q))
         /\ Contains(q, Popped(q))
         /\ \A p : Contains(PopFrom(q), p) => Contains(q, p)
<1> DEFINE s == PopFrom(q)
<1>1. /\ s.len = q.len - 1 /\ q.len \in Nat
      /\ \A i \in 0 .. q.len - 2 : Item(s, i) = Item(q, i + 1)
      /\ Popped(q) = Item(q, 0)
  BY PopTakesOldest, RingFields
<1> HIDE DEF s
<1>2. ASSUME NEW i \in 0 .. s.len - 1
      PROVE  /\ Item(s, i) = Item(q, i + 1)
             /\ i + 1 \in 0 .. q.len - 1
  BY <1>1
<1>3. Distinct(s)
  BY <1>1, <1>2 DEF Distinct
<1>4. ~Contains(s, Popped(q))
  BY <1>1, <1>2 DEF Distinct, Contains
<1>5. \A p : Contains(s, p) => Contains(q, p)
  BY <1>2 DEF Contains
<1>6. Contains(q, Popped(q))
  BY <1>1 DEF Contains
<1> QED BY <1>3, <1>4, <1>5, <1>6 DEF s

LEMMA NextIInv == IInv /\ [Next]_vars => IInv'
<1> SUFFICES ASSUME IInv, [Next]_vars PROVE IInv'
  OBVIOUS
<1> USE DEF IInv
<1>0. /\ RingOK(queue) /\ RingOK(original)
      /\ Distinct(queue) /\ Distinct(original)
      /\ removing \in Ptr \cup {NoPtr} /\ ret \in Ptr \cup {NoPtr}
      /\ \A i \in 0 .. queue.len - 1 : ~Contains(original, Item(queue, i))
  BY DEF RingInv, NoDuplicates
<1>r. RingOK(Released) /\ Released.len = 0
  BY ReleasedOK
<1> HIDE DEF Released
<1>i. ASSUME Idle PROVE original = Released /\ original.len = 0
  BY <1>i, <1>r DEF RingInv
<1>1. ASSUME NEW p \in Ptr, Push(p) PROVE IInv'
  <2>1. /\ Idle /\ queue' = PushOn(queue, p)
        /\ original' = original /\ removing' = removing /\ ret' = ret
    BY <1>1 DEF Push
  <2>2. RingOK(queue') /\ Distinct(queue')
    BY <1>0, <2>1, PushOnAppends
  <2>3. original' = Released /\ original'.len = 0 /\ Idle'
    BY <1>i, <2>1 DEF Idle
  <2>4. RingInv'
    BY <1>0, <1>r, <2>1, <2>2, <2>3 DEF RingInv
  <2>5. NoDuplicates'
    BY <1>0, <2>1, <2>2, <2>3, EmptyDistinct DEF NoDuplicates
  <2> QED BY <2>3, <2>4, <2>5
<1>2. ASSUME Pop PROVE IInv'
  <2>1. /\ Idle /\ queue' = PopFrom(queue) /\ ret' = Popped(queue)
        /\ original' = original /\ removing' = removing
    BY <1>2 DEF Pop
  <2>2. RingOK(queue') /\ Distinct(queue') /\ ret' \in Ptr \cup {NoPtr}
    <3>1. CASE queue.len = 0
      BY <1>0, <2>1, <3>1 DEF PopFrom, Popped
    <3>2. CASE queue.len # 0
      <4>1. queue.len > 0
        BY <1>0, <3>2, RingFields
      <4> QED BY <1>0, <2>1, <4>1, PopTakesOldest, PopDistinct
    <3> QED BY <3>1, <3>2
  <2>3. original' = Released /\ original'.len = 0 /\ Idle'
    BY <1>i, <2>1 DEF Idle
  <2>4. RingInv'
    BY <1>0, <1>r, <2>1, <2>2, <2>3 DEF RingInv
  <2>5. NoDuplicates'
    BY <1>0, <2>1, <2>2, <2>3, EmptyDistinct DEF NoDuplicates
  <2> QED BY <2>3, <2>4, <2>5
<1>3. ASSUME Clear PROVE IInv'
  <2>1. /\ Idle /\ queue' \in {Released, Reset(queue)}
        /\ original' = original /\ removing' = removing /\ ret' = ret
    BY <1>3 DEF Clear
  <2>2. RingOK(queue') /\ queue'.len = 0
    BY <1>0, <1>r, <2>1, ResetOK
  <2>3. original' = Released /\ original'.len = 0 /\ Idle'
    BY <1>i, <2>1 DEF Idle
  <2>4. RingInv'
    BY <1>0, <1>r, <2>1, <2>2, <2>3 DEF RingInv
  <2>5. NoDuplicates'
    BY <1>0, <2>1, <2>2, <2>3, EmptyDistinct DEF NoDuplicates
  <2> QED BY <2>3, <2>4, <2>5
<1>4. ASSUME NEW p \in Ptr, BeginRemove(p) PROVE IInv'
  <2>1. /\ original' = queue /\ queue' = Released
        /\ removing' = p /\ ret' = ret
    BY <1>4 DEF BeginRemove
  <2>2. ~Idle' /\ removing' \in Ptr
    BY <2>1, PtrAssumption DEF Idle
  <2>3. RingInv'
    BY <1>0, <1>r, <2>1, <2>2 DEF RingInv
  <2>4. NoDuplicates' /\ ~Contains(queue', removing')
    BY <1>0, <1>r, <2>1, EmptyDistinct DEF NoDuplicates
  <2> QED BY <2>2, <2>3, <2>4
<1>5. ASSUME RemoveItem PROVE IInv'
  <2> DEFINE x == Popped(original)
  <2>1. /\ ~Idle /\ original.len > 0
        /\ original' = PopFrom(original)
        /\ queue' = IF x = removing THEN queue ELSE PushOn(queue, x)
        /\ removing' = removing /\ ret' = ret
    BY <1>5 DEF RemoveItem
  <2>2. ~Idle' /\ removing' \in Ptr
    BY <2>1 DEF Idle
  <2>3. /\ RingOK(original') /\ Distinct(original') /\ x \in Ptr
        /\ ~Contains(original', x) /\ Contains(original, x)
        /\ \A p : Contains(original', p) => Contains(original, p)
    BY <1>0, <2>1, PopTakesOldest, PopDistinct
  <2>4. ~Contains(queue, x)
    BY <1>0, <2>3 DEF Contains
  <2>5. /\ RingOK(queue') /\ Distinct(queue')
        /\ \A i \in 0 .. queue'.len - 1 :
             /\ ~Contains(original', Item(queue', i))
             /\ Item(queue', i) # removing
    <3>1. CASE x = removing
      BY <1>0, <2>1, <2>3, <3>1 DEF Contains
    <3>2. CASE x # removing
      <4>1. queue' = PushOn(queue, x)
        BY <2>1, <3>2
      <4>2. RingOK(queue') /\ Distinct(queue') /\ queue'.len = queue.len + 1
        BY <1>0, <2>3, <2>4, <4>1, PushOnAppends
      <4>3. \A i \in 0 .. queue.len - 1 : Item(queue', i) = Item(queue, i)
        BY <1>0, <2>3, <2>4, <4>1, PushOnAppends
      <4>4. Item(queue', queue.len) = x
        BY <1>0, <2>3, <2>4, <4>1, PushOnAppends
      <4>5. ASSUME NEW i \in 0 .. queue'.len - 1
            PROVE  /\ ~Contains(original', Item(queue', i))
                   /\ Item(queue', i) # removing
        <5>1. queue.len \in Nat
          BY <1>0, RingFields
        <5>2. CASE i = queue.len
          BY <2>3, <3>2, <4>4, <5>2
        <5>3. CASE i # queue.len
          <6>1. i \in 0 .. queue.len - 1
            BY <4>2, <5>1, <5>3
          <6>2. Item(queue', i) = Item(queue, i) /\ Item(queue, i) # removing
            BY <2>1, <4>3, <6>1 DEF Contains
          <6> QED BY <1>0, <2>3, <6>1, <6>2
        <5> QED BY <5>2, <5>3
      <4> QED BY <4>2, <4>5
    <3> QED BY <3>1, <3>2
  <2>6. RingInv'
    BY <1>0, <2>1, <2>2, <2>3, <2>5 DEF RingInv
  <2>7. NoDuplicates'
    BY <2>3, <2>5 DEF NoDuplicates
  <2>8. ~Contains(queue', removing')
    BY <2>1, <2>5 DEF Contains
  <2> QED BY <2>2, <2>6, <2>7, <2>8
<1>6. ASSUME EndRemove PROVE IInv'
  <2>1. /\ original' = Released /\ removing' = NoPtr
        /\ queue' = queue /\ ret' = ret /\ Idle'
    BY <1>6 DEF EndRemove, Idle
  <2>2. RingInv'
    BY <1>0, <1>r, <2>1 DEF RingInv
  <2>3. NoDuplicates'
    BY <1>0, <1>r, <2>1, EmptyDistinct DEF NoDuplicates
  <2> QED BY <2>1, <2>2, <2>3
<1>7. ASSUME UNCHANGED vars PROVE IInv'
  BY <1>7 DEF vars, RingInv, NoDuplicates, Idle
<1> QED BY <1>1, <1>2, <1>3, <1>4, <1>5, <1>6, <1>7 DEF Next

(* The struct of every queue stays consistent: indices inside the buffer,  *)
(* head on the last item, no item read from a cell nothing was stored in.  *)
THEOREM RingInvariant == Spec => []RingInv
<1>1. IInv => RingInv
  BY DEF IInv
<1> QED BY <1>1, InitIInv, NextIInv, PTL DEF Spec

(* A pointer is never queued twice, in the middle of a removal either.     *)
THEOREM NoDuplicatesInvariant == Spec => []NoDuplicates
<1>1. IInv => NoDuplicates
  BY DEF IInv
<1> QED BY <1>1, InitIInv, NextIInv, PTL DEF Spec

(* mmc_queue_remove leaves the queue without the pointer.                  *)
THEOREM RemoveTakesOutInvariant == Spec => []RemoveTakesOut
<1>1. IInv => RemoveTakesOut
  BY DEF IInv, RemoveTakesOut
<1> QED BY <1>1, InitIInv, NextIInv, PTL DEF Spec

----------------------------------------------------------------------------

(* The abstract queue MmcFifo sees.                                        *)
Abs == Contents(queue) \o Contents(original)

(* Without a removal in progress it is the ring's own contents.            *)
LEMMA IdleAbs ==
  ASSUME NEW q, RingOK(q)
  PROVE  Contents(q) \o Contents(Released) = Contents(q)
<1>1. Contents(Released) = << >>
  <2>1. RingOK(Released) /\ Released.len = 0
    BY ReleasedOK
  <2> HIDE DEF Released
  <2>2. Contents(Released) \in Seq(Ptr) /\ Len(Contents(Released)) = 0
    BY <2>1, ContentsIsSeq
  <2> QED BY <2>2, EmptySeq
<1>2. Contents(q) \in Seq(Ptr)
  BY ContentsIsSeq
<1> QED BY <1>1, <1>2, ConcatEmptySeq

(* Contains is membership in the contents.                                 *)
LEMMA ContainsIsElement ==
  ASSUME NEW q, RingOK(q), NEW p
  PROVE  Contains(q, p) <=> p \in Fifo!ToSet(Contents(q))
<1>1. /\ Len(Contents(q)) = q.len /\ q.len \in Nat
      /\ \A k \in 1 .. q.len : Contents(q)[k] = Item(q, k - 1)
  BY ContentsIsSeq, RingFields
<1>2. ASSUME NEW i \in 0 .. q.len - 1
      PROVE  i + 1 \in 1 .. q.len /\ Contents(q)[i + 1] = Item(q, i)
  BY <1>1
<1>3. ASSUME NEW k \in 1 .. q.len
      PROVE  k - 1 \in 0 .. q.len - 1 /\ Contents(q)[k] = Item(q, k - 1)
  BY <1>1
<1>4. ASSUME Contains(q, p) PROVE p \in Fifo!ToSet(Contents(q))
  <2>1. PICK i \in 0 .. q.len - 1 : Item(q, i) = p
    BY <1>4 DEF Contains
  <2> QED BY <1>1, <1>2, <2>1 DEF Fifo!ToSet
<1>5. ASSUME p \in Fifo!ToSet(Contents(q)) PROVE Contains(q, p)
  <2>1. PICK k \in 1 .. q.len : Contents(q)[k] = p
    BY <1>1, <1>5 DEF Fifo!ToSet
  <2> QED BY <1>3, <2>1 DEF Contains
<1> QED BY <1>4, <1>5

(* Pushing appends to the contents, popping takes their head.              *)
LEMMA ContentsOfPush ==
  ASSUME NEW q, NEW p \in Ptr, RingOK(q), Distinct(q), ~Contains(q, p)
  PROVE  Contents(PushOn(q, p)) = Append(Contents(q), p)
<1> DEFINE n == PushOn(q, p)
<1>1. /\ RingOK(n) /\ n.len = q.len + 1 /\ q.len \in Nat
      /\ \A i \in 0 .. q.len - 1 : Item(n, i) = Item(q, i)
      /\ Item(n, q.len) = p
  BY PushOnAppends, RingFields
<1> HIDE DEF n
<1>2. /\ Contents(q) \in Seq(Ptr) /\ Len(Contents(q)) = q.len
      /\ \A k \in 1 .. q.len : Contents(q)[k] = Item(q, k - 1)
  BY ContentsIsSeq
<1>3. /\ Contents(n) \in Seq(Ptr) /\ Len(Contents(n)) = q.len + 1
      /\ \A k \in 1 .. q.len + 1 : Contents(n)[k] = Item(n, k - 1)
  BY <1>1, ContentsIsSeq
<1>4. /\ Append(Contents(q), p) \in Seq(Ptr)
      /\ Len(Append(Contents(q), p)) = q.len + 1
      /\ \A k \in 1 .. q.len : Append(Contents(q), p)[k] = Contents(q)[k]
      /\ Append(Contents(q), p)[q.len + 1] = p
  BY <1>1, <1>2, AppendProperties
<1>5. ASSUME NEW k \in 1 .. q.len + 1
      PROVE  Contents(n)[k] = Append(Contents(q), p)[k]
  <2>1. CASE k = q.len + 1
    BY <1>1, <1>3, <1>4, <2>1
  <2>2. CASE k # q.len + 1
    <3>1. k \in 1 .. q.len /\ k - 1 \in 0 .. q.len - 1
      BY <1>1, <2>2
    <3> QED BY <1>1, <1>2, <1>3, <1>4, <3>1
  <2> QED BY <2>1, <2>2
<1> QED BY <1>3, <1>4, <1>5, SeqEqual DEF n

LEMMA ContentsOfPop ==
  ASSUME NEW q, RingOK(q), q.len > 0
  PROVE  /\ Contents(q) # << >>
         /\ Popped(q) = Head(Contents(q))
         /\ Contents(PopFrom(q)) = Tail(Contents(q))
<1> DEFINE n == PopFrom(q)
<1>1. /\ RingOK(n) /\ n.len = q.len - 1 /\ q.len \in Nat
      /\ \A i \in 0 .. q.len - 2 : Item(n, i) = Item(q, i + 1)
      /\ Popped(q) = Item(q, 0)
  BY PopTakesOldest, RingFields
<1> HIDE DEF n
<1>2. /\ Contents(q) \in Seq(Ptr) /\ Len(Contents(q)) = q.len
      /\ \A k \in 1 .. q.len : Contents(q)[k] = Item(q, k - 1)
  BY ContentsIsSeq
<1>3. /\ Contents(n) \in Seq(Ptr) /\ Len(Contents(n)) = q.len - 1
      /\ \A k \in 1 .. q.len - 1 : Contents(n)[k] = Item(n, k - 1)
  BY <1>1, ContentsIsSeq
<1>4. Contents(q) # << >>
  BY <1>2, EmptySeq
<1>5. /\ Tail(Contents(q)) \in Seq(Ptr)
      /\ Len(Tail(Contents(q))) = q.len - 1
      /\ \A k \in 1 .. q.len - 1 : Tail(Contents(q))[k] = Contents(q)[k + 1]
  BY <1>2, <1>4, HeadTailProperties
<1>6. ASSUME NEW k \in 1 .. q.len - 1
      PROVE  Contents(n)[k] = Tail(Contents(q))[k]
  <2>1. k - 1 \in 0 .. q.len - 2 /\ k + 1 \in 1 .. q.len /\ (k - 1) + 1 = (k + 1) - 1
    BY <1>1
  <2> QED BY <1>1, <1>2, <1>3, <1>5, <2>1
<1>7. Contents(n) = Tail(Contents(q))
  BY <1>3, <1>5, <1>6, SeqEqual
<1>8. Popped(q) = Head(Contents(q))
  <2>1. 1 \in 1 .. q.len /\ 1 - 1 = 0
    BY <1>1
  <2> QED BY <1>1, <1>2, <2>1, <1>4
<1> QED BY <1>4, <1>7, <1>8 DEF n

(* Moving the head of t to the end of s does not change s \o t.            *)
LEMMA MoveHead ==
  ASSUME NEW s \in Seq(Ptr), NEW t \in Seq(Ptr), t # << >>
  PROVE  Append(s, Head(t)) \o Tail(t) = s \o t
<1>1. /\ Head(t) \in Ptr /\ Tail(t) \in Seq(Ptr) /\ Len(Tail(t)) = Len(t) - 1
      /\ Len(t) \in Nat \ {0} /\ Head(t) = t[1]
      /\ \A k \in 1 .. Len(t) - 1 : Tail(t)[k] = t[k + 1]
  BY HeadTailProperties, EmptySeq
<1> DEFINE a == Append(s, Head(t))
           l == a \o Tail(t)
           r == s \o t
<1>2. /\ a \in Seq(Ptr) /\ Len(a) = Len(s) + 1 /\ Len(s) \in Nat
      /\ \A k \in 1 .. Len(s) : a[k] = s[k]
      /\ a[Len(s) + 1] = t[1]
  BY <1>1, AppendProperties, LenProperties
<1> HIDE DEF a
<1>3. /\ l \in Seq(Ptr) /\ Len(l) = Len(a) + Len(Tail(t))
      /\ \A k \in 1 .. Len(a) + Len(Tail(t)) :
           l[k] = IF k <= Len(a) THEN a[k] ELSE Tail(t)[k - Len(a)]
  BY <1>1, <1>2, ConcatProperties
<1>4. /\ r \in Seq(Ptr) /\ Len(r) = Len(s) + Len(t)
      /\ \A k \in 1 .. Len(s) + Len(t) :
           r[k] = IF k <= Len(s) THEN s[k] ELSE t[k - Len(s)]
  BY ConcatProperties
<1> HIDE DEF l, r
<1>5. Len(l) = Len(r) /\ Len(r) = Len(s) + Len(t)
  BY <1>1, <1>2, <1>3, <1>4
<1>6. ASSUME NEW k \in 1 .. Len(l) PROVE l[k] = r[k]
  <2>1. CASE k <= Len(s)
    <3>1. k \in 1 .. Len(s) /\ k <= Len(a)
      BY <1>2, <1>5, <2>1
    <3>2. l[k] = a[k] /\ r[k] = s[k]
      BY <1>3, <1>4, <1>5, <2>1, <3>1
    <3> QED BY <1>2, <3>1, <3>2
  <2>2. CASE k = Len(s) + 1
    <3>1. k <= Len(a) /\ ~(k <= Len(s)) /\ k - Len(s) = 1
      BY <1>2, <2>2
    <3> QED BY <1>1, <1>2, <1>3, <1>4, <1>5, <2>2, <3>1
  <2>3. CASE k > Len(s) + 1
    <3>1. /\ k - Len(a) \in 1 .. Len(t) - 1
          /\ (k - Len(a)) + 1 = k - Len(s)
          /\ ~(k <= Len(a)) /\ ~(k <= Len(s))
      BY <1>1, <1>2, <1>3, <2>3
    <3> QED BY <1>1, <1>3, <1>4, <1>5, <3>1
  <2> QED BY <1>1, <1>2, <1>5, <2>1, <2>2, <2>3
<1> QED BY <1>3, <1>4, <1>5, <1>6, SeqEqual DEF l, r

(* mmc_queue_remove on the abstract queue: an element that occurs once     *)
(* goes, what is on either side of it stays.                               *)
LEMMA WithoutSplits ==
  ASSUME NEW r \in Seq(Ptr), NEW n \in 1 .. Len(r),
         \A i \in 1 .. Len(r) : r[i] = r[n] => i = n
  PROVE  Fifo!Without(r, r[n]) = SubSeq(r, 1, n - 1) \o SubSeq(r, n + 1, Len(r))
<1> DEFINE I == {i \in 1 .. Len(r) : r[i] = r[n]}
<1>1. I = {n}
  OBVIOUS
<1>2. Fifo!SelectInSeq(r, LAMBDA v : v = r[n]) = n
  <2>1. Fifo!Min({n}) = n
    BY DEF Fifo!Min
  <2> QED BY <1>1, <2>1 DEF Fifo!SelectInSeq
<1>3. \E i \in 1 .. Len(r) : r[i] = r[n]
  OBVIOUS
<1> QED BY <1>2, <1>3 DEF Fifo!Without, Fifo!RemoveFirst, Fifo!RemoveAt

(* Dropping the head of t, which is nowhere else, takes it out of s \o t.  *)
LEMMA DropHead ==
  ASSUME NEW s \in Seq(Ptr), NEW t \in Seq(Ptr), t # << >>,
         \A i \in 1 .. Len(s) : s[i] # Head(t),
         \A i \in 2 .. Len(t) : t[i] # Head(t)
  PROVE  s \o Tail(t) = Fifo!Without(s \o t, Head(t))
<1> DEFINE r == s \o t
           n == Len(s) + 1
           u == SubSeq(r, 1, n - 1)
           v == SubSeq(r, n + 1, Len(r))
<1>1. /\ Tail(t) \in Seq(Ptr) /\ Len(Tail(t)) = Len(t) - 1
      /\ Len(t) \in Nat \ {0} /\ Head(t) = t[1] /\ Len(s) \in Nat
      /\ \A k \in 1 .. Len(t) - 1 : Tail(t)[k] = t[k + 1]
  BY HeadTailProperties, EmptySeq, LenProperties
<1>2. /\ r \in Seq(Ptr) /\ Len(r) = Len(s) + Len(t)
      /\ \A k \in 1 .. Len(s) + Len(t) :
           r[k] = IF k <= Len(s) THEN s[k] ELSE t[k - Len(s)]
  BY ConcatProperties
<1> HIDE DEF r
<1>3. n \in 1 .. Len(r) /\ r[n] = Head(t)
  <2>1. n \in 1 .. Len(s) + Len(t) /\ ~(n <= Len(s)) /\ n - Len(s) = 1
    BY <1>1
  <2> QED BY <1>1, <1>2, <2>1
<1>4. ASSUME NEW i \in 1 .. Len(r), i # n PROVE r[i] # Head(t)
  <2>1. CASE i <= Len(s)
    <3>1. i \in 1 .. Len(s) /\ r[i] = s[i]
      BY <1>1, <1>2, <2>1
    <3> QED BY <3>1
  <2>2. CASE ~(i <= Len(s))
    <3>1. i - Len(s) \in 2 .. Len(t) /\ r[i] = t[i - Len(s)]
      BY <1>1, <1>2, <1>4, <2>2
    <3> QED BY <3>1
  <2> QED BY <2>1, <2>2
<1>5. Fifo!Without(r, Head(t)) = u \o v
  <2>1. \A i \in 1 .. Len(r) : r[i] = r[n] => i = n
    BY <1>3, <1>4
  <2> QED BY <1>2, <1>3, <2>1, WithoutSplits
<1>6. u = s
  <2>1. n - 1 = Len(s) /\ \A k \in 1 .. Len(s) : r[k] = s[k] /\ s[k] \in Ptr
    BY <1>1, <1>2
  <2>2. /\ u \in Seq(Ptr) /\ Len(u) = IF 1 <= Len(s) THEN Len(s) - 1 + 1 ELSE 0
        /\ \A k \in 1 .. Len(s) - 1 + 1 : u[k] = r[1 + k - 1]
    BY <1>1, <2>1, SubSeqProperties
  <2>3. Len(u) = Len(s)
    BY <1>1, <2>2
  <2>4. ASSUME NEW k \in 1 .. Len(u) PROVE u[k] = s[k]
    <3>1. k \in 1 .. Len(s) /\ k \in 1 .. Len(s) - 1 + 1 /\ 1 + k - 1 = k
      BY <1>1, <2>3
    <3> QED BY <2>1, <2>2, <3>1
  <2> QED BY <2>2, <2>3, <2>4, SeqEqual
<1>7. v = Tail(t)
  <2> DEFINE m == n + 1
             l == Len(s) + Len(t)
  <2>1. /\ m \in Int /\ l \in Int /\ l - m + 1 = Len(t) - 1
        /\ Len(t) - 1 \in Nat /\ (m <= l <=> Len(t) - 1 > 0)
    BY <1>1
  <2>2. ASSUME NEW k \in m .. l PROVE r[k] \in Ptr
    BY <1>1, <1>2
  <2>3. ASSUME NEW k \in 1 .. Len(t) - 1 PROVE r[m + k - 1] = t[k + 1]
    <3>1. /\ m + k - 1 \in 1 .. Len(s) + Len(t) /\ ~(m + k - 1 <= Len(s))
          /\ (m + k - 1) - Len(s) = k + 1
      BY <1>1
    <3> QED BY <1>2, <3>1
  <2>4. v = SubSeq(r, m, l)
    BY <1>2
  <2> HIDE DEF m, l, v
  <2>5. /\ v \in Seq(Ptr) /\ Len(v) = IF m <= l THEN l - m + 1 ELSE 0
        /\ \A k \in 1 .. l - m + 1 : v[k] = r[m + k - 1]
    BY <2>1, <2>2, <2>4, SubSeqProperties
  <2>6. Len(v) = Len(t) - 1
    <3>1. CASE m <= l
      BY <2>1, <2>5, <3>1
    <3>2. CASE ~(m <= l)
      <4>1. Len(v) = 0
        BY <2>5, <3>2
      <4>2. Len(t) - 1 = 0
        BY <1>1, <2>1, <3>2
      <4> QED BY <4>1, <4>2
    <3> QED BY <3>1, <3>2
  <2>7. ASSUME NEW k \in 1 .. Len(v) PROVE v[k] = Tail(t)[k]
    BY <1>1, <2>1, <2>3, <2>5, <2>6
  <2> QED BY <1>1, <2>5, <2>6, <2>7, SeqEqual
<1> QED BY <1>5, <1>6, <1>7 DEF r

(* Every step of the ring buffer is a step of the abstract queue or leaves *)
(* it unchanged.                                                           *)
LEMMA StepRefines ==
  ASSUME IInv, [Next]_vars
  PROVE  [Fifo!ANext]_(Fifo!avars)
<1>0. /\ RingOK(queue) /\ RingOK(original)
      /\ Distinct(queue) /\ Distinct(original)
      /\ queue.len \in Nat /\ original.len \in Nat
      /\ \A i \in 0 .. queue.len - 1 : ~Contains(original, Item(queue, i))
      /\ Idle => original = Released
      /\ ~Idle => removing \in Ptr
  BY RingFields DEF IInv, RingInv, NoDuplicates
<1>s. Contents(queue) \in Seq(Ptr) /\ Contents(original) \in Seq(Ptr)
  BY <1>0, ContentsIsSeq
<1>v. Fifo!avars = <<Abs, ret>>
  BY DEF Fifo!avars, Abs
<1>1. ASSUME NEW p \in Ptr, Push(p) PROVE Fifo!APush(p)
  <2>1. /\ original = Released /\ original' = Released /\ ret' = ret
        /\ queue' = PushOn(queue, p)
    BY <1>0, <1>1 DEF Push
  <2>2. RingOK(queue')
    BY <1>0, <2>1, PushOnAppends
  <2>3. Abs = Contents(queue) /\ Abs' = Contents(queue')
    BY <1>0, <2>1, <2>2, IdleAbs DEF Abs
  <2>4. Contains(queue, p) <=> p \in Fifo!ToSet(Contents(queue))
    BY <1>0, ContainsIsElement
  <2>5. Contains(queue, p) => queue' = queue
    BY <1>0, <2>1, PushOnAppends
  <2>6. ~Contains(queue, p) => Contents(queue') = Append(Contents(queue), p)
    BY <1>0, <2>1, ContentsOfPush
  <2>7. Abs' = Fifo!Push(Abs, p)
    BY <2>3, <2>4, <2>5, <2>6 DEF Fifo!Push
  <2> QED BY <2>1, <2>7 DEF Fifo!APush, Abs
<1>2. ASSUME Pop PROVE Fifo!APop
  <2>1. /\ original = Released /\ original' = Released
        /\ queue' = PopFrom(queue) /\ ret' = Popped(queue)
    BY <1>0, <1>2 DEF Pop
  <2>2. CASE queue.len = 0
    <3>1. queue' = queue /\ ret' = NoPtr
      BY <2>1, <2>2 DEF PopFrom, Popped
    <3>2. Contents(queue) = << >>
      BY <1>0, <1>s, <2>2, ContentsIsSeq, EmptySeq
    <3>3. Abs = << >> /\ Abs' = Abs
      BY <1>0, <2>1, <3>1, <3>2, IdleAbs DEF Abs
    <3>4. Abs' = Fifo!Rest(Abs) /\ ret' = Fifo!Popped(Abs, NoPtr)
      BY <3>1, <3>3 DEF Fifo!Rest, Fifo!Popped
    <3> QED BY <3>4 DEF Fifo!APop, Abs
  <2>3. CASE queue.len # 0
    <3>1. queue.len > 0
      BY <1>0, <2>3
    <3>2. RingOK(queue')
      BY <1>0, <2>1, <3>1, PopTakesOldest
    <3>3. Abs = Contents(queue) /\ Abs' = Contents(queue')
      BY <1>0, <2>1, <3>2, IdleAbs DEF Abs
    <3>4. Abs # << >> /\ ret' = Head(Abs) /\ Abs' = Tail(Abs)
      BY <1>0, <2>1, <3>1, <3>3, ContentsOfPop
    <3>5. Abs' = Fifo!Rest(Abs) /\ ret' = Fifo!Popped(Abs, NoPtr)
      BY <3>4 DEF Fifo!Rest, Fifo!Popped
    <3> QED BY <3>5 DEF Fifo!APop, Abs
  <2> QED BY <2>2, <2>3
<1>3. ASSUME Clear PROVE Fifo!AClear
  <2>1. /\ original' = Released /\ ret' = ret
        /\ queue' = Released \/ queue' = Reset(queue)
    BY <1>0, <1>3 DEF Clear
  <2>2. RingOK(queue') /\ queue'.len = 0
    BY <1>0, <2>1, ReleasedOK, ResetOK
  <2>3. Contents(queue') = << >>
    BY <2>2, ContentsIsSeq, EmptySeq
  <2>4. Abs' = << >>
    BY <2>1, <2>2, <2>3, IdleAbs DEF Abs
  <2> QED BY <2>1, <2>4 DEF Fifo!AClear, Abs
<1>4. ASSUME NEW p \in Ptr, BeginRemove(p) PROVE UNCHANGED Fifo!avars
  <2>1. /\ original = Released /\ original' = queue /\ queue' = Released
        /\ ret' = ret
    BY <1>0, <1>4 DEF BeginRemove
  <2>2. Contents(Released) = << >>
    <3>1. Contents(Released) \in Seq(Ptr) /\ Len(Contents(Released)) = Released.len
      BY ReleasedOK, ContentsIsSeq
    <3> QED BY <3>1, ReleasedOK, EmptySeq
  <2>3. Abs' = Contents(queue) /\ Abs = Contents(queue)
    BY <1>0, <1>s, <2>1, <2>2, IdleAbs, ConcatEmptySeq DEF Abs
  <2> QED BY <1>v, <2>1, <2>3 DEF Fifo!avars, Abs
<1>5. ASSUME RemoveItem
      PROVE  Fifo!ARemove(removing) \/ UNCHANGED Fifo!avars
  <2> DEFINE x == Popped(original)
             s == Contents(queue)
             t == Contents(original)
  <2>1. /\ original.len > 0 /\ original' = PopFrom(original) /\ ret' = ret
        /\ queue' = IF x = removing THEN queue ELSE PushOn(queue, x)
    BY <1>5 DEF RemoveItem
  <2>2. /\ t # << >> /\ x = Head(t) /\ Contents(original') = Tail(t)
    BY <1>0, <2>1, ContentsOfPop
  <2>3. s \in Seq(Ptr) /\ t \in Seq(Ptr)
    BY <1>s
  <2>4. Abs = s \o t
    BY DEF Abs
  <2>5. CASE x = removing
    <3>1. Abs' = s \o Tail(t)
      BY <2>1, <2>2, <2>5 DEF Abs
    <3>2. /\ Len(s) = queue.len /\ Len(t) = original.len
          /\ \A k \in 1 .. queue.len : s[k] = Item(queue, k - 1)
          /\ \A k \in 1 .. original.len : t[k] = Item(original, k - 1)
          /\ x = Item(original, 0)
      BY <1>0, <2>1, ContentsIsSeq, PopTakesOldest
    <3>3. \A k \in 1 .. Len(s) : s[k] # Head(t)
      <4>1. ASSUME NEW i \in 0 .. queue.len - 1 PROVE Item(queue, i) # x
        <5>1. 0 \in 0 .. original.len - 1
          BY <1>0, <2>1
        <5> QED BY <1>0, <3>2, <5>1 DEF Contains
      <4>2. ASSUME NEW k \in 1 .. queue.len PROVE k - 1 \in 0 .. queue.len - 1
        BY <1>0
      <4> QED BY <2>2, <3>2, <4>1, <4>2
    <3>4. \A k \in 2 .. Len(t) : t[k] # Head(t)
      <4>1. ASSUME NEW k \in 2 .. original.len
            PROVE  /\ k \in 1 .. original.len /\ k - 1 # 0
                   /\ k - 1 \in 0 .. original.len - 1 /\ 0 \in 0 .. original.len - 1
        BY <1>0
      <4>2. ASSUME NEW k \in 2 .. original.len PROVE Item(original, k - 1) # Item(original, 0)
        BY <1>0, <4>1 DEF Distinct
      <4> QED BY <2>2, <3>2, <4>1, <4>2
    <3>5. Abs' = Fifo!Without(Abs, removing)
      <4> HIDE DEF s, t, x
      <4> QED BY <2>2, <2>3, <2>4, <2>5, <3>1, <3>3, <3>4, DropHead
    <3> QED BY <2>1, <3>5 DEF Fifo!ARemove, Abs
  <2>6. CASE x # removing
    <3>1. x \in Ptr /\ Contains(original, x)
      BY <1>0, <2>1, PopTakesOldest, PopDistinct
    <3>2. ~Contains(queue, x)
      BY <1>0, <3>1 DEF Contains
    <3>3. Contents(queue') = Append(s, x)
      BY <1>0, <2>1, <2>6, <3>1, <3>2, ContentsOfPush
    <3>4. Abs' = Append(s, Head(t)) \o Tail(t)
      BY <2>2, <3>3 DEF Abs
    <3>5. Abs' = Abs
      <4> HIDE DEF s, t, x
      <4> QED BY <2>2, <2>3, <2>4, <3>4, MoveHead
    <3> QED BY <1>v, <2>1, <3>5 DEF Fifo!avars, Abs
  <2> QED BY <2>5, <2>6
<1>6. ASSUME EndRemove PROVE UNCHANGED Fifo!avars
  <2>1. /\ original.len = 0 /\ original' = Released
        /\ queue' = queue /\ ret' = ret
    BY <1>6 DEF EndRemove
  <2>2. Contents(original) = << >>
    BY <1>0, <1>s, <2>1, ContentsIsSeq, EmptySeq
  <2>3. Abs = Contents(queue) /\ Abs' = Contents(queue)
    BY <1>0, <1>s, <2>1, <2>2, IdleAbs, ConcatEmptySeq DEF Abs
  <2> QED BY <1>v, <2>1, <2>3 DEF Fifo!avars, Abs
<1>7. ASSUME UNCHANGED vars PROVE UNCHANGED Fifo!avars
  BY <1>7 DEF vars, Fifo!avars, Contents, Item, Pos
<1>8. ASSUME \E p \in Ptr : Push(p) \/ BeginRemove(p)
      PROVE  [Fifo!ANext]_(Fifo!avars)
  <2>1. PICK p \in Ptr : Push(p) \/ BeginRemove(p)
    BY <1>8
  <2>2. CASE Push(p)
    BY <1>1, <2>2 DEF Fifo!ANext
  <2>3. CASE BeginRemove(p)
    BY <1>4, <2>3
  <2> QED BY <2>1, <2>2, <2>3
<1>9. ASSUME RemoveItem PROVE [Fifo!ANext]_(Fifo!avars)
  <2>1. removing \in Ptr
    BY <1>0, <1>9 DEF RemoveItem
  <2> QED BY <1>5, <1>9, <2>1 DEF Fifo!ANext
<1> QED BY <1>2, <1>3, <1>6, <1>7, <1>8, <1>9 DEF Next, Fifo!ANext

LEMMA InitRefines == Init => Fifo!AInit
<1> SUFFICES ASSUME Init PROVE Fifo!AInit
  OBVIOUS
<1>1. queue = Released /\ original = Released /\ ret = NoPtr
  BY DEF Init
<1>2. Contents(Released) \in Seq(Ptr) /\ Len(Contents(Released)) = Released.len
  BY ReleasedOK, ContentsIsSeq
<1>3. Contents(Released) = << >>
  BY <1>2, ReleasedOK, EmptySeq
<1>4. Contents(queue) \o Contents(original) = << >>
  BY <1>1, <1>3, ReleasedOK, IdleAbs
<1> QED BY <1>1, <1>4 DEF Fifo!AInit

(* memcache_queue.[ch] implements a FIFO queue without duplicates: the     *)
(* ring, its growth and the loop of mmc_queue_remove are invisible.        *)
THEOREM RingImplementsFifo == Spec => ImplementsFifo
<1>1. IInv /\ [Next]_vars => [Fifo!ANext]_(Fifo!avars)
  BY StepRefines
<1> QED BY <1>1, InitIInv, NextIInv, InitRefines, PTL
        DEF Spec, ImplementsFifo, Fifo!ASpec

============================================================================
