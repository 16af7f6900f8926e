------------------------- MODULE MmcQueueOpsProofs -------------------------
(***************************************************************************)
(* What the operations of MmcQueueOps return: the type of the queue, the   *)
(* set of its pointers, and that a queue without duplicates stays one.     *)
(* The proofs about MmcPool cite these lemmas.                             *)
(***************************************************************************)
EXTENDS MmcQueueOps, SequenceTheorems, FiniteSetTheorems, WellFoundedInduction, TLAPS

(* No pointer is in the queue twice. *)
Distinct(q) == \A i, j \in 1 .. Len(q) : q[i] = q[j] => i = j

LEMMA ToSetElements ==
  ASSUME NEW S, NEW q \in Seq(S)
  PROVE  /\ ToSet(q) = {q[i] : i \in 1 .. Len(q)}
         /\ ToSet(q) \subseteq S
         /\ q = <<>> <=> ToSet(q) = {}
         /\ q = <<>> <=> Len(q) = 0
<1>1. DOMAIN q = 1 .. Len(q) /\ Len(q) \in Nat
  BY LenProperties
<1>2. ToSet(q) = {q[i] : i \in 1 .. Len(q)}
  BY <1>1 DEF ToSet
<1>3. q = <<>> <=> Len(q) = 0
  BY <1>1, EmptySeq
<1>4. ToSet(q) = {} <=> Len(q) = 0
  <2>1. CASE Len(q) = 0
    BY <1>2, <2>1
  <2>2. CASE Len(q) # 0
    <3>1. 1 \in 1 .. Len(q)
      BY <1>1, <2>2
    <3> QED BY <1>2, <2>2, <3>1
  <2> QED BY <2>1, <2>2
<1> QED BY <1>1, <1>2, <1>3, <1>4

LEMMA FirstElement ==
  ASSUME NEW S, NEW q \in Seq(S), q # <<>>
  PROVE  /\ Len(q) \in Nat \ {0} /\ Head(q) = q[1] /\ Head(q) \in S
         /\ Tail(q) \in Seq(S) /\ Len(Tail(q)) = Len(q) - 1
         /\ \A i \in 1 .. Len(q) - 1 : Tail(q)[i] = q[i + 1]
BY HeadTailProperties, EmptySeq

LEMMA AppendSet ==
  ASSUME NEW S, NEW q \in Seq(S), NEW x \in S
  PROVE  /\ Append(q, x) \in Seq(S)
         /\ ToSet(Append(q, x)) = ToSet(q) \cup {x}
         /\ Distinct(q) /\ x \notin ToSet(q) => Distinct(Append(q, x))
<1> DEFINE a == Append(q, x)
<1>1. /\ a \in Seq(S) /\ Len(a) = Len(q) + 1 /\ Len(q) \in Nat
      /\ \A i \in 1 .. Len(q) : a[i] = q[i]
      /\ a[Len(q) + 1] = x
  BY AppendProperties, LenProperties
<1> HIDE DEF a
<1>2. /\ ToSet(a) = {a[i] : i \in 1 .. Len(q) + 1}
      /\ ToSet(q) = {q[i] : i \in 1 .. Len(q)}
  BY <1>1, ToSetElements
<1>3. 1 .. Len(q) + 1 = (1 .. Len(q)) \cup {Len(q) + 1}
  BY <1>1
<1>4. ToSet(a) = ToSet(q) \cup {x}
  BY <1>1, <1>2, <1>3
<1>5. ASSUME Distinct(q), x \notin ToSet(q) PROVE Distinct(a)
  <2>1. ASSUME NEW i \in 1 .. Len(q) PROVE a[i] = q[i] /\ q[i] # x
    BY <1>1, <1>2, <1>5, <2>1
  <2> QED BY <1>1, <1>3, <1>5, <2>1 DEF Distinct
<1> QED BY <1>1, <1>4, <1>5 DEF a

(* A pointer that is pushed is in the queue, once. *)
LEMMA PushAdds ==
  ASSUME NEW S, NEW q \in Seq(S), NEW x \in S
  PROVE  /\ Push(q, x) \in Seq(S)
         /\ ToSet(Push(q, x)) = ToSet(q) \cup {x}
         /\ x \notin ToSet(q) => Push(q, x) = Append(q, x)
         /\ Distinct(q) => Distinct(Push(q, x))
BY AppendSet DEF Push

(* A pop takes the oldest pointer, which is not queued again. *)
LEMMA RestDrops ==
  ASSUME NEW S, NEW q \in Seq(S), NEW null
  PROVE  /\ Rest(q) \in Seq(S)
         /\ q = <<>> => Popped(q, null) = null /\ Rest(q) = <<>>
         /\ q # <<>> => /\ Popped(q, null) \in S /\ Popped(q, null) = Head(q)
                        /\ Rest(q) = Tail(q)
                        /\ ToSet(q) = ToSet(Rest(q)) \cup {Popped(q, null)}
                        /\ Distinct(q) => Popped(q, null) \notin ToSet(Rest(q))
         /\ ToSet(Rest(q)) \subseteq ToSet(q)
         /\ Distinct(q) => Distinct(Rest(q))
<1>1. CASE q = <<>>
  BY <1>1 DEF Rest, Popped
<1>2. CASE q # <<>>
  <2> DEFINE t == Tail(q)
  <2>1. /\ Rest(q) = t /\ Popped(q, null) = Head(q)
    BY <1>2 DEF Rest, Popped
  <2>2. /\ t \in Seq(S) /\ Len(t) = Len(q) - 1 /\ Len(q) \in Nat \ {0} /\ Head(q) \in S
        /\ \A i \in 1 .. Len(t) : t[i] = q[i + 1]
        /\ Head(q) = q[1]
    BY <1>2, HeadTailProperties, EmptySeq
  <2> HIDE DEF t
  <2>3. /\ ToSet(q) = {q[i] : i \in 1 .. Len(q)}
        /\ ToSet(t) = {t[i] : i \in 1 .. Len(q) - 1}
    BY <2>2, ToSetElements
  <2>4. ASSUME NEW i \in 1 .. Len(q), i # 1 PROVE i - 1 \in 1 .. Len(q) - 1 /\ q[i] = t[i - 1]
    BY <2>2, <2>4
  <2>5. ASSUME NEW i \in 1 .. Len(q) - 1 PROVE i + 1 \in 1 .. Len(q) /\ i + 1 # 1 /\ t[i] = q[i + 1]
    BY <2>2
  <2>6. 1 \in 1 .. Len(q)
    BY <2>2
  <2>7. ToSet(q) = ToSet(t) \cup {Head(q)}
    BY <2>2, <2>3, <2>4, <2>5, <2>6
  <2>8. ASSUME Distinct(q) PROVE Head(q) \notin ToSet(t)
    BY <2>2, <2>3, <2>5, <2>6, <2>8 DEF Distinct
  <2>9. ASSUME Distinct(q) PROVE Distinct(t)
    <3>1. ASSUME NEW i \in 1 .. Len(t), NEW j \in 1 .. Len(t), t[i] = t[j] PROVE i = j
      <4>1. q[i + 1] = q[j + 1] /\ i + 1 \in 1 .. Len(q) /\ j + 1 \in 1 .. Len(q)
        BY <2>2, <3>1
      <4>2. i + 1 = j + 1
        BY <2>9, <4>1 DEF Distinct
      <4> QED BY <2>2, <4>2
    <3> QED BY <3>1 DEF Distinct
  <2> QED BY <1>2, <2>1, <2>2, <2>7, <2>8, <2>9
<1> QED BY <1>1, <1>2

(* A set of numbers that is not empty has a least one. *)
LEMMA LeastNumber ==
  ASSUME NEW S \in SUBSET Nat, S # {}
  PROVE  \E m \in S : \A k \in S : m <= k
<1> DEFINE T == {0 .. n : n \in S}
<1>1. T \subseteq FiniteSubsetsOf(Nat)
  <2>1. ASSUME NEW n \in S PROVE IsFiniteSet(0 .. n) /\ 0 .. n \subseteq Nat
    <3>1. 0 \in Int /\ n \in Int
      OBVIOUS
    <3> QED BY <3>1, FS_Interval
  <2> QED BY <2>1 DEF FiniteSubsetsOf
<1>2. PICK x \in T : \A y \in T : <<y, x>> \notin StrictSubsetOrdering(Nat)
  <2>1. IsWellFoundedOn(StrictSubsetOrdering(Nat), FiniteSubsetsOf(Nat))
    BY FS_StrictSubsetOrderingWellFounded
  <2>2. T # {}
    OBVIOUS
  <2> HIDE DEF T
  <2> QED BY <1>1, <2>1, <2>2, WFMin
<1>3. PICK m \in S : x = 0 .. m
  OBVIOUS
<1>4. ASSUME NEW n \in S, n < m PROVE FALSE
  <2>1. 0 .. n \subseteq 0 .. m /\ m \in 0 .. m /\ m \notin 0 .. n
    BY <1>4
  <2>2. <<0 .. n, x>> \in StrictSubsetOrdering(Nat)
    BY <1>3, <2>1 DEF StrictSubsetOrdering
  <2> QED BY <1>2, <2>2
<1> QED BY <1>3, <1>4

(* mmc_queue_remove takes the pointer out and leaves the others in order. *)
LEMMA WithoutRemoves ==
  ASSUME NEW S, NEW q \in Seq(S), NEW x
  PROVE  /\ Without(q, x) \in Seq(S)
         /\ x \notin ToSet(q) => Without(q, x) = q
         /\ x \in ToSet(q) =>
              \E n \in 1 .. Len(q) :
                /\ q[n] = x /\ \A m \in 1 .. n - 1 : q[m] # x
                /\ Len(Without(q, x)) = Len(q) - 1
                /\ \A m \in 1 .. Len(q) - 1 :
                     Without(q, x)[m] = IF m < n THEN q[m] ELSE q[m + 1]
<1>1. /\ Len(q) \in Nat /\ ToSet(q) = {q[i] : i \in 1 .. Len(q)}
  BY ToSetElements, LenProperties
<1>2. CASE x \notin ToSet(q)
  <2>1. Without(q, x) = q
    BY <1>1, <1>2 DEF Without, RemoveFirst
  <2> QED BY <1>2, <2>1
<1>3. CASE x \in ToSet(q)
  <2> DEFINE I == {i \in 1 .. Len(q) : q[i] = x}
  <2>1. I # {} /\ I \in SUBSET Nat
    BY <1>1, <1>3
  <2>2. PICK n \in I : \A k \in I : n <= k
    <3> HIDE DEF I
    <3> QED BY <2>1, LeastNumber
  <2>3. /\ n \in 1 .. Len(q) /\ q[n] = x
        /\ \A m \in 1 .. n - 1 : q[m] # x
    BY <1>1, <2>2
  <2>4. Min(I) = n
    <3>1. \A k \in I : n <= k /\ k \in Nat
      BY <2>2
    <3>2. \A m \in I : (\A k \in I : m <= k) => m = n
      BY <2>2, <3>1
    <3>3. Min(I) \in I /\ \A k \in I : Min(I) <= k
      BY <2>2, Zenon DEF Min
    <3> QED BY <3>2, <3>3
  <2>5. SelectInSeq(q, LAMBDA v : v = x) = n
    BY <2>1, <2>4 DEF SelectInSeq
  <2>6. Without(q, x) = SubSeq(q, 1, n - 1) \o SubSeq(q, n + 1, Len(q))
    <3>1. \E i \in 1 .. Len(q) : q[i] = x
      BY <2>3
    <3> QED BY <2>5, <3>1 DEF Without, RemoveFirst, RemoveAt
  <2> DEFINE a == SubSeq(q, 1, n - 1)
             b == SubSeq(q, n + 1, Len(q))
             l == Len(q)
  <2>7. /\ a \in Seq(S) /\ Len(a) = n - 1
        /\ \A i \in 1 .. n - 1 : a[i] = q[i]
    <3>1. /\ 1 \in Int /\ n - 1 \in Int /\ \A i \in 1 .. n - 1 : q[i] \in S
      BY <1>1, <2>3, ElementOfSeq
    <3>2. /\ a \in Seq(S) /\ Len(a) = IF 1 <= n - 1 THEN n - 1 - 1 + 1 ELSE 0
          /\ \A i \in 1 .. n - 1 - 1 + 1 : a[i] = q[1 + i - 1]
      BY <3>1, SubSeqProperties
    <3> HIDE DEF a
    <3> QED BY <1>1, <2>3, <3>2
  <2>8. /\ b \in Seq(S) /\ Len(b) = Len(q) - n
        /\ \A i \in 1 .. Len(q) - n : b[i] = q[n + i]
    <3>1. /\ n + 1 \in Int /\ l \in Int /\ \A i \in n + 1 .. l : q[i] \in S
      BY <1>1, <2>3, ElementOfSeq
    <3>2. /\ b \in Seq(S) /\ Len(b) = IF n + 1 <= l THEN l - (n + 1) + 1 ELSE 0
          /\ \A i \in 1 .. l - (n + 1) + 1 : b[i] = q[n + 1 + i - 1]
      BY <3>1, SubSeqProperties
    <3> HIDE DEF b
    <3> QED BY <1>1, <2>3, <3>2
  <2>9. Without(q, x) = a \o b
    BY <2>6
  <2> HIDE DEF a, b
  <2>10. /\ Without(q, x) \in Seq(S) /\ Len(Without(q, x)) = Len(a) + Len(b)
         /\ \A i \in 1 .. Len(a) + Len(b) :
              Without(q, x)[i] = IF i <= Len(a) THEN a[i] ELSE b[i - Len(a)]
    <3>1. /\ a \o b \in Seq(S) /\ Len(a \o b) = Len(a) + Len(b)
          /\ \A i \in 1 .. Len(a) + Len(b) :
               (a \o b)[i] = IF i <= Len(a) THEN a[i] ELSE b[i - Len(a)]
      BY <2>7, <2>8, ConcatProperties
    <3> QED BY <2>9, <3>1, Zenon
  <2>11. Len(Without(q, x)) = Len(q) - 1
    BY <1>1, <2>3, <2>7, <2>8, <2>10
  <2>12. ASSUME NEW m \in 1 .. Len(q) - 1
         PROVE  Without(q, x)[m] = IF m < n THEN q[m] ELSE q[m + 1]
    <3>1. m \in 1 .. Len(a) + Len(b)
      BY <1>1, <2>3, <2>7, <2>8
    <3>2. CASE m < n
      <4>1. m <= Len(a) /\ m \in 1 .. n - 1
        BY <1>1, <2>3, <2>7, <3>2
      <4> QED BY <2>7, <2>10, <3>1, <3>2, <4>1
    <3>3. CASE ~(m < n)
      <4>1. ~(m <= Len(a)) /\ m - Len(a) \in 1 .. Len(q) - n /\ n + (m - Len(a)) = m + 1
        BY <1>1, <2>3, <2>7, <3>3
      <4> QED BY <2>8, <2>10, <3>1, <3>3, <4>1
    <3> QED BY <3>2, <3>3
  <2> QED BY <1>3, <2>3, <2>10, <2>11, <2>12
<1> QED BY <1>2, <1>3

----------------------------------------------------------------------------
(* A queue behind a slot: the request in the slot, then those queued.      *)

LEMMA ConsProperties ==
  ASSUME NEW S, NEW q \in Seq(S), NEW h \in S
  PROVE  /\ <<h>> \o q \in Seq(S) /\ <<h>> \o q # <<>>
         /\ Len(<<h>> \o q) = Len(q) + 1 /\ Len(q) \in Nat
         /\ Head(<<h>> \o q) = h /\ Tail(<<h>> \o q) = q
         /\ (<<h>> \o q)[1] = h
         /\ \A i \in 1 .. Len(q) : (<<h>> \o q)[i + 1] = q[i]
         /\ ToSet(<<h>> \o q) = {h} \cup ToSet(q)
         /\ Distinct(<<h>> \o q) <=> h \notin ToSet(q) /\ Distinct(q)
<1> DEFINE c == <<h>> \o q
<1>1. /\ c \in Seq(S) /\ Len(c) = Len(q) + 1 /\ Len(q) \in Nat
      /\ c[1] = h /\ \A i \in 1 .. Len(q) : c[i + 1] = q[i]
  <2>1. <<h>> \in Seq(S) /\ Len(<<h>>) = 1 /\ <<h>>[1] = h /\ Len(q) \in Nat
    BY LenProperties
  <2>2. /\ c \in Seq(S) /\ Len(c) = Len(<<h>>) + Len(q)
        /\ \A i \in 1 .. Len(<<h>>) + Len(q) :
             c[i] = IF i <= Len(<<h>>) THEN <<h>>[i] ELSE q[i - Len(<<h>>)]
    BY <2>1, ConcatProperties
  <2> HIDE DEF c
  <2>3. c[1] = h
    BY <2>1, <2>2
  <2>4. ASSUME NEW i \in 1 .. Len(q) PROVE c[i + 1] = q[i]
    <3>1. i + 1 \in 1 .. Len(<<h>>) + Len(q) /\ ~(i + 1 <= Len(<<h>>)) /\ i + 1 - Len(<<h>>) = i
      BY <2>1
    <3> QED BY <2>2, <3>1
  <2> QED BY <2>1, <2>2, <2>3, <2>4
<1> HIDE DEF c
<1>2. c # <<>>
  BY <1>1, EmptySeq
<1>3. Head(c) = h /\ Tail(c) = q
  <2>1. /\ Head(c) = c[1] /\ Tail(c) \in Seq(S) /\ Len(Tail(c)) = Len(c) - 1
        /\ \A i \in 1 .. Len(c) - 1 : Tail(c)[i] = c[i + 1]
    BY <1>1, <1>2, FirstElement
  <2>2. Len(Tail(c)) = Len(q) /\ \A i \in 1 .. Len(q) : Tail(c)[i] = q[i]
    BY <1>1, <2>1
  <2>3. Tail(c) = q
    <3> DEFINE t == Tail(c)
    <3>1. t \in Seq(S) /\ Len(t) = Len(q) /\ \A i \in 1 .. Len(t) : t[i] = q[i]
      BY <2>1, <2>2
    <3> HIDE DEF t
    <3>2. t = q
      BY <3>1, SeqEqual
    <3> QED BY <3>2 DEF t
  <2> QED BY <1>1, <2>1, <2>3
<1>4. ToSet(c) = {h} \cup ToSet(q)
  <2>1. ToSet(c) = {c[i] : i \in 1 .. Len(c)} /\ ToSet(q) = {q[i] : i \in 1 .. Len(q)}
    BY <1>1, ToSetElements
  <2>2. ASSUME NEW x \in ToSet(c) PROVE x \in {h} \cup ToSet(q)
    <3>1. PICK i \in 1 .. Len(c) : x = c[i]
      BY <2>1
    <3>2. CASE i = 1
      BY <1>1, <3>1, <3>2
    <3>3. CASE i # 1
      <4>1. i - 1 \in 1 .. Len(q) /\ c[i - 1 + 1] = q[i - 1] /\ i - 1 + 1 = i
        BY <1>1, <3>3
      <4> QED BY <2>1, <3>1, <4>1
    <3> QED BY <3>2, <3>3
  <2>3. h \in ToSet(c)
    <3>1. 1 \in 1 .. Len(c)
      BY <1>1
    <3> QED BY <1>1, <2>1, <3>1
  <2>4. ASSUME NEW x \in ToSet(q) PROVE x \in ToSet(c)
    <3>1. PICK i \in 1 .. Len(q) : x = q[i]
      BY <2>1
    <3>2. i + 1 \in 1 .. Len(c) /\ c[i + 1] = x
      BY <1>1, <3>1
    <3> QED BY <2>1, <3>2
  <2> QED BY <2>2, <2>3, <2>4
<1>5. ASSUME Distinct(c) PROVE h \notin ToSet(q) /\ Distinct(q)
  <2>1. ASSUME NEW i \in 1 .. Len(q), NEW j \in 1 .. Len(q), q[i] = q[j] PROVE i = j
    <3>1. i + 1 \in 1 .. Len(c) /\ j + 1 \in 1 .. Len(c) /\ c[i + 1] = c[j + 1]
      BY <1>1, <2>1
    <3>2. i + 1 = j + 1
      BY <1>5, <3>1 DEF Distinct
    <3> QED BY <3>2
  <2>2. ASSUME NEW i \in 1 .. Len(q), q[i] = h PROVE FALSE
    <3>1. i + 1 \in 1 .. Len(c) /\ 1 \in 1 .. Len(c) /\ c[i + 1] = c[1]
      BY <1>1, <2>2
    <3>2. i + 1 = 1
      BY <1>5, <3>1 DEF Distinct
    <3> QED BY <3>2
  <2>3. ToSet(q) = {q[i] : i \in 1 .. Len(q)}
    BY ToSetElements
  <2> QED BY <2>1, <2>2, <2>3 DEF Distinct
<1>6. ASSUME Distinct(q), h \notin ToSet(q) PROVE Distinct(c)
  <2>1. ToSet(q) = {q[i] : i \in 1 .. Len(q)}
    BY ToSetElements
  <2>2. ASSUME NEW i \in 1 .. Len(c), NEW j \in 1 .. Len(c), c[i] = c[j] PROVE i = j
    <3>1. /\ i = 1 \/ (i - 1 \in 1 .. Len(q) /\ c[i] = q[i - 1])
          /\ j = 1 \/ (j - 1 \in 1 .. Len(q) /\ c[j] = q[j - 1])
      <4>1. \A k \in 1 .. Len(c) : k = 1 \/ (k - 1 \in 1 .. Len(q) /\ c[k - 1 + 1] = q[k - 1]
                                             /\ k - 1 + 1 = k)
        BY <1>1
      <4> QED BY <4>1
    <3>2. CASE i = 1 \/ j = 1
      BY <1>1, <1>6, <2>1, <2>2, <3>1, <3>2
    <3>3. CASE i # 1 /\ j # 1
      <4>1. i - 1 = j - 1
        BY <1>6, <2>2, <3>1, <3>3 DEF Distinct
      <4> QED BY <4>1
    <3> QED BY <3>2, <3>3
  <2> QED BY <2>2 DEF Distinct
<1> QED BY <1>1, <1>2, <1>3, <1>4, <1>5, <1>6 DEF c

LEMMA ConsAppend ==
  ASSUME NEW S, NEW q \in Seq(S), NEW h \in S, NEW x \in S
  PROVE  Append(<<h>> \o q, x) = <<h>> \o Append(q, x)
<1>1. <<h>> \in Seq(S) /\ <<x>> \in Seq(S)
  OBVIOUS
<1>2. (<<h>> \o q) \o <<x>> = <<h>> \o (q \o <<x>>)
  BY <1>1, ConcatAssociative
<1>3. <<h>> \o q \in Seq(S)
  BY ConsProperties
<1>4. Append(q, x) = q \o <<x>>
  BY AppendIsConcat
<1> DEFINE c == <<h>> \o q
<1>5. Append(c, x) = c \o <<x>>
  <2>1. c \in Seq(S)
    BY <1>3
  <2> HIDE DEF c
  <2> QED BY <2>1, AppendIsConcat
<1> QED BY <1>2, <1>4, <1>5

(* mmc_queue_remove, at the first place where the pointer is. *)
LEMMA WithoutAt ==
  ASSUME NEW S, NEW q \in Seq(S), NEW x, NEW n \in 1 .. Len(q),
         q[n] = x, \A m \in 1 .. n - 1 : q[m] # x
  PROVE  /\ Without(q, x) \in Seq(S) /\ Len(Without(q, x)) = Len(q) - 1 /\ Len(q) \in Nat
         /\ \A m \in 1 .. Len(q) - 1 : Without(q, x)[m] = IF m < n THEN q[m] ELSE q[m + 1]
<1>1. ToSet(q) = {q[i] : i \in 1 .. Len(q)} /\ Len(q) \in Nat
  BY ToSetElements, LenProperties
<1>2. x \in ToSet(q)
  BY <1>1
<1>3. PICK k \in 1 .. Len(q) :
        /\ q[k] = x /\ \A m \in 1 .. k - 1 : q[m] # x
        /\ Len(Without(q, x)) = Len(q) - 1
        /\ \A m \in 1 .. Len(q) - 1 : Without(q, x)[m] = IF m < k THEN q[m] ELSE q[m + 1]
  BY <1>2, WithoutRemoves
<1>4. k = n
  <2>1. CASE k < n
    <3>1. k \in 1 .. n - 1
      BY <2>1
    <3> QED BY <1>3, <3>1
  <2>2. CASE n < k
    <3>1. n \in 1 .. k - 1
      BY <2>2
    <3> QED BY <1>3, <3>1
  <2> QED BY <2>1, <2>2
<1>5. Without(q, x) \in Seq(S)
  BY WithoutRemoves
<1> QED BY <1>1, <1>3, <1>4, <1>5

LEMMA WithoutSet ==
  ASSUME NEW S, NEW q \in Seq(S), NEW x, Distinct(q)
  PROVE  /\ Without(q, x) \in Seq(S)
         /\ Distinct(Without(q, x)) /\ ToSet(Without(q, x)) = ToSet(q) \ {x}
<1> DEFINE w == Without(q, x)
<1>1. w \in Seq(S) /\ Len(q) \in Nat
  BY WithoutRemoves, LenProperties
<1>2. CASE x \notin ToSet(q)
  BY <1>1, <1>2, WithoutRemoves
<1>3. CASE x \in ToSet(q)
  <2>1. PICK n \in 1 .. Len(q) :
          /\ q[n] = x /\ \A m \in 1 .. n - 1 : q[m] # x
          /\ Len(w) = Len(q) - 1
          /\ \A m \in 1 .. Len(q) - 1 : w[m] = IF m < n THEN q[m] ELSE q[m + 1]
    BY <1>3, WithoutRemoves
  <2> HIDE DEF w
  <2>2. ToSet(w) = {w[i] : i \in 1 .. Len(w)} /\ ToSet(q) = {q[i] : i \in 1 .. Len(q)}
    BY <1>1, ToSetElements
  <2>3. Distinct(w)
    <3>1. ASSUME NEW i \in 1 .. Len(w), NEW j \in 1 .. Len(w), w[i] = w[j] PROVE i = j
      <4> DEFINE Old(m) == IF m < n THEN m ELSE m + 1
      <4>1. Old(i) \in 1 .. Len(q) /\ Old(j) \in 1 .. Len(q)
        BY <1>1, <2>1
      <4>2. q[Old(i)] = w[i] /\ q[Old(j)] = w[j]
        BY <1>1, <2>1
      <4> HIDE DEF Old
      <4>3. Old(i) = Old(j)
        BY <3>1, <4>1, <4>2 DEF Distinct
      <4> QED BY <4>3 DEF Old
    <3> QED BY <3>1 DEF Distinct
  <2>4. ASSUME NEW y \in ToSet(w) PROVE y \in ToSet(q) \ {x}
    <3>1. PICK m \in 1 .. Len(w) : y = w[m]
      BY <2>2
    <3>2. CASE m < n
      <4>1. y = q[m] /\ m \in 1 .. Len(q) /\ m \in 1 .. n - 1
        BY <1>1, <2>1, <3>1, <3>2
      <4> QED BY <2>1, <2>2, <4>1
    <3>3. CASE ~(m < n)
      <4>1. y = q[m + 1] /\ m + 1 \in 1 .. Len(q) /\ m + 1 # n
        BY <1>1, <2>1, <3>1, <3>3
      <4>2. y # x
        BY <2>1, <4>1 DEF Distinct
      <4> QED BY <2>2, <4>1, <4>2
    <3> QED BY <3>2, <3>3
  <2>5. ASSUME NEW y \in ToSet(q), y # x PROVE y \in ToSet(w)
    <3>1. PICK m \in 1 .. Len(q) : y = q[m]
      BY <2>2
    <3>2. CASE m < n
      <4>1. m \in 1 .. Len(w) /\ w[m] = y
        BY <1>1, <2>1, <3>1, <3>2
      <4> QED BY <2>2, <4>1
    <3>3. CASE ~(m < n)
      <4>1. m - 1 \in 1 .. Len(w) /\ ~(m - 1 < n) /\ m - 1 + 1 = m
        BY <1>1, <2>1, <2>5, <3>1, <3>3
      <4>2. w[m - 1] = y
        BY <1>1, <2>1, <3>1, <4>1
      <4> QED BY <2>2, <4>1, <4>2
    <3> QED BY <3>2, <3>3
  <2> QED BY <1>1, <2>3, <2>4, <2>5 DEF w
<1> QED BY <1>2, <1>3

LEMMA ConsWithout ==
  ASSUME NEW S, NEW q \in Seq(S), NEW h \in S, NEW x
  PROVE  Without(<<h>> \o q, x) = IF h = x THEN q ELSE <<h>> \o Without(q, x)
<1> DEFINE c == <<h>> \o q
           w == Without(q, x)
<1>1. /\ c \in Seq(S) /\ Len(c) = Len(q) + 1 /\ Len(q) \in Nat
      /\ c[1] = h /\ \A i \in 1 .. Len(q) : c[i + 1] = q[i]
      /\ ToSet(c) = {h} \cup ToSet(q)
  BY ConsProperties
<1>2. w \in Seq(S)
  BY WithoutRemoves
<1>3. /\ <<h>> \o w \in Seq(S) /\ Len(<<h>> \o w) = Len(w) + 1
      /\ (<<h>> \o w)[1] = h /\ \A i \in 1 .. Len(w) : (<<h>> \o w)[i + 1] = w[i]
  BY <1>2, ConsProperties
<1>4. CASE h = x
  <2> DEFINE d == Without(c, x)
  <2> HIDE DEF c
  <2>1. /\ d \in Seq(S) /\ Len(d) = Len(c) - 1
        /\ \A m \in 1 .. Len(c) - 1 : d[m] = IF m < 1 THEN c[m] ELSE c[m + 1]
    <3>1. PICK k : k = 1
      OBVIOUS
    <3>2. k \in 1 .. Len(c) /\ c[k] = x /\ \A m \in 1 .. k - 1 : c[m] # x
      BY <1>1, <1>4, <3>1
    <3>3. c \in Seq(S)
      BY <1>1
    <3>4. /\ d \in Seq(S) /\ Len(d) = Len(c) - 1
          /\ \A m \in 1 .. Len(c) - 1 : d[m] = IF m < k THEN c[m] ELSE c[m + 1]
      BY <3>2, <3>3, WithoutAt
    <3> QED BY <3>1, <3>4
  <2> HIDE DEF d
  <2>2. Len(d) = Len(q) /\ \A m \in 1 .. Len(d) : d[m] = q[m]
    BY <1>1, <2>1
  <2>3. d = q
    BY <2>1, <2>2, SeqEqual
  <2> QED BY <1>4, <2>3 DEF c, d
<1>5. CASE h # x /\ x \notin ToSet(q)
  <2>1. Without(c, x) = c
    <3>1. x \notin ToSet(c)
      BY <1>1, <1>5
    <3>2. c \in Seq(S)
      BY <1>1
    <3> HIDE DEF c
    <3>3. Without(c, x) = c
      BY <3>1, <3>2, WithoutRemoves
    <3> QED BY <3>3 DEF c
  <2>2. w = q
    BY <1>5, WithoutRemoves
  <2> QED BY <1>5, <2>1, <2>2
<1>6. CASE h # x /\ x \in ToSet(q)
  <2>1. PICK n \in 1 .. Len(q) :
          /\ q[n] = x /\ \A m \in 1 .. n - 1 : q[m] # x
          /\ Len(w) = Len(q) - 1
          /\ \A m \in 1 .. Len(q) - 1 : w[m] = IF m < n THEN q[m] ELSE q[m + 1]
    BY <1>6, WithoutRemoves
  <2> DEFINE d == Without(c, x)
             e == <<h>> \o w
  <2>2. /\ n + 1 \in 1 .. Len(c) /\ c[n + 1] = x
        /\ \A m \in 1 .. n + 1 - 1 : c[m] # x
    <3> HIDE DEF c
    <3>1. ASSUME NEW m \in 1 .. n + 1 - 1 PROVE c[m] # x
      <4>1. CASE m = 1
        BY <1>1, <1>6, <4>1
      <4>2. CASE m # 1
        <5>1. m - 1 \in 1 .. n - 1 /\ m - 1 \in 1 .. Len(q) /\ m - 1 + 1 = m
          BY <1>1, <2>1, <4>2
        <5> QED BY <1>1, <2>1, <5>1, ZenonT(40)
      <4> QED BY <4>1, <4>2
    <3> QED BY <1>1, <2>1, <3>1
  <2> HIDE DEF c
  <2>3. /\ d \in Seq(S) /\ Len(d) = Len(c) - 1
        /\ \A m \in 1 .. Len(c) - 1 : d[m] = IF m < n + 1 THEN c[m] ELSE c[m + 1]
    <3>1. c \in Seq(S)
      BY <1>1
    <3>2. PICK k : k = n + 1
      OBVIOUS
    <3>3. k \in 1 .. Len(c) /\ c[k] = x /\ \A m \in 1 .. k - 1 : c[m] # x
      BY <2>2, <3>2
    <3>4. /\ d \in Seq(S) /\ Len(d) = Len(c) - 1
          /\ \A m \in 1 .. Len(c) - 1 : d[m] = IF m < k THEN c[m] ELSE c[m + 1]
      BY <3>1, <3>3, WithoutAt
    <3> QED BY <3>2, <3>4
  <2> HIDE DEF d, w
  <2>4. e \in Seq(S) /\ Len(e) = Len(q) /\ Len(d) = Len(q)
    BY <1>1, <1>3, <2>1, <2>3
  <2>5. e[1] = h /\ \A i \in 1 .. Len(w) : e[i + 1] = w[i]
    BY <1>3
  <2> HIDE DEF e
  <2>6. ASSUME NEW m \in 1 .. Len(d) PROVE d[m] = e[m]
    <3>1. CASE m = 1
      BY <1>1, <2>1, <2>3, <2>4, <2>5, <3>1
    <3>2. CASE m # 1
      <4>1. m - 1 \in 1 .. Len(w) /\ m - 1 \in 1 .. Len(q) - 1 /\ m - 1 \in 1 .. Len(q) /\ m \in 1 .. Len(q)
            /\ m - 1 + 1 = m /\ m \in 1 .. Len(c) - 1
        BY <1>1, <2>1, <2>4, <3>2
      <4>2. e[m] = IF m - 1 < n THEN q[m - 1] ELSE q[m]
        BY <2>1, <2>5, <4>1
      <4>3. c[m] = q[m - 1] /\ c[m + 1] = q[m]
        BY <1>1, <4>1
      <4>4. d[m] = IF m < n + 1 THEN q[m - 1] ELSE q[m]
        BY <2>3, <4>1, <4>3
      <4> QED BY <2>1, <4>2, <4>4
    <3> QED BY <3>1, <3>2
  <2>7. d = e
    BY <2>3, <2>4, <2>6, SeqEqual
  <2> QED BY <1>6, <2>7 DEF c, d, e, w
<1> QED BY <1>4, <1>5, <1>6

----------------------------------------------------------------------------
(* The requests that are still to be sent are the last of those that are   *)
(* to be answered: S is the end of R, index by index.                      *)
IsTail(S, R) ==
  /\ Len(S) <= Len(R)
  /\ \A i \in 1 .. Len(S) : S[i] = R[Len(R) - Len(S) + i]

LEMMA TailSet ==
  ASSUME NEW X, NEW S \in Seq(X), NEW R \in Seq(X), IsTail(S, R)
  PROVE  ToSet(S) \subseteq ToSet(R)
<1>1. /\ ToSet(S) = {S[i] : i \in 1 .. Len(S)} /\ ToSet(R) = {R[i] : i \in 1 .. Len(R)}
      /\ Len(S) \in Nat /\ Len(R) \in Nat
  BY ToSetElements, LenProperties
<1>2. ASSUME NEW i \in 1 .. Len(S) PROVE S[i] \in ToSet(R)
  <2>1. Len(R) - Len(S) + i \in 1 .. Len(R) /\ S[i] = R[Len(R) - Len(S) + i]
    BY <1>1 DEF IsTail
  <2> QED BY <1>1, <2>1
<1> QED BY <1>1, <1>2

LEMMA TailEmpty ==
  ASSUME NEW X, NEW R \in Seq(X)
  PROVE  IsTail(<<>>, R)
BY LenProperties DEF IsTail

LEMMA TailAppend ==
  ASSUME NEW X, NEW S \in Seq(X), NEW R \in Seq(X), IsTail(S, R), NEW x \in X
  PROVE  IsTail(Append(S, x), Append(R, x))
<1> DEFINE a == Append(S, x)
           b == Append(R, x)
<1>1. /\ Len(a) = Len(S) + 1 /\ Len(S) \in Nat
      /\ \A i \in 1 .. Len(S) : a[i] = S[i]
      /\ a[Len(S) + 1] = x
  BY AppendProperties, LenProperties
<1>2. /\ Len(b) = Len(R) + 1 /\ Len(R) \in Nat
      /\ \A i \in 1 .. Len(R) : b[i] = R[i]
      /\ b[Len(R) + 1] = x
  BY AppendProperties, LenProperties
<1> HIDE DEF a, b
<1>3. Len(S) <= Len(R) /\ \A i \in 1 .. Len(S) : S[i] = R[Len(R) - Len(S) + i]
  BY DEF IsTail
<1>4. ASSUME NEW i \in 1 .. Len(a) PROVE a[i] = b[Len(b) - Len(a) + i]
  <2>1. Len(b) - Len(a) + i = Len(R) - Len(S) + i
    BY <1>1, <1>2
  <2>2. CASE i <= Len(S)
    <3>1. i \in 1 .. Len(S) /\ Len(R) - Len(S) + i \in 1 .. Len(R)
      BY <1>1, <1>2, <1>3, <2>2
    <3> QED BY <1>1, <1>2, <1>3, <2>1, <3>1
  <2>3. CASE i = Len(S) + 1
    <3>1. Len(R) - Len(S) + i = Len(R) + 1
      BY <1>1, <1>2, <2>3
    <3> QED BY <1>1, <1>2, <2>1, <2>3, <3>1
  <2> QED BY <1>1, <2>2, <2>3
<1>5. IsTail(a, b)
  BY <1>1, <1>2, <1>3, <1>4 DEF IsTail
<1> QED BY <1>5 DEF a, b

(* One more is sent. *)
LEMMA TailSent ==
  ASSUME NEW X, NEW S \in Seq(X), NEW R \in Seq(X), IsTail(S, R), S # <<>>
  PROVE  IsTail(Tail(S), R)
<1> DEFINE t == Tail(S)
<1>1. /\ Len(t) = Len(S) - 1 /\ Len(S) \in Nat \ {0} /\ Len(R) \in Nat
      /\ \A i \in 1 .. Len(S) - 1 : t[i] = S[i + 1]
  BY FirstElement, LenProperties
<1> HIDE DEF t
<1>2. ASSUME NEW i \in 1 .. Len(t) PROVE t[i] = R[Len(R) - Len(t) + i]
  <2>1. i + 1 \in 1 .. Len(S) /\ Len(R) - Len(S) + (i + 1) = Len(R) - Len(t) + i
    BY <1>1
  <2>2. S[i + 1] = R[Len(R) - Len(S) + (i + 1)]
    BY <2>1 DEF IsTail
  <2> QED BY <1>1, <2>1, <2>2
<1>3. Len(t) <= Len(R)
  BY <1>1 DEF IsTail
<1>4. IsTail(t, R)
  BY <1>2, <1>3 DEF IsTail
<1> QED BY <1>4 DEF t

(* If the first one to be answered is not sent yet, none is. *)
LEMMA TailWhole ==
  ASSUME NEW X, NEW S \in Seq(X), NEW R \in Seq(X), IsTail(S, R), Distinct(R),
         R # <<>>, Head(R) \in ToSet(S)
  PROVE  Len(S) = Len(R) /\ S # <<>> /\ Head(S) = Head(R)
<1>1. /\ ToSet(S) = {S[i] : i \in 1 .. Len(S)} /\ Len(S) \in Nat
      /\ Len(R) \in Nat \ {0} /\ Head(R) = R[1]
  BY ToSetElements, LenProperties, FirstElement
<1>2. PICK i \in 1 .. Len(S) : S[i] = R[1]
  BY <1>1
<1>3. Len(R) - Len(S) + i \in 1 .. Len(R) /\ R[Len(R) - Len(S) + i] = R[1] /\ 1 \in 1 .. Len(R)
  BY <1>1, <1>2 DEF IsTail
<1>4. Len(R) - Len(S) + i = 1
  BY <1>3 DEF Distinct
<1>5. Len(S) = Len(R) /\ i = 1
  BY <1>1, <1>4 DEF IsTail
<1>6. S # <<>>
  BY <1>1, <1>5, EmptySeq
<1> QED BY <1>1, <1>2, <1>5, <1>6, FirstElement

(* The first one is answered. *)
LEMMA TailAnswered ==
  ASSUME NEW X, NEW S \in Seq(X), NEW R \in Seq(X), IsTail(S, R),
         R # <<>>, Head(R) \notin ToSet(S)
  PROVE  IsTail(S, Tail(R))
<1> DEFINE t == Tail(R)
<1>1. /\ Len(t) = Len(R) - 1 /\ Len(R) \in Nat \ {0} /\ Len(S) \in Nat
      /\ \A i \in 1 .. Len(R) - 1 : t[i] = R[i + 1]
      /\ ToSet(S) = {S[i] : i \in 1 .. Len(S)} /\ Head(R) = R[1]
  BY FirstElement, LenProperties, ToSetElements
<1> HIDE DEF t
<1>2. Len(S) <= Len(R) /\ \A i \in 1 .. Len(S) : S[i] = R[Len(R) - Len(S) + i]
  BY DEF IsTail
<1>3. Len(S) <= Len(t)
  <2>1. ASSUME Len(S) = Len(R) PROVE FALSE
    <3>1. 1 \in 1 .. Len(S) /\ Len(R) - Len(S) + 1 = 1
      BY <1>1, <2>1
    <3>2. S[1] = R[1]
      BY <1>2, <3>1
    <3> QED BY <1>1, <3>1, <3>2
  <2> QED BY <1>1, <1>2, <2>1
<1>4. ASSUME NEW i \in 1 .. Len(S) PROVE S[i] = t[Len(t) - Len(S) + i]
  <2>1. /\ Len(t) - Len(S) + i \in 1 .. Len(R) - 1
        /\ Len(t) - Len(S) + i + 1 = Len(R) - Len(S) + i
    BY <1>1, <1>3
  <2> QED BY <1>1, <1>2, <2>1
<1>5. IsTail(S, t)
  BY <1>3, <1>4 DEF IsTail
<1> QED BY <1>5 DEF t

(* One is taken back. *)
LEMMA TailWithout ==
  ASSUME NEW X, NEW S \in Seq(X), NEW R \in Seq(X), IsTail(S, R), Distinct(R), NEW x
  PROVE  IsTail(Without(S, x), Without(R, x))
<1> DEFINE a == Without(S, x)
           b == Without(R, x)
           d == Len(R) - Len(S)
<1>1. /\ Len(S) \in Nat /\ Len(R) \in Nat /\ d \in Nat
      /\ \A i \in 1 .. Len(S) : S[i] = R[d + i]
      /\ ToSet(S) = {S[i] : i \in 1 .. Len(S)} /\ ToSet(R) = {R[i] : i \in 1 .. Len(R)}
  BY LenProperties, ToSetElements DEF IsTail
<1>2. CASE x \notin ToSet(R)
  <2>1. x \notin ToSet(S)
    BY <1>2, TailSet
  <2>2. a = S /\ b = R
    BY <1>2, <2>1, WithoutRemoves
  <2> QED BY <2>2
<1>3. CASE x \in ToSet(R)
  <2>1. PICK n \in 1 .. Len(R) :
          /\ R[n] = x /\ \A m \in 1 .. n - 1 : R[m] # x
          /\ Len(b) = Len(R) - 1
          /\ \A m \in 1 .. Len(R) - 1 : b[m] = IF m < n THEN R[m] ELSE R[m + 1]
    BY <1>3, WithoutRemoves
  <2>2. CASE n <= d
    <3>1. x \notin ToSet(S)
      <4>1. ASSUME NEW i \in 1 .. Len(S), S[i] = x PROVE FALSE
        <5>1. d + i \in 1 .. Len(R) /\ R[d + i] = R[n]
          BY <1>1, <2>1, <4>1
        <5>2. d + i = n
          BY <2>1, <5>1 DEF Distinct
        <5> QED BY <1>1, <2>2, <5>2
      <4> QED BY <1>1, <4>1
    <3>2. a = S
      BY <3>1, WithoutRemoves
    <3> HIDE DEF a, b
    <3>3. ASSUME NEW i \in 1 .. Len(S) PROVE S[i] = b[Len(b) - Len(S) + i]
      <4>1. /\ Len(b) - Len(S) + i \in 1 .. Len(R) - 1 /\ ~(Len(b) - Len(S) + i < n)
            /\ Len(b) - Len(S) + i + 1 = d + i
        BY <1>1, <2>1, <2>2
      <4> QED BY <1>1, <2>1, <4>1
    <3>4. Len(S) <= Len(b)
      BY <1>1, <2>1, <2>2
    <3>5. IsTail(a, b)
      BY <3>2, <3>3, <3>4 DEF IsTail
    <3> QED BY <3>5 DEF a, b
  <2>3. CASE d < n
    <3> DEFINE k == n - d
    <3>1. k \in 1 .. Len(S) /\ d + k = n
      BY <1>1, <2>1, <2>3
    <3> HIDE DEF k
    <3>2. S[k] = x
      BY <1>1, <2>1, <3>1
    <3>3. ASSUME NEW m \in 1 .. k - 1 PROVE S[m] # x
      <4>1. m \in 1 .. Len(S) /\ d + m \in 1 .. n - 1
        BY <1>1, <2>1, <3>1
      <4> QED BY <1>1, <2>1, <4>1
    <3>4. /\ Len(a) = Len(S) - 1
          /\ \A m \in 1 .. Len(S) - 1 : a[m] = IF m < k THEN S[m] ELSE S[m + 1]
      BY <3>1, <3>2, <3>3, WithoutAt
    <3> HIDE DEF a, b
    <3>5. ASSUME NEW i \in 1 .. Len(a) PROVE a[i] = b[Len(b) - Len(a) + i]
      <4>1. /\ Len(b) - Len(a) + i = d + i /\ d + i \in 1 .. Len(R) - 1
            /\ i \in 1 .. Len(S) - 1 /\ i \in 1 .. Len(S) /\ i + 1 \in 1 .. Len(S)
            /\ d + (i + 1) = d + i + 1
        BY <1>1, <2>1, <3>4
      <4>2. S[i] = R[d + i] /\ S[i + 1] = R[d + i + 1]
        BY <1>1, <4>1
      <4>3. a[i] = IF i < k THEN R[d + i] ELSE R[d + i + 1]
        BY <3>4, <4>1, <4>2
      <4>4. b[d + i] = IF d + i < n THEN R[d + i] ELSE R[d + i + 1]
        BY <2>1, <4>1
      <4>5. i < k <=> d + i < n
        BY <1>1, <2>1, <3>1
      <4> QED BY <4>1, <4>3, <4>4, <4>5
    <3>6. Len(a) <= Len(b)
      BY <1>1, <2>1, <3>4
    <3>7. IsTail(a, b)
      BY <3>5, <3>6 DEF IsTail
    <3> QED BY <3>7 DEF a, b
  <2> QED BY <1>1, <2>1, <2>2, <2>3
<1> QED BY <1>2, <1>3

LEMMA ReverseElements ==
  ASSUME NEW X, NEW q \in Seq(X)
  PROVE  /\ Reverse(q) \in Seq(X) /\ Len(Reverse(q)) = Len(q)
         /\ \A i \in 1 .. Len(q) : Reverse(q)[i] = q[Len(q) - i + 1]
<1> DEFINE a == Reverse(q)
           n == Len(q)
<1>1. n \in Nat /\ \A i \in 1 .. n : q[n - i + 1] \in X
  <2>1. n \in Nat
    BY LenProperties
  <2>2. ASSUME NEW i \in 1 .. n PROVE q[n - i + 1] \in X
    <3>1. n - i + 1 \in 1 .. Len(q)
      BY <2>1
    <3> QED BY <3>1, ElementOfSeq
  <2> QED BY <2>1, <2>2
<1>2. a \in [1 .. n -> X] /\ \A i \in 1 .. n : a[i] = q[n - i + 1]
  BY <1>1 DEF Reverse
<1> HIDE DEF a, n
<1>3. a \in Seq(X)
  BY <1>1, <1>2, SeqDef
<1>4. Len(a) \in Nat /\ 1 .. Len(a) = 1 .. n
  BY <1>2, <1>3, LenProperties
<1>5. Len(a) = n
  BY <1>1, <1>4
<1> QED BY <1>2, <1>3, <1>5 DEF a, n

LEMMA TailIsSuffix ==
  ASSUME NEW X, NEW S \in Seq(X), NEW R \in Seq(X), IsTail(S, R)
  PROVE  IsSuffix(S, R)
<1> DEFINE a == Reverse(S)
           b == Reverse(R)
           n == Len(S)
<1>1. n \in Nat /\ Len(R) \in Nat /\ n <= Len(R) /\ 1 \in Int
  BY LenProperties DEF IsTail
<1>2. a \in Seq(X) /\ Len(a) = n /\ \A i \in 1 .. n : a[i] = S[n - i + 1]
  BY ReverseElements
<1>3. b \in Seq(X) /\ Len(b) = Len(R) /\ \A i \in 1 .. Len(R) : b[i] = R[Len(R) - i + 1]
  BY ReverseElements
<1>4. \A i \in 1 .. n : S[i] = R[Len(R) - n + i]
  BY DEF IsTail
<1> HIDE DEF a, b, n
<1>5. ASSUME NEW i \in 1 .. n PROVE a[i] = b[i]
  <2>1. n - i + 1 \in 1 .. n /\ i \in 1 .. Len(R) /\ Len(R) - n + (n - i + 1) = Len(R) - i + 1
    BY <1>1
  <2>2. a[i] = S[n - i + 1] /\ S[n - i + 1] = R[Len(R) - n + (n - i + 1)] /\ b[i] = R[Len(R) - i + 1]
    BY <1>2, <1>3, <1>4, <2>1
  <2> QED BY <2>1, <2>2
<1> DEFINE c == SubSeq(a, 1, n)
           d == SubSeq(b, 1, n)
<1>6. c \in Seq(X) /\ Len(c) = n /\ \A i \in 1 .. n : c[i] = a[i]
  <2>1. \A i \in 1 .. n : a[i] \in X
    BY <1>1, <1>2, ElementOfSeq
  <2>2. /\ c \in Seq(X) /\ Len(c) = IF 1 <= n THEN n - 1 + 1 ELSE 0
        /\ \A i \in 1 .. n - 1 + 1 : c[i] = a[1 + i - 1]
    BY <1>1, <2>1, SubSeqProperties
  <2> HIDE DEF c
  <2> QED BY <1>1, <2>2
<1>7. d \in Seq(X) /\ Len(d) = n /\ \A i \in 1 .. n : d[i] = b[i]
  <2>1. \A i \in 1 .. n : b[i] \in X
    BY <1>1, <1>3, ElementOfSeq
  <2>2. /\ d \in Seq(X) /\ Len(d) = IF 1 <= n THEN n - 1 + 1 ELSE 0
        /\ \A i \in 1 .. n - 1 + 1 : d[i] = b[1 + i - 1]
    BY <1>1, <2>1, SubSeqProperties
  <2> HIDE DEF d
  <2> QED BY <1>1, <2>2
<1> HIDE DEF c, d
<1>8. c = d
  BY <1>5, <1>6, <1>7, SeqEqual
<1>9. Len(a) <= Len(b) /\ SubSeq(a, 1, Len(a)) = SubSeq(b, 1, Len(a))
  BY <1>1, <1>2, <1>3, <1>8 DEF c, d
<1>10. IsPrefix(a, b)
  BY <1>9 DEF IsPrefix
<1> QED BY <1>10 DEF IsSuffix, a, b
============================================================================
