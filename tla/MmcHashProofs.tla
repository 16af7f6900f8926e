--------------------------- MODULE MmcHashProofs ---------------------------
(* Safety of the hash strategies, for any servers, weights, hashes, numbers *)
(* of points and buckets, and any order in which qsort leaves equal points. *)
(*                                                                          *)
(* The heart is the invariant of the binary search (Window): all points     *)
(* below lo lie before the place that is looked up, and after the first     *)
(* turn the point at hi does not.  With sorted points (InOrder) the    *)
(* search then stops at the first point at or after the place, or wraps     *)
(* round (FoundNames).  The table is complete up to i (Filled), and the     *)
(* points are those of the servers that were added (PointsPlaced).  What    *)
(* is not filled yet is left over from the last complete table, made from   *)
(* a part of the points (Kept).                                             *)
EXTENDS MmcHash, SequenceTheorems, TLAPS

Filling == pc \in {"fill", "search"}

InOrder == Filling \/ buckets_populated => Sorted(points)

Window == pc = "search" =>
  /\ lo > 1 => Point(lo - 1) < Place(i)
  /\ lo > 1 \/ hi < Len(points) => Place(i) <= Point(hi)

Done(b) == buckets_populated \/ (Filling /\ b < i)

Filled == \A b \in Bucket : Done(b) => Names(Elements(points), Place(b), table[b])

PointsPlaced == strategy = "consistent" => Elements(points) = Placed

Kept == before # {} =>
  /\ before \subseteq Elements(points)
  /\ \A b \in Bucket : Done(b) \/ Names(before, Place(b), table[b])

Fresh == before = {} => \A b \in Bucket : Done(b) \/ table[b] = NoServer

Current == buckets_populated =>
  strategy = "consistent" /\ added # <<>> /\ before = Elements(points)

Looking == pc # "idle" =>
  strategy = "consistent" /\ added # <<>> /\ ~buckets_populated

NotEmpty == added # <<>> =>
  IF strategy = "consistent" THEN points # <<>> ELSE buckets # <<>>

Contents == Filled /\ PointsPlaced /\ Kept /\ Fresh /\ Current

Structure == SearchInBounds /\ InOrder /\ Window /\ Looking /\ NotEmpty

----------------------------------------------------------------------------
(* Facts about the definitions *)

LEMMA PlaceType == \A b \in Nat : Place(b) \in Nat
<1>1. (Space - 1) \div BUCKETS \in Nat
  BY HashAssumption
<1> DEFINE step == (Space - 1) \div BUCKETS
<1>2. step \in Nat
  BY <1>1
<1> HIDE DEF step
<1>3. \A b \in Nat : step * b \in Nat
  BY <1>2
<1> QED  BY <1>3 DEF step, Place

LEMMA HashBucket == \A h \in Nat : h % BUCKETS \in Bucket
BY HashAssumption DEF Bucket

(* A server's points are hashes, and all of them are among its positions. *)
LEMMA PointsOfType ==
  ASSUME NEW s \in Server, NEW weight \in 1 .. MaxWeight, position \in Positions
  PROVE  /\ PointsOf(s, weight) \in Seq([server : Server, point : Hash])
         /\ PointsOf(s, weight) # <<>>
         /\ \A p \in Elements(PointsOf(s, weight)) :
              p.server = s /\ \E k \in 1 .. MaxWeight * POINTS : p.point = position[s][k]
<1> DEFINE n == weight * POINTS
<1>1. n \in Nat /\ n >= 1 /\ n <= MaxWeight * POINTS
  BY HashAssumption
<1>2. position[s] \in [1 .. MaxWeight * POINTS -> Hash]
  BY HashAssumption DEF Hash
<1> DEFINE m == MaxWeight * POINTS
<1>3. m \in Nat
  BY HashAssumption
<1>4. PointsOf(s, weight) = [k \in 1 .. n |-> [server |-> s, point |-> position[s][k]]]
  BY DEF PointsOf
<1>5. 1 .. n \subseteq 1 .. m
  <2> HIDE DEF n, m
  <2> QED  BY <1>1, <1>3 DEF m
<1> HIDE DEF n, m
<1>6. \A k \in 1 .. n : position[s][k] \in Hash
  BY <1>2, <1>5 DEF m
<1>7. PointsOf(s, weight) \in Seq([server : Server, point : Hash])
  BY <1>1, <1>4, <1>6
<1>8. PointsOf(s, weight) # <<>>
  BY <1>1, <1>4, 1 \in 1 .. n
<1>9. ASSUME NEW p \in Elements(PointsOf(s, weight))
      PROVE  p.server = s /\ \E k \in 1 .. MaxWeight * POINTS : p.point = position[s][k]
  BY <1>4, <1>5 DEF Elements, m
<1> QED  BY <1>7, <1>8, <1>9

LEMMA ElementsConcat ==
  ASSUME NEW S, NEW p \in Seq(S), NEW q \in Seq(S)
  PROVE  Elements(p \o q) = Elements(p) \cup Elements(q)
<1>1. p \o q \in Seq(S) /\ Len(p \o q) = Len(p) + Len(q) /\ Len(p) \in Nat /\ Len(q) \in Nat
  OBVIOUS
<1>2. \A k \in 1 .. Len(p) : (p \o q)[k] = p[k]
  OBVIOUS
<1>3. \A k \in 1 .. Len(q) : (p \o q)[Len(p) + k] = q[k] /\ Len(p) + k \in 1 .. Len(p \o q)
  BY <1>1
<1>4. \A k \in 1 .. Len(p \o q) : k \in 1 .. Len(p) \/ (k - Len(p) \in 1 .. Len(q) /\ (p \o q)[k] = q[k - Len(p)])
  BY <1>1
<1>5. DOMAIN p = 1 .. Len(p) /\ DOMAIN q = 1 .. Len(q) /\ DOMAIN (p \o q) = 1 .. Len(p \o q)
  BY <1>1
<1>6. Elements(p \o q) \subseteq Elements(p) \cup Elements(q)
  BY <1>2, <1>4, <1>5 DEF Elements
<1>7. Elements(p) \subseteq Elements(p \o q)
  BY <1>1, <1>2, <1>5 DEF Elements
<1>8. Elements(q) \subseteq Elements(p \o q)
  BY <1>3, <1>5 DEF Elements
<1> QED  BY <1>6, <1>7, <1>8

LEMMA PointType ==
  ASSUME points \in Seq([server : Server, point : Hash])
  PROVE  \A k \in 1 .. Len(points) : Point(k) \in Nat /\ points[k].server \in Server
<1>1. Hash \subseteq Nat
  BY HashAssumption DEF Hash
<1>2. \A k \in 1 .. Len(points) : points[k] \in [server : Server, point : Hash]
  BY ElementOfSeq
<1> QED  BY <1>1, <1>2 DEF Point

(* A point that the ones before it do not reach, and that is at or after x   *)
(* itself or the first one of all when x lies behind the last, is x's.       *)
LEMMA FoundNames ==
  ASSUME points \in Seq([server : Server, point : Hash]), Sorted(points),
         NEW x \in Nat, NEW k \in 1 .. Len(points),
         k > 1 => Point(k - 1) < x,
         x <= Point(k) \/ (k = 1 /\ x > Point(Len(points)))
  PROVE  Names(Elements(points), x, points[k].server)
<1>1. \A j \in 1 .. Len(points) : Point(j) \in Nat
  BY PointType
<1>2. \A j, l \in 1 .. Len(points) : j < l => Point(j) <= Point(l)
  <2>1. DOMAIN points = 1 .. Len(points)
    OBVIOUS
  <2> QED  BY <2>1 DEF Sorted, Point
<1>3. Len(points) \in Nat /\ Len(points) >= 1
  OBVIOUS
<1>4. points[k] \in Elements(points)
  BY DEF Elements
<1>5. \A q \in Elements(points) : \E j \in 1 .. Len(points) : q = points[j] /\ q.point = Point(j)
  BY DEF Elements, Point
<1>6. CASE x <= Point(k)
  <2>1. \A j \in 1 .. Len(points) : Point(j) >= x => Point(k) <= Point(j)
    <3>1. TAKE j \in 1 .. Len(points)
    <3>2. CASE j < k
      <4>1. k > 1 /\ k - 1 \in 1 .. Len(points) /\ j <= k - 1
        BY <3>2
      <4>2. Point(j) <= Point(k - 1)
        BY <4>1, <1>1, <1>2
      <4>3. Point(k - 1) < x
        BY <4>1
      <4> QED  BY <4>1, <4>2, <4>3, <1>1
    <3>3. CASE j >= k
      BY <3>3, <1>1, <1>2
    <3> QED  BY <3>2, <3>3
  <2>2. \A q \in Elements(points) : q.point >= x => points[k].point <= q.point
    BY <2>1, <1>5 DEF Point
  <2>3. points[k].point >= x
    BY <1>6, <1>1 DEF Point
  <2> QED  BY <2>2, <2>3, <1>4 DEF Names
<1>7. CASE k = 1 /\ x > Point(Len(points))
  <2>1. \A j \in 1 .. Len(points) : Point(j) < x /\ Point(1) <= Point(j)
    BY <1>1, <1>2, <1>3, <1>7
  <2>2. \A q \in Elements(points) : q.point < x /\ points[k].point <= q.point
    BY <2>1, <1>5, <1>7 DEF Point
  <2> QED  BY <2>2, <1>4 DEF Names
<1> QED  BY <1>6, <1>7

(* A table that is right for a set of points is right for a part of it as    *)
(* long as the points it names are in that part.                             *)
LEMMA NamesPart ==
  ASSUME NEW S, NEW T \in SUBSET S, NEW x \in Nat, NEW p \in T,
         \A q \in S : q.point \in Nat,
         \/ p.point >= x /\ \A q \in S : q.point >= x => p.point <= q.point
         \/ \A q \in S : q.point < x /\ p.point <= q.point
  PROVE  Names(T, x, p.server)
BY DEF Names

(* Where no two servers have a point in common, one server is named.         *)
LEMMA NamesOne ==
  ASSUME NEW S, NEW x \in Nat, NEW s, NEW t, Names(S, x, s), Names(S, x, t),
         \A q \in S : q.point \in Nat,
         \A p, q \in S : p.point = q.point => p.server = q.server
  PROVE  s = t
<1>1. PICK p \in S : /\ p.server = s
                     /\ \/ p.point >= x /\ \A q \in S : q.point >= x => p.point <= q.point
                        \/ \A q \in S : q.point < x /\ p.point <= q.point
  BY DEF Names
<1>2. PICK r \in S : /\ r.server = t
                     /\ \/ r.point >= x /\ \A q \in S : q.point >= x => r.point <= q.point
                        \/ \A q \in S : q.point < x /\ r.point <= q.point
  BY DEF Names
<1>3. p.point = r.point
  BY <1>1, <1>2
<1> QED  BY <1>1, <1>2, <1>3

----------------------------------------------------------------------------
(* The structure: types, order and the window of the search *)

LEMMA InitStructure == Init => Structure
<1> SUFFICES ASSUME Init  PROVE Structure
  OBVIOUS
<1>1. position \in Positions /\ strategy \in {"consistent", "standard"}
  BY DEF Init
<1>2. 0 \in Hash
  BY HashAssumption DEF Hash
<1>3. points = <<>> /\ buckets = <<>> /\ added = <<>> /\ buckets_populated = FALSE
      /\ table = [b \in Bucket |-> NoServer]
  BY DEF Init, Cleared
<1>4. pc = "idle" /\ hash = 0 /\ i = 0 /\ answer = NoServer
  BY DEF Init
<1>5. 0 \in 0 .. BUCKETS
  BY HashAssumption
<1>6. SearchInBounds
  <2>1. points \in Seq([server : Server, point : Hash]) /\ buckets \in Seq(Server)
        /\ added \in Seq([server : Server, weight : 1 .. MaxWeight])
    BY <1>3
  <2>2. table \in [Bucket -> Server \cup {NoServer}]
    BY <1>3
  <2>3. buckets_populated \in BOOLEAN
    BY <1>3
  <2>4. Len(points) <= MaxPoints
    BY <1>3, HashAssumption
  <2>5. pc \in {"idle", "sort", "fill", "search"} /\ hash \in Hash /\ i \in 0 .. BUCKETS
        /\ answer \in Server \cup {NoServer} /\ pc # "search"
    BY <1>2, <1>4, <1>5
  <2> QED  BY <1>1, <2>1, <2>2, <2>3, <2>4, <2>5, Zenon DEF SearchInBounds
<1>7. InOrder /\ Window /\ Looking /\ NotEmpty
  BY <1>3, <1>4 DEF InOrder, Filling, Window, Looking, NotEmpty
<1> QED  BY <1>6, <1>7 DEF Structure

LEMMA AddStructure ==
  ASSUME Structure, NEW s \in Server, NEW weight \in 1 .. MaxWeight, Add(s, weight)
  PROVE  Structure'
<1> USE DEF Structure
<1>1. UNCHANGED <<strategy, position, pc, hash, i, lo, hi>> /\ pc = "idle" /\ answer' = NoServer
  BY DEF Add, locals
<1>2. PointsOf(s, weight) \in Seq([server : Server, point : Hash])
  BY PointsOfType DEF SearchInBounds
<1>3. points' \in Seq([server : Server, point : Hash]) /\ buckets' \in Seq(Server)
      /\ table' = table /\ buckets_populated' \in BOOLEAN
  <2>1. CASE AddConsistent(s, weight)
    <3>1. points' = points \o PointsOf(s, weight) /\ buckets' = buckets /\ table' = table
      BY <2>1 DEF AddConsistent
    <3>2. buckets_populated' \in BOOLEAN
      BY <2>1 DEF AddConsistent
    <3> QED  BY <3>1, <3>2, <1>2 DEF SearchInBounds
  <2>2. CASE AddStandard(s, weight)
    <3>1. [k \in 1 .. weight |-> s] \in Seq(Server)
      BY HashAssumption
    <3> QED  BY <2>2, <3>1 DEF AddStandard, SearchInBounds
  <2> QED  BY <2>1, <2>2 DEF Add
<1>4. added' \in Seq([server : Server, weight : 1 .. MaxWeight])
  BY DEF Add, SearchInBounds
<1>5. SearchInBounds'
  <2>1. Len(points') <= MaxPoints
    <3>1. CASE AddConsistent(s, weight)
      <4>1. points' = points \o PointsOf(s, weight)
        BY <3>1 DEF AddConsistent
      <4>2. Len(PointsOf(s, weight)) = weight * POINTS
        BY <1>2, HashAssumption DEF PointsOf
      <4>3. Len(points') = Len(points) + weight * POINTS
        <5> DEFINE new == PointsOf(s, weight)
        <5> HIDE DEF new
        <5>1. Len(points \o new) = Len(points) + Len(new)
          BY <1>2 DEF SearchInBounds, new
        <5> QED  BY <5>1, <4>1, <4>2 DEF new
      <4> QED  BY <4>3 DEF Add
    <3>2. CASE AddStandard(s, weight)
      BY <3>2 DEF AddStandard, SearchInBounds
    <3> QED  BY <3>1, <3>2 DEF Add
  <2>2. pc' # "search" /\ i' \in 0 .. BUCKETS
    BY <1>1 DEF SearchInBounds
  <2> QED  BY <1>1, <1>3, <1>4, <2>1, <2>2 DEF SearchInBounds
<1>6. Window' /\ Looking'
  BY <1>1 DEF Window, Looking
<1>7. InOrder'
  <2>1. CASE AddConsistent(s, weight)
    BY <2>1, <1>1 DEF AddConsistent, InOrder, Filling
  <2>2. CASE AddStandard(s, weight)
    BY <2>2, <1>1 DEF AddStandard, InOrder, Filling, Sorted
  <2> QED  BY <2>1, <2>2 DEF Add
<1>8. NotEmpty'
  <2>1. CASE AddConsistent(s, weight)
    <3>1. strategy' = "consistent" /\ points' = points \o PointsOf(s, weight)
      BY <2>1, <1>1 DEF AddConsistent
    <3>2. points' # <<>>
      <4> DEFINE new == PointsOf(s, weight)
      <4> HIDE DEF new
      <4>1. points \in Seq([server : Server, point : Hash])
            /\ new \in Seq([server : Server, point : Hash]) /\ new # <<>>
        BY PointsOfType DEF SearchInBounds, new
      <4>2. points \o new # <<>>
        BY <4>1
      <4> QED  BY <3>1, <4>2 DEF new
    <3> QED  BY <3>1, <3>2 DEF NotEmpty
  <2>2. CASE AddStandard(s, weight)
    <3>1. strategy' = "standard" /\ buckets' = buckets \o [k \in 1 .. weight |-> s]
      BY <2>2, <1>1 DEF AddStandard
    <3>2. [k \in 1 .. weight |-> s] \in Seq(Server) /\ [k \in 1 .. weight |-> s] # <<>>
      BY HashAssumption
    <3>3. buckets' # <<>>
      <4> DEFINE new == [k \in 1 .. weight |-> s]
      <4> HIDE DEF new
      <4>1. buckets \in Seq(Server) /\ new \in Seq(Server) /\ new # <<>>
        BY <3>2 DEF SearchInBounds, new
      <4>2. buckets \o new # <<>>
        BY <4>1
      <4> QED  BY <3>1, <4>2 DEF new
    <3> QED  BY <3>1, <3>3 DEF NotEmpty
  <2> QED  BY <2>1, <2>2 DEF Add
<1> QED  BY <1>5, <1>6, <1>7, <1>8

LEMMA CloseStructure ==
  ASSUME Structure, Close
  PROVE  Structure'
<1>1. UNCHANGED <<strategy, position, pc, hash, i, lo, hi>> /\ pc = "idle" /\ answer' = NoServer
  BY DEF Close, locals
<1>2. points' = <<>> /\ Len(points') = 0 /\ buckets' = <<>> /\ added' = <<>> /\ buckets_populated' = FALSE
      /\ table' = [b \in Bucket |-> NoServer]
  BY DEF Close, Cleared
<1>3. SearchInBounds'
  <2>1. points' \in Seq([server : Server, point : Hash]) /\ buckets' \in Seq(Server)
        /\ added' \in Seq([server : Server, weight : 1 .. MaxWeight])
    BY <1>2
  <2>2. table' \in [Bucket -> Server \cup {NoServer}] /\ buckets_populated' \in BOOLEAN
    BY <1>2
  <2>3. Len(points') <= MaxPoints
    BY <1>2, HashAssumption
  <2> QED  BY <1>1, <2>1, <2>2, <2>3 DEF Structure, SearchInBounds
<1>4. InOrder' /\ Window' /\ Looking' /\ NotEmpty'
  BY <1>1, <1>2 DEF InOrder, Filling, Window, Looking, NotEmpty
<1> QED  BY <1>3, <1>4 DEF Structure

LEMMA FindStructure ==
  ASSUME Structure, NEW h \in KeyHashes, Find(h)
  PROVE  Structure'
<1> USE DEF Structure
<1>1. /\ UNCHANGED <<strategy, position, i, lo, hi>> /\ UNCHANGED structure
      /\ pc = "idle" /\ added # <<>> /\ hash' = h
  BY DEF Find, FindStandard, FindConsistent, locals
<1>2. h \in Hash /\ h \in Nat
  BY HashAssumption DEF Hash
<1>3. /\ pc' \in {"idle", "sort"} /\ answer' \in Server \cup {NoServer}
      /\ pc' = "sort" => strategy = "consistent" /\ ~buckets_populated
  <2>1. CASE FindStandard(h)
    <3> DEFINE index == (h \div Shift) % Mask
               k == ((IF index = 0 THEN 1 ELSE index) % Len(buckets)) + 1
    <3>1. Len(buckets) \in Nat /\ Len(buckets) >= 1
      BY <2>1, <1>1 DEF FindStandard, NotEmpty, SearchInBounds
    <3>2. index \in Nat
      <4>1. h \div Shift \in Nat
        BY <1>2, HashAssumption
      <4> QED  BY <4>1, HashAssumption
    <3>3. k \in 1 .. Len(buckets) /\ 1 \in 1 .. Len(buckets)
      <4> HIDE DEF index
      <4> QED  BY <3>1, <3>2
    <3>4. pc' = "idle" /\ answer' \in {buckets[k], buckets[1]}
      BY <2>1 DEF FindStandard, Answer
    <3> HIDE DEF k
    <3>5. buckets[k] \in Server /\ buckets[1] \in Server
      BY <3>3, ElementOfSeq DEF SearchInBounds
    <3> QED  BY <3>4, <3>5
  <2>2. CASE FindConsistent(h)
    <3>1. CASE Len(added) = 1
      <4>1. Len(points) \in Nat /\ Len(points) >= 1
        BY <2>2, <1>1 DEF FindConsistent, NotEmpty, SearchInBounds
      <4>2. points[1].server \in Server
        BY <4>1, PointType DEF SearchInBounds
      <4> QED  BY <2>2, <3>1, <4>2 DEF FindConsistent, Answer
    <3>2. CASE Len(added) # 1 /\ buckets_populated
      <4>1. table[h % BUCKETS] \in Server \cup {NoServer}
        BY <1>2, HashBucket DEF SearchInBounds
      <4> QED  BY <2>2, <3>2, <4>1 DEF FindConsistent, Answer
    <3>3. CASE Len(added) # 1 /\ ~buckets_populated
      BY <2>2, <3>3 DEF FindConsistent, SearchInBounds
    <3> QED  BY <3>1, <3>2, <3>3
  <2> QED  BY <2>1, <2>2 DEF Find
<1>4. SearchInBounds'
  BY <1>1, <1>2, <1>3 DEF SearchInBounds, structure
<1>5. InOrder' /\ Window' /\ Looking' /\ NotEmpty'
  BY <1>1, <1>3 DEF InOrder, Filling, Window, Looking, NotEmpty, structure, Sorted
<1> QED  BY <1>4, <1>5

(* qsort puts the same points in order.                                      *)
LEMMA SortStructure ==
  ASSUME Structure, Sort
  PROVE  Structure' /\ Elements(points') = Elements(points)
<1> USE DEF Structure
<1>0. Len(points) \in 0 .. MaxPoints
  BY HashAssumption DEF SearchInBounds
<1>1. PICK f \in Orders[Len(points)] :
        points' = [k \in 1 .. Len(points) |-> points[f[k]]] /\ Sorted(points')
  BY DEF Sort
<1>2. /\ UNCHANGED <<strategy, position, table, buckets_populated, buckets, added, hash, lo, hi, answer>>
      /\ pc = "sort" /\ pc' = "fill" /\ i' = 0
  BY DEF Sort
<1>3. /\ \A k \in 1 .. Len(points) : f[k] \in 1 .. Len(points)
      /\ \A k \in 1 .. Len(points) : \E j \in 1 .. Len(points) : f[j] = k
  BY <1>0, OrdersAssumption
<1>4. Len(points) \in Nat
  BY DEF SearchInBounds
<1>5. \A k \in 1 .. Len(points) : points[k] \in [server : Server, point : Hash]
  BY ElementOfSeq DEF SearchInBounds
<1>6. points' \in Seq([server : Server, point : Hash]) /\ Len(points') = Len(points)
  BY <1>1, <1>3, <1>4, <1>5
<1>7. 0 \in 0 .. BUCKETS
  BY HashAssumption
<1>8. SearchInBounds'
  BY <1>2, <1>6, <1>7 DEF SearchInBounds
<1>9. InOrder' /\ Window' /\ Looking'
  BY <1>1, <1>2 DEF InOrder, Window, Looking
<1>10. NotEmpty'
  BY <1>2, <1>4, <1>6 DEF NotEmpty, SearchInBounds
<1>11. Elements(points') = Elements(points)
  <2>1. DOMAIN points = 1 .. Len(points) /\ DOMAIN points' = 1 .. Len(points)
    BY <1>6 DEF SearchInBounds
  <2>2. \A k \in 1 .. Len(points) : points'[k] = points[f[k]]
    BY <1>1
  <2>3. ASSUME NEW k \in 1 .. Len(points)  PROVE points'[k] \in Elements(points)
    BY <2>1, <2>2, <1>3 DEF Elements
  <2>4. ASSUME NEW k \in 1 .. Len(points)  PROVE points[k] \in Elements(points')
    <3>1. PICK j \in 1 .. Len(points) : f[j] = k
      BY <1>3
    <3> QED  BY <3>1, <2>1, <2>2 DEF Elements
  <2> QED  BY <2>1, <2>3, <2>4 DEF Elements
<1> QED  BY <1>8, <1>9, <1>10, <1>11

LEMMA FillStructure ==
  ASSUME Structure, Fill
  PROVE  Structure'
<1> USE DEF Structure
<1>1. /\ UNCHANGED <<strategy, position, hash, i, answer>> /\ UNCHANGED structure
      /\ pc = "fill" /\ i < BUCKETS /\ pc' = "search" /\ lo' = 1 /\ hi' = Len(points)
  BY DEF Fill
<1>2. Len(points) \in Nat /\ Len(points) >= 1
  BY <1>1 DEF Looking, NotEmpty, SearchInBounds
<1>3. SearchInBounds'
  BY <1>1, <1>2 DEF SearchInBounds, structure
<1>4. Window'
  BY <1>1, <1>2 DEF Window, structure
<1>5. InOrder' /\ Looking' /\ NotEmpty'
  BY <1>1 DEF InOrder, Filling, Looking, NotEmpty, structure
<1> QED  BY <1>3, <1>4, <1>5

LEMMA PopulatedStructure ==
  ASSUME Structure, Populated
  PROVE  Structure'
<1> USE DEF Structure
<1>1. /\ UNCHANGED <<strategy, position, points, table, buckets, added, hash>>
      /\ pc = "fill" /\ i = BUCKETS /\ pc' = "idle" /\ i' = 0
      /\ buckets_populated' = TRUE /\ answer' = table[hash % BUCKETS]
  BY DEF Populated, Answer
<1>2. table[hash % BUCKETS] \in Server \cup {NoServer}
  <2>1. hash \in Nat
    BY HashAssumption DEF SearchInBounds, Hash
  <2> QED  BY <2>1, HashBucket DEF SearchInBounds
<1>3. 0 \in 0 .. BUCKETS /\ buckets_populated' \in BOOLEAN
  BY <1>1, HashAssumption
<1>4. SearchInBounds'
  BY <1>1, <1>2, <1>3 DEF SearchInBounds
<1>5. InOrder' /\ Window' /\ Looking' /\ NotEmpty'
  BY <1>1 DEF InOrder, Filling, Window, Looking, NotEmpty
<1> QED  BY <1>4, <1>5

(* What the search finds.                                                    *)
LEMMA SearchFinds ==
  ASSUME Structure, Search
  PROVE  \/ /\ \E k \in 1 .. Len(points) :
                  /\ FoundAt(k)
                  /\ Names(Elements(points), Place(i), points[k].server)
         \/ ~Outside(Place(i)) /\ ~Matches(Place(i)) /\ Narrow(Place(i))
<1> USE DEF Structure
<1> DEFINE x == Place(i)
<1>1. pc = "search" /\ i \in Bucket /\ i \in Nat
  BY HashAssumption DEF Search, SearchInBounds, Bucket
<1>2. x \in Nat
  BY <1>1, PlaceType
<1>3. Sorted(points) /\ points \in Seq([server : Server, point : Hash])
  BY <1>1 DEF InOrder, Filling, SearchInBounds
<1>4. \A k \in 1 .. Len(points) : Point(k) \in Nat
  BY <1>3, PointType
<1>5. Len(points) \in Nat /\ lo \in 1 .. Len(points) /\ hi \in 1 .. Len(points) /\ lo <= hi
  BY <1>1, <1>3 DEF SearchInBounds
<1>6. /\ lo > 1 => Point(lo - 1) < x
      /\ lo > 1 \/ hi < Len(points) => x <= Point(hi)
  BY <1>1 DEF Window
<1> HIDE DEF x
<1>7. CASE Outside(x) /\ FoundAt(lo)
  <2>1. x <= Point(lo) \/ (lo = 1 /\ x > Point(Len(points)))
    <3>1. CASE x > Point(hi)
      <4>1. lo = 1 /\ hi = Len(points)
        BY <3>1, <1>2, <1>4, <1>5, <1>6
      <4> QED  BY <3>1, <4>1
    <3> QED  BY <3>1, <1>7 DEF Outside
  <2>2. Names(Elements(points), x, points[lo].server)
    BY <2>1, <1>2, <1>3, <1>5, <1>6, FoundNames
  <2> QED  BY <2>2, <1>5, <1>7 DEF x
<1>8. CASE ~Outside(x) /\ Matches(x) /\ FoundAt(mid)
  <2>1. mid \in 1 .. Len(points)
    BY <1>5 DEF mid
  <2>2. x <= Point(mid) /\ (mid > 1 => Point(mid - 1) < x)
    <3>1. CASE mid > 1
      <4>1. x > Point(mid - 1) /\ x <= Point(mid)
        BY <1>8, <3>1 DEF Matches
      <4>2. mid - 1 \in 1 .. Len(points)
        BY <2>1, <3>1
      <4> QED  BY <4>1, <4>2, <1>2, <1>4
    <3>2. CASE ~(mid > 1)
      BY <1>8, <3>2 DEF Matches
    <3> QED  BY <3>1, <3>2
  <2> HIDE DEF mid
  <2>3. Names(Elements(points), x, points[mid].server)
    BY <2>1, <2>2, <1>2, <1>3, FoundNames
  <2> QED  BY <2>1, <2>3, <1>8 DEF x
<1>9. CASE ~Outside(x) /\ ~Matches(x) /\ Narrow(x)
  BY <1>9 DEF x
<1> QED  BY <1>7, <1>8, <1>9 DEF Search, x

(* lo and hi do not cross, and the place stays between them.                 *)
LEMMA NarrowWindow ==
  ASSUME Structure, pc = "search", ~Outside(Place(i)), ~Matches(Place(i)), Narrow(Place(i))
  PROVE  /\ lo' \in 1 .. Len(points) /\ hi' \in 1 .. Len(points) /\ lo' <= hi'
         /\ lo' > 1 => Point(lo' - 1) < Place(i)
         /\ lo' > 1 \/ hi' < Len(points) => Place(i) <= Point(hi')
<1> USE DEF Structure
<1> DEFINE x == Place(i)
<1>1. i \in Nat /\ Len(points) \in Nat /\ points \in Seq([server : Server, point : Hash])
  BY HashAssumption DEF SearchInBounds
<1>2. x \in Nat
  BY <1>1, PlaceType
<1>3. \A k \in 1 .. Len(points) : Point(k) \in Nat
  BY <1>1, PointType
<1>4. Len(points) \in Nat /\ lo \in 1 .. Len(points) /\ hi \in 1 .. Len(points) /\ lo <= hi
  BY <1>1 DEF SearchInBounds
<1>5. mid \in lo .. hi /\ (mid = hi => lo = hi)
  BY <1>4 DEF mid
<1>6. lo > 1 => Point(lo - 1) < x
  BY DEF Window
<1> HIDE DEF x, mid
<1>7. Point(lo) < x /\ x <= Point(hi)
  BY <1>2, <1>3, <1>4 DEF Outside, x
<1>8. lo # hi
  BY <1>7, <1>2, <1>3, <1>4
<1>9. mid \in 1 .. Len(points) /\ mid < hi
  BY <1>4, <1>5, <1>8
<1>10. CASE Point(mid) < x
  <2>1. lo' = mid + 1 /\ hi' = hi
    BY <1>10 DEF Narrow, x
  <2>2. lo' - 1 = mid
    BY <2>1, <1>9
  <2> QED  BY <2>1, <2>2, <1>4, <1>7, <1>9, <1>10 DEF x
<1>11. CASE ~(Point(mid) < x)
  <2>1. hi' = mid - 1 /\ lo' = lo
    BY <1>11 DEF Narrow, x
  <2>2. x <= Point(mid)
    BY <1>2, <1>3, <1>9, <1>11
  <2>3. mid > 1 /\ x <= Point(mid - 1)
    <3>1. CASE mid > 1
      <4>1. mid - 1 \in 1 .. Len(points) /\ ~(x > Point(mid - 1))
        BY <2>2, <3>1, <1>9 DEF Matches, x
      <4> QED  BY <4>1, <3>1, <1>2, <1>3
    <3>2. CASE ~(mid > 1)
      <4>1. mid = lo
        BY <3>2, <1>4, <1>5, <1>9
      <4> QED  BY <4>1, <2>2, <1>2, <1>3, <1>4, <1>7
    <3> QED  BY <3>1, <3>2
  <2>4. mid > lo
    <3>1. CASE mid = lo
      BY <3>1, <2>2, <1>2, <1>3, <1>4, <1>7
    <3> QED  BY <3>1, <1>4, <1>5, <1>9
  <2> QED  BY <2>1, <2>3, <2>4, <1>4, <1>6, <1>9 DEF x
<1> QED  BY <1>10, <1>11

LEMMA SearchStructure ==
  ASSUME Structure, Search
  PROVE  Structure'
<1> USE DEF Structure
<1>1. /\ UNCHANGED <<strategy, position, buckets_populated, buckets, added, hash, answer, points>>
      /\ pc = "search"
  BY DEF Search, FoundAt, Narrow
<1>2. NotEmpty' /\ (pc' # "idle" => Looking')
  BY <1>1 DEF NotEmpty, Looking
<1>3. ASSUME NEW k \in 1 .. Len(points), FoundAt(k)  PROVE Structure'
  <2>1. table' = [table EXCEPT ![i] = points[k].server] /\ i' = i + 1 /\ pc' = "fill"
    BY <1>3 DEF FoundAt
  <2>2. points[k].server \in Server
    BY PointType DEF SearchInBounds
  <2>3. SearchInBounds'
    <3>1. i' \in 0 .. BUCKETS
      BY <1>1, <2>1, HashAssumption DEF SearchInBounds
    <3>2. table' \in [Bucket -> Server \cup {NoServer}]
      BY <2>1, <2>2 DEF SearchInBounds
    <3> QED  BY <1>1, <2>1, <3>1, <3>2 DEF SearchInBounds
  <2>4. InOrder' /\ Window'
    BY <1>1, <2>1 DEF InOrder, Filling, Window, Sorted
  <2> QED  BY <2>1, <2>3, <2>4, <1>2
<1>4. CASE ~Outside(Place(i)) /\ ~Matches(Place(i)) /\ Narrow(Place(i))
  <2>1. UNCHANGED <<pc, i, table, points>>
    BY <1>4 DEF Narrow
  <2>2. /\ lo' \in 1 .. Len(points) /\ hi' \in 1 .. Len(points) /\ lo' <= hi'
        /\ lo' > 1 => Point(lo' - 1) < Place(i)
        /\ lo' > 1 \/ hi' < Len(points) => Place(i) <= Point(hi')
    BY <1>1, <1>4, NarrowWindow
  <2>3. SearchInBounds'
    BY <1>1, <2>1, <2>2 DEF SearchInBounds
  <2>4. InOrder'
    BY <1>1, <2>1 DEF InOrder, Filling, Sorted
  <2>5. Window'
    BY <1>1, <2>1, <2>2 DEF Window, Point, Place
  <2> QED  BY <1>1, <1>2, <2>1, <2>3, <2>4, <2>5
<1> QED  BY <1>3, <1>4, SearchFinds

LEMMA NextStructure ==
  ASSUME Structure, [Next]_vars
  PROVE  Structure'
<1>1. ASSUME NEW s \in Server, NEW weight \in 1 .. MaxWeight, Add(s, weight)  PROVE Structure'
  BY <1>1, AddStructure
<1>2. CASE Close
  BY <1>2, CloseStructure
<1>3. ASSUME NEW h \in KeyHashes, Find(h)  PROVE Structure'
  BY <1>3, FindStructure
<1>4. CASE Sort
  BY <1>4, SortStructure
<1>5. CASE Fill
  BY <1>5, FillStructure
<1>6. CASE Populated
  BY <1>6, PopulatedStructure
<1>7. CASE Search
  BY <1>7, SearchStructure
<1>8. CASE UNCHANGED vars
  BY <1>8 DEF vars, structure, locals, Structure, SearchInBounds, InOrder, Filling, Sorted, Window,
              Point, Looking, NotEmpty
<1> QED  BY <1>1, <1>2, <1>3, <1>4, <1>5, <1>6, <1>7, <1>8 DEF Next, Lookup

(* The structures of both strategies have their types in every reachable    *)
(* state, and the binary search of mmc_consistent_find never reads a point  *)
(* that does not exist, for any numbers of points and buckets.              *)
THEOREM SearchInBoundsInvariant == Spec => []SearchInBounds
<1>1. Structure => SearchInBounds
  BY DEF Structure
<1> QED  BY <1>1, InitStructure, NextStructure, PTL DEF Spec

----------------------------------------------------------------------------
(* The contents: what the table and the points are *)

LEMMA ElementsType ==
  ASSUME SearchInBounds
  PROVE  \A q \in Elements(points) : q.point \in Nat
<1>1. \A k \in 1 .. Len(points) : points[k].point \in Nat
  BY PointType DEF SearchInBounds, Point
<1>2. DOMAIN points = 1 .. Len(points)
  BY DEF SearchInBounds
<1> QED  BY <1>1, <1>2 DEF Elements

LEMMA ElementsNonempty ==
  ASSUME SearchInBounds, points # <<>>
  PROVE  Elements(points) # {}
<1>1. DOMAIN points = 1 .. Len(points) /\ Len(points) \in Nat
  BY DEF SearchInBounds
<1>2. Len(points) >= 1
  BY DEF SearchInBounds
<1>3. 1 \in DOMAIN points
  BY <1>1, <1>2
<1>4. points[1] \in Elements(points)
  BY <1>3 DEF Elements
<1> QED  BY <1>4

LEMMA PlacedAppend ==
  ASSUME SearchInBounds, NEW s \in Server, NEW weight \in 1 .. MaxWeight,
         position' = position, added' = Append(added, [server |-> s, weight |-> weight])
  PROVE  Placed' = Placed \cup Elements(PointsOf(s, weight))
<1>1. added \in Seq([server : Server, weight : 1 .. MaxWeight]) /\ Len(added) \in Nat
  BY DEF SearchInBounds
<1> DEFINE rec == [server |-> s, weight |-> weight]
<1>2. /\ DOMAIN added = 1 .. Len(added) /\ DOMAIN added' = 1 .. Len(added) + 1
      /\ \A k \in 1 .. Len(added) : added'[k] = added[k]
      /\ added'[Len(added) + 1] = rec
  BY <1>1
<1> DEFINE Of(r) == Elements(PointsOf(r.server, r.weight))
<1>3. Placed = UNION {Of(added[k]) : k \in DOMAIN added}
  BY DEF Placed
<1>4. Placed' = UNION {Of(added'[k]) : k \in DOMAIN added'}
  BY DEF Placed, PointsOf, Elements
<1>5. Of(rec) = Elements(PointsOf(s, weight))
  OBVIOUS
<1> HIDE DEF Of, rec
<1> QED  BY <1>1, <1>2, <1>3, <1>4, <1>5

LEMMA PlacedUnchanged ==
  ASSUME UNCHANGED <<position, added>>
  PROVE  Placed' = Placed
BY DEF Placed, PointsOf, Elements

LEMMA InitContents == Init => Contents
<1> SUFFICES ASSUME Init  PROVE Contents
  OBVIOUS
<1>1. points = <<>> /\ added = <<>> /\ buckets_populated = FALSE /\ before = {}
      /\ table = [b \in Bucket |-> NoServer] /\ pc = "idle"
  BY DEF Init, Cleared
<1>2. Elements(points) = {} /\ Placed = {}
  BY <1>1 DEF Elements, Placed
<1> QED  BY <1>1, <1>2 DEF Contents, Filled, PointsPlaced, Kept, Fresh, Current, Done, Filling

LEMMA AddContents ==
  ASSUME Structure, Contents, NEW s \in Server, NEW weight \in 1 .. MaxWeight, Add(s, weight)
  PROVE  Contents'
<1>1. UNCHANGED <<strategy, position, pc, before, i>> /\ pc = "idle"
      /\ added' = Append(added, [server |-> s, weight |-> weight])
  BY DEF Add, locals
<1>2. CASE AddConsistent(s, weight)
  <2>1. points' = points \o PointsOf(s, weight) /\ buckets_populated' = FALSE /\ table' = table
    BY <1>2 DEF AddConsistent
  <2>2. Elements(points') = Elements(points) \cup Elements(PointsOf(s, weight))
    <3> DEFINE new == PointsOf(s, weight)
    <3>1. position \in Positions /\ points \in Seq([server : Server, point : Hash])
      BY DEF Structure, SearchInBounds
    <3>2. new \in Seq([server : Server, point : Hash])
      BY <3>1, PointsOfType
    <3> HIDE DEF new
    <3>3. Elements(points \o new) = Elements(points) \cup Elements(new)
      BY <3>1, <3>2, ElementsConcat
    <3> QED  BY <3>3, <2>1 DEF new
  <2>3. \A b \in Bucket : ~Done(b)'
    BY <1>1, <2>1 DEF Done, Filling
  <2>4. PointsPlaced'
    BY <1>1, <2>2, PlacedAppend DEF PointsPlaced, Contents, Structure
  <2>5. ASSUME NEW b \in Bucket, before # {}  PROVE Names(before, Place(b), table[b])
    BY <1>1, <2>5 DEF Contents, Kept, Filled, Current, Done, Filling
  <2>6. Kept'
    BY <1>1, <2>1, <2>2, <2>5 DEF Contents, Kept, Names, Place
  <2>7. before = {} => ~buckets_populated
    BY ElementsNonempty DEF Contents, Current, Structure, NotEmpty
  <2>8. Fresh'
    BY <1>1, <2>1, <2>7 DEF Contents, Fresh, Done, Filling
  <2>9. Filled' /\ Current'
    BY <2>1, <2>3 DEF Filled, Current
  <2> QED  BY <2>4, <2>6, <2>8, <2>9 DEF Contents
<1>3. CASE AddStandard(s, weight)
  <2>1. strategy' = "standard" /\ ~buckets_populated
        /\ UNCHANGED <<points, table, buckets_populated>>
    BY <1>1, <1>3 DEF AddStandard, Contents, Current
  <2>2. Filled' /\ Kept' /\ Fresh' /\ Current' /\ PointsPlaced'
    BY <1>1, <2>1 DEF Contents, Filled, Kept, Fresh, Current, PointsPlaced, Done, Filling,
                      Elements, Names, Place
  <2> QED  BY <2>2 DEF Contents
<1> QED  BY <1>2, <1>3 DEF Add

LEMMA CloseContents ==
  ASSUME Structure, Contents, Close
  PROVE  Contents'
<1>1. /\ points' = <<>> /\ added' = <<>> /\ buckets_populated' = FALSE /\ before' = {}
      /\ table' = [b \in Bucket |-> NoServer] /\ pc' = "idle"
  BY DEF Close, Cleared
<1>2. Elements(points') = {} /\ Placed' = {}
  BY <1>1 DEF Elements, Placed
<1> QED  BY <1>1, <1>2 DEF Contents, Filled, PointsPlaced, Kept, Fresh, Current, Done, Filling

(* Steps that leave the structures alone.                                    *)
LEMMA SameContents ==
  ASSUME Contents, UNCHANGED <<strategy, position, before>>, UNCHANGED structure,
         i' = i, Filling' = Filling
  PROVE  Contents'
<1>1. Placed' = Placed
  BY PlacedUnchanged DEF structure
<1>2. \A b \in Bucket : Done(b)' = Done(b)
  BY DEF Done, structure
<1> QED  BY <1>1, <1>2 DEF Contents, Filled, PointsPlaced, Kept, Fresh, Current, structure,
                           Elements, Names, Place

LEMMA FindContents ==
  ASSUME Contents, NEW h \in KeyHashes, Find(h)
  PROVE  Contents'
<1>1. UNCHANGED <<strategy, position, before, i>> /\ UNCHANGED structure
      /\ pc = "idle" /\ pc' \in {"idle", "sort"}
  BY DEF Find, FindStandard, FindConsistent, Answer, locals
<1> QED  BY <1>1, SameContents DEF Filling

LEMMA SortContents ==
  ASSUME Structure, Contents, Sort
  PROVE  Contents'
<1>1. /\ UNCHANGED <<strategy, position, table, buckets_populated, added, before>>
      /\ pc = "sort" /\ pc' = "fill" /\ i' = 0
  BY DEF Sort
<1>2. Elements(points') = Elements(points)
  BY SortStructure
<1>3. ~buckets_populated
  BY <1>1 DEF Structure, Looking
<1>4. \A b \in Bucket : ~Done(b) /\ ~Done(b)'
  BY <1>1, <1>3, HashAssumption DEF Done, Filling, Bucket
<1>5. PointsPlaced'
  BY <1>1, <1>2, PlacedUnchanged DEF Contents, PointsPlaced
<1>6. Filled' /\ Kept' /\ Fresh' /\ Current'
  BY <1>1, <1>2, <1>3, <1>4 DEF Contents, Filled, Kept, Fresh, Current, Names, Place
<1> QED  BY <1>5, <1>6 DEF Contents

LEMMA FillContents ==
  ASSUME Contents, Fill
  PROVE  Contents'
<1>1. UNCHANGED <<strategy, position, before, i>> /\ UNCHANGED structure
      /\ pc = "fill" /\ pc' = "search"
  BY DEF Fill
<1> QED  BY <1>1, SameContents DEF Filling

LEMMA PopulatedContents ==
  ASSUME Structure, Contents, Populated
  PROVE  Contents'
<1>1. /\ UNCHANGED <<strategy, position, points, table, added>>
      /\ pc = "fill" /\ i = BUCKETS /\ buckets_populated' = TRUE /\ before' = Elements(points)
  BY DEF Populated
<1>2. strategy = "consistent" /\ added # <<>>
  BY <1>1 DEF Structure, Looking
<1>3. \A b \in Bucket : Done(b) /\ Done(b)'
  BY <1>1, HashAssumption DEF Done, Filling, Bucket
<1>4. Elements(points) # {}
  BY <1>2, ElementsNonempty DEF Structure, NotEmpty
<1>5. PointsPlaced'
  BY <1>1, PlacedUnchanged DEF Contents, PointsPlaced, Elements
<1>6. Filled' /\ Kept' /\ Fresh' /\ Current'
  BY <1>1, <1>2, <1>3, <1>4 DEF Contents, Filled, Kept, Fresh, Current, Elements, Names, Place
<1> QED  BY <1>5, <1>6 DEF Contents

LEMMA SearchContents ==
  ASSUME Structure, Contents, Search
  PROVE  Contents'
<1>1. /\ UNCHANGED <<strategy, position, buckets_populated, added, before, points>>
      /\ pc = "search" /\ i \in Bucket
  BY HashAssumption DEF Search, FoundAt, Narrow, Structure, SearchInBounds, Bucket
<1>2. ~buckets_populated
  BY <1>1 DEF Structure, Looking
<1>3. Elements(points') = Elements(points) /\ PointsPlaced'
  BY <1>1, PlacedUnchanged DEF Contents, PointsPlaced, Elements
<1>4. ASSUME NEW k \in 1 .. Len(points), FoundAt(k),
             Names(Elements(points), Place(i), points[k].server)
      PROVE  Contents'
  <2>1. table' = [table EXCEPT ![i] = points[k].server] /\ i' = i + 1 /\ pc' = "fill"
    BY <1>4 DEF FoundAt
  <2>2. \A b \in Bucket : Done(b)' <=> Done(b) \/ b = i
    BY <1>1, <1>2, <2>1 DEF Done, Filling, Bucket
  <2>3. \A b \in Bucket : table'[b] = IF b = i THEN points[k].server ELSE table[b]
    BY <2>1 DEF Structure, SearchInBounds
  <2>4. Filled' /\ Kept' /\ Fresh' /\ Current'
    BY <1>1, <1>2, <1>3, <1>4, <2>2, <2>3
       DEF Contents, Filled, Kept, Fresh, Current, Names, Place
  <2> QED  BY <1>3, <2>4 DEF Contents
<1>5. CASE Narrow(Place(i))
  <2>1. UNCHANGED structure /\ i' = i /\ pc' = pc
    BY <1>1, <1>5 DEF Narrow, Search, structure
  <2> QED  BY <1>1, <2>1, SameContents DEF Filling
<1> QED  BY <1>4, <1>5, SearchFinds

LEMMA NextContents ==
  ASSUME Structure, Contents, [Next]_vars
  PROVE  Contents'
<1>1. ASSUME NEW s \in Server, NEW weight \in 1 .. MaxWeight, Add(s, weight)  PROVE Contents'
  BY <1>1, AddContents
<1>2. CASE Close
  BY <1>2, CloseContents
<1>3. ASSUME NEW h \in KeyHashes, Find(h)  PROVE Contents'
  BY <1>3, FindContents
<1>4. CASE Sort
  BY <1>4, SortContents
<1>5. CASE Fill
  BY <1>5, FillContents
<1>6. CASE Populated
  BY <1>6, PopulatedContents
<1>7. CASE Search
  BY <1>7, SearchContents
<1>8. CASE UNCHANGED vars
  BY <1>8, SameContents DEF vars, locals, Filling
<1> QED  BY <1>1, <1>2, <1>3, <1>4, <1>5, <1>6, <1>7, <1>8 DEF Next, Lookup

----------------------------------------------------------------------------
(* What lookups return *)

LEMMA OneServer ==
  ASSUME Structure, Contents, strategy = "consistent", Len(added) = 1
  PROVE  points[1].server = added[1].server
<1>1. added \in Seq([server : Server, weight : 1 .. MaxWeight]) /\ DOMAIN added = {1}
  BY DEF Structure, SearchInBounds
<1>2. added[1] \in [server : Server, weight : 1 .. MaxWeight]
  <2>1. 1 \in 1 .. Len(added)
    OBVIOUS
  <2> QED  BY <1>1, <2>1, ElementOfSeq
<1>3. Elements(points) = Elements(PointsOf(added[1].server, added[1].weight))
  <2> DEFINE Of(r) == Elements(PointsOf(r.server, r.weight))
  <2>1. Placed = UNION {Of(added[k]) : k \in {1}}
    BY <1>1 DEF Placed
  <2> HIDE DEF Of
  <2>2. Placed = Of(added[1])
    BY <2>1
  <2> QED  BY <2>2 DEF Contents, PointsPlaced, Of
<1>4. added # <<>>
  BY <1>1
<1>5. points # <<>> /\ points \in Seq([server : Server, point : Hash])
  BY <1>4 DEF Structure, NotEmpty, SearchInBounds
<1>6. points[1] \in Elements(points)
  <2>1. 1 \in DOMAIN points
    BY <1>5
  <2> QED  BY <2>1 DEF Elements
<1> QED  BY <1>2, <1>3, <1>6, PointsOfType DEF Structure, SearchInBounds

LEMMA InitMapped == Init => KeyMapped
BY DEF Init, KeyMapped

LEMMA MappedUnchanged ==
  ASSUME KeyMapped, UNCHANGED <<strategy, position, added, hash, answer>>
  PROVE  KeyMapped'
BY PlacedUnchanged DEF KeyMapped, Names, Place

LEMMA FindMapped ==
  ASSUME Structure, Contents, NEW h \in KeyHashes, Find(h)
  PROVE  KeyMapped'
<1>1. /\ UNCHANGED <<strategy, position>> /\ UNCHANGED structure /\ hash' = h
      /\ Placed' = Placed
  BY PlacedUnchanged DEF Find, FindStandard, FindConsistent, structure
<1>2. CASE FindStandard(h)
  BY <1>1, <1>2 DEF FindStandard, KeyMapped
<1>3. CASE FindConsistent(h) /\ Len(added) = 1
  <2>1. answer' = added'[1].server /\ Len(added') = 1
    BY <1>1, <1>3, OneServer DEF FindConsistent, Answer, structure
  <2> QED  BY <2>1 DEF KeyMapped
<1>4. CASE FindConsistent(h) /\ Len(added) # 1 /\ buckets_populated
  <2>1. answer' = table[h % BUCKETS] /\ strategy = "consistent"
    BY <1>4 DEF FindConsistent, Answer
  <2>2. h % BUCKETS \in Bucket
    BY HashBucket, HashAssumption
  <2>3. Names(Placed, Place(h % BUCKETS), answer')
    BY <1>4, <2>1, <2>2 DEF Contents, Filled, Done, PointsPlaced
  <2> QED  BY <1>1, <2>3 DEF KeyMapped, Names, Place
<1>5. CASE FindConsistent(h) /\ Len(added) # 1 /\ ~buckets_populated
  BY <1>5 DEF FindConsistent, KeyMapped
<1> QED  BY <1>2, <1>3, <1>4, <1>5 DEF Find

LEMMA PopulatedMapped ==
  ASSUME Structure, Contents, Populated
  PROVE  KeyMapped'
<1>1. /\ UNCHANGED <<strategy, position, added, hash>> /\ Placed' = Placed
      /\ answer' = table[hash % BUCKETS] /\ pc = "fill" /\ i = BUCKETS
  BY PlacedUnchanged DEF Populated, Answer
<1>2. strategy = "consistent"
  BY <1>1 DEF Structure, Looking
<1>3. hash % BUCKETS \in Bucket
  BY HashBucket, HashAssumption DEF Structure, SearchInBounds, Hash
<1>4. Done(hash % BUCKETS)
  <2> DEFINE b == hash % BUCKETS
  <2>1. b \in 0 .. BUCKETS - 1
    BY <1>3 DEF Bucket
  <2> HIDE DEF b
  <2>2. Done(b)
    BY <1>1, <2>1, HashAssumption DEF Done, Filling
  <2> QED  BY <2>2 DEF b
<1>5. Names(Placed, Place(hash % BUCKETS), answer')
  BY <1>1, <1>2, <1>3, <1>4 DEF Contents, Filled, PointsPlaced
<1> QED  BY <1>1, <1>5 DEF KeyMapped, Names, Place

LEMMA NextMapped ==
  ASSUME Structure, Contents, KeyMapped, [Next]_vars
  PROVE  KeyMapped'
<1>1. CASE (\E s \in Server, weight \in 1 .. MaxWeight : Add(s, weight)) \/ Close
  BY <1>1 DEF Add, Close, KeyMapped
<1>2. ASSUME NEW h \in KeyHashes, Find(h)  PROVE KeyMapped'
  BY <1>2, FindMapped
<1>3. CASE Sort \/ Fill \/ Search
  <2>1. UNCHANGED <<strategy, position, added, hash, answer>>
    BY <1>3 DEF Sort, Fill, Search, structure
  <2> QED  BY <2>1, MappedUnchanged
<1>4. CASE Populated
  BY <1>4, PopulatedMapped
<1>5. CASE UNCHANGED vars
  BY <1>5, MappedUnchanged DEF vars, structure
<1> QED  BY <1>1, <1>2, <1>3, <1>4, <1>5 DEF Next, Lookup

(* Every lookup of the consistent strategy returns the server that the      *)
(* points of the pool's present servers name, for any servers and weights,  *)
(* any hash function, and whatever qsort does with equal points.            *)
THEOREM KeyMappedInvariant == Spec => []KeyMapped
<1>1. Init => Structure /\ Contents /\ KeyMapped
  BY InitStructure, InitContents, InitMapped
<1>2. Structure /\ Contents /\ KeyMapped /\ [Next]_vars
      => Structure' /\ Contents' /\ KeyMapped'
  BY NextStructure, NextContents, NextMapped
<1> QED  BY <1>1, <1>2, PTL DEF Spec

----------------------------------------------------------------------------
(* Which keys move *)

LEMMA PlacedApart ==
  ASSUME Structure, Apart, strategy = "consistent", PointsPlaced,
         NEW p \in Elements(points), NEW q \in Elements(points), p.point = q.point
  PROVE  p.server = q.server
<1>1. \A r \in Elements(points) :
        r.server \in Server /\ \E k \in 1 .. MaxWeight * POINTS : r.point = position[r.server][k]
  <2>1. TAKE r \in Elements(points)
  <2>2. PICK n \in DOMAIN added : r \in Elements(PointsOf(added[n].server, added[n].weight))
    BY DEF PointsPlaced, Placed
  <2>3. added[n] \in [server : Server, weight : 1 .. MaxWeight]
    <3>1. added \in Seq([server : Server, weight : 1 .. MaxWeight]) /\ n \in 1 .. Len(added)
      BY <2>2 DEF Structure, SearchInBounds
    <3> QED  BY <3>1, ElementOfSeq
  <2>4. added[n].server \in Server /\ added[n].weight \in 1 .. MaxWeight
    BY <2>3
  <2>5. position \in Positions
    BY DEF Structure, SearchInBounds
  <2>6. r.server = added[n].server /\ \E k \in 1 .. MaxWeight * POINTS : r.point = position[added[n].server][k]
    BY <2>2, <2>4, <2>5, PointsOfType
  <2> QED  BY <2>4, <2>6
<1> QED  BY <1>1 DEF Apart

LEMMA SearchRemaps ==
  ASSUME Structure, Contents, Search, Apart, NEW b \in Bucket, table'[b] # table[b]
  PROVE  \E p \in Elements(points) \ before : p.server = table'[b]
<1>1. PICK k \in 1 .. Len(points) :
        FoundAt(k) /\ Names(Elements(points), Place(i), points[k].server)
  BY SearchFinds DEF Narrow
<1>2. b = i /\ table'[b] = points[k].server
  BY <1>1 DEF FoundAt, Structure, SearchInBounds
<1>3. pc = "search" /\ ~buckets_populated /\ strategy = "consistent" /\ i \in Nat
  BY <1>2 DEF Search, Structure, Looking, Bucket
<1>4. ~Done(i)
  BY <1>3 DEF Done
<1>5. PICK p \in Elements(points) :
        /\ p.server = table'[b]
        /\ \/ p.point >= Place(i) /\ \A q \in Elements(points) : q.point >= Place(i) => p.point <= q.point
           \/ \A q \in Elements(points) : q.point < Place(i) /\ p.point <= q.point
  BY <1>1, <1>2 DEF Names
<1>6. ASSUME p \in before  PROVE FALSE
  <2>1. before \subseteq Elements(points) /\ Names(before, Place(i), table[i])
    BY <1>2, <1>4, <1>6 DEF Contents, Kept
  <2>2. \A q \in Elements(points) : q.point \in Nat
    BY ElementsType DEF Structure
  <2>3. Place(i) \in Nat
    BY <1>3, PlaceType
  <2>4. Names(before, Place(i), p.server)
    BY <1>5, <1>6, <2>1, <2>2, <2>3, NamesPart
  <2>5. \A q, r \in before : q.point = r.point => q.server = r.server
    BY <1>3, <2>1, PlacedApart DEF Contents
  <2>6. table[i] = p.server
    BY <2>1, <2>2, <2>3, <2>4, <2>5, NamesOne
  <2> QED  BY <1>2, <1>5, <2>6
<1> QED  BY <1>5, <1>6

(* Where no two servers have a point in common, a key only moves to a server *)
(* that got new points since the table was filled before, never between two  *)
(* servers that were there all the time.                                     *)
THEOREM RemapsToNewProperty == Spec => RemapsToNew
<1>1. ASSUME Structure, Contents, [Next]_vars
      PROVE  [Apart /\ ~Close => \A b \in Bucket : table'[b] # table[b] =>
                \E p \in Elements(points) \ before : p.server = table'[b]]_vars
  <2>1. CASE Search
    BY <1>1, <2>1, SearchRemaps
  <2>2. CASE ~Search /\ ~Close
    <3>1. UNCHANGED table
      BY <1>1, <2>2 DEF Next, Lookup, Add, AddConsistent, AddStandard, Find, FindStandard,
                        FindConsistent, Sort, Fill, Populated, vars, structure
    <3> QED  BY <3>1
  <2> QED  BY <2>1, <2>2
<1>2. Init => Structure /\ Contents
  BY InitStructure, InitContents
<1>3. Structure /\ Contents /\ [Next]_vars => Structure' /\ Contents'
  BY NextStructure, NextContents
<1> QED  BY <1>1, <1>2, <1>3, PTL DEF Spec, RemapsToNew
=============================================================================
