------------------------------ MODULE MmcHash ------------------------------
(***************************************************************************)
(* The hash strategies of a pool: memcache_consistent_hash.c and           *)
(* memcache_standard_hash.c, with mmc_pool_add and mmc_pool_close, which   *)
(* are their users.                                                        *)
(*                                                                         *)
(* The consistent strategy puts points of each server on a circle and      *)
(* gives a key to the first point at or after its own.  It only looks up   *)
(* BUCKETS places of the circle, once, in a table that is filled when a    *)
(* key is looked up and forgotten when a server is added.  The sort, the   *)
(* loop over the table and the turns of the binary search are actions.     *)
(*                                                                         *)
(* qsort leaves open in which order equal points end up.                   *)
(***************************************************************************)
EXTENDS Integers, Sequences

CONSTANTS
  Server, NoServer,
  POINTS,       \* MMC_CONSISTENT_POINTS, 160 in the code
  BUCKETS,      \* MMC_CONSISTENT_BUCKETS, 1024
  Space,        \* how many hashes there are, 2^32
  Shift, Mask,  \* the hash >> 16 and & 0x7fff of the standard strategy, as 2^16 and 2^15
  MaxWeight,    \* bound: the weight of a server
  MaxAdded,     \* bound: how many servers are added to a pool
  MaxPoints,    \* bound: how many points they have together
  Positions,    \* the ways to hash "host:port-i" to consider
  KeyHashes,    \* the hashes of the keys that are looked up
  Orders        \* Orders[n]: the orders in which n points can be put

ASSUME HashAssumption ==
  /\ NoServer \notin Server
  /\ {POINTS, BUCKETS, Space, Shift, Mask, MaxWeight, MaxAdded, MaxPoints} \subseteq Nat \ {0}
  /\ Positions \subseteq [Server -> [1 .. MaxWeight * POINTS -> 0 .. Space - 1]]
  /\ KeyHashes \subseteq 0 .. Space - 1

ASSUME OrdersAssumption == Orders = [n \in 0 .. MaxPoints |->
  {f \in [1 .. n -> 1 .. n] : \A k \in 1 .. n : \E j \in 1 .. n : f[j] = k}]

VARIABLES
  strategy,     \* pool->hash: "consistent" or "standard"
  position,     \* position[s][i]: the hash of "host:port-i" of server s
  points,       \* state->points
  table,        \* state->buckets of the consistent strategy
  buckets_populated,
  buckets,      \* state->buckets of the standard strategy
  added,        \* the calls of mmc_pool_add: a server and its weight each
  pc,           \* "idle", or the place in mmc_consistent_find_server
  hash,         \* the hash of the key that is looked up
  i, lo, hi,    \* the locals of its loops
  answer,       \* the server that the last lookup returned
  before        \* history: the points when the table was last complete

structure == <<points, table, buckets_populated, buckets, added>>
locals    == <<i, lo, hi>>
vars      == <<strategy, position, structure, pc, hash, locals, answer, before>>

Hash   == 0 .. Space - 1
Bucket == 0 .. BUCKETS - 1

\* The place of the circle that bucket b stands for.
Place(b) == ((Space - 1) \div BUCKETS) * b

PointsOf(s, weight) ==
  [k \in 1 .. weight * POINTS |-> [server |-> s, point |-> position[s][k]]]

Elements(q) == {q[k] : k \in DOMAIN q}

----------------------------------------------------------------------------
\* mmc_consistent_create_state, mmc_standard_create_state: all zero.
Cleared(pointsV, tableV, populatedV, bucketsV, addedV) ==
  /\ pointsV = <<>> /\ tableV = [b \in Bucket |-> NoServer] /\ populatedV = FALSE
  /\ bucketsV = <<>> /\ addedV = <<>>

Init ==
  /\ position \in Positions
  /\ \/ strategy = "consistent"
     \/ strategy = "standard" /\ position = CHOOSE p \in Positions : TRUE
  /\ Cleared(points, table, buckets_populated, buckets, added)
  /\ pc = "idle" /\ hash = 0 /\ i = 0 /\ lo = 1 /\ hi = 1
  /\ answer = NoServer /\ before = {}

\* Mutant of AddConsistent: the table is kept.
AddConsistentKeeps(s, weight) ==
  /\ strategy = "consistent"
  /\ points' = points \o PointsOf(s, weight)
  /\ UNCHANGED <<table, buckets, buckets_populated>>

\* mmc_consistent_add_server
AddConsistent(s, weight) ==
  /\ strategy = "consistent"
  /\ points' = points \o PointsOf(s, weight)
  /\ buckets_populated' = FALSE
  /\ UNCHANGED <<table, buckets>>

\* mmc_standard_add_server
AddStandard(s, weight) ==
  /\ strategy = "standard"
  /\ buckets' = buckets \o [k \in 1 .. weight |-> s]
  /\ UNCHANGED <<points, table, buckets_populated>>

\* mmc_pool_add.  A host that is persistent may be added twice.
Add(s, weight) ==
  /\ pc = "idle" /\ Len(added) < MaxAdded
  /\ Len(points) + weight * POINTS <= MaxPoints
  /\ AddConsistent(s, weight) \/ AddStandard(s, weight)
  /\ added' = Append(added, [server |-> s, weight |-> weight])
  /\ answer' = NoServer
  /\ UNCHANGED <<strategy, position, pc, hash, locals, before>>

\* mmc_pool_close: the strategy starts anew.
Close ==
  /\ pc = "idle" /\ added # <<>>
  /\ Cleared(points', table', buckets_populated', buckets', added')
  /\ answer' = NoServer /\ before' = {}
  /\ UNCHANGED <<strategy, position, pc, hash, locals>>

----------------------------------------------------------------------------
\* A lookup returns s.
Answer(s) == pc' = "idle" /\ answer' = s

FindStandard(h) ==
  LET index == (h \div Shift) % Mask
  IN /\ strategy = "standard"
     /\ Answer(IF Len(added) > 1
               THEN buckets[((IF index = 0 THEN 1 ELSE index) % Len(buckets)) + 1]
               ELSE buckets[1])
     /\ UNCHANGED structure

FindConsistent(h) ==
  /\ strategy = "consistent"
  /\ IF Len(added) = 1 THEN Answer(points[1].server)
     ELSE IF buckets_populated THEN Answer(table[h % BUCKETS])
     ELSE pc' = "sort" /\ answer' = NoServer
  /\ UNCHANGED structure

\* find_server is called with a key whose hash is h, on a pool with servers.
Find(h) ==
  /\ pc = "idle" /\ added # <<>>
  /\ hash' = h
  /\ FindStandard(h) \/ FindConsistent(h)
  /\ UNCHANGED <<strategy, position, locals, before>>

----------------------------------------------------------------------------
(* mmc_consistent_populate_buckets *)

Sorted(q) == \A j, k \in DOMAIN q : j < k => q[j].point <= q[k].point

\* qsort
Sort ==
  /\ pc = "sort"
  /\ \E f \in Orders[Len(points)] :
       /\ points' = [k \in 1 .. Len(points) |-> points[f[k]]]
       /\ Sorted(points')
  /\ pc' = "fill" /\ i' = 0
  /\ UNCHANGED <<strategy, position, table, buckets_populated, buckets, added,
                 hash, lo, hi, answer, before>>

\* mmc_consistent_find is called for the next bucket.
Fill ==
  /\ pc = "fill" /\ i < BUCKETS
  /\ pc' = "search" /\ lo' = 1 /\ hi' = Len(points)
  /\ UNCHANGED <<strategy, position, structure, hash, i, answer, before>>

\* The table is complete, and the lookup goes on.
Populated ==
  /\ pc = "fill" /\ i = BUCKETS
  /\ buckets_populated' = TRUE
  /\ Answer(table[hash % BUCKETS])
  /\ before' = Elements(points)
  /\ i' = 0 /\ lo' = 1 /\ hi' = 1
  /\ UNCHANGED <<strategy, position, points, table, buckets, added, hash>>

----------------------------------------------------------------------------
(* mmc_consistent_find *)

Point(k) == points[k].point
mid == lo + (hi - lo) \div 2

\* Mutant of Outside: no wrap-around.
OutsideBelow(x) == x <= Point(lo)

\* point is outside the interval, wrap-around
Outside(x) == x <= Point(lo) \/ x > Point(hi)

\* Mutant of Matches: any point at or after x will do.
MatchesAny(x) == x <= Point(mid)

\* perfect match
Matches(x) == x <= Point(mid) /\ x > (IF mid > 1 THEN Point(mid - 1) ELSE 0)

FoundAt(k) ==
  /\ table' = [table EXCEPT ![i] = points[k].server]
  /\ i' = i + 1 /\ pc' = "fill"
  /\ UNCHANGED <<lo, hi, points>>

\* Mutant of Narrow: the middle point is looked at again, for ever.
NarrowStays(x) ==
  /\ IF Point(mid) < x THEN lo' = mid /\ UNCHANGED hi ELSE hi' = mid - 1 /\ UNCHANGED lo
  /\ UNCHANGED <<pc, i, table, points>>

\* too low, go up; or down
Narrow(x) ==
  /\ IF Point(mid) < x THEN lo' = mid + 1 /\ UNCHANGED hi ELSE hi' = mid - 1 /\ UNCHANGED lo
  /\ UNCHANGED <<pc, i, table, points>>

\* One turn of the loop.
Search ==
  LET x == Place(i)
  IN /\ pc = "search"
     /\ \/ Outside(x) /\ FoundAt(lo)
        \/ ~Outside(x) /\ Matches(x) /\ FoundAt(mid)
        \/ ~Outside(x) /\ ~Matches(x) /\ Narrow(x)
     /\ UNCHANGED <<strategy, position, buckets_populated, buckets, added,
                    hash, answer, before>>

----------------------------------------------------------------------------
Lookup == Sort \/ Fill \/ Populated \/ Search

Next ==
  \/ \E s \in Server, weight \in 1 .. MaxWeight : Add(s, weight)
  \/ Close
  \/ \E h \in KeyHashes : Find(h)
  \/ Lookup

Spec == Init /\ [][Next]_vars /\ WF_vars(Lookup)

----------------------------------------------------------------------------
(* Properties *)

(* The structures have their types, and the binary search never leaves the *)
(* points: lo and hi stay in range and do not cross, whatever is looked up,*)
(* so that points[lo], points[hi] and points[mid - 1] exist, also for the  *)
(* first and the last point of the circle and for equal points.            *)
SearchInBounds ==
  /\ strategy \in {"consistent", "standard"} /\ position \in Positions
  /\ points \in Seq([server : Server, point : Hash]) /\ Len(points) <= MaxPoints
  /\ table \in [Bucket -> Server \cup {NoServer}] /\ buckets_populated \in BOOLEAN
  /\ buckets \in Seq(Server)
  /\ added \in Seq([server : Server, weight : 1 .. MaxWeight])
  /\ pc \in {"idle", "sort", "fill", "search"} /\ hash \in Hash
  /\ i \in 0 .. BUCKETS /\ answer \in Server \cup {NoServer}
  /\ pc = "search" => i < BUCKETS /\ lo \in 1 .. Len(points) /\ hi \in lo .. Len(points)

(* s has the first point of S at or after x, going round the circle.       *)
Names(S, x, s) == \E p \in S :
  /\ p.server = s
  /\ \/ p.point >= x /\ \A q \in S : q.point >= x => p.point <= q.point
     \/ \A q \in S : q.point < x /\ p.point <= q.point

\* All points of the servers that were added.
Placed == UNION {Elements(PointsOf(added[k].server, added[k].weight)) : k \in DOMAIN added}

(* A lookup returns the server whose point comes first at or after the     *)
(* place of the key's bucket, among the points of all servers that the     *)
(* pool has now: the table is never out of date, the search never stops at *)
(* the wrong point, and the order in which servers were added or the ties  *)
(* sorted does not matter.                                                 *)
KeyMapped ==
  strategy = "consistent" /\ answer # NoServer =>
    \/ Names(Placed, Place(hash % BUCKETS), answer)
    \/ Len(added) = 1 /\ answer = added[1].server

(* No two servers have a point in common. *)
Apart == \A s, t \in Server : \A j, k \in 1 .. MaxWeight * POINTS :
  position[s][j] = position[t][k] => s = t

(* "allows servers to be added and removed from the pool without resulting *)
(* in all or most keys being re-mapped" (README:64): a bucket that changes *)
(* its server goes to one that got new points.  No key moves between old   *)
(* servers.                                                                *)
RemapsToNew ==
  [][Apart /\ ~Close => \A b \in Bucket : table'[b] # table[b] =>
       \E p \in Elements(points) \ before : p.server = table'[b]]_vars

(* The loop of the binary search ends for every point and every table, and *)
(* so does each lookup.                                                    *)
FindReturns == pc # "idle" ~> pc = "idle"
=============================================================================
