-------------------------- MODULE MmcPoolOwnership --------------------------
(***************************************************************************)
(* Who has a request.  The code never says: a request is on the free list, *)
(* in the slots and queues of a server, or a local of a handler that is    *)
(* not done, and nothing but the order of the steps keeps it from being in *)
(* two of these places.  The proof gives each request one place.  It is a  *)
(* map `own` that the invariant only claims to exist (Owned): the free     *)
(* list, one server, or the frame at one height of the stack.              *)
(*                                                                         *)
(*   FreeInv    what is on the free list is there once and owned by it     *)
(*   ServerInv  a server owns what it has to answer, each request once;    *)
(*              what it was not sent yet is the tail of that (Pipeline)    *)
(*   FramesInv  a handler that is to place a request owns it               *)
(*   Shape      which handler runs directly above which, so that a frame   *)
(*              that waits finds the slots it shifts as it left them       *)
(*                                                                         *)
(* Each action moves a few requests from one place to another, and has a   *)
(* lemma that names the new map.  OneServer, SendOrder, ScheduledOrReleased*)
(* and FailsOverOnce follow from the invariant alone.                      *)
(***************************************************************************)
EXTENDS MmcPoolProofs

(* The configurations the theorems are about: no multi-gets, no failure    *)
(* callback, and not both of a connection that is refused and a stream     *)
(* that may be given up under its requests.                                *)
Single    == \A c \in Calls : c.op # "getMulti"
Reachable == "refuse" \notin Faults /\ Dead = {}
Fresh     == ~Persistent /\ "early" \notin Faults
Covered   == Single /\ ~Reentrant /\ (Reachable \/ Fresh)

----------------------------------------------------------------------------
(* The invariant.                                                          *)

(* The calls of memcache.c, the loops of a round, and the handlers that    *)
(* shift the slots of a server.                                            *)
ScriptPcs == {"store", "stored", "clone", "flush", "flushed", "ask", "asked", "run"}
LoopPcs   == {"select", "lateSend", "lateRead", "send", "read"}
ShiftPcs  == {"slot", "unqueue", "retryRead", "early"}
RoundPcs  == {"send", "read", "xmit", "parse"}

(* What may run directly above frame f. *)
Fits(g, f) ==
  /\ f.pc \in {"retryRead", "early"} => g.pc = "unqueue" /\ g.s = f.s
  /\ f.pc = "unqueue" => g.pc = "slot" /\ g.s = f.s
  /\ f.pc = "unslot" => /\ g.s = f.s
                        /\ g.pc = "deactivate" \/ (g.pc = "drain" /\ g.q = <<>>)

Sound(f) ==
  /\ f.pc \notin {"get", "rebuild", "built", "callback"}
  /\ f.pc = "drain" => Distinct(f.q)
  /\ f.pc \in RoundPcs => in_select

Shape ==
  /\ \A i \in Positions : Sound(stack[i]) /\ (stack[i].pc = "unslot" => i <= 2)
  /\ \A i \in Positions : i + 1 \in Positions => Fits(stack[i], stack[i + 1])
  /\ \A i, j \in Positions :
       i < j /\ stack[i].pc \in ScriptPcs \cup LoopPcs => stack[j].pc \in ScriptPcs
  /\ in_select => \E i \in Positions : stack[i].pc \in {"send", "read"}

(* Where a request can be: on the free list, with a server that has to     *)
(* answer it, or in the hands of the frame at a height of the stack.       *)
OnFreeList  == <<"free", 0>>
OnServer(s) == <<"server", s>>
InFrame(h)  == <<"frame", h>>

HeldBy(f, r) ==
  \/ f.pc \in {"schedule", "failover", "probe", "unslot", "retryRead"} /\ r = f.r
  \/ f.pc = "drain" /\ r \in ToSet(f.q)
  \/ f.pc = "early" /\ r = readreq[f.s]

(* The request in the read slot of s is being taken out of it. *)
Leaves(f, s) == f.s = s /\ (f.pc = "early" \/ (f.pc = "retryRead" /\ f.r = readreq[s]))
Leaving(s) == \E i \in Positions : Leaves(stack[i], s)

(* The next request of s is being put into the send slot. *)
Slotting(s) == At("slot") /\ top.s = s

SendSlot(s) == IF Slotting(s) THEN top.r ELSE sendreq[s]
Sends(s) == Slotted(SendSlot(s), sendqueue[s])
Reads(s) == IF Leaving(s) THEN readqueue[s] ELSE ToRead(s)

(* The requests of a server, R being those it has to answer and S those it *)
(* has not been sent yet.                                                  *)
Pipeline(own, s, S, R) ==
  /\ Distinct(R) /\ \A r \in ToSet(R) : own[r] = OnServer(s)
  /\ IsTail(S, R)
  /\ Fresh => Len(wire[s]) + Len(S) <= Len(R)

ServerInv(own, s) ==
  /\ Pipeline(own, s, Sends(s), Reads(s))
  /\ SendSlot(s) = Null => sendqueue[s] = <<>>
  /\ readreq[s] = Null => readqueue[s] = <<>>
  /\ buildreq[s] = Null
  /\ Fresh => status[s] # "unknown" /\ (~IsOpen(s) => IdleAt(s))

(* The frame f at height h. *)
FrameInv(own, f, h) ==
  /\ \A r \in Created : HeldBy(f, r) => own[r] = InFrame(h)
  /\ f.pc = "unslot" => IdleAt(f.s) /\ ~Reachable
  /\ f.pc = "early" => readreq[f.s] # Null
  /\ f.pc \in {"late", "retry"} => f.r \in ToSet(Reads(f.s))
  /\ f.pc = "slot" => sendreq[f.s] # Null /\ own[sendreq[f.s]] # OnFreeList
  /\ f.pc \in {"retry", "unqueue", "retryRead", "early"} => ~Fresh

FreeInv(own) ==
  /\ Distinct(free_requests)
  /\ \A r \in ToSet(free_requests) : r # Null /\ own[r] = OnFreeList

ServersInv(own) == \A s \in Server : ServerInv(own, s)
FramesInv(own) == \A i \in Positions : FrameInv(own, stack[i], Len(stack) + 1 - i)

Owned(own) == ServersInv(own) /\ FramesInv(own) /\ FreeInv(own)

Plain == pending = <<>> /\ \A r \in Created : request[r].kind # "multi"

OwnerInv == Covered /\ Shape /\ Plain /\ \E own : Owned(own)

----------------------------------------------------------------------------
(* Frames. *)

LEMMA Places ==
  /\ \A s : OnServer(s) # OnFreeList
  /\ \A h : InFrame(h) # OnFreeList
  /\ \A s, h : OnServer(s) # InFrame(h)
  /\ \A s, t : OnServer(s) = OnServer(t) => s = t
  /\ \A h, k : InFrame(h) = InFrame(k) => h = k
BY DEF OnFreeList, OnServer, InFrame

(* Where the handlers that shift slots can be. *)
LEMMA ShiftPositions ==
  ASSUME TypeInv, Shape, NEW i \in Positions
  PROVE  /\ i # 1 => stack[i].pc \in LowerPcs
         /\ stack[i].pc = "slot" => i = 1
         /\ stack[i].pc = "unqueue" /\ i # 1 => i = 2 /\ top.pc = "slot" /\ top.s = stack[i].s
         /\ stack[i].pc \in {"retryRead", "early"} /\ i # 1 =>
              \/ i = 2 /\ top.pc = "unqueue" /\ top.s = stack[i].s
              \/ i = 3 /\ top.pc = "slot" /\ top.s = stack[i].s
         /\ stack[i].pc = "unslot" /\ i # 1 =>
              /\ i = 2 /\ top.s = stack[i].s
              /\ top.pc = "deactivate" \/ (top.pc = "drain" /\ top.q = <<>>)
<1> DEFINE S == Frames(Created)
           L == Lower(Created)
           t == Tail(stack)
<1>1. stack \in Seq(S) /\ stack # <<>> /\ t \in Seq(L)
  <2>1. Len(stack) # 0
    <3>1. Len(stack) \in Nat
      BY LenProperties DEF TypeInv, StackOK
    <3> QED BY <3>1 DEF Positions
  <2>2. stack # <<>>
    BY <2>1
  <2> QED BY <2>2 DEF TypeInv, StackOK
<1>2. \A f \in L : f.pc \in LowerPcs
  BY DEF Lower
<1> HIDE DEF S, L
<1>3. /\ top = stack[1] /\ Len(stack) \in Nat \ {0} /\ Len(t) = Len(stack) - 1
      /\ \A j \in 1 .. Len(stack) - 1 : t[j] = stack[j + 1]
  BY <1>1, FirstElement DEF top
<1> HIDE DEF t
<1>4. ASSUME NEW j \in Positions, j # 1 PROVE stack[j].pc \in LowerPcs
  <2>1. j - 1 \in 1 .. Len(t) /\ t[j - 1] = stack[j]
    <3>1. j - 1 \in 1 .. Len(stack) - 1 /\ j - 1 + 1 = j
      BY <1>3, <1>4 DEF Positions
    <3> QED BY <1>3, <3>1
  <2>2. t[j - 1] \in L
    BY <1>1, <2>1, ElementOfSeq
  <2> QED BY <1>2, <2>1, <2>2
<1>5. \A j \in Positions : stack[j].pc = "slot" => j = 1
  BY <1>4 DEF LowerPcs
<1>6. ASSUME NEW j \in Positions, j # 1
      PROVE  j - 1 \in Positions /\ Fits(stack[j - 1], stack[j])
  <2>1. j - 1 \in Positions /\ j - 1 + 1 = j
    BY <1>3, <1>6 DEF Positions
  <2> QED BY <2>1 DEF Shape
<1>7. ASSUME NEW j \in Positions, j # 1, stack[j].pc = "unqueue"
      PROVE  j = 2 /\ top.pc = "slot" /\ top.s = stack[j].s
  <2>1. j - 1 \in Positions /\ stack[j - 1].pc = "slot" /\ stack[j - 1].s = stack[j].s
    BY <1>6, <1>7 DEF Fits
  <2>2. j - 1 = 1
    BY <1>5, <2>1
  <2> QED BY <1>3, <2>1, <2>2 DEF Positions
<1>8. ASSUME NEW j \in Positions, j # 1, stack[j].pc \in {"retryRead", "early"}
      PROVE  \/ j = 2 /\ top.pc = "unqueue" /\ top.s = stack[j].s
             \/ j = 3 /\ top.pc = "slot" /\ top.s = stack[j].s
  <2>1. j - 1 \in Positions /\ stack[j - 1].pc = "unqueue" /\ stack[j - 1].s = stack[j].s
    BY <1>6, <1>8 DEF Fits
  <2>2. CASE j - 1 = 1
    BY <1>3, <2>1, <2>2 DEF Positions
  <2>3. CASE j - 1 # 1
    <3>1. j - 1 = 2 /\ top.pc = "slot" /\ top.s = stack[j - 1].s
      BY <1>7, <2>1, <2>3
    <3> QED BY <2>1, <3>1 DEF Positions
  <2> QED BY <2>2, <2>3
<1>9. ASSUME NEW j \in Positions, j # 1, stack[j].pc = "unslot"
      PROVE  /\ j = 2 /\ top.s = stack[j].s
             /\ top.pc = "deactivate" \/ (top.pc = "drain" /\ top.q = <<>>)
  <2>1. j <= 2
    BY <1>9 DEF Shape
  <2>2. j = 2 /\ j - 1 = 1
    BY <1>3, <1>9, <2>1 DEF Positions
  <2>3. Fits(stack[1], stack[j])
    BY <1>6, <1>9, <2>2
  <2> QED BY <1>3, <1>9, <2>2, <2>3 DEF Fits
<1> QED BY <1>4, <1>5, <1>7, <1>8, <1>9

(* No slot of a server is being shifted. *)
Steady == \A i \in Positions : stack[i].pc \notin ShiftPcs

LEMMA SteadyTop ==
  ASSUME TypeInv, Shape, stack = <<>> \/ top.pc \notin ShiftPcs
  PROVE  Steady
<1>1. CASE stack = <<>>
  <2>1. Positions = {}
    BY <1>1 DEF Positions
  <2> QED BY <2>1 DEF Steady
<1>2. CASE stack # <<>> /\ top.pc \notin ShiftPcs
  <2>1. SUFFICES ASSUME NEW i \in Positions, stack[i].pc \in ShiftPcs PROVE FALSE
    BY DEF Steady
  <2>2. top = stack[1]
    BY <1>2, FirstElement DEF TypeInv, StackOK, top
  <2>3. i # 1
    BY <1>2, <2>1, <2>2
  <2>4. top.pc \in ShiftPcs
    BY <2>1, <2>3, ShiftPositions DEF ShiftPcs
  <2> QED BY <1>2, <2>4
<1> QED BY <1>1, <1>2

LEMMA SteadySlots ==
  ASSUME TypeInv, Steady, NEW s
  PROVE  /\ ~Leaving(s) /\ ~Slotting(s) /\ SendSlot(s) = sendreq[s]
         /\ Sends(s) = ToSend(s) /\ Reads(s) = ToRead(s)
<1>1. ~Leaving(s)
  BY DEF Steady, Leaving, Leaves, ShiftPcs
<1>2. ~Slotting(s)
  <2>1. ASSUME stack # <<>> PROVE 1 \in Positions /\ top = stack[1]
    <3>1. Len(stack) \in Nat \ {0} /\ top = stack[1]
      BY <2>1, FirstElement DEF TypeInv, StackOK, top
    <3> QED BY <3>1 DEF Positions
  <2> QED BY <2>1 DEF Steady, Slotting, At, ShiftPcs, top
<1> QED BY <1>1, <1>2 DEF SendSlot, Sends, Reads, ToSend

(* Below the code that runs no handler waits to go on with a server, but   *)
(* below a shift and below the failure of the server itself.               *)
LEMMA NothingBelow ==
  ASSUME TypeInv, Shape, stack # <<>>, NEW i \in 2 .. Len(stack),
         top.pc \notin {"slot", "unqueue", "deactivate"}, top.pc # "drain" \/ top.q # <<>>
  PROVE  stack[i].pc \notin ShiftPcs \cup {"unslot"}
<1>1. i \in Positions /\ i # 1
  BY DEF Positions
<1> QED BY <1>1, ShiftPositions DEF ShiftPcs

LEMMA ShapeStep ==
  ASSUME TypeInv, Shape, stack # <<>>, NEW T, NEW f \in Seq(T), Goto(f),
         \A i \in 1 .. Len(f) : Sound(f[i])' /\ (f[i].pc = "unslot" => i <= 2),
         \A i \in 1 .. Len(f) - 1 : Fits(f[i], f[i + 1]),
         \A i, j \in 1 .. Len(f) :
           i < j /\ f[i].pc \in ScriptPcs \cup LoopPcs => f[j].pc \in ScriptPcs,
         \A i \in 1 .. Len(f) :
           f[i].pc \in ScriptPcs \cup LoopPcs => top.pc \in ScriptPcs \cup LoopPcs,
         in_select => in_select' \/ top.pc \in ScriptPcs \cup LoopPcs,
         in_select' => \/ \E i \in 1 .. Len(f) : f[i].pc \in {"send", "read"}
                       \/ in_select /\ top.pc \notin {"send", "read"},
         \/ f = <<>>
         \/ Len(f) = 1 /\ (Len(stack) > 1 => Fits(f[1], stack[2]))
         \/ /\ top.pc \notin {"slot", "unqueue", "deactivate"}
            /\ top.pc # "drain" \/ top.q # <<>>
  PROVE  Shape'
<1> DEFINE n == Len(f)
           B == ScriptPcs \cup LoopPcs
<1>1. /\ n \in Nat /\ Len(stack) \in Nat \ {0} /\ top = stack[1]
      /\ Len(stack') = n + Len(stack) - 1
      /\ \A i \in 1 .. n : stack'[i] = f[i]
      /\ \A i \in 2 .. Len(stack) : stack'[i + n - 1] = stack[i]
      /\ \A j \in Positions' : ~(j <= n) =>
           j - n + 1 \in 2 .. Len(stack) /\ stack'[j] = stack[j - n + 1]
  BY Replaced
<1>2. \A i \in 2 .. Len(stack) : i \in Positions /\ 1 \in Positions /\ 1 < i
  BY <1>1 DEF Positions
<1>3. \A j \in Positions' : j \in Nat /\ (j <= n => j \in 1 .. n)
  BY <1>1 DEF Positions
<1>4. ASSUME NEW i \in 2 .. Len(stack), NEW g, g = stack[i]
      PROVE  /\ Sound(g)'
             /\ g.pc = "unslot" => i = 2 /\ n <= 1
  <2>1. Sound(g)
    BY <1>2, <1>4 DEF Shape
  <2>2. top.pc \in B => g.pc \in ScriptPcs
    BY <1>1, <1>2, <1>4 DEF Shape
  <2>3. g.pc \in RoundPcs => in_select'
    BY <2>1, <2>2 DEF Sound, RoundPcs, ScriptPcs
  <2>4. Sound(g)'
    BY <2>1, <2>3 DEF Sound
  <2>5. g.pc = "unslot" => i = 2
    BY <1>2, <1>4, ShiftPositions
  <2>6. g.pc = "unslot" => n <= 1
    <3>1. CASE f = <<>>
      BY <3>1
    <3>2. CASE n = 1
      BY <3>2
    <3>3. CASE /\ top.pc \notin {"slot", "unqueue", "deactivate"}
               /\ top.pc # "drain" \/ top.q # <<>>
      BY <1>4, <3>3, NothingBelow
    <3> QED BY <3>1, <3>2, <3>3
  <2> QED BY <2>4, <2>5, <2>6
<1>5. ASSUME NEW j \in Positions'
      PROVE  Sound(stack[j])' /\ (stack'[j].pc = "unslot" => j <= 2)
  <2>1. CASE j <= n
    <3>1. PICK g : g = f[j]
      OBVIOUS
    <3>2. Sound(g)' /\ (g.pc = "unslot" => j <= 2)
      <4>1. j \in 1 .. n
        BY <1>3, <2>1
      <4> QED BY <3>1, <4>1
    <3>3. g = stack'[j]
      BY <1>1, <1>3, <2>1, <3>1
    <3> QED BY <3>2, <3>3
  <2>2. CASE ~(j <= n)
    <3>1. PICK i : i = j - n + 1
      OBVIOUS
    <3>2. PICK g : g = stack[i]
      OBVIOUS
    <3>3. i \in 2 .. Len(stack) /\ g = stack'[j]
      BY <1>1, <2>2, <3>1, <3>2
    <3>4. Sound(g)' /\ (g.pc = "unslot" => i = 2 /\ n <= 1)
      BY <1>4, <3>2, <3>3
    <3>5. g.pc = "unslot" => j <= 2
      BY <1>1, <1>3, <3>1, <3>4
    <3> QED BY <3>3, <3>4, <3>5
  <2> QED BY <2>1, <2>2
<1>6. ASSUME NEW j \in Positions', j + 1 \in Positions'
      PROVE  Fits(stack'[j], stack'[j + 1])
  <2>1. CASE j + 1 <= n
    <3>1. j \in 1 .. n - 1 /\ j \in 1 .. n /\ j + 1 \in 1 .. n
      BY <1>1, <1>3, <2>1
    <3>2. stack'[j] = f[j] /\ stack'[j + 1] = f[j + 1]
      BY <1>1, <3>1
    <3> QED BY <3>1, <3>2
  <2>2. CASE ~(j <= n)
    <3>1. PICK i : i = j - n + 1
      OBVIOUS
    <3>2. i \in 2 .. Len(stack) /\ stack'[j] = stack[i]
      BY <1>1, <2>2, <3>1
    <3>3. PICK k : k = j + 1
      OBVIOUS
    <3>4. i + 1 \in 2 .. Len(stack) /\ stack'[j + 1] = stack[i + 1]
      <4>1. k \in Positions' /\ ~(k <= n) /\ k - n + 1 = i + 1
        BY <1>1, <1>3, <1>6, <2>2, <3>1, <3>3, SMTT(30)
      <4> QED BY <1>1, <3>3, <4>1
    <3>5. i \in Positions /\ i + 1 \in Positions
      BY <1>2, <3>2, <3>4
    <3> QED BY <3>2, <3>4, <3>5 DEF Shape
  <2>3. CASE j = n
    <3>1. n \in 1 .. n /\ stack'[j] = f[n]
      BY <1>1, <1>3, <2>3
    <3>2. 2 \in 2 .. Len(stack) /\ stack'[j + 1] = stack[2] /\ Len(stack) > 1
      <4>1. PICK k : k = j + 1
        OBVIOUS
      <4>2. k \in Positions' /\ ~(k <= n) /\ k - n + 1 = 2
        BY <1>1, <1>3, <1>6, <2>3, <4>1
      <4>3. 2 \in 2 .. Len(stack) /\ stack'[j + 1] = stack[2]
        BY <1>1, <4>1, <4>2
      <4> QED BY <1>1, <4>3
    <3>3. CASE f = <<>>
      BY <3>1, <3>3
    <3>4. CASE n = 1 /\ (Len(stack) > 1 => Fits(f[1], stack[2]))
      BY <3>1, <3>2, <3>4
    <3>5. CASE /\ top.pc \notin {"slot", "unqueue", "deactivate"}
               /\ top.pc # "drain" \/ top.q # <<>>
      <4>1. stack[2].pc \notin ShiftPcs \cup {"unslot"}
        BY <3>2, <3>5, NothingBelow
      <4> QED BY <3>2, <4>1 DEF Fits, ShiftPcs
    <3> QED BY <3>3, <3>4, <3>5
  <2>4. j <= n => j + 1 <= n \/ j = n
    BY <1>1, <1>3
  <2> QED BY <2>1, <2>2, <2>3, <2>4
<1>7. ASSUME NEW i \in Positions', NEW j \in Positions', i < j, stack'[i].pc \in B
      PROVE  stack'[j].pc \in ScriptPcs
  <2>1. CASE j <= n
    <3>1. i \in 1 .. n /\ j \in 1 .. n
      BY <1>1, <1>3, <1>7, <2>1
    <3>2. stack'[i] = f[i] /\ stack'[j] = f[j]
      BY <1>1, <3>1
    <3> QED BY <1>7, <3>1, <3>2
  <2>2. CASE ~(j <= n)
    <3>1. PICK b : b = j - n + 1
      OBVIOUS
    <3>2. b \in 2 .. Len(stack) /\ stack'[j] = stack[b]
      BY <1>1, <2>2, <3>1
    <3>3. CASE i <= n
      <4>1. i \in 1 .. n /\ f[i].pc \in B
        BY <1>1, <1>3, <1>7, <3>3
      <4>2. stack[1].pc \in B
        BY <1>1, <4>1
      <4> QED BY <1>2, <3>2, <4>2 DEF Shape
    <3>4. CASE ~(i <= n)
      <4>1. PICK a : a = i - n + 1
        OBVIOUS
      <4>2. a \in 2 .. Len(stack) /\ stack'[i] = stack[a]
        BY <1>1, <3>4, <4>1
      <4>3. a < b
        BY <1>1, <1>3, <1>7, <3>1, <4>1
      <4> QED BY <1>2, <1>7, <3>2, <4>2, <4>3 DEF Shape
    <3> QED BY <3>3, <3>4
  <2> QED BY <2>1, <2>2
<1>8. ASSUME in_select' PROVE \E i \in Positions' : stack'[i].pc \in {"send", "read"}
  <2>1. CASE \E i \in 1 .. n : f[i].pc \in {"send", "read"}
    <3>1. PICK i \in 1 .. n : f[i].pc \in {"send", "read"}
      BY <2>1
    <3>2. i \in Positions' /\ stack'[i] = f[i]
      BY <1>1, <3>1 DEF Positions
    <3> QED BY <3>1, <3>2
  <2>2. CASE in_select /\ top.pc \notin {"send", "read"}
    <3>1. PICK i \in Positions : stack[i].pc \in {"send", "read"}
      BY <2>2 DEF Shape
    <3>2. i \in 2 .. Len(stack)
      <4>1. i # 1
        BY <1>1, <2>2, <3>1
      <4> QED BY <1>1, <4>1 DEF Positions
    <3>3. i + n - 1 \in Positions' /\ stack'[i + n - 1] = stack[i]
      BY <1>1, <3>2 DEF Positions
    <3> QED BY <3>1, <3>3
  <2> QED BY <1>8, <2>1, <2>2
<1> QED BY <1>5, <1>6, <1>7, <1>8 DEF Shape

LEMMA ShapeReturn ==
  ASSUME TypeInv, Shape, stack # <<>>, Goto(<<>>),
         in_select' => in_select /\ top.pc \notin {"send", "read"},
         in_select => in_select' \/ top.pc \in ScriptPcs \cup LoopPcs
  PROVE  Shape'
<1>1. PICK f : f = <<>>
  OBVIOUS
<1>2. f \in Seq({}) /\ Len(f) = 0 /\ Goto(f)
  BY <1>1
<1>3. \A i \in 1 .. Len(f) : FALSE
  BY <1>2
<1>4. \A i \in 1 .. Len(f) : Sound(f[i])' /\ (f[i].pc = "unslot" => i <= 2)
  BY <1>3
<1>5. \A i \in 1 .. Len(f) - 1 : Fits(f[i], f[i + 1])
  BY <1>2
<1>6. \A i, j \in 1 .. Len(f) :
        i < j /\ f[i].pc \in ScriptPcs \cup LoopPcs => f[j].pc \in ScriptPcs
  BY <1>3
<1>7. \A i \in 1 .. Len(f) :
        f[i].pc \in ScriptPcs \cup LoopPcs => top.pc \in ScriptPcs \cup LoopPcs
  BY <1>3
<1> QED BY <1>1, <1>2, <1>4, <1>5, <1>6, <1>7, ShapeStep

(* What a new frame must be like for the shape of the stack. *)
Enters(a) ==
  /\ Sound(a)'
  /\ a.pc \in ScriptPcs \cup LoopPcs => top.pc \in ScriptPcs \cup LoopPcs

LEMMA ShapeOne ==
  ASSUME TypeInv, Shape, stack # <<>>, NEW a, Goto(<<a>>), Enters(a),
         in_select => in_select' \/ top.pc \in ScriptPcs \cup LoopPcs,
         in_select' => \/ a.pc \in {"send", "read"}
                       \/ in_select /\ top.pc \notin {"send", "read"},
         \/ /\ top.pc \notin {"slot", "unqueue", "deactivate"}
            /\ top.pc # "drain" \/ top.q # <<>>
         \/ Len(stack) > 1 => Fits(a, stack[2])
  PROVE  Shape'
<1> DEFINE f == <<a>>
<1>1. f \in Seq({a}) /\ Len(f) = 1 /\ f[1] = a
  OBVIOUS
<1>2. Goto(f)
  OBVIOUS
<1> HIDE DEF f
<1>3. \A i \in 1 .. Len(f) : Sound(f[i])' /\ (f[i].pc = "unslot" => i <= 2)
  BY <1>1 DEF Enters
<1>4. \A i \in 1 .. Len(f) - 1 : Fits(f[i], f[i + 1])
  BY <1>1
<1>5. \A i, j \in 1 .. Len(f) :
        i < j /\ f[i].pc \in ScriptPcs \cup LoopPcs => f[j].pc \in ScriptPcs
  BY <1>1
<1>6. \A i \in 1 .. Len(f) :
        f[i].pc \in ScriptPcs \cup LoopPcs => top.pc \in ScriptPcs \cup LoopPcs
  BY <1>1 DEF Enters
<1>7. in_select' => \/ \E i \in 1 .. Len(f) : f[i].pc \in {"send", "read"}
                    \/ in_select /\ top.pc \notin {"send", "read"}
  BY <1>1
<1>8. \/ f = <<>>
      \/ Len(f) = 1 /\ (Len(stack) > 1 => Fits(f[1], stack[2]))
      \/ /\ top.pc \notin {"slot", "unqueue", "deactivate"}
         /\ top.pc # "drain" \/ top.q # <<>>
  BY <1>1
<1> QED BY <1>1, <1>2, <1>3, <1>4, <1>5, <1>6, <1>7, <1>8, ShapeStep

LEMMA ShapeTwo ==
  ASSUME TypeInv, Shape, stack # <<>>, NEW a, NEW b, Goto(<<a, b>>), Enters(a), Enters(b),
         Fits(a, b), a.pc \in ScriptPcs \cup LoopPcs => b.pc \in ScriptPcs,
         in_select => in_select' \/ top.pc \in ScriptPcs \cup LoopPcs,
         in_select' => \/ a.pc \in {"send", "read"} \/ b.pc \in {"send", "read"}
                       \/ in_select /\ top.pc \notin {"send", "read"},
         top.pc \notin {"slot", "unqueue", "deactivate"},
         top.pc # "drain" \/ top.q # <<>>
  PROVE  Shape'
<1> DEFINE f == <<a, b>>
<1>1. f \in Seq({a, b}) /\ Len(f) = 2 /\ f[1] = a /\ f[2] = b
  OBVIOUS
<1>2. Goto(f)
  OBVIOUS
<1> HIDE DEF f
<1>3. \A i \in 1 .. Len(f) : Sound(f[i])' /\ (f[i].pc = "unslot" => i <= 2)
  <2>1. \A i \in 1 .. Len(f) : (i = 1 \/ i = 2) /\ i <= 2
    BY <1>1
  <2> QED BY <1>1, <2>1 DEF Enters
<1>4. \A i \in 1 .. Len(f) - 1 : Fits(f[i], f[i + 1])
  BY <1>1
<1>5. \A i, j \in 1 .. Len(f) :
        i < j /\ f[i].pc \in ScriptPcs \cup LoopPcs => f[j].pc \in ScriptPcs
  BY <1>1
<1>6. \A i \in 1 .. Len(f) :
        f[i].pc \in ScriptPcs \cup LoopPcs => top.pc \in ScriptPcs \cup LoopPcs
  BY <1>1 DEF Enters
<1>7. in_select' => \/ \E i \in 1 .. Len(f) : f[i].pc \in {"send", "read"}
                    \/ in_select /\ top.pc \notin {"send", "read"}
  BY <1>1
<1> QED BY <1>1, <1>2, <1>3, <1>4, <1>5, <1>6, <1>7, ShapeStep

(* A step leaves what the frames below the top one rely on: the read slot  *)
(* while the next request is slotted, an idle server while it fails.       *)
Undisturbed ==
  /\ UNCHANGED config /\ Created \subseteq Created'
  /\ top.pc \in {"slot", "unqueue"} => UNCHANGED readreq
  /\ \A s \in Server :
       top.pc \in {"deactivate", "drain"} /\ top.s = s /\ IdleAt(s) => IdleAt(s)'

(* No request leaves the hands of a frame but of the one at height n. *)
HeldBelow(own, own2, n) ==
  \A r \in Created, h \in Nat \ {n} : own[r] = InFrame(h) => own2[r] = InFrame(h)

(* The frames f hold what they should when they replace the one at height n. *)
Hold(own, f, n) == \A i \in 1 .. Len(f) : FrameInv(own, f[i], n + Len(f) - i)'

(* The frames keep what they hold. *)
LEMMA FramesStep ==
  ASSUME TypeInv, Shape, stack # <<>>, NEW own, NEW own2, FramesInv(own), Undisturbed,
         NEW T, NEW f \in Seq(T), Goto(f), NEW n, n = Len(stack),
         Hold(own2, f, n), HeldBelow(own, own2, n)
  PROVE  FramesInv(own2)'
<1> DEFINE m == Len(f)
<1>1. /\ m \in Nat /\ n \in Nat \ {0} /\ top = stack[1]
      /\ Len(stack') = m + n - 1
      /\ \A i \in 1 .. m : stack'[i] = f[i]
      /\ \A j \in Positions' : ~(j <= m) =>
           j - m + 1 \in 2 .. n /\ stack'[j] = stack[j - m + 1]
  BY Replaced
<1>2. ASSUME NEW i \in 2 .. n, NEW g, g = stack[i], NEW h, h = n + 1 - i
      PROVE  FrameInv(own2, g, h)'
  <2>1. i \in Positions /\ i # 1 /\ h \in 1 .. n - 1
    BY <1>1, <1>2 DEF Positions
  <2>2. FrameInv(own, g, h)
    BY <1>2, <2>1 DEF FramesInv
  <2>3. g.pc \in LowerPcs /\ FrameOK(g, Created)
    <3> DEFINE F == Frames(Created)
    <3>1. stack \in Seq(F) /\ i \in 1 .. Len(stack)
      BY <2>1 DEF TypeInv, StackOK, Positions
    <3> HIDE DEF F
    <3>2. g \in F
      BY <1>2, <3>1, ElementOfSeq
    <3> USE DEF F
    <3>3. FrameOK(g, Created)
      BY <3>2 DEF Frames
    <3> QED BY <1>2, <2>1, <3>3, ShiftPositions
  <2>4. g.pc = "early" => readreq' = readreq
    BY <1>2, <2>1, ShiftPositions DEF Undisturbed
  <2>5. g.pc = "unslot" => IdleAt(g.s)'
    <3>1. ASSUME g.pc = "unslot" PROVE top.pc \in {"deactivate", "drain"} /\ top.s = g.s
      BY <1>2, <2>1, <3>1, ShiftPositions
    <3>2. g.pc = "unslot" => g.s \in Server
      BY <2>3 DEF FrameOK, ServerPcs
    <3> QED BY <2>2, <3>1, <3>2 DEF FrameInv, Undisturbed
  <2>6. ASSUME NEW r \in Created', HeldBy(g, r)' PROVE own2[r] = InFrame(h)
    <3>1. r \in Created /\ HeldBy(g, r)
      <4>1. CASE g.pc \in {"schedule", "failover", "probe", "unslot", "retryRead"} /\ r = g.r
        BY <2>3, <4>1 DEF FrameOK, RequestPcs, HeldBy
      <4>2. CASE g.pc = "drain" /\ r \in ToSet(g.q)
        <5>1. g.q \in Seq(Created)
          BY <2>3, <4>2 DEF FrameOK
        <5>2. r \in Created
          BY <4>2, <5>1, ToSetElements
        <5> QED BY <4>2, <5>2 DEF HeldBy
      <4>3. CASE g.pc = "early" /\ r = readreq'[g.s]
        <5>1. g.s \in Server /\ r = readreq[g.s] /\ r # Null
          BY <2>2, <2>3, <2>4, <4>3 DEF FrameOK, ServerPcs, FrameInv
        <5>2. r \in Created
          BY <5>1 DEF TypeInv, SlotsOK
        <5> QED BY <4>3, <5>1, <5>2 DEF HeldBy
      <4> QED BY <2>6, <4>1, <4>2, <4>3 DEF HeldBy
    <3>2. own[r] = InFrame(h)
      BY <2>2, <3>1 DEF FrameInv
    <3>3. h \in Nat \ {n}
      BY <1>1, <2>1
    <3> QED BY <3>1, <3>2, <3>3 DEF HeldBelow
  <2>7. g.pc \notin {"late", "retry", "slot"}
    BY <2>3 DEF LowerPcs
  <2>8. g.pc = "early" => readreq'[g.s] # Null
    BY <2>2, <2>4 DEF FrameInv
  <2>9. g.pc = "unslot" => ~Reachable'
    BY <2>2 DEF FrameInv, Reachable, Faults, Dead, Undisturbed
  <2>10. g.pc \in {"retry", "unqueue", "retryRead", "early"} => ~Fresh'
    BY <2>2 DEF FrameInv, Fresh, Persistent, Faults, Undisturbed
  <2> QED BY <2>5, <2>6, <2>7, <2>8, <2>9, <2>10 DEF FrameInv
<1>3. ASSUME NEW j \in Positions'
      PROVE  FrameInv(own2, stack[j], Len(stack) + 1 - j)'
  <2>1. j \in 1 .. m + n - 1
    BY <1>1 DEF Positions
  <2>2. PICK g, h : g = stack'[j] /\ h = Len(stack') + 1 - j
    OBVIOUS
  <2>3. CASE j <= m
    <3>1. j \in 1 .. m /\ g = f[j] /\ h = n + Len(f) - j
      <4>1. j \in 1 .. m
        BY <1>1, <2>1, <2>3
      <4>2. h = n + m - j
        BY <1>1, <2>1, <2>2
      <4> QED BY <1>1, <2>2, <4>1, <4>2
    <3>2. FrameInv(own2, g, h)'
      BY <3>1 DEF Hold
    <3> QED BY <2>2, <3>2 DEF FrameInv, HeldBy
  <2>4. CASE ~(j <= m)
    <3>1. PICK i : i = j - m + 1
      OBVIOUS
    <3>2. i \in 2 .. n /\ g = stack[i] /\ h = n + 1 - i
      BY <1>1, <2>1, <2>2, <2>4, <3>1
    <3>3. FrameInv(own2, g, h)'
      BY <1>2, <3>2
    <3> QED BY <2>2, <3>3 DEF FrameInv, HeldBy
  <2> QED BY <2>3, <2>4
<1> QED BY <1>3 DEF FramesInv

LEMMA FramesReturn ==
  ASSUME TypeInv, Shape, stack # <<>>, NEW own, NEW own2, FramesInv(own), Undisturbed,
         Goto(<<>>), NEW n, n = Len(stack), HeldBelow(own, own2, n)
  PROVE  FramesInv(own2)'
<1>1. PICK f : f = <<>>
  OBVIOUS
<1>2. f \in Seq({}) /\ Goto(f) /\ \A i \in 1 .. Len(f) : FALSE
  BY <1>1
<1>3. Hold(own2, f, n)
  BY <1>2 DEF Hold
<1> QED BY <1>2, <1>3, FramesStep

LEMMA FramesOne ==
  ASSUME TypeInv, Shape, stack # <<>>, NEW own, NEW own2, FramesInv(own), Undisturbed,
         NEW a, Goto(<<a>>), NEW n, n = Len(stack), FrameInv(own2, a, n)',
         HeldBelow(own, own2, n)
  PROVE  FramesInv(own2)'
<1>1. PICK f, T : f = <<a>> /\ T = {a}
  OBVIOUS
<1>2. f \in Seq(T) /\ Goto(f) /\ Len(f) = 1 /\ f[1] = a
  BY <1>1
<1>3. n \in Nat
  BY LenProperties DEF TypeInv, StackOK
<1>4. ASSUME NEW i \in 1 .. Len(f) PROVE FrameInv(own2, f[i], n + Len(f) - i)'
  <2>1. i = 1 /\ n + Len(f) - i = n
    BY <1>2, <1>3
  <2> QED BY <1>2, <2>1
<1>5. Hold(own2, f, n)
  BY <1>4 DEF Hold
<1> QED BY <1>2, <1>5, FramesStep

LEMMA FramesTwo ==
  ASSUME TypeInv, Shape, stack # <<>>, NEW own, NEW own2, FramesInv(own), Undisturbed,
         NEW a, NEW b, Goto(<<a, b>>), NEW n, n = Len(stack),
         FrameInv(own2, a, n + 1)', FrameInv(own2, b, n)', HeldBelow(own, own2, n)
  PROVE  FramesInv(own2)'
<1>1. PICK f, T : f = <<a, b>> /\ T = {a, b}
  OBVIOUS
<1>2. f \in Seq(T) /\ Goto(f) /\ Len(f) = 2 /\ f[1] = a /\ f[2] = b
  BY <1>1
<1>3. n \in Nat
  BY LenProperties DEF TypeInv, StackOK
<1>4. ASSUME NEW i \in 1 .. Len(f) PROVE FrameInv(own2, f[i], n + Len(f) - i)'
  <2>1. (i = 1 /\ n + Len(f) - i = n + 1) \/ (i = 2 /\ n + Len(f) - i = n)
    BY <1>2, <1>3
  <2> QED BY <1>2, <2>1
<1>5. Hold(own2, f, n)
  BY <1>4 DEF Hold
<1> QED BY <1>2, <1>5, FramesStep

(* Frames that hold nothing. *)
HolderPcs == {"schedule", "failover", "probe", "unslot", "retryRead", "drain", "early",
              "late", "slot", "retry", "unqueue"}

LEMMA EmptyHanded ==
  ASSUME NEW own, NEW a, NEW h, a.pc \notin HolderPcs
  PROVE  FrameInv(own, a, h)'
BY DEF FrameInv, HeldBy, HolderPcs

----------------------------------------------------------------------------
(* Steps that leave the slots alone. *)

AsSlotted == \A s \in Server :
  Sends(s) = ToSend(s) /\ Reads(s) = ToRead(s) /\ SendSlot(s) = sendreq[s]

LEMMA SteadyServers == TypeInv /\ Steady => AsSlotted
BY SteadySlots DEF AsSlotted

LEMMA SameSlots ==
  ASSUME UNCHANGED Slots
  PROVE  \A s \in Server : /\ sendreq'[s] = sendreq[s] /\ readreq'[s] = readreq[s]
                           /\ sendqueue'[s] = sendqueue[s] /\ readqueue'[s] = readqueue[s]
                           /\ ToSend(s)' = ToSend(s) /\ ToRead(s)' = ToRead(s)
                           /\ IdleAt(s)' = IdleAt(s)
BY DEF Slots, ToSend, ToRead, IdleAt

(* What the network and the failure of a server may do to a connection. *)
Worn(s) ==
  /\ Fresh => Len(wire'[s]) <= Len(wire[s])
  /\ \/ status'[s] = status[s]
     \/ status[s] = "unknown" /\ status'[s] = "disconnected"
     \/ status[s] = "failed" /\ status'[s] = "retriable"

LEMMA ServersQuiet ==
  ASSUME TypeInv, TypeInv', Steady, Steady', NEW own, NEW own2, ServersInv(own),
         UNCHANGED <<config, Slots, buildreq>>, \A s \in Server : Worn(s),
         \A r \in Created, s \in Server : own[r] = OnServer(s) => own2[r] = OnServer(s)
  PROVE  ServersInv(own2)'
<1> SUFFICES ASSUME NEW s \in Server PROVE ServerInv(own2, s)'
  BY DEF ServersInv
<1>1. ServerInv(own, s)
  BY DEF ServersInv
<1>2. Sends(s) = ToSend(s) /\ Reads(s) = ToRead(s) /\ SendSlot(s) = sendreq[s]
  BY SteadyServers DEF AsSlotted
<1>3. Sends(s)' = ToSend(s)' /\ Reads(s)' = ToRead(s)' /\ SendSlot(s)' = sendreq'[s]
  <2>1. AsSlotted'
    BY SteadyServers, PTL
  <2> QED BY <2>1 DEF AsSlotted
<1>4. /\ sendreq'[s] = sendreq[s] /\ readreq'[s] = readreq[s]
      /\ sendqueue'[s] = sendqueue[s] /\ readqueue'[s] = readqueue[s]
      /\ ToSend(s)' = ToSend(s) /\ ToRead(s)' = ToRead(s)
      /\ IdleAt(s)' = IdleAt(s)
  BY SameSlots
<1>5. Sends(s)' = Sends(s) /\ Reads(s)' = Reads(s) /\ SendSlot(s)' = SendSlot(s)
  BY <1>2, <1>3, <1>4
<1>6. Fresh' = Fresh
  BY DEF Fresh, Persistent, Faults
<1>7. Len(wire[s]) \in Nat /\ Len(wire'[s]) \in Nat
  BY LenProperties DEF TypeInv, ConnOK
<1>8. Reads(s) \in Seq(Created) /\ Sends(s) \in Seq(Created)
  <2>1. /\ readqueue[s] \in Seq(Created) /\ sendqueue[s] \in Seq(Created)
        /\ readreq[s] \in Created \cup {Null} /\ sendreq[s] \in Created \cup {Null}
    BY DEF TypeInv, SlotsOK
  <2> QED BY <1>2, <2>1, ConsProperties DEF ToSend, ToRead, Slotted
<1>9. Len(Reads(s)) \in Nat /\ Len(Sends(s)) \in Nat
  BY <1>8, LenProperties
<1>10. Worn(s)
  OBVIOUS
<1>11. Pipeline(own2, s, Sends(s), Reads(s))'
  <2>1. \A r \in ToSet(Reads(s)) : r \in Created
    BY <1>8, ToSetElements
  <2>2. \A r \in ToSet(Reads(s)') : own2[r] = OnServer(s)
    BY <1>1, <1>5, <2>1 DEF ServerInv, Pipeline
  <2>3. Fresh' => Len(wire'[s]) + Len(Sends(s)') <= Len(Reads(s)')
    BY <1>1, <1>5, <1>6, <1>7, <1>9, <1>10 DEF ServerInv, Pipeline, Worn
  <2>4. Distinct(Reads(s)') /\ IsTail(Sends(s)', Reads(s)')
    BY <1>1, <1>5 DEF ServerInv, Pipeline
  <2> QED BY <2>2, <2>3, <2>4 DEF Pipeline
<1>12. /\ SendSlot(s)' = Null => sendqueue'[s] = <<>>
       /\ readreq'[s] = Null => readqueue'[s] = <<>>
       /\ buildreq'[s] = Null
  BY <1>1, <1>4, <1>5 DEF ServerInv
<1>13. Fresh' => status'[s] # "unknown" /\ (~IsOpen(s)' => IdleAt(s)')
  BY <1>1, <1>4, <1>6, <1>10 DEF ServerInv, Worn, IsOpen
<1> QED BY <1>11, <1>12, <1>13 DEF ServerInv

LEMMA TopSteady ==
  TypeInv /\ Shape /\ (stack = <<>> \/ top.pc \notin ShiftPcs) => Steady
BY SteadyTop

LEMMA SteadyStep ==
  ASSUME TypeInv, stack # <<>>, Steady, NEW T, NEW f \in Seq(T), Goto(f),
         \A i \in 1 .. Len(f) : f[i].pc \notin ShiftPcs
  PROVE  Steady'
<1> SUFFICES ASSUME NEW j \in Positions' PROVE stack'[j].pc \notin ShiftPcs
  BY DEF Steady
<1>1. /\ Len(f) \in Nat /\ Len(stack) \in Nat \ {0} /\ Len(stack') = Len(f) + Len(stack) - 1
      /\ \A i \in 1 .. Len(f) : stack'[i] = f[i]
      /\ \A i \in Positions' : ~(i <= Len(f)) =>
           i - Len(f) + 1 \in 2 .. Len(stack) /\ stack'[i] = stack[i - Len(f) + 1]
  BY Replaced
<1>2. CASE j <= Len(f)
  <2>1. j \in 1 .. Len(f)
    BY <1>1, <1>2 DEF Positions
  <2> QED BY <1>1, <2>1
<1>3. CASE ~(j <= Len(f))
  <2>1. PICK i : i = j - Len(f) + 1
    OBVIOUS
  <2>2. i \in Positions /\ stack'[j] = stack[i]
    BY <1>1, <1>3, <2>1 DEF Positions
  <2> QED BY <2>2 DEF Steady
<1> QED BY <1>2, <1>3

(* A step that moves no request, and the select() of the round around it. *)
Calm ==
  /\ UNCHANGED <<config, Slots, buildreq, free_requests>> /\ Created' = Created
  /\ \A s \in Server : Worn(s)

RoundKept(pcs) ==
  /\ in_select => in_select' \/ top.pc \in ScriptPcs \cup LoopPcs
  /\ in_select' => \/ pcs \cap {"send", "read"} # {}
                   \/ in_select /\ top.pc \notin {"send", "read"}

LEMMA CalmStep ==
  ASSUME TypeInv, TypeInv', Steady, Steady', NEW own, Owned(own), Calm, FramesInv(own)'
  PROVE  Owned(own)'
<1>1. ServersInv(own)'
  BY ServersQuiet DEF Owned, Calm
<1>2. FreeInv(own)'
  BY DEF Owned, FreeInv, Calm
<1> QED BY <1>1, <1>2 DEF Owned

LEMMA CalmUndisturbed == ASSUME Calm PROVE Undisturbed
<1>1. UNCHANGED <<config, Slots>> /\ Created' = Created
  BY DEF Calm
<1>2. readreq' = readreq
  BY <1>1 DEF Slots
<1>3. \A s \in Server : IdleAt(s)' = IdleAt(s)
  BY <1>1, SameSlots
<1> QED BY <1>1, <1>2, <1>3 DEF Undisturbed

LEMMA CalmReturn ==
  ASSUME TypeInv, TypeInv', Shape, stack # <<>>, top.pc \notin ShiftPcs, NEW own, Owned(own),
         Goto(<<>>), Calm, RoundKept({})
  PROVE  Shape' /\ Owned(own)'
<1>1. Shape'
  BY ShapeReturn DEF RoundKept
<1>2. PICK f, n : f = <<>> /\ n = Len(stack)
  OBVIOUS
<1>3. f \in Seq({}) /\ Goto(f) /\ \A i \in 1 .. Len(f) : FALSE
  BY <1>2
<1>4. Steady /\ Steady'
  <2>1. Steady
    BY TopSteady
  <2> QED BY <1>3, <2>1, SteadyStep
<1>5. HeldBelow(own, own, n)
  BY DEF HeldBelow
<1>6. FramesInv(own)'
  BY <1>2, <1>5, CalmUndisturbed, FramesReturn DEF Owned
<1> QED BY <1>1, <1>4, <1>6, CalmStep

LEMMA CalmOne ==
  ASSUME TypeInv, TypeInv', Shape, stack # <<>>, top.pc \notin ShiftPcs \cup {"deactivate"},
         top.pc # "drain" \/ top.q # <<>>, NEW own, Owned(own),
         NEW a, Goto(<<a>>), Enters(a), a.pc \notin ShiftPcs, Calm, RoundKept({a.pc}),
         NEW n, n = Len(stack), FrameInv(own, a, n)'
  PROVE  Shape' /\ Owned(own)'
<1>1. Shape'
  BY ShapeOne DEF RoundKept, ShiftPcs
<1>2. PICK f, T : f = <<a>> /\ T = {a}
  OBVIOUS
<1>3. f \in Seq(T) /\ Goto(f) /\ \A i \in 1 .. Len(f) : f[i].pc \notin ShiftPcs
  BY <1>2
<1>4. Steady /\ Steady'
  <2>1. Steady
    BY TopSteady
  <2> QED BY <1>3, <2>1, SteadyStep
<1>5. HeldBelow(own, own, n)
  BY DEF HeldBelow
<1>6. FramesInv(own)'
  BY <1>5, CalmUndisturbed, FramesOne DEF Owned
<1> QED BY <1>1, <1>4, <1>6, CalmStep

LEMMA CalmTwo ==
  ASSUME TypeInv, TypeInv', Shape, stack # <<>>, top.pc \notin ShiftPcs \cup {"deactivate"},
         top.pc # "drain" \/ top.q # <<>>, NEW own, Owned(own),
         NEW a, NEW b, Goto(<<a, b>>), Enters(a), Enters(b), Fits(a, b),
         a.pc \in ScriptPcs \cup LoopPcs => b.pc \in ScriptPcs,
         a.pc \notin ShiftPcs, b.pc \notin ShiftPcs, Calm, RoundKept({a.pc, b.pc}),
         NEW n, n = Len(stack), FrameInv(own, a, n + 1)', FrameInv(own, b, n)'
  PROVE  Shape' /\ Owned(own)'
<1>1. Shape'
  BY ShapeTwo DEF RoundKept, ShiftPcs
<1>2. PICK f, T : f = <<a, b>> /\ T = {a, b}
  OBVIOUS
<1>3. f \in Seq(T) /\ Goto(f) /\ \A i \in 1 .. Len(f) : f[i].pc \notin ShiftPcs
  BY <1>2
<1>4. Steady /\ Steady'
  <2>1. Steady
    BY TopSteady
  <2> QED BY <1>3, <2>1, SteadyStep
<1>5. HeldBelow(own, own, n)
  BY DEF HeldBelow
<1>6. FramesInv(own)'
  BY <1>5, CalmUndisturbed, FramesTwo DEF Owned
<1> QED BY <1>1, <1>4, <1>6, CalmStep

LEMMA OwnerKept ==
  ASSUME OwnerInv, UNCHANGED config, Shape', Plain', NEW own, Owned(own)'
  PROVE  OwnerInv'
<1>1. Covered'
  BY DEF OwnerInv, Covered, Single, Reachable, Fresh, Calls, Faults, Dead, Persistent, Reentrant
<1> QED BY <1>1 DEF OwnerInv

LEMMA PlainKept ==
  ASSUME Plain, UNCHANGED pending,
         \A r \in Created' : request'[r].kind = "multi" => r \in Created /\ request[r].kind = "multi"
  PROVE  Plain'
BY DEF Plain

LEMMA PlainSame == ASSUME Plain, UNCHANGED <<pending, request>> PROVE Plain'
BY DEF Plain, Created

(* A request is only sent or a reply parsed past the select() of a round. *)
LEMMA InRound ==
  ASSUME TypeInv, Shape, stack # <<>>, top.pc \in RoundPcs
  PROVE  in_select /\ \A f : Proceed(f) => Goto(f)
<1>1. 1 \in Positions /\ top = stack[1]
  <2>1. top = stack[1] /\ Len(stack) \in Nat \ {0}
    BY FirstElement DEF TypeInv, StackOK, top
  <2> QED BY <2>1 DEF Positions
<1>2. in_select
  BY <1>1 DEF Shape, Sound
<1> QED BY <1>2 DEF Proceed, Goto

LEMMA OwnerParts ==
  ASSUME OwnerInv
  PROVE  Covered /\ Shape /\ Plain /\ \E own : Owned(own)
BY DEF OwnerInv

(* A step that changes neither a connection nor a request. *)
LEMMA Untouched ==
  ASSUME UNCHANGED <<config, conn, slots, reqs>>
  PROVE  Calm
<1>1. UNCHANGED <<config, status, wire, sendreq, readreq, buildreq, sendqueue, readqueue,
                  request, free_requests>>
  BY DEF conn, slots, reqs
<1>2. Created' = Created
  BY <1>1, SameRequests
<1>3. ASSUME NEW s \in Server PROVE Worn(s)
  <2>1. TRUE
    OBVIOUS
  <2> QED BY <1>1 DEF Worn
<1> QED BY <1>1, <1>2, <1>3 DEF Calm, Slots

LEMMA LeavesOwn ==
  ASSUME TypeInv, TypeInv', OwnerInv, UNCHANGED config,
         SendEnd \/ ParseEnd \/ Unread
  PROVE  OwnerInv'
<1>1. stack # <<>> /\ top.pc \in {"xmit", "parse", "unread"} /\ Goto(<<>>)
  BY DEF SendEnd, ParseEnd, Unread, At, top, Return
<1>2. UNCHANGED <<conn, slots, reqs, in_select, pending>>
  BY DEF SendEnd, ParseEnd, Unread, rounds
<1>3. Calm
  BY <1>2, Untouched
<1>4. RoundKept({}) /\ top.pc \notin ShiftPcs
  BY <1>1, <1>2 DEF RoundKept, ShiftPcs
<1>5. Shape /\ Plain
  BY OwnerParts
<1>6. PICK own : Owned(own)
  BY OwnerParts
<1>7. Shape' /\ Owned(own)'
  BY <1>1, <1>3, <1>4, <1>5, <1>6, CalmReturn
<1>8. Plain'
  BY <1>2, <1>5, PlainSame DEF reqs
<1> QED BY <1>7, <1>8, OwnerKept

LEMMA MoreOwns ==
  ASSUME TypeInv, TypeInv', OwnerInv, UNCHANGED config, SendMore \/ ParseMore
  PROVE  OwnerInv'
<1>1. stack # <<>> /\ top.pc \in {"xmit", "parse"} /\ Proceed(<<>>)
  BY DEF SendMore, ParseMore, Sending, Parsing, At, top
<1>2. Shape /\ Plain
  BY OwnerParts
<1>3. in_select /\ Goto(<<>>)
  BY <1>1, <1>2, InRound DEF RoundPcs
<1>4. UNCHANGED <<status, wire, slots, reqs, in_select, pending>>
  BY DEF SendMore, ParseMore, conn
<1>5. Created' = Created
  BY <1>4, SameRequests DEF reqs
<1>6. Calm
  BY <1>4, <1>5 DEF Calm, Worn, Slots, slots, reqs
<1>7. RoundKept({}) /\ top.pc \notin ShiftPcs
  BY <1>1, <1>4 DEF RoundKept, ShiftPcs
<1>8. PICK own : Owned(own)
  BY OwnerParts
<1>9. Shape' /\ Owned(own)'
  BY <1>1, <1>2, <1>3, <1>6, <1>7, <1>8, CalmReturn
<1>10. Plain'
  BY <1>2, <1>4, PlainSame DEF reqs
<1> QED BY <1>9, <1>10, OwnerKept

(* What a server has to answer, in the order it has to. *)
LEMMA SlotTypesOf ==
  ASSUME TypeInv, NEW s \in Server
  PROVE  /\ ToRead(s) \in Seq(Created) /\ ToSend(s) \in Seq(Created)
         /\ readreq[s] # Null => readreq[s] \in Created /\ readreq[s] \in ToSet(ToRead(s))
         /\ sendreq[s] # Null => sendreq[s] \in Created /\ sendreq[s] \in ToSet(ToSend(s))
<1>1. /\ readqueue[s] \in Seq(Created) /\ sendqueue[s] \in Seq(Created)
      /\ readreq[s] \in Created \cup {Null} /\ sendreq[s] \in Created \cup {Null}
  BY DEF TypeInv, SlotsOK
<1> QED BY <1>1, ConsProperties DEF ToSend, ToRead, Slotted

LEMMA SteadyReads ==
  ASSUME TypeInv, TypeInv', Shape, stack # <<>>, top.pc \notin ShiftPcs,
         UNCHANGED Slots, NEW T, NEW f \in Seq(T), Goto(f),
         \A i \in 1 .. Len(f) : f[i].pc \notin ShiftPcs
  PROVE  \A s \in Server : Reads(s) = ToRead(s) /\ Reads(s)' = ToRead(s)
<1>1. Steady
  BY TopSteady
<1>2. Steady'
  BY <1>1, SteadyStep
<1>3. AsSlotted
  BY <1>1, SteadyServers
<1>4. AsSlotted'
  BY <1>2, SteadyServers, PTL
<1> QED BY <1>3, <1>4, SameSlots DEF AsSlotted

(* A request is only tried again on a stream that was not new. *)
LEMMA NotFresh ==
  ASSUME TypeInv, Steady, NEW own, ServersInv(own), NEW s \in Server, Retryable(s),
         ToSet(ToRead(s)) # {}
  PROVE  ~Fresh
<1> SUFFICES ASSUME Fresh PROVE FALSE
  OBVIOUS
<1>1. ServerInv(own, s)
  BY DEF ServersInv
<1>2. IdleAt(s)
  BY <1>1 DEF ServerInv, Retryable, IsOpen
<1>3. ToRead(s) = <<>>
  BY <1>2 DEF IdleAt, ToRead, Slotted
<1>4. <<>> \in Seq({})
  OBVIOUS
<1> QED BY <1>3, <1>4, ToSetElements

LEMMA SendsAreRead ==
  ASSUME TypeInv, Steady, NEW own, ServersInv(own), NEW s \in Server
  PROVE  /\ ToSet(ToSend(s)) \subseteq ToSet(ToRead(s))
         /\ Pipeline(own, s, ToSend(s), ToRead(s))
<1>1. Sends(s) = ToSend(s) /\ Reads(s) = ToRead(s)
  BY SteadyServers DEF AsSlotted
<1>2. Pipeline(own, s, ToSend(s), ToRead(s))
  BY <1>1 DEF ServersInv, ServerInv
<1>3. ToRead(s) \in Seq(Created) /\ ToSend(s) \in Seq(Created)
  BY SlotTypesOf
<1> QED BY <1>2, <1>3, TailSet DEF Pipeline

(* mmc_select_retry is called for a request the server has to answer. *)
LEMMA RetryFrame ==
  ASSUME TypeInv, TypeInv', Shape, stack # <<>>, top.pc \notin ShiftPcs, NEW own,
         ServersInv(own), UNCHANGED <<config, Slots>>, NEW s \in Server, Retryable(s),
         NEW r \in ToSet(ToRead(s)), NEW a, a = Frame("retry", s, r), Goto(<<a>>), NEW n
  PROVE  FrameInv(own, a, n)'
<1>1. ~Fresh
  <2>1. Steady
    BY TopSteady
  <2> QED BY <2>1, NotFresh
<1>2. a.pc = "retry" /\ a.s = s /\ a.r = r
  BY DEF Frame, FrameOf
<1>3. PICK f, T : f = <<a>> /\ T = {a}
  OBVIOUS
<1>4. f \in Seq(T) /\ Goto(f) /\ \A i \in 1 .. Len(f) : f[i].pc \notin ShiftPcs
  BY <1>2, <1>3 DEF ShiftPcs
<1>5. Reads(s)' = ToRead(s)
  BY <1>4, SteadyReads
<1>6. ~Fresh'
  BY <1>1 DEF Fresh, Persistent, Faults
<1> QED BY <1>2, <1>5, <1>6 DEF FrameInv, HeldBy

LEMMA EntersPlainly ==
  ASSUME NEW a, a.pc \notin ScriptPcs \cup LoopPcs \cup RoundPcs,
         a.pc \notin {"get", "rebuild", "built", "callback", "drain"}
  PROVE  Enters(a)
BY DEF Enters, Sound

LEMMA FailureOwns ==
  ASSUME TypeInv, TypeInv', OwnerInv, UNCHANGED <<config, slots, reqs, in_select, pending>>,
         stack # <<>>, top.pc \in {"xmit", "parse", "late"}, NEW s \in Server,
         \A t \in Server : Worn(t),
         \/ \E r \in ToSet(ToRead(s)) : Retryable(s) /\ Goto(<<Frame("retry", s, r)>>)
         \/ Goto(<<Frame("deactivate", s, Null)>>)
         \/ \E w : Goto(<<Frame("deactivate", s, Null), FrameOf("unread", s, Null, <<>>, w, 0)>>)
  PROVE  OwnerInv'
<1>1. Shape /\ Plain
  BY OwnerParts
<1>2. PICK own : Owned(own)
  BY OwnerParts
<1>3. Calm
  <2>1. Created' = Created
    BY SameRequests DEF reqs
  <2> QED BY <2>1 DEF Calm, Slots, slots, reqs
<1>4. Plain'
  BY <1>1, PlainSame DEF reqs
<1>5. /\ top.pc \notin ShiftPcs \cup {"deactivate", "drain"}
      /\ \A pcs : RoundKept(pcs)
  BY DEF ShiftPcs, RoundKept
<1>6. PICK n : n = Len(stack)
  OBVIOUS
<1>7. PICK d : d = Frame("deactivate", s, Null)
  OBVIOUS
<1>8. d.pc = "deactivate" /\ d.pc \notin ShiftPcs /\ Enters(d) /\ \A h : FrameInv(own, d, h)'
  <2>1. d.pc = "deactivate"
    BY <1>7 DEF Frame, FrameOf
  <2> QED BY <2>1, EntersPlainly, EmptyHanded
          DEF ShiftPcs, HolderPcs, ScriptPcs, LoopPcs, RoundPcs
<1>9. CASE \E r \in ToSet(ToRead(s)) : Retryable(s) /\ Goto(<<Frame("retry", s, r)>>)
  <2>1. PICK r \in ToSet(ToRead(s)) : Retryable(s) /\ Goto(<<Frame("retry", s, r)>>)
    BY <1>9
  <2>2. PICK a : a = Frame("retry", s, r)
    OBVIOUS
  <2>3. a.pc = "retry" /\ Goto(<<a>>)
    BY <2>1, <2>2 DEF Frame, FrameOf
  <2>4. Enters(a) /\ a.pc \notin ShiftPcs
    BY <2>3, EntersPlainly DEF ShiftPcs, ScriptPcs, LoopPcs, RoundPcs
  <2>5. FrameInv(own, a, n)'
    BY <1>1, <1>2, <1>5, <2>1, <2>2, <2>3, RetryFrame DEF Owned, Slots, slots
  <2>6. Shape' /\ Owned(own)'
    BY <1>1, <1>2, <1>3, <1>5, <1>6, <2>3, <2>4, <2>5, CalmOne
  <2> QED BY <1>4, <2>6, OwnerKept
<1>10. CASE Goto(<<Frame("deactivate", s, Null)>>)
  <2>1. Goto(<<d>>)
    BY <1>7, <1>10
  <2>2. Shape' /\ Owned(own)'
    BY <1>1, <1>2, <1>3, <1>5, <1>6, <1>8, <2>1, CalmOne
  <2> QED BY <1>4, <2>2, OwnerKept
<1>11. CASE \E w : Goto(<<Frame("deactivate", s, Null), FrameOf("unread", s, Null, <<>>, w, 0)>>)
  <2>1. PICK w : Goto(<<Frame("deactivate", s, Null), FrameOf("unread", s, Null, <<>>, w, 0)>>)
    BY <1>11
  <2>2. PICK b : b = FrameOf("unread", s, Null, <<>>, w, 0)
    OBVIOUS
  <2>3. b.pc = "unread" /\ Goto(<<d, b>>)
    BY <1>7, <2>1, <2>2 DEF FrameOf
  <2>4. /\ Enters(b) /\ b.pc \notin ShiftPcs /\ Fits(d, b) /\ FrameInv(own, b, n)'
    BY <2>3, EntersPlainly, EmptyHanded
       DEF ShiftPcs, HolderPcs, ScriptPcs, LoopPcs, RoundPcs, Fits
  <2>5. d.pc \notin ScriptPcs \cup LoopPcs
    BY <1>8 DEF ScriptPcs, LoopPcs
  <2>6. Shape' /\ Owned(own)'
    BY <1>1, <1>2, <1>3, <1>5, <1>6, <1>8, <2>3, <2>4, <2>5, CalmTwo
  <2> QED BY <1>4, <2>6, OwnerKept
<1> QED BY <1>9, <1>10, <1>11

LEMMA FailingServer ==
  ASSUME TypeInv, TypeInv', NEW s \in Server, ServerFailure(s) \/ UNCHANGED status,
         UNCHANGED wire \/ (wire[s] # <<>> /\ wire' = [wire EXCEPT ![s] = Tail(@)])
  PROVE  \A t \in Server : Worn(t)
<1> SUFFICES ASSUME NEW t \in Server PROVE Worn(t)
  OBVIOUS
<1>1. Len(wire'[t]) <= Len(wire[t])
  <2>1. wire[t] \in Seq(Created) /\ wire \in [Server -> Seq(Created)]
    BY DEF TypeInv, ConnOK
  <2>2. Len(wire[t]) \in Nat
    BY <2>1, LenProperties
  <2>3. CASE wire'[t] = wire[t]
    BY <2>2, <2>3
  <2>4. CASE t = s /\ wire[t] # <<>> /\ wire'[t] = Tail(wire[t])
    <3>1. Len(Tail(wire[t])) = Len(wire[t]) - 1
      BY <2>1, <2>4, FirstElement
    <3> QED BY <2>2, <2>4, <3>1
  <2> QED BY <2>1, <2>3, <2>4
<1>2. \/ status'[t] = status[t]
      \/ status[t] = "unknown" /\ status'[t] = "disconnected"
  BY DEF ServerFailure, TypeInv, ConnOK
<1> QED BY <1>1, <1>2 DEF Worn

LEMMA SendErrorOwns ==
  ASSUME TypeInv, TypeInv', OwnerInv, UNCHANGED config, SendError
  PROVE  OwnerInv'
<1>1. PICK s : s = top.s
  OBVIOUS
<1>2. stack # <<>> /\ top.pc = "xmit" /\ s \in Server /\ sendreq[s] # Null
  BY <1>1, AtTop DEF SendError, Sending, FrameOK, ServerPcs
<1>3. Shape /\ in_select
  BY <1>2, OwnerParts, InRound DEF RoundPcs
<1>4. UNCHANGED <<slots, reqs, in_select, pending>>
  BY DEF SendError, rounds
<1>5. \A t \in Server : Worn(t)
  BY <1>1, <1>2, FailingServer DEF SendError
<1>6. sendreq[s] \in ToSet(ToRead(s))
  <2>1. PICK own : Owned(own)
    BY OwnerParts
  <2>2. Steady
    BY <1>2, <1>3, TopSteady DEF ShiftPcs
  <2> QED BY <1>2, <2>1, <2>2, SendsAreRead, SlotTypesOf DEF Owned
<1>7. \/ Retryable(s) /\ Goto(<<Frame("retry", s, sendreq[s])>>)
      \/ Goto(<<Frame("deactivate", s, Null), FrameOf("unread", s, Null, <<>>, top.w, 0)>>)
  BY <1>1, <1>3 DEF SendError, Proceed, Goto
<1>8. PICK r, w : r = sendreq[s] /\ w = top.w
  OBVIOUS
<1>9. \/ Retryable(s) /\ Goto(<<Frame("retry", s, r)>>)
      \/ Goto(<<Frame("deactivate", s, Null), FrameOf("unread", s, Null, <<>>, w, 0)>>)
  BY <1>7, <1>8
<1> QED BY <1>2, <1>4, <1>5, <1>6, <1>8, <1>9, FailureOwns

LEMMA ParseFailsOwns ==
  ASSUME TypeInv, TypeInv', OwnerInv, UNCHANGED config, ParseError \/ ParseEof
  PROVE  OwnerInv'
<1>1. PICK s : s = top.s
  OBVIOUS
<1>2. stack # <<>> /\ top.pc = "parse" /\ s \in Server /\ readreq[s] # Null
  BY <1>1, AtTop DEF ParseError, ParseEof, Parsing, FrameOK, ServerPcs
<1>3. Shape /\ in_select
  BY <1>2, OwnerParts, InRound DEF RoundPcs
<1>4. UNCHANGED <<slots, reqs, in_select, pending>>
  BY DEF ParseError, ParseEof, rounds
<1>5. \A t \in Server : Worn(t)
  BY <1>1, <1>2, <1>3, FailingServer DEF ParseError, ParseEof
<1>6. readreq[s] \in ToSet(ToRead(s))
  BY <1>2, SlotTypesOf
<1>7. \/ Retryable(s) /\ Goto(<<Frame("retry", s, readreq[s])>>)
      \/ Goto(<<Frame("deactivate", s, Null)>>)
  BY <1>1, <1>3 DEF ParseError, ParseEof, Proceed, Goto
<1>8. PICK r : r = readreq[s]
  OBVIOUS
<1>9. \/ Retryable(s) /\ Goto(<<Frame("retry", s, r)>>)
      \/ Goto(<<Frame("deactivate", s, Null)>>)
  BY <1>7, <1>8
<1> QED BY <1>2, <1>4, <1>5, <1>6, <1>8, <1>9, FailureOwns

LEMMA LateOwns ==
  ASSUME TypeInv, TypeInv', OwnerInv, UNCHANGED config, Late
  PROVE  OwnerInv'
<1>1. PICK s, r : s = top.s /\ r = top.r
  OBVIOUS
<1>2. stack # <<>> /\ top.pc = "late" /\ s \in Server
  BY <1>1, AtTop DEF Late, FrameOK, ServerPcs
<1>3. UNCHANGED <<slots, reqs, in_select, pending>>
  BY DEF Late, rounds
<1>4. \A t \in Server : Worn(t)
  BY <1>1, <1>2, FailingServer DEF Late
<1>5. r \in ToSet(ToRead(s))
  <2>1. PICK own : Owned(own)
    BY OwnerParts
  <2>2. Steady
    BY <1>2, OwnerParts, TopSteady DEF ShiftPcs
  <2>3. Len(stack) \in Nat \ {0} /\ top = stack[1]
    BY <1>2, FirstElement DEF TypeInv, StackOK, top
  <2>4. 1 \in Positions
    BY <2>3 DEF Positions
  <2>5. FrameInv(own, top, Len(stack) + 1 - 1)
    BY <2>1, <2>3, <2>4 DEF Owned, FramesInv
  <2>6. r \in ToSet(Reads(s))
    BY <1>1, <1>2, <2>5 DEF FrameInv
  <2> QED BY <1>2, <2>2, <2>6, SteadyServers DEF AsSlotted
<1>6. \/ Retryable(s) /\ Goto(<<Frame("retry", s, r)>>)
      \/ Goto(<<Frame("deactivate", s, Null)>>)
  BY <1>1 DEF Late
<1> QED BY <1>2, <1>3, <1>4, <1>5, <1>6, FailureOwns

----------------------------------------------------------------------------
(* The loops of a round, and the calls of the script, between requests.    *)

LEMMA RunsReturn ==
  ASSUME TypeInv, TypeInv', OwnerInv, UNCHANGED <<config, conn, slots, reqs, pending>>,
         stack # <<>>, top.pc \in ScriptPcs \cup LoopPcs, Goto(<<>>), RoundKept({})
  PROVE  OwnerInv'
<1>1. Shape /\ Plain
  BY OwnerParts
<1>2. PICK own : Owned(own)
  BY OwnerParts
<1>3. Calm /\ Plain'
  BY <1>1, Untouched, PlainSame DEF reqs
<1>4. top.pc \notin ShiftPcs
  BY DEF ShiftPcs, ScriptPcs, LoopPcs
<1>5. Shape' /\ Owned(own)'
  BY <1>1, <1>2, <1>3, <1>4, CalmReturn
<1> QED BY <1>3, <1>5, OwnerKept

LEMMA RunsOne ==
  ASSUME TypeInv, TypeInv', OwnerInv, UNCHANGED <<config, conn, slots, reqs, pending>>,
         stack # <<>>, top.pc \in ScriptPcs \cup LoopPcs,
         NEW a, Goto(<<a>>), Enters(a), a.pc \notin HolderPcs, RoundKept({a.pc})
  PROVE  OwnerInv'
<1>1. Shape /\ Plain
  BY OwnerParts
<1>2. PICK own : Owned(own)
  BY OwnerParts
<1>3. Calm /\ Plain'
  BY <1>1, Untouched, PlainSame DEF reqs
<1>4. top.pc \notin ShiftPcs \cup {"deactivate", "drain"} /\ a.pc \notin ShiftPcs
  BY DEF ShiftPcs, ScriptPcs, LoopPcs, HolderPcs
<1>5. PICK n : n = Len(stack)
  OBVIOUS
<1>6. FrameInv(own, a, n)'
  BY EmptyHanded
<1>7. Shape' /\ Owned(own)'
  BY <1>1, <1>2, <1>3, <1>4, <1>5, <1>6, CalmOne
<1> QED BY <1>3, <1>7, OwnerKept

LEMMA RunsTwo ==
  ASSUME TypeInv, TypeInv', OwnerInv, UNCHANGED <<config, conn, slots, reqs, pending>>,
         stack # <<>>, top.pc \in ScriptPcs \cup LoopPcs,
         NEW a, NEW b, Goto(<<a, b>>), Enters(a), Enters(b),
         a.pc \in ScriptPcs \cup LoopPcs => b.pc \in ScriptPcs,
         a.pc \notin HolderPcs, b.pc \notin HolderPcs, RoundKept({a.pc, b.pc})
  PROVE  OwnerInv'
<1>1. Shape /\ Plain
  BY OwnerParts
<1>2. PICK own : Owned(own)
  BY OwnerParts
<1>3. Calm /\ Plain'
  BY <1>1, Untouched, PlainSame DEF reqs
<1>4. /\ top.pc \notin ShiftPcs \cup {"deactivate", "drain"}
      /\ a.pc \notin ShiftPcs /\ b.pc \notin ShiftPcs /\ Fits(a, b)
  BY DEF ShiftPcs, ScriptPcs, LoopPcs, HolderPcs, Fits
<1>5. PICK n : n = Len(stack)
  OBVIOUS
<1>6. FrameInv(own, a, n + 1)' /\ FrameInv(own, b, n)'
  BY EmptyHanded
<1>7. Shape' /\ Owned(own)'
  BY <1>1, <1>2, <1>3, <1>4, <1>5, <1>6, CalmTwo
<1> QED BY <1>3, <1>7, OwnerKept

LEMMA LoopEnters ==
  ASSUME NEW a, a.pc \in ScriptPcs \cup LoopPcs, top.pc \in ScriptPcs \cup LoopPcs,
         a.pc \in {"send", "read"} => in_select'
  PROVE  Enters(a) /\ a.pc \notin HolderPcs
BY DEF Enters, Sound, ScriptPcs, LoopPcs, RoundPcs, HolderPcs

LEMMA NoHelp ==
  ASSUME TypeInv, Shape, At("select")
  PROVE  ~in_select
<1> SUFFICES ASSUME in_select PROVE FALSE
  OBVIOUS
<1>1. Len(stack) \in Nat \ {0} /\ top = stack[1] /\ top.pc = "select"
  BY FirstElement DEF TypeInv, StackOK, top, At
<1>2. 1 \in Positions
  BY <1>1 DEF Positions
<1>3. PICK i \in Positions : stack[i].pc \in {"send", "read"}
  BY DEF Shape
<1>4. 1 < i
  <2>1. i # 1 /\ i \in Nat /\ i >= 1
    BY <1>1, <1>3 DEF Positions
  <2> QED BY <2>1
<1>5. stack[i].pc \in ScriptPcs
  BY <1>1, <1>2, <1>4 DEF Shape, LoopPcs
<1> QED BY <1>3, <1>5 DEF ScriptPcs

LEMMA SelectOwns ==
  ASSUME TypeInv, TypeInv', OwnerInv, UNCHANGED config, Ready \/ Expire \/ SelectError
  PROVE  OwnerInv'
<1>1. stack # <<>> /\ top.pc = "select" /\ ~in_select
  BY DEF Ready, Expire, SelectError, Switch, At, top
<1>2. UNCHANGED <<conn, slots, reqs, pending>>
  BY DEF Ready, Expire, SelectError, Switch
<1>3. PICK w : w = cur
  OBVIOUS
<1>4. \E a : /\ Goto(<<a>>)
             /\ \/ a.pc = "send" /\ in_select' = TRUE
                \/ a.pc = "lateSend" /\ in_select' = in_select
  <2>1. \/ Goto(<<Loop("send", w, 0)>>) /\ in_select' = TRUE
        \/ \E i : Goto(<<Loop("lateSend", w, i)>>) /\ in_select' = in_select
    BY <1>3 DEF Ready, Expire, SelectError
  <2>2. \A i : Loop("send", w, i).pc = "send" /\ Loop("lateSend", w, i).pc = "lateSend"
    BY DEF Loop, FrameOf
  <2> QED BY <2>1, <2>2
<1>5. PICK a : /\ Goto(<<a>>)
               /\ \/ a.pc = "send" /\ in_select' = TRUE
                  \/ a.pc = "lateSend" /\ in_select' = in_select
  BY <1>4
<1>6. Enters(a) /\ a.pc \notin HolderPcs /\ top.pc \in ScriptPcs \cup LoopPcs
  <2>1. top.pc \in ScriptPcs \cup LoopPcs /\ a.pc \in ScriptPcs \cup LoopPcs
    BY <1>1, <1>5 DEF ScriptPcs, LoopPcs
  <2>2. a.pc \in {"send", "read"} => in_select'
    BY <1>5
  <2> QED BY <2>1, <2>2, LoopEnters
<1>7. RoundKept({a.pc})
  <2>1. CASE a.pc = "send"
    BY <1>1, <2>1 DEF RoundKept
  <2>2. CASE in_select' = in_select
    BY <1>1, <2>2 DEF RoundKept
  <2> QED BY <1>5, <2>1, <2>2
<1> QED BY <1>1, <1>2, <1>5, <1>6, <1>7, RunsOne

LEMMA LateFrame ==
  ASSUME TypeInv, TypeInv', Shape, stack # <<>>, top.pc \notin ShiftPcs, NEW own,
         UNCHANGED <<config, Slots>>, NEW s \in Server, NEW r \in ToSet(ToRead(s)),
         NEW a, a.pc = "late", a.s = s, a.r = r, NEW b, b.pc \notin ShiftPcs, Goto(<<a, b>>),
         NEW n
  PROVE  FrameInv(own, a, n)'
<1>1. PICK f, T : f = <<a, b>> /\ T = {a, b}
  OBVIOUS
<1>2. f \in Seq(T) /\ Goto(f) /\ \A i \in 1 .. Len(f) : f[i].pc \notin ShiftPcs
  BY <1>1 DEF ShiftPcs
<1>3. Reads(s)' = ToRead(s)
  BY <1>2, SteadyReads
<1> QED BY <1>3 DEF FrameInv, HeldBy

(* A server that timed out leaves the round with its request. *)
LEMMA TakesOut ==
  ASSUME TypeInv, TypeInv', OwnerInv,
         UNCHANGED <<config, conn, slots, reqs, pending, in_select>>,
         stack # <<>>, top.pc \in {"lateSend", "lateRead"}, NEW s \in Server,
         NEW r \in {sendreq[s], readreq[s]}, r # Null, NEW b, b = top,
         NEW i, Goto(<<FrameOf("late", s, r, <<>>, 0, i), b>>)
  PROVE  OwnerInv'
<1>1. Shape /\ Plain
  BY OwnerParts
<1>2. PICK own : Owned(own)
  BY OwnerParts
<1>3. Calm /\ Plain'
  BY <1>1, Untouched, PlainSame DEF reqs
<1>4. PICK a : a = FrameOf("late", s, r, <<>>, 0, i)
  OBVIOUS
<1>5. a.pc = "late" /\ a.s = s /\ a.r = r /\ Goto(<<a, b>>)
  BY <1>4 DEF FrameOf
<1>6. PICK n : n = Len(stack)
  OBVIOUS
<1>7. /\ top.pc \notin ShiftPcs \cup {"deactivate", "drain"}
      /\ a.pc \notin ShiftPcs /\ b.pc \notin ShiftPcs /\ b.pc \notin HolderPcs /\ Fits(a, b)
      /\ a.pc \notin ScriptPcs \cup LoopPcs
  BY <1>5 DEF ShiftPcs, HolderPcs, Fits, ScriptPcs, LoopPcs
<1>8. Enters(a)
  BY <1>5, EntersPlainly DEF ScriptPcs, LoopPcs, RoundPcs
<1>9. Enters(b)
  <2>1. top.pc \in ScriptPcs \cup LoopPcs /\ b.pc \in ScriptPcs \cup LoopPcs
    BY DEF ScriptPcs, LoopPcs
  <2>2. b.pc \notin {"send", "read"}
    OBVIOUS
  <2> QED BY <2>1, <2>2, LoopEnters
<1>10. \A pcs : RoundKept(pcs)
  BY DEF RoundKept
<1>11. r \in ToSet(ToRead(s))
  <2>1. Steady
    BY <1>1, <1>7, TopSteady
  <2> QED BY <1>2, <2>1, SendsAreRead, SlotTypesOf DEF Owned
<1>12. FrameInv(own, a, n + 1)'
  BY <1>1, <1>5, <1>7, <1>11, LateFrame DEF Slots, slots
<1>13. FrameInv(own, b, n)'
  BY <1>7, EmptyHanded
<1>14. Shape' /\ Owned(own)'
  BY <1>1, <1>2, <1>3, <1>5, <1>6, <1>7, <1>8, <1>9, <1>10, <1>12, <1>13, CalmTwo
<1> QED BY <1>3, <1>14, OwnerKept

LEMMA TimeoutOwns ==
  ASSUME TypeInv, TypeInv', OwnerInv, UNCHANGED config, LateSend \/ LateRead
  PROVE  OwnerInv'
<1>1. PICK w, i, t : w = top.w /\ i = top.i /\ t = top
  OBVIOUS
<1>2. stack # <<>> /\ top.pc \in {"lateSend", "lateRead"} /\ w \in 1 .. 2
  BY <1>1, AtTop DEF LateSend, LateRead, FrameOK
<1>3. UNCHANGED <<conn, slots, reqs, pending>>
  BY DEF LateSend, LateRead
<1>4. sending[w] \in Seq(Server) /\ reading[w] \in Seq(Server)
  BY <1>2 DEF TypeInv, RoundsOK
<1>5. CASE LateSend /\ sending[w] = <<>>
  <2>1. PICK a : a = Loop("lateRead", w, i)
    OBVIOUS
  <2>2. a.pc = "lateRead" /\ Goto(<<a>>) /\ UNCHANGED in_select
    BY <1>1, <1>5, <2>1 DEF LateSend, Loop, FrameOf
  <2>3. top.pc \in ScriptPcs \cup LoopPcs /\ a.pc \in ScriptPcs \cup LoopPcs
    BY <1>2, <2>2 DEF ScriptPcs, LoopPcs
  <2>4. Enters(a) /\ a.pc \notin HolderPcs
    BY <2>2, <2>3, LoopEnters
  <2>5. RoundKept({a.pc})
    BY <1>2, <2>2 DEF RoundKept
  <2> QED BY <1>2, <1>3, <2>2, <2>3, <2>4, <2>5, RunsOne
<1>6. CASE LateRead /\ reading[w] = <<>>
  <2>1. PICK a : a = Loop("send", w, 0)
    OBVIOUS
  <2>2. a.pc = "send" /\ Goto(<<a>>) /\ in_select'
    BY <1>1, <1>6, <2>1 DEF LateRead, Loop, FrameOf
  <2>3. top.pc \in ScriptPcs \cup LoopPcs /\ a.pc \in ScriptPcs \cup LoopPcs
    BY <1>2, <2>2 DEF ScriptPcs, LoopPcs
  <2>4. Enters(a) /\ a.pc \notin HolderPcs
    BY <2>2, <2>3, LoopEnters
  <2>5. RoundKept({a.pc})
    BY <1>2, <2>2 DEF RoundKept
  <2> QED BY <1>2, <1>3, <2>2, <2>3, <2>4, <2>5, RunsOne
<1>7. CASE LateSend /\ sending[w] # <<>>
  <2>1. PICK s : s = Head(sending[w])
    OBVIOUS
  <2>2. s \in Server
    BY <1>4, <1>7, <2>1, FirstElement
  <2>3. PICK r : r = sendreq[s]
    OBVIOUS
  <2>4. r # Null /\ Goto(<<FrameOf("late", s, r, <<>>, 0, i), t>>) /\ UNCHANGED in_select
    BY <1>1, <1>7, <2>1, <2>3 DEF LateSend, TakeOut
  <2> QED BY <1>1, <1>2, <1>3, <2>2, <2>3, <2>4, TakesOut
<1>8. CASE LateRead /\ reading[w] # <<>>
  <2>1. PICK s : s = Head(reading[w])
    OBVIOUS
  <2>2. s \in Server
    BY <1>4, <1>8, <2>1, FirstElement
  <2>3. PICK r : r = readreq[s]
    OBVIOUS
  <2>4. r # Null /\ Goto(<<FrameOf("late", s, r, <<>>, 0, i), t>>) /\ UNCHANGED in_select
    BY <1>1, <1>8, <2>1, <2>3 DEF LateRead, TakeOut
  <2> QED BY <1>1, <1>2, <1>3, <2>2, <2>3, <2>4, TakesOut
<1> QED BY <1>5, <1>6, <1>7, <1>8

LEMMA LoopsOwn ==
  ASSUME TypeInv, TypeInv', OwnerInv, UNCHANGED config, SendLoop \/ ReadLoop
  PROVE  OwnerInv'
<1>1. PICK w, i, p : w = top.w /\ i = top.i + 1 /\ p = top.pc
  OBVIOUS
<1>2. stack # <<>> /\ top.pc = p /\ p \in {"send", "read"} /\ top.pc \in ScriptPcs \cup LoopPcs
  BY <1>1 DEF SendLoop, ReadLoop, At, top, ScriptPcs, LoopPcs
<1>3. UNCHANGED <<conn, slots, reqs, pending>>
  BY DEF SendLoop, ReadLoop
<1>4. in_select
  BY <1>2, OwnerParts, InRound DEF RoundPcs
<1>5. \/ \E a : Goto(<<a>>) /\ a.pc \in {"send", "read"} /\ UNCHANGED in_select
      \/ \E a, b : /\ Goto(<<a, b>>) /\ a.pc \in {"xmit", "parse"} /\ b.pc \in {"send", "read"}
                   /\ UNCHANGED in_select
      \/ Goto(<<>>) /\ ~in_select'
  <2>1. /\ \A j : Loop("send", w, j).pc = "send" /\ Loop("read", w, j).pc = "read"
        /\ \A s : /\ FrameOf("xmit", s, Null, <<>>, w, 0).pc = "xmit"
                  /\ FrameOf("parse", s, Null, <<>>, w, 0).pc = "parse"
    BY DEF Loop, FrameOf
  <2>2. CASE SendLoop
    <3>1. PICK s : s = sending[w][i]
      OBVIOUS
    <3>2. UNCHANGED in_select
      BY <2>2 DEF SendLoop
    <3>3. \/ Goto(<<Loop("read", w, 0)>>)
          \/ Goto(<<Loop("send", w, i)>>)
          \/ Goto(<<FrameOf("xmit", s, Null, <<>>, w, 0), Loop("send", w, i)>>)
      BY <1>1, <2>2, <3>1 DEF SendLoop
    <3> QED BY <2>1, <3>2, <3>3
  <2>3. CASE ReadLoop
    <3>1. PICK s : s = reading[w][i]
      OBVIOUS
    <3>2. \/ ~in_select' /\ Goto(<<>>)
          \/ UNCHANGED in_select /\ Goto(<<Loop("read", w, i)>>)
          \/ UNCHANGED in_select /\ Goto(<<FrameOf("parse", s, Null, <<>>, w, 0), Loop("read", w, i)>>)
      BY <1>1, <2>3, <3>1 DEF ReadLoop, Return
    <3> QED BY <2>1, <3>2
  <2> QED BY <2>2, <2>3
<1>6. CASE \E a : Goto(<<a>>) /\ a.pc \in {"send", "read"} /\ UNCHANGED in_select
  <2>1. PICK a : Goto(<<a>>) /\ a.pc \in {"send", "read"} /\ UNCHANGED in_select
    BY <1>6
  <2>2. a.pc \in ScriptPcs \cup LoopPcs /\ in_select'
    BY <1>4, <2>1 DEF LoopPcs
  <2>3. Enters(a) /\ a.pc \notin HolderPcs
    BY <1>2, <2>2, LoopEnters
  <2>4. RoundKept({a.pc})
    BY <1>4, <2>1 DEF RoundKept
  <2> QED BY <1>2, <1>3, <2>1, <2>3, <2>4, RunsOne
<1>7. CASE \E a, b : /\ Goto(<<a, b>>) /\ a.pc \in {"xmit", "parse"} /\ b.pc \in {"send", "read"}
                     /\ UNCHANGED in_select
  <2>1. PICK a, b : /\ Goto(<<a, b>>) /\ a.pc \in {"xmit", "parse"} /\ b.pc \in {"send", "read"}
                    /\ UNCHANGED in_select
    BY <1>7
  <2>2. b.pc \in ScriptPcs \cup LoopPcs /\ in_select'
    BY <1>4, <2>1 DEF LoopPcs
  <2>3. Enters(b) /\ b.pc \notin HolderPcs
    BY <1>2, <2>2, LoopEnters
  <2>4. Enters(a) /\ a.pc \notin HolderPcs /\ a.pc \notin ScriptPcs \cup LoopPcs
    BY <2>1, <2>2 DEF Enters, Sound, HolderPcs, ScriptPcs, LoopPcs
  <2>5. RoundKept({a.pc, b.pc})
    BY <1>4, <2>1 DEF RoundKept
  <2> QED BY <1>2, <1>3, <2>1, <2>3, <2>4, <2>5, RunsTwo
<1>8. CASE Goto(<<>>) /\ ~in_select'
  <2>1. RoundKept({})
    BY <1>2, <1>8 DEF RoundKept
  <2> QED BY <1>2, <1>3, <1>8, <2>1, RunsReturn
<1> QED BY <1>5, <1>6, <1>7, <1>8

LEMMA ScriptEnters ==
  ASSUME NEW a, a.pc \in ScriptPcs \cup {"select"}, top.pc \in ScriptPcs
  PROVE  Enters(a) /\ a.pc \notin HolderPcs
<1>1. a.pc \in ScriptPcs \cup LoopPcs /\ top.pc \in ScriptPcs \cup LoopPcs
  BY DEF LoopPcs
<1>2. a.pc \notin {"send", "read"}
  BY DEF ScriptPcs
<1> QED BY <1>1, <1>2, LoopEnters

(* The script goes on without a new request. *)
ScriptGoesOn ==
  \/ Goto(<<>>)
  \/ \E a : Goto(<<a>>) /\ a.pc \in ScriptPcs
  \/ \E a, b : Goto(<<a, b>>) /\ a.pc \in ScriptPcs \cup {"select"} /\ b.pc \in ScriptPcs

LEMMA ScriptRuns ==
  ASSUME TypeInv, TypeInv', OwnerInv,
         UNCHANGED <<config, conn, slots, reqs, pending, in_select>>,
         stack # <<>>, top.pc \in ScriptPcs, ScriptGoesOn
  PROVE  OwnerInv'
<1>1. top.pc \in ScriptPcs \cup LoopPcs /\ \A pcs : RoundKept(pcs)
  BY DEF RoundKept, ScriptPcs
<1>2. CASE Goto(<<>>)
  BY <1>1, <1>2, RunsReturn
<1>3. CASE \E a : Goto(<<a>>) /\ a.pc \in ScriptPcs
  <2>1. PICK a : Goto(<<a>>) /\ a.pc \in ScriptPcs
    BY <1>3
  <2>2. Enters(a) /\ a.pc \notin HolderPcs
    BY <2>1, ScriptEnters
  <2> QED BY <1>1, <2>1, <2>2, RunsOne
<1>4. CASE \E a, b : Goto(<<a, b>>) /\ a.pc \in ScriptPcs \cup {"select"} /\ b.pc \in ScriptPcs
  <2>1. PICK a, b : Goto(<<a, b>>) /\ a.pc \in ScriptPcs \cup {"select"} /\ b.pc \in ScriptPcs
    BY <1>4
  <2>2. Enters(a) /\ a.pc \notin HolderPcs /\ Enters(b) /\ b.pc \notin HolderPcs
    BY <2>1, ScriptEnters
  <2> QED BY <1>1, <2>1, <2>2, RunsTwo
<1> QED BY <1>2, <1>3, <1>4 DEF ScriptGoesOn

LEMMA ScriptFrames ==
  ASSUME NEW q, NEW w, NEW i, NEW s, NEW r, NEW k, NEW ok
  PROVE  /\ FrameOf("store", NoServer, Null, q, w, i).pc \in ScriptPcs
         /\ FrameOf("stored", NoServer, Null, q, w, i).pc \in ScriptPcs
         /\ FrameOf("ask", NoServer, Null, q, w, i).pc \in ScriptPcs
         /\ FrameOf("asked", NoServer, Null, q, w, i).pc \in ScriptPcs
         /\ Each("flush", Null, q).pc \in ScriptPcs /\ Each("flushed", Null, q).pc \in ScriptPcs
         /\ CloneOf(s, r, q, w, i, k, ok).pc \in ScriptPcs
         /\ Frame("run", NoServer, Null).pc \in ScriptPcs
         /\ Frame("select", NoServer, Null).pc = "select"
BY DEF Frame, FrameOf, Each, CloneOf, ScriptPcs

LEMMA ScriptCalls ==
  ASSUME \/ RunRounds \/ Stored \/ Flushed \/ Asked
         \/ (Store \/ Flush \/ Ask) /\ top.q = <<>>
  PROVE  /\ stack # <<>> /\ top.pc \in ScriptPcs /\ ScriptGoesOn
         /\ UNCHANGED <<conn, slots, rounds, reqs>>
<1>1. PICK t, q, w, i, c : t = top /\ q = top.q /\ w = top.w /\ i = top.i /\ c = Tail(top.q)
  OBVIOUS
<1>2. stack # <<>> /\ top.pc \in ScriptPcs
  BY DEF RunRounds, Stored, Flushed, Asked, Store, Flush, Ask, At, top, ScriptPcs
<1>3. UNCHANGED <<conn, slots, rounds, reqs>>
  BY DEF RunRounds, Stored, Flushed, Asked, Store, Flush, Ask
<1> DEFINE sel == Frame("select", NoServer, Null)
           run == Frame("run", NoServer, Null)
<1>4. CASE RunRounds
  <2>1. Goto(<<sel, t>>) \/ Goto(<<>>)
    BY <1>1, <1>4 DEF RunRounds, Return
  <2>2. sel.pc = "select"
    BY ScriptFrames
  <2> HIDE DEF sel
  <2> QED BY <1>1, <1>2, <1>3, <2>1, <2>2 DEF ScriptGoesOn
<1>5. CASE Stored
  <2>1. PICK a : a = FrameOf("store", NoServer, Null, q, w, i)
    OBVIOUS
  <2>2. Goto(<<>>) \/ Goto(<<sel, a>>) \/ Goto(<<a>>)
    BY <1>1, <1>5, <2>1 DEF Stored
  <2>3. sel.pc = "select" /\ a.pc \in ScriptPcs
    BY <2>1, ScriptFrames
  <2> HIDE DEF sel
  <2> QED BY <1>2, <1>3, <2>2, <2>3 DEF ScriptGoesOn
<1>6. CASE Flushed
  <2>1. PICK a : a = Each("flush", Null, q)
    OBVIOUS
  <2>2. PICK b : b = sel
    OBVIOUS
  <2>3. <<b>> \o <<a>> = <<b, a>> /\ <<>> \o <<a>> = <<a>>
    BY FramesJoined
  <2>4. Goto(<<b, a>>) \/ Goto(<<a>>)
    BY <1>1, <1>6, <2>1, <2>2, <2>3 DEF Flushed
  <2>5. b.pc = "select" /\ a.pc \in ScriptPcs
    BY <2>1, <2>2, ScriptFrames
  <2> QED BY <1>2, <1>3, <2>4, <2>5 DEF ScriptGoesOn
<1>7. CASE Asked
  <2>1. PICK p : Goto((IF rv THEN <<run>> ELSE <<>>) \o <<FrameOf("ask", NoServer, Null, p, w, 0)>>)
    BY <1>1, <1>7 DEF Asked
  <2>2. PICK a : a = FrameOf("ask", NoServer, Null, p, w, 0)
    OBVIOUS
  <2>3. PICK b : b = run
    OBVIOUS
  <2>4. <<b>> \o <<a>> = <<b, a>> /\ <<>> \o <<a>> = <<a>>
    BY FramesJoined
  <2>5. Goto(<<b, a>>) \/ Goto(<<a>>)
    BY <2>1, <2>2, <2>3, <2>4
  <2>6. b.pc \in ScriptPcs /\ a.pc \in ScriptPcs
    BY <2>2, <2>3, ScriptFrames
  <2> QED BY <1>2, <1>3, <2>5, <2>6 DEF ScriptGoesOn
<1>8. CASE (Store \/ Flush \/ Ask) /\ top.q = <<>>
  <2>1. Goto(<<run>>) \/ Goto(<<>>)
    BY <1>8 DEF Store, Flush, Ask
  <2>2. run.pc \in ScriptPcs
    BY ScriptFrames
  <2> HIDE DEF run
  <2> QED BY <1>2, <1>3, <2>1, <2>2 DEF ScriptGoesOn
<1>9. ScriptGoesOn
  BY <1>4, <1>5, <1>6, <1>7, <1>8
<1> QED BY <1>2, <1>3, <1>9

LEMMA ScriptOwns ==
  ASSUME TypeInv, TypeInv', OwnerInv, UNCHANGED config,
         \/ RunRounds \/ Stored \/ Flushed \/ Asked
         \/ (Store \/ Flush \/ Ask) /\ top.q = <<>>
  PROVE  OwnerInv'
<1>1. /\ stack # <<>> /\ top.pc \in ScriptPcs /\ ScriptGoesOn
      /\ UNCHANGED <<conn, slots, rounds, reqs>>
  BY ScriptCalls
<1>2. UNCHANGED <<pending, in_select>>
  BY <1>1 DEF rounds
<1> QED BY <1>1, <1>2, ScriptRuns

----------------------------------------------------------------------------
(* New requests. *)

(* The requests X change hands. *)
Given(own, X, p) == [r \in Nat |-> IF r \in X THEN p ELSE own[r]]

LEMMA Allocated ==
  ASSUME TypeInv, NEW new, new = NewRequest, NEW kind, NEW keys, NEW failed, NEW index,
         Alloc(new, kind, keys, failed, index)
  PROVE  /\ new \in Nat \ {0} /\ Created' = Created \cup {new}
         /\ request'[new].kind = kind
         /\ \A r \in Created \ {new} : request'[r] = request[r]
<1>1. new \in 1 .. Len(request) + 1 /\ Len(request) \in Nat /\ request \in Seq(Request)
  BY NewRequestType DEF TypeInv, ReqsOK
<1>2. DOMAIN request = 1 .. Len(request)
  BY <1>1
<1> DEFINE rec == [kind |-> kind, keys |-> keys, failed |-> failed, index |-> index,
                   io |-> OldIo(new)]
<1>3. request' = Put(new, rec) /\ rec.kind = kind
  BY DEF Alloc
<1> HIDE DEF rec
<1>4. CASE new \in 1 .. Len(request)
  <2>1. request' = [request EXCEPT ![new] = rec]
    BY <1>2, <1>3, <1>4 DEF Put
  <2>2. Len(request') = Len(request) /\ request'[new] = rec
    BY <1>1, <1>4, <2>1
  <2>3. \A r \in Created \ {new} : request'[r] = request[r]
    BY <1>1, <2>1 DEF Created
  <2> QED BY <1>1, <1>3, <1>4, <2>2, <2>3 DEF Created
<1>5. CASE new = Len(request) + 1
  <2>1. request' = Append(request, rec)
    <3>1. new \notin DOMAIN request
      BY <1>1, <1>2, <1>5
    <3> QED BY <1>3, <3>1, Zenon DEF Put
  <2>2. /\ Len(request') = Len(request) + 1 /\ request'[new] = rec
        /\ \A r \in 1 .. Len(request) : request'[r] = request[r]
    <3> DEFINE S == Request \cup {rec}
    <3>1. request \in Seq(S)
      <4>1. request \in Seq(Request)
        BY <1>1
      <4> QED BY <4>1
    <3>2. rec \in S
      OBVIOUS
    <3> HIDE DEF S
    <3> QED BY <1>5, <2>1, <3>1, <3>2, AppendProperties
  <2> QED BY <1>1, <1>3, <1>5, <2>2 DEF Created
<1> QED BY <1>1, <1>4, <1>5

(* What is on the free list is nowhere else. *)
LEMMA NewIsFree ==
  ASSUME TypeInv, NEW own, FreeInv(own), NEW new, new = NewRequest
  PROVE  /\ new \in Created => own[new] = OnFreeList
         /\ Distinct(Rest(free_requests))
         /\ \A r \in ToSet(Rest(free_requests)) :
              r \in Nat \ {Null} /\ r # new /\ own[r] = OnFreeList
<1> DEFINE C == Created \cup {Null}
           q == free_requests
<1>1. q \in Seq(C) /\ Distinct(q) /\ \A r \in ToSet(q) : r # Null /\ own[r] = OnFreeList
  BY DEF TypeInv, ReqsOK, FreeInv
<1>2. C \subseteq Nat
  BY DEF Created, Null
<1> HIDE DEF C, q
<1>3. /\ ToSet(Rest(q)) \subseteq ToSet(q) /\ Distinct(Rest(q)) /\ ToSet(q) \subseteq C
  BY <1>1, RestDrops, ToSetElements
<1>4. CASE q = <<>>
  <2>1. ToSet(q) = {}
    BY <1>1, <1>4, ToSetElements
  <2>2. new = Len(request) + 1
    BY <1>4 DEF NewRequest, Popped, q
  <2>3. Len(request) \in Nat
    BY NewRequestType
  <2>4. new \notin Created
    BY <2>2, <2>3 DEF Created
  <2> QED BY <1>3, <2>1, <2>4 DEF q
<1>5. CASE q # <<>>
  <2>1. /\ Popped(q, Null) = Head(q) /\ Head(q) \in ToSet(q) /\ Head(q) \notin ToSet(Rest(q))
    <3>1. PICK z : z = Null
      OBVIOUS
    <3>2. /\ Popped(q, z) = Head(q) /\ ToSet(q) = ToSet(Rest(q)) \cup {Popped(q, z)}
          /\ Popped(q, z) \notin ToSet(Rest(q))
      BY <1>1, <1>5, RestDrops
    <3> QED BY <3>1, <3>2
  <2>2. Head(q) # Null
    BY <1>1, <2>1
  <2>3. new = Head(q)
    BY <2>1, <2>2 DEF NewRequest, q
  <2> QED BY <1>1, <1>2, <1>3, <2>1, <2>3 DEF q
<1> QED BY <1>4, <1>5

(* A request is created and scheduled. *)
Allocates == \E kind, keys, failed, index :
  kind # "multi" /\ Alloc(NewRequest, kind, keys, failed, index)
Schedules(f) ==
  /\ Goto(f) /\ Len(f) \in Nat \ {0} /\ f[1].pc = "schedule" /\ f[1].r = NewRequest
  /\ \A i \in 2 .. Len(f) : f[i].pc \in ScriptPcs
ScriptCreates == Allocates /\ \E T : \E f \in Seq(T) : Schedules(f)

LEMMA NewOwns ==
  ASSUME TypeInv, TypeInv', OwnerInv, UNCHANGED <<config, conn, slots, pending, in_select>>,
         stack # <<>>, top.pc \in ScriptPcs, NEW new, new = NewRequest,
         NEW kind, kind # "multi", NEW keys, NEW failed, NEW index,
         Alloc(new, kind, keys, failed, index),
         NEW T, NEW f \in Seq(T), Goto(f), Len(f) \in Nat \ {0}, f[1].pc = "schedule", f[1].r = new,
         \A i \in 2 .. Len(f) : f[i].pc \in ScriptPcs
  PROVE  OwnerInv'
<1>1. Shape /\ Plain
  BY OwnerParts
<1>2. PICK own : Owned(own)
  BY OwnerParts
<1>3. PICK n, m : n = Len(stack) /\ m = Len(f)
  OBVIOUS
<1>4. n \in Nat \ {0}
  BY <1>3, FirstElement DEF TypeInv, StackOK
<1>5. PICK own2 : own2 = Given(own, {new}, InFrame(n + m - 1))
  OBVIOUS
<1>6. /\ new \in Nat \ {0} /\ Created' = Created \cup {new} /\ request'[new].kind = kind
      /\ \A r \in Created \ {new} : request'[r] = request[r]
  BY Allocated
<1>7. own2[new] = InFrame(n + m - 1) /\ \A r \in Nat \ {new} : own2[r] = own[r]
  BY <1>5, <1>6 DEF Given
<1>8. /\ new \in Created => own[new] = OnFreeList
      /\ Distinct(Rest(free_requests))
      /\ \A r \in ToSet(Rest(free_requests)) :
           r \in Nat \ {Null} /\ r # new /\ own[r] = OnFreeList
  BY <1>2, NewIsFree DEF Owned
<1>9. \A r \in Created : r \in Nat
  BY DEF Created
<1>10. FreeInv(own2)'
  BY <1>7, <1>8 DEF FreeInv, Alloc
<1>11. ASSUME NEW i \in 1 .. Len(f)
       PROVE  /\ f[i].pc \in ScriptPcs \cup {"schedule"}
              /\ i # 1 => f[i].pc \in ScriptPcs
  BY <1>11
<1>12. Steady /\ Steady'
  <2>1. Steady
    BY <1>1, TopSteady DEF ScriptPcs, ShiftPcs
  <2>2. \A i \in 1 .. Len(f) : f[i].pc \notin ShiftPcs
    BY <1>11 DEF ScriptPcs, ShiftPcs
  <2> QED BY <2>1, <2>2, SteadyStep
<1>13. ServersInv(own2)'
  <2>1. UNCHANGED <<config, Slots, buildreq, status, wire>>
    BY DEF Slots, slots, conn
  <2>2. \A s \in Server : Worn(s)
    BY <2>1 DEF Worn
  <2>3. \A r \in Created, s \in Server : own[r] = OnServer(s) => own2[r] = OnServer(s)
    BY <1>7, <1>8, <1>9, Places
  <2>4. ServersInv(own)
    BY <1>2 DEF Owned
  <2> QED BY <1>12, <2>1, <2>2, <2>3, <2>4, ServersQuiet
<1>14. Undisturbed
  BY <1>6 DEF Undisturbed, ScriptPcs
<1>15. Hold(own2, f, n)
  <2>1. ASSUME NEW i \in 1 .. Len(f) PROVE FrameInv(own2, f[i], n + Len(f) - i)'
    <3>1. CASE i = 1
      <4>1. f[i].pc = "schedule" /\ f[i].r = new /\ n + Len(f) - i = n + m - 1
        BY <1>3, <3>1
      <4> QED BY <1>7, <4>1 DEF FrameInv, HeldBy
    <3>2. CASE i # 1
      <4>1. f[i].pc \notin HolderPcs
        BY <1>11, <3>2 DEF ScriptPcs, HolderPcs
      <4> QED BY <4>1, EmptyHanded
    <3> QED BY <3>1, <3>2
  <2> QED BY <2>1 DEF Hold
<1>16. HeldBelow(own, own2, n)
  BY <1>7, <1>8, <1>9, Places DEF HeldBelow
<1>17. FramesInv(own2)'
  BY <1>1, <1>2, <1>3, <1>14, <1>15, <1>16, FramesStep DEF Owned
<1>18. Shape'
  <2>1. ASSUME NEW i \in 1 .. Len(f) PROVE Sound(f[i])' /\ f[i].pc # "unslot"
    BY <1>11 DEF Sound, ScriptPcs, RoundPcs
  <2>2. ASSUME NEW i \in 1 .. Len(f) - 1 PROVE Fits(f[i], f[i + 1])
    <3>1. i + 1 \in 2 .. Len(f)
      OBVIOUS
    <3> QED BY <3>1 DEF Fits, ScriptPcs
  <2>3. ASSUME NEW i \in 1 .. Len(f), NEW j \in 1 .. Len(f), i < j PROVE f[j].pc \in ScriptPcs
    <3>1. j \in 2 .. Len(f)
      BY <2>3
    <3> QED BY <3>1
  <2>4. \A i \in 1 .. Len(f) : Sound(f[i])' /\ (f[i].pc = "unslot" => i <= 2)
    BY <2>1
  <2>5. \A i \in 1 .. Len(f) - 1 : Fits(f[i], f[i + 1])
    BY <2>2
  <2>6. \A i, j \in 1 .. Len(f) :
          i < j /\ f[i].pc \in ScriptPcs \cup LoopPcs => f[j].pc \in ScriptPcs
    BY <2>3
  <2>7. /\ top.pc \in ScriptPcs \cup LoopPcs /\ top.pc \notin {"send", "read"}
        /\ top.pc \notin {"slot", "unqueue", "deactivate"} /\ top.pc # "drain"
    BY DEF ScriptPcs
  <2> QED BY <1>1, <2>4, <2>5, <2>6, <2>7, ShapeStep
<1>19. Plain'
  BY <1>1, <1>6 DEF Plain
<1>20. Owned(own2)'
  BY <1>10, <1>13, <1>17 DEF Owned
<1> QED BY <1>18, <1>19, <1>20, OwnerKept

LEMMA StoreCalls ==
  ASSUME Store \/ Flush \/ Ask, top.q # <<>>
  PROVE  /\ stack # <<>> /\ top.pc \in ScriptPcs /\ ScriptCreates
         /\ UNCHANGED <<conn, slots, rounds>>
<1>1. stack # <<>> /\ top.pc \in ScriptPcs
  BY DEF Store, Flush, Ask, At, top, ScriptPcs
<1>2. UNCHANGED <<conn, slots, rounds>>
  BY DEF Store, Flush, Ask
<1>3. PICK new : new = NewRequest
  OBVIOUS
<1>4. \E kind, keys : kind # "multi" /\ Alloc(new, kind, keys, {}, 0)
  <2>1. "key" # "multi" /\ "null" # "multi"
    OBVIOUS
  <2>2. \/ Alloc(new, "key", <<Head(top.q)>>, {}, 0)
        \/ Alloc(new, "null", <<>>, {}, 0)
    BY <1>3 DEF Store, Flush, Ask
  <2>3. PICK q : q = <<Head(top.q)>>
    OBVIOUS
  <2> QED BY <2>1, <2>2, <2>3
<1>5. Allocates
  BY <1>3, <1>4 DEF Allocates
<1>6. \/ \E a, b : /\ Goto(<<a, b>>)
                   /\ a.pc = "schedule" /\ a.r = new /\ b.pc \in ScriptPcs
      \/ \E a, b, c : /\ Goto(<<a, b, c>>)
                      /\ a.pc = "schedule" /\ a.r = new /\ b.pc \in ScriptPcs /\ c.pc \in ScriptPcs
  <2>1. \A s : Frame("schedule", s, new).pc = "schedule" /\ Frame("schedule", s, new).r = new
    BY DEF Frame, FrameOf
  <2>2. CASE Store
    <3>1. PICK k, s, c : /\ k = Head(top.q) /\ s = Find(k)
                         /\ c = FrameOf("stored", NoServer, Null, Tail(top.q), top.w, top.i)
      OBVIOUS
    <3>2. PICK a, b : a = Frame("schedule", s, new) /\ b = CloneOf(s, new, <<>>, 0, 0, k, FALSE)
      OBVIOUS
    <3>3. Goto(<<a, b>> \o <<c>>) \/ Goto(<<a>> \o <<c>>)
      BY <1>3, <2>2, <3>1, <3>2 DEF Store
    <3>4. <<a, b>> \o <<c>> = <<a, b, c>> /\ <<a>> \o <<c>> = <<a, c>>
      BY FramesJoined, ThreeFrames
    <3>5. Goto(<<a, b, c>>) \/ Goto(<<a, c>>)
      BY <3>3, <3>4
    <3>6. b.pc \in ScriptPcs /\ c.pc \in ScriptPcs
      BY <3>1, <3>2, ScriptFrames
    <3> QED BY <2>1, <3>2, <3>5, <3>6
  <2>3. CASE Flush
    <3>1. PICK a, b : /\ a = Frame("schedule", Head(top.q), new)
                      /\ b = Each("flushed", Null, Tail(top.q))
      OBVIOUS
    <3>2. Goto(<<a, b>>)
      BY <1>3, <2>3, <3>1 DEF Flush
    <3>3. b.pc \in ScriptPcs
      BY <3>1, ScriptFrames
    <3> QED BY <2>1, <3>1, <3>2, <3>3
  <2>4. CASE Ask
    <3>1. PICK a, b : /\ a = Frame("schedule", Head(top.q), new)
                      /\ b = FrameOf("asked", NoServer, Null, Tail(top.q), top.w, 0)
      OBVIOUS
    <3>2. Goto(<<a, b>>)
      BY <1>3, <2>4, <3>1 DEF Ask
    <3>3. b.pc \in ScriptPcs
      BY <3>1, ScriptFrames
    <3> QED BY <2>1, <3>1, <3>2, <3>3
  <2> QED BY <2>2, <2>3, <2>4
<1>7. ASSUME \E a, b : /\ Goto(<<a, b>>)
                     /\ a.pc = "schedule" /\ a.r = new /\ b.pc \in ScriptPcs
      PROVE  \E T : \E f \in Seq(T) : Schedules(f)
  <2>1. PICK a, b : /\ Goto(<<a, b>>)
                    /\ a.pc = "schedule" /\ a.r = new /\ b.pc \in ScriptPcs
    BY <1>7
  <2>2. PICK f, T : f = <<a, b>> /\ T = {a, b}
    OBVIOUS
  <2>3. f \in Seq(T) /\ Goto(f) /\ Len(f) = 2 /\ f[1] = a /\ f[2] = b
    BY <2>1, <2>2
  <2>4. \A i \in 2 .. Len(f) : f[i].pc \in ScriptPcs
    BY <2>1, <2>3
  <2>5. f \in Seq(T) /\ Goto(f) /\ Len(f) \in Nat \ {0} /\ f[1].pc = "schedule" /\ f[1].r = new
    BY <2>1, <2>3
  <2>6. Schedules(f)
    BY <1>3, <2>4, <2>5 DEF Schedules
  <2> QED BY <2>5, <2>6
<1>8. ASSUME \E a, b, c : /\ Goto(<<a, b, c>>)
                        /\ a.pc = "schedule" /\ a.r = new /\ b.pc \in ScriptPcs /\ c.pc \in ScriptPcs
      PROVE  \E T : \E f \in Seq(T) : Schedules(f)
  <2>1. PICK a, b, c : /\ Goto(<<a, b, c>>)
                       /\ a.pc = "schedule" /\ a.r = new /\ b.pc \in ScriptPcs /\ c.pc \in ScriptPcs
    BY <1>8
  <2>2. PICK f, T : f = <<a, b, c>> /\ T = {a, b, c}
    OBVIOUS
  <2>3. f \in Seq(T) /\ Goto(f) /\ Len(f) = 3 /\ f[1] = a /\ f[2] = b /\ f[3] = c
    BY <2>1, <2>2
  <2>4. \A i \in 2 .. Len(f) : f[i].pc \in ScriptPcs
    <3>1. \A i \in 2 .. Len(f) : i = 2 \/ i = 3
      BY <2>3
    <3> QED BY <2>1, <2>3, <3>1
  <2>5. f \in Seq(T) /\ Goto(f) /\ Len(f) \in Nat \ {0} /\ f[1].pc = "schedule" /\ f[1].r = new
    BY <2>1, <2>3
  <2>6. Schedules(f)
    BY <1>3, <2>4, <2>5 DEF Schedules
  <2> QED BY <2>5, <2>6
<1>9. \E T : \E f \in Seq(T) : Schedules(f)
  BY <1>6, <1>7, <1>8
<1> QED BY <1>1, <1>2, <1>5, <1>9 DEF ScriptCreates

(* Who creates a request gives it to the scheduler. *)
LEMMA CreatesOwns ==
  ASSUME TypeInv, TypeInv', OwnerInv, UNCHANGED <<config, conn, slots, rounds>>,
         stack # <<>>, top.pc \in ScriptPcs, ScriptCreates
  PROVE  OwnerInv'
<1>1. PICK kind, keys, failed, index :
        kind # "multi" /\ Alloc(NewRequest, kind, keys, failed, index)
  BY DEF ScriptCreates, Allocates
<1>2. PICK T : \E f \in Seq(T) : Schedules(f)
  BY DEF ScriptCreates
<1>3. PICK f \in Seq(T) : Schedules(f)
  BY <1>2
<1>4. PICK new : new = NewRequest
  OBVIOUS
<1>5. /\ Goto(f) /\ Len(f) \in Nat \ {0} /\ f[1].pc = "schedule" /\ f[1].r = new
      /\ \A i \in 2 .. Len(f) : f[i].pc \in ScriptPcs
  BY <1>3, <1>4 DEF Schedules
<1>6. UNCHANGED <<pending, in_select>>
  BY DEF rounds
<1> QED BY <1>1, <1>4, <1>5, <1>6, NewOwns

LEMMA StoreOwns ==
  ASSUME TypeInv, TypeInv', OwnerInv, UNCHANGED config, Store \/ Flush \/ Ask, top.q # <<>>
  PROVE  OwnerInv'
BY StoreCalls, CreatesOwns

LEMMA CloneCalls ==
  ASSUME CloneKey
  PROVE  /\ stack # <<>> /\ top.pc \in ScriptPcs
         /\ UNCHANGED <<conn, slots, rounds>>
         /\ (ScriptGoesOn /\ UNCHANGED reqs) \/ ScriptCreates
<1>1. stack # <<>> /\ top.pc \in ScriptPcs
  BY DEF CloneKey, At, top, ScriptPcs
<1>2. UNCHANGED <<conn, slots, rounds>>
  BY DEF CloneKey
<1> DEFINE r == top.r
           ok == IF top.i = 0 THEN rv ELSE top.ok
           skip == Append(top.q, top.s)
           j == LastProbe(top.k, top.w, Server \ ToSet(skip))
           s == HashNext[top.k][j]
           next == CloneOf(s, r, skip, j + 1, top.i + 1, top.k, ok)
           kind == CloneKind(NewRequest, r)
<1>3. \/ Return /\ UNCHANGED reqs
      \/ Goto(<<next>>) /\ UNCHANGED reqs
      \/ /\ Alloc(NewRequest, kind, request[r].keys, {}, 0)
         /\ Goto(<<Frame("schedule", s, NewRequest), next>>)
  BY DEF CloneKey
<1>4. PICK new, b, t, kd, keys : /\ new = NewRequest /\ b = next /\ t = s /\ kd = kind
                                 /\ keys = request[r].keys
  OBVIOUS
<1>5. b.pc \in ScriptPcs
  BY <1>4, ScriptFrames
<1>6. kd # "multi"
  BY <1>4 DEF CloneKind
<1>7. \/ Goto(<<>>) /\ UNCHANGED reqs
      \/ Goto(<<b>>) /\ UNCHANGED reqs
      \/ /\ Alloc(new, kd, keys, {}, 0)
         /\ Goto(<<Frame("schedule", t, new), b>>)
  BY <1>3, <1>4 DEF Return
<1> HIDE DEF next, kind, s, r
<1>8. ASSUME Goto(<<>>) \/ Goto(<<b>>) PROVE ScriptGoesOn
  BY <1>5, <1>8 DEF ScriptGoesOn
<1>9. ASSUME Alloc(new, kd, keys, {}, 0) /\ Goto(<<Frame("schedule", t, new), b>>)
      PROVE  ScriptCreates
  <2>1. PICK a : a = Frame("schedule", t, new)
    OBVIOUS
  <2>2. a.pc = "schedule" /\ a.r = new /\ Goto(<<a, b>>)
    BY <1>9, <2>1 DEF Frame, FrameOf
  <2>3. PICK f, T : f = <<a, b>> /\ T = {a, b}
    OBVIOUS
  <2>4. f \in Seq(T) /\ Goto(f) /\ Len(f) = 2 /\ f[1] = a /\ f[2] = b
    BY <2>2, <2>3
  <2>5. \A i \in 2 .. Len(f) : f[i].pc \in ScriptPcs
    BY <1>5, <2>4
  <2>6. Schedules(f)
    BY <1>4, <2>2, <2>4, <2>5 DEF Schedules
  <2>7. Allocates
    BY <1>4, <1>6, <1>9 DEF Allocates
  <2> QED BY <2>4, <2>6, <2>7 DEF ScriptCreates
<1> QED BY <1>1, <1>2, <1>7, <1>8, <1>9

LEMMA CloneOwns ==
  ASSUME TypeInv, TypeInv', OwnerInv, UNCHANGED config, CloneKey
  PROVE  OwnerInv'
<1>1. /\ stack # <<>> /\ top.pc \in ScriptPcs
      /\ UNCHANGED <<conn, slots, rounds>>
      /\ (ScriptGoesOn /\ UNCHANGED reqs) \/ ScriptCreates
  BY CloneCalls
<1>2. UNCHANGED <<pending, in_select>>
  BY <1>1 DEF rounds
<1> QED BY <1>1, <1>2, ScriptRuns, CreatesOwns

----------------------------------------------------------------------------
(* Requests on their way from one server to another. *)

LEMMA TopFrame ==
  ASSUME TypeInv, stack # <<>>, NEW own, Owned(own), NEW n, n = Len(stack)
  PROVE  /\ n \in Nat \ {0} /\ 1 \in Positions /\ top = stack[1]
         /\ FrameInv(own, top, n)
<1>1. n \in Nat \ {0} /\ top = stack[1]
  BY FirstElement DEF TypeInv, StackOK, top
<1>2. 1 \in Positions
  BY <1>1 DEF Positions
<1>3. n + 1 - 1 = n
  BY <1>1
<1> QED BY <1>1, <1>2, <1>3 DEF Owned, FramesInv

(* mmc_pool_schedule, the failover handlers and the loop in them hand the  *)
(* request on to each other.                                               *)
PlacePcs == {"schedule", "failover", "probe"}

LEMMA HandOn ==
  ASSUME TypeInv, TypeInv', OwnerInv, Calm, Plain', UNCHANGED in_select,
         stack # <<>>, top.pc \in PlacePcs \cup {"unslot"},
         NEW a, Goto(<<a>>), a.pc \in PlacePcs, a.r = top.r
  PROVE  OwnerInv'
<1>1. Shape /\ UNCHANGED config
  BY OwnerParts DEF Calm
<1>2. PICK own : Owned(own)
  BY OwnerParts
<1>3. PICK n : n = Len(stack)
  OBVIOUS
<1>4. FrameInv(own, top, n)
  BY <1>2, <1>3, TopFrame
<1>5. Created' = Created
  BY DEF Calm
<1>6. FrameInv(own, a, n)'
  <2>1. \A r \in Created : r = a.r => own[r] = InFrame(n)
    BY <1>4 DEF FrameInv, HeldBy, PlacePcs
  <2>2. \A r : HeldBy(a, r)' => r = a.r
    BY DEF HeldBy, PlacePcs
  <2> QED BY <1>5, <2>1, <2>2 DEF FrameInv, PlacePcs
<1>7. Enters(a)
  BY EntersPlainly DEF PlacePcs, ScriptPcs, LoopPcs, RoundPcs
<1>8. /\ top.pc \notin ShiftPcs \cup {"deactivate", "drain"} /\ a.pc \notin ShiftPcs
      /\ RoundKept({a.pc})
  BY DEF PlacePcs, ShiftPcs, RoundKept
<1>9. Shape' /\ Owned(own)'
  BY <1>1, <1>2, <1>3, <1>6, <1>7, <1>8, CalmOne
<1> QED BY <1>1, <1>9, OwnerKept

LEMMA PassesOn ==
  ASSUME TypeInv, TypeInv', OwnerInv, UNCHANGED config, ScheduleInvalid \/ FailOver
  PROVE  OwnerInv'
<1>1. stack # <<>> /\ top.pc \in {"schedule", "failover"} /\ top.r \in Created
  BY AtTop DEF ScheduleInvalid, FailOver, FrameOK, RequestPcs
<1>2. UNCHANGED <<conn, slots, reqs, in_select, pending>>
  BY DEF ScheduleInvalid, FailOver, rounds
<1>3. Calm
  BY <1>2, Untouched
<1>4. Plain /\ Plain'
  BY <1>2, OwnerParts, PlainSame DEF reqs
<1>5. \E a : Goto(<<a>>) /\ a.pc \in PlacePcs /\ a.r = top.r
  <2>1. CASE ScheduleInvalid
    <3>1. PICK a : a = Frame("failover", top.s, top.r)
      OBVIOUS
    <3>2. Goto(<<a>>) /\ a.pc = "failover" /\ a.r = top.r
      BY <2>1, <3>1 DEF ScheduleInvalid, Frame, FrameOf
    <3> QED BY <3>2 DEF PlacePcs
  <2>2. CASE FailOver
    <3>1. request[top.r].kind = "key"
      BY <1>1, <1>4, <2>2 DEF FailOver, MayFailOver, Plain
    <3>2. PICK a : a = Frame("probe", top.s, top.r)
      OBVIOUS
    <3>3. Goto(<<a>>) /\ a.pc = "probe" /\ a.r = top.r
      BY <2>2, <3>1, <3>2 DEF FailOver, Frame, FrameOf
    <3> QED BY <3>3 DEF PlacePcs
  <2> QED BY <2>1, <2>2
<1> QED BY <1>1, <1>2, <1>3, <1>4, <1>5, HandOn DEF PlacePcs

LEMMA FindNextOwns ==
  ASSUME TypeInv, TypeInv', OwnerInv, UNCHANGED config, FindNext
  PROVE  OwnerInv'
<1>1. stack # <<>> /\ top.pc = "probe" /\ top.r \in Created
  BY AtTop DEF FindNext, FrameOK, RequestPcs
<1>2. UNCHANGED <<conn, slots, free_requests, in_select, pending>>
  BY DEF FindNext, rounds
<1>3. Plain
  BY OwnerParts
<1>4. Created' = Created /\ \A x \in Created : request'[x].kind = request[x].kind
  <2> DEFINE m == [request[top.r] EXCEPT !.failed = request[top.r].failed \cup {top.s},
       !.index = LastProbe(Head(request[top.r].keys), request[top.r].index,
                           Server \ (request[top.r].failed \cup {top.s})) + 1]
  <2>1. request' = [request EXCEPT ![top.r] = m]
    BY DEF FindNext
  <2>2. request \in Seq(Request)
    BY DEF TypeInv, ReqsOK
  <2>3. request[top.r] \in Request
    BY <1>1, <2>2, ElementOfSeq DEF Created
  <2>4. m.kind = request[top.r].kind
    BY <2>3 DEF Request
  <2> HIDE DEF m
  <2>5. /\ Len(request') = Len(request) /\ Len(request) \in Nat
        /\ \A x \in 1 .. Len(request) : request'[x] = IF x = top.r THEN m ELSE request[x]
    BY <2>1, <2>2
  <2> QED BY <2>4, <2>5 DEF Created
<1>5. Plain'
  BY <1>2, <1>3, <1>4 DEF Plain
<1>6. Calm
  BY <1>2, <1>4 DEF Calm, Slots, slots, conn, Worn
<1>7. \E a : Goto(<<a>>) /\ a.pc \in PlacePcs /\ a.r = top.r
  <2>1. \E p, s : Goto(<<Frame(p, s, top.r)>>) /\ p \in {"probe", "schedule"}
    BY DEF FindNext
  <2>2. PICK p, s : Goto(<<Frame(p, s, top.r)>>) /\ p \in {"probe", "schedule"}
    BY <2>1
  <2>3. PICK a : a = Frame(p, s, top.r)
    OBVIOUS
  <2>4. Goto(<<a>>) /\ a.pc = p /\ a.r = top.r
    BY <2>2, <2>3 DEF Frame, FrameOf
  <2> QED BY <2>2, <2>4 DEF PlacePcs
<1> QED BY <1>1, <1>2, <1>5, <1>6, <1>7, HandOn DEF PlacePcs

(* The connection is refused to a server that has nothing to do.           *)
LEMMA RefusedIdle ==
  ASSUME TypeInv, OwnerInv, Steady, NEW own, Owned(own), NEW s \in Server, Refused(s)
  PROVE  ~Reachable /\ IdleAt(s)
<1>1. ~Reachable
  BY DEF Refused, Fault, Reachable
<1>2. Fresh /\ ~IsOpen(s)
  BY <1>1, OwnerParts DEF Covered, Refused
<1> QED BY <1>1, <1>2 DEF Owned, ServersInv, ServerInv

LEMMA ScheduleRefusedOwns ==
  ASSUME TypeInv, TypeInv', OwnerInv, UNCHANGED config, ScheduleRefused
  PROVE  OwnerInv'
<1>1. PICK s, r : s = top.s /\ r = top.r
  OBVIOUS
<1>2. stack # <<>> /\ top.pc = "schedule" /\ s \in Server /\ r \in Created
  BY <1>1, AtTop DEF ScheduleRefused, FrameOK, RequestPcs, ServerPcs
<1>3. UNCHANGED <<conn, slots, reqs, in_select, pending>>
  BY DEF ScheduleRefused, rounds
<1>4. Calm
  BY <1>3, Untouched
<1>5. Shape /\ Plain'
  BY <1>3, OwnerParts, PlainSame DEF reqs
<1>6. PICK own : Owned(own)
  BY OwnerParts
<1>7. ~Reachable /\ IdleAt(s)
  <2>1. Steady
    BY <1>2, <1>5, TopSteady DEF ShiftPcs
  <2> QED BY <1>1, <1>2, <1>6, <2>1, RefusedIdle DEF ScheduleRefused
<1>8. ~Reachable' /\ IdleAt(s)'
  BY <1>3, <1>7 DEF Reachable, Faults, Dead, IdleAt, slots
<1>9. PICK a, b, n : a = Frame("deactivate", s, Null) /\ b = Frame("unslot", s, r) /\ n = Len(stack)
  OBVIOUS
<1>10. /\ a.pc = "deactivate" /\ a.s = s
       /\ b.pc = "unslot" /\ b.s = s /\ b.r = r
       /\ Goto(<<a, b>>)
  BY <1>1, <1>9 DEF Frame, FrameOf, ScheduleRefused
<1>11. /\ Enters(a) /\ Enters(b) /\ Fits(a, b) /\ a.pc \notin ScriptPcs \cup LoopPcs
       /\ a.pc \notin ShiftPcs /\ b.pc \notin ShiftPcs /\ RoundKept({a.pc, b.pc})
       /\ top.pc \notin ShiftPcs \cup {"deactivate", "drain"}
  BY <1>2, <1>3, <1>10, EntersPlainly
     DEF ShiftPcs, ScriptPcs, LoopPcs, RoundPcs, Fits, RoundKept
<1>12. FrameInv(own, a, n + 1)'
  BY <1>10, EmptyHanded DEF HolderPcs
<1>13. FrameInv(own, b, n)'
  <2>1. FrameInv(own, top, n)
    BY <1>2, <1>6, <1>9, TopFrame
  <2>2. own[r] = InFrame(n)
    BY <1>1, <1>2, <2>1 DEF FrameInv, HeldBy
  <2>3. \A x : HeldBy(b, x)' => x = r
    BY <1>10 DEF HeldBy
  <2>4. IdleAt(b.s)'
    BY <1>8, <1>10
  <2> QED BY <1>8, <1>10, <2>2, <2>3, <2>4 DEF FrameInv
<1>14. Shape' /\ Owned(own)'
  BY <1>2, <1>4, <1>5, <1>6, <1>9, <1>10, <1>11, <1>12, <1>13, CalmTwo
<1> QED BY <1>5, <1>14, OwnerKept

LEMMA CreatedNumbers == \A r \in Created : r \in Nat /\ r # Null
BY DEF Created, Null

LEMMA DrainOwns ==
  ASSUME TypeInv, TypeInv', OwnerInv, UNCHANGED config, Drain
  PROVE  OwnerInv'
<1>1. PICK s, q, n : s = top.s /\ q = top.q /\ n = Len(stack)
  OBVIOUS
<1>2. stack # <<>> /\ top.pc = "drain" /\ s \in Server /\ q \in Seq(Created)
  BY <1>1, AtTop DEF Drain, FrameOK, ServerPcs
<1>3. UNCHANGED <<conn, slots, reqs, in_select, pending>>
  BY DEF Drain, rounds
<1>4. Calm
  BY <1>3, Untouched
<1>5. Shape /\ Plain' /\ ~Reentrant
  BY <1>3, OwnerParts, PlainSame DEF reqs, Covered
<1>6. PICK own : Owned(own)
  BY OwnerParts
<1>7. FrameInv(own, top, n) /\ n \in Nat \ {0} /\ Sound(top)
  BY <1>1, <1>2, <1>5, <1>6, TopFrame DEF Shape
<1>8. Distinct(q) /\ \A r \in ToSet(q) : own[r] = InFrame(n)
  <2>1. ToSet(q) \subseteq Created
    BY <1>2, ToSetElements
  <2> QED BY <1>1, <1>2, <1>7, <2>1 DEF Sound, FrameInv, HeldBy
<1>9. top.pc \notin ShiftPcs \cup {"deactivate"} /\ RoundKept({}) /\ Undisturbed
  BY <1>2, <1>3, <1>4, CalmUndisturbed DEF ShiftPcs, RoundKept
<1>10. CASE q = <<>>
  <2>1. Goto(<<>>)
    BY <1>1, <1>5, <1>10 DEF Drain, Return
  <2>2. Shape' /\ Owned(own)'
    BY <1>2, <1>4, <1>5, <1>6, <1>9, <2>1, CalmReturn
  <2> QED BY <1>5, <2>2, OwnerKept
<1>11. CASE q # <<>>
  <2>1. PICK r, t : r = Head(q) /\ t = Tail(q)
    OBVIOUS
  <2>2. /\ r \in Created /\ r \in ToSet(q) /\ r \notin ToSet(t) /\ ToSet(t) \subseteq ToSet(q)
        /\ Distinct(t)
    <3>1. PICK z : z = Null
      OBVIOUS
    <3>2. /\ Popped(q, z) \in Created /\ Popped(q, z) = r /\ Rest(q) = t
          /\ ToSet(q) = ToSet(Rest(q)) \cup {Popped(q, z)}
          /\ Popped(q, z) \notin ToSet(Rest(q)) /\ Distinct(Rest(q))
      BY <1>2, <1>8, <1>11, <2>1, RestDrops
    <3> QED BY <3>2
  <2>3. PICK a, b : a = Frame("failover", s, r) /\ b = FrameOf("drain", s, Null, t, 0, 0)
    OBVIOUS
  <2>4. a.pc = "failover" /\ a.r = r /\ b.pc = "drain" /\ b.q = t /\ Goto(<<a, b>>)
    BY <1>1, <1>11, <2>1, <2>3 DEF Drain, Frame, FrameOf
  <2>5. PICK own2 : own2 = Given(own, {r}, InFrame(n + 1))
    OBVIOUS
  <2>6. r \in Nat /\ own2[r] = InFrame(n + 1) /\ \A x \in Nat : x # r => own2[x] = own[x]
    BY <2>2, <2>5, CreatedNumbers DEF Given
  <2>7. own[r] = InFrame(n)
    BY <1>8, <2>2
  <2>8. FrameInv(own2, a, n + 1)'
    <3>1. \A x : HeldBy(a, x)' => x = r
      BY <2>4 DEF HeldBy
    <3> QED BY <2>4, <2>6, <3>1 DEF FrameInv
  <2>9. FrameInv(own2, b, n)'
    <3>1. \A x : HeldBy(b, x)' => x \in ToSet(t)
      BY <2>4 DEF HeldBy
    <3>2. \A x \in ToSet(t) : own2[x] = InFrame(n)
      <4>1. ToSet(q) \subseteq Created
        BY <1>2, ToSetElements
      <4> QED BY <1>8, <2>2, <2>6, <4>1, CreatedNumbers
    <3> QED BY <2>4, <3>1, <3>2 DEF FrameInv
  <2>10. HeldBelow(own, own2, n)
    BY <2>6, <2>7, CreatedNumbers, Places DEF HeldBelow
  <2>11. FramesInv(own2)'
    BY <1>1, <1>2, <1>5, <1>6, <1>9, <2>4, <2>8, <2>9, <2>10, FramesTwo DEF Owned
  <2>12. Enters(a) /\ Enters(b) /\ Fits(a, b) /\ a.pc \notin ScriptPcs \cup LoopPcs
    BY <2>2, <2>4 DEF Enters, Sound, Fits, ScriptPcs, LoopPcs, RoundPcs
  <2>13. Shape'
    BY <1>1, <1>2, <1>5, <1>9, <1>11, <2>4, <2>12, ShapeTwo DEF RoundKept, ShiftPcs
  <2>14. Steady /\ Steady'
    <3>1. Steady
      BY <1>5, <1>9, TopSteady
    <3>2. PICK f, T : f = <<a, b>> /\ T = {a, b}
      OBVIOUS
    <3>3. f \in Seq(T) /\ Goto(f) /\ \A i \in 1 .. Len(f) : f[i].pc \notin ShiftPcs
      BY <2>4, <3>2 DEF ShiftPcs
    <3> QED BY <1>2, <3>1, <3>3, SteadyStep
  <2>15. ServersInv(own2)'
    <3>1. \A x \in Created, u \in Server : own[x] = OnServer(u) => own2[x] = OnServer(u)
      BY <2>6, <2>7, CreatedNumbers, Places
    <3> QED BY <1>4, <1>6, <2>14, <3>1, ServersQuiet DEF Calm, Owned
  <2>16. FreeInv(own2)'
    <3>1. ToSet(free_requests) \subseteq Created \cup {Null}
      BY ToSetElements DEF TypeInv, ReqsOK
    <3>2. FreeInv(own) /\ UNCHANGED free_requests
      BY <1>4, <1>6 DEF Owned, Calm
    <3> QED BY <2>6, <2>7, <3>1, <3>2, CreatedNumbers, Places DEF FreeInv
  <2>17. Owned(own2)'
    BY <2>11, <2>15, <2>16 DEF Owned
  <2> QED BY <1>5, <2>13, <2>17, OwnerKept
<1> QED BY <1>10, <1>11

(* A request that is with nobody is released. *)
LEMMA Released ==
  ASSUME TypeInv, NEW own, FreeInv(own), NEW r \in Created, own[r] # OnFreeList, Release(r),
         NEW own2, own2 = Given(own, {r}, OnFreeList)
  PROVE  FreeInv(own2)'
<1> DEFINE C == Created \cup {Null}
           q == free_requests
<1>1. q \in Seq(C) /\ Distinct(q) /\ \A x \in ToSet(q) : x # Null /\ own[x] = OnFreeList
  BY DEF TypeInv, ReqsOK, FreeInv
<1>2. r \in C /\ r # Null /\ C \subseteq Nat
  BY CreatedNumbers DEF Null
<1>3. own2[r] = OnFreeList /\ \A x \in Nat : x # r => own2[x] = own[x]
  BY <1>2 DEF Given
<1>4. q' = Push(q, r)
  BY DEF Release
<1> HIDE DEF C, q
<1>5. ToSet(q') = ToSet(q) \cup {r} /\ Distinct(q') /\ ToSet(q) \subseteq C
  <2>1. ToSet(Push(q, r)) = ToSet(q) \cup {r} /\ Distinct(Push(q, r))
    BY <1>1, <1>2, PushAdds
  <2>2. ToSet(q) \subseteq C
    BY <1>1, ToSetElements
  <2> QED BY <1>4, <2>1, <2>2
<1>6. \A x \in ToSet(q') : x # Null /\ own2[x] = OnFreeList
  BY <1>1, <1>2, <1>3, <1>5
<1> QED BY <1>5, <1>6 DEF FreeInv, q

LEMMA GiveUpOwns ==
  ASSUME TypeInv, TypeInv', OwnerInv, UNCHANGED config, GiveUp
  PROVE  OwnerInv'
<1>1. PICK r, n : r = top.r /\ n = Len(stack)
  OBVIOUS
<1>2. stack # <<>> /\ top.pc = "failover" /\ r \in Created
  BY <1>1, AtTop DEF GiveUp, FrameOK, RequestPcs
<1>3. UNCHANGED <<conn, slots, request, in_select, pending>> /\ Release(r) /\ Goto(<<>>)
  BY <1>1 DEF GiveUp, rounds, Return
<1>4. Shape /\ Plain'
  BY <1>3, OwnerParts, PlainSame
<1>5. PICK own : Owned(own)
  BY OwnerParts
<1>6. own[r] = InFrame(n)
  <2>1. FrameInv(own, top, n)
    BY <1>1, <1>2, <1>5, TopFrame
  <2> QED BY <1>1, <1>2, <2>1 DEF FrameInv, HeldBy
<1>7. PICK own2 : own2 = Given(own, {r}, OnFreeList)
  OBVIOUS
<1>8. own2[r] = OnFreeList /\ \A x \in Nat : x # r => own2[x] = own[x]
  BY <1>2, <1>7, CreatedNumbers DEF Given
<1>9. FreeInv(own2)'
  BY <1>2, <1>3, <1>5, <1>6, <1>7, Places, Released DEF Owned
<1>10. top.pc \notin ShiftPcs \cup {"deactivate", "drain"} /\ Undisturbed
  BY <1>2, <1>3, SameRequests DEF ShiftPcs, Undisturbed
<1>11. HeldBelow(own, own2, n)
  BY <1>6, <1>8, CreatedNumbers, Places DEF HeldBelow
<1>12. FramesInv(own2)'
  BY <1>1, <1>2, <1>3, <1>4, <1>5, <1>10, <1>11, FramesReturn DEF Owned
<1>13. Shape'
  BY <1>2, <1>3, <1>4, ShapeReturn
<1>14. Steady /\ Steady'
  <2>1. Steady
    BY <1>4, <1>10, TopSteady
  <2>2. PICK f : f = <<>>
    OBVIOUS
  <2>3. f \in Seq({}) /\ Goto(f) /\ \A i \in 1 .. Len(f) : FALSE
    BY <1>3, <2>2
  <2> QED BY <1>2, <2>1, <2>3, SteadyStep
<1>15. ServersInv(own2)'
  <2>1. \A x \in Created, u \in Server : own[x] = OnServer(u) => own2[x] = OnServer(u)
    BY <1>6, <1>8, CreatedNumbers, Places
  <2>2. UNCHANGED <<Slots, buildreq, status, wire>>
    BY <1>3 DEF Slots, slots, conn
  <2>3. \A u \in Server : Worn(u)
    BY <2>2 DEF Worn
  <2> QED BY <1>5, <1>14, <2>1, <2>2, <2>3, ServersQuiet DEF Owned
<1>16. Owned(own2)'
  BY <1>9, <1>12, <1>15 DEF Owned
<1> QED BY <1>4, <1>13, <1>16, OwnerKept

(* mmc_pool_slot_send returns to a caller that fails the request over: the *)
(* server was idle, so that nothing leaves its slots.                      *)
LEMMA UnslotOwns ==
  ASSUME TypeInv, TypeInv', OwnerInv, UNCHANGED config, Unslot
  PROVE  OwnerInv'
<1>1. stack # <<>> /\ top.pc = "unslot" /\ top.s \in Server /\ top.r \in Created
  BY AtTop DEF Unslot, FrameOK, ServerPcs, RequestPcs
<1>2. UNCHANGED <<conn, reqs, in_select, pending>>
  BY DEF Unslot, rounds
<1>3. UNCHANGED slots
  <2>1. PICK own, n : Owned(own) /\ n = Len(stack)
    BY OwnerParts
  <2>2. FrameInv(own, top, n)
    BY <1>1, <2>1, TopFrame
  <2>3. sendreq[top.s] = Null
    BY <1>1, <2>2 DEF FrameInv, IdleAt
  <2>4. sendreq \in [Server -> Created \cup {Null}]
    BY DEF TypeInv, SlotsOK
  <2>5. sendreq' = sendreq
    BY <1>1, <2>3, <2>4 DEF Unslot
  <2> QED BY <2>5 DEF Unslot, slots
<1>4. Calm
  BY <1>2, <1>3, Untouched
<1>5. Plain'
  BY <1>2, OwnerParts, PlainSame DEF reqs
<1>6. PICK a : a = Frame("failover", top.s, top.r)
  OBVIOUS
<1>7. Goto(<<a>>) /\ a.pc \in PlacePcs /\ a.r = top.r
  BY <1>6 DEF Unslot, Frame, FrameOf, PlacePcs
<1> QED BY <1>1, <1>2, <1>4, <1>5, <1>7, HandOn

----------------------------------------------------------------------------
(* Steps that change the slots of one server. *)

SlottedAt(t) == Sends(t) = ToSend(t) /\ Reads(t) = ToRead(t) /\ SendSlot(t) = sendreq[t]

Elsewhere == \A t \in Server :
  stack = <<>> \/ top.pc \notin ShiftPcs \/ top.s # t => SlottedAt(t)

LEMMA ElsewhereSlots == TypeInv /\ Shape => Elsewhere
<1> SUFFICES ASSUME TypeInv, Shape, NEW t \in Server,
                    stack = <<>> \/ top.pc \notin ShiftPcs \/ top.s # t
             PROVE  SlottedAt(t)
  BY DEF Elsewhere
<1>1. CASE stack = <<>> \/ top.pc \notin ShiftPcs
  <2>1. Steady
    BY <1>1, TopSteady
  <2> QED BY <2>1, SteadySlots DEF SlottedAt
<1>2. CASE stack # <<>> /\ top.s # t
  <2>1. top = stack[1]
    BY <1>2, FirstElement DEF TypeInv, StackOK, top
  <2>2. ASSUME NEW i \in Positions, stack[i].pc \in ShiftPcs PROVE stack[i].s # t
    <3>1. CASE i = 1
      BY <1>2, <2>1, <3>1
    <3>2. CASE i # 1
      BY <1>2, <2>2, <3>2, ShiftPositions DEF ShiftPcs
    <3> QED BY <3>1, <3>2
  <2>3. ~Leaving(t)
    BY <2>2 DEF Leaving, Leaves, ShiftPcs
  <2>4. ~Slotting(t)
    BY <1>2 DEF Slotting
  <2> QED BY <2>3, <2>4 DEF SlottedAt, SendSlot, Sends, Reads, ToSend
<1> QED BY <1>1, <1>2

(* The frame that runs next. *)
LEMMA HeadAfter ==
  ASSUME TypeInv, TypeInv', stack # <<>>, NEW T, NEW f \in Seq(T), Goto(f)
  PROVE  /\ Len(f) > 0 => stack' # <<>> /\ top' = f[1]
         /\ f = <<>> => stack' = <<>> \/ (Len(stack) > 1 /\ top' = stack[2])
<1>1. /\ Len(f) \in Nat /\ Len(stack) \in Nat \ {0}
      /\ Len(stack') = Len(f) + Len(stack) - 1
      /\ \A i \in 1 .. Len(f) : stack'[i] = f[i]
      /\ \A i \in 2 .. Len(stack) : stack'[i + Len(f) - 1] = stack[i]
  BY Replaced
<1>2. stack' # <<>> => top' = stack'[1] /\ Len(stack') > 0
  BY FirstElement DEF TypeInv, StackOK, top
<1>3. CASE Len(f) > 0
  <2>1. Len(stack') > 0 /\ 1 \in 1 .. Len(f) /\ f # <<>>
    BY <1>1, <1>3
  <2>2. stack' # <<>>
    BY <2>1
  <2> QED BY <1>1, <1>2, <2>1, <2>2
<1>4. CASE f = <<>>
  <2>1. Len(f) = 0
    BY <1>4
  <2>2. CASE stack' # <<>>
    <3>1. 2 \in 2 .. Len(stack) /\ 2 + Len(f) - 1 = 1
      BY <1>1, <1>2, <2>1, <2>2
    <3>2. stack'[1] = stack[2]
      BY <1>1, <3>1
    <3> QED BY <1>1, <1>2, <2>1, <2>2, <3>1, <3>2
  <2> QED BY <2>1, <2>2
<1> QED BY <1>3, <1>4, <1>1

(* Below a handler that shifts no slots, nobody does. *)
LEMMA LeavingAfter ==
  ASSUME TypeInv, Shape, stack # <<>>, top.pc \notin {"slot", "unqueue", "deactivate", "drain"},
         NEW T, NEW f \in Seq(T), Goto(f), NEW s
  PROVE  Leaving(s)' <=> \E i \in 1 .. Len(f) : Leaves(f[i], s)'
<1>1. /\ Len(f) \in Nat /\ Len(stack) \in Nat \ {0} /\ Len(stack') = Len(f) + Len(stack) - 1
      /\ \A i \in 1 .. Len(f) : stack'[i] = f[i]
      /\ \A i \in Positions' : ~(i <= Len(f)) =>
           i - Len(f) + 1 \in 2 .. Len(stack) /\ stack'[i] = stack[i - Len(f) + 1]
  BY Replaced
<1>2. ASSUME NEW i \in 1 .. Len(f), Leaves(f[i], s)' PROVE Leaving(s)'
  <2>1. i \in Positions' /\ stack'[i] = f[i]
    BY <1>1 DEF Positions
  <2>2. Leaves(stack[i], s)'
    BY <1>2, <2>1 DEF Leaves
  <2> QED BY <2>1, <2>2 DEF Leaving
<1>3. ASSUME NEW j \in Positions', Leaves(stack[j], s)'
      PROVE  \E i \in 1 .. Len(f) : Leaves(f[i], s)'
  <2>1. CASE j <= Len(f)
    <3>1. j \in 1 .. Len(f) /\ stack'[j] = f[j]
      BY <1>1, <2>1 DEF Positions
    <3>2. Leaves(f[j], s)'
      BY <1>3, <3>1 DEF Leaves
    <3> QED BY <3>1, <3>2
  <2>2. CASE ~(j <= Len(f))
    <3>1. PICK i : i = j - Len(f) + 1
      OBVIOUS
    <3>2. i \in 2 .. Len(stack) /\ stack'[j] = stack[i]
      BY <1>1, <2>2, <3>1
    <3>3. stack[i].pc \notin ShiftPcs
      BY <3>2, NothingBelow
    <3> QED BY <1>3, <3>2, <3>3 DEF Leaves, ShiftPcs
  <2> QED BY <2>1, <2>2
<1> QED BY <1>2, <1>3 DEF Leaving

(* The handler that slots the next request returns to the one that takes   *)
(* the last one out of the read slot.                                      *)
LEMMA LeavingKept ==
  ASSUME TypeInv, Shape, stack # <<>>, top.pc \in {"slot", "unqueue"}, Goto(<<>>),
         UNCHANGED readreq, NEW s
  PROVE  Leaving(s)' <=> Leaving(s)
<1>1. PICK f : f = <<>>
  OBVIOUS
<1>2. f \in Seq({}) /\ Len(f) = 0 /\ Goto(f)
  BY <1>1
<1>3. /\ Len(stack) \in Nat \ {0} /\ top = stack[1] /\ Len(stack') = Len(stack) - 1
      /\ \A i \in 2 .. Len(stack) : stack'[i - 1] = stack[i]
  <2>1. /\ Len(stack) \in Nat \ {0} /\ top = stack[1] /\ Len(stack') = Len(f) + Len(stack) - 1
        /\ \A i \in 2 .. Len(stack) : stack'[i + Len(f) - 1] = stack[i]
    BY <1>2, Replaced
  <2>2. \A i \in 2 .. Len(stack) : i + Len(f) - 1 = i - 1
    BY <1>2, <2>1
  <2> QED BY <1>2, <2>1, <2>2
<1>4. ASSUME NEW i \in Positions, Leaves(stack[i], s) PROVE Leaving(s)'
  <2>1. i # 1
    BY <1>3, <1>4 DEF Leaves
  <2>2. i \in 2 .. Len(stack) /\ i - 1 \in Positions'
    BY <1>3, <2>1 DEF Positions
  <2>3. stack'[i - 1] = stack[i]
    BY <1>3, <2>2
  <2>4. Leaves(stack[i - 1], s)'
    BY <1>4, <2>3 DEF Leaves
  <2> QED BY <2>2, <2>4 DEF Leaving
<1>5. ASSUME NEW j \in Positions', Leaves(stack[j], s)' PROVE Leaving(s)
  <2>1. PICK i : i = j + 1
    OBVIOUS
  <2>2. i \in 2 .. Len(stack) /\ i \in Positions /\ i - 1 = j
    BY <1>3, <2>1 DEF Positions
  <2>3. stack'[j] = stack[i]
    BY <1>3, <2>2
  <2>4. Leaves(stack[i], s)
    BY <1>5, <2>3 DEF Leaves
  <2> QED BY <2>2, <2>4 DEF Leaving
<1> QED BY <1>4, <1>5 DEF Leaving

(* What a step leaves alone at server t. *)
Same(t) ==
  /\ status'[t] = status[t] /\ wire'[t] = wire[t]
  /\ sendreq'[t] = sendreq[t] /\ readreq'[t] = readreq[t] /\ buildreq'[t] = buildreq[t]
  /\ sendqueue'[t] = sendqueue[t] /\ readqueue'[t] = readqueue[t]

OnlyAt(s) ==
  /\ stack = <<>> \/ top.pc \notin ShiftPcs \/ top.s = s
  /\ stack' = <<>> \/ top'.pc \notin ShiftPcs \/ top'.s = s
  /\ \A t \in Server : t # s => Same(t)

LEMMA ServersStep ==
  ASSUME TypeInv, TypeInv', Shape, Shape', UNCHANGED config, NEW own, NEW own2, ServersInv(own),
         NEW s \in Server, OnlyAt(s),
         \A r \in Created, t \in Server : t # s /\ own[r] = OnServer(t) => own2[r] = OnServer(t),
         ServerInv(own2, s)'
  PROVE  ServersInv(own2)'
<1>1. Elsewhere
  BY ElsewhereSlots
<1>2. Elsewhere'
  BY ElsewhereSlots, PTL
<1> SUFFICES ASSUME NEW t \in Server, t # s PROVE ServerInv(own2, t)'
  BY DEF ServersInv
<1>3. SlottedAt(t) /\ Same(t)
  BY <1>1 DEF OnlyAt, Elsewhere
<1>4. SlottedAt(t)'
  BY <1>2 DEF OnlyAt, Elsewhere
<1>5. Sends(t)' = Sends(t) /\ Reads(t)' = Reads(t) /\ SendSlot(t)' = SendSlot(t)
  BY <1>3, <1>4 DEF SlottedAt, Same, ToSend, ToRead
<1>6. Fresh' = Fresh
  BY DEF Fresh, Persistent, Faults
<1>7. ServerInv(own, t)
  BY DEF ServersInv
<1>8. Pipeline(own2, t, Sends(t), Reads(t))'
  <2>1. Pipeline(own, t, Sends(t), Reads(t))
    BY <1>7 DEF ServerInv
  <2>2. \A r \in ToSet(Reads(t)) : r \in Created
    <3>1. Reads(t) \in Seq(Created)
      BY <1>3, SlotTypesOf DEF SlottedAt
    <3> QED BY <3>1, ToSetElements
  <2>3. \A r \in ToSet(Reads(t)) : own2[r] = OnServer(t)
    BY <2>1, <2>2 DEF Pipeline
  <2> QED BY <1>3, <1>5, <1>6, <2>1, <2>3 DEF Pipeline, Same
<1>9. IdleAt(t)' = IdleAt(t) /\ IsOpen(t)' = IsOpen(t)
  BY <1>3 DEF IdleAt, IsOpen, Same
<1> QED BY <1>3, <1>5, <1>6, <1>7, <1>8, <1>9 DEF ServerInv, Same

(* The slot of a server and the queue behind it are one sequence. *)
LEMMA SlottedNext ==
  ASSUME NEW q \in Seq(Created)
  PROVE  /\ Slotted(Popped(q, Null), Rest(q)) = q
         /\ Popped(q, Null) \in Created \cup {Null}
         /\ Popped(q, Null) = Null => q = <<>> /\ Rest(q) = <<>>
<1>1. CASE q = <<>>
  BY <1>1 DEF Slotted, Popped, Rest
<1>2. CASE q # <<>>
  <2> DEFINE h == Head(q)
             t == Tail(q)
             c == <<h>> \o t
  <2>1. /\ Popped(q, Null) = h /\ Rest(q) = t
    BY <1>2 DEF Popped, Rest
  <2>2. /\ Len(q) \in Nat \ {0} /\ h = q[1] /\ h \in Created
        /\ t \in Seq(Created) /\ Len(t) = Len(q) - 1
        /\ \A i \in 1 .. Len(q) - 1 : t[i] = q[i + 1]
    BY <1>2, FirstElement
  <2> HIDE DEF h, t
  <2>3. /\ c \in Seq(Created) /\ Len(c) = Len(t) + 1 /\ c[1] = h
        /\ \A i \in 1 .. Len(t) : c[i + 1] = t[i]
    BY <2>2, ConsProperties
  <2> HIDE DEF c
  <2>4. ASSUME NEW i \in 1 .. Len(q) PROVE c[i] = q[i]
    <3>1. CASE i = 1
      BY <2>2, <2>3, <3>1
    <3>2. CASE i # 1
      <4>1. i - 1 \in 1 .. Len(t) /\ i - 1 \in 1 .. Len(q) - 1 /\ i - 1 + 1 = i
        BY <2>2, <3>2
      <4> QED BY <2>2, <2>3, <4>1
    <3> QED BY <3>1, <3>2
  <2>5. Len(c) = Len(q)
    BY <2>2, <2>3
  <2>6. c = q
    BY <2>3, <2>4, <2>5, SeqEqual
  <2>7. h # Null
    BY <2>2, CreatedNumbers
  <2> QED BY <2>1, <2>2, <2>6, <2>7 DEF Slotted, c
<1> QED BY <1>1, <1>2

(* A request joins the end of it ... *)
LEMMA SlottedJoined ==
  ASSUME NEW q \in Seq(Created), NEW h \in Created \cup {Null}, NEW r \in Created,
         h = Null => q = <<>>, r \notin ToSet(Slotted(h, q))
  PROVE  /\ h = Null => Slotted(h, q) = <<>> /\ Slotted(r, q) = Append(Slotted(h, q), r)
         /\ h # Null => Slotted(h, Push(q, r)) = Append(Slotted(h, q), r)
<1>1. CASE h = Null
  <2>1. r # Null
    BY CreatedNumbers
  <2>2. <<r>> \o <<>> = <<r>>
    <3>1. <<r>> \in Seq(Created)
      OBVIOUS
    <3> QED BY <3>1, ConcatEmptySeq
  <2>3. Append(<<>>, r) = <<r>>
    OBVIOUS
  <2> QED BY <1>1, <2>1, <2>2, <2>3 DEF Slotted
<1>2. CASE h # Null
  <2>1. h \in Created /\ ToSet(<<h>> \o q) = {h} \cup ToSet(q)
    BY <1>2, ConsProperties
  <2>2. r \notin ToSet(q)
    BY <1>2, <2>1 DEF Slotted
  <2>3. Push(q, r) = Append(q, r)
    BY <2>2 DEF Push
  <2>4. Append(<<h>> \o q, r) = <<h>> \o Append(q, r)
    BY <2>1, ConsAppend
  <2> QED BY <1>2, <2>3, <2>4 DEF Slotted
<1> QED BY <1>1, <1>2

(* ... and is taken out of it, wherever it is. *)
LEMMA SlottedWithout ==
  ASSUME NEW q \in Seq(Created), NEW h \in Created \cup {Null}, NEW r \in Created,
         h = Null => q = <<>>
  PROVE  /\ h = r => Without(Slotted(h, q), r) = q
         /\ h # r => Without(Slotted(h, q), r) = Slotted(h, Without(q, r))
         /\ Without(<<>>, r) = <<>>
<1>1. Without(<<>>, r) = <<>>
  BY IdleQueue
<1>2. CASE h = Null
  BY <1>1, <1>2, CreatedNumbers DEF Slotted
<1>3. CASE h # Null
  <2>1. Without(<<h>> \o q, r) = IF h = r THEN q ELSE <<h>> \o Without(q, r)
    BY <1>3, ConsWithout
  <2> QED BY <1>1, <1>3, <2>1 DEF Slotted
<1> QED BY <1>2, <1>3

(* mmc_pool_schedule: the request is the last one to send and to answer.   *)
LEMMA Accepted ==
  ASSUME NEW q \in Seq(Created), NEW h \in Created \cup {Null}, NEW r \in Created,
         h = Null => q = <<>>, r \notin ToSet(Slotted(h, q)), NEW h2, NEW q2,
         \/ h = Null /\ h2 = r /\ q2 = q
         \/ h # Null /\ h2 = h /\ q2 = Push(q, r)
  PROVE  Slotted(h2, q2) = Append(Slotted(h, q), r) /\ h2 # Null
<1>1. r # Null
  BY CreatedNumbers
<1> QED BY <1>1, SlottedJoined

(* A fresh connection is open while requests are on it.                    *)
LEMMA Opened ==
  ASSUME TypeInv, NEW s \in Server, Open(s)
  PROVE  /\ \A t \in Server : t # s => status'[t] = status[t] /\ wire'[t] = wire[t]
         /\ IsOpen(s)'
         /\ \/ status'[s] = status[s] /\ wire'[s] = wire[s]
            \/ ~IsOpen(s) /\ status'[s] = "connected" /\ wire'[s] = <<>>
<1>1. /\ status \in [Server -> {"failed", "retriable", "disconnected", "unknown", "connected"}]
      /\ wire \in [Server -> Seq(Created)]
  BY DEF TypeInv, ConnOK
<1>2. CASE IsOpen(s) /\ UNCHANGED conn
  BY <1>1, <1>2 DEF conn, IsOpen
<1>3. CASE /\ ~IsOpen(s)
           /\ status' = [status EXCEPT ![s] = "connected"]
           /\ wire' = [wire EXCEPT ![s] = <<>>]
  BY <1>1, <1>3 DEF IsOpen
<1> QED BY <1>2, <1>3 DEF Open

LEMMA ScheduleSlots ==
  ASSUME TypeInv, TypeInv', Steady, Steady', Schedule, NEW s, s = top.s, NEW r, r = top.r,
         s \in Server, r \in Created, NEW own, ServersInv(own), r \notin ToSet(ToRead(s))
  PROVE  /\ Sends(s)' = Append(ToSend(s), r) /\ Reads(s)' = Append(ToRead(s), r)
         /\ SendSlot(s)' # Null /\ readreq'[s] # Null /\ buildreq'[s] = buildreq[s]
         /\ \A t \in Server : t # s => Same(t)
         /\ \/ status'[s] = status[s] /\ wire'[s] = wire[s] /\ (sendreq[s] # Null \/ IsOpen(s))
            \/ ~IsOpen(s) /\ status'[s] = "connected" /\ wire'[s] = <<>>
<1>1. /\ sendreq \in [Server -> Created \cup {Null}] /\ readreq \in [Server -> Created \cup {Null}]
      /\ sendqueue \in [Server -> Seq(Created)] /\ readqueue \in [Server -> Seq(Created)]
  BY DEF TypeInv, SlotsOK
<1>2. AsSlotted
  BY SteadyServers
<1>3. AsSlotted'
  BY SteadyServers, PTL
<1>4. /\ sendreq[s] = Null => sendqueue[s] = <<>>
      /\ readreq[s] = Null => readqueue[s] = <<>>
  BY <1>2 DEF AsSlotted, ServersInv, ServerInv
<1>5. /\ \/ sendreq[s] = Null /\ sendreq' = [sendreq EXCEPT ![s] = r] /\ sendqueue' = sendqueue
            /\ Open(s)
         \/ /\ sendreq[s] # Null /\ sendreq' = sendreq
            /\ sendqueue' = [sendqueue EXCEPT ![s] = Push(sendqueue[s], r)] /\ UNCHANGED conn
      /\ \/ readreq[s] = Null /\ readreq' = [readreq EXCEPT ![s] = r] /\ readqueue' = readqueue
         \/ /\ readreq[s] # Null /\ readreq' = readreq
            /\ readqueue' = [readqueue EXCEPT ![s] = Push(readqueue[s], r)]
      /\ buildreq' = buildreq
  BY DEF Schedule, Slot, AwaitReply
<1>6. r \notin ToSet(ToSend(s))
  BY SendsAreRead
<1>7. ToSend(s)' = Append(ToSend(s), r) /\ sendreq'[s] # Null
  <2>1. /\ sendreq[s] \in Created \cup {Null} /\ sendqueue[s] \in Seq(Created)
        /\ r \notin ToSet(Slotted(sendreq[s], sendqueue[s]))
    BY <1>1, <1>6 DEF ToSend
  <2>2. \/ sendreq[s] = Null /\ sendreq'[s] = r /\ sendqueue'[s] = sendqueue[s]
        \/ sendreq[s] # Null /\ sendreq'[s] = sendreq[s] /\ sendqueue'[s] = Push(sendqueue[s], r)
    BY <1>1, <1>5
  <2> QED BY <1>4, <2>1, <2>2, Accepted DEF ToSend
<1>8. ToRead(s)' = Append(ToRead(s), r) /\ readreq'[s] # Null
  <2>1. /\ readreq[s] \in Created \cup {Null} /\ readqueue[s] \in Seq(Created)
        /\ r \notin ToSet(Slotted(readreq[s], readqueue[s]))
    BY <1>1 DEF ToRead
  <2>2. \/ readreq[s] = Null /\ readreq'[s] = r /\ readqueue'[s] = readqueue[s]
        \/ readreq[s] # Null /\ readreq'[s] = readreq[s] /\ readqueue'[s] = Push(readqueue[s], r)
    BY <1>1, <1>5
  <2> QED BY <1>4, <2>1, <2>2, Accepted DEF ToRead
<1>9. /\ \A t \in Server : t # s => status'[t] = status[t] /\ wire'[t] = wire[t]
      /\ \/ status'[s] = status[s] /\ wire'[s] = wire[s] /\ (sendreq[s] # Null \/ IsOpen(s))
         \/ ~IsOpen(s) /\ status'[s] = "connected" /\ wire'[s] = <<>>
  <2>1. CASE UNCHANGED conn /\ sendreq[s] # Null
    BY <2>1 DEF conn
  <2>2. CASE Open(s)
    BY <2>2, Opened DEF IsOpen
  <2> QED BY <1>5, <2>1, <2>2
<1>10. \A t \in Server : t # s => Same(t)
  BY <1>1, <1>5, <1>9 DEF Same
<1> QED BY <1>3, <1>5, <1>7, <1>8, <1>9, <1>10 DEF AsSlotted

LEMMA ScheduleOwns ==
  ASSUME TypeInv, TypeInv', OwnerInv, UNCHANGED config, Schedule
  PROVE  OwnerInv'
<1>1. PICK s, r, n : s = top.s /\ r = top.r /\ n = Len(stack)
  OBVIOUS
<1>2. stack # <<>> /\ top.pc = "schedule" /\ s \in Server /\ r \in Created
  BY <1>1, AtTop DEF Schedule, FrameOK, ServerPcs, RequestPcs
<1>3. UNCHANGED <<free_requests, in_select, pending>> /\ Goto(<<>>)
  BY DEF Schedule, Return
<1>4. Shape /\ Plain
  BY OwnerParts
<1>5. PICK own : Owned(own)
  BY OwnerParts
<1>6. own[r] = InFrame(n)
  <2>1. FrameInv(own, top, n)
    BY <1>1, <1>2, <1>5, TopFrame
  <2> QED BY <1>1, <1>2, <2>1 DEF FrameInv, HeldBy
<1>7. PICK own2 : own2 = Given(own, {r}, OnServer(s))
  OBVIOUS
<1>8. own2[r] = OnServer(s) /\ \A x \in Nat : x # r => own2[x] = own[x]
  BY <1>2, <1>7, CreatedNumbers DEF Given
<1>9. Created' = Created /\ \A x \in Created : request'[x].kind = request[x].kind
  <2>1. CASE UNCHANGED request
    BY <2>1 DEF Created
  <2>2. CASE Slot(s, r)
    <3> DEFINE m == [request[r] EXCEPT !.io = s]
    <3>1. request' = [request EXCEPT ![r] = m]
      BY <2>2 DEF Slot
    <3>2. request \in Seq(Request)
      BY DEF TypeInv, ReqsOK
    <3>3. request[r] \in Request
      BY <1>2, <3>2, ElementOfSeq DEF Created
    <3>4. m.kind = request[r].kind
      BY <1>2, <3>3, RequestMoved
    <3> HIDE DEF m
    <3>5. /\ Len(request') = Len(request) /\ Len(request) \in Nat
          /\ \A x \in 1 .. Len(request) : request'[x] = IF x = r THEN m ELSE request[x]
      BY <3>1, <3>2
    <3> QED BY <3>4, <3>5 DEF Created
  <2> QED BY <1>1, <2>1, <2>2 DEF Schedule
<1>10. Plain'
  BY <1>3, <1>4, <1>9 DEF Plain
<1>11. Shape'
  BY <1>2, <1>3, <1>4, ShapeReturn
<1>12. Steady /\ Steady'
  <2>1. Steady
    BY <1>2, <1>4, TopSteady DEF ShiftPcs
  <2>2. PICK f : f = <<>>
    OBVIOUS
  <2>3. f \in Seq({}) /\ Goto(f) /\ \A i \in 1 .. Len(f) : FALSE
    BY <1>3, <2>2
  <2> QED BY <1>2, <2>1, <2>3, SteadyStep
<1>13. r \notin ToSet(ToRead(s)) /\ Pipeline(own, s, ToSend(s), ToRead(s))
  <2>1. Pipeline(own, s, ToSend(s), ToRead(s))
    BY <1>2, <1>5, <1>12, SendsAreRead DEF Owned
  <2> QED BY <1>6, <2>1, Places DEF Pipeline
<1>14. /\ Sends(s)' = Append(ToSend(s), r) /\ Reads(s)' = Append(ToRead(s), r)
       /\ SendSlot(s)' # Null /\ readreq'[s] # Null /\ buildreq'[s] = buildreq[s]
       /\ \A t \in Server : t # s => Same(t)
       /\ \/ status'[s] = status[s] /\ wire'[s] = wire[s] /\ (sendreq[s] # Null \/ IsOpen(s))
          \/ ~IsOpen(s) /\ status'[s] = "connected" /\ wire'[s] = <<>>
  BY <1>1, <1>2, <1>5, <1>12, <1>13, ScheduleSlots DEF Owned
<1>15. ServerInv(own, s)
  BY <1>2, <1>5 DEF Owned, ServersInv
<1>16. /\ ToSend(s) \in Seq(Created) /\ ToRead(s) \in Seq(Created)
       /\ Len(ToSend(s)) \in Nat /\ Len(ToRead(s)) \in Nat /\ Len(wire[s]) \in Nat
  BY <1>2, SlotTypesOf, LenProperties DEF TypeInv, ConnOK
<1>17. Fresh' = Fresh
  BY DEF Fresh, Persistent, Faults
<1>18. Pipeline(own2, s, Sends(s), Reads(s))'
  <2>1. /\ ToSet(Append(ToRead(s), r)) = ToSet(ToRead(s)) \cup {r}
        /\ Distinct(Append(ToRead(s), r))
    BY <1>2, <1>13, <1>16, AppendSet DEF Pipeline
  <2>2. \A x \in ToSet(Append(ToRead(s), r)) : own2[x] = OnServer(s)
    <3>1. ToSet(ToRead(s)) \subseteq Created
      BY <1>16, ToSetElements
    <3> QED BY <1>8, <1>13, <2>1, <3>1, CreatedNumbers DEF Pipeline
  <2>3. IsTail(Append(ToSend(s), r), Append(ToRead(s), r))
    BY <1>2, <1>13, <1>16, TailAppend DEF Pipeline
  <2>4. /\ Len(Append(ToSend(s), r)) = Len(ToSend(s)) + 1
        /\ Len(Append(ToRead(s), r)) = Len(ToRead(s)) + 1
        /\ Len(ToSend(s)) <= Len(ToRead(s))
    BY <1>2, <1>13, <1>16, AppendProperties DEF Pipeline, IsTail
  <2>5. Fresh => Len(wire'[s]) + Len(Append(ToSend(s), r)) <= Len(Append(ToRead(s), r))
    <3>1. CASE wire'[s] = wire[s]
      <4>1. PICK k, l, m : k = Len(ToSend(s)) /\ l = Len(ToRead(s)) /\ m = Len(wire[s])
        OBVIOUS
      <4>2. k \in Nat /\ l \in Nat /\ m \in Nat /\ (Fresh => m + k <= l)
        BY <1>13, <1>16, <4>1 DEF Pipeline
      <4>3. Fresh => m + (k + 1) <= l + 1
        BY <4>2
      <4> QED BY <2>4, <3>1, <4>1, <4>3
    <3>2. CASE wire'[s] = <<>>
      BY <1>16, <2>4, <3>2
    <3> QED BY <1>14, <3>1, <3>2
  <2> QED BY <1>14, <1>17, <2>1, <2>2, <2>3, <2>5 DEF Pipeline
<1>19. Fresh => status'[s] # "unknown" /\ IsOpen(s)'
  BY <1>14, <1>15 DEF ServerInv, IsOpen, IdleAt
<1>20. ServerInv(own2, s)'
  BY <1>14, <1>15, <1>17, <1>18, <1>19 DEF ServerInv
<1>21. OnlyAt(s)
  <2>1. stack' = <<>> \/ top'.pc \notin ShiftPcs
    <3>1. stack' # <<>> => 1 \in Positions' /\ top' = stack'[1]
      BY FirstElement DEF TypeInv, StackOK, top, Positions
    <3> QED BY <1>12, <3>1 DEF Steady
  <2> QED BY <1>2, <1>14, <2>1 DEF OnlyAt, ShiftPcs
<1>22. ServersInv(own2)'
  <2>1. \A x \in Created, t \in Server : t # s /\ own[x] = OnServer(t) => own2[x] = OnServer(t)
    BY <1>6, <1>8, CreatedNumbers, Places
  <2> QED BY <1>2, <1>4, <1>5, <1>11, <1>20, <1>21, <2>1, ServersStep DEF Owned
<1>23. FramesInv(own2)'
  <2>1. Undisturbed
    BY <1>2, <1>9 DEF Undisturbed
  <2>2. HeldBelow(own, own2, n)
    BY <1>6, <1>8, CreatedNumbers, Places DEF HeldBelow
  <2> QED BY <1>1, <1>2, <1>3, <1>4, <1>5, <2>1, <2>2, FramesReturn DEF Owned
<1>24. FreeInv(own2)'
  <2>1. ToSet(free_requests) \subseteq Created \cup {Null}
    BY ToSetElements DEF TypeInv, ReqsOK
  <2> QED BY <1>3, <1>5, <1>6, <1>8, <2>1, CreatedNumbers, Places DEF Owned, FreeInv
<1>25. Owned(own2)'
  BY <1>22, <1>23, <1>24 DEF Owned
<1> QED BY <1>10, <1>11, <1>25, OwnerKept

LEMMA FreeKept ==
  ASSUME TypeInv, NEW own, NEW own2, FreeInv(own), UNCHANGED free_requests,
         \A x \in Created : own[x] = OnFreeList => own2[x] = OnFreeList
  PROVE  FreeInv(own2)'
<1>1. ToSet(free_requests) \subseteq Created \cup {Null}
  BY ToSetElements DEF TypeInv, ReqsOK
<1> QED BY <1>1 DEF FreeInv

LEMMA ServerOwned ==
  ASSUME TypeInv, TypeInv', OwnerInv, UNCHANGED config, Shape', Plain',
         NEW own, NEW own2, Owned(own), NEW s \in Server, OnlyAt(s), ServerInv(own2, s)',
         \A x \in Created, t \in Server : t # s /\ own[x] = OnServer(t) => own2[x] = OnServer(t),
         FramesInv(own2)', FreeInv(own2)'
  PROVE  OwnerInv'
<1>1. Shape
  BY OwnerParts
<1>2. ServersInv(own2)'
  BY <1>1, ServersStep DEF Owned
<1>3. Owned(own2)'
  BY <1>2 DEF Owned
<1> QED BY <1>3, OwnerKept

(* After a return from a shift, the handler below is on the same server.   *)
LEMMA ReturnsTo ==
  ASSUME TypeInv, TypeInv', Shape, stack # <<>>, Goto(<<>>)
  PROVE  /\ stack' = <<>> \/ top'.pc # "slot"
         /\ stack' = <<>> \/ top'.pc \notin ShiftPcs \/ top'.s = top.s
         /\ top.pc \notin {"slot", "unqueue"} => stack' = <<>> \/ top'.pc \notin ShiftPcs
<1>1. PICK f : f = <<>>
  OBVIOUS
<1>2. f \in Seq({}) /\ Goto(f) /\ f = <<>>
  BY <1>1
<1>3. stack' = <<>> \/ (Len(stack) > 1 /\ top' = stack[2])
  BY <1>2, HeadAfter
<1>4. Len(stack) \in Nat
  BY LenProperties DEF TypeInv, StackOK
<1>5. Len(stack) > 1 => 2 \in Positions
  BY <1>4 DEF Positions
<1> QED BY <1>3, <1>5, ShiftPositions DEF ShiftPcs

LEMMA SlotSendOwns ==
  ASSUME TypeInv, TypeInv', OwnerInv, UNCHANGED config, SlotSend
  PROVE  OwnerInv'
<1>1. PICK s, r, n : s = top.s /\ r = top.r /\ n = Len(stack)
  OBVIOUS
<1>2. stack # <<>> /\ top.pc = "slot" /\ s \in Server /\ r \in Created \cup {Null}
  BY <1>1, AtTop DEF SlotSend, FrameOK, ServerPcs
<1>3. /\ UNCHANGED <<free_requests, in_select, pending, readreq, buildreq, sendqueue, readqueue>>
      /\ Goto(<<>>)
  BY DEF SlotSend, rounds, Return
<1>4. Shape /\ Plain
  BY OwnerParts
<1>5. PICK own : Owned(own)
  BY OwnerParts
<1>6. FrameInv(own, top, n) /\ ServerInv(own, s)
  BY <1>1, <1>2, <1>5, TopFrame DEF Owned, ServersInv
<1>8. Created' = Created /\ \A x \in Created : request'[x].kind = request[x].kind
  <2>1. CASE UNCHANGED request
    BY <2>1 DEF Created
  <2>2. CASE r # Null /\ Slot(s, r)
    <3> DEFINE m == [request[r] EXCEPT !.io = s]
    <3>1. request' = [request EXCEPT ![r] = m]
      BY <2>2 DEF Slot
    <3>2. request \in Seq(Request)
      BY DEF TypeInv, ReqsOK
    <3>3. request[r] \in Request
      BY <1>2, <2>2, <3>2, ElementOfSeq DEF Created
    <3>4. m.kind = request[r].kind
      BY <1>2, <3>3, RequestMoved
    <3> HIDE DEF m
    <3>5. /\ Len(request') = Len(request) /\ Len(request) \in Nat
          /\ \A x \in 1 .. Len(request) : request'[x] = IF x = r THEN m ELSE request[x]
      BY <3>1, <3>2
    <3> QED BY <3>4, <3>5 DEF Created
  <2> QED BY <1>1, <2>1, <2>2 DEF SlotSend
<1>9. Plain'
  BY <1>3, <1>4, <1>8 DEF Plain
<1>10. Shape'
  BY <1>2, <1>3, <1>4, ShapeReturn
<1>11. sendreq' = [sendreq EXCEPT ![s] = r] /\ sendreq'[s] = r
  <2>1. sendreq' = [sendreq EXCEPT ![s] = r]
    BY <1>1 DEF SlotSend, Slot
  <2>2. sendreq \in [Server -> Created \cup {Null}]
    BY DEF TypeInv, SlotsOK
  <2> QED BY <1>2, <2>1, <2>2
<1>12. /\ \A t \in Server : t # s => status'[t] = status[t] /\ wire'[t] = wire[t]
       /\ \/ status'[s] = status[s] /\ wire'[s] = wire[s]
          \/ ~IsOpen(s) /\ status'[s] = "connected" /\ wire'[s] = <<>>
  <2>1. CASE UNCHANGED conn
    BY <2>1 DEF conn
  <2>2. CASE Open(s)
    BY <1>2, <2>2, Opened
  <2> QED BY <1>1, <2>1, <2>2 DEF SlotSend, Slot
<1>13. OnlyAt(s)
  <2>1. stack' = <<>> \/ top'.pc \notin ShiftPcs \/ top'.s = s
    BY <1>1, <1>2, <1>3, <1>4, ReturnsTo
  <2>2. sendreq \in [Server -> Created \cup {Null}]
    BY DEF TypeInv, SlotsOK
  <2>3. \A t \in Server : t # s => Same(t)
    BY <1>3, <1>11, <1>12, <2>2 DEF Same
  <2> QED BY <1>1, <2>1, <2>3 DEF OnlyAt
<1>14. /\ SendSlot(s)' = SendSlot(s) /\ Sends(s)' = Sends(s) /\ Reads(s)' = Reads(s)
  <2>1. SendSlot(s) = r
    BY <1>1, <1>2 DEF SendSlot, Slotting, At, top
  <2>2. SendSlot(s)' = r
    <3>1. stack' = <<>> \/ top'.pc # "slot"
      BY <1>2, <1>3, <1>4, ReturnsTo
    <3>2. ~Slotting(s)'
      BY <3>1 DEF Slotting, At, top
    <3> QED BY <1>11, <3>2 DEF SendSlot
  <2>3. Leaving(s)' <=> Leaving(s)
    BY <1>2, <1>3, <1>4, LeavingKept
  <2>4. Reads(s)' = Reads(s)
    BY <1>3, <2>3 DEF Reads, ToRead
  <2> QED BY <1>3, <2>1, <2>2, <2>4 DEF Sends
<1>15. Fresh' = Fresh
  BY DEF Fresh, Persistent, Faults
<1>16. Fresh => IsOpen(s) /\ status'[s] = status[s] /\ wire'[s] = wire[s]
  BY <1>1, <1>2, <1>6, <1>12 DEF FrameInv, ServerInv, IdleAt
<1>17. ServerInv(own, s)'
  <2>1. Pipeline(own, s, Sends(s), Reads(s))'
    BY <1>6, <1>14, <1>15, <1>16 DEF ServerInv, Pipeline
  <2>2. Fresh' => status'[s] # "unknown" /\ IsOpen(s)'
    BY <1>6, <1>15, <1>16 DEF ServerInv, IsOpen
  <2> QED BY <1>3, <1>6, <1>14, <2>1, <2>2 DEF ServerInv
<1>18. FramesInv(own)'
  <2>1. Undisturbed
    BY <1>2, <1>3, <1>8 DEF Undisturbed
  <2>2. HeldBelow(own, own, n)
    BY DEF HeldBelow
  <2> QED BY <1>1, <1>2, <1>3, <1>4, <1>5, <2>1, <2>2, FramesReturn DEF Owned
<1>19. FreeInv(own)'
  BY <1>3, <1>5, FreeKept DEF Owned
<1> QED BY <1>2, <1>5, <1>9, <1>10, <1>13, <1>17, <1>18, <1>19, ServerOwned

LEMMA UnqueueOwns ==
  ASSUME TypeInv, TypeInv', OwnerInv, UNCHANGED config, Unqueue
  PROVE  OwnerInv'
<1>1. PICK s, n : s = top.s /\ n = Len(stack)
  OBVIOUS
<1>2. stack # <<>> /\ top.pc = "unqueue" /\ s \in Server
  BY <1>1, AtTop DEF Unqueue, FrameOK, ServerPcs
<1>3. UNCHANGED <<conn, slots, reqs, in_select, pending>> /\ Goto(<<>>)
  BY DEF Unqueue, Return
<1>4. /\ UNCHANGED <<status, wire, sendreq, readreq, buildreq, sendqueue, readqueue>>
      /\ UNCHANGED <<request, free_requests>> /\ Created' = Created
  BY <1>3, SameRequests DEF conn, slots, reqs
<1>5. Shape /\ Plain
  BY OwnerParts
<1>6. PICK own : Owned(own)
  BY OwnerParts
<1>7. Shape' /\ Plain'
  BY <1>2, <1>3, <1>4, <1>5, ShapeReturn, PlainSame
<1>8. /\ stack' = <<>> \/ top'.pc # "slot"
      /\ stack' = <<>> \/ top'.pc \notin ShiftPcs \/ top'.s = s
  BY <1>1, <1>2, <1>3, <1>5, ReturnsTo
<1>9. OnlyAt(s)
  <2>1. \A t \in Server : t # s => Same(t)
    BY <1>4 DEF Same
  <2> QED BY <1>1, <1>8, <2>1 DEF OnlyAt
<1>10. SendSlot(s)' = SendSlot(s) /\ Sends(s)' = Sends(s) /\ Reads(s)' = Reads(s)
  <2>1. ~Slotting(s) /\ ~Slotting(s)'
    BY <1>2, <1>8 DEF Slotting, At, top
  <2>2. Leaving(s)' <=> Leaving(s)
    BY <1>2, <1>3, <1>4, <1>5, LeavingKept
  <2>3. SendSlot(s)' = SendSlot(s)
    BY <1>4, <2>1 DEF SendSlot
  <2>4. Reads(s)' = Reads(s)
    BY <1>4, <2>2 DEF Reads, ToRead
  <2> QED BY <1>4, <2>3, <2>4 DEF Sends
<1>11. ServerInv(own, s)'
  <2>1. ServerInv(own, s)
    BY <1>2, <1>6 DEF Owned, ServersInv
  <2>2. Fresh' = Fresh
    BY DEF Fresh, Persistent, Faults
  <2>3. IdleAt(s)' = IdleAt(s) /\ IsOpen(s)' = IsOpen(s)
    BY <1>4 DEF IdleAt, IsOpen
  <2>4. Pipeline(own, s, Sends(s), Reads(s))'
    BY <1>4, <1>10, <2>1, <2>2 DEF ServerInv, Pipeline
  <2> QED BY <1>4, <1>10, <2>1, <2>2, <2>3, <2>4 DEF ServerInv
<1>12. FramesInv(own)'
  <2>1. Undisturbed
    BY <1>2, <1>4 DEF Undisturbed
  <2>2. HeldBelow(own, own, n)
    BY DEF HeldBelow
  <2> QED BY <1>1, <1>2, <1>3, <1>5, <1>6, <2>1, <2>2, FramesReturn DEF Owned
<1>13. FreeInv(own)'
  BY <1>4, <1>6, FreeKept DEF Owned
<1> QED BY <1>2, <1>6, <1>7, <1>9, <1>11, <1>12, <1>13, ServerOwned

(* What mmc_server_deactivate fails over is what the server had to answer. *)
LEMMA MineIsRead ==
  ASSUME NEW q \in Seq(Created), NEW h \in Created \cup {Null}, h = Null => q = <<>>,
         Distinct(Slotted(h, q)), NEW m, m = WithRequest(WithRequest(q, h), Null)
  PROVE  /\ m \in Seq(Created) /\ Distinct(m) /\ ToSet(m) = ToSet(Slotted(h, q))
         /\ h = Null => m = <<>>
<1>1. CASE h = Null
  BY <1>1 DEF WithRequest, Slotted
<1>2. CASE h # Null
  <2>1. m = Push(q, h)
    BY <1>2 DEF WithRequest
  <2>2. /\ ToSet(<<h>> \o q) = {h} \cup ToSet(q)
        /\ Distinct(<<h>> \o q) => Distinct(q)
    BY <1>2, ConsProperties
  <2>3. Slotted(h, q) = <<h>> \o q
    BY <1>2 DEF Slotted
  <2>4. /\ Push(q, h) \in Seq(Created) /\ ToSet(Push(q, h)) = ToSet(q) \cup {h}
        /\ Distinct(q) => Distinct(Push(q, h))
    BY <1>2, PushAdds
  <2> HIDE DEF Slotted
  <2> QED BY <1>2, <2>1, <2>2, <2>3, <2>4
<1> QED BY <1>1, <1>2

LEMMA DeactivateOwns ==
  ASSUME TypeInv, TypeInv', OwnerInv, UNCHANGED config, Deactivate
  PROVE  OwnerInv'
<1>1. PICK s, n, m, a, R : /\ s = top.s /\ n = Len(stack)
                           /\ m = WithRequest(WithRequest(readqueue[s], readreq[s]), buildreq[s])
                           /\ a = FrameOf("drain", s, Null, m, 0, 0) /\ R = ToSet(ToRead(s))
  OBVIOUS
<1>2. stack # <<>> /\ top.pc = "deactivate" /\ s \in Server
  BY <1>1, AtTop DEF Deactivate, FrameOK, ServerPcs
<1>3. UNCHANGED <<request, free_requests, in_select, pending>> /\ Goto(<<a>>)
  BY <1>1 DEF Deactivate, reqs
<1>4. a.pc = "drain" /\ a.s = s /\ a.q = m
  BY <1>1 DEF FrameOf
<1>5. Shape /\ Plain
  BY OwnerParts
<1>6. PICK own : Owned(own)
  BY OwnerParts
<1>7. PICK own2 : own2 = Given(own, R, InFrame(n))
  OBVIOUS
<1>8. \A x \in Created : own2[x] = IF x \in R THEN InFrame(n) ELSE own[x]
  BY <1>7, CreatedNumbers DEF Given
<1>9. Steady /\ ServerInv(own, s)
  BY <1>2, <1>5, <1>6, TopSteady DEF ShiftPcs, Owned, ServersInv
<1>10. /\ Distinct(ToRead(s)) /\ \A x \in R : own[x] = OnServer(s)
       /\ readreq[s] = Null => readqueue[s] = <<>>
       /\ buildreq[s] = Null /\ R \subseteq Created
  <2>1. Pipeline(own, s, ToSend(s), ToRead(s))
    BY <1>2, <1>6, <1>9, SendsAreRead DEF Owned
  <2>2. R \subseteq Created
    BY <1>1, <1>2, SlotTypesOf, ToSetElements
  <2> QED BY <1>1, <1>9, <2>1, <2>2 DEF Pipeline, ServerInv
<1>11. Distinct(m) /\ ToSet(m) = R /\ (readreq[s] = Null => m = <<>>)
  <2>1. readreq[s] \in Created \cup {Null} /\ readqueue[s] \in Seq(Created)
    BY <1>2 DEF TypeInv, SlotsOK
  <2>2. m = WithRequest(WithRequest(readqueue[s], readreq[s]), Null)
    BY <1>1, <1>10
  <2> QED BY <1>1, <1>10, <2>1, <2>2, MineIsRead DEF ToRead
<1>12. Shape'
  <2>1. Enters(a)
    BY <1>4, <1>11 DEF Enters, Sound, ScriptPcs, LoopPcs, RoundPcs
  <2>2. ASSUME Len(stack) > 1 PROVE Fits(a, stack[2])
    <3>1. 1 \in Positions /\ 1 + 1 \in Positions /\ top = stack[1] /\ Len(stack) \in Nat
      BY <1>2, <2>2, FirstElement DEF TypeInv, StackOK, top, Positions
    <3>2. PICK g, k : g = stack[2] /\ k = 1
      OBVIOUS
    <3>3. Fits(top, g)
      <4>1. k \in Positions /\ k + 1 \in Positions /\ k + 1 = 2
        BY <3>1, <3>2
      <4>2. Fits(stack[k], stack[k + 1])
        BY <1>5, <4>1 DEF Shape
      <4> QED BY <3>1, <3>2, <4>1, <4>2
    <3>4. g.pc = "unslot" => IdleAt(s)
      <4>1. FrameInv(own, g, Len(stack) + 1 - 2)
        BY <1>6, <3>1, <3>2 DEF Owned, FramesInv
      <4> QED BY <1>1, <3>3, <4>1 DEF FrameInv, Fits
    <3>5. IdleAt(s) => m = <<>>
      BY <1>11 DEF IdleAt, ToRead, Slotted, Null
    <3> QED BY <1>1, <1>2, <1>4, <3>2, <3>3, <3>4, <3>5 DEF Fits
  <2> QED BY <1>2, <1>3, <1>5, <2>1, <2>2, ShapeOne
<1>13. Plain'
  BY <1>3, <1>5, PlainSame
<1>14. Steady'
  <2>1. PICK f, T : f = <<a>> /\ T = {a}
    OBVIOUS
  <2>2. f \in Seq(T) /\ Goto(f) /\ Len(f) = 1 /\ f[1] = a
    BY <1>3, <2>1
  <2>3. \A i \in 1 .. Len(f) : f[i].pc \notin ShiftPcs
    BY <1>4, <2>2 DEF ShiftPcs
  <2> QED BY <1>2, <1>9, <2>2, <2>3, SteadyStep
<1>15. /\ \A t \in Server : t # s => Same(t)
       /\ sendreq'[s] = Null /\ readreq'[s] = Null /\ buildreq'[s] = Null
       /\ sendqueue'[s] = <<>> /\ readqueue'[s] = <<>> /\ wire'[s] = <<>>
       /\ status'[s] # "unknown"
  BY <1>1, <1>2 DEF Deactivate, FailedStatus, Vacate, Hangup, Same, TypeInv, SlotsOK, ConnOK
<1>16. OnlyAt(s)
  <2>1. stack' = <<>> \/ top'.pc \notin ShiftPcs
    <3>1. stack' # <<>> => 1 \in Positions' /\ top' = stack'[1]
      BY FirstElement DEF TypeInv, StackOK, top, Positions
    <3> QED BY <1>14, <3>1 DEF Steady
  <2> QED BY <1>1, <1>15, <2>1 DEF OnlyAt
<1>17. ServerInv(own2, s)'
  <2>1. AsSlotted'
    BY <1>14, SteadyServers, PTL
  <2>2. Sends(s)' = <<>> /\ Reads(s)' = <<>> /\ SendSlot(s)' = Null
    BY <1>2, <1>15, <2>1 DEF AsSlotted, ToSend, ToRead, Slotted
  <2>3. PICK e : e = <<>>
    OBVIOUS
  <2>4. e \in Seq(Created) /\ Len(e) = 0 /\ Distinct(e) /\ ToSet(e) = {} /\ IsTail(e, e)
    <3>1. e \in Seq(Created) /\ Len(e) = 0
      BY <2>3
    <3>2. ToSet(e) = {}
      BY <2>3, <3>1, ToSetElements
    <3>3. IsTail(e, e)
      BY <2>3, <3>1, TailEmpty
    <3>4. Distinct(e)
      BY <3>1 DEF Distinct
    <3> QED BY <3>1, <3>2, <3>3, <3>4
  <2>5. Pipeline(own2, s, Sends(s), Reads(s))'
    BY <1>15, <2>2, <2>3, <2>4 DEF Pipeline
  <2>6. IdleAt(s)'
    BY <1>15 DEF IdleAt
  <2> QED BY <1>15, <2>2, <2>5, <2>6 DEF ServerInv
<1>18. FramesInv(own2)'
  <2>1. Undisturbed
    <3>1. IdleAt(s)'
      BY <1>15 DEF IdleAt
    <3>2. Created' = Created
      BY <1>3, SameRequests
    <3> QED BY <1>1, <1>2, <3>1, <3>2 DEF Undisturbed
  <2>2. HeldBelow(own, own2, n)
    BY <1>8, <1>10, Places DEF HeldBelow
  <2>3. FrameInv(own2, a, n)'
    BY <1>4, <1>8, <1>10, <1>11 DEF FrameInv, HeldBy
  <2> QED BY <1>1, <1>2, <1>3, <1>5, <1>6, <2>1, <2>2, <2>3, FramesOne DEF Owned
<1>19. FreeInv(own2)'
  <2>1. \A x \in Created : own[x] = OnFreeList => own2[x] = OnFreeList
    BY <1>8, <1>10, Places
  <2> QED BY <1>3, <1>6, <2>1, FreeKept DEF Owned
<1>20. \A x \in Created, t \in Server : t # s /\ own[x] = OnServer(t) => own2[x] = OnServer(t)
  BY <1>8, <1>10, Places
<1> QED BY <1>2, <1>6, <1>12, <1>13, <1>16, <1>17, <1>18, <1>19, <1>20, ServerOwned

LEMMA TailDistinct ==
  ASSUME NEW X, NEW S \in Seq(X), NEW R \in Seq(X), IsTail(S, R), Distinct(R)
  PROVE  Distinct(S)
<1>1. PICK k, l : k = Len(S) /\ l = Len(R)
  OBVIOUS
<1>2. k \in Nat /\ l \in Nat /\ k <= l
  BY <1>1, LenProperties DEF IsTail
<1> SUFFICES ASSUME NEW i \in 1 .. k, NEW j \in 1 .. k, S[i] = S[j] PROVE i = j
  BY <1>1 DEF Distinct
<1>3. R[l - k + i] = R[l - k + j]
  BY <1>1 DEF IsTail
<1>4. l - k + i \in 1 .. l /\ l - k + j \in 1 .. l
  BY <1>2
<1>5. l - k + i = l - k + j
  BY <1>1, <1>3, <1>4 DEF Distinct
<1> QED BY <1>2, <1>5

(* A request is taken out of the queue, and is passed over if it is in the *)
(* slot: either way the others stay as they are.                           *)
LEMMA Withdrawn ==
  ASSUME NEW q \in Seq(Created), NEW h \in Created \cup {Null}, h = Null => q = <<>>,
         Distinct(Slotted(h, q)), NEW r \in Created
  PROVE  /\ Without(q, r) \in Seq(Created)
         /\ q = <<>> => Without(q, r) = <<>>
         /\ Without(Slotted(h, q), r) = IF h = r THEN Without(q, r)
                                        ELSE Slotted(h, Without(q, r))
<1>1. /\ Without(q, r) \in Seq(Created)
      /\ r \notin ToSet(q) => Without(q, r) = q
  BY WithoutRemoves
<1>2. h # Null /\ h = r => r \notin ToSet(q)
  BY ConsProperties DEF Slotted
<1>3. h = r => h # Null
  BY CreatedNumbers
<1>4. /\ h = r => Without(Slotted(h, q), r) = q
      /\ h # r => Without(Slotted(h, q), r) = Slotted(h, Without(q, r))
      /\ Without(<<>>, r) = <<>>
  BY SlottedWithout
<1> HIDE DEF Slotted
<1> QED BY <1>1, <1>2, <1>3, <1>4

(* The frames that mmc_select_retry leaves behind. *)
Withdraws(f, s, r, x, first) ==
  /\ Goto(f) /\ Len(f) \in {1, 3}
  /\ \A i \in 1 .. Len(f) :
       /\ f[i].s = s /\ f[i].pc \in {"slot", "unqueue", "retryRead"}
       /\ f[i].pc = "slot" => i = 1 /\ first
       /\ f[i].pc = "retryRead" <=> i = Len(f)
       /\ f[i].pc = "retryRead" => f[i].r = r
  /\ \A i \in 1 .. Len(f) - 1 : Fits(f[i], f[i + 1])
  /\ first => f[1].pc = "slot" /\ f[1].r = x
  /\ ~first => Len(f) = 1

LEMMA RetryFrames ==
  ASSUME NEW s, NEW r, NEW x, NEW first \in BOOLEAN,
         IF first THEN Goto(<<Frame("slot", s, x), Frame("unqueue", s, Null),
                              Frame("retryRead", s, r)>>)
         ELSE Goto(<<Frame("retryRead", s, r)>>)
  PROVE  \E T : \E f \in Seq(T) : Withdraws(f, s, r, x, first)
<1>1. CASE first
  <2>1. PICK a, b, c : /\ a = Frame("slot", s, x) /\ b = Frame("unqueue", s, Null)
                       /\ c = Frame("retryRead", s, r)
    OBVIOUS
  <2>2. PICK f, T : f = <<a, b, c>> /\ T = {a, b, c}
    OBVIOUS
  <2>3. f \in Seq(T) /\ Goto(f) /\ Len(f) = 3 /\ f[1] = a /\ f[2] = b /\ f[3] = c
    BY <1>1, <2>1, <2>2
  <2>4. /\ a.pc = "slot" /\ a.s = s /\ a.r = x /\ b.pc = "unqueue" /\ b.s = s
        /\ c.pc = "retryRead" /\ c.s = s /\ c.r = r
    BY <2>1 DEF Frame, FrameOf
  <2>5. \A i \in 1 .. Len(f) : i = 1 \/ i = 2 \/ i = 3
    BY <2>3
  <2>6. \A i \in 1 .. Len(f) - 1 : (i = 1 /\ i + 1 = 2) \/ (i = 2 /\ i + 1 = 3)
    BY <2>3
  <2>7. \A i \in 1 .. Len(f) - 1 : Fits(f[i], f[i + 1])
    BY <2>3, <2>4, <2>6 DEF Fits
  <2> QED BY <1>1, <2>3, <2>4, <2>5, <2>7 DEF Withdraws
<1>2. CASE ~first
  <2>1. PICK c : c = Frame("retryRead", s, r)
    OBVIOUS
  <2>2. PICK f, T : f = <<c>> /\ T = {c}
    OBVIOUS
  <2>3. f \in Seq(T) /\ Goto(f) /\ Len(f) = 1 /\ f[1] = c
    BY <1>2, <2>1, <2>2
  <2>4. c.pc = "retryRead" /\ c.s = s /\ c.r = r
    BY <2>1 DEF Frame, FrameOf
  <2>5. \A i \in 1 .. Len(f) : i = 1
    BY <2>3
  <2>6. \A i \in 1 .. Len(f) - 1 : Fits(f[i], f[i + 1])
    BY <2>3
  <2> QED BY <1>2, <2>3, <2>4, <2>5, <2>6 DEF Withdraws
<1> QED BY <1>1, <1>2

(* What the server has to send and to answer without the request. *)
LEMMA RetrySlots ==
  ASSUME TypeInv, TypeInv', Steady, Shape, Retry, NEW s, s = top.s, NEW r, r = top.r,
         s \in Server, r \in Created, stack # <<>>, top.pc = "retry",
         NEW own, ServersInv(own)
  PROVE  /\ Sends(s)' = Without(ToSend(s), r) /\ Reads(s)' = Without(ToRead(s), r)
         /\ SendSlot(s)' = Null => sendqueue'[s] = <<>>
         /\ readreq[s] = Null => readqueue'[s] = <<>>
         /\ \A t \in Server : t # s => Same(t)
         /\ top'.s = s /\ stack' # <<>>
         /\ \E x, b : \E T : \E f \in Seq(T) :
              b \in BOOLEAN /\ b = (sendreq[s] = r) /\ Withdraws(f, s, r, x, b)
<1>1. /\ sendreq \in [Server -> Created \cup {Null}] /\ readreq \in [Server -> Created \cup {Null}]
      /\ sendqueue \in [Server -> Seq(Created)] /\ readqueue \in [Server -> Seq(Created)]
  BY DEF TypeInv, SlotsOK
<1>2. PICK h, q, w, b : /\ h = sendreq[s] /\ q = sendqueue[s] /\ w = Without(q, r)
                        /\ b \in BOOLEAN /\ b = (h = r)
  OBVIOUS
<1>3. PICK g, p, v : g = readreq[s] /\ p = readqueue[s] /\ v = Without(p, r)
  OBVIOUS
<1>4. /\ h = Null => q = <<>>
      /\ g = Null => p = <<>>
      /\ IsTail(ToSend(s), ToRead(s)) /\ Distinct(ToRead(s))
  <2>1. SendSlot(s) = sendreq[s]
    BY SteadyServers DEF AsSlotted
  <2>2. Pipeline(own, s, ToSend(s), ToRead(s))
    BY SendsAreRead
  <2> QED BY <1>2, <1>3, <2>1, <2>2 DEF ServersInv, ServerInv, Pipeline
<1>5. Distinct(ToSend(s))
  BY <1>4, SlotTypesOf, TailDistinct
<1>6. /\ w \in Seq(Created) /\ (q = <<>> => w = <<>>)
      /\ Without(ToSend(s), r) = IF h = r THEN w ELSE Slotted(h, w)
  <2>1. ToSend(s) = Slotted(h, q)
    BY <1>2 DEF ToSend
  <2>2. q \in Seq(Created) /\ h \in Created \cup {Null} /\ Distinct(Slotted(h, q))
    BY <1>1, <1>2, <1>5, <2>1
  <2> HIDE DEF Slotted, ToSend
  <2> QED BY <1>2, <1>4, <2>1, <2>2, Withdrawn
<1>7. /\ v \in Seq(Created) /\ (p = <<>> => v = <<>>)
      /\ Without(ToRead(s), r) = IF g = r THEN v ELSE Slotted(g, v)
  <2>1. ToRead(s) = Slotted(g, p)
    BY <1>3 DEF ToRead
  <2>2. p \in Seq(Created) /\ g \in Created \cup {Null} /\ Distinct(Slotted(g, p))
    BY <1>1, <1>3, <1>4, <2>1
  <2> HIDE DEF Slotted, ToRead
  <2> QED BY <1>3, <1>4, <2>1, <2>2, Withdrawn
<1>8. /\ readqueue' = [readqueue EXCEPT ![s] = v]
      /\ sendqueue' = [sendqueue EXCEPT ![s] = IF b THEN Rest(w) ELSE w]
      /\ UNCHANGED <<sendreq, readreq, buildreq, status, wire>>
      /\ IF b THEN Goto(<<Frame("slot", s, Popped(w, Null)), Frame("unqueue", s, Null),
                          Frame("retryRead", s, r)>>)
         ELSE Goto(<<Frame("retryRead", s, r)>>)
  BY <1>2, <1>3 DEF Retry, conn
<1>9. \E T : \E f \in Seq(T) : Withdraws(f, s, r, Popped(w, Null), b)
  <2>1. PICK x : x = Popped(w, Null)
    OBVIOUS
  <2>2. IF b THEN Goto(<<Frame("slot", s, x), Frame("unqueue", s, Null),
                         Frame("retryRead", s, r)>>)
        ELSE Goto(<<Frame("retryRead", s, r)>>)
    BY <1>8, <2>1
  <2>3. \E T : \E f \in Seq(T) : Withdraws(f, s, r, x, b)
    BY <1>2, <2>2, RetryFrames
  <2> QED BY <2>1, <2>3
<1>10. PICK T : \E f \in Seq(T) : Withdraws(f, s, r, Popped(w, Null), b)
  BY <1>9
<1>11. PICK f \in Seq(T) : Withdraws(f, s, r, Popped(w, Null), b)
  BY <1>10
<1>12. stack' # <<>> /\ top' = f[1] /\ 1 \in 1 .. Len(f)
  BY <1>11, HeadAfter DEF Withdraws
<1>13. top'.s = s /\ (top'.pc = "slot" <=> b) /\ (b => top'.r = Popped(w, Null))
  BY <1>11, <1>12 DEF Withdraws
<1>14. Sends(s)' = Without(ToSend(s), r) /\ (SendSlot(s)' = Null => sendqueue'[s] = <<>>)
  <2>1. sendreq'[s] = h /\ sendqueue'[s] = IF b THEN Rest(w) ELSE w
    BY <1>1, <1>2, <1>8
  <2>2. CASE b
    <3>1. SendSlot(s)' = Popped(w, Null)
      BY <1>12, <1>13, <2>2 DEF SendSlot, Slotting, At, top
    <3>2. /\ Slotted(Popped(w, Null), Rest(w)) = w
          /\ Popped(w, Null) = Null => Rest(w) = <<>>
      BY <1>6, SlottedNext
    <3> QED BY <1>2, <1>6, <2>1, <2>2, <3>1, <3>2 DEF Sends
  <2>3. CASE ~b
    <3>1. SendSlot(s)' = h
      BY <1>12, <1>13, <2>1, <2>3 DEF SendSlot, Slotting, At, top
    <3> QED BY <1>2, <1>4, <1>6, <2>1, <2>3, <3>1 DEF Sends
  <2> QED BY <1>2, <2>2, <2>3
<1>15. Reads(s)' = Without(ToRead(s), r)
  <2>1. readreq'[s] = g /\ readqueue'[s] = v
    BY <1>1, <1>3, <1>8
  <2>2. \A i \in 1 .. Len(f) : Leaves(f[i], s)' => g = r
    BY <1>11, <2>1 DEF Leaves, Withdraws
  <2>3. g = r => \E i \in 1 .. Len(f) : Leaves(f[i], s)'
    <3>1. PICK i : i = Len(f)
      OBVIOUS
    <3>2. i \in 1 .. Len(f) /\ f[i].pc = "retryRead" /\ f[i].r = r /\ f[i].s = s
      BY <1>11, <3>1 DEF Withdraws
    <3> QED BY <2>1, <3>2 DEF Leaves
  <2>4. Leaving(s)' <=> \E i \in 1 .. Len(f) : Leaves(f[i], s)'
    BY <1>11, LeavingAfter DEF Withdraws
  <2> QED BY <1>7, <2>1, <2>2, <2>3, <2>4 DEF Reads, ToRead
<1>16. \A t \in Server : t # s => Same(t)
  BY <1>1, <1>8 DEF Same
<1>17. PICK x : x = Popped(w, Null)
  OBVIOUS
<1>18. b \in BOOLEAN /\ b = (sendreq[s] = r) /\ Withdraws(f, s, r, x, b)
  BY <1>2, <1>11, <1>17
<1>19. \E z, c : \E U : \E g1 \in Seq(U) :
         c \in BOOLEAN /\ c = (sendreq[s] = r) /\ Withdraws(g1, s, r, z, c)
  BY <1>11, <1>18
<1> QED BY <1>1, <1>3, <1>4, <1>7, <1>8, <1>12, <1>13, <1>14, <1>15, <1>16, <1>19

LEMMA RetryOwns ==
  ASSUME TypeInv, TypeInv', OwnerInv, UNCHANGED config, Retry
  PROVE  OwnerInv'
<1>1. PICK s, r, n : s = top.s /\ r = top.r /\ n = Len(stack)
  OBVIOUS
<1>2. stack # <<>> /\ top.pc = "retry" /\ s \in Server /\ r \in Created /\ n \in Nat
  BY <1>1, AtTop, LenProperties DEF Retry, FrameOK, ServerPcs, RequestPcs, TypeInv, StackOK
<1>3. UNCHANGED <<request, free_requests, in_select, pending, sendreq, readreq, buildreq>>
  BY DEF Retry, reqs, rounds
<1>4. Shape /\ Plain
  BY OwnerParts
<1>5. PICK own : Owned(own)
  BY OwnerParts
<1>6. Steady /\ ServerInv(own, s) /\ ~Fresh /\ Pipeline(own, s, ToSend(s), ToRead(s))
  <2>1. Steady /\ ServerInv(own, s)
    BY <1>2, <1>4, <1>5, TopSteady DEF ShiftPcs, Owned, ServersInv
  <2>2. FrameInv(own, top, n)
    BY <1>1, <1>2, <1>5, TopFrame
  <2> QED BY <1>2, <1>5, <2>1, <2>2, SendsAreRead DEF FrameInv, Owned
<1>7. r \in ToSet(ToRead(s)) /\ own[r] = OnServer(s)
  <2>1. FrameInv(own, top, n)
    BY <1>1, <1>2, <1>5, TopFrame
  <2>2. Reads(s) = ToRead(s)
    BY <1>2, <1>6, SteadyServers DEF AsSlotted
  <2> QED BY <1>1, <1>2, <1>6, <2>1, <2>2 DEF FrameInv, Pipeline
<1>8. PICK own2 : own2 = Given(own, {r}, InFrame(n))
  OBVIOUS
<1>9. own2[r] = InFrame(n) /\ \A x \in Nat : x # r => own2[x] = own[x]
  BY <1>2, <1>8, CreatedNumbers DEF Given
<1>10. /\ Sends(s)' = Without(ToSend(s), r) /\ Reads(s)' = Without(ToRead(s), r)
       /\ SendSlot(s)' = Null => sendqueue'[s] = <<>>
       /\ readreq[s] = Null => readqueue'[s] = <<>>
       /\ \A t \in Server : t # s => Same(t)
       /\ top'.s = s /\ stack' # <<>>
       /\ \E x, b : \E T : \E f \in Seq(T) :
            b \in BOOLEAN /\ b = (sendreq[s] = r) /\ Withdraws(f, s, r, x, b)
  BY <1>1, <1>2, <1>4, <1>5, <1>6, RetrySlots DEF Owned
<1>11. PICK x, b, T : \E f \in Seq(T) :
         b \in BOOLEAN /\ b = (sendreq[s] = r) /\ Withdraws(f, s, r, x, b)
  BY <1>10
<1>12. PICK f \in Seq(T) :
         b \in BOOLEAN /\ b = (sendreq[s] = r) /\ Withdraws(f, s, r, x, b)
  BY <1>11
<1>13. Goto(f) /\ Len(f) \in Nat /\ (b => sendreq'[s] = r)
  <2>1. Goto(f) /\ Len(f) \in {1, 3}
    BY <1>12 DEF Withdraws
  <2>2. b => sendreq[s] = r
    BY <1>12
  <2>3. sendreq'[s] = sendreq[s]
    BY <1>3
  <2> QED BY <2>1, <2>2, <2>3
<1>14. Shape'
  <2>1. \A i \in 1 .. Len(f) : Sound(f[i])' /\ (f[i].pc = "unslot" => i <= 2)
    BY <1>12 DEF Withdraws, Sound, RoundPcs
  <2>2. \A i \in 1 .. Len(f) : f[i].pc \notin ScriptPcs \cup LoopPcs
    BY <1>12 DEF Withdraws, ScriptPcs, LoopPcs
  <2>3. \A i \in 1 .. Len(f) - 1 : Fits(f[i], f[i + 1])
    BY <1>12 DEF Withdraws
  <2> QED BY <1>2, <1>3, <1>4, <1>13, <2>1, <2>2, <2>3, ShapeStep
<1>15. Plain'
  BY <1>3, <1>4, PlainSame
<1>16. OnlyAt(s)
  BY <1>1, <1>10 DEF OnlyAt
<1>17. ~Fresh'
  BY <1>6 DEF Fresh, Persistent, Faults
<1>18. ServerInv(own2, s)'
  <2>1. ToRead(s) \in Seq(Created) /\ ToSend(s) \in Seq(Created) /\ ToSet(ToRead(s)) \subseteq Created
    BY <1>2, SlotTypesOf, ToSetElements
  <2>2. Distinct(ToRead(s)) /\ IsTail(ToSend(s), ToRead(s))
    BY <1>6 DEF Pipeline
  <2>3. /\ Distinct(Without(ToRead(s), r))
        /\ ToSet(Without(ToRead(s), r)) = ToSet(ToRead(s)) \ {r}
    BY <2>1, <2>2, WithoutSet
  <2>4. IsTail(Without(ToSend(s), r), Without(ToRead(s), r))
    BY <2>1, <2>2, TailWithout
  <2>5. \A y \in ToSet(Without(ToRead(s), r)) : own2[y] = OnServer(s)
    BY <1>6, <1>9, <2>1, <2>3, CreatedNumbers DEF Pipeline
  <2>6. Pipeline(own2, s, Sends(s), Reads(s))'
    BY <1>10, <1>17, <2>3, <2>4, <2>5 DEF Pipeline
  <2> QED BY <1>3, <1>6, <1>10, <1>17, <2>6 DEF ServerInv
<1>19. FramesInv(own2)'
  <2>1. Undisturbed
    <3>1. Created' = Created
      BY <1>3, SameRequests
    <3> QED BY <1>2, <3>1 DEF Undisturbed
  <2>2. HeldBelow(own, own2, n)
    BY <1>7, <1>9, CreatedNumbers, Places DEF HeldBelow
  <2>3. ASSUME NEW i \in 1 .. Len(f), NEW g, g = f[i], NEW h, h = n + Len(f) - i
        PROVE  FrameInv(own2, g, h)'
    <3>1. /\ g.s = s /\ g.pc \in {"slot", "unqueue", "retryRead"} /\ (g.pc = "slot" => b)
          /\ g.pc = "retryRead" => i = Len(f) /\ g.r = r
      BY <1>12, <2>3 DEF Withdraws
    <3>2. g.pc = "retryRead" => h = n
      BY <1>2, <1>13, <2>3, <3>1
    <3>3. g.pc = "slot" => sendreq'[s] # Null /\ own2[sendreq'[s]] # OnFreeList
      BY <1>2, <1>9, <1>13, <3>1, Places, CreatedNumbers
    <3> QED BY <1>9, <1>17, <3>1, <3>2, <3>3 DEF FrameInv, HeldBy
  <2>4. Hold(own2, f, n)
    BY <2>3 DEF Hold
  <2> QED BY <1>1, <1>2, <1>4, <1>5, <1>13, <2>1, <2>2, <2>4, FramesStep DEF Owned
<1>20. FreeInv(own2)'
  <2>1. \A y \in Created : own[y] = OnFreeList => own2[y] = OnFreeList
    BY <1>7, <1>9, CreatedNumbers, Places
  <2> QED BY <1>3, <1>5, <2>1, FreeKept DEF Owned
<1>21. \A y \in Created, t \in Server : t # s /\ own[y] = OnServer(t) => own2[y] = OnServer(t)
  BY <1>7, <1>9, CreatedNumbers, Places
<1> QED BY <1>2, <1>5, <1>14, <1>15, <1>16, <1>18, <1>19, <1>20, <1>21, ServerOwned

(* The request leaves the read slot, if it is there, and the next follows. *)
LEMMA ReadNext ==
  ASSUME TypeInv, TypeInv', Shape, stack # <<>>, top.pc \in {"retryRead", "early"},
         NEW s \in Server, s = top.s, NEW T, NEW f \in Seq(T), Goto(f),
         \A i \in 1 .. Len(f) : f[i].pc \notin ShiftPcs,
         stack' = <<>> \/ top'.pc # "slot", UNCHANGED <<sendreq, sendqueue>>,
         IF Leaves(top, s)
         THEN /\ readreq'[s] = Popped(readqueue[s], Null) /\ readqueue'[s] = Rest(readqueue[s])
         ELSE /\ readreq'[s] = readreq[s] /\ readqueue'[s] = readqueue[s]
  PROVE  /\ SendSlot(s)' = SendSlot(s) /\ Sends(s)' = Sends(s) /\ Reads(s)' = Reads(s)
         /\ (readreq[s] = Null => readqueue[s] = <<>>) => (readreq'[s] = Null => readqueue'[s] = <<>>)
<1>1. ~Slotting(s) /\ ~Slotting(s)'
  BY DEF Slotting, At, top
<1>2. SendSlot(s)' = SendSlot(s) /\ Sends(s)' = Sends(s)
  BY <1>1 DEF SendSlot, Sends
<1>3. ~Leaving(s)'
  <2>1. Leaving(s)' <=> \E i \in 1 .. Len(f) : Leaves(f[i], s)'
    BY LeavingAfter
  <2> QED BY <2>1 DEF Leaves, ShiftPcs
<1>4. Leaving(s) <=> Leaves(top, s)
  <2>1. top = stack[1] /\ Len(stack) \in Nat \ {0}
    BY FirstElement DEF TypeInv, StackOK, top
  <2>2. 1 \in Positions
    BY <2>1 DEF Positions
  <2>3. Leaves(top, s) => Leaving(s)
    BY <2>1, <2>2 DEF Leaving
  <2>4. ASSUME NEW i \in Positions, Leaves(stack[i], s) PROVE Leaves(top, s)
    <3>1. CASE i = 1
      BY <2>1, <2>4, <3>1
    <3>2. CASE i # 1
      <4>1. i \in 2 .. Len(stack)
        BY <2>1, <3>2 DEF Positions
      <4>2. stack[i].pc \notin ShiftPcs
        BY <4>1, NothingBelow
      <4> QED BY <2>4, <4>2 DEF Leaves, ShiftPcs
    <3> QED BY <3>1, <3>2
  <2> QED BY <2>3, <2>4 DEF Leaving
<1>5. readqueue[s] \in Seq(Created)
  BY DEF TypeInv, SlotsOK
<1>6. /\ Slotted(Popped(readqueue[s], Null), Rest(readqueue[s])) = readqueue[s]
      /\ Popped(readqueue[s], Null) = Null => Rest(readqueue[s]) = <<>>
  BY <1>5, SlottedNext
<1>7. Reads(s)' = Reads(s)
  BY <1>3, <1>4, <1>6 DEF Reads, ToRead
<1> QED BY <1>2, <1>6, <1>7

LEMMA RetryReadOwns ==
  ASSUME TypeInv, TypeInv', OwnerInv, UNCHANGED config, RetryRead
  PROVE  OwnerInv'
<1>1. PICK s, r, n, a : s = top.s /\ r = top.r /\ n = Len(stack) /\ a = Frame("failover", s, r)
  OBVIOUS
<1>2. stack # <<>> /\ top.pc = "retryRead" /\ s \in Server
  BY <1>1, AtTop DEF RetryRead, FrameOK, ServerPcs
<1>3. /\ UNCHANGED <<conn, request, free_requests, in_select, pending, sendreq, buildreq, sendqueue>>
      /\ Goto(<<a>>)
  BY <1>1 DEF RetryRead, reqs
<1>4. a.pc = "failover" /\ a.s = s /\ a.r = r
  BY <1>1 DEF Frame, FrameOf
<1>5. Shape /\ Plain
  BY OwnerParts
<1>6. PICK own : Owned(own)
  BY OwnerParts
<1>7. /\ ServerInv(own, s) /\ ~Fresh /\ (r \in Created => own[r] = InFrame(n))
  <2>1. FrameInv(own, top, n)
    BY <1>1, <1>2, <1>6, TopFrame
  <2> QED BY <1>1, <1>2, <1>6, <2>1 DEF FrameInv, HeldBy, Owned, ServersInv
<1>8. /\ UNCHANGED <<status, wire>> /\ Created' = Created
  BY <1>3, SameRequests DEF conn
<1>9. Shape'
  <2>1. Enters(a)
    BY <1>4, EntersPlainly DEF ScriptPcs, LoopPcs, RoundPcs
  <2> QED BY <1>2, <1>3, <1>5, <2>1, ShapeOne
<1>10. Plain'
  BY <1>3, <1>5, PlainSame
<1>11. PICK f, T : f = <<a>> /\ T = {a}
  OBVIOUS
<1>12. f \in Seq(T) /\ Goto(f) /\ Len(f) = 1 /\ f[1] = a
  BY <1>3, <1>11
<1>13. stack' # <<>> /\ top'.pc = "failover"
  <2>1. Len(f) > 0
    BY <1>12
  <2>2. stack' # <<>> /\ top' = f[1]
    BY <1>2, <1>12, <2>1, HeadAfter
  <2> QED BY <1>4, <1>12, <2>2
<1>14. /\ IF Leaves(top, s)
          THEN /\ readreq'[s] = Popped(readqueue[s], Null) /\ readqueue'[s] = Rest(readqueue[s])
          ELSE /\ readreq'[s] = readreq[s] /\ readqueue'[s] = readqueue[s]
       /\ \A t \in Server : t # s => readreq'[t] = readreq[t] /\ readqueue'[t] = readqueue[t]
  <2>1. /\ readreq \in [Server -> Created \cup {Null}] /\ readqueue \in [Server -> Seq(Created)]
    BY DEF TypeInv, SlotsOK
  <2>2. Leaves(top, s) <=> readreq[s] = top.r
    BY <1>1, <1>2 DEF Leaves
  <2>3. IF readreq[s] = top.r
        THEN /\ readreq' = [readreq EXCEPT ![s] = Popped(readqueue[s], Null)]
             /\ readqueue' = [readqueue EXCEPT ![s] = Rest(@)]
        ELSE UNCHANGED <<readreq, readqueue>>
    BY <1>1 DEF RetryRead
  <2> QED BY <1>2, <2>1, <2>2, <2>3
<1>15. OnlyAt(s)
  BY <1>1, <1>3, <1>8, <1>13, <1>14 DEF OnlyAt, Same, ShiftPcs
<1>16. ~Fresh'
  BY <1>7 DEF Fresh, Persistent, Faults
<1>17. ServerInv(own, s)'
  <2>1. \A i \in 1 .. Len(f) : f[i].pc \notin ShiftPcs
    BY <1>4, <1>12 DEF ShiftPcs
  <2>2. /\ SendSlot(s)' = SendSlot(s) /\ Sends(s)' = Sends(s) /\ Reads(s)' = Reads(s)
        /\ (readreq[s] = Null => readqueue[s] = <<>>)
             => (readreq'[s] = Null => readqueue'[s] = <<>>)
    BY <1>1, <1>2, <1>3, <1>5, <1>12, <1>13, <1>14, <2>1, ReadNext
  <2> QED BY <1>3, <1>7, <1>16, <2>2 DEF ServerInv, Pipeline
<1>18. FramesInv(own)'
  <2>1. Undisturbed
    BY <1>2, <1>8 DEF Undisturbed
  <2>2. HeldBelow(own, own, n)
    BY DEF HeldBelow
  <2>3. FrameInv(own, a, n)'
    BY <1>4, <1>7, <1>8 DEF FrameInv, HeldBy
  <2> QED BY <1>1, <1>2, <1>3, <1>5, <1>6, <2>1, <2>2, <2>3, FramesOne DEF Owned
<1>19. FreeInv(own)'
  BY <1>3, <1>6, FreeKept DEF Owned
<1> QED BY <1>2, <1>6, <1>9, <1>10, <1>15, <1>17, <1>18, <1>19, ServerOwned

LEMMA EarlyDoneOwns ==
  ASSUME TypeInv, TypeInv', OwnerInv, UNCHANGED config, EarlyDone
  PROVE  OwnerInv'
<1>1. PICK s, r, n : s = top.s /\ r = readreq[s] /\ n = Len(stack)
  OBVIOUS
<1>2. stack # <<>> /\ top.pc = "early" /\ s \in Server
  BY <1>1, AtTop DEF EarlyDone, FrameOK, ServerPcs
<1>3. /\ UNCHANGED <<conn, request, in_select, pending, sendreq, buildreq, sendqueue>>
      /\ readreq' = [readreq EXCEPT ![s] = Popped(readqueue[s], Null)]
      /\ readqueue' = [readqueue EXCEPT ![s] = Rest(@)]
      /\ Release(r) /\ Goto(<<>>)
  BY <1>1 DEF EarlyDone, rounds, Return
<1>4. Shape /\ Plain
  BY OwnerParts
<1>5. PICK own : Owned(own)
  BY OwnerParts
<1>6. ServerInv(own, s) /\ ~Fresh /\ r \in Created /\ own[r] = InFrame(n)
  <2>1. FrameInv(own, top, n)
    BY <1>1, <1>2, <1>5, TopFrame
  <2>2. r \in Created
    BY <1>1, <1>2, <2>1 DEF FrameInv, TypeInv, SlotsOK
  <2> QED BY <1>1, <1>2, <1>5, <2>1, <2>2 DEF FrameInv, HeldBy, Owned, ServersInv
<1>7. PICK own2 : own2 = Given(own, {r}, OnFreeList)
  OBVIOUS
<1>8. own2[r] = OnFreeList /\ \A x \in Nat : x # r => own2[x] = own[x]
  BY <1>6, <1>7, CreatedNumbers DEF Given
<1>9. UNCHANGED <<status, wire>> /\ Created' = Created
  BY <1>3, SameRequests DEF conn
<1>10. Shape' /\ Plain'
  BY <1>2, <1>3, <1>4, ShapeReturn, PlainSame
<1>11. PICK f : f = <<>>
  OBVIOUS
<1>12. f \in Seq({}) /\ Goto(f) /\ \A i \in 1 .. Len(f) : f[i].pc \notin ShiftPcs
  BY <1>3, <1>11
<1>13. stack' = <<>> \/ top'.pc \notin ShiftPcs
  BY <1>2, <1>3, <1>4, ReturnsTo
<1>14. /\ readreq'[s] = Popped(readqueue[s], Null) /\ readqueue'[s] = Rest(readqueue[s])
       /\ \A t \in Server : t # s => readreq'[t] = readreq[t] /\ readqueue'[t] = readqueue[t]
  <2>1. /\ readreq \in [Server -> Created \cup {Null}] /\ readqueue \in [Server -> Seq(Created)]
    BY DEF TypeInv, SlotsOK
  <2> QED BY <1>2, <1>3, <2>1
<1>15. OnlyAt(s)
  BY <1>1, <1>3, <1>9, <1>13, <1>14 DEF OnlyAt, Same
<1>16. ~Fresh'
  BY <1>6 DEF Fresh, Persistent, Faults
<1>17. ServerInv(own2, s)'
  <2>1. Leaves(top, s) /\ (stack' = <<>> \/ top'.pc # "slot")
    BY <1>1, <1>2, <1>13 DEF Leaves, ShiftPcs
  <2>2. /\ SendSlot(s)' = SendSlot(s) /\ Sends(s)' = Sends(s) /\ Reads(s)' = Reads(s)
        /\ (readreq[s] = Null => readqueue[s] = <<>>)
             => (readreq'[s] = Null => readqueue'[s] = <<>>)
    BY <1>1, <1>2, <1>3, <1>4, <1>12, <1>14, <2>1, ReadNext
  <2>3. \A x \in ToSet(Reads(s)) : own2[x] = OnServer(s)
    <3>1. ToSet(Reads(s)) \subseteq Created
      <4>1. Reads(s) \in Seq(Created)
        BY <1>2, SlotTypesOf DEF Reads, TypeInv, SlotsOK
      <4> QED BY <4>1, ToSetElements
    <3>2. \A x \in ToSet(Reads(s)) : own[x] = OnServer(s)
      BY <1>6 DEF ServerInv, Pipeline
    <3> QED BY <1>6, <1>8, <3>1, <3>2, CreatedNumbers, Places
  <2> QED BY <1>3, <1>6, <1>16, <2>2, <2>3 DEF ServerInv, Pipeline
<1>18. FramesInv(own2)'
  <2>1. Undisturbed
    BY <1>2, <1>9 DEF Undisturbed
  <2>2. HeldBelow(own, own2, n)
    BY <1>6, <1>8, CreatedNumbers, Places DEF HeldBelow
  <2> QED BY <1>1, <1>2, <1>3, <1>4, <1>5, <2>1, <2>2, FramesReturn DEF Owned
<1>19. FreeInv(own2)'
  BY <1>3, <1>5, <1>6, <1>7, Places, Released DEF Owned
<1>20. \A x \in Created, t \in Server : t # s /\ own[x] = OnServer(t) => own2[x] = OnServer(t)
  BY <1>6, <1>8, CreatedNumbers, Places
<1> QED BY <1>2, <1>5, <1>10, <1>15, <1>17, <1>18, <1>19, <1>20, ServerOwned

(* The next request of the server is to be slotted. *)
LEMMA SendNext ==
  ASSUME TypeInv, TypeInv', Steady, Shape, stack # <<>>, NEW s \in Server, NEW T, NEW f \in Seq(T),
         Goto(f), 1 \in 1 .. Len(f), f[1] = Frame("slot", s, Popped(sendqueue[s], Null)),
         UNCHANGED <<sendreq, readreq, readqueue>>, sendqueue'[s] = Rest(sendqueue[s]),
         sendreq[s] # Null, NEW own, ServersInv(own)
  PROVE  /\ Sends(s)' = sendqueue[s] /\ stack' # <<>> /\ top'.s = s
         /\ SendSlot(s)' = Null => sendqueue'[s] = <<>>
         /\ IsTail(sendqueue[s], ToRead(s)) /\ Len(sendqueue[s]) + 1 <= Len(ToRead(s))
         /\ Fresh => Len(wire[s]) + Len(sendqueue[s]) + 1 <= Len(ToRead(s))
         /\ sendreq[s] \in ToSet(ToRead(s)) /\ sendreq[s] \in Created
<1>1. /\ sendqueue[s] \in Seq(Created) /\ sendreq[s] \in Created
  BY DEF TypeInv, SlotsOK
<1>2. /\ Slotted(Popped(sendqueue[s], Null), Rest(sendqueue[s])) = sendqueue[s]
      /\ Popped(sendqueue[s], Null) = Null => Rest(sendqueue[s]) = <<>>
  BY <1>1, SlottedNext
<1>3. stack' # <<>> /\ top' = f[1]
  <2>1. Len(f) \in Nat
    BY LenProperties
  <2>2. Len(f) > 0
    BY <2>1
  <2> QED BY <2>2, HeadAfter
<1>4. PICK x : x = Popped(sendqueue[s], Null)
  OBVIOUS
<1>5. top' = Frame("slot", s, x)
  BY <1>3, <1>4
<1>6. top'.s = s /\ top'.pc = "slot" /\ top'.r = x
  BY <1>5 DEF Frame, FrameOf
<1>7. SendSlot(s)' = x
  BY <1>3, <1>6 DEF SendSlot, Slotting, At, top
<1>8. Sends(s)' = sendqueue[s] /\ (SendSlot(s)' = Null => sendqueue'[s] = <<>>)
  BY <1>2, <1>4, <1>7 DEF Sends
<1>9. PICK S, h, q : S = ToSend(s) /\ h = sendreq[s] /\ q = sendqueue[s]
  OBVIOUS
<1>10. S = <<h>> \o q /\ h \in Created /\ q \in Seq(Created)
  BY <1>1, <1>9 DEF ToSend, Slotted
<1>11. S \in Seq(Created) /\ S # <<>> /\ Tail(S) = q /\ Len(S) = Len(q) + 1 /\ Len(q) \in Nat
  BY <1>10, ConsProperties
<1>12. /\ IsTail(S, ToRead(s)) /\ (Fresh => Len(wire[s]) + Len(S) <= Len(ToRead(s)))
       /\ sendreq[s] \in ToSet(ToRead(s))
  BY <1>9, SendsAreRead, SlotTypesOf DEF Pipeline
<1>13. ToRead(s) \in Seq(Created)
  BY SlotTypesOf
<1>14. IsTail(q, ToRead(s))
  BY <1>11, <1>12, <1>13, TailSent
<1>15. PICK k, l, m : k = Len(q) /\ l = Len(ToRead(s)) /\ m = Len(wire[s])
  OBVIOUS
<1>16. k \in Nat /\ l \in Nat /\ m \in Nat
  BY <1>11, <1>13, <1>15, LenProperties DEF TypeInv, ConnOK
<1>17. k + 1 <= l /\ (Fresh => m + (k + 1) <= l)
  BY <1>11, <1>12, <1>15 DEF IsTail
<1>18. k + 1 <= l /\ (Fresh => m + k + 1 <= l)
  BY <1>16, <1>17
<1> QED BY <1>1, <1>3, <1>6, <1>8, <1>9, <1>12, <1>14, <1>15, <1>18

LEMMA SendDoneOwns ==
  ASSUME TypeInv, TypeInv', OwnerInv, UNCHANGED config, SendDone
  PROVE  OwnerInv'
<1>1. PICK s, n, a, b : /\ s = top.s /\ n = Len(stack) /\ b = top
                        /\ a = Frame("slot", s, Popped(sendqueue[s], Null))
  OBVIOUS
<1>2. stack # <<>> /\ top.pc = "xmit" /\ s \in Server /\ sendreq[s] # Null
  BY <1>1, AtTop DEF SendDone, Sending, FrameOK, ServerPcs
<1>3. Shape /\ Plain
  BY OwnerParts
<1>4. PICK own : Owned(own)
  BY OwnerParts
<1>5. in_select /\ Goto(<<a, b>>)
  BY <1>1, <1>2, <1>3, InRound DEF SendDone, RoundPcs
<1>6. /\ UNCHANGED <<status, sendreq, readreq, buildreq, readqueue, in_select, pending>>
      /\ UNCHANGED <<request, free_requests>> /\ Created' = Created
      /\ sendqueue' = [sendqueue EXCEPT ![s] = Rest(@)]
      /\ \/ wire' = wire
         \/ wire' = [wire EXCEPT ![s] = Append(@, sendreq[s])]
  <2>1. /\ UNCHANGED <<status, sendreq, readreq, buildreq, readqueue, rounds, reqs>>
        /\ sendqueue' = [sendqueue EXCEPT ![s] = IF in_select THEN Rest(@) ELSE @]
        /\ wire' = [wire EXCEPT ![s] = IF \/ link[s] = "eof" \/ partly[s] = "answered"
                                          \/ request[sendreq[s]].kind = "blank"
                                       THEN @ ELSE Append(@, sendreq[s])]
    BY <1>1 DEF SendDone
  <2>2. Created' = Created
    BY <2>1, SameRequests DEF reqs
  <2>3. wire \in [Server -> Seq(Created)] /\ sendqueue \in [Server -> Seq(Created)]
    BY DEF TypeInv, ConnOK, SlotsOK
  <2> QED BY <1>2, <1>5, <2>1, <2>2, <2>3 DEF rounds, reqs
<1>7. /\ a.pc = "slot" /\ a.s = s /\ b.pc = "xmit"
  BY <1>1, <1>2 DEF Frame, FrameOf
<1>8. Steady /\ ServerInv(own, s)
  BY <1>2, <1>3, <1>4, TopSteady DEF ShiftPcs, Owned, ServersInv
<1>9. PICK f, T : f = <<a, b>> /\ T = {a, b}
  OBVIOUS
<1>10. f \in Seq(T) /\ Goto(f) /\ Len(f) = 2 /\ f[1] = a /\ f[2] = b
  BY <1>5, <1>9
<1>11. /\ sendqueue'[s] = Rest(sendqueue[s])
       /\ \A t \in Server : t # s => Same(t)
  <2>1. wire \in [Server -> Seq(Created)] /\ sendqueue \in [Server -> Seq(Created)]
    BY DEF TypeInv, ConnOK, SlotsOK
  <2> QED BY <1>2, <1>6, <2>1 DEF Same
<1>12. /\ Sends(s)' = sendqueue[s] /\ stack' # <<>> /\ top'.s = s
       /\ SendSlot(s)' = Null => sendqueue'[s] = <<>>
       /\ IsTail(sendqueue[s], ToRead(s)) /\ Len(sendqueue[s]) + 1 <= Len(ToRead(s))
       /\ Fresh => Len(wire[s]) + Len(sendqueue[s]) + 1 <= Len(ToRead(s))
       /\ sendreq[s] \in ToSet(ToRead(s)) /\ sendreq[s] \in Created
  <2>1. 1 \in 1 .. Len(f)
    BY <1>10
  <2> QED BY <1>1, <1>2, <1>3, <1>4, <1>6, <1>8, <1>10, <1>11, <2>1, SendNext DEF Owned
<1>13. Reads(s)' = ToRead(s)
  <2>1. Leaving(s)' <=> \E i \in 1 .. Len(f) : Leaves(f[i], s)'
    BY <1>2, <1>3, <1>10, LeavingAfter
  <2>2. \A i \in 1 .. Len(f) : f[i].pc \in {"slot", "xmit"}
    BY <1>7, <1>10
  <2>3. ~Leaving(s)'
    BY <2>1, <2>2 DEF Leaves
  <2> QED BY <1>6, <2>3 DEF Reads, ToRead
<1>14. Shape' /\ Plain'
  <2>1. Enters(a)
    BY <1>7, EntersPlainly DEF ScriptPcs, LoopPcs, RoundPcs
  <2>2. Enters(b) /\ Fits(a, b)
    BY <1>5, <1>6, <1>7 DEF Enters, Sound, Fits, ScriptPcs, LoopPcs, RoundPcs
  <2>3. Shape'
    BY <1>2, <1>3, <1>5, <1>6, <1>7, <2>1, <2>2, ShapeTwo DEF ScriptPcs, LoopPcs
  <2> QED BY <1>3, <1>6, <2>3, PlainSame
<1>15. OnlyAt(s)
  BY <1>1, <1>11, <1>12 DEF OnlyAt
<1>16. Fresh' = Fresh
  BY DEF Fresh, Persistent, Faults
<1>17. ServerInv(own, s)'
  <2>1. Fresh => Len(wire'[s]) + Len(sendqueue[s]) <= Len(ToRead(s))
    <3>1. wire \in [Server -> Seq(Created)] /\ wire[s] \in Seq(Created)
      BY <1>2 DEF TypeInv, ConnOK
    <3>2. /\ Len(wire[s]) \in Nat /\ Len(sendqueue[s]) \in Nat /\ Len(ToRead(s)) \in Nat
      BY <1>2, <3>1, SlotTypesOf, LenProperties DEF TypeInv, SlotsOK
    <3>3. Len(wire'[s]) = Len(wire[s]) \/ Len(wire'[s]) = Len(wire[s]) + 1
      <4>1. Len(Append(wire[s], sendreq[s])) = Len(wire[s]) + 1
        BY <1>12, <3>1, AppendProperties
      <4>2. wire'[s] = wire[s] \/ wire'[s] = Append(wire[s], sendreq[s])
        BY <1>2, <1>6, <3>1
      <4> QED BY <4>1, <4>2
    <3>4. PICK k, l, m, j : /\ k = Len(sendqueue[s]) /\ l = Len(ToRead(s)) /\ m = Len(wire[s])
                            /\ j = Len(wire'[s])
      OBVIOUS
    <3>5. Fresh => m + k + 1 <= l
      BY <1>12, <3>4
    <3>6. k \in Nat /\ l \in Nat /\ m \in Nat /\ (j = m \/ j = m + 1)
      BY <3>2, <3>3, <3>4
    <3>7. Fresh => j + k <= l
      BY <3>5, <3>6
    <3> QED BY <3>4, <3>7
  <2>2. Pipeline(own, s, ToSend(s), ToRead(s))
    BY <1>2, <1>4, <1>8, SendsAreRead DEF Owned
  <2>3. Pipeline(own, s, Sends(s), Reads(s))'
    BY <1>12, <1>13, <1>16, <2>1, <2>2 DEF Pipeline
  <2>4. Fresh => status[s] # "unknown" /\ IsOpen(s)
    BY <1>2, <1>8 DEF ServerInv, IdleAt
  <2>5. Fresh' => status'[s] # "unknown" /\ IsOpen(s)'
    BY <1>6, <1>16, <2>4 DEF IsOpen
  <2> QED BY <1>6, <1>8, <1>12, <2>3, <2>5 DEF ServerInv
<1>18. FramesInv(own)'
  <2>1. Undisturbed
    BY <1>2, <1>6 DEF Undisturbed
  <2>2. HeldBelow(own, own, n)
    BY DEF HeldBelow
  <2>3. FrameInv(own, b, n)'
    BY <1>7, EmptyHanded DEF HolderPcs
  <2>4. own[sendreq[s]] = OnServer(s)
    <3>1. Pipeline(own, s, ToSend(s), ToRead(s))
      BY <1>2, <1>4, <1>8, SendsAreRead DEF Owned
    <3> QED BY <1>12, <3>1 DEF Pipeline
  <2>5. FrameInv(own, a, n + 1)'
    BY <1>2, <1>6, <1>7, <2>4, Places DEF FrameInv, HeldBy
  <2> QED BY <1>1, <1>2, <1>3, <1>4, <1>5, <2>1, <2>2, <2>3, <2>5, FramesTwo DEF Owned
<1>19. FreeInv(own)'
  BY <1>4, <1>6, FreeKept DEF Owned
<1> QED BY <1>2, <1>4, <1>14, <1>15, <1>17, <1>18, <1>19, ServerOwned

(* The answered request was sent: the others are still to be answered. *)
LEMMA Answers ==
  ASSUME TypeInv, Steady, NEW s \in Server, readreq[s] # Null, sendreq[s] # readreq[s],
         NEW own, ServersInv(own)
  PROVE  /\ readreq[s] \in Created /\ own[readreq[s]] = OnServer(s)
         /\ readqueue[s] \in Seq(Created) /\ Distinct(readqueue[s])
         /\ \A x \in ToSet(readqueue[s]) : x # readreq[s] /\ x \in Created /\ own[x] = OnServer(s)
         /\ IsTail(ToSend(s), readqueue[s]) /\ Len(ToRead(s)) = Len(readqueue[s]) + 1
<1>1. PICK R, S, h, q : R = ToRead(s) /\ S = ToSend(s) /\ h = readreq[s] /\ q = readqueue[s]
  OBVIOUS
<1>2. q \in Seq(Created) /\ h \in Created /\ ToSet(q) \subseteq Created
  <2>1. q \in Seq(Created) /\ h \in Created
    BY <1>1 DEF TypeInv, SlotsOK
  <2> QED BY <2>1, ToSetElements
<1>3. R = <<h>> \o q
  BY <1>1 DEF ToRead, Slotted
<1>4. /\ R \in Seq(Created) /\ R # <<>> /\ Len(R) = Len(q) + 1 /\ Head(R) = h /\ Tail(R) = q
      /\ ToSet(R) = {h} \cup ToSet(q)
      /\ Distinct(R) => h \notin ToSet(q) /\ Distinct(q)
  BY <1>2, <1>3, ConsProperties
<1>5. S \in Seq(Created)
  BY <1>1, SlotTypesOf
<1>6. /\ Distinct(R) /\ \A x \in ToSet(R) : own[x] = OnServer(s)
      /\ IsTail(S, R)
  BY <1>1, SendsAreRead DEF Pipeline
<1>7. h \notin ToSet(S)
  <2>1. SUFFICES ASSUME h \in ToSet(S) PROVE FALSE
    OBVIOUS
  <2>2. S # <<>> /\ Head(S) = h
    BY <1>4, <1>5, <1>6, <2>1, TailWhole
  <2>3. sendreq[s] # Null
    <3>1. sendreq[s] = Null => sendqueue[s] = <<>>
      BY SteadyServers DEF AsSlotted, ServersInv, ServerInv
    <3> QED BY <1>1, <2>2, <3>1 DEF ToSend, Slotted
  <2>4. sendreq[s] \in Created /\ sendqueue[s] \in Seq(Created)
    BY <2>3 DEF TypeInv, SlotsOK
  <2>5. S = <<sendreq[s]>> \o sendqueue[s]
    BY <1>1, <2>3 DEF ToSend, Slotted
  <2>6. Head(S) = sendreq[s]
    BY <2>4, <2>5, ConsProperties
  <2> QED BY <1>1, <2>2, <2>6
<1>8. IsTail(S, q)
  BY <1>4, <1>5, <1>6, <1>7, TailAnswered
<1> QED BY <1>1, <1>2, <1>4, <1>6, <1>8

LEMMA ParseDoneOwns ==
  ASSUME TypeInv, TypeInv', OwnerInv, UNCHANGED config, ParseDone
  PROVE  OwnerInv'
<1>1. PICK s, r, n, b : s = top.s /\ r = readreq[s] /\ n = Len(stack) /\ b = top
  OBVIOUS
<1>2. /\ stack # <<>> /\ top.pc = "parse" /\ s \in Server /\ readreq[s] # Null
      /\ wire[s] # <<>> /\ sendreq[s] # readreq[s]
  BY <1>1, AtTop DEF ParseDone, Parsing, FrameOK, ServerPcs
<1>3. Shape /\ Plain
  BY OwnerParts
<1>4. PICK own : Owned(own)
  BY OwnerParts
<1>5. in_select /\ Goto(<<b>>)
  BY <1>1, <1>2, <1>3, InRound DEF ParseDone, RoundPcs
<1>6. /\ UNCHANGED <<status, sendreq, buildreq, sendqueue, in_select, pending, request>>
      /\ Created' = Created /\ Release(r)
      /\ readreq' = [readreq EXCEPT ![s] = Popped(readqueue[s], Null)]
      /\ readqueue' = [readqueue EXCEPT ![s] = Rest(@)]
      /\ wire' = [wire EXCEPT ![s] = Tail(@)]
  BY <1>1, <1>5, SameRequests DEF ParseDone, rounds
<1>7. b.pc = "parse"
  BY <1>1, <1>2
<1>8. Steady /\ ServerInv(own, s)
  BY <1>2, <1>3, <1>4, TopSteady DEF ShiftPcs, Owned, ServersInv
<1>9. PICK f, T : f = <<b>> /\ T = {b}
  OBVIOUS
<1>10. f \in Seq(T) /\ Goto(f) /\ Len(f) = 1 /\ f[1] = b
  BY <1>5, <1>9
<1>11. Steady'
  <2>1. \A i \in 1 .. Len(f) : f[i].pc \notin ShiftPcs
    BY <1>7, <1>10 DEF ShiftPcs
  <2> QED BY <1>2, <1>8, <1>10, <2>1, SteadyStep
<1>12. /\ readreq'[s] = Popped(readqueue[s], Null) /\ readqueue'[s] = Rest(readqueue[s])
       /\ wire'[s] = Tail(wire[s])
       /\ \A t \in Server : t # s => Same(t)
  <2>1. /\ wire \in [Server -> Seq(Created)] /\ readqueue \in [Server -> Seq(Created)]
        /\ readreq \in [Server -> Created \cup {Null}]
    BY DEF TypeInv, ConnOK, SlotsOK
  <2> QED BY <1>2, <1>6, <2>1 DEF Same
<1>13. /\ r \in Created /\ own[r] = OnServer(s)
       /\ readqueue[s] \in Seq(Created) /\ Distinct(readqueue[s])
       /\ \A x \in ToSet(readqueue[s]) : x # r /\ x \in Created /\ own[x] = OnServer(s)
       /\ IsTail(ToSend(s), readqueue[s]) /\ Len(ToRead(s)) = Len(readqueue[s]) + 1
  BY <1>1, <1>2, <1>4, <1>8, Answers DEF Owned
<1>14. PICK own2 : own2 = Given(own, {r}, OnFreeList)
  OBVIOUS
<1>15. own2[r] = OnFreeList /\ \A x \in Nat : x # r => own2[x] = own[x]
  BY <1>13, <1>14, CreatedNumbers DEF Given
<1>16. /\ Slotted(Popped(readqueue[s], Null), Rest(readqueue[s])) = readqueue[s]
       /\ Popped(readqueue[s], Null) = Null => Rest(readqueue[s]) = <<>>
  BY <1>13, SlottedNext
<1>17. Shape' /\ Plain'
  <2>1. Enters(b)
    BY <1>5, <1>6, <1>7 DEF Enters, Sound, ScriptPcs, LoopPcs, RoundPcs
  <2>2. Shape'
    BY <1>2, <1>3, <1>5, <1>6, <2>1, ShapeOne
  <2> QED BY <1>3, <1>6, <2>2, PlainSame
<1>18. OnlyAt(s)
  <2>1. stack' = <<>> \/ top'.pc \notin ShiftPcs
    <3>1. stack' # <<>> => 1 \in Positions' /\ top' = stack'[1]
      BY FirstElement DEF TypeInv, StackOK, top, Positions
    <3> QED BY <1>11, <3>1 DEF Steady
  <2> QED BY <1>1, <1>12, <2>1 DEF OnlyAt
<1>19. Fresh' = Fresh
  BY DEF Fresh, Persistent, Faults
<1>20. ServerInv(own2, s)'
  <2>1. /\ Sends(s)' = ToSend(s) /\ Reads(s)' = readqueue[s] /\ SendSlot(s)' = sendreq[s]
        /\ sendreq[s] = Null => sendqueue[s] = <<>>
    <3>1. AsSlotted /\ AsSlotted'
      <4>1. AsSlotted'
        BY <1>11, SteadyServers, PTL
      <4> QED BY <1>8, <4>1, SteadyServers
    <3> QED BY <1>2, <1>6, <1>8, <1>12, <1>16, <3>1 DEF AsSlotted, ToSend, ToRead, ServerInv
  <2>2. Fresh => Len(wire'[s]) + Len(ToSend(s)) <= Len(readqueue[s])
    <3>1. wire[s] \in Seq(Created)
      BY <1>2 DEF TypeInv, ConnOK
    <3>2. Len(wire[s]) \in Nat \ {0} /\ Len(wire'[s]) = Len(wire[s]) - 1
      BY <1>2, <1>12, <3>1, FirstElement
    <3>3. Len(ToSend(s)) \in Nat /\ Len(readqueue[s]) \in Nat
      BY <1>2, <1>13, SlotTypesOf, LenProperties
    <3>4. Fresh => Len(wire[s]) + Len(ToSend(s)) <= Len(ToRead(s))
      BY <1>2, <1>4, <1>8, SendsAreRead DEF Owned, Pipeline
    <3>5. PICK k, l, m, j : /\ k = Len(ToSend(s)) /\ l = Len(readqueue[s]) /\ m = Len(wire[s])
                            /\ j = Len(wire'[s])
      OBVIOUS
    <3>6. Fresh => m + k <= l + 1
      BY <1>13, <3>4, <3>5
    <3>7. k \in Nat /\ l \in Nat /\ m \in Nat /\ j = m - 1
      BY <3>2, <3>3, <3>5
    <3>8. Fresh => j + k <= l
      BY <3>6, <3>7
    <3> QED BY <3>5, <3>8
  <2>3. \A x \in ToSet(readqueue[s]) : own2[x] = OnServer(s)
    BY <1>13, <1>15, CreatedNumbers
  <2>4. Pipeline(own2, s, Sends(s), Reads(s))'
    BY <1>13, <1>19, <2>1, <2>2, <2>3 DEF Pipeline
  <2>5. Fresh => status[s] # "unknown" /\ IsOpen(s)
    BY <1>2, <1>8 DEF ServerInv, IdleAt
  <2>6. Fresh' => status'[s] # "unknown" /\ IsOpen(s)'
    BY <1>6, <1>19, <2>5 DEF IsOpen
  <2> QED BY <1>6, <1>8, <1>12, <1>16, <2>1, <2>4, <2>6 DEF ServerInv
<1>21. FramesInv(own2)'
  <2>1. Undisturbed
    BY <1>2, <1>6 DEF Undisturbed
  <2>2. HeldBelow(own, own2, n)
    BY <1>13, <1>15, CreatedNumbers, Places DEF HeldBelow
  <2>3. FrameInv(own2, b, n)'
    BY <1>7, EmptyHanded DEF HolderPcs
  <2> QED BY <1>1, <1>2, <1>3, <1>4, <1>5, <2>1, <2>2, <2>3, FramesOne DEF Owned
<1>22. FreeInv(own2)'
  BY <1>4, <1>6, <1>13, <1>14, Places, Released DEF Owned
<1>23. \A x \in Created, t \in Server : t # s /\ own[x] = OnServer(t) => own2[x] = OnServer(t)
  BY <1>13, <1>15, CreatedNumbers, Places
<1> QED BY <1>2, <1>4, <1>17, <1>18, <1>20, <1>21, <1>22, <1>23, ServerOwned

(* The server answers before it has the request: only where it may. *)
LEMMA AnswersEarly ==
  ASSUME TypeInv, Steady, NEW s \in Server, readreq[s] # Null, sendreq[s] = readreq[s],
         wire[s] # <<>>, NEW own, ServersInv(own)
  PROVE  /\ ~Fresh /\ readreq[s] \in Created /\ own[readreq[s]] = OnServer(s)
         /\ Distinct(readqueue[s]) /\ IsTail(sendqueue[s], readqueue[s])
         /\ \A x \in ToSet(readqueue[s]) : x # readreq[s] /\ x \in Created /\ own[x] = OnServer(s)
<1>1. PICK R, S, h, q, p : /\ R = ToRead(s) /\ S = ToSend(s) /\ h = readreq[s]
                           /\ q = readqueue[s] /\ p = sendqueue[s]
  OBVIOUS
<1>2. q \in Seq(Created) /\ p \in Seq(Created) /\ h \in Created /\ ToSet(q) \subseteq Created
  <2>1. q \in Seq(Created) /\ p \in Seq(Created) /\ h \in Created
    BY <1>1 DEF TypeInv, SlotsOK
  <2> QED BY <2>1, ToSetElements
<1>3. R = <<h>> \o q /\ S = <<h>> \o p
  BY <1>1 DEF ToRead, ToSend, Slotted
<1>4. /\ R \in Seq(Created) /\ R # <<>> /\ Head(R) = h
      /\ ToSet(R) = {h} \cup ToSet(q)
      /\ Distinct(R) => h \notin ToSet(q) /\ Distinct(q)
  BY <1>2, <1>3, ConsProperties
<1>5. S \in Seq(Created) /\ h \in ToSet(S)
  BY <1>2, <1>3, ConsProperties
<1>6. /\ Distinct(R) /\ \A x \in ToSet(R) : own[x] = OnServer(s)
      /\ IsTail(S, R) /\ (Fresh => Len(wire[s]) + Len(S) <= Len(R))
  BY <1>1, SendsAreRead DEF Pipeline
<1>7. ~Fresh
  <2>1. Len(S) = Len(R)
    BY <1>4, <1>5, <1>6, TailWhole
  <2>2. Len(wire[s]) \in Nat \ {0} /\ Len(S) \in Nat
    BY <1>5, FirstElement, LenProperties DEF TypeInv, ConnOK
  <2>3. PICK k, m : k = Len(S) /\ m = Len(wire[s])
    OBVIOUS
  <2>4. Fresh => m + k <= k
    BY <1>6, <2>1, <2>3
  <2>5. k \in Nat /\ m \in Nat \ {0}
    BY <2>2, <2>3
  <2> QED BY <2>4, <2>5
<1>8. IsTail(p, q)
  <2>1. IsTail(Without(S, h), Without(R, h))
    BY <1>4, <1>5, <1>6, TailWithout
  <2>2. Without(S, h) = p /\ Without(R, h) = q
    BY <1>2, <1>3, ConsWithout
  <2> QED BY <2>1, <2>2
<1> QED BY <1>1, <1>2, <1>4, <1>6, <1>7, <1>8

(* The frames of mmc_pool_switch that give up the stream. *)
LEMMA EarlyFrames ==
  ASSUME NEW s, NEW x, NEW b, b.pc = "parse",
         Goto(<<Frame("slot", s, x), Frame("unqueue", s, Null), Frame("early", s, Null), b>>)
  PROVE  \E T : \E f \in Seq(T) :
           /\ Goto(f) /\ Len(f) = 4 /\ f[1] = Frame("slot", s, x) /\ f[4] = b
           /\ f[1].pc = "slot" /\ f[2].pc = "unqueue" /\ f[3].pc = "early"
           /\ f[1].s = s /\ f[2].s = s /\ f[3].s = s
<1>1. PICK a, u, e : /\ a = Frame("slot", s, x) /\ u = Frame("unqueue", s, Null)
                     /\ e = Frame("early", s, Null)
  OBVIOUS
<1>2. PICK f, T : f = <<a, u, e, b>> /\ T = {a, u, e, b}
  OBVIOUS
<1>3. f \in Seq(T) /\ Len(f) = 4 /\ f[1] = a /\ f[2] = u /\ f[3] = e /\ f[4] = b
  BY <1>2
<1>4. Goto(f)
  BY <1>1, <1>2
<1>5. /\ a.pc = "slot" /\ u.pc = "unqueue" /\ e.pc = "early"
      /\ a.s = s /\ u.s = s /\ e.s = s
  BY <1>1 DEF Frame, FrameOf
<1> QED BY <1>1, <1>3, <1>4, <1>5

LEMMA ParseEarlyOwns ==
  ASSUME TypeInv, TypeInv', OwnerInv, UNCHANGED config, ParseEarly
  PROVE  OwnerInv'
<1>1. PICK s, r, n, b, x : /\ s = top.s /\ r = readreq[s] /\ n = Len(stack) /\ b = top
                           /\ x = Popped(sendqueue[s], Null)
  OBVIOUS
<1>2. /\ stack # <<>> /\ top.pc = "parse" /\ s \in Server /\ readreq[s] # Null /\ n \in Nat
      /\ wire[s] # <<>> /\ sendreq[s] = readreq[s]
  BY <1>1, AtTop, LenProperties DEF ParseEarly, Parsing, FrameOK, ServerPcs, TypeInv, StackOK
<1>3. Shape /\ Plain
  BY OwnerParts
<1>4. PICK own : Owned(own)
  BY OwnerParts
<1>5. /\ in_select
      /\ Goto(<<Frame("slot", s, x), Frame("unqueue", s, Null), Frame("early", s, Null), b>>)
  BY <1>1, <1>2, <1>3, InRound DEF ParseEarly, RoundPcs
<1>6. /\ UNCHANGED <<sendreq, readreq, buildreq, readqueue, in_select, pending, reqs>>
      /\ sendqueue' = [sendqueue EXCEPT ![s] = Rest(@)]
      /\ status' = [status EXCEPT ![s] = "disconnected"] /\ Hangup(s)
  BY <1>1, <1>5 DEF ParseEarly, rounds
<1>7. UNCHANGED <<request, free_requests>> /\ Created' = Created
  BY <1>6, SameRequests DEF reqs
<1>8. PICK T : \E f \in Seq(T) :
        /\ Goto(f) /\ Len(f) = 4 /\ f[1] = Frame("slot", s, x) /\ f[4] = b
        /\ f[1].pc = "slot" /\ f[2].pc = "unqueue" /\ f[3].pc = "early"
        /\ f[1].s = s /\ f[2].s = s /\ f[3].s = s
  BY <1>1, <1>2, <1>5, EarlyFrames
<1>9. PICK f \in Seq(T) :
        /\ Goto(f) /\ Len(f) = 4 /\ f[1] = Frame("slot", s, x) /\ f[4] = b
        /\ f[1].pc = "slot" /\ f[2].pc = "unqueue" /\ f[3].pc = "early"
        /\ f[1].s = s /\ f[2].s = s /\ f[3].s = s
  BY <1>8
<1>10. Goto(f) /\ b.pc = "parse" /\ f[4].pc = "parse"
  BY <1>1, <1>2, <1>9
<1>11. \A i \in 1 .. Len(f) : i = 1 \/ i = 2 \/ i = 3 \/ i = 4
  BY <1>9
<1>12. Steady /\ ServerInv(own, s)
  BY <1>2, <1>3, <1>4, TopSteady DEF ShiftPcs, Owned, ServersInv
<1>13. /\ ~Fresh /\ r \in Created /\ own[r] = OnServer(s)
       /\ Distinct(readqueue[s]) /\ IsTail(sendqueue[s], readqueue[s])
       /\ \A y \in ToSet(readqueue[s]) : y # r /\ y \in Created /\ own[y] = OnServer(s)
  BY <1>1, <1>2, <1>4, <1>12, AnswersEarly DEF Owned
<1>14. PICK own2 : own2 = Given(own, {r}, InFrame(n + 1))
  OBVIOUS
<1>15. own2[r] = InFrame(n + 1) /\ \A y \in Nat : y # r => own2[y] = own[y]
  BY <1>13, <1>14, CreatedNumbers DEF Given
<1>16. /\ sendqueue'[s] = Rest(sendqueue[s])
       /\ \A t \in Server : t # s => Same(t)
  BY <1>2, <1>6 DEF Same, Hangup, TypeInv, SlotsOK, ConnOK
<1>17. /\ Sends(s)' = sendqueue[s] /\ stack' # <<>> /\ top'.s = s
       /\ SendSlot(s)' = Null => sendqueue'[s] = <<>>
  <2>1. 1 \in 1 .. Len(f)
    BY <1>9
  <2>2. f[1] = Frame("slot", s, Popped(sendqueue[s], Null))
    BY <1>1, <1>9
  <2>3. sendreq[s] # Null /\ Goto(f)
    BY <1>2, <1>10
  <2> QED BY <1>2, <1>3, <1>4, <1>6, <1>12, <1>16, <2>1, <2>2, <2>3, SendNext DEF Owned
<1>18. Reads(s)' = readqueue[s]
  <2>1. Leaving(s)' <=> \E i \in 1 .. Len(f) : Leaves(f[i], s)'
    BY <1>2, <1>3, <1>10, LeavingAfter
  <2>2. 3 \in 1 .. Len(f) /\ Leaves(f[3], s)'
    BY <1>9 DEF Leaves
  <2> QED BY <1>6, <2>1, <2>2 DEF Reads
<1>19. Shape' /\ Plain'
  <2>1. \A i \in 1 .. Len(f) : Sound(f[i])' /\ (f[i].pc = "unslot" => i <= 2)
    BY <1>5, <1>6, <1>9, <1>10, <1>11 DEF Sound, RoundPcs
  <2>2. \A i \in 1 .. Len(f) : f[i].pc \notin ScriptPcs \cup LoopPcs
    BY <1>9, <1>10, <1>11 DEF ScriptPcs, LoopPcs
  <2>3. ASSUME NEW i \in 1 .. Len(f) - 1 PROVE Fits(f[i], f[i + 1])
    <3>1. (i = 1 /\ i + 1 = 2) \/ (i = 2 /\ i + 1 = 3) \/ (i = 3 /\ i + 1 = 4)
      BY <1>9
    <3> QED BY <1>9, <1>10, <3>1 DEF Fits
  <2>4. Shape'
    BY <1>2, <1>3, <1>5, <1>6, <1>10, <2>1, <2>2, <2>3, ShapeStep
  <2> QED BY <1>3, <1>6, <1>7, <2>4, PlainSame
<1>20. OnlyAt(s)
  BY <1>1, <1>16, <1>17 DEF OnlyAt
<1>21. ~Fresh'
  BY <1>13 DEF Fresh, Persistent, Faults
<1>22. ServerInv(own2, s)'
  <2>1. \A y \in ToSet(readqueue[s]) : own2[y] = OnServer(s)
    BY <1>13, <1>15, CreatedNumbers
  <2>2. Pipeline(own2, s, Sends(s), Reads(s))'
    BY <1>13, <1>17, <1>18, <1>21, <2>1 DEF Pipeline
  <2> QED BY <1>6, <1>12, <1>17, <1>21, <2>2 DEF ServerInv
<1>23. FramesInv(own2)'
  <2>1. Undisturbed
    BY <1>2, <1>7 DEF Undisturbed
  <2>2. HeldBelow(own, own2, n)
    BY <1>13, <1>15, CreatedNumbers, Places DEF HeldBelow
  <2>3. ASSUME NEW i \in 1 .. Len(f), NEW g, g = f[i], NEW h, h = n + Len(f) - i
        PROVE  FrameInv(own2, g, h)'
    <3>1. readreq'[s] = r /\ sendreq'[s] = r /\ r # Null
      BY <1>1, <1>2, <1>6
    <3>2. CASE i = 1
      BY <1>9, <1>15, <1>21, <2>3, <3>1, <3>2, Places DEF FrameInv, HeldBy
    <3>3. CASE i = 2
      BY <1>9, <1>21, <2>3, <3>3 DEF FrameInv, HeldBy
    <3>4. CASE i = 3
      <4>1. h = n + 1
        BY <1>2, <1>9, <2>3, <3>4
      <4> QED BY <1>9, <1>15, <1>21, <2>3, <3>1, <3>4, <4>1 DEF FrameInv, HeldBy
    <3>5. CASE i = 4
      BY <1>10, <2>3, <3>5, EmptyHanded DEF HolderPcs
    <3> QED BY <1>11, <3>2, <3>3, <3>4, <3>5
  <2>4. Hold(own2, f, n)
    BY <2>3 DEF Hold
  <2> QED BY <1>1, <1>2, <1>3, <1>4, <1>10, <2>1, <2>2, <2>4, FramesStep DEF Owned
<1>24. FreeInv(own2)'
  <2>1. \A y \in Created : own[y] = OnFreeList => own2[y] = OnFreeList
    BY <1>13, <1>15, CreatedNumbers, Places
  <2> QED BY <1>4, <1>7, <2>1, FreeKept DEF Owned
<1>25. \A y \in Created, t \in Server : t # s /\ own[y] = OnServer(t) => own2[y] = OnServer(t)
  BY <1>13, <1>15, CreatedNumbers, Places
<1> QED BY <1>2, <1>4, <1>19, <1>20, <1>22, <1>23, <1>24, <1>25, ServerOwned

----------------------------------------------------------------------------
(* The calls of the script, the network and the clock. *)

(* No step of a multi-get or of a failure callback is taken, and none of a *)
(* connection that is refused while the next request is slotted on it.     *)
LEMMA NeverTaken ==
  ASSUME TypeInv, OwnerInv,
         \/ HelpRound \/ LeaveCallback \/ Get \/ GetFull \/ Rebuild \/ GetEnd \/ Built
         \/ RunPending \/ ParseValue \/ SlotSendRefused
  PROVE  FALSE
<1>1. Shape /\ Plain /\ Covered
  BY OwnerParts
<1>2. CASE HelpRound
  BY <1>1, <1>2, NoHelp DEF HelpRound
<1>3. CASE LeaveCallback \/ Get \/ GetFull \/ Rebuild \/ GetEnd \/ Built
  <2>1. stack # <<>> /\ top.pc \in {"get", "rebuild", "built", "callback"}
    BY <1>3 DEF LeaveCallback, Get, GetFull, Rebuild, GetEnd, Built, At, top
  <2>2. 1 \in Positions /\ top = stack[1]
    BY <2>1, FirstElement DEF TypeInv, StackOK, top, Positions
  <2> QED BY <1>1, <2>1, <2>2 DEF Shape, Sound
<1>4. CASE RunPending
  BY <1>1, <1>4 DEF RunPending, Plain
<1>5. CASE ParseValue
  <2>1. PICK s : s = top.s
    OBVIOUS
  <2>2. At("parse") /\ wire[s] # <<>> /\ request[Head(wire[s])].kind = "multi"
    BY <1>5, <2>1 DEF ParseValue, Parsing
  <2>3. s \in Server
    BY <2>1, <2>2, AtTop DEF FrameOK, ServerPcs
  <2>4. Head(wire[s]) \in Created
    BY <2>2, <2>3, FirstElement DEF TypeInv, ConnOK
  <2> QED BY <1>1, <2>2, <2>4 DEF Plain
<1>6. CASE SlotSendRefused
  <2>1. PICK s, n : s = top.s /\ n = Len(stack)
    OBVIOUS
  <2>2. stack # <<>> /\ top.pc = "slot" /\ s \in Server /\ Refused(s)
    BY <1>6, <2>1, AtTop DEF SlotSendRefused, FrameOK, ServerPcs
  <2>3. PICK own : Owned(own)
    BY OwnerParts
  <2>4. sendreq[s] # Null /\ ServerInv(own, s)
    BY <2>1, <2>2, <2>3, TopFrame DEF FrameInv, Owned, ServersInv
  <2>5. ~Reachable /\ ~IsOpen(s)
    BY <2>2 DEF Refused, Fault, Reachable
  <2>6. IdleAt(s)
    BY <1>1, <2>4, <2>5 DEF Covered, ServerInv
  <2> QED BY <2>4, <2>6 DEF IdleAt
<1> QED BY <1>2, <1>3, <1>4, <1>5, <1>6

(* The code does not move. *)
LEMMA StackKept ==
  ASSUME TypeInv, TypeInv', OwnerInv,
         UNCHANGED <<config, stack, Slots, buildreq, request, free_requests, pending, in_select>>,
         \A s \in Server : Worn(s)
  PROVE  OwnerInv'
<1>1. Shape /\ Plain
  BY OwnerParts
<1>2. PICK own : Owned(own)
  BY OwnerParts
<1>3. /\ Created' = Created /\ Positions' = Positions
      /\ Fresh' = Fresh /\ Reachable' = Reachable
      /\ UNCHANGED <<sendreq, readreq, sendqueue, readqueue>>
  BY SameRequests DEF Positions, Fresh, Reachable, Persistent, Faults, Dead, Slots
<1>4. ASSUME NEW s
      PROVE  /\ SendSlot(s)' = SendSlot(s) /\ Sends(s)' = Sends(s) /\ Reads(s)' = Reads(s)
             /\ IdleAt(s)' = IdleAt(s)
  <2>1. Slotting(s)' = Slotting(s)
    BY DEF Slotting, At, top
  <2>2. SendSlot(s)' = SendSlot(s)
    BY <1>3, <2>1 DEF SendSlot, top
  <2>3. Leaving(s)' = Leaving(s)
    BY <1>3 DEF Leaving, Leaves
  <2> QED BY <1>3, <2>2, <2>3 DEF Sends, Reads, ToRead, IdleAt
<1>5. ServersInv(own)'
  <2> SUFFICES ASSUME NEW s \in Server PROVE ServerInv(own, s)'
    BY DEF ServersInv
  <2>1. ServerInv(own, s) /\ Worn(s)
    BY <1>2 DEF Owned, ServersInv
  <2>2. Len(wire[s]) \in Nat /\ Len(wire'[s]) \in Nat
    BY LenProperties DEF TypeInv, ConnOK
  <2>3. Len(Reads(s)) \in Nat /\ Len(Sends(s)) \in Nat
    <3>1. readqueue[s] \in Seq(Created) /\ sendqueue[s] \in Seq(Created)
      BY DEF TypeInv, SlotsOK
    <3>2. Reads(s) \in Seq(Created)
      BY <3>1, SlotTypesOf DEF Reads
    <3>3. Sends(s) \in Seq(Created)
      <4>1. SendSlot(s) \in Created \cup {Null}
        <5>1. CASE Slotting(s)
          <6>1. stack # <<>> /\ FrameOK(top, Created)
            BY <5>1, AtTop DEF Slotting, At
          <6> QED BY <5>1, <6>1 DEF SendSlot, FrameOK
        <5>2. CASE ~Slotting(s)
          BY <5>2 DEF SendSlot, TypeInv, SlotsOK
        <5> QED BY <5>1, <5>2
      <4> QED BY <3>1, <4>1, ConsProperties DEF Sends, Slotted
    <3> QED BY <3>2, <3>3, LenProperties
  <2>4. Pipeline(own, s, Sends(s), Reads(s))'
    <3>1. PICK k, l, m, j : k = Len(Sends(s)) /\ l = Len(Reads(s)) /\ m = Len(wire[s]) /\ j = Len(wire'[s])
      OBVIOUS
    <3>2. k \in Nat /\ l \in Nat /\ m \in Nat /\ j \in Nat
      BY <2>2, <2>3, <3>1
    <3>3. Fresh => m + k <= l /\ j <= m
      BY <2>1, <3>1 DEF ServerInv, Pipeline, Worn
    <3>4. Fresh => j + k <= l
      BY <3>2, <3>3
    <3> QED BY <1>3, <1>4, <2>1, <3>1, <3>4 DEF ServerInv, Pipeline
  <2>5. Fresh => status'[s] # "unknown" /\ (~IsOpen(s)' => IdleAt(s))
    BY <2>1 DEF ServerInv, Worn, IsOpen
  <2> QED BY <1>3, <1>4, <2>1, <2>4, <2>5 DEF ServerInv
<1>6. FramesInv(own)'
  <2> SUFFICES ASSUME NEW i \in Positions
               PROVE  FrameInv(own, stack[i], Len(stack) + 1 - i)'
    BY <1>3 DEF FramesInv
  <2>1. FrameInv(own, stack[i], Len(stack) + 1 - i)
    BY <1>2 DEF Owned, FramesInv
  <2> QED BY <1>3, <1>4, <2>1 DEF FrameInv, HeldBy
<1>7. FreeInv(own)'
  BY <1>2 DEF Owned, FreeInv
<1>8. Shape' /\ Plain'
  BY <1>1, <1>3, PlainSame DEF Shape, Sound
<1>9. Owned(own)'
  BY <1>5, <1>6, <1>7 DEF Owned
<1> QED BY <1>8, <1>9, OwnerKept

LEMMA NetworkOwns ==
  ASSUME TypeInv, TypeInv', OwnerInv, UNCHANGED config, NEW s \in Server,
         PeerClose(s) \/ PeerEarly(s) \/ Tick(s)
  PROVE  OwnerInv'
<1>1. UNCHANGED <<stack, Slots, buildreq, request, free_requests, pending, in_select>>
  BY DEF PeerClose, PeerEarly, Tick, slots, rounds, reqs, Slots
<1>2. ASSUME NEW t \in Server PROVE Worn(t)
  <2>1. CASE PeerClose(s)
    <3>1. PICK n \in 0 .. Len(wire[s]) : wire' = [wire EXCEPT ![s] = SubSeq(@, 1, n)]
      BY <2>1 DEF PeerClose
    <3>2. wire[s] \in Seq(Created) /\ Len(wire[s]) \in Nat /\ wire \in [Server -> Seq(Created)]
      BY LenProperties DEF TypeInv, ConnOK
    <3>3. Len(SubSeq(wire[s], 1, n)) = n
      <4>1. n \in Nat /\ \A i \in 1 .. n : i \in 1 .. Len(wire[s])
        BY <3>1, <3>2
      <4>2. Len(SubSeq(wire[s], 1, n)) = IF 1 <= n THEN n - 1 + 1 ELSE 0
        BY <3>2, <4>1, SubSeqProperties
      <4> QED BY <4>1, <4>2
    <3>4. Len(wire'[t]) <= Len(wire[t])
      <4>1. Len(wire[t]) \in Nat
        BY <3>2, LenProperties
      <4> QED BY <3>1, <3>2, <3>3, <4>1
    <3> QED BY <2>1, <3>4 DEF PeerClose, Worn
  <2>2. CASE PeerEarly(s)
    BY <2>2 DEF PeerEarly, Fault, Fresh, Worn
  <2>3. CASE Tick(s)
    <3>1. Len(wire[t]) \in Nat
      BY LenProperties DEF TypeInv, ConnOK
    <3> QED BY <2>3, <3>1 DEF Tick, Worn, TypeInv, ConnOK
  <2> QED BY <2>1, <2>2, <2>3
<1> QED BY <1>1, <1>2, StackKept

(* A call of the script is made when no other one runs. *)
LEMMA CallFrame ==
  ASSUME TypeInv, Covered, Shape, NEW c \in Calls, Call(c)
  PROVE  stack = <<>> /\ \E x : stack' = <<x>> /\ x.pc \in {"store", "flush", "ask"}
<1>1. Covered /\ Shape
  OBVIOUS
<1>2. stack = <<>>
  <2>1. SUFFICES ASSUME At("callback") PROVE FALSE
    BY DEF Call, Script
  <2>2. Len(stack) \in Nat \ {0} /\ top = stack[1]
    BY <2>1, FirstElement DEF TypeInv, StackOK, top, At
  <2>3. 1 \in Positions /\ top.pc = "callback"
    BY <2>1, <2>2 DEF Positions, At, top
  <2> QED BY <1>1, <2>2, <2>3 DEF Shape, Sound
<1>3. \E x : stack' = <<x>> /\ x.pc \in {"store", "flush", "ask"}
  <2>1. c.op \in {"set", "setMulti", "get", "getMulti", "flush", "version", "stats"}
    BY ConfigType DEF TypeInv, RestOK
  <2>2. c.op # "getMulti"
    BY <1>1 DEF Covered, Single
  <2>3. \E x : stack' = <<x>> \o stack /\ x.pc \in {"store", "flush", "ask"}
    <3>1. CASE c.op \in {"set", "setMulti", "get"}
      <4>1. PICK i, w : stack' = <<FrameOf("store", NoServer, Null, c.keys, w, i)>> \o stack
        BY <3>1 DEF Call
      <4>2. FrameOf("store", NoServer, Null, c.keys, w, i).pc = "store"
        BY DEF FrameOf
      <4> QED BY <4>1, <4>2
    <3>2. CASE c.op = "flush"
      <4>1. stack' = <<Each("flush", Null, Servers)>> \o stack
        BY <3>2 DEF Call
      <4>2. Each("flush", Null, Servers).pc = "flush"
        BY DEF Each, FrameOf
      <4> QED BY <4>1, <4>2
    <3>3. CASE c.op \in {"version", "stats"}
      <4>1. PICK w : stack' = <<FrameOf("ask", NoServer, Null, Servers, w, 0)>> \o stack
        BY <3>3 DEF Call
      <4>2. FrameOf("ask", NoServer, Null, Servers, w, 0).pc = "ask"
        BY DEF FrameOf
      <4> QED BY <4>1, <4>2
    <3> QED BY <2>1, <2>2, <3>1, <3>2, <3>3
  <2>4. PICK x : stack' = <<x>> \o stack /\ x.pc \in {"store", "flush", "ask"}
    BY <2>3
  <2>5. <<x>> \o <<>> = <<x>>
    <3>1. <<x>> \in Seq({x})
      OBVIOUS
    <3> QED BY <3>1, ConcatEmptySeq
  <2> QED BY <1>2, <2>4, <2>5
<1> QED BY <1>2, <1>3

(* The script calls the extension. *)
LEMMA CallOwns ==
  ASSUME TypeInv, TypeInv', OwnerInv, UNCHANGED config, NEW c \in Calls, Call(c)
  PROVE  OwnerInv'
<1>1. Covered /\ Shape /\ Plain
  BY OwnerParts
<1>2. PICK own : Owned(own)
  BY OwnerParts
<1>3. stack = <<>> /\ \E x : stack' = <<x>> /\ x.pc \in {"store", "flush", "ask"}
  BY <1>1, CallFrame
<1>4. PICK x : stack' = <<x>> /\ x.pc \in {"store", "flush", "ask"}
  BY <1>3
<1>5. /\ Len(stack') = 1 /\ stack'[1] = x /\ Positions' = {1} /\ Positions = {}
  BY <1>3, <1>4 DEF Positions
<1>6. UNCHANGED <<conn, slots, reqs, in_select, pending>>
  BY DEF Call, rounds
<1>7. ~in_select
  BY <1>1, <1>5 DEF Shape
<1>8. Sound(x)' /\ x.pc \notin ShiftPcs \cup HolderPcs \cup {"unslot"}
  BY <1>4 DEF Sound, RoundPcs, ShiftPcs, HolderPcs
<1>9. Shape'
  BY <1>5, <1>6, <1>7, <1>8 DEF Shape
<1>10. Plain'
  BY <1>1, <1>6, PlainSame DEF reqs
<1>11. Steady /\ Steady'
  BY <1>5, <1>8 DEF Steady
<1>12. FramesInv(own)'
  BY <1>5, <1>8, EmptyHanded DEF FramesInv
<1>13. Owned(own)'
  BY <1>2, <1>6, <1>11, <1>12, Untouched, CalmStep
<1> QED BY <1>9, <1>10, <1>13, OwnerKept

LEMMA OwnerInit == Init /\ Covered => OwnerInv
<1> SUFFICES ASSUME Init, Covered PROVE OwnerInv
  OBVIOUS
<1>1. TypeInv
  BY InitTypes
<1>2. Positions = {} /\ Created = {}
  BY DEF Init, Positions, Created
<1>3. Shape /\ Plain /\ Steady
  BY <1>2 DEF Init, Shape, Plain, Steady
<1>4. PICK own : own = [r \in Created |-> OnFreeList]
  OBVIOUS
<1>5. FramesInv(own)
  BY <1>2 DEF FramesInv
<1>6. FreeInv(own)
  BY DEF Init, FreeInv, Distinct, ToSet
<1>7. ASSUME NEW s \in Server PROVE ServerInv(own, s)
  <2>1. /\ sendreq[s] = Null /\ readreq[s] = Null /\ buildreq[s] = Null
        /\ sendqueue[s] = <<>> /\ readqueue[s] = <<>> /\ wire[s] = <<>>
    BY DEF Init
  <2>2. /\ Sends(s) = <<>> /\ Reads(s) = <<>> /\ SendSlot(s) = Null
    BY <1>1, <1>3, <2>1, SteadyServers DEF AsSlotted, ToSend, ToRead, Slotted
  <2>3. Pipeline(own, s, Sends(s), Reads(s))
    <3>1. Distinct(<<>>) /\ ToSet(<<>>) = {}
      BY DEF Distinct, ToSet
    <3>2. IsTail(<<>>, <<>>)
      BY DEF IsTail
    <3> QED BY <2>1, <2>2, <3>1, <3>2 DEF Pipeline
  <2>4. Fresh => status[s] # "unknown"
    BY DEF Init, Fresh
  <2>5. IdleAt(s)
    BY <2>1 DEF IdleAt, ToSend, ToRead, Slotted
  <2> QED BY <2>1, <2>2, <2>3, <2>4, <2>5 DEF ServerInv
<1>8. Owned(own)
  BY <1>5, <1>6, <1>7 DEF Owned, ServersInv
<1> QED BY <1>3, <1>8 DEF OwnerInv

(* Nothing of a multi-get runs, no round helps another one, and no         *)
(* connection is refused when the slots are shifted.                       *)
LEMMA ProcessOwns ==
  ASSUME TypeInv, TypeInv', OwnerInv, UNCHANGED config, Process
  PROVE  OwnerInv'
<1>1. CASE ScheduleInvalid \/ Schedule \/ ScheduleRefused \/ SlotSend \/ Unslot
  BY <1>1, PassesOn, ScheduleOwns, ScheduleRefusedOwns, SlotSendOwns, UnslotOwns, Zenon
<1>2. CASE Deactivate \/ Drain \/ GiveUp \/ FailOver \/ FindNext
  BY <1>2, DeactivateOwns, DrainOwns, GiveUpOwns, PassesOn, FindNextOwns, Zenon
<1>3. CASE Retry \/ Unqueue \/ RetryRead \/ EarlyDone
  BY <1>3, RetryOwns, UnqueueOwns, RetryReadOwns, EarlyDoneOwns, Zenon
<1>4. CASE Ready \/ Expire \/ SelectError \/ LateSend \/ LateRead \/ Late
  BY <1>4, SelectOwns, TimeoutOwns, LateOwns, Zenon
<1>5. CASE SendLoop \/ SendDone \/ SendMore \/ SendError \/ Unread \/ SendEnd
  BY <1>5, LoopsOwn, SendDoneOwns, MoreOwns, SendErrorOwns, LeavesOwn, Zenon
<1>6. CASE \/ ReadLoop \/ ParseDone \/ ParseEarly \/ ParseError \/ ParseMore
           \/ ParseEof \/ ParseEnd
  BY <1>6, LoopsOwn, ParseDoneOwns, ParseEarlyOwns, ParseFailsOwns, MoreOwns, LeavesOwn, Zenon
<1>7. CASE RunRounds \/ Stored \/ Flushed \/ Asked
  BY <1>7, ScriptOwns, Zenon
<1>8. CASE Store \/ Flush \/ Ask
  <2>1. CASE top.q = <<>>
    BY <1>8, <2>1, ScriptOwns, Zenon
  <2>2. CASE top.q # <<>>
    BY <1>8, <2>2, StoreOwns, Zenon
  <2> QED BY <2>1, <2>2
<1>9. CASE CloneKey
  BY <1>9, CloneOwns
<1>10. CASE \/ HelpRound \/ LeaveCallback \/ Get \/ GetFull \/ Rebuild \/ GetEnd \/ Built
            \/ RunPending \/ ParseValue \/ SlotSendRefused
  BY <1>10, NeverTaken, Zenon
<1> QED BY <1>1, <1>2, <1>3, <1>4, <1>5, <1>6, <1>7, <1>8, <1>9, <1>10, Zenon DEF Process

LEMMA OwnerNext == TypeInv /\ OwnerInv /\ [Next]_vars => OwnerInv'
<1> SUFFICES ASSUME TypeInv, OwnerInv, [Next]_vars PROVE OwnerInv'
  OBVIOUS
<1>1. TypeInv'
  BY NextTypes
<1>2. CASE Next
  <2>1. UNCHANGED config
    BY <1>2, Zenon DEF Next, Step
  <2>2. CASE Process
    BY <1>1, <2>1, <2>2, ProcessOwns
  <2>3. CASE \E c \in Calls : Call(c)
    BY <1>1, <2>1, <2>3, CallOwns
  <2>4. CASE \E s \in Server : PeerClose(s) \/ PeerEarly(s) \/ Tick(s)
    BY <1>1, <2>1, <2>4, NetworkOwns
  <2> QED BY <1>2, <2>2, <2>3, <2>4, Zenon DEF Next, Step
<1>3. CASE UNCHANGED vars
  <2>1. /\ UNCHANGED <<config, stack, Slots, buildreq, request, free_requests, pending, in_select>>
        /\ UNCHANGED <<status, wire>>
    BY <1>3 DEF vars, conn, slots, rounds, reqs, Slots
  <2>2. ASSUME NEW s \in Server PROVE Worn(s)
    <3>1. Len(wire[s]) \in Nat
      BY LenProperties DEF TypeInv, ConnOK
    <3> QED BY <2>1, <3>1 DEF Worn
  <2> QED BY <1>1, <2>1, <2>2, StackKept
<1> QED BY <1>2, <1>3

(* The configuration never changes, so that the invariant holds throughout *)
(* in the configurations it is about.                                      *)
LEMMA CoveredNext == [Next]_vars => (Covered' <=> Covered)
<1> SUFFICES ASSUME [Next]_vars PROVE Covered' <=> Covered
  OBVIOUS
<1>1. UNCHANGED config
  <2>1. CASE Next
    BY <2>1, Zenon DEF Next, Step
  <2>2. CASE UNCHANGED vars
    BY <2>2 DEF vars
  <2> QED BY <2>1, <2>2
<1> QED BY <1>1 DEF Covered, Single, Reachable, Fresh, Calls, Faults, Dead, Persistent, Reentrant

LEMMA OwnerAlways == Spec => [](TypeInv /\ (Covered => OwnerInv))
<1>1. Init => TypeInv /\ (Covered => OwnerInv)
  BY InitTypes, OwnerInit
<1>2. TypeInv /\ (Covered => OwnerInv) /\ [Next]_vars => TypeInv' /\ (Covered' => OwnerInv')
  BY NextTypes, OwnerNext, CoveredNext
<1> QED BY <1>1, <1>2, PTL DEF Spec

----------------------------------------------------------------------------
(* What follows for every state.                                           *)

(* A request in the queues a server is read from belongs to the server, or *)
(* to the handler that takes it from there.                                *)
Belongs(own, r, s) ==
  \/ own[r] = OnServer(s)
  \/ \E i \in Positions : Leaves(stack[i], s) /\ own[r] = InFrame(Len(stack) + 1 - i)

LEMMA ReadBelongs ==
  ASSUME TypeInv, NEW own, Owned(own), NEW s \in Server, NEW r \in ToSet(ToRead(s))
  PROVE  Belongs(own, r, s)
<1>1. ServerInv(own, s)
  BY DEF Owned, ServersInv
<1>2. CASE r \in ToSet(Reads(s))
  BY <1>1, <1>2 DEF ServerInv, Pipeline, Belongs
<1>3. CASE r \notin ToSet(Reads(s))
  <2>1. Leaving(s) /\ r \notin ToSet(readqueue[s])
    BY <1>3 DEF Reads
  <2>2. readqueue[s] \in Seq(Created) /\ readreq[s] \in Created \cup {Null}
    BY DEF TypeInv, SlotsOK
  <2>3. readreq[s] \in Created /\ r = readreq[s]
    <3>1. readreq[s] # Null
      BY <2>1 DEF ToRead, Slotted
    <3>2. ToSet(ToRead(s)) = {readreq[s]} \cup ToSet(readqueue[s])
      BY <2>2, <3>1, ConsProperties DEF ToRead, Slotted
    <3> QED BY <2>1, <2>2, <3>1, <3>2
  <2>4. PICK i \in Positions : Leaves(stack[i], s)
    BY <2>1 DEF Leaving
  <2>5. HeldBy(stack[i], r)
    BY <2>3, <2>4 DEF Leaves, HeldBy
  <2>6. FrameInv(own, stack[i], Len(stack) + 1 - i)
    BY DEF Owned, FramesInv
  <2>7. own[r] = InFrame(Len(stack) + 1 - i)
    BY <2>3, <2>5, <2>6 DEF FrameInv
  <2> QED BY <2>4, <2>7 DEF Belongs
<1> QED BY <1>2, <1>3

LEMMA BelongsToOne ==
  ASSUME TypeInv, NEW own, NEW r, NEW s \in Server, NEW t \in Server,
         Belongs(own, r, s), Belongs(own, r, t)
  PROVE  s = t
<1>1. Len(stack) \in Nat
  BY LenProperties DEF TypeInv, StackOK
<1>2. \A i, j \in Positions :
        InFrame(Len(stack) + 1 - i) = InFrame(Len(stack) + 1 - j) => i = j
  <2> SUFFICES ASSUME NEW i \in Positions, NEW j \in Positions,
                      InFrame(Len(stack) + 1 - i) = InFrame(Len(stack) + 1 - j)
               PROVE  i = j
    OBVIOUS
  <2>1. Len(stack) + 1 - i = Len(stack) + 1 - j
    BY Places
  <2> QED BY <1>1, <2>1 DEF Positions
<1>3. CASE own[r] = OnServer(s)
  BY <1>3, Places DEF Belongs
<1>4. CASE own[r] = OnServer(t)
  BY <1>4, Places DEF Belongs
<1>5. CASE \E i, j \in Positions : /\ Leaves(stack[i], s) /\ own[r] = InFrame(Len(stack) + 1 - i)
                                   /\ Leaves(stack[j], t) /\ own[r] = InFrame(Len(stack) + 1 - j)
  BY <1>2, <1>5 DEF Leaves
<1> QED BY <1>3, <1>4, <1>5 DEF Belongs

LEMMA OwnedOneServer ==
  ASSUME TypeInv, OwnerInv
  PROVE  \A s, t \in Server : s # t => ToSet(ToRead(s)) \cap ToSet(ToRead(t)) = {}
<1>1. PICK own : Owned(own)
  BY OwnerParts
<1>2. ASSUME NEW s \in Server, NEW t \in Server, NEW r \in ToSet(ToRead(s)), r \in ToSet(ToRead(t))
      PROVE  s = t
  <2>1. Belongs(own, r, s) /\ Belongs(own, r, t)
    BY <1>1, <1>2, ReadBelongs
  <2> QED BY <2>1, BelongsToOne
<1> QED BY <1>2

LEMMA OwnedNotFree ==
  ASSUME TypeInv, OwnerInv
  PROVE  \A s \in Server : (ToSet(ToSend(s)) \cup ToSet(ToRead(s))) \cap ToSet(free_requests) = {}
<1>1. PICK own : Owned(own)
  BY OwnerParts
<1>2. SUFFICES ASSUME NEW s \in Server, NEW r \in ToSet(ToSend(s)) \cup ToSet(ToRead(s))
               PROVE  own[r] # OnFreeList
  BY <1>1 DEF Owned, FreeInv
<1>3. CASE r \in ToSet(ToRead(s))
  <2>1. Belongs(own, r, s)
    BY <1>1, <1>3, ReadBelongs
  <2> QED BY <2>1, Places DEF Belongs
<1>4. CASE r \in ToSet(ToSend(s))
  <2>1. ServerInv(own, s)
    BY <1>1 DEF Owned, ServersInv
  <2>2. /\ readqueue[s] \in Seq(Created) /\ sendqueue[s] \in Seq(Created)
        /\ sendreq[s] \in Created \cup {Null}
    BY DEF TypeInv, SlotsOK
  <2>3. ToSet(Sends(s)) \subseteq ToSet(Reads(s))
    <3>1. Reads(s) \in Seq(Created)
      BY <2>2, SlotTypesOf DEF Reads
    <3>2. SendSlot(s) \in Created \cup {Null}
      <4>1. CASE Slotting(s)
        <5>1. stack # <<>> /\ FrameOK(top, Created)
          BY <4>1, AtTop DEF Slotting, At
        <5> QED BY <4>1, <5>1 DEF SendSlot, FrameOK
      <4>2. CASE ~Slotting(s)
        BY <2>2, <4>2 DEF SendSlot
      <4> QED BY <4>1, <4>2
    <3>3. Sends(s) \in Seq(Created)
      BY <2>2, <3>2, ConsProperties DEF Sends, Slotted
    <3> QED BY <2>1, <3>1, <3>3, TailSet DEF ServerInv, Pipeline
  <2>4. CASE r \in ToSet(Sends(s))
    BY <2>1, <2>3, <2>4, Places DEF ServerInv, Pipeline
  <2>5. CASE r \notin ToSet(Sends(s))
    <3>1. Slotting(s) /\ r \notin ToSet(sendqueue[s])
      <4>1. Slotting(s)
        BY <1>4, <2>5 DEF Sends, SendSlot, ToSend
      <4>2. ToSet(sendqueue[s]) \subseteq ToSet(Sends(s))
        <5>1. SendSlot(s) = top.r
          BY <4>1 DEF SendSlot
        <5>2. stack # <<>> /\ FrameOK(top, Created)
          BY <4>1, AtTop DEF Slotting, At
        <5>3. SendSlot(s) \in Created \cup {Null}
          BY <5>1, <5>2 DEF FrameOK
        <5> QED BY <2>2, <5>3, ConsProperties DEF Sends, Slotted
      <4> QED BY <2>5, <4>1, <4>2
    <3>2. r = sendreq[s]
      <4>1. CASE sendreq[s] = Null
        BY <1>4, <3>1, <4>1 DEF ToSend, Slotted
      <4>2. CASE sendreq[s] # Null
        <5>1. ToSet(ToSend(s)) = {sendreq[s]} \cup ToSet(sendqueue[s])
          BY <2>2, <4>2, ConsProperties DEF ToSend, Slotted
        <5> QED BY <1>4, <3>1, <5>1
      <4> QED BY <4>1, <4>2
    <3>3. PICK i \in Positions : i = 1 /\ stack[i].pc = "slot" /\ stack[i].s = s
      <4>1. stack # <<>> /\ top.pc = "slot" /\ top.s = s
        BY <3>1 DEF Slotting, At, top
      <4>2. top = stack[1] /\ Len(stack) \in Nat \ {0}
        BY <4>1, FirstElement DEF TypeInv, StackOK, top
      <4> QED BY <4>1, <4>2 DEF Positions
    <3>4. FrameInv(own, stack[i], Len(stack) + 1 - i)
      BY <1>1 DEF Owned, FramesInv
    <3> QED BY <3>2, <3>3, <3>4 DEF FrameInv
  <2> QED BY <2>4, <2>5
<1> QED BY <1>3, <1>4

LEMMA OwnedSendOrder ==
  ASSUME TypeInv, OwnerInv
  PROVE  SendOrder
<1> SUFFICES ASSUME Settled, NEW s \in Server PROVE IsSuffix(ToSend(s), ToRead(s))
  BY DEF SendOrder
<1>1. PICK own : Owned(own)
  BY OwnerParts
<1>2. Steady
  BY OwnerParts, TopSteady DEF Settled, ShiftPcs
<1>3. Pipeline(own, s, ToSend(s), ToRead(s))
  BY <1>1, <1>2, SendsAreRead DEF Owned
<1> QED BY <1>3, SlotTypesOf, TailIsSuffix DEF Pipeline

LEMMA OwnedFailsOnce ==
  ASSUME TypeInv, OwnerInv
  PROVE  FailsOverOnce
<1> SUFFICES ASSUME At("failover") PROVE top.r \notin ToSet(free_requests)
  BY DEF FailsOverOnce
<1>1. PICK own : Owned(own)
  BY OwnerParts
<1>2. stack # <<>> /\ FrameOK(top, Created) /\ top.pc = "failover"
  BY AtTop
<1>3. top = stack[1] /\ Len(stack) \in Nat \ {0}
  BY <1>2, FirstElement DEF TypeInv, StackOK, top
<1>4. PICK i \in Positions : stack[i] = top
  BY <1>3 DEF Positions
<1>5. top.r \in Created
  BY <1>2 DEF FrameOK, RequestPcs
<1>6. FrameInv(own, top, Len(stack) + 1 - i)
  BY <1>1, <1>4 DEF Owned, FramesInv
<1>7. own[top.r] = InFrame(Len(stack) + 1 - i)
  BY <1>2, <1>5, <1>6 DEF FrameInv, HeldBy
<1> QED BY <1>1, <1>7, Places DEF Owned, FreeInv

(* A request has one send buffer and one stream, and is with one server at *)
(* a time (memcache_pool.c:1046-1060), however the failovers of several    *)
(* servers are nested, for any number of servers, requests, redundant      *)
(* copies, failures and attempts.                                          *)
THEOREM WithOneServer == Spec => [](Covered => OneServer)
<1>1. TypeInv /\ OwnerInv => OneServer
  BY OwnedOneServer DEF OneServer
<1> QED BY <1>1, OwnerAlways, PTL

(* A request is "added to pool using mmc_pool_schedule or released with    *)
(* mmc_pool_release" (memcache_pool.c:1106), never both: what may be reset *)
(* and reused is in no queue of a server.                                  *)
THEOREM NeverUsedAfterRelease == Spec => [](Covered => ScheduledOrReleased)
<1>1. TypeInv /\ OwnerInv => ScheduledOrReleased
  BY OwnedNotFree DEF ScheduledOrReleased
<1> QED BY <1>1, OwnerAlways, PTL

(* The requests of a server that are not sent yet are the last of those it *)
(* has to answer, in the same order (memcache_pool.c:1214-1234), whenever  *)
(* the code looks at both, so that mmc_server_deactivate loses none of     *)
(* them when it only fails over the read queue (memcache_pool.c:653-654).  *)
THEOREM SendsInOrder == Spec => [](Covered => SendOrder)
BY OwnerAlways, OwnedSendOrder, PTL

(* No failure is handled twice: the failover handler that                  *)
(* mmc_server_deactivate and mmc_pool_schedule call on their levels of the *)
(* recursion (memcache_pool.c:657-663, 1188-1193) gets a request that is   *)
(* its own to place.                                                       *)
THEOREM FailsOverItsOwn == Spec => [](Covered => FailsOverOnceHandled)
<1>1. FailsOverOnce => FailsOverOnceHandled
  BY DEF FailsOverOnceHandled
<1> QED BY <1>1, OwnerAlways, OwnedFailsOnce, PTL
============================================================================
