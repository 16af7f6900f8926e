--------------------------- MODULE MmcPoolRounds ---------------------------
(***************************************************************************)
(* Who is served by a round.  A server with a request to send has to be in *)
(* the queue that the next select() looks at, or still ahead in the queue  *)
(* that a loop of this round goes through, or with the handler that runs   *)
(* for it; and in one of these only.  The handlers move it from one to the *)
(* other while the loop above which they run goes on.                      *)
(*                                                                         *)
(*   Governs        the loop frame f that the round is in, and which       *)
(*                  handlers may run above it                              *)
(*   SendInv,       where a server with a request in its slot is, and what *)
(*   ReadInv        the slot holds of a server that is in a queue          *)
(*   ConnectionInv  a server without a connection has nothing in its slots *)
(*   StreamInv      the requests of a server are on its stream             *)
(*   Chained        the handlers of a stream stand on one another          *)
(*                                                                         *)
(* Each action has a lemma that says it keeps all of this (RoundsInv).     *)
(* NoNullDereference and RoundsServeAll follow from the invariant alone.   *)
(* Nothing is claimed of persistent connections, whose retries leave a     *)
(* server out of the round.                                                *)
(*                                                                         *)
(* A call that stores one key or asks one server does not run the pool if  *)
(* its request could not be scheduled.  That it leaves nothing behind then *)
(* (RunCompletes) is the second part:                                      *)
(*                                                                         *)
(*   Awaits(f)      the call of frame f waits for its one request          *)
(*   Resting(f)     it is about to schedule it                             *)
(*   Placing(i)     the request is with the handlers above the call        *)
(*   QuietInv       nothing is under way when a call schedules its one     *)
(*                  request; none is after it failed to; all other calls   *)
(*                  end with a run, which ends when nobody is to be served *)
(***************************************************************************)
EXTENDS MmcPoolOwnership

----------------------------------------------------------------------------
(* The frames on the stack.                                                *)

OnStack == {stack[i] : i \in Positions}
Under   == {stack[i] : i \in 2 .. Len(stack)}

LEMMA StackSets ==
  ASSUME TypeInv, stack # <<>>, NEW T, NEW f \in Seq(T), Goto(f)
  PROVE  OnStack = {top} \cup Under /\ OnStack' = ToSet(f) \cup Under
<1>1. /\ Len(f) \in Nat /\ Len(stack) \in Nat \ {0} /\ top = stack[1]
      /\ Len(stack') = Len(f) + Len(stack) - 1
      /\ \A i \in 1 .. Len(f) : stack'[i] = f[i]
      /\ \A i \in 2 .. Len(stack) : stack'[i + Len(f) - 1] = stack[i]
      /\ \A j \in Positions' : ~(j <= Len(f)) =>
           j - Len(f) + 1 \in 2 .. Len(stack) /\ stack'[j] = stack[j - Len(f) + 1]
  BY Replaced
<1>2. OnStack = {top} \cup Under
  <2>1. Positions = {1} \cup 2 .. Len(stack)
    BY <1>1 DEF Positions
  <2> QED BY <1>1, <2>1 DEF OnStack, Under
<1>3. ToSet(f) = {f[i] : i \in 1 .. Len(f)}
  BY ToSetElements
<1>4. ASSUME NEW j \in Positions' PROVE stack'[j] \in ToSet(f) \cup Under
  <2>1. CASE j <= Len(f)
    <3>1. j \in 1 .. Len(f)
      BY <1>1, <2>1 DEF Positions
    <3> QED BY <1>1, <1>3, <3>1
  <2>2. CASE ~(j <= Len(f))
    <3>1. PICK i \in 2 .. Len(stack) : stack'[j] = stack[i]
      BY <1>1, <2>2
    <3> QED BY <3>1 DEF Under
  <2> QED BY <2>1, <2>2
<1>5. ASSUME NEW i \in 1 .. Len(f) PROVE f[i] \in OnStack'
  <2>1. i \in Positions' /\ stack'[i] = f[i]
    BY <1>1 DEF Positions
  <2> QED BY <2>1 DEF OnStack
<1>6. ASSUME NEW i \in 2 .. Len(stack) PROVE stack[i] \in OnStack'
  <2>1. i + Len(f) - 1 \in Positions' /\ stack'[i + Len(f) - 1] = stack[i]
    BY <1>1 DEF Positions
  <2> QED BY <2>1 DEF OnStack
<1>7. OnStack' = ToSet(f) \cup Under
  <2>1. OnStack' \subseteq ToSet(f) \cup Under
    BY <1>4 DEF OnStack
  <2>2. ToSet(f) \cup Under \subseteq OnStack'
    BY <1>3, <1>5, <1>6 DEF Under
  <2> QED BY <2>1, <2>2
<1> QED BY <1>2, <1>7

(* The lower frames by kind. *)
LEMMA UnderLower ==
  ASSUME TypeInv, Shape, stack # <<>>
  PROVE  /\ \A g \in Under : g.pc \in LowerPcs
         /\ top.pc \in ScriptPcs \cup LoopPcs => \A g \in Under : g.pc \in ScriptPcs
<1>1. \A i \in 2 .. Len(stack) : i \in Positions /\ i # 1 /\ 1 < i
  BY DEF Positions
<1>2. 1 \in Positions /\ top = stack[1]
  BY FirstElement DEF TypeInv, StackOK, top, Positions
<1>3. \A g \in Under : g.pc \in LowerPcs
  BY <1>1, ShiftPositions DEF Under
<1>4. ASSUME top.pc \in ScriptPcs \cup LoopPcs, NEW g \in Under PROVE g.pc \in ScriptPcs
  <2>1. PICK i \in 2 .. Len(stack) : g = stack[i]
    BY DEF Under
  <2> QED BY <1>1, <1>2, <1>4, <2>1 DEF Shape
<1> QED BY <1>3, <1>4

----------------------------------------------------------------------------
(* The handlers of a stream: a request is sent or a reply parsed, and the  *)
(* next request slotted above that.                                        *)

Follows(g, f) ==
  /\ f.pc = "xmit" => g.pc = "slot" /\ g.s = f.s
  /\ f.pc = "parse" => g.pc = "early" /\ g.s = f.s
  /\ g.pc = "slot" => f.pc \in {"xmit", "unqueue"} /\ f.s = g.s
  /\ g.pc = "unqueue" => f.pc = "early" /\ f.s = g.s
  /\ g.pc = "early" => f.pc = "parse" /\ f.s = g.s

Chained == \A i \in Positions :
  /\ stack[i].pc \notin {"retry", "retryRead"}
  /\ i + 1 \in Positions => Follows(stack[i], stack[i + 1])
  /\ stack[i].pc \in {"slot", "unqueue", "early"} => i + 1 \in Positions

(* The second frame, when a handler waits for the top one. *)
second == stack[2]

LEMMA SecondFrame ==
  ASSUME TypeInv, Shape, Chained, stack # <<>>
  PROVE  /\ top.pc \notin {"retry", "retryRead"}
         /\ top.pc = "slot" => Len(stack) > 1 /\ second.pc \in {"xmit", "unqueue"} /\ second.s = top.s
         /\ top.pc = "unqueue" => Len(stack) > 1 /\ second.pc = "early" /\ second.s = top.s
         /\ top.pc = "early" => Len(stack) > 1 /\ second.pc = "parse" /\ second.s = top.s
         /\ Len(stack) > 1 => /\ Follows(top, second) /\ Fits(top, second)
                              /\ second.pc \in LowerPcs /\ second \in Under
<1>1. 1 \in Positions /\ top = stack[1] /\ Len(stack) \in Nat
  BY FirstElement DEF TypeInv, StackOK, top, Positions
<1>2. 1 + 1 \in Positions <=> Len(stack) > 1
  BY <1>1 DEF Positions
<1>3. stack[1 + 1] = second /\ (Len(stack) > 1 => 2 \in 2 .. Len(stack))
  BY <1>1 DEF second
<1>4. Len(stack) > 1 => second \in Under
  BY <1>3 DEF Under, second
<1>5. Len(stack) > 1 => Fits(top, second)
  BY <1>1, <1>2, <1>3 DEF Shape
<1>6. /\ stack[1].pc \notin {"retry", "retryRead"}
      /\ 1 + 1 \in Positions => Follows(stack[1], stack[1 + 1])
      /\ stack[1].pc \in {"slot", "unqueue", "early"} => 1 + 1 \in Positions
  BY <1>1 DEF Chained
<1> QED BY <1>1, <1>2, <1>3, <1>4, <1>5, <1>6, UnderLower DEF Follows

BusyPcs == {"slot", "unqueue", "early", "xmit", "parse", "late", "deactivate"}

LEMMA NextTop ==
  ASSUME TypeInv, Shape, Chained, stack # <<>>, top.pc \notin {"slot", "unqueue", "early"},
         Len(stack) > 1
  PROVE  second.pc \notin BusyPcs
<1>1. Follows(top, second) /\ Fits(top, second) /\ second.pc \in LowerPcs
  BY SecondFrame
<1>2. second.pc \notin {"slot", "late", "deactivate"}
  BY <1>1 DEF LowerPcs
<1>3. second.pc \notin {"unqueue", "early"}
  BY <1>1 DEF Fits
<1>4. second.pc \notin {"xmit", "parse"}
  BY <1>1 DEF Follows
<1> QED BY <1>2, <1>3, <1>4 DEF BusyPcs

LEMMA ChainStep ==
  ASSUME TypeInv, Shape, Chained, stack # <<>>, NEW T, NEW f \in Seq(T), Goto(f),
         \A i \in 1 .. Len(f) : f[i].pc \notin {"retry", "retryRead"},
         \A i \in 1 .. Len(f) : i + 1 \in 1 .. Len(f) => Follows(f[i], f[i + 1]),
         f # <<>> => /\ f[Len(f)].pc \notin {"slot", "unqueue", "early"}
                     /\ top.pc \notin {"slot", "unqueue", "early"}
  PROVE  Chained'
<1> DEFINE n == Len(f)
<1>1. /\ n \in Nat /\ Len(stack) \in Nat \ {0} /\ top = stack[1]
      /\ Len(stack') = n + Len(stack) - 1
      /\ \A i \in 1 .. n : stack'[i] = f[i]
      /\ \A i \in 2 .. Len(stack) : stack'[i + n - 1] = stack[i]
      /\ \A j \in Positions' : ~(j <= n) =>
           j - n + 1 \in 2 .. Len(stack) /\ stack'[j] = stack[j - n + 1]
  BY Replaced
<1> SUFFICES ASSUME NEW j \in Positions'
             PROVE  /\ stack'[j].pc \notin {"retry", "retryRead"}
                    /\ j + 1 \in Positions' => Follows(stack'[j], stack'[j + 1])
                    /\ stack'[j].pc \in {"slot", "unqueue", "early"} => j + 1 \in Positions'
  BY DEF Chained
<1>2. CASE ~(j <= n)
  <2>1. PICK i : i = j - n + 1
    OBVIOUS
  <2>2. /\ i \in 2 .. Len(stack) /\ i \in Positions /\ stack'[j] = stack[i]
        /\ j + 1 \in Positions' <=> i + 1 \in Positions
    BY <1>1, <1>2, <2>1 DEF Positions
  <2>3. j + 1 \in Positions' => stack'[j + 1] = stack[i + 1]
    <3>1. ASSUME j + 1 \in Positions' PROVE stack'[j + 1] = stack[i + 1]
      <4>1. ~(j + 1 <= n) /\ j + 1 - n + 1 = i + 1
        BY <1>1, <1>2, <2>1 DEF Positions
      <4>2. stack'[j + 1] = stack[(j + 1) - n + 1]
        BY <1>1, <3>1, <4>1
      <4>3. (j + 1) - n + 1 = i + 1
        BY <1>1, <2>1 DEF Positions
      <4> QED BY <4>2, <4>3
    <3> QED BY <3>1
  <2> QED BY <2>2, <2>3 DEF Chained
<1>3. CASE j <= n /\ j # n
  <2>1. j \in 1 .. n /\ j + 1 \in 1 .. n /\ j + 1 \in Positions'
    BY <1>1, <1>3 DEF Positions
  <2>2. stack'[j] = f[j] /\ stack'[j + 1] = f[j + 1]
    BY <1>1, <2>1
  <2> QED BY <2>1, <2>2
<1>4. CASE j = n
  <2>1. j \in 1 .. n /\ stack'[j] = f[n] /\ f # <<>>
    <3>1. j \in 1 .. n
      BY <1>1, <1>4 DEF Positions
    <3>2. f # <<>>
      BY <1>1, <3>1, EmptySeq
    <3> QED BY <1>1, <1>4, <3>1, <3>2
  <2>2. ASSUME j + 1 \in Positions' PROVE Follows(f[n], stack'[j + 1])
    <3>1. ~(j + 1 <= n) /\ (j + 1) - n + 1 = 2
      BY <1>1, <1>4
    <3>2. (j + 1) - n + 1 \in 2 .. Len(stack) /\ stack'[j + 1] = stack[(j + 1) - n + 1]
      BY <1>1, <2>2, <3>1
    <3>5. 2 \in 2 .. Len(stack) /\ stack'[j + 1] = second
      BY <3>1, <3>2 DEF second
    <3>3. Len(stack) > 1
      BY <1>1, <3>5
    <3>4. second.pc \notin {"xmit", "parse"}
      BY <2>1, <3>3, NextTop DEF BusyPcs
    <3> QED BY <2>1, <3>4, <3>5 DEF Follows
  <2> QED BY <1>4, <2>1, <2>2
<1> QED BY <1>2, <1>3, <1>4

(* A handler returns, or calls others. *)
LEMMA ChainReturn ==
  ASSUME TypeInv, TypeInv', Shape, Chained, stack # <<>>, Goto(<<>>)
  PROVE  /\ Chained' /\ OnStack = {top} \cup Under /\ OnStack' = Under
         /\ stack' = <<>> \/ (Len(stack) > 1 /\ top' = second)
         /\ stack' = <<>> \/ top.pc \in {"slot", "unqueue", "early"} \/ top'.pc \notin BusyPcs
<1> DEFINE f == <<>>
<1>1. f \in Seq({top}) /\ Len(f) = 0 /\ f = <<>> /\ Goto(f)
  OBVIOUS
<1> HIDE DEF f
<1>2. OnStack = {top} \cup Under /\ OnStack' = Under
  <2>1. ToSet(f) = {}
    BY <1>1, ToSetElements
  <2>2. OnStack = {top} \cup Under /\ OnStack' = ToSet(f) \cup Under
    BY <1>1, StackSets
  <2> QED BY <2>1, <2>2
<1>3. Chained'
  <2>1. \A i \in 1 .. Len(f) : FALSE
    BY <1>1
  <2> QED BY <1>1, <2>1, ChainStep
<1>4. stack' = <<>> \/ (Len(stack) > 1 /\ top' = second)
  BY <1>1, HeadAfter DEF second
<1>5. stack' = <<>> \/ top.pc \in {"slot", "unqueue", "early"} \/ top'.pc \notin BusyPcs
  BY <1>4, NextTop
<1> QED BY <1>2, <1>3, <1>4, <1>5

LEMMA ChainOne ==
  ASSUME TypeInv, TypeInv', Shape, Chained, stack # <<>>, NEW a, Goto(<<a>>),
         a.pc \notin {"retry", "retryRead", "slot", "unqueue", "early"},
         top.pc \notin {"slot", "unqueue", "early"}
  PROVE  /\ Chained' /\ OnStack = {top} \cup Under /\ OnStack' = {a} \cup Under
         /\ stack' # <<>> /\ top' = a
<1> DEFINE f == <<a>>
<1>1. f \in Seq({a}) /\ Len(f) = 1 /\ f[1] = a /\ f # <<>> /\ Goto(f)
  OBVIOUS
<1> HIDE DEF f
<1>2. ToSet(f) = {a}
  <2>1. ToSet(f) = {f[i] : i \in 1 .. 1}
    BY <1>1, ToSetElements
  <2>2. 1 .. 1 = {1}
    OBVIOUS
  <2> QED BY <1>1, <2>1, <2>2
<1>3. OnStack = {top} \cup Under /\ OnStack' = {a} \cup Under
  BY <1>1, <1>2, StackSets
<1>4. Chained'
  <2>1. \A i \in 1 .. Len(f) : i = 1 /\ ~(i + 1 \in 1 .. Len(f))
    BY <1>1
  <2> QED BY <1>1, <2>1, ChainStep
<1>5. stack' # <<>> /\ top' = a
  BY <1>1, HeadAfter
<1> QED BY <1>3, <1>4, <1>5

LEMMA ChainTwo ==
  ASSUME TypeInv, TypeInv', Shape, Chained, stack # <<>>, NEW a, NEW b, Goto(<<a, b>>),
         a.pc \notin {"retry", "retryRead"}, Follows(a, b),
         b.pc \notin {"retry", "retryRead", "slot", "unqueue", "early"},
         top.pc \notin {"slot", "unqueue", "early"}
  PROVE  /\ Chained' /\ OnStack = {top} \cup Under /\ OnStack' = {a, b} \cup Under
         /\ stack' # <<>> /\ top' = a /\ second' = b
<1> DEFINE f == <<a, b>>
<1>1. f \in Seq({a, b}) /\ Len(f) = 2 /\ f[1] = a /\ f[2] = b /\ f # <<>>
  OBVIOUS
<1> HIDE DEF f
<1>2. ToSet(f) = {a, b}
  <2>1. ToSet(f) = {f[i] : i \in 1 .. 2}
    BY <1>1, ToSetElements
  <2>2. 1 .. 2 = {1, 2}
    OBVIOUS
  <2> QED BY <1>1, <2>1, <2>2
<1>3. Goto(f)
  BY DEF f
<1>4. OnStack = {top} \cup Under /\ OnStack' = {a, b} \cup Under
  BY <1>1, <1>2, <1>3, StackSets
<1>5. Chained'
  <2>1. \A i \in 1 .. Len(f) : (i = 1 \/ i = 2) /\ (i + 1 \in 1 .. Len(f) => i = 1)
    BY <1>1
  <2>2. \A i \in 1 .. Len(f) : f[i].pc \notin {"retry", "retryRead"}
    BY <1>1, <2>1
  <2>3. \A i \in 1 .. Len(f) : i + 1 \in 1 .. Len(f) => Follows(f[i], f[i + 1])
    <3>1. ASSUME NEW i \in 1 .. Len(f), i + 1 \in 1 .. Len(f) PROVE Follows(f[i], f[i + 1])
      <4>1. i = 1 /\ i + 1 = 2
        BY <2>1, <3>1
      <4> QED BY <1>1, <4>1
    <3> QED BY <3>1
  <2> QED BY <1>1, <1>3, <2>2, <2>3, ChainStep
<1>6. stack' # <<>> /\ top' = a
  BY <1>1, <1>3, HeadAfter
<1>7. second' = b
  <2>1. \A i \in 1 .. Len(f) : stack'[i] = f[i]
    BY <1>1, <1>3, Replaced
  <2> QED BY <1>1, <2>1 DEF second
<1> QED BY <1>4, <1>5, <1>6, <1>7

LEMMA ChainFour ==
  ASSUME TypeInv, TypeInv', Shape, Chained, stack # <<>>, top.pc = "parse", NEW s, s = top.s,
         NEW x, NEW b, b = top,
         Goto(<<Frame("slot", s, x), Frame("unqueue", s, Null), Frame("early", s, Null), b>>)
  PROVE  /\ Chained' /\ OnStack = {top} \cup Under
         /\ OnStack' = {Frame("slot", s, x), Frame("unqueue", s, Null), Frame("early", s, Null), top}
                       \cup Under
         /\ stack' # <<>> /\ top' = Frame("slot", s, x) /\ second' = Frame("unqueue", s, Null)
<1> DEFINE a == Frame("slot", s, x)
           c == Frame("unqueue", s, Null)
           d == Frame("early", s, Null)
           f == <<a, c, d, b>>
<1>1. /\ f \in Seq({a, c, d, b}) /\ Len(f) = 4 /\ f # <<>>
      /\ f[1] = a /\ f[2] = c /\ f[3] = d /\ f[4] = b
  OBVIOUS
<1>2. /\ a.pc = "slot" /\ c.pc = "unqueue" /\ d.pc = "early" /\ b.pc = "parse"
      /\ a.s = s /\ c.s = s /\ d.s = s /\ b.s = s
  BY DEF Frame, FrameOf
<1>3. Goto(f)
  OBVIOUS
<1> HIDE DEF f, a, c, d
<1>4. ToSet(f) = {a, c, d, b}
  <2>1. ToSet(f) = {f[i] : i \in 1 .. 4}
    BY <1>1, ToSetElements
  <2>2. 1 .. 4 = {1, 2, 3, 4}
    OBVIOUS
  <2> QED BY <1>1, <2>1, <2>2
<1>5. OnStack = {top} \cup Under /\ OnStack' = {a, c, d, b} \cup Under
  BY <1>1, <1>3, <1>4, StackSets
<1>6. Chained'
  <2>1. \A i \in 1 .. Len(f) : i \in {1, 2, 3, 4} /\ (i + 1 \in 1 .. Len(f) => i \in {1, 2, 3})
    BY <1>1
  <2>2. \A i \in 1 .. Len(f) : f[i].pc \notin {"retry", "retryRead"}
    BY <1>1, <1>2, <2>1
  <2>3. \A i \in 1 .. Len(f) : i + 1 \in 1 .. Len(f) => Follows(f[i], f[i + 1])
    <3>1. Follows(a, c) /\ Follows(c, d) /\ Follows(d, b)
      BY <1>2 DEF Follows
    <3>2. ASSUME NEW i \in 1 .. Len(f), i + 1 \in 1 .. Len(f) PROVE Follows(f[i], f[i + 1])
      <4>1. \/ i = 1 /\ i + 1 = 2
            \/ i = 2 /\ i + 1 = 3
            \/ i = 3 /\ i + 1 = 4
        BY <2>1, <3>2
      <4> QED BY <1>1, <3>1, <4>1
    <3> QED BY <3>2
  <2>4. f[Len(f)] = b
    BY <1>1
  <2> QED BY <1>1, <1>2, <1>3, <2>2, <2>3, <2>4, ChainStep
<1>7. stack' # <<>> /\ top' = a
  BY <1>1, <1>3, HeadAfter
<1>8. second' = c
  <2>1. \A i \in 1 .. Len(f) : stack'[i] = f[i]
    BY <1>1, <1>3, Replaced
  <2> QED BY <1>1, <2>1 DEF second
<1> QED BY <1>5, <1>6, <1>7, <1>8 DEF a, c, d

----------------------------------------------------------------------------
(* The invariant.                                                          *)

(* What the frames on top are doing for server s. *)
Doing(s, pcs) == stack # <<>> /\ top.s = s /\ top.pc \in pcs
Busy(s)       == Doing(s, BusyPcs)
XmitAt(s)     == Doing(s, {"xmit"}) \/ (Doing(s, {"slot"}) /\ second.pc = "xmit")
UnqueueAt(s)  == Doing(s, {"unqueue"}) \/ (Doing(s, {"slot"}) /\ second.pc = "unqueue")
EarlyAt(s)    == Doing(s, {"early"}) \/ UnqueueAt(s)
ParseAt(s)    == Doing(s, {"parse"}) \/ EarlyAt(s)
FailingAt(s)  == Doing(s, {"late", "deactivate"})
Unreading(s)  == \E g \in OnStack : g.pc = "unread" /\ g.s = s

ConnectionInv(s) ==
  /\ status[s] # "unknown"
  /\ IsOpen(s) => link[s] # "none"
  /\ ~IsOpen(s) => IdleAt(s) \/ (EarlyAt(s) /\ (Slotting(s) \/ Sends(s) = <<>>))
  /\ EarlyAt(s) => Sends(s) = readqueue[s]

StreamInv(s) == \A r \in ToSet(Reads(s)) :
  r \in ToSet(sendqueue[s]) \/ request[r].io = s \/ (Slotting(s) /\ r = top.r)

Governs(f) ==
  /\ f.pc \in LoopPcs \cup {"none"}
  /\ f.pc # "none" => f \in OnStack
  /\ f.pc \in {"lateSend", "lateRead", "send", "read"} => cur = 3 - f.w
  /\ f.pc = "lateRead" => sending[f.w] = <<>>
  /\ \A g \in OnStack :
       /\ g.pc \in LoopPcs => g = f
       /\ g.pc \in {"xmit", "unread"} => f.pc = "send" /\ g.w = f.w
       /\ g.pc \in {"parse", "early", "unqueue"} => f.pc = "read"

Left(q, i) == {q[j] : j \in i + 1 .. Len(q)}
StillToSend(f) == IF f.pc = "lateSend" THEN ToSet(sending[f.w])
                  ELSE IF f.pc = "send" THEN Left(sending[f.w], f.i) ELSE {}
StillToRead(f) ==
  IF f.pc \in {"lateSend", "lateRead", "send"} THEN {s \in ToSet(reading[f.w]) : ~Unreading(s)}
  ELSE IF f.pc = "read" THEN Left(reading[f.w], f.i) ELSE {}

NextSend == ToSet(sending[cur])
NextRead == ToSet(reading[cur])

SendInv(f, s) ==
  /\ sendreq[s] # Null => s \in NextSend \/ s \in StillToSend(f) \/ XmitAt(s) \/ FailingAt(s)
  /\ s \in NextSend => (sendreq[s] # Null \/ UnqueueAt(s)) /\ ~XmitAt(s)
  /\ s \in StillToSend(f) => /\ sendreq[s] # Null /\ s \notin NextSend
                             /\ ~XmitAt(s) /\ ~FailingAt(s)

ReadInv(f, s) ==
  /\ readreq[s] # Null => s \in NextRead \/ s \in StillToRead(f) \/ ParseAt(s) \/ FailingAt(s)
  /\ s \in NextRead => readreq[s] # Null /\ ~ParseAt(s)
  /\ s \in StillToRead(f) => /\ readreq[s] # Null /\ s \notin NextRead
                             /\ ~ParseAt(s) /\ ~FailingAt(s)

QueuesInv == \A w \in 1 .. 2 : Distinct(sending[w]) /\ Distinct(reading[w])

RoundInv(f, s) == SendInv(f, s) /\ ReadInv(f, s) /\ ConnectionInv(s) /\ StreamInv(s)
Served(f) == Governs(f) /\ \A s \in Server : RoundInv(f, s)
RoundsInv == Chained /\ QueuesInv /\ \E f : Served(f)

----------------------------------------------------------------------------
(* What a step leaves alone.                                               *)

(* Nothing that the invariant says of server t has changed. *)
Kept(t) ==
  /\ status'[t] = status[t] /\ link'[t] = link[t]
  /\ sendreq'[t] = sendreq[t] /\ readreq'[t] = readreq[t]
  /\ sendqueue'[t] = sendqueue[t] /\ readqueue'[t] = readqueue[t]
  /\ (t \in NextSend)' = (t \in NextSend) /\ (t \in NextRead)' = (t \in NextRead)
  /\ \A r \in ToSet(ToRead(t)) : request'[r].io = request[r].io

(* It is where it was in the round that frame f loops over. *)
KeepsPlace(f, g, t) ==
  /\ (t \in StillToSend(g))' = (t \in StillToSend(f))
  /\ (t \in StillToRead(g))' = (t \in StillToRead(f))

LEMMA NotBusy ==
  ASSUME NEW t, ~Busy(t)
  PROVE  /\ ~XmitAt(t) /\ ~UnqueueAt(t) /\ ~EarlyAt(t) /\ ~ParseAt(t) /\ ~FailingAt(t)
         /\ ~Slotting(t)
BY DEF Busy, XmitAt, UnqueueAt, EarlyAt, ParseAt, FailingAt, Doing, BusyPcs, Slotting, At, top

LEMMA NotShifting ==
  ASSUME TypeInv, Shape, Chained, NEW t \in Server, ~Busy(t)
  PROVE  SlottedAt(t)
<1>1. stack = <<>> \/ top.pc \notin ShiftPcs \/ top.s # t
  <2>1. stack # <<>> => top.pc # "retryRead"
    BY SecondFrame
  <2> QED BY <2>1 DEF Busy, Doing, BusyPcs, ShiftPcs
<1> QED BY <1>1, ElsewhereSlots DEF Elsewhere

LEMMA Bystander ==
  ASSUME TypeInv, TypeInv', Shape, Shape', Chained, Chained', NEW f, NEW g, NEW t \in Server,
         RoundInv(f, t), ~Busy(t), ~Busy(t)', Kept(t), KeepsPlace(f, g, t)
  PROVE  RoundInv(g, t)'
<1>1. /\ ~XmitAt(t) /\ ~UnqueueAt(t) /\ ~EarlyAt(t) /\ ~ParseAt(t) /\ ~FailingAt(t)
      /\ ~Slotting(t)
  BY NotBusy
<1>2. /\ ~XmitAt(t)' /\ ~UnqueueAt(t)' /\ ~EarlyAt(t)' /\ ~ParseAt(t)' /\ ~FailingAt(t)'
      /\ ~Slotting(t)'
  BY NotBusy, PTL
<1>3. SlottedAt(t)
  BY NotShifting
<1>4. SlottedAt(t)'
  BY NotShifting, PTL
<1>5. SendInv(g, t)' /\ ReadInv(g, t)'
  BY <1>1, <1>2 DEF RoundInv, SendInv, ReadInv, Kept, KeepsPlace
<1>6. ConnectionInv(t)'
  BY <1>1, <1>2 DEF RoundInv, ConnectionInv, Kept, IsOpen, IdleAt
<1>7. StreamInv(t)'
  <2>1. Reads(t)' = Reads(t) /\ Reads(t) = ToRead(t)
    BY <1>3, <1>4 DEF SlottedAt, ToRead, Kept
  <2> QED BY <1>1, <2>1 DEF RoundInv, StreamInv, Kept
<1> QED BY <1>5, <1>6, <1>7 DEF RoundInv

(* A step that is about server s, or about none. *)
LEMMA ServedStep ==
  ASSUME TypeInv, TypeInv', Shape, Shape', Chained, Chained', NEW f, Served(f),
         NEW g, Governs(g)', NEW s,
         stack = <<>> \/ top.pc \notin BusyPcs \/ top.s = s,
         stack' = <<>> \/ top'.pc \notin BusyPcs \/ top'.s = s,
         \A t \in Server : t # s => Kept(t) /\ KeepsPlace(f, g, t),
         s \in Server => RoundInv(g, s)'
  PROVE  Served(g)'
<1> SUFFICES ASSUME NEW t \in Server, t # s PROVE RoundInv(g, t)'
  BY DEF Served
<1>1. ~Busy(t) /\ ~Busy(t)'
  BY DEF Busy, Doing
<1> QED BY <1>1, Bystander DEF Served

----------------------------------------------------------------------------
(* The round that goes on below a handler.                                 *)

InRoundPcs == {"lateSend", "lateRead", "send", "read"}

LEMMA LoopFrame ==
  ASSUME TypeInv, NEW f, Governs(f), f.pc \in InRoundPcs
  PROVE  f.w \in 1 .. 2 /\ cur \in 1 .. 2 /\ cur = 3 - f.w /\ f.w # cur /\ f \in OnStack
<1>1. f \in OnStack /\ cur = 3 - f.w
  BY DEF Governs, InRoundPcs
<1>2. PICK i \in Positions : f = stack[i]
  BY <1>1 DEF OnStack
<1>3. f \in Frames(Created)
  BY <1>2 DEF TypeInv, StackOK, Positions
<1>4. f.w \in 1 .. 2
  BY <1>3 DEF Frames, FrameOK, InRoundPcs
<1>5. cur \in 1 .. 2
  BY DEF TypeInv, RoundsOK
<1> QED BY <1>1, <1>4, <1>5

(* A handler above the loop f may run another, or be another. *)
Allowed(f, g) ==
  /\ g.pc \notin LoopPcs \cup {"unread"}
  /\ g.pc = "xmit" => f.pc = "send" /\ g.w = f.w
  /\ g.pc \in {"parse", "early", "unqueue"} => f.pc = "read"

LEMMA Waits ==
  ASSUME TypeInv, NEW f, Governs(f), NEW X, stack # <<>>,
         OnStack = {top} \cup Under, OnStack' = X \cup Under,
         top.pc \notin LoopPcs \cup {"unread"}, \A g \in X : Allowed(f, g),
         UNCHANGED cur,
         \A w \in 1 .. 2 : w # cur => sending'[w] = sending[w] /\ reading'[w] = reading[w]
  PROVE  /\ Governs(f)'
         /\ StillToSend(f)' = StillToSend(f) /\ StillToRead(f)' = StillToRead(f)
<1>1. f.pc \in InRoundPcs => sending'[f.w] = sending[f.w] /\ reading'[f.w] = reading[f.w]
  BY LoopFrame
<1>2. Governs(f)'
  BY <1>1 DEF Governs, Allowed, InRoundPcs, LoopPcs
<1>3. ASSUME NEW t PROVE Unreading(t)' = Unreading(t)
  BY DEF Unreading, Allowed
<1>4. StillToSend(f)' = StillToSend(f)
  BY <1>1 DEF StillToSend, InRoundPcs, Left
<1>5. StillToRead(f)' = StillToRead(f)
  <2>1. f.pc \in InRoundPcs =>
          {s \in ToSet(reading[f.w]) : ~Unreading(s)}' = {s \in ToSet(reading[f.w]) : ~Unreading(s)}
    BY <1>1, <1>3
  <2> QED BY <1>1, <2>1 DEF StillToRead, InRoundPcs, Left
<1> QED BY <1>2, <1>4, <1>5

LEMMA SamePlace ==
  ASSUME NEW f, StillToSend(f)' = StillToSend(f), StillToRead(f)' = StillToRead(f)
  PROVE  \A t : KeepsPlace(f, f, t)
BY DEF KeepsPlace

(* No queue of servers has one twice. *)
LEMMA QueuesSame == QueuesInv /\ UNCHANGED <<sending, reading>> => QueuesInv'
BY DEF QueuesInv

LEMMA QueueTyped ==
  ASSUME TypeInv
  PROVE  /\ cur \in 1 .. 2 /\ other \in 1 .. 2 /\ other # cur
         /\ \A w \in 1 .. 2 : sending[w] \in Seq(Server) /\ reading[w] \in Seq(Server)
         /\ DOMAIN sending = 1 .. 2 /\ DOMAIN reading = 1 .. 2
BY DEF TypeInv, RoundsOK, other

(* A queue after s was added, or taken out. *)
LEMMA QueueAdds ==
  ASSUME NEW q \in Seq(Server), Distinct(q), NEW s \in Server
  PROVE  Distinct(Push(q, s)) /\ \A t : t \in ToSet(Push(q, s)) <=> t = s \/ t \in ToSet(q)
BY PushAdds

LEMMA QueueDrops ==
  ASSUME NEW q \in Seq(Server), Distinct(q), NEW s
  PROVE  /\ Distinct(Without(q, s))
         /\ \A t : t \in ToSet(Without(q, s)) <=> t # s /\ t \in ToSet(q)
BY WithoutSet

LEMMA Assemble ==
  ASSUME Chained', QueuesInv', NEW g, Served(g)' PROVE RoundsInv'
BY DEF RoundsInv

----------------------------------------------------------------------------
(* Steps that move no server.                                              *)

KeepsStreams == \A s \in Server : \A r \in ToSet(ToRead(s)) : request'[r].io = request[r].io

LEMMA KeptAll ==
  ASSUME UNCHANGED <<status, link, Slots, sending, reading, cur>>, KeepsStreams
  PROVE  \A t \in Server : Kept(t)
<1> SUFFICES ASSUME NEW t \in Server PROVE Kept(t)
  OBVIOUS
<1>1. NextSend' = NextSend /\ NextRead' = NextRead
  BY DEF NextSend, NextRead
<1> QED BY <1>1, SameSlots DEF Kept, KeepsStreams

(* A handler that places requests, or gives them up. *)
LEMMA QuietRounds ==
  ASSUME TypeInv, TypeInv', Shape, Shape', RoundsInv, Chained', stack # <<>>,
         UNCHANGED <<status, link, Slots, sending, reading, cur>>, KeepsStreams,
         top.pc \notin BusyPcs \cup LoopPcs \cup {"unread"},
         stack' = <<>> \/ top'.pc \notin BusyPcs,
         NEW X, OnStack = {top} \cup Under, OnStack' = X \cup Under,
         \A g \in X : g.pc \notin LoopPcs \cup BusyPcs \cup {"unread"}
  PROVE  RoundsInv'
<1>1. PICK f : Served(f)
  BY DEF RoundsInv
<1>2. \A g \in X : Allowed(f, g)
  BY DEF Allowed, BusyPcs
<1>3. /\ Governs(f)'
      /\ StillToSend(f)' = StillToSend(f) /\ StillToRead(f)' = StillToRead(f)
  BY <1>1, <1>2, Waits DEF Served
<1>4. Served(f)'
  <2>1. \A t \in Server : Kept(t) /\ KeepsPlace(f, f, t)
    BY <1>3, KeptAll, SamePlace
  <2>2. NoServer \notin Server
    BY ServerAssumption
  <2> QED BY <1>1, <1>3, <2>1, <2>2, ServedStep DEF RoundsInv
<1>5. QueuesInv'
  BY QueuesSame DEF RoundsInv
<1> QED BY <1>4, <1>5, Assemble

(* A call of memcache.c, which no round is below. *)
LEMMA NoRound ==
  ASSUME TypeInv, Shape, NEW f, Governs(f), stack = <<>> \/ top.pc \in ScriptPcs \cup {"select"}
  PROVE  /\ f.pc \in {"none", "select"} /\ StillToSend(f) = {} /\ StillToRead(f) = {}
         /\ \A g \in Under : g.pc \in ScriptPcs
         /\ stack # <<>> => OnStack = {top} \cup Under
<1>1. \A g \in Under : g.pc \in ScriptPcs
  <2>1. CASE stack = <<>>
    BY <2>1 DEF Under
  <2>2. CASE stack # <<>>
    BY <2>2, UnderLower DEF LoopPcs
  <2> QED BY <2>1, <2>2
<1>2. stack # <<>> => OnStack = {top} \cup Under
  <2> SUFFICES ASSUME stack # <<>> PROVE OnStack = {top} \cup Under
    OBVIOUS
  <2>1. Len(stack) \in Nat \ {0} /\ top = stack[1]
    BY FirstElement DEF TypeInv, StackOK, top
  <2>2. Positions = {1} \cup 2 .. Len(stack)
    BY <2>1 DEF Positions
  <2> QED BY <2>1, <2>2 DEF OnStack, Under
<1>3. stack = <<>> => OnStack = {}
  BY DEF OnStack, Positions
<1>4. f.pc \in {"none", "select"}
  <2> SUFFICES ASSUME f.pc # "none" PROVE f.pc = "select"
    OBVIOUS
  <2>1. f \in OnStack /\ f.pc \in LoopPcs
    BY DEF Governs
  <2> QED BY <1>1, <1>2, <1>3, <2>1 DEF ScriptPcs, LoopPcs
<1>5. StillToSend(f) = {} /\ StillToRead(f) = {}
  BY <1>4 DEF StillToSend, StillToRead
<1> QED BY <1>1, <1>2, <1>4, <1>5

NoLoop == Loop("none", 1, 0)

LEMMA ScriptRounds ==
  ASSUME TypeInv, TypeInv', Shape, Shape', RoundsInv, Chained', stack # <<>>,
         UNCHANGED <<status, link, Slots, sending, reading, cur>>, KeepsStreams,
         top.pc \in ScriptPcs, stack' = <<>> \/ top'.pc \notin BusyPcs,
         NEW X, OnStack' = X \cup Under,
         NEW g, g.pc = "none" \/ (g.pc = "select" /\ g \in X),
         \A h \in X : h.pc \in ScriptPcs \cup {"schedule"} \/ h = g
  PROVE  RoundsInv'
<1>1. PICK f : Served(f)
  BY DEF RoundsInv
<1>2. /\ StillToSend(f) = {} /\ StillToRead(f) = {} /\ \A h \in Under : h.pc \in ScriptPcs
  BY <1>1, NoRound DEF Served
<1>3. Governs(g)'
  BY <1>2 DEF Governs, ScriptPcs, LoopPcs
<1>4. \A t : KeepsPlace(f, g, t)
  BY <1>2 DEF KeepsPlace, StillToSend, StillToRead
<1>5. Served(g)'
  <2>1. \A t \in Server : Kept(t)
    BY KeptAll
  <2>2. NoServer \notin Server /\ top.pc \notin BusyPcs
    BY ServerAssumption DEF ScriptPcs, BusyPcs
  <2> QED BY <1>1, <1>3, <1>4, <2>1, <2>2, ServedStep DEF RoundsInv
<1>6. QueuesInv'
  BY QueuesSame DEF RoundsInv
<1> QED BY <1>5, <1>6, Assemble

----------------------------------------------------------------------------
(* The steps.                                                              *)

LEMMA StreamsSame == ASSUME UNCHANGED request PROVE KeepsStreams
BY DEF KeepsStreams

LEMMA ReadCreated ==
  ASSUME TypeInv, NEW s \in Server
  PROVE  \A r \in ToSet(ToRead(s)) : r \in Created
<1>1. ToRead(s) \in Seq(Created)
  BY SlotTypesOf
<1> QED BY <1>1, ToSetElements

(* A handler that is replaced by another one. *)
LEMMA PassesRounds ==
  ASSUME TypeInv, TypeInv', OwnerInv, OwnerInv', RoundsInv, stack # <<>>,
         UNCHANGED <<status, link, Slots, sending, reading, cur>>, KeepsStreams,
         top.pc \notin BusyPcs \cup LoopPcs \cup {"unread"},
         \/ Goto(<<>>)
         \/ \E a : Goto(<<a>>) /\ a.pc \notin LoopPcs \cup BusyPcs \cup {"unread", "retry", "retryRead"}
         \/ \E a, b : /\ Goto(<<a, b>>)
                      /\ a.pc \notin LoopPcs \cup BusyPcs \cup {"unread", "retry", "retryRead"}
                      /\ b.pc \notin LoopPcs \cup BusyPcs \cup {"unread", "retry", "retryRead"}
  PROVE  RoundsInv'
<1>1. Shape /\ Shape' /\ Chained
  BY DEF OwnerInv, RoundsInv
<1>2. CASE Goto(<<>>)
  <2> DEFINE X == {}
  <2>1. /\ Chained' /\ OnStack = {top} \cup Under /\ OnStack' = X \cup Under
        /\ stack' = <<>> \/ top'.pc \notin BusyPcs
    BY <1>1, <1>2, ChainReturn DEF BusyPcs
  <2>2. \A g \in X : g.pc \notin LoopPcs \cup BusyPcs \cup {"unread"}
    OBVIOUS
  <2> HIDE DEF X
  <2> QED BY <1>1, <2>1, <2>2, QuietRounds
<1>3. ASSUME NEW a, Goto(<<a>>), a.pc \notin LoopPcs \cup BusyPcs \cup {"unread", "retry", "retryRead"}
      PROVE RoundsInv'
  <2> DEFINE X == {a}
  <2>1. /\ Chained' /\ OnStack = {top} \cup Under /\ OnStack' = X \cup Under
        /\ stack' = <<>> \/ top'.pc \notin BusyPcs
    BY <1>1, <1>3, ChainOne DEF BusyPcs
  <2>2. \A g \in X : g.pc \notin LoopPcs \cup BusyPcs \cup {"unread"}
    BY <1>3
  <2> HIDE DEF X
  <2> QED BY <1>1, <2>1, <2>2, QuietRounds
<1>4. ASSUME NEW a, NEW b, Goto(<<a, b>>),
             a.pc \notin LoopPcs \cup BusyPcs \cup {"unread", "retry", "retryRead"},
             b.pc \notin LoopPcs \cup BusyPcs \cup {"unread", "retry", "retryRead"}
      PROVE RoundsInv'
  <2>1. Follows(a, b)
    BY <1>4 DEF Follows, BusyPcs
  <2> DEFINE X == {a, b}
  <2>2. /\ Chained' /\ OnStack = {top} \cup Under /\ OnStack' = X \cup Under
        /\ stack' = <<>> \/ top'.pc \notin BusyPcs
    BY <1>1, <1>4, <2>1, ChainTwo DEF BusyPcs
  <2>3. \A g \in X : g.pc \notin LoopPcs \cup BusyPcs \cup {"unread"}
    BY <1>4
  <2> HIDE DEF X
  <2> QED BY <1>1, <2>2, <2>3, QuietRounds
<1> QED BY <1>2, <1>3, <1>4

(* ScheduleInvalid, FailOver and GiveUp: a request is passed on. *)
LEMMA PlacesRounds ==
  ASSUME TypeInv, TypeInv', OwnerInv, OwnerInv', RoundsInv,
         ScheduleInvalid \/ FailOver \/ GiveUp
  PROVE  RoundsInv'
<1>1. /\ stack # <<>> /\ top.pc \in {"schedule", "failover"}
      /\ UNCHANGED <<status, link, Slots, sending, reading, cur, request>>
      /\ \/ Goto(<<>>)
         \/ \E a : Goto(<<a>>) /\ a.pc \in {"failover", "probe", "get"}
  BY DEF ScheduleInvalid, FailOver, GiveUp, At, top, conn, slots, Slots, rounds, reqs, Frame,
         FrameOf, Each, Return
<1>2. KeepsStreams
  BY <1>1, StreamsSame
<1> QED BY <1>1, <1>2, PassesRounds DEF BusyPcs, LoopPcs

LEMMA FindNextRounds ==
  ASSUME TypeInv, TypeInv', OwnerInv, OwnerInv', RoundsInv, FindNext
  PROVE  RoundsInv'
<1>1. /\ stack # <<>> /\ top.pc = "probe"
      /\ UNCHANGED <<status, link, Slots, sending, reading, cur>>
  BY DEF FindNext, At, top, conn, slots, Slots, rounds, reqs
<1>3. PICK failed, index, pc, t :
        /\ pc \in {"probe", "schedule"} /\ Goto(<<Frame(pc, t, top.r)>>)
        /\ request' = [request EXCEPT ![top.r] = [@ EXCEPT !.failed = failed, !.index = index]]
  BY DEF FindNext
<1>4. \E a : Goto(<<a>>) /\ a.pc \in {"probe", "schedule"}
  <2>1. Frame(pc, t, top.r).pc = pc
    BY DEF Frame, FrameOf
  <2> QED BY <1>3, <2>1
<1>2. KeepsStreams
  <2> SUFFICES ASSUME NEW s \in Server, NEW r \in ToSet(ToRead(s))
               PROVE  request'[r].io = request[r].io
    BY DEF KeepsStreams
  <2>1. r \in Created
    BY ReadCreated
  <2>2. request[r] \in Request /\ DOMAIN request = Created
    BY <2>1 DEF TypeInv, ReqsOK, Created
  <2>4. request'[r] = IF r = top.r THEN [request[r] EXCEPT !.failed = failed, !.index = index]
                      ELSE request[r]
    BY <1>3, <2>1, <2>2
  <2> QED BY <2>2, <2>4 DEF Request
<1> QED BY <1>1, <1>2, <1>4, PassesRounds DEF BusyPcs, LoopPcs

LEMMA UnslotRounds ==
  ASSUME TypeInv, TypeInv', OwnerInv, OwnerInv', RoundsInv, Unslot
  PROVE  RoundsInv'
<1>1. /\ stack # <<>> /\ top.pc = "unslot"
      /\ UNCHANGED <<status, link, readreq, sendqueue, readqueue, sending, reading, cur, request>>
      /\ sendreq' = [sendreq EXCEPT ![top.s] = Null]
      /\ \E a : Goto(<<a>>) /\ a.pc = "failover"
  BY DEF Unslot, At, top, conn, rounds, reqs, Frame, FrameOf
<1>2. IdleAt(top.s)
  <2>1. PICK own : Owned(own)
    BY DEF OwnerInv
  <2>2. FrameInv(own, top, Len(stack))
    BY <1>1, <2>1, TopFrame
  <2> QED BY <1>1, <2>2 DEF FrameInv
<1>3. sendreq' = sendreq
  <2>1. sendreq[top.s] = Null
    BY <1>2 DEF IdleAt
  <2>2. \E D : sendreq \in [Server -> D]
    BY DEF TypeInv, SlotsOK
  <2> QED BY <1>1, <2>1, <2>2
<1>4. KeepsStreams
  BY <1>1, StreamsSame
<1> QED BY <1>1, <1>3, <1>4, PassesRounds DEF BusyPcs, LoopPcs, Slots

LEMMA DrainRounds ==
  ASSUME TypeInv, TypeInv', OwnerInv, OwnerInv', RoundsInv, Drain
  PROVE  RoundsInv'
<1>1. /\ stack # <<>> /\ top.pc = "drain"
      /\ UNCHANGED <<status, link, Slots, sending, reading, cur, request>>
  BY DEF Drain, At, top, conn, slots, Slots, rounds, reqs
<1>3. \/ Goto(<<>>)
      \/ \E a : Goto(<<a>>) /\ a.pc = "callback"
      \/ \E a, b : Goto(<<a, b>>) /\ a.pc = "failover" /\ b.pc = "drain"
  <2> DEFINE a == Frame("failover", top.s, Head(top.q))
             b == FrameOf("drain", top.s, Null, Tail(top.q), 0, 0)
             c == Frame("callback", top.s, Null)
  <2>1. Goto(<<a, b>>) \/ Goto(<<c>>) \/ Goto(<<>>)
    BY DEF Drain, Return
  <2>2. a.pc = "failover" /\ b.pc = "drain" /\ c.pc = "callback"
    BY DEF Frame, FrameOf
  <2> QED BY <2>1, <2>2
<1>2. KeepsStreams
  BY <1>1, StreamsSame
<1> QED BY <1>1, <1>2, <1>3, PassesRounds DEF BusyPcs, LoopPcs

(* The calls of memcache.c. *)
LEMMA ScriptPlain ==
  /\ \A pc \in ScriptPcs \cup {"select", "schedule"} :
       pc \notin {"retry", "retryRead", "slot", "unqueue", "early", "xmit", "parse"} \cup BusyPcs
  /\ \A pc \in ScriptPcs : pc \notin LoopPcs /\ pc # "select"
  /\ \A f, g : f.pc \in ScriptPcs \cup {"select", "schedule"} /\ g.pc \in ScriptPcs => Follows(f, g)
BY DEF ScriptPcs, BusyPcs, LoopPcs, Follows

LEMMA ScriptGoesOnRounds ==
  ASSUME TypeInv, TypeInv', OwnerInv, OwnerInv', RoundsInv, stack # <<>>, top.pc \in ScriptPcs,
         ScriptGoesOn, UNCHANGED <<conn, slots, rounds, reqs>>
  PROVE  RoundsInv'
<1>1. Shape /\ Shape' /\ Chained
  BY DEF OwnerInv, RoundsInv
<1>2. UNCHANGED <<status, link, Slots, sending, reading, cur>> /\ KeepsStreams
  BY StreamsSame DEF conn, slots, Slots, rounds, reqs
<1>3. NoLoop.pc = "none"
  BY DEF NoLoop, Loop, FrameOf
<1>4. CASE Goto(<<>>)
  <2> DEFINE X == {}
  <2>1. /\ Chained' /\ OnStack' = X \cup Under
        /\ stack' = <<>> \/ top'.pc \notin BusyPcs
    BY <1>1, <1>4, ScriptPlain, ChainReturn
  <2>2. \A h \in X : h.pc \in ScriptPcs \cup {"schedule"} \/ h = NoLoop
    OBVIOUS
  <2> HIDE DEF X
  <2> QED BY <1>1, <1>2, <1>3, <2>1, <2>2, ScriptRounds
<1>5. ASSUME NEW a, Goto(<<a>>), a.pc \in ScriptPcs PROVE RoundsInv'
  <2> DEFINE X == {a}
  <2>1. /\ Chained' /\ OnStack' = X \cup Under
        /\ stack' = <<>> \/ top'.pc \notin BusyPcs
    BY <1>1, <1>5, ScriptPlain, ChainOne
  <2>2. \A h \in X : h.pc \in ScriptPcs \cup {"schedule"} \/ h = NoLoop
    BY <1>5
  <2> HIDE DEF X
  <2> QED BY <1>1, <1>2, <1>3, <2>1, <2>2, ScriptRounds
<1>6. ASSUME NEW a, NEW b, Goto(<<a, b>>), a.pc \in ScriptPcs \cup {"select"}, b.pc \in ScriptPcs
      PROVE  RoundsInv'
  <2> DEFINE X == {a, b}
  <2>1. Follows(a, b)
    BY <1>6, ScriptPlain
  <2>2. /\ Chained' /\ OnStack' = X \cup Under
        /\ stack' = <<>> \/ top'.pc \notin BusyPcs
    BY <1>1, <1>6, <2>1, ScriptPlain, ChainTwo
  <2>3. PICK g : g = IF a.pc = "select" THEN a ELSE NoLoop
    OBVIOUS
  <2>4. g.pc = "none" \/ (g.pc = "select" /\ g \in X)
    BY <1>3, <2>3
  <2>5. \A h \in X : h.pc \in ScriptPcs \cup {"schedule"} \/ h = g
    BY <1>6, <2>3
  <2> HIDE DEF X
  <2> QED BY <1>1, <1>2, <2>2, <2>4, <2>5, ScriptRounds
<1> QED BY <1>4, <1>5, <1>6 DEF ScriptGoesOn

LEMMA CreatesRounds ==
  ASSUME TypeInv, TypeInv', OwnerInv, OwnerInv', RoundsInv, stack # <<>>, top.pc \in ScriptPcs,
         ScriptCreates, UNCHANGED <<conn, slots, rounds>>
  PROVE  RoundsInv'
<1>1. Shape /\ Shape' /\ Chained
  BY DEF OwnerInv, RoundsInv
<1>2. UNCHANGED <<status, link, Slots, sending, reading, cur>>
  BY DEF conn, slots, Slots, rounds
<1>3. PICK T : \E f \in Seq(T) : Schedules(f)
  BY DEF ScriptCreates
<1>4. PICK f \in Seq(T) : Schedules(f)
  BY <1>3
<1>5. PICK kind, keys, failed, index : Alloc(NewRequest, kind, keys, failed, index)
  BY DEF ScriptCreates, Allocates
<1>6. KeepsStreams
  <2> SUFFICES ASSUME NEW s \in Server, NEW r \in ToSet(ToRead(s))
               PROVE  request'[r].io = request[r].io
    BY DEF KeepsStreams
  <2>1. r \in Created /\ DOMAIN request = Created
    BY ReadCreated DEF TypeInv, ReqsOK, Created
  <2>2. CASE r = NewRequest
    <3>1. request' = [request EXCEPT ![r] = [kind |-> kind, keys |-> keys, failed |-> failed,
                                             index |-> index, io |-> request[r].io]]
      BY <1>5, <2>1, <2>2 DEF Alloc, Put, OldIo
    <3> QED BY <2>1, <3>1
  <2>3. CASE r # NewRequest
    <3>1. PICK new : new = NewRequest
      OBVIOUS
    <3>2. \A x \in Created \ {new} : request'[x] = request[x]
      BY <1>5, <3>1, Allocated
    <3> QED BY <2>1, <2>3, <3>1, <3>2
  <2> QED BY <2>2, <2>3
<1>7. /\ Goto(f) /\ Len(f) \in Nat \ {0} /\ f[1].pc = "schedule"
      /\ \A i \in 1 .. Len(f) : f[i].pc \in ScriptPcs \cup {"schedule"}
      /\ \A i \in 2 .. Len(f) : f[i].pc \in ScriptPcs
  <2>1. ASSUME NEW i \in 1 .. Len(f) PROVE f[i].pc \in ScriptPcs \cup {"schedule"}
    BY <1>4 DEF Schedules
  <2> QED BY <1>4, <2>1 DEF Schedules
<1>8. Chained'
  <2>1. \A i \in 1 .. Len(f) : f[i].pc \notin {"retry", "retryRead"}
    BY <1>7, ScriptPlain
  <2>2. ASSUME NEW i \in 1 .. Len(f), i + 1 \in 1 .. Len(f) PROVE Follows(f[i], f[i + 1])
    <3>1. i + 1 \in 2 .. Len(f)
      BY <2>2
    <3>2. f[i + 1].pc \in ScriptPcs /\ f[i].pc \in ScriptPcs \cup {"schedule"}
      BY <1>7, <3>1
    <3> QED BY <3>2, ScriptPlain
  <2>3. /\ f[Len(f)].pc \notin {"slot", "unqueue", "early"}
        /\ top.pc \notin {"slot", "unqueue", "early"}
    <3>1. Len(f) \in 1 .. Len(f)
      BY <1>7
    <3>2. f[Len(f)].pc \in ScriptPcs \cup {"schedule"}
      BY <1>7, <3>1
    <3> QED BY <3>2, ScriptPlain
  <2> QED BY <1>1, <1>7, <2>1, <2>2, <2>3, ChainStep
<1>9. OnStack' = ToSet(f) \cup Under
  BY <1>7, StackSets
<1>10. stack' = <<>> \/ top'.pc \notin BusyPcs
  BY <1>7, HeadAfter DEF BusyPcs
<1>11. \A h \in ToSet(f) : h.pc \in ScriptPcs \cup {"schedule"} \/ h = NoLoop
  BY <1>7, ToSetElements
<1>12. NoLoop.pc = "none"
  BY DEF NoLoop, Loop, FrameOf
<1> QED BY <1>1, <1>2, <1>6, <1>8, <1>9, <1>10, <1>11, <1>12, ScriptRounds

LEMMA CallsRounds ==
  ASSUME TypeInv, TypeInv', OwnerInv, OwnerInv', RoundsInv,
         RunRounds \/ Store \/ Stored \/ CloneKey \/ Flush \/ Flushed \/ Ask \/ Asked
  PROVE  RoundsInv'
<1>1. CASE RunRounds \/ Stored \/ Flushed \/ Asked \/ ((Store \/ Flush \/ Ask) /\ top.q = <<>>)
  BY <1>1, ScriptCalls, ScriptGoesOnRounds
<1>2. CASE (Store \/ Flush \/ Ask) /\ top.q # <<>>
  BY <1>2, StoreCalls, CreatesRounds
<1>3. CASE CloneKey
  BY <1>3, CloneCalls, CreatesRounds, ScriptGoesOnRounds
<1> QED BY <1>1, <1>2, <1>3

----------------------------------------------------------------------------
(* The handlers of one server, below which its round waits.                *)

LEMMA HandlerStep ==
  ASSUME TypeInv, TypeInv', OwnerInv, OwnerInv', RoundsInv, Chained', stack # <<>>,
         NEW f, Served(f), NEW X, OnStack = {top} \cup Under, OnStack' = X \cup Under,
         top.pc \notin LoopPcs \cup {"unread"}, \A g \in X : Allowed(f, g),
         UNCHANGED cur, QueuesInv',
         \A w \in 1 .. 2 : w # cur => sending'[w] = sending[w] /\ reading'[w] = reading[w],
         NEW s \in Server, top.pc \notin BusyPcs \/ top.s = s,
         stack' = <<>> \/ top'.pc \notin BusyPcs \/ top'.s = s,
         \A t \in Server : t # s => Kept(t),
         StillToSend(f)' = StillToSend(f) /\ StillToRead(f)' = StillToRead(f) => RoundInv(f, s)'
  PROVE  RoundsInv'
<1>1. /\ Governs(f)'
      /\ StillToSend(f)' = StillToSend(f) /\ StillToRead(f)' = StillToRead(f)
  BY Waits DEF Served
<1>2. \A t : KeepsPlace(f, f, t)
  BY <1>1, SamePlace
<1>3. Served(f)'
  BY <1>1, <1>2, ServedStep DEF RoundsInv, OwnerInv
<1> QED BY <1>3, Assemble

(* The slots of a server whose handlers do not shift them. *)
LEMMA StreamsKept ==
  ASSUME TypeInv, TypeInv', Shape, Shape', Chained, Chained', NEW s \in Server,
         stack = <<>> \/ top.pc \notin ShiftPcs \/ top.s # s,
         stack' = <<>> \/ top'.pc \notin ShiftPcs \/ top'.s # s,
         UNCHANGED <<sendqueue, readreq, readqueue, request>>, StreamInv(s)
  PROVE  StreamInv(s)'
<1>1. SlottedAt(s)
  BY ElsewhereSlots DEF Elsewhere
<1>2. SlottedAt(s)'
  <2>1. Elsewhere'
    BY ElsewhereSlots, PTL
  <2> QED BY <2>1 DEF Elsewhere
<1>3. ToRead(s)' = ToRead(s)
  BY DEF ToRead
<1>4. Reads(s)' = Reads(s)
  BY <1>1, <1>2, <1>3 DEF SlottedAt
<1>5. ~(Slotting(s) /\ stack # <<>>)
  BY DEF Slotting, At, ShiftPcs, top
<1> QED BY <1>4, <1>5 DEF StreamInv, Slotting, At

(* The requests of a server that were not slotted anywhere else. *)
LEMMA IosKept ==
  ASSUME UNCHANGED <<status, link, sendreq, readreq, sendqueue, readqueue, request>>, NEW t \in Server,
         (t \in NextSend)' = (t \in NextSend), (t \in NextRead)' = (t \in NextRead)
  PROVE  Kept(t)
BY DEF Kept

LEMMA NotBusyNext ==
  ASSUME NEW t, ~Busy(t)'
  PROVE  /\ ~XmitAt(t)' /\ ~UnqueueAt(t)' /\ ~EarlyAt(t)' /\ ~ParseAt(t)' /\ ~FailingAt(t)'
         /\ ~Slotting(t)'
BY DEF Busy, XmitAt, UnqueueAt, EarlyAt, ParseAt, FailingAt, Doing, BusyPcs, Slotting, At, top

LEMMA NeverRetries ==
  TypeInv /\ Shape /\ Chained => (stack # <<>> => top.pc \notin {"retry", "retryRead"})
BY SecondFrame

LEMMA NeverRetriesNext ==
  ASSUME TypeInv', Shape', Chained', stack' # <<>>
  PROVE  top'.pc \notin {"retry", "retryRead"}
<1>1. (stack # <<>> => top.pc \notin {"retry", "retryRead"})'
  BY NeverRetries, PTL
<1> QED BY <1>1

(* The handler of a stream returns: the request is sent in a later round,  *)
(* or there is none.                                                       *)
LEMMA Rests ==
  ASSUME TypeInv, TypeInv', Shape, Shape', Chained, Chained', stack # <<>>,
         NEW f, NEW s \in Server, RoundInv(f, s), top.s = s, top.pc \in {"xmit", "parse"},
         stack' = <<>> \/ top'.pc \notin BusyPcs,
         UNCHANGED <<status, link, sendreq, sendqueue, readreq, readqueue, request>>,
         StillToSend(f)' = StillToSend(f), StillToRead(f)' = StillToRead(f),
         (s \in NextSend)' <=> s \in NextSend \/ (top.pc = "xmit" /\ sendreq[s] # Null),
         (s \in NextRead)' <=> s \in NextRead \/ (top.pc = "parse" /\ readreq[s] # Null)
  PROVE  RoundInv(f, s)'
<1>1. /\ XmitAt(s) <=> top.pc = "xmit"
      /\ ParseAt(s) <=> top.pc = "parse"
      /\ ~EarlyAt(s) /\ ~UnqueueAt(s) /\ ~FailingAt(s)
  BY DEF XmitAt, ParseAt, EarlyAt, UnqueueAt, FailingAt, Doing
<1>2. ~Busy(s)'
  BY DEF Busy, Doing
<1>3. ~XmitAt(s)' /\ ~UnqueueAt(s)' /\ ~EarlyAt(s)' /\ ~ParseAt(s)' /\ ~FailingAt(s)' /\ ~Slotting(s)'
  BY <1>2, NotBusyNext
<1>4. SendInv(f, s)' /\ ReadInv(f, s)'
  BY <1>1, <1>3 DEF RoundInv, SendInv, ReadInv
<1>5. ConnectionInv(s)'
  BY <1>1, <1>3 DEF RoundInv, ConnectionInv, IsOpen, IdleAt
<1>6. StreamInv(s)'
  <2>1. top.pc \notin ShiftPcs /\ (stack' = <<>> \/ top'.pc \notin ShiftPcs \/ top'.s # s)
    <3>1. stack' # <<>> => top'.pc # "retryRead"
      BY NeverRetriesNext
    <3> QED BY <3>1 DEF ShiftPcs, BusyPcs
  <2> QED BY <2>1, StreamsKept DEF RoundInv
<1> QED BY <1>4, <1>5, <1>6 DEF RoundInv

(* SendEnd, ParseEnd, SendMore and ParseMore. *)
LEMMA RestsRounds ==
  ASSUME TypeInv, TypeInv', OwnerInv, OwnerInv', RoundsInv,
         SendEnd \/ ParseEnd \/ SendMore \/ ParseMore
  PROVE  RoundsInv'
<1>1. /\ stack # <<>> /\ top.pc \in {"xmit", "parse"}
      /\ UNCHANGED <<conn, slots, request, cur>> \/ (UNCHANGED <<status, link, slots, request, cur>>)
  BY DEF SendEnd, ParseEnd, SendMore, ParseMore, At, top, conn, rounds, reqs, Sending, Parsing
<1>2. UNCHANGED <<status, link, sendreq, sendqueue, readreq, readqueue, request, cur>>
  BY <1>1 DEF conn, slots
<1>3. Shape /\ Shape' /\ Chained
  BY DEF OwnerInv, RoundsInv
<1>4. in_select /\ \A g : Proceed(g) => Goto(g)
  BY <1>1, <1>3, InRound DEF RoundPcs
<1>5. Goto(<<>>)
  BY <1>4 DEF SendEnd, ParseEnd, SendMore, ParseMore, Return
<1> DEFINE X == {}
<1>6. /\ Chained' /\ OnStack = {top} \cup Under /\ OnStack' = X \cup Under
      /\ stack' = <<>> \/ top'.pc \notin BusyPcs
  BY <1>1, <1>3, <1>5, ChainReturn
<1>7. PICK f : Served(f)
  BY DEF RoundsInv
<1>8. PICK s : s = top.s
  OBVIOUS
<1>9. s \in Server
  <2>1. top \in Frames(Created)
    BY <1>1, FirstElement DEF TypeInv, StackOK, top
  <2> QED BY <1>1, <1>8, <2>1 DEF Frames, FrameOK, ServerPcs
<1>10. /\ \A w \in 1 .. 2 : w # cur => sending'[w] = sending[w] /\ reading'[w] = reading[w]
       /\ Distinct(sending'[cur]) /\ Distinct(reading'[cur])
       /\ \A t \in Server : /\ (t \in NextSend)' <=> t \in NextSend \/ (t = s /\ top.pc = "xmit" /\ sendreq[s] # Null)
                            /\ (t \in NextRead)' <=> t \in NextRead \/ (t = s /\ top.pc = "parse" /\ readreq[s] # Null)
  <2>1. /\ cur \in 1 .. 2 /\ DOMAIN sending = 1 .. 2 /\ DOMAIN reading = 1 .. 2
        /\ sending[cur] \in Seq(Server) /\ reading[cur] \in Seq(Server)
        /\ Distinct(sending[cur]) /\ Distinct(reading[cur])
    BY QueueTyped DEF RoundsInv, QueuesInv
  <2>2. CASE SendEnd \/ ParseEnd
    <3>1. UNCHANGED <<sending, reading>> /\ (top.pc = "xmit" => sendreq[s] = Null)
          /\ (top.pc = "parse" => readreq[s] = Null)
      BY <1>8, <2>2 DEF SendEnd, ParseEnd, rounds, At, top
    <3> QED BY <1>2, <2>1, <3>1 DEF NextSend, NextRead
  <2>3. CASE SendMore
    <3>1. /\ sending' = [sending EXCEPT ![cur] = Push(@, s)] /\ UNCHANGED reading
          /\ top.pc = "xmit" /\ sendreq[s] # Null
      BY <1>4, <1>8, <2>3 DEF SendMore, Sending, At, top
    <3>2. Distinct(Push(sending[cur], s)) /\ \A t : t \in ToSet(Push(sending[cur], s)) <=> t = s \/ t \in ToSet(sending[cur])
      BY <1>9, <2>1, QueueAdds
    <3>3. sending'[cur] = Push(sending[cur], s) /\ \A w \in 1 .. 2 : w # cur => sending'[w] = sending[w]
      BY <2>1, <3>1
    <3> QED BY <1>2, <2>1, <3>1, <3>2, <3>3 DEF NextSend, NextRead
  <2>4. CASE ParseMore
    <3>1. /\ reading' = [reading EXCEPT ![cur] = Push(@, s)] /\ UNCHANGED sending
          /\ top.pc = "parse" /\ readreq[s] # Null
      BY <1>4, <1>8, <2>4 DEF ParseMore, Parsing, At, top
    <3>2. Distinct(Push(reading[cur], s)) /\ \A t : t \in ToSet(Push(reading[cur], s)) <=> t = s \/ t \in ToSet(reading[cur])
      BY <1>9, <2>1, QueueAdds
    <3>3. reading'[cur] = Push(reading[cur], s) /\ \A w \in 1 .. 2 : w # cur => reading'[w] = reading[w]
      BY <2>1, <3>1
    <3> QED BY <1>2, <2>1, <3>1, <3>2, <3>3 DEF NextSend, NextRead
  <2> QED BY <2>2, <2>3, <2>4
<1>11. QueuesInv'
  BY <1>2, <1>10 DEF RoundsInv, QueuesInv
<1>12. \A t \in Server : t # s => Kept(t)
  BY <1>2, <1>10 DEF Kept
<1>13. StillToSend(f)' = StillToSend(f) /\ StillToRead(f)' = StillToRead(f) => RoundInv(f, s)'
  <2>1. RoundInv(f, s)
    BY <1>7, <1>9 DEF Served
  <2> QED BY <1>1, <1>2, <1>3, <1>6, <1>8, <1>9, <1>10, <2>1, Rests
<1>14. \A g \in X : Allowed(f, g)
  OBVIOUS
<1>15. top.pc \notin LoopPcs \cup {"unread"}
  BY <1>1 DEF LoopPcs
<1> HIDE DEF X
<1> QED BY <1>1, <1>2, <1>6, <1>7, <1>8, <1>9, <1>10, <1>11, <1>12, <1>13, <1>14, <1>15, HandlerStep

(* A stream that is in use is not retried.                                 *)
LEMMA NotRetried ==
  ASSUME NEW s, ConnectionInv(s), ~IdleAt(s), ~EarlyAt(s)
  PROVE  ~Retryable(s) /\ (ServerFailure(s) => UNCHANGED status)
BY DEF ConnectionInv, Retryable, IsOpen, ServerFailure

(* The handler of a server finds that it has failed.                       *)
LEMMA FailsRounds ==
  ASSUME TypeInv, TypeInv', OwnerInv, OwnerInv', RoundsInv, stack # <<>>,
         top.pc \in {"parse", "late"}, NEW s \in Server, s = top.s,
         UNCHANGED <<status, link, Slots, sending, reading, cur, request>>,
         Goto(<<Frame("deactivate", s, Null)>>)
  PROVE  RoundsInv'
<1>1. Shape /\ Shape' /\ Chained
  BY DEF OwnerInv, RoundsInv
<1>2. PICK a : a = Frame("deactivate", s, Null)
  OBVIOUS
<1>3. a.pc = "deactivate" /\ a.s = s /\ Goto(<<a>>)
  BY <1>2 DEF Frame, FrameOf
<1> DEFINE X == {a}
<1>4. /\ Chained' /\ OnStack = {top} \cup Under /\ OnStack' = X \cup Under
      /\ stack' # <<>> /\ top' = a
  BY <1>1, <1>3, ChainOne
<1>5. PICK f : Served(f)
  BY DEF RoundsInv
<1>6. /\ ~XmitAt(s) /\ ~UnqueueAt(s) /\ ~EarlyAt(s) /\ ~Slotting(s)
      /\ ParseAt(s) <=> top.pc = "parse"
      /\ FailingAt(s) <=> top.pc = "late"
  BY DEF XmitAt, ParseAt, EarlyAt, UnqueueAt, FailingAt, Doing, Slotting, At, top
<1>7. /\ ~XmitAt(s)' /\ ~UnqueueAt(s)' /\ ~EarlyAt(s)' /\ ~Slotting(s)'
      /\ ~ParseAt(s)' /\ FailingAt(s)'
  BY <1>3, <1>4 DEF XmitAt, ParseAt, EarlyAt, UnqueueAt, FailingAt, Doing, Slotting, At, top
<1>8. RoundInv(f, s)
  BY <1>5 DEF Served
<1>9. NextSend' = NextSend /\ NextRead' = NextRead
  BY DEF NextSend, NextRead
<1>10. s \notin StillToSend(f)
  <2>1. CASE top.pc = "late"
    BY <1>6, <1>8, <2>1 DEF RoundInv, SendInv
  <2>2. CASE top.pc = "parse"
    <3>1. f.pc = "read"
      BY <1>4, <1>5, <2>2 DEF Served, Governs
    <3> QED BY <3>1 DEF StillToSend
  <2> QED BY <2>1, <2>2
<1>11. s \notin StillToRead(f)
  BY <1>6, <1>8 DEF RoundInv, ReadInv
<1>12. ASSUME StillToSend(f)' = StillToSend(f), StillToRead(f)' = StillToRead(f)
       PROVE  RoundInv(f, s)'
  <2>1. SendInv(f, s)' /\ ReadInv(f, s)'
    BY <1>6, <1>7, <1>8, <1>9, <1>10, <1>11, <1>12, SameSlots DEF RoundInv, SendInv, ReadInv
  <2>2. ConnectionInv(s)'
    BY <1>6, <1>7, <1>8, SameSlots DEF RoundInv, ConnectionInv, IsOpen
  <2>3. StreamInv(s)'
    <3>1. top.pc \notin ShiftPcs /\ top'.pc \notin ShiftPcs
      BY <1>3, <1>4 DEF ShiftPcs
    <3> QED BY <1>1, <1>4, <1>8, <3>1, StreamsKept DEF RoundInv, Slots
  <2> QED BY <2>1, <2>2, <2>3 DEF RoundInv
<1>13. \A t \in Server : t # s => Kept(t)
  BY KeptAll, StreamsSame
<1>14. QueuesInv'
  BY QueuesSame DEF RoundsInv
<1>15. \A g \in X : Allowed(f, g)
  BY <1>3 DEF Allowed, LoopPcs
<1>16. top.pc \notin LoopPcs \cup {"unread"}
  BY DEF LoopPcs
<1> HIDE DEF X
<1> QED BY <1>4, <1>3, <1>5, <1>12, <1>13, <1>14, <1>15, <1>16, HandlerStep

LEMMA ParseFailsRounds ==
  ASSUME TypeInv, TypeInv', OwnerInv, OwnerInv', RoundsInv, ParseError \/ ParseEof
  PROVE  RoundsInv'
<1>1. PICK s : s = top.s
  OBVIOUS
<1>2. /\ stack # <<>> /\ top.pc = "parse" /\ readreq[s] # Null
      /\ ServerFailure(s) \/ UNCHANGED status
      /\ UNCHANGED <<link, Slots, sending, reading, cur, request>>
      /\ Proceed(<<IF Retryable(s) THEN Frame("retry", s, readreq[s]) ELSE Frame("deactivate", s, Null)>>)
  BY <1>1 DEF ParseError, ParseEof, Parsing, At, top, slots, Slots, rounds, reqs
<1>3. s \in Server
  <2>1. top \in Frames(Created)
    BY <1>2, FirstElement DEF TypeInv, StackOK, top
  <2> QED BY <1>1, <1>2, <2>1 DEF Frames, FrameOK, ServerPcs
<1>4. ~Retryable(s) /\ (ServerFailure(s) => UNCHANGED status)
  <2>1. ConnectionInv(s)
    BY <1>3 DEF RoundsInv, Served, RoundInv
  <2>2. ~IdleAt(s) /\ ~EarlyAt(s)
    BY <1>2 DEF IdleAt, EarlyAt, UnqueueAt, Doing
  <2> QED BY <2>1, <2>2, NotRetried
<1>5. Goto(<<Frame("deactivate", s, Null)>>)
  BY <1>2, <1>4, InRound DEF OwnerInv, RoundPcs
<1> QED BY <1>1, <1>2, <1>3, <1>4, <1>5, FailsRounds

LEMMA LateRounds ==
  ASSUME TypeInv, TypeInv', OwnerInv, OwnerInv', RoundsInv, Late
  PROVE  RoundsInv'
<1>1. PICK s : s = top.s
  OBVIOUS
<1>2. /\ stack # <<>> /\ top.pc = "late"
      /\ ServerFailure(s) \/ UNCHANGED status
      /\ UNCHANGED <<link, Slots, sending, reading, cur, request>>
      /\ Retryable(s) \/ Goto(<<Frame("deactivate", s, Null)>>)
  BY <1>1 DEF Late, At, top, slots, Slots, rounds, reqs
<1>3. s \in Server
  <2>1. top \in Frames(Created)
    BY <1>2, FirstElement DEF TypeInv, StackOK, top
  <2> QED BY <1>1, <1>2, <2>1 DEF Frames, FrameOK, ServerPcs
<1>4. ~Retryable(s) /\ (ServerFailure(s) => UNCHANGED status)
  <2>1. ConnectionInv(s)
    BY <1>3 DEF RoundsInv, Served, RoundInv
  <2>2. ~EarlyAt(s)
    BY <1>2 DEF EarlyAt, UnqueueAt, Doing
  <2>3. top.r \in ToSet(Reads(s))
    <3>1. PICK own : Owned(own)
      BY DEF OwnerInv
    <3>2. FrameInv(own, top, Len(stack))
      BY <1>2, <3>1, TopFrame
    <3> QED BY <1>1, <1>2, <3>2 DEF FrameInv
  <2>4. ToSet(ToRead(s)) # {} /\ ToRead(s) \in Seq(Created)
    <3>1. SlottedAt(s)
      BY <1>2, <1>3, ElsewhereSlots DEF Elsewhere, OwnerInv, ShiftPcs
    <3> QED BY <1>3, <2>3, <3>1, SlotTypesOf DEF SlottedAt
  <2>5. ~IdleAt(s)
    <3>1. ToRead(s) # <<>>
      BY <2>4, ToSetElements
    <3> QED BY <3>1 DEF IdleAt, ToRead, Slotted
  <2> QED BY <2>1, <2>2, <2>5, NotRetried
<1> QED BY <1>1, <1>2, <1>3, <1>4, FailsRounds

LEMMA TopServer ==
  ASSUME TypeInv, stack # <<>>, top.pc \in ServerPcs
  PROVE  top.s \in Server
<1>1. top \in Frames(Created)
  BY FirstElement DEF TypeInv, StackOK, top
<1> QED BY <1>1 DEF Frames, FrameOK

(* ... or has failed while a request was sent, and is not read from.       *)
LEMMA SendErrorRounds ==
  ASSUME TypeInv, TypeInv', OwnerInv, OwnerInv', RoundsInv, SendError
  PROVE  RoundsInv'
<1>1. PICK s : s = top.s
  OBVIOUS
<1>2. /\ stack # <<>> /\ top.pc = "xmit" /\ sendreq[s] # Null
      /\ ServerFailure(s)
      /\ UNCHANGED <<link, Slots, sending, reading, cur, request>>
      /\ Proceed(IF Retryable(s) THEN <<Frame("retry", s, sendreq[s])>>
                 ELSE <<Frame("deactivate", s, Null), FrameOf("unread", s, Null, <<>>, top.w, 0)>>)
  BY <1>1 DEF SendError, Sending, At, top, slots, Slots, rounds, reqs
<1>3. s \in Server
  BY <1>1, <1>2, TopServer DEF ServerPcs
<1>4. PICK f : Served(f)
  BY DEF RoundsInv
<1>5. RoundInv(f, s) /\ Governs(f)
  BY <1>3, <1>4 DEF Served
<1>6. ~Retryable(s) /\ UNCHANGED status
  <2>1. ~IdleAt(s) /\ ~EarlyAt(s)
    BY <1>2 DEF IdleAt, EarlyAt, UnqueueAt, Doing
  <2> QED BY <1>2, <1>5, <2>1, NotRetried DEF RoundInv
<1>7. Shape /\ Shape' /\ Chained
  BY DEF OwnerInv, RoundsInv
<1>8. PICK a, b : a = Frame("deactivate", s, Null) /\ b = FrameOf("unread", s, Null, <<>>, top.w, 0)
  OBVIOUS
<1>9. /\ a.pc = "deactivate" /\ a.s = s /\ b.pc = "unread" /\ b.s = s /\ b.w = top.w
  BY <1>8 DEF Frame, FrameOf
<1>10. Goto(<<a, b>>)
  BY <1>2, <1>6, <1>7, <1>8, InRound DEF RoundPcs
<1>11. /\ Chained' /\ OnStack = {top} \cup Under /\ OnStack' = {a, b} \cup Under
       /\ stack' # <<>> /\ top' = a
  <2>1. Follows(a, b)
    BY <1>9 DEF Follows
  <2> QED BY <1>2, <1>7, <1>9, <1>10, <2>1, ChainTwo
<1>12. f.pc = "send" /\ top.w = f.w /\ f \in Under
  BY <1>2, <1>5, <1>11 DEF Governs
<1>13. Governs(f)'
  BY <1>2, <1>5, <1>9, <1>11, <1>12 DEF Governs, LoopPcs
<1>14. ASSUME NEW t, t # s PROVE Unreading(t)' = Unreading(t)
  BY <1>2, <1>9, <1>11, <1>14 DEF Unreading
<1>15. Unreading(s)'
  BY <1>9, <1>11 DEF Unreading
<1>16. /\ StillToSend(f)' = StillToSend(f)
       /\ \A t : t # s => (t \in StillToRead(f))' = (t \in StillToRead(f))
       /\ ~(s \in StillToRead(f))'
  BY <1>2, <1>12, <1>14, <1>15 DEF StillToSend, StillToRead, Left
<1>17. /\ ~UnqueueAt(s) /\ ~EarlyAt(s) /\ ~Slotting(s) /\ ~ParseAt(s) /\ ~FailingAt(s) /\ XmitAt(s)
  BY <1>1, <1>2 DEF XmitAt, ParseAt, EarlyAt, UnqueueAt, FailingAt, Doing, Slotting, At, top
<1>18. /\ ~XmitAt(s)' /\ ~UnqueueAt(s)' /\ ~EarlyAt(s)' /\ ~Slotting(s)'
       /\ ~ParseAt(s)' /\ FailingAt(s)'
  BY <1>9, <1>11 DEF XmitAt, ParseAt, EarlyAt, UnqueueAt, FailingAt, Doing, Slotting, At, top
<1>19. NextSend' = NextSend /\ NextRead' = NextRead
  BY <1>2 DEF NextSend, NextRead
<1>20. RoundInv(f, s)'
  <2>1. SendInv(f, s)' /\ ReadInv(f, s)'
    BY <1>2, <1>3, <1>5, <1>16, <1>17, <1>18, <1>19, SameSlots DEF RoundInv, SendInv, ReadInv
  <2>2. ConnectionInv(s)'
    BY <1>2, <1>3, <1>5, <1>6, <1>17, <1>18, SameSlots DEF RoundInv, ConnectionInv, IsOpen
  <2>3. StreamInv(s)'
    <3>1. top.pc \notin ShiftPcs /\ top'.pc \notin ShiftPcs
      BY <1>2, <1>9, <1>11 DEF ShiftPcs
    <3> QED BY <1>2, <1>3, <1>5, <1>7, <1>11, <3>1, StreamsKept DEF RoundInv, Slots
  <2> QED BY <2>1, <2>2, <2>3 DEF RoundInv
<1>21. Served(f)'
  <2>1. \A t \in Server : t # s => Kept(t) /\ KeepsPlace(f, f, t)
    <3>1. \A t \in Server : Kept(t)
      BY <1>2, <1>6, KeptAll, StreamsSame
    <3> QED BY <1>16, <3>1 DEF KeepsPlace
  <2> QED BY <1>1, <1>4, <1>7, <1>9, <1>11, <1>13, <1>20, <2>1, ServedStep
<1>22. QueuesInv'
  BY <1>2, QueuesSame DEF RoundsInv
<1> QED BY <1>11, <1>21, <1>22, Assemble

LEMMA UnreadRounds ==
  ASSUME TypeInv, TypeInv', OwnerInv, OwnerInv', RoundsInv, Unread
  PROVE  RoundsInv'
<1>1. PICK s, w : s = top.s /\ w = top.w
  OBVIOUS
<1>2. /\ stack # <<>> /\ top.pc = "unread" /\ Goto(<<>>)
      /\ UNCHANGED <<status, link, Slots, sending, cur, request>>
      /\ reading' = [reading EXCEPT ![w] = Without(@, s)]
  BY <1>1 DEF Unread, At, top, conn, slots, Slots, rounds, reqs, Return
<1>3. PICK f : Served(f)
  BY DEF RoundsInv
<1>4. Shape /\ Shape' /\ Chained /\ Governs(f)
  BY <1>3 DEF OwnerInv, RoundsInv, Served
<1>5. /\ Chained' /\ OnStack = {top} \cup Under /\ OnStack' = Under
      /\ stack' = <<>> \/ top'.pc \notin BusyPcs
  BY <1>2, <1>4, ChainReturn
<1>6. f.pc = "send" /\ w = f.w /\ f \in Under
  BY <1>1, <1>2, <1>4, <1>5 DEF Governs
<1>7. w \in 1 .. 2 /\ w # cur /\ cur \in 1 .. 2
  BY <1>4, <1>6, LoopFrame DEF InRoundPcs
<1>8. /\ reading'[cur] = reading[cur]
      /\ Distinct(reading[w]') /\ \A v \in 1 .. 2 : v # w => reading'[v] = reading[v]
      /\ \A t : t \in ToSet(reading[w]') <=> t # s /\ t \in ToSet(reading[w])
  <2>1. DOMAIN reading = 1 .. 2 /\ reading[w] \in Seq(Server) /\ Distinct(reading[w])
    BY <1>7, QueueTyped DEF RoundsInv, QueuesInv
  <2>2. reading[w]' = Without(reading[w], s) /\ \A v \in 1 .. 2 : v # w => reading'[v] = reading[v]
    BY <1>2, <1>7, <2>1
  <2> QED BY <1>7, <2>1, <2>2, QueueDrops
<1>9. Governs(f)'
  BY <1>2, <1>4, <1>5, <1>6 DEF Governs, LoopPcs
<1>10. ASSUME NEW t, t # s PROVE Unreading(t)' = Unreading(t)
  BY <1>1, <1>2, <1>5, <1>10 DEF Unreading
<1>11. Unreading(s)
  BY <1>1, <1>2, <1>5 DEF Unreading
<1>12. \A t : KeepsPlace(f, f, t)
  <2>1. reading'[f.w] = reading[w]' /\ StillToSend(f)' = StillToSend(f)
    BY <1>2, <1>6 DEF StillToSend, Left
  <2>2. StillToRead(f) = {t \in ToSet(reading[w]) : ~Unreading(t)}
    BY <1>6 DEF StillToRead
  <2>3. StillToRead(f)' = {t \in ToSet(reading[w]') : ~Unreading(t)'}
    BY <1>6, <2>1 DEF StillToRead
  <2>4. \A t : (t \in StillToRead(f))' = (t \in StillToRead(f))
    BY <1>8, <1>10, <1>11, <2>2, <2>3
  <2> QED BY <2>1, <2>4 DEF KeepsPlace
<1>13. \A t \in Server : Kept(t)
  <2>1. NextSend' = NextSend /\ NextRead' = NextRead
    BY <1>2, <1>8 DEF NextSend, NextRead
  <2> QED BY <1>2, <2>1, IosKept DEF Slots
<1>14. Served(f)'
  <2>1. NoServer \notin Server /\ top.pc \notin BusyPcs
    BY <1>2, ServerAssumption DEF BusyPcs
  <2> QED BY <1>3, <1>4, <1>5, <1>9, <1>12, <1>13, <2>1, ServedStep
<1>15. QueuesInv'
  BY <1>2, <1>7, <1>8 DEF RoundsInv, QueuesInv
<1> QED BY <1>5, <1>14, <1>15, Assemble

(* A server is deactivated.                                                *)
LEMMA DeactivateRounds ==
  ASSUME TypeInv, TypeInv', OwnerInv, OwnerInv', RoundsInv, Deactivate
  PROVE  RoundsInv'
<1>1. PICK s : s = top.s
  OBVIOUS
<1>2. /\ stack # <<>> /\ top.pc = "deactivate" /\ Vacate(s) /\ Depart(s)
      /\ link' = [link EXCEPT ![s] = "none"]
      /\ \E x \in {"retriable", "failed"} : status' = [status EXCEPT ![s] = x]
      /\ UNCHANGED <<cur, request>>
      /\ \E mine : Goto(<<FrameOf("drain", s, Null, mine, 0, 0)>>)
  BY <1>1 DEF Deactivate, FailedStatus, At, top, Hangup, reqs
<1>3. s \in Server
  BY <1>1, <1>2, TopServer DEF ServerPcs
<1>4. PICK mine : Goto(<<FrameOf("drain", s, Null, mine, 0, 0)>>)
  BY <1>2
<1>5. PICK a : a = FrameOf("drain", s, Null, mine, 0, 0)
  OBVIOUS
<1>6. a.pc = "drain" /\ Goto(<<a>>)
  BY <1>4, <1>5 DEF FrameOf
<1>7. Shape /\ Shape' /\ Chained
  BY DEF OwnerInv, RoundsInv
<1> DEFINE X == {a}
<1>8. /\ Chained' /\ OnStack = {top} \cup Under /\ OnStack' = X \cup Under
      /\ stack' # <<>> /\ top' = a
  BY <1>2, <1>6, <1>7, ChainOne
<1>9. PICK f : Served(f)
  BY DEF RoundsInv
<1>10. RoundInv(f, s)
  BY <1>3, <1>9 DEF Served
<1>11. FailingAt(s)
  BY <1>1, <1>2 DEF FailingAt, Doing
<1>12. ~Busy(s)'
  BY <1>6, <1>8 DEF Busy, Doing, BusyPcs
<1>13. /\ \A w \in 1 .. 2 : w # cur => sending'[w] = sending[w] /\ reading'[w] = reading[w]
       /\ Distinct(sending'[cur]) /\ Distinct(reading'[cur])
       /\ \A t : /\ (t \in NextSend)' <=> t # s /\ t \in NextSend
                 /\ (t \in NextRead)' <=> t # s /\ t \in NextRead
  <2>1. /\ cur \in 1 .. 2 /\ DOMAIN sending = 1 .. 2 /\ DOMAIN reading = 1 .. 2
        /\ sending[cur] \in Seq(Server) /\ reading[cur] \in Seq(Server)
        /\ Distinct(sending[cur]) /\ Distinct(reading[cur])
    BY QueueTyped DEF RoundsInv, QueuesInv
  <2>2. sending'[cur] = Without(sending[cur], s) /\ reading'[cur] = Without(reading[cur], s)
    BY <1>2, <2>1 DEF Depart
  <2>3. \A w \in 1 .. 2 : w # cur => sending'[w] = sending[w] /\ reading'[w] = reading[w]
    BY <1>2, <2>1 DEF Depart
  <2>4. /\ Distinct(Without(sending[cur], s))
        /\ \A t : t \in ToSet(Without(sending[cur], s)) <=> t # s /\ t \in ToSet(sending[cur])
    BY <2>1, QueueDrops
  <2>5. /\ Distinct(Without(reading[cur], s))
        /\ \A t : t \in ToSet(Without(reading[cur], s)) <=> t # s /\ t \in ToSet(reading[cur])
    BY <2>1, QueueDrops
  <2> QED BY <1>2, <2>2, <2>3, <2>4, <2>5 DEF NextSend, NextRead
<1>14. QueuesInv'
  BY <1>2, <1>13 DEF RoundsInv, QueuesInv
<1>15. /\ \A t \in Server : t # s =>
            /\ status'[t] = status[t] /\ link'[t] = link[t]
            /\ sendreq'[t] = sendreq[t] /\ readreq'[t] = readreq[t]
            /\ sendqueue'[t] = sendqueue[t] /\ readqueue'[t] = readqueue[t]
       /\ IdleAt(s)' /\ status'[s] \in {"retriable", "failed"}
  BY <1>2, <1>3 DEF Vacate, TypeInv, ConnOK, SlotsOK, IdleAt
<1>16. \A t \in Server : t # s => Kept(t)
  BY <1>2, <1>13, <1>15 DEF Kept
<1>17. /\ ~XmitAt(s)' /\ ~UnqueueAt(s)' /\ ~EarlyAt(s)' /\ ~ParseAt(s)' /\ ~FailingAt(s)'
  BY <1>12, NotBusyNext
<1>18. ASSUME StillToSend(f)' = StillToSend(f), StillToRead(f)' = StillToRead(f)
       PROVE  RoundInv(f, s)'
  <2>1. SendInv(f, s)' /\ ReadInv(f, s)'
    BY <1>10, <1>11, <1>13, <1>15, <1>18 DEF RoundInv, SendInv, ReadInv, IdleAt
  <2>2. ConnectionInv(s)'
    BY <1>15, <1>17 DEF ConnectionInv, IsOpen
  <2>3. StreamInv(s)'
    <3>1. Elsewhere'
      BY <1>7, ElsewhereSlots, PTL
    <3>2. Reads(s)' = ToRead(s)'
      BY <1>3, <1>6, <1>8, <3>1 DEF Elsewhere, SlottedAt, ShiftPcs
    <3>3. ToRead(s)' = <<>>
      BY <1>15 DEF ToRead, Slotted, IdleAt
    <3>4. ToSet(ToRead(s)') = {}
      <4>1. ToRead(s)' \in Seq(Created')
        BY <3>3
      <4> QED BY <3>3, <4>1, ToSetElements
    <3> QED BY <3>2, <3>4 DEF StreamInv
  <2> QED BY <2>1, <2>2, <2>3 DEF RoundInv
<1>19. \A g \in X : Allowed(f, g)
  BY <1>6 DEF Allowed, LoopPcs
<1>20. top.pc \notin LoopPcs \cup {"unread"}
  BY <1>2 DEF LoopPcs
<1> HIDE DEF X
<1> QED BY <1>1, <1>2, <1>3, <1>6, <1>8, <1>9, <1>13, <1>14, <1>16, <1>18, <1>19, <1>20,
           HandlerStep DEF BusyPcs

(* A request is scheduled on a server that cannot be connected.            *)
LEMMA ScheduleRefusedRounds ==
  ASSUME TypeInv, TypeInv', OwnerInv, OwnerInv', RoundsInv, ScheduleRefused
  PROVE  RoundsInv'
<1>1. PICK s : s = top.s
  OBVIOUS
<1>2. /\ stack # <<>> /\ top.pc = "schedule" /\ ~IsOpen(s)
      /\ UNCHANGED <<status, link, Slots, sending, reading, cur, request>>
      /\ Goto(<<Frame("deactivate", s, Null), Frame("unslot", s, top.r)>>)
  BY <1>1 DEF ScheduleRefused, Refused, At, top, conn, slots, Slots, rounds, reqs
<1>3. s \in Server
  BY <1>1, <1>2, TopServer DEF ServerPcs
<1>4. PICK a, b : a = Frame("deactivate", s, Null) /\ b = Frame("unslot", s, top.r)
  OBVIOUS
<1>5. a.pc = "deactivate" /\ a.s = s /\ b.pc = "unslot" /\ Goto(<<a, b>>)
  BY <1>2, <1>4 DEF Frame, FrameOf
<1>6. Shape /\ Shape' /\ Chained
  BY DEF OwnerInv, RoundsInv
<1> DEFINE X == {a, b}
<1>7. /\ Chained' /\ OnStack = {top} \cup Under /\ OnStack' = X \cup Under
      /\ stack' # <<>> /\ top' = a
  <2>1. Follows(a, b)
    BY <1>5 DEF Follows
  <2> QED BY <1>2, <1>5, <1>6, <2>1, ChainTwo
<1>8. PICK f : Served(f)
  BY DEF RoundsInv
<1>9. RoundInv(f, s)
  BY <1>3, <1>8 DEF Served
<1>10. ~XmitAt(s) /\ ~UnqueueAt(s) /\ ~EarlyAt(s) /\ ~ParseAt(s) /\ ~FailingAt(s) /\ ~Slotting(s)
  <2>1. ~Busy(s)
    BY <1>2 DEF Busy, Doing, BusyPcs
  <2> QED BY <2>1, NotBusy
<1>11. IdleAt(s)
  BY <1>2, <1>9, <1>10 DEF RoundInv, ConnectionInv
<1>12. NextSend' = NextSend /\ NextRead' = NextRead
  BY <1>2 DEF NextSend, NextRead
<1>13. ASSUME StillToSend(f)' = StillToSend(f), StillToRead(f)' = StillToRead(f)
       PROVE  RoundInv(f, s)'
  <2>1. SendInv(f, s)' /\ ReadInv(f, s)'
    BY <1>2, <1>3, <1>9, <1>10, <1>11, <1>12, <1>13, SameSlots
       DEF RoundInv, SendInv, ReadInv, IdleAt
  <2>2. ConnectionInv(s)'
    <3>1. ~EarlyAt(s)'
      BY <1>5, <1>7 DEF EarlyAt, UnqueueAt, Doing
    <3> QED BY <1>2, <1>3, <1>9, <1>11, <3>1, SameSlots DEF RoundInv, ConnectionInv, IsOpen
  <2>3. StreamInv(s)'
    <3>1. top.pc \notin ShiftPcs /\ top'.pc \notin ShiftPcs
      BY <1>2, <1>5, <1>7 DEF ShiftPcs
    <3> QED BY <1>2, <1>3, <1>6, <1>7, <1>9, <3>1, StreamsKept DEF RoundInv, Slots
  <2> QED BY <2>1, <2>2, <2>3 DEF RoundInv
<1>14. \A t \in Server : t # s => Kept(t)
  BY <1>2, KeptAll, StreamsSame
<1>15. QueuesInv'
  BY <1>2, QueuesSame DEF RoundsInv
<1>16. \A g \in X : Allowed(f, g)
  BY <1>5 DEF Allowed, LoopPcs
<1>17. top.pc \notin LoopPcs \cup {"unread"} /\ top.pc \notin BusyPcs
  BY <1>2 DEF LoopPcs, BusyPcs
<1> HIDE DEF X
<1> QED BY <1>2, <1>3, <1>5, <1>7, <1>8, <1>13, <1>14, <1>15, <1>16, <1>17, HandlerStep

(* A request is put into the send slot of a server.                        *)
LEMMA SlotIo ==
  ASSUME TypeInv, NEW r \in Created, NEW s,
         request' = [request EXCEPT ![r] = [@ EXCEPT !.io = s]]
  PROVE  request'[r].io = s /\ \A x \in Created \ {r} : request'[x] = request[x]
<1>1. request[r] \in Request /\ DOMAIN request = Created
  BY DEF TypeInv, ReqsOK, Created
<1>2. /\ request'[r] = [request[r] EXCEPT !.io = s]
      /\ \A x \in Created \ {r} : request'[x] = request[x]
  BY <1>1
<1> QED BY <1>1, <1>2 DEF Request

LEMMA OpenedLink ==
  ASSUME TypeInv, NEW s \in Server, Open(s)
  PROVE  /\ \A t \in Server : t # s => status'[t] = status[t] /\ link'[t] = link[t]
         /\ status'[s] \in {"connected", "unknown"}
         /\ \/ status'[s] = status[s] /\ link'[s] = link[s]
            \/ status'[s] = "connected" /\ link'[s] = "up"
<1>1. DOMAIN status = Server /\ DOMAIN link = Server
  BY DEF TypeInv, ConnOK
<1>2. CASE IsOpen(s) /\ UNCHANGED conn
  BY <1>2 DEF IsOpen, conn
<1>3. CASE /\ status' = [status EXCEPT ![s] = "connected"]
           /\ link' = [link EXCEPT ![s] = "up"]
  BY <1>1, <1>3
<1> QED BY <1>2, <1>3 DEF Open

LEMMA ScheduleRounds ==
  ASSUME TypeInv, TypeInv', OwnerInv, OwnerInv', RoundsInv, Schedule
  PROVE  RoundsInv'
<1>1. PICK s, r, n : s = top.s /\ r = top.r /\ n = Len(stack)
  OBVIOUS
<1>2. stack # <<>> /\ top.pc = "schedule" /\ s \in Server /\ r \in Created /\ UNCHANGED cur
  BY <1>1, AtTop DEF Schedule, FrameOK, ServerPcs, RequestPcs
<1>3. Goto(<<>>)
  BY DEF Schedule, Return
<1>4. Shape /\ Shape' /\ Chained
  BY DEF OwnerInv, RoundsInv
<1> DEFINE X == {}
<1>5. /\ Chained' /\ OnStack = {top} \cup Under /\ OnStack' = X \cup Under
      /\ stack' = <<>> \/ top'.pc \notin BusyPcs
  BY <1>2, <1>3, <1>4, ChainReturn
<1>6. PICK f : Served(f)
  BY DEF RoundsInv
<1>7. PICK own : Owned(own)
  BY DEF OwnerInv
<1>8. own[r] = InFrame(n)
  <2>1. FrameInv(own, top, n)
    BY <1>1, <1>2, <1>7, TopFrame
  <2> QED BY <1>1, <1>2, <2>1 DEF FrameInv, HeldBy
<1>9. Steady
  BY <1>2, <1>4, TopSteady DEF ShiftPcs
<1>10. Steady'
  <2>1. PICK e : e = <<>>
    OBVIOUS
  <2>2. e \in Seq({}) /\ Goto(e) /\ \A i \in 1 .. Len(e) : FALSE
    BY <1>3, <2>1
  <2> QED BY <1>2, <1>9, <2>2, SteadyStep
<1>11. \A t \in Server : r \notin ToSet(ToRead(t))
  <2> SUFFICES ASSUME NEW t \in Server PROVE r \notin ToSet(ToRead(t))
    OBVIOUS
  <2>1. Pipeline(own, t, ToSend(t), ToRead(t))
    BY <1>7, <1>9, SendsAreRead DEF Owned
  <2> QED BY <1>8, <2>1, Places DEF Pipeline
<1>12. /\ Reads(s)' = Append(ToRead(s), r) /\ ToRead(s) \in Seq(Created)
       /\ \A t \in Server : t # s => Same(t)
  BY <1>1, <1>2, <1>7, <1>9, <1>10, <1>11, ScheduleSlots, SlotTypesOf DEF Owned
<1>13. RoundInv(f, s)
  BY <1>2, <1>6 DEF Served
<1>14. ~XmitAt(s) /\ ~UnqueueAt(s) /\ ~EarlyAt(s) /\ ~ParseAt(s) /\ ~FailingAt(s) /\ ~Slotting(s)
  <2>1. ~Busy(s)
    BY <1>2 DEF Busy, Doing, BusyPcs
  <2> QED BY <2>1, NotBusy
<1>15. ~XmitAt(s)' /\ ~UnqueueAt(s)' /\ ~EarlyAt(s)' /\ ~ParseAt(s)' /\ ~FailingAt(s)'
  <2>1. ~Busy(s)'
    BY <1>5 DEF Busy, Doing
  <2> QED BY <2>1, NotBusyNext
<1>16. /\ cur \in 1 .. 2 /\ DOMAIN sending = 1 .. 2 /\ DOMAIN reading = 1 .. 2
       /\ sending[cur] \in Seq(Server) /\ reading[cur] \in Seq(Server)
       /\ Distinct(sending[cur]) /\ Distinct(reading[cur])
       /\ \A w \in 1 .. 2 : Distinct(sending[w]) /\ Distinct(reading[w])
  BY QueueTyped DEF RoundsInv, QueuesInv
(* the send slot, or the queue behind it *)
<1>17. /\ DOMAIN sendreq = Server /\ DOMAIN readreq = Server /\ DOMAIN sendqueue = Server
       /\ \A t \in Server : sendqueue[t] \in Seq(Created)
       /\ r # Null
  BY <1>2, CreatedNumbers DEF TypeInv, SlotsOK
<1>18. /\ \A w \in 1 .. 2 : w # cur => sending'[w] = sending[w]
       /\ Distinct(sending'[cur])
       /\ \A t : (t \in NextSend)' <=> t \in NextSend \/ (t = s /\ sendreq[s] = Null)
       /\ sendreq'[s] # Null
       /\ sendreq[s] # Null => /\ UNCHANGED <<status, link>>
                               /\ r \in ToSet(sendqueue'[s])
       /\ sendreq[s] = Null => Open(s) /\ request'[r].io = s
       /\ ToSet(sendqueue[s]) \subseteq ToSet(sendqueue'[s])
       /\ \A x \in Created \ {r} : request'[x] = request[x]
  <2>1. CASE sendreq[s] = Null
    <3>1. /\ Slot(s, r) /\ sending' = [sending EXCEPT ![cur] = Push(@, s)] /\ UNCHANGED sendqueue
      BY <1>1, <2>1 DEF Schedule
    <3>2. Distinct(Push(sending[cur], s)) /\ \A t : t \in ToSet(Push(sending[cur], s)) <=> t = s \/ t \in ToSet(sending[cur])
      BY <1>2, <1>16, QueueAdds
    <3>3. sending'[cur] = Push(sending[cur], s) /\ \A w \in 1 .. 2 : w # cur => sending'[w] = sending[w]
      BY <1>16, <3>1
    <3>4. request'[r].io = s /\ \A x \in Created \ {r} : request'[x] = request[x]
      BY <1>2, <3>1, SlotIo DEF Slot
    <3>5. Open(s) /\ sendreq'[s] = r
      BY <1>2, <1>17, <3>1 DEF Slot
    <3>6. sendqueue' = sendqueue
      BY <3>1
    <3>7. \A t : (t \in NextSend)' <=> t \in NextSend \/ (t = s /\ sendreq[s] = Null)
      BY <1>2, <2>1, <3>2, <3>3 DEF NextSend
    <3> QED BY <1>17, <2>1, <3>2, <3>3, <3>4, <3>5, <3>6, <3>7
  <2>2. CASE sendreq[s] # Null
    <3>1. /\ sendqueue' = [sendqueue EXCEPT ![s] = Push(@, r)]
          /\ UNCHANGED <<status, link, sendreq, sending, request>>
      BY <1>1, <2>2 DEF Schedule, conn
    <3>2. sendqueue'[s] = Push(sendqueue[s], r)
      BY <1>2, <1>17, <3>1
    <3>3. ToSet(Push(sendqueue[s], r)) = ToSet(sendqueue[s]) \cup {r}
      BY <1>2, <1>17, PushAdds
    <3> QED BY <1>2, <1>16, <2>2, <3>1, <3>2, <3>3 DEF NextSend
  <2> QED BY <2>1, <2>2
(* the read slot, or the queue behind it *)
<1>19. /\ \A w \in 1 .. 2 : w # cur => reading'[w] = reading[w]
       /\ Distinct(reading'[cur])
       /\ \A t : (t \in NextRead)' <=> t \in NextRead \/ (t = s /\ readreq[s] = Null)
       /\ readreq'[s] # Null
  <2>1. AwaitReply(s, r)
    BY <1>1 DEF Schedule
  <2>2. CASE readreq[s] = Null
    <3>1. /\ readreq' = [readreq EXCEPT ![s] = r] /\ reading' = [reading EXCEPT ![cur] = Push(@, s)]
      BY <2>1, <2>2 DEF AwaitReply
    <3>2. Distinct(Push(reading[cur], s)) /\ \A t : t \in ToSet(Push(reading[cur], s)) <=> t = s \/ t \in ToSet(reading[cur])
      BY <1>2, <1>16, QueueAdds
    <3>3. reading'[cur] = Push(reading[cur], s) /\ \A w \in 1 .. 2 : w # cur => reading'[w] = reading[w]
      BY <1>16, <3>1
    <3>4. readreq'[s] = r
      BY <1>2, <1>17, <3>1
    <3>5. \A t : (t \in NextRead)' <=> t \in NextRead \/ (t = s /\ readreq[s] = Null)
      BY <1>2, <2>2, <3>2, <3>3 DEF NextRead
    <3> QED BY <1>17, <3>2, <3>3, <3>4, <3>5
  <2>3. CASE readreq[s] # Null
    <3>1. UNCHANGED <<readreq, reading>>
      BY <2>1, <2>3 DEF AwaitReply
    <3> QED BY <1>2, <1>16, <2>3, <3>1 DEF NextRead
  <2> QED BY <2>2, <2>3
<1>20. QueuesInv'
  BY <1>2, <1>16, <1>18, <1>19 DEF QueuesInv
<1>21. ASSUME NEW t \in Server, t # s PROVE Kept(t)
  <2>1. status'[t] = status[t] /\ link'[t] = link[t]
    BY <1>2, <1>18, <1>21, OpenedLink
  <2>2. /\ sendreq'[t] = sendreq[t] /\ readreq'[t] = readreq[t]
        /\ sendqueue'[t] = sendqueue[t] /\ readqueue'[t] = readqueue[t]
    BY <1>12, <1>21 DEF Same
  <2>3. \A x \in ToSet(ToRead(t)) : request'[x].io = request[x].io
    BY <1>11, <1>18, ReadCreated
  <2> QED BY <1>18, <1>19, <1>21, <2>1, <2>2, <2>3 DEF Kept
<1>22. ASSUME StillToSend(f)' = StillToSend(f), StillToRead(f)' = StillToRead(f)
       PROVE  RoundInv(f, s)'
  <2>1. SendInv(f, s)' /\ ReadInv(f, s)'
    BY <1>13, <1>14, <1>15, <1>18, <1>19, <1>22 DEF RoundInv, SendInv, ReadInv
  <2>2. ConnectionInv(s)'
    <3>1. CASE sendreq[s] = Null
      <4>1. /\ status'[s] \in {"connected", "unknown"}
            /\ \/ status'[s] = status[s] /\ link'[s] = link[s]
               \/ status'[s] = "connected" /\ link'[s] = "up"
        BY <1>2, <1>18, <3>1, OpenedLink
      <4> QED BY <1>13, <1>14, <1>15, <4>1 DEF RoundInv, ConnectionInv, IsOpen
    <3>2. CASE sendreq[s] # Null
      <4>1. status[s] \in {"connected", "unknown"}
        BY <1>13, <1>14, <3>2 DEF RoundInv, ConnectionInv, IsOpen, IdleAt
      <4> QED BY <1>13, <1>14, <1>15, <1>18, <3>2, <4>1 DEF RoundInv, ConnectionInv, IsOpen
    <3> QED BY <3>1, <3>2
  <2>3. StreamInv(s)'
    <3>1. ToSet(Append(ToRead(s), r)) = ToSet(ToRead(s)) \cup {r}
      BY <1>2, <1>12, AppendSet
    <3>2. SlottedAt(s)
      BY <1>2, <1>4, ElsewhereSlots DEF Elsewhere, ShiftPcs
    <3>3. ASSUME NEW x \in ToSet(ToRead(s)) PROVE x \in ToSet(sendqueue'[s]) \/ request'[x].io = s
      <4>1. x \in Created \ {r}
        BY <1>2, <1>11, ReadCreated
      <4>2. x \in ToSet(sendqueue[s]) \/ request[x].io = s
        BY <1>13, <1>14, <3>2 DEF RoundInv, StreamInv, SlottedAt
      <4> QED BY <1>18, <4>1, <4>2
    <3>4. r \in ToSet(sendqueue'[s]) \/ request'[r].io = s
      BY <1>18
    <3> QED BY <1>12, <3>1, <3>3, <3>4 DEF StreamInv
  <2> QED BY <2>1, <2>2, <2>3 DEF RoundInv
<1>23. \A g \in X : Allowed(f, g)
  OBVIOUS
<1>24. top.pc \notin LoopPcs \cup {"unread"} /\ top.pc \notin BusyPcs
  BY <1>2 DEF LoopPcs, BusyPcs
<1> HIDE DEF X
<1> QED BY <1>2, <1>5, <1>6, <1>18, <1>19, <1>20, <1>21, <1>22, <1>23, <1>24, HandlerStep

(* What is on the connection of s, or about to be, is with no other one.   *)
LEMMA ReadHere ==
  ASSUME TypeInv, Shape, NEW own, Owned(own), NEW s \in Server, NEW t \in Server, t # s,
         stack = <<>> \/ top.pc \notin ShiftPcs \/ top.s = s, NEW r \in ToSet(Reads(s))
  PROVE  r \notin ToSet(ToRead(t))
<1>1. own[r] = OnServer(s)
  BY DEF Owned, ServersInv, ServerInv, Pipeline
<1>2. Reads(t) = ToRead(t)
  <2>1. Elsewhere
    BY ElsewhereSlots
  <2> QED BY <2>1 DEF Elsewhere, SlottedAt
<1>3. \A x \in ToSet(ToRead(t)) : own[x] = OnServer(t)
  BY <1>2 DEF Owned, ServersInv, ServerInv, Pipeline
<1> QED BY <1>1, <1>3, Places

(* mmc_pool_slot_send below mmc_request_send, or below the parser.         *)
LEMMA SlotSendRounds ==
  ASSUME TypeInv, TypeInv', OwnerInv, OwnerInv', RoundsInv, SlotSend
  PROVE  RoundsInv'
<1>1. PICK s, r, n : s = top.s /\ r = top.r /\ n = Len(stack)
  OBVIOUS
<1>2. stack # <<>> /\ top.pc = "slot" /\ s \in Server /\ r \in Created \cup {Null}
  BY <1>1, AtTop DEF SlotSend, FrameOK, ServerPcs
<1>3. /\ UNCHANGED <<readreq, sendqueue, readqueue, sending, reading, cur>> /\ Goto(<<>>)
      /\ sendreq' = [sendreq EXCEPT ![s] = r]
      /\ r = Null => UNCHANGED <<status, link, request>>
      /\ r # Null => Open(s) /\ request' = [request EXCEPT ![r] = [@ EXCEPT !.io = s]]
  BY <1>1 DEF SlotSend, rounds, Return, Slot, conn
<1>4. Shape /\ Shape' /\ Chained
  BY DEF OwnerInv, RoundsInv
<1> DEFINE X == {}
<1>5. /\ Chained' /\ OnStack = {top} \cup Under /\ OnStack' = X \cup Under
      /\ stack' = <<>> \/ (Len(stack) > 1 /\ top' = second)
  BY <1>2, <1>3, <1>4, ChainReturn
<1>6. Len(stack) > 1 /\ second.pc \in {"xmit", "unqueue"} /\ second.s = s /\ second \in Under
  BY <1>1, <1>2, <1>4, SecondFrame
<1>7. stack' = <<>> \/ top'.s = s
  BY <1>5, <1>6
<1>8. stack' # <<>> /\ top' = second
  <2>1. OnStack' # {}
    BY <1>5, <1>6
  <2>2. stack' # <<>>
    BY <2>1 DEF OnStack, Positions
  <2> QED BY <1>5, <2>2
<1>9. PICK f : Served(f)
  BY DEF RoundsInv
<1>10. RoundInv(f, s) /\ Governs(f)
  BY <1>2, <1>9 DEF Served
<1>11. PICK own : Owned(own)
  BY DEF OwnerInv
<1>12. FrameInv(own, top, n) /\ ServerInv(own, s)
  BY <1>1, <1>2, <1>11, TopFrame DEF Owned, ServersInv
<1>13. sendreq[s] # Null /\ sendreq'[s] = r
  <2>1. sendreq[s] # Null
    BY <1>1, <1>2, <1>12 DEF FrameInv
  <2>2. DOMAIN sendreq = Server
    BY DEF TypeInv, SlotsOK
  <2> QED BY <1>2, <1>3, <2>1, <2>2
<1>14. NextSend' = NextSend /\ NextRead' = NextRead
  BY <1>3 DEF NextSend, NextRead
<1>15. /\ Slotting(s) /\ SendSlot(s) = r /\ ~FailingAt(s)
       /\ XmitAt(s) <=> second.pc = "xmit"
       /\ UnqueueAt(s) <=> second.pc = "unqueue"
       /\ EarlyAt(s) <=> second.pc = "unqueue"
       /\ ParseAt(s) <=> second.pc = "unqueue"
  BY <1>1, <1>2 DEF Slotting, SendSlot, At, top, XmitAt, UnqueueAt, EarlyAt, ParseAt, FailingAt, Doing
<1>16. /\ ~Slotting(s)' /\ ~FailingAt(s)'
       /\ XmitAt(s)' <=> second.pc = "xmit"
       /\ UnqueueAt(s)' <=> second.pc = "unqueue"
       /\ EarlyAt(s)' <=> second.pc = "unqueue"
       /\ ParseAt(s)' <=> second.pc = "unqueue"
  BY <1>6, <1>8 DEF Slotting, At, top, XmitAt, UnqueueAt, EarlyAt, ParseAt, FailingAt, Doing
<1>17. second.pc = "unqueue" => s \notin StillToSend(f)
  BY <1>5, <1>6, <1>10 DEF Governs, StillToSend
<1>18. Sends(s)' = Sends(s) /\ Reads(s)' = Reads(s)
  <2>1. SendSlot(s)' = r
    BY <1>13, <1>16 DEF SendSlot
  <2>2. Leaving(s)' <=> Leaving(s)
    BY <1>2, <1>3, <1>4, LeavingKept
  <2>3. Reads(s)' = Reads(s)
    BY <1>3, <2>2 DEF Reads, ToRead
  <2> QED BY <1>3, <1>15, <2>1, <2>3 DEF Sends
<1>19. ASSUME r # Null PROVE r \in ToSet(Reads(s))
  <2>1. Reads(s) \in Seq(Created) /\ Sends(s) \in Seq(Created) /\ r \in ToSet(Sends(s))
    <3>1. /\ sendqueue[s] \in Seq(Created) /\ readqueue[s] \in Seq(Created)
          /\ ToRead(s) \in Seq(Created) /\ r \in Created
      BY <1>2, <1>19, SlotTypesOf DEF TypeInv, SlotsOK
    <3>2. Sends(s) = <<r>> \o sendqueue[s]
      BY <1>15, <1>19 DEF Sends, Slotted
    <3> QED BY <3>1, <3>2, ConsProperties DEF Reads
  <2>2. IsTail(Sends(s), Reads(s))
    BY <1>12 DEF ServerInv, Pipeline
  <2> QED BY <2>1, <2>2, TailSet
<1>20. /\ \A x : x \in Created /\ x # r => request'[x] = request[x]
       /\ r # Null => request'[r].io = s
  <2>1. CASE r = Null
    BY <1>3, <2>1
  <2>2. CASE r # Null
    BY <1>2, <1>3, <2>2, SlotIo
  <2> QED BY <2>1, <2>2
<1>21. ASSUME NEW t \in Server, t # s PROVE Kept(t)
  <2>1. status'[t] = status[t] /\ link'[t] = link[t] /\ sendreq'[t] = sendreq[t]
    <3>1. sendreq'[t] = sendreq[t]
      BY <1>3, <1>21 DEF TypeInv, SlotsOK
    <3> QED BY <1>2, <1>3, <1>21, <3>1, OpenedLink
  <2>2. \A x \in ToSet(ToRead(t)) : request'[x].io = request[x].io
    <3>1. r # Null => r \notin ToSet(ToRead(t))
      BY <1>1, <1>2, <1>4, <1>11, <1>19, <1>21, ReadHere
    <3>2. \A x \in ToSet(ToRead(t)) : x \in Created /\ x # Null
      BY ReadCreated, CreatedNumbers
    <3> QED BY <1>20, <3>1, <3>2
  <2> QED BY <1>3, <1>14, <2>1, <2>2 DEF Kept
<1>22. ASSUME StillToSend(f)' = StillToSend(f), StillToRead(f)' = StillToRead(f)
       PROVE  RoundInv(f, s)'
  <2>1. SendInv(f, s)'
    BY <1>6, <1>10, <1>13, <1>14, <1>15, <1>16, <1>17, <1>22 DEF RoundInv, SendInv
  <2>2. ReadInv(f, s)'
    BY <1>3, <1>10, <1>14, <1>15, <1>16, <1>22 DEF RoundInv, ReadInv
  <2>3. ConnectionInv(s)'
    <3>1. EarlyAt(s)' => Sends(s)' = readqueue'[s]
      BY <1>3, <1>10, <1>15, <1>16, <1>18 DEF RoundInv, ConnectionInv
    <3>2. CASE r = Null
      <4>1. sendqueue[s] = <<>>
        BY <1>12, <1>15, <3>2 DEF ServerInv
      <4>2. Sends(s)' = <<>>
        BY <1>15, <1>18, <3>2, <4>1 DEF Sends, Slotted
      <4>3. ~IdleAt(s)
        BY <1>13 DEF IdleAt
      <4>4. IsOpen(s)' <=> IsOpen(s)
        BY <1>3, <3>2 DEF IsOpen
      <4> QED BY <1>3, <1>10, <1>15, <1>16, <3>1, <3>2, <4>2, <4>3, <4>4 DEF RoundInv, ConnectionInv
    <3>3. CASE r # Null
      <4>1. /\ status'[s] \in {"connected", "unknown"}
            /\ \/ status'[s] = status[s] /\ link'[s] = link[s]
               \/ status'[s] = "connected" /\ link'[s] = "up"
        BY <1>2, <1>3, <3>3, OpenedLink
      <4> QED BY <1>10, <3>1, <4>1 DEF RoundInv, ConnectionInv, IsOpen
    <3> QED BY <3>2, <3>3
  <2>4. StreamInv(s)'
    <3>1. ASSUME NEW x \in ToSet(Reads(s)) PROVE x \in ToSet(sendqueue[s]) \/ request'[x].io = s
      <4>1. x \in Created /\ x # Null
        <5>1. readqueue[s] \in Seq(Created) /\ ToRead(s) \in Seq(Created)
          BY <1>2, SlotTypesOf DEF TypeInv, SlotsOK
        <5>2. Reads(s) \in Seq(Created)
          BY <5>1 DEF Reads
        <5> QED BY <5>2, ToSetElements, CreatedNumbers
      <4>2. x \in ToSet(sendqueue[s]) \/ request[x].io = s \/ x = r
        BY <1>1, <1>10 DEF RoundInv, StreamInv
      <4> QED BY <1>20, <4>1, <4>2
    <3> QED BY <1>3, <1>18, <3>1 DEF StreamInv
  <2> QED BY <2>1, <2>2, <2>3, <2>4 DEF RoundInv
<1>23. \A g \in X : Allowed(f, g)
  OBVIOUS
<1>24. top.pc \notin LoopPcs \cup {"unread"}
  BY <1>2 DEF LoopPcs
<1>25. QueuesInv'
  BY <1>3, QueuesSame DEF RoundsInv
<1> HIDE DEF X
<1> QED BY <1>1, <1>2, <1>3, <1>5, <1>7, <1>9, <1>21, <1>22, <1>23, <1>24, <1>25, HandlerStep

(* A handler that returns to the one below it, of the same server.         *)
LEMMA Resumes ==
  ASSUME TypeInv, TypeInv', Shape, Chained, stack # <<>>, Goto(<<>>),
         top.pc \in {"slot", "unqueue", "early"}
  PROVE  /\ Chained' /\ OnStack = {top} \cup Under /\ OnStack' = {} \cup Under
         /\ stack' # <<>> /\ top' = second /\ second \in Under /\ second.s = top.s
         /\ top.pc = "slot" => second.pc \in {"xmit", "unqueue"}
         /\ top.pc = "unqueue" => second.pc = "early"
         /\ top.pc = "early" => second.pc = "parse"
<1>1. /\ Chained' /\ OnStack = {top} \cup Under /\ OnStack' = Under
      /\ stack' = <<>> \/ (Len(stack) > 1 /\ top' = second)
  BY ChainReturn
<1>2. /\ Len(stack) > 1 /\ second \in Under /\ second.s = top.s
      /\ top.pc = "slot" => second.pc \in {"xmit", "unqueue"}
      /\ top.pc = "unqueue" => second.pc = "early"
      /\ top.pc = "early" => second.pc = "parse"
  BY SecondFrame
<1>3. stack' # <<>>
  <2>1. OnStack' # {}
    BY <1>1, <1>2
  <2> QED BY <2>1 DEF OnStack, Positions
<1> QED BY <1>1, <1>2, <1>3

LEMMA UnqueueRounds ==
  ASSUME TypeInv, TypeInv', OwnerInv, OwnerInv', RoundsInv, Unqueue
  PROVE  RoundsInv'
<1>1. PICK s : s = top.s
  OBVIOUS
<1>2. stack # <<>> /\ top.pc = "unqueue" /\ s \in Server
  BY <1>1, AtTop DEF Unqueue, FrameOK, ServerPcs
<1>3. /\ UNCHANGED <<status, link, Slots, reading, cur, request>> /\ Goto(<<>>)
      /\ sending' = IF sendreq[s] = Null THEN [sending EXCEPT ![cur] = Without(@, s)] ELSE sending
  BY <1>1 DEF Unqueue, Return, conn, slots, Slots, reqs
<1>4. Shape /\ Shape' /\ Chained
  BY DEF OwnerInv, RoundsInv
<1> DEFINE X == {}
<1>5. /\ Chained' /\ OnStack = {top} \cup Under /\ OnStack' = X \cup Under
      /\ stack' # <<>> /\ top' = second /\ second.s = s /\ second.pc = "early"
  BY <1>1, <1>2, <1>3, <1>4, Resumes
<1>6. PICK f : Served(f)
  BY DEF RoundsInv
<1>7. RoundInv(f, s) /\ Governs(f)
  BY <1>2, <1>6 DEF Served
<1>8. /\ ~Slotting(s) /\ ~FailingAt(s) /\ ~XmitAt(s) /\ UnqueueAt(s) /\ EarlyAt(s) /\ ParseAt(s)
  BY <1>1, <1>2 DEF Slotting, At, top, XmitAt, UnqueueAt, EarlyAt, ParseAt, FailingAt, Doing
<1>9. /\ ~Slotting(s)' /\ ~FailingAt(s)' /\ ~XmitAt(s)' /\ ~UnqueueAt(s)' /\ EarlyAt(s)' /\ ParseAt(s)'
  BY <1>5 DEF Slotting, At, top, XmitAt, UnqueueAt, EarlyAt, ParseAt, FailingAt, Doing
<1>10. s \notin StillToSend(f)
  BY <1>2, <1>5, <1>7 DEF Governs, StillToSend
<1>11. /\ \A w \in 1 .. 2 : w # cur => sending'[w] = sending[w]
       /\ Distinct(sending'[cur]) /\ NextRead' = NextRead
       /\ \A t : (t \in NextSend)' <=> t \in NextSend /\ ~(t = s /\ sendreq[s] = Null)
  <2>1. cur \in 1 .. 2 /\ DOMAIN sending = 1 .. 2 /\ sending[cur] \in Seq(Server) /\ Distinct(sending[cur])
    BY QueueTyped DEF RoundsInv, QueuesInv
  <2>2. NextRead' = NextRead
    BY <1>3 DEF NextRead
  <2>3. CASE sendreq[s] = Null
    <3>1. sending'[cur] = Without(sending[cur], s) /\ \A w \in 1 .. 2 : w # cur => sending'[w] = sending[w]
      BY <1>3, <2>1, <2>3
    <3>2. /\ Distinct(Without(sending[cur], s))
          /\ \A t : t \in ToSet(Without(sending[cur], s)) <=> t # s /\ t \in ToSet(sending[cur])
      BY <2>1, QueueDrops
    <3> QED BY <1>3, <2>2, <2>3, <3>1, <3>2 DEF NextSend
  <2>4. CASE sendreq[s] # Null
    BY <1>3, <2>1, <2>2, <2>4 DEF NextSend
  <2> QED BY <2>3, <2>4
<1>12. ASSUME StillToSend(f)' = StillToSend(f), StillToRead(f)' = StillToRead(f)
       PROVE  RoundInv(f, s)'
  <2>1. /\ sendreq'[s] = sendreq[s] /\ readreq'[s] = readreq[s] /\ IdleAt(s)' = IdleAt(s)
        /\ sendqueue'[s] = sendqueue[s] /\ readqueue'[s] = readqueue[s] /\ ToRead(s)' = ToRead(s)
    BY <1>2, <1>3, SameSlots
  <2>2. SendInv(f, s)' /\ ReadInv(f, s)'
    BY <1>7, <1>8, <1>9, <1>10, <1>11, <1>12, <2>1 DEF RoundInv, SendInv, ReadInv
  <2>3. Sends(s)' = Sends(s) /\ Reads(s)' = Reads(s)
    <3>1. Leaving(s)' <=> Leaving(s)
      BY <1>2, <1>3, <1>4, LeavingKept DEF Slots
    <3> QED BY <1>8, <1>9, <2>1, <3>1 DEF Sends, SendSlot, Reads
  <2>4. ConnectionInv(s)'
    BY <1>3, <1>7, <1>8, <1>9, <2>1, <2>3 DEF RoundInv, ConnectionInv, IsOpen
  <2>5. StreamInv(s)'
    BY <1>3, <1>7, <1>8, <2>1, <2>3 DEF RoundInv, StreamInv
  <2> QED BY <2>2, <2>4, <2>5 DEF RoundInv
<1>13. ASSUME NEW t \in Server, t # s PROVE Kept(t)
  BY <1>3, <1>11, <1>13 DEF Kept, Slots
<1>14. QueuesInv'
  BY <1>3, <1>11 DEF RoundsInv, QueuesInv
<1>15. \A g \in X : Allowed(f, g)
  OBVIOUS
<1>16. top.pc \notin LoopPcs \cup {"unread"}
  BY <1>2 DEF LoopPcs
<1> HIDE DEF X
<1> QED BY <1>1, <1>2, <1>3, <1>5, <1>6, <1>11, <1>12, <1>13, <1>14, <1>15, <1>16, HandlerStep

LEMMA EarlyDoneRounds ==
  ASSUME TypeInv, TypeInv', OwnerInv, OwnerInv', RoundsInv, EarlyDone
  PROVE  RoundsInv'
<1>1. PICK s, n : s = top.s /\ n = Len(stack)
  OBVIOUS
<1>2. stack # <<>> /\ top.pc = "early" /\ s \in Server
  BY <1>1, AtTop DEF EarlyDone, FrameOK, ServerPcs
<1>3. /\ UNCHANGED <<status, link, sendreq, sendqueue, sending, reading, cur, request>> /\ Goto(<<>>)
      /\ readreq' = [readreq EXCEPT ![s] = Popped(readqueue[s], Null)]
      /\ readqueue' = [readqueue EXCEPT ![s] = Rest(@)]
  BY <1>1 DEF EarlyDone, Return, conn, rounds
<1>4. Shape /\ Shape' /\ Chained
  BY DEF OwnerInv, RoundsInv
<1> DEFINE X == {}
<1>5. /\ Chained' /\ OnStack = {top} \cup Under /\ OnStack' = X \cup Under
      /\ stack' # <<>> /\ top' = second /\ second.s = s /\ second.pc = "parse"
  BY <1>1, <1>2, <1>3, <1>4, Resumes
<1>6. PICK f : Served(f)
  BY DEF RoundsInv
<1>7. RoundInv(f, s) /\ Governs(f)
  BY <1>2, <1>6 DEF Served
<1>8. /\ ~Slotting(s) /\ ~FailingAt(s) /\ ~XmitAt(s) /\ ~UnqueueAt(s) /\ EarlyAt(s) /\ ParseAt(s)
  BY <1>1, <1>2 DEF Slotting, At, top, XmitAt, UnqueueAt, EarlyAt, ParseAt, FailingAt, Doing
<1>9. /\ ~Slotting(s)' /\ ~FailingAt(s)' /\ ~XmitAt(s)' /\ ~UnqueueAt(s)' /\ ~EarlyAt(s)' /\ ParseAt(s)'
  BY <1>5 DEF Slotting, At, top, XmitAt, UnqueueAt, EarlyAt, ParseAt, FailingAt, Doing
<1>10. PICK own : Owned(own)
  BY DEF OwnerInv
<1>11. FrameInv(own, top, n) /\ ServerInv(own, s)
  BY <1>1, <1>2, <1>10, TopFrame DEF Owned, ServersInv
<1>12. readreq[s] # Null
  BY <1>1, <1>2, <1>11 DEF FrameInv
<1>13. /\ readreq'[s] = Popped(readqueue[s], Null) /\ readqueue'[s] = Rest(readqueue[s])
       /\ \A t \in Server : t # s => readreq'[t] = readreq[t] /\ readqueue'[t] = readqueue[t]
       /\ readqueue[s] \in Seq(Created)
  BY <1>2, <1>3 DEF TypeInv, SlotsOK
<1>14. Reads(s)' = Reads(s)
  <2>1. PICK e : e = <<>>
    OBVIOUS
  <2>2. e \in Seq({}) /\ Goto(e) /\ \A i \in 1 .. Len(e) : FALSE
    BY <1>3, <2>1
  <2>3. Leaves(top, s)
    BY <1>1, <1>2 DEF Leaves
  <2> QED BY <1>1, <1>2, <1>3, <1>4, <1>5, <1>13, <2>2, <2>3, ReadNext
<1>15. NextSend' = NextSend /\ NextRead' = NextRead
  BY <1>3 DEF NextSend, NextRead
<1>16. ASSUME StillToSend(f)' = StillToSend(f), StillToRead(f)' = StillToRead(f)
       PROVE  RoundInv(f, s)'
  <2>1. SendInv(f, s)' /\ ReadInv(f, s)'
    BY <1>3, <1>7, <1>8, <1>9, <1>15, <1>16 DEF RoundInv, SendInv, ReadInv
  <2>2. ConnectionInv(s)'
    <3>1. ASSUME ~IsOpen(s) PROVE IdleAt(s)'
      <4>1. Sends(s) = <<>> /\ Sends(s) = readqueue[s]
        BY <1>7, <1>8, <1>12, <3>1 DEF RoundInv, ConnectionInv, IdleAt
      <4>2. sendreq[s] = Null /\ sendqueue[s] = <<>>
        <5>1. sendreq[s] = Null
          <6>1. SendSlot(s) = sendreq[s] /\ sendqueue[s] \in Seq(Created)
            BY <1>2, <1>8 DEF SendSlot, TypeInv, SlotsOK
          <6>2. sendreq[s] # Null => Sends(s) = <<sendreq[s]>> \o sendqueue[s] /\ sendreq[s] \in Created
            BY <1>2, <6>1, SlotTypesOf DEF Sends, Slotted
          <6>3. ASSUME sendreq[s] # Null PROVE FALSE
            <7>1. sendreq[s] \in Created /\ Sends(s) = <<sendreq[s]>> \o sendqueue[s]
              BY <6>2, <6>3
            <7>2. <<sendreq[s]>> \o sendqueue[s] # <<>>
              BY <6>1, <7>1, ConsProperties
            <7> QED BY <4>1, <7>1, <7>2
          <6> QED BY <6>3
        <5> QED BY <1>8, <4>1, <5>1 DEF Sends, SendSlot, Slotted
      <4>3. readreq'[s] = Null /\ readqueue'[s] = <<>>
        BY <1>13, <4>1 DEF Popped, Rest
      <4> QED BY <1>3, <4>2, <4>3 DEF IdleAt
    <3> QED BY <1>3, <1>7, <1>9, <3>1 DEF RoundInv, ConnectionInv, IsOpen
  <2>3. StreamInv(s)'
    BY <1>3, <1>7, <1>8, <1>14 DEF RoundInv, StreamInv
  <2> QED BY <2>1, <2>2, <2>3 DEF RoundInv
<1>17. ASSUME NEW t \in Server, t # s PROVE Kept(t)
  BY <1>3, <1>13, <1>15, <1>17 DEF Kept
<1>18. QueuesInv'
  BY <1>3, QueuesSame DEF RoundsInv
<1>19. \A g \in X : Allowed(f, g)
  OBVIOUS
<1>20. top.pc \notin LoopPcs \cup {"unread"}
  BY <1>2 DEF LoopPcs
<1> HIDE DEF X
<1> QED BY <1>1, <1>2, <1>3, <1>5, <1>6, <1>16, <1>17, <1>18, <1>19, <1>20, HandlerStep

(* A request is sent, and the next one of the server slotted.              *)
LEMMA SendDoneRounds ==
  ASSUME TypeInv, TypeInv', OwnerInv, OwnerInv', RoundsInv, SendDone
  PROVE  RoundsInv'
<1>1. PICK s, x : s = top.s /\ x = Popped(sendqueue[s], Null)
  OBVIOUS
<1>2. /\ stack # <<>> /\ top.pc = "xmit" /\ sendreq[s] # Null
      /\ UNCHANGED <<status, link, sendreq, readreq, readqueue, sending, reading, cur, request>>
      /\ Proceed(<<Frame("slot", s, x), top>>)
      /\ sendqueue' = [sendqueue EXCEPT ![s] = IF in_select THEN Rest(@) ELSE @]
  BY <1>1 DEF SendDone, Sending, At, top, rounds, reqs
<1>3. s \in Server
  BY <1>1, <1>2, TopServer DEF ServerPcs
<1>4. Shape /\ Shape' /\ Chained
  BY DEF OwnerInv, RoundsInv
<1>5. in_select /\ Goto(<<Frame("slot", s, x), top>>)
  BY <1>2, <1>4, InRound DEF RoundPcs
<1>6. PICK a, b : a = Frame("slot", s, x) /\ b = top
  OBVIOUS
<1>7. a.pc = "slot" /\ a.s = s /\ a.r = x /\ Goto(<<a, b>>) /\ b.pc = "xmit" /\ b.s = s
  BY <1>1, <1>2, <1>5, <1>6 DEF Frame, FrameOf
<1> DEFINE X == {a, b}
<1>8. /\ Chained' /\ OnStack = {top} \cup Under /\ OnStack' = X \cup Under
      /\ stack' # <<>> /\ top' = a /\ second' = b
  <2>1. Follows(a, b)
    BY <1>7 DEF Follows
  <2> QED BY <1>2, <1>4, <1>7, <2>1, ChainTwo
<1>9. PICK f : Served(f)
  BY DEF RoundsInv
<1>10. RoundInv(f, s) /\ Governs(f)
  BY <1>3, <1>9 DEF Served
<1>11. /\ ~Slotting(s) /\ ~FailingAt(s) /\ XmitAt(s) /\ ~UnqueueAt(s) /\ ~EarlyAt(s) /\ ~ParseAt(s)
  BY <1>1, <1>2 DEF Slotting, At, top, XmitAt, UnqueueAt, EarlyAt, ParseAt, FailingAt, Doing
<1>12. /\ Slotting(s)' /\ ~FailingAt(s)' /\ XmitAt(s)' /\ ~UnqueueAt(s)' /\ ~EarlyAt(s)' /\ ~ParseAt(s)'
  BY <1>7, <1>8 DEF Slotting, At, top, XmitAt, UnqueueAt, EarlyAt, ParseAt, FailingAt, Doing
<1>13. NextSend' = NextSend /\ NextRead' = NextRead
  BY <1>2 DEF NextSend, NextRead
<1>14. Reads(s)' = ToRead(s) /\ Reads(s) = ToRead(s)
  <2> DEFINE e == <<a, b>>
  <2>1. e \in Seq(X) /\ Goto(e) /\ \A i \in 1 .. Len(e) : e[i].pc \notin {"early", "retryRead"}
    <3>1. Len(e) = 2 /\ e[1] = a /\ e[2] = b /\ e \in Seq(X)
      OBVIOUS
    <3>2. \A i \in 1 .. Len(e) : i = 1 \/ i = 2
      BY <3>1
    <3>3. Goto(e)
      BY <1>7
    <3> HIDE DEF e
    <3> QED BY <1>7, <3>1, <3>2, <3>3
  <2> HIDE DEF e, X
  <2>2. ~Leaving(s)'
    <3>1. Leaving(s)' <=> \E i \in 1 .. Len(e) : Leaves(e[i], s)'
      BY <1>2, <1>4, <2>1, LeavingAfter
    <3> QED BY <2>1, <3>1 DEF Leaves
  <2>3. SlottedAt(s)
    BY <1>2, <1>3, <1>4, ElsewhereSlots DEF Elsewhere, ShiftPcs
  <2> QED BY <1>2, <2>2, <2>3 DEF Reads, ToRead, SlottedAt
<1>15. /\ sendqueue'[s] = Rest(sendqueue[s]) /\ sendqueue[s] \in Seq(Created)
       /\ \A t \in Server : t # s => sendqueue'[t] = sendqueue[t]
  BY <1>2, <1>3, <1>5 DEF TypeInv, SlotsOK
<1>16. \A r \in ToSet(sendqueue[s]) : r \in ToSet(sendqueue'[s]) \/ r = x
  BY <1>1, <1>15, RestDrops, ToSetElements
<1>17. ASSUME StillToSend(f)' = StillToSend(f), StillToRead(f)' = StillToRead(f)
       PROVE  RoundInv(f, s)'
  <2>1. SendInv(f, s)' /\ ReadInv(f, s)'
    BY <1>2, <1>10, <1>11, <1>12, <1>13, <1>17 DEF RoundInv, SendInv, ReadInv
  <2>2. ConnectionInv(s)'
    BY <1>2, <1>10, <1>11, <1>12 DEF RoundInv, ConnectionInv, IsOpen, IdleAt
  <2>3. StreamInv(s)'
    BY <1>2, <1>7, <1>8, <1>10, <1>11, <1>12, <1>14, <1>16 DEF RoundInv, StreamInv
  <2> QED BY <2>1, <2>2, <2>3 DEF RoundInv
<1>18. ASSUME NEW t \in Server, t # s PROVE Kept(t)
  BY <1>2, <1>13, <1>15, <1>18 DEF Kept
<1>19. QueuesInv'
  BY <1>2, QueuesSame DEF RoundsInv
<1>20. \A g \in X : Allowed(f, g)
  <2>1. f.pc = "send" /\ top.w = f.w
    BY <1>2, <1>8, <1>10 DEF Governs
  <2> QED BY <1>6, <1>7, <2>1 DEF Allowed, LoopPcs
<1>21. top.pc \notin LoopPcs \cup {"unread"}
  BY <1>2 DEF LoopPcs
<1> HIDE DEF X
<1> QED BY <1>1, <1>2, <1>3, <1>7, <1>8, <1>9, <1>17, <1>18, <1>19, <1>20, <1>21, HandlerStep

(* A reply is parsed, and the next one of the server is expected.          *)
LEMMA ParseDoneRounds ==
  ASSUME TypeInv, TypeInv', OwnerInv, OwnerInv', RoundsInv, ParseDone
  PROVE  RoundsInv'
<1>1. PICK s : s = top.s
  OBVIOUS
<1>2. /\ stack # <<>> /\ top.pc = "parse" /\ readreq[s] # Null
      /\ UNCHANGED <<status, link, sendreq, sendqueue, sending, reading, cur, request>>
      /\ Proceed(<<top>>)
      /\ in_select => /\ readreq' = [readreq EXCEPT ![s] = Popped(readqueue[s], Null)]
                      /\ readqueue' = [readqueue EXCEPT ![s] = Rest(@)]
  BY <1>1 DEF ParseDone, Parsing, At, top, rounds
<1>3. s \in Server
  BY <1>1, <1>2, TopServer DEF ServerPcs
<1>4. Shape /\ Shape' /\ Chained
  BY DEF OwnerInv, RoundsInv
<1>5. in_select /\ Goto(<<top>>)
  BY <1>2, <1>4, InRound DEF RoundPcs
<1>6. PICK a : a = top
  OBVIOUS
<1> DEFINE X == {a}
<1>7. /\ Chained' /\ OnStack = {top} \cup Under /\ OnStack' = X \cup Under
      /\ stack' # <<>> /\ top' = a
  BY <1>2, <1>4, <1>5, <1>6, ChainOne
<1>8. PICK f : Served(f)
  BY DEF RoundsInv
<1>9. RoundInv(f, s) /\ Governs(f)
  BY <1>3, <1>8 DEF Served
<1>10. /\ ~Slotting(s) /\ ~FailingAt(s) /\ ~XmitAt(s) /\ ~UnqueueAt(s) /\ ~EarlyAt(s) /\ ParseAt(s)
  BY <1>1, <1>2 DEF Slotting, At, top, XmitAt, UnqueueAt, EarlyAt, ParseAt, FailingAt, Doing
<1>11. /\ ~Slotting(s)' /\ ~FailingAt(s)' /\ ~XmitAt(s)' /\ ~UnqueueAt(s)' /\ ~EarlyAt(s)' /\ ParseAt(s)'
  BY <1>1, <1>2, <1>6, <1>7 DEF Slotting, At, top, XmitAt, UnqueueAt, EarlyAt, ParseAt, FailingAt, Doing
<1>12. NextSend' = NextSend /\ NextRead' = NextRead
  BY <1>2 DEF NextSend, NextRead
<1>13. /\ readreq'[s] = Popped(readqueue[s], Null) /\ readqueue'[s] = Rest(readqueue[s])
       /\ readqueue[s] \in Seq(Created)
       /\ \A t \in Server : t # s => readreq'[t] = readreq[t] /\ readqueue'[t] = readqueue[t]
  BY <1>2, <1>3, <1>5 DEF TypeInv, SlotsOK
<1>14. Reads(s) = ToRead(s) /\ Reads(s)' = ToRead(s)'
  <2>1. Elsewhere /\ Elsewhere'
    BY <1>4, ElsewhereSlots, PTL
  <2> QED BY <1>2, <1>3, <1>6, <1>7, <2>1 DEF Elsewhere, SlottedAt, ShiftPcs
<1>15. ToSet(Reads(s)') \subseteq ToSet(Reads(s))
  <2>1. ToRead(s)' = readqueue[s]
    BY <1>13, SlottedNext DEF ToRead
  <2>2. ToRead(s) = <<readreq[s]>> \o readqueue[s] /\ readreq[s] \in Created
    BY <1>2, <1>3, SlotTypesOf DEF ToRead, Slotted
  <2>3. ToSet(<<readreq[s]>> \o readqueue[s]) = {readreq[s]} \cup ToSet(readqueue[s])
    BY <1>13, <2>2, ConsProperties
  <2> QED BY <1>14, <2>1, <2>2, <2>3
<1>16. ASSUME StillToSend(f)' = StillToSend(f), StillToRead(f)' = StillToRead(f)
       PROVE  RoundInv(f, s)'
  <2>1. SendInv(f, s)' /\ ReadInv(f, s)'
    BY <1>2, <1>9, <1>10, <1>11, <1>12, <1>16 DEF RoundInv, SendInv, ReadInv
  <2>2. ConnectionInv(s)'
    BY <1>2, <1>9, <1>10, <1>11 DEF RoundInv, ConnectionInv, IsOpen, IdleAt
  <2>3. StreamInv(s)'
    BY <1>2, <1>9, <1>10, <1>15 DEF RoundInv, StreamInv
  <2> QED BY <2>1, <2>2, <2>3 DEF RoundInv
<1>17. ASSUME NEW t \in Server, t # s PROVE Kept(t)
  BY <1>2, <1>12, <1>13, <1>17 DEF Kept
<1>18. QueuesInv'
  BY <1>2, QueuesSame DEF RoundsInv
<1>19. \A g \in X : Allowed(f, g)
  <2>1. f.pc = "read"
    BY <1>2, <1>7, <1>9 DEF Governs
  <2> QED BY <1>2, <1>6, <2>1 DEF Allowed, LoopPcs
<1>20. top.pc \notin LoopPcs \cup {"unread"}
  BY <1>2 DEF LoopPcs
<1> HIDE DEF X
<1> QED BY <1>1, <1>2, <1>3, <1>6, <1>7, <1>8, <1>16, <1>17, <1>18, <1>19, <1>20, HandlerStep

(* The whole of what was not sent is what is answered early.               *)
LEMMA EarlyQueues ==
  ASSUME TypeInv, Steady, NEW s \in Server, readreq[s] # Null, sendreq[s] = readreq[s],
         NEW own, ServersInv(own)
  PROVE  sendqueue[s] = readqueue[s]
<1>1. PICK R, S, h, q, p : /\ R = ToRead(s) /\ S = ToSend(s) /\ h = readreq[s]
                           /\ q = readqueue[s] /\ p = sendqueue[s]
  OBVIOUS
<1>2. q \in Seq(Created) /\ p \in Seq(Created) /\ h \in Created
  BY <1>1 DEF TypeInv, SlotsOK
<1>3. R = <<h>> \o q /\ S = <<h>> \o p
  BY <1>1 DEF ToRead, ToSend, Slotted
<1>4. /\ R \in Seq(Created) /\ R # <<>> /\ Head(R) = h /\ Len(R) = Len(q) + 1 /\ Len(q) \in Nat
      /\ \A i \in 1 .. Len(q) : R[i + 1] = q[i]
  BY <1>2, <1>3, ConsProperties
<1>5. /\ S \in Seq(Created) /\ h \in ToSet(S) /\ Len(S) = Len(p) + 1 /\ Len(p) \in Nat
      /\ \A i \in 1 .. Len(p) : S[i + 1] = p[i]
  BY <1>2, <1>3, ConsProperties
<1>6. Distinct(R) /\ IsTail(S, R)
  BY <1>1, SendsAreRead DEF Pipeline
<1>7. Len(S) = Len(R)
  BY <1>4, <1>5, <1>6, TailWhole
<1>8. ASSUME NEW i \in 1 .. Len(p) PROVE p[i] = q[i]
  <2>1. PICK j : j = i + 1
    OBVIOUS
  <2>2. j \in 1 .. Len(S) /\ i \in 1 .. Len(q) /\ S[j] = p[i] /\ R[j] = q[i]
    BY <1>4, <1>5, <1>7, <2>1
  <2>3. S[j] = R[Len(R) - Len(S) + j]
    BY <1>6, <2>2 DEF IsTail
  <2>4. Len(R) - Len(S) + j = j
    BY <1>4, <1>7, <2>2
  <2> QED BY <2>2, <2>3, <2>4
<1>9. Len(p) = Len(q)
  BY <1>4, <1>5, <1>7
<1>10. p = q
  BY <1>2, <1>8, <1>9, SeqEqual
<1> QED BY <1>1, <1>10

(* A reply comes before its request was sent: the stream is given up.      *)
LEMMA ParseEarlyRounds ==
  ASSUME TypeInv, TypeInv', OwnerInv, OwnerInv', RoundsInv, ParseEarly
  PROVE  RoundsInv'
<1>1. PICK s, x, b : s = top.s /\ x = Popped(sendqueue[s], Null) /\ b = top
  OBVIOUS
<1>2. /\ stack # <<>> /\ top.pc = "parse" /\ readreq[s] # Null /\ sendreq[s] = readreq[s]
      /\ UNCHANGED <<sendreq, readreq, readqueue, sending, reading, cur, request>>
      /\ Proceed(<<Frame("slot", s, x), Frame("unqueue", s, Null), Frame("early", s, Null), b>>)
      /\ in_select => /\ status' = [status EXCEPT ![s] = "disconnected"]
                      /\ link' = [link EXCEPT ![s] = "none"]
                      /\ sendqueue' = [sendqueue EXCEPT ![s] = Rest(@)]
  BY <1>1 DEF ParseEarly, Parsing, At, top, rounds, reqs, Hangup
<1>3. s \in Server
  BY <1>1, <1>2, TopServer DEF ServerPcs
<1>4. Shape /\ Shape' /\ Chained
  BY DEF OwnerInv, RoundsInv
<1>5. in_select /\ Goto(<<Frame("slot", s, x), Frame("unqueue", s, Null), Frame("early", s, Null), b>>)
  BY <1>2, <1>4, InRound DEF RoundPcs
<1>6. PICK a, u, e : a = Frame("slot", s, x) /\ u = Frame("unqueue", s, Null) /\ e = Frame("early", s, Null)
  OBVIOUS
<1>7. /\ a.pc = "slot" /\ a.s = s /\ a.r = x /\ u.pc = "unqueue" /\ u.s = s
      /\ e.pc = "early" /\ e.s = s
  BY <1>6 DEF Frame, FrameOf
<1> DEFINE X == {a, u, e, top}
<1>8. /\ Chained' /\ OnStack = {top} \cup Under /\ OnStack' = X \cup Under
      /\ stack' # <<>> /\ top' = a /\ second' = u
  BY <1>1, <1>2, <1>4, <1>5, <1>6, ChainFour
<1>9. PICK f : Served(f)
  BY DEF RoundsInv
<1>10. RoundInv(f, s) /\ Governs(f)
  BY <1>3, <1>9 DEF Served
<1>11. /\ ~Slotting(s) /\ ~FailingAt(s) /\ ~XmitAt(s) /\ ~UnqueueAt(s) /\ ~EarlyAt(s) /\ ParseAt(s)
  BY <1>1, <1>2 DEF Slotting, At, top, XmitAt, UnqueueAt, EarlyAt, ParseAt, FailingAt, Doing
<1>12. /\ Slotting(s)' /\ ~FailingAt(s)' /\ ~XmitAt(s)' /\ UnqueueAt(s)' /\ EarlyAt(s)' /\ ParseAt(s)'
  BY <1>7, <1>8 DEF Slotting, At, top, XmitAt, UnqueueAt, EarlyAt, ParseAt, FailingAt, Doing
<1>13. NextSend' = NextSend /\ NextRead' = NextRead
  BY <1>2 DEF NextSend, NextRead
<1>14. f.pc = "read"
  BY <1>2, <1>8, <1>10 DEF Governs
<1>15. PICK own : Owned(own)
  BY DEF OwnerInv
<1>16. Steady
  BY <1>2, <1>4, TopSteady DEF ShiftPcs
<1>17. /\ sendqueue'[s] = Rest(sendqueue[s]) /\ sendqueue[s] \in Seq(Created)
       /\ status'[s] = "disconnected"
       /\ \A t \in Server : t # s => /\ sendqueue'[t] = sendqueue[t] /\ status'[t] = status[t]
                                     /\ link'[t] = link[t]
  BY <1>2, <1>3, <1>5 DEF TypeInv, SlotsOK, ConnOK
<1>18. Sends(s)' = sendqueue[s] /\ Reads(s)' = readqueue[s]
  <2> DEFINE g == <<a, u, e, b>>
  <2>1. /\ g \in Seq({a, u, e, b}) /\ 1 \in 1 .. Len(g) /\ 3 \in 1 .. Len(g)
        /\ g[1] = a /\ g[3] = e
    OBVIOUS
  <2>2. Goto(g)
    BY <1>5, <1>6
  <2> HIDE DEF g
  <2>3. Sends(s)' = sendqueue[s]
    <3>1. g[1] = Frame("slot", s, Popped(sendqueue[s], Null))
      BY <1>1, <1>6, <2>1
    <3>2. ServersInv(own)
      BY <1>15 DEF Owned
    <3>3. sendreq[s] # Null
      BY <1>2
    <3> QED BY <1>2, <1>3, <1>4, <1>16, <1>17, <2>1, <2>2, <3>1, <3>2, <3>3, SendNext
  <2>4. Leaving(s)' <=> \E i \in 1 .. Len(g) : Leaves(g[i], s)'
    BY <1>2, <1>4, <2>1, <2>2, LeavingAfter
  <2>5. Leaves(g[3], s)'
    BY <1>7, <2>1 DEF Leaves
  <2>6. Leaving(s)'
    BY <2>1, <2>4, <2>5
  <2> QED BY <1>2, <2>3, <2>6 DEF Reads
<1>19. sendqueue[s] = readqueue[s]
  BY <1>2, <1>3, <1>15, <1>16, EarlyQueues DEF Owned
<1>20. ASSUME StillToSend(f)' = StillToSend(f), StillToRead(f)' = StillToRead(f)
       PROVE  RoundInv(f, s)'
  <2>1. SendInv(f, s)' /\ ReadInv(f, s)'
    <3>1. StillToSend(f) = {}
      BY <1>14 DEF StillToSend
    <3> QED BY <1>2, <1>10, <1>11, <1>12, <1>13, <1>20, <3>1 DEF RoundInv, SendInv, ReadInv
  <2>2. ConnectionInv(s)'
    BY <1>2, <1>12, <1>17, <1>18, <1>19 DEF ConnectionInv, IsOpen
  <2>3. StreamInv(s)'
    <3>1. \A r \in ToSet(readqueue[s]) : r \in ToSet(sendqueue'[s]) \/ r = x
      BY <1>1, <1>17, <1>19, RestDrops, ToSetElements
    <3>2. top'.r = x
      BY <1>7, <1>8
    <3> QED BY <1>12, <1>18, <3>1, <3>2 DEF StreamInv
  <2> QED BY <2>1, <2>2, <2>3 DEF RoundInv
<1>21. ASSUME NEW t \in Server, t # s PROVE Kept(t)
  BY <1>2, <1>13, <1>17, <1>21 DEF Kept
<1>22. QueuesInv'
  BY <1>2, QueuesSame DEF RoundsInv
<1>23. \A g \in X : Allowed(f, g)
  BY <1>2, <1>7, <1>14 DEF Allowed, LoopPcs
<1>24. top.pc \notin LoopPcs \cup {"unread"}
  BY <1>2 DEF LoopPcs
<1> HIDE DEF X
<1> QED BY <1>1, <1>2, <1>3, <1>7, <1>8, <1>9, <1>20, <1>21, <1>22, <1>23, <1>24, HandlerStep

----------------------------------------------------------------------------
(* The loops of a round.                                                   *)

LEMMA LoopTop ==
  ASSUME TypeInv, Shape, NEW f, Governs(f), stack # <<>>, top.pc \in LoopPcs
  PROVE  /\ f = top /\ OnStack = {top} \cup Under /\ \A g \in Under : g.pc \in ScriptPcs
         /\ \A t : ~Unreading(t) /\ ~Busy(t) /\ StillToRead(top) = StillToRead(f)
         /\ top.pc \in {"lateSend", "lateRead", "send"} => StillToRead(top) = ToSet(reading[top.w])
<1>1. \A g \in Under : g.pc \in ScriptPcs
  BY UnderLower
<1>2. OnStack = {top} \cup Under
  <2>1. Len(stack) \in Nat \ {0} /\ top = stack[1]
    BY FirstElement DEF TypeInv, StackOK, top
  <2>2. Positions = {1} \cup 2 .. Len(stack)
    BY <2>1 DEF Positions
  <2> QED BY <2>1, <2>2 DEF OnStack, Under
<1>3. f = top
  BY <1>2 DEF Governs
<1>4. \A t : ~Unreading(t)
  BY <1>1, <1>2 DEF Unreading, ScriptPcs, LoopPcs
<1>5. \A t : ~Busy(t)
  BY DEF Busy, Doing, BusyPcs, LoopPcs
<1>6. top.pc \in {"lateSend", "lateRead", "send"} => StillToRead(top) = ToSet(reading[top.w])
  BY <1>4 DEF StillToRead
<1> QED BY <1>1, <1>2, <1>3, <1>4, <1>5, <1>6

LEMMA LoopGoverns ==
  ASSUME \A g \in Under : g.pc \in ScriptPcs, NEW X, OnStack' = X \cup Under,
         NEW g, g.pc \in LoopPcs \cup {"none"}, g.pc # "none" => g \in X,
         g.pc \in InRoundPcs => cur' = 3 - g.w, g.pc = "lateRead" => sending'[g.w] = <<>>,
         \A h \in X : h = g \/ (Allowed(g, h) /\ h.pc \notin {"early", "unqueue"})
  PROVE  /\ Governs(g)' /\ \A t : ~Unreading(t)'
         /\ g.pc \in {"lateSend", "lateRead", "send"} => StillToRead(g)' = ToSet(reading'[g.w])
<1>1. Governs(g)'
  BY DEF Governs, Allowed, ScriptPcs, LoopPcs, InRoundPcs
<1>2. \A t : ~Unreading(t)'
  BY DEF Unreading, Allowed, ScriptPcs, LoopPcs
<1>3. g.pc \in {"lateSend", "lateRead", "send"} => StillToRead(g)' = ToSet(reading'[g.w])
  BY <1>2 DEF StillToRead
<1> QED BY <1>1, <1>2, <1>3

LEMMA LoopStep ==
  ASSUME TypeInv, TypeInv', OwnerInv, OwnerInv', RoundsInv, Chained', QueuesInv', stack # <<>>,
         top.pc \in LoopPcs, NEW g, Governs(g)', NEW s,
         stack' = <<>> \/ top'.pc \notin BusyPcs \/ top'.s = s,
         \A t \in Server : t # s => Kept(t) /\ KeepsPlace(top, g, t),
         s \in Server => RoundInv(g, s)'
  PROVE  RoundsInv'
<1>1. Shape /\ Shape' /\ Chained
  BY DEF OwnerInv, RoundsInv
<1>2. PICK f : Served(f)
  BY DEF RoundsInv
<1>3. f = top
  BY <1>1, <1>2, LoopTop DEF Served
<1>4. top.pc \notin BusyPcs
  BY DEF LoopPcs, BusyPcs
<1>5. Served(g)'
  BY <1>1, <1>2, <1>3, <1>4, ServedStep
<1> QED BY <1>5, Assemble

(* What is left of a queue when the loop goes on. *)
LEMMA LeftBehind ==
  ASSUME NEW q \in Seq(Server), Distinct(q), NEW i \in Nat
  PROVE  /\ i + 1 > Len(q) => Left(q, i) = {}
         /\ ~(i + 1 > Len(q)) => /\ q[i + 1] \in Left(q, i) /\ q[i + 1] \in Server
                                 /\ Left(q, i + 1) = Left(q, i) \ {q[i + 1]}
         /\ Left(q, 0) = ToSet(q)
<1>1. Len(q) \in Nat
  OBVIOUS
<1>2. i + 1 > Len(q) => Left(q, i) = {}
  BY <1>1 DEF Left
<1>3. ASSUME ~(i + 1 > Len(q))
      PROVE  /\ q[i + 1] \in Left(q, i) /\ q[i + 1] \in Server
             /\ Left(q, i + 1) = Left(q, i) \ {q[i + 1]}
  <2>1. PICK k : k = i + 1
    OBVIOUS
  <2>2. k \in 1 .. Len(q) /\ k \in k .. Len(q) /\ k + 1 \in Nat
    BY <1>1, <1>3, <2>1
  <2>3. k .. Len(q) = {k} \cup k + 1 .. Len(q) /\ k \notin k + 1 .. Len(q)
    BY <1>1, <2>2
  <2>4. \A j \in k + 1 .. Len(q) : j \in 1 .. Len(q) /\ j # k
    BY <1>1, <2>2
  <2>5. \A j \in k + 1 .. Len(q) : q[j] # q[k]
    BY <2>2, <2>4 DEF Distinct
  <2>6. Left(q, i) = {q[k]} \cup Left(q, k)
    BY <2>1, <2>3 DEF Left
  <2>7. q[k] \notin Left(q, k)
    BY <2>5 DEF Left
  <2>8. q[k] \in Server
    BY <2>2, ElementOfSeq
  <2> QED BY <2>1, <2>6, <2>7, <2>8
<1>4. Left(q, 0) = ToSet(q)
  BY ToSetElements DEF Left
<1> QED BY <1>2, <1>3, <1>4

LEMMA StreamRests ==
  ASSUME TypeInv, TypeInv', Shape, Shape', Chained, Chained', NEW s \in Server,
         ConnectionInv(s), StreamInv(s),
         UNCHANGED <<status, link, Slots, request>>,
         stack = <<>> \/ top.pc \notin ShiftPcs, stack' = <<>> \/ top'.pc \notin ShiftPcs
  PROVE  ConnectionInv(s)' /\ StreamInv(s)'
<1>1. ~EarlyAt(s) /\ ~EarlyAt(s)'
  BY DEF EarlyAt, UnqueueAt, Doing, ShiftPcs
<1>2. ConnectionInv(s)'
  BY <1>1, SameSlots DEF ConnectionInv, IsOpen
<1>3. StreamInv(s)'
  BY StreamsKept DEF Slots
<1> QED BY <1>2, <1>3

LEMMA SendLoopRounds ==
  ASSUME TypeInv, TypeInv', OwnerInv, OwnerInv', RoundsInv, SendLoop
  PROVE  RoundsInv'
<1>1. PICK w, i, s, q : w = top.w /\ i = top.i /\ q = sending[w] /\ s = q[i + 1]
  OBVIOUS
<1>2. stack # <<>> /\ top.pc = "send" /\ w \in 1 .. 2 /\ i \in Nat
  BY <1>1, AtTop DEF SendLoop, FrameOK
<1>3. /\ UNCHANGED <<status, link, Slots, reading, cur, request>>
      /\ \/ /\ i + 1 > Len(q) /\ Goto(<<Loop("read", w, 0)>>) /\ UNCHANGED sending
         \/ /\ ~(i + 1 > Len(q)) /\ sendreq[s] = Null
         \/ /\ ~(i + 1 > Len(q)) /\ sendreq[s] # Null /\ UNCHANGED sending
            /\ Goto(<<FrameOf("xmit", s, Null, <<>>, w, 0), Loop("send", w, i + 1)>>)
         \/ /\ ~(i + 1 > Len(q)) /\ sendreq[s] # Null
            /\ sending' = [sending EXCEPT ![cur] = Push(@, s)]
            /\ Goto(<<Loop("send", w, i + 1)>>)
  BY <1>1 DEF SendLoop, conn, slots, Slots, reqs
<1>4. Shape /\ Shape' /\ Chained
  BY DEF OwnerInv, RoundsInv
<1>5. PICK f : Served(f)
  BY DEF RoundsInv
<1>6. /\ f = top /\ OnStack = {top} \cup Under /\ \A g \in Under : g.pc \in ScriptPcs
      /\ \A t : ~Unreading(t) /\ ~Busy(t)
      /\ StillToRead(top) = ToSet(reading[w])
  BY <1>1, <1>2, <1>4, <1>5, LoopTop DEF Served, LoopPcs
<1>7. Governs(top) /\ \A t \in Server : RoundInv(top, t)
  BY <1>5, <1>6 DEF Served
<1>8. cur = 3 - w /\ cur # w /\ cur \in 1 .. 2
  BY <1>1, <1>2, <1>7 DEF Governs, TypeInv, RoundsOK
<1>9. q \in Seq(Server) /\ Distinct(q) /\ sending[cur] \in Seq(Server) /\ Distinct(sending[cur])
      /\ DOMAIN sending = 1 .. 2
  BY <1>1, <1>2, QueueTyped DEF RoundsInv, QueuesInv
<1>10. StillToSend(top) = Left(q, i)
  BY <1>1, <1>2 DEF StillToSend
<1>11. /\ i + 1 > Len(q) => Left(q, i) = {}
       /\ ~(i + 1 > Len(q)) => /\ s \in Left(q, i) /\ s \in Server
                               /\ Left(q, i + 1) = Left(q, i) \ {s}
  BY <1>1, <1>2, <1>9, LeftBehind
<1>12. top.pc \in LoopPcs /\ top.pc \notin ShiftPcs \cup {"slot", "unqueue", "early"}
  BY <1>2 DEF LoopPcs, ShiftPcs
<1>13. CASE i + 1 > Len(q) /\ Goto(<<Loop("read", w, 0)>>) /\ UNCHANGED sending
  <2>1. PICK g : g = Loop("read", w, 0)
    OBVIOUS
  <2>2. g.pc = "read" /\ g.w = w /\ g.i = 0
    BY <2>1 DEF Loop, FrameOf
  <2> DEFINE X == {g}
  <2>3. Chained' /\ OnStack' = X \cup Under /\ stack' # <<>> /\ top' = g
    BY <1>2, <1>4, <1>12, <1>13, <2>1, <2>2, ChainOne
  <2>4. Governs(g)'
    <3>1. \A h \in X : h = g
      OBVIOUS
    <3>2. g \in X /\ cur' = 3 - g.w
      BY <1>3, <1>8, <2>2
    <3> HIDE DEF X
    <3> QED BY <1>6, <2>2, <2>3, <3>1, <3>2, LoopGoverns DEF LoopPcs
  <2>5. ASSUME NEW t \in Server PROVE Kept(t) /\ KeepsPlace(top, g, t)
    <3>1. Kept(t)
      BY <1>3, <1>13, KeptAll, StreamsSame
    <3>2. StillToSend(g)' = StillToSend(top)
      BY <1>10, <1>11, <1>13, <2>2 DEF StillToSend
    <3>3. StillToRead(g)' = StillToRead(top)
      <4>1. Left(reading[w], 0) = ToSet(reading[w])
        BY <1>2, LeftBehind, QueueTyped DEF RoundsInv, QueuesInv
      <4>2. StillToRead(g)' = Left(reading[w], 0)
        BY <1>3, <2>2 DEF StillToRead, Left
      <4> QED BY <1>6, <4>1, <4>2
    <3> QED BY <3>1, <3>2, <3>3 DEF KeepsPlace
  <2>6. QueuesInv'
    BY <1>3, <1>13, QueuesSame DEF RoundsInv
  <2>7. g.pc \notin BusyPcs /\ NoServer \notin Server
    BY <2>2, ServerAssumption DEF BusyPcs
  <2> QED BY <1>2, <1>12, <2>3, <2>4, <2>5, <2>6, <2>7, LoopStep
<1>14. CASE ~(i + 1 > Len(q)) /\ sendreq[s] = Null
  BY <1>7, <1>10, <1>11, <1>14 DEF RoundInv, SendInv
<1>15. CASE ~(i + 1 > Len(q)) /\ sendreq[s] # Null
  <2>1. PICK g : g = Loop("send", w, i + 1)
    OBVIOUS
  <2>2. g.pc = "send" /\ g.w = w /\ g.i = i + 1
    BY <2>1 DEF Loop, FrameOf
  <2>3. s \in Server /\ s \in StillToSend(top) /\ RoundInv(top, s)
    BY <1>7, <1>10, <1>11, <1>15
  <2>4. /\ s \notin NextSend
        /\ \A t : ~XmitAt(t) /\ ~UnqueueAt(t) /\ ~EarlyAt(t) /\ ~ParseAt(t) /\ ~FailingAt(t)
    BY <1>6, <2>3, NotBusy DEF RoundInv, SendInv
  <2>5. ASSUME sending'[w] = sending[w] PROVE StillToSend(g)' = StillToSend(top) \ {s}
    <3>1. StillToSend(g)' = Left(q, i + 1)
      BY <1>1, <2>2, <2>5 DEF StillToSend, Left
    <3> QED BY <1>10, <1>11, <1>15, <3>1
  <2>6. CASE /\ UNCHANGED sending
             /\ Goto(<<FrameOf("xmit", s, Null, <<>>, w, 0), Loop("send", w, i + 1)>>)
    <3>1. PICK h : h = FrameOf("xmit", s, Null, <<>>, w, 0)
      OBVIOUS
    <3>2. h.pc = "xmit" /\ h.w = w /\ h.s = s
      BY <3>1 DEF FrameOf
    <3> DEFINE X == {h, g}
    <3>3. Chained' /\ OnStack' = X \cup Under /\ stack' # <<>> /\ top' = h /\ second' = g
      <4>1. Follows(h, g)
        BY <2>2, <3>2 DEF Follows
      <4> QED BY <1>2, <1>4, <1>12, <2>1, <2>2, <2>6, <3>1, <3>2, <4>1, ChainTwo
    <3>4. Allowed(g, h)
      BY <2>2, <3>2 DEF Allowed, LoopPcs
    <3>5. Governs(g)' /\ StillToRead(g)' = StillToRead(top)
      <4>1. Governs(g)' /\ StillToRead(g)' = ToSet(reading'[g.w])
        <5>1. (\A k \in X : k = g \/ k = h) /\ h.pc \notin {"early", "unqueue"}
          BY <3>2
        <5>2. g \in X /\ cur' = 3 - g.w
          BY <1>3, <1>8, <2>2
        <5> HIDE DEF X
        <5> QED BY <1>6, <2>2, <3>3, <3>4, <5>1, <5>2, LoopGoverns DEF LoopPcs
      <4> QED BY <1>3, <1>6, <2>2, <4>1
    <3>6. StillToSend(g)' = StillToSend(top) \ {s}
      BY <2>5, <2>6
    <3>7. ASSUME NEW t \in Server, t # s PROVE Kept(t) /\ KeepsPlace(top, g, t)
      <4>1. Kept(t)
        BY <1>3, <2>6, KeptAll, StreamsSame
      <4> QED BY <3>5, <3>6, <3>7, <4>1 DEF KeepsPlace
    <3>8. NextSend' = NextSend /\ NextRead' = NextRead
      BY <1>3, <2>6 DEF NextSend, NextRead
    <3>9. XmitAt(s)' /\ ~UnqueueAt(s)' /\ ~ParseAt(s)' /\ ~FailingAt(s)'
      BY <3>2, <3>3 DEF XmitAt, UnqueueAt, ParseAt, EarlyAt, FailingAt, Doing
    <3>10. RoundInv(g, s)'
      <4>1. SendInv(g, s)' /\ ReadInv(g, s)'
        BY <1>3, <2>3, <2>4, <3>5, <3>6, <3>8, <3>9, SameSlots DEF RoundInv, SendInv, ReadInv
      <4>2. ConnectionInv(s)' /\ StreamInv(s)'
        BY <1>3, <1>4, <1>12, <2>3, <3>2, <3>3, StreamRests DEF RoundInv, ShiftPcs
      <4> QED BY <4>1, <4>2 DEF RoundInv
    <3>11. QueuesInv'
      BY <1>3, <2>6, QueuesSame DEF RoundsInv
    <3> QED BY <1>2, <1>12, <3>2, <3>3, <3>5, <3>7, <3>10, <3>11, LoopStep
  <2>7. CASE /\ sending' = [sending EXCEPT ![cur] = Push(@, s)]
             /\ Goto(<<Loop("send", w, i + 1)>>)
    <3> DEFINE X == {g}
    <3>3. Chained' /\ OnStack' = X \cup Under /\ stack' # <<>> /\ top' = g
      BY <1>2, <1>4, <1>12, <2>1, <2>2, <2>7, ChainOne
    <3>5. Governs(g)' /\ StillToRead(g)' = StillToRead(top)
      <4>1. Governs(g)' /\ StillToRead(g)' = ToSet(reading'[g.w])
        <5>1. \A k \in X : k = g
          OBVIOUS
        <5>2. g \in X /\ cur' = 3 - g.w
          BY <1>3, <1>8, <2>2
        <5> HIDE DEF X
        <5> QED BY <1>6, <2>2, <3>3, <5>1, <5>2, LoopGoverns DEF LoopPcs
      <4> QED BY <1>3, <1>6, <2>2, <4>1
    <3>1. /\ sending'[cur] = Push(sending[cur], s)
          /\ \A v \in 1 .. 2 : v # cur => sending'[v] = sending[v]
      BY <1>8, <1>9, <2>7
    <3>2. /\ Distinct(Push(sending[cur], s))
          /\ \A t : t \in ToSet(Push(sending[cur], s)) <=> t = s \/ t \in ToSet(sending[cur])
      BY <1>9, <2>3, QueueAdds
    <3>6. StillToSend(g)' = StillToSend(top) \ {s}
      BY <1>2, <1>8, <2>5, <3>1
    <3>8. NextRead' = NextRead /\ \A t : (t \in NextSend)' <=> t = s \/ t \in NextSend
      BY <1>3, <3>1, <3>2 DEF NextSend, NextRead
    <3>7. ASSUME NEW t \in Server, t # s PROVE Kept(t) /\ KeepsPlace(top, g, t)
      <4>1. Kept(t)
        BY <1>3, <3>7, <3>8, SameSlots DEF Kept
      <4> QED BY <3>5, <3>6, <3>7, <4>1 DEF KeepsPlace
    <3>9. ~XmitAt(s)' /\ ~UnqueueAt(s)' /\ ~ParseAt(s)' /\ ~FailingAt(s)'
      BY <2>2, <3>3 DEF XmitAt, UnqueueAt, ParseAt, EarlyAt, FailingAt, Doing
    <3>10. RoundInv(g, s)'
      <4>1. SendInv(g, s)' /\ ReadInv(g, s)'
        BY <1>3, <1>15, <2>3, <2>4, <3>5, <3>6, <3>8, <3>9, SameSlots DEF RoundInv, SendInv, ReadInv
      <4>2. ConnectionInv(s)' /\ StreamInv(s)'
        BY <1>3, <1>4, <1>12, <2>2, <2>3, <3>3, StreamRests DEF RoundInv, ShiftPcs
      <4> QED BY <4>1, <4>2 DEF RoundInv
    <3>11. QueuesInv'
      BY <1>3, <3>1, <3>2 DEF RoundsInv, QueuesInv
    <3>12. g.pc \notin BusyPcs
      BY <2>2 DEF BusyPcs
    <3> QED BY <1>2, <1>12, <3>3, <3>5, <3>7, <3>10, <3>11, <3>12, LoopStep
  <2> QED BY <1>3, <1>15, <2>6, <2>7
<1> QED BY <1>3, <1>13, <1>14, <1>15

LEMMA ReadLoopRounds ==
  ASSUME TypeInv, TypeInv', OwnerInv, OwnerInv', RoundsInv, ReadLoop
  PROVE  RoundsInv'
<1>1. PICK w, i, s, q : w = top.w /\ i = top.i /\ q = reading[w] /\ s = q[i + 1]
  OBVIOUS
<1>2. stack # <<>> /\ top.pc = "read" /\ w \in 1 .. 2 /\ i \in Nat
  BY <1>1, AtTop DEF ReadLoop, FrameOK
<1>3. /\ UNCHANGED <<status, link, Slots, sending, cur, request>>
      /\ \/ /\ i + 1 > Len(q) /\ Goto(<<>>) /\ UNCHANGED reading
         \/ /\ ~(i + 1 > Len(q)) /\ readreq[s] = Null
         \/ /\ ~(i + 1 > Len(q)) /\ readreq[s] # Null /\ UNCHANGED reading
            /\ Goto(<<FrameOf("parse", s, Null, <<>>, w, 0), Loop("read", w, i + 1)>>)
         \/ /\ ~(i + 1 > Len(q)) /\ readreq[s] # Null
            /\ reading' = [reading EXCEPT ![cur] = Push(@, s)]
            /\ Goto(<<Loop("read", w, i + 1)>>)
  BY <1>1 DEF ReadLoop, conn, slots, Slots, reqs, Return
<1>4. Shape /\ Shape' /\ Chained
  BY DEF OwnerInv, RoundsInv
<1>5. PICK f : Served(f)
  BY DEF RoundsInv
<1>6. /\ f = top /\ OnStack = {top} \cup Under /\ \A g \in Under : g.pc \in ScriptPcs
      /\ \A t : ~Unreading(t) /\ ~Busy(t)
  BY <1>1, <1>2, <1>4, <1>5, LoopTop DEF Served, LoopPcs
<1>7. Governs(top) /\ \A t \in Server : RoundInv(top, t)
  BY <1>5, <1>6 DEF Served
<1>8. cur = 3 - w /\ cur # w /\ cur \in 1 .. 2
  BY <1>1, <1>2, <1>7 DEF Governs, TypeInv, RoundsOK
<1>9. q \in Seq(Server) /\ Distinct(q) /\ reading[cur] \in Seq(Server) /\ Distinct(reading[cur])
      /\ DOMAIN reading = 1 .. 2
  BY <1>1, <1>2, QueueTyped DEF RoundsInv, QueuesInv
<1>10. StillToRead(top) = Left(q, i) /\ StillToSend(top) = {}
  BY <1>1, <1>2 DEF StillToRead, StillToSend
<1>11. /\ i + 1 > Len(q) => Left(q, i) = {}
       /\ ~(i + 1 > Len(q)) => /\ s \in Left(q, i) /\ s \in Server
                               /\ Left(q, i + 1) = Left(q, i) \ {s}
  BY <1>1, <1>2, <1>9, LeftBehind
<1>12. top.pc \in LoopPcs /\ top.pc \notin ShiftPcs \cup {"slot", "unqueue", "early"}
  BY <1>2 DEF LoopPcs, ShiftPcs
<1>13. CASE i + 1 > Len(q) /\ Goto(<<>>) /\ UNCHANGED reading
  <2>1. PICK g : g = NoLoop
    OBVIOUS
  <2>2. g.pc = "none"
    BY <2>1 DEF NoLoop, Loop, FrameOf
  <2> DEFINE X == {}
  <2>3. Chained' /\ OnStack' = X \cup Under /\ (stack' = <<>> \/ top'.pc \notin BusyPcs)
    BY <1>2, <1>4, <1>12, <1>13, ChainReturn
  <2>4. Governs(g)'
    <3> HIDE DEF X
    <3>1. \A k \in X : FALSE
      BY DEF X
    <3> QED BY <1>6, <2>2, <2>3, <3>1, LoopGoverns DEF InRoundPcs
  <2>5. ASSUME NEW t \in Server PROVE Kept(t) /\ KeepsPlace(top, g, t)
    <3>1. Kept(t)
      BY <1>3, <1>13, KeptAll, StreamsSame
    <3>2. StillToSend(g)' = StillToSend(top) /\ StillToRead(g)' = StillToRead(top)
      BY <1>10, <1>11, <1>13, <2>2 DEF StillToSend, StillToRead
    <3> QED BY <3>1, <3>2 DEF KeepsPlace
  <2>6. QueuesInv'
    BY <1>3, <1>13, QueuesSame DEF RoundsInv
  <2>7. NoServer \notin Server
    BY ServerAssumption
  <2> QED BY <1>2, <1>12, <2>3, <2>4, <2>5, <2>6, <2>7, LoopStep
<1>14. CASE ~(i + 1 > Len(q)) /\ readreq[s] = Null
  BY <1>7, <1>10, <1>11, <1>14 DEF RoundInv, ReadInv
<1>15. CASE ~(i + 1 > Len(q)) /\ readreq[s] # Null
  <2>1. PICK g : g = Loop("read", w, i + 1)
    OBVIOUS
  <2>2. g.pc = "read" /\ g.w = w /\ g.i = i + 1
    BY <2>1 DEF Loop, FrameOf
  <2>3. s \in Server /\ s \in StillToRead(top) /\ RoundInv(top, s)
    BY <1>7, <1>10, <1>11, <1>15
  <2>4. /\ s \notin NextRead
        /\ \A t : ~XmitAt(t) /\ ~UnqueueAt(t) /\ ~EarlyAt(t) /\ ~ParseAt(t) /\ ~FailingAt(t)
    BY <1>6, <2>3, NotBusy DEF RoundInv, ReadInv
  <2>5. ASSUME reading'[w] = reading[w] PROVE StillToRead(g)' = StillToRead(top) \ {s}
    <3>1. StillToRead(g)' = Left(q, i + 1)
      BY <1>1, <2>2, <2>5 DEF StillToRead, Left
    <3> QED BY <1>10, <1>11, <1>15, <3>1
  <2>8. StillToSend(g)' = StillToSend(top)
    BY <1>10, <2>2 DEF StillToSend
  <2>6. CASE /\ UNCHANGED reading
             /\ Goto(<<FrameOf("parse", s, Null, <<>>, w, 0), Loop("read", w, i + 1)>>)
    <3>1. PICK h : h = FrameOf("parse", s, Null, <<>>, w, 0)
      OBVIOUS
    <3>2. h.pc = "parse" /\ h.s = s
      BY <3>1 DEF FrameOf
    <3> DEFINE X == {h, g}
    <3>3. Chained' /\ OnStack' = X \cup Under /\ stack' # <<>> /\ top' = h /\ second' = g
      <4>1. Follows(h, g)
        BY <2>2, <3>2 DEF Follows
      <4> QED BY <1>2, <1>4, <1>12, <2>1, <2>2, <2>6, <3>1, <3>2, <4>1, ChainTwo
    <3>4. Allowed(g, h)
      BY <2>2, <3>2 DEF Allowed, LoopPcs
    <3>5. Governs(g)'
      <5>1. (\A k \in X : k = g \/ k = h) /\ h.pc \notin {"early", "unqueue"}
        BY <3>2
      <5>2. g \in X /\ cur' = 3 - g.w
        BY <1>3, <1>8, <2>2
      <5> HIDE DEF X
      <5> QED BY <1>6, <2>2, <3>3, <3>4, <5>1, <5>2, LoopGoverns DEF LoopPcs
    <3>6. StillToRead(g)' = StillToRead(top) \ {s}
      BY <2>5, <2>6
    <3>7. ASSUME NEW t \in Server, t # s PROVE Kept(t) /\ KeepsPlace(top, g, t)
      <4>1. Kept(t)
        BY <1>3, <2>6, KeptAll, StreamsSame
      <4> QED BY <2>8, <3>6, <3>7, <4>1 DEF KeepsPlace
    <3>8. NextSend' = NextSend /\ NextRead' = NextRead
      BY <1>3, <2>6 DEF NextSend, NextRead
    <3>9. ~XmitAt(s)' /\ ~UnqueueAt(s)' /\ ParseAt(s)' /\ ~FailingAt(s)'
      BY <3>2, <3>3 DEF XmitAt, UnqueueAt, ParseAt, EarlyAt, FailingAt, Doing
    <3>10. RoundInv(g, s)'
      <4>1. SendInv(g, s)' /\ ReadInv(g, s)'
        BY <1>3, <1>10, <2>3, <2>4, <2>8, <3>6, <3>8, <3>9, SameSlots DEF RoundInv, SendInv, ReadInv
      <4>2. ConnectionInv(s)' /\ StreamInv(s)'
        BY <1>3, <1>4, <1>12, <2>3, <3>2, <3>3, StreamRests DEF RoundInv, ShiftPcs
      <4> QED BY <4>1, <4>2 DEF RoundInv
    <3>11. QueuesInv'
      BY <1>3, <2>6, QueuesSame DEF RoundsInv
    <3> QED BY <1>2, <1>12, <3>2, <3>3, <3>5, <3>7, <3>10, <3>11, LoopStep
  <2>7. CASE /\ reading' = [reading EXCEPT ![cur] = Push(@, s)]
             /\ Goto(<<Loop("read", w, i + 1)>>)
    <3> DEFINE X == {g}
    <3>3. Chained' /\ OnStack' = X \cup Under /\ stack' # <<>> /\ top' = g
      BY <1>2, <1>4, <1>12, <2>1, <2>2, <2>7, ChainOne
    <3>5. Governs(g)'
      <5>1. \A k \in X : k = g
        OBVIOUS
      <5>2. g \in X /\ cur' = 3 - g.w
        BY <1>3, <1>8, <2>2
      <5> HIDE DEF X
      <5> QED BY <1>6, <2>2, <3>3, <5>1, <5>2, LoopGoverns DEF LoopPcs
    <3>1. /\ reading'[cur] = Push(reading[cur], s)
          /\ \A v \in 1 .. 2 : v # cur => reading'[v] = reading[v]
      BY <1>8, <1>9, <2>7
    <3>2. /\ Distinct(Push(reading[cur], s))
          /\ \A t : t \in ToSet(Push(reading[cur], s)) <=> t = s \/ t \in ToSet(reading[cur])
      BY <1>9, <2>3, QueueAdds
    <3>6. StillToRead(g)' = StillToRead(top) \ {s}
      BY <1>2, <1>8, <2>5, <3>1
    <3>8. NextSend' = NextSend /\ \A t : (t \in NextRead)' <=> t = s \/ t \in NextRead
      BY <1>3, <3>1, <3>2 DEF NextSend, NextRead
    <3>7. ASSUME NEW t \in Server, t # s PROVE Kept(t) /\ KeepsPlace(top, g, t)
      <4>1. Kept(t)
        BY <1>3, <3>7, <3>8, SameSlots DEF Kept
      <4> QED BY <2>8, <3>6, <3>7, <4>1 DEF KeepsPlace
    <3>9. ~XmitAt(s)' /\ ~UnqueueAt(s)' /\ ~ParseAt(s)' /\ ~FailingAt(s)'
      BY <2>2, <3>3 DEF XmitAt, UnqueueAt, ParseAt, EarlyAt, FailingAt, Doing
    <3>10. RoundInv(g, s)'
      <4>1. SendInv(g, s)' /\ ReadInv(g, s)'
        BY <1>3, <1>15, <2>3, <2>4, <2>8, <3>6, <3>8, <3>9, SameSlots DEF RoundInv, SendInv, ReadInv
      <4>2. ConnectionInv(s)' /\ StreamInv(s)'
        BY <1>3, <1>4, <1>12, <2>2, <2>3, <3>3, StreamRests DEF RoundInv, ShiftPcs
      <4> QED BY <4>1, <4>2 DEF RoundInv
    <3>11. QueuesInv'
      BY <1>3, <3>1, <3>2 DEF RoundsInv, QueuesInv
    <3>12. g.pc \notin BusyPcs
      BY <2>2 DEF BusyPcs
    <3> QED BY <1>2, <1>12, <3>3, <3>5, <3>7, <3>10, <3>11, <3>12, LoopStep
  <2> QED BY <1>3, <1>15, <2>6, <2>7
<1> QED BY <1>3, <1>13, <1>14, <1>15

(* A server that timed out leaves the round. *)
LEMMA TakesRounds ==
  ASSUME TypeInv, TypeInv', OwnerInv, OwnerInv', RoundsInv, stack # <<>>,
         top.pc \in {"lateSend", "lateRead"}, NEW w \in 1 .. 2, w = top.w, NEW s \in Server,
         UNCHANGED <<status, link, Slots, cur, request>>,
         sending' = [sending EXCEPT ![w] = Without(@, s)],
         reading' = [reading EXCEPT ![w] = Without(@, s)],
         NEW h, h.pc = "late", h.s = s, NEW g, g = top, Goto(<<h, g>>)
  PROVE  RoundsInv'
<1>1. Shape /\ Shape' /\ Chained
  BY DEF OwnerInv, RoundsInv
<1>2. PICK f : Served(f)
  BY DEF RoundsInv
<1>3. /\ f = top /\ OnStack = {top} \cup Under /\ \A k \in Under : k.pc \in ScriptPcs
      /\ \A t : ~Unreading(t) /\ ~Busy(t)
      /\ StillToRead(top) = ToSet(reading[w])
  BY <1>1, <1>2, LoopTop DEF Served, LoopPcs
<1>4. Governs(top) /\ \A t \in Server : RoundInv(top, t)
  BY <1>2, <1>3 DEF Served
<1>5. cur = 3 - w /\ cur # w /\ cur \in 1 .. 2
  BY <1>4 DEF Governs, TypeInv, RoundsOK
<1>6. /\ Distinct(sending'[w]) /\ Distinct(reading'[w])
      /\ \A t : t \in ToSet(sending'[w]) <=> t # s /\ t \in ToSet(sending[w])
      /\ \A t : t \in ToSet(reading'[w]) <=> t # s /\ t \in ToSet(reading[w])
      /\ \A v \in 1 .. 2 : v # w => sending'[v] = sending[v] /\ reading'[v] = reading[v]
      /\ sending[w] \in Seq(Server) /\ sending'[w] \in Seq(Server)
  <2>1. /\ sending[w] \in Seq(Server) /\ reading[w] \in Seq(Server)
        /\ Distinct(sending[w]) /\ Distinct(reading[w])
        /\ DOMAIN sending = 1 .. 2 /\ DOMAIN reading = 1 .. 2
    BY QueueTyped DEF RoundsInv, QueuesInv
  <2>2. /\ Distinct(Without(sending[w], s)) /\ Without(sending[w], s) \in Seq(Server)
        /\ \A t : t \in ToSet(Without(sending[w], s)) <=> t # s /\ t \in ToSet(sending[w])
    BY <2>1, QueueDrops, WithoutSet
  <2>3. /\ Distinct(Without(reading[w], s))
        /\ \A t : t \in ToSet(Without(reading[w], s)) <=> t # s /\ t \in ToSet(reading[w])
    BY <2>1, QueueDrops
  <2>4. sending'[w] = Without(sending[w], s) /\ reading'[w] = Without(reading[w], s)
    BY <2>1
  <2>5. \A v \in 1 .. 2 : v # w => sending'[v] = sending[v] /\ reading'[v] = reading[v]
    BY <2>1
  <2> QED BY <2>1, <2>2, <2>3, <2>4, <2>5
<1>7. top.pc \in LoopPcs /\ top.pc \notin ShiftPcs \cup {"slot", "unqueue", "early", "retry", "retryRead"}
  BY DEF LoopPcs, ShiftPcs
<1> DEFINE X == {h, g}
<1>8. Chained' /\ OnStack' = X \cup Under /\ stack' # <<>> /\ top' = h
  <2>1. Follows(h, g)
    BY DEF Follows
  <2> QED BY <1>1, <1>7, <2>1, ChainTwo
<1>9. Allowed(g, h)
  BY DEF Allowed, LoopPcs
<1>10. g.pc = "lateRead" => sending'[g.w] = <<>>
  <2>1. ASSUME g.pc = "lateRead" PROVE sending'[w] = <<>>
    <3>1. sending[w] = <<>>
      BY <1>4, <2>1 DEF Governs
    <3>3. ToSet(sending[w]) = {}
      BY <1>6, <3>1, ToSetElements
    <3>2. ToSet(sending'[w]) = {}
      BY <1>6, <3>3
    <3> QED BY <1>6, <3>2, ToSetElements
  <2> QED BY <2>1
<1>11. Governs(g)' /\ StillToRead(g)' = ToSet(reading'[w])
  <2>1. (\A k \in X : k = g \/ k = h) /\ h.pc \notin {"early", "unqueue"}
    OBVIOUS
  <2>2. g \in X /\ cur' = 3 - g.w
    BY <1>5
  <2>3. g.pc \in {"lateSend", "lateRead"} /\ g.w = w /\ g.pc \in LoopPcs
    BY DEF LoopPcs
  <2> HIDE DEF X
  <2>4. Governs(g)' /\ StillToRead(g)' = ToSet(reading'[g.w])
    <3>1. \A k \in X : k = g \/ (Allowed(g, k) /\ k.pc \notin {"early", "unqueue"})
      BY <1>9, <2>1
    <3>2. (\A k \in Under : k.pc \in ScriptPcs) /\ OnStack' = X \cup Under
      BY <1>3, <1>8
    <3> QED BY <1>10, <2>2, <2>3, <3>1, <3>2, LoopGoverns
  <2> QED BY <2>3, <2>4
<1>12. \A t : (t \in StillToRead(g))' <=> t # s /\ t \in StillToRead(top)
  BY <1>3, <1>6, <1>11
<1>13. \A t : (t \in StillToSend(g))' <=> t # s /\ t \in StillToSend(top)
  <2>1. CASE top.pc = "lateSend"
    <3>1. StillToSend(top) = ToSet(sending[w]) /\ StillToSend(g)' = ToSet(sending'[w])
      BY <2>1 DEF StillToSend
    <3> QED BY <1>6, <3>1
  <2>2. CASE top.pc = "lateRead"
    BY <2>2 DEF StillToSend
  <2> QED BY <2>1, <2>2
<1>14. NextSend' = NextSend /\ NextRead' = NextRead
  BY <1>5, <1>6 DEF NextSend, NextRead
<1>15. ASSUME NEW t \in Server, t # s PROVE Kept(t) /\ KeepsPlace(top, g, t)
  <2>1. Kept(t)
    BY <1>14, SameSlots DEF Kept
  <2> QED BY <1>12, <1>13, <1>15, <2>1 DEF KeepsPlace
<1>16. /\ ~XmitAt(s)' /\ ~UnqueueAt(s)' /\ ~ParseAt(s)' /\ FailingAt(s)'
       /\ ~XmitAt(s) /\ ~UnqueueAt(s) /\ ~ParseAt(s)
  <2>1. /\ ~XmitAt(s)' /\ ~UnqueueAt(s)' /\ ~ParseAt(s)' /\ FailingAt(s)'
    BY <1>8 DEF XmitAt, UnqueueAt, ParseAt, EarlyAt, FailingAt, Doing
  <2> QED BY <1>3, <2>1, NotBusy
<1>17. RoundInv(g, s)'
  <2>1. SendInv(g, s)' /\ ReadInv(g, s)'
    BY <1>4, <1>12, <1>13, <1>14, <1>16, SameSlots DEF RoundInv, SendInv, ReadInv
  <2>2. ConnectionInv(s)' /\ StreamInv(s)'
    BY <1>1, <1>4, <1>7, <1>8, StreamRests DEF RoundInv, ShiftPcs
  <2> QED BY <2>1, <2>2 DEF RoundInv
<1>18. QueuesInv'
  BY <1>6 DEF RoundsInv, QueuesInv
<1> QED BY <1>7, <1>8, <1>11, <1>15, <1>17, <1>18, LoopStep

(* The loop over those that were to send ends, or the one over those that  *)
(* were to be read from.                                                   *)
LEMMA LateEnds ==
  ASSUME TypeInv, TypeInv', OwnerInv, OwnerInv', RoundsInv, stack # <<>>,
         NEW w \in 1 .. 2, w = top.w,
         UNCHANGED <<status, link, Slots, sending, reading, cur, request>>,
         NEW g, g.w = w, Goto(<<g>>),
         \/ top.pc = "lateSend" /\ sending[w] = <<>> /\ g.pc = "lateRead"
         \/ top.pc = "lateRead" /\ reading[w] = <<>> /\ g.pc = "send" /\ g.i = 0
  PROVE  RoundsInv'
<1>1. Shape /\ Shape' /\ Chained
  BY DEF OwnerInv, RoundsInv
<1>2. PICK f : Served(f)
  BY DEF RoundsInv
<1>3. /\ f = top /\ OnStack = {top} \cup Under /\ \A k \in Under : k.pc \in ScriptPcs
      /\ StillToRead(top) = ToSet(reading[w])
  BY <1>1, <1>2, LoopTop DEF Served, LoopPcs
<1>4. Governs(top)
  BY <1>2, <1>3 DEF Served
<1>5. cur = 3 - w /\ sending[w] = <<>>
  BY <1>4 DEF Governs
<1>7. top.pc \in LoopPcs /\ top.pc \notin {"slot", "unqueue", "early"} /\ g.pc \notin BusyPcs
      /\ g.pc \notin {"slot", "unqueue", "early", "retry", "retryRead"} /\ g.pc \in LoopPcs
  BY DEF LoopPcs, BusyPcs
<1> DEFINE X == {g}
<1>8. Chained' /\ OnStack' = X \cup Under /\ stack' # <<>> /\ top' = g
  BY <1>1, <1>7, ChainOne
<1>11. Governs(g)' /\ StillToRead(g)' = ToSet(reading'[w])
  <2>1. \A k \in X : k = g
    OBVIOUS
  <2>2. g \in X /\ cur' = 3 - g.w /\ sending'[g.w] = <<>>
    BY <1>5
  <2> HIDE DEF X
  <2> QED BY <1>3, <1>7, <1>8, <2>1, <2>2, LoopGoverns
<1>12. StillToRead(g)' = StillToRead(top)
  BY <1>3, <1>11
<1>13. StillToSend(g)' = StillToSend(top)
  <2>1. ToSet(sending[w]) = {}
    BY <1>5, ToSetElements, QueueTyped
  <2>2. Left(sending[w], 0) = {}
    BY <1>5, <2>1, LeftBehind, QueueTyped DEF RoundsInv, QueuesInv
  <2>3. StillToSend(top) = {}
    BY <2>1 DEF StillToSend
  <2>4. StillToSend(g)' = {}
    <3>1. g.pc = "lateRead" \/ (g.pc = "send" /\ StillToSend(g)' = Left(sending[w], 0))
      BY DEF StillToSend, Left
    <3> QED BY <2>2, <3>1 DEF StillToSend
  <2> QED BY <2>3, <2>4
<1>15. ASSUME NEW t \in Server PROVE Kept(t) /\ KeepsPlace(top, g, t)
  <2>1. Kept(t)
    BY KeptAll, StreamsSame
  <2> QED BY <1>12, <1>13, <2>1 DEF KeepsPlace
<1>18. QueuesInv' /\ NoServer \notin Server
  BY QueuesSame, ServerAssumption DEF RoundsInv
<1> QED BY <1>7, <1>8, <1>11, <1>15, <1>18, LoopStep

LEMMA TimeoutRounds ==
  ASSUME TypeInv, TypeInv', OwnerInv, OwnerInv', RoundsInv, LateSend \/ LateRead
  PROVE  RoundsInv'
<1>1. PICK w, b : w = top.w /\ b = top
  OBVIOUS
<1>2. stack # <<>> /\ top.pc \in {"lateSend", "lateRead"} /\ w \in 1 .. 2
  BY <1>1, AtTop DEF LateSend, LateRead, FrameOK
<1>3. UNCHANGED <<status, link, Slots, cur, request>>
  BY DEF LateSend, LateRead, conn, slots, Slots, reqs
<1>4. \/ \E q \in {sending[w], reading[w]} : \E r : q # <<>> /\ TakeOut(Head(q), w, r)
      \/ /\ top.pc = "lateSend" /\ sending[w] = <<>> /\ UNCHANGED <<sending, reading>>
         /\ Goto(<<Loop("lateRead", w, top.i)>>)
      \/ /\ top.pc = "lateRead" /\ reading[w] = <<>> /\ UNCHANGED <<sending, reading>>
         /\ Goto(<<Loop("send", w, 0)>>)
  BY <1>1 DEF LateSend, LateRead, At, top
<1>5. CASE \E q \in {sending[w], reading[w]} : \E r : q # <<>> /\ TakeOut(Head(q), w, r)
  <2>1. PICK q \in {sending[w], reading[w]} : \E r : q # <<>> /\ TakeOut(Head(q), w, r)
    BY <1>5
  <2>2. PICK r : q # <<>> /\ TakeOut(Head(q), w, r)
    BY <2>1
  <2>3. PICK s : s = Head(q)
    OBVIOUS
  <2>4. s \in Server
    BY <1>2, <2>2, <2>3, FirstElement, QueueTyped
  <2>5. PICK h : h = FrameOf("late", s, r, <<>>, 0, top.i)
    OBVIOUS
  <2>6. h.pc = "late" /\ h.s = s
    BY <2>5 DEF FrameOf
  <2>7. /\ sending' = [sending EXCEPT ![w] = Without(@, s)]
        /\ reading' = [reading EXCEPT ![w] = Without(@, s)]
        /\ Goto(<<h, b>>)
    BY <1>1, <2>2, <2>3, <2>5 DEF TakeOut
  <2> QED BY <1>1, <1>2, <1>3, <2>4, <2>6, <2>7, TakesRounds
<1>6. CASE /\ top.pc = "lateSend" /\ sending[w] = <<>> /\ UNCHANGED <<sending, reading>>
           /\ Goto(<<Loop("lateRead", w, top.i)>>)
  <2>1. PICK g : g = Loop("lateRead", w, top.i)
    OBVIOUS
  <2>2. g.pc = "lateRead" /\ g.w = w
    BY <2>1 DEF Loop, FrameOf
  <2> QED BY <1>1, <1>2, <1>3, <1>6, <2>1, <2>2, LateEnds
<1>7. CASE /\ top.pc = "lateRead" /\ reading[w] = <<>> /\ UNCHANGED <<sending, reading>>
           /\ Goto(<<Loop("send", w, 0)>>)
  <2>1. PICK g : g = Loop("send", w, 0)
    OBVIOUS
  <2>2. g.pc = "send" /\ g.w = w /\ g.i = 0
    BY <2>1 DEF Loop, FrameOf
  <2> QED BY <1>1, <1>2, <1>3, <1>7, <2>1, <2>2, LateEnds
<1> QED BY <1>4, <1>5, <1>6, <1>7

(* The queues of the round become those it loops over. *)
LEMMA SwitchRounds ==
  ASSUME TypeInv, TypeInv', OwnerInv, OwnerInv', RoundsInv, stack # <<>>, top.pc = "select",
         UNCHANGED <<status, link, Slots, request>>, cur' = other,
         sending' = [sending EXCEPT ![other] = <<>>],
         reading' = [reading EXCEPT ![other] = <<>>],
         NEW g, g.pc \in {"send", "lateSend"}, g.w = cur, g.pc = "send" => g.i = 0, Goto(<<g>>)
  PROVE  RoundsInv'
<1>1. Shape /\ Shape' /\ Chained
  BY DEF OwnerInv, RoundsInv
<1>2. PICK f : Served(f)
  BY DEF RoundsInv
<1>3. /\ f = top /\ OnStack = {top} \cup Under /\ \A k \in Under : k.pc \in ScriptPcs
      /\ \A t : ~Unreading(t) /\ ~Busy(t)
  BY <1>1, <1>2, LoopTop DEF Served, LoopPcs
<1>4. Governs(top) /\ \A t \in Server : RoundInv(top, t)
  BY <1>2, <1>3 DEF Served
<1>5. StillToSend(top) = {} /\ StillToRead(top) = {}
  BY DEF StillToSend, StillToRead
<1>6. /\ cur \in 1 .. 2 /\ other \in 1 .. 2 /\ other # cur /\ other = 3 - cur
      /\ sending'[cur] = sending[cur] /\ reading'[cur] = reading[cur]
      /\ sending'[other] = <<>> /\ reading'[other] = <<>>
      /\ sending[cur] \in Seq(Server) /\ Distinct(sending[cur])
  BY QueueTyped DEF RoundsInv, QueuesInv, other
<1>7. top.pc \in LoopPcs /\ top.pc \notin ShiftPcs \cup {"slot", "unqueue", "early"}
      /\ g.pc \notin BusyPcs \cup ShiftPcs \cup {"retry", "retryRead"} /\ g.pc \in LoopPcs
      /\ g.pc # "lateRead"
  BY DEF LoopPcs, BusyPcs, ShiftPcs
<1> DEFINE X == {g}
<1>8. Chained' /\ OnStack' = X \cup Under /\ stack' # <<>> /\ top' = g
  BY <1>1, <1>7, ChainOne DEF ShiftPcs
<1>9. Governs(g)' /\ StillToRead(g)' = ToSet(reading'[cur])
  <2>1. \A k \in X : k = g
    OBVIOUS
  <2>2. g \in X /\ cur' = 3 - g.w
    BY <1>6
  <2> HIDE DEF X
  <2> QED BY <1>3, <1>7, <1>8, <2>1, <2>2, LoopGoverns
<1>10. StillToRead(g)' = NextRead
  BY <1>6, <1>9 DEF NextRead
<1>11. StillToSend(g)' = NextSend
  <2>1. Left(sending[cur], 0) = ToSet(sending[cur])
    BY <1>6, LeftBehind
  <2>2. CASE g.pc = "send"
    <3>1. StillToSend(g)' = Left(sending[cur], 0)
      BY <1>6, <2>2 DEF StillToSend, Left
    <3> QED BY <2>1, <3>1 DEF NextSend
  <2>3. CASE g.pc = "lateSend"
    BY <1>6, <2>3 DEF StillToSend, NextSend
  <2> QED BY <2>2, <2>3
<1>12. NextSend' = {} /\ NextRead' = {}
  <2>1. ToSet(<<>>) = {}
    BY DEF ToSet
  <2> QED BY <1>6, <2>1 DEF NextSend, NextRead
<1>13. ASSUME NEW t \in Server PROVE RoundInv(g, t)'
  <2>1. /\ ~XmitAt(t) /\ ~UnqueueAt(t) /\ ~ParseAt(t) /\ ~FailingAt(t)
    BY <1>3, NotBusy
  <2>2. /\ ~XmitAt(t)' /\ ~UnqueueAt(t)' /\ ~ParseAt(t)' /\ ~FailingAt(t)'
    BY <1>7, <1>8 DEF XmitAt, UnqueueAt, ParseAt, EarlyAt, FailingAt, Doing, BusyPcs
  <2>3. SendInv(g, t)' /\ ReadInv(g, t)'
    BY <1>4, <1>5, <1>10, <1>11, <1>12, <2>1, <2>2, SameSlots DEF RoundInv, SendInv, ReadInv
  <2>4. ConnectionInv(t)' /\ StreamInv(t)'
    BY <1>1, <1>4, <1>7, <1>8, StreamRests DEF RoundInv
  <2> QED BY <2>3, <2>4 DEF RoundInv
<1>14. QueuesInv'
  <2>1. Distinct(<<>>)
    BY DEF Distinct
  <2>2. \A v \in 1 .. 2 : v = cur \/ v = other
    BY <1>6
  <2> QED BY <1>6, <2>1, <2>2 DEF RoundsInv, QueuesInv
<1>15. Served(g)'
  BY <1>9, <1>13 DEF Served
<1> QED BY <1>8, <1>14, <1>15, Assemble

LEMMA SelectRounds ==
  ASSUME TypeInv, TypeInv', OwnerInv, OwnerInv', RoundsInv, Ready \/ Expire \/ SelectError
  PROVE  RoundsInv'
<1>1. PICK w, r : Switch(w, r)
  BY DEF Ready, Expire, SelectError
<1>2. /\ stack # <<>> /\ top.pc = "select"
      /\ UNCHANGED <<status, link, Slots, request>> /\ cur' = other
      /\ sending' = [sending EXCEPT ![other] = <<>>]
      /\ reading' = [reading EXCEPT ![other] = <<>>]
  BY <1>1 DEF Switch, At, top, conn, slots, Slots, reqs
<1>3. \/ Goto(<<Loop("send", cur, 0)>>)
      \/ \E i : Goto(<<Loop("lateSend", cur, i)>>)
  BY DEF Ready, Expire, SelectError
<1>4. PICK g : g.pc \in {"send", "lateSend"} /\ g.w = cur /\ (g.pc = "send" => g.i = 0) /\ Goto(<<g>>)
  <2>1. \A pc, w1, i : Loop(pc, w1, i).pc = pc /\ Loop(pc, w1, i).w = w1 /\ Loop(pc, w1, i).i = i
    BY DEF Loop, FrameOf
  <2> QED BY <1>3, <2>1
<1> QED BY <1>2, <1>4, SwitchRounds

----------------------------------------------------------------------------
(* The network, the clock, and the script.                                 *)

LEMMA OutsideRounds ==
  ASSUME TypeInv, TypeInv', OwnerInv, OwnerInv', RoundsInv,
         UNCHANGED <<Slots, sending, reading, cur, stack, request>>,
         \A t \in Server : /\ status'[t] = status[t] \/ (~IsOpen(t) /\ status'[t] = "retriable")
                           /\ link'[t] = link[t] \/ link'[t] = "eof"
  PROVE  RoundsInv'
<1>1. PICK f : Served(f)
  BY DEF RoundsInv
<1>2. Shape /\ Chained
  BY DEF OwnerInv, RoundsInv
<1>3. Chained' /\ QueuesInv'
  BY <1>2, QueuesSame DEF Chained, Positions, RoundsInv
<1>4. OnStack' = OnStack /\ \A t : Unreading(t)' = Unreading(t)
  <2>1. OnStack' = OnStack
    BY DEF OnStack, Positions
  <2> QED BY <2>1 DEF Unreading
<1>5. Governs(f)'
  BY <1>1, <1>4 DEF Served, Governs
<1>6. StillToSend(f)' = StillToSend(f) /\ StillToRead(f)' = StillToRead(f)
      /\ NextSend' = NextSend /\ NextRead' = NextRead
  BY <1>4 DEF StillToSend, StillToRead, NextSend, NextRead, Left
<1>7. ASSUME NEW t \in Server PROVE RoundInv(f, t)'
  <2>1. /\ XmitAt(t)' = XmitAt(t) /\ UnqueueAt(t)' = UnqueueAt(t) /\ ParseAt(t)' = ParseAt(t)
        /\ FailingAt(t)' = FailingAt(t) /\ EarlyAt(t)' = EarlyAt(t) /\ Slotting(t)' = Slotting(t)
        /\ top' = top
    BY DEF XmitAt, UnqueueAt, ParseAt, EarlyAt, FailingAt, Doing, Slotting, At, top, second
  <2>2. Sends(t)' = Sends(t) /\ Reads(t)' = Reads(t)
    <3>1. Leaving(t)' = Leaving(t)
      BY DEF Leaving, Leaves, Positions, Slots
    <3> QED BY <2>1, <3>1, SameSlots DEF Sends, SendSlot, Reads
  <2>3. RoundInv(f, t)
    BY <1>1 DEF Served
  <2>4. SendInv(f, t)' /\ ReadInv(f, t)'
    BY <1>6, <2>1, <2>3, SameSlots DEF RoundInv, SendInv, ReadInv
  <2>5. ConnectionInv(t)'
    <3>1. (status'[t] = status[t] \/ (~IsOpen(t) /\ status'[t] = "retriable"))
          /\ (link'[t] = link[t] \/ link'[t] = "eof")
      OBVIOUS
    <3> QED BY <3>1, <2>1, <2>2, <2>3, SameSlots DEF RoundInv, ConnectionInv, IsOpen
  <2>6. StreamInv(t)'
    BY <2>1, <2>2, <2>3, SameSlots DEF RoundInv, StreamInv
  <2> QED BY <2>4, <2>5, <2>6 DEF RoundInv
<1>8. Served(f)'
  BY <1>5, <1>7 DEF Served
<1> QED BY <1>3, <1>8, Assemble

LEMMA NetworkRounds ==
  ASSUME TypeInv, TypeInv', OwnerInv, OwnerInv', RoundsInv,
         (\E s \in Server : PeerClose(s) \/ PeerEarly(s) \/ Tick(s)) \/ UNCHANGED vars
  PROVE  RoundsInv'
<1>1. CASE \E s \in Server : PeerClose(s) \/ PeerEarly(s) \/ Tick(s)
  <2>1. PICK s \in Server : PeerClose(s) \/ PeerEarly(s) \/ Tick(s)
    BY <1>1
  <2>2. /\ UNCHANGED <<Slots, sending, reading, cur, stack, request>>
        /\ \A t \in Server : /\ status'[t] = status[t] \/ (~IsOpen(t) /\ status'[t] = "retriable")
                             /\ link'[t] = link[t] \/ link'[t] = "eof"
    BY <2>1 DEF PeerClose, PeerEarly, Tick, slots, Slots, rounds, reqs, TypeInv, ConnOK, IsOpen
  <2> QED BY <2>2, OutsideRounds
<1>2. CASE UNCHANGED vars
  <2>1. UNCHANGED <<Slots, sending, reading, cur, stack, request, status, link>>
    BY <1>2 DEF vars, conn, slots, Slots, rounds, reqs
  <2> QED BY <2>1, OutsideRounds
<1> QED BY <1>1, <1>2

LEMMA CallRounds ==
  ASSUME TypeInv, TypeInv', OwnerInv, OwnerInv', RoundsInv, NEW c \in Calls, Call(c)
  PROVE  RoundsInv'
<1>1. Covered /\ Shape /\ Shape' /\ Chained
  BY DEF OwnerInv, RoundsInv
<1>2. stack = <<>> /\ \E x : stack' = <<x>> /\ x.pc \in {"store", "flush", "ask"}
  BY <1>1, CallFrame
<1>3. PICK x : stack' = <<x>> /\ x.pc \in {"store", "flush", "ask"}
  BY <1>2
<1>4. /\ Positions' = {1} /\ stack'[1] = x /\ top' = x /\ x.pc \in ScriptPcs
      /\ x.pc \notin BusyPcs \cup LoopPcs
  <2>1. Len(stack') = 1 /\ stack'[1] = x
    BY <1>3
  <2> QED BY <1>3, <2>1 DEF Positions, top, ScriptPcs, BusyPcs, LoopPcs
<1>5. UNCHANGED <<status, link, Slots, sending, reading, cur>> /\ KeepsStreams
  BY StreamsSame DEF Call, conn, slots, Slots, rounds, reqs
<1>6. Chained'
  BY <1>3, <1>4 DEF Chained
<1>7. PICK f : Served(f)
  BY DEF RoundsInv
<1>8. StillToSend(f) = {} /\ StillToRead(f) = {}
  BY <1>1, <1>2, <1>7, NoRound DEF Served
<1>9. NoLoop.pc = "none"
  BY DEF NoLoop, Loop, FrameOf
<1>10. Governs(NoLoop)'
  <2>1. OnStack' = {x}
    BY <1>4 DEF OnStack
  <2> QED BY <1>3, <1>4, <1>9, <2>1 DEF Governs
<1>11. \A t : KeepsPlace(f, NoLoop, t)
  BY <1>8, <1>9 DEF KeepsPlace, StillToSend, StillToRead
<1>12. Served(NoLoop)'
  <2>1. \A t \in Server : Kept(t)
    BY <1>5, KeptAll
  <2>2. NoServer \notin Server
    BY ServerAssumption
  <2> QED BY <1>1, <1>2, <1>4, <1>6, <1>7, <1>10, <1>11, <2>1, <2>2, ServedStep
<1>13. QueuesInv'
  BY <1>5, QueuesSame DEF RoundsInv
<1> QED BY <1>6, <1>12, <1>13, Assemble

(* Servers that are new to the script are not connected yet. *)
LEMMA RoundsInit == Init /\ ~Persistent => RoundsInv
<1> SUFFICES ASSUME Init, ~Persistent PROVE RoundsInv
  OBVIOUS
<1>1. TypeInv
  BY InitTypes
<1>2. Positions = {} /\ OnStack = {} /\ stack = <<>>
  BY DEF Init, Positions, OnStack
<1>3. NoLoop.pc = "none"
  BY DEF NoLoop, Loop, FrameOf
<1>4. ToSet(<<>>) = {} /\ Distinct(<<>>)
  BY DEF ToSet, Distinct
<1>5. Chained /\ Governs(NoLoop)
  BY <1>2, <1>3 DEF Chained, Governs
<1>6. NextSend = {} /\ NextRead = {} /\ QueuesInv
  BY <1>4 DEF Init, NextSend, NextRead, QueuesInv
<1>7. StillToSend(NoLoop) = {} /\ StillToRead(NoLoop) = {}
  BY <1>3 DEF StillToSend, StillToRead
<1>8. ASSUME NEW s \in Server PROVE RoundInv(NoLoop, s)
  <2>1. /\ sendreq[s] = Null /\ readreq[s] = Null /\ buildreq[s] = Null
        /\ sendqueue[s] = <<>> /\ readqueue[s] = <<>> /\ status[s] = "disconnected"
    BY DEF Init
  <2>2. ~Busy(s)
    BY <1>2 DEF Busy, Doing
  <2>3. /\ ~XmitAt(s) /\ ~UnqueueAt(s) /\ ~EarlyAt(s) /\ ~ParseAt(s) /\ ~FailingAt(s) /\ ~Slotting(s)
    BY <2>2, NotBusy
  <2>4. SendInv(NoLoop, s) /\ ReadInv(NoLoop, s)
    BY <1>6, <1>7, <2>1, <2>3 DEF SendInv, ReadInv
  <2>5. ConnectionInv(s)
    BY <2>1, <2>3 DEF ConnectionInv, IsOpen, IdleAt, ToSend, ToRead, Slotted
  <2>6. ToSet(Reads(s)) = {}
    <3>1. ~Leaving(s)
      BY <1>2 DEF Leaving
    <3> QED BY <1>4, <2>1, <3>1 DEF Reads, ToRead, Slotted
  <2>7. StreamInv(s)
    BY <2>6 DEF StreamInv
  <2> QED BY <2>4, <2>5, <2>7 DEF RoundInv
<1>9. Served(NoLoop)
  BY <1>5, <1>8 DEF Served
<1> QED BY <1>5, <1>6, <1>9 DEF RoundsInv

LEMMA RoundsProcess ==
  ASSUME TypeInv, TypeInv', OwnerInv, OwnerInv', RoundsInv, Process
  PROVE  RoundsInv'
<1>1. CASE ScheduleInvalid \/ Schedule \/ ScheduleRefused \/ SlotSend \/ Unslot
  BY <1>1, PlacesRounds, ScheduleRounds, ScheduleRefusedRounds, SlotSendRounds, UnslotRounds, Zenon
<1>2. CASE Deactivate \/ Drain \/ GiveUp \/ FailOver \/ FindNext
  BY <1>2, DeactivateRounds, DrainRounds, PlacesRounds, FindNextRounds, Zenon
<1>3. CASE Retry \/ RetryRead
  <2>1. stack # <<>> /\ top.pc \in {"retry", "retryRead"}
    BY <1>3 DEF Retry, RetryRead, At, top
  <2> QED BY <2>1, NeverRetries DEF OwnerInv, RoundsInv
<1>4. CASE Unqueue \/ EarlyDone
  BY <1>4, UnqueueRounds, EarlyDoneRounds, Zenon
<1>5. CASE Ready \/ Expire \/ SelectError \/ LateSend \/ LateRead \/ Late
  BY <1>5, SelectRounds, TimeoutRounds, LateRounds, Zenon
<1>6. CASE SendLoop \/ SendDone \/ SendMore \/ SendError \/ Unread \/ SendEnd
  BY <1>6, SendLoopRounds, SendDoneRounds, RestsRounds, SendErrorRounds, UnreadRounds, Zenon
<1>7. CASE \/ ReadLoop \/ ParseDone \/ ParseEarly \/ ParseError \/ ParseMore
           \/ ParseEof \/ ParseEnd
  BY <1>7, ReadLoopRounds, ParseDoneRounds, ParseEarlyRounds, ParseFailsRounds, RestsRounds, Zenon
<1>8. CASE RunRounds \/ Store \/ Stored \/ CloneKey \/ Flush \/ Flushed \/ Ask \/ Asked
  BY <1>8, CallsRounds, Zenon
<1>9. CASE \/ HelpRound \/ LeaveCallback \/ Get \/ GetFull \/ Rebuild \/ GetEnd \/ Built
           \/ RunPending \/ ParseValue \/ SlotSendRefused
  BY <1>9, NeverTaken, Zenon
<1> QED BY <1>1, <1>2, <1>3, <1>4, <1>5, <1>6, <1>7, <1>8, <1>9, Zenon DEF Process

LEMMA RoundsNext == TypeInv /\ OwnerInv /\ RoundsInv /\ [Next]_vars => RoundsInv'
<1> SUFFICES ASSUME TypeInv, OwnerInv, RoundsInv, [Next]_vars PROVE RoundsInv'
  OBVIOUS
<1>1. TypeInv' /\ OwnerInv'
  BY NextTypes, OwnerNext
<1>2. CASE Process
  BY <1>1, <1>2, RoundsProcess
<1>3. CASE \E c \in Calls : Call(c)
  BY <1>1, <1>3, CallRounds
<1>4. CASE (\E s \in Server : PeerClose(s) \/ PeerEarly(s) \/ Tick(s)) \/ UNCHANGED vars
  BY <1>1, <1>4, NetworkRounds
<1> QED BY <1>2, <1>3, <1>4, Zenon DEF Next, Step


LEMMA NewServersNext == [Next]_vars => (Persistent' <=> Persistent)
<1> SUFFICES ASSUME [Next]_vars PROVE Persistent' <=> Persistent
  OBVIOUS
<1>1. UNCHANGED config
  <2>1. CASE Next
    BY <2>1, Zenon DEF Next, Step
  <2>2. CASE UNCHANGED vars
    BY <2>2 DEF vars
  <2> QED BY <2>1, <2>2
<1> QED BY <1>1 DEF Persistent

LEMMA RoundsAlways == Spec => [](TypeInv /\ (Covered => OwnerInv)
                                         /\ (Covered /\ ~Persistent => RoundsInv))
<1>1. Init => (Covered /\ ~Persistent => RoundsInv)
  BY RoundsInit
<1>2. TypeInv /\ (Covered => OwnerInv) /\ (Covered /\ ~Persistent => RoundsInv) /\ [Next]_vars
        => (Covered' /\ ~Persistent' => RoundsInv')
  BY RoundsNext, CoveredNext, NewServersNext
<1> QED BY <1>1, <1>2, OwnerAlways, PTL DEF Spec

----------------------------------------------------------------------------
(* What follows for every state.                                           *)

(* The requests in the slots of a server are on its stream. *)
LEMMA OnItsStream ==
  ASSUME TypeInv, OwnerInv, stack = <<>> \/ top.pc \notin ShiftPcs, NEW s \in Server, StreamInv(s)
  PROVE  /\ sendreq[s] # Null => request[sendreq[s]].io = s
         /\ readreq[s] # Null => request[readreq[s]].io = s
<1>1. PICK own : Owned(own)
  BY OwnerParts
<1>2. Steady /\ ~Slotting(s)
  BY OwnerParts, TopSteady DEF Slotting, At, ShiftPcs, top
<1>3. /\ Pipeline(own, s, ToSend(s), ToRead(s)) /\ Reads(s) = ToRead(s)
      /\ ToSet(ToSend(s)) \subseteq ToSet(ToRead(s))
      /\ sendreq[s] = Null => sendqueue[s] = <<>>
  <2>1. Sends(s) = ToSend(s) /\ Reads(s) = ToRead(s) /\ SendSlot(s) = sendreq[s]
    BY <1>2, SteadyServers DEF AsSlotted, SendSlot
  <2>2. ServerInv(own, s)
    BY <1>1 DEF Owned, ServersInv
  <2> QED BY <1>1, <1>2, <2>1, <2>2, SendsAreRead DEF Owned, ServerInv
<1>4. \A r \in ToSet(ToRead(s)) : r \in ToSet(sendqueue[s]) \/ request[r].io = s
  BY <1>2, <1>3 DEF StreamInv
<1>5. /\ ToRead(s) \in Seq(Created) /\ ToSend(s) \in Seq(Created)
      /\ sendqueue[s] \in Seq(Created) /\ readqueue[s] \in Seq(Created)
  BY SlotTypesOf DEF TypeInv, SlotsOK
<1>6. ASSUME sendreq[s] # Null PROVE request[sendreq[s]].io = s
  <2>1. sendreq[s] \in Created /\ sendreq[s] \in ToSet(ToSend(s))
    BY <1>6, SlotTypesOf
  <2>2. Distinct(ToSend(s))
    BY <1>3, <1>5, TailDistinct DEF Pipeline
  <2>3. sendreq[s] \notin ToSet(sendqueue[s])
    BY <1>5, <1>6, <2>1, <2>2, ConsProperties DEF ToSend, Slotted
  <2> QED BY <1>3, <1>4, <2>1, <2>3
<1>7. ASSUME readreq[s] # Null PROVE request[readreq[s]].io = s
  <2>1. readreq[s] \in Created /\ readreq[s] \in ToSet(ToRead(s))
    BY <1>7, SlotTypesOf
  <2>2. CASE sendreq[s] = Null
    <3>1. ToSet(<<>>) = {}
      BY DEF ToSet
    <3> QED BY <1>3, <1>4, <2>1, <2>2, <3>1
  <2>3. CASE sendreq[s] # Null
    <3> DEFINE R == ToRead(s)
               q == sendqueue[s]
    <3>1. PICK k, l : k = Len(q) /\ l = Len(R)
      OBVIOUS
    <3>2. k \in Nat /\ l \in Nat /\ R[1] = readreq[s] /\ Distinct(R)
      <4>1. R = <<readreq[s]>> \o readqueue[s]
        BY <2>1, <1>7 DEF ToRead, Slotted
      <4>2. R[1] = readreq[s]
        BY <1>5, <2>1, <4>1, ConsProperties
      <4> QED BY <1>3, <1>5, <3>1, <4>2, LenProperties DEF Pipeline
    <3>3. k + 1 <= l /\ IsTail(q, R)
      <4>1. sendreq[s] \in Created /\ ToSend(s) = <<sendreq[s]>> \o q
        BY <2>3, SlotTypesOf DEF ToSend, Slotted
      <4>2. Len(ToSend(s)) = k + 1 /\ Tail(ToSend(s)) = q /\ ToSend(s) # <<>>
        BY <1>5, <3>1, <4>1, ConsProperties
      <4>3. IsTail(ToSend(s), R)
        BY <1>3 DEF Pipeline
      <4>4. IsTail(Tail(ToSend(s)), R)
        BY <1>5, <4>2, <4>3, TailSent
      <4> QED BY <3>1, <4>2, <4>3, <4>4 DEF IsTail
    <3>4. ASSUME NEW i \in 1 .. k PROVE q[i] # R[1]
      <4>1. q[i] = R[l - k + i]
        BY <3>1, <3>3 DEF IsTail
      <4>2. l - k + i \in 1 .. l /\ 1 \in 1 .. l /\ l - k + i # 1
        BY <3>2, <3>3
      <4> QED BY <3>1, <3>2, <4>1, <4>2 DEF Distinct
    <3>5. readreq[s] \notin ToSet(q)
      <4>1. ToSet(q) = {q[i] : i \in 1 .. k}
        BY <1>5, <3>1, ToSetElements
      <4> QED BY <3>2, <3>4, <4>1
    <3> QED BY <1>4, <2>1, <3>5
  <2> QED BY <2>2, <2>3
<1> QED BY <1>6, <1>7

LEMMA RoundsNoNull ==
  ASSUME TypeInv, OwnerInv, RoundsInv
  PROVE  NoNullDereference
<1>1. Shape /\ Chained
  BY DEF OwnerInv, RoundsInv
<1>2. PICK f : Served(f)
  BY DEF RoundsInv
<1>3. ASSUME At("select"), ~in_select PROVE CanCollect
  <2>1. stack # <<>> /\ top.pc = "select" /\ top.pc \in LoopPcs /\ top.pc \notin ShiftPcs
    BY <1>3, AtTop DEF LoopPcs, ShiftPcs
  <2>2. ASSUME NEW s \in Server
        PROVE  /\ s \in NextSend => sendreq[s] # Null
               /\ s \in NextRead => readreq[s] # Null
               /\ StreamInv(s)
    <3>1. RoundInv(f, s) /\ ~Busy(s)
      BY <1>1, <1>2, <2>1, LoopTop DEF Served
    <3> QED BY <3>1, NotBusy DEF RoundInv, SendInv, ReadInv
  <2>3. NextSend \subseteq Server /\ NextRead \subseteq Server
    BY QueueTyped, ToSetElements DEF NextSend, NextRead
  <2>4. ASSUME NEW s \in NextSend PROVE HasStream(s, sendreq[s])
    BY <2>1, <2>2, <2>3, OnItsStream DEF HasStream
  <2>5. ASSUME NEW s \in NextRead PROVE HasStream(s, readreq[s])
    BY <2>1, <2>2, <2>3, OnItsStream DEF HasStream
  <2> QED BY <2>4, <2>5 DEF CanCollect, NextSend, NextRead
<1>4. ASSUME At("lateSend"), NEW s \in ToSet(sending[top.w]) PROVE sendreq[s] # Null
  <2>1. stack # <<>> /\ top.pc = "lateSend" /\ top.pc \in LoopPcs /\ top.w \in 1 .. 2
    BY <1>4, AtTop DEF LoopPcs, FrameOK
  <2>2. f = top /\ s \in Server
    BY <1>1, <1>2, <2>1, LoopTop, QueueTyped, ToSetElements DEF Served
  <2>3. s \in StillToSend(f)
    BY <2>1, <2>2 DEF StillToSend
  <2> QED BY <1>2, <2>2, <2>3 DEF Served, RoundInv, SendInv
<1>5. ASSUME At("lateRead"), NEW s \in ToSet(reading[top.w]) PROVE readreq[s] # Null
  <2>1. stack # <<>> /\ top.pc = "lateRead" /\ top.pc \in LoopPcs /\ top.w \in 1 .. 2
    BY <1>5, AtTop DEF LoopPcs, FrameOK
  <2>2. f = top /\ s \in Server
    BY <1>1, <1>2, <2>1, LoopTop, QueueTyped, ToSetElements DEF Served
  <2>3. s \in StillToRead(f)
    BY <1>1, <1>2, <2>1, <2>2, LoopTop DEF Served
  <2> QED BY <1>2, <2>2, <2>3 DEF Served, RoundInv, ReadInv
<1>6. ASSUME At("xmit") \/ At("parse"), sendreq[top.s] # Null \/ readreq[top.s] # Null
      PROVE  link[top.s] # "none"
  <2>1. stack # <<>> /\ top.pc \in {"xmit", "parse"} /\ top.s \in Server
    BY <1>6, AtTop DEF FrameOK, ServerPcs
  <2>2. ~EarlyAt(top.s)
    BY <2>1 DEF EarlyAt, UnqueueAt, Doing
  <2>3. ~IdleAt(top.s)
    BY <1>6 DEF IdleAt
  <2> QED BY <1>2, <2>1, <2>2, <2>3 DEF Served, RoundInv, ConnectionInv
<1> QED BY <1>3, <1>4, <1>5, <1>6 DEF NoNullDereference

LEMMA RoundsServe ==
  ASSUME TypeInv, OwnerInv, RoundsInv
  PROVE  RoundsServeAll
<1> SUFFICES ASSUME At("select"), NEW s \in Server
             PROVE  /\ sendreq[s] # Null => s \in ToSet(sending[cur])
                    /\ readreq[s] # Null => s \in ToSet(reading[cur])
  BY DEF RoundsServeAll
<1>1. Shape /\ stack # <<>> /\ top.pc = "select"
  BY AtTop DEF OwnerInv
<1>2. PICK f : Served(f)
  BY DEF RoundsInv
<1>3. StillToSend(f) = {} /\ StillToRead(f) = {}
  BY <1>1, <1>2, NoRound DEF Served
<1>4. ~XmitAt(s) /\ ~ParseAt(s) /\ ~FailingAt(s)
  BY <1>1, NotBusy DEF Busy, Doing, BusyPcs
<1> QED BY <1>2, <1>3, <1>4 DEF Served, RoundInv, SendInv, ReadInv, NextSend, NextRead

(* No slot, stream or request is NULL where the loops over the queues of a *)
(* round (memcache_pool.c:1436-1450, 1457-1482) and the handlers of a      *)
(* request (:209, :1589) dereference it without a check, on servers that   *)
(* are new to the script.                                                  *)
THEOREM NothingIsNull == Spec => [](Covered /\ ~Persistent => NoNullDereference)
<1>1. TypeInv /\ OwnerInv /\ RoundsInv => NoNullDereference
  BY RoundsNoNull
<1> QED BY <1>1, RoundsAlways, PTL

(* A round loses nobody: when the next select() begins                     *)
(* (memcache_pool.c:1432), every server with a request to send or a reply  *)
(* to read is in the queues it looks at, although the handlers of the last *)
(* round added and removed servers while it looped over them.              *)
THEOREM NobodyIsLost == Spec => [](Covered => RoundsServeAll)
<1>1. Persistent => RoundsServeAll
  BY DEF RoundsServeAll
<1>2. TypeInv /\ OwnerInv /\ RoundsInv => RoundsServeAll
  BY RoundsServe
<1> QED BY <1>1, <1>2, RoundsAlways, PTL

----------------------------------------------------------------------------
(* The calls that wait for their requests.                                 *)

AllIdle == \A s \in Server : IdleAt(s)

(* The call of frame f waits for the one request it has scheduled, if it   *)
(* could be scheduled.                                                     *)
Awaits(f) == f.pc = "asked" \/ (f.pc = "stored" /\ f.w = 0)

(* Nothing is under way when it schedules one. *)
Resting(f) == f.pc = "ask" \/ (f.pc = "store" /\ f.w = 0 /\ f.q # <<>>)

(* The request of the call at position i is with the handlers above it. *)
Placing(i) ==
  \/ i = 2 /\ stack[1].pc \in {"schedule", "failover", "probe", "unslot"}
  \/ i = 3 /\ stack[2].pc = "unslot"

(* One key, one server. *)
Brief(f) ==
  /\ f.pc = "store" /\ Resting(f) => f.i <= 1 /\ Len(f.q) <= 1
  /\ f.pc = "stored" /\ f.w = 0 => f.q = <<>>

BottomPcs == ScriptPcs \ {"clone"}

QuietAt(i) ==
  /\ Awaits(stack[i]) => (i = 1 /\ (rv \/ AllIdle)) \/ (Placing(i) /\ AllIdle)
  /\ Brief(stack[i])
  /\ Resting(stack[i]) /\ i > 1 => stack[i - 1].pc = "run"
  /\ i = Len(stack) => stack[i].pc \in BottomPcs

QuietInv ==
  /\ stack = <<>> \/ Resting(top) => AllIdle
  /\ \A i \in Positions : QuietAt(i)

(* What the call frames below a handler are to be told. *)
Told(f) == \A i \in 2 .. Len(stack) : Awaits(stack[i]) =>
  LET j == i + Len(f) - 1 IN (j = 1 /\ (rv' \/ AllIdle')) \/ (Placing(j)' /\ AllIdle')

LEMMA QuietBelow ==
  ASSUME TypeInv, QuietInv, stack # <<>>, NEW T, NEW f \in Seq(T), Goto(f),
         top.pc = "run" => f = <<>> \/ f[Len(f)].pc = "run",
         Told(f),
         NEW j \in Positions', ~(j <= Len(f))
  PROVE  QuietAt(j)'
<1> DEFINE n == Len(f)
<1>1. /\ n \in Nat /\ Len(stack) \in Nat \ {0} /\ top = stack[1]
      /\ Len(stack') = n + Len(stack) - 1
      /\ \A i \in 1 .. n : stack'[i] = f[i]
      /\ \A i \in 2 .. Len(stack) : stack'[i + n - 1] = stack[i]
      /\ j - n + 1 \in 2 .. Len(stack) /\ stack'[j] = stack[j - n + 1]
  BY Replaced
<1>2. PICK i : i = j - n + 1
  OBVIOUS
<1>3. i \in 2 .. Len(stack) /\ i \in Positions /\ stack'[j] = stack[i] /\ i + n - 1 = j /\ j \in Nat
  BY <1>1, <1>2 DEF Positions
<1>4. QuietAt(i)
  BY <1>3 DEF QuietInv
<1>5. Awaits(stack[i]) => (j = 1 /\ (rv' \/ AllIdle')) \/ (Placing(j)' /\ AllIdle')
  BY <1>3 DEF Told
<1>6. j = Len(stack') => i = Len(stack)
  BY <1>1, <1>3
<1>7. ASSUME Resting(stack[i]), j > 1, top.pc # "run" \/ f # <<>>
      PROVE  stack'[j - 1].pc = "run"
  <2>1. stack[i - 1].pc = "run"
    BY <1>3, <1>4, <1>7 DEF QuietAt
  <2>2. CASE i = 2
    <3>1. stack[i - 1] = top
      BY <1>1, <2>2
    <3>2. f # <<>> /\ f[n].pc = "run"
      BY <1>7, <2>1, <3>1
    <3>3. n \in 1 .. n /\ j - 1 = n
      BY <1>1, <1>3, <1>7, <2>2, <3>2
    <3> QED BY <1>1, <3>2, <3>3
  <2>3. CASE i # 2
    <3>1. i - 1 \in 2 .. Len(stack) /\ (i - 1) + n - 1 = j - 1
      BY <1>1, <1>3, <2>3
    <3>2. stack'[(i - 1) + n - 1] = stack[i - 1]
      BY <1>1, <3>1
    <3> QED BY <2>1, <3>1, <3>2
  <2> QED BY <2>2, <2>3
<1>8. CASE top.pc = "run" /\ f = <<>> /\ j > 1
  <2>1. n = 0 /\ i = j + 1 /\ i - 1 \in 2 .. Len(stack) /\ (i - 1) + n - 1 = j - 1
    BY <1>1, <1>3, <1>8
  <2>2. stack'[(i - 1) + n - 1] = stack[i - 1]
    BY <1>1, <2>1
  <2>3. Resting(stack[i]) => stack'[j - 1].pc = "run"
    BY <1>3, <1>4, <2>1, <2>2 DEF QuietAt
  <2> QED BY <1>3, <1>4, <1>5, <1>6, <2>3 DEF QuietAt, Resting, Awaits, Brief
<1>9. CASE ~(top.pc = "run" /\ f = <<>>)
  BY <1>3, <1>4, <1>5, <1>6, <1>7, <1>9 DEF QuietAt, Resting, Awaits, Brief
<1>10. CASE top.pc = "run" /\ f = <<>> /\ ~(j > 1)
  BY <1>3, <1>4, <1>5, <1>6, <1>10 DEF QuietAt, Resting, Awaits, Brief
<1> QED BY <1>8, <1>9, <1>10

(* A handler of a round, or one that places a request. *)
LEMMA QuietHandler ==
  ASSUME TypeInv, TypeInv', Shape, QuietInv, stack # <<>>, top.pc \notin ScriptPcs,
         NEW T, NEW f \in Seq(T), Goto(f), \A i \in 1 .. Len(f) : f[i].pc \notin ScriptPcs, Told(f)
  PROVE  QuietInv'
<1>1. /\ Len(f) \in Nat /\ Len(stack) \in Nat \ {0} /\ top = stack[1]
      /\ Len(stack') = Len(f) + Len(stack) - 1
      /\ \A i \in 1 .. Len(f) : stack'[i] = f[i]
      /\ \A i \in 2 .. Len(stack) : stack'[i + Len(f) - 1] = stack[i]
  BY Replaced
<1>2. Len(stack) > 1
  <2>1. 1 \in Positions
    BY <1>1 DEF Positions
  <2>2. QuietAt(1)
    BY <2>1 DEF QuietInv
  <2>3. 1 = Len(stack) => stack[1].pc \in BottomPcs
    BY <2>2 DEF QuietAt
  <2>4. stack[1].pc \notin BottomPcs
    BY <1>1 DEF BottomPcs
  <2>5. PICK k \in Nat \ {0} : k = Len(stack)
    BY <1>1
  <2>6. k # 1
    BY <2>3, <2>4, <2>5
  <2>7. k > 1
    BY <2>6
  <2> QED BY <2>5, <2>7
<1>3. ASSUME NEW j \in Positions' PROVE QuietAt(j)'
  <2>1. CASE j <= Len(f)
    <3>1. j \in 1 .. Len(f) /\ stack'[j] = f[j] /\ j # Len(stack')
      BY <1>1, <1>2, <2>1 DEF Positions
    <3>2. stack'[j].pc \notin ScriptPcs
      BY <3>1
    <3> QED BY <3>1, <3>2 DEF QuietAt, Awaits, Resting, Brief, ScriptPcs
  <2>2. CASE ~(j <= Len(f))
    <3>1. top.pc # "run"
      BY DEF ScriptPcs
    <3> QED BY <2>2, <3>1, QuietBelow
  <2> QED BY <2>1, <2>2
<1>4. stack' # <<>> /\ ~Resting(top)'
  <2>1. f # <<>> => stack' # <<>> /\ top' = f[1] /\ 1 \in 1 .. Len(f)
    <3>1. f # <<>> => Len(f) # 0
      BY EmptySeq
    <3>2. f # <<>> => 1 \in 1 .. Len(f) /\ Len(stack') # 0
      BY <1>1, <3>1
    <3>3. f # <<>> => stack' # <<>> /\ top' = f[1]
      BY <1>1, <3>1, HeadAfter
    <3> QED BY <3>2, <3>3
  <2>2. f = <<>> => stack' # <<>> /\ top' = stack[2]
    <3>1. f = <<>> => Len(stack') # 0
      BY <1>1, <1>2
    <3>2. f = <<>> => stack' = <<>> \/ top' = stack[2]
      BY HeadAfter
    <3> QED BY <3>1, <3>2
  <2>3. ~Resting(stack[2])
    <3>1. 2 \in Positions /\ 2 > 1 /\ 2 - 1 = 1
      BY <1>1, <1>2 DEF Positions
    <3>2. QuietAt(2)
      BY <3>1 DEF QuietInv
    <3>3. top.pc # "run"
      BY DEF ScriptPcs
    <3> QED BY <1>1, <3>1, <3>2, <3>3 DEF QuietAt
  <2>4. \A i \in 1 .. Len(f) : ~Resting(f[i])
    BY DEF Resting, ScriptPcs
  <2> QED BY <2>1, <2>2, <2>3, <2>4 DEF Resting
<1> QED BY <1>3, <1>4 DEF QuietInv

PlacingPcs == {"schedule", "failover", "probe", "unslot", "deactivate", "drain"}

(* No call waits below the other handlers, or another call. *)
LEMMA NobodyWaits ==
  ASSUME TypeInv, Shape, QuietInv, stack # <<>>, top.pc \notin PlacingPcs
  PROVE  \A i \in 2 .. Len(stack) : ~Awaits(stack[i])
<1> SUFFICES ASSUME NEW i \in 2 .. Len(stack), Awaits(stack[i]) PROVE FALSE
  OBVIOUS
<1>1. Len(stack) \in Nat \ {0} /\ top = stack[1]
  BY FirstElement DEF TypeInv, StackOK, top
<1>2. i \in Positions /\ i # 1 /\ 1 \in Positions
  BY <1>1 DEF Positions
<1>3. Placing(i)
  BY <1>2 DEF QuietInv, QuietAt
<1>4. i # 2
  BY <1>1, <1>3 DEF Placing, PlacingPcs
<1>5. i = 3 /\ stack[2].pc = "unslot" /\ 1 + 1 = 2 /\ 2 \in Positions
  BY <1>1, <1>3, <1>4 DEF Placing, Positions
<1>6. Fits(stack[1], stack[1 + 1])
  BY <1>2, <1>5 DEF Shape
<1>7. top.pc \in {"deactivate", "drain"}
  BY <1>1, <1>5, <1>6 DEF Fits
<1> QED BY <1>7 DEF PlacingPcs

(* A handler is replaced by others, if any. *)
Handles ==
  \/ Goto(<<>>)
  \/ \E a : Goto(<<a>>) /\ a.pc \notin ScriptPcs
  \/ \E a, b : Goto(<<a, b>>) /\ a.pc \notin ScriptPcs /\ b.pc \notin ScriptPcs
  \/ \E a, b, c, d : /\ Goto(<<a, b, c, d>>) /\ a.pc \notin ScriptPcs /\ b.pc \notin ScriptPcs
                     /\ c.pc \notin ScriptPcs /\ d.pc \notin ScriptPcs

LEMMA HandlesFrames ==
  ASSUME Handles
  PROVE  \E T : \E f \in Seq(T) : Goto(f) /\ \A i \in 1 .. Len(f) : f[i].pc \notin ScriptPcs
<1>1. ASSUME NEW T, NEW f \in Seq(T), Goto(f), \A i \in 1 .. Len(f) : f[i].pc \notin ScriptPcs
      PROVE  \E U : \E g \in Seq(U) : Goto(g) /\ \A i \in 1 .. Len(g) : g[i].pc \notin ScriptPcs
  BY <1>1
<1>2. CASE Goto(<<>>)
  <2>1. <<>> \in Seq({}) /\ \A i \in 1 .. Len(<<>>) : FALSE
    OBVIOUS
  <2> QED BY <1>1, <1>2, <2>1
<1>3. ASSUME NEW a, Goto(<<a>>), a.pc \notin ScriptPcs
      PROVE  \E T : \E f \in Seq(T) : Goto(f) /\ \A i \in 1 .. Len(f) : f[i].pc \notin ScriptPcs
  <2> DEFINE f == <<a>>
  <2>1. f \in Seq({a}) /\ Len(f) = 1 /\ f[1] = a
    OBVIOUS
  <2>2. Goto(f)
    BY <1>3
  <2> HIDE DEF f
  <2>3. \A i \in 1 .. Len(f) : f[i].pc \notin ScriptPcs
    BY <1>3, <2>1
  <2> QED BY <1>1, <2>1, <2>2, <2>3
<1>4. ASSUME NEW a, NEW b, Goto(<<a, b>>), a.pc \notin ScriptPcs, b.pc \notin ScriptPcs
      PROVE  \E T : \E f \in Seq(T) : Goto(f) /\ \A i \in 1 .. Len(f) : f[i].pc \notin ScriptPcs
  <2> DEFINE f == <<a, b>>
  <2>1. f \in Seq({a, b}) /\ Len(f) = 2 /\ f[1] = a /\ f[2] = b
    OBVIOUS
  <2>2. Goto(f)
    BY <1>4
  <2> HIDE DEF f
  <2>3. \A i \in 1 .. Len(f) : f[i].pc \notin ScriptPcs
    <3>1. \A i \in 1 .. Len(f) : i = 1 \/ i = 2
      BY <2>1
    <3> QED BY <1>4, <2>1, <3>1
  <2> QED BY <1>1, <2>1, <2>2, <2>3
<1>5. ASSUME NEW a, NEW b, NEW c, NEW d, Goto(<<a, b, c, d>>), a.pc \notin ScriptPcs,
             b.pc \notin ScriptPcs, c.pc \notin ScriptPcs, d.pc \notin ScriptPcs
      PROVE  \E T : \E f \in Seq(T) : Goto(f) /\ \A i \in 1 .. Len(f) : f[i].pc \notin ScriptPcs
  <2> DEFINE f == <<a, b, c, d>>
  <2>1. f \in Seq({a, b, c, d}) /\ Len(f) = 4 /\ f[1] = a /\ f[2] = b /\ f[3] = c /\ f[4] = d
    OBVIOUS
  <2>2. Goto(f)
    BY <1>5
  <2> HIDE DEF f
  <2>3. \A i \in 1 .. Len(f) : f[i].pc \notin ScriptPcs
    <3>1. \A i \in 1 .. Len(f) : i = 1 \/ i = 2 \/ i = 3 \/ i = 4
      BY <2>1
    <3> QED BY <1>5, <2>1, <3>1
  <2> QED BY <1>1, <2>1, <2>2, <2>3
<1> QED BY <1>2, <1>3, <1>4, <1>5 DEF Handles

LEMMA HandlerQuiet ==
  ASSUME TypeInv, TypeInv', OwnerInv, QuietInv, stack # <<>>,
         top.pc \notin PlacingPcs \cup ScriptPcs, Handles
  PROVE  QuietInv'
<1>1. PICK T : \E f \in Seq(T) : Goto(f) /\ \A i \in 1 .. Len(f) : f[i].pc \notin ScriptPcs
  BY HandlesFrames
<1>2. PICK f \in Seq(T) : Goto(f) /\ \A i \in 1 .. Len(f) : f[i].pc \notin ScriptPcs
  BY <1>1
<1>3. Shape
  BY DEF OwnerInv
<1>4. Told(f)
  BY <1>3, NobodyWaits DEF Told
<1> QED BY <1>2, <1>3, <1>4, QuietHandler

(* The handlers that place a request, below which a call may wait. *)
LEMMA PlacingStep ==
  ASSUME TypeInv, TypeInv', OwnerInv, QuietInv, stack # <<>>, top.pc \in PlacingPcs,
         NEW T, NEW f \in Seq(T), Goto(f), \A i \in 1 .. Len(f) : f[i].pc \notin ScriptPcs,
         AllIdle => AllIdle' \/ (Len(f) = 0 /\ top.pc = "schedule" /\ rv'),
         top.pc \in {"schedule", "failover", "probe", "unslot"} =>
           \/ Len(f) = 0
           \/ Len(f) = 1 /\ f[1].pc \in {"schedule", "failover", "probe", "unslot"}
           \/ Len(f) = 2 /\ f[2].pc = "unslot",
         top.pc \in {"deactivate", "drain"} =>
           Len(f) = 0 \/ Len(f) = 1 \/ (top.pc = "drain" /\ top.q # <<>>)
  PROVE  QuietInv'
<1>1. /\ Len(f) \in Nat /\ Len(stack) \in Nat \ {0} /\ top = stack[1]
      /\ \A i \in 1 .. Len(f) : stack'[i] = f[i]
      /\ \A i \in 2 .. Len(stack) : stack'[i + Len(f) - 1] = stack[i]
  BY Replaced
<1>2. ASSUME NEW i \in 2 .. Len(stack), Awaits(stack[i]), NEW j, j = i + Len(f) - 1
      PROVE  (j = 1 /\ (rv' \/ AllIdle')) \/ (Placing(j)' /\ AllIdle')
  <2>1. i \in Positions /\ i # 1 /\ 1 \in Positions
    BY <1>1 DEF Positions
  <2>2. Placing(i) /\ AllIdle
    BY <1>2, <2>1 DEF QuietInv, QuietAt
  <2>3. CASE i = 2
    <3>1. top.pc \in {"schedule", "failover", "probe", "unslot"}
      BY <1>1, <2>2, <2>3 DEF Placing
    <3>2. CASE Len(f) = 0
      BY <1>2, <2>2, <2>3, <3>2
    <3>3. CASE Len(f) = 1 /\ f[1].pc \in {"schedule", "failover", "probe", "unslot"}
      <4>1. j = 2 /\ stack'[1] = f[1] /\ AllIdle'
        BY <1>1, <1>2, <2>2, <2>3, <3>3
      <4> QED BY <3>3, <4>1 DEF Placing
    <3>4. CASE Len(f) = 2 /\ f[2].pc = "unslot"
      <4>1. j = 3 /\ stack'[2] = f[2] /\ AllIdle'
        BY <1>1, <1>2, <2>2, <2>3, <3>4
      <4> QED BY <3>4, <4>1 DEF Placing
    <3> QED BY <3>1, <3>2, <3>3, <3>4
  <2>4. CASE i # 2
    <3>1. i = 3 /\ stack[2].pc = "unslot" /\ 2 \in 2 .. Len(stack) /\ 1 + 1 = 2 /\ 2 \in Positions
      BY <1>1, <2>2, <2>4 DEF Placing, Positions
    <3>2. Fits(stack[1], stack[1 + 1])
      BY <2>1, <3>1 DEF OwnerInv, Shape
    <3>3. top.pc = "deactivate" \/ (top.pc = "drain" /\ top.q = <<>>)
      BY <1>1, <3>1, <3>2 DEF Fits
    <3>4. AllIdle'
      BY <2>2, <3>3
    <3>5. CASE Len(f) = 0
      <4>1. j = 2 /\ stack'[2 + 0 - 1] = stack[2] /\ 2 + 0 - 1 = 1
        BY <1>1, <1>2, <3>1, <3>5
      <4>2. stack'[1].pc = "unslot"
        BY <3>1, <4>1
      <4> QED BY <3>4, <4>1, <4>2 DEF Placing
    <3>6. CASE Len(f) = 1
      <4>1. j = 3 /\ stack'[2 + 1 - 1] = stack[2] /\ 2 + 1 - 1 = 2
        BY <1>1, <1>2, <3>1, <3>6
      <4>2. stack'[2].pc = "unslot"
        BY <3>1, <4>1
      <4> QED BY <3>4, <4>1, <4>2 DEF Placing
    <3> QED BY <3>3, <3>5, <3>6
  <2> QED BY <2>3, <2>4
<1>3. Told(f)
  <2> SUFFICES ASSUME NEW i \in 2 .. Len(stack), Awaits(stack[i]), NEW j, j = i + Len(f) - 1
               PROVE  (j = 1 /\ (rv' \/ AllIdle')) \/ (Placing(j)' /\ AllIdle')
    BY DEF Told
  <2> QED BY <1>2
<1>4. top.pc \notin ScriptPcs /\ Shape
  BY DEF PlacingPcs, ScriptPcs, OwnerInv
<1> QED BY <1>3, <1>4, QuietHandler

LEMMA IdleSame == UNCHANGED Slots => AllIdle' = AllIdle
<1> SUFFICES ASSUME UNCHANGED Slots PROVE AllIdle' = AllIdle
  OBVIOUS
<1> QED BY SameSlots DEF AllIdle

LEMMA PlacersQuiet ==
  ASSUME TypeInv, TypeInv', OwnerInv, OwnerInv', QuietInv,
         \/ ScheduleInvalid \/ Schedule \/ ScheduleRefused \/ Unslot
         \/ Deactivate \/ Drain \/ GiveUp \/ FailOver \/ FindNext
  PROVE  QuietInv'
<1>1. stack # <<>> /\ top.pc \in PlacingPcs
  BY DEF ScheduleInvalid, Schedule, ScheduleRefused, Unslot, Deactivate, Drain, GiveUp, FailOver,
         FindNext, At, top, PlacingPcs
<1>2. ASSUME Goto(<<>>),
             UNCHANGED Slots \/ (top.pc = "schedule" /\ rv')
      PROVE  QuietInv'
  <2> DEFINE f == <<>>
  <2>1. f \in Seq({top}) /\ Len(f) = 0 /\ Goto(f) /\ \A i \in 1 .. Len(f) : f[i].pc \notin ScriptPcs
    BY <1>2
  <2>2. Len(f) = 0
    BY <2>1
  <2> HIDE DEF f
  <2>3. AllIdle => AllIdle' \/ (Len(f) = 0 /\ top.pc = "schedule" /\ rv')
    BY <1>2, <2>2, IdleSame
  <2>4. PICK T : T = {top}
    OBVIOUS
  <2>5. f \in Seq(T)
    BY <2>1, <2>4
  <2> QED BY <1>1, <2>1, <2>2, <2>3, <2>5, PlacingStep
<1>3. ASSUME NEW a, Goto(<<a>>), AllIdle => AllIdle',
             \/ a.pc \in {"schedule", "failover", "probe", "unslot"}
             \/ top.pc \in {"deactivate", "drain"} /\ a.pc = "drain"
      PROVE  QuietInv'
  <2> DEFINE f == <<a>>
  <2>1. f \in Seq({a}) /\ Len(f) = 1 /\ f[1] = a /\ Goto(f)
    BY <1>3
  <2> HIDE DEF f
  <2>2. \A i \in 1 .. Len(f) : f[i].pc \notin ScriptPcs
    <3>1. a.pc \notin ScriptPcs
      BY <1>3 DEF ScriptPcs
    <3>2. \A i \in 1 .. Len(f) : i = 1
      BY <2>1
    <3> QED BY <2>1, <3>1, <3>2
  <2> QED BY <1>1, <1>3, <2>1, <2>2, PlacingStep
<1>4. ASSUME NEW a, NEW b, Goto(<<a, b>>), UNCHANGED Slots,
             \/ top.pc = "schedule" /\ a.pc = "deactivate" /\ b.pc = "unslot"
             \/ top.pc = "drain" /\ top.q # <<>> /\ a.pc = "failover" /\ b.pc = "drain"
      PROVE  QuietInv'
  <2> DEFINE f == <<a, b>>
  <2>1. f \in Seq({a, b}) /\ Len(f) = 2 /\ f[1] = a /\ f[2] = b /\ Goto(f)
    BY <1>4
  <2> HIDE DEF f
  <2>2. \A i \in 1 .. Len(f) : f[i].pc \notin ScriptPcs
    <3>1. a.pc \notin ScriptPcs /\ b.pc \notin ScriptPcs
      BY <1>4 DEF ScriptPcs
    <3>2. \A i \in 1 .. Len(f) : i = 1 \/ i = 2
      BY <2>1
    <3> QED BY <2>1, <3>1, <3>2
  <2> QED BY <1>1, <1>4, <2>1, <2>2, IdleSame, PlacingStep
<1>5. CASE ScheduleInvalid
  <2>1. Goto(<<Frame("failover", top.s, top.r)>>) /\ UNCHANGED Slots
    BY <1>5 DEF ScheduleInvalid, slots, Slots
  <2>2. Frame("failover", top.s, top.r).pc = "failover"
    BY DEF Frame, FrameOf
  <2> QED BY <1>3, <2>1, <2>2, IdleSame
<1>6. CASE Schedule
  <2>1. Goto(<<>>) /\ top.pc = "schedule" /\ rv'
    BY <1>6 DEF Schedule, Return, At, top
  <2> QED BY <1>2, <2>1
<1>7. CASE ScheduleRefused
  <2>1. Goto(<<Frame("deactivate", top.s, Null), Frame("unslot", top.s, top.r)>>)
        /\ UNCHANGED Slots /\ top.pc = "schedule"
    BY <1>7 DEF ScheduleRefused, slots, Slots, At, top
  <2>2. Frame("deactivate", top.s, Null).pc = "deactivate"
        /\ Frame("unslot", top.s, top.r).pc = "unslot"
    BY DEF Frame, FrameOf
  <2> QED BY <1>4, <2>1, <2>2
<1>8. CASE Unslot
  <2>1. Goto(<<Frame("failover", top.s, top.r)>>)
    BY <1>8 DEF Unslot
  <2>2. Frame("failover", top.s, top.r).pc = "failover"
    BY DEF Frame, FrameOf
  <2>3. AllIdle => AllIdle'
    <3>1. /\ UNCHANGED <<readreq, sendqueue, readqueue>>
          /\ sendreq' = [sendreq EXCEPT ![top.s] = Null]
      BY <1>8 DEF Unslot
    <3>2. \E D : sendreq \in [Server -> D]
      BY DEF TypeInv, SlotsOK
    <3> QED BY <3>1, <3>2 DEF AllIdle, IdleAt
  <2> QED BY <1>3, <2>1, <2>2, <2>3
<1>9. CASE Deactivate
  <2>1. PICK q : Goto(<<FrameOf("drain", top.s, Null, q, 0, 0)>>)
    BY <1>9 DEF Deactivate
  <2>2. FrameOf("drain", top.s, Null, q, 0, 0).pc = "drain" /\ top.pc = "deactivate"
    BY <1>9 DEF FrameOf, Deactivate, At, top
  <2>3. AllIdle => AllIdle'
    <3>1. Vacate(top.s)
      BY <1>9 DEF Deactivate
    <3>2. /\ \E D : sendreq \in [Server -> D]
          /\ \E D : readreq \in [Server -> D]
          /\ \E D : sendqueue \in [Server -> D]
          /\ \E D : readqueue \in [Server -> D]
      BY DEF TypeInv, SlotsOK
    <3> QED BY <3>1, <3>2 DEF AllIdle, IdleAt, Vacate
  <2> QED BY <1>3, <2>1, <2>2, <2>3
<1>10. CASE Drain
  <2>1. UNCHANGED Slots /\ top.pc = "drain"
    BY <1>10 DEF Drain, slots, Slots, At, top
  <2>2. ~Reentrant
    BY DEF OwnerInv, Covered
  <2>3. CASE top.q = <<>>
    <3>1. Goto(<<>>)
      BY <1>10, <2>2, <2>3 DEF Drain, Return
    <3> QED BY <1>2, <2>1, <3>1
  <2>4. CASE top.q # <<>>
    <3>1. Goto(<<Frame("failover", top.s, Head(top.q)),
                 FrameOf("drain", top.s, Null, Tail(top.q), 0, 0)>>)
      BY <1>10, <2>4 DEF Drain
    <3>2. /\ Frame("failover", top.s, Head(top.q)).pc = "failover"
          /\ FrameOf("drain", top.s, Null, Tail(top.q), 0, 0).pc = "drain"
      BY DEF Frame, FrameOf
    <3> QED BY <1>4, <2>1, <2>4, <3>1, <3>2
  <2> QED BY <2>3, <2>4
<1>11. CASE GiveUp
  <2>1. Goto(<<>>) /\ UNCHANGED Slots
    BY <1>11 DEF GiveUp, Return, slots, Slots
  <2> QED BY <1>2, <2>1
<1>12. CASE FailOver
  <2>1. UNCHANGED Slots /\ \/ Goto(<<Frame("probe", top.s, top.r)>>)
                           \/ Goto(<<Each("get", top.r, want)>>)
    BY <1>12 DEF FailOver, slots, Slots
  <2>2. Frame("probe", top.s, top.r).pc = "probe" /\ Each("get", top.r, want).pc = "get"
    BY DEF Frame, FrameOf, Each
  <2>3. ~Goto(<<Each("get", top.r, want)>>)
    <3> DEFINE f == <<Each("get", top.r, want)>>
    <3> SUFFICES ASSUME Goto(f) PROVE FALSE
      OBVIOUS
    <3>1. f \in Seq({Each("get", top.r, want)}) /\ Len(f) = 1 /\ f[1] = Each("get", top.r, want)
      OBVIOUS
    <3> HIDE DEF f
    <3>2. stack' # <<>> /\ top' = f[1]
      BY <1>1, <3>1, HeadAfter
    <3>3. 1 \in Positions' /\ stack'[1] = top'
      BY <3>2, FirstElement DEF TypeInv, StackOK, top, Positions
    <3> QED BY <2>2, <3>1, <3>2, <3>3 DEF OwnerInv, Shape, Sound
  <2> QED BY <1>3, <2>1, <2>2, <2>3, IdleSame
<1>13. CASE FindNext
  <2>1. PICK pc \in {"probe", "schedule"} : \E s : Goto(<<Frame(pc, s, top.r)>>)
    BY <1>13 DEF FindNext
  <2>2. PICK s : Goto(<<Frame(pc, s, top.r)>>)
    BY <2>1
  <2>3. Frame(pc, s, top.r).pc = pc /\ UNCHANGED Slots
    BY <1>13 DEF Frame, FrameOf, FindNext, slots, Slots
  <2> QED BY <1>3, <2>1, <2>2, <2>3, IdleSame
<1> QED BY <1>5, <1>6, <1>7, <1>8, <1>9, <1>10, <1>11, <1>12, <1>13

(* The handlers of a round. *)
LEMMA HandlesOne == ASSUME NEW a, Goto(<<a>>), a.pc \notin ScriptPcs PROVE Handles
BY DEF Handles

LEMMA HandlesTwo ==
  ASSUME NEW a, NEW b, Goto(<<a, b>>), a.pc \notin ScriptPcs, b.pc \notin ScriptPcs PROVE Handles
BY DEF Handles

LEMMA HandlerPcs ==
  ASSUME NEW s, NEW r, NEW q, NEW w, NEW i
  PROVE  /\ \A pc \in {"late", "unread", "xmit", "parse"} :
              FrameOf(pc, s, r, q, w, i).pc \notin ScriptPcs
         /\ \A pc \in {"retry", "deactivate", "slot", "unqueue", "early"} :
              Frame(pc, s, r).pc \notin ScriptPcs
         /\ \A pc \in {"lateSend", "lateRead", "send", "read"} : Loop(pc, w, i).pc \notin ScriptPcs
BY DEF Frame, FrameOf, Loop, ScriptPcs

LEMMA ReturnsQuiet ==
  ASSUME SlotSend \/ Unqueue \/ EarlyDone \/ Unread \/ SendEnd \/ ParseEnd
  PROVE  stack # <<>> /\ top.pc \notin PlacingPcs \cup ScriptPcs /\ Handles
<1>1. stack # <<>> /\ top.pc \in {"slot", "unqueue", "early", "unread", "xmit", "parse"}
  BY DEF SlotSend, Unqueue, EarlyDone, Unread, SendEnd, ParseEnd, At, top
<1>2. Goto(<<>>)
  BY DEF SlotSend, Unqueue, EarlyDone, Unread, SendEnd, ParseEnd, Return
<1> QED BY <1>1, <1>2 DEF PlacingPcs, ScriptPcs, Handles

LEMMA SelectQuiet ==
  ASSUME Ready \/ Expire \/ SelectError \/ LateSend \/ LateRead \/ Late
  PROVE  stack # <<>> /\ top.pc \notin PlacingPcs \cup ScriptPcs /\ Handles
<1>1. stack # <<>> /\ top.pc \in {"select", "lateSend", "lateRead", "late"}
  BY DEF Ready, Expire, SelectError, Switch, LateSend, LateRead, Late, At, top
<1>2. CASE Ready \/ Expire \/ SelectError
  <2>1. PICK pc \in {"lateSend", "send"} : \E i : Goto(<<Loop(pc, cur, i)>>)
    BY <1>2 DEF Ready, Expire, SelectError
  <2>2. PICK i : Goto(<<Loop(pc, cur, i)>>)
    BY <2>1
  <2>3. Loop(pc, cur, i).pc \notin ScriptPcs
    BY HandlerPcs
  <2> QED BY <1>1, <2>2, <2>3, HandlesOne DEF PlacingPcs, ScriptPcs
<1>3. ASSUME NEW s, NEW w, NEW r, TakeOut(s, w, r), top.pc \in {"lateSend", "lateRead"}
      PROVE  Handles
  <2>1. Goto(<<FrameOf("late", s, r, <<>>, 0, top.i), top>>)
    BY <1>3 DEF TakeOut
  <2>2. FrameOf("late", s, r, <<>>, 0, top.i).pc \notin ScriptPcs /\ top.pc \notin ScriptPcs
    BY <1>3, HandlerPcs DEF ScriptPcs
  <2> QED BY <2>1, <2>2, HandlesTwo
<1>4. CASE LateSend
  <2>1. top.pc = "lateSend"
    BY <1>4 DEF LateSend, At, top
  <2>2. \/ Goto(<<Loop("lateRead", top.w, top.i)>>)
        \/ TakeOut(Head(sending[top.w]), top.w, sendreq[Head(sending[top.w])])
    BY <1>4 DEF LateSend
  <2>3. Loop("lateRead", top.w, top.i).pc \notin ScriptPcs
    BY HandlerPcs
  <2> QED BY <1>1, <1>3, <2>1, <2>2, <2>3, HandlesOne DEF PlacingPcs, ScriptPcs
<1>5. CASE LateRead
  <2>1. top.pc = "lateRead"
    BY <1>5 DEF LateRead, At, top
  <2>2. \/ Goto(<<Loop("send", top.w, 0)>>)
        \/ TakeOut(Head(reading[top.w]), top.w, readreq[Head(reading[top.w])])
    BY <1>5 DEF LateRead
  <2>3. Loop("send", top.w, 0).pc \notin ScriptPcs
    BY HandlerPcs
  <2> QED BY <1>1, <1>3, <2>1, <2>2, <2>3, HandlesOne DEF PlacingPcs, ScriptPcs
<1>6. CASE Late
  <2>1. \/ Goto(<<Frame("retry", top.s, top.r)>>)
        \/ Goto(<<Frame("deactivate", top.s, Null)>>)
    BY <1>6 DEF Late
  <2>2. /\ Frame("retry", top.s, top.r).pc \notin ScriptPcs
        /\ Frame("deactivate", top.s, Null).pc \notin ScriptPcs
    BY HandlerPcs
  <2> QED BY <1>1, <2>1, <2>2, HandlesOne DEF PlacingPcs, ScriptPcs
<1> QED BY <1>2, <1>4, <1>5, <1>6

LEMMA LoopsQuiet ==
  ASSUME SendLoop \/ ReadLoop
  PROVE  stack # <<>> /\ top.pc \notin PlacingPcs \cup ScriptPcs /\ Handles
<1>1. stack # <<>> /\ top.pc \in {"send", "read"}
  BY DEF SendLoop, ReadLoop, At, top
<1>2. PICK pc, w, i, s, do :
        /\ pc \in {"send", "read"} /\ do \in {"xmit", "parse"}
        /\ \/ Goto(<<>>) \/ Goto(<<Loop("read", w, 0)>>) \/ Goto(<<Loop(pc, w, i)>>)
           \/ Goto(<<FrameOf(do, s, Null, <<>>, w, 0), Loop(pc, w, i)>>)
  <2>1. CASE SendLoop
    <3>1. PICK w, i, s : w = top.w /\ i = top.i + 1 /\ s = sending[w][i]
      OBVIOUS
    <3>2. \/ Goto(<<Loop("read", w, 0)>>) \/ Goto(<<Loop("send", w, i)>>)
          \/ Goto(<<FrameOf("xmit", s, Null, <<>>, w, 0), Loop("send", w, i)>>)
      BY <2>1, <3>1 DEF SendLoop
    <3> QED BY <3>2
  <2>2. CASE ReadLoop
    <3>1. PICK w, i, s : w = top.w /\ i = top.i + 1 /\ s = reading[w][i]
      OBVIOUS
    <3>2. \/ Goto(<<>>) \/ Goto(<<Loop("read", w, i)>>)
          \/ Goto(<<FrameOf("parse", s, Null, <<>>, w, 0), Loop("read", w, i)>>)
      BY <2>2, <3>1 DEF ReadLoop, Return
    <3> QED BY <3>2
  <2> QED BY <2>1, <2>2
<1>3. /\ Loop("read", w, 0).pc \notin ScriptPcs /\ Loop(pc, w, i).pc \notin ScriptPcs
      /\ FrameOf(do, s, Null, <<>>, w, 0).pc \notin ScriptPcs
  BY <1>2, HandlerPcs
<1>4. Handles
  BY <1>2, <1>3, HandlesOne, HandlesTwo DEF Handles
<1> QED BY <1>1, <1>4 DEF PlacingPcs, ScriptPcs

LEMMA ServesQuiet ==
  ASSUME TypeInv, Shape,
         SendDone \/ SendMore \/ SendError \/ ParseDone \/ ParseEarly \/ ParseError \/ ParseMore
           \/ ParseEof
  PROVE  stack # <<>> /\ top.pc \notin PlacingPcs \cup ScriptPcs /\ Handles
<1>1. stack # <<>> /\ top.pc \in {"xmit", "parse"}
  BY DEF SendDone, SendMore, SendError, ParseDone, ParseEarly, ParseError, ParseMore, ParseEof,
         Sending, Parsing, At, top
<1>2. in_select
  <2>1. 1 \in Positions /\ stack[1] = top
    BY <1>1, FirstElement DEF TypeInv, StackOK, top, Positions
  <2> QED BY <1>1, <2>1 DEF Shape, Sound, RoundPcs
<1>3. \A f : Proceed(f) => Goto(f)
  BY <1>2 DEF Proceed, Goto
<1>4. top.pc \notin PlacingPcs \cup ScriptPcs
  BY <1>1 DEF PlacingPcs, ScriptPcs
<1>5. CASE SendMore \/ ParseMore
  BY <1>1, <1>3, <1>4, <1>5 DEF SendMore, ParseMore, Handles
<1>6. CASE ParseDone
  <2>1. Goto(<<top>>)
    BY <1>3, <1>6 DEF ParseDone
  <2> QED BY <1>1, <1>4, <2>1, HandlesOne
<1>7. CASE SendDone
  <2>1. PICK a : /\ a = Frame("slot", top.s, Popped(sendqueue[top.s], Null))
                 /\ Goto(<<a, top>>)
    BY <1>3, <1>7 DEF SendDone
  <2>2. a.pc \notin ScriptPcs
    BY <2>1, HandlerPcs
  <2> QED BY <1>1, <1>4, <2>1, <2>2, HandlesTwo
<1>8. CASE SendError
  <2>1. PICK r, w : r = sendreq[top.s] /\ w = top.w
    OBVIOUS
  <2>2. \/ Goto(<<Frame("retry", top.s, r)>>)
        \/ Goto(<<Frame("deactivate", top.s, Null), FrameOf("unread", top.s, Null, <<>>, w, 0)>>)
    BY <1>3, <1>8, <2>1 DEF SendError
  <2>3. /\ Frame("retry", top.s, r).pc \notin ScriptPcs
        /\ Frame("deactivate", top.s, Null).pc \notin ScriptPcs
        /\ FrameOf("unread", top.s, Null, <<>>, w, 0).pc \notin ScriptPcs
    BY HandlerPcs
  <2> QED BY <1>1, <1>4, <2>2, <2>3, HandlesOne, HandlesTwo
<1>9. CASE ParseError \/ ParseEof
  <2>1. PICK r : r = readreq[top.s]
    OBVIOUS
  <2>2. \/ Goto(<<Frame("retry", top.s, r)>>)
        \/ Goto(<<Frame("deactivate", top.s, Null)>>)
    BY <1>3, <1>9, <2>1 DEF ParseError, ParseEof
  <2>3. /\ Frame("retry", top.s, r).pc \notin ScriptPcs
        /\ Frame("deactivate", top.s, Null).pc \notin ScriptPcs
    BY HandlerPcs
  <2> QED BY <1>1, <1>4, <2>2, <2>3, HandlesOne
<1>10. CASE ParseEarly
  <2>1. PICK a, b, c : /\ a = Frame("slot", top.s, Popped(sendqueue[top.s], Null))
                       /\ b = Frame("unqueue", top.s, Null) /\ c = Frame("early", top.s, Null)
    OBVIOUS
  <2>2. Goto(<<a, b, c, top>>)
    BY <1>3, <1>10, <2>1 DEF ParseEarly
  <2>3. a.pc \notin ScriptPcs /\ b.pc \notin ScriptPcs /\ c.pc \notin ScriptPcs
    BY <2>1, HandlerPcs
  <2> QED BY <1>1, <1>4, <2>2, <2>3 DEF Handles
<1> QED BY <1>5, <1>6, <1>7, <1>8, <1>9, <1>10

LEMMA HandlersQuiet ==
  ASSUME TypeInv, TypeInv', OwnerInv, QuietInv,
         \/ SlotSend \/ Unqueue \/ EarlyDone \/ Unread \/ SendEnd \/ ParseEnd
         \/ Ready \/ Expire \/ SelectError \/ LateSend \/ LateRead \/ Late
         \/ SendLoop \/ ReadLoop
         \/ SendDone \/ SendMore \/ SendError \/ ParseDone \/ ParseEarly \/ ParseError
         \/ ParseMore \/ ParseEof
  PROVE  QuietInv'
<1>1. Shape
  BY DEF OwnerInv
<1>2. stack # <<>> /\ top.pc \notin PlacingPcs \cup ScriptPcs /\ Handles
  BY <1>1, ReturnsQuiet, SelectQuiet, LoopsQuiet, ServesQuiet, Zenon
<1> QED BY <1>2, HandlerQuiet

(* A round that has nobody to serve ends the run. *)
LEMMA IdleWhenDone ==
  ASSUME TypeInv, OwnerInv, RoundsInv, stack # <<>>, top.pc = "run",
         sending[cur] = <<>>, reading[cur] = <<>>
  PROVE  AllIdle
<1> SUFFICES ASSUME NEW s \in Server PROVE IdleAt(s)
  BY DEF AllIdle
<1>1. Shape
  BY OwnerParts
<1>2. PICK f : Served(f)
  BY DEF RoundsInv
<1>3. StillToSend(f) = {} /\ StillToRead(f) = {}
  BY <1>1, <1>2, NoRound DEF Served, ScriptPcs
<1>4. ~Busy(s)
  BY DEF Busy, Doing, BusyPcs
<1>5. NextSend = {} /\ NextRead = {}
  <2>1. ToSet(<<>>) = {}
    BY DEF ToSet
  <2> QED BY <2>1 DEF NextSend, NextRead
<1>6. ~XmitAt(s) /\ ~ParseAt(s) /\ ~FailingAt(s)
  BY <1>4, NotBusy
<1>7. sendreq[s] = Null /\ readreq[s] = Null
  <2>1. SendInv(f, s) /\ ReadInv(f, s)
    BY <1>2 DEF Served, RoundInv
  <2> QED BY <1>3, <1>5, <1>6, <2>1 DEF SendInv, ReadInv
<1>8. PICK own : Owned(own)
  BY OwnerParts
<1>9. Steady
  <2>1. top.pc \notin ShiftPcs
    BY DEF ShiftPcs
  <2> QED BY <1>1, <2>1, TopSteady
<1>10. SendSlot(s) = sendreq[s]
  BY DEF SendSlot, Slotting, At, top
<1>11. sendqueue[s] = <<>> /\ readqueue[s] = <<>>
  BY <1>7, <1>8, <1>10 DEF Owned, ServersInv, ServerInv
<1> QED BY <1>7, <1>11 DEF IdleAt, ToSend, ToRead, Slotted

----------------------------------------------------------------------------
(* The steps of the calls.                                                 *)

LEMMA QuietScript ==
  ASSUME TypeInv, TypeInv', Shape, QuietInv, stack # <<>>, top.pc \in ScriptPcs,
         NEW T, NEW f \in Seq(T), Goto(f),
         \A i \in 1 .. Len(f) :
           /\ Brief(f[i])
           /\ Awaits(f[i]) => \/ i = 1 /\ (rv' \/ AllIdle')
                              \/ i = 2 /\ f[1].pc = "schedule" /\ AllIdle'
           /\ Resting(f[i]) => (i = 1 /\ AllIdle') \/ (i > 1 /\ f[i - 1].pc = "run"),
         f = <<>> => AllIdle' \/ top.pc = "clone",
         f # <<>> => /\ top.pc = "run" => f[Len(f)].pc = "run"
                     /\ f[Len(f)].pc \in BottomPcs \/ top.pc = "clone"
  PROVE  QuietInv'
<1>1. /\ Len(f) \in Nat /\ Len(stack) \in Nat \ {0} /\ top = stack[1]
      /\ Len(stack') = Len(f) + Len(stack) - 1
      /\ \A i \in 1 .. Len(f) : stack'[i] = f[i]
      /\ \A i \in 2 .. Len(stack) : stack'[i + Len(f) - 1] = stack[i]
  BY Replaced
<1>2. Told(f)
  <2>1. top.pc \notin PlacingPcs
    BY DEF PlacingPcs, ScriptPcs
  <2> QED BY <2>1, NobodyWaits DEF Told
<1>3. 1 \in Positions /\ QuietAt(1)
  <2>1. 1 \in Positions
    BY <1>1 DEF Positions
  <2> QED BY <2>1 DEF QuietInv
<1>4. top.pc = "clone" => Len(stack) # 1
  BY <1>1, <1>3 DEF QuietAt, BottomPcs
<1>5. f # <<>> <=> Len(f) # 0
  BY <1>1, EmptySeq
<1>6. ASSUME NEW j \in Positions' PROVE QuietAt(j)'
  <2>1. CASE j <= Len(f)
    <3>1. j \in 1 .. Len(f) /\ stack'[j] = f[j] /\ f # <<>>
      BY <1>1, <1>5, <2>1 DEF Positions
    <3>2. Awaits(stack'[j]) => (j = 1 /\ (rv' \/ AllIdle')) \/ (Placing(j)' /\ AllIdle')
      <4>1. ASSUME j = 2, f[1].pc = "schedule" PROVE Placing(j)'
        <5>1. 1 \in 1 .. Len(f)
          BY <1>1, <3>1
        <5>2. stack'[1].pc = "schedule"
          BY <1>1, <4>1, <5>1
        <5> QED BY <4>1, <5>2 DEF Placing
      <4> QED BY <3>1, <4>1
    <3>3. Brief(stack'[j])
      BY <3>1
    <3>4. Resting(stack'[j]) /\ j > 1 => stack'[j - 1].pc = "run"
      <4>1. j > 1 => j - 1 \in 1 .. Len(f)
        BY <1>1, <3>1
      <4>2. j > 1 => stack'[j - 1] = f[j - 1]
        BY <1>1, <4>1
      <4> QED BY <3>1, <4>2
    <3>5. j = Len(stack') => stack'[j].pc \in BottomPcs
      <4> SUFFICES ASSUME j = Len(stack') PROVE stack'[j].pc \in BottomPcs
        OBVIOUS
      <4>1. PICK k \in Nat \ {0} : k = Len(stack)
        BY <1>1
      <4>2. k = 1 /\ j = Len(f)
        BY <1>1, <3>1, <4>1
      <4>3. top.pc # "clone"
        BY <1>4, <4>1, <4>2
      <4> QED BY <3>1, <4>2, <4>3
    <3> QED BY <3>2, <3>3, <3>4, <3>5 DEF QuietAt, Awaits, Brief, Resting
  <2>2. CASE ~(j <= Len(f))
    BY <1>2, <2>2, QuietBelow
  <2> QED BY <2>1, <2>2
<1>7. stack' = <<>> \/ Resting(top)' => AllIdle'
  <2>1. CASE f # <<>>
    <3>1. 1 \in 1 .. Len(f) /\ stack' # <<>> /\ top' = f[1]
      BY <1>1, <1>5, <2>1, HeadAfter
    <3>2. Resting(f[1]) => AllIdle'
      BY <3>1
    <3> QED BY <3>1, <3>2 DEF Resting
  <2>2. CASE f = <<>> /\ ~AllIdle'
    <3>1. top.pc = "clone" /\ Len(f) = 0
      BY <1>5, <2>2
    <3>2. PICK k \in Nat \ {0} : k = Len(stack)
      BY <1>1
    <3>3. k > 1 /\ Len(stack') = k - 1
      BY <1>1, <1>4, <3>1, <3>2
    <3>4. stack' # <<>>
      BY <3>3
    <3>5. top' = stack[2]
      BY <2>2, <3>4, HeadAfter
    <3>6. 2 \in Positions /\ 2 > 1 /\ 2 - 1 = 1
      BY <3>2, <3>3 DEF Positions
    <3>7. Resting(stack[2]) => stack[1].pc = "run"
      BY <3>6 DEF QuietInv, QuietAt
    <3> QED BY <1>1, <3>1, <3>4, <3>5, <3>7 DEF Resting
  <2> QED BY <2>1, <2>2
<1> QED BY <1>6, <1>7 DEF QuietInv

LEMMA QuietReturn ==
  ASSUME TypeInv, TypeInv', Shape, QuietInv, stack # <<>>, top.pc \in ScriptPcs,
         Goto(<<>>), AllIdle' \/ top.pc = "clone"
  PROVE  QuietInv'
<1>1. PICK f, T : f = <<>> /\ T = {top}
  OBVIOUS
<1>2. f \in Seq(T) /\ Goto(f) /\ \A i \in 1 .. Len(f) : FALSE
  BY <1>1
<1> QED BY <1>1, <1>2, QuietScript

LEMMA QuietOne ==
  ASSUME TypeInv, TypeInv', Shape, QuietInv, stack # <<>>, top.pc \in ScriptPcs,
         NEW a, Goto(<<a>>), Brief(a),
         Awaits(a) => rv' \/ AllIdle', Resting(a) => AllIdle', top.pc # "run",
         a.pc \in BottomPcs \/ top.pc = "clone"
  PROVE  QuietInv'
<1>1. PICK f, T : f = <<a>> /\ T = {a}
  OBVIOUS
<1>2. f \in Seq(T) /\ Goto(f) /\ Len(f) = 1 /\ f[1] = a /\ f # <<>>
  BY <1>1
<1>3. \A i \in 1 .. Len(f) : i = 1
  BY <1>2
<1>4. \A i \in 1 .. Len(f) :
        /\ Brief(f[i])
        /\ Awaits(f[i]) => \/ i = 1 /\ (rv' \/ AllIdle')
                           \/ i = 2 /\ f[1].pc = "schedule" /\ AllIdle'
        /\ Resting(f[i]) => (i = 1 /\ AllIdle') \/ (i > 1 /\ f[i - 1].pc = "run")
  BY <1>2, <1>3
<1> QED BY <1>2, <1>4, QuietScript

LEMMA QuietTwo ==
  ASSUME TypeInv, TypeInv', Shape, QuietInv, stack # <<>>, top.pc \in ScriptPcs,
         NEW a, NEW b, Goto(<<a, b>>), a.pc \in {"schedule", "select", "run"}, Brief(b),
         Awaits(b) => a.pc = "schedule" /\ AllIdle', Resting(b) => a.pc = "run",
         top.pc = "run" => b.pc = "run", b.pc \in BottomPcs \/ top.pc = "clone"
  PROVE  QuietInv'
<1>1. PICK f, T : f = <<a, b>> /\ T = {a, b}
  OBVIOUS
<1>2. f \in Seq(T) /\ Goto(f) /\ Len(f) = 2 /\ f[1] = a /\ f[2] = b /\ f # <<>>
  BY <1>1
<1>3. \A i \in 1 .. Len(f) : i = 1 \/ (i = 2 /\ i - 1 = 1 /\ i > 1)
  BY <1>2
<1>4. Brief(a) /\ ~Awaits(a) /\ ~Resting(a)
  BY DEF Brief, Awaits, Resting
<1>5. \A i \in 1 .. Len(f) :
        /\ Brief(f[i])
        /\ Awaits(f[i]) => \/ i = 1 /\ (rv' \/ AllIdle')
                           \/ i = 2 /\ f[1].pc = "schedule" /\ AllIdle'
        /\ Resting(f[i]) => (i = 1 /\ AllIdle') \/ (i > 1 /\ f[i - 1].pc = "run")
  BY <1>2, <1>3, <1>4
<1> QED BY <1>2, <1>5, QuietScript

LEMMA QuietThree ==
  ASSUME TypeInv, TypeInv', Shape, QuietInv, stack # <<>>, top.pc \in ScriptPcs \ {"run"},
         NEW a, NEW b, NEW c, Goto(<<a, b, c>>), a.pc = "schedule", b.pc = "clone",
         c.pc = "stored", c.w # 0
  PROVE  QuietInv'
<1>1. PICK f, T : f = <<a, b, c>> /\ T = {a, b, c}
  OBVIOUS
<1>2. /\ f \in Seq(T) /\ Goto(f) /\ Len(f) = 3 /\ f[1] = a /\ f[2] = b /\ f[3] = c /\ f # <<>>
  BY <1>1
<1>3. \A i \in 1 .. Len(f) : i = 1 \/ i = 2 \/ i = 3
  BY <1>2
<1>4. \A i \in 1 .. Len(f) : Brief(f[i]) /\ ~Awaits(f[i]) /\ ~Resting(f[i])
  <2>1. \A x \in {a, b, c} : Brief(x) /\ ~Awaits(x) /\ ~Resting(x)
    BY DEF Brief, Awaits, Resting
  <2> QED BY <1>2, <1>3, <2>1
<1>5. c.pc \in BottomPcs
  BY DEF BottomPcs, ScriptPcs
<1> QED BY <1>2, <1>4, <1>5, QuietScript

LEMMA CallPcs ==
  ASSUME NEW s, NEW r, NEW q, NEW w, NEW i, NEW k, NEW ok
  PROVE  /\ \A pc \in {"store", "stored", "ask", "asked"} :
              /\ FrameOf(pc, NoServer, Null, q, w, i).pc = pc
              /\ FrameOf(pc, NoServer, Null, q, w, i).q = q
              /\ FrameOf(pc, NoServer, Null, q, w, i).w = w
              /\ FrameOf(pc, NoServer, Null, q, w, i).i = i
         /\ CloneOf(s, r, q, w, i, k, ok).pc = "clone"
         /\ \A pc \in {"flush", "flushed"} : Each(pc, Null, q).pc = pc
         /\ \A pc \in {"run", "select"} : Frame(pc, NoServer, Null).pc = pc
         /\ Frame("schedule", s, r).pc = "schedule"
BY DEF Frame, FrameOf, Each, CloneOf

(* A frame that neither waits nor is about to. *)
LEMMA PlainFrame ==
  ASSUME NEW a, a.pc \in {"run", "select", "schedule", "flush", "flushed", "clone"}
  PROVE  Brief(a) /\ ~Awaits(a) /\ ~Resting(a)
BY DEF Brief, Awaits, Resting

LEMMA RunRoundsQuiet ==
  ASSUME TypeInv, TypeInv', OwnerInv, RoundsInv, QuietInv, RunRounds PROVE QuietInv'
<1>1. Shape /\ stack # <<>> /\ top.pc = "run" /\ UNCHANGED Slots
  BY DEF OwnerInv, RunRounds, At, top, slots, Slots
<1>2. top.pc \in ScriptPcs /\ top.pc \in BottomPcs
  BY <1>1 DEF ScriptPcs, BottomPcs
<1>3. CASE reading[cur] # <<>> \/ sending[cur] # <<>>
  <2>1. PICK a : a = Frame("select", NoServer, Null) /\ Goto(<<a, top>>)
    BY <1>3 DEF RunRounds
  <2>2. a.pc = "select"
    BY <2>1, CallPcs
  <2> QED BY <1>1, <1>2, <2>1, <2>2, PlainFrame, QuietTwo
<1>4. CASE ~(reading[cur] # <<>> \/ sending[cur] # <<>>)
  <2>1. Goto(<<>>)
    BY <1>4 DEF RunRounds, Return
  <2>2. AllIdle'
    BY <1>1, <1>4, IdleWhenDone, IdleSame
  <2> QED BY <1>1, <1>2, <2>1, <2>2, QuietReturn
<1> QED BY <1>3, <1>4

(* The top frame of a call. *)
LEMMA TopQuiet ==
  ASSUME TypeInv, QuietInv, stack # <<>>
  PROVE  /\ Awaits(top) => rv \/ AllIdle
         /\ Brief(top) /\ (Resting(top) => AllIdle)
<1>1. 1 \in Positions /\ stack[1] = top
  BY FirstElement DEF TypeInv, StackOK, top, Positions
<1>2. QuietAt(1) /\ (Resting(top) => AllIdle)
  BY <1>1 DEF QuietInv
<1>3. ~Placing(1)
  BY DEF Placing
<1> QED BY <1>1, <1>2, <1>3 DEF QuietAt

LEMMA StoreQuiet ==
  ASSUME TypeInv, TypeInv', OwnerInv, QuietInv, Store PROVE QuietInv'
<1>1. Shape /\ stack # <<>> /\ top.pc = "store" /\ UNCHANGED Slots
  BY DEF OwnerInv, Store, At, top, slots, Slots
<1>2. top.pc \in ScriptPcs \ {"run"}
  BY <1>1 DEF ScriptPcs
<1>3. CASE top.q = <<>>
  <2>1. PICK a : a = Frame("run", NoServer, Null) /\ Goto(<<a>>)
    BY <1>3 DEF Store
  <2>2. a.pc = "run" /\ a.pc \in BottomPcs
    BY <2>1, CallPcs DEF BottomPcs, ScriptPcs
  <2> QED BY <1>1, <1>2, <2>1, <2>2, PlainFrame, QuietOne
<1>4. CASE top.q # <<>>
  <2>1. PICK k, r, n, w, i : /\ k = Head(top.q) /\ r = NewRequest /\ n = Tail(top.q)
                             /\ w = top.w /\ i = top.i
    OBVIOUS
  <2>2. PICK a, b, c : /\ a = Frame("schedule", Find(k), r)
                       /\ b = CloneOf(Find(k), r, <<>>, 0, 0, k, FALSE)
                       /\ c = FrameOf("stored", NoServer, Null, n, w, i)
    OBVIOUS
  <2>3. Goto((IF i > 1 THEN <<a, b>> ELSE <<a>>) \o <<c>>)
    <3>1. /\ top.q # <<>>
          /\ <<a, b>> = <<Frame("schedule", Find(k), r), CloneOf(Find(k), r, <<>>, 0, 0, k, FALSE)>>
          /\ <<a>> = <<Frame("schedule", Find(k), r)>>
          /\ <<c>> = <<FrameOf("stored", NoServer, Null, n, w, i)>>
      BY <1>4, <2>2
    <3> QED BY <2>1, <3>1 DEF Store
  <2>4. IF i > 1 THEN Goto(<<a, b, c>>) ELSE Goto(<<a, c>>)
    BY <2>3, FramesJoined, ThreeFrames
  <2>5. a.pc = "schedule" /\ b.pc = "clone" /\ c.pc = "stored" /\ c.w = w /\ c.q = n
    BY <2>2 DEF Frame, FrameOf, CloneOf
  <2>6. w = 0 => i <= 1 /\ n = <<>> /\ AllIdle'
    <3> SUFFICES ASSUME w = 0 PROVE i <= 1 /\ n = <<>> /\ AllIdle'
      OBVIOUS
    <3>1. Resting(top)
      BY <1>1, <1>4, <2>1 DEF Resting
    <3>2. i <= 1 /\ Len(top.q) <= 1 /\ AllIdle
      BY <1>1, <2>1, <3>1, TopQuiet DEF Brief
    <3>3. top.q \in Seq(Key)
      BY <1>1, TopOK DEF FrameOK
    <3>4. n \in Seq(Key) /\ Len(n) = 0
      <4>1. Tail(top.q) \in Seq(Key) /\ Len(Tail(top.q)) = Len(top.q) - 1
        BY <1>4, <3>3, HeadTailProperties
      <4>2. PICK l \in Nat : l = Len(top.q)
        BY <3>3, LenProperties
      <4>3. Len(Tail(top.q)) \in Nat
        BY <4>1, LenProperties
      <4>4. l - 1 = 0
        <5>1. l <= 1
          BY <3>2, <4>2
        <5>2. l - 1 \in Nat
          BY <4>1, <4>2, <4>3
        <5>3. \A m \in Nat : m <= 1 /\ m - 1 \in Nat => m - 1 = 0
          OBVIOUS
        <5>4. l \in Nat
          BY <4>2
        <5> QED BY ONLY <5>1, <5>2, <5>3, <5>4
      <4> QED BY <2>1, <4>1, <4>2, <4>4
    <3> QED BY <1>1, <3>2, <3>4, EmptySeq, IdleSame
  <2>7. i \in Nat
    BY <1>1, <2>1, TopOK DEF FrameOK
  <2>8. CASE i > 1
    <3>1. c.w # 0 /\ Goto(<<a, b, c>>)
      BY <2>4, <2>5, <2>6, <2>7, <2>8
    <3> QED BY <1>1, <1>2, <2>5, <3>1, QuietThree
  <2>9. CASE ~(i > 1)
    <3>1. /\ Brief(c) /\ ~Resting(c) /\ (Awaits(c) => AllIdle') /\ c.pc \in BottomPcs
      BY <2>5, <2>6 DEF Brief, Resting, Awaits, BottomPcs, ScriptPcs
    <3>2. Goto(<<a, c>>) /\ top.pc # "run"
      BY <1>1, <2>4, <2>9
    <3> QED BY <1>1, <1>2, <2>5, <3>1, <3>2, QuietTwo
  <2> QED BY <2>8, <2>9
<1> QED BY <1>3, <1>4

LEMMA StoredQuiet ==
  ASSUME TypeInv, TypeInv', OwnerInv, QuietInv, Stored PROVE QuietInv'
<1>1. Shape /\ stack # <<>> /\ top.pc = "stored" /\ UNCHANGED Slots
  BY DEF OwnerInv, Stored, At, top, slots, Slots
<1>2. top.pc \in ScriptPcs /\ top.pc # "run"
  BY <1>1 DEF ScriptPcs
<1>3. PICK a, b : /\ a = Frame("select", NoServer, Null)
                  /\ b = FrameOf("store", NoServer, Null, top.q, top.w, top.i)
  OBVIOUS
<1>4. /\ a.pc = "select" /\ b.pc = "store" /\ b.q = top.q /\ b.w = top.w
      /\ b.pc \in BottomPcs
  BY <1>3, CallPcs DEF BottomPcs, ScriptPcs
<1>5. top.w = 0 => top.q = <<>>
  BY <1>1, TopQuiet DEF Brief
<1>6. Brief(b) /\ ~Resting(b) /\ ~Awaits(b)
  BY <1>4, <1>5 DEF Brief, Resting, Awaits
<1>7. \/ Goto(<<>>) /\ top.w = 0 /\ ~rv
      \/ Goto(<<a, b>>)
      \/ Goto(<<b>>)
  BY <1>3 DEF Stored
<1>8. CASE Goto(<<>>) /\ top.w = 0 /\ ~rv
  <2>1. AllIdle'
    BY <1>1, <1>8, TopQuiet, IdleSame DEF Awaits
  <2> QED BY <1>1, <1>2, <1>8, <2>1, QuietReturn
<1>9. CASE Goto(<<a, b>>)
  BY <1>1, <1>2, <1>4, <1>6, <1>9, QuietTwo
<1>10. CASE Goto(<<b>>)
  BY <1>1, <1>2, <1>4, <1>6, <1>10, QuietOne
<1> QED BY <1>7, <1>8, <1>9, <1>10

LEMMA CloneQuiet ==
  ASSUME TypeInv, TypeInv', OwnerInv, QuietInv, CloneKey PROVE QuietInv'
<1>1. Shape /\ stack # <<>> /\ top.pc = "clone"
  BY DEF OwnerInv, CloneKey, At, top
<1>2. top.pc \in ScriptPcs /\ top.pc # "run"
  BY <1>1 DEF ScriptPcs
<1>3. PICK s, r, q, w, i, k, ok, t, new :
        \/ Goto(<<>>) \/ Goto(<<CloneOf(s, r, q, w, i, k, ok)>>)
        \/ Goto(<<Frame("schedule", t, new), CloneOf(s, r, q, w, i, k, ok)>>)
  <2> DEFINE okay == IF top.i = 0 THEN rv ELSE top.ok
             skip == Append(top.q, top.s)
             j == LastProbe(top.k, top.w, Server \ ToSet(skip))
             s == HashNext[top.k][j]
  <2>1. \/ Goto(<<>>) \/ Goto(<<CloneOf(s, top.r, skip, j + 1, top.i + 1, top.k, okay)>>)
        \/ Goto(<<Frame("schedule", s, NewRequest),
                  CloneOf(s, top.r, skip, j + 1, top.i + 1, top.k, okay)>>)
    BY DEF CloneKey, Return
  <2> HIDE DEF okay, skip, j, s
  <2> QED BY <2>1
<1>4. PICK a, b : a = Frame("schedule", t, new) /\ b = CloneOf(s, r, q, w, i, k, ok)
  OBVIOUS
<1>5. a.pc = "schedule" /\ b.pc = "clone"
  BY <1>4, CallPcs
<1>6. Goto(<<>>) \/ Goto(<<b>>) \/ Goto(<<a, b>>)
  BY <1>3, <1>4
<1> QED BY <1>1, <1>2, <1>5, <1>6, PlainFrame, QuietReturn, QuietOne, QuietTwo

LEMMA FlushQuiet ==
  ASSUME TypeInv, TypeInv', OwnerInv, QuietInv, Flush \/ Flushed PROVE QuietInv'
<1>1. Shape /\ stack # <<>> /\ top.pc \in {"flush", "flushed"}
  BY DEF OwnerInv, Flush, Flushed, At, top
<1>2. top.pc \in ScriptPcs /\ top.pc # "run"
  BY <1>1 DEF ScriptPcs
<1>3. CASE Flush
  <2>1. PICK t, r, n : t = Head(top.q) /\ r = NewRequest /\ n = Tail(top.q)
    OBVIOUS
  <2>2. PICK a, b, c : /\ a = Frame("schedule", t, r) /\ b = Each("flushed", Null, n)
                       /\ c = Frame("run", NoServer, Null)
    OBVIOUS
  <2>3. Goto(<<c>>) \/ Goto(<<a, b>>)
    BY <1>3, <2>1, <2>2 DEF Flush
  <2>4. /\ a.pc = "schedule" /\ b.pc = "flushed" /\ c.pc = "run"
        /\ b.pc \in BottomPcs /\ c.pc \in BottomPcs
    BY <2>2, CallPcs DEF BottomPcs, ScriptPcs
  <2> QED BY <1>1, <1>2, <2>3, <2>4, PlainFrame, QuietOne, QuietTwo
<1>4. CASE Flushed
  <2>1. PICK q : q = top.q
    OBVIOUS
  <2>2. PICK a, b : a = Frame("select", NoServer, Null) /\ b = Each("flush", Null, q)
    OBVIOUS
  <2>3. Goto(<<b>>) \/ Goto(<<a, b>>)
    BY <1>4, <2>1, <2>2, FramesJoined DEF Flushed
  <2>4. a.pc = "select" /\ b.pc = "flush" /\ b.pc \in BottomPcs
    BY <2>2, CallPcs DEF BottomPcs, ScriptPcs
  <2> QED BY <1>1, <1>2, <2>3, <2>4, PlainFrame, QuietOne, QuietTwo
<1> QED BY <1>3, <1>4

LEMMA AskQuiet ==
  ASSUME TypeInv, TypeInv', OwnerInv, QuietInv, Ask PROVE QuietInv'
<1>1. Shape /\ stack # <<>> /\ top.pc = "ask" /\ UNCHANGED Slots
  BY DEF OwnerInv, Ask, At, top, slots, Slots
<1>2. top.pc \in ScriptPcs /\ top.pc # "run"
  BY <1>1 DEF ScriptPcs
<1>3. AllIdle'
  BY <1>1, TopQuiet, IdleSame DEF Resting
<1>4. PICK t, r, n, w : t = Head(top.q) /\ r = NewRequest /\ n = Tail(top.q) /\ w = top.w
  OBVIOUS
<1>5. PICK a, b, c : /\ a = Frame("schedule", t, r)
                     /\ b = FrameOf("asked", NoServer, Null, n, w, 0)
                     /\ c = Frame("run", NoServer, Null)
  OBVIOUS
<1>6. Goto(<<c>>) \/ Goto(<<>>) \/ Goto(<<a, b>>)
  BY <1>4, <1>5 DEF Ask
<1>7. /\ a.pc = "schedule" /\ b.pc = "asked" /\ c.pc = "run"
      /\ b.pc \in BottomPcs /\ c.pc \in BottomPcs
  BY <1>5, CallPcs DEF BottomPcs, ScriptPcs
<1>8. Brief(b) /\ ~Resting(b)
  BY <1>7 DEF Brief, Resting
<1>9. Brief(c) /\ ~Resting(c) /\ ~Awaits(c)
  BY <1>7, PlainFrame
<1>10. CASE Goto(<<c>>)
  BY <1>1, <1>2, <1>7, <1>9, <1>10, QuietOne
<1>11. CASE Goto(<<>>)
  BY <1>1, <1>2, <1>3, <1>11, QuietReturn
<1>12. CASE Goto(<<a, b>>)
  BY <1>1, <1>2, <1>3, <1>7, <1>8, <1>12, QuietTwo
<1> QED BY <1>6, <1>10, <1>11, <1>12

LEMMA AskedQuiet ==
  ASSUME TypeInv, TypeInv', OwnerInv, QuietInv, Asked PROVE QuietInv'
<1>1. Shape /\ stack # <<>> /\ top.pc = "asked" /\ UNCHANGED Slots
  BY DEF OwnerInv, Asked, At, top, slots, Slots
<1>2. top.pc \in ScriptPcs /\ top.pc # "run"
  BY <1>1 DEF ScriptPcs
<1>3. rv \/ AllIdle'
  BY <1>1, TopQuiet, IdleSame DEF Awaits
<1>4. PICK c, q, w : /\ c = Frame("run", NoServer, Null) /\ w = top.w
                     /\ Goto((IF rv THEN <<c>> ELSE <<>>)
                             \o <<FrameOf("ask", NoServer, Null, q, w, 0)>>)
  BY DEF Asked
<1>5. PICK b : b = FrameOf("ask", NoServer, Null, q, w, 0)
  OBVIOUS
<1>6. IF rv THEN Goto(<<c, b>>) ELSE Goto(<<b>>)
  BY <1>4, <1>5, FramesJoined
<1>7. c.pc = "run" /\ b.pc = "ask" /\ b.pc \in BottomPcs
  BY <1>4, <1>5, CallPcs DEF BottomPcs, ScriptPcs
<1>8. Brief(b) /\ ~Awaits(b)
  BY <1>7 DEF Brief, Awaits
<1>9. CASE rv
  <2>1. Goto(<<c, b>>)
    BY <1>6, <1>9
  <2> QED BY <1>1, <1>2, <1>7, <1>8, <2>1, QuietTwo
<1>10. CASE ~rv
  <2>1. Goto(<<b>>) /\ AllIdle'
    BY <1>3, <1>6, <1>10
  <2> QED BY <1>1, <1>2, <1>7, <1>8, <2>1, QuietOne
<1> QED BY <1>9, <1>10

(* The script calls the extension: one key, and not on redundant servers, *)
(* where a call waits for its request.                                     *)
LEMMA CallQuiet ==
  ASSUME TypeInv, TypeInv', OwnerInv, QuietInv, ~SkipsRun, NEW c \in Calls, Call(c)
  PROVE  QuietInv'
<1>1. Covered /\ Shape
  BY DEF OwnerInv
<1>2. stack = <<>>
  BY <1>1, CallFrame
<1>3. UNCHANGED Slots /\ AllIdle /\ AllIdle'
  <2>1. UNCHANGED Slots
    BY DEF Call, slots, Slots
  <2>2. AllIdle
    BY <1>2 DEF QuietInv
  <2> QED BY <2>1, <2>2, IdleSame
<1>4. /\ c.op \in {"set", "setMulti", "get", "flush", "version", "stats"}
      /\ c.op \in {"set", "get"} => Len(c.keys) = 1
      /\ Redundancy \in Nat
  <2>1. config \in Configs
    BY DEF TypeInv, RestOK
  <2>2. c.op # "getMulti"
    BY <1>1 DEF Covered, Single
  <2>3. c.op \in {"set", "get"} => Len(c.keys) = 1
    BY <2>1, ConfigAssumption DEF Calls
  <2> QED BY <2>1, <2>2, <2>3, ConfigType
<1>5. c.op = "set" => Redundancy <= 1
  BY <1>4 DEF SkipsRun
<1>6. \E x : /\ stack' = <<x>> \o stack /\ x.pc \in BottomPcs /\ Brief(x) /\ ~Awaits(x)
  <2>1. CASE c.op = "set"
    <3>1. PICK x : x = FrameOf("store", NoServer, Null, c.keys, 0, Redundancy)
      OBVIOUS
    <3>2. stack' = <<x>> \o stack
      BY <2>1, <3>1 DEF Call
    <3>3. x.pc = "store" /\ x.q = c.keys /\ x.i = Redundancy
      BY <3>1 DEF FrameOf, Each
    <3>4. x.i <= 1 /\ Len(x.q) <= 1
      <4>1. Len(c.keys) = 1
        BY <1>4, <2>1
      <4>2. Len(x.q) = 1
        BY <3>3, <4>1
      <4>3. x.i <= 1
        BY <1>5, <2>1, <3>3
      <4> QED BY <4>2, <4>3
    <3>5. x.pc \in BottomPcs /\ x.pc # "stored" /\ x.pc # "asked"
      BY <3>3 DEF BottomPcs, ScriptPcs
    <3>6. Brief(x) /\ ~Awaits(x)
      BY <3>4, <3>5 DEF Brief, Awaits
    <3> QED BY <3>2, <3>5, <3>6
  <2>2. CASE c.op = "get"
    <3>1. PICK x : x = FrameOf("store", NoServer, Null, c.keys, 0, 1)
      OBVIOUS
    <3>2. stack' = <<x>> \o stack
      BY <2>2, <3>1 DEF Call
    <3>3. x.pc = "store" /\ x.q = c.keys /\ x.i = 1
      BY <3>1 DEF FrameOf, Each
    <3>4. x.i <= 1 /\ Len(x.q) <= 1
      <4>1. Len(c.keys) = 1
        BY <1>4, <2>2
      <4>2. Len(x.q) = 1
        BY <3>3, <4>1
      <4>3. x.i <= 1
        BY <2>2, <3>3
      <4> QED BY <4>2, <4>3
    <3>5. x.pc \in BottomPcs /\ x.pc # "stored" /\ x.pc # "asked"
      BY <3>3 DEF BottomPcs, ScriptPcs
    <3>6. Brief(x) /\ ~Awaits(x)
      BY <3>4, <3>5 DEF Brief, Awaits
    <3> QED BY <3>2, <3>5, <3>6
  <2>3. CASE c.op = "setMulti"
    <3>1. PICK x : x = FrameOf("store", NoServer, Null, c.keys, 1, Redundancy)
      OBVIOUS
    <3>2. stack' = <<x>> \o stack
      BY <2>3, <3>1 DEF Call
    <3>3. x.pc = "store" /\ x.w = 1
      BY <3>1 DEF FrameOf, Each
    <3>4. x.pc \in BottomPcs /\ x.pc # "stored" /\ x.pc # "asked" /\ ~Resting(x)
      BY <3>3 DEF BottomPcs, ScriptPcs, Resting
    <3>5. Brief(x) /\ ~Awaits(x)
      BY <3>4 DEF Brief, Awaits
    <3> QED BY <3>2, <3>4, <3>5
  <2>4. CASE c.op = "flush"
    <3>1. PICK x : x = Each("flush", Null, Servers)
      OBVIOUS
    <3>2. stack' = <<x>> \o stack
      BY <2>4, <3>1 DEF Call
    <3>3. x.pc = "flush"
      BY <3>1 DEF FrameOf, Each
    <3> QED BY <3>2, <3>3, PlainFrame DEF BottomPcs, ScriptPcs
  <2>5. CASE c.op \in {"version", "stats"}
    <3>1. PICK w : stack' = <<FrameOf("ask", NoServer, Null, Servers, w, 0)>> \o stack
      BY <2>5 DEF Call
    <3>2. PICK x : x = FrameOf("ask", NoServer, Null, Servers, w, 0)
      OBVIOUS
    <3>3. x.pc = "ask"
      BY <3>2, CallPcs
    <3> QED BY <3>1, <3>2, <3>3 DEF Brief, Awaits, Resting, BottomPcs, ScriptPcs
  <2> QED BY <1>4, <2>1, <2>2, <2>3, <2>4, <2>5
<1>7. PICK x : stack' = <<x>> \o stack /\ x.pc \in BottomPcs /\ Brief(x) /\ ~Awaits(x)
  BY <1>6
<1>8. stack' = <<x>>
  <2>1. <<x>> \o <<>> = <<x>>
    <3>1. <<x>> \in Seq({x})
      OBVIOUS
    <3> QED BY <3>1, ConcatEmptySeq
  <2> QED BY <1>2, <1>7, <2>1
<1>9. Len(stack') = 1 /\ stack'[1] = x /\ Positions' = {1}
  BY <1>8 DEF Positions
<1>10. QuietAt(1)'
  BY <1>7, <1>9 DEF QuietAt, Awaits, Brief, Resting
<1> QED BY <1>3, <1>9, <1>10 DEF QuietInv

LEMMA NetworkQuiet ==
  ASSUME QuietInv, (\E s \in Server : PeerClose(s) \/ PeerEarly(s) \/ Tick(s)) \/ UNCHANGED vars
  PROVE  QuietInv'
<1>1. UNCHANGED <<Slots, stack, rv>>
  BY DEF PeerClose, PeerEarly, Tick, vars, slots, Slots
<1>2. AllIdle' = AllIdle
  BY <1>1, IdleSame
<1>3. Positions' = Positions /\ (stack # <<>> => top' = top)
  BY <1>1 DEF Positions, top
<1>4. ASSUME NEW i \in Positions, QuietAt(i) PROVE QuietAt(i)'
  BY <1>1, <1>2, <1>4 DEF QuietAt, Placing, Awaits, Brief, Resting
<1> QED BY <1>1, <1>2, <1>3, <1>4 DEF QuietInv, Resting

LEMMA QuietInit == Init => QuietInv
<1> SUFFICES ASSUME Init PROVE QuietInv
  OBVIOUS
<1>1. AllIdle
  BY DEF Init, AllIdle, IdleAt, ToSend, ToRead, Slotted
<1>2. Positions = {}
  BY DEF Init, Positions
<1> QED BY <1>1, <1>2 DEF QuietInv

LEMMA QuietNext ==
  TypeInv /\ OwnerInv /\ RoundsInv /\ ~SkipsRun /\ QuietInv /\ [Next]_vars => QuietInv'
<1> SUFFICES ASSUME TypeInv, OwnerInv, RoundsInv, ~SkipsRun, QuietInv, [Next]_vars PROVE QuietInv'
  OBVIOUS
<1>1. TypeInv' /\ OwnerInv'
  BY NextTypes, OwnerNext
<1>2. CASE Process
  <2>1. CASE ScheduleInvalid \/ Schedule \/ ScheduleRefused \/ Unslot
             \/ Deactivate \/ Drain \/ GiveUp \/ FailOver \/ FindNext
    BY <1>1, <2>1, PlacersQuiet
  <2>2. CASE \/ SlotSend \/ Unqueue \/ EarlyDone \/ Unread \/ SendEnd \/ ParseEnd
             \/ Ready \/ Expire \/ SelectError \/ LateSend \/ LateRead \/ Late
             \/ SendLoop \/ ReadLoop
             \/ SendDone \/ SendMore \/ SendError \/ ParseDone \/ ParseEarly \/ ParseError
             \/ ParseMore \/ ParseEof
    BY <1>1, <2>2, HandlersQuiet
  <2>3. CASE Retry \/ RetryRead
    <3>1. stack # <<>> /\ top.pc \in {"retry", "retryRead"}
      BY <2>3 DEF Retry, RetryRead, At, top
    <3> QED BY <3>1, NeverRetries DEF OwnerInv, RoundsInv
  <2>4. CASE RunRounds \/ Store \/ Stored \/ CloneKey \/ Flush \/ Flushed \/ Ask \/ Asked
    BY <1>1, <2>4, RunRoundsQuiet, StoreQuiet, StoredQuiet, CloneQuiet, FlushQuiet, AskQuiet,
       AskedQuiet, Zenon
  <2>5. CASE \/ HelpRound \/ LeaveCallback \/ Get \/ GetFull \/ Rebuild \/ GetEnd \/ Built
             \/ RunPending \/ ParseValue \/ SlotSendRefused
    BY <2>5, NeverTaken, Zenon
  <2> QED BY <1>2, <2>1, <2>2, <2>3, <2>4, <2>5, Zenon DEF Process
<1>3. CASE \E c \in Calls : Call(c)
  BY <1>1, <1>3, CallQuiet
<1>4. CASE (\E s \in Server : PeerClose(s) \/ PeerEarly(s) \/ Tick(s)) \/ UNCHANGED vars
  BY <1>4, NetworkQuiet
<1> QED BY <1>2, <1>3, <1>4, Zenon DEF Next, Step

LEMMA SkipsNext == [Next]_vars => (SkipsRun' <=> SkipsRun)
<1> SUFFICES ASSUME [Next]_vars PROVE SkipsRun' <=> SkipsRun
  OBVIOUS
<1>1. UNCHANGED config
  <2>1. CASE Next
    BY <2>1, Zenon DEF Next, Step
  <2>2. CASE UNCHANGED vars
    BY <2>2 DEF vars
  <2> QED BY <2>1, <2>2
<1> QED BY <1>1 DEF SkipsRun, Redundancy, Calls

LEMMA QuietAlways == Spec => [](Covered /\ ~Persistent /\ ~SkipsRun => QuietInv)
<1>1. TypeInv /\ (Covered => OwnerInv) /\ (Covered /\ ~Persistent => RoundsInv)
        /\ (Covered /\ ~Persistent /\ ~SkipsRun => QuietInv) /\ [Next]_vars
        => (Covered' /\ ~Persistent' /\ ~SkipsRun' => QuietInv')
  BY QuietNext, CoveredNext, NewServersNext, SkipsNext
<1>2. Init => (Covered /\ ~Persistent /\ ~SkipsRun => QuietInv)
  BY QuietInit
<1> QED BY <1>1, <1>2, RoundsAlways, PTL DEF Spec

LEMMA QuietCompletes ==
  ASSUME TypeInv, OwnerInv, QuietInv
  PROVE  RunCompletes
<1> SUFFICES ASSUME stack = <<>>, NEW s \in Server
             PROVE  ToSend(s) = <<>> /\ ToRead(s) = <<>> /\ buildreq[s] = Null
  BY DEF RunCompletes
<1>1. IdleAt(s)
  BY DEF QuietInv, AllIdle
<1>2. PICK own : Owned(own)
  BY OwnerParts
<1>3. buildreq[s] = Null
  BY <1>2 DEF Owned, ServersInv, ServerInv
<1> QED BY <1>1, <1>3 DEF IdleAt, ToSend, ToRead, Slotted

(* mmc_pool_run "runs all scheduled requests to completion"                *)
(* (memcache_pool.c:2036-2037): when a call returns to the script, nothing *)
(* waits on any server to be sent or answered, on servers that are new to  *)
(* the script and unless a store skips the run that its clones need.       *)
THEOREM NothingIsLeft == Spec => [](Covered => RunCompletesUnretried)
<1>1. Persistent \/ SkipsRun => RunCompletesUnretried
  BY DEF RunCompletesUnretried
<1>2. TypeInv /\ OwnerInv /\ QuietInv => RunCompletesUnretried
  BY QuietCompletes DEF RunCompletesUnretried
<1> QED BY <1>1, <1>2, OwnerAlways, QuietAlways, PTL
============================================================================
