------------------------- MODULE MmcPoolRefinement -------------------------
(***************************************************************************)
(* The scheduler implements MmcRequests: what it does with a request is at *)
(* each step one move of that request between the free list, the code that *)
(* holds it and a server, or all that a server has is withdrawn from it.   *)
(*                                                                         *)
(* Where a request is follows from the queues and the free list, because   *)
(* they are apart (MmcPoolOwnership).  The steps that change neither are   *)
(* stutters; the others give a request out (Alloc), place it (Schedule),   *)
(* withdraw what a server has (Deactivate, Retry, RetryRead) or free it    *)
(* (GiveUp, ParseDone, EarlyDone).                                         *)
(*                                                                         *)
(* MmcRequests says of a request that is neither only that the code holds  *)
(* it.  The second part shows that some handler on the stack does          *)
(* (KeptInv), so that none is lost when a call returns (AllReturned).      *)
(*                                                                         *)
(* Requests are answered in the order in which they are placed.  The third *)
(* part relates the wire of a server to them (WiresInv): the replies on it *)
(* answer the first of these requests, and the rest are those that were    *)
(* not sent, so that each is parsed as the reply to its own request        *)
(* (ReplyMatchesUnretried).                                                *)
(***************************************************************************)
EXTENDS MmcPoolRounds

Apart ==
  /\ \A s, t \in Server : s # t => ToSet(ToRead(s)) \cap ToSet(ToRead(t)) = {}
  /\ \A s \in Server : ToSet(ToRead(s)) \cap ToSet(free_requests) = {}

LEMMA OwnedApart == TypeInv /\ OwnerInv => Apart
BY OwnedOneServer, OwnedNotFree DEF Apart

(* Where is defined with a CHOOSE, which has one candidate at most. *)
WhereKnown == \A r \in Created :
  /\ r \in ToSet(free_requests) => Where(r) = "free"
  /\ \A s \in Server : r \in ToSet(ToRead(s)) => Where(r) = s
  /\ r \notin ToSet(free_requests) /\ (\A s \in Server : r \notin ToSet(ToRead(s)))
       => Where(r) = "held"

LEMMA WhereIs == Apart => WhereKnown
<1> SUFFICES ASSUME Apart, NEW r \in Created
             PROVE  /\ r \in ToSet(free_requests) => Where(r) = "free"
                    /\ \A s \in Server : r \in ToSet(ToRead(s)) => Where(r) = s
                    /\ r \notin ToSet(free_requests) /\ (\A s \in Server : r \notin ToSet(ToRead(s)))
                         => Where(r) = "held"
  BY DEF WhereKnown
<1>1. ASSUME NEW s \in Server, r \in ToSet(ToRead(s)) PROVE Where(r) = s
  <2>1. r \notin ToSet(free_requests) /\ \A t \in Server : r \in ToSet(ToRead(t)) => t = s
    BY <1>1 DEF Apart
  <2> DEFINE w == CHOOSE t \in Server : r \in ToSet(ToRead(t))
  <2>2. w \in Server /\ r \in ToSet(ToRead(w))
    BY <1>1
  <2>3. Where(r) = w
    BY <1>1, <2>1 DEF Where
  <2> QED BY <2>1, <2>2, <2>3
<1> QED BY <1>1 DEF Where

(* What a step needs to know of the states before and after it. *)
Sorted == Handled /\ Apart /\ WhereKnown

LEMMA MoveStep ==
  ASSUME Handled, Handled', Created' = Created, NEW R \in SUBSET Created, NEW from, NEW to,
         \A r \in R : Where(r) = from /\ Where(r)' = to,
         \A r \in Created \ R : Where(r)' = Where(r)
  PROVE  Requests!Move(R, from, to)
BY DEF Requests!Move

(* The requests in R move; all others are where they were. *)
LEMMA Unmoved ==
  ASSUME Sorted, Sorted', Created' = Created, NEW r \in Created,
         r \in ToSet(free_requests)' <=> r \in ToSet(free_requests),
         \A s \in Server : r \in ToSet(ToRead(s))' <=> r \in ToSet(ToRead(s))
  PROVE  Where(r)' = Where(r)
<1>1. /\ r \in ToSet(free_requests) => Where(r) = "free"
      /\ \A s \in Server : r \in ToSet(ToRead(s)) => Where(r) = s
      /\ r \notin ToSet(free_requests) /\ (\A s \in Server : r \notin ToSet(ToRead(s)))
           => Where(r) = "held"
  BY DEF Sorted, WhereKnown
<1>2. /\ r \in ToSet(free_requests)' => Where(r)' = "free"
      /\ \A s \in Server : r \in ToSet(ToRead(s))' => Where(r)' = s
      /\ r \notin ToSet(free_requests)' /\ (\A s \in Server : r \notin ToSet(ToRead(s))')
           => Where(r)' = "held"
  BY DEF Sorted, WhereKnown
<1> QED BY <1>1, <1>2

Stays == UNCHANGED (IF Handled THEN [r \in Created |-> Where(r)] ELSE <<>>)

LEMMA HandledKept == ASSUME UNCHANGED config PROVE Handled' = Handled
BY DEF Handled, LosesBuild, FailsTwice, Interrupts, Calls, MaxFaults, Faults, Dead,
       AllowFailover, Persistent, Reentrant, RetryInterval, MaxGetKeys

LEMMA NothingMoves ==
  ASSUME UNCHANGED <<config, readreq, readqueue, free_requests>>, Created' = Created
  PROVE  Stays
<1>1. \A r : Where(r)' = Where(r)
  BY DEF Where, ToRead
<1> QED BY <1>1, HandledKept DEF Stays

----------------------------------------------------------------------------
(* The moves. *)

(* A step takes requests from server s. *)
LEMMA WithdrawStep ==
  ASSUME TypeInv, TypeInv', Sorted, Sorted', Created' = Created, UNCHANGED free_requests,
         NEW s \in Server, ToSet(ToRead(s))' \subseteq ToSet(ToRead(s)),
         \A t \in Server \ {s} : ToSet(ToRead(t))' = ToSet(ToRead(t))
  PROVE  Requests!RNext
<1>1. PICK R : R = ToSet(ToRead(s)) \ ToSet(ToRead(s))'
  OBVIOUS
<1>2. R \subseteq Created
  BY <1>1, SlotTypesOf, ToSetElements
<1>3. ASSUME NEW r \in R PROVE Where(r) = s /\ Where(r)' = "held"
  <2>1. r \in Created /\ r \in ToSet(ToRead(s)) /\ r \notin ToSet(ToRead(s))'
    BY <1>1, <1>2
  <2>2. r \notin ToSet(free_requests) /\ \A t \in Server \ {s} : r \notin ToSet(ToRead(t))
    BY <2>1 DEF Sorted, Apart
  <2>3. r \notin ToSet(free_requests)' /\ \A t \in Server : r \notin ToSet(ToRead(t))'
    BY <2>1, <2>2
  <2>4. Where(r)' = "held"
    BY <2>1, <2>3 DEF Sorted, WhereKnown
  <2> QED BY <2>1, <2>4 DEF Sorted, WhereKnown
<1>4. ASSUME NEW r \in Created \ R PROVE Where(r)' = Where(r)
  <2>1. \A t \in Server : r \in ToSet(ToRead(t))' <=> r \in ToSet(ToRead(t))
    BY <1>1, <1>4
  <2> QED BY <2>1, Unmoved
<1>5. Requests!Move(R, s, "held")
  BY <1>2, <1>3, <1>4, MoveStep DEF Sorted
<1>6. R \in SUBSET DOMAIN (IF Handled THEN [r \in Created |-> Where(r)] ELSE <<>>)
  BY <1>2 DEF Sorted
<1> QED BY <1>5, <1>6 DEF Requests!RNext, Requests!Withdraw

(* It gives the request r that it holds to server s. *)
LEMMA PlaceStep ==
  ASSUME TypeInv, TypeInv', Sorted, Sorted', Created' = Created, UNCHANGED free_requests,
         NEW s \in Server, NEW r \in Created, r \notin ToSet(free_requests),
         \A t \in Server : r \notin ToSet(ToRead(t)),
         ToSet(ToRead(s))' = ToSet(ToRead(s)) \cup {r},
         \A t \in Server \ {s} : ToSet(ToRead(t))' = ToSet(ToRead(t))
  PROVE  Requests!RNext
<1>1. Where(r) = "held" /\ Where(r)' = s
  BY DEF Sorted, WhereKnown
<1>2. ASSUME NEW q \in Created \ {r} PROVE Where(q)' = Where(q)
  <2>1. \A t \in Server : q \in ToSet(ToRead(t))' <=> q \in ToSet(ToRead(t))
    BY <1>2
  <2> QED BY <2>1, Unmoved
<1>3. Requests!Move({r}, "held", s)
  BY <1>1, <1>2, MoveStep DEF Sorted
<1>4. r \in DOMAIN (IF Handled THEN [q \in Created |-> Where(q)] ELSE <<>>)
  BY DEF Sorted
<1> QED BY <1>3, <1>4 DEF Requests!RNext, Requests!Place

(* It frees the request r that it holds, or that server s has answered. *)
LEMMA FreeStep ==
  ASSUME TypeInv, TypeInv', Sorted, Sorted', Created' = Created,
         NEW r \in Created, ToSet(free_requests)' = ToSet(free_requests) \cup {r},
         \A t \in Server, q \in Created \ {r} : q \in ToSet(ToRead(t))' <=> q \in ToSet(ToRead(t)),
         \/ \E s \in Server : r \in ToSet(ToRead(s))
         \/ r \notin ToSet(free_requests) /\ \A s \in Server : r \notin ToSet(ToRead(s))
  PROVE  Requests!RNext
<1>1. Where(r)' = "free"
  BY DEF Sorted, WhereKnown
<1>2. ASSUME NEW q \in Created \ {r} PROVE Where(q)' = Where(q)
  <2>1. \A t \in Server : q \in ToSet(ToRead(t))' <=> q \in ToSet(ToRead(t))
    BY <1>2
  <2> QED BY <1>2, <2>1, Unmoved
<1>3. r \in DOMAIN (IF Handled THEN [q \in Created |-> Where(q)] ELSE <<>>)
  BY DEF Sorted
<1>4. CASE \E s \in Server : r \in ToSet(ToRead(s))
  <2>1. PICK s \in Server : r \in ToSet(ToRead(s))
    BY <1>4
  <2>2. Where(r) = s
    BY <2>1 DEF Sorted, WhereKnown
  <2>3. Requests!Move({r}, s, "free")
    BY <1>1, <1>2, <2>2, MoveStep DEF Sorted
  <2> QED BY <1>3, <2>3 DEF Requests!RNext, Requests!Answered
<1>5. CASE r \notin ToSet(free_requests) /\ \A s \in Server : r \notin ToSet(ToRead(s))
  <2>1. Where(r) = "held"
    BY <1>5 DEF Sorted, WhereKnown
  <2>2. Requests!Move({r}, "held", "free")
    BY <1>1, <1>2, <2>1, MoveStep DEF Sorted
  <2> QED BY <1>3, <2>2 DEF Requests!RNext, Requests!Drop
<1> QED BY <1>4, <1>5

(* It takes a request from the free list, or creates one. *)
LEMMA TakeStep ==
  ASSUME TypeInv, TypeInv', Sorted, Sorted', UNCHANGED <<readreq, readqueue>>, OwnerInv,
         NEW new, new = NewRequest, NEW kind, NEW keys, NEW failed, NEW index,
         Alloc(new, kind, keys, failed, index)
  PROVE  Requests!RNext
<1>1. /\ Created' = Created \cup {new}
      /\ free_requests' = Rest(free_requests)
  BY Allocated DEF Alloc
<1>2. new \notin ToSet(free_requests)'
  <2>1. PICK own : Owned(own)
    BY OwnerParts
  <2> QED BY <1>1, <2>1, NewIsFree DEF Owned
<1>3. \A s \in Server : ToSet(ToRead(s))' = ToSet(ToRead(s)) /\ ToSet(ToRead(s)) \subseteq Created
  BY SlotTypesOf, ToSetElements DEF ToRead
<1>4. new \in 1 .. Len(request) + 1 /\ Len(request) \in Nat
  BY NewRequestType DEF TypeInv, ReqsOK
<1>5. free_requests # <<>> => ToSet(free_requests) = ToSet(free_requests)' \cup {Head(free_requests)}
  <2>1. free_requests \in Seq(Created \cup {Null})
    BY DEF TypeInv, ReqsOK
  <2> QED BY <1>1, <2>1, RestDrops
<1>6. CASE new \in Created
  <2>1. Created' = Created
    BY <1>1, <1>6
  <2>2. new \in ToSet(free_requests) /\ ToSet(free_requests) = ToSet(free_requests)' \cup {new}
    <3>1. Popped(free_requests, Null) # Null /\ new = Head(free_requests)
      BY <1>4, <1>6 DEF NewRequest, Created
    <3>2. free_requests # <<>>
      BY <3>1 DEF Popped
    <3> QED BY <1>5, <3>1, <3>2
  <2>3. \A s \in Server : new \notin ToSet(ToRead(s))'
    BY <1>3, <2>2 DEF Sorted, Apart
  <2>4. Where(new) = "free" /\ Where(new)' = "held"
    BY <1>2, <1>6, <2>1, <2>2, <2>3 DEF Sorted, WhereKnown
  <2>5. ASSUME NEW q \in Created \ {new} PROVE Where(q)' = Where(q)
    BY <1>3, <2>1, <2>2, <2>5, Unmoved
  <2>6. Requests!Move({new}, "free", "held")
    BY <1>6, <2>1, <2>4, <2>5, MoveStep DEF Sorted
  <2>7. new \in DOMAIN (IF Handled THEN [q \in Created |-> Where(q)] ELSE <<>>)
    BY <1>6 DEF Sorted
  <2> QED BY <2>6, <2>7 DEF Requests!RNext, Requests!Take
<1>7. CASE new \notin Created
  <2>1. new = Len(request) + 1
    BY <1>4, <1>7 DEF Created
  <2>2. Len(request') = Len(request) + 1
    <3>1. Len(request') \in Nat
      BY LenProperties DEF TypeInv, ReqsOK
    <3> QED BY <1>1, <1>4, <2>1, <3>1 DEF Created
  <2>3. Popped(free_requests, Null) = Null
    <3>1. SUFFICES ASSUME Popped(free_requests, Null) # Null PROVE FALSE
      OBVIOUS
    <3>2. new = Head(free_requests) /\ free_requests # <<>>
      BY <3>1 DEF NewRequest, Popped
    <3>3. new \in Created \cup {Null}
      BY <3>2 DEF TypeInv, ReqsOK
    <3> QED BY <1>4, <1>7, <3>3 DEF Null
  <2>4. \A q \in Created : q \in ToSet(free_requests)' <=> q \in ToSet(free_requests)
    <3>1. CASE free_requests = <<>>
      BY <1>1, <3>1 DEF Rest
    <3>2. CASE free_requests # <<>>
      <4>1. Head(free_requests) = Null
        BY <2>3, <3>2 DEF Popped
      <4> QED BY <1>5, <3>2, <4>1 DEF Created, Null
    <3> QED BY <3>1, <3>2
  <2>5. Where(new)' = "held"
    <3>1. \A s \in Server : new \notin ToSet(ToRead(s))'
      BY <1>3, <1>7
    <3> QED BY <1>1, <1>2, <3>1 DEF Sorted, WhereKnown
  <2>6. ASSUME NEW q \in Created PROVE Where(q)' = Where(q)
    <3>1. /\ q \in ToSet(free_requests) => Where(q) = "free"
          /\ \A s \in Server : q \in ToSet(ToRead(s)) => Where(q) = s
          /\ q \notin ToSet(free_requests) /\ (\A s \in Server : q \notin ToSet(ToRead(s)))
               => Where(q) = "held"
      BY DEF Sorted, WhereKnown
    <3>2. /\ q \in ToSet(free_requests)' => Where(q)' = "free"
          /\ \A s \in Server : q \in ToSet(ToRead(s))' => Where(q)' = s
          /\ q \notin ToSet(free_requests)' /\ (\A s \in Server : q \notin ToSet(ToRead(s))')
               => Where(q)' = "held"
      BY <1>1 DEF Sorted, WhereKnown
    <3> QED BY <1>3, <2>4, <2>6, <3>1, <3>2
  <2>7. [q \in Created' |-> Where(q)'] = Append([q \in Created |-> Where(q)], "held")
    <3> DEFINE a == [q \in Created' |-> Where(q)']
               w == [q \in Created |-> Where(q)]
               n == Len(request)
    <3>1. Created = 1 .. n /\ Created' = 1 .. n + 1 /\ n \in Nat
      BY <1>4, <2>2 DEF Created
    <3>2. PICK T : \A q \in 1 .. n : w[q] \in T
      <4>1. \A q \in 1 .. n : w[q] \in {Where(p) : p \in Created}
        BY <3>1
      <4> QED BY <4>1
    <3>3. w \in Seq(T) /\ Len(w) = n
      BY <3>1, <3>2
    <3>4. Append(w, "held") = [q \in 1 .. n + 1 |-> IF q <= n THEN w[q] ELSE "held"]
      BY <3>1, <3>3
    <3>5. \A q \in 1 .. n + 1 : a[q] = IF q <= n THEN w[q] ELSE "held"
      <4> SUFFICES ASSUME NEW q \in 1 .. n + 1 PROVE a[q] = IF q <= n THEN w[q] ELSE "held"
        OBVIOUS
      <4>1. CASE q <= n
        BY <2>6, <3>1, <4>1
      <4>2. CASE q = n + 1
        BY <2>1, <2>5, <3>1, <4>2
      <4> QED BY <3>1, <4>1, <4>2
    <3>6. a = [q \in 1 .. n + 1 |-> a[q]]
      BY <3>1
    <3> HIDE DEF a, w
    <3>7. a = Append(w, "held")
      BY <3>4, <3>5, <3>6
    <3> QED BY <3>7 DEF a, w
  <2>8. Requests!Create
    BY <2>7 DEF Sorted, Requests!Create
  <2> QED BY <2>8 DEF Requests!RNext
<1> QED BY <1>6, <1>7

----------------------------------------------------------------------------
(* The steps. *)

(* The steps that can change the queues a server is read from, the free    *)
(* list or the number of requests, and all others.                         *)
LEMMA OthersStay ==
  ASSUME TypeInv, OwnerInv, UNCHANGED config, Process,
         ~(\/ Schedule \/ GiveUp \/ Deactivate \/ Retry \/ RetryRead \/ ParseDone \/ EarlyDone
           \/ CloneKey \/ ((Store \/ Flush \/ Ask) /\ top.q # <<>>))
  PROVE  Stays
<1>1. CASE UNCHANGED <<readreq, readqueue, reqs>>
  BY <1>1, SameRequests, NothingMoves DEF reqs
<1>2. CASE \/ ScheduleInvalid \/ ScheduleRefused \/ Unslot \/ Drain \/ FailOver \/ Unqueue
           \/ Ready \/ Expire \/ SelectError \/ LateSend \/ LateRead \/ Late
           \/ SendLoop \/ SendDone \/ SendMore \/ SendError \/ Unread \/ SendEnd
  BY <1>1, <1>2 DEF ScheduleInvalid, ScheduleRefused, Unslot, Drain, FailOver, Unqueue,
     Ready, Expire, SelectError, Switch, LateSend, LateRead, Late,
     SendLoop, SendDone, SendMore, SendError, Unread, SendEnd, slots
<1>3. CASE \/ ReadLoop \/ ParseEarly \/ ParseError \/ ParseMore \/ ParseEof \/ ParseEnd
           \/ RunRounds \/ Stored \/ Flushed \/ Asked
  BY <1>1, <1>3 DEF ReadLoop, ParseEarly, ParseError, ParseMore, ParseEof, ParseEnd,
     RunRounds, Stored, Flushed, Asked, slots
<1>4. CASE (Store \/ Flush \/ Ask) /\ top.q = <<>>
  BY <1>1, <1>4 DEF Store, Flush, Ask, slots
<1>5. CASE SlotSend \/ FindNext
  <2>1. UNCHANGED <<readreq, readqueue, free_requests>>
    BY <1>5 DEF SlotSend, FindNext, slots
  <2>2. Created' = Created
    <3>1. UNCHANGED request \/ \E r, x : request' = [request EXCEPT ![r] = x]
      BY <1>5 DEF SlotSend, FindNext, Slot
    <3>2. request \in Seq(Request)
      BY DEF TypeInv, ReqsOK
    <3>3. Len(request') = Len(request)
      BY <3>1, <3>2
    <3> QED BY <3>3 DEF Created
  <2> QED BY <2>1, <2>2, NothingMoves
<1>6. CASE \/ HelpRound \/ LeaveCallback \/ Get \/ GetFull \/ Rebuild \/ GetEnd \/ Built
           \/ RunPending \/ ParseValue \/ SlotSendRefused
  BY <1>6, NeverTaken, Zenon
<1> QED BY <1>2, <1>3, <1>4, <1>5, <1>6, Zenon DEF Process

(* The request that the frame on top holds is nowhere else. *)
LEMMA HeldOnTop ==
  ASSUME TypeInv, OwnerInv, NEW pc \in {"schedule", "failover"}, At(pc)
  PROVE  /\ top.r \in Created /\ top.r \notin ToSet(free_requests)
         /\ \A s \in Server : top.r \notin ToSet(ToRead(s))
<1>1. PICK own : Owned(own)
  BY OwnerParts
<1>2. stack # <<>> /\ FrameOK(top, Created) /\ top.pc = pc
  BY AtTop
<1>3. top = stack[1] /\ Len(stack) \in Nat \ {0}
  BY <1>2, FirstElement DEF TypeInv, StackOK, top
<1>4. top.r \in Created
  BY <1>2 DEF FrameOK, RequestPcs
<1>5. 1 \in Positions /\ \A i \in Positions : Len(stack) + 1 - i = Len(stack) + 1 - 1 => i = 1
  BY <1>3 DEF Positions
<1>6. own[top.r] = InFrame(Len(stack) + 1 - 1)
  <2>1. FrameInv(own, top, Len(stack) + 1 - 1)
    BY <1>1, <1>3, <1>5 DEF Owned, FramesInv
  <2> QED BY <1>2, <1>4, <2>1 DEF FrameInv, HeldBy
<1>7. ASSUME NEW s \in Server, top.r \in ToSet(ToRead(s)) PROVE FALSE
  <2>1. Belongs(own, top.r, s)
    BY <1>1, <1>7, ReadBelongs
  <2>2. PICK i \in Positions : Leaves(stack[i], s) /\ own[top.r] = InFrame(Len(stack) + 1 - i)
    BY <1>6, <2>1, Places DEF Belongs
  <2>3. i = 1
    BY <1>5, <1>6, <2>2, Places
  <2> QED BY <1>2, <1>3, <2>2, <2>3 DEF Leaves
<1> QED BY <1>1, <1>4, <1>6, <1>7, Places DEF Owned, FreeInv

(* mmc_pool_schedule gives the request to the server, and to no other. *)
LEMMA ScheduleMoves ==
  ASSUME TypeInv, Schedule, NEW s, s = top.s, NEW r, r = top.r
  PROVE  /\ s \in Server /\ r \in Created /\ UNCHANGED free_requests /\ Created' = Created
         /\ ToSet(ToRead(s))' = ToSet(ToRead(s)) \cup {r}
         /\ \A t \in Server \ {s} : ToSet(ToRead(t))' = ToSet(ToRead(t))
<1>1. s \in Server /\ r \in Created
  BY AtTop DEF Schedule, FrameOK, ServerPcs, RequestPcs
<1>2. UNCHANGED free_requests /\ Created' = Created
  <2>1. UNCHANGED request \/ \E x : request' = [request EXCEPT ![r] = x]
    BY DEF Schedule, Slot
  <2>2. request \in Seq(Request)
    BY DEF TypeInv, ReqsOK
  <2>3. Len(request') = Len(request)
    BY <2>1, <2>2
  <2> QED BY <2>3 DEF Created, Schedule
<1>3. AwaitReply(s, r)
  BY DEF Schedule
<1>4. /\ readqueue[s] \in Seq(Created) /\ readreq[s] \in Created \cup {Null} /\ r # Null
      /\ readreq \in [Server -> Created \cup {Null}] /\ readqueue \in [Server -> Seq(Created)]
  BY <1>1 DEF TypeInv, SlotsOK, Created, Null
<1>5. \A t \in Server \ {s} : ToSet(ToRead(t))' = ToSet(ToRead(t))
  BY <1>1, <1>3, <1>4 DEF AwaitReply, ToRead
<1>6. ToSet(ToRead(s))' = ToSet(ToRead(s)) \cup {r}
  <2>1. CASE readreq[s] = Null
    <3>1. ToRead(s) = readqueue[s] /\ ToRead(s)' = <<r>> \o readqueue[s]
      BY <1>1, <1>3, <1>4, <2>1 DEF AwaitReply, ToRead, Slotted
    <3>2. ToSet(<<r>> \o readqueue[s]) = {r} \cup ToSet(readqueue[s])
      BY <1>1, <1>4, ConsProperties
    <3> QED BY <3>1, <3>2
  <2>2. CASE readreq[s] # Null
    <3>1. PICK p, q, S : p = Push(q, r) /\ q = readqueue[s] /\ S = Created
      OBVIOUS
    <3>2. p \in Seq(Created) /\ ToSet(p) = ToSet(readqueue[s]) \cup {r}
      <4>1. q \in Seq(S) /\ r \in S
        BY <1>1, <1>4, <3>1
      <4>2. Push(q, r) \in Seq(S) /\ ToSet(Push(q, r)) = ToSet(q) \cup {r}
        BY <4>1, PushAdds
      <4> QED BY <3>1, <4>2
    <3>3. ToRead(s) = <<readreq[s]>> \o readqueue[s] /\ ToRead(s)' = <<readreq[s]>> \o p
      BY <1>1, <1>3, <1>4, <2>2, <3>1 DEF AwaitReply, ToRead, Slotted
    <3>4. /\ ToSet(<<readreq[s]>> \o readqueue[s]) = {readreq[s]} \cup ToSet(readqueue[s])
          /\ ToSet(<<readreq[s]>> \o p) = {readreq[s]} \cup ToSet(p)
      BY <1>4, <2>2, <3>2, ConsProperties
    <3> QED BY <3>2, <3>3, <3>4
  <2> QED BY <2>1, <2>2
<1> QED BY <1>1, <1>2, <1>5, <1>6

LEMMA ScheduleRefines ==
  ASSUME TypeInv, TypeInv', OwnerInv, Sorted, Sorted', Schedule
  PROVE  Requests!RNext
<1>1. PICK s, r : s = top.s /\ r = top.r
  OBVIOUS
<1>2. r \notin ToSet(free_requests) /\ \A t \in Server : r \notin ToSet(ToRead(t))
  BY <1>1, HeldOnTop DEF Schedule
<1>3. /\ s \in Server /\ r \in Created /\ UNCHANGED free_requests /\ Created' = Created
      /\ ToSet(ToRead(s))' = ToSet(ToRead(s)) \cup {r}
      /\ \A t \in Server \ {s} : ToSet(ToRead(t))' = ToSet(ToRead(t))
  BY <1>1, ScheduleMoves
<1> QED BY <1>2, <1>3, PlaceStep

LEMMA WithoutSubset ==
  ASSUME NEW S, NEW q \in Seq(S), NEW x
  PROVE  Without(q, x) \in Seq(S) /\ ToSet(Without(q, x)) \subseteq ToSet(q)
<1>1. CASE x \notin ToSet(q)
  BY <1>1, WithoutRemoves
<1>2. CASE x \in ToSet(q)
  <2>1. PICK w : w = Without(q, x)
    OBVIOUS
  <2>2. w \in Seq(S)
    BY <2>1, WithoutRemoves
  <2>3. PICK n \in 1 .. Len(q) : q[n] = x /\ \A m \in 1 .. n - 1 : q[m] # x
    BY <1>2, WithoutRemoves
  <2>4. /\ Len(w) = Len(q) - 1 /\ Len(q) \in Nat
        /\ \A m \in 1 .. Len(q) - 1 : w[m] = IF m < n THEN q[m] ELSE q[m + 1]
    <3>1. /\ Len(Without(q, x)) = Len(q) - 1 /\ Len(q) \in Nat
          /\ \A m \in 1 .. Len(q) - 1 :
               Without(q, x)[m] = IF m < n THEN q[m] ELSE q[m + 1]
      BY <2>3, WithoutAt
    <3> QED BY <2>1, <3>1
  <2>5. /\ ToSet(q) = {q[i] : i \in 1 .. Len(q)}
        /\ ToSet(w) = {w[i] : i \in 1 .. Len(w)}
    BY <2>2, ToSetElements
  <2>6. ASSUME NEW m \in 1 .. Len(w) PROVE w[m] \in ToSet(q)
    <3>1. m \in 1 .. Len(q) /\ m + 1 \in 1 .. Len(q) /\ m \in 1 .. Len(q) - 1
      BY <2>4
    <3> QED BY <2>4, <2>5, <3>1
  <2>7. ToSet(w) \subseteq ToSet(q)
    BY <2>5, <2>6
  <2> QED BY <2>1, <2>2, <2>7
<1> QED BY <1>1, <1>2

LEMMA WithoutKeeps ==
  ASSUME NEW S, NEW q \in Seq(S), NEW x
  PROVE  \A y \in ToSet(q) : y = x \/ y \in ToSet(Without(q, x))
<1>1. CASE x \notin ToSet(q)
  BY <1>1, WithoutRemoves
<1>2. CASE x \in ToSet(q)
  <2>1. PICK w : w = Without(q, x)
    OBVIOUS
  <2>2. w \in Seq(S)
    BY <2>1, WithoutRemoves
  <2>3. PICK n \in 1 .. Len(q) : q[n] = x /\ \A m \in 1 .. n - 1 : q[m] # x
    BY <1>2, WithoutRemoves
  <2>4. /\ Len(w) = Len(q) - 1 /\ Len(q) \in Nat
        /\ \A m \in 1 .. Len(q) - 1 : w[m] = IF m < n THEN q[m] ELSE q[m + 1]
    <3>1. /\ Len(Without(q, x)) = Len(q) - 1 /\ Len(q) \in Nat
          /\ \A m \in 1 .. Len(q) - 1 :
               Without(q, x)[m] = IF m < n THEN q[m] ELSE q[m + 1]
      BY <2>3, WithoutAt
    <3> QED BY <2>1, <3>1
  <2>5. /\ ToSet(q) = {q[i] : i \in 1 .. Len(q)}
        /\ ToSet(w) = {w[i] : i \in 1 .. Len(w)}
    BY <2>2, ToSetElements
  <2>6. ASSUME NEW i \in 1 .. Len(q), i # n PROVE \E m \in 1 .. Len(w) : w[m] = q[i]
    <3>1. CASE i < n
      <4>1. i \in 1 .. Len(w) /\ i \in 1 .. Len(q) - 1
        BY <2>4, <3>1
      <4> QED BY <2>4, <3>1, <4>1
    <3>2. CASE i > n
      <4>1. i - 1 \in 1 .. Len(w) /\ i - 1 \in 1 .. Len(q) - 1 /\ ~(i - 1 < n) /\ (i - 1) + 1 = i
        BY <2>4, <3>2
      <4>2. w[i - 1] = q[(i - 1) + 1]
        BY <2>4, <4>1
      <4> QED BY <4>1, <4>2
    <3> QED BY <2>6, <3>1, <3>2
  <2>7. \A i \in 1 .. Len(q) : q[i] = x \/ q[i] \in ToSet(w)
    BY <2>3, <2>5, <2>6
  <2> QED BY <2>1, <2>5, <2>7
<1> QED BY <1>1, <1>2

(* The request in the read slot gives way to the next one. *)
LEMMA ReadsOn ==
  ASSUME TypeInv, NEW s \in Server,
         readreq' = [readreq EXCEPT ![s] = Popped(readqueue[s], Null)],
         readqueue' = [readqueue EXCEPT ![s] = Rest(@)]
  PROVE  ToSet(ToRead(s))' = ToSet(readqueue[s])
<1>1. PICK q : q = readqueue[s]
  OBVIOUS
<1>2. /\ q \in Seq(Created) /\ readreq'[s] = Popped(q, Null) /\ readqueue'[s] = Rest(q)
  BY <1>1 DEF TypeInv, SlotsOK
<1>3. CASE q = <<>>
  <2>1. ToRead(s)' = <<>>
    BY <1>2, <1>3 DEF ToRead, Slotted, Popped, Rest
  <2> QED BY <1>1, <1>3, <2>1
<1>4. CASE q # <<>>
  <2>1. PICK z : z = Null
    OBVIOUS
  <2>2. /\ Popped(q, z) \in Created /\ Rest(q) \in Seq(Created)
        /\ ToSet(q) = ToSet(Rest(q)) \cup {Popped(q, z)}
    BY <1>2, <1>4, RestDrops
  <2>3. Popped(q, Null) # Null
    BY <2>1, <2>2 DEF Created, Null
  <2>4. ToRead(s)' = <<Popped(q, z)>> \o Rest(q)
    BY <1>2, <2>1, <2>3 DEF ToRead, Slotted
  <2>5. ToSet(<<Popped(q, z)>> \o Rest(q)) = {Popped(q, z)} \cup ToSet(Rest(q))
    BY <2>2, ConsProperties
  <2> QED BY <1>1, <2>2, <2>4, <2>5
<1> QED BY <1>3, <1>4

(* A request that is given up is free. *)
LEMMA GiveUpMoves ==
  ASSUME TypeInv, GiveUp
  PROVE  /\ top.r \in Created /\ Created' = Created
         /\ UNCHANGED <<readreq, readqueue>> /\ \A t \in Server : UNCHANGED ToRead(t)
         /\ ToSet(free_requests)' = ToSet(free_requests) \cup {top.r}
<1>1. PICK r \in Created : r = top.r
  BY AtTop DEF GiveUp, FrameOK, RequestPcs
<1>2. Created' = Created /\ UNCHANGED <<readreq, readqueue>>
  BY DEF GiveUp, Created, slots
<1>3. free_requests' = Push(free_requests, r)
  BY <1>1 DEF GiveUp, Release
<1>4. free_requests \in Seq(Created \cup {Null})
  BY DEF TypeInv, ReqsOK
<1>5. ToSet(Push(free_requests, r)) = ToSet(free_requests) \cup {r}
  BY <1>4, PushAdds
<1> QED BY <1>1, <1>2, <1>3, <1>5 DEF ToRead

LEMMA GiveUpRefines ==
  ASSUME TypeInv, TypeInv', OwnerInv, Sorted, Sorted', GiveUp
  PROVE  Requests!RNext
<1>1. PICK r : r = top.r
  OBVIOUS
<1>2. /\ r \in Created /\ r \notin ToSet(free_requests)
      /\ \A t \in Server : r \notin ToSet(ToRead(t))
  BY <1>1, HeldOnTop DEF GiveUp
<1>3. /\ Created' = Created /\ \A t \in Server : UNCHANGED ToRead(t)
      /\ ToSet(free_requests)' = ToSet(free_requests) \cup {r}
  BY <1>1, GiveUpMoves
<1> QED BY <1>2, <1>3, FreeStep

LEMMA WithdrawRefines ==
  ASSUME TypeInv, TypeInv', OwnerInv, Sorted, Sorted', Deactivate \/ Retry \/ RetryRead
  PROVE  Requests!RNext
<1>1. PICK s \in Server : s = top.s
  BY AtTop DEF Deactivate, Retry, RetryRead, FrameOK, ServerPcs
<1>2. UNCHANGED free_requests /\ Created' = Created
  BY DEF Deactivate, Retry, RetryRead, reqs, Created
<1>3. /\ readreq \in [Server -> Created \cup {Null}] /\ readqueue \in [Server -> Seq(Created)]
      /\ readqueue[s] \in Seq(Created)
  BY <1>1 DEF TypeInv, SlotsOK
<1>4. /\ \A q : q \in Seq(Created) /\ ToSet(q) \subseteq ToSet(readqueue[s]) =>
           ToSet(Slotted(readreq[s], q)) \subseteq ToSet(ToRead(s))
      /\ ToSet(readqueue[s]) \subseteq ToSet(ToRead(s))
  <2>1. CASE readreq[s] = Null
    BY <2>1 DEF Slotted, ToRead
  <2>2. CASE readreq[s] # Null
    <3>1. readreq[s] \in Created
      BY <1>1, <1>3, <2>2
    <3>2. \A q \in Seq(Created) : ToSet(<<readreq[s]>> \o q) = {readreq[s]} \cup ToSet(q)
      BY <3>1, ConsProperties
    <3> QED BY <1>3, <2>2, <3>2 DEF Slotted, ToRead
  <2> QED BY <2>1, <2>2
<1>5. CASE Deactivate
  <2>1. /\ readreq' = [readreq EXCEPT ![s] = Null]
        /\ readqueue' = [readqueue EXCEPT ![s] = <<>>]
    BY <1>1, <1>5 DEF Deactivate, Vacate
  <2>2. ToRead(s)' = <<>>
    BY <1>1, <1>3, <2>1 DEF ToRead, Slotted
  <2>3. ToSet(<<>>) = {}
    BY DEF ToSet
  <2>4. \A t \in Server \ {s} : ToSet(ToRead(t))' = ToSet(ToRead(t))
    BY <1>1, <1>3, <2>1 DEF ToRead
  <2> QED BY <1>1, <1>2, <2>2, <2>3, <2>4, WithdrawStep
<1>6. CASE Retry
  <2>1. PICK r, q : r = top.r /\ q = Without(readqueue[s], r)
    OBVIOUS
  <2>2. readqueue' = [readqueue EXCEPT ![s] = q] /\ UNCHANGED readreq
    BY <1>1, <1>6, <2>1 DEF Retry
  <2>3. q \in Seq(Created) /\ ToSet(q) \subseteq ToSet(readqueue[s])
    <3>1. /\ Without(readqueue[s], r) \in Seq(Created)
          /\ ToSet(Without(readqueue[s], r)) \subseteq ToSet(readqueue[s])
      BY <1>3, WithoutSubset
    <3> QED BY <2>1, <3>1
  <2>4. ToRead(s)' = Slotted(readreq[s], q)
    BY <1>1, <1>3, <2>2 DEF ToRead
  <2>5. \A t \in Server \ {s} : ToSet(ToRead(t))' = ToSet(ToRead(t))
    BY <1>1, <1>3, <2>2 DEF ToRead
  <2> QED BY <1>1, <1>2, <1>4, <2>3, <2>4, <2>5, WithdrawStep
<1>7. CASE RetryRead
  <2>1. CASE UNCHANGED <<readreq, readqueue>>
    BY <1>1, <1>2, <2>1, WithdrawStep DEF ToRead
  <2>2. CASE /\ readreq' = [readreq EXCEPT ![s] = Popped(readqueue[s], Null)]
             /\ readqueue' = [readqueue EXCEPT ![s] = Rest(@)]
    <3>1. ToSet(ToRead(s))' = ToSet(readqueue[s])
      BY <1>1, <1>3, <2>2, ReadsOn
    <3>2. \A t \in Server \ {s} : ToSet(ToRead(t))' = ToSet(ToRead(t))
      BY <1>1, <1>3, <2>2 DEF ToRead
    <3> QED BY <1>1, <1>2, <1>4, <3>1, <3>2, WithdrawStep
  <2> QED BY <1>1, <1>7, <2>1, <2>2 DEF RetryRead
<1> QED BY <1>5, <1>6, <1>7

(* The answered request is free, and no longer with its server. *)
LEMMA AnsweredMoves ==
  ASSUME TypeInv, OwnerInv, ParseDone \/ EarlyDone, NEW s, s = top.s, NEW r, r = readreq[s]
  PROVE  /\ s \in Server /\ r \in Created /\ Created' = Created
         /\ ToSet(free_requests)' = ToSet(free_requests) \cup {r}
         /\ ToSet(ToRead(s)) = {r} \cup ToSet(readqueue[s])
         /\ ToSet(ToRead(s))' = ToSet(readqueue[s])
         /\ \A t \in Server \ {s} : ToSet(ToRead(t))' = ToSet(ToRead(t))
<1>1. s \in Server /\ s = top.s /\ r = readreq[top.s]
  BY AtTop DEF ParseDone, Parsing, EarlyDone, FrameOK, ServerPcs
<1>2. stack # <<>> /\ top.pc \in {"parse", "early"}
  BY AtTop DEF ParseDone, Parsing, EarlyDone
<1>3. r # Null
  <2>1. CASE ParseDone
    BY <1>1, <2>1 DEF ParseDone, Parsing
  <2>2. CASE EarlyDone
    <3>1. top = stack[1] /\ Len(stack) \in Nat \ {0}
      BY <1>2, FirstElement DEF TypeInv, StackOK, top
    <3>2. 1 \in Positions
      BY <3>1 DEF Positions
    <3>3. PICK own : FrameInv(own, top, Len(stack) + 1 - 1)
      BY <3>1, <3>2, OwnerParts DEF Owned, FramesInv
    <3> QED BY <1>1, <2>2, <3>3, AtTop DEF EarlyDone, FrameInv
  <2> QED BY <2>1, <2>2
<1>4. /\ free_requests' = Push(free_requests, r)
      /\ readreq' = [readreq EXCEPT ![s] = Popped(readqueue[s], Null)]
      /\ readqueue' = [readqueue EXCEPT ![s] = Rest(@)]
      /\ UNCHANGED request
  <2>1. CASE ParseDone
    <3>1. in_select
      BY <1>2, <2>1, AtTop, InRound, OwnerParts DEF ParseDone, Parsing, RoundPcs
    <3> QED BY <1>1, <2>1, <3>1 DEF ParseDone, Parsing, Release
  <2>2. CASE EarlyDone
    BY <1>1, <2>2 DEF EarlyDone, Release
  <2> QED BY <2>1, <2>2
<1>5. /\ readreq \in [Server -> Created \cup {Null}] /\ readqueue \in [Server -> Seq(Created)]
      /\ readqueue[s] \in Seq(Created) /\ r \in Created
      /\ free_requests \in Seq(Created \cup {Null})
  BY <1>1, <1>3 DEF TypeInv, SlotsOK, ReqsOK
<1>6. ToSet(free_requests)' = ToSet(free_requests) \cup {r}
  <2>1. ToSet(Push(free_requests, r)) = ToSet(free_requests) \cup {r}
    <3>1. PICK S : S = Created \cup {Null}
      OBVIOUS
    <3>2. free_requests \in Seq(S) /\ r \in S
      BY <1>5, <3>1
    <3> QED BY <3>2, PushAdds
  <2> QED BY <1>4, <2>1
<1>7. ToSet(ToRead(s)) = {r} \cup ToSet(readqueue[s])
  <2>1. ToSet(<<r>> \o readqueue[s]) = {r} \cup ToSet(readqueue[s])
    BY <1>5, ConsProperties
  <2> QED BY <1>1, <1>3, <2>1 DEF ToRead, Slotted
<1>8. ToSet(ToRead(s))' = ToSet(readqueue[s])
  BY <1>1, <1>4, <1>5, ReadsOn
<1>9. \A t \in Server \ {s} : ToSet(ToRead(t))' = ToSet(ToRead(t))
  BY <1>1, <1>4, <1>5 DEF ToRead
<1>10. Created' = Created
  BY <1>4 DEF Created
<1> QED BY <1>1, <1>5, <1>6, <1>7, <1>8, <1>9, <1>10

LEMMA AnsweredRefines ==
  ASSUME TypeInv, TypeInv', OwnerInv, Sorted, Sorted', ParseDone \/ EarlyDone
  PROVE  Requests!RNext
<1>1. PICK s, r : s = top.s /\ r = readreq[s]
  OBVIOUS
<1>2. /\ s \in Server /\ r \in Created /\ Created' = Created
      /\ ToSet(free_requests)' = ToSet(free_requests) \cup {r}
      /\ ToSet(ToRead(s)) = {r} \cup ToSet(readqueue[s])
      /\ ToSet(ToRead(s))' = ToSet(readqueue[s])
      /\ \A t \in Server \ {s} : ToSet(ToRead(t))' = ToSet(ToRead(t))
  BY <1>1, AnsweredMoves
<1>3. \A t \in Server, q \in Created \ {r} : q \in ToSet(ToRead(t))' <=> q \in ToSet(ToRead(t))
  BY <1>2
<1> QED BY <1>2, <1>3, FreeStep

LEMMA CreatesRefines ==
  ASSUME TypeInv, TypeInv', OwnerInv, Sorted, Sorted', UNCHANGED config,
         CloneKey \/ ((Store \/ Flush \/ Ask) /\ top.q # <<>>)
  PROVE  Requests!RNext \/ Stays
<1>1. UNCHANGED <<readreq, readqueue>>
  BY DEF CloneKey, Store, Flush, Ask, slots
<1>2. CASE UNCHANGED reqs
  BY <1>1, <1>2, SameRequests, NothingMoves DEF reqs
<1>3. CASE \E kind, keys, failed, index : Alloc(NewRequest, kind, keys, failed, index)
  BY <1>1, <1>3, TakeStep
<1>4. \/ UNCHANGED reqs
      \/ \E kind, keys, failed, index : Alloc(NewRequest, kind, keys, failed, index)
  <2>1. CASE CloneKey
    BY <2>1, Zenon DEF CloneKey
  <2>2. CASE (Store \/ Flush \/ Ask) /\ top.q # <<>>
    BY <2>2, Zenon DEF Store, Flush, Ask
  <2> QED BY <2>1, <2>2
<1> QED BY <1>2, <1>3, <1>4

LEMMA StepRefines ==
  ASSUME TypeInv, TypeInv', OwnerInv, OwnerInv', [Next]_vars
  PROVE  Requests!RNext \/ Stays
<1>1. UNCHANGED config
  <2>1. CASE Next
    BY <2>1, Zenon DEF Next, Step
  <2>2. CASE UNCHANGED vars
    BY <2>2 DEF vars
  <2> QED BY <2>1, <2>2
<1>2. CASE ~Handled
  BY <1>1, <1>2, HandledKept DEF Stays
<1>3. CASE UNCHANGED <<readreq, readqueue, reqs>>
  BY <1>1, <1>3, SameRequests, NothingMoves DEF reqs
<1>4. CASE Handled /\ Process
  <2>1. Sorted /\ Sorted'
    <3>1. Apart /\ WhereKnown
      BY OwnedApart, WhereIs
    <3>2. Apart' /\ WhereKnown'
      BY OwnedApart, WhereIs, PTL
    <3> QED BY <1>1, <1>4, <3>1, <3>2, HandledKept DEF Sorted
  <2>2. CASE Schedule
    BY <2>1, <2>2, ScheduleRefines
  <2>3. CASE GiveUp
    BY <2>1, <2>3, GiveUpRefines
  <2>4. CASE Deactivate \/ Retry \/ RetryRead
    BY <2>1, <2>4, WithdrawRefines
  <2>5. CASE ParseDone \/ EarlyDone
    BY <2>1, <2>5, AnsweredRefines
  <2>6. CASE CloneKey \/ ((Store \/ Flush \/ Ask) /\ top.q # <<>>)
    BY <1>1, <2>1, <2>6, CreatesRefines
  <2> QED BY <1>1, <1>4, <2>2, <2>3, <2>4, <2>5, <2>6, OthersStay, Zenon
<1>5. CASE \E c \in Calls : Call(c)
  BY <1>3, <1>5 DEF Call, slots
<1>6. CASE \E s \in Server : PeerClose(s) \/ PeerEarly(s) \/ Tick(s)
  BY <1>3, <1>6 DEF PeerClose, PeerEarly, Tick, slots
<1>7. CASE UNCHANGED vars
  BY <1>3, <1>7 DEF vars, slots
<1> QED BY <1>2, <1>4, <1>5, <1>6, <1>7, Zenon DEF Next, Step

LEMMA StartRefines == Init => Requests!RInit
<1> SUFFICES ASSUME Init PROVE Requests!RInit
  OBVIOUS
<1>1. Created = {}
  BY DEF Init, Created
<1>2. [r \in Created |-> Where(r)] = <<>>
  BY <1>1
<1> QED BY <1>2 DEF Requests!RInit

(* Every request goes through its life as MmcRequests promises             *)
(* (memcache_pool.c:595-1685): mmc_pool_schedule gives a server only what  *)
(* the code holds; while a server has a request, the code gets it back     *)
(* only when the request is retried or the server is deactivated, and only *)
(* an answer frees it there.                                               *)
THEOREM SchedulerImplementsRequests == Spec => (Covered => ImplementsRequests)
<1>1. TypeInv /\ OwnerInv /\ TypeInv' /\ OwnerInv' /\ [Next]_vars
        => [Requests!RNext]_(IF Handled THEN [r \in Created |-> Where(r)] ELSE <<>>)
  BY StepRefines DEF Stays
<1> QED BY <1>1, StartRefines, OwnerAlways, CoveredNext, PTL
        DEF Spec, ImplementsRequests, Requests!RSpec

----------------------------------------------------------------------------
(* No request is forgotten.  MmcRequests says of a request only that it is *)
(* "held" when it is neither free nor with a server.  It is then in the    *)
(* hands of a handler on the stack, which will place it or give it up.     *)

HandPcs == {"schedule", "failover", "probe", "unslot", "retryRead"}

Hands(f) == IF f.pc \in HandPcs THEN {f.r} ELSE IF f.pc = "drain" THEN ToSet(f.q) ELSE {}

Placed == ToSet(free_requests) \cup UNION {ToSet(ToRead(s)) : s \in Server}

KeptInv == \A r \in Created : r \in Placed \/ \E f \in OnStack : r \in Hands(f)

InHands(f) == UNION {Hands(g) : g \in ToSet(f)}

LEMMA KeptStep ==
  ASSUME TypeInv, KeptInv, stack # <<>>, NEW T, NEW f \in Seq(T), Goto(f),
         \A r \in Created' : r \in Created \/ r \in InHands(f),
         \A r \in Created : r \in Placed \cup Hands(top) => r \in Placed' \cup InHands(f)
  PROVE  KeptInv'
<1>1. OnStack = {top} \cup Under /\ OnStack' = ToSet(f) \cup Under
  BY StackSets
<1>2. \A r : r \in InHands(f) => \E g \in OnStack' : r \in Hands(g)
  BY <1>1 DEF InHands
<1>3. ASSUME NEW r \in Created PROVE r \in Placed' \/ \E g \in OnStack' : r \in Hands(g)
  <2>1. r \in Placed \/ \E g \in OnStack : r \in Hands(g)
    BY DEF KeptInv
  <2> QED BY <1>1, <1>2, <2>1
<1>4. \A r \in Created' : r \in Placed' \/ \E g \in OnStack' : r \in Hands(g)
  BY <1>2, <1>3
<1> QED BY <1>4 DEF KeptInv

LEMMA KeptReturn ==
  ASSUME TypeInv, KeptInv, stack # <<>>, Goto(<<>>), Created' = Created,
         \A r \in Created : r \in Placed \cup Hands(top) => r \in Placed'
  PROVE  KeptInv'
<1>1. PICK f, T : f = <<>> /\ T = {Null}
  OBVIOUS
<1>2. f \in Seq(T) /\ Goto(f)
  BY <1>1
<1> QED BY <1>2, KeptStep

LEMMA KeptOne ==
  ASSUME TypeInv, KeptInv, stack # <<>>, NEW a, Goto(<<a>>), Created' = Created,
         \A r \in Created : r \in Placed \cup Hands(top) => r \in Placed' \cup Hands(a)
  PROVE  KeptInv'
<1>1. PICK f, T : f = <<a>> /\ T = {a}
  OBVIOUS
<1>2. f \in Seq(T) /\ Goto(f) /\ Len(f) = 1 /\ f[1] = a
  BY <1>1
<1>3. a \in ToSet(f)
  BY <1>2, ToSetElements
<1>4. Hands(a) \subseteq InHands(f)
  BY <1>3 DEF InHands
<1> QED BY <1>2, <1>4, KeptStep

LEMMA KeptTwo ==
  ASSUME TypeInv, KeptInv, stack # <<>>, NEW a, NEW b, Goto(<<a, b>>), Created' = Created,
         \A r \in Created : r \in Placed \cup Hands(top) => r \in Placed' \cup Hands(a) \cup Hands(b)
  PROVE  KeptInv'
<1>1. PICK f, T : f = <<a, b>> /\ T = {a, b}
  OBVIOUS
<1>2. f \in Seq(T) /\ Goto(f) /\ Len(f) = 2 /\ f[1] = a /\ f[2] = b
  BY <1>1
<1>3. a \in ToSet(f) /\ b \in ToSet(f)
  BY <1>2, ToSetElements
<1>4. Hands(a) \cup Hands(b) \subseteq InHands(f)
  BY <1>3 DEF InHands
<1> QED BY <1>2, <1>4, KeptStep

LEMMA PlacedSame ==
  ASSUME UNCHANGED <<readreq, readqueue, free_requests>>
  PROVE  Placed' = Placed
<1>1. \A s : ToRead(s)' = ToRead(s)
  BY DEF ToRead
<1> QED BY <1>1 DEF Placed

(* The handler on top has no request in its hands, and none is moved. *)
LEMMA KeptHandles ==
  ASSUME TypeInv, KeptInv, stack # <<>>, Handles, Hands(top) = {}, Created' = Created,
         \A r \in Created : r \in Placed => r \in Placed'
  PROVE  KeptInv'
<1>1. PICK T : \E f \in Seq(T) : Goto(f) /\ \A i \in 1 .. Len(f) : f[i].pc \notin ScriptPcs
  BY HandlesFrames
<1>2. PICK f \in Seq(T) : Goto(f)
  BY <1>1
<1> QED BY <1>2, KeptStep

LEMMA HandsOf ==
  ASSUME NEW s, NEW r
  PROVE  /\ \A pc \in HandPcs : Hands(Frame(pc, s, r)) = {r}
         /\ \A q : Hands(FrameOf("drain", s, Null, q, 0, 0)) = ToSet(q)
BY DEF Hands, HandPcs, Frame, FrameOf

LEMMA ReadIsPlaced == \A s \in Server : ToSet(ToRead(s)) \subseteq Placed
BY DEF Placed

(* The handlers of a round. *)
LEMMA CalmKept ==
  ASSUME TypeInv, OwnerInv, KeptInv,
         \/ SlotSend \/ Unqueue \/ EarlyDone \/ Unread \/ SendEnd \/ ParseEnd
         \/ Ready \/ Expire \/ SelectError \/ LateSend \/ LateRead \/ Late
         \/ SendLoop \/ ReadLoop
         \/ SendDone \/ SendMore \/ SendError \/ ParseDone \/ ParseEarly \/ ParseError
         \/ ParseMore \/ ParseEof
  PROVE  KeptInv'
<1>1. stack # <<>> /\ top.pc \notin PlacingPcs \cup ScriptPcs /\ Handles
  <2>1. Shape
    BY OwnerParts
  <2> QED BY <2>1, ReturnsQuiet, SelectQuiet, LoopsQuiet, ServesQuiet, Zenon
<1>2. Hands(top) = {}
  <2>1. top.pc # "retryRead"
    <3>1. CASE SlotSend \/ Unqueue \/ EarlyDone \/ Unread \/ SendEnd \/ ParseEnd
      BY <3>1 DEF SlotSend, Unqueue, EarlyDone, Unread, SendEnd, ParseEnd, At, top
    <3>2. CASE \/ Ready \/ Expire \/ SelectError \/ LateSend \/ LateRead \/ Late
               \/ SendLoop \/ ReadLoop
      BY <3>2 DEF Ready, Expire, SelectError, Switch, LateSend, LateRead, Late, SendLoop, ReadLoop,
         At, top
    <3>3. CASE \/ SendDone \/ SendMore \/ SendError \/ ParseDone \/ ParseEarly \/ ParseError
               \/ ParseMore \/ ParseEof
      BY <3>3 DEF SendDone, SendMore, SendError, ParseDone, ParseEarly, ParseError, ParseMore,
         ParseEof, Sending, Parsing, At, top
    <3> QED BY <3>1, <3>2, <3>3
  <2> QED BY <1>1, <2>1 DEF Hands, HandPcs, PlacingPcs
<1>3. CASE UNCHANGED <<readreq, readqueue, free_requests>> /\ Created' = Created
  BY <1>1, <1>2, <1>3, PlacedSame, KeptHandles
<1>4. CASE UNCHANGED <<readreq, readqueue, reqs>>
  BY <1>3, <1>4, SameRequests DEF reqs
<1>5. CASE \/ Unqueue \/ Ready \/ Expire \/ SelectError \/ LateSend \/ LateRead \/ Late
           \/ SendLoop \/ SendDone \/ SendMore \/ SendError \/ Unread \/ SendEnd
  BY <1>4, <1>5 DEF Unqueue, Ready, Expire, SelectError, Switch, LateSend, LateRead, Late,
     SendLoop, SendDone, SendMore, SendError, Unread, SendEnd, slots
<1>6. CASE ReadLoop \/ ParseEarly \/ ParseError \/ ParseMore \/ ParseEof \/ ParseEnd
  BY <1>4, <1>6 DEF ReadLoop, ParseEarly, ParseError, ParseMore, ParseEof, ParseEnd, slots
<1>7. CASE SlotSend
  <2>1. UNCHANGED <<readreq, readqueue, free_requests>>
    BY <1>7 DEF SlotSend
  <2>2. \/ UNCHANGED request
        \/ \E r, x : request' = [request EXCEPT ![r] = x]
    BY <1>7 DEF SlotSend, Slot
  <2>3. request \in Seq(Request)
    BY DEF TypeInv, ReqsOK
  <2>4. Len(request') = Len(request)
    BY <2>2, <2>3
  <2> QED BY <1>3, <2>1, <2>4 DEF Created
<1>8. CASE ParseDone \/ EarlyDone
  <2>1. PICK s, r : s = top.s /\ r = readreq[s]
    OBVIOUS
  <2>2. /\ s \in Server /\ r \in Created /\ Created' = Created
        /\ ToSet(free_requests)' = ToSet(free_requests) \cup {r}
        /\ ToSet(ToRead(s)) = {r} \cup ToSet(readqueue[s])
        /\ ToSet(ToRead(s))' = ToSet(readqueue[s])
        /\ \A t \in Server \ {s} : ToSet(ToRead(t))' = ToSet(ToRead(t))
    BY <1>8, <2>1, AnsweredMoves
  <2>3. \A q \in Placed : q \in Placed'
    BY <2>2 DEF Placed
  <2> QED BY <1>1, <1>2, <2>2, <2>3, KeptHandles
<1> QED BY <1>5, <1>6, <1>7, <1>8

(* mmc_pool_schedule gives its request to the server, or the failover      *)
(* handlers have it.                                                       *)
LEMMA PlacersKept ==
  ASSUME TypeInv, OwnerInv, KeptInv,
         \/ ScheduleInvalid \/ Schedule \/ ScheduleRefused \/ Unslot
         \/ GiveUp \/ FailOver \/ FindNext
  PROVE  KeptInv'
<1>1. PICK s, r : s = top.s /\ r = top.r
  OBVIOUS
<1>2. stack # <<>> /\ Hands(top) = {r}
  BY <1>1 DEF ScheduleInvalid, Schedule, ScheduleRefused, Unslot, GiveUp, FailOver, FindNext, At, top,
     Hands, HandPcs
<1>3. ASSUME NEW a, Goto(<<a>>), Hands(a) = {r},
             UNCHANGED <<readreq, readqueue, free_requests>>, Created' = Created
      PROVE  KeptInv'
  BY <1>2, <1>3, PlacedSame, KeptOne
<1>4. CASE ScheduleInvalid \/ Unslot
  <2>1. PICK a : a = Frame("failover", s, r)
    OBVIOUS
  <2>2. Goto(<<a>>) /\ UNCHANGED <<readreq, readqueue, reqs>>
    BY <1>1, <1>4, <2>1 DEF ScheduleInvalid, Unslot, slots
  <2>3. Hands(a) = {r}
    BY <2>1, HandsOf DEF HandPcs
  <2> QED BY <1>3, <2>2, <2>3, SameRequests DEF reqs
<1>5. CASE FailOver
  <2>1. request[r].kind = "key"
    <3>1. r \in Created
      BY <1>1, <1>5, AtTop DEF FailOver, FrameOK, RequestPcs
    <3>2. Plain
      BY OwnerParts
    <3> QED BY <1>1, <1>5, <3>1, <3>2 DEF FailOver, MayFailOver, Plain
  <2>2. PICK a : a = Frame("probe", s, r)
    OBVIOUS
  <2>3. Goto(<<a>>) /\ UNCHANGED <<readreq, readqueue, reqs>>
    BY <1>1, <1>5, <2>1, <2>2 DEF FailOver, slots
  <2>4. Hands(a) = {r}
    BY <2>2, HandsOf DEF HandPcs
  <2> QED BY <1>3, <2>3, <2>4, SameRequests DEF reqs
<1>6. CASE FindNext
  <2>1. \E p, t : Goto(<<Frame(p, t, r)>>) /\ p \in {"probe", "schedule"}
    BY <1>1, <1>6 DEF FindNext
  <2>2. PICK p, t : Goto(<<Frame(p, t, r)>>) /\ p \in {"probe", "schedule"}
    BY <2>1
  <2>3. PICK a : a = Frame(p, t, r)
    OBVIOUS
  <2>4. Hands(a) = {r}
    BY <2>2, <2>3, HandsOf DEF HandPcs
  <2>5. UNCHANGED <<readreq, readqueue, free_requests>>
    BY <1>6 DEF FindNext, slots
  <2>6. \E q, x : request' = [request EXCEPT ![q] = x]
    BY <1>6 DEF FindNext
  <2>7. Created' = Created
    <3>1. request \in Seq(Request)
      BY DEF TypeInv, ReqsOK
    <3>2. Len(request') = Len(request)
      BY <2>6, <3>1
    <3> QED BY <3>2 DEF Created
  <2> QED BY <1>3, <2>2, <2>3, <2>4, <2>5, <2>7
<1>7. CASE ScheduleRefused
  <2>1. PICK a, b : a = Frame("deactivate", s, Null) /\ b = Frame("unslot", s, r)
    OBVIOUS
  <2>2. Goto(<<a, b>>) /\ UNCHANGED <<readreq, readqueue, reqs>>
    BY <1>1, <1>7, <2>1 DEF ScheduleRefused, slots
  <2>3. Hands(b) = {r}
    BY <2>1, HandsOf DEF HandPcs
  <2>4. Placed' = Placed /\ Created' = Created
    BY <2>2, PlacedSame, SameRequests DEF reqs
  <2> QED BY <1>2, <2>2, <2>3, <2>4, KeptTwo
<1>8. CASE Schedule
  <2>1. /\ s \in Server /\ UNCHANGED free_requests /\ Created' = Created
        /\ ToSet(ToRead(s))' = ToSet(ToRead(s)) \cup {r}
        /\ \A t \in Server \ {s} : ToSet(ToRead(t))' = ToSet(ToRead(t))
    BY <1>1, <1>8, ScheduleMoves
  <2>2. \A q : q \in Placed \cup {r} => q \in Placed'
    BY <2>1 DEF Placed
  <2>3. Goto(<<>>)
    BY <1>8 DEF Schedule, Return
  <2> QED BY <1>2, <2>1, <2>2, <2>3, KeptReturn
<1>9. CASE GiveUp
  <2>1. /\ Created' = Created /\ \A t \in Server : UNCHANGED ToRead(t)
        /\ ToSet(free_requests)' = ToSet(free_requests) \cup {r}
    BY <1>1, <1>9, GiveUpMoves
  <2>2. \A q : q \in Placed \cup {r} => q \in Placed'
    BY <2>1 DEF Placed
  <2>3. Goto(<<>>)
    BY <1>9 DEF GiveUp, Return
  <2> QED BY <1>2, <2>1, <2>2, <2>3, KeptReturn
<1> QED BY <1>4, <1>5, <1>6, <1>7, <1>8, <1>9

(* What is taken from a server that failed is in the hands of the loop     *)
(* that fails it over.                                                     *)
LEMMA DrainKept ==
  ASSUME TypeInv, OwnerInv, KeptInv, Drain
  PROVE  KeptInv'
<1>1. PICK s, q : s = top.s /\ q = top.q
  OBVIOUS
<1>2. stack # <<>> /\ top.pc = "drain" /\ q \in Seq(Created)
  BY <1>1, AtTop DEF Drain, FrameOK
<1>3. Hands(top) = ToSet(q)
  BY <1>1, <1>2 DEF Hands, HandPcs
<1>4. Placed' = Placed /\ Created' = Created
  BY PlacedSame, SameRequests DEF Drain, slots, reqs
<1>5. CASE q = <<>>
  <2>1. Goto(<<>>)
    BY <1>1, <1>5, OwnerParts DEF Drain, Return, Covered
  <2>2. ToSet(q) = {}
    BY <1>5 DEF ToSet
  <2> QED BY <1>2, <1>3, <1>4, <2>1, <2>2, KeptReturn
<1>6. CASE q # <<>>
  <2>1. PICK h, t : h = Head(q) /\ t = Tail(q)
    OBVIOUS
  <2>2. PICK a, b : a = Frame("failover", s, h) /\ b = FrameOf("drain", s, Null, t, 0, 0)
    OBVIOUS
  <2>3. Goto(<<a, b>>)
    BY <1>1, <1>6, <2>1, <2>2 DEF Drain
  <2>4. Hands(a) = {h} /\ Hands(b) = ToSet(t)
    BY <2>2, HandsOf DEF HandPcs
  <2>5. ToSet(q) = ToSet(t) \cup {h}
    <3>1. PICK z : z = Null
      OBVIOUS
    <3>2. Popped(q, z) = h /\ Rest(q) = t /\ ToSet(q) = ToSet(Rest(q)) \cup {Popped(q, z)}
      BY <1>2, <1>6, <2>1, RestDrops
    <3> QED BY <3>2
  <2> QED BY <1>2, <1>3, <1>4, <2>3, <2>4, <2>5, KeptTwo
<1> QED BY <1>5, <1>6

LEMMA DeactivateKept ==
  ASSUME TypeInv, OwnerInv, KeptInv, Deactivate
  PROVE  KeptInv'
<1>1. PICK s, m, a : /\ s = top.s
                     /\ m = WithRequest(WithRequest(readqueue[s], readreq[s]), buildreq[s])
                     /\ a = FrameOf("drain", s, Null, m, 0, 0)
  OBVIOUS
<1>2. stack # <<>> /\ top.pc = "deactivate" /\ s \in Server
  BY <1>1, AtTop DEF Deactivate, FrameOK, ServerPcs
<1>3. UNCHANGED reqs /\ Goto(<<a>>)
  BY <1>1 DEF Deactivate
<1>4. /\ readreq' = [readreq EXCEPT ![s] = Null]
      /\ readqueue' = [readqueue EXCEPT ![s] = <<>>]
  BY <1>1 DEF Deactivate, Vacate
<1>5. /\ readreq[s] \in Created \cup {Null} /\ readqueue[s] \in Seq(Created)
      /\ readreq \in [Server -> Created \cup {Null}] /\ readqueue \in [Server -> Seq(Created)]
  BY <1>2 DEF TypeInv, SlotsOK
<1>6. ToSet(m) = ToSet(ToRead(s))
  <2>1. PICK own : Owned(own)
    BY OwnerParts
  <2>2. /\ Shape /\ Steady /\ ServerInv(own, s) /\ ServersInv(own)
    BY <1>2, <2>1, OwnerParts, TopSteady DEF ShiftPcs, Owned, ServersInv
  <2>3. Pipeline(own, s, ToSend(s), ToRead(s))
    BY <1>2, <2>2, SendsAreRead
  <2>4. Distinct(ToRead(s)) /\ (readreq[s] = Null => readqueue[s] = <<>>) /\ buildreq[s] = Null
    BY <2>2, <2>3 DEF Pipeline, ServerInv
  <2>5. m = WithRequest(WithRequest(readqueue[s], readreq[s]), Null)
    BY <1>1, <2>4
  <2> QED BY <1>5, <2>4, <2>5, MineIsRead DEF ToRead
<1>7. \A t \in Server \ {s} : ToRead(t)' = ToRead(t)
  BY <1>2, <1>4, <1>5 DEF ToRead
<1>8. Hands(a) = ToSet(m) /\ Hands(top) = {}
  <2>1. Hands(top) = {}
    BY <1>2 DEF Hands, HandPcs
  <2> QED BY <1>1, <2>1, HandsOf
<1>9. \A r : r \in Placed => r \in Placed' \cup Hands(a)
  BY <1>3, <1>6, <1>7, <1>8 DEF Placed, reqs
<1> QED BY <1>2, <1>3, <1>8, <1>9, KeptOne, SameRequests DEF reqs

(* A request that is retried is in the hands of the handler that takes it  *)
(* out of the read slot and fails it over.                                 *)
LEMMA RetryKept ==
  ASSUME TypeInv, OwnerInv, KeptInv, Retry
  PROVE  KeptInv'
<1>1. PICK s, r, x : s = top.s /\ r = top.r /\ x = Popped(Without(sendqueue[s], r), Null)
  OBVIOUS
<1>2. stack # <<>> /\ top.pc = "retry" /\ s \in Server
  BY <1>1, AtTop DEF Retry, FrameOK, ServerPcs
<1>3. UNCHANGED <<readreq, reqs>> /\ readqueue' = [readqueue EXCEPT ![s] = Without(@, r)]
  BY <1>1 DEF Retry
<1>4. /\ readreq[s] \in Created \cup {Null} /\ readqueue[s] \in Seq(Created)
      /\ readqueue \in [Server -> Seq(Created)]
  BY <1>2 DEF TypeInv, SlotsOK
<1>5. PICK b \in BOOLEAN : \E T : \E f \in Seq(T) : Withdraws(f, s, r, x, b)
  <2>1. PICK b : b \in BOOLEAN /\ b = (sendreq[s] = r)
    OBVIOUS
  <2>2. IF b THEN Goto(<<Frame("slot", s, x), Frame("unqueue", s, Null), Frame("retryRead", s, r)>>)
        ELSE Goto(<<Frame("retryRead", s, r)>>)
    BY <1>1, <2>1 DEF Retry
  <2> QED BY <2>1, <2>2, RetryFrames
<1>6. PICK T : \E f \in Seq(T) : Withdraws(f, s, r, x, b)
  BY <1>5
<1>7. PICK f \in Seq(T) : Withdraws(f, s, r, x, b)
  BY <1>6
<1>8. Goto(f) /\ Len(f) \in 1 .. Len(f) /\ f[Len(f)].pc = "retryRead" /\ f[Len(f)].r = r
  <2>1. PICK n : n = Len(f)
    OBVIOUS
  <2>2. Goto(f) /\ n \in {1, 3}
    BY <1>7, <2>1, Zenon DEF Withdraws
  <2>3. n \in 1 .. n
    BY <2>2
  <2>4. \A i \in 1 .. n : (f[i].pc = "retryRead" <=> i = n) /\ (f[i].pc = "retryRead" => f[i].r = r)
    BY <1>7, <2>1, Zenon DEF Withdraws
  <2>5. f[n].pc = "retryRead" /\ f[n].r = r
    BY <2>3, <2>4, Zenon
  <2> QED BY <2>1, <2>2, <2>3, <2>5
<1>9. r \in InHands(f) /\ Hands(top) = {}
  <2>1. f[Len(f)] \in ToSet(f)
    BY <1>8, ToSetElements
  <2>2. r \in Hands(f[Len(f)])
    BY <1>8 DEF Hands, HandPcs
  <2>3. r \in InHands(f)
    BY <2>1, <2>2 DEF InHands
  <2> QED BY <1>2, <2>3 DEF Hands, HandPcs
<1>10. \A t \in Server \ {s} : ToRead(t)' = ToRead(t)
  BY <1>2, <1>3, <1>4 DEF ToRead
<1>11. \A q \in ToSet(ToRead(s)) : q = r \/ q \in ToSet(ToRead(s))'
  <2>1. PICK h, p, w : h = readreq[s] /\ p = readqueue[s] /\ w = Without(p, r)
    OBVIOUS
  <2>2. ToRead(s) = Slotted(h, p) /\ ToRead(s)' = Slotted(h, w)
    BY <1>2, <1>3, <1>4, <2>1 DEF ToRead
  <2>3. w \in Seq(Created) /\ \A q \in ToSet(p) : q = r \/ q \in ToSet(w)
    BY <1>4, <2>1, WithoutRemoves, WithoutKeeps
  <2>4. h # Null => /\ ToSet(<<h>> \o p) = {h} \cup ToSet(p)
                    /\ ToSet(<<h>> \o w) = {h} \cup ToSet(w)
    BY <1>4, <2>1, <2>3, ConsProperties
  <2>5. /\ Slotted(h, p) = IF h = Null THEN p ELSE <<h>> \o p
        /\ Slotted(h, w) = IF h = Null THEN w ELSE <<h>> \o w
    BY DEF Slotted
  <2> QED BY <2>2, <2>3, <2>4, <2>5
<1>12. \A q \in Placed : q \in Placed' \cup InHands(f)
  BY <1>3, <1>9, <1>10, <1>11 DEF Placed, reqs
<1> QED BY <1>2, <1>3, <1>7, <1>8, <1>9, <1>12, KeptStep, SameRequests DEF reqs

LEMMA RetryReadKept ==
  ASSUME TypeInv, OwnerInv, KeptInv, RetryRead
  PROVE  KeptInv'
<1>1. PICK s, r, a : s = top.s /\ r = top.r /\ a = Frame("failover", s, r)
  OBVIOUS
<1>2. stack # <<>> /\ top.pc = "retryRead" /\ s \in Server
  BY <1>1, AtTop DEF RetryRead, FrameOK, ServerPcs
<1>3. Goto(<<a>>) /\ UNCHANGED reqs
  BY <1>1 DEF RetryRead
<1>4. Hands(top) = {r} /\ Hands(a) = {r}
  <2>1. Hands(top) = {r}
    BY <1>1, <1>2 DEF Hands, HandPcs
  <2>2. "failover" \in HandPcs
    BY DEF HandPcs
  <2> QED BY <1>1, <2>1, <2>2, HandsOf
<1>5. CASE readreq[s] # r
  <2>1. UNCHANGED <<readreq, readqueue, free_requests>>
    BY <1>1, <1>3, <1>5 DEF RetryRead, reqs
  <2> QED BY <1>2, <1>3, <1>4, <2>1, PlacedSame, KeptOne, SameRequests DEF reqs
<1>6. CASE readreq[s] = r
  <2>1. /\ readreq' = [readreq EXCEPT ![s] = Popped(readqueue[s], Null)]
        /\ readqueue' = [readqueue EXCEPT ![s] = Rest(@)]
    BY <1>1, <1>6 DEF RetryRead
  <2>2. ToSet(ToRead(s))' = ToSet(readqueue[s])
    BY <1>2, <2>1, ReadsOn
  <2>3. /\ readreq[s] \in Created \cup {Null} /\ readqueue[s] \in Seq(Created)
        /\ readreq \in [Server -> Created \cup {Null}] /\ readqueue \in [Server -> Seq(Created)]
    BY <1>2 DEF TypeInv, SlotsOK
  <2>4. ToSet(ToRead(s)) \subseteq {r} \cup ToSet(readqueue[s])
    <3>1. CASE r = Null
      BY <1>6, <3>1 DEF ToRead, Slotted
    <3>2. CASE r # Null
      <4>1. ToSet(<<r>> \o readqueue[s]) = {r} \cup ToSet(readqueue[s])
        BY <1>6, <2>3, <3>2, ConsProperties
      <4> QED BY <1>6, <3>2, <4>1 DEF ToRead, Slotted
    <3> QED BY <3>1, <3>2
  <2>5. \A t \in Server \ {s} : ToRead(t)' = ToRead(t)
    BY <1>2, <2>1, <2>3 DEF ToRead
  <2>6. \A q \in Placed : q \in Placed' \cup Hands(a)
    BY <1>3, <1>4, <2>2, <2>4, <2>5 DEF Placed, reqs
  <2> QED BY <1>2, <1>3, <1>4, <2>6, KeptOne, SameRequests DEF reqs
<1> QED BY <1>5, <1>6

(* The script. *)
LEMMA ScriptKept ==
  ASSUME TypeInv, KeptInv, stack # <<>>, top.pc \in ScriptPcs, ScriptGoesOn,
         UNCHANGED <<slots, reqs>>
  PROVE  KeptInv'
<1>1. Hands(top) = {} /\ Placed' = Placed /\ Created' = Created
  <2>1. Hands(top) = {}
    BY DEF Hands, HandPcs, ScriptPcs
  <2> QED BY <2>1, PlacedSame, SameRequests DEF slots, reqs
<1>2. CASE Goto(<<>>)
  BY <1>1, <1>2, KeptReturn
<1>3. ASSUME NEW a, Goto(<<a>>) PROVE KeptInv'
  BY <1>1, <1>3, KeptOne
<1>4. ASSUME NEW a, NEW b, Goto(<<a, b>>) PROVE KeptInv'
  BY <1>1, <1>4, KeptTwo
<1> QED BY <1>2, <1>3, <1>4 DEF ScriptGoesOn

(* A new request is in the hands of mmc_pool_schedule. *)
LEMMA CreatesKept ==
  ASSUME TypeInv, KeptInv, stack # <<>>, top.pc \in ScriptPcs, ScriptCreates, UNCHANGED slots
  PROVE  KeptInv'
<1>1. PICK kind, keys, failed, index : Alloc(NewRequest, kind, keys, failed, index)
  BY DEF ScriptCreates, Allocates
<1>2. PICK T : \E f \in Seq(T) : Schedules(f)
  BY DEF ScriptCreates
<1>3. PICK f \in Seq(T) : Schedules(f)
  BY <1>2
<1>4. PICK new : new = NewRequest
  OBVIOUS
<1>5. Goto(f) /\ f[1].pc = "schedule" /\ f[1].r = new /\ 1 \in 1 .. Len(f)
  BY <1>3, <1>4 DEF Schedules
<1>6. new \in InHands(f) /\ Hands(top) = {}
  <2>1. f[1] \in ToSet(f)
    BY <1>5, ToSetElements
  <2>2. new \in Hands(f[1])
    BY <1>5 DEF Hands, HandPcs
  <2>3. Hands(top) = {}
    BY DEF Hands, HandPcs, ScriptPcs
  <2> QED BY <2>1, <2>2, <2>3 DEF InHands
<1>7. Created' = Created \cup {new} /\ free_requests' = Rest(free_requests)
  BY <1>1, <1>4, Allocated DEF Alloc
<1>8. ASSUME NEW r \in Created, r \in ToSet(free_requests)
      PROVE  r = new \/ r \in ToSet(free_requests)'
  <2>1. free_requests \in Seq(Created \cup {Null})
    BY DEF TypeInv, ReqsOK
  <2>2. free_requests # <<>>
    BY <1>8 DEF ToSet
  <2>3. PICK z, S : z = Null /\ S = Created \cup {Null}
    OBVIOUS
  <2>4. /\ Popped(free_requests, z) = Head(free_requests)
        /\ ToSet(free_requests) = ToSet(Rest(free_requests)) \cup {Popped(free_requests, z)}
    <3>1. free_requests \in Seq(S)
      BY <2>1, <2>3
    <3> QED BY <2>2, <3>1, RestDrops
  <2>5. r # Null
    BY CreatedNumbers
  <2>6. Popped(free_requests, z) = r => new = r
    BY <1>4, <2>3, <2>4, <2>5 DEF NewRequest
  <2> QED BY <1>7, <1>8, <2>4, <2>6
<1>9. \A s \in Server : ToRead(s)' = ToRead(s)
  BY DEF ToRead, slots
<1>10. \A r \in Created : r \in Placed => r \in Placed' \cup InHands(f)
  BY <1>6, <1>8, <1>9 DEF Placed
<1>11. \A r \in Created' : r \in Created \/ r \in InHands(f)
  BY <1>6, <1>7
<1> QED BY <1>5, <1>6, <1>10, <1>11, KeptStep

(* The code does not move. *)
LEMMA RestsKept ==
  ASSUME KeptInv, UNCHANGED <<stack, slots, reqs>>
  PROVE  KeptInv'
<1>1. Placed' = Placed /\ Created' = Created
  BY PlacedSame, SameRequests DEF slots, reqs
<1>2. OnStack' = OnStack
  BY DEF OnStack, Positions
<1> QED BY <1>1, <1>2 DEF KeptInv

LEMMA CallKept ==
  ASSUME TypeInv, OwnerInv, KeptInv, NEW c \in Calls, Call(c)
  PROVE  KeptInv'
<1>1. stack = <<>>
  BY CallFrame, OwnerParts
<1>2. OnStack = {}
  BY <1>1 DEF OnStack, Positions
<1>3. Placed' = Placed /\ Created' = Created
  BY PlacedSame, SameRequests DEF Call, slots, reqs
<1> QED BY <1>2, <1>3 DEF KeptInv

LEMMA KeptNext == TypeInv /\ OwnerInv /\ KeptInv /\ [Next]_vars => KeptInv'
<1> SUFFICES ASSUME TypeInv, OwnerInv, KeptInv, [Next]_vars PROVE KeptInv'
  OBVIOUS
<1>1. CASE Process
  <2>1. CASE \/ ScheduleInvalid \/ Schedule \/ ScheduleRefused \/ Unslot
             \/ GiveUp \/ FailOver \/ FindNext
    BY <2>1, PlacersKept
  <2>2. CASE \/ SlotSend \/ Unqueue \/ EarlyDone \/ Unread \/ SendEnd \/ ParseEnd
             \/ Ready \/ Expire \/ SelectError \/ LateSend \/ LateRead \/ Late
             \/ SendLoop \/ ReadLoop
             \/ SendDone \/ SendMore \/ SendError \/ ParseDone \/ ParseEarly \/ ParseError
             \/ ParseMore \/ ParseEof
    BY <2>2, CalmKept
  <2>3. CASE Deactivate \/ Drain \/ Retry \/ RetryRead
    BY <2>3, DeactivateKept, DrainKept, RetryKept, RetryReadKept
  <2>4. CASE \/ RunRounds \/ Stored \/ Flushed \/ Asked
             \/ (Store \/ Flush \/ Ask) /\ top.q = <<>>
    BY <2>4, ScriptCalls, ScriptKept
  <2>5. CASE (Store \/ Flush \/ Ask) /\ top.q # <<>>
    BY <2>5, StoreCalls, CreatesKept
  <2>6. CASE CloneKey
    BY <2>6, CloneCalls, ScriptKept, CreatesKept
  <2>7. CASE \/ HelpRound \/ LeaveCallback \/ Get \/ GetFull \/ Rebuild \/ GetEnd \/ Built
             \/ RunPending \/ ParseValue \/ SlotSendRefused
    BY <2>7, NeverTaken, Zenon
  <2> QED BY <1>1, <2>1, <2>2, <2>3, <2>4, <2>5, <2>6, <2>7, Zenon DEF Process
<1>2. CASE \E c \in Calls : Call(c)
  BY <1>2, CallKept
<1>3. CASE (\E s \in Server : PeerClose(s) \/ PeerEarly(s) \/ Tick(s)) \/ UNCHANGED vars
  BY <1>3, RestsKept DEF PeerClose, PeerEarly, Tick, vars
<1> QED BY <1>1, <1>2, <1>3, Zenon DEF Next, Step

LEMMA KeptInit == Init => KeptInv
<1> SUFFICES ASSUME Init PROVE KeptInv
  OBVIOUS
<1>1. Created = {}
  BY DEF Init, Created
<1> QED BY <1>1 DEF KeptInv

LEMMA KeptAlways == Spec => [](Covered => KeptInv)
<1>1. TypeInv /\ (Covered => OwnerInv) /\ (Covered => KeptInv) /\ [Next]_vars
        => (Covered' => KeptInv')
  BY KeptNext, CoveredNext
<1>2. Init => (Covered => KeptInv)
  BY KeptInit
<1> QED BY <1>1, <1>2, OwnerAlways, PTL DEF Spec

LEMMA KeptReturned ==
  ASSUME KeptInv, RunCompletesUnretried
  PROVE  AllReturned
<1> SUFFICES ASSUME Handled, ~SkipsRun, ~Persistent, stack = <<>>, NEW r \in Created
             PROVE  r \in ToSet(free_requests)
  BY DEF AllReturned
<1>1. \A s \in Server : ToRead(s) = <<>>
  BY DEF RunCompletesUnretried, RunCompletes
<1>2. OnStack = {}
  BY DEF OnStack, Positions
<1>3. r \in Placed
  BY <1>2 DEF KeptInv
<1>4. ToSet(<<>>) = {}
  BY DEF ToSet
<1> QED BY <1>1, <1>3, <1>4 DEF Placed

(* "requests are owned by us so free them" (memcache_pool.c:943): when a   *)
(* call returns to the script, every request is on the free list again,    *)
(* whether it was answered (:1638-1643) or given up by its failover        *)
(* handler (:1058, :1066), and none is lost on the way between servers.    *)
THEOREM EveryRequestReturns == Spec => [](Covered => AllReturned)
<1>1. KeptInv /\ RunCompletesUnretried => AllReturned
  BY KeptReturned
<1> QED BY <1>1, KeptAlways, NothingIsLeft, PTL

----------------------------------------------------------------------------
(* Replies.  What is on the wire of a server answers the first requests it *)
(* has to answer, and the rest of these are those that it was not sent.    *)

(* Sequences that are joined: a reply drops the first element, and a       *)
(* server that hangs up cuts the wire.                                     *)
Joins(R, w, q) == R = w \o q

LEMMA JoinAnswered ==
  ASSUME NEW S, NEW w \in Seq(S), NEW q \in Seq(S), w # <<>>, NEW R, Joins(R, w, q)
  PROVE  Head(R) = Head(w) /\ Joins(Tail(R), Tail(w), q)
<1>1. PICK x, t : x = Head(w) /\ t = Tail(w)
  OBVIOUS
<1>2. x \in S /\ t \in Seq(S) /\ x = w[1] /\ Len(w) \in Nat \ {0}
  BY <1>1, FirstElement
<1>3. w = <<x>> \o t
  <2>1. 1 \in 1 .. Len(w) /\ Len(w) \in 1 .. Len(w) /\ 1 + 1 = 2
    BY <1>2
  <2>2. SubSeq(w, 1, Len(w)) = <<w[1]>> \o SubSeq(w, 1 + 1, Len(w))
    BY <2>1, SubSeqRecursiveFirst
  <2>3. SubSeq(w, 1, Len(w)) = w /\ t = SubSeq(w, 2, Len(w))
    BY <1>1, SubSeqFull, TailIsSubSeq
  <2> QED BY <1>2, <2>1, <2>2, <2>3
<1>4. <<x>> \in Seq(S) /\ t \o q \in Seq(S)
  BY <1>2, ConcatProperties
<1>5. R = <<x>> \o (t \o q)
  BY <1>2, <1>3, <1>4, ConcatAssociative DEF Joins
<1>6. Head(<<x>> \o (t \o q)) = x /\ Tail(<<x>> \o (t \o q)) = t \o q
  BY <1>2, <1>4, ConsProperties
<1> QED BY <1>1, <1>2, <1>5, <1>6 DEF Joins

LEMMA JoinCut ==
  ASSUME NEW S, NEW w \in Seq(S), NEW q \in Seq(S), NEW R, Joins(R, w, q),
         NEW n \in 0 .. Len(w)
  PROVE  \E x \in Seq(S) : Joins(R, SubSeq(w, 1, n), x)
<1>1. PICK m : m = Len(w)
  OBVIOUS
<1>2. m \in Nat /\ n \in 0 .. m /\ \A i \in 1 .. m : w[i] \in S
  BY <1>1, LenProperties, ElementOfSeq
<1>3. SubSeq(w, 1, n) \in Seq(S)
  <2>1. \A i \in 1 .. n : w[i] \in S
    BY <1>2
  <2> QED BY <1>2, <2>1, SubSeqProperties
<1>4. SubSeq(w, n + 1, m) \in Seq(S)
  <2>1. \A i \in n + 1 .. m : w[i] \in S
    BY <1>2
  <2>2. n + 1 \in Int /\ m \in Int
    BY <1>2
  <2> QED BY <2>1, <2>2, SubSeqProperties
<1>5. w = SubSeq(w, 1, n) \o SubSeq(w, n + 1, m)
  <2>1. 1 \in 1 .. m + 1 /\ n \in 1 - 1 .. m /\ m \in n .. m
    BY <1>2
  <2>2. SubSeq(w, 1, n) \o SubSeq(w, n + 1, m) = SubSeq(w, 1, m)
    BY <1>1, <2>1, ConcatAdjacentSubSeq
  <2> QED BY <1>1, <2>2, SubSeqFull
<1>6. PICK a, b : a = SubSeq(w, 1, n) /\ b = SubSeq(w, n + 1, m)
  OBVIOUS
<1>7. a \in Seq(S) /\ b \in Seq(S) /\ w = a \o b
  BY <1>3, <1>4, <1>5, <1>6
<1>8. b \o q \in Seq(S)
  BY <1>7, ConcatProperties
<1>9. (a \o b) \o q = a \o (b \o q)
  BY <1>7, ConcatAssociative
<1>10. R = a \o (b \o q)
  BY <1>7, <1>9 DEF Joins
<1> QED BY <1>6, <1>8, <1>10 DEF Joins

(* What the server of s was not sent in full, and not answered early.      *)
Unsent(s) == IF partly[s] = "answered" THEN sendqueue[s] ELSE Sends(s)

(* q is the end of what s has to answer that no reply is on the wire for.  *)
Matched(s) == \E q \in Seq(Nat) :
  /\ Reads(s) = wire[s] \o q
  /\ link[s] = "up" => q = Unsent(s) /\ (partly[s] = "answered" => SendSlot(s) # Null)

(* A server that is about to be deactivated has lost its place.            *)
WireInv(s) == Doing(s, {"deactivate"}) \/ Matched(s)

NoBlank  == \A r \in Created : request[r].kind # "blank"
WiresInv == NoBlank /\ \A s \in Server : WireInv(s)

SameWire(t) ==
  /\ link'[t] = link[t] /\ wire'[t] = wire[t]
  /\ partly'[t] = "answered" <=> partly[t] = "answered"
  /\ sendreq'[t] = sendreq[t] /\ readreq'[t] = readreq[t]
  /\ sendqueue'[t] = sendqueue[t] /\ readqueue'[t] = readqueue[t]

(* What a step on s leaves alone elsewhere.                                *)
LEMMA WiresStep ==
  ASSUME TypeInv, TypeInv', OwnerInv, OwnerInv', WiresInv, NEW s,
         stack = <<>> \/ top.pc \notin ShiftPcs \cup {"deactivate"} \/ top.s = s,
         stack' = <<>> \/ top'.pc \notin ShiftPcs \/ top'.s = s,
         \A t \in Server : t # s => SameWire(t),
         s \in Server => WireInv(s)', NoBlank'
  PROVE  WiresInv'
<1>1. Elsewhere
  BY OwnerParts, ElsewhereSlots
<1>2. Elsewhere'
  <2>1. Shape'
    BY DEF OwnerInv
  <2> QED BY <2>1, ElsewhereSlots, PTL
<1> SUFFICES ASSUME NEW t \in Server, t # s PROVE WireInv(t)'
  BY DEF WiresInv
<1>3. SlottedAt(t) /\ SameWire(t)
  BY <1>1 DEF Elsewhere
<1>4. SlottedAt(t)'
  BY <1>2 DEF Elsewhere
<1>5. Reads(t)' = Reads(t) /\ Sends(t)' = Sends(t) /\ SendSlot(t)' = SendSlot(t)
  BY <1>3, <1>4 DEF SlottedAt, SameWire, ToSend, ToRead
<1>6. Unsent(t)' = Unsent(t)
  BY <1>3, <1>5 DEF Unsent, SameWire
<1>7. Matched(t)
  BY DEF WiresInv, WireInv, Doing
<1> QED BY <1>3, <1>5, <1>6, <1>7 DEF WireInv, Matched, SameWire

(* A step that moves no request, sends nothing and reads nothing.          *)
LEMMA WiresRest ==
  ASSUME TypeInv, TypeInv', OwnerInv, OwnerInv', WiresInv,
         stack = <<>> \/ top.pc \notin ShiftPcs \cup {"deactivate"},
         stack' = <<>> \/ top'.pc \notin ShiftPcs,
         \A t \in Server : SameWire(t), NoBlank'
  PROVE  WiresInv'
<1>1. NoServer \notin Server
  BY ServerAssumption
<1>2. PICK s : s = NoServer
  OBVIOUS
<1> QED BY <1>1, <1>2, WiresStep

(* A server is found to have failed. *)
LEMMA WiresFail ==
  ASSUME TypeInv, TypeInv', OwnerInv, OwnerInv', WiresInv, NEW s \in Server,
         stack # <<>>, top.pc \notin ShiftPcs \cup {"deactivate"},
         stack' # <<>>, top'.pc = "deactivate", top'.s = s,
         \A t \in Server : t # s => SameWire(t), NoBlank'
  PROVE  WiresInv'
<1>1. WireInv(s)'
  BY DEF WireInv, Doing
<1> QED BY <1>1, WiresStep DEF ShiftPcs

LEMMA SameWires ==
  ASSUME UNCHANGED <<link, wire, partly, Slots>>
  PROVE  \A t \in Server : SameWire(t)
BY DEF SameWire, Slots

LEMMA BlankKept ==
  ASSUME NoBlank, UNCHANGED request
  PROVE  NoBlank'
BY DEF NoBlank, Created

(* The code that runs next when these frames are called. *)
LEMMA TopAfter ==
  ASSUME TypeInv, TypeInv', Shape, stack # <<>>
  PROVE  /\ Goto(<<>>) /\ top.pc \notin ShiftPcs => stack' = <<>> \/ top'.pc \notin ShiftPcs
         /\ \A a : Goto(<<a>>) => stack' # <<>> /\ top' = a
         /\ \A a, b : Goto(<<a, b>>) => stack' # <<>> /\ top' = a
<1>1. ASSUME Goto(<<>>), top.pc \notin ShiftPcs PROVE stack' = <<>> \/ top'.pc \notin ShiftPcs
  BY <1>1, ReturnsTo DEF ShiftPcs
<1>2. ASSUME NEW a, Goto(<<a>>) PROVE stack' # <<>> /\ top' = a
  <2>1. PICK f : f = <<a>>
    OBVIOUS
  <2>2. f \in Seq({a}) /\ Len(f) = 1 /\ f[1] = a /\ Goto(f)
    BY <1>2, <2>1
  <2>3. Len(f) > 0
    BY <2>2
  <2> QED BY <2>2, <2>3, HeadAfter
<1>3. ASSUME NEW a, NEW b, Goto(<<a, b>>) PROVE stack' # <<>> /\ top' = a
  <2>1. PICK f, T : f = <<a, b>> /\ T = {a, b}
    OBVIOUS
  <2>2. f \in Seq(T) /\ Len(f) = 2 /\ f[1] = a /\ Goto(f)
    BY <1>3, <2>1
  <2>3. Len(f) > 0
    BY <2>2
  <2> QED BY <2>2, <2>3, HeadAfter
<1> QED BY <1>1, <1>2, <1>3

(* The frames that a step calls shift no slots. *)
Goes ==
  \/ Goto(<<>>)
  \/ \E a : Goto(<<a>>) /\ a.pc \notin ShiftPcs
  \/ \E a, b : Goto(<<a, b>>) /\ a.pc \notin ShiftPcs

LEMMA WiresGo ==
  ASSUME TypeInv, TypeInv', OwnerInv, OwnerInv', WiresInv, stack # <<>>,
         top.pc \notin ShiftPcs \cup {"deactivate"}, Goes,
         \A t \in Server : SameWire(t), NoBlank'
  PROVE  WiresInv'
<1>1. Shape
  BY DEF OwnerInv
<1>2. stack' = <<>> \/ top'.pc \notin ShiftPcs
  BY <1>1, TopAfter DEF Goes
<1> QED BY <1>2, WiresRest

(* ... those that are one of two, or are called by the loops of a round. *)
LEMMA GoesPcs ==
  ASSUME NEW s, NEW r, NEW q, NEW w, NEW i
  PROVE  /\ \A pc \in {"late", "xmit", "parse", "drain"} :
              FrameOf(pc, s, r, q, w, i).pc \notin ShiftPcs
         /\ \A pc \in {"failover", "probe", "schedule", "callback", "select"} :
              Frame(pc, s, r).pc \notin ShiftPcs
         /\ \A pc \in {"lateSend", "lateRead", "send", "read"} : Loop(pc, w, i).pc \notin ShiftPcs
         /\ Each("get", r, q).pc \notin ShiftPcs
BY DEF Frame, FrameOf, Loop, Each, ShiftPcs

LEMMA GoesOne == ASSUME NEW a, Goto(<<a>>), a.pc \notin ShiftPcs PROVE Goes
BY DEF Goes

LEMMA GoesTwo == ASSUME NEW a, NEW b, Goto(<<a, b>>), a.pc \notin ShiftPcs PROVE Goes
BY DEF Goes

(* A request is passed on. *)
LEMMA PlacersGo ==
  ASSUME ScheduleInvalid \/ FailOver \/ GiveUp \/ FindNext \/ Unslot \/ Drain
  PROVE  Goes
<1>1. CASE ScheduleInvalid \/ Unslot
  <2>1. Goto(<<Frame("failover", top.s, top.r)>>)
    BY <1>1 DEF ScheduleInvalid, Unslot
  <2> QED BY <2>1, GoesPcs, GoesOne
<1>2. CASE FailOver
  <2>1. Goto(<<Frame("probe", top.s, top.r)>>) \/ Goto(<<Each("get", top.r, want)>>)
    BY <1>2 DEF FailOver
  <2> QED BY <2>1, GoesPcs, GoesOne
<1>3. CASE GiveUp
  BY <1>3 DEF GiveUp, Return, Goes
<1>4. CASE FindNext
  <2>1. PICK pc \in {"probe", "schedule"} : \E t : Goto(<<Frame(pc, t, top.r)>>)
    BY <1>4 DEF FindNext
  <2>2. PICK t : Goto(<<Frame(pc, t, top.r)>>)
    BY <2>1
  <2> QED BY <2>2, GoesPcs, GoesOne
<1>5. CASE Drain
  <2>1. \/ Goto(<<Frame("failover", top.s, Head(top.q)), FrameOf("drain", top.s, Null, Tail(top.q), 0, 0)>>)
        \/ Goto(<<Frame("callback", top.s, Null)>>) \/ Goto(<<>>)
    BY <1>5 DEF Drain, Return
  <2>2. Frame("failover", top.s, Head(top.q)).pc \notin ShiftPcs /\ Frame("callback", top.s, Null).pc \notin ShiftPcs
    BY GoesPcs
  <2> QED BY <2>1, <2>2, GoesOne, GoesTwo DEF Goes
<1> QED BY <1>1, <1>2, <1>3, <1>4, <1>5

(* The loops of a round. *)
LEMMA RoundGoes ==
  ASSUME Ready \/ Expire \/ SelectError \/ LateSend \/ LateRead \/ SendLoop \/ ReadLoop
  PROVE  /\ Goes
         /\ stack # <<>> /\ top.pc \in {"select", "lateSend", "lateRead", "send", "read"}
         /\ UNCHANGED <<conn, slots, request>>
<1>1. /\ stack # <<>> /\ top.pc \in {"select", "lateSend", "lateRead", "send", "read"}
      /\ UNCHANGED <<conn, slots, request>>
  BY DEF Ready, Expire, SelectError, Switch, LateSend, LateRead, SendLoop, ReadLoop, At, top, reqs
<1>2. CASE Ready \/ Expire \/ SelectError
  <2>1. PICK pc \in {"lateSend", "send"} : \E i : Goto(<<Loop(pc, cur, i)>>)
    BY <1>2 DEF Ready, Expire, SelectError
  <2>2. PICK i : Goto(<<Loop(pc, cur, i)>>)
    BY <2>1
  <2>3. Loop(pc, cur, i).pc \notin ShiftPcs
    BY GoesPcs
  <2> QED BY <1>1, <2>2, <2>3, GoesOne
<1>3. ASSUME NEW s, NEW w, NEW r, TakeOut(s, w, r) PROVE Goes
  <2>1. Goto(<<FrameOf("late", s, r, <<>>, 0, top.i), top>>)
    BY <1>3 DEF TakeOut
  <2>2. FrameOf("late", s, r, <<>>, 0, top.i).pc \notin ShiftPcs
    BY GoesPcs
  <2> QED BY <2>1, <2>2, GoesTwo
<1>4. CASE LateSend
  <2>1. \/ Goto(<<Loop("lateRead", top.w, top.i)>>)
        \/ TakeOut(Head(sending[top.w]), top.w, sendreq[Head(sending[top.w])])
    BY <1>4 DEF LateSend
  <2>2. Loop("lateRead", top.w, top.i).pc \notin ShiftPcs
    BY GoesPcs
  <2> QED BY <1>1, <1>3, <2>1, <2>2, GoesOne
<1>5. CASE LateRead
  <2>1. \/ Goto(<<Loop("send", top.w, 0)>>)
        \/ TakeOut(Head(reading[top.w]), top.w, readreq[Head(reading[top.w])])
    BY <1>5 DEF LateRead
  <2>2. Loop("send", top.w, 0).pc \notin ShiftPcs
    BY GoesPcs
  <2> QED BY <1>1, <1>3, <2>1, <2>2, GoesOne
<1>6. CASE SendLoop
  <2>1. PICK w, i, s : w = top.w /\ i = top.i + 1 /\ s = sending[w][i]
    OBVIOUS
  <2>2. \/ Goto(<<Loop("read", w, 0)>>) \/ Goto(<<Loop("send", w, i)>>)
        \/ Goto(<<FrameOf("xmit", s, Null, <<>>, w, 0), Loop("send", w, i)>>)
    BY <1>6, <2>1 DEF SendLoop
  <2>3. /\ Loop("read", w, 0).pc \notin ShiftPcs /\ Loop("send", w, i).pc \notin ShiftPcs
        /\ FrameOf("xmit", s, Null, <<>>, w, 0).pc \notin ShiftPcs
    BY GoesPcs
  <2> QED BY <1>1, <2>2, <2>3, GoesOne, GoesTwo
<1>7. CASE ReadLoop
  <2>1. PICK w, i, s : w = top.w /\ i = top.i + 1 /\ s = reading[w][i]
    OBVIOUS
  <2>2. \/ Goto(<<>>) \/ Goto(<<Loop("read", w, i)>>)
        \/ Goto(<<FrameOf("parse", s, Null, <<>>, w, 0), Loop("read", w, i)>>)
    BY <1>7, <2>1 DEF ReadLoop, Return
  <2>3. /\ Loop("read", w, i).pc \notin ShiftPcs
        /\ FrameOf("parse", s, Null, <<>>, w, 0).pc \notin ShiftPcs
    BY GoesPcs
  <2> QED BY <1>1, <2>2, <2>3, GoesOne, GoesTwo DEF Goes
<1> QED BY <1>1, <1>2, <1>4, <1>5, <1>6, <1>7

(* A request is passed on, or a round goes on. *)
LEMMA PassesWires ==
  ASSUME TypeInv, TypeInv', OwnerInv, OwnerInv', WiresInv,
         \/ ScheduleInvalid \/ FailOver \/ GiveUp \/ FindNext \/ Unslot \/ Drain
         \/ Ready \/ Expire \/ SelectError \/ LateSend \/ LateRead \/ SendLoop \/ ReadLoop
  PROVE  WiresInv'
<1>1. /\ Goes /\ stack # <<>>
      /\ top.pc \in {"schedule", "failover", "probe", "unslot", "drain",
                     "select", "lateSend", "lateRead", "send", "read"}
  <2>1. CASE \/ ScheduleInvalid \/ FailOver \/ GiveUp \/ FindNext \/ Unslot \/ Drain
    <3>1. stack # <<>> /\ top.pc \in {"schedule", "failover", "probe", "unslot", "drain"}
      BY <2>1 DEF ScheduleInvalid, FailOver, GiveUp, FindNext, Unslot, Drain, At, top
    <3> QED BY <2>1, <3>1, PlacersGo
  <2>2. CASE Ready \/ Expire \/ SelectError \/ LateSend \/ LateRead \/ SendLoop \/ ReadLoop
    BY <2>2, RoundGoes
  <2> QED BY <2>1, <2>2
<1>2. UNCHANGED <<link, wire, partly, Slots>>
  <2>1. CASE Unslot
    <3>1. /\ stack # <<>> /\ top.pc = "unslot"
          /\ UNCHANGED <<conn, readreq, sendqueue, readqueue>>
          /\ sendreq' = [sendreq EXCEPT ![top.s] = Null]
      BY <2>1 DEF Unslot, At, top
    <3>2. IdleAt(top.s)
      <4>1. PICK own : Owned(own)
        BY DEF OwnerInv
      <4>2. FrameInv(own, top, Len(stack))
        BY <3>1, <4>1, TopFrame
      <4> QED BY <3>1, <4>2 DEF FrameInv
    <3>3. sendreq' = sendreq
      <4>1. sendreq[top.s] = Null
        BY <3>2 DEF IdleAt
      <4>2. \E D : sendreq \in [Server -> D]
        BY DEF TypeInv, SlotsOK
      <4> QED BY <3>1, <4>1, <4>2
    <3> QED BY <3>1, <3>3 DEF Slots, conn
  <2>2. CASE ScheduleInvalid \/ FailOver \/ GiveUp \/ FindNext \/ Drain
    BY <2>2 DEF ScheduleInvalid, FailOver, GiveUp, FindNext, Drain, conn, slots, Slots
  <2>3. CASE Ready \/ Expire \/ SelectError \/ LateSend \/ LateRead \/ SendLoop \/ ReadLoop
    BY <2>3, RoundGoes DEF conn, slots, Slots
  <2> QED BY <1>1, <2>1, <2>2, <2>3
<1>3. NoBlank'
  <2>1. CASE FindNext
    <3>1. PICK failed, index :
            request' = [request EXCEPT ![top.r] = [@ EXCEPT !.failed = failed, !.index = index]]
      BY <2>1 DEF FindNext
    <3>2. request \in Seq(Request) /\ DOMAIN request = Created
      BY DEF TypeInv, ReqsOK, Created
    <3>3. Len(request') = Len(request)
      BY <3>1, <3>2, ExceptSeq
    <3>4. ASSUME NEW r \in Created PROVE request'[r].kind = request[r].kind
      <4>1. request[r] \in Request
        BY <3>2
      <4>2. request'[r] = IF r = top.r THEN [request[r] EXCEPT !.failed = failed, !.index = index]
                          ELSE request[r]
        BY <3>1, <3>2
      <4> QED BY <4>1, <4>2 DEF Request
    <3> QED BY <3>3, <3>4 DEF WiresInv, NoBlank, Created
  <2>2. CASE \/ ScheduleInvalid \/ FailOver \/ GiveUp \/ Unslot \/ Drain
    <3>1. UNCHANGED request
      BY <2>2 DEF ScheduleInvalid, FailOver, GiveUp, Unslot, Drain, reqs
    <3> QED BY <3>1, BlankKept DEF WiresInv
  <2>3. CASE Ready \/ Expire \/ SelectError \/ LateSend \/ LateRead \/ SendLoop \/ ReadLoop
    BY <2>3, RoundGoes, BlankKept DEF WiresInv
  <2> QED BY <1>1, <2>1, <2>2, <2>3
<1>4. \A t \in Server : SameWire(t)
  BY <1>2, SameWires
<1> QED BY <1>1, <1>3, <1>4, WiresGo DEF ShiftPcs

(* Unread, SendEnd, ParseEnd, SendMore and ParseMore: nothing happens.     *)
LEMMA RestsWires ==
  ASSUME TypeInv, TypeInv', OwnerInv, OwnerInv', WiresInv,
         Unread \/ SendEnd \/ ParseEnd \/ SendMore \/ ParseMore
  PROVE  WiresInv'
<1>1. Shape
  BY DEF OwnerInv
<1>2. /\ stack # <<>> /\ top.pc \in {"unread", "xmit", "parse"}
      /\ UNCHANGED <<link, wire, Slots, request>>
      /\ UNCHANGED partly \/ (SendMore /\ \A t \in Server : partly'[t] = "answered" <=> partly[t] = "answered")
  <2>1. CASE SendMore
    <3>1. PICK s : s = top.s
      OBVIOUS
    <3>2. partly' = [partly EXCEPT ![s] = IF @ = "no" THEN "yes" ELSE @]
      BY <2>1, <3>1 DEF SendMore
    <3>3. \E D : partly \in [Server -> D]
      BY DEF TypeInv, ConnOK
    <3>4. \A t \in Server : partly'[t] = "answered" <=> partly[t] = "answered"
      BY <3>2, <3>3
    <3>5. /\ stack # <<>> /\ top.pc = "xmit" /\ UNCHANGED <<link, wire, Slots, request>>
      BY <2>1 DEF SendMore, Sending, At, top, slots, Slots, reqs
    <3> QED BY <2>1, <3>4, <3>5
  <2>2. CASE Unread \/ SendEnd \/ ParseEnd \/ ParseMore
    BY <2>2 DEF Unread, SendEnd, ParseEnd, ParseMore, Parsing, At, top, conn, slots, Slots, reqs
  <2> QED BY <2>1, <2>2
<1>3. Goto(<<>>)
  <2>1. CASE SendMore \/ ParseMore
    <3>1. top.pc \in RoundPcs /\ Proceed(<<>>)
      BY <2>1 DEF SendMore, ParseMore, Sending, Parsing, At, top, RoundPcs
    <3> QED BY <1>1, <1>2, <3>1, InRound
  <2>2. CASE Unread \/ SendEnd \/ ParseEnd
    BY <2>2 DEF Unread, SendEnd, ParseEnd, Return
  <2> QED BY <2>1, <2>2
<1>4. \A t \in Server : SameWire(t)
  BY <1>2 DEF SameWire, Slots
<1>5. NoBlank'
  BY <1>2, BlankKept DEF WiresInv
<1> QED BY <1>2, <1>3, <1>4, <1>5, WiresGo DEF Goes, ShiftPcs

(* A call of memcache.c. *)
LEMMA ScriptPcsGo == /\ \A pc \in ScriptPcs \cup {"select", "schedule"} : pc \notin ShiftPcs
                     /\ "deactivate" \notin ScriptPcs
BY DEF ScriptPcs, ShiftPcs

LEMMA ScriptWires ==
  ASSUME TypeInv, TypeInv', OwnerInv, OwnerInv', WiresInv, stack # <<>>, top.pc \in ScriptPcs,
         ScriptGoesOn, UNCHANGED <<conn, slots, reqs>>
  PROVE  WiresInv'
<1>1. Goes
  BY ScriptPcsGo DEF ScriptGoesOn, Goes
<1>2. \A t \in Server : SameWire(t)
  BY SameWires DEF conn, slots, Slots
<1>3. NoBlank'
  BY BlankKept DEF WiresInv, reqs
<1> QED BY <1>1, <1>2, <1>3, ScriptPcsGo, WiresGo

(* ... that makes a request, whose send buffer is not empty. *)
LEMMA CreatesWires ==
  ASSUME TypeInv, TypeInv', OwnerInv, OwnerInv', WiresInv, stack # <<>>, top.pc \in ScriptPcs,
         NEW kind, kind # "blank", NEW keys, NEW failed, NEW index,
         Alloc(NewRequest, kind, keys, failed, index),
         ScriptCreates, UNCHANGED <<conn, slots>>
  PROVE  WiresInv'
<1>1. PICK T : \E f \in Seq(T) : Schedules(f)
  BY DEF ScriptCreates
<1>2. PICK f \in Seq(T) : Schedules(f)
  BY <1>1
<1>3. stack' # <<>> /\ top'.pc = "schedule"
  <2>1. Len(f) > 0 /\ Goto(f) /\ f[1].pc = "schedule"
    BY <1>2 DEF Schedules
  <2> QED BY <1>2, <2>1, HeadAfter
<1>4. PICK new : new = NewRequest
  OBVIOUS
<1>5. NoBlank'
  <2>1. /\ Created' = Created \cup {new} /\ request'[new].kind = kind
        /\ \A r \in Created \ {new} : request'[r] = request[r]
    BY <1>4, Allocated
  <2> QED BY <2>1 DEF WiresInv, NoBlank
<1>6. \A t \in Server : SameWire(t)
  BY SameWires DEF conn, slots, Slots
<1> QED BY <1>3, <1>5, <1>6, ScriptPcsGo, WiresRest

LEMMA CallsWires ==
  ASSUME TypeInv, TypeInv', OwnerInv, OwnerInv', WiresInv, Redundancy <= 1,
         RunRounds \/ Store \/ Stored \/ CloneKey \/ Flush \/ Flushed \/ Ask \/ Asked
  PROVE  WiresInv'
<1>1. CASE RunRounds \/ Stored \/ Flushed \/ Asked \/ ((Store \/ Flush \/ Ask) /\ top.q = <<>>)
  BY <1>1, ScriptCalls, ScriptWires
<1>2. CASE (Store \/ Flush \/ Ask) /\ top.q # <<>>
  <2>1. PICK kind \in {"key", "null"} : \E keys : Alloc(NewRequest, kind, keys, {}, 0)
    BY <1>2 DEF Store, Flush, Ask
  <2>2. PICK keys : Alloc(NewRequest, kind, keys, {}, 0)
    BY <2>1
  <2>3. kind # "blank"
    OBVIOUS
  <2> QED BY <1>2, <2>2, <2>3, StoreCalls, CreatesWires
<1>3. CASE CloneKey
  <2>1. top.i + 1 >= Redundancy
    <3>1. top.i \in Nat
      <4>1. At("clone")
        BY <1>3 DEF CloneKey
      <4>2. FrameOK(top, Created) /\ top.pc = "clone"
        BY <4>1, AtTop
      <4> QED BY <4>2 DEF FrameOK
    <3>2. Redundancy \in Nat
      <4>1. config \in Configs
        BY DEF TypeInv, RestOK
      <4> QED BY <4>1, ConfigType
    <3> QED BY <3>1, <3>2
  <2>2. Goto(<<>>) /\ UNCHANGED reqs
    BY <1>3, <2>1 DEF CloneKey, Return
  <2>3. stack # <<>> /\ top.pc \in ScriptPcs /\ UNCHANGED <<conn, slots>>
    BY <1>3 DEF CloneKey, At, top, ScriptPcs
  <2> QED BY <2>2, <2>3, ScriptWires DEF ScriptGoesOn
<1> QED BY <1>1, <1>2, <1>3

LEMMA CallWires ==
  ASSUME TypeInv, TypeInv', OwnerInv, OwnerInv', WiresInv, NEW c \in Calls, Call(c)
  PROVE  WiresInv'
<1>1. stack = <<>>
  BY CallFrame, OwnerParts
<1>2. PICK x : stack' = <<x>> /\ x.pc \in {"store", "flush", "ask"}
  BY CallFrame, OwnerParts
<1>3. top'.pc \notin ShiftPcs
  BY <1>2 DEF top, ShiftPcs
<1>4. \A t \in Server : SameWire(t)
  BY SameWires DEF Call, conn, slots, Slots
<1>5. NoBlank'
  BY BlankKept DEF WiresInv, Call, reqs
<1> QED BY <1>1, <1>3, <1>4, <1>5, WiresRest

(* Time passes, or nothing happens: no frame is entered or left. *)
LEMMA StandsWires ==
  ASSUME TypeInv, TypeInv', OwnerInv, OwnerInv', WiresInv,
         (\E s \in Server : Tick(s)) \/ UNCHANGED vars
  PROVE  WiresInv'
<1>1. UNCHANGED <<link, wire, partly, slots, stack, request>>
  BY DEF Tick, vars, conn, reqs
<1>2. NoBlank'
  BY <1>1, BlankKept DEF WiresInv
<1>3. ASSUME NEW t \in Server PROVE WireInv(t)'
  <2>1. WireInv(t)
    BY DEF WiresInv
  <2>2. /\ Reads(t)' = Reads(t) /\ Sends(t)' = Sends(t) /\ SendSlot(t)' = SendSlot(t)
    BY <1>1 DEF Reads, Sends, SendSlot, Leaving, Leaves, ToRead, Slotting, At, top, Positions, slots
  <2>3. Unsent(t)' = Unsent(t)
    BY <1>1, <2>2 DEF Unsent, slots
  <2> QED BY <1>1, <2>1, <2>2, <2>3 DEF WireInv, Matched, Doing, top
<1> QED BY <1>2, <1>3 DEF WiresInv

(* A server has failed.                                                    *)
LEMMA FailsWires ==
  ASSUME TypeInv, TypeInv', OwnerInv, OwnerInv', RoundsInv, RoundsInv', WiresInv,
         ScheduleRefused \/ Late \/ SendError \/ ParseError \/ ParseEof
  PROVE  WiresInv'
<1>1. PICK s : s = top.s
  OBVIOUS
<1>2. PICK x, y, z : x = sendreq[s] /\ y = readreq[s] /\ z = top.w
  OBVIOUS
<1>3. Shape /\ Shape' /\ Chained'
  BY DEF OwnerInv, RoundsInv
<1>4. /\ stack # <<>> /\ top.pc \in {"schedule", "late", "xmit", "parse"}
      /\ UNCHANGED <<link, partly, Slots, request>>
  BY DEF ScheduleRefused, Late, SendError, ParseError, ParseEof, Sending, Parsing,
         At, top, conn, slots, Slots, reqs
<1>5. s \in Server
  BY <1>1, <1>4, TopServer DEF ServerPcs
<1>6. \A t \in Server : t # s => SameWire(t)
  <2>1. \A t \in Server : t # s => wire'[t] = wire[t]
    <3>1. CASE ParseError
      <4>1. wire' = [wire EXCEPT ![s] = Tail(@)]
        BY <1>1, <3>1 DEF ParseError
      <4>2. \E D : wire \in [Server -> D]
        BY DEF TypeInv, ConnOK
      <4> QED BY <4>1, <4>2
    <3>2. CASE ScheduleRefused \/ Late \/ SendError \/ ParseEof
      BY <3>2 DEF ScheduleRefused, Late, SendError, ParseEof, conn
    <3> QED BY <3>1, <3>2
  <2> QED BY <1>4, <2>1 DEF SameWire, Slots
<1>7. \/ Goto(<<Frame("deactivate", s, Null), Frame("unslot", s, top.r)>>)
      \/ Goto(<<Frame("deactivate", s, Null), FrameOf("unread", s, Null, <<>>, z, 0)>>)
      \/ Goto(<<Frame("deactivate", s, Null)>>)
      \/ Goto(<<Frame("retry", s, top.r)>>)
      \/ Goto(<<Frame("retry", s, x)>>)
      \/ Goto(<<Frame("retry", s, y)>>)
  <2>1. CASE ScheduleRefused \/ Late
    BY <1>1, <2>1 DEF ScheduleRefused, Late
  <2>2. CASE SendError \/ ParseError \/ ParseEof
    <3>1. \A f : Proceed(f) => Goto(f)
      <4>1. top.pc \in RoundPcs
        BY <2>2 DEF SendError, ParseError, ParseEof, Sending, Parsing, At, top, RoundPcs
      <4> QED BY <1>3, <1>4, <4>1, InRound
    <3>2. \/ Proceed(<<Frame("deactivate", s, Null), FrameOf("unread", s, Null, <<>>, z, 0)>>)
          \/ Proceed(<<Frame("deactivate", s, Null)>>)
          \/ Proceed(<<Frame("retry", s, x)>>)
          \/ Proceed(<<Frame("retry", s, y)>>)
      BY <1>1, <1>2, <2>2 DEF SendError, ParseError, ParseEof
    <3> QED BY <3>1, <3>2
  <2> QED BY <2>1, <2>2
<1>8. /\ Frame("deactivate", s, Null).pc = "deactivate" /\ Frame("deactivate", s, Null).s = s
      /\ \A r : Frame("retry", s, r).pc = "retry"
  BY DEF Frame, FrameOf
<1>9. /\ \A a : Goto(<<a>>) => stack' # <<>> /\ top' = a
      /\ \A a, b : Goto(<<a, b>>) => stack' # <<>> /\ top' = a
  BY <1>3, <1>4, TopAfter
<1>10. stack' # <<>> => top'.pc # "retry"
  BY <1>3, NeverRetriesNext
<1>11. stack' # <<>> /\ top'.pc = "deactivate" /\ top'.s = s
  BY <1>7, <1>8, <1>9, <1>10
<1>12. NoBlank'
  BY <1>4, BlankKept DEF WiresInv
<1> QED BY <1>4, <1>5, <1>6, <1>11, <1>12, WiresFail DEF ShiftPcs

(* A server that is not deactivated has its place on the wire. *)
LEMMA MatchedAt ==
  ASSUME WiresInv, NEW s \in Server, ~Doing(s, {"deactivate"})
  PROVE  Matched(s)
BY DEF WiresInv, WireInv

LEMMA MatchedAfter ==
  ASSUME NEW s, NEW q \in Seq(Nat), Reads(s)' = wire'[s] \o q,
         link'[s] = "up" => /\ q = IF partly'[s] = "answered" THEN sendqueue'[s] ELSE Sends(s)'
                            /\ partly'[s] = "answered" => SendSlot(s)' # Null
  PROVE  WireInv(s)'
BY DEF WireInv, Matched, Unsent

LEMMA Numbers ==
  ASSUME NEW q \in Seq(Created)
  PROVE  q \in Seq(Nat)
<1>1. Created \subseteq Nat
  BY CreatedNumbers
<1> QED BY <1>1, SeqMonotonic

LEMMA WireTypes ==
  ASSUME TypeInv, NEW s \in Server
  PROVE  /\ wire[s] \in Seq(Nat) /\ sendqueue[s] \in Seq(Nat) /\ readqueue[s] \in Seq(Nat)
         /\ Reads(s) \in Seq(Nat) /\ Sends(s) \in Seq(Nat)
         /\ ToRead(s) \in Seq(Nat) /\ ToSend(s) \in Seq(Nat)
         /\ sendreq[s] \in Nat /\ readreq[s] \in Nat
<1>1. /\ wire[s] \in Seq(Nat) /\ sendqueue[s] \in Seq(Nat) /\ readqueue[s] \in Seq(Nat)
      /\ ToRead(s) \in Seq(Nat) /\ ToSend(s) \in Seq(Nat)
      /\ sendreq[s] \in Nat /\ readreq[s] \in Nat
  <2>1. /\ wire[s] \in Seq(Created) /\ sendqueue[s] \in Seq(Created)
        /\ readqueue[s] \in Seq(Created) /\ ToRead(s) \in Seq(Created) /\ ToSend(s) \in Seq(Created)
    BY SlotTypesOf DEF TypeInv, SlotsOK, ConnOK
  <2>2. sendreq[s] \in Created \cup {Null} /\ readreq[s] \in Created \cup {Null}
    BY DEF TypeInv, SlotsOK
  <2>3. sendreq[s] \in Nat /\ readreq[s] \in Nat
    BY <2>2, CreatedNumbers DEF Null
  <2> QED BY <2>1, <2>3, Numbers
<1>2. Reads(s) \in Seq(Nat)
  BY <1>1 DEF Reads
<1>3. SendSlot(s) \in Nat
  <2>1. CASE Slotting(s)
    <3>1. top \in Frames(Created) /\ top.pc = "slot"
      BY <2>1, AtTop DEF Slotting
    <3>2. top.r \in Created \cup {Null}
      BY <3>1 DEF Frames, FrameOK
    <3> QED BY <2>1, <3>2, CreatedNumbers DEF SendSlot, Null
  <2>2. CASE ~Slotting(s)
    BY <1>1, <2>2 DEF SendSlot
  <2> QED BY <2>1, <2>2
<1>4. Sends(s) \in Seq(Nat)
  BY <1>1, <1>3, ConsProperties DEF Sends, Slotted
<1> QED BY <1>1, <1>2, <1>4

WireTyped == \A s \in Server :
  /\ wire[s] \in Seq(Nat) /\ sendqueue[s] \in Seq(Nat) /\ readqueue[s] \in Seq(Nat)
  /\ Reads(s) \in Seq(Nat) /\ Sends(s) \in Seq(Nat)

LEMMA WireTypesHold == TypeInv => WireTyped
BY WireTypes DEF WireTyped

LEMMA WireTypesNext == TypeInv' => WireTyped'
BY WireTypesHold, PTL

(* A stream is there, or a new one. *)
LEMMA OpenedWire ==
  ASSUME TypeInv, NEW s \in Server, Open(s)
  PROVE  /\ \A t \in Server : t # s =>
              link'[t] = link[t] /\ wire'[t] = wire[t] /\ partly'[t] = partly[t]
         /\ \/ IsOpen(s) /\ UNCHANGED <<link, wire, partly>>
            \/ ~IsOpen(s) /\ link'[s] = "up" /\ wire'[s] = <<>> /\ partly'[s] = "no"
<1>1. DOMAIN wire = Server /\ DOMAIN link = Server /\ DOMAIN partly = Server
  BY DEF TypeInv, ConnOK
<1>2. CASE IsOpen(s) /\ UNCHANGED conn
  BY <1>2 DEF conn
<1>3. CASE /\ ~IsOpen(s)
           /\ link' = [link EXCEPT ![s] = "up"]
           /\ wire' = [wire EXCEPT ![s] = <<>>]
           /\ partly' = [partly EXCEPT ![s] = "no"]
  BY <1>1, <1>3
<1> QED BY <1>2, <1>3 DEF Open

(* The request that is slotted is not another one. *)
LEMMA SlotBlank ==
  ASSUME TypeInv, NoBlank, NEW r, NEW s, request' = [request EXCEPT ![r] = [@ EXCEPT !.io = s]]
  PROVE  NoBlank'
<1>1. request \in Seq(Request) /\ DOMAIN request = Created
  BY DEF TypeInv, ReqsOK, Created
<1>2. Len(request') = Len(request)
  BY <1>1, ExceptSeq
<1>3. ASSUME NEW x \in Created PROVE request'[x].kind = request[x].kind
  <2>1. request[x] \in Request
    BY <1>1
  <2>2. request'[x] = IF x = r THEN [request[x] EXCEPT !.io = s] ELSE request[x]
    BY <1>1
  <2> QED BY <2>1, <2>2 DEF Request
<1> QED BY <1>2, <1>3 DEF NoBlank, Created

(* A request is sent later than those that wait already. *)
LEMMA ScheduleWires ==
  ASSUME TypeInv, TypeInv', OwnerInv, OwnerInv', RoundsInv, WiresInv, Schedule
  PROVE  WiresInv'
<1>1. PICK s, r, n : s = top.s /\ r = top.r /\ n = Len(stack)
  OBVIOUS
<1>2. stack # <<>> /\ top.pc = "schedule" /\ s \in Server /\ r \in Created /\ r \in Nat
  BY <1>1, AtTop, CreatedNumbers DEF Schedule, FrameOK, ServerPcs, RequestPcs
<1>3. Goto(<<>>)
  BY DEF Schedule, Return
<1>4. Shape /\ Shape'
  BY DEF OwnerInv
<1>5. PICK own : Owned(own)
  BY DEF OwnerInv
<1>6. own[r] = InFrame(n)
  <2>1. FrameInv(own, top, n)
    BY <1>1, <1>2, <1>5, TopFrame
  <2> QED BY <1>1, <1>2, <2>1 DEF FrameInv, HeldBy
<1>7. Steady
  BY <1>2, <1>4, TopSteady DEF ShiftPcs
<1>8. Steady'
  <2>1. PICK e : e = <<>>
    OBVIOUS
  <2>2. e \in Seq({}) /\ Goto(e) /\ \A i \in 1 .. Len(e) : FALSE
    BY <1>3, <2>1
  <2> QED BY <1>2, <1>7, <2>2, SteadyStep
<1>9. \A t \in Server : r \notin ToSet(ToRead(t))
  <2> SUFFICES ASSUME NEW t \in Server PROVE r \notin ToSet(ToRead(t))
    OBVIOUS
  <2>1. Pipeline(own, t, ToSend(t), ToRead(t))
    BY <1>5, <1>7, SendsAreRead DEF Owned
  <2> QED BY <1>6, <2>1, Places DEF Pipeline
<1>10. /\ Reads(s)' = Append(ToRead(s), r) /\ Sends(s)' = Append(ToSend(s), r)
       /\ SendSlot(s)' # Null /\ \A t \in Server : t # s => Same(t)
  BY <1>1, <1>2, <1>5, <1>7, <1>8, <1>9, ScheduleSlots DEF Owned
<1>11. Reads(s) = ToRead(s) /\ Sends(s) = ToSend(s) /\ SendSlot(s) = sendreq[s]
  BY <1>7, SteadySlots
<1>12. stack' = <<>> \/ top'.pc \notin ShiftPcs
  BY <1>2, <1>3, <1>4, TopAfter DEF ShiftPcs
<1>13. PICK w, q, u : /\ w = wire[s] /\ q \in Seq(Nat) /\ Reads(s) = w \o q /\ u = sendqueue[s]
                      /\ link[s] = "up" => /\ q = Unsent(s)
                                           /\ partly[s] = "answered" => SendSlot(s) # Null
  <2>1. Matched(s)
    BY <1>1, <1>2, MatchedAt DEF Doing
  <2> QED BY <2>1 DEF Matched
<1>14. w \in Seq(Nat) /\ u \in Seq(Nat) /\ sendreq[s] \in Nat /\ Append(q, r) \in Seq(Nat)
  BY <1>2, <1>13, WireTypes, AppendProperties
<1>15. Reads(s)' = w \o Append(q, r)
  <2>1. PICK S : S = Nat
    OBVIOUS
  <2>2. w \in Seq(S) /\ q \in Seq(S) /\ r \in S
    BY <1>2, <1>13, <1>14, <2>1
  <2>3. Append(w \o q, r) = w \o Append(q, r)
    <3>1. <<r>> \in Seq(S) /\ Append(q, r) = q \o <<r>>
      BY <2>2, AppendIsConcat
    <3>2. w \o q \in Seq(S)
      BY <2>2, ConcatProperties
    <3>3. Append(w \o q, r) = (w \o q) \o <<r>>
      BY <2>2, <3>2, AppendIsConcat
    <3>4. (w \o q) \o <<r>> = w \o (q \o <<r>>)
      BY <2>2, <3>1, ConcatAssociative
    <3> QED BY <3>1, <3>3, <3>4
  <2>4. Reads(s)' = Append(Reads(s), r) /\ Reads(s) = w \o q
    BY <1>10, <1>11, <1>13, Zenon
  <2> QED BY <2>3, <2>4, Zenon
<1>16. CASE sendreq[s] # Null
  <2>1. /\ UNCHANGED conn /\ sendreq' = sendreq /\ request' = request
        /\ sendqueue' = [sendqueue EXCEPT ![s] = Push(@, r)]
    BY <1>1, <1>16 DEF Schedule
  <2>2. sendqueue'[s] = Append(u, r)
    <3>1. sendqueue'[s] = Push(u, r) /\ u \in Seq(Created) /\ sendreq[s] \in Created
      BY <1>2, <1>13, <1>16, <2>1 DEF TypeInv, SlotsOK
    <3>2. ToSend(s) = <<sendreq[s]>> \o u
      BY <1>13, <1>16 DEF ToSend, Slotted
    <3>3. ToSet(u) \subseteq ToSet(ToSend(s))
      BY <3>1, <3>2, ConsProperties
    <3>4. r \notin ToSet(u)
      BY <1>2, <1>5, <1>7, <1>9, <3>3, SendsAreRead DEF Owned
    <3> QED BY <1>2, <3>1, <3>4, PushAdds
  <2>3. WireInv(s)'
    <3>1. UNCHANGED <<link, wire, partly>>
      BY <2>1 DEF conn
    <3> QED BY <1>10, <1>11, <1>13, <1>14, <1>15, <2>2, <3>1, MatchedAfter DEF Unsent
  <2>4. \A t \in Server : t # s => SameWire(t)
    BY <1>10, <2>1 DEF SameWire, Same, conn
  <2>5. NoBlank'
    BY <2>1, BlankKept DEF WiresInv
  <2> QED BY <1>1, <1>2, <1>12, <2>3, <2>4, <2>5, WiresStep DEF ShiftPcs
<1>17. CASE sendreq[s] = Null
  <2>1. Slot(s, r)
    BY <1>1, <1>17 DEF Schedule
  <2>2. /\ Open(s) /\ request' = [request EXCEPT ![r] = [@ EXCEPT !.io = s]]
    BY <2>1 DEF Slot
  <2>3. ToSend(s) = <<>>
    <3>1. ServerInv(own, s)
      BY <1>2, <1>5 DEF Owned, ServersInv
    <3> QED BY <1>11, <1>17, <3>1 DEF ServerInv, ToSend, Slotted
  <2>4. /\ \A t \in Server : t # s =>
              link'[t] = link[t] /\ wire'[t] = wire[t] /\ partly'[t] = partly[t]
        /\ \/ IsOpen(s) /\ UNCHANGED <<link, wire, partly>>
           \/ ~IsOpen(s) /\ link'[s] = "up" /\ wire'[s] = <<>> /\ partly'[s] = "no"
    BY <1>2, <2>2, OpenedWire
  <2>5. WireInv(s)'
    <3>1. CASE IsOpen(s) /\ UNCHANGED <<link, wire, partly>>
      <4>1. link[s] = "up" => q = ToSend(s) /\ partly[s] # "answered"
        BY <1>11, <1>13, <1>17 DEF Unsent
      <4>2. link'[s] = "up" => Append(q, r) = Sends(s)' /\ partly'[s] # "answered"
        BY <1>10, <3>1, <4>1
      <4> QED BY <1>13, <1>14, <1>15, <3>1, <4>2, MatchedAfter
    <3>2. CASE ~IsOpen(s) /\ link'[s] = "up" /\ wire'[s] = <<>> /\ partly'[s] = "no"
      <4>1. ToRead(s) = <<>>
        <5>1. ConnectionInv(s)
          BY <1>2 DEF RoundsInv, Served, RoundInv
        <5>2. ~EarlyAt(s)
          BY <1>2 DEF EarlyAt, UnqueueAt, Doing
        <5>3. IdleAt(s)
          BY <3>2, <5>1, <5>2 DEF ConnectionInv
        <5> QED BY <5>3 DEF IdleAt, ToRead, Slotted
      <4>2. Reads(s)' = Sends(s)' /\ Sends(s)' \in Seq(Nat)
        BY <1>2, <1>10, <2>3, <4>1, WireTypesNext DEF WireTyped
      <4>3. Reads(s)' = wire'[s] \o Sends(s)'
        BY <3>2, <4>2, ConcatEmptySeq
      <4> QED BY <3>2, <4>2, <4>3, MatchedAfter
    <3> QED BY <2>4, <3>1, <3>2
  <2>6. \A t \in Server : t # s => SameWire(t)
    BY <1>10, <2>4 DEF SameWire, Same
  <2>7. NoBlank'
    BY <2>2, SlotBlank DEF WiresInv
  <2> QED BY <1>1, <1>2, <1>12, <2>5, <2>6, <2>7, WiresStep DEF ShiftPcs
<1> QED BY <1>16, <1>17

(* mmc_pool_slot_send puts the next request into the slot. *)
LEMMA SlotSendWires ==
  ASSUME TypeInv, TypeInv', OwnerInv, OwnerInv', RoundsInv, WiresInv, SlotSend
  PROVE  WiresInv'
<1>1. PICK s, r : s = top.s /\ r = top.r
  OBVIOUS
<1>2. stack # <<>> /\ top.pc = "slot" /\ s \in Server /\ r \in Created \cup {Null}
  BY <1>1, AtTop DEF SlotSend, FrameOK, ServerPcs
<1>3. /\ UNCHANGED <<readreq, sendqueue, readqueue>> /\ Goto(<<>>)
      /\ sendreq' = [sendreq EXCEPT ![s] = r]
      /\ r = Null => UNCHANGED <<conn, request>>
      /\ r # Null => Open(s) /\ request' = [request EXCEPT ![r] = [@ EXCEPT !.io = s]]
  BY <1>1 DEF SlotSend, Return, Slot
<1>4. Shape /\ Chained
  BY DEF OwnerInv, RoundsInv
<1>5. /\ stack' # <<>> /\ top' = second /\ second.s = s
      /\ second.pc \in {"xmit", "unqueue"}
  BY <1>1, <1>2, <1>3, <1>4, Resumes
<1>6. sendreq'[s] = r /\ \A t \in Server : t # s => sendreq'[t] = sendreq[t]
  BY <1>2, <1>3 DEF TypeInv, SlotsOK
<1>7. /\ SendSlot(s) = r /\ SendSlot(s)' = r
      /\ EarlyAt(s) <=> second.pc = "unqueue"
  BY <1>1, <1>2, <1>5, <1>6 DEF SendSlot, Slotting, At, top, EarlyAt, UnqueueAt, Doing
<1>8. Sends(s)' = Sends(s) /\ Reads(s)' = Reads(s)
  <2>1. Leaving(s)' <=> Leaving(s)
    BY <1>2, <1>3, <1>4, LeavingKept
  <2> QED BY <1>3, <1>7, <2>1 DEF Reads, ToRead, Sends
<1>9. ConnectionInv(s) /\ ~IdleAt(s)
  <2>1. PICK own : Owned(own)
    BY DEF OwnerInv
  <2>2. FrameInv(own, top, Len(stack))
    BY <1>2, <2>1, TopFrame
  <2> QED BY <1>1, <1>2, <2>2 DEF FrameInv, IdleAt, RoundsInv, Served, RoundInv
<1>10. PICK w, q : /\ w = wire[s] /\ q \in Seq(Nat) /\ Reads(s) = w \o q
                   /\ link[s] = "up" => /\ q = Unsent(s)
                                        /\ partly[s] = "answered" => SendSlot(s) # Null
  <2>1. Matched(s)
    BY <1>1, <1>2, MatchedAt DEF Doing
  <2> QED BY <2>1 DEF Matched
<1>11. /\ \A t \in Server : t # s =>
             link'[t] = link[t] /\ wire'[t] = wire[t] /\ partly'[t] = partly[t]
       /\ \/ UNCHANGED <<link, wire, partly>>
          \/ ~IsOpen(s) /\ link'[s] = "up" /\ wire'[s] = <<>> /\ partly'[s] = "no"
  BY <1>2, <1>3, OpenedWire DEF conn
<1>12. WireInv(s)'
  <2>1. CASE UNCHANGED <<link, wire, partly>>
    <3>1. link'[s] = "up" => /\ q = IF partly'[s] = "answered" THEN sendqueue'[s] ELSE Sends(s)'
                             /\ partly'[s] = "answered" => SendSlot(s)' # Null
      BY <1>3, <1>7, <1>8, <1>10, <2>1 DEF Unsent
    <3> QED BY <1>8, <1>10, <2>1, <3>1, MatchedAfter
  <2>2. CASE ~IsOpen(s) /\ link'[s] = "up" /\ wire'[s] = <<>> /\ partly'[s] = "no"
    <3>1. EarlyAt(s)
      BY <1>9, <2>2 DEF ConnectionInv
    <3>2. Leaving(s)
      <4>1. Len(stack) \in Nat \ {0} /\ top = stack[1]
        BY <1>2, FirstElement DEF TypeInv, StackOK, top
      <4>2. PICK n : n = Len(stack)
        OBVIOUS
      <4>3. n \in Nat \ {0} /\ Positions = 1 .. n
        BY <4>1, <4>2 DEF Positions
      <4>4. 1 \in Positions /\ 1 + 1 = 2 /\ 2 + 1 = 3
        BY <4>3
      <4>5. 2 \in Positions /\ stack[2].pc = "unqueue"
        BY <1>2, <1>4, <1>7, <3>1, <4>1, <4>4 DEF Chained, second
      <4>6. 3 \in Positions /\ Follows(stack[2], stack[3])
        BY <1>4, <4>4, <4>5 DEF Chained
      <4>7. stack[3].pc = "early" /\ stack[3].s = s
        BY <1>5, <4>5, <4>6 DEF Follows, second
      <4> QED BY <4>6, <4>7 DEF Leaving, Leaves
    <3>3. Reads(s)' = Sends(s)'
      BY <1>8, <1>9, <3>1, <3>2 DEF ConnectionInv, Reads
    <3>4. Sends(s)' \in Seq(Nat)
      BY <1>2, WireTypesNext DEF WireTyped
    <3>5. Reads(s)' = wire'[s] \o Sends(s)'
      BY <2>2, <3>3, <3>4, ConcatEmptySeq
    <3> QED BY <2>2, <3>4, <3>5, MatchedAfter
  <2> QED BY <1>11, <2>1, <2>2
<1>13. \A t \in Server : t # s => SameWire(t)
  BY <1>3, <1>6, <1>11 DEF SameWire
<1>14. NoBlank'
  BY <1>3, SlotBlank, BlankKept DEF WiresInv
<1> QED BY <1>1, <1>2, <1>5, <1>12, <1>13, <1>14, WiresStep

(* Where no code shifts the slots of a server, these hold its requests. *)
LEMMA SlottedAtNext ==
  ASSUME TypeInv', OwnerInv', NEW s \in Server,
         stack' = <<>> \/ top'.pc \notin ShiftPcs \/ top'.s # s
  PROVE  Sends(s)' = ToSend(s)' /\ Reads(s)' = ToRead(s)' /\ SendSlot(s)' = sendreq'[s]
<1>1. Elsewhere'
  <2>1. Shape'
    BY DEF OwnerInv
  <2> QED BY <2>1, ElsewhereSlots, PTL
<1> QED BY <1>1 DEF Elsewhere, SlottedAt

(* A server is deactivated: nothing is expected of it any more. *)
LEMMA DeactivateWires ==
  ASSUME TypeInv, TypeInv', OwnerInv, OwnerInv', RoundsInv, WiresInv, Deactivate
  PROVE  WiresInv'
<1>1. PICK s : s = top.s
  OBVIOUS
<1>2. /\ stack # <<>> /\ top.pc = "deactivate" /\ Vacate(s) /\ Hangup(s)
      /\ UNCHANGED request
      /\ \E mine : Goto(<<FrameOf("drain", s, Null, mine, 0, 0)>>)
  BY <1>1 DEF Deactivate, At, top, reqs
<1>3. s \in Server
  BY <1>1, <1>2, TopServer DEF ServerPcs
<1>4. stack' # <<>> /\ top'.pc = "drain"
  <2>1. PICK mine : Goto(<<FrameOf("drain", s, Null, mine, 0, 0)>>)
    BY <1>2
  <2>2. Shape
    BY DEF OwnerInv
  <2>3. stack' # <<>> /\ top' = FrameOf("drain", s, Null, mine, 0, 0)
    BY <1>2, <2>1, <2>2, TopAfter
  <2> QED BY <2>3 DEF FrameOf
<1>5. /\ link'[s] = "none" /\ wire'[s] = <<>>
      /\ readreq'[s] = Null /\ readqueue'[s] = <<>>
      /\ \A t \in Server : t # s => SameWire(t)
  BY <1>2, <1>3 DEF Vacate, Hangup, TypeInv, ConnOK, SlotsOK, SameWire
<1>6. WireInv(s)'
  <2>1. Reads(s)' = ToRead(s)'
    BY <1>3, <1>4, SlottedAtNext DEF ShiftPcs
  <2>2. ToRead(s)' = <<>>
    BY <1>5 DEF ToRead, Slotted
  <2>3. PICK e : e = <<>>
    OBVIOUS
  <2>4. e \in Seq(Nat) /\ <<>> \o e = e
    BY <2>3, ConcatEmptySeq
  <2>5. Reads(s)' = wire'[s] \o e
    BY <1>5, <2>1, <2>2, <2>3, <2>4
  <2> QED BY <1>5, <2>4, <2>5, MatchedAfter
<1>7. NoBlank'
  BY <1>2, BlankKept DEF WiresInv
<1> QED BY <1>1, <1>2, <1>3, <1>4, <1>5, <1>6, <1>7, WiresStep DEF ShiftPcs

(* The handlers that return: the send queue of the round, and the next     *)
(* request to read.                                                        *)
LEMMA UnqueueWires ==
  ASSUME TypeInv, TypeInv', OwnerInv, OwnerInv', RoundsInv, WiresInv, Unqueue
  PROVE  WiresInv'
<1>1. PICK s : s = top.s
  OBVIOUS
<1>2. stack # <<>> /\ top.pc = "unqueue" /\ s \in Server
  BY <1>1, AtTop DEF Unqueue, FrameOK, ServerPcs
<1>3. UNCHANGED <<link, wire, partly, Slots, request>> /\ Goto(<<>>)
  BY DEF Unqueue, Return, conn, slots, Slots, reqs
<1>4. Shape /\ Chained
  BY DEF OwnerInv, RoundsInv
<1>5. stack' # <<>> /\ top' = second /\ second.s = s /\ second.pc = "early"
  BY <1>1, <1>2, <1>3, <1>4, Resumes
<1>6. /\ Reads(s)' = Reads(s) /\ Sends(s)' = Sends(s) /\ SendSlot(s)' = SendSlot(s)
  <2>1. Leaving(s)' <=> Leaving(s)
    BY <1>2, <1>3, <1>4, LeavingKept DEF Slots
  <2>2. ~Slotting(s) /\ ~Slotting(s)'
    BY <1>2, <1>5 DEF Slotting, At, top
  <2> QED BY <1>3, <2>1, <2>2 DEF Reads, ToRead, Sends, SendSlot, Slots
<1>7. WireInv(s)'
  <2>1. Matched(s)
    BY <1>1, <1>2, MatchedAt DEF Doing
  <2>2. Unsent(s)' = Unsent(s)
    BY <1>3, <1>6 DEF Unsent, Slots
  <2> QED BY <1>3, <1>6, <2>1, <2>2 DEF WireInv, Matched
<1>8. \A t \in Server : SameWire(t)
  BY <1>3, SameWires
<1>9. NoBlank'
  BY <1>3, BlankKept DEF WiresInv
<1> QED BY <1>1, <1>2, <1>5, <1>7, <1>8, <1>9, WiresStep

LEMMA EarlyDoneWires ==
  ASSUME TypeInv, TypeInv', OwnerInv, OwnerInv', RoundsInv, WiresInv, EarlyDone
  PROVE  WiresInv'
<1>1. PICK s : s = top.s
  OBVIOUS
<1>2. stack # <<>> /\ top.pc = "early" /\ s \in Server
  BY <1>1, AtTop DEF EarlyDone, FrameOK, ServerPcs
<1>3. /\ UNCHANGED <<link, wire, partly, sendreq, sendqueue, request>> /\ Goto(<<>>)
      /\ readreq' = [readreq EXCEPT ![s] = Popped(readqueue[s], Null)]
      /\ readqueue' = [readqueue EXCEPT ![s] = Rest(@)]
  BY <1>1 DEF EarlyDone, Return, conn
<1>4. Shape /\ Chained
  BY DEF OwnerInv, RoundsInv
<1>5. stack' # <<>> /\ top' = second /\ second.s = s /\ second.pc = "parse"
  BY <1>1, <1>2, <1>3, <1>4, Resumes
<1>6. /\ readreq'[s] = Popped(readqueue[s], Null) /\ readqueue'[s] = Rest(readqueue[s])
      /\ \A t \in Server : t # s => readreq'[t] = readreq[t] /\ readqueue'[t] = readqueue[t]
  BY <1>2, <1>3 DEF TypeInv, SlotsOK
<1>7. /\ Reads(s)' = Reads(s) /\ Sends(s)' = Sends(s) /\ SendSlot(s)' = SendSlot(s)
  <2>1. PICK e : e = <<>>
    OBVIOUS
  <2>2. e \in Seq({}) /\ Goto(e) /\ \A i \in 1 .. Len(e) : FALSE
    BY <1>3, <2>1
  <2>3. Leaves(top, s)
    BY <1>1, <1>2 DEF Leaves
  <2> QED BY <1>1, <1>2, <1>3, <1>4, <1>5, <1>6, <2>2, <2>3, ReadNext
<1>8. WireInv(s)'
  <2>1. Matched(s)
    BY <1>1, <1>2, MatchedAt DEF Doing
  <2>2. Unsent(s)' = Unsent(s)
    BY <1>3, <1>7 DEF Unsent
  <2> QED BY <1>3, <1>7, <2>1, <2>2 DEF WireInv, Matched
<1>9. \A t \in Server : t # s => SameWire(t)
  BY <1>3, <1>6 DEF SameWire
<1>10. NoBlank'
  BY <1>3, BlankKept DEF WiresInv
<1> QED BY <1>1, <1>2, <1>5, <1>8, <1>9, <1>10, WiresStep

(* A request is sent: it is on the wire from now on. *)
LEMMA SendDoneWires ==
  ASSUME TypeInv, TypeInv', OwnerInv, OwnerInv', RoundsInv, WiresInv, SendDone
  PROVE  WiresInv'
<1>1. PICK s, r, x, p : /\ s = top.s /\ r = sendreq[s] /\ x = Popped(sendqueue[s], Null)
                        /\ p = sendqueue[s]
  OBVIOUS
<1>2. /\ stack # <<>> /\ top.pc = "xmit" /\ r # Null
      /\ UNCHANGED <<link, sendreq, readreq, readqueue, request>>
      /\ Proceed(<<Frame("slot", s, x), top>>)
      /\ wire' = [wire EXCEPT ![s] =
           IF link[s] = "eof" \/ partly[s] = "answered" \/ request[r].kind = "blank"
           THEN @ ELSE Append(@, r)]
      /\ partly' = [partly EXCEPT ![s] = "no"]
      /\ sendqueue' = [sendqueue EXCEPT ![s] = IF in_select THEN Rest(@) ELSE @]
  BY <1>1 DEF SendDone, Sending, At, top, reqs
<1>3. s \in Server
  BY <1>1, <1>2, TopServer DEF ServerPcs
<1>4. Shape /\ Shape' /\ Steady
  BY <1>2, TopSteady DEF OwnerInv, ShiftPcs
<1>5. in_select /\ Goto(<<Frame("slot", s, x), top>>)
  BY <1>2, <1>4, InRound DEF RoundPcs
<1>6. PICK a, b : a = Frame("slot", s, x) /\ b = top
  OBVIOUS
<1>7. PICK e, T : e = <<a, b>> /\ T = {a, b}
  OBVIOUS
<1>8. /\ e \in Seq(T) /\ Len(e) = 2 /\ e[1] = a /\ e[2] = b
      /\ 1 \in 1 .. Len(e) /\ \A i \in 1 .. Len(e) : i = 1 \/ i = 2
  BY <1>7
<1>9. Goto(e) /\ a.pc = "slot" /\ b.pc = "xmit"
  BY <1>2, <1>5, <1>6, <1>7 DEF Frame, FrameOf
<1>10. sendqueue'[s] = Rest(p) /\ \A t \in Server : t # s => sendqueue'[t] = sendqueue[t]
  BY <1>1, <1>2, <1>3, <1>5 DEF TypeInv, SlotsOK
<1>11. Sends(s)' = p /\ stack' # <<>> /\ top'.s = s /\ r \in Created
  <2>1. PICK own : Owned(own)
    BY DEF OwnerInv
  <2>2. ServersInv(own)
    BY <2>1 DEF Owned
  <2>3. e[1] = Frame("slot", s, Popped(sendqueue[s], Null))
    BY <1>1, <1>6, <1>8
  <2> QED BY <1>1, <1>2, <1>3, <1>4, <1>8, <1>9, <1>10, <2>2, <2>3, SendNext
<1>12. Reads(s) = ToRead(s) /\ Sends(s) = ToSend(s) /\ SendSlot(s) = sendreq[s]
  BY <1>3, <1>4, SteadySlots
<1>13. Reads(s)' = Reads(s)
  <2>1. Leaving(s)' <=> \E i \in 1 .. Len(e) : Leaves(e[i], s)'
    BY <1>2, <1>4, <1>8, <1>9, LeavingAfter
  <2>2. ~Leaving(s)'
    BY <1>8, <1>9, <2>1 DEF Leaves
  <2> QED BY <1>2, <1>12, <2>2 DEF Reads, ToRead
<1>14. /\ partly'[s] = "no" /\ link'[s] = link[s]
       /\ wire'[s] = IF link[s] = "eof" \/ partly[s] = "answered" THEN wire[s] ELSE Append(wire[s], r)
       /\ \A t \in Server : t # s => wire'[t] = wire[t] /\ partly'[t] = partly[t]
  <2>1. request[r].kind # "blank"
    BY <1>11 DEF WiresInv, NoBlank
  <2> QED BY <1>2, <1>3, <2>1 DEF TypeInv, ConnOK
<1>15. PICK w, q : /\ w = wire[s] /\ q \in Seq(Nat) /\ Reads(s) = w \o q
                   /\ link[s] = "up" => q = Unsent(s)
  <2>1. Matched(s)
    BY <1>1, <1>2, <1>3, MatchedAt DEF Doing
  <2> QED BY <2>1 DEF Matched
<1>16. WireInv(s)'
  <2>1. CASE link[s] = "eof" \/ partly[s] = "answered"
    <3>1. link'[s] = "up" => q = Sends(s)'
      BY <1>1, <1>11, <1>14, <1>15, <2>1 DEF Unsent
    <3> QED BY <1>13, <1>14, <1>15, <2>1, <3>1, MatchedAfter
  <2>2. CASE link[s] = "up" /\ partly[s] # "answered"
    <3>1. q = <<r>> \o p
      BY <1>1, <1>2, <1>12, <1>15, <2>2 DEF Unsent, ToSend, Slotted
    <3>2. Reads(s)' = wire'[s] \o p
      <4>1. PICK S : S = Nat
        OBVIOUS
      <4>2. w \in Seq(S) /\ p \in Seq(S) /\ r \in S
        BY <1>1, <1>3, <1>15, <4>1, WireTypes
      <4>3. <<r>> \in Seq(S) /\ Append(w, r) = w \o <<r>>
        BY <4>2, AppendIsConcat
      <4>4. w \o (<<r>> \o p) = (w \o <<r>>) \o p
        BY <4>2, <4>3, ConcatAssociative
      <4>5. wire'[s] = w \o <<r>>
        BY <1>14, <1>15, <2>2, <4>3
      <4> QED BY <1>13, <1>15, <3>1, <4>4, <4>5
    <3>3. p \in Seq(Nat)
      BY <1>1, <1>3, WireTypes
    <3> QED BY <1>11, <1>14, <3>2, <3>3, MatchedAfter
  <2>3. link[s] \in {"up", "eof"}
    <3>1. ConnectionInv(s) /\ ~IdleAt(s) /\ ~EarlyAt(s)
      BY <1>1, <1>2, <1>3 DEF RoundsInv, Served, RoundInv, IdleAt, EarlyAt, UnqueueAt, Doing
    <3> QED BY <1>3, <3>1 DEF ConnectionInv, TypeInv, ConnOK
  <2> QED BY <2>1, <2>2, <2>3
<1>17. \A t \in Server : t # s => SameWire(t)
  BY <1>2, <1>10, <1>14 DEF SameWire
<1>18. NoBlank'
  BY <1>2, BlankKept DEF WiresInv
<1> QED BY <1>1, <1>2, <1>3, <1>11, <1>16, <1>17, <1>18, WiresStep DEF ShiftPcs

(* A reply is parsed: it was the one to the request in the read slot. *)
LEMMA ParseDoneWires ==
  ASSUME TypeInv, TypeInv', OwnerInv, OwnerInv', RoundsInv, WiresInv, ParseDone
  PROVE  WiresInv'
<1>1. PICK s, h, p : s = top.s /\ h = readreq[s] /\ p = readqueue[s]
  OBVIOUS
<1>2. /\ stack # <<>> /\ top.pc = "parse" /\ h # Null /\ wire[s] # <<>>
      /\ UNCHANGED <<link, partly, sendreq, sendqueue, request>>
      /\ wire' = [wire EXCEPT ![s] = Tail(@)]
      /\ Proceed(<<top>>)
      /\ in_select => /\ readreq' = [readreq EXCEPT ![s] = Popped(readqueue[s], Null)]
                      /\ readqueue' = [readqueue EXCEPT ![s] = Rest(@)]
  BY <1>1 DEF ParseDone, Parsing, At, top
<1>3. s \in Server
  BY <1>1, <1>2, TopServer DEF ServerPcs
<1>4. Shape /\ Shape' /\ Steady
  BY <1>2, TopSteady DEF OwnerInv, ShiftPcs
<1>5. in_select /\ Goto(<<top>>)
  BY <1>2, <1>4, InRound DEF RoundPcs
<1>6. stack' # <<>> /\ top' = top
  BY <1>2, <1>4, <1>5, TopAfter
<1>7. /\ Reads(s)' = ToRead(s)' /\ Sends(s)' = ToSend(s)' /\ SendSlot(s)' = sendreq'[s]
  BY <1>2, <1>3, <1>6, SlottedAtNext DEF ShiftPcs
<1>8. Reads(s) = ToRead(s) /\ Sends(s) = ToSend(s) /\ SendSlot(s) = sendreq[s]
  BY <1>3, <1>4, SteadySlots
<1>9. /\ readreq'[s] = Popped(p, Null) /\ readqueue'[s] = Rest(p) /\ wire'[s] = Tail(wire[s])
      /\ \A t \in Server : t # s =>
           readreq'[t] = readreq[t] /\ readqueue'[t] = readqueue[t] /\ wire'[t] = wire[t]
  BY <1>1, <1>2, <1>3, <1>5 DEF TypeInv, SlotsOK, ConnOK
<1>10. Sends(s)' = Sends(s) /\ SendSlot(s)' = SendSlot(s)
  BY <1>2, <1>7, <1>8 DEF ToSend
<1>11. PICK w, q : /\ w = wire[s] /\ q \in Seq(Nat) /\ Reads(s) = w \o q
                   /\ link[s] = "up" => /\ q = Unsent(s)
                                        /\ partly[s] = "answered" => SendSlot(s) # Null
  <2>1. Matched(s)
    BY <1>1, <1>2, <1>3, MatchedAt DEF Doing
  <2> QED BY <2>1 DEF Matched
<1>12. Reads(s)' = p
  <2>1. p \in Seq(Created)
    BY <1>1, <1>3 DEF TypeInv, SlotsOK
  <2> QED BY <1>7, <1>9, <2>1, SlottedNext DEF ToRead
<1>13. Reads(s)' = wire'[s] \o q
  <2>1. PICK S : S = Nat
    OBVIOUS
  <2>2. w \in Seq(S) /\ q \in Seq(S) /\ p \in Seq(S) /\ h \in S /\ w # <<>>
    BY <1>1, <1>2, <1>3, <1>11, <2>1, WireTypes
  <2>3. PICK R : R = Reads(s)
    OBVIOUS
  <2>4. R = w \o q /\ R = <<h>> \o p
    BY <1>1, <1>2, <1>8, <1>11, <2>3 DEF ToRead, Slotted
  <2>5. Tail(R) = p
    BY <2>2, <2>4, ConsProperties
  <2>6. p = Tail(w) \o q
    <3>1. Joins(R, w, q)
      BY <2>4 DEF Joins
    <3>2. Joins(Tail(R), Tail(w), q)
      BY <2>2, <3>1, JoinAnswered
    <3> QED BY <2>5, <3>2 DEF Joins
  <2> QED BY <1>9, <1>11, <1>12, <2>6
<1>14. WireInv(s)'
  <2>1. link'[s] = "up" => /\ q = IF partly'[s] = "answered" THEN sendqueue'[s] ELSE Sends(s)'
                           /\ partly'[s] = "answered" => SendSlot(s)' # Null
    BY <1>2, <1>10, <1>11 DEF Unsent
  <2> QED BY <1>11, <1>13, <2>1, MatchedAfter
<1>15. \A t \in Server : t # s => SameWire(t)
  BY <1>2, <1>9 DEF SameWire
<1>16. NoBlank'
  BY <1>2, BlankKept DEF WiresInv
<1> QED BY <1>1, <1>2, <1>3, <1>6, <1>14, <1>15, <1>16, WiresStep DEF ShiftPcs

(* ... or the server did not wait for the rest of it: the stream is given  *)
(* up, and with it what else is on the wire.                               *)
LEMMA ParseEarlyWires ==
  ASSUME TypeInv, TypeInv', OwnerInv, OwnerInv', RoundsInv, WiresInv, ParseEarly
  PROVE  WiresInv'
<1>1. PICK s, x, b : s = top.s /\ x = Popped(sendqueue[s], Null) /\ b = top
  OBVIOUS
<1>2. /\ stack # <<>> /\ top.pc = "parse"
      /\ UNCHANGED <<sendreq, readreq, readqueue, request>>
      /\ Proceed(<<Frame("slot", s, x), Frame("unqueue", s, Null), Frame("early", s, Null), b>>)
      /\ in_select => Hangup(s) /\ sendqueue' = [sendqueue EXCEPT ![s] = Rest(@)]
  BY <1>1 DEF ParseEarly, Parsing, At, top, reqs
<1>3. s \in Server
  BY <1>1, <1>2, TopServer DEF ServerPcs
<1>4. Shape /\ Shape'
  BY DEF OwnerInv
<1>5. in_select /\ Goto(<<Frame("slot", s, x), Frame("unqueue", s, Null), Frame("early", s, Null), b>>)
  BY <1>2, <1>4, InRound DEF RoundPcs
<1>6. PICK a, u, e : a = Frame("slot", s, x) /\ u = Frame("unqueue", s, Null) /\ e = Frame("early", s, Null)
  OBVIOUS
<1>7. PICK g, T : g = <<a, u, e, b>> /\ T = {a, u, e, b}
  OBVIOUS
<1>8. /\ g \in Seq(T) /\ Len(g) > 0 /\ 3 \in 1 .. Len(g) /\ g[1] = a /\ g[3] = e
  BY <1>7
<1>9. Goto(g) /\ a.s = s /\ e.pc = "early" /\ e.s = s
  BY <1>5, <1>6, <1>7 DEF Frame, FrameOf
<1>10. stack' # <<>> /\ top'.s = s
  BY <1>2, <1>4, <1>8, <1>9, HeadAfter
<1>11. Reads(s)' = readqueue'[s]
  <2>1. Leaving(s)' <=> \E i \in 1 .. Len(g) : Leaves(g[i], s)'
    BY <1>2, <1>4, <1>8, <1>9, LeavingAfter
  <2>2. Leaves(g[3], s)'
    BY <1>8, <1>9 DEF Leaves
  <2> QED BY <1>8, <2>1, <2>2 DEF Reads
<1>12. /\ link'[s] = "none" /\ wire'[s] = <<>>
       /\ \A t \in Server : t # s => SameWire(t)
  BY <1>2, <1>3, <1>5 DEF Hangup, TypeInv, ConnOK, SlotsOK, SameWire
<1>13. WireInv(s)'
  <2>1. Reads(s)' \in Seq(Nat)
    BY <1>3, WireTypesNext DEF WireTyped
  <2>2. <<>> \o Reads(s)' = Reads(s)'
    BY <2>1, ConcatEmptySeq
  <2> QED BY <1>12, <2>1, <2>2, MatchedAfter
<1>14. NoBlank'
  BY <1>2, BlankKept DEF WiresInv
<1> QED BY <1>1, <1>2, <1>3, <1>10, <1>12, <1>13, <1>14, WiresStep DEF ShiftPcs

(* The server closes the connection, and the last replies are lost. *)
LEMMA PeerCloseWires ==
  ASSUME TypeInv, TypeInv', OwnerInv, OwnerInv', WiresInv, NEW s \in Server, PeerClose(s)
  PROVE  WiresInv'
<1>1. /\ UNCHANGED <<partly, slots, stack, request>>
      /\ link' = [link EXCEPT ![s] = "eof"]
      /\ stack = <<>> \/ top.pc \in {"select", "xmit"}
  BY DEF PeerClose, Noticed, At, top, reqs
<1>2. PICK n \in 0 .. Len(wire[s]) : wire' = [wire EXCEPT ![s] = SubSeq(@, 1, n)]
  BY DEF PeerClose
<1>3. /\ link'[s] = "eof" /\ wire'[s] = SubSeq(wire[s], 1, n)
      /\ \A t \in Server : t # s => SameWire(t)
  BY <1>1, <1>2 DEF TypeInv, ConnOK, SameWire, slots
<1>4. Reads(s)' = Reads(s)
  BY <1>1 DEF Reads, Leaving, Leaves, ToRead, Positions, slots
<1>5. WireInv(s)'
  <2>1. ~Doing(s, {"deactivate"})
    BY <1>1 DEF Doing
  <2>2. PICK w, q, R : w = wire[s] /\ q \in Seq(Nat) /\ R = Reads(s) /\ R = w \o q
    BY <2>1, MatchedAt DEF Matched
  <2>3. PICK S : S = Nat
    OBVIOUS
  <2>4. w \in Seq(S) /\ q \in Seq(S) /\ Joins(R, w, q) /\ n \in 0 .. Len(w)
    BY <2>2, <2>3, WireTypes DEF Joins
  <2>5. PICK x \in Seq(S) : Joins(R, SubSeq(w, 1, n), x)
    BY <2>4, JoinCut
  <2>6. Reads(s)' = wire'[s] \o x
    BY <1>3, <1>4, <2>2, <2>5 DEF Joins
  <2> QED BY <1>3, <2>3, <2>5, <2>6, MatchedAfter
<1>6. NoBlank'
  BY <1>1, BlankKept DEF WiresInv
<1>7. top' = top
  BY <1>1 DEF top
<1> QED BY <1>1, <1>3, <1>5, <1>6, <1>7, WiresStep DEF ShiftPcs

(* The server answers the request that is sent before it has read it all:  *)
(* only the requests behind that one are not sent.                         *)
LEMMA PeerEarlyWires ==
  ASSUME TypeInv, TypeInv', OwnerInv, OwnerInv', WiresInv, NEW s \in Server, PeerEarly(s)
  PROVE  WiresInv'
<1>1. PICK r, p : r = sendreq[s] /\ p = sendqueue[s]
  OBVIOUS
<1>2. /\ UNCHANGED <<link, slots, stack, request>>
      /\ link[s] = "up" /\ partly[s] = "yes" /\ r # Null
      /\ partly' = [partly EXCEPT ![s] = "answered"]
      /\ wire' = [wire EXCEPT ![s] = Append(@, r)]
      /\ stack = <<>> \/ top.pc \in {"select", "xmit"}
  BY <1>1 DEF PeerEarly, Noticed, At, top, reqs
<1>3. /\ partly'[s] = "answered" /\ wire'[s] = Append(wire[s], r)
      /\ \A t \in Server : t # s => SameWire(t)
  BY <1>2 DEF TypeInv, ConnOK, SameWire, slots
<1>4. /\ Reads(s)' = Reads(s) /\ SendSlot(s) = r /\ SendSlot(s)' = r
      /\ Sends(s) = <<r>> \o p
  <2>1. ~Slotting(s) /\ ~Slotting(s)'
    BY <1>2 DEF Slotting, At, top
  <2>2. SendSlot(s) = r /\ SendSlot(s)' = r
    BY <1>1, <1>2, <2>1 DEF SendSlot, slots
  <2>3. Reads(s)' = Reads(s)
    BY <1>2 DEF Reads, Leaving, Leaves, ToRead, Positions, slots
  <2> QED BY <1>1, <1>2, <2>2, <2>3 DEF Sends, Slotted
<1>5. WireInv(s)'
  <2>1. ~Doing(s, {"deactivate"})
    BY <1>2 DEF Doing
  <2>2. PICK w : w = wire[s] /\ Reads(s) = w \o (<<r>> \o p)
    BY <1>2, <1>4, <2>1, MatchedAt DEF Matched, Unsent
  <2>3. PICK S : S = Nat
    OBVIOUS
  <2>4. w \in Seq(S) /\ p \in Seq(S) /\ r \in S
    BY <1>1, <2>2, <2>3, WireTypes
  <2>5. <<r>> \in Seq(S) /\ Append(w, r) = w \o <<r>>
    BY <2>4, AppendIsConcat
  <2>6. w \o (<<r>> \o p) = (w \o <<r>>) \o p
    BY <2>4, <2>5, ConcatAssociative
  <2>7. wire'[s] = w \o <<r>>
    BY <1>3, <2>2, <2>5
  <2>8. Reads(s)' = wire'[s] \o p
    BY <1>4, <2>2, <2>6, <2>7
  <2>9. p \in Seq(Nat) /\ p = sendqueue'[s]
    BY <1>1, <1>2, WireTypes DEF slots
  <2> QED BY <1>2, <1>3, <1>4, <2>8, <2>9, MatchedAfter
<1>6. NoBlank'
  BY <1>2, BlankKept DEF WiresInv
<1>7. top' = top
  BY <1>2 DEF top
<1> QED BY <1>2, <1>3, <1>5, <1>6, <1>7, WiresStep DEF ShiftPcs

LEMMA WiresProcess ==
  ASSUME TypeInv, TypeInv', OwnerInv, OwnerInv', RoundsInv, RoundsInv', Redundancy <= 1,
         WiresInv, Process
  PROVE  WiresInv'
<1>1. CASE \/ ScheduleInvalid \/ FailOver \/ GiveUp \/ FindNext \/ Unslot \/ Drain
           \/ Ready \/ Expire \/ SelectError \/ LateSend \/ LateRead \/ SendLoop \/ ReadLoop
  BY <1>1, PassesWires
<1>2. CASE Unread \/ SendEnd \/ ParseEnd \/ SendMore \/ ParseMore
  BY <1>2, RestsWires
<1>3. CASE ScheduleRefused \/ Late \/ SendError \/ ParseError \/ ParseEof
  BY <1>3, FailsWires
<1>4. CASE \/ Schedule \/ SlotSend \/ Deactivate \/ Unqueue
           \/ SendDone \/ ParseDone \/ ParseEarly \/ EarlyDone
  BY <1>4, ScheduleWires, SlotSendWires, DeactivateWires, UnqueueWires,
     SendDoneWires, ParseDoneWires, ParseEarlyWires, EarlyDoneWires
<1>5. CASE Retry \/ RetryRead
  <2>1. stack # <<>> /\ top.pc \in {"retry", "retryRead"}
    BY <1>5 DEF Retry, RetryRead, At, top
  <2> QED BY <2>1, NeverRetries DEF OwnerInv, RoundsInv
<1>6. CASE RunRounds \/ Store \/ Stored \/ CloneKey \/ Flush \/ Flushed \/ Ask \/ Asked
  BY <1>6, CallsWires
<1>7. CASE \/ HelpRound \/ LeaveCallback \/ Get \/ GetFull \/ Rebuild \/ GetEnd \/ Built
           \/ RunPending \/ ParseValue \/ SlotSendRefused
  BY <1>7, NeverTaken, Zenon
<1> QED BY <1>1, <1>2, <1>3, <1>4, <1>5, <1>6, <1>7, Zenon DEF Process

LEMMA WiresNext ==
  TypeInv /\ OwnerInv /\ RoundsInv /\ Redundancy <= 1 /\ WiresInv /\ [Next]_vars => WiresInv'
<1> SUFFICES ASSUME TypeInv, OwnerInv, RoundsInv, Redundancy <= 1, WiresInv, [Next]_vars
             PROVE  WiresInv'
  OBVIOUS
<1>1. TypeInv' /\ OwnerInv' /\ RoundsInv'
  BY NextTypes, OwnerNext, RoundsNext
<1>2. CASE Process
  BY <1>1, <1>2, WiresProcess
<1>3. CASE \E c \in Calls : Call(c)
  BY <1>1, <1>3, CallWires
<1>4. CASE \E s \in Server : PeerClose(s) \/ PeerEarly(s)
  BY <1>1, <1>4, PeerCloseWires, PeerEarlyWires
<1>5. CASE (\E s \in Server : Tick(s)) \/ UNCHANGED vars
  BY <1>1, <1>5, StandsWires
<1> QED BY <1>2, <1>3, <1>4, <1>5, Zenon DEF Next, Step

LEMMA WiresInit == Init => WiresInv
<1> SUFFICES ASSUME Init PROVE WiresInv
  OBVIOUS
<1>1. stack = <<>> /\ Positions = {} /\ Created = {}
  BY DEF Init, Positions, Created
<1>2. ASSUME NEW s \in Server PROVE WireInv(s)
  <2>1. /\ sendreq[s] = Null /\ sendqueue[s] = <<>> /\ readreq[s] = Null /\ readqueue[s] = <<>>
        /\ wire[s] = <<>> /\ partly[s] = "no"
    BY DEF Init
  <2>2. Reads(s) = <<>> /\ Sends(s) = <<>>
    BY <1>1, <2>1 DEF Reads, Leaving, ToRead, Sends, SendSlot, Slotting, At, Slotted
  <2>3. PICK e : e = <<>>
    OBVIOUS
  <2>4. e \in Seq(Nat) /\ e \o e = e
    BY <2>3, ConcatEmptySeq
  <2>5. Reads(s) = wire[s] \o e /\ e = Unsent(s) /\ partly[s] # "answered"
    BY <2>1, <2>2, <2>3, <2>4 DEF Unsent
  <2> QED BY <2>4, <2>5 DEF WireInv, Matched
<1> QED BY <1>1, <1>2 DEF WiresInv, NoBlank

LEMMA SinglyNext == [Next]_vars => (Redundancy' = Redundancy)
<1> SUFFICES ASSUME [Next]_vars PROVE Redundancy' = Redundancy
  OBVIOUS
<1>1. UNCHANGED config
  <2>1. CASE Next
    BY <2>1, Zenon DEF Next, Step
  <2>2. CASE UNCHANGED vars
    BY <2>2 DEF vars
  <2> QED BY <2>1, <2>2
<1> QED BY <1>1 DEF Redundancy

LEMMA WiresAlways == Spec => [](Covered /\ ~Persistent /\ Redundancy <= 1 => WiresInv)
<1>1. TypeInv /\ (Covered => OwnerInv) /\ (Covered /\ ~Persistent => RoundsInv)
        /\ (Covered /\ ~Persistent /\ Redundancy <= 1 => WiresInv) /\ [Next]_vars
        => (Covered /\ ~Persistent /\ Redundancy <= 1 => WiresInv)'
  <2> SUFFICES ASSUME TypeInv, Covered => OwnerInv, Covered /\ ~Persistent => RoundsInv,
                      Covered /\ ~Persistent /\ Redundancy <= 1 => WiresInv, [Next]_vars,
                      Covered', ~Persistent', Redundancy' <= 1
               PROVE  WiresInv'
    OBVIOUS
  <2>1. Covered /\ ~Persistent /\ Redundancy <= 1
    BY CoveredNext, NewServersNext, SinglyNext
  <2> QED BY <2>1, WiresNext
<1>2. Init => (Covered /\ ~Persistent /\ Redundancy <= 1 => WiresInv)
  BY WiresInit
<1> QED BY <1>1, <1>2, RoundsAlways, PTL DEF Spec

LEMMA WiresMatch ==
  ASSUME TypeInv, OwnerInv, WiresInv
  PROVE  ReplyMatches
<1> SUFFICES ASSUME At("parse"), readreq[top.s] # Null, wire[top.s] # <<>>
             PROVE  Head(wire[top.s]) = readreq[top.s]
  BY DEF ReplyMatches
<1>1. PICK s, h, p, R : s = top.s /\ h = readreq[s] /\ p = readqueue[s] /\ R = Reads(s)
  OBVIOUS
<1>2. stack # <<>> /\ top.pc = "parse" /\ h # Null
  BY <1>1 DEF At, top
<1>3. s \in Server
  BY <1>1, <1>2, TopServer DEF ServerPcs
<1>4. Steady
  BY <1>2, TopSteady DEF OwnerInv, ShiftPcs
<1>5. R = <<h>> \o p
  <2>1. Reads(s) = ToRead(s)
    BY <1>3, <1>4, SteadySlots
  <2> QED BY <1>1, <1>2, <2>1 DEF ToRead, Slotted
<1>6. PICK w, q : w = wire[s] /\ q \in Seq(Nat) /\ R = w \o q
  BY <1>1, <1>2, <1>3, MatchedAt DEF Doing, Matched
<1>7. PICK S : S = Nat
  OBVIOUS
<1>8. w \in Seq(S) /\ q \in Seq(S) /\ p \in Seq(S) /\ h \in S /\ w # <<>>
  BY <1>1, <1>3, <1>6, <1>7, WireTypes
<1>9. Head(R) = h
  BY <1>5, <1>8, ConsProperties
<1>10. Head(R) = Head(w)
  <2>1. Joins(R, w, q)
    BY <1>6 DEF Joins
  <2> QED BY <1>8, <2>1, JoinAnswered
<1> QED BY <1>1, <1>6, <1>9, <1>10

(* The reply that is parsed is the one to the request in the read slot     *)
(* (memcache_pool.c:1589): the replies on a connection answer the first    *)
(* requests that the server has to answer, in their order, through partial *)
(* sends, early replies, connections that are closed, and failovers.       *)
THEOREM RepliesMatch == Spec => [](Covered /\ ~Persistent => ReplyMatchesUnretried)
<1>1. ~(Redundancy <= 1) => ReplyMatchesUnretried
  BY DEF ReplyMatchesUnretried
<1>2. TypeInv /\ OwnerInv /\ WiresInv => ReplyMatchesUnretried
  BY WiresMatch DEF ReplyMatchesUnretried
<1> QED BY <1>1, <1>2, OwnerAlways, WiresAlways, PTL
============================================================================
