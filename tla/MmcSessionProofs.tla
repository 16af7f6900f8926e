-------------------------- MODULE MmcSessionProofs --------------------------
(* Safety of the session handler, for any set of pages, any servers and      *)
(* failover sequence, any redundancy and timeout, and both protocols.        *)
(*                                                                           *)
(* Types.  TypeOK is not inductive: a tick takes one off the time that       *)
(* remains to a page that sleeps, so some must remain.  TypeInv adds that    *)
(* (TimeLeft).  The index that mmc_pool_find_next stops at is the least      *)
(* element of a set of numbers; NatMin and HitType show that it exists.      *)
(*                                                                           *)
(* One holder.  A page gets a lock by the increment of 0, the increment of a *)
(* missing item (binary) or the add of a missing item.  So a lock that a     *)
(* page has is 1 or more as long as it is not spoiled (HeldIsLocked), and no *)
(* second page gets it.                                                      *)
(*                                                                           *)
(* What is read is current.  ReadSends says that a page that has not called  *)
(* write or destroy has only commands of php_mmc_session_read_request under  *)
(* way, none of which changes data; InFlight that what it has read from a    *)
(* server is forgotten while the commands of an attempt are under way there. *)
(*                                                                           *)
(* Writes hit nobody who reads.  All pages go through the mirrors in the     *)
(* same order, so the lock of the first one (First) decides.  Reader says    *)
(* that a page with a lock of another mirror has that of the first one too,  *)
(* which has no session then; Writer that a page that writes has the lock of *)
(* the first mirror or has stored the session there, and stores it there     *)
(* once.  NextMirror, about mmc_pool_find_next, is what the latter needs.    *)
EXTENDS MmcSession, FiniteSetTheorems, SequenceTheorems, WellFoundedInduction, TLAPS

LEMMA NatMin ==
  ASSUME NEW S \in SUBSET Nat, S # {}
  PROVE  /\ Min(S) \in S
         /\ \A k \in S : Min(S) <= k
<1> DEFINE T == {0..n : n \in S}
<1>1. T \subseteq FiniteSubsetsOf(Nat)
  <2>1. ASSUME NEW n \in S  PROVE IsFiniteSet(0..n) /\ 0..n \subseteq Nat
    <3>1. 0 \in Int /\ n \in Int
      OBVIOUS
    <3>2. IsFiniteSet(0..n)
      BY <3>1, FS_Interval
    <3> QED  BY <3>2
  <2> QED  BY <2>1 DEF FiniteSubsetsOf
<1>2. PICK x \in T : \A y \in T : <<y, x>> \notin StrictSubsetOrdering(Nat)
  <2>1. IsWellFoundedOn(StrictSubsetOrdering(Nat), FiniteSubsetsOf(Nat))
    BY FS_StrictSubsetOrderingWellFounded
  <2>2. T # {}
    OBVIOUS
  <2> HIDE DEF T
  <2> QED  BY <1>1, <2>1, <2>2, WFMin
<1>3. PICK m \in S : x = 0..m
  OBVIOUS
<1>4. ASSUME NEW n \in S, n < m  PROVE FALSE
  <2>1. 0..n \subseteq 0..m /\ m \in 0..m /\ m \notin 0..n
    BY <1>4
  <2>2. <<0..n, x>> \in StrictSubsetOrdering(Nat)
    BY <2>1, <1>3 DEF StrictSubsetOrdering
  <2> QED  BY <2>2, <1>2
<1>5. m \in S /\ \A k \in S : m <= k
  BY <1>4
<1> HIDE DEF T
<1> QED
  BY <1>5, Zenon DEF Min

LEMMA ProbeType == \A i \in Nat : Probe(i) \in Server
BY SessionAssumption DEF Probe

LEMMA AfterType == \A i \in Nat : After(i) \in Nat
BY SessionAssumption DEF After

LEMMA HitType ==
  ASSUME NEW i \in Nat, NEW skipped
  PROVE  Hit(i, skipped) \in Nat
<1>1. Stops(i, skipped) \in SUBSET Nat
  BY SessionAssumption DEF Stops
<1>2. i + MaxAttempts \in Stops(i, skipped)
  BY SessionAssumption DEF Stops
<1> QED
  BY <1>1, <1>2, NatMin DEF Hit

-----------------------------------------------------------------------------
(* Types *)

LEMMA Except2 ==
  ASSUME NEW S, NEW f \in [Page -> [Server -> S]],
         NEW p \in Page, NEW s \in Server, NEW v \in S
  PROVE  [f EXCEPT ![p][s] = v] \in [Page -> [Server -> S]]
OBVIOUS

LEMMA MmcType ==
  ASSUME TypeOK, NEW p \in Page
  PROVE  Mmc(p) \in Server /\ After(Index(p)) \in Nat
<1>1. Index(p) \in Nat
  BY HitType DEF TypeOK, Index
<1> QED
  BY <1>1, ProbeType, AfterType DEF Mmc

TimeLeft ==
    \A p \in Page :
        /\ pc[p] = "sleep" => op[p] = "read"
        /\ op[p] = "read" /\ pc[p] \in {"find", "wait", "sleep"} => remaining[p] > 0

TypeInv == TypeOK /\ TimeLeft

LEMMA HoldingType ==
  ASSUME NEW S \in SUBSET Server, NEW newLocked \in [Page -> SUBSET Server],
         spoiled \in SUBSET Server, Holding(newLocked, S)
  PROVE  locked' \in [Page -> SUBSET Server] /\ spoiled' \in SUBSET Server
BY DEF Holding

LEMMA LoopPcType ==
  \A skipped, time : /\ LoopPc(skipped, time) \in {"find", "page"}
                     /\ LoopPc(skipped, time) = "find" => ~(time <= 0)
BY DEF LoopPc

LEMMA CommandSeqs ==
  /\ LockCommands \in Seq(Command)
  /\ \A o : Commands(o) \in Seq(Command)
<1>1. \A a, b, c \in Command : <<a, b>> \in Seq(Command) /\ <<a, b, c>> \in Seq(Command)
  OBVIOUS
<1>2. {"incr", "add", "get", "set", "unlock", "delete", "deleteLock"} \subseteq Command
  BY DEF Command
<1>3. LockCommands \in Seq(Command)
  BY <1>1, <1>2 DEF LockCommands
<1>4. <<"set", "unlock">> \in Seq(Command) /\ <<"delete", "deleteLock">> \in Seq(Command)
  BY <1>1, <1>2
<1> QED
  BY <1>3, <1>4 DEF Commands, WriteCommands, DestroyCommands

LEMMA SkipType ==
  ASSUME TypeInv, NEW p \in Page, Skip(p), op[p] = "read"
  PROVE  /\ skip' \in [Page -> SUBSET Server]
         /\ index' \in [Page -> Nat]
         /\ pc' \in [Page -> {"idle", "find", "wait", "sleep", "page", "over"}]
         /\ \A q \in Page \ {p} : pc'[q] = pc[q]
         /\ pc'[p] = "find" => remaining[p] > 0
         /\ pc'[p] \in {"find", "page"}
<1>1. Mmc(p) \in Server /\ After(Index(p)) \in Nat
  BY MmcType DEF TypeInv
<1>2. remaining[p] \in Int /\ remaining[p] \in 0..2 * LockTimeout
  BY SessionAssumption DEF TypeInv, TypeOK
<1> DEFINE new == LoopPc(skip[p] \cup {Mmc(p)}, remaining[p])
<1>3. new \in {"find", "page"} /\ (new = "find" => remaining[p] > 0)
  BY <1>2, LoopPcType
<1> HIDE DEF new
<1> QED
  BY <1>1, <1>3 DEF Skip, TypeInv, TypeOK, new

LEMMA PageTypes ==
  ASSUME TypeInv, NEW p \in Page, PageStep(p)
  PROVE  TypeInv'
<1> USE SessionAssumption
<1>0. TypeOK /\ TimeLeft /\ Mmc(p) \in Server /\ After(Index(p)) \in Nat
  BY MmcType DEF TypeInv
<1>1. CASE Read(p)
  <2>1. pc' \in [Page -> {"idle", "find", "wait", "sleep", "page", "over"}]
    BY <1>0, <1>1 DEF Read, TypeOK
  <2>2. remaining' \in [Page -> 0..2 * LockTimeout]
    BY <1>0, <1>1 DEF Read, TypeOK
  <2>3. TimeLeft'
    <3>1. LockTimeout \in Nat /\ 2 * LockTimeout > 0
      BY DEF SessionAssumption
    <3>2. \A q \in Page : q # p => pc'[q] = pc[q] /\ remaining'[q] = remaining[q]
      BY <1>0, <1>1 DEF Read, TypeOK
    <3>3. pc'[p] = "find" /\ remaining'[p] = 2 * LockTimeout /\ op' = op
      BY <1>0, <1>1 DEF Read, TypeOK
    <3>4. \A q \in Page : \/ q = p
                          \/ pc'[q] = pc[q] /\ remaining'[q] = remaining[q] /\ op'[q] = op[q]
      BY <3>2, <3>3
    <3> QED  BY <1>0, <3>1, <3>3, <3>4 DEF TimeLeft
  <2>4. UNCHANGED <<data, lock, lease, sent, op, skip, index, valid, got, seen,
                    locked, spoiled, excused, faults>>
    BY <1>1 DEF Read, serverVars, history
  <2> QED  BY <1>0, <2>1, <2>2, <2>3, <2>4 DEF TypeInv, TypeOK
<1>2. CASE Attempt(p)
  <2>1. seen' \in [Page -> [Server -> Session \cup {None, Unread}]]
    BY <1>0, <1>2, Except2 DEF Attempt, TypeOK
  <2>2. sent' \in [Page -> [Server -> Seq(Command)]]
    <3>1. sent[p][Mmc(p)] \o LockCommands \in Seq(Command)
      BY <1>0, CommandSeqs, ConcatProperties DEF TypeOK
    <3>2. [sent EXCEPT ![p][Mmc(p)] = sent[p][Mmc(p)] \o LockCommands]
             \in [Page -> [Server -> Seq(Command)]]
      BY <3>1, <1>0, Except2 DEF TypeOK
    <3>3. \/ sent' = [sent EXCEPT ![p][Mmc(p)] = sent[p][Mmc(p)] \o LockCommands]
          \/ sent' = sent
      BY <1>2 DEF Attempt
    <3> QED  BY <3>2, <3>3, <1>0 DEF TypeOK
  <2>3. CASE Mmc(p) \in valid[p]
    BY <1>0, <1>2, <2>1, <2>2, <2>3
    DEF Attempt, TypeInv, TypeOK, TimeLeft, serverVars, history
  <2>4. CASE Mmc(p) \notin valid[p]
    <3>1. Skip(p) /\ op[p] = "read"
      BY <1>2, <2>4 DEF Attempt
    <3> QED
      BY <1>0, <1>2, <2>1, <2>2, <3>1, SkipType
      DEF Attempt, TypeInv, TypeOK, TimeLeft, serverVars, history
  <2> QED  BY <2>3, <2>4
<1>3. CASE Found(p)
  BY <1>0, <1>3 DEF Found, Judge, TypeInv, TypeOK, TimeLeft, serverVars, history
<1>4. CASE Missing(p)
  BY <1>0, <1>4, LoopPcType
  DEF Missing, Judge, Skip, TypeInv, TypeOK, TimeLeft, serverVars, history
<1>5. CASE BackOff(p)
  BY <1>0, <1>5 DEF BackOff, Judge, TypeInv, TypeOK, TimeLeft, serverVars, history
<1>6. ASSUME NEW o \in {"write", "destroy"}, Call(p, o)  PROVE TypeInv'
  <2>1. pc' = [pc EXCEPT ![p] = "find"] /\ pc' \in [Page -> {"idle", "find", "wait", "sleep", "page", "over"}]
    BY <1>0, <1>6 DEF Call, TypeOK
  <2>2. op' = [op EXCEPT ![p] = o] /\ o # "read" /\ op' \in [Page -> Handler]
    BY <1>0, <1>6 DEF Call, TypeOK, Handler
  <2>3. /\ skip' \in [Page -> SUBSET Server]
        /\ index' \in [Page -> Nat]
        /\ remaining' \in [Page -> 0..2 * LockTimeout]
        /\ \A q \in Page \ {p} : remaining'[q] = remaining[q]
    BY <1>0, <1>6 DEF Call, TypeOK
  <2>4. excused' \in BOOLEAN
    BY <1>6 DEF Call
  <2>5. TimeLeft'
    BY <1>0, <2>1, <2>2, <2>3 DEF TimeLeft, TypeOK
  <2>6. UNCHANGED <<data, lock, lease, sent, valid, got, seen, locked, spoiled, faults>>
    BY <1>6 DEF Call, serverVars
  <2> QED
    BY <1>0, <2>1, <2>2, <2>3, <2>4, <2>5, <2>6 DEF TypeInv, TypeOK
<1>7. CASE Schedule(p)
  <2>1. sent' \in [Page -> [Server -> Seq(Command)]]
    <3>1. sent[p][Mmc(p)] \o Commands(op[p]) \in Seq(Command)
      BY <1>0, CommandSeqs, ConcatProperties DEF TypeOK
    <3>2. [sent EXCEPT ![p][Mmc(p)] = sent[p][Mmc(p)] \o Commands(op[p])]
             \in [Page -> [Server -> Seq(Command)]]
      BY <3>1, <1>0, Except2 DEF TypeOK
    <3>3. \/ sent' = [sent EXCEPT ![p][Mmc(p)] = sent[p][Mmc(p)] \o Commands(op[p])]
          \/ sent' = sent
      BY <1>7 DEF Schedule
    <3> QED  BY <3>2, <3>3, <1>0 DEF TypeOK
  <2> QED  BY <1>0, <1>7, <2>1 DEF Schedule, TypeInv, TypeOK, TimeLeft, serverVars, history
<1>8. ASSUME End(p)  PROVE TypeInv'
  <2>1. locked' \in [Page -> SUBSET Server] /\ spoiled' \in SUBSET Server
    BY <1>0, <1>8, HoldingType DEF End, TypeOK
  <2> QED
    BY <1>0, <1>8, <2>1 DEF End, TypeInv, TypeOK, TimeLeft, serverVars, loopVars
<1> QED
  BY <1>1, <1>2, <1>3, <1>4, <1>5, <1>6, <1>7, <1>8 DEF PageStep, Finish, Leave

LEMMA GrantType ==
  ASSUME TypeInv, NEW p \in Page, NEW s \in Server, NEW success, Grant(p, s, success)
  PROVE  /\ got' \in [Page -> BOOLEAN]
         /\ locked' \in [Page -> SUBSET Server]
         /\ spoiled' \in SUBSET Server
<1>1. TypeOK
  BY DEF TypeInv
<1>2. CASE success /\ Hears(p, s)
  <2>1. [locked EXCEPT ![p] = locked[p] \cup {s}] \in [Page -> SUBSET Server]
    BY <1>1 DEF TypeOK
  <2>2. Holding([locked EXCEPT ![p] = locked[p] \cup {s}], {})
    BY <1>2 DEF Grant
  <2>3. locked' \in [Page -> SUBSET Server] /\ spoiled' \in SUBSET Server
    BY <1>1, <2>1, <2>2, HoldingType DEF TypeOK
  <2> QED  BY <1>1, <1>2, <2>3 DEF Grant, TypeOK
<1>3. CASE ~(success /\ Hears(p, s))
  BY <1>1, <1>3 DEF Grant, TypeOK
<1> QED  BY <1>2, <1>3

\* What a command of page p changes at server s.
Served(p, s) ==
    \/ Increment(p, s) \/ Add(p, s) \/ Get(p, s)
    \/ SetData(p, s, p) \/ SetData(p, s, None)
    \/ SetLock(p, s, 0) \/ SetLock(p, s, None)

LEMMA ServedType ==
  ASSUME TypeInv, NEW p \in Page, NEW s \in Server, Served(p, s)
  PROVE  /\ data' \in [Server -> Session \cup {None}]
         /\ lock' \in [Server -> {None} \cup 0..2]
         /\ lease' \in [Server -> 0..LockTimeout]
         /\ got' \in [Page -> BOOLEAN]
         /\ seen' \in [Page -> [Server -> Session \cup {None, Unread}]]
         /\ locked' \in [Page -> SUBSET Server]
         /\ spoiled' \in SUBSET Server
         /\ excused' = excused
<1> USE SessionAssumption
<1>0. TypeOK
  BY DEF TypeInv
<1>1. ASSUME Fresh(s)
      PROVE  lock' \in [Server -> {None} \cup 0..2] /\ lease' \in [Server -> 0..LockTimeout]
  BY <1>0, <1>1 DEF Fresh, TypeOK
<1>2. CASE Increment(p, s)
  <2>1. Grant(p, s, lock[s] = 0 \/ (lock[s] = None /\ Binary))
    BY <1>2 DEF Increment
  <2>2. lock' \in [Server -> {None} \cup 0..2] /\ lease' \in [Server -> 0..LockTimeout]
    <3>1. [lock EXCEPT ![s] = IF lock[s] = 0 THEN 1 ELSE 2] \in [Server -> {None} \cup 0..2]
      BY <1>0 DEF TypeOK
    <3>2. CASE lock[s] # None
      BY <1>0, <1>2, <3>1, <3>2 DEF Increment, TypeOK
    <3>3. CASE lock[s] = None
      BY <1>0, <1>1, <1>2, <3>3 DEF Increment, TypeOK
    <3> QED  BY <3>2, <3>3
  <2> QED  BY <1>0, <1>2, <2>1, <2>2, GrantType DEF Increment, TypeOK
<1>3. CASE Add(p, s)
  <2>1. Grant(p, s, lock[s] = None)
    BY <1>3 DEF Add
  <2>2. lock' \in [Server -> {None} \cup 0..2] /\ lease' \in [Server -> 0..LockTimeout]
    BY <1>0, <1>1, <1>3 DEF Add, TypeOK
  <2> QED  BY <1>0, <1>3, <2>1, <2>2, GrantType DEF Add, TypeOK
<1>4. CASE Get(p, s)
  <2>1. [seen EXCEPT ![p][s] = data[s]] \in [Page -> [Server -> Session \cup {None, Unread}]]
    BY <1>0, Except2 DEF TypeOK
  <2> QED  BY <1>0, <1>4, <2>1 DEF Get, TypeOK, serverVars
<1>5. ASSUME NEW d \in Session \cup {None}, SetData(p, s, d)
      PROVE  /\ data' \in [Server -> Session \cup {None}]
             /\ locked' \in [Page -> SUBSET Server] /\ spoiled' \in SUBSET Server
             /\ UNCHANGED <<lock, lease, got, seen, excused>>
  BY <1>0, <1>5, HoldingType DEF SetData, Overrule, TypeOK
<1>6. ASSUME NEW v \in {0, None}, SetLock(p, s, v)
      PROVE  /\ lock' \in [Server -> {None} \cup 0..2]
             /\ lease' \in [Server -> 0..LockTimeout]
             /\ locked' \in [Page -> SUBSET Server] /\ spoiled' \in SUBSET Server
             /\ UNCHANGED <<data, got, seen, excused>>
  <2>1. [locked EXCEPT ![p] = locked[p] \ {s}] \in [Page -> SUBSET Server]
    BY <1>0 DEF TypeOK
  <2>2. Overrule(p, s) \in SUBSET Server
    BY DEF Overrule
  <2>3. Holding([locked EXCEPT ![p] = locked[p] \ {s}], Overrule(p, s))
    BY <1>6 DEF SetLock
  <2>4. locked' \in [Page -> SUBSET Server] /\ spoiled' \in SUBSET Server
    BY <1>0, <2>1, <2>2, <2>3, HoldingType DEF TypeOK
  <2> QED  BY <1>0, <1>6, <2>4 DEF SetLock, TypeOK
<1> QED
  BY <1>0, <1>2, <1>3, <1>4, <1>5, <1>6 DEF Served, Session, TypeOK

LEMMA ServerTypes ==
  ASSUME TypeInv, NEW p \in Page, NEW s \in Server,
         Execute(p, s) \/ Break(p, s) \/ Retry(p, s)
  PROVE  TypeInv'
<1>0. TypeOK /\ TimeLeft /\ sent[p][s] \in Seq(Command)
  BY DEF TypeInv, TypeOK
<1>1. CASE Execute(p, s)
  <2>1. Served(p, s)
    BY <1>1 DEF Execute, Served
  <2>2. Tail(sent[p][s]) \in Seq(Command)
    BY <1>0, <1>1 DEF Execute
  <2>3. sent' \in [Page -> [Server -> Seq(Command)]]
    BY <1>0, <1>1, <2>2, Except2 DEF Execute, TypeOK
  <2> QED
    BY <1>0, <1>1, <2>1, <2>3, ServedType
    DEF Execute, TypeInv, TypeOK, TimeLeft, loopVars
<1>2. CASE Break(p, s)
  <2>1. PICK n \in 0..Len(sent[p][s]) : sent' = [sent EXCEPT ![p][s] = SubSeq(sent[p][s], 1, n)]
    BY <1>2 DEF Break
  <2>2. SubSeq(sent[p][s], 1, n) \in Seq(Command)
    BY <1>0, <2>1
  <2>3. sent' \in [Page -> [Server -> Seq(Command)]]
    BY <1>0, <2>1, <2>2, Except2 DEF TypeOK
  <2>4. faults' \in 0..MaxFaults /\ excused' = TRUE
    BY <1>0, <1>2, SessionAssumption DEF Break, Fault, TypeOK
  <2>5. valid' \in [Page -> SUBSET Server]
    BY <1>0, <1>2 DEF Break, TypeOK
  <2>6. UNCHANGED <<data, lock, lease, pc, op, skip, index, remaining, got, seen,
                    locked, spoiled>>
    BY <1>2 DEF Break, serverVars, loopVars
  <2>7. TimeLeft'
    BY <1>0, <2>6 DEF TimeLeft
  <2> QED  BY <1>0, <2>3, <2>4, <2>5, <2>6, <2>7 DEF TypeInv, TypeOK
<1>3. CASE Retry(p, s)
  BY <1>0, <1>3 DEF Retry, TypeInv, TypeOK, TimeLeft, serverVars, loopVars, history
<1> QED  BY <1>1, <1>2, <1>3

LEMMA EvictTypes ==
  ASSUME TypeInv, NEW s \in Server, EvictData(s) \/ EvictLock(s)
  PROVE  TypeInv'
<1>0. TypeOK /\ TimeLeft
  BY DEF TypeInv
<1>1. locked' \in [Page -> SUBSET Server] /\ spoiled' \in SUBSET Server
  BY <1>0, HoldingType DEF EvictData, EvictLock, TypeOK
<1>2. faults' \in 0..MaxFaults /\ excused' = TRUE
  BY <1>0, SessionAssumption DEF EvictData, EvictLock, Fault, TypeOK
<1>3. data' \in [Server -> Session \cup {None}]
  BY <1>0 DEF EvictData, EvictLock, TypeOK
<1>4. lock' \in [Server -> {None} \cup 0..2] /\ lease' \in [Server -> 0..LockTimeout]
  <2>1. /\ [lock EXCEPT ![s] = None] \in [Server -> {None} \cup 0..2]
        /\ [lease EXCEPT ![s] = 0] \in [Server -> 0..LockTimeout]
    BY <1>0, SessionAssumption DEF TypeOK
  <2> QED  BY <1>0, <2>1 DEF EvictData, EvictLock, TypeOK
<1> QED
  BY <1>0, <1>1, <1>2, <1>3, <1>4
  DEF EvictData, EvictLock, TypeInv, TypeOK, TimeLeft, loopVars

LEMMA TickTypes ==
  ASSUME TypeInv, Tick
  PROVE  TypeInv'
<1> USE SessionAssumption
<1>0. TypeOK /\ TimeLeft
  BY DEF TypeInv
<1> DEFINE expired == {s \in Server : lease[s] = 1}
           sleeping == {p \in Page : pc[p] = "sleep"}
<1>1. lease' \in [Server -> 0..LockTimeout]
  BY <1>0 DEF Tick, TypeOK
<1>2. lock' \in [Server -> {None} \cup 0..2]
  BY <1>0 DEF Tick, TypeOK
<1>3. locked' \in [Page -> SUBSET Server] /\ spoiled' \in SUBSET Server
  BY <1>0, HoldingType DEF Tick, TypeOK
<1>4. ASSUME NEW p \in sleeping
      PROVE  /\ op[p] = "read" /\ remaining[p] > 0
             /\ remaining[p] - 1 \in 0..2 * LockTimeout
             /\ remaining'[p] = remaining[p] - 1
             /\ pc'[p] = LoopPc(skip[p], remaining[p] - 1)
             /\ pc'[p] \in {"find", "page"}
             /\ pc'[p] = "find" => remaining[p] - 1 > 0
  <2>1. op[p] = "read" /\ remaining[p] > 0 /\ remaining[p] \in 0..2 * LockTimeout
    BY <1>0 DEF TimeLeft, TypeOK
  <2>2. remaining'[p] = remaining[p] - 1 /\ pc'[p] = LoopPc(skip[p], remaining[p] - 1)
    BY DEF Tick
  <2> QED  BY <2>1, <2>2, LoopPcType
<1>5. ASSUME NEW p \in Page \ sleeping
      PROVE  remaining'[p] = remaining[p] /\ pc'[p] = pc[p]
  BY DEF Tick
<1>6. /\ remaining' = [p \in Page |-> remaining'[p]]
      /\ pc' = [p \in Page |-> pc'[p]]
  BY DEF Tick
<1> HIDE DEF expired, sleeping
<1>7. remaining' \in [Page -> 0..2 * LockTimeout]
  <2>1. ASSUME NEW p \in Page  PROVE remaining'[p] \in 0..2 * LockTimeout
    <3>1. CASE p \in sleeping
      <4>1. remaining'[p] = remaining[p] - 1 /\ remaining[p] - 1 \in 0..2 * LockTimeout
        BY <3>1, <1>4
      <4> QED  BY <4>1
    <3>2. CASE p \notin sleeping
      <4>1. remaining'[p] = remaining[p]
        BY <3>2, <1>5
      <4> QED  BY <4>1, <1>0 DEF TypeOK
    <3> QED  BY <3>1, <3>2
  <2> QED  BY <2>1, <1>6
<1>8. pc' \in [Page -> {"idle", "find", "wait", "sleep", "page", "over"}]
  <2>1. \A p \in Page : pc'[p] \in {"idle", "find", "wait", "sleep", "page", "over"}
    BY <1>0, <1>4, <1>5 DEF TypeOK
  <2> QED  BY <2>1, <1>6
<1>9. op' = op /\ TimeLeft'
  BY <1>0, <1>4, <1>5 DEF Tick, TimeLeft
<1> QED
  BY <1>0, <1>1, <1>2, <1>3, <1>7, <1>8, <1>9 DEF Tick, TypeInv, TypeOK

LEMMA TypeInvInductive == Spec => []TypeInv
<1>1. Init => TypeInv
  <2> SUFFICES ASSUME Init  PROVE TypeInv
    OBVIOUS
  <2> USE SessionAssumption
  <2>1. /\ data \in [Server -> Session \cup {None}]
        /\ lock \in [Server -> {None} \cup 0..2]
        /\ lease \in [Server -> 0..LockTimeout]
    BY DEF Init, Session
  <2>2. /\ sent \in [Page -> [Server -> Seq(Command)]]
        /\ seen \in [Page -> [Server -> Session \cup {None, Unread}]]
    BY DEF Init
  <2>3. /\ pc \in [Page -> {"idle", "find", "wait", "sleep", "page", "over"}]
        /\ op \in [Page -> Handler]
        /\ skip \in [Page -> SUBSET Server]
        /\ index \in [Page -> Nat]
    BY DEF Init, Handler
  <2>4. /\ remaining \in [Page -> 0..2 * LockTimeout]
        /\ valid \in [Page -> SUBSET Server]
        /\ got \in [Page -> BOOLEAN]
    BY DEF Init
  <2>5. /\ locked \in [Page -> SUBSET Server]
        /\ spoiled \in SUBSET Server /\ faults \in 0..MaxFaults
    BY DEF Init
  <2>7. excused \in BOOLEAN
    BY DEF Init
  <2>6. TimeLeft
    BY DEF Init, TimeLeft
  <2> QED  BY <2>1, <2>2, <2>3, <2>4, <2>5, <2>6, <2>7 DEF TypeInv, TypeOK
<1>2. TypeInv /\ [Next]_vars => TypeInv'
  <2> SUFFICES ASSUME TypeInv, [Next]_vars  PROVE TypeInv'
    OBVIOUS
  <2>1. CASE UNCHANGED vars
    BY <2>1 DEF vars, serverVars, loopVars, history, TypeInv, TypeOK, TimeLeft
  <2>2. CASE Step
    BY <2>2, PageTypes, ServerTypes, EvictTypes DEF Step
  <2>3. CASE Tick
    BY <2>3, TickTypes
  <2> QED  BY <2>1, <2>2, <2>3 DEF Next
<1> QED  BY <1>1, <1>2, PTL DEF Spec

(* Every state of the session handler has its type.                          *)
THEOREM TypeInvariant == Spec => []TypeOK
<1>1. TypeInv => TypeOK
  BY DEF TypeInv
<1> QED  BY <1>1, TypeInvInductive, PTL

-----------------------------------------------------------------------------
(* One holder                                                                *)

\* The server has the lock of every page that has it by right, so that neither
\* incr nor add succeeds for another one.
HeldIsLocked == \A p \in Page : \A s \in locked[p] \ spoiled : lock[s] \in {1, 2}

LockInv == TypeOK /\ OneHolder /\ HeldIsLocked

LEMMA HoldingKeeps ==
  ASSUME NEW newLocked \in [Page -> SUBSET Server], NEW S, Holding(newLocked, S),
         NEW p \in Page, NEW s \in newLocked[p]
  PROVE  locked' = newLocked /\ (s \in spoiled \cup S => s \in spoiled')
BY DEF Holding

\* No page takes a lock: the locks that are still held by right were so before.
LEMMA FewerHolders ==
  ASSUME LockInv, NEW newLocked \in [Page -> SUBSET Server], NEW S \in SUBSET Server,
         Holding(newLocked, S),
         \A p \in Page : newLocked[p] \subseteq locked[p],
         \A p \in Page : \A s \in newLocked[p] \ S : lock[s] \in {1, 2} => lock'[s] \in {1, 2}
  PROVE  OneHolder' /\ HeldIsLocked'
<1>1. \A p \in Page : \A s \in newLocked[p] : s \in spoiled \cup S => s \in spoiled'
  BY HoldingKeeps
<1>2. locked' = newLocked
  BY DEF Holding
<1>3. ASSUME NEW p \in Page, NEW q \in Page, p # q,
             NEW s \in locked'[p] \cap locked'[q]
      PROVE  s \in spoiled'
  <2>1. s \in locked[p] \cap locked[q] /\ s \in newLocked[p]
    BY <1>2
  <2>2. s \in spoiled
    BY <2>1, <1>3 DEF LockInv, OneHolder
  <2> QED  BY <1>1, <2>1, <2>2
<1>4. ASSUME NEW p \in Page, NEW s \in locked'[p] \ spoiled'
      PROVE  lock'[s] \in {1, 2}
  <2>1. s \in newLocked[p] /\ s \notin spoiled \cup S /\ s \in locked[p]
    BY <1>1, <1>2
  <2> QED  BY <2>1 DEF LockInv, HeldIsLocked
<1> QED  BY <1>3, <1>4 DEF OneHolder, HeldIsLocked

\* A page takes a lock that nobody has by right.
LEMMA NewHolder ==
  ASSUME LockInv, NEW p \in Page, NEW s \in Server, NEW success \in BOOLEAN,
         Grant(p, s, success),
         success => lock[s] \notin {1, 2} /\ lock'[s] \in {1, 2},
         lock[s] \in {1, 2} => lock'[s] \in {1, 2},
         \A t \in Server \ {s} : lock'[t] = lock[t]
  PROVE  OneHolder' /\ HeldIsLocked'
<1>0. TypeOK
  BY DEF LockInv
<1> DEFINE new == [locked EXCEPT ![p] = locked[p] \cup {s}]
<1>1. CASE success /\ Hears(p, s)
  <2>1. new \in [Page -> SUBSET Server] /\ Holding(new, {})
    BY <1>0, <1>1 DEF Grant, TypeOK
  <2>2. /\ locked' = new
        /\ \A q \in Page : \A t \in new[q] : t \in spoiled => t \in spoiled'
    BY <2>1, HoldingKeeps DEF Holding
  <2>3. \A q \in Page : s \in locked[q] => s \in spoiled
    BY <1>1 DEF LockInv, HeldIsLocked
  <2>4. \A q \in Page : \A t \in Server : t \in new[q] <=> t \in locked[q] \/ (q = p /\ t = s)
    BY <1>0 DEF TypeOK
  <2>5. \A q \in Page : new[q] \subseteq Server
    BY <2>1
  <2> HIDE DEF new
  <2>6. ASSUME NEW q \in Page, NEW r \in Page, q # r,
               NEW t \in new[q] \cap new[r]
        PROVE  t \in spoiled'
    <3>1. t \in Server
      BY <2>5
    <3>2. CASE t = s
      <4>1. s \in locked[q] \/ s \in locked[r]
        BY <2>4, <2>6, <3>2
      <4> QED  BY <4>1, <2>2, <2>3, <3>2
    <3>3. CASE t # s
      <4>1. t \in locked[q] \cap locked[r]
        BY <2>4, <3>1, <3>3
      <4>2. t \in spoiled
        BY <2>6, <4>1 DEF LockInv, OneHolder
      <4> QED  BY <4>2, <2>2
    <3> QED  BY <3>2, <3>3
  <2>7. ASSUME NEW q \in Page, NEW t \in new[q] \ spoiled'
        PROVE  lock'[t] \in {1, 2}
    <3>1. t \in Server /\ t \notin spoiled
      BY <2>2, <2>5
    <3>2. CASE t = s
      BY <1>1, <3>2
    <3>3. CASE t # s
      <4>1. t \in locked[q] \ spoiled
        BY <2>4, <3>1, <3>3
      <4> QED  BY <4>1, <3>1, <3>3 DEF LockInv, HeldIsLocked
    <3> QED  BY <3>2, <3>3
  <2> QED  BY <2>2, <2>6, <2>7 DEF OneHolder, HeldIsLocked
<1>2. CASE ~(success /\ Hears(p, s))
  <2>1. UNCHANGED <<locked, spoiled>>
    BY <1>2 DEF Grant
  <2>2. \A q \in Page : \A t \in locked[q] : lock[t] \in {1, 2} => lock'[t] \in {1, 2}
    BY <1>0 DEF TypeOK
  <2> QED  BY <2>1, <2>2 DEF LockInv, OneHolder, HeldIsLocked
<1> QED  BY <1>1, <1>2

LEMMA CommandKeepsLock ==
  ASSUME LockInv, NEW p \in Page, NEW s \in Server, Served(p, s)
  PROVE  OneHolder' /\ HeldIsLocked'
<1>0. TypeOK /\ None \notin {0, 1, 2}
  BY SessionAssumption DEF LockInv
<1>1. CASE Increment(p, s)
  <2> DEFINE success == lock[s] = 0 \/ (lock[s] = None /\ Binary)
  <2>1. Grant(p, s, success) /\ success \in BOOLEAN
    BY <1>1 DEF Increment
  <2>2. success => lock[s] \notin {1, 2} /\ lock'[s] \in {1, 2}
    BY <1>0, <1>1 DEF Increment, Fresh, TypeOK
  <2>3. lock[s] \in {1, 2} => lock'[s] \in {1, 2}
    BY <1>0, <1>1 DEF Increment, TypeOK
  <2>4. \A t \in Server \ {s} : lock'[t] = lock[t]
    BY <1>0, <1>1 DEF Increment, Fresh, TypeOK
  <2> HIDE DEF success
  <2> QED  BY <2>1, <2>2, <2>3, <2>4, NewHolder
<1>2. CASE Add(p, s)
  <2> DEFINE success == lock[s] = None
  <2>1. Grant(p, s, success) /\ success \in BOOLEAN
    BY <1>2 DEF Add
  <2>2. success => lock[s] \notin {1, 2} /\ lock'[s] \in {1, 2}
    BY <1>0, <1>2 DEF Add, Fresh, TypeOK
  <2>3. lock[s] \in {1, 2} => lock'[s] \in {1, 2}
    BY <1>0, <1>2 DEF Add, TypeOK
  <2>4. \A t \in Server \ {s} : lock'[t] = lock[t]
    BY <1>0, <1>2 DEF Add, Fresh, TypeOK
  <2> HIDE DEF success
  <2> QED  BY <2>1, <2>2, <2>3, <2>4, NewHolder
<1>3. CASE Get(p, s)
  BY <1>3 DEF Get, serverVars, LockInv, OneHolder, HeldIsLocked
<1>4. ASSUME NEW d, SetData(p, s, d)  PROVE OneHolder' /\ HeldIsLocked'
  <2>1. Holding(locked, Overrule(p, s)) /\ Overrule(p, s) \in SUBSET Server /\ lock' = lock
    BY <1>4 DEF SetData, Overrule
  <2>2. locked \in [Page -> SUBSET Server]
    BY <1>0 DEF TypeOK
  <2> QED  BY <2>1, <2>2, FewerHolders
<1>5. ASSUME NEW v, SetLock(p, s, v)  PROVE OneHolder' /\ HeldIsLocked'
  <2> DEFINE new == [locked EXCEPT ![p] = locked[p] \ {s}]
  <2>1. Holding(new, Overrule(p, s)) /\ Overrule(p, s) \in SUBSET Server
    BY <1>5 DEF SetLock, Overrule
  <2>2. new \in [Page -> SUBSET Server] /\ \A q \in Page : new[q] \subseteq locked[q]
    BY <1>0 DEF TypeOK
  <2>3. \A q \in Page : s \in new[q] => s \in Overrule(p, s)
    BY <1>0 DEF Overrule, HasOther, TypeOK
  <2>4. \A t \in Server \ {s} : lock'[t] = lock[t]
    BY <1>0, <1>5 DEF SetLock, TypeOK
  <2> HIDE DEF new
  <2>5. \A q \in Page : \A t \in new[q] \ Overrule(p, s) :
          lock[t] \in {1, 2} => lock'[t] \in {1, 2}
    BY <2>2, <2>3, <2>4
  <2> QED  BY <2>1, <2>2, <2>5, FewerHolders
<1> QED  BY <1>1, <1>2, <1>3, <1>4, <1>5 DEF Served

LEMMA StepKeepsLock ==
  ASSUME LockInv, Step
  PROVE  OneHolder' /\ HeldIsLocked'
<1>0. TypeOK /\ OneHolder /\ HeldIsLocked
  BY DEF LockInv
<1>1. ASSUME UNCHANGED <<lock, locked, spoiled>>  PROVE OneHolder' /\ HeldIsLocked'
  BY <1>0, <1>1 DEF OneHolder, HeldIsLocked
<1>2. ASSUME NEW p \in Page, End(p)  PROVE OneHolder' /\ HeldIsLocked'
  <2> DEFINE new == [locked EXCEPT ![p] = {}]
  <2>1. /\ Holding(new, {}) /\ lock' = lock
        /\ new \in [Page -> SUBSET Server] /\ \A q \in Page : new[q] \subseteq locked[q]
    BY <1>0, <1>2 DEF End, serverVars, TypeOK
  <2> HIDE DEF new
  <2> QED  BY <2>1, FewerHolders
<1>3. ASSUME NEW p \in Page, PageStep(p)  PROVE OneHolder' /\ HeldIsLocked'
  <2>1. \/ Read(p) \/ Attempt(p) \/ Found(p) \/ Missing(p) \/ BackOff(p)
        \/ (\E o \in {"write", "destroy"} : Call(p, o)) \/ Schedule(p)
        \/ End(p)
    BY <1>3 DEF PageStep, Finish, Leave
  <2>2. UNCHANGED <<lock, locked, spoiled>> \/ End(p)
    BY <2>1 DEF Read, Attempt, Found, Missing, BackOff, Judge, Call, Schedule,
                serverVars, history
  <2> QED  BY <2>2, <1>1, <1>2
<1>4. ASSUME NEW p \in Page, NEW s \in Server, Execute(p, s) \/ Break(p, s) \/ Retry(p, s)
      PROVE  OneHolder' /\ HeldIsLocked'
  <2>1. CASE Execute(p, s)
    <3>1. Served(p, s)
      BY <2>1 DEF Execute, Served
    <3> QED  BY <3>1, CommandKeepsLock
  <2>2. CASE Break(p, s) \/ Retry(p, s)
    BY <1>1, <2>2 DEF Break, Retry, serverVars, history
  <2> QED  BY <1>4, <2>1, <2>2
<1>5. ASSUME NEW s \in Server, EvictData(s) \/ EvictLock(s)
      PROVE  OneHolder' /\ HeldIsLocked'
  <2>1. Holding(locked, {s}) /\ \A t \in Server \ {s} : lock'[t] = lock[t]
    BY <1>0, <1>5 DEF EvictData, EvictLock, TypeOK
  <2>2. \A q \in Page : \A t \in locked[q] \ {s} : lock[t] \in {1, 2} => lock'[t] \in {1, 2}
    BY <1>0, <2>1 DEF TypeOK
  <2>3. locked \in [Page -> SUBSET Server]
    BY <1>0 DEF TypeOK
  <2> QED  BY <2>1, <2>2, <2>3, FewerHolders
<1> QED  BY <1>3, <1>4, <1>5 DEF Step

LEMMA TickKeepsLock ==
  ASSUME LockInv, Tick
  PROVE  OneHolder' /\ HeldIsLocked'
<1>0. TypeOK
  BY DEF LockInv
<1> DEFINE expired == {s \in Server : lease[s] = 1}
<1>1. Holding(locked, expired) /\ expired \in SUBSET Server
  BY DEF Tick
<1>2. \A s \in Server \ expired : lock'[s] = lock[s]
  BY DEF Tick
<1>3. locked \in [Page -> SUBSET Server]
  BY <1>0 DEF TypeOK
<1> HIDE DEF expired
<1>4. \A q \in Page : \A t \in locked[q] \ expired : lock[t] \in {1, 2} => lock'[t] \in {1, 2}
  BY <1>2, <1>3
<1> QED  BY <1>1, <1>3, <1>4, FewerHolders

(* At most one page has the lock of a server, by incr or by add, unless the  *)
(* lock expired, was evicted or was overruled under it; for any number of    *)
(* pages and servers, any failover, timeout and redundancy, either protocol. *)
THEOREM OneHolderInvariant == Spec => []OneHolder
<1>1. Init => OneHolder /\ HeldIsLocked
  BY DEF Init, OneHolder, HeldIsLocked
<1>2. TypeOK /\ OneHolder /\ HeldIsLocked /\ [Next]_vars => OneHolder' /\ HeldIsLocked'
  <2> SUFFICES ASSUME LockInv, [Next]_vars  PROVE OneHolder' /\ HeldIsLocked'
    BY DEF LockInv
  <2>1. CASE UNCHANGED vars
    BY <2>1 DEF vars, serverVars, history, LockInv, OneHolder, HeldIsLocked
  <2> QED  BY <2>1, StepKeepsLock, TickKeepsLock DEF Next
<1> QED  BY <1>1, <1>2, TypeInvariant, PTL DEF Spec

-----------------------------------------------------------------------------
(* The lease                                                                 *)

LEMMA CommandKeepsLease ==
  ASSUME TypeOK, NEW p \in Page, NEW s \in Server, Served(p, s),
         NEW t \in Server, lock[t] \in {1, 2}, lock'[t] \in {1, 2}
  PROVE  lease'[t] = lease[t]
<1>0. None \notin {0, 1, 2}
  BY SessionAssumption
<1>1. CASE Increment(p, s)
  BY <1>0, <1>1 DEF Increment, Fresh, TypeOK
<1>2. CASE Add(p, s)
  BY <1>0, <1>2 DEF Add, Fresh, TypeOK
<1>3. CASE Get(p, s)
  BY <1>3 DEF Get, serverVars
<1>4. ASSUME NEW d, SetData(p, s, d)  PROVE lease'[t] = lease[t]
  BY <1>4 DEF SetData
<1>5. ASSUME NEW v \in {0, None}, SetLock(p, s, v)  PROVE lease'[t] = lease[t]
  BY <1>0, <1>5 DEF SetLock, TypeOK
<1> QED  BY <1>1, <1>2, <1>3, <1>4, <1>5 DEF Served

(* No command a page sends while a lock is held renews it: neither incr of a *)
(* page that waits nor a lost add keeps the lock of a dead page alive.       *)
THEOREM LeaseRunsProperty == Spec => LeaseRuns
<1> DEFINE Runs == \A s \in Server :
             lock[s] \in {1, 2} /\ lock'[s] \in {1, 2} => lease'[s] <= lease[s]
<1>1. TypeOK /\ [Next]_vars => [Runs]_vars
  <2> SUFFICES ASSUME TypeOK, Next,
                      NEW t \in Server, lock[t] \in {1, 2}, lock'[t] \in {1, 2}
               PROVE  lease'[t] <= lease[t]
    OBVIOUS
  <2>0. lease[t] \in Nat
    BY SessionAssumption DEF TypeOK
  <2>1. ASSUME lease'[t] = lease[t]  PROVE lease'[t] <= lease[t]
    BY <2>0, <2>1
  <2>2. CASE Tick
    BY <2>0, <2>2 DEF Tick
  <2>3. ASSUME NEW p \in Page, PageStep(p)  PROVE lease' = lease
    BY <2>3 DEF PageStep, Read, Attempt, Found, Missing, BackOff, Judge, Call, Schedule,
                Finish, Leave, End, serverVars
  <2>4. ASSUME NEW p \in Page, NEW s \in Server, Execute(p, s) \/ Break(p, s) \/ Retry(p, s)
        PROVE  lease'[t] = lease[t]
    <3>1. CASE Execute(p, s)
      <4>1. Served(p, s)
        BY <3>1 DEF Execute, Served
      <4> QED  BY <4>1, CommandKeepsLease
    <3>2. CASE Break(p, s) \/ Retry(p, s)
      BY <3>2 DEF Break, Retry, serverVars
    <3> QED  BY <2>4, <3>1, <3>2
  <2>5. ASSUME NEW s \in Server, EvictData(s) \/ EvictLock(s)
        PROVE  lease'[t] = lease[t]
    <3>1. CASE EvictData(s)
      BY <3>1 DEF EvictData
    <3>2. CASE EvictLock(s)
      <4>1. t # s
        BY <3>2, SessionAssumption DEF EvictLock, TypeOK
      <4> QED  BY <3>2, <4>1 DEF EvictLock, TypeOK
    <3> QED  BY <2>5, <3>1, <3>2
  <2> QED  BY <2>1, <2>2, <2>3, <2>4, <2>5 DEF Next, Step
<1> QED  BY <1>1, TypeInvariant, PTL DEF Spec, LeaseRuns

-----------------------------------------------------------------------------
(* What is read is current                                                   *)

ReadCommand == {"incr", "add", "get"}

\* A page that has not written yet has sent nothing that writes.
ReadSends ==
    \A p \in Page : op[p] = "read" => \A s \in Server : sent[p][s] \in Seq(ReadCommand)

\* What is in flight to a valid server is the rest of one attempt, whose reply
\* to get is still to come.
InFlight ==
    \A p \in Page : op[p] = "read" => \A s \in valid[p] :
        sent[p][s] # <<>> =>
            /\ pc[p] = "wait" /\ s = Mmc(p)
            /\ sent[p][s] \in {LockCommands, <<"add", "get">>, <<"get">>}
            /\ seen[p][s] = Unread

\* The steps of a page leave what it has sent alone, but for these two.
LEMMA PageSends ==
  ASSUME TypeOK, NEW p \in Page, PageStep(p)
  PROVE  /\ \A q \in Page \ {p} : /\ sent'[q] = sent[q] /\ op'[q] = op[q] /\ pc'[q] = pc[q]
                                  /\ seen'[q] = seen[q] /\ skip'[q] = skip[q]
                                  /\ index'[q] = index[q]
         /\ op'[p] = "read" => op[p] = "read"
         /\ op'[p] = "read" /\ ~Attempt(p) => sent'[p] = sent[p]
         /\ valid' = valid /\ data' = data
<1>1. CASE Read(p)
  BY <1>1 DEF Read, TypeOK, serverVars
<1>2. CASE Attempt(p)
  BY <1>2 DEF Attempt, Skip, TypeOK, serverVars
<1>3. CASE Found(p) \/ Missing(p) \/ BackOff(p)
  BY <1>3 DEF Found, Missing, BackOff, Judge, Skip, TypeOK, serverVars
<1>4. ASSUME NEW o \in {"write", "destroy"}, Call(p, o)
      PROVE  /\ op' = [op EXCEPT ![p] = o] /\ op'[p] # "read" /\ sent' = sent /\ seen' = seen
             /\ pc' = [pc EXCEPT ![p] = "find"] /\ skip' = [skip EXCEPT ![p] = {}]
             /\ index' = [index EXCEPT ![p] = 0] /\ valid' = valid /\ data' = data
  BY <1>4 DEF Call, TypeOK, serverVars
<1>5. CASE Schedule(p)
  BY <1>5 DEF Schedule, TypeOK, serverVars
<1>6. CASE End(p)
  BY <1>6 DEF End, TypeOK, serverVars, loopVars
<1> QED  BY <1>1, <1>2, <1>3, <1>4, <1>5, <1>6 DEF PageStep, Finish, Leave, TypeOK

LEMMA AttemptSends ==
  ASSUME TypeOK, NEW p \in Page, Attempt(p)
  PROVE  /\ Mmc(p) \in Server
         /\ \A s \in Server \ {Mmc(p)} : sent'[p][s] = sent[p][s]
         /\ IF Mmc(p) \in valid[p] THEN sent'[p][Mmc(p)] = sent[p][Mmc(p)] \o LockCommands
                                   ELSE sent'[p][Mmc(p)] = sent[p][Mmc(p)]
         /\ seen'[p][Mmc(p)] = Unread
         /\ \A s \in Server \ {Mmc(p)} : seen'[p][s] = seen[p][s]
<1>1. Mmc(p) \in Server
  BY MmcType
<1> QED  BY <1>1 DEF Attempt, TypeOK

LEMMA ExecuteSends ==
  ASSUME TypeOK, NEW p \in Page, NEW s \in Server, Execute(p, s)
  PROVE  /\ sent[p][s] \in Seq(Command) /\ sent[p][s] # <<>>
         /\ sent'[p][s] = Tail(sent[p][s])
         /\ \A q \in Page, t \in Server : q # p \/ t # s => sent'[q][t] = sent[q][t]
         /\ UNCHANGED <<pc, op, skip, index, remaining, valid>>
BY DEF Execute, TypeOK, loopVars

LEMMA BreakSends ==
  ASSUME TypeOK, NEW p \in Page, NEW s \in Server, Break(p, s)
  PROVE  /\ \E n \in 0..Len(sent[p][s]) : sent'[p][s] = SubSeq(sent[p][s], 1, n)
         /\ \A q \in Page, t \in Server : q # p \/ t # s => sent'[q][t] = sent[q][t]
         /\ valid'[p] = valid[p] \ {s}
         /\ \A q \in Page \ {p} : valid'[q] = valid[q]
         /\ UNCHANGED <<data, pc, op, skip, index, seen, locked, spoiled>>
BY DEF Break, TypeOK, loopVars, serverVars

\* What the other steps leave alone.
LEMMA OtherSends ==
  ASSUME TypeOK,
         \/ \E p \in Page, s \in Server : Retry(p, s)
         \/ \E s \in Server : EvictData(s) \/ EvictLock(s)
         \/ UNCHANGED vars
  PROVE  /\ UNCHANGED <<pc, op, skip, index, sent, seen>>
         /\ \A p \in Page : \A s \in valid'[p] : s \in valid[p] \/ sent[p][s] = <<>>
<1>1. ASSUME NEW p \in Page, NEW s \in Server, Retry(p, s)
      PROVE  /\ UNCHANGED <<pc, op, skip, index, sent, seen>>
             /\ \A q \in Page : \A t \in valid'[q] : t \in valid[q] \/ sent[q][t] = <<>>
  <2>1. valid' = [valid EXCEPT ![p] = valid[p] \cup {s}] /\ sent[p][s] = <<>>
    BY <1>1 DEF Retry
  <2> QED  BY <1>1, <2>1 DEF Retry, TypeOK, loopVars
<1>2. ASSUME NEW s \in Server, EvictData(s) \/ EvictLock(s)
      PROVE  UNCHANGED <<pc, op, skip, index, sent, seen, valid>>
  BY <1>2 DEF EvictData, EvictLock, loopVars
<1>3. CASE UNCHANGED vars
  BY <1>3 DEF vars, loopVars
<1> QED  BY <1>1, <1>2, <1>3

LEMMA TickSends ==
  ASSUME TypeOK, Tick
  PROVE  /\ UNCHANGED <<data, sent, op, skip, index, valid, seen>>
         /\ \A p \in Page : pc[p] = "wait" => pc'[p] = "wait"
BY DEF Tick, TypeOK

LEMMA ReadSendsStep ==
  ASSUME TypeOK, ReadSends, [Next]_vars
  PROVE  ReadSends'
<1>1. ASSUME NEW p \in Page, PageStep(p)  PROVE ReadSends'
  <2> SUFFICES ASSUME NEW q \in Page, op'[q] = "read", NEW s \in Server
               PROVE  sent'[q][s] \in Seq(ReadCommand)
    BY DEF ReadSends
  <2>1. op[q] = "read" /\ sent[q][s] \in Seq(ReadCommand)
    BY <1>1, PageSends DEF ReadSends
  <2>2. CASE sent'[q] = sent[q]
    BY <2>1, <2>2
  <2>3. CASE q = p /\ Attempt(p)
    <3>1. \A a, b, c \in ReadCommand : <<a, b, c>> \in Seq(ReadCommand)
      OBVIOUS
    <3>2. LockCommands \in Seq(ReadCommand)
      BY <3>1 DEF LockCommands, ReadCommand
    <3>3. sent[q][s] \o LockCommands \in Seq(ReadCommand)
      BY <2>1, <3>2, ConcatProperties
    <3>4. sent'[q][s] \in {sent[q][s], sent[q][s] \o LockCommands}
      BY <2>3, AttemptSends
    <3> QED  BY <2>1, <3>3, <3>4
  <2> QED  BY <1>1, <2>2, <2>3, PageSends
<1>2. ASSUME NEW p \in Page, NEW s \in Server, Execute(p, s)  PROVE ReadSends'
  <2> SUFFICES ASSUME NEW q \in Page, op'[q] = "read", NEW t \in Server
               PROVE  sent'[q][t] \in Seq(ReadCommand)
    BY DEF ReadSends
  <2>1. sent[q][t] \in Seq(ReadCommand)
    BY <1>2, ExecuteSends DEF ReadSends
  <2>2. CASE q = p /\ t = s
    <3>1. sent[q][t] # <<>> /\ sent'[q][t] = Tail(sent[q][t])
      BY <1>2, <2>2, ExecuteSends
    <3> QED  BY <2>1, <3>1
  <2>3. CASE ~(q = p /\ t = s)
    BY <1>2, <2>1, <2>3, ExecuteSends
  <2> QED  BY <2>2, <2>3
<1>3. ASSUME NEW p \in Page, NEW s \in Server, Break(p, s)  PROVE ReadSends'
  <2> SUFFICES ASSUME NEW q \in Page, op'[q] = "read", NEW t \in Server
               PROVE  sent'[q][t] \in Seq(ReadCommand)
    BY DEF ReadSends
  <2>1. sent[q][t] \in Seq(ReadCommand)
    BY <1>3, BreakSends DEF ReadSends
  <2>2. CASE q = p /\ t = s
    <3>1. PICK n \in 0..Len(sent[q][t]) : sent'[q][t] = SubSeq(sent[q][t], 1, n)
      BY <1>3, <2>2, BreakSends
    <3> QED  BY <2>1, <3>1
  <2>3. CASE ~(q = p /\ t = s)
    BY <1>3, <2>1, <2>3, BreakSends
  <2> QED  BY <2>2, <2>3
<1>4. ASSUME UNCHANGED <<op, sent>>  PROVE ReadSends'
  BY <1>4 DEF ReadSends
<1> QED
  BY <1>1, <1>2, <1>3, <1>4, OtherSends, TickSends DEF Next, Step

LEMMA Tails ==
  ASSUME NEW a, NEW b, NEW c
  PROVE  /\ Tail(<<a, b, c>>) = <<b, c>> /\ Head(<<a, b, c>>) = a
         /\ Tail(<<b, c>>) = <<c>> /\ Head(<<b, c>>) = b
         /\ Tail(<<c>>) = <<>>
OBVIOUS

LEMMA InFlightStep ==
  ASSUME TypeOK, InFlight, [Next]_vars
  PROVE  InFlight'
<1> DEFINE Rest(q, s) ==
      /\ pc[q] = "wait" /\ s = Mmc(q)
      /\ sent[q][s] \in {LockCommands, <<"add", "get">>, <<"get">>}
      /\ seen[q][s] = Unread
<1>0. ASSUME NEW q \in Page, NEW s \in valid[q], op[q] = "read", sent[q][s] # <<>>
      PROVE  Rest(q, s)
  BY <1>0 DEF InFlight
<1>1. ASSUME NEW q \in Page, skip'[q] = skip[q], index'[q] = index[q]  PROVE Mmc(q)' = Mmc(q)
  BY <1>1 DEF Mmc, Index
<1>2. ASSUME NEW p \in Page, PageStep(p)  PROVE InFlight'
  <2> SUFFICES ASSUME NEW q \in Page, op'[q] = "read", NEW s \in valid'[q], sent'[q][s] # <<>>
               PROVE  Rest(q, s)'
    BY DEF InFlight
  <2>1. op[q] = "read" /\ s \in valid[q] /\ s \in Server
    BY <1>2, PageSends DEF TypeOK
  <2>2. CASE q # p
    <3>1. sent[q][s] # <<>> /\ Mmc(q)' = Mmc(q)
      BY <1>1, <1>2, <2>2, PageSends
    <3>2. Rest(q, s)
      BY <1>0, <2>1, <3>1
    <3> QED  BY <1>2, <2>2, <3>1, <3>2, PageSends DEF LockCommands
  <2>3. CASE q = p /\ ~Attempt(p)
    <3>1. sent[q][s] # <<>> /\ sent'[q] = sent[q]
      BY <1>2, <2>3, PageSends
    <3>2. pc[p] = "wait" /\ s = Mmc(p)
      BY <1>0, <2>1, <2>3, <3>1
    <3>3. Found(p) \/ Missing(p) \/ BackOff(p)
      BY <1>2, <2>1, <2>3, <3>2
      DEF PageStep, Read, Attempt, Call, Schedule, Finish, Leave
    <3> QED  BY <2>1, <2>3, <3>1, <3>2, <3>3 DEF Found, Missing, BackOff, Judge
  <2>4. CASE q = p /\ Attempt(p)
    <3>1. pc[p] = "find" /\ sent[p][s] = <<>>
      BY <1>0, <2>1, <2>4 DEF Attempt
    <3>2. s = Mmc(p) /\ s \in valid[p]
      BY <2>1, <2>4, <3>1, AttemptSends
    <3>3. sent'[p][s] = <<>> \o LockCommands /\ seen'[p][s] = Unread
      BY <2>4, <3>1, <3>2, AttemptSends
    <3>4. sent'[p][s] = LockCommands
      BY <3>3 DEF LockCommands
    <3>5. pc'[p] = "wait" /\ skip' = skip /\ index' = index
      BY <2>4, <3>2 DEF Attempt, TypeOK
    <3>6. s = Mmc(p)'
      BY <1>1, <3>2, <3>5
    <3> QED  BY <2>4, <3>3, <3>4, <3>5, <3>6 DEF LockCommands
  <2> QED  BY <2>2, <2>3, <2>4
<1>3. ASSUME NEW p \in Page, NEW s \in Server, Execute(p, s)  PROVE InFlight'
  <2> SUFFICES ASSUME NEW q \in Page, op'[q] = "read", NEW t \in valid'[q], sent'[q][t] # <<>>
               PROVE  Rest(q, t)'
    BY DEF InFlight
  <2>1. op[q] = "read" /\ t \in valid[q] /\ t \in Server
    BY <1>3, ExecuteSends DEF TypeOK
  <2>2. Mmc(q)' = Mmc(q) /\ pc'[q] = pc[q]
    BY <1>1, <1>3, ExecuteSends
  <2>3. CASE ~(q = p /\ t = s)
    <3>1. sent'[q][t] = sent[q][t]
      BY <1>3, <2>1, <2>3, ExecuteSends
    <3>2. Rest(q, t)
      BY <1>0, <2>1, <3>1
    <3>3. seen'[q][t] = seen[q][t]
      BY <1>3, <2>1, <2>3 DEF Execute, Increment, Add, Get, SetData, SetLock, TypeOK
    <3> QED  BY <2>2, <3>1, <3>2, <3>3 DEF LockCommands
  <2>4. CASE q = p /\ t = s
    <3>1. sent[p][s] # <<>> /\ sent'[p][s] = Tail(sent[p][s])
      BY <1>3, ExecuteSends
    <3>2. Rest(p, s)
      BY <1>0, <2>1, <2>4, <3>1
    <3>3. Tail(sent[p][s]) # <<>>
      BY <2>4, <3>1
    <3>4. /\ sent[p][s] \in {<<"incr", "add", "get">>, <<"add", "get">>}
          /\ Tail(sent[p][s]) \in {<<"add", "get">>, <<"get">>}
          /\ Head(sent[p][s]) \in {"incr", "add"}
      <4>1. CASE sent[p][s] = <<"incr", "add", "get">>
        BY <4>1, Tails
      <4>2. CASE sent[p][s] = <<"add", "get">>
        BY <4>2, Tails
      <4>3. CASE sent[p][s] = <<"get">>
        BY <4>3, <3>3, Tails
      <4> QED  BY <3>2, <4>1, <4>2, <4>3 DEF LockCommands
    <3>5. seen' = seen
      BY <1>3, <3>4 DEF Execute, Increment, Add
    <3> QED  BY <2>2, <2>4, <3>1, <3>2, <3>4, <3>5 DEF LockCommands
  <2> QED  BY <2>3, <2>4
<1>4. ASSUME NEW p \in Page, NEW s \in Server, Break(p, s)  PROVE InFlight'
  <2> SUFFICES ASSUME NEW q \in Page, op'[q] = "read", NEW t \in valid'[q], sent'[q][t] # <<>>
               PROVE  Rest(q, t)'
    BY DEF InFlight
  <2>1. op[q] = "read" /\ t \in valid[q] /\ t \in Server /\ (q # p \/ t # s)
    BY <1>4, BreakSends DEF TypeOK
  <2>2. Mmc(q)' = Mmc(q) /\ sent'[q][t] = sent[q][t]
    BY <1>1, <1>4, <2>1, BreakSends
  <2>3. Rest(q, t)
    BY <1>0, <2>1, <2>2
  <2> QED  BY <1>4, <2>2, <2>3, BreakSends DEF LockCommands
<1>5. ASSUME UNCHANGED <<op, skip, index, sent, seen>>,
             \A p \in Page : pc[p] = "wait" => pc'[p] = "wait",
             \A p \in Page : \A s \in valid'[p] : s \in valid[p] \/ sent[p][s] = <<>>
      PROVE  InFlight'
  <2> SUFFICES ASSUME NEW q \in Page, op'[q] = "read", NEW t \in valid'[q], sent'[q][t] # <<>>
               PROVE  Rest(q, t)'
    BY DEF InFlight
  <2>1. Mmc(q)' = Mmc(q) /\ Rest(q, t)
    BY <1>0, <1>1, <1>5
  <2> QED  BY <1>5, <2>1 DEF LockCommands
<1> QED
  BY <1>2, <1>3, <1>4, <1>5, OtherSends, TickSends DEF Next, Step

\* No page takes a lock, and the data changes under spoiled locks only.
LEMMA FewerReaders ==
  ASSUME HeldIsCurrent, NEW newLocked \in [Page -> SUBSET Server], NEW S,
         Holding(newLocked, S), op' = op, seen' = seen,
         \A p \in Page : newLocked[p] \subseteq locked[p],
         \A p \in Page : op[p] = "read" =>
            \A s \in newLocked[p] \ S : data'[s] = data[s]
  PROVE  HeldIsCurrent'
<1> SUFFICES ASSUME NEW p \in Page, op[p] = "read", NEW s \in locked'[p] \ spoiled',
                    seen[p][s] # Unread
             PROVE  data'[s] = seen[p][s]
  BY DEF HeldIsCurrent
<1>1. s \in newLocked[p] /\ s \notin spoiled \cup S /\ s \in locked[p]
  BY HoldingKeeps DEF Holding
<1> QED  BY <1>1 DEF HeldIsCurrent

LEMMA GrantKeepsCurrent ==
  ASSUME TypeOK, InFlight, HeldIsCurrent, NEW p \in Page, NEW s \in Server,
         sent[p][s] # <<>>, NEW success, Grant(p, s, success),
         UNCHANGED <<op, data, seen>>
  PROVE  HeldIsCurrent'
<1> DEFINE new == [locked EXCEPT ![p] = locked[p] \cup {s}]
<1>1. CASE success /\ Hears(p, s)
  <2>1. new \in [Page -> SUBSET Server] /\ Holding(new, {})
    BY <1>1 DEF Grant, TypeOK
  <2>2. \A q \in Page : \A t \in new[q] : t \in spoiled => t \in spoiled'
    BY <2>1, HoldingKeeps
  <2>3. locked' = new
    BY <2>1 DEF Holding
  <2>4. \A q \in Page : \A t \in new[q] : t \in locked[q] \/ (q = p /\ t = s)
    BY DEF TypeOK
  <2>5. op[p] = "read" => seen[p][s] = Unread
    BY <1>1 DEF InFlight, Hears
  <2> HIDE DEF new
  <2> SUFFICES ASSUME NEW q \in Page, op[q] = "read", NEW t \in new[q] \ spoiled',
                      seen[q][t] # Unread
               PROVE  data[t] = seen[q][t]
    BY <2>3 DEF HeldIsCurrent
  <2> QED  BY <2>2, <2>4, <2>5 DEF HeldIsCurrent
<1>2. CASE ~(success /\ Hears(p, s))
  BY <1>2 DEF Grant, HeldIsCurrent
<1> QED  BY <1>1, <1>2

LEMMA ExecuteKeepsCurrent ==
  ASSUME TypeOK, ReadSends, InFlight, HeldIsCurrent,
         NEW p \in Page, NEW s \in Server, Execute(p, s)
  PROVE  HeldIsCurrent'
<1>0. sent[p][s] # <<>> /\ op' = op /\ locked \in [Page -> SUBSET Server]
  BY DEF Execute, TypeOK
<1>1. CASE Increment(p, s)
  BY <1>0, <1>1, GrantKeepsCurrent DEF Increment
<1>2. CASE Add(p, s)
  BY <1>0, <1>2, GrantKeepsCurrent DEF Add
<1>3. CASE Get(p, s)
  <2>1. UNCHANGED <<data, locked, spoiled>>
    BY <1>3 DEF Get, serverVars
  <2>2. \A q \in Page, t \in Server :
          seen'[q][t] = seen[q][t] \/ seen'[q][t] = data[t]
    BY <1>3 DEF Get, TypeOK
  <2>3. \A q \in Page : locked[q] \subseteq Server
    BY <1>0
  <2> QED  BY <1>0, <2>1, <2>2, <2>3 DEF HeldIsCurrent
<1>4. ASSUME NEW d, SetData(p, s, d), Head(sent[p][s]) \notin ReadCommand
      PROVE  HeldIsCurrent'
  <2>1. op[p] # "read"
    BY <1>0, <1>4 DEF ReadSends
  <2>2. \A q \in Page : op[q] = "read" => \A t \in locked[q] \ Overrule(p, s) : data'[t] = data[t]
    <3> SUFFICES ASSUME NEW q \in Page, op[q] = "read", NEW t \in locked[q] \ Overrule(p, s)
                 PROVE  data'[t] = data[t]
      OBVIOUS
    <3>1. q # p
      BY <2>1
    <3>2. t # s
      BY <3>1 DEF Overrule, HasOther
    <3> QED  BY <1>0, <1>4, <3>2 DEF SetData, TypeOK
  <2>3. Holding(locked, Overrule(p, s)) /\ seen' = seen
    BY <1>4 DEF SetData
  <2> QED  BY <1>0, <2>2, <2>3, FewerReaders
<1>5. ASSUME NEW v, SetLock(p, s, v)  PROVE HeldIsCurrent'
  <2> DEFINE new == [locked EXCEPT ![p] = locked[p] \ {s}]
  <2>1. /\ Holding(new, Overrule(p, s)) /\ UNCHANGED <<data, seen>>
        /\ new \in [Page -> SUBSET Server] /\ \A q \in Page : new[q] \subseteq locked[q]
    BY <1>0, <1>5 DEF SetLock
  <2> HIDE DEF new
  <2> QED  BY <1>0, <2>1, FewerReaders
<1>6. \/ Increment(p, s) \/ Add(p, s) \/ Get(p, s)
      \/ \E v \in {0, None} : SetLock(p, s, v)
      \/ \E d \in {p, None} : SetData(p, s, d) /\ Head(sent[p][s]) \notin ReadCommand
  BY DEF Execute, ReadCommand
<1> QED  BY <1>1, <1>2, <1>3, <1>4, <1>5, <1>6

LEMMA PageKeepsCurrent ==
  ASSUME TypeOK, HeldIsCurrent, NEW p \in Page, PageStep(p)
  PROVE  HeldIsCurrent'
<1>0. locked \in [Page -> SUBSET Server]
  BY DEF TypeOK
<1>1. CASE End(p)
  <2> DEFINE new == [locked EXCEPT ![p] = {}]
  <2>1. Holding(new, {}) /\ data' = data /\ op' = op
    BY <1>1 DEF End, serverVars
  <2>2. \A q \in Page : \A s \in new[q] : q # p /\ s \in locked[q]
    BY <1>0
  <2>3. new \in [Page -> SUBSET Server]
    BY <1>0
  <2>4. \A q \in Page \ {p} : seen'[q] = seen[q]
    BY PageSends
  <2> HIDE DEF new
  <2>5. locked' = new /\ \A q \in Page : \A s \in new[q] : s \in spoiled => s \in spoiled'
    BY <2>1, <2>3, HoldingKeeps DEF Holding
  <2> QED  BY <2>1, <2>2, <2>4, <2>5 DEF HeldIsCurrent
<1>2. CASE ~End(p)
  <2>1. UNCHANGED <<locked, spoiled>>
    BY <1>2 DEF PageStep, Read, Attempt, Found, Missing, BackOff, Judge, Call, Schedule,
                Finish, Leave, history
  <2>2. /\ \A q \in Page : op'[q] = "read" => op[q] = "read"
        /\ data' = data
    BY PageSends
  <2>3. \A q \in Page, s \in Server : seen'[q][s] = seen[q][s] \/ seen'[q][s] = Unread
    <3>1. CASE Attempt(p)
      BY <3>1, AttemptSends, PageSends
    <3>2. CASE ~Attempt(p)
      BY <1>2, <3>2 DEF PageStep, Read, Found, Missing, BackOff, Judge, Call, Schedule,
                        Finish, Leave
    <3> QED  BY <3>1, <3>2
  <2>4. \A q \in Page : locked[q] \subseteq Server
    BY <1>0
  <2> QED  BY <2>1, <2>2, <2>3, <2>4 DEF HeldIsCurrent
<1> QED  BY <1>1, <1>2

LEMMA OtherKeepsCurrent ==
  ASSUME TypeOK, HeldIsCurrent,
         \/ \E p \in Page, s \in Server : Break(p, s) \/ Retry(p, s)
         \/ \E s \in Server : EvictData(s) \/ EvictLock(s)
         \/ Tick \/ UNCHANGED vars
  PROVE  HeldIsCurrent'
<1>0. locked \in [Page -> SUBSET Server]
  BY DEF TypeOK
<1>1. ASSUME UNCHANGED <<data, op, seen, locked, spoiled>>  PROVE HeldIsCurrent'
  BY <1>1 DEF HeldIsCurrent
<1>2. ASSUME NEW p \in Page, NEW s \in Server, Break(p, s) \/ Retry(p, s)
      PROVE  UNCHANGED <<data, op, seen, locked, spoiled>>
  BY <1>2 DEF Break, Retry, serverVars, history
<1>3. ASSUME NEW s \in Server, EvictData(s) \/ EvictLock(s)  PROVE HeldIsCurrent'
  <2>1. Holding(locked, {s}) /\ op' = op /\ seen' = seen
    BY <1>3 DEF EvictData, EvictLock
  <2>2. \A q \in Page : \A t \in locked[q] \ {s} : data'[t] = data[t]
    BY <1>0, <1>3 DEF EvictData, EvictLock, TypeOK
  <2> QED  BY <1>0, <2>1, <2>2, FewerReaders
<1>4. CASE Tick
  <2>1. Holding(locked, {s \in Server : lease[s] = 1})
    BY <1>4 DEF Tick
  <2> QED  BY <1>0, <1>4, <2>1, TickSends, FewerReaders
<1>5. CASE UNCHANGED vars
  BY <1>1, <1>5 DEF vars, serverVars, history
<1> QED  BY <1>1, <1>2, <1>3, <1>4, <1>5

LEMMA CurrentInductive == Spec => [](ReadSends /\ InFlight /\ HeldIsCurrent)
<1> DEFINE Inv == ReadSends /\ InFlight /\ HeldIsCurrent
<1>1. Init => Inv
  <2> SUFFICES ASSUME Init  PROVE Inv
    OBVIOUS
  <2>1. ASSUME NEW p \in Page, NEW s \in Server
        PROVE  sent[p][s] = <<>> /\ sent[p][s] \in Seq(ReadCommand) /\ locked[p] = {}
    BY DEF Init
  <2>2. \A p \in Page : valid[p] = Server
    BY DEF Init
  <2> QED  BY <2>1, <2>2 DEF ReadSends, InFlight, HeldIsCurrent, Init
<1>2. TypeOK /\ Inv /\ [Next]_vars => Inv'
  <2> SUFFICES ASSUME TypeOK, Inv, [Next]_vars  PROVE HeldIsCurrent'
    BY ReadSendsStep, InFlightStep
  <2> QED
    BY ExecuteKeepsCurrent, PageKeepsCurrent, OtherKeepsCurrent DEF Next, Step
<1> QED  BY <1>1, <1>2, TypeInvariant, PTL DEF Spec

(* What a page has read under a lock is what the server still has, as long   *)
(* as the page reads and runs and its lock is not spoiled: the data is read  *)
(* after the lock is taken, in the same attempt, and only a page that writes *)
(* sends commands that change it.                                            *)
THEOREM HeldIsCurrentInvariant == Spec => []HeldIsCurrent
BY CurrentInductive, PTL

-----------------------------------------------------------------------------
(* Writes hit nobody who reads                                               *)

\* The first server of the failover sequence, which every page locks first.
First == Probe(Hit(0, {}))

AtFirst(p) == index[p] = 0 /\ skip[p] = {}

\* The page went on to another mirror, as the first one has no session.
Beyond(p) == First \in locked[p] /\ data[First] = None

Reader(p) ==
    /\ locked[p] \cap spoiled = {}
    /\ locked[p] \subseteq {First} \/ Beyond(p)
    /\ pc[p] \in {"idle", "find", "wait", "sleep"} => AtFirst(p) \/ Beyond(p)
    /\ pc[p] = "page" => First \in locked[p]
    /\ pc[p] = "wait" /\ sent[p][Mmc(p)] = <<>> => seen[p][Mmc(p)] # Unread
    /\ got[p] => pc[p] = "wait" /\ Mmc(p) \in locked[p]

Writer(p) ==
    /\ op[p] = "write" /\ pc[p] \in {"find", "wait", "over"}
    /\ \A s \in Server : sent[p][s] \in Seq({"set", "unlock"})
    /\ pc[p] = "over" => \A s \in Server : sent[p][s] = <<>>
    /\ pc[p] # "over" => First \in locked[p] \/ data[First] \in Session
    /\ pc[p] = "find" => /\ index[p] <= MaxAttempts /\ ~Enough(skip[p])
                         /\ skip[p] = {Probe(i) : i \in 0..(index[p] - 1)}
    /\ pc[p] # "over" /\ First \notin skip[p] => First \in locked[p] /\ sent[p][First] = <<>>
    /\ sent[p][First] \in {<<>>, WriteCommands, <<"unlock">>}
    /\ sent[p][First] # <<>> => First \in locked[p]
    /\ sent[p][First] = <<"unlock">> => data[First] \in Session

PageInv(p) ==
    /\ valid[p] = Server
    /\ pc[p] = "over" => locked[p] = {}
    /\ IF op[p] = "read" THEN Reader(p) ELSE Writer(p)

SerialInv ==
    /\ First \notin spoiled
    /\ \A s \in spoiled : Has(s)
    /\ \A p \in Page : PageInv(p)

Facts == TypeInv /\ OneHolder /\ ReadSends /\ InFlight /\ HeldIsCurrent

LEMMA FirstProbe == First \in Server /\ Hit(0, {}) = 0 /\ First = Probe(0)
<1>1. 0 \in Stops(0, {}) /\ Stops(0, {}) \in SUBSET Nat
  BY SessionAssumption DEF Stops
<1>2. Hit(0, {}) = 0
  BY <1>1, NatMin DEF Hit
<1> QED  BY <1>2, ProbeType DEF First

LEMMA NoMirrorsYet == ~Enough({})
<1>1. Cardinality({}) = 0 /\ Cardinality(Server) # 0 /\ Cardinality(Server) \in Nat
  BY FirstProbe, FS_EmptySet, FS_CardinalityType, SessionAssumption
<1> QED  BY <1>1, SessionAssumption DEF Enough

\* The next mirror of a write is a new one, and the index moves past it.
LEMMA NextMirror ==
  ASSUME NamesEnough, NEW i \in Nat, i <= MaxAttempts, ~Enough({Probe(j) : j \in 0..(i - 1)})
  PROVE  LET skipped == {Probe(j) : j \in 0..(i - 1)}
             h == Hit(i, skipped)
         IN /\ h \in Nat /\ After(h) = h + 1 /\ h + 1 <= MaxAttempts
            /\ Probe(h) \notin skipped
            /\ skipped \cup {Probe(h)} = {Probe(j) : j \in 0..h}
<1> DEFINE skipped == {Probe(j) : j \in 0..(i - 1)}
           all == {Probe(j) : j \in 0..(MaxAttempts - 1)}
           h == Hit(i, skipped)
<1>1. PICK l \in 0..(MaxAttempts - 1) : Probe(l) \notin skipped
  <2> SUFFICES ASSUME all \subseteq skipped  PROVE FALSE
    OBVIOUS
  <2>1. skipped \subseteq Server
    BY ProbeType
  <2>2. IsFiniteSet(skipped) /\ IsFiniteSet(all)
    BY <2>1, FS_Subset, SessionAssumption
  <2>3. /\ Cardinality(all) <= Cardinality(skipped)
        /\ Cardinality(all) \in Nat /\ Cardinality(skipped) \in Nat
    BY <2>2, FS_Subset, FS_CardinalityType
  <2>4. Cardinality(Server) \in Nat
    BY FS_CardinalityType, SessionAssumption
  <2>5. Enough(all)
    BY DEF NamesEnough
  <2> HIDE DEF skipped, all
  <2>6. Enough(skipped)
    BY <2>3, <2>4, <2>5, SessionAssumption DEF Enough
  <2> QED  BY <2>6 DEF skipped
<1>2. l >= i /\ l \in Nat /\ MaxAttempts \in Nat /\ MaxAttempts # 0
  BY <1>1, SessionAssumption
<1>3. /\ Stops(i, skipped) \in SUBSET Nat /\ l \in Stops(i, skipped)
  BY <1>1, <1>2, SessionAssumption DEF Stops
<1>4. h \in Stops(i, skipped) /\ \A k \in Stops(i, skipped) : h <= k
  BY <1>3, NatMin DEF Hit
<1>5. h \in Nat /\ i <= h /\ h <= l
  BY <1>3, <1>4 DEF Stops
<1>6. Probe(h) \notin skipped
  <2>1. Probe(h) \notin skipped \/ h + 1 >= MaxAttempts
    BY <1>4 DEF Stops
  <2>2. h + 1 >= MaxAttempts => h = l
    BY <1>2, <1>5
  <2> QED  BY <1>1, <2>1, <2>2
<1>7. ASSUME NEW k \in i..(h - 1)  PROVE Probe(k) \in skipped
  <2>1. k \in Nat /\ k \notin Stops(i, skipped)
    BY <1>4, <1>5, <1>7
  <2>2. k \in i..(i + MaxAttempts)
    BY <1>2, <1>5, <1>7
  <2> QED  BY <2>1, <2>2 DEF Stops
<1>8. skipped \cup {Probe(h)} = {Probe(j) : j \in 0..h}
  <2>1. \A j \in 0..h : j \in 0..(i - 1) \/ j \in i..(h - 1) \/ j = h
    BY <1>5
  <2>2. \A j \in 0..(i - 1) : j \in 0..h
    BY <1>5
  <2> HIDE DEF h
  <2> QED  BY <1>5, <1>7, <2>1, <2>2
<1>9. After(h) = h + 1 /\ h + 1 <= MaxAttempts
  <2>1. h + 1 <= MaxAttempts /\ Len(Probes) \in Nat \ {0}
    BY <1>2, <1>5, SessionAssumption, LenProperties
  <2> QED  BY <1>2, <1>5, <2>1 DEF After
<1> QED  BY <1>5, <1>6, <1>8, <1>9

\* The lock of the first mirror has one holder, or no holder that reads.
LEMMA FirstHolder ==
  ASSUME Facts, SerialInv, NEW p \in Page, NEW q \in Page, p # q,
         First \in locked[p]
  PROVE  First \notin locked[q]
BY FirstProbe DEF Facts, OneHolder, SerialInv

\* A page that went on from the first mirror has no page that writes beside it.
LEMMA NobodyWrites ==
  ASSUME Facts, SerialInv, NEW p \in Page, Beyond(p), NEW q \in Page, p # q
  PROVE  op[q] = "read" \/ pc[q] = "over"
<1>1. First \notin locked[q] /\ data[First] \notin Session
  BY FirstHolder, SessionAssumption DEF Beyond, Session
<1> QED  BY <1>1 DEF SerialInv, PageInv, Writer

LEMMA SamePage ==
  ASSUME NEW p \in Page, PageInv(p),
         op'[p] = op[p], pc'[p] = pc[p], sent'[p] = sent[p], seen'[p] = seen[p],
         skip'[p] = skip[p], index'[p] = index[p], got'[p] = got[p],
         valid'[p] = valid[p], locked'[p] = locked[p],
         op[p] = "read" => locked[p] \cap spoiled' = {},
         \/ data'[First] = data[First]
         \/ data'[First] \in Session /\ (op[p] = "read" => First \notin locked[p])
  PROVE  PageInv(p)'
<1>1. Mmc(p)' = Mmc(p) /\ First' = First /\ AtFirst(p)' = AtFirst(p)
  BY DEF Mmc, Index, First, AtFirst
<1>2. op[p] = "read" => (Beyond(p) => Beyond(p)')
  BY <1>1 DEF Beyond
<1>3. CASE op[p] = "read"
  BY <1>1, <1>2, <1>3 DEF PageInv, Reader
<1>4. CASE op[p] # "read"
  BY <1>1, <1>4 DEF PageInv, Writer
<1> QED  BY <1>3, <1>4

\* What a step of page p leaves alone.
LEMMA PageLeaves ==
  ASSUME TypeOK, NEW p \in Page, PageStep(p)
  PROVE  /\ \A q \in Page \ {p} : got'[q] = got[q] /\ locked'[q] = locked[q]
         /\ spoiled' \subseteq spoiled
         /\ (\A s \in spoiled : Has(s)) => \A s \in spoiled' : Has(s)'
         /\ \/ End(p) /\ locked'[p] = {} /\ UNCHANGED got
            \/ ~Finish(p) /\ ~Leave(p) /\ locked' = locked
<1>1. \A q \in Page \ {p} : got'[q] = got[q]
  BY DEF PageStep, Read, Attempt, Found, Missing, BackOff, Judge, Call, Schedule, Finish, Leave,
         End, TypeOK
<1>2. CASE Finish(p) \/ Leave(p)
  <2>1. End(p)
    BY <1>2 DEF Finish, Leave
  <2>2. /\ locked' = [locked EXCEPT ![p] = {}] /\ UNCHANGED got
        /\ spoiled' \subseteq spoiled /\ \A s \in spoiled' : Has(s)'
    BY <2>1 DEF End, Holding, Has
  <2> QED  BY <1>1, <2>1, <2>2 DEF TypeOK
<1>3. CASE ~Finish(p) /\ ~Leave(p)
  <2>1. UNCHANGED <<locked, spoiled>>
    BY <1>3 DEF PageStep, Read, Attempt, Found, Missing, BackOff, Judge, Call, Schedule, history
  <2> QED  BY <1>1, <1>3, <2>1 DEF Has
<1> QED  BY <1>2, <1>3

\* The page that takes a step, while it reads.
LEMMA ReaderSteps ==
  ASSUME Facts, SerialInv, NEW p \in Page, op[p] = "read",
         Read(p) \/ Attempt(p) \/ Found(p) \/ Missing(p) \/ BackOff(p) \/ Leave(p)
  PROVE  PageInv(p)'
<1>0. /\ TypeOK /\ PageInv(p) /\ Reader(p) /\ valid[p] = Server
      /\ Mmc(p) \in Server /\ First' = First /\ First \in Server
      /\ data' = data /\ valid' = valid
  <2>1. TypeOK /\ PageInv(p) /\ Mmc(p) \in Server /\ First \in Server
    BY MmcType, FirstProbe DEF Facts, TypeInv, SerialInv
  <2>2. First' = First
    BY DEF First
  <2> QED  BY <2>1, <2>2, PageSends DEF PageInv, PageStep
<1>1. AtFirst(p) => Mmc(p) = First
  BY DEF AtFirst, Mmc, Index, First
<1>2. CASE Read(p)
  <2>1. /\ pc' = [pc EXCEPT ![p] = "find"] /\ pc[p] = "idle" /\ op'[p] = "read"
        /\ UNCHANGED <<sent, skip, index, valid, got, seen, data, locked, spoiled>>
    BY <1>2 DEF Read, serverVars, history
  <2>2. pc'[p] = "find"
    BY <1>0, <2>1 DEF TypeOK
  <2> QED  BY <1>0, <2>1, <2>2 DEF PageInv, Reader, AtFirst, Beyond
<1>3. CASE Attempt(p)
  <2>1. /\ pc[p] = "find" /\ sent'[p][Mmc(p)] = sent[p][Mmc(p)] \o LockCommands
        /\ UNCHANGED <<skip, index, op, valid, got, data, locked, spoiled>>
        /\ pc' = [pc EXCEPT ![p] = "wait"]
    BY <1>0, <1>3, AttemptSends DEF Attempt, serverVars, history
  <2>2. sent[p][Mmc(p)] = <<>>
    BY <1>0, <2>1 DEF Facts, InFlight
  <2>3. sent'[p][Mmc(p)] # <<>>
    <3>1. sent'[p][Mmc(p)] = <<>> \o LockCommands
      BY <2>1, <2>2
    <3> QED  BY <3>1 DEF LockCommands
  <2>4. pc'[p] = "wait" /\ Mmc(p)' = Mmc(p)
    BY <1>0, <2>1 DEF TypeOK, Mmc, Index
  <2> QED  BY <1>0, <2>1, <2>3, <2>4 DEF PageInv, Reader, AtFirst, Beyond
<1>4. ASSUME Judge(p), got[p], NEW l, pc' = [pc EXCEPT ![p] = l], l \in {"find", "page"},
             l = "find" => seen[p][Mmc(p)] \notin Session
      PROVE  PageInv(p)'
  <2>1. /\ pc[p] = "wait" /\ sent[p][Mmc(p)] = <<>> /\ got' = [got EXCEPT ![p] = FALSE]
        /\ UNCHANGED <<sent, op, valid, seen, data, locked, spoiled>>
    BY <1>0, <1>4 DEF Judge, serverVars, history
  <2>2. First \in locked[p]
    BY <1>0, <1>1, <1>4, <2>1 DEF Reader, Beyond
  <2>3. l = "find" => Beyond(p)
    <3> SUFFICES ASSUME l = "find", AtFirst(p)  PROVE data[First] = None
      BY <1>0, <2>1, <2>2 DEF Reader, Beyond
    <3>1. seen[p][First] \notin Session \cup {Unread}
      BY <1>0, <1>1, <1>4, <2>1 DEF Reader
    <3>2. seen[p][First] = None
      BY <1>0, <3>1 DEF TypeOK
    <3>3. First \notin spoiled
      BY DEF SerialInv
    <3> QED  BY <2>2, <3>1, <3>2, <3>3 DEF Facts, HeldIsCurrent
  <2>4. pc'[p] = l /\ ~got'[p]
    BY <1>0, <1>4, <2>1 DEF TypeOK
  <2> QED  BY <1>0, <1>4, <2>1, <2>2, <2>3, <2>4 DEF PageInv, Reader, Beyond
<1>5. CASE Found(p)
  BY <1>4, <1>5 DEF Found
<1>6. CASE Missing(p)
  <2>1. /\ Judge(p) /\ got[p] /\ seen[p][Mmc(p)] \notin Session
        /\ pc' = [pc EXCEPT ![p] = LoopPc(skip[p] \cup {Mmc(p)}, remaining[p])]
    BY <1>6 DEF Missing, Skip
  <2> QED  BY <1>4, <2>1, LoopPcType
<1>7. CASE BackOff(p)
  <2>1. /\ pc[p] = "wait" /\ got' = [got EXCEPT ![p] = FALSE]
        /\ pc' = [pc EXCEPT ![p] = "sleep"]
        /\ UNCHANGED <<skip, index, sent, op, valid, seen, data, locked, spoiled>>
    BY <1>7 DEF BackOff, Judge, serverVars, history
  <2>2. pc'[p] = "sleep" /\ ~got'[p]
    BY <1>0, <2>1 DEF TypeOK
  <2> QED  BY <1>0, <2>1, <2>2 DEF PageInv, Reader, AtFirst, Beyond
<1>8. CASE Leave(p)
  <2>1. /\ pc[p] = "page" /\ pc' = [pc EXCEPT ![p] = "over"]
        /\ locked' = [locked EXCEPT ![p] = {}] /\ UNCHANGED <<op, got>>
    BY <1>8 DEF Leave, End, Holding
  <2>2. pc'[p] = "over" /\ locked'[p] = {} /\ ~got'[p] /\ op'[p] = "read"
    BY <1>0, <2>1 DEF TypeOK, Reader
  <2> QED  BY <1>0, <2>2 DEF PageInv, Reader
<1> QED  BY <1>2, <1>3, <1>5, <1>6, <1>7, <1>8

\* The page that takes a step, when it begins to write or writes.
LEMMA WriterSteps ==
  ASSUME Facts, SerialInv, NamesEnough, NEW p \in Page,
         Call(p, "write") \/ (op[p] # "read" /\ (Schedule(p) \/ Finish(p)))
  PROVE  PageInv(p)'
<1>0. /\ TypeOK /\ PageInv(p) /\ valid[p] = Server
      /\ Mmc(p) \in Server /\ First' = First /\ First \in Server
      /\ data' = data /\ valid' = valid
  <2>1. TypeOK /\ PageInv(p) /\ Mmc(p) \in Server /\ First \in Server
    BY MmcType, FirstProbe DEF Facts, TypeInv, SerialInv
  <2>2. First' = First
    BY DEF First
  <2> QED  BY <2>1, <2>2, PageSends DEF PageInv, PageStep
<1>1. CASE Call(p, "write")
  <2>1. /\ pc[p] = "page" /\ op[p] = "read"
        /\ pc' = [pc EXCEPT ![p] = "find"] /\ op' = [op EXCEPT ![p] = "write"]
        /\ skip' = [skip EXCEPT ![p] = {}] /\ index' = [index EXCEPT ![p] = 0]
        /\ UNCHANGED <<sent, locked>>
    BY <1>0, <1>1 DEF Call, PageInv, Writer
  <2>2. pc'[p] = "find" /\ op'[p] = "write" /\ skip'[p] = {} /\ index'[p] = 0
    BY <1>0, <2>1 DEF TypeOK
  <2>3. \A s \in Server : sent'[p][s] = <<>>
    BY <1>0, <2>1 DEF Facts, InFlight
  <2>4. First \in locked'[p]
    BY <1>0, <2>1 DEF PageInv, Reader
  <2>5. {Probe(i) : i \in 0..(0 - 1)} = {} /\ 0 <= MaxAttempts
    BY SessionAssumption
  <2>6. ~Enough({})
    BY NoMirrorsYet
  <2>7. Writer(p)'
    <3>1. /\ index'[p] <= MaxAttempts /\ ~Enough(skip'[p])
          /\ skip'[p] = {Probe(i) : i \in 0..(index'[p] - 1)}
      BY <2>2, <2>5, <2>6
    <3>2. \A s \in Server : sent'[p][s] \in Seq({"set", "unlock"})
      <4>1. <<>> \in Seq({"set", "unlock"})
        OBVIOUS
      <4> QED  BY <2>3, <4>1
    <3> QED  BY <1>0, <2>2, <2>3, <2>4, <3>1, <3>2 DEF Writer
  <2> QED  BY <1>0, <2>2, <2>7 DEF PageInv
<1>2. CASE op[p] # "read" /\ Schedule(p)
  <2>0. Writer(p) /\ pc[p] = "find" /\ op[p] = "write"
    BY <1>0, <1>2 DEF PageInv, Writer, Schedule
  <2> DEFINE i == index[p]
             h == Hit(i, skip[p])
  <2>1. /\ i \in Nat /\ i <= MaxAttempts /\ ~Enough(skip[p])
        /\ skip[p] = {Probe(j) : j \in 0..(i - 1)}
    BY <1>0, <2>0 DEF Writer, TypeOK
  <2>2. /\ h \in Nat /\ After(h) = h + 1 /\ h + 1 <= MaxAttempts /\ Probe(h) \notin skip[p]
        /\ skip[p] \cup {Probe(h)} = {Probe(j) : j \in 0..h}
    BY <2>1, NextMirror
  <2>3. Mmc(p) = Probe(h) /\ Index(p) = h
    BY DEF Mmc, Index
  <2>4. /\ index' = [index EXCEPT ![p] = h + 1]
        /\ skip' = [skip EXCEPT ![p] = skip[p] \cup {Mmc(p)}]
        /\ sent' = [sent EXCEPT ![p][Mmc(p)] = sent[p][Mmc(p)] \o WriteCommands]
        /\ pc' = [pc EXCEPT ![p] = IF Enough(skip'[p]) THEN "wait" ELSE "find"]
        /\ UNCHANGED <<op, locked>>
    BY <1>0, <1>2, <2>0, <2>2, <2>3 DEF Schedule, history, Commands
  <2>5. First \notin skip[p] => Mmc(p) = First
    <3> SUFFICES ASSUME First \notin skip[p]  PROVE h = 0
      BY <2>3, FirstProbe
    <3>1. i = 0
      BY <2>1, FirstProbe
    <3>2. skip[p] = {}
      BY <2>1, <3>1
    <3> QED  BY <3>1, <3>2, FirstProbe
  <2>6. /\ index'[p] = h + 1 /\ skip'[p] = skip[p] \cup {Mmc(p)} /\ First \in skip'[p]
        /\ pc'[p] = (IF Enough(skip'[p]) THEN "wait" ELSE "find")
        /\ sent'[p][Mmc(p)] = sent[p][Mmc(p)] \o WriteCommands
        /\ \A s \in Server \ {Mmc(p)} : sent'[p][s] = sent[p][s]
    BY <1>0, <2>4, <2>5 DEF TypeOK
  <2>7. WriteCommands \in Seq({"set", "unlock"}) /\ <<>> \o WriteCommands = WriteCommands
    BY DEF WriteCommands
  <2>8. \A s \in Server : sent'[p][s] \in Seq({"set", "unlock"})
    <3> SUFFICES ASSUME NEW s \in Server  PROVE sent'[p][s] \in Seq({"set", "unlock"})
      OBVIOUS
    <3>1. sent[p][s] \in Seq({"set", "unlock"})
      BY <2>0 DEF Writer
    <3>2. sent[p][s] \o WriteCommands \in Seq({"set", "unlock"})
      BY <2>7, <3>1
    <3> QED  BY <2>6, <3>1, <3>2
  <2>9. IF First \in skip[p]
        THEN sent'[p][First] = sent[p][First]
        ELSE /\ sent'[p][First] = WriteCommands
             /\ First \in locked[p]
    <3>1. CASE First \in skip[p]
      BY <1>0, <2>2, <2>3, <2>6, <3>1
    <3>2. CASE First \notin skip[p]
      <4>1. sent[p][First] = <<>> /\ First \in locked[p]
        BY <2>0, <3>2 DEF Writer
      <4> QED  BY <2>5, <2>6, <2>7, <3>2, <4>1
    <3> QED  BY <3>1, <3>2
  <2>10. skip'[p] = {Probe(j) : j \in 0..(index'[p] - 1)}
    <3>1. index'[p] - 1 = h
      BY <2>2, <2>6
    <3> HIDE DEF h
    <3> QED  BY <2>2, <2>3, <2>6, <3>1
  <2>11. index'[p] <= MaxAttempts
    BY <2>2, <2>6
  <2>12. WriteCommands # <<"unlock">>
    BY DEF WriteCommands
  <2> HIDE DEF h, i
  <2>13. Writer(p)'
    <3>1. /\ op'[p] = "write" /\ pc'[p] \in {"find", "wait", "over"} /\ pc'[p] # "over"
          /\ First \in locked'[p] \/ data'[First] \in Session
          /\ WriteCommands' = WriteCommands
      BY <1>0, <2>0, <2>4, <2>6 DEF Writer, WriteCommands
    <3>2. /\ pc'[p] = "find" => /\ index'[p] <= MaxAttempts /\ ~Enough(skip'[p])
                         /\ skip'[p] = {Probe(j) : j \in 0..(index'[p] - 1)}
      BY <2>6, <2>10, <2>11
    <3>3. /\ sent'[p][First] \in {<<>>, WriteCommands, <<"unlock">>}
          /\ sent'[p][First] # <<>> => First \in locked'[p]
          /\ sent'[p][First] = <<"unlock">> => data'[First] \in Session
      BY <1>0, <2>0, <2>4, <2>9, <2>12 DEF Writer
    <3> QED  BY <1>0, <2>6, <2>8, <3>1, <3>2, <3>3 DEF Writer
  <2> QED  BY <1>0, <2>6, <2>13 DEF PageInv, Writer
<1>3. CASE op[p] # "read" /\ Finish(p)
  <2>1. /\ Writer(p) /\ pc' = [pc EXCEPT ![p] = "over"]
        /\ locked' = [locked EXCEPT ![p] = {}] /\ UNCHANGED <<op, sent>>
        /\ \A s \in Server : sent[p][s] = <<>>
    BY <1>0, <1>3 DEF PageInv, Finish, End, Holding
  <2>2. pc'[p] = "over" /\ locked'[p] = {} /\ op'[p] = "write"
    BY <1>0, <2>1 DEF TypeOK, Writer
  <2> QED  BY <1>0, <2>1, <2>2 DEF PageInv, Writer
<1> QED  BY <1>1, <1>2, <1>3

LEMMA PageSerial ==
  ASSUME Facts, SerialInv, NamesEnough, NEW p \in Page, PageStep(p), ~excused'
  PROVE  SerialInv'
<1>0. TypeOK /\ First' = First
  BY DEF Facts, TypeInv, First
<1>1. First \notin spoiled' /\ (\A s \in spoiled' : Has(s)')
  BY <1>0, PageLeaves DEF SerialInv
<1>2. ASSUME NEW q \in Page \ {p}  PROVE PageInv(q)'
  <2>1. PageInv(q) /\ (op[q] = "read" => locked[q] \cap spoiled' = {})
    BY <1>0, PageLeaves DEF SerialInv, PageInv, Reader
  <2> QED  BY <1>0, <2>1, PageSends, PageLeaves, SamePage
<1>3. PageInv(p)'
  <2>1. PageInv(p)
    BY DEF SerialInv
  <2>2. CASE \E o \in {"write", "destroy"} : Call(p, o)
    <3>1. Call(p, "write")
      BY <2>2 DEF Call
    <3> QED  BY <3>1, WriterSteps
  <2>3. CASE Schedule(p) \/ Finish(p)
    BY <2>3, WriterSteps DEF Schedule, Finish
  <2>4. CASE Read(p) \/ Attempt(p) \/ Found(p) \/ Missing(p) \/ BackOff(p) \/ Leave(p)
    <3>1. op[p] = "read"
      BY <2>1, <2>4 DEF PageInv, Writer, Read, Attempt, Found, Missing, BackOff, Judge, Leave
    <3> QED  BY <2>4, <3>1, ReaderSteps
  <2> QED  BY <2>2, <2>3, <2>4 DEF PageStep
<1> QED  BY <1>0, <1>1, <1>2, <1>3 DEF SerialInv

\* A page that reads gets a lock.
LEMMA GrantSerial ==
  ASSUME Facts, SerialInv, NEW p \in Page, NEW s \in Server, op[p] = "read",
         sent[p][s] # <<>>, sent' = [sent EXCEPT ![p][s] = Tail(sent[p][s])],
         Tail(sent[p][s]) # <<>>,
         NEW success, Grant(p, s, success),
         UNCHANGED <<data, seen, pc, op, loopVars, valid>>
  PROVE  SerialInv'
<1>0. /\ TypeOK /\ First' = First /\ First \in Server /\ PageInv(p) /\ Reader(p)
      /\ UNCHANGED <<skip, index>>
      /\ pc[p] = "wait" /\ s = Mmc(p) /\ Hears(p, s)
  <2>1. TypeOK /\ First' = First /\ First \in Server /\ PageInv(p)
    BY FirstProbe DEF Facts, TypeInv, First, SerialInv
  <2>2. pc[p] = "wait" /\ s = Mmc(p)
    BY <2>1 DEF Facts, InFlight, PageInv
  <2> QED  BY <2>1, <2>2 DEF PageInv, Hears, Running, loopVars
<1>1. /\ \A q \in Page \ {p} : sent'[q] = sent[q]
      /\ sent'[p][s] # <<>> /\ Mmc(p)' = s
  BY <1>0 DEF TypeOK, Mmc, Index
<1>2. CASE ~success
  <2>1. UNCHANGED <<got, locked, spoiled>>
    BY <1>2 DEF Grant
  <2>2. \A q \in Page \ {p} : PageInv(q)'
    BY <1>0, <1>1, <2>1, SamePage DEF SerialInv, PageInv, Reader
  <2>3. PageInv(p)'
    BY <1>0, <1>1, <2>1 DEF PageInv, Reader, AtFirst, Beyond
  <2> QED  BY <1>0, <2>1, <2>2, <2>3 DEF SerialInv, Has
<1>3. CASE success
  <2> DEFINE new == [locked EXCEPT ![p] = locked[p] \cup {s}]
  <2>1. got' = [got EXCEPT ![p] = TRUE] /\ Holding(new, {})
    BY <1>0, <1>3 DEF Grant
  <2>2. /\ locked' = new /\ spoiled' \subseteq spoiled /\ (\A t \in spoiled' : Has(t)')
    BY <2>1 DEF Holding, Has
  <2>3. /\ got'[p] /\ locked'[p] = locked[p] \cup {s}
        /\ \A q \in Page \ {p} : got'[q] = got[q] /\ locked'[q] = locked[q]
    BY <1>0, <2>1, <2>2 DEF TypeOK
  <2>4. s \notin spoiled
    <3> SUFFICES ASSUME s \in spoiled  PROVE FALSE
      OBVIOUS
    <3>1. s # First
      BY DEF SerialInv
    <3>2. Beyond(p)
      BY <1>0, <3>1 DEF Reader, AtFirst, Mmc, Index, First
    <3>3. PICK q \in Page : s \in locked[q]
      BY DEF SerialInv, Has
    <3>4. op[q] # "read" /\ pc[q] # "over" /\ q # p
      BY <1>0, <3>3 DEF SerialInv, PageInv, Reader
    <3> QED  BY <3>2, <3>4, NobodyWrites
  <2>5. ASSUME NEW q \in Page \ {p}  PROVE PageInv(q)'
    <3>1. PageInv(q) /\ (op[q] = "read" => locked[q] \cap spoiled' = {})
      BY <2>2 DEF SerialInv, PageInv, Reader
    <3> QED  BY <1>0, <1>1, <2>3, <3>1, SamePage
  <2>6. PageInv(p)'
    <3>1. locked'[p] \cap spoiled' = {}
      BY <1>0, <2>2, <2>3, <2>4 DEF Reader
    <3>2. Beyond(p) => Beyond(p)'
      BY <1>0, <2>3 DEF Beyond
    <3>3. AtFirst(p) => s = First
      BY <1>0 DEF AtFirst, Mmc, Index, First
    <3>4. locked'[p] \subseteq {First} \/ Beyond(p)'
      BY <1>0, <2>3, <3>2, <3>3 DEF Reader
    <3>5. AtFirst(p)' \/ Beyond(p)'
      BY <1>0, <3>2 DEF Reader, AtFirst
    <3> QED  BY <1>0, <1>1, <2>3, <3>1, <3>4, <3>5 DEF PageInv, Reader
  <2> QED  BY <1>0, <2>2, <2>5, <2>6 DEF SerialInv
<1> QED  BY <1>2, <1>3

\* A page that reads gets a value.
LEMMA GetSerial ==
  ASSUME Facts, SerialInv, NEW p \in Page, NEW s \in Server, op[p] = "read",
         sent[p][s] # <<>>, sent' = [sent EXCEPT ![p][s] = Tail(sent[p][s])],
         Get(p, s), UNCHANGED <<pc, op, loopVars, valid>>
  PROVE  SerialInv'
<1>0. /\ TypeOK /\ First' = First /\ PageInv(p) /\ Reader(p)
      /\ UNCHANGED <<skip, index, data, got, locked, spoiled>>
      /\ pc[p] = "wait" /\ s = Mmc(p) /\ Hears(p, s)
  <2>1. TypeOK /\ First' = First /\ PageInv(p)
    BY DEF Facts, TypeInv, First, SerialInv
  <2>2. pc[p] = "wait" /\ s = Mmc(p)
    BY <2>1 DEF Facts, InFlight, PageInv
  <2> QED  BY <2>1, <2>2 DEF PageInv, Hears, Running, loopVars, Get, serverVars
<1>1. /\ \A q \in Page \ {p} : sent'[q] = sent[q] /\ seen'[q] = seen[q]
      /\ Mmc(p)' = s /\ seen'[p][s] = data[s]
  BY <1>0 DEF TypeOK, Mmc, Index, Get
<1>2. data[s] # Unread
  BY <1>0, SessionAssumption DEF TypeOK, Session
<1>3. \A q \in Page \ {p} : PageInv(q)'
  BY <1>0, <1>1, SamePage DEF SerialInv, PageInv, Reader
<1>4. PageInv(p)'
  BY <1>0, <1>1, <1>2 DEF PageInv, Reader, AtFirst, Beyond
<1> QED  BY <1>0, <1>3, <1>4 DEF SerialInv, Has

\* A page that writes has one of its commands executed.
LEMMA WriteSerial ==
  ASSUME Facts, SerialInv, NEW p \in Page, NEW s \in Server, op[p] # "read", Execute(p, s)
  PROVE  SerialInv'
<1>0. /\ TypeOK /\ First' = First /\ First \in Server /\ PageInv(p) /\ Writer(p)
      /\ UNCHANGED <<pc, op, skip, index, valid, seen, got>>
      /\ WriteCommands' = WriteCommands
  <2>1. TypeOK /\ First' = First /\ First \in Server /\ PageInv(p)
    BY FirstProbe DEF Facts, TypeInv, First, SerialInv
  <2>2. Writer(p)
    BY <2>1 DEF PageInv
  <2>3. Head(sent[p][s]) \in {"set", "unlock"}
    <3>1. sent[p][s] \in Seq({"set", "unlock"}) /\ sent[p][s] # <<>>
      BY <2>2 DEF Writer, Execute
    <3> QED  BY <3>1
  <2> QED  BY <2>1, <2>2, <2>3 DEF Execute, loopVars, SetData, SetLock, WriteCommands
<1>1. /\ sent[p][s] # <<>> /\ sent[p][s] \in Seq({"set", "unlock"})
      /\ sent'[p][s] = Tail(sent[p][s])
      /\ \A q \in Page \ {p} : sent'[q] = sent[q]
      /\ \A t \in Server \ {s} : sent'[p][t] = sent[p][t]
  BY <1>0 DEF Execute, TypeOK, Writer
<1>2. \/ Head(sent[p][s]) = "set" /\ SetData(p, s, p)
      \/ Head(sent[p][s]) = "unlock" /\ SetLock(p, s, 0)
  BY <1>1 DEF Execute
<1>3. pc[p] # "over"
  BY <1>0, <1>1 DEF Writer
<1>4. s = First => First \in locked[p]
  BY <1>0, <1>1 DEF Writer
<1>5. ASSUME NEW q \in Page \ {p}, s \in locked[q]  PROVE op[q] # "read" /\ s # First
  <2>1. s # First
    BY <1>4, <1>5, FirstHolder
  <2>2. op[q] = "read" => Beyond(q)
    BY <1>5, <2>1 DEF SerialInv, PageInv, Reader
  <2> QED  BY <1>0, <1>3, <2>1, <2>2, NobodyWrites
<1>6. /\ Overrule(p, s) \subseteq {s}
      /\ First \notin Overrule(p, s)
      /\ \A q \in Page : op[q] = "read" => locked[q] \cap Overrule(p, s) = {}
  BY <1>0, <1>5 DEF Overrule, HasOther
<1>7. /\ data'[First] = data[First] \/ (s = First /\ data'[First] \in Session)
      /\ data[First] \in Session => data'[First] \in Session
  BY <1>0, <1>2 DEF SetData, SetLock, Session, TypeOK
<1>8. /\ spoiled' \subseteq spoiled \cup Overrule(p, s)
      /\ \A t \in spoiled' : Has(t)'
      /\ \A q \in Page \ {p} : locked'[q] = locked[q]
      /\ locked'[p] = IF Head(sent[p][s]) = "set" THEN locked[p] ELSE locked[p] \ {s}
  BY <1>0, <1>2 DEF SetData, SetLock, Holding, Has, TypeOK
<1>9. ASSUME NEW q \in Page \ {p}  PROVE PageInv(q)'
  <2>1. PageInv(q)
    BY DEF SerialInv
  <2>2. op[q] = "read" => locked[q] \cap spoiled' = {}
    BY <1>6, <1>8, <2>1 DEF PageInv, Reader
  <2>3. s = First => First \notin locked[q]
    BY <1>4, FirstHolder
  <2> QED  BY <1>0, <1>1, <1>7, <1>8, <2>1, <2>2, <2>3, SamePage
<1>10. \A t \in Server : sent'[p][t] \in Seq({"set", "unlock"})
  <2>1. Tail(sent[p][s]) \in Seq({"set", "unlock"})
    BY <1>1
  <2>2. \A t \in Server : sent[p][t] \in Seq({"set", "unlock"})
    BY <1>0 DEF Writer
  <2> QED  BY <1>1, <2>1, <2>2
<1>11. PageInv(p)'
  <2>1. CASE s # First
    <3>1. sent'[p][First] = sent[p][First] /\ (First \in locked'[p] <=> First \in locked[p])
          /\ data'[First] = data[First]
      BY <1>0, <1>1, <1>7, <1>8, <2>1
    <3> QED  BY <1>0, <1>3, <1>10, <3>1 DEF PageInv, Writer
  <2>2. CASE s = First /\ Head(sent[p][s]) = "set"
    <3>1. data'[First] \in Session /\ locked'[p] = locked[p] /\ First \in locked[p]
      BY <1>0, <1>2, <1>4, <1>8, <2>2 DEF SetData, Session, TypeOK
    <3>2. sent'[p][First] \in {<<>>, <<"unlock">>} /\ First \in skip[p]
      <4>1. sent[p][First] \in {WriteCommands, <<"unlock">>} /\ First \in skip[p]
        BY <1>0, <1>1, <1>3, <2>2 DEF Writer
      <4>2. Tail(WriteCommands) = <<"unlock">> /\ Tail(<<"unlock">>) = <<>>
        BY DEF WriteCommands
      <4> QED  BY <1>1, <2>2, <4>1, <4>2
    <3> QED  BY <1>0, <1>3, <1>10, <3>1, <3>2 DEF PageInv, Writer
  <2>3. CASE s = First /\ Head(sent[p][s]) = "unlock"
    <3>1. sent[p][First] = <<"unlock">> /\ First \in skip[p]
      <4>1. sent[p][First] \in {WriteCommands, <<"unlock">>} /\ First \in skip[p]
        BY <1>0, <1>1, <1>3, <2>3 DEF Writer
      <4>2. Head(WriteCommands) = "set"
        BY DEF WriteCommands
      <4> QED  BY <2>3, <4>1, <4>2
    <3>2. sent'[p][First] = <<>> /\ data'[First] \in Session
      BY <1>0, <1>1, <1>7, <2>3, <3>1 DEF Writer
    <3> QED  BY <1>0, <1>3, <1>10, <3>1, <3>2 DEF PageInv, Writer
  <2> QED  BY <1>2, <2>1, <2>2, <2>3
<1> QED  BY <1>0, <1>6, <1>8, <1>9, <1>11 DEF SerialInv

LEMMA ExecuteSerial ==
  ASSUME Facts, SerialInv, NEW p \in Page, NEW s \in Server, Execute(p, s)
  PROVE  SerialInv'
<1>0. /\ TypeOK /\ valid[p] = Server /\ sent[p][s] # <<>>
      /\ sent' = [sent EXCEPT ![p][s] = Tail(sent[p][s])]
      /\ UNCHANGED <<pc, op, loopVars, valid>>
  BY DEF Facts, TypeInv, SerialInv, PageInv, Execute
<1>1. CASE op[p] # "read"
  BY <1>1, WriteSerial
<1>2. CASE op[p] = "read"
  <2>1. sent[p][s] \in {LockCommands, <<"add", "get">>, <<"get">>}
    BY <1>0, <1>2 DEF Facts, InFlight
  <2>2. CASE sent[p][s] = <<"get">>
    <3>1. Head(sent[p][s]) = "get"
      BY <2>2
    <3>2. Get(p, s)
      BY <3>1 DEF Execute
    <3> QED  BY <1>0, <1>2, <3>2, GetSerial
  <2>3. CASE sent[p][s] \in {LockCommands, <<"add", "get">>}
    <3>1. Head(sent[p][s]) \in {"incr", "add"} /\ Tail(sent[p][s]) # <<>>
      <4>1. CASE sent[p][s] = <<"incr", "add", "get">>
        BY <4>1, Tails
      <4>2. CASE sent[p][s] = <<"add", "get">>
        BY <4>2, Tails
      <4> QED  BY <2>3, <4>1, <4>2 DEF LockCommands
    <3>2. Increment(p, s) \/ Add(p, s)
      BY <3>1 DEF Execute
    <3>3. /\ UNCHANGED <<data, seen>>
          /\ \E success \in BOOLEAN : Grant(p, s, success)
      BY <3>2 DEF Increment, Add
    <3> QED  BY <1>0, <1>2, <3>1, <3>3, GrantSerial
  <2> QED  BY <2>1, <2>2, <2>3
<1> QED  BY <1>1, <1>2

\* A tick, under which no lock expires and no page runs out of time.
LEMMA TickSerial ==
  ASSUME Facts, SerialInv, Tick, ~excused'
  PROVE  SerialInv'
<1>0. TypeOK /\ TimeLeft /\ First' = First
  BY DEF Facts, TypeInv, First
<1>1. /\ UNCHANGED <<data, sent, op, skip, index, valid, got, seen>>
      /\ \A p \in Page : pc'[p] = IF pc[p] = "sleep" THEN LoopPc(skip[p], remaining[p] - 1)
                                  ELSE pc[p]
      /\ Holding(locked, {s \in Server : lease[s] = 1})
      /\ \A s \in Server : lease[s] = 1 => ~Has(s)
      /\ \A p \in Page : pc[p] = "sleep" => remaining[p] # 1
  BY <1>0 DEF Tick, TypeOK
<1>2. locked' = locked /\ spoiled' \subseteq spoiled /\ \A s \in spoiled' : Has(s)'
  BY <1>1 DEF Holding, Has
<1>3. ASSUME NEW p \in Page  PROVE PageInv(p)'
  <2>1. PageInv(p) /\ (op[p] = "read" => locked[p] \cap spoiled' = {})
    BY <1>2 DEF SerialInv, PageInv, Reader
  <2>2. CASE pc[p] # "sleep"
    BY <1>0, <1>1, <1>2, <2>1, <2>2, SamePage
  <2>3. CASE pc[p] = "sleep"
    <3>1. Reader(p) /\ op[p] = "read" /\ Mmc(p)' = Mmc(p)
      BY <1>0, <1>1, <2>1, <2>3 DEF TimeLeft, PageInv, Mmc, Index
    <3>2. pc'[p] \in {"find", "page"}
      BY <1>1, <2>3, LoopPcType
    <3>3. pc'[p] = "page" => First \in locked[p]
      <4> SUFFICES ASSUME pc'[p] = "page", AtFirst(p)  PROVE FALSE
        BY <2>3, <3>1 DEF Reader, Beyond
      <4>1. skip[p] = {} /\ ~Enough({})
        BY NoMirrorsYet DEF AtFirst
      <4>2. remaining[p] \in Int /\ remaining[p] > 0 /\ remaining[p] # 1
        BY <1>0, <1>1, <2>3, <3>1, SessionAssumption DEF TimeLeft, TypeOK
      <4>3. ~(remaining[p] - 1 <= 0)
        BY <4>2
      <4> QED  BY <1>1, <2>3, <4>1, <4>3 DEF LoopPc
    <3> QED
      BY <1>0, <1>1, <1>2, <2>1, <2>3, <3>1, <3>2, <3>3 DEF PageInv, Reader, AtFirst, Beyond
  <2> QED  BY <2>2, <2>3
<1> QED  BY <1>0, <1>2, <1>3 DEF SerialInv

(* As long as no fault, no expired lock, no read that gave up and no destroy *)
(* excuses it, no page that reads and runs is overruled, for any number of   *)
(* pages: whoever has a lock of another mirror has that of the first one,    *)
(* which has no session then, and whoever writes has that lock or has stored *)
(* the session there.                                                        *)
THEOREM SerialisedInvariant == Spec => []Serialised
<1> DEFINE Inv == NamesEnough /\ ~excused => SerialInv
<1>1. Init => Inv
  <2> SUFFICES ASSUME Init  PROVE SerialInv
    OBVIOUS
  <2>1. \A p \in Page : PageInv(p)
    BY DEF Init, PageInv, Reader, AtFirst
  <2> QED  BY <2>1 DEF Init, SerialInv
<1>2. Facts /\ Inv /\ [Next]_vars => Inv'
  <2> SUFFICES ASSUME Facts, Inv, [Next]_vars, NamesEnough', ~excused'  PROVE SerialInv'
    OBVIOUS
  <2>0. NamesEnough
    BY DEF NamesEnough, Enough
  <2>1. CASE UNCHANGED vars
    <3>1. SerialInv
      BY <2>0, <2>1 DEF vars, history
    <3>2. \A p \in Page : PageInv(p)'
      BY <2>1, <3>1, SamePage
      DEF SerialInv, PageInv, Reader, vars, serverVars, loopVars, history
    <3> QED  BY <2>1, <3>1, <3>2 DEF SerialInv, Has, First, vars, history
  <2>2. ASSUME NEW p \in Page, PageStep(p)  PROVE SerialInv'
    <3>1. ~excused
      BY <2>2 DEF PageStep, Read, Attempt, Found, Missing, BackOff, Judge, Call, Schedule,
                  Finish, Leave, End, history
    <3> QED  BY <2>0, <2>2, <3>1, PageSerial
  <2>3. ASSUME NEW p \in Page, NEW s \in Server, Execute(p, s)  PROVE SerialInv'
    <3>1. ~excused
      BY <2>3 DEF Execute, Increment, Add, Get, SetData, SetLock
    <3> QED  BY <2>0, <2>3, <3>1, ExecuteSerial
  <2>4. ASSUME NEW p \in Page, NEW s \in Server, Break(p, s) \/ Retry(p, s)  PROVE FALSE
    <3>1. Retry(p, s) /\ ~excused
      BY <2>4 DEF Break, Fault, Retry, history
    <3>2. valid[p] = Server
      BY <2>0, <3>1 DEF SerialInv, PageInv
    <3> QED  BY <3>1, <3>2 DEF Retry
  <2>5. ASSUME NEW s \in Server, EvictData(s) \/ EvictLock(s)  PROVE FALSE
    BY <2>5 DEF EvictData, EvictLock, Fault
  <2>6. CASE Tick
    <3>1. ~excused
      BY <2>6 DEF Tick, Facts, TypeInv, TypeOK
    <3> QED  BY <2>0, <2>6, <3>1, TickSerial
  <2> QED  BY <2>1, <2>2, <2>3, <2>4, <2>5, <2>6 DEF Next, Step
<1>3. Inv => Serialised
  BY DEF SerialInv, PageInv, Reader, Serialised
<1>4. TypeInv /\ OneHolder /\ (ReadSends /\ InFlight /\ HeldIsCurrent) => Facts
  BY DEF Facts
<1> HIDE DEF Inv
<1> QED
  BY <1>1, <1>2, <1>3, <1>4, TypeInvInductive, OneHolderInvariant, CurrentInductive, PTL DEF Spec
============================================================================
