--------------------------- MODULE MmcPoolProofs ---------------------------
(***************************************************************************)
(* Three invariants of the scheduler in every configuration.               *)
(*                                                                         *)
(* TypeOK speaks of the frames one by one.  What keeps it is the shape of  *)
(* the stack: only the handlers that call another one are below it (Lower),*)
(* each frame has the locals its handler needs (FrameOK), a request is     *)
(* sent or parsed inside the loop of a round (Nested), and the next index  *)
(* of a request is probed only while there is one left (ProbeOK).  TypeInv *)
(* is the conjunction; there is one lemma per action.                      *)
(*                                                                         *)
(* FailedIsIdle is proved from Idle, which says the same of the slots and  *)
(* queues and is inductive beside TypeInv.                                 *)
(*                                                                         *)
(* PendingIsBuildingOrFailed is proved from Building, which follows the    *)
(* request from the time its server becomes pending to the time it is      *)
(* scheduled and forgotten.                                                *)
(***************************************************************************)
EXTENDS MmcPool, MmcQueueOpsProofs

(* A frame, R being the requests created so far. *)
UpperPcs == {"schedule", "slot", "deactivate", "failover", "probe", "retry", "late", "get"}
LowerPcs == {"unslot", "drain", "callback", "unqueue", "retryRead", "select", "lateSend",
             "lateRead", "send", "xmit", "unread", "read", "parse", "early", "run", "built",
             "store", "stored", "clone", "rebuild", "flush", "flushed", "ask", "asked"}
ServerPcs == {"schedule", "slot", "deactivate", "failover", "probe", "retry", "late", "unslot",
              "drain", "callback", "unqueue", "retryRead", "xmit", "unread", "parse", "early",
              "built", "clone", "rebuild"}
RequestPcs == {"schedule", "failover", "probe", "retry", "late", "unslot", "retryRead", "clone"}

FrameOK(f, R) ==
  /\ f.pc \in UpperPcs \cup LowerPcs
  /\ f.s \in Server \cup {NoServer} /\ f.r \in R \cup {Null}
  /\ f.pc \in ServerPcs => f.s \in Server
  /\ f.pc \in RequestPcs => f.r \in R
  /\ f.pc = "drain" => f.q \in Seq(R)
  /\ f.pc \in {"store", "stored", "get", "rebuild"} => f.q \in Seq(Key)
  /\ f.pc = "rebuild" => f.q # <<>>
  /\ f.pc \in {"flush", "flushed", "ask", "asked", "clone"} => f.q \in Seq(Server)
  /\ f.pc \in {"send", "read"} => f.w \in 1 .. 2 /\ f.i \in Nat
  /\ f.pc \in {"lateSend", "lateRead", "unread", "xmit", "parse"} => f.w \in 1 .. 2
  /\ f.pc \in {"store", "stored"} => f.i \in Nat
  /\ f.pc = "clone" => /\ f.k \in Key /\ f.i \in Nat /\ f.w \in Nat
                       /\ f.w <= MaxAttempts + f.i /\ f.ok \in BOOLEAN
Frames(R) == {f \in [pc : UpperPcs \cup LowerPcs, s : Server \cup {NoServer}, r : R \cup {Null},
                     q : Seq(Key) \cup Seq(Server) \cup Seq(R), w : Nat, i : Int,
                     k : Key \cup {Null}, ok : BOOLEAN] : FrameOK(f, R)}
Lower(R) == {f \in Frames(R) : f.pc \in LowerPcs}

Request == [kind : {"key", "multi", "null", "blank"}, keys : Seq(Key),
            failed : SUBSET Server, index : Nat, io : Server \cup {NoServer}]

(* A request is sent or a reply parsed below the loop of a round. *)
Nested == \A i \in 1 .. Len(stack) :
  stack[i].pc \in {"xmit", "parse"} => i + 1 \in 1 .. Len(stack)

StackOK ==
  /\ stack \in Seq(Frames(Created))
  /\ stack # <<>> => Tail(stack) \in Seq(Lower(Created))
  /\ Nested

ConnOK ==
  /\ status \in [Server -> {"failed", "retriable", "disconnected", "unknown", "connected"}]
  /\ link \in [Server -> {"none", "up", "eof"}]
  /\ wire \in [Server -> Seq(Created)]
  /\ partly \in [Server -> {"no", "yes", "answered"}]
SlotsOK ==
  /\ sendreq \in [Server -> Created \cup {Null}]
  /\ readreq \in [Server -> Created \cup {Null}]
  /\ buildreq \in [Server -> Created \cup {Null}]
  /\ sendqueue \in [Server -> Seq(Created)]
  /\ readqueue \in [Server -> Seq(Created)]
RoundsOK ==
  /\ sending \in [1 .. 2 -> Seq(Server)]
  /\ reading \in [1 .. 2 -> Seq(Server)]
  /\ cur \in 1 .. 2 /\ in_select \in BOOLEAN
  /\ wfds \subseteq Server /\ rfds \subseteq Server
  /\ pending \in Seq(Server)
ReqsOK ==
  /\ request \in Seq(Request)
  /\ free_requests \in Seq(Created \cup {Null})
  /\ \A r \in Created : request[r].kind = "key" => request[r].keys # <<>>
RestOK ==
  /\ rv \in BOOLEAN /\ want \in Seq(Key) /\ config \in Configs
  /\ faults \in 0 .. MaxFaults /\ calls \in 0 .. MaxCalls

(* mmc_pool_failover_handler looks at the next index only if one is left.  *)
ProbeOK == At("probe") => request[top.r].kind = "key" /\ request[top.r].index < MaxAttempts

TypeInv == ConnOK /\ SlotsOK /\ RoundsOK /\ ReqsOK /\ RestOK /\ StackOK /\ ProbeOK

----------------------------------------------------------------------------
(* The stack. *)

LEMMA FramesGrow ==
  ASSUME NEW R, NEW T, R \subseteq T
  PROVE  Frames(R) \subseteq Frames(T) /\ Lower(R) \subseteq Lower(T)
<1>1. Seq(R) \subseteq Seq(T)
  BY SeqMonotonic
<1>2. ASSUME NEW f \in Frames(R) PROVE f \in Frames(T)
  BY <1>1, <1>2 DEF Frames, FrameOK
<1> QED BY <1>2 DEF Lower

LEMMA StackGrows ==
  ASSUME NEW R, NEW T, R \subseteq T
  PROVE  Seq(Frames(R)) \subseteq Seq(Frames(T)) /\ Seq(Lower(R)) \subseteq Seq(Lower(T))
<1>1. Frames(R) \subseteq Frames(T) /\ Lower(R) \subseteq Lower(T)
  BY FramesGrow
<1> QED BY <1>1, SeqMonotonic

(* The stack after frames f in place of the top of st: S are the frames    *)
(* that may be on a stack, L those that may be below another one.          *)
LEMMA StackElements ==
  ASSUME NEW S, NEW st \in Seq(S), st # <<>>, NEW f \in Seq(S)
  PROVE  /\ f \o Tail(st) \in Seq(S)
         /\ Len(f \o Tail(st)) = Len(f) + Len(st) - 1
         /\ \A i \in 1 .. Len(f) + Len(st) - 1 :
              (f \o Tail(st))[i] = IF i <= Len(f) THEN f[i] ELSE st[i - Len(f) + 1]
<1> DEFINE t == Tail(st)
           c == f \o t
<1>1. /\ t \in Seq(S) /\ Len(t) = Len(st) - 1 /\ Len(f) \in Nat /\ Len(st) \in Nat \ {0}
      /\ \A i \in 1 .. Len(st) - 1 : t[i] = st[i + 1]
  BY HeadTailProperties, LenProperties, EmptySeq
<1> HIDE DEF t
<1>2. /\ c \in Seq(S) /\ Len(c) = Len(f) + Len(t)
      /\ \A i \in 1 .. Len(f) + Len(t) : c[i] = IF i <= Len(f) THEN f[i] ELSE t[i - Len(f)]
  BY <1>1, ConcatProperties
<1> HIDE DEF c
<1>3. ASSUME NEW i \in 1 .. Len(f) + Len(st) - 1
      PROVE  c[i] = IF i <= Len(f) THEN f[i] ELSE st[i - Len(f) + 1]
  <2>1. i \in 1 .. Len(f) + Len(t)
    BY <1>1
  <2>2. CASE i <= Len(f)
    BY <1>2, <2>1, <2>2
  <2>3. CASE ~(i <= Len(f))
    <3>1. i - Len(f) \in 1 .. Len(st) - 1
      BY <1>1, <2>3
    <3> QED BY <1>1, <1>2, <2>1, <2>3, <3>1
  <2> QED BY <2>2, <2>3
<1>4. Len(c) = Len(f) + Len(st) - 1
  BY <1>1, <1>2
<1> QED BY <1>2, <1>3, <1>4 DEF c, t

LEMMA StackCall ==
  ASSUME NEW S, NEW L, L \subseteq S,
         NEW st \in Seq(S), st # <<>>, Tail(st) \in Seq(L),
         NEW f \in Seq(S), f # <<>>, Tail(f) \in Seq(L)
  PROVE  /\ f \o Tail(st) \in Seq(S) /\ f \o Tail(st) # <<>>
         /\ Head(f \o Tail(st)) = Head(f)
         /\ Tail(f \o Tail(st)) = Tail(f) \o Tail(st)
         /\ Tail(f \o Tail(st)) \in Seq(L)
<1> DEFINE t == Tail(st)
           g == Tail(f)
           c == f \o t
           d == g \o t
<1>1. /\ t \in Seq(L) /\ t \in Seq(S) /\ g \in Seq(L) /\ g \in Seq(S)
      /\ Len(t) \in Nat /\ Len(f) \in Nat \ {0} /\ Len(g) = Len(f) - 1
      /\ \A i \in 1 .. Len(f) - 1 : g[i] = f[i + 1]
      /\ Head(f) = f[1]
  BY HeadTailProperties, LenProperties, EmptySeq
<1> HIDE DEF t, g
<1>2. /\ c \in Seq(S) /\ Len(c) = Len(f) + Len(t)
      /\ \A i \in 1 .. Len(f) + Len(t) : c[i] = IF i <= Len(f) THEN f[i] ELSE t[i - Len(f)]
  BY <1>1, ConcatProperties
<1>3. /\ d \in Seq(L) /\ d \in Seq(S) /\ Len(d) = Len(g) + Len(t)
      /\ \A i \in 1 .. Len(g) + Len(t) : d[i] = IF i <= Len(g) THEN g[i] ELSE t[i - Len(g)]
  BY <1>1, ConcatProperties
<1> HIDE DEF c, d
<1>4. c # <<>> /\ Head(c) = c[1] /\ c[1] = f[1]
  <2>1. c # <<>> /\ Head(c) = c[1]
    BY <1>1, <1>2, EmptySeq
  <2>2. 1 \in 1 .. Len(f) + Len(t) /\ 1 <= Len(f)
    BY <1>1
  <2> QED BY <1>2, <2>1, <2>2
<1>5. Tail(c) = d
  <2>1. /\ Tail(c) \in Seq(S) /\ Len(Tail(c)) = Len(c) - 1
        /\ \A i \in 1 .. Len(Tail(c)) : Tail(c)[i] = c[i + 1]
    BY <1>2, <1>4, HeadTailProperties
  <2>2. ASSUME NEW i \in 1 .. Len(d) PROVE Tail(c)[i] = d[i]
    <3>1. /\ i \in 1 .. Len(g) + Len(t) /\ i \in 1 .. Len(Tail(c))
          /\ i + 1 \in 1 .. Len(f) + Len(t)
      BY <1>1, <1>2, <1>3, <2>1
    <3>2. CASE i <= Len(g)
      <4>1. i + 1 <= Len(f) /\ i \in 1 .. Len(f) - 1
        BY <1>1, <3>1, <3>2
      <4> QED BY <1>1, <1>2, <1>3, <2>1, <3>1, <3>2, <4>1
    <3>3. CASE ~(i <= Len(g))
      <4>1. ~(i + 1 <= Len(f)) /\ i + 1 - Len(f) = i - Len(g)
        BY <1>1, <3>1, <3>3
      <4>2. c[i + 1] = t[i + 1 - Len(f)]
        BY <1>2, <3>1, <4>1
      <4>3. d[i] = t[i - Len(g)]
        BY <1>3, <3>1, <3>3
      <4> QED BY <2>1, <3>1, <4>1, <4>2, <4>3
    <3> QED BY <3>2, <3>3
  <2>3. Len(Tail(c)) = Len(d)
    BY <1>1, <1>2, <1>3, <2>1
  <2> QED BY <1>3, <2>1, <2>2, <2>3, SeqEqual
<1> QED BY <1>1, <1>2, <1>3, <1>4, <1>5 DEF c, d, t, g

LEMMA StackReturn ==
  ASSUME NEW S, NEW st \in Seq(S)
  PROVE  <<>> \o st = st
BY ConcatEmptySeq

LEMMA FramesJoined ==
  \A a, b : <<a>> \o <<b>> = <<a, b>> /\ <<>> \o <<b>> = <<b>>
<1> SUFFICES ASSUME NEW a, NEW b PROVE <<a>> \o <<b>> = <<a, b>> /\ <<>> \o <<b>> = <<b>>
  OBVIOUS
<1> DEFINE S == {a, b}
           x == <<a>>
           y == <<b>>
           z == x \o y
           v == <<a, b>>
<1>1. /\ x \in Seq(S) /\ Len(x) = 1 /\ x[1] = a
      /\ y \in Seq(S) /\ Len(y) = 1 /\ y[1] = b
      /\ v \in Seq(S) /\ Len(v) = 2 /\ v[1] = a /\ v[2] = b
  OBVIOUS
<1>2. <<>> \o y = y
  BY <1>1, ConcatEmptySeq
<1> HIDE DEF S, x, y, v
<1>3. /\ z \in Seq(S) /\ Len(z) = Len(x) + Len(y)
      /\ \A i \in 1 .. Len(x) + Len(y) : z[i] = IF i <= Len(x) THEN x[i] ELSE y[i - Len(x)]
  BY <1>1, ConcatProperties
<1> HIDE DEF z
<1>4. Len(z) = 2 /\ z[1] = a /\ z[2] = b
  BY <1>1, <1>3
<1>5. \A i \in 1 .. Len(v) : v[i] = z[i]
  <2>1. \A i \in 1 .. Len(v) : i = 1 \/ i = 2
    BY <1>1
  <2> QED BY <1>1, <1>4, <2>1
<1>6. v = z
  BY <1>1, <1>3, <1>4, <1>5, SeqEqual
<1> QED BY <1>2, <1>6 DEF v, z, x, y

LEMMA ThreeFrames ==
  \A a, b, c : <<a, b>> \o <<c>> = <<a, b, c>>
<1> SUFFICES ASSUME NEW a, NEW b, NEW c PROVE <<a, b>> \o <<c>> = <<a, b, c>>
  OBVIOUS
<1> DEFINE S == {a, b, c}
           x == <<a, b>>
           y == <<c>>
           z == x \o y
           v == <<a, b, c>>
<1>1. /\ x \in Seq(S) /\ Len(x) = 2 /\ x[1] = a /\ x[2] = b
      /\ y \in Seq(S) /\ Len(y) = 1 /\ y[1] = c
      /\ v \in Seq(S) /\ Len(v) = 3 /\ v[1] = a /\ v[2] = b /\ v[3] = c
  OBVIOUS
<1> HIDE DEF S, x, y, v
<1>2. /\ z \in Seq(S) /\ Len(z) = Len(x) + Len(y)
      /\ \A i \in 1 .. Len(x) + Len(y) : z[i] = IF i <= Len(x) THEN x[i] ELSE y[i - Len(x)]
  BY <1>1, ConcatProperties
<1> HIDE DEF z
<1>3. Len(z) = 3 /\ z[1] = a /\ z[2] = b /\ z[3] = c
  BY <1>1, <1>2
<1>4. \A i \in 1 .. Len(v) : v[i] = z[i]
  <2>1. \A i \in 1 .. Len(v) : i = 1 \/ i = 2 \/ i = 3
    BY <1>1
  <2> QED BY <1>1, <1>3, <2>1
<1>5. v = z
  BY <1>1, <1>2, <1>3, <1>4, SeqEqual
<1> QED BY <1>5 DEF v, z, x, y

LEMMA ConfigType ==
  ASSUME config \in Configs
  PROVE  /\ Hash \in [Key -> Server]
         /\ HashNext \in [Key -> [0 .. MaxAttempts + Redundancy -> Server]]
         /\ AllowFailover \in BOOLEAN /\ Persistent \in BOOLEAN /\ Reentrant \in BOOLEAN
         /\ Redundancy \in Nat /\ MaxFaults \in Nat /\ MaxCalls \in Nat
         /\ Dead \subseteq Server
         /\ RetryInterval \in {"never", "elapses", "zero"}
         /\ \A c \in Calls :
              /\ c.op \in {"set", "setMulti", "get", "getMulti", "flush", "version", "stats"}
              /\ c.keys \in Seq(Key)
         /\ MaxAttempts \in Nat /\ Servers \in Seq(Server) /\ NoServer \notin Server
BY ConfigAssumption, ServerAssumption
   DEF Hash, HashNext, AllowFailover, Persistent, Reentrant, Redundancy, MaxFaults, MaxCalls,
       Dead, RetryInterval, Calls

(* The index at which mmc_pool_find and mmc_pool_find_next stop: the last  *)
(* attempt at the latest, or the first one if none is left.                *)
LEMMA ProbeType ==
  ASSUME config \in Configs, NEW k \in Key, NEW i \in Nat, NEW ok \in SUBSET Server,
         i <= MaxAttempts + Redundancy
  PROVE  /\ LastProbe(k, i, ok) \in i .. i + MaxAttempts
         /\ LastProbe(k, i, ok) < MaxAttempts \/ LastProbe(k, i, ok) = i
         /\ HashNext[k][LastProbe(k, i, ok)] \in Server
<1> DEFINE m == MaxAttempts
           T == {j \in i .. i + m : HashNext[k][j] \in ok \/ j + 1 >= m}
           P(j) == /\ HashNext[k][j] \in ok \/ j + 1 >= MaxAttempts
                   /\ \A l \in i .. j - 1 : ~(HashNext[k][l] \in ok \/ l + 1 >= MaxAttempts)
           x == LastProbe(k, i, ok)
<1>1. m \in Nat /\ T \subseteq i .. i + m /\ Redundancy \in Nat
  BY ConfigType
<1>2. \A j \in i .. i + m : j + 1 >= m => j \in T
  OBVIOUS
<1>3. T # {}
  <2>1. i + m \in i .. i + m /\ i + m + 1 >= m
    BY <1>1
  <2> HIDE DEF m, T
  <2> QED BY <1>2, <2>1
<1>4. T \in SUBSET Nat
  BY <1>1
<1>5. PICK j \in T : (\A l \in i .. j - 1 : l \notin T) /\ (j < m \/ j = i)
  <2> HIDE DEF T
  <2>1. PICK j \in T : \A l \in T : j <= l
    BY <1>3, <1>4, LeastNumber
  <2>2. \A l \in i .. j - 1 : l \notin T
    BY <1>1, <2>1
  <2>3. j < m \/ j = i
    <3>1. SUFFICES ASSUME j >= m, j # i PROVE FALSE
      BY <1>1, <2>1
    <3>2. j - 1 \in i .. i + m /\ j - 1 + 1 >= m
      BY <1>1, <2>1, <3>1
    <3> QED BY <1>1, <1>2, <2>1, <2>2, <3>1, <3>2
  <2> QED BY <2>1, <2>2, <2>3
<1>6. j \in i .. i + MaxAttempts /\ P(j)
  <2>1. \A l \in i .. j - 1 : l \in i .. i + m
    BY <1>1, <1>5
  <2> QED BY <1>5, <2>1
<1>7. x \in i .. i + MaxAttempts /\ P(x)
  BY <1>6 DEF LastProbe
<1> HIDE DEF x
<1>8. x = j
  <2>1. ~(x < j)
    BY <1>1, <1>5, <1>6, <1>7
  <2>2. ~(j < x)
    BY <1>1, <1>5, <1>6, <1>7
  <2> QED BY <1>1, <1>5, <1>7, <2>1, <2>2
<1>9. x \in 0 .. MaxAttempts + Redundancy
  BY <1>1, <1>5, <1>8
<1>10. HashNext[k][x] \in Server
  BY <1>9, ConfigType
<1> QED BY <1>5, <1>7, <1>8, <1>10 DEF x

LEMMA FindType ==
  ASSUME RestOK, NEW k \in Key
  PROVE  Find(k) \in Server
<1> DEFINE ok == {s \in Server : Valid(s)}
<1>1. config \in Configs /\ MaxAttempts \in Nat /\ Redundancy \in Nat
  BY ConfigType DEF RestOK
<1>2. HashNext[k][LastProbe(k, 0, ok)] \in Server
  <2>1. 0 \in Nat /\ 0 <= MaxAttempts + Redundancy /\ ok \in SUBSET Server
    BY <1>1
  <2> HIDE DEF ok
  <2> QED BY <1>1, <2>1, ProbeType
<1> QED BY <1>1, <1>2, ConfigType DEF Find

(* The frames of the code. *)
LEMMA FrameKinds ==
  ASSUME NEW R, NEW s \in Server
  PROVE  /\ \A r \in R :
              /\ \A pc \in {"schedule", "failover", "probe", "retry"} : Frame(pc, s, r) \in Frames(R)
              /\ \A pc \in {"unslot", "retryRead"} : Frame(pc, s, r) \in Lower(R)
              /\ \A i \in Int : FrameOf("late", s, r, <<>>, 0, i) \in Frames(R)
         /\ \A r \in R \cup {Null} : Frame("slot", s, r) \in Frames(R)
         /\ Frame("deactivate", s, Null) \in Frames(R)
         /\ \A pc \in {"callback", "unqueue", "early", "built"} : Frame(pc, s, Null) \in Lower(R)
         /\ \A q \in Seq(R) : FrameOf("drain", s, Null, q, 0, 0) \in Lower(R)
         /\ \A w \in 1 .. 2, pc \in {"xmit", "unread", "parse"} :
              FrameOf(pc, s, Null, <<>>, w, 0) \in Lower(R)
         /\ \A q \in Seq(Key), r \in R \cup {Null} :
              q # <<>> => FrameOf("rebuild", s, r, q, 0, 0) \in Lower(R)
BY DEF Frames, Lower, FrameOK, Frame, FrameOf, UpperPcs, LowerPcs, ServerPcs, RequestPcs

LEMMA LoopKinds ==
  ASSUME NEW R
  PROVE  /\ \A pc \in {"select", "run"} : Frame(pc, NoServer, Null) \in Lower(R)
         /\ \A w \in 1 .. 2, i \in Nat, pc \in {"send", "read"} : Loop(pc, w, i) \in Lower(R)
         /\ \A w \in 1 .. 2, i \in Int, pc \in {"lateSend", "lateRead"} :
              Loop(pc, w, i) \in Lower(R)
         /\ \A q \in Seq(Key), w \in Nat, i \in Nat, pc \in {"store", "stored"} :
              FrameOf(pc, NoServer, Null, q, w, i) \in Lower(R)
         /\ \A q \in Seq(Key), r \in R \cup {Null} : Each("get", r, q) \in Frames(R)
         /\ \A q \in Seq(Server), pc \in {"flush", "flushed"} : Each(pc, Null, q) \in Lower(R)
         /\ \A q \in Seq(Server), w \in Nat, pc \in {"ask", "asked"} :
              FrameOf(pc, NoServer, Null, q, w, 0) \in Lower(R)
BY DEF Frames, Lower, FrameOK, Frame, FrameOf, Loop, Each, UpperPcs, LowerPcs, ServerPcs, RequestPcs

LEMMA CloneKinds ==
  ASSUME NEW R, NEW s \in Server, NEW r \in R, NEW k \in Key, NEW q \in Seq(Server),
         NEW w \in Nat, NEW i \in Nat, w <= MaxAttempts + i, NEW ok \in BOOLEAN
  PROVE  CloneOf(s, r, q, w, i, k, ok) \in Lower(R)
BY DEF Frames, Lower, FrameOK, CloneOf, UpperPcs, LowerPcs, ServerPcs, RequestPcs

----------------------------------------------------------------------------
(* Steps. *)

(* Frames that may take the place of the top one. *)
Callable(f, R) ==
  /\ f \in Seq(Frames(R)) /\ (f # <<>> => Tail(f) \in Seq(Lower(R)))
  /\ \A i \in 1 .. Len(f) :
       f[i].pc \in {"xmit", "parse"} => i # Len(f) \/ top.pc \in {"xmit", "parse"}

LEMMA CallableFrames ==
  ASSUME NEW R
  PROVE  /\ Callable(<<>>, R)
         /\ \A a \in Frames(R) :
              a.pc \notin {"xmit", "parse"} \/ top.pc \in {"xmit", "parse"} => Callable(<<a>>, R)
         /\ \A a \in Frames(R), b \in Lower(R) :
              b.pc \notin {"xmit", "parse"} \/ top.pc \in {"xmit", "parse"}
                => Callable(<<a, b>>, R)
         /\ \A a \in Frames(R), b \in Lower(R), c \in Lower(R) :
              c.pc \notin {"xmit", "parse"} \/ top.pc \in {"xmit", "parse"}
                => Callable(<<a, b, c>>, R)
         /\ \A a \in Frames(R), b \in Lower(R), c \in Lower(R), d \in Lower(R) :
              d.pc \notin {"xmit", "parse"} \/ top.pc \in {"xmit", "parse"}
                => Callable(<<a, b, c, d>>, R)
<1>1. Lower(R) \subseteq Frames(R)
  BY DEF Lower
<1>2. Callable(<<>>, R)
  BY DEF Callable
<1>3. ASSUME NEW a \in Frames(R), a.pc \notin {"xmit", "parse"} \/ top.pc \in {"xmit", "parse"}
      PROVE  Callable(<<a>>, R)
  <2>1. <<a>> \in Seq(Frames(R)) /\ Tail(<<a>>) \in Seq(Lower(R))
    OBVIOUS
  <2> QED BY <1>3, <2>1 DEF Callable
<1>4. ASSUME NEW a \in Frames(R), NEW b \in Lower(R),
             b.pc \notin {"xmit", "parse"} \/ top.pc \in {"xmit", "parse"}
      PROVE  Callable(<<a, b>>, R)
  <2>1. <<a, b>> \in Seq(Frames(R)) /\ Tail(<<a, b>>) \in Seq(Lower(R))
    BY <1>1
  <2> QED BY <1>4, <2>1 DEF Callable
<1>5. ASSUME NEW a \in Frames(R), NEW b \in Lower(R), NEW c \in Lower(R),
             c.pc \notin {"xmit", "parse"} \/ top.pc \in {"xmit", "parse"}
      PROVE  Callable(<<a, b, c>>, R)
  <2>1. <<a, b, c>> \in Seq(Frames(R)) /\ Tail(<<a, b, c>>) \in Seq(Lower(R))
    BY <1>1
  <2> QED BY <1>5, <2>1 DEF Callable
<1>6. ASSUME NEW a \in Frames(R), NEW b \in Lower(R), NEW c \in Lower(R), NEW d \in Lower(R),
             d.pc \notin {"xmit", "parse"} \/ top.pc \in {"xmit", "parse"}
      PROVE  Callable(<<a, b, c, d>>, R)
  <2>1. <<a, b, c, d>> \in Seq(Frames(R)) /\ Tail(<<a, b, c, d>>) \in Seq(Lower(R))
    BY <1>1
  <2> QED BY <1>6, <2>1 DEF Callable
<1> QED BY <1>2, <1>3, <1>4, <1>5, <1>6

LEMMA StackStep ==
  ASSUME StackOK, stack # <<>>, NEW R, R = Created', Created \subseteq R,
         NEW f, Callable(f, R), Goto(f)
  PROVE  /\ StackOK'
         /\ f # <<>> => stack' # <<>> /\ Head(stack') = Head(f)
         /\ f = <<>> /\ stack' # <<>> => Head(stack').pc \in LowerPcs
         /\ f = <<>> \/ Head(f).pc # "probe" => ProbeOK'
<1> DEFINE S == Frames(R)
           L == Lower(R)
           t == Tail(stack)
<1>1. /\ stack \in Seq(S) /\ t \in Seq(L) /\ L \subseteq S /\ f \in Seq(S)
      /\ f # <<>> => Tail(f) \in Seq(L)
  BY StackGrows DEF StackOK, Callable, Lower
<1>2. stack' = f \o t
  BY DEF Goto
<1>3. /\ stack' \in Seq(S) /\ Len(stack') = Len(f) + Len(stack) - 1
      /\ \A i \in 1 .. Len(f) + Len(stack) - 1 :
           stack'[i] = IF i <= Len(f) THEN f[i] ELSE stack[i - Len(f) + 1]
  BY <1>1, <1>2, StackElements
<1>4. Nested'
  <2>1. Len(f) \in Nat /\ Len(stack) \in Nat \ {0} /\ top = stack[1]
    BY <1>1, LenProperties, FirstElement DEF top
  <2>2. ASSUME NEW i \in 1 .. Len(stack'), stack'[i].pc \in {"xmit", "parse"}
        PROVE  i + 1 \in 1 .. Len(stack')
    <3>1. CASE i < Len(f)
      BY <1>3, <2>1, <3>1
    <3>2. CASE i = Len(f)
      <4>1. i \in 1 .. Len(f) /\ stack'[i] = f[i]
        BY <1>3, <2>1, <3>2
      <4>2. top.pc \in {"xmit", "parse"}
        BY <2>2, <3>2, <4>1 DEF Callable
      <4>3. 1 + 1 \in 1 .. Len(stack)
        BY <2>1, <4>2 DEF StackOK, Nested
      <4> QED BY <1>3, <2>1, <3>2, <4>3
    <3>3. CASE i > Len(f)
      <4>1. i - Len(f) + 1 \in 1 .. Len(stack) /\ stack'[i] = stack[i - Len(f) + 1]
        BY <1>3, <2>1, <3>3
      <4>2. i - Len(f) + 1 + 1 \in 1 .. Len(stack)
        BY <2>2, <4>1 DEF StackOK, Nested
      <4> QED BY <1>3, <2>1, <4>2
    <3> QED BY <2>1, <3>1, <3>2, <3>3
  <2> QED BY <2>2 DEF Nested
<1>5. CASE f = <<>>
  <2>1. stack' = t
    BY <1>1, <1>2, <1>5, StackReturn
  <2>2. stack' # <<>> => Tail(stack') \in Seq(L) /\ Head(stack') \in L
    BY <1>1, <2>1, HeadTailProperties
  <2>3. StackOK'
    BY <1>3, <1>4, <2>2 DEF StackOK
  <2>4. stack' # <<>> => Head(stack').pc \in LowerPcs
    BY <2>2 DEF Lower
  <2>5. ProbeOK'
    BY <2>4 DEF ProbeOK, At, LowerPcs
  <2> QED BY <1>5, <2>3, <2>4, <2>5
<1>6. CASE f # <<>>
  <2>1. /\ stack' # <<>> /\ Head(stack') = Head(f) /\ Tail(stack') \in Seq(L)
    BY <1>1, <1>2, <1>6, StackCall DEF StackOK
  <2>2. StackOK'
    BY <1>3, <1>4, <2>1 DEF StackOK
  <2>3. Head(f).pc # "probe" => ProbeOK'
    BY <2>1 DEF ProbeOK, At
  <2> QED BY <1>6, <2>1, <2>2, <2>3
<1> QED BY <1>5, <1>6

(* The round was completed by somebody else: its loop returns as well. *)
LEMMA StackLeaves ==
  ASSUME StackOK, stack # <<>>, NEW R, R = Created', Created \subseteq R,
         top.pc \in {"xmit", "parse"}, stack' = Tail(Tail(stack))
  PROVE  /\ StackOK' /\ ProbeOK'
         /\ stack' # <<>> => Head(stack').pc \in LowerPcs
         /\ Len(stack') = Len(stack) - 2
         /\ \A i \in 1 .. Len(stack) - 2 : stack'[i] = stack[i + 2]
<1> DEFINE S == Frames(R)
           L == Lower(R)
           t == Tail(stack)
<1>1. /\ stack \in Seq(S) /\ t \in Seq(L) /\ L \subseteq S
      /\ Len(stack) \in Nat \ {0} /\ top = stack[1]
  <2>1. stack \in Seq(S) /\ t \in Seq(L) /\ L \subseteq S
    BY StackGrows DEF StackOK, Lower
  <2> HIDE DEF S
  <2> QED BY <2>1, FirstElement DEF top
<1>2. 1 + 1 \in 1 .. Len(stack)
  BY <1>1 DEF StackOK, Nested
<1>3. /\ Len(t) = Len(stack) - 1 /\ \A i \in 1 .. Len(t) : t[i] = stack[i + 1]
      /\ t # <<>>
  <2> HIDE DEF S, L
  <2>1. /\ Len(t) = Len(stack) - 1 /\ \A i \in 1 .. Len(stack) - 1 : t[i] = stack[i + 1]
    BY <1>1, FirstElement
  <2>2. t # <<>>
    <3> HIDE DEF t
    <3> QED BY <1>1, <1>2, <2>1
  <2> QED BY <2>1, <2>2
<1>4. /\ stack' \in Seq(L) /\ Len(stack') = Len(t) - 1
      /\ \A i \in 1 .. Len(stack') : stack'[i] = t[i + 1]
  <2> HIDE DEF L, t
  <2> QED BY <1>1, <1>3, HeadTailProperties DEF t
<1>5. /\ Len(stack') = Len(stack) - 2
      /\ \A i \in 1 .. Len(stack) - 2 : stack'[i] = stack[i + 2]
  BY <1>1, <1>2, <1>3, <1>4
<1>6. stack' # <<>> => Head(stack') \in L /\ Tail(stack') \in Seq(L)
  BY <1>4, HeadTailProperties
<1>7. Nested'
  <2>1. ASSUME NEW i \in 1 .. Len(stack'), stack'[i].pc \in {"xmit", "parse"}
        PROVE  i + 1 \in 1 .. Len(stack')
    <3>1. i + 2 \in 1 .. Len(stack) /\ stack[i + 2].pc \in {"xmit", "parse"}
      BY <1>1, <1>2, <1>5, <2>1
    <3>2. i + 2 + 1 \in 1 .. Len(stack)
      BY <3>1 DEF StackOK, Nested
    <3> QED BY <1>1, <1>2, <1>5, <3>2
  <2> QED BY <2>1 DEF Nested
<1>8. stack' \in Seq(S)
  BY <1>1, <1>4, SeqMonotonic
<1>9. StackOK'
  BY <1>6, <1>7, <1>8 DEF StackOK
<1>10. stack' # <<>> => Head(stack').pc \in LowerPcs
  BY <1>6 DEF Lower
<1> QED BY <1>5, <1>9, <1>10 DEF ProbeOK, At, LowerPcs

LEMMA TopOK ==
  ASSUME TypeInv, stack # <<>>
  PROVE  top \in Frames(Created) /\ FrameOK(top, Created)
<1>1. Head(stack) \in Frames(Created)
  BY FirstElement DEF TypeInv, StackOK
<1> QED BY <1>1 DEF top, Frames

(* What a step leaves alone keeps its type. *)
LEMMA Keeps ==
  ASSUME TypeInv, Created \subseteq Created'
  PROVE  /\ UNCHANGED conn => ConnOK'
         /\ UNCHANGED slots => SlotsOK'
         /\ UNCHANGED rounds => RoundsOK'
         /\ UNCHANGED reqs => ReqsOK'
         /\ UNCHANGED <<rv, want, budget, config>> => RestOK'
<1>1. Seq(Created) \subseteq Seq(Created')
  BY SeqMonotonic
<1>2. UNCHANGED conn => ConnOK'
  BY <1>1 DEF TypeInv, conn, ConnOK
<1>3. UNCHANGED slots => SlotsOK'
  BY <1>1 DEF TypeInv, slots, SlotsOK
<1>4. UNCHANGED rounds => RoundsOK'
  BY DEF TypeInv, rounds, RoundsOK
<1>5. UNCHANGED reqs => ReqsOK'
  BY DEF TypeInv, reqs, ReqsOK, Created
<1>6. UNCHANGED <<rv, want, budget, config>> => RestOK'
  BY DEF TypeInv, budget, RestOK, MaxFaults, MaxCalls
<1> QED BY <1>2, <1>3, <1>4, <1>5, <1>6

LEMMA SameRequests == ASSUME UNCHANGED request PROVE Created' = Created
BY DEF Created

(* A step that only calls and returns. *)
LEMMA QuietStep ==
  ASSUME TypeInv, stack # <<>>, NEW f, Callable(f, Created), Goto(f),
         f = <<>> \/ Head(f).pc # "probe",
         UNCHANGED <<conn, slots, rounds, reqs, rv, want, budget, config>>
  PROVE  TypeInv'
<1>1. Created' = Created /\ UNCHANGED reqs
  BY SameRequests DEF reqs
<1>2. StackOK' /\ ProbeOK'
  BY <1>1, StackStep DEF TypeInv
<1> QED BY <1>1, <1>2, Keeps DEF TypeInv

LEMMA QuietTypes ==
  ASSUME TypeInv, UNCHANGED config,
         \/ ScheduleInvalid \/ Drain \/ LeaveCallback \/ HelpRound \/ SendEnd \/ ParseEnd
         \/ RunRounds \/ Stored \/ Flushed \/ Asked \/ GetFull
  PROVE  TypeInv'
<1>1. stack # <<>>
  BY DEF ScheduleInvalid, Drain, LeaveCallback, HelpRound, SendEnd, ParseEnd, RunRounds, Stored,
         Flushed, Asked, GetFull, At
<1>2. top \in Frames(Created) /\ FrameOK(top, Created)
  BY <1>1, TopOK
<1> DEFINE R == Created
<1>3. \A a \in Frames(R) : a.pc \notin {"xmit", "parse"} => Callable(<<a>>, R)
  BY CallableFrames
<1>4. \A a \in Frames(R), b \in Lower(R) : b.pc \notin {"xmit", "parse"} => Callable(<<a, b>>, R)
  BY CallableFrames
<1>5. \A a \in Frames(R), b \in Lower(R), c \in Lower(R) :
        c.pc \notin {"xmit", "parse"} => Callable(<<a, b, c>>, R)
  BY CallableFrames
<1>6. Callable(<<>>, R)
  BY CallableFrames
<1>7. Lower(R) \subseteq Frames(R)
  BY DEF Lower
<1>8. CASE ScheduleInvalid
  <2> DEFINE a == Frame("failover", top.s, top.r)
  <2>1. top.s \in Server /\ top.r \in R
    BY <1>2, <1>8 DEF FrameOK, ScheduleInvalid, At, ServerPcs, RequestPcs, top
  <2>2. a \in Frames(R) /\ a.pc = "failover"
    BY <2>1, FrameKinds DEF Frame, FrameOf
  <2>3. Callable(<<a>>, R) /\ Head(<<a>>).pc # "probe"
    BY <1>3, <2>2
  <2> QED BY <1>1, <1>8, <2>3, QuietStep DEF ScheduleInvalid
<1>9. CASE Drain
  <2>1. top.pc = "drain"
    BY <1>9 DEF Drain, At, top
  <2>2. top.s \in Server /\ top.q \in Seq(R)
    BY <1>2, <2>1 DEF FrameOK, ServerPcs
  <2>3. CASE top.q # <<>> /\ Goto(<<Frame("failover", top.s, Head(top.q)),
                                    FrameOf("drain", top.s, Null, Tail(top.q), 0, 0)>>)
    <3> DEFINE a == Frame("failover", top.s, Head(top.q))
               b == FrameOf("drain", top.s, Null, Tail(top.q), 0, 0)
    <3>1. Head(top.q) \in R /\ Tail(top.q) \in Seq(R)
      BY <2>2, <2>3, FirstElement
    <3>2. a \in Frames(R) /\ b \in Lower(R) /\ a.pc = "failover" /\ b.pc = "drain"
      BY <2>2, <3>1, FrameKinds DEF Frame, FrameOf
    <3>3. Callable(<<a, b>>, R) /\ Head(<<a, b>>).pc # "probe"
      BY <1>4, <3>2
    <3> QED BY <1>1, <1>9, <2>3, <3>3, QuietStep DEF Drain
  <2>4. CASE Goto(<<Frame("callback", top.s, Null)>>)
    <3> DEFINE a == Frame("callback", top.s, Null)
    <3>1. a \in Frames(R) /\ a.pc = "callback"
      BY <1>7, <2>2, FrameKinds DEF Frame, FrameOf
    <3>2. Callable(<<a>>, R) /\ Head(<<a>>).pc # "probe"
      BY <1>3, <3>1
    <3> QED BY <1>1, <1>9, <2>4, <3>2, QuietStep DEF Drain
  <2>5. CASE Return
    BY <1>1, <1>6, <1>9, <2>5, QuietStep DEF Drain, Return
  <2> QED BY <1>9, <2>3, <2>4, <2>5 DEF Drain
<1>10. CASE LeaveCallback
  BY <1>1, <1>6, <1>10, QuietStep DEF LeaveCallback, Return
<1>11. CASE HelpRound
  <2> DEFINE a == Loop("send", other, 0)
  <2>1. other \in 1 .. 2
    BY DEF TypeInv, RoundsOK, other
  <2>2. a \in Frames(R) /\ a.pc = "send"
    BY <1>7, <2>1, LoopKinds DEF Loop, FrameOf
  <2>3. Callable(<<a>>, R) /\ Head(<<a>>).pc # "probe"
    BY <1>3, <2>2
  <2> QED BY <1>1, <1>11, <2>3, QuietStep DEF HelpRound
<1>12. CASE SendEnd \/ ParseEnd
  BY <1>1, <1>6, <1>12, QuietStep DEF SendEnd, ParseEnd, Return
<1>13. CASE RunRounds
  <2> DEFINE a == Frame("select", NoServer, Null)
  <2>1. top.pc = "run"
    BY <1>13 DEF RunRounds, At, top
  <2>2. top \in Lower(R)
    BY <1>2, <2>1 DEF Lower, LowerPcs
  <2>3. a \in Frames(R) /\ a.pc = "select"
    BY <1>7, LoopKinds DEF Frame, FrameOf
  <2>4. Callable(<<a, top>>, R) /\ Head(<<a, top>>).pc # "probe"
    BY <1>4, <2>1, <2>2, <2>3
  <2> QED BY <1>1, <1>6, <1>13, <2>4, QuietStep DEF RunRounds, Return
<1>14. CASE Stored
  <2> DEFINE a == Frame("select", NoServer, Null)
             b == FrameOf("store", NoServer, Null, top.q, top.w, top.i)
  <2>1. top.q \in Seq(Key) /\ top.w \in Nat /\ top.i \in Nat
    BY <1>2, <1>14 DEF Stored, At, top, FrameOK, Frames
  <2>2. a \in Frames(R) /\ a.pc = "select" /\ b \in Lower(R) /\ b.pc = "store"
    BY <1>7, <2>1, LoopKinds DEF Frame, FrameOf
  <2>3. /\ Callable(<<a, b>>, R) /\ Head(<<a, b>>).pc # "probe"
        /\ Callable(<<b>>, R) /\ Head(<<b>>).pc # "probe"
    BY <1>3, <1>4, <1>7, <2>2
  <2> QED BY <1>1, <1>6, <1>14, <2>3, QuietStep DEF Stored
<1>15. CASE Flushed
  <2> DEFINE a == Frame("select", NoServer, Null)
             b == Each("flush", Null, top.q)
  <2>1. top.q \in Seq(Server)
    BY <1>2, <1>15 DEF Flushed, At, top, FrameOK
  <2>2. a \in Frames(R) /\ a.pc = "select" /\ b \in Lower(R) /\ b.pc = "flush"
    BY <1>7, <2>1, LoopKinds DEF Frame, FrameOf, Each
  <2>3. /\ Callable(<<a, b>>, R) /\ Head(<<a, b>>).pc # "probe"
        /\ Callable(<<b>>, R) /\ Head(<<b>>).pc # "probe"
    BY <1>3, <1>4, <1>7, <2>2
  <2>4. <<a>> \o <<b>> = <<a, b>> /\ <<>> \o <<b>> = <<b>>
    BY FramesJoined
  <2> QED BY <1>1, <1>15, <2>3, <2>4, QuietStep DEF Flushed
<1>16. CASE Asked
  <2>1. PICK q \in {top.q} \cup (IF rv THEN {<<>>} ELSE {}) :
          Goto((IF rv THEN <<Frame("run", NoServer, Null)>> ELSE <<>>)
               \o <<FrameOf("ask", NoServer, Null, q, top.w, 0)>>)
    BY <1>16 DEF Asked
  <2> DEFINE a == Frame("run", NoServer, Null)
             b == FrameOf("ask", NoServer, Null, q, top.w, 0)
  <2>2. q \in Seq(Server) /\ top.w \in Nat
    <3>1. top.q \in Seq(Server) /\ top.w \in Nat
      BY <1>2, <1>16 DEF Asked, At, top, FrameOK, Frames
    <3>2. CASE q = top.q
      BY <3>1, <3>2
    <3>3. CASE q = <<>>
      BY <3>1, <3>3
    <3> QED BY <2>1, <3>2, <3>3
  <2>3. a \in Frames(R) /\ a.pc = "run" /\ b \in Lower(R) /\ b.pc = "ask"
    BY <1>7, <2>2, LoopKinds DEF Frame, FrameOf
  <2>4. /\ Callable(<<a, b>>, R) /\ Head(<<a, b>>).pc # "probe"
        /\ Callable(<<b>>, R) /\ Head(<<b>>).pc # "probe"
    BY <1>3, <1>4, <1>7, <2>3
  <2>5. <<a>> \o <<b>> = <<a, b>> /\ <<>> \o <<b>> = <<b>>
    BY FramesJoined
  <2> QED BY <1>1, <1>16, <2>1, <2>4, <2>5, QuietStep DEF Asked
<1>17. CASE GetFull
  <2> DEFINE s == Find(Head(top.q))
             a == Frame("schedule", s, buildreq[s])
             b == Frame("select", NoServer, Null)
             c == FrameOf("rebuild", s, top.r, top.q, 0, 0)
  <2>1. top.q \in Seq(Key) /\ top.q # <<>> /\ top.r \in R \cup {Null}
    BY <1>2, <1>17 DEF GetFull, At, top, FrameOK
  <2>2. Head(top.q) \in Key
    BY <2>1, FirstElement
  <2>3. s \in Server
    BY <2>2, FindType DEF TypeInv
  <2>4. buildreq[s] \in R
    BY <1>17, <2>3 DEF GetFull, TypeInv, SlotsOK
  <2> HIDE DEF s
  <2>5. /\ a \in Frames(R) /\ b \in Lower(R) /\ c \in Lower(R)
        /\ a.pc = "schedule" /\ c.pc = "rebuild"
    BY <2>1, <2>3, <2>4, FrameKinds, LoopKinds DEF Frame, FrameOf
  <2>6. Callable(<<a, b, c>>, R) /\ Head(<<a, b, c>>).pc # "probe"
    BY <1>5, <2>5
  <2>7. Goto(<<a, b, c>>)
    BY <1>17 DEF GetFull, s
  <2> QED BY <1>1, <1>17, <2>6, <2>7, QuietStep DEF GetFull
<1> QED BY <1>8, <1>9, <1>10, <1>11, <1>12, <1>13, <1>14, <1>15, <1>16, <1>17

(* A step that creates no request. *)
LEMMA PlainStep ==
  ASSUME TypeInv, stack # <<>>, UNCHANGED request,
         NEW f, Callable(f, Created), Goto(f), f = <<>> \/ Head(f).pc # "probe",
         ConnOK', SlotsOK', RoundsOK', ReqsOK', RestOK'
  PROVE  TypeInv'
<1>1. Created' = Created
  BY SameRequests
<1>2. StackOK' /\ ProbeOK'
  BY <1>1, StackStep DEF TypeInv
<1> QED BY <1>2 DEF TypeInv

LEMMA QueueTypes ==
  ASSUME NEW S, NEW q \in Seq(S)
  PROVE  /\ Rest(q) \in Seq(S) /\ Popped(q, Null) \in S \cup {Null}
         /\ \A x : Without(q, x) \in Seq(S)
         /\ \A x \in S : Push(q, x) \in Seq(S)
<1>1. Rest(q) \in Seq(S) /\ Popped(q, Null) \in S \cup {Null}
  BY RestDrops
<1>2. \A x : Without(q, x) \in Seq(S)
  BY WithoutRemoves
<1>3. \A x \in S : Push(q, x) \in Seq(S)
  BY PushAdds
<1> QED BY <1>1, <1>2, <1>3

LEMMA OpenTypes ==
  ASSUME TypeInv, NEW s \in Server, Open(s), Created' = Created
  PROVE  ConnOK'
<1>1. Created' = Created
  OBVIOUS
<1>2. CASE UNCHANGED conn
  BY <1>1, <1>2 DEF TypeInv, ConnOK, conn
<1>3. CASE /\ status' = [status EXCEPT ![s] = "connected"]
           /\ link' = [link EXCEPT ![s] = "up"]
           /\ wire' = [wire EXCEPT ![s] = <<>>]
           /\ partly' = [partly EXCEPT ![s] = "no"]
  <2>1. <<>> \in Seq(Created)
    OBVIOUS
  <2>2. ConnOK
    BY DEF TypeInv
  <2>3. wire' \in [Server -> Seq(Created)]
    BY <1>3, <2>1, <2>2 DEF ConnOK
  <2> QED BY <1>1, <1>3, <2>2, <2>3 DEF ConnOK
<1> QED BY <1>2, <1>3 DEF Open

LEMMA RequestMoved ==
  ASSUME NEW q \in Request, NEW s \in Server
  PROVE  /\ [q EXCEPT !.io = s] \in Request
         /\ [q EXCEPT !.io = s].kind = q.kind /\ [q EXCEPT !.io = s].keys = q.keys
         /\ [q EXCEPT !.io = s].index = q.index /\ [q EXCEPT !.io = s].io = s
BY DEF Request

LEMMA SlotTypes ==
  ASSUME TypeInv, NEW s \in Server, NEW r \in Created, Slot(s, r), UNCHANGED free_requests
  PROVE  Created' = Created /\ ConnOK' /\ ReqsOK'
<1>1. /\ request \in Seq(Request) /\ r \in 1 .. Len(request) /\ Len(request) \in Nat
  BY LenProperties DEF TypeInv, ReqsOK, Created
<1>2. /\ request' \in Seq(Request) /\ Len(request') = Len(request)
      /\ \A x \in 1 .. Len(request) : /\ request'[x].kind = request[x].kind
                                      /\ request'[x].keys = request[x].keys
  <2> DEFINE m == [request[r] EXCEPT !.io = s]
  <2>1. request[r] \in Request
    BY <1>1, ElementOfSeq
  <2>2. m \in Request /\ m.kind = request[r].kind /\ m.keys = request[r].keys
    BY <2>1, RequestMoved
  <2>3. request' = [request EXCEPT ![r] = m]
    BY DEF Slot
  <2> HIDE DEF m
  <2>4. /\ request' \in Seq(Request) /\ Len(request') = Len(request)
        /\ \A x \in 1 .. Len(request) : request'[x] = IF x = r THEN m ELSE request[x]
    BY <1>1, <2>2, <2>3, ExceptSeq
  <2> QED BY <2>2, <2>4
<1>3. Created' = Created
  BY <1>2 DEF Created
<1>4. ConnOK'
  BY <1>3, OpenTypes DEF Slot
<1>5. ReqsOK'
  BY <1>2, <1>3 DEF TypeInv, ReqsOK, Created
<1> QED BY <1>3, <1>4, <1>5

LEMMA AtTop ==
  ASSUME TypeInv, NEW pc, At(pc)
  PROVE  stack # <<>> /\ top \in Frames(Created) /\ FrameOK(top, Created) /\ top.pc = pc
<1>1. stack # <<>> /\ top.pc = pc
  BY DEF At, top
<1> QED BY <1>1, TopOK

LEMMA RestTypes ==
  ASSUME TypeInv, UNCHANGED <<calls, config>>, rv' \in BOOLEAN, want' \in Seq(Key),
         UNCHANGED faults \/ (faults < MaxFaults /\ faults' = faults + 1)
  PROVE  RestOK'
<1>1. MaxFaults \in Nat
  BY ConfigType DEF TypeInv, RestOK
<1> QED BY <1>1 DEF TypeInv, RestOK, MaxFaults, MaxCalls

LEMMA AwaitTypes ==
  ASSUME TypeInv, NEW s \in Server, NEW r \in Created, AwaitReply(s, r)
  PROVE  /\ readreq' \in [Server -> Created \cup {Null}]
         /\ readqueue' \in [Server -> Seq(Created)]
         /\ reading' \in [1 .. 2 -> Seq(Server)]
<1>1. /\ readqueue \in [Server -> Seq(Created)] /\ readreq \in [Server -> Created \cup {Null}]
      /\ reading \in [1 .. 2 -> Seq(Server)] /\ cur \in 1 .. 2
  BY DEF TypeInv, SlotsOK, RoundsOK
<1>2. Push(readqueue[s], r) \in Seq(Created) /\ Push(reading[cur], s) \in Seq(Server)
  BY <1>1, QueueTypes
<1> QED BY <1>1, <1>2 DEF AwaitReply

LEMMA ScheduleTypes ==
  ASSUME TypeInv, UNCHANGED config, Schedule
  PROVE  TypeInv'
<1> DEFINE s == top.s
           r == top.r
<1>1. stack # <<>> /\ s \in Server /\ r \in Created
  BY AtTop DEF Schedule, FrameOK, ServerPcs, RequestPcs
<1>2. Created' = Created /\ ConnOK' /\ ReqsOK'
  <2>1. CASE Slot(s, r)
    BY <1>1, <2>1, SlotTypes DEF Schedule
  <2>2. CASE UNCHANGED <<conn, request>>
    BY <2>2, SameRequests, Keeps DEF Schedule, reqs
  <2> QED BY <2>1, <2>2 DEF Schedule
<1>3. SlotsOK' /\ RoundsOK'
  <2>1. /\ sendqueue \in [Server -> Seq(Created)] /\ sendreq \in [Server -> Created \cup {Null}]
        /\ sending \in [1 .. 2 -> Seq(Server)] /\ cur \in 1 .. 2
    BY DEF TypeInv, SlotsOK, RoundsOK
  <2>2. Push(sendqueue[s], r) \in Seq(Created) /\ Push(sending[cur], s) \in Seq(Server)
    BY <1>1, <2>1, QueueTypes
  <2>3. /\ sendqueue' \in [Server -> Seq(Created)] /\ sendreq' \in [Server -> Created \cup {Null}]
        /\ sending' \in [1 .. 2 -> Seq(Server)]
    BY <1>1, <2>1, <2>2 DEF Schedule, Slot
  <2>4. AwaitReply(s, r)
    BY DEF Schedule
  <2>5. /\ readreq' \in [Server -> Created \cup {Null}] /\ readqueue' \in [Server -> Seq(Created)]
        /\ reading' \in [1 .. 2 -> Seq(Server)]
    BY <1>1, <2>4, AwaitTypes
  <2> QED BY <1>2, <2>3, <2>5 DEF Schedule, TypeInv, SlotsOK, RoundsOK
<1>4. RestOK'
  BY DEF Schedule, TypeInv, RestOK, budget, MaxFaults, MaxCalls
<1>5. StackOK' /\ ProbeOK'
  BY <1>1, <1>2, CallableFrames, StackStep DEF Schedule, Return, TypeInv
<1> QED BY <1>2, <1>3, <1>4, <1>5 DEF TypeInv

LEMMA RefusedTypes ==
  ASSUME TypeInv, UNCHANGED config, ScheduleRefused \/ SlotSendRefused
  PROVE  TypeInv'
<1> DEFINE s == top.s
           r == top.r
           a == Frame("deactivate", s, Null)
           b == Frame("unslot", s, r)
<1>1. stack # <<>> /\ s \in Server /\ r \in Created
  <2>1. CASE ScheduleRefused
    BY <2>1, AtTop DEF ScheduleRefused, FrameOK, ServerPcs, RequestPcs
  <2>2. CASE SlotSendRefused
    BY <2>2, AtTop DEF SlotSendRefused, FrameOK, ServerPcs
  <2> QED BY <2>1, <2>2
<1>2. /\ Goto(<<a, b>>) /\ Refused(s)
      /\ UNCHANGED <<conn, slots, rounds, reqs, rv, want, calls>>
  BY DEF ScheduleRefused, SlotSendRefused
<1>3. a \in Frames(Created) /\ b \in Lower(Created) /\ b.pc = "unslot" /\ a.pc = "deactivate"
  BY <1>1, FrameKinds DEF Frame, FrameOf
<1>4. Callable(<<a, b>>, Created) /\ Head(<<a, b>>).pc # "probe"
  BY <1>3, CallableFrames
<1>5. UNCHANGED faults \/ (faults < MaxFaults /\ faults' = faults + 1)
  BY <1>2 DEF Refused, Fault
<1>6. RestOK'
  BY <1>2, <1>5, RestTypes DEF TypeInv, RestOK
<1>7. UNCHANGED request /\ ConnOK' /\ SlotsOK' /\ RoundsOK' /\ ReqsOK'
  BY <1>2, SameRequests, Keeps DEF reqs
<1> QED BY <1>1, <1>2, <1>4, <1>6, <1>7, PlainStep

LEMMA SlotSendTypes ==
  ASSUME TypeInv, UNCHANGED config, SlotSend
  PROVE  TypeInv'
<1> DEFINE s == top.s
           r == top.r
<1>1. stack # <<>> /\ s \in Server /\ r \in Created \cup {Null}
  BY AtTop DEF SlotSend, FrameOK, ServerPcs
<1>2. Created' = Created /\ ConnOK' /\ ReqsOK'
  <2>1. CASE r # Null
    BY <1>1, <2>1, SlotTypes DEF SlotSend
  <2>2. CASE UNCHANGED <<conn, request>>
    BY <2>2, SameRequests, Keeps DEF SlotSend, reqs
  <2> QED BY <2>1, <2>2 DEF SlotSend
<1>3. SlotsOK'
  BY <1>1, <1>2 DEF SlotSend, Slot, TypeInv, SlotsOK
<1>4. RoundsOK' /\ RestOK'
  BY <1>2, Keeps DEF SlotSend
<1>5. StackOK' /\ ProbeOK'
  BY <1>1, <1>2, CallableFrames, StackStep DEF SlotSend, Return, TypeInv
<1> QED BY <1>2, <1>3, <1>4, <1>5 DEF TypeInv

LEMMA UnslotTypes ==
  ASSUME TypeInv, UNCHANGED config, Unslot
  PROVE  TypeInv'
<1> DEFINE s == top.s
           r == top.r
           a == Frame("failover", s, r)
<1>1. stack # <<>> /\ s \in Server /\ r \in Created
  BY AtTop DEF Unslot, FrameOK, ServerPcs, RequestPcs
<1>2. a \in Frames(Created) /\ a.pc = "failover"
  BY <1>1, FrameKinds DEF Frame, FrameOf
<1>3. Callable(<<a>>, Created) /\ Head(<<a>>).pc # "probe"
  BY <1>2, CallableFrames
<1>4. UNCHANGED request /\ ConnOK' /\ RoundsOK' /\ ReqsOK' /\ RestOK'
  BY SameRequests, Keeps DEF Unslot, reqs
<1>5. SlotsOK'
  BY <1>1, SameRequests DEF Unslot, reqs, TypeInv, SlotsOK
<1> QED BY <1>1, <1>3, <1>4, <1>5, PlainStep DEF Unslot

LEMMA DeactivateTypes ==
  ASSUME TypeInv, UNCHANGED config, Deactivate
  PROVE  TypeInv'
<1> DEFINE s == top.s
           q == WithRequest(readqueue[s], readreq[s])
           mine == WithRequest(q, buildreq[s])
           a == FrameOf("drain", s, Null, mine, 0, 0)
<1>1. stack # <<>> /\ s \in Server
  BY AtTop DEF Deactivate, FrameOK, ServerPcs
<1>2. mine \in Seq(Created)
  <2>1. /\ readqueue[s] \in Seq(Created) /\ readreq[s] \in Created \cup {Null}
        /\ buildreq[s] \in Created \cup {Null}
    BY <1>1 DEF TypeInv, SlotsOK
  <2>2. q \in Seq(Created)
    BY <2>1, PushAdds DEF WithRequest
  <2> HIDE DEF q
  <2> QED BY <2>1, <2>2, PushAdds DEF WithRequest
<1> HIDE DEF mine, q
<1>3. a \in Frames(Created) /\ a.pc = "drain"
  BY <1>1, <1>2, FrameKinds DEF FrameOf, Lower
<1>4. Callable(<<a>>, Created) /\ Head(<<a>>).pc # "probe"
  BY <1>3, CallableFrames
<1>5. UNCHANGED request /\ Created' = Created /\ ReqsOK' /\ RestOK'
  BY SameRequests, Keeps DEF Deactivate, reqs
<1>6. <<>> \in Seq(Created) /\ Null \in Created \cup {Null}
  OBVIOUS
<1>7. ConnOK'
  BY <1>1, <1>5, <1>6 DEF Deactivate, FailedStatus, Hangup, TypeInv, ConnOK
<1>8. SlotsOK'
  BY <1>1, <1>5, <1>6 DEF Deactivate, Vacate, TypeInv, SlotsOK
<1>9. RoundsOK'
  <2>1. /\ sending \in [1 .. 2 -> Seq(Server)] /\ reading \in [1 .. 2 -> Seq(Server)]
        /\ cur \in 1 .. 2
    BY DEF TypeInv, RoundsOK
  <2>2. Without(sending[cur], s) \in Seq(Server) /\ Without(reading[cur], s) \in Seq(Server)
    BY <2>1, QueueTypes
  <2> QED BY <2>1, <2>2 DEF Deactivate, Depart, TypeInv, RoundsOK
<1>10. Goto(<<a>>)
  BY DEF Deactivate, mine, q
<1> QED BY <1>1, <1>4, <1>5, <1>7, <1>8, <1>9, <1>10, PlainStep

LEMMA ReleaseTypes ==
  ASSUME TypeInv, NEW r \in Created \cup {Null}, Release(r), UNCHANGED request
  PROVE  ReqsOK'
<1>1. free_requests \in Seq(Created \cup {Null}) /\ r \in Created \cup {Null}
  BY DEF TypeInv, ReqsOK
<1>2. free_requests' \in Seq(Created \cup {Null})
  BY <1>1, QueueTypes DEF Release
<1>3. Created' = Created
  BY SameRequests
<1> QED BY <1>2, <1>3 DEF TypeInv, ReqsOK

LEMMA GiveUpTypes ==
  ASSUME TypeInv, UNCHANGED config, GiveUp
  PROVE  TypeInv'
<1>1. stack # <<>> /\ top.r \in Created
  BY AtTop DEF GiveUp, FrameOK, RequestPcs
<1>2. UNCHANGED request /\ ReqsOK'
  BY <1>1, ReleaseTypes DEF GiveUp
<1>3. ConnOK' /\ SlotsOK' /\ RoundsOK'
  BY <1>2, SameRequests, Keeps DEF GiveUp
<1>4. RestOK'
  BY DEF GiveUp, TypeInv, RestOK, budget, MaxFaults, MaxCalls
<1> QED BY <1>1, <1>2, <1>3, <1>4, CallableFrames, PlainStep DEF GiveUp, Return

LEMMA FailOverTypes ==
  ASSUME TypeInv, UNCHANGED config, FailOver
  PROVE  TypeInv'
<1> DEFINE s == top.s
           r == top.r
           a == Frame("probe", s, r)
           b == Each("get", r, want)
<1>1. stack # <<>> /\ s \in Server /\ r \in Created
  BY AtTop DEF FailOver, FrameOK, RequestPcs, ServerPcs
<1>2. /\ a \in Frames(Created) /\ a.pc = "probe" /\ a.r = r
      /\ b \in Frames(Created) /\ b.pc = "get"
  <2>1. want \in Seq(Key)
    BY DEF TypeInv, RestOK
  <2> QED BY <1>1, <2>1, FrameKinds, LoopKinds DEF Frame, FrameOf, Each
<1>3. UNCHANGED request /\ Created' = Created
  BY SameRequests DEF FailOver, reqs
<1>4. ConnOK' /\ SlotsOK' /\ RoundsOK' /\ ReqsOK' /\ RestOK'
  BY <1>3, Keeps DEF FailOver
<1>5. CASE request[r].kind = "key"
  <2>1. Callable(<<a>>, Created) /\ Head(<<a>>) = a
    BY <1>2, CallableFrames
  <2>2. Goto(<<a>>) /\ request[r].index < MaxAttempts
    BY <1>5 DEF FailOver, MayFailOver
  <2>3. StackOK' /\ stack' # <<>> /\ Head(stack') = a
    BY <1>1, <1>3, <2>1, <2>2, StackStep DEF TypeInv
  <2>4. ProbeOK'
    BY <1>2, <1>3, <1>5, <2>2, <2>3 DEF ProbeOK, top
  <2> QED BY <1>4, <2>3, <2>4 DEF TypeInv
<1>6. CASE request[r].kind # "key"
  <2>1. Callable(<<b>>, Created) /\ Head(<<b>>).pc # "probe"
    BY <1>2, CallableFrames
  <2>2. Goto(<<b>>)
    BY <1>6 DEF FailOver
  <2> QED BY <1>1, <1>3, <1>4, <2>1, <2>2, PlainStep
<1> QED BY <1>5, <1>6

LEMMA FindNextTypes ==
  ASSUME TypeInv, UNCHANGED config, FindNext
  PROVE  TypeInv'
<1> DEFINE r == top.r
           failed == request[r].failed \cup {top.s}
           k == Head(request[r].keys)
           i == LastProbe(k, request[r].index, Server \ failed)
           s == HashNext[k][i]
           again == ~Valid(s) /\ i + 1 < MaxAttempts /\ Cardinality(failed) < NumServers
           m == [request[r] EXCEPT !.failed = failed, !.index = i + 1]
           a == Frame(IF again THEN "probe" ELSE "schedule", s, r)
<1>1. stack # <<>> /\ top.s \in Server /\ r \in Created
  BY AtTop DEF FindNext, FrameOK, RequestPcs, ServerPcs
<1>2. /\ request \in Seq(Request) /\ r \in 1 .. Len(request) /\ Len(request) \in Nat
      /\ request[r] \in Request
  BY <1>1, LenProperties, ElementOfSeq DEF TypeInv, ReqsOK, Created
<1>3. /\ request[r].kind = "key" /\ request[r].index < MaxAttempts
      /\ request[r].index \in Nat /\ MaxAttempts \in Nat /\ Redundancy \in Nat
      /\ failed \in SUBSET Server
  <2>1. config \in Configs /\ ProbeOK
    BY DEF TypeInv, RestOK
  <2> QED BY <1>1, <1>2, <2>1, ConfigType DEF ProbeOK, FindNext, Request
<1>4. k \in Key
  <2>1. request[r].keys # <<>> /\ request[r].keys \in Seq(Key)
    BY <1>1, <1>2, <1>3 DEF TypeInv, ReqsOK, Request
  <2> QED BY <2>1, FirstElement
<1>5. i \in Nat /\ i < MaxAttempts /\ s \in Server
  <2> DEFINE ok == Server \ failed
             n == request[r].index
  <2>1. ok \in SUBSET Server /\ n \in Nat /\ n <= MaxAttempts + Redundancy /\ config \in Configs
    BY <1>3 DEF TypeInv, RestOK
  <2>2. i = LastProbe(k, n, ok)
    OBVIOUS
  <2> HIDE DEF k, ok, n
  <2>3. /\ LastProbe(k, n, ok) \in n .. n + MaxAttempts
        /\ LastProbe(k, n, ok) < MaxAttempts \/ LastProbe(k, n, ok) = n
        /\ HashNext[k][LastProbe(k, n, ok)] \in Server
    BY <1>4, <2>1, ProbeType
  <2>4. n < MaxAttempts
    BY <1>3 DEF n
  <2> HIDE DEF i
  <2> QED BY <1>3, <2>1, <2>2, <2>3, <2>4
<1>f. failed \in SUBSET Server
  BY <1>3
<1> HIDE DEF i, k, s, failed
<1>6. /\ m \in Request /\ m.kind = request[r].kind /\ m.keys = request[r].keys
      /\ m.index = i + 1
  <2> DEFINE q == request[r]
  <2>1. i + 1 \in Nat /\ failed \in SUBSET Server
    BY <1>5, <1>f
  <2>2. q \in Request
    BY <1>2
  <2> HIDE DEF q
  <2>3. m = [q EXCEPT !.failed = failed, !.index = i + 1]
    BY DEF q
  <2> HIDE DEF m
  <2>4. /\ m \in Request /\ m.kind = q.kind /\ m.keys = q.keys
        /\ m.index = i + 1
    BY <2>1, <2>2, <2>3 DEF Request
  <2> QED BY <2>4 DEF q
<1>7. request' = [request EXCEPT ![r] = m]
  BY DEF FindNext, i, k, failed
<1>8. Goto(<<a>>)
  BY DEF FindNext, i, k, failed, s
<1> HIDE DEF m
<1>9. /\ request' \in Seq(Request) /\ Len(request') = Len(request)
      /\ \A x \in 1 .. Len(request) : request'[x] = IF x = r THEN m ELSE request[x]
  BY <1>2, <1>6, <1>7, ExceptSeq
<1>10. Created' = Created
  BY <1>9 DEF Created
<1>11. ReqsOK'
  <2>1. UNCHANGED free_requests
    BY DEF FindNext
  <2>2. ReqsOK
    BY DEF TypeInv
  <2> QED BY <1>1, <1>6, <1>9, <1>10, <2>1, <2>2 DEF ReqsOK, Created
<1>12. ConnOK' /\ SlotsOK' /\ RoundsOK' /\ RestOK'
  BY <1>10, Keeps DEF FindNext
<1>13. a \in Frames(Created) /\ a.pc \in {"probe", "schedule"} /\ a.r = r
       /\ (a.pc = "probe" => again)
  BY <1>1, <1>5, FrameKinds DEF Frame, FrameOf
<1> HIDE DEF a
<1>14. Callable(<<a>>, Created) /\ Head(<<a>>) = a
  BY <1>13, CallableFrames
<1>15. StackOK' /\ stack' # <<>> /\ Head(stack') = a
  BY <1>1, <1>8, <1>10, <1>14, StackStep DEF TypeInv
<1>16. ProbeOK'
  BY <1>2, <1>3, <1>6, <1>9, <1>13, <1>15 DEF ProbeOK, top, At
<1> QED BY <1>11, <1>12, <1>15, <1>16 DEF TypeInv

LEMMA RetryTypes ==
  ASSUME TypeInv, UNCHANGED config, Retry
  PROVE  TypeInv'
<1> DEFINE s == top.s
           r == top.r
           waiting == Without(sendqueue[s], r)
           next == Popped(waiting, Null)
           a == Frame("slot", s, next)
           b == Frame("unqueue", s, Null)
           c == Frame("retryRead", s, r)
<1>1. stack # <<>> /\ s \in Server /\ r \in Created
  BY AtTop DEF Retry, FrameOK, RequestPcs, ServerPcs
<1>2. /\ waiting \in Seq(Created) /\ Without(readqueue[s], r) \in Seq(Created)
      /\ Rest(waiting) \in Seq(Created) /\ next \in Created \cup {Null}
  <2>1. sendqueue[s] \in Seq(Created) /\ readqueue[s] \in Seq(Created)
    BY <1>1 DEF TypeInv, SlotsOK
  <2>2. waiting \in Seq(Created) /\ Without(readqueue[s], r) \in Seq(Created)
    BY <2>1, QueueTypes
  <2> HIDE DEF waiting
  <2> QED BY <2>2, QueueTypes
<1>3. UNCHANGED request /\ Created' = Created /\ ConnOK' /\ RoundsOK' /\ ReqsOK' /\ RestOK'
  BY SameRequests, Keeps DEF Retry, reqs
<1>4. SlotsOK'
  BY <1>1, <1>2, <1>3 DEF Retry, TypeInv, SlotsOK
<1> HIDE DEF next
<1>5. /\ a \in Frames(Created) /\ a.pc = "slot" /\ b \in Lower(Created)
      /\ c \in Lower(Created) /\ c \in Frames(Created) /\ c.pc = "retryRead"
  BY <1>1, <1>2, FrameKinds DEF Frame, FrameOf, Lower
<1>6. /\ Callable(<<a, b, c>>, Created) /\ Head(<<a, b, c>>).pc # "probe"
      /\ Callable(<<c>>, Created) /\ Head(<<c>>).pc # "probe"
  BY <1>5, CallableFrames
<1>7. Goto(<<a, b, c>>) \/ Goto(<<c>>)
  BY DEF Retry, next
<1> QED BY <1>1, <1>3, <1>4, <1>6, <1>7, PlainStep

LEMMA UnqueueTypes ==
  ASSUME TypeInv, UNCHANGED config, Unqueue
  PROVE  TypeInv'
<1>1. stack # <<>>
  BY DEF Unqueue, At
<1>2. UNCHANGED request /\ ConnOK' /\ SlotsOK' /\ ReqsOK' /\ RestOK'
  BY SameRequests, Keeps DEF Unqueue, reqs
<1>3. RoundsOK'
  <2>1. sending \in [1 .. 2 -> Seq(Server)] /\ cur \in 1 .. 2
    BY DEF TypeInv, RoundsOK
  <2>2. Without(sending[cur], top.s) \in Seq(Server)
    BY <2>1, QueueTypes
  <2> QED BY <2>1, <2>2 DEF Unqueue, TypeInv, RoundsOK
<1> QED BY <1>1, <1>2, <1>3, CallableFrames, PlainStep DEF Unqueue, Return

LEMMA RetryReadTypes ==
  ASSUME TypeInv, UNCHANGED config, RetryRead
  PROVE  TypeInv'
<1> DEFINE s == top.s
           r == top.r
           next == Popped(readqueue[s], Null)
           a == Frame("failover", s, r)
<1>1. stack # <<>> /\ s \in Server /\ r \in Created
  BY AtTop DEF RetryRead, FrameOK, RequestPcs, ServerPcs
<1>2. UNCHANGED request /\ Created' = Created /\ ConnOK' /\ ReqsOK' /\ RestOK'
  BY SameRequests, Keeps DEF RetryRead, reqs
<1>3. next \in Created \cup {Null} /\ Rest(readqueue[s]) \in Seq(Created)
  <2>1. readqueue[s] \in Seq(Created)
    BY <1>1 DEF TypeInv, SlotsOK
  <2> QED BY <2>1, QueueTypes
<1>4. SlotsOK'
  BY <1>1, <1>2, <1>3 DEF RetryRead, TypeInv, SlotsOK
<1>5. RoundsOK'
  <2>1. reading \in [1 .. 2 -> Seq(Server)] /\ cur \in 1 .. 2
    BY DEF TypeInv, RoundsOK
  <2>2. Without(reading[cur], s) \in Seq(Server)
    BY <2>1, QueueTypes
  <2> QED BY <2>1, <2>2 DEF RetryRead, TypeInv, RoundsOK
<1>6. a \in Frames(Created) /\ a.pc = "failover"
  BY <1>1, FrameKinds DEF Frame, FrameOf
<1>7. Callable(<<a>>, Created) /\ Head(<<a>>).pc # "probe"
  BY <1>6, CallableFrames
<1> QED BY <1>1, <1>2, <1>4, <1>5, <1>7, PlainStep DEF RetryRead

LEMMA SwitchTypes ==
  ASSUME TypeInv, NEW w \in SUBSET Server, NEW r \in SUBSET Server, Switch(w, r),
         in_select' \in BOOLEAN
  PROVE  UNCHANGED request /\ ConnOK' /\ SlotsOK' /\ RoundsOK' /\ ReqsOK'
<1>1. UNCHANGED request /\ ConnOK' /\ SlotsOK' /\ ReqsOK'
  BY SameRequests, Keeps DEF Switch, reqs
<1>2. other \in 1 .. 2 /\ <<>> \in Seq(Server)
  BY DEF other, TypeInv, RoundsOK
<1>3. RoundsOK'
  BY <1>2 DEF Switch, TypeInv, RoundsOK
<1> QED BY <1>1, <1>3

LEMMA SelectTypes ==
  ASSUME TypeInv, UNCHANGED config, Ready \/ Expire \/ SelectError
  PROVE  TypeInv'
<1>1. stack # <<>>
  BY DEF Ready, Expire, SelectError, Switch, At
<1>2. PICK w \in SUBSET Server, r \in SUBSET Server : Switch(w, r)
  <2>1. ToSet(sending[cur]) \subseteq Server /\ ToSet(reading[cur]) \subseteq Server
    <3>1. sending[cur] \in Seq(Server) /\ reading[cur] \in Seq(Server)
      BY DEF TypeInv, RoundsOK
    <3> QED BY <3>1, ToSetElements
  <2>2. CASE Ready
    <3>1. Readable \subseteq Server
      BY <2>1 DEF Readable
    <3> QED BY <2>1, <2>2, <3>1 DEF Ready
  <2>3. CASE Expire
    BY <2>3 DEF Expire
  <2>4. CASE SelectError
    BY <2>1, <2>4 DEF SelectError
  <2> QED BY <2>2, <2>3, <2>4
<1>3. in_select' \in BOOLEAN
  BY DEF Ready, Expire, SelectError, TypeInv, RoundsOK
<1>4. UNCHANGED request /\ ConnOK' /\ SlotsOK' /\ RoundsOK' /\ ReqsOK'
  BY <1>2, <1>3, SwitchTypes
<1>5. RestOK'
  <2>1. UNCHANGED <<rv, want, calls>>
    BY <1>2 DEF Switch
  <2>2. UNCHANGED faults \/ (faults < MaxFaults /\ faults' = faults + 1)
    BY DEF Ready, Expire, SelectError, Fault
  <2> QED BY <2>1, <2>2, RestTypes DEF TypeInv, RestOK
<1> DEFINE a == Loop("send", cur, 0)
           b == Loop("lateSend", cur, 0)
           c == Loop("lateSend", cur, -1)
<1>6. /\ a \in Frames(Created) /\ b \in Frames(Created) /\ c \in Frames(Created)
      /\ a.pc = "send" /\ b.pc = "lateSend" /\ c.pc = "lateSend"
  <2>1. cur \in 1 .. 2 /\ Lower(Created) \subseteq Frames(Created) /\ 0 \in Nat /\ 0 \in Int /\ -1 \in Int
    BY DEF TypeInv, RoundsOK, Lower
  <2>2. a \in Lower(Created) /\ b \in Lower(Created) /\ c \in Lower(Created)
    BY <2>1, LoopKinds
  <2> QED BY <2>1, <2>2 DEF Loop, FrameOf
<1>7. /\ Callable(<<a>>, Created) /\ Head(<<a>>).pc # "probe"
      /\ Callable(<<b>>, Created) /\ Head(<<b>>).pc # "probe"
      /\ Callable(<<c>>, Created) /\ Head(<<c>>).pc # "probe"
  BY <1>6, CallableFrames
<1>8. Goto(<<a>>) \/ Goto(<<b>>) \/ Goto(<<c>>)
  BY DEF Ready, Expire, SelectError
<1> HIDE DEF a, b, c
<1> QED BY <1>1, <1>4, <1>5, <1>7, <1>8, PlainStep

LEMMA TakeOutTypes ==
  ASSUME TypeInv, stack # <<>>, top.pc \in {"lateSend", "lateRead"},
         NEW s \in Server, NEW w \in 1 .. 2, NEW r \in Created \cup {Null}, TakeOut(s, w, r),
         UNCHANGED <<request, cur, in_select, wfds, rfds, pending>>,
         ConnOK', SlotsOK', ReqsOK', RestOK'
  PROVE  TypeInv'
<1> DEFINE a == FrameOf("late", s, r, <<>>, 0, top.i)
<1>1. top \in Lower(Created) /\ top.i \in Int
  <2>1. top \in Frames(Created)
    BY TopOK
  <2> QED BY <2>1 DEF Lower, LowerPcs, Frames
<1>2. a \in Frames(Created) /\ a.pc = "late"
  <2>1. r \in Created
    BY DEF TakeOut
  <2> QED BY <1>1, <2>1, FrameKinds DEF FrameOf
<1>3. Callable(<<a, top>>, Created) /\ Head(<<a, top>>).pc # "probe"
  BY <1>1, <1>2, CallableFrames
<1>4. RoundsOK'
  <2>1. sending \in [1 .. 2 -> Seq(Server)] /\ reading \in [1 .. 2 -> Seq(Server)]
    BY DEF TypeInv, RoundsOK
  <2>2. Without(sending[w], s) \in Seq(Server) /\ Without(reading[w], s) \in Seq(Server)
    BY <2>1, QueueTypes
  <2> QED BY <2>1, <2>2 DEF TakeOut, TypeInv, RoundsOK
<1>5. Goto(<<a, top>>)
  BY DEF TakeOut
<1> QED BY <1>3, <1>4, <1>5, PlainStep

LEMMA LateSendTypes ==
  ASSUME TypeInv, UNCHANGED config, LateSend
  PROVE  TypeInv'
<1> DEFINE w == top.w
           s == Head(sending[w])
           a == Loop("lateRead", w, top.i)
<1>1. stack # <<>> /\ w \in 1 .. 2 /\ top.pc = "lateSend" /\ top.i \in Int
  BY AtTop DEF LateSend, FrameOK, Frames
<1>2. UNCHANGED request /\ ConnOK' /\ SlotsOK' /\ ReqsOK' /\ RestOK'
  BY SameRequests, Keeps DEF LateSend, reqs
<1>3. CASE sending[w] = <<>>
  <2>1. a \in Frames(Created) /\ a.pc = "lateRead"
    BY <1>1, LoopKinds DEF Lower, Loop, FrameOf
  <2>2. Callable(<<a>>, Created) /\ Head(<<a>>).pc # "probe"
    BY <2>1, CallableFrames
  <2>3. RoundsOK'
    BY <1>3 DEF LateSend, TypeInv, RoundsOK
  <2>4. Goto(<<a>>)
    BY <1>3 DEF LateSend
  <2> QED BY <1>1, <1>2, <2>2, <2>3, <2>4, PlainStep
<1>4. CASE sending[w] # <<>>
  <2>1. s \in Server
    <3>1. sending[w] \in Seq(Server)
      BY <1>1 DEF TypeInv, RoundsOK
    <3> QED BY <1>4, <3>1, FirstElement
  <2>2. sendreq[s] \in Created \cup {Null}
    BY <2>1 DEF TypeInv, SlotsOK
  <2>3. TakeOut(s, w, sendreq[s]) /\ UNCHANGED <<cur, in_select, wfds, rfds, pending>>
    BY <1>4 DEF LateSend
  <2> HIDE DEF s, w
  <2> QED BY <1>1, <1>2, <2>1, <2>2, <2>3, TakeOutTypes
<1> QED BY <1>3, <1>4

LEMMA LateReadTypes ==
  ASSUME TypeInv, UNCHANGED config, LateRead
  PROVE  TypeInv'
<1> DEFINE w == top.w
           s == Head(reading[w])
           a == Loop("send", w, 0)
<1>1. stack # <<>> /\ w \in 1 .. 2 /\ top.pc = "lateRead"
  BY AtTop DEF LateRead, FrameOK
<1>2. UNCHANGED request /\ ConnOK' /\ SlotsOK' /\ ReqsOK' /\ RestOK'
  BY SameRequests, Keeps DEF LateRead, reqs
<1>3. CASE reading[w] = <<>>
  <2>1. a \in Frames(Created) /\ a.pc = "send"
    BY <1>1, LoopKinds DEF Lower, Loop, FrameOf
  <2>2. Callable(<<a>>, Created) /\ Head(<<a>>).pc # "probe"
    BY <2>1, CallableFrames
  <2>3. RoundsOK'
    BY <1>3 DEF LateRead, TypeInv, RoundsOK
  <2>4. Goto(<<a>>)
    BY <1>3 DEF LateRead
  <2> QED BY <1>1, <1>2, <2>2, <2>3, <2>4, PlainStep
<1>4. CASE reading[w] # <<>>
  <2>1. s \in Server
    <3>1. reading[w] \in Seq(Server)
      BY <1>1 DEF TypeInv, RoundsOK
    <3> QED BY <1>4, <3>1, FirstElement
  <2>2. readreq[s] \in Created \cup {Null}
    BY <2>1 DEF TypeInv, SlotsOK
  <2>3. TakeOut(s, w, readreq[s]) /\ UNCHANGED <<cur, in_select, wfds, rfds, pending>>
    BY <1>4 DEF LateRead
  <2> HIDE DEF s, w
  <2> QED BY <1>1, <1>2, <2>1, <2>2, <2>3, TakeOutTypes
<1> QED BY <1>3, <1>4

LEMMA LateTypes ==
  ASSUME TypeInv, UNCHANGED config, Late
  PROVE  TypeInv'
<1> DEFINE s == top.s
           a == Frame("retry", s, top.r)
           b == Frame("deactivate", s, Null)
<1>1. stack # <<>> /\ s \in Server /\ top.r \in Created
  BY AtTop DEF Late, FrameOK, RequestPcs, ServerPcs
<1>2. UNCHANGED request /\ Created' = Created /\ SlotsOK' /\ RoundsOK' /\ ReqsOK' /\ RestOK'
  BY SameRequests, Keeps DEF Late, reqs
<1>3. ConnOK'
  BY <1>1, <1>2 DEF Late, ServerFailure, TypeInv, ConnOK
<1>4. a \in Frames(Created) /\ b \in Frames(Created) /\ a.pc = "retry" /\ b.pc = "deactivate"
  BY <1>1, FrameKinds DEF Frame, FrameOf
<1>5. /\ Callable(<<a>>, Created) /\ Head(<<a>>).pc # "probe"
      /\ Callable(<<b>>, Created) /\ Head(<<b>>).pc # "probe"
  BY <1>4, CallableFrames
<1>6. Goto(<<a>>) \/ Goto(<<b>>)
  BY DEF Late
<1> HIDE DEF a, b
<1> QED BY <1>1, <1>2, <1>3, <1>5, <1>6, PlainStep

LEMMA ProceedStep ==
  ASSUME TypeInv, stack # <<>>, top.pc \in {"xmit", "parse"}, UNCHANGED request,
         NEW f, Callable(f, Created), Proceed(f), f = <<>> \/ Head(f).pc # "probe",
         ConnOK', SlotsOK', RoundsOK', ReqsOK', RestOK'
  PROVE  TypeInv'
<1>1. Created' = Created
  BY SameRequests
<1>2. CASE in_select
  <2>1. Goto(f)
    BY <1>2 DEF Proceed, Goto
  <2> QED BY <2>1, PlainStep
<1>3. CASE ~in_select
  <2>1. stack' = Tail(Tail(stack))
    BY <1>3 DEF Proceed
  <2>2. StackOK' /\ ProbeOK'
    BY <1>1, <2>1, StackLeaves DEF TypeInv
  <2> QED BY <2>2 DEF TypeInv
<1> QED BY <1>2, <1>3

LEMMA SendLoopTypes ==
  ASSUME TypeInv, UNCHANGED config, SendLoop
  PROVE  TypeInv'
<1> DEFINE w == top.w
           i == top.i + 1
           s == sending[w][i]
           a == Loop("read", w, 0)
           b == Loop("send", w, i)
           c == FrameOf("xmit", s, Null, <<>>, w, 0)
<1>1. stack # <<>> /\ w \in 1 .. 2 /\ i \in Nat \ {0}
  BY AtTop DEF SendLoop, FrameOK
<1>2. UNCHANGED request /\ ConnOK' /\ SlotsOK' /\ ReqsOK' /\ RestOK'
  BY SameRequests, Keeps DEF SendLoop, reqs
<1>3. /\ sending \in [1 .. 2 -> Seq(Server)] /\ sending[w] \in Seq(Server) /\ cur \in 1 .. 2
      /\ Len(sending[w]) \in Nat /\ (i <= Len(sending[w]) => s \in Server)
  <2>1. sending \in [1 .. 2 -> Seq(Server)] /\ sending[w] \in Seq(Server) /\ cur \in 1 .. 2
    BY <1>1 DEF TypeInv, RoundsOK
  <2>2. Len(sending[w]) \in Nat
    BY <2>1, LenProperties
  <2> QED BY <1>1, <2>1, <2>2, ElementOfSeq
<1> HIDE DEF s, i
<1>4. /\ a \in Frames(Created) /\ a.pc = "read" /\ b \in Lower(Created)
      /\ b \in Frames(Created) /\ b.pc = "send"
  BY <1>1, LoopKinds DEF Lower, Loop, FrameOf
<1>5. /\ Callable(<<a>>, Created) /\ Head(<<a>>).pc # "probe"
      /\ Callable(<<b>>, Created) /\ Head(<<b>>).pc # "probe"
  BY <1>4, CallableFrames
<1>6. CASE i > Len(sending[w]) \/ sendreq[s] = Null
  <2>1. (Goto(<<a>>) \/ Goto(<<b>>)) /\ UNCHANGED <<wfds, sending>>
    BY <1>6 DEF SendLoop, s, i
  <2>2. RoundsOK'
    BY <2>1 DEF SendLoop, TypeInv, RoundsOK
  <2> QED BY <1>1, <1>2, <1>5, <2>1, <2>2, PlainStep
<1>7. CASE ~(i > Len(sending[w]) \/ sendreq[s] = Null) /\ s \in wfds
  <2>1. s \in Server
    BY <1>1, <1>3, <1>7
  <2>2. c \in Frames(Created) /\ c.pc = "xmit"
    BY <1>1, <2>1, FrameKinds DEF Lower, FrameOf
  <2>3. Callable(<<c, b>>, Created) /\ Head(<<c, b>>).pc # "probe"
    BY <1>4, <2>2, CallableFrames
  <2>4. Goto(<<c, b>>) /\ wfds' = wfds \ {s} /\ UNCHANGED sending
    BY <1>7 DEF SendLoop, s, i
  <2>5. RoundsOK'
    BY <2>4 DEF SendLoop, TypeInv, RoundsOK
  <2> QED BY <1>1, <1>2, <2>3, <2>4, <2>5, PlainStep
<1>8. CASE ~(i > Len(sending[w]) \/ sendreq[s] = Null) /\ s \notin wfds
  <2>1. s \in Server
    BY <1>1, <1>3, <1>8
  <2>2. Goto(<<b>>) /\ sending' = [sending EXCEPT ![cur] = Push(@, s)] /\ UNCHANGED wfds
    BY <1>8 DEF SendLoop, s, i
  <2>3. Push(sending[cur], s) \in Seq(Server)
    BY <1>3, <2>1, QueueTypes
  <2>4. RoundsOK'
    BY <1>3, <2>2, <2>3 DEF SendLoop, TypeInv, RoundsOK
  <2> QED BY <1>1, <1>2, <1>5, <2>2, <2>4, PlainStep
<1> QED BY <1>6, <1>7, <1>8

LEMMA ReadLoopTypes ==
  ASSUME TypeInv, UNCHANGED config, ReadLoop
  PROVE  TypeInv'
<1> DEFINE w == top.w
           i == top.i + 1
           s == reading[w][i]
           b == Loop("read", w, i)
           c == FrameOf("parse", s, Null, <<>>, w, 0)
<1>1. stack # <<>> /\ w \in 1 .. 2 /\ i \in Nat \ {0}
  BY AtTop DEF ReadLoop, FrameOK
<1>2. UNCHANGED request /\ ConnOK' /\ SlotsOK' /\ ReqsOK' /\ RestOK'
  BY SameRequests, Keeps DEF ReadLoop, reqs
<1>3. /\ reading \in [1 .. 2 -> Seq(Server)] /\ reading[w] \in Seq(Server) /\ cur \in 1 .. 2
      /\ Len(reading[w]) \in Nat /\ (i <= Len(reading[w]) => s \in Server)
  <2>1. reading \in [1 .. 2 -> Seq(Server)] /\ reading[w] \in Seq(Server) /\ cur \in 1 .. 2
    BY <1>1 DEF TypeInv, RoundsOK
  <2>2. Len(reading[w]) \in Nat
    BY <2>1, LenProperties
  <2> QED BY <1>1, <2>1, <2>2, ElementOfSeq
<1> HIDE DEF s, i
<1>4. b \in Lower(Created) /\ b \in Frames(Created) /\ b.pc = "read"
  BY <1>1, LoopKinds DEF Lower, Loop, FrameOf
<1>5. Callable(<<b>>, Created) /\ Head(<<b>>).pc # "probe" /\ Callable(<<>>, Created)
  BY <1>4, CallableFrames
<1>6. CASE i > Len(reading[w]) \/ readreq[s] = Null
  <2>1. /\ Goto(<<>>) \/ Goto(<<b>>)
        /\ UNCHANGED <<rfds, reading>> /\ in_select' \in {FALSE, in_select}
    BY <1>6 DEF ReadLoop, Return, s, i
  <2>2. RoundsOK'
    BY <2>1 DEF ReadLoop, TypeInv, RoundsOK
  <2> QED BY <1>1, <1>2, <1>5, <2>1, <2>2, PlainStep
<1>7. CASE ~(i > Len(reading[w]) \/ readreq[s] = Null) /\ s \in rfds
  <2>1. s \in Server
    BY <1>1, <1>3, <1>7
  <2>2. c \in Frames(Created) /\ c.pc = "parse"
    BY <1>1, <2>1, FrameKinds DEF Lower, FrameOf
  <2>3. Callable(<<c, b>>, Created) /\ Head(<<c, b>>).pc # "probe"
    BY <1>4, <2>2, CallableFrames
  <2>4. Goto(<<c, b>>) /\ rfds' = rfds \ {s} /\ UNCHANGED <<reading, in_select>>
    BY <1>7 DEF ReadLoop, s, i
  <2>5. RoundsOK'
    BY <2>4 DEF ReadLoop, TypeInv, RoundsOK
  <2> QED BY <1>1, <1>2, <2>3, <2>4, <2>5, PlainStep
<1>8. CASE ~(i > Len(reading[w]) \/ readreq[s] = Null) /\ s \notin rfds
  <2>1. s \in Server
    BY <1>1, <1>3, <1>8
  <2>2. /\ Goto(<<b>>) /\ reading' = [reading EXCEPT ![cur] = Push(@, s)]
        /\ UNCHANGED <<rfds, in_select>>
    BY <1>8 DEF ReadLoop, s, i
  <2>3. Push(reading[cur], s) \in Seq(Server)
    BY <1>3, <2>1, QueueTypes
  <2>4. RoundsOK'
    BY <1>3, <2>2, <2>3 DEF ReadLoop, TypeInv, RoundsOK
  <2> QED BY <1>1, <1>2, <1>5, <2>2, <2>4, PlainStep
<1> QED BY <1>6, <1>7, <1>8

(* The frames a send or a parse step goes on with. *)
LEMMA ServeFrames ==
  ASSUME TypeInv, stack # <<>>, top.pc \in {"xmit", "parse"}
  PROVE  /\ top.s \in Server /\ top.w \in 1 .. 2
         /\ UNCHANGED request => Created' = Created
         /\ Callable(<<>>, Created)
         /\ Callable(<<top>>, Created) /\ Head(<<top>>).pc # "probe"
         /\ \A r \in Created : LET f == <<Frame("retry", top.s, r)>>
                               IN  Callable(f, Created) /\ Head(f).pc # "probe"
         /\ LET f == <<Frame("deactivate", top.s, Null)>>
            IN  Callable(f, Created) /\ Head(f).pc # "probe"
         /\ LET f == <<Frame("deactivate", top.s, Null),
                       FrameOf("unread", top.s, Null, <<>>, top.w, 0)>>
            IN  Callable(f, Created) /\ Head(f).pc # "probe"
         /\ \A r \in Created \cup {Null} :
              LET f == <<Frame("slot", top.s, r), top>>
              IN  Callable(f, Created) /\ Head(f).pc # "probe"
         /\ \A r \in Created \cup {Null} :
              LET f == <<Frame("slot", top.s, r), Frame("unqueue", top.s, Null),
                         Frame("early", top.s, Null), top>>
              IN  Callable(f, Created) /\ Head(f).pc # "probe"
<1> DEFINE s == top.s
           R == Created
           a(r) == Frame("retry", s, r)
           b == Frame("deactivate", s, Null)
           c == FrameOf("unread", s, Null, <<>>, top.w, 0)
           d(r) == Frame("slot", s, r)
           e == Frame("unqueue", s, Null)
           g == Frame("early", s, Null)
<1>1. /\ top \in Frames(R) /\ top \in Lower(R) /\ s \in Server /\ top.w \in 1 .. 2
      /\ top.pc # "probe"
  <2>1. top \in Frames(Created) /\ FrameOK(top, Created)
    BY TopOK
  <2> QED BY <2>1 DEF FrameOK, Lower, LowerPcs, ServerPcs
<1>2. UNCHANGED request => Created' = Created
  BY SameRequests
<1>3. /\ \A r \in R : a(r) \in Frames(R)
      /\ \A r \in R \cup {Null} : d(r) \in Frames(R)
      /\ b \in Frames(R) /\ c \in Lower(R) /\ e \in Lower(R) /\ g \in Lower(R)
  BY <1>1, FrameKinds
<1>4. /\ \A r : a(r).pc = "retry" /\ d(r).pc = "slot"
      /\ b.pc = "deactivate" /\ c.pc = "unread"
  BY DEF Frame, FrameOf
<1> HIDE DEF a, b, c, d, e, g
<1>5. Callable(<<>>, R) /\ Callable(<<top>>, R) /\ Head(<<top>>).pc # "probe"
  BY <1>1, CallableFrames
<1>6. ASSUME NEW r \in R PROVE Callable(<<a(r)>>, R) /\ Head(<<a(r)>>).pc # "probe"
  BY <1>3, <1>4, CallableFrames
<1>7. /\ Callable(<<b>>, R) /\ Head(<<b>>).pc # "probe"
      /\ Callable(<<b, c>>, R) /\ Head(<<b, c>>).pc # "probe"
  BY <1>3, <1>4, CallableFrames
<1>8. ASSUME NEW r \in R \cup {Null}
      PROVE  /\ Callable(<<d(r), top>>, R) /\ Head(<<d(r), top>>).pc # "probe"
             /\ Callable(<<d(r), e, g, top>>, R) /\ Head(<<d(r), e, g, top>>).pc # "probe"
  BY <1>1, <1>3, <1>4, CallableFrames
<1> QED BY <1>1, <1>2, <1>5, <1>6, <1>7, <1>8 DEF a, b, c, d, e, g

LEMMA SendDoneTypes ==
  ASSUME TypeInv, UNCHANGED config, SendDone
  PROVE  TypeInv'
<1> DEFINE s == top.s
           r == sendreq[s]
           next == Popped(sendqueue[s], Null)
           f == <<Frame("slot", s, next), top>>
<1>1. stack # <<>> /\ top.pc \in {"xmit", "parse"}
  BY DEF SendDone, Sending, At, top
<1>2. s \in Server /\ UNCHANGED request /\ Created' = Created /\ r \in Created
  <2>1. s \in Server /\ UNCHANGED request /\ Created' = Created
    BY <1>1, ServeFrames DEF SendDone, reqs
  <2> QED BY <2>1 DEF SendDone, Sending, TypeInv, SlotsOK
<1>3. RoundsOK' /\ ReqsOK' /\ RestOK'
  BY <1>2, Keeps DEF SendDone
<1>4. /\ wire[s] \in Seq(Created) /\ sendqueue[s] \in Seq(Created)
      /\ Append(wire[s], r) \in Seq(Created) /\ Rest(sendqueue[s]) \in Seq(Created)
      /\ next \in Created \cup {Null}
  <2>1. wire[s] \in Seq(Created) /\ sendqueue[s] \in Seq(Created)
    BY <1>2 DEF TypeInv, ConnOK, SlotsOK
  <2> QED BY <1>2, <2>1, AppendSet, QueueTypes
<1>5. ConnOK'
  BY <1>2, <1>4 DEF SendDone, TypeInv, ConnOK
<1>6. SlotsOK'
  BY <1>2, <1>4 DEF SendDone, TypeInv, SlotsOK
<1> HIDE DEF next
<1>7. Callable(f, Created) /\ Head(f).pc # "probe"
  BY <1>1, <1>4, ServeFrames
<1>8. Proceed(f)
  BY DEF SendDone, next
<1> HIDE DEF f
<1> QED BY <1>1, <1>2, <1>3, <1>5, <1>6, <1>7, <1>8, ProceedStep

LEMMA SendMoreTypes ==
  ASSUME TypeInv, UNCHANGED config, SendMore
  PROVE  TypeInv'
<1>1. stack # <<>> /\ top.pc \in {"xmit", "parse"}
  BY DEF SendMore, Sending, At, top
<1>2. /\ top.s \in Server /\ UNCHANGED request /\ Created' = Created /\ Callable(<<>>, Created)
  BY <1>1, ServeFrames DEF SendMore, reqs
<1>3. SlotsOK' /\ ReqsOK'
  BY <1>2, Keeps DEF SendMore
<1>4. RestOK'
  BY RestTypes DEF SendMore, Fault, TypeInv, RestOK
<1>5. ConnOK'
  BY <1>2 DEF SendMore, TypeInv, ConnOK
<1>6. RoundsOK'
  <2>1. sending \in [1 .. 2 -> Seq(Server)] /\ cur \in 1 .. 2
    BY DEF TypeInv, RoundsOK
  <2>2. Push(sending[cur], top.s) \in Seq(Server)
    BY <1>2, <2>1, QueueTypes
  <2> QED BY <2>1, <2>2 DEF SendMore, TypeInv, RoundsOK
<1> QED BY <1>1, <1>2, <1>3, <1>4, <1>5, <1>6, ProceedStep DEF SendMore

LEMMA SendErrorTypes ==
  ASSUME TypeInv, UNCHANGED config, SendError
  PROVE  TypeInv'
<1> DEFINE s == top.s
           r == sendreq[s]
           f == <<Frame("retry", s, r)>>
           g == <<Frame("deactivate", s, Null), FrameOf("unread", s, Null, <<>>, top.w, 0)>>
<1>1. stack # <<>> /\ top.pc \in {"xmit", "parse"}
  BY DEF SendError, Sending, At, top
<1>2. s \in Server /\ UNCHANGED request /\ Created' = Created /\ r \in Created
  <2>1. s \in Server /\ UNCHANGED request /\ Created' = Created
    BY <1>1, ServeFrames DEF SendError, reqs
  <2> QED BY <2>1 DEF SendError, Sending, TypeInv, SlotsOK
<1>3. SlotsOK' /\ RoundsOK' /\ ReqsOK' /\ RestOK'
  BY <1>2, Keeps DEF SendError
<1>4. ConnOK'
  BY <1>2 DEF SendError, ServerFailure, TypeInv, ConnOK
<1>5. /\ Callable(f, Created) /\ Head(f).pc # "probe"
      /\ Callable(g, Created) /\ Head(g).pc # "probe"
  BY <1>1, <1>2, ServeFrames
<1>6. Proceed(f) \/ Proceed(g)
  BY DEF SendError
<1> HIDE DEF f, g
<1> QED BY <1>1, <1>2, <1>3, <1>4, <1>5, <1>6, ProceedStep

LEMMA UnreadTypes ==
  ASSUME TypeInv, UNCHANGED config, Unread
  PROVE  TypeInv'
<1>1. stack # <<>> /\ top.w \in 1 .. 2
  BY AtTop DEF Unread, FrameOK
<1>2. UNCHANGED request /\ ConnOK' /\ SlotsOK' /\ ReqsOK' /\ RestOK'
  BY SameRequests, Keeps DEF Unread, reqs
<1>3. RoundsOK'
  <2>1. reading \in [1 .. 2 -> Seq(Server)]
    BY DEF TypeInv, RoundsOK
  <2>2. Without(reading[top.w], top.s) \in Seq(Server)
    BY <1>1, <2>1, QueueTypes
  <2> QED BY <2>1, <2>2 DEF Unread, TypeInv, RoundsOK
<1> QED BY <1>1, <1>2, <1>3, CallableFrames, PlainStep DEF Unread, Return

LEMMA ParseDoneTypes ==
  ASSUME TypeInv, UNCHANGED config, ParseDone
  PROVE  TypeInv'
<1> DEFINE s == top.s
           r == readreq[s]
           next == Popped(readqueue[s], Null)
<1>1. stack # <<>> /\ top.pc \in {"xmit", "parse"}
  BY DEF ParseDone, Parsing, At, top
<1>2. s \in Server /\ UNCHANGED request /\ Created' = Created /\ r \in Created
  <2>1. s \in Server /\ UNCHANGED request /\ Created' = Created
    BY <1>1, ServeFrames DEF ParseDone
  <2> QED BY <2>1 DEF ParseDone, Parsing, TypeInv, SlotsOK
<1>3. RoundsOK' /\ RestOK'
  BY <1>2, Keeps DEF ParseDone
<1>4. /\ Tail(wire[s]) \in Seq(Created) /\ Rest(readqueue[s]) \in Seq(Created)
      /\ next \in Created \cup {Null}
  <2>1. wire[s] \in Seq(Created) /\ readqueue[s] \in Seq(Created) /\ wire[s] # <<>>
    BY <1>2 DEF ParseDone, TypeInv, ConnOK, SlotsOK
  <2> QED BY <2>1, FirstElement, QueueTypes
<1>5. ConnOK'
  BY <1>2, <1>4 DEF ParseDone, TypeInv, ConnOK
<1>6. SlotsOK'
  BY <1>2, <1>4 DEF ParseDone, TypeInv, SlotsOK
<1>7. ReqsOK'
  <2>1. CASE Release(r)
    BY <1>2, <2>1, ReleaseTypes
  <2>2. CASE UNCHANGED free_requests
    BY <1>2, <2>2, Keeps DEF reqs
  <2> QED BY <2>1, <2>2 DEF ParseDone
<1>8. Callable(<<top>>, Created) /\ Head(<<top>>).pc # "probe" /\ Proceed(<<top>>)
  BY <1>1, ServeFrames DEF ParseDone
<1> QED BY <1>1, <1>2, <1>3, <1>5, <1>6, <1>7, <1>8, ProceedStep

LEMMA ParseEarlyTypes ==
  ASSUME TypeInv, UNCHANGED config, ParseEarly
  PROVE  TypeInv'
<1> DEFINE s == top.s
           next == Popped(sendqueue[s], Null)
           f == <<Frame("slot", s, next), Frame("unqueue", s, Null), Frame("early", s, Null), top>>
<1>1. stack # <<>> /\ top.pc \in {"xmit", "parse"}
  BY DEF ParseEarly, Parsing, At, top
<1>2. s \in Server /\ UNCHANGED request /\ Created' = Created
  BY <1>1, ServeFrames DEF ParseEarly, reqs
<1>3. RoundsOK' /\ ReqsOK' /\ RestOK'
  BY <1>2, Keeps DEF ParseEarly
<1>4. /\ Tail(wire[s]) \in Seq(Created) /\ Rest(sendqueue[s]) \in Seq(Created)
      /\ next \in Created \cup {Null} /\ <<>> \in Seq(Created)
  <2>1. wire[s] \in Seq(Created) /\ sendqueue[s] \in Seq(Created) /\ wire[s] # <<>>
    BY <1>2 DEF ParseEarly, TypeInv, ConnOK, SlotsOK
  <2> QED BY <2>1, FirstElement, QueueTypes
<1>5. ConnOK'
  <2>1. CASE in_select
    <3>1. /\ status' = [status EXCEPT ![s] = "disconnected"]
          /\ link' = [link EXCEPT ![s] = "none"]
          /\ wire' = [wire EXCEPT ![s] = <<>>]
          /\ partly' = [partly EXCEPT ![s] = "no"]
      BY <2>1 DEF ParseEarly, Hangup
    <3>2. ConnOK
      BY DEF TypeInv
    <3> QED BY <1>2, <1>4, <3>1, <3>2 DEF ConnOK
  <2>2. CASE ~in_select
    BY <1>2, <1>4, <2>2 DEF ParseEarly, TypeInv, ConnOK
  <2> QED BY <2>1, <2>2
<1>6. SlotsOK'
  BY <1>2, <1>4 DEF ParseEarly, TypeInv, SlotsOK
<1> HIDE DEF next
<1>7. Callable(f, Created) /\ Head(f).pc # "probe"
  BY <1>1, <1>4, ServeFrames
<1>8. Proceed(f)
  BY DEF ParseEarly, next
<1> HIDE DEF f
<1> QED BY <1>1, <1>2, <1>3, <1>5, <1>6, <1>7, <1>8, ProceedStep

LEMMA EarlyDoneTypes ==
  ASSUME TypeInv, UNCHANGED config, EarlyDone
  PROVE  TypeInv'
<1> DEFINE s == top.s
           next == Popped(readqueue[s], Null)
<1>1. stack # <<>> /\ s \in Server
  BY AtTop DEF EarlyDone, FrameOK, ServerPcs
<1>2. UNCHANGED request /\ Created' = Created
  BY SameRequests DEF EarlyDone
<1>3. ConnOK' /\ RoundsOK' /\ RestOK'
  BY <1>2, Keeps DEF EarlyDone
<1>4. Rest(readqueue[s]) \in Seq(Created) /\ next \in Created \cup {Null}
  <2>1. readqueue[s] \in Seq(Created)
    BY <1>1 DEF TypeInv, SlotsOK
  <2> QED BY <2>1, QueueTypes
<1>5. SlotsOK'
  BY <1>1, <1>2, <1>4 DEF EarlyDone, TypeInv, SlotsOK
<1>6. ReqsOK'
  <2>1. readreq[s] \in Created \cup {Null}
    BY <1>1 DEF TypeInv, SlotsOK
  <2> QED BY <1>2, <2>1, ReleaseTypes DEF EarlyDone
<1> QED BY <1>1, <1>2, <1>3, <1>5, <1>6, CallableFrames, PlainStep DEF EarlyDone, Return

LEMMA ParseValueTypes ==
  ASSUME TypeInv, UNCHANGED config, ParseValue
  PROVE  TypeInv'
<1>1. stack # <<>> /\ top.pc \in {"xmit", "parse"}
  BY DEF ParseValue, Parsing, At, top
<1>2. UNCHANGED request /\ Created' = Created /\ Callable(<<top>>, Created) /\ Head(<<top>>).pc # "probe"
  BY <1>1, ServeFrames DEF ParseValue, reqs
<1>3. ConnOK' /\ SlotsOK' /\ RoundsOK' /\ ReqsOK'
  BY <1>2, Keeps DEF ParseValue
<1>4. RestOK'
  <2>1. PICK k : want' = Without(want, k)
    BY DEF ParseValue
  <2>2. want' \in Seq(Key)
    BY <2>1, QueueTypes DEF TypeInv, RestOK
  <2> QED BY <2>2 DEF ParseValue, budget, TypeInv, RestOK, MaxFaults, MaxCalls
<1> QED BY <1>1, <1>2, <1>3, <1>4, ProceedStep DEF ParseValue

LEMMA ParseFailureTypes ==
  ASSUME TypeInv, UNCHANGED config, ParseError \/ ParseEof
  PROVE  TypeInv'
<1> DEFINE s == top.s
           r == readreq[s]
           f == <<Frame("retry", s, r)>>
           g == <<Frame("deactivate", s, Null)>>
<1>1. stack # <<>> /\ top.pc \in {"xmit", "parse"}
  BY DEF ParseError, ParseEof, Parsing, At, top
<1>2. s \in Server /\ UNCHANGED request /\ Created' = Created /\ r \in Created
  <2>1. s \in Server /\ UNCHANGED request /\ Created' = Created
    BY <1>1, ServeFrames DEF ParseError, ParseEof, reqs
  <2> QED BY <2>1 DEF ParseError, ParseEof, Parsing, TypeInv, SlotsOK
<1>3. SlotsOK' /\ RoundsOK' /\ ReqsOK'
  BY <1>2, Keeps DEF ParseError, ParseEof
<1>4. RestOK'
  <2>1. CASE ParseError
    BY <2>1, RestTypes DEF ParseError, Fault, TypeInv, RestOK
  <2>2. CASE ParseEof
    BY <1>2, <2>2, Keeps DEF ParseEof
  <2> QED BY <2>1, <2>2
<1>5. ConnOK'
  <2>1. CASE ParseError
    <3>1. wire[s] \in Seq(Created) /\ wire[s] # <<>>
      BY <1>2, <2>1 DEF ParseError, TypeInv, ConnOK
    <3>2. Tail(wire[s]) \in Seq(Created)
      BY <3>1, FirstElement
    <3> QED BY <1>2, <2>1, <3>2 DEF ParseError, ServerFailure, TypeInv, ConnOK
  <2>2. CASE ParseEof
    BY <1>2, <2>2 DEF ParseEof, ServerFailure, TypeInv, ConnOK
  <2> QED BY <2>1, <2>2
<1>6. /\ Callable(f, Created) /\ Head(f).pc # "probe"
      /\ Callable(g, Created) /\ Head(g).pc # "probe"
  BY <1>1, <1>2, ServeFrames
<1>7. Proceed(f) \/ Proceed(g)
  BY DEF ParseError, ParseEof
<1> HIDE DEF f, g
<1> QED BY <1>1, <1>2, <1>3, <1>4, <1>5, <1>6, <1>7, ProceedStep

LEMMA ParseMoreTypes ==
  ASSUME TypeInv, UNCHANGED config, ParseMore
  PROVE  TypeInv'
<1>1. stack # <<>> /\ top.pc \in {"xmit", "parse"}
  BY DEF ParseMore, Parsing, At, top
<1>2. /\ top.s \in Server /\ UNCHANGED request /\ Created' = Created /\ Callable(<<>>, Created)
  BY <1>1, ServeFrames DEF ParseMore, reqs
<1>3. ConnOK' /\ SlotsOK' /\ ReqsOK'
  BY <1>2, Keeps DEF ParseMore
<1>4. RestOK'
  BY RestTypes DEF ParseMore, Fault, TypeInv, RestOK
<1>5. RoundsOK'
  <2>1. reading \in [1 .. 2 -> Seq(Server)] /\ cur \in 1 .. 2
    BY DEF TypeInv, RoundsOK
  <2>2. Push(reading[cur], top.s) \in Seq(Server)
    BY <1>2, <2>1, QueueTypes
  <2> QED BY <2>1, <2>2 DEF ParseMore, TypeInv, RoundsOK
<1> QED BY <1>1, <1>2, <1>3, <1>4, <1>5, ProceedStep DEF ParseMore

----------------------------------------------------------------------------
(* The calls. *)

LEMMA RunPendingTypes ==
  ASSUME TypeInv, UNCHANGED config, RunPending
  PROVE  TypeInv'
<1> DEFINE s == Head(pending)
           a == Frame("schedule", s, buildreq[s])
           b == Frame("built", s, Null)
<1>1. stack # <<>> /\ top \in Frames(Created) /\ top.pc = "run"
  BY AtTop DEF RunPending
<1>2. pending \in Seq(Server) /\ s \in Server /\ Tail(pending) \in Seq(Server)
  BY FirstElement DEF RunPending, TypeInv, RoundsOK
<1>3. buildreq[s] \in Created
  BY <1>2 DEF RunPending, TypeInv, SlotsOK
<1>4. UNCHANGED request /\ ConnOK' /\ SlotsOK' /\ ReqsOK' /\ RestOK'
  BY SameRequests, Keeps DEF RunPending, reqs
<1>5. RoundsOK'
  BY <1>2 DEF RunPending, TypeInv, RoundsOK
<1>6. Goto(<<a, b, top>>)
  BY DEF RunPending
<1> HIDE DEF s
<1>7. a \in Frames(Created) /\ b \in Lower(Created) /\ top \in Lower(Created) /\ a.pc = "schedule"
  <2>1. top \in Lower(Created)
    BY <1>1 DEF Lower, LowerPcs
  <2>2. a \in Frames(Created) /\ b \in Lower(Created)
    BY <1>2, <1>3, FrameKinds
  <2> QED BY <2>1, <2>2 DEF Frame, FrameOf
<1>8. Callable(<<a, b, top>>, Created) /\ Head(<<a, b, top>>).pc # "probe"
  BY <1>1, <1>7, CallableFrames
<1> QED BY <1>1, <1>4, <1>5, <1>6, <1>8, PlainStep

LEMMA BuiltTypes ==
  ASSUME TypeInv, UNCHANGED config, Built
  PROVE  TypeInv'
<1>1. stack # <<>>
  BY DEF Built, At
<1>2. UNCHANGED request /\ Created' = Created /\ ConnOK' /\ RoundsOK' /\ ReqsOK' /\ RestOK'
  BY SameRequests, Keeps DEF Built, reqs
<1>3. SlotsOK'
  BY <1>2 DEF Built, TypeInv, SlotsOK
<1> QED BY <1>1, <1>2, <1>3, CallableFrames, PlainStep DEF Built, Return

(* A step that creates a request, or resets one that was free. *)
LEMMA NewRequestType ==
  ASSUME TypeInv
  PROVE  /\ NewRequest \in 1 .. Len(request) + 1
         /\ Len(request) \in Nat
<1>1. Len(request) \in Nat /\ free_requests \in Seq(Created \cup {Null})
  BY LenProperties DEF TypeInv, ReqsOK
<1>2. CASE Popped(free_requests, Null) = Null
  BY <1>1, <1>2 DEF NewRequest
<1>3. CASE Popped(free_requests, Null) # Null
  <2>1. free_requests # <<>>
    BY <1>3 DEF Popped
  <2>2. Head(free_requests) \in Created \cup {Null}
    BY <1>1, <2>1, FirstElement
  <2> QED BY <1>1, <1>3, <2>1, <2>2 DEF NewRequest, Popped, Created, Null
<1> QED BY <1>2, <1>3

LEMMA AllocTypes ==
  ASSUME TypeInv, NEW kind \in {"key", "multi", "null", "blank"}, NEW keys \in Seq(Key),
         NEW failed \in SUBSET Server, NEW index \in Nat, kind = "key" => keys # <<>>,
         Alloc(NewRequest, kind, keys, failed, index)
  PROVE  Created \subseteq Created' /\ NewRequest \in Created' /\ ReqsOK'
<1> DEFINE r == NewRequest
           n == [kind |-> kind, keys |-> keys, failed |-> failed, index |-> index, io |-> OldIo(r)]
<1>1. r \in 1 .. Len(request) + 1 /\ Len(request) \in Nat
  BY NewRequestType
<1>2. request \in Seq(Request) /\ DOMAIN request = Created
  BY LenProperties DEF TypeInv, ReqsOK, Created
<1>3. OldIo(r) \in Server \cup {NoServer}
  <2>1. CASE r \in Created
    <3>1. request[r] \in Request
      BY <1>2, <2>1, ElementOfSeq DEF Created
    <3> QED BY <1>2, <2>1, <3>1 DEF OldIo, Request
  <2>2. CASE r \notin Created
    BY <1>2, <2>2 DEF OldIo
  <2> QED BY <2>1, <2>2
<1>4. n \in Request /\ n.kind = kind /\ n.keys = keys
  BY <1>3 DEF Request
<1>5. request' = Put(r, n)
  BY DEF Alloc
<1> HIDE DEF n, r
<1>6. /\ request' \in Seq(Request) /\ Len(request') \in {Len(request), Len(request) + 1}
      /\ r \in 1 .. Len(request')
      /\ \A x \in 1 .. Len(request') : IF x = r THEN request'[x] = n
                                       ELSE x \in 1 .. Len(request) /\ request'[x] = request[x]
  <2>1. CASE r \in Created
    <3>1. request' = [request EXCEPT ![r] = n] /\ r \in 1 .. Len(request)
      BY <1>2, <1>5, <2>1 DEF Put, Created
    <3>2. /\ request' \in Seq(Request) /\ Len(request') = Len(request)
          /\ \A x \in 1 .. Len(request) : request'[x] = IF x = r THEN n ELSE request[x]
      BY <1>2, <1>4, <3>1, ExceptSeq
    <3> QED BY <3>1, <3>2
  <2>2. CASE r \notin Created
    <3>1. request' = Append(request, n) /\ r = Len(request) + 1
      <4>1. r = Len(request) + 1
        BY <1>1, <2>2 DEF Created
      <4>2. r \notin DOMAIN request
        BY <1>2, <2>2
      <4> QED BY <1>5, <4>1, <4>2 DEF Put
    <3>2. /\ request' \in Seq(Request) /\ Len(request') = Len(request) + 1
          /\ \A x \in 1 .. Len(request) : request'[x] = request[x]
          /\ request'[Len(request) + 1] = n
      BY <1>2, <1>4, <3>1, AppendProperties
    <3> QED BY <1>1, <3>1, <3>2
  <2> QED BY <2>1, <2>2
<1>7. Created \subseteq Created' /\ r \in Created'
  BY <1>1, <1>6 DEF Created
<1>8. free_requests' \in Seq(Created' \cup {Null})
  <2>1. Rest(free_requests) \in Seq(Created \cup {Null})
    BY QueueTypes DEF TypeInv, ReqsOK
  <2>2. Seq(Created \cup {Null}) \subseteq Seq(Created' \cup {Null})
    BY <1>7, SeqMonotonic
  <2> QED BY <2>1, <2>2 DEF Alloc
<1>9. \A x \in Created' : request'[x].kind = "key" => request'[x].keys # <<>>
  BY <1>4, <1>6 DEF Created, TypeInv, ReqsOK
<1> QED BY <1>6, <1>7, <1>8, <1>9 DEF ReqsOK, r

(* A step that may create a request. *)
LEMMA AllocStep ==
  ASSUME TypeInv, stack # <<>>, NEW R, R = Created', Created \subseteq R,
         NEW f, Callable(f, R), Goto(f), f = <<>> \/ Head(f).pc # "probe",
         ConnOK', SlotsOK', RoundsOK', ReqsOK', RestOK'
  PROVE  TypeInv'
<1>1. StackOK' /\ ProbeOK'
  BY StackStep DEF TypeInv
<1> QED BY <1>1 DEF TypeInv

LEMMA StoreTypes ==
  ASSUME TypeInv, UNCHANGED config, Store
  PROVE  TypeInv'
<1> DEFINE k == Head(top.q)
           r == NewRequest
           s == Find(k)
           R == Created'
           a == Frame("schedule", s, r)
           b == CloneOf(s, r, <<>>, 0, 0, k, FALSE)
           c == FrameOf("stored", NoServer, Null, Tail(top.q), top.w, top.i)
           d == Frame("run", NoServer, Null)
<1>1. stack # <<>> /\ top.q \in Seq(Key) /\ top.i \in Nat /\ top.w \in Nat
  BY AtTop DEF Store, FrameOK, Frames
<1>2. CASE top.q = <<>>
  <2>1. Goto(<<d>>) /\ UNCHANGED reqs
    BY <1>2 DEF Store
  <2>2. UNCHANGED request /\ ConnOK' /\ SlotsOK' /\ RoundsOK' /\ ReqsOK' /\ RestOK'
    BY <2>1, SameRequests, Keeps DEF Store, reqs
  <2>3. d \in Frames(Created) /\ d.pc = "run"
    BY LoopKinds DEF Frame, FrameOf, Lower
  <2>4. Callable(<<d>>, Created) /\ Head(<<d>>).pc # "probe"
    BY <2>3, CallableFrames
  <2> QED BY <1>1, <2>1, <2>2, <2>4, PlainStep
<1>3. CASE top.q # <<>>
  <2>1. k \in Key /\ Tail(top.q) \in Seq(Key) /\ s \in Server
    <3>1. k \in Key /\ Tail(top.q) \in Seq(Key)
      BY <1>1, <1>3, FirstElement
    <3> HIDE DEF k
    <3> QED BY <3>1, FindType DEF TypeInv
  <2>2. /\ Alloc(r, "key", <<k>>, {}, 0)
        /\ Goto((IF top.i > 1 THEN <<a, b>> ELSE <<a>>) \o <<c>>)
    BY <1>3 DEF Store
  <2>3. Created \subseteq Created' /\ r \in Created' /\ ReqsOK'
    <3>1. <<k>> \in Seq(Key) /\ <<k>> # <<>> /\ {} \in SUBSET Server /\ 0 \in Nat
      BY <2>1
    <3> HIDE DEF k
    <3> QED BY <2>2, <3>1, AllocTypes
  <2>4. ConnOK' /\ SlotsOK' /\ RoundsOK' /\ RestOK'
    BY <2>3, Keeps DEF Store
  <2> HIDE DEF s, k, r, R
  <2>5. a \in Frames(R) /\ a.pc = "schedule"
    BY <2>1, <2>3, FrameKinds DEF R, Frame, FrameOf
  <2>6. b \in Lower(R)
    <3>1. MaxAttempts \in Nat /\ 0 \in Nat /\ 0 <= MaxAttempts + 0 /\ <<>> \in Seq(Server) /\ FALSE \in BOOLEAN
      BY ServerAssumption
    <3> QED BY <2>1, <2>3, <3>1, CloneKinds DEF R
  <2>7. c \in Lower(R) /\ c.pc = "stored"
    BY <1>1, <2>1, LoopKinds DEF FrameOf
  <2>8. b \in Lower(R) /\ b.pc = "clone"
    BY <2>6 DEF CloneOf
  <2> HIDE DEF a, b, c
  <2>9. /\ Callable(<<a, b, c>>, R) /\ Head(<<a, b, c>>).pc # "probe"
        /\ Callable(<<a, c>>, R) /\ Head(<<a, c>>).pc # "probe"
    BY <2>5, <2>7, <2>8, CallableFrames
  <2>10. Goto(<<a, b, c>>) \/ Goto(<<a, c>>)
    <3>1. <<a, b>> \o <<c>> = <<a, b, c>>
      BY ThreeFrames
    <3>2. <<a>> \o <<c>> = <<a, c>>
      BY FramesJoined
    <3> QED BY <2>2, <3>1, <3>2
  <2> QED BY <1>1, <2>3, <2>4, <2>9, <2>10, AllocStep DEF R, r
<1> QED BY <1>2, <1>3

LEMMA CloneTypes ==
  ASSUME TypeInv, UNCHANGED config, CloneKey
  PROVE  TypeInv'
<1> DEFINE r == top.r
           ok == IF top.i = 0 THEN rv ELSE top.ok
           skip == Append(top.q, top.s)
           j == LastProbe(top.k, top.w, Server \ ToSet(skip))
           s == HashNext[top.k][j]
           clone == NewRequest
           kind == CloneKind(clone, r)
           R == Created'
           a == Frame("schedule", s, clone)
           b == CloneOf(s, r, skip, j + 1, top.i + 1, top.k, ok)
<1>1. /\ stack # <<>> /\ top.s \in Server /\ r \in Created /\ top.q \in Seq(Server)
      /\ top.k \in Key /\ top.i \in Nat /\ top.w \in Nat /\ top.w <= MaxAttempts + top.i
      /\ top.ok \in BOOLEAN
  BY AtTop DEF CloneKey, FrameOK, RequestPcs, ServerPcs
<1>2. ConnOK' /\ SlotsOK' /\ RoundsOK'
  <2>1. CASE UNCHANGED reqs
    BY <2>1, SameRequests, Keeps DEF CloneKey, reqs
  <2>2. CASE ~UNCHANGED reqs
    <3>1. Created \subseteq Created'
      <4>1. Alloc(clone, kind, request[r].keys, {}, 0)
        BY <2>2 DEF CloneKey
      <4>2. request[r] \in Request
        BY <1>1, ElementOfSeq DEF TypeInv, ReqsOK, Created
      <4>3. /\ kind \in {"key", "multi", "null", "blank"} /\ request[r].keys \in Seq(Key)
            /\ {} \in SUBSET Server /\ 0 \in Nat /\ kind # "key"
        BY <4>2 DEF CloneKind, Request
      <4> HIDE DEF kind
      <4> QED BY <4>1, <4>3, AllocTypes
    <3> QED BY <3>1, Keeps DEF CloneKey
  <2> QED BY <2>1, <2>2
<1>3. CASE top.i + 1 >= Redundancy \/ top.i + 1 >= NumServers
  <2>1. Return /\ rv' = ok /\ UNCHANGED reqs
    BY <1>3 DEF CloneKey
  <2>2. UNCHANGED request /\ ReqsOK'
    BY <2>1, SameRequests, Keeps DEF reqs
  <2>3. ok \in BOOLEAN
    BY <1>1 DEF TypeInv, RestOK
  <2>4. RestOK'
    BY <2>1, <2>3 DEF CloneKey, TypeInv, RestOK, budget, MaxFaults, MaxCalls
  <2> QED BY <1>1, <1>2, <2>1, <2>2, <2>4, CallableFrames, PlainStep DEF Return
<1>4. CASE ~(top.i + 1 >= Redundancy \/ top.i + 1 >= NumServers)
  <2>1. config \in Configs /\ MaxAttempts \in Nat /\ Redundancy \in Nat
    BY ConfigType DEF TypeInv, RestOK
  <2>2. skip \in Seq(Server)
    BY <1>1, AppendSet
  <2>3. j \in Nat /\ j <= MaxAttempts + top.i /\ s \in Server
    <3> DEFINE n == top.w
               free == Server \ ToSet(skip)
               k == top.k
    <3>1. n \in Nat /\ n <= MaxAttempts + Redundancy /\ free \in SUBSET Server /\ k \in Key
      BY <1>1, <1>4, <2>1
    <3>2. j = LastProbe(k, n, free) /\ s = HashNext[k][LastProbe(k, n, free)]
      OBVIOUS
    <3> HIDE DEF n, free, k, j, s
    <3>3. /\ LastProbe(k, n, free) \in n .. n + MaxAttempts
          /\ LastProbe(k, n, free) < MaxAttempts \/ LastProbe(k, n, free) = n
          /\ HashNext[k][LastProbe(k, n, free)] \in Server
      BY <2>1, <3>1, ProbeType
    <3>4. n <= MaxAttempts + top.i
      BY <1>1 DEF n
    <3> QED BY <1>1, <2>1, <3>1, <3>2, <3>3, <3>4
  <2>4. ok \in BOOLEAN
    BY <1>1 DEF TypeInv, RestOK
  <2>5. CASE Valid(s)
    <3>1. Alloc(clone, kind, request[r].keys, {}, 0) /\ Goto(<<a, b>>) /\ UNCHANGED rv
      BY <1>4, <2>5 DEF CloneKey
    <3>2. Created \subseteq Created' /\ clone \in Created' /\ ReqsOK'
      <4>1. request[r] \in Request
        BY <1>1, ElementOfSeq DEF TypeInv, ReqsOK, Created
      <4>2. /\ kind \in {"key", "multi", "null", "blank"} /\ request[r].keys \in Seq(Key)
            /\ {} \in SUBSET Server /\ 0 \in Nat /\ kind # "key"
        BY <4>1 DEF CloneKind, Request
      <4> HIDE DEF kind
      <4> QED BY <3>1, <4>2, AllocTypes
    <3>3. RestOK'
      BY <3>1 DEF CloneKey, TypeInv, RestOK, budget, MaxFaults, MaxCalls
    <3> HIDE DEF j, s, skip, clone, ok, R
    <3>4. a \in Frames(R) /\ a.pc = "schedule"
      BY <2>3, <3>2, FrameKinds DEF R, Frame, FrameOf
    <3>5. b \in Lower(R) /\ b.pc = "clone"
      <4> DEFINE w == j + 1
                 i == top.i + 1
                 k == top.k
      <4>1. w \in Nat /\ i \in Nat /\ w <= MaxAttempts + i /\ r \in R /\ k \in Key
        BY <1>1, <2>1, <2>3, <3>2 DEF R
      <4> HIDE DEF w, i, k
      <4>2. CloneOf(s, r, skip, w, i, k, ok) \in Lower(R)
        BY <2>2, <2>3, <2>4, <4>1, CloneKinds
      <4> QED BY <4>2 DEF CloneOf, w, i, k
    <3> HIDE DEF a, b
    <3>6. Callable(<<a, b>>, R) /\ Head(<<a, b>>).pc # "probe"
      BY <3>4, <3>5, CallableFrames
    <3> QED BY <1>1, <1>2, <3>1, <3>2, <3>3, <3>6, AllocStep DEF R
  <2>6. CASE ~Valid(s)
    <3>1. Goto(<<b>>) /\ UNCHANGED reqs /\ UNCHANGED rv
      BY <1>4, <2>6 DEF CloneKey
    <3>2. UNCHANGED request /\ ReqsOK' /\ RestOK'
      BY <3>1, SameRequests, Keeps DEF reqs, CloneKey
    <3> HIDE DEF j, s, skip, clone, ok, R
    <3>3. b \in Frames(Created) /\ b.pc = "clone"
      <4> DEFINE w == j + 1
                 i == top.i + 1
                 k == top.k
      <4>1. w \in Nat /\ i \in Nat /\ w <= MaxAttempts + i /\ k \in Key
        BY <1>1, <2>1, <2>3
      <4> HIDE DEF w, i, k
      <4>2. CloneOf(s, r, skip, w, i, k, ok) \in Lower(Created)
        BY <1>1, <2>2, <2>3, <2>4, <4>1, CloneKinds
      <4> QED BY <4>2 DEF CloneOf, Lower, w, i, k
    <3> HIDE DEF b
    <3>4. Callable(<<b>>, Created) /\ Head(<<b>>).pc # "probe"
      BY <3>3, CallableFrames
    <3> QED BY <1>1, <1>2, <3>1, <3>2, <3>4, PlainStep
  <2> QED BY <2>5, <2>6
<1> QED BY <1>3, <1>4

LEMMA AllocGetTypes ==
  ASSUME TypeInv, NEW k \in Key, NEW r \in Created \cup {Null}, AllocGet(NewRequest, k, r)
  PROVE  Created \subseteq Created' /\ NewRequest \in Created' /\ ReqsOK'
<1>1. <<k>> \in Seq(Key) /\ {} \in SUBSET Server /\ 0 \in Nat
  OBVIOUS
<1>2. CASE r \in {Null, NewRequest}
  BY <1>1, <1>2, AllocTypes DEF AllocGet
<1>3. CASE r \notin {Null, NewRequest}
  <2>1. request[r] \in Request
    BY <1>3, ElementOfSeq DEF TypeInv, ReqsOK, Created
  <2>2. request[r].failed \in SUBSET Server /\ request[r].index \in Nat
    BY <2>1 DEF Request
  <2> QED BY <1>1, <1>3, <2>2, AllocTypes DEF AllocGet
<1> QED BY <1>2, <1>3

LEMMA KeyAdded ==
  ASSUME NEW q \in Request, NEW k \in Key
  PROVE  /\ WithKey(q, k) \in Request
         /\ WithKey(q, k).keys # <<>> /\ WithKey(q, k).kind = q.kind
<1> DEFINE z == Append(q.keys, k)
<1>1. z \in Seq(Key) /\ z # <<>>
  <2>1. q.keys \in Seq(Key)
    BY DEF Request
  <2> QED BY <2>1, AppendProperties
<1>2. WithKey(q, k) = [q EXCEPT !.keys = z]
  BY DEF WithKey
<1> HIDE DEF z
<1> QED BY <1>1, <1>2 DEF Request

LEMMA GetTypes ==
  ASSUME TypeInv, UNCHANGED config, Get
  PROVE  TypeInv'
<1> DEFINE r == top.r
           k == Head(top.q)
           s == Find(k)
           new == NewRequest
           n == buildreq[s]
           R == Created'
           a == Each("get", r, Tail(top.q))
           q == request[n]
           m == WithKey(q, k)
<1>1. /\ stack # <<>> /\ top.q \in Seq(Key) /\ top.q # <<>> /\ r \in Created \cup {Null}
  BY AtTop DEF Get, FrameOK
<1>2. k \in Key /\ Tail(top.q) \in Seq(Key) /\ s \in Server
  <2>1. k \in Key /\ Tail(top.q) \in Seq(Key)
    BY <1>1, FirstElement
  <2> HIDE DEF k
  <2> QED BY <2>1, FindType DEF TypeInv
<1>3. Goto(<<a>>) /\ UNCHANGED <<rv, want, budget>> /\ UNCHANGED conn
  BY DEF Get
<1>4. /\ Created \subseteq Created' /\ SlotsOK' /\ RoundsOK' /\ ReqsOK'
  <2>1. CASE UNCHANGED <<buildreq, pending, reqs>>
    <3>1. UNCHANGED slots /\ UNCHANGED rounds /\ UNCHANGED reqs /\ Created' = Created
      BY <2>1, SameRequests DEF Get, slots, rounds, reqs
    <3> QED BY <3>1, Keeps
  <2>2. CASE /\ pending' = Push(pending, s) /\ buildreq' = [buildreq EXCEPT ![s] = new]
             /\ AllocGet(new, k, r)
    <3>1. Created \subseteq Created' /\ new \in Created' /\ ReqsOK'
      <4> HIDE DEF k, r
      <4> QED BY <1>1, <1>2, <2>2, AllocGetTypes
    <3>2. Push(pending, s) \in Seq(Server)
      BY <1>2, QueueTypes DEF TypeInv, RoundsOK
    <3>3. RoundsOK'
      BY <2>2, <3>2 DEF Get, TypeInv, RoundsOK
    <3> HIDE DEF s, new
    <3>4. SlotsOK'
      <4>1. Seq(Created) \subseteq Seq(Created')
        BY <3>1, SeqMonotonic
      <4>2. buildreq' \in [Server -> Created' \cup {Null}]
        BY <1>2, <2>2, <3>1 DEF TypeInv, SlotsOK
      <4> QED BY <3>1, <4>1, <4>2 DEF Get, TypeInv, SlotsOK
    <3> QED BY <3>1, <3>3, <3>4
  <2>3. CASE /\ n # Null /\ request' = [request EXCEPT ![n] = m]
             /\ UNCHANGED <<pending, buildreq, free_requests>>
    <3>1. n \in 1 .. Len(request) /\ request \in Seq(Request)
      BY <1>2, <2>3 DEF TypeInv, SlotsOK, ReqsOK, Created
    <3>2. q \in Request
      BY <3>1, ElementOfSeq
    <3>6. m \in Request /\ m.keys # <<>> /\ m.kind = q.kind
      <4>1. k \in Key
        BY <1>2
      <4> HIDE DEF k, q
      <4> QED BY <3>2, <4>1, KeyAdded
    <3> HIDE DEF m, q, n
    <3>3. request' = [request EXCEPT ![n] = m]
      BY <2>3
    <3>7. /\ request' \in Seq(Request) /\ Len(request') = Len(request)
          /\ \A x \in 1 .. Len(request) : request'[x] = IF x = n THEN m ELSE request[x]
      BY <3>1, <3>3, <3>6, ExceptSeq
    <3>8. Created' = Created
      BY <3>7 DEF Created
    <3>9. ReqsOK'
      <4>1. ReqsOK /\ UNCHANGED free_requests
        BY <2>3 DEF TypeInv
      <4> QED BY <3>6, <3>7, <3>8, <4>1 DEF ReqsOK, Created
    <3>10. UNCHANGED slots /\ UNCHANGED rounds
      BY <2>3 DEF Get, slots, rounds
    <3> QED BY <3>8, <3>9, <3>10, Keeps
  <2>4. \/ UNCHANGED <<buildreq, pending, reqs>>
        \/ /\ pending' = Push(pending, s) /\ buildreq' = [buildreq EXCEPT ![s] = new]
           /\ AllocGet(new, k, r)
        \/ /\ n # Null /\ request' = [request EXCEPT ![n] = m]
           /\ UNCHANGED <<pending, buildreq, free_requests>>
    BY DEF Get
  <2> QED BY <2>1, <2>2, <2>3, <2>4
<1>5. ConnOK' /\ RestOK'
  BY <1>3, <1>4, Keeps
<1>6. a \in Frames(R) /\ a.pc = "get"
  <2>1. r \in R \cup {Null}
    BY <1>1, <1>4
  <2> HIDE DEF R, r
  <2> QED BY <1>2, <2>1, LoopKinds DEF Each, FrameOf
<1> HIDE DEF a, R
<1>7. Callable(<<a>>, R) /\ Head(<<a>>).pc # "probe"
  BY <1>6, CallableFrames
<1> QED BY <1>1, <1>3, <1>4, <1>5, <1>7, AllocStep DEF R

LEMMA RebuildTypes ==
  ASSUME TypeInv, UNCHANGED config, Rebuild
  PROVE  TypeInv'
<1> DEFINE r == top.r
           k == Head(top.q)
           s == top.s
           new == NewRequest
           R == Created'
           a == Each("get", r, Tail(top.q))
<1>1. /\ stack # <<>> /\ s \in Server /\ top.q \in Seq(Key) /\ top.q # <<>>
      /\ r \in Created \cup {Null}
  BY AtTop DEF Rebuild, FrameOK, ServerPcs
<1>2. k \in Key /\ Tail(top.q) \in Seq(Key)
  BY <1>1, FirstElement
<1>3. Goto(<<a>>) /\ AllocGet(new, k, r) /\ buildreq' = [buildreq EXCEPT ![s] = new]
  BY DEF Rebuild
<1>4. Created \subseteq Created' /\ new \in Created' /\ ReqsOK'
  <2> HIDE DEF k, r
  <2> QED BY <1>1, <1>2, <1>3, AllocGetTypes
<1>5. ConnOK' /\ RoundsOK' /\ RestOK'
  BY <1>4, Keeps DEF Rebuild
<1> HIDE DEF s, new
<1>6. SlotsOK'
  <2>1. Seq(Created) \subseteq Seq(Created')
    BY <1>4, SeqMonotonic
  <2>2. buildreq' \in [Server -> Created' \cup {Null}]
    BY <1>1, <1>3, <1>4 DEF TypeInv, SlotsOK
  <2> QED BY <1>4, <2>1, <2>2 DEF Rebuild, TypeInv, SlotsOK
<1>7. a \in Frames(R) /\ a.pc = "get"
  <2>1. r \in R \cup {Null}
    BY <1>1, <1>4
  <2> HIDE DEF R, r
  <2> QED BY <1>2, <2>1, LoopKinds DEF Each, FrameOf
<1> HIDE DEF a, R
<1>8. Callable(<<a>>, R) /\ Head(<<a>>).pc # "probe"
  BY <1>7, CallableFrames
<1> QED BY <1>1, <1>3, <1>4, <1>5, <1>6, <1>8, AllocStep DEF R

LEMMA GetEndTypes ==
  ASSUME TypeInv, UNCHANGED config, GetEnd
  PROVE  TypeInv'
<1>1. stack # <<>> /\ top.r \in Created \cup {Null}
  BY AtTop DEF GetEnd, FrameOK
<1>2. UNCHANGED request /\ Created' = Created /\ ConnOK' /\ SlotsOK' /\ RoundsOK'
  BY SameRequests, Keeps DEF GetEnd
<1>3. ReqsOK' /\ RestOK'
  <2>1. CASE UNCHANGED <<free_requests, rv>>
    BY <1>2, <2>1, Keeps DEF GetEnd, reqs
  <2>2. CASE Release(top.r) /\ rv' = TRUE
    <3>1. ReqsOK'
      BY <1>1, <1>2, <2>2, ReleaseTypes
    <3>2. RestOK'
      BY <2>2 DEF GetEnd, TypeInv, RestOK, budget, MaxFaults, MaxCalls
    <3> QED BY <3>1, <3>2
  <2> QED BY <2>1, <2>2 DEF GetEnd
<1> QED BY <1>1, <1>2, <1>3, CallableFrames, PlainStep DEF GetEnd, Return

LEMMA FlushTypes ==
  ASSUME TypeInv, UNCHANGED config, Flush
  PROVE  TypeInv'
<1> DEFINE s == Head(top.q)
           r == NewRequest
           R == Created'
           a == Frame("schedule", s, r)
           c == Each("flushed", Null, Tail(top.q))
           d == Frame("run", NoServer, Null)
<1>1. stack # <<>> /\ top.q \in Seq(Server)
  BY AtTop DEF Flush, FrameOK
<1>2. CASE top.q = <<>>
  <2>1. Goto(<<d>>) /\ UNCHANGED reqs
    BY <1>2 DEF Flush
  <2>2. UNCHANGED request /\ ConnOK' /\ SlotsOK' /\ RoundsOK' /\ ReqsOK' /\ RestOK'
    BY <2>1, SameRequests, Keeps DEF Flush, reqs
  <2>3. d \in Frames(Created) /\ d.pc = "run"
    BY LoopKinds DEF Frame, FrameOf, Lower
  <2>4. Callable(<<d>>, Created) /\ Head(<<d>>).pc # "probe"
    BY <2>3, CallableFrames
  <2> QED BY <1>1, <2>1, <2>2, <2>4, PlainStep
<1>3. CASE top.q # <<>>
  <2>1. s \in Server /\ Tail(top.q) \in Seq(Server)
    BY <1>1, <1>3, FirstElement
  <2>2. Alloc(r, "null", <<>>, {}, 0) /\ Goto(<<a, c>>)
    BY <1>3 DEF Flush
  <2>3. Created \subseteq Created' /\ r \in Created' /\ ReqsOK'
    <3>1. <<>> \in Seq(Key) /\ {} \in SUBSET Server /\ 0 \in Nat
      OBVIOUS
    <3> QED BY <2>2, <3>1, AllocTypes
  <2>4. ConnOK' /\ SlotsOK' /\ RoundsOK' /\ RestOK'
    BY <2>3, Keeps DEF Flush
  <2> HIDE DEF s, r, R
  <2>5. a \in Frames(R) /\ a.pc = "schedule"
    BY <2>1, <2>3, FrameKinds DEF R, Frame, FrameOf
  <2>6. c \in Lower(R) /\ c.pc = "flushed"
    BY <2>1, LoopKinds DEF FrameOf, Each
  <2> HIDE DEF a, c
  <2>7. Callable(<<a, c>>, R) /\ Head(<<a, c>>).pc # "probe"
    BY <2>5, <2>6, CallableFrames
  <2> QED BY <1>1, <2>2, <2>3, <2>4, <2>7, AllocStep DEF R
<1> QED BY <1>2, <1>3

LEMMA AskTypes ==
  ASSUME TypeInv, UNCHANGED config, Ask
  PROVE  TypeInv'
<1> DEFINE s == Head(top.q)
           r == NewRequest
           R == Created'
           a == Frame("schedule", s, r)
           c == FrameOf("asked", NoServer, Null, Tail(top.q), top.w, 0)
           d == Frame("run", NoServer, Null)
<1>1. stack # <<>> /\ top.q \in Seq(Server) /\ top.w \in Nat
  BY AtTop DEF Ask, FrameOK, Frames
<1>2. CASE top.q = <<>>
  <2>1. (Goto(<<d>>) \/ Goto(<<>>)) /\ UNCHANGED reqs
    BY <1>2 DEF Ask
  <2>2. UNCHANGED request /\ ConnOK' /\ SlotsOK' /\ RoundsOK' /\ ReqsOK' /\ RestOK'
    BY <2>1, SameRequests, Keeps DEF Ask, reqs
  <2>3. d \in Frames(Created) /\ d.pc = "run"
    BY LoopKinds DEF Frame, FrameOf, Lower
  <2>4. Callable(<<d>>, Created) /\ Head(<<d>>).pc # "probe" /\ Callable(<<>>, Created)
    BY <2>3, CallableFrames
  <2> QED BY <1>1, <2>1, <2>2, <2>4, PlainStep
<1>3. CASE top.q # <<>>
  <2>1. s \in Server /\ Tail(top.q) \in Seq(Server)
    BY <1>1, <1>3, FirstElement
  <2>2. Alloc(r, "null", <<>>, {}, 0) /\ Goto(<<a, c>>)
    BY <1>3 DEF Ask
  <2>3. Created \subseteq Created' /\ r \in Created' /\ ReqsOK'
    <3>1. <<>> \in Seq(Key) /\ {} \in SUBSET Server /\ 0 \in Nat
      OBVIOUS
    <3> QED BY <2>2, <3>1, AllocTypes
  <2>4. ConnOK' /\ SlotsOK' /\ RoundsOK' /\ RestOK'
    BY <2>3, Keeps DEF Ask
  <2> HIDE DEF s, r, R
  <2>5. a \in Frames(R) /\ a.pc = "schedule"
    BY <2>1, <2>3, FrameKinds DEF R, Frame, FrameOf
  <2>6. c \in Lower(R) /\ c.pc = "asked"
    BY <1>1, <2>1, LoopKinds DEF FrameOf
  <2> HIDE DEF a, c
  <2>7. Callable(<<a, c>>, R) /\ Head(<<a, c>>).pc # "probe"
    BY <2>5, <2>6, CallableFrames
  <2> QED BY <1>1, <2>2, <2>3, <2>4, <2>7, AllocStep DEF R
<1> QED BY <1>2, <1>3

(* A call of the script on top of the frame of its callback. *)
LEMMA CallOnTop ==
  ASSUME NEW S, NEW st \in Seq(S), st # <<>>, NEW x \in S
  PROVE  <<x>> \o st = <<x, Head(st)>> \o Tail(st)
<1> DEFINE t == Tail(st)
           h == Head(st)
           a == <<x>>
           b == <<x, h>>
           c == a \o st
           d == b \o t
<1>1. /\ h \in S /\ h = st[1] /\ Len(st) \in Nat \ {0}
      /\ t \in Seq(S) /\ Len(t) = Len(st) - 1 /\ \A i \in 1 .. Len(st) - 1 : t[i] = st[i + 1]
  BY FirstElement
<1>2. /\ a \in Seq(S) /\ Len(a) = 1 /\ a[1] = x
      /\ b \in Seq(S) /\ Len(b) = 2 /\ b[1] = x /\ b[2] = h
  BY <1>1
<1> HIDE DEF t, h, a, b
<1>3. /\ c \in Seq(S) /\ Len(c) = Len(a) + Len(st)
      /\ \A i \in 1 .. Len(a) + Len(st) : c[i] = IF i <= Len(a) THEN a[i] ELSE st[i - Len(a)]
  BY <1>2, ConcatProperties
<1>4. /\ d \in Seq(S) /\ Len(d) = Len(b) + Len(t)
      /\ \A i \in 1 .. Len(b) + Len(t) : d[i] = IF i <= Len(b) THEN b[i] ELSE t[i - Len(b)]
  BY <1>1, <1>2, ConcatProperties, ZenonT(40)
<1> HIDE DEF c, d
<1>5. ASSUME NEW i \in 1 .. Len(c) PROVE c[i] = d[i]
  <2>1. i \in 1 .. Len(b) + Len(t) /\ i \in 1 .. Len(a) + Len(st)
    BY <1>1, <1>2, <1>3
  <2>2. CASE i = 1
    BY <1>2, <1>3, <1>4, <2>1, <2>2
  <2>3. CASE i = 2
    <3>1. c[i] = st[1]
      BY <1>2, <1>3, <2>1, <2>3
    <3>2. d[i] = h
      BY <1>2, <1>4, <2>1, <2>3
    <3> QED BY <1>1, <3>1, <3>2
  <2>4. CASE i > 2
    <3>1. c[i] = st[i - 1]
      BY <1>2, <1>3, <2>1, <2>4
    <3>2. d[i] = t[i - 2] /\ i - 2 \in 1 .. Len(st) - 1
      BY <1>1, <1>2, <1>4, <2>1, <2>4
    <3>3. t[i - 2] = st[i - 2 + 1]
      BY <1>1, <3>2
    <3> QED BY <2>1, <3>1, <3>2, <3>3
  <2> QED BY <2>1, <2>2, <2>3, <2>4
<1>6. Len(c) = Len(d)
  BY <1>1, <1>2, <1>3, <1>4
<1>7. c = d
  BY <1>3, <1>4, <1>5, <1>6, SeqEqual
<1> QED BY <1>7 DEF c, d, b, a, t, h

LEMMA CallTypes ==
  ASSUME TypeInv, UNCHANGED config, NEW call \in Calls, Call(call)
  PROVE  TypeInv'
<1> DEFINE R == Created
           run == Frame("run", NoServer, Null)
           get == Each("get", Null, call.keys)
           x == CASE call.op = "set"      -> FrameOf("store", NoServer, Null, call.keys, 0, Redundancy)
                  [] call.op = "setMulti" -> FrameOf("store", NoServer, Null, call.keys, 1, Redundancy)
                  [] call.op = "get"      -> FrameOf("store", NoServer, Null, call.keys, 0, 1)
                  [] call.op = "flush"    -> Each("flush", Null, Servers)
                  [] call.op = "version"  -> FrameOf("ask", NoServer, Null, Servers, 0, 0)
                  [] call.op = "stats"    -> FrameOf("ask", NoServer, Null, Servers, 1, 0)
<1>1. /\ call.op \in {"set", "setMulti", "get", "getMulti", "flush", "version", "stats"}
      /\ call.keys \in Seq(Key) /\ Redundancy \in Nat /\ Servers \in Seq(Server)
      /\ MaxFaults \in Nat /\ MaxCalls \in Nat
  BY ConfigType DEF TypeInv, RestOK
<1>2. UNCHANGED request /\ Created' = Created /\ ConnOK' /\ SlotsOK' /\ RoundsOK' /\ ReqsOK'
  BY SameRequests, Keeps DEF Call, reqs
<1>3. RestOK'
  BY <1>1 DEF Call, TypeInv, RestOK, MaxFaults, MaxCalls
<1>4. CASE call.op # "getMulti"
  <2>1. stack' = <<x>> \o stack
    BY <1>1, <1>4 DEF Call
  <2>2. x \in Lower(R) /\ x.pc \in {"store", "flush", "ask"}
    <3>1. /\ \A i \in Nat, w \in Nat : FrameOf("store", NoServer, Null, call.keys, w, i) \in Lower(R)
          /\ Each("flush", Null, Servers) \in Lower(R)
          /\ \A w \in Nat : FrameOf("ask", NoServer, Null, Servers, w, 0) \in Lower(R)
      BY <1>1, LoopKinds
    <3>2. 0 \in Nat /\ 1 \in Nat
      OBVIOUS
    <3>3. x \in Lower(R)
      BY <1>1, <1>4, <3>1, <3>2
    <3>4. x.pc \in {"store", "flush", "ask"}
      BY <1>1, <1>4 DEF FrameOf, Each
    <3> QED BY <3>3, <3>4
  <2> HIDE DEF x
  <2>3. CASE stack = <<>>
    <3>1. stack' = <<x>>
      <4>1. <<x>> \in Seq({x}) /\ <<x>> \o <<>> = <<x>>
        BY ConcatEmptySeq
      <4> QED BY <2>1, <2>3, <4>1
    <3>2. x \in Frames(R)
      BY <2>2 DEF Lower
    <3>3. StackOK'
      BY <1>2, <2>2, <3>1, <3>2 DEF StackOK, Nested
    <3>4. ProbeOK'
      BY <2>2, <3>1 DEF ProbeOK, At
    <3> QED BY <1>2, <1>3, <3>3, <3>4 DEF TypeInv
  <2>4. CASE At("callback")
    <3>1. stack # <<>> /\ top \in Lower(R) /\ top.pc = "callback"
      BY <2>4, AtTop DEF Lower, LowerPcs
    <3>2. x \in Frames(R)
      BY <2>2 DEF Lower
    <3>3. Goto(<<x, top>>)
      <4>1. <<x>> \o stack = <<x, Head(stack)>> \o Tail(stack)
        BY <3>1, <3>2, CallOnTop DEF TypeInv, StackOK
      <4> QED BY <2>1, <4>1 DEF Goto, top
    <3>4. Callable(<<x, top>>, R) /\ Head(<<x, top>>).pc # "probe"
      BY <2>2, <3>1, <3>2, CallableFrames
    <3> QED BY <1>2, <1>3, <3>1, <3>3, <3>4, PlainStep
  <2> QED BY <2>3, <2>4 DEF Call, Script
<1>5. CASE call.op = "getMulti"
  <2>1. stack = <<>> /\ stack' = <<get, run>> \o stack
    BY <1>5 DEF Call, Script
  <2>2. stack' = <<get, run>>
    <3>1. <<get, run>> \in Seq({get, run})
      OBVIOUS
    <3> HIDE DEF get, run
    <3> QED BY <2>1, <3>1, ConcatEmptySeq
  <2>3. get \in Frames(R) /\ run \in Lower(R) /\ run \in Frames(R)
    BY <1>1, LoopKinds DEF Lower
  <2>4. get.pc = "get" /\ run.pc = "run"
    BY DEF Frame, Each, FrameOf
  <2> HIDE DEF get, run
  <2>5. StackOK'
    BY <1>2, <2>2, <2>3, <2>4 DEF StackOK, Nested
  <2>6. ProbeOK'
    BY <2>2, <2>4 DEF ProbeOK, At
  <2> QED BY <1>2, <1>3, <2>5, <2>6 DEF TypeInv
<1> QED BY <1>4, <1>5

LEMMA NetworkTypes ==
  ASSUME TypeInv, UNCHANGED config, NEW s \in Server, PeerClose(s) \/ PeerEarly(s) \/ Tick(s)
  PROVE  TypeInv'
<1>1. UNCHANGED <<request, stack>>
  BY DEF PeerClose, PeerEarly, Tick, reqs
<1>2. Created' = Created /\ SlotsOK' /\ RoundsOK' /\ ReqsOK'
  BY <1>1, SameRequests, Keeps DEF PeerClose, PeerEarly, Tick
<1>3. RestOK'
  <2>1. CASE Tick(s)
    BY <1>2, <2>1, Keeps DEF Tick
  <2>2. CASE PeerClose(s) \/ PeerEarly(s)
    BY <2>2, RestTypes DEF PeerClose, PeerEarly, Fault, TypeInv, RestOK
  <2> QED BY <2>1, <2>2
<1>4. ConnOK'
  <2>1. CASE PeerClose(s)
    <3>1. PICK n \in 0 .. Len(wire[s]) : wire' = [wire EXCEPT ![s] = SubSeq(@, 1, n)]
      BY <2>1 DEF PeerClose
    <3>2. wire[s] \in Seq(Created) /\ Len(wire[s]) \in Nat
      BY LenProperties DEF TypeInv, ConnOK
    <3>3. SubSeq(wire[s], 1, n) \in Seq(Created)
      <4>1. n \in Nat /\ \A i \in 1 .. n : i \in 1 .. Len(wire[s])
        BY <3>1, <3>2
      <4> QED BY <3>2, <4>1, SubSeqProperties
    <3> QED BY <1>2, <2>1, <3>1, <3>3 DEF PeerClose, TypeInv, ConnOK
  <2>2. CASE PeerEarly(s)
    <3>1. wire[s] \in Seq(Created) /\ sendreq[s] \in Created
      BY <2>2 DEF PeerEarly, TypeInv, ConnOK, SlotsOK
    <3>2. Append(wire[s], sendreq[s]) \in Seq(Created)
      BY <3>1, AppendSet
    <3> QED BY <1>2, <2>2, <3>2 DEF PeerEarly, TypeInv, ConnOK
  <2>3. CASE Tick(s)
    BY <1>2, <2>3 DEF Tick, TypeInv, ConnOK
  <2> QED BY <2>1, <2>2, <2>3
<1>5. StackOK' /\ ProbeOK'
  BY <1>1, <1>2 DEF TypeInv, StackOK, Nested, ProbeOK, At, top
<1> QED BY <1>2, <1>3, <1>4, <1>5 DEF TypeInv

LEMMA InitTypes == Init => TypeInv
<1> SUFFICES ASSUME Init PROVE TypeInv
  OBVIOUS
<1>1. MaxFaults \in Nat /\ MaxCalls \in Nat
  BY ConfigType DEF Init
<1>2. request = <<>> /\ free_requests = <<>> /\ stack = <<>> /\ Created = {}
  BY DEF Init, Created
<1>3. ConnOK
  <2>1. status \in [Server -> {"failed", "retriable", "disconnected", "unknown", "connected"}]
    BY DEF Init, FailedStatus
  <2>2. link \in [Server -> {"none", "up", "eof"}] /\ partly \in [Server -> {"no", "yes", "answered"}]
    BY DEF Init
  <2>3. wire \in [Server -> Seq(Created)]
    BY DEF Init
  <2> QED BY <2>1, <2>2, <2>3 DEF ConnOK
<1>4. SlotsOK
  BY DEF Init, SlotsOK
<1>5. RoundsOK
  <2>1. <<>> \in Seq(Server)
    OBVIOUS
  <2>2. sending \in [1 .. 2 -> Seq(Server)] /\ reading \in [1 .. 2 -> Seq(Server)]
    BY <2>1 DEF Init
  <2>3. cur = 1 /\ in_select = FALSE /\ wfds = {} /\ rfds = {} /\ pending = <<>>
    BY DEF Init
  <2>4. pending \in Seq(Server)
    BY <2>1, <2>3
  <2>5. cur \in 1 .. 2
    BY <2>3
  <2>6. in_select \in BOOLEAN
    BY <2>3
  <2>7. wfds \subseteq Server /\ rfds \subseteq Server
    BY <2>3
  <2> QED BY <2>2, <2>4, <2>5, <2>6, <2>7 DEF RoundsOK
<1>6. ReqsOK
  BY <1>2 DEF ReqsOK
<1>7. RestOK
  BY <1>1 DEF Init, RestOK
<1>8. StackOK /\ ProbeOK
  BY <1>2 DEF StackOK, Nested, ProbeOK, At
<1> QED BY <1>3, <1>4, <1>5, <1>6, <1>7, <1>8 DEF TypeInv

LEMMA NextTypes == TypeInv /\ [Next]_vars => TypeInv'
<1> SUFFICES ASSUME TypeInv, [Next]_vars PROVE TypeInv'
  OBVIOUS
<1>1. CASE Process /\ UNCHANGED config
  BY <1>1, QuietTypes, ScheduleTypes, RefusedTypes, SlotSendTypes, UnslotTypes, DeactivateTypes,
     GiveUpTypes, FailOverTypes, FindNextTypes, RetryTypes, UnqueueTypes, RetryReadTypes,
     SelectTypes, LateSendTypes, LateReadTypes, LateTypes, SendLoopTypes, SendDoneTypes,
     SendMoreTypes, SendErrorTypes, UnreadTypes, ReadLoopTypes, ParseDoneTypes, ParseEarlyTypes,
     EarlyDoneTypes, ParseValueTypes, ParseFailureTypes, ParseMoreTypes, RunPendingTypes,
     BuiltTypes, StoreTypes, CloneTypes, GetTypes, RebuildTypes, GetEndTypes, FlushTypes,
     AskTypes, Zenon DEF Process
<1>2. CASE (\E c \in Calls : Call(c)) /\ UNCHANGED config
  BY <1>2, CallTypes
<1>3. CASE (\E s \in Server : PeerClose(s) \/ PeerEarly(s) \/ Tick(s)) /\ UNCHANGED config
  BY <1>3, NetworkTypes
<1>4. CASE UNCHANGED vars
  <2>1. UNCHANGED <<conn, slots, rounds, reqs, rv, want, budget, config>> /\ UNCHANGED stack
    BY <1>4 DEF vars
  <2>2. UNCHANGED request /\ Created' = Created
    BY <2>1, SameRequests DEF reqs
  <2>3. ConnOK' /\ SlotsOK' /\ RoundsOK' /\ ReqsOK' /\ RestOK'
    BY <2>1, <2>2, Keeps
  <2>4. StackOK' /\ ProbeOK'
    BY <2>1, <2>2 DEF TypeInv, StackOK, Nested, ProbeOK, At, top
  <2> QED BY <2>3, <2>4 DEF TypeInv
<1> QED BY <1>1, <1>2, <1>3, <1>4 DEF Next, Step

LEMMA TypesOK == TypeInv => TypeOK
<1> SUFFICES ASSUME TypeInv PROVE TypeOK
  OBVIOUS
<1>1. \A i \in DOMAIN stack :
       /\ stack[i].s \in Server \cup {NoServer}
       /\ stack[i].r \in Created \cup {Null}
       /\ stack[i].pc \in {"schedule", "unslot", "failover", "probe", "retry"}
            => stack[i].s \in Server /\ stack[i].r \in Created
  <2>1. SUFFICES ASSUME NEW i \in DOMAIN stack
                 PROVE  /\ stack[i].s \in Server \cup {NoServer}
                        /\ stack[i].r \in Created \cup {Null}
                        /\ stack[i].pc \in {"schedule", "unslot", "failover", "probe", "retry"}
                             => stack[i].s \in Server /\ stack[i].r \in Created
    OBVIOUS
  <2> DEFINE f == stack[i]
             S == Frames(Created)
  <2>2. f \in S
    <3>1. stack \in Seq(S) /\ i \in 1 .. Len(stack)
      BY LenProperties DEF TypeInv, StackOK
    <3> HIDE DEF S
    <3> QED BY <3>1, ElementOfSeq
  <2>3. FrameOK(f, Created)
    BY <2>2 DEF Frames
  <2> HIDE DEF f
  <2>4. /\ f.s \in Server \cup {NoServer} /\ f.r \in Created \cup {Null}
        /\ f.pc \in {"schedule", "unslot", "failover", "probe", "retry"}
             => f.s \in Server /\ f.r \in Created
    BY <2>3 DEF FrameOK, ServerPcs, RequestPcs
  <2> QED BY <2>4 DEF f
<1>2. request \in Seq([kind : {"key", "multi", "null", "blank"}, keys : Seq(Key),
                       failed : SUBSET Server, index : Nat, io : Server \cup {NoServer}])
  BY DEF TypeInv, ReqsOK, Request
<1>3. {sendreq, readreq, buildreq} \subseteq [Server -> Created \cup {Null}]
  BY DEF TypeInv, SlotsOK
<1>4. {sendqueue, readqueue} \subseteq [Server -> Seq(Created)]
  BY DEF TypeInv, SlotsOK
<1>5. {sending, reading} \subseteq [1 .. 2 -> Seq(Server)]
  BY DEF TypeInv, RoundsOK
<1> QED BY <1>1, <1>2, <1>3, <1>4, <1>5 DEF TypeOK, TypeInv, ConnOK, RoundsOK, ReqsOK, RestOK

(* Every request, server, slot, queue, frame and counter keeps its type,   *)
(* whatever the servers, keys, configurations and bounds: in particular no *)
(* handler is ever called for a request that does not exist, and no probe  *)
(* for a failover server looks past the last attempt.                      *)
THEOREM TypeInvariant == Spec => []TypeOK
<1>1. Init => TypeInv
  BY InitTypes
<1>2. TypeInv /\ [Next]_vars => TypeInv'
  BY NextTypes
<1>3. TypeInv => TypeOK
  BY TypesOK
<1> QED BY <1>1, <1>2, <1>3, PTL DEF Spec

----------------------------------------------------------------------------
(* A failed server is idle: only mmc_server_deactivate makes a server      *)
(* fail, and it takes everything from it; a request is given only to a     *)
(* server that is valid or has just been connected; and what a handler     *)
(* finishes later on a server that failed meanwhile finds nothing there.   *)

IdleAt(s) == /\ sendreq[s] = Null /\ readreq[s] = Null
             /\ sendqueue[s] = <<>> /\ readqueue[s] = <<>>
Idle == \A s \in Server : status[s] = "failed" => IdleAt(s)

Slots == <<sendreq, readreq, sendqueue, readqueue>>

(* A step on server s, which is not failed afterwards or as idle as before. *)
LEMMA IdleStep ==
  ASSUME Idle, NEW s \in Server,
         \A t \in Server \ {s} :
           /\ status'[t] = status[t] /\ sendreq'[t] = sendreq[t] /\ readreq'[t] = readreq[t]
           /\ sendqueue'[t] = sendqueue[t] /\ readqueue'[t] = readqueue[t],
         \/ status'[s] # "failed"
         \/ IdleAt(s)'
         \/ status'[s] = status[s] /\ (IdleAt(s) => IdleAt(s)')
  PROVE  Idle'
BY DEF Idle, IdleAt

LEMMA IdleQueue ==
  ASSUME NEW x
  PROVE  /\ Rest(<<>>) = <<>> /\ Popped(<<>>, Null) = Null
         /\ Without(<<>>, x) = <<>>
<1>1. <<>> \in Seq({})
  OBVIOUS
<1>2. x \notin ToSet(<<>>)
  BY <1>1, ToSetElements
<1> QED BY <1>1, <1>2, WithoutRemoves DEF Rest, Popped

(* The steps that only look at the slots and the status. *)
LEMMA IdleQuiet ==
  ASSUME TypeInv, Idle,
         \/ UNCHANGED <<conn, slots>>
         \/ UNCHANGED <<status, slots>>
         \/ \E s \in Server : ServerFailure(s) /\ UNCHANGED slots
  PROVE  Idle'
<1>1. UNCHANGED Slots
  BY DEF Slots, slots
<1>2. UNCHANGED status \/ \E s \in Server : ServerFailure(s)
  BY DEF conn
<1> QED BY <1>1, <1>2 DEF Idle, IdleAt, Slots, ServerFailure, TypeInv, ConnOK

LEMMA IdleSchedule ==
  ASSUME TypeInv, Idle, Schedule
  PROVE  Idle'
<1>1. PICK s \in Server, r \in {top.r} : s = top.s
  BY AtTop DEF Schedule, FrameOK, ServerPcs
<1>2. status[s] # "failed"
  BY <1>1 DEF Schedule, Valid
<1>3. /\ AwaitReply(s, r)
      /\ \/ Slot(s, r) /\ UNCHANGED sendqueue
         \/ /\ UNCHANGED <<conn, sendreq>>
            /\ sendqueue' = [sendqueue EXCEPT ![s] = Push(@, r)]
  BY <1>1 DEF Schedule
<1>4. /\ status \in [Server -> {"failed", "retriable", "disconnected", "unknown", "connected"}]
      /\ sendreq \in [Server -> Created \cup {Null}] /\ readreq \in [Server -> Created \cup {Null}]
      /\ sendqueue \in [Server -> Seq(Created)] /\ readqueue \in [Server -> Seq(Created)]
  BY DEF TypeInv, ConnOK, SlotsOK
<1>5. status'[s] # "failed" /\ \A t \in Server \ {s} : status'[t] = status[t]
  BY <1>1, <1>2, <1>3, <1>4 DEF Slot, Open, conn
<1>6. \A t \in Server \ {s} : sendreq'[t] = sendreq[t] /\ sendqueue'[t] = sendqueue[t]
  BY <1>1, <1>3, <1>4 DEF Slot
<1>7. \A t \in Server \ {s} : readreq'[t] = readreq[t] /\ readqueue'[t] = readqueue[t]
  BY <1>1, <1>3, <1>4 DEF AwaitReply
<1> QED BY <1>1, <1>5, <1>6, <1>7, IdleStep

LEMMA IdleSlotSend ==
  ASSUME TypeInv, Idle, SlotSend \/ Unslot
  PROVE  Idle'
<1>1. PICK s \in Server, r \in {top.r} : s = top.s
  <2>1. CASE SlotSend
    BY <2>1, AtTop DEF SlotSend, FrameOK, ServerPcs
  <2>2. CASE Unslot
    BY <2>2, AtTop DEF Unslot, FrameOK, ServerPcs
  <2> QED BY <2>1, <2>2
<1>2. /\ UNCHANGED <<readreq, sendqueue, readqueue>>
      /\ Slot(s, r) \/ (sendreq' = [sendreq EXCEPT ![s] = Null] /\ UNCHANGED conn)
  BY <1>1 DEF SlotSend, Unslot
<1>3. /\ status \in [Server -> {"failed", "retriable", "disconnected", "unknown", "connected"}]
      /\ sendreq \in [Server -> Created \cup {Null}]
  BY DEF TypeInv, ConnOK, SlotsOK
<1>4. CASE Slot(s, r)
  <2>1. status'[s] # "failed" /\ \A t \in Server \ {s} : status'[t] = status[t]
    BY <1>1, <1>3, <1>4 DEF Slot, Open, IsOpen, conn
  <2> QED BY <1>1, <1>2, <1>3, <1>4, <2>1, IdleStep DEF Slot
<1>5. CASE sendreq' = [sendreq EXCEPT ![s] = Null] /\ UNCHANGED conn
  BY <1>1, <1>2, <1>3, <1>5, IdleStep DEF IdleAt, conn
<1> QED BY <1>2, <1>4, <1>5

LEMMA IdleDeactivate ==
  ASSUME TypeInv, Idle, Deactivate
  PROVE  Idle'
<1>1. PICK s \in Server : s = top.s
  BY AtTop DEF Deactivate, FrameOK, ServerPcs
<1>2. /\ Vacate(s)
      /\ \E x : status' = [status EXCEPT ![s] = x]
  BY <1>1 DEF Deactivate
<1>3. /\ status \in [Server -> {"failed", "retriable", "disconnected", "unknown", "connected"}]
      /\ sendreq \in [Server -> Created \cup {Null}] /\ readreq \in [Server -> Created \cup {Null}]
      /\ sendqueue \in [Server -> Seq(Created)] /\ readqueue \in [Server -> Seq(Created)]
  BY DEF TypeInv, ConnOK, SlotsOK
<1>4. IdleAt(s)'
  BY <1>1, <1>2, <1>3 DEF Vacate, IdleAt
<1> QED BY <1>1, <1>2, <1>3, <1>4, IdleStep DEF Vacate

LEMMA IdleRetry ==
  ASSUME TypeInv, Idle, Retry \/ RetryRead \/ EarlyDone
  PROVE  Idle'
<1>1. PICK s \in Server, r \in {top.r} : s = top.s
  <2>1. CASE Retry
    BY <2>1, AtTop DEF Retry, FrameOK, ServerPcs
  <2>2. CASE RetryRead
    BY <2>2, AtTop DEF RetryRead, FrameOK, ServerPcs
  <2>3. CASE EarlyDone
    BY <2>3, AtTop DEF EarlyDone, FrameOK, ServerPcs
  <2> QED BY <2>1, <2>2, <2>3
<1>2. /\ UNCHANGED <<status, sendreq>>
      /\ \/ /\ readqueue' = [readqueue EXCEPT ![s] = Without(@, r)]
            /\ \/ sendqueue' = [sendqueue EXCEPT ![s] = Rest(Without(sendqueue[s], r))]
               \/ sendqueue' = [sendqueue EXCEPT ![s] = Without(sendqueue[s], r)]
            /\ UNCHANGED readreq
         \/ /\ readreq' = [readreq EXCEPT ![s] = Popped(readqueue[s], Null)]
            /\ readqueue' = [readqueue EXCEPT ![s] = Rest(@)]
            /\ UNCHANGED sendqueue
         \/ UNCHANGED <<readreq, readqueue, sendqueue>>
  BY <1>1 DEF Retry, RetryRead, EarlyDone, conn
<1>3. /\ readreq \in [Server -> Created \cup {Null}]
      /\ sendqueue \in [Server -> Seq(Created)] /\ readqueue \in [Server -> Seq(Created)]
  BY DEF TypeInv, SlotsOK
<1>4. Rest(<<>>) = <<>> /\ Popped(<<>>, Null) = Null /\ Without(<<>>, r) = <<>>
  BY IdleQueue
<1>5. IdleAt(s) => IdleAt(s)'
  BY <1>1, <1>2, <1>3, <1>4 DEF IdleAt
<1>6. \A t \in Server \ {s} : /\ status'[t] = status[t] /\ sendreq'[t] = sendreq[t]
                              /\ readreq'[t] = readreq[t]
                              /\ sendqueue'[t] = sendqueue[t] /\ readqueue'[t] = readqueue[t]
  BY <1>1, <1>2, <1>3
<1> QED BY <1>1, <1>2, <1>5, <1>6, IdleStep

LEMMA IdleServe ==
  ASSUME TypeInv, Idle, SendDone \/ ParseDone \/ ParseEarly
  PROVE  Idle'
<1>1. PICK s \in Server : s = top.s /\ (sendreq[s] # Null \/ readreq[s] # Null)
  <2>1. CASE SendDone
    BY <2>1, AtTop DEF SendDone, Sending, FrameOK, ServerPcs
  <2>2. CASE ParseDone \/ ParseEarly
    BY <2>2, AtTop DEF ParseDone, ParseEarly, Parsing, FrameOK, ServerPcs
  <2> QED BY <2>1, <2>2
<1>2. status[s] # "failed"
  BY <1>1 DEF Idle, IdleAt
<1>3. /\ \/ UNCHANGED status
         \/ status' = [status EXCEPT ![s] = "disconnected"]
      /\ \/ UNCHANGED sendqueue
         \/ sendqueue' = [sendqueue EXCEPT ![s] = Rest(@)]
         \/ sendqueue' = [sendqueue EXCEPT ![s] = IF in_select THEN Rest(@) ELSE @]
      /\ \/ UNCHANGED <<readreq, readqueue>>
         \/ /\ readreq' = [readreq EXCEPT ![s] = Popped(readqueue[s], Null)]
            /\ readqueue' = [readqueue EXCEPT ![s] = Rest(@)]
      /\ UNCHANGED sendreq
  BY <1>1 DEF SendDone, ParseDone, ParseEarly
<1>4. /\ status \in [Server -> {"failed", "retriable", "disconnected", "unknown", "connected"}]
      /\ readreq \in [Server -> Created \cup {Null}]
      /\ sendqueue \in [Server -> Seq(Created)] /\ readqueue \in [Server -> Seq(Created)]
  BY DEF TypeInv, ConnOK, SlotsOK
<1>5. status'[s] # "failed"
  BY <1>1, <1>2, <1>3, <1>4
<1>6. \A t \in Server \ {s} : /\ status'[t] = status[t] /\ sendreq'[t] = sendreq[t]
                              /\ readreq'[t] = readreq[t]
                              /\ sendqueue'[t] = sendqueue[t] /\ readqueue'[t] = readqueue[t]
  BY <1>1, <1>3, <1>4
<1> QED BY <1>1, <1>5, <1>6, IdleStep

LEMMA IdleElsewhere ==
  ASSUME TypeInv, Idle, Process,
         ~(\/ Schedule \/ SlotSend \/ Unslot \/ Deactivate \/ Retry \/ RetryRead
           \/ EarlyDone \/ SendDone \/ ParseDone \/ ParseEarly)
  PROVE  Idle'
<1>1. CASE \/ ScheduleInvalid \/ ScheduleRefused \/ SlotSendRefused \/ Drain \/ LeaveCallback
           \/ GiveUp \/ FailOver \/ FindNext \/ Unqueue \/ HelpRound
           \/ LateSend \/ LateRead \/ SendLoop \/ SendMore \/ Unread \/ SendEnd
  BY <1>1, IdleQuiet DEF ScheduleInvalid, ScheduleRefused, SlotSendRefused, Drain, LeaveCallback,
     GiveUp, FailOver, FindNext, Unqueue, HelpRound, LateSend, LateRead, SendLoop, SendMore,
     Unread, SendEnd, conn
<1>2. CASE Ready \/ Expire \/ SelectError
  BY <1>2, IdleQuiet DEF Ready, Expire, SelectError, Switch
<1>3. CASE \/ ReadLoop \/ ParseValue \/ ParseMore \/ ParseEnd \/ RunPending \/ RunRounds
           \/ Store \/ Stored \/ CloneKey \/ GetFull \/ GetEnd \/ Flush \/ Flushed \/ Ask \/ Asked
  BY <1>3, IdleQuiet DEF ReadLoop, ParseValue, ParseMore, ParseEnd, RunPending, RunRounds,
     Store, Stored, CloneKey, GetFull, GetEnd, Flush, Flushed, Ask, Asked
<1>4. CASE Late \/ SendError \/ ParseError \/ ParseEof
  <2>1. PICK s \in Server : s = top.s
    <3>1. CASE Late
      BY <3>1, AtTop DEF Late, FrameOK, ServerPcs
    <3>2. CASE SendError
      BY <3>2, AtTop DEF SendError, Sending, FrameOK, ServerPcs
    <3>3. CASE ParseError \/ ParseEof
      BY <3>3, AtTop DEF ParseError, ParseEof, Parsing, FrameOK, ServerPcs
    <3> QED BY <1>4, <3>1, <3>2, <3>3
  <2>2. UNCHANGED slots /\ (UNCHANGED status \/ ServerFailure(s))
    BY <1>4, <2>1 DEF Late, SendError, ParseError, ParseEof
  <2> QED BY <2>1, <2>2, IdleQuiet
<1>5. CASE Built \/ Get \/ Rebuild
  <2>1. UNCHANGED Slots /\ UNCHANGED status
    BY <1>5 DEF Built, Get, Rebuild, Slots, conn
  <2> QED BY <2>1 DEF Idle, IdleAt, Slots
<1> QED BY <1>1, <1>2, <1>3, <1>4, <1>5, Zenon DEF Process

LEMMA IdleNext == TypeInv /\ Idle /\ [Next]_vars => Idle'
<1> SUFFICES ASSUME TypeInv, Idle, [Next]_vars PROVE Idle'
  OBVIOUS
<1>1. CASE Process
  BY <1>1, IdleSchedule, IdleSlotSend, IdleDeactivate, IdleRetry, IdleServe, IdleElsewhere, Zenon
<1>2. CASE \E c \in Calls : Call(c)
  BY <1>2, IdleQuiet DEF Call
<1>3. CASE \E s \in Server : PeerClose(s) \/ PeerEarly(s)
  BY <1>3, IdleQuiet DEF PeerClose, PeerEarly
<1>4. CASE \E s \in Server : Tick(s)
  <2>1. PICK s \in Server : Tick(s)
    BY <1>4
  <2>2. status' = [status EXCEPT ![s] = "retriable"] /\ UNCHANGED slots
    BY <2>1 DEF Tick
  <2> QED BY <2>2 DEF TypeInv, ConnOK, Idle, IdleAt, slots
<1>5. CASE UNCHANGED vars
  BY <1>5, IdleQuiet DEF vars
<1> QED BY <1>1, <1>2, <1>3, <1>4, <1>5 DEF Next, Step

(* mmc_server_deactivate (memcache_pool.c:636-683) leaves nothing behind   *)
(* on a server that will not be used until retry_interval is over, and     *)
(* nothing is put there in the meantime, in every configuration: however   *)
(* the failovers of several servers are nested, whatever handler is still  *)
(* on the stack when its server fails.                                     *)
THEOREM FailedServersIdle == Spec => []FailedIsIdle
<1>1. Init => TypeInv /\ Idle
  <2>1. Init => Idle
    BY DEF Init, Idle, IdleAt
  <2> QED BY <2>1, InitTypes
<1>2. TypeInv /\ Idle /\ [Next]_vars => TypeInv' /\ Idle'
  BY NextTypes, IdleNext
<1>3. TypeInv /\ Idle => FailedIsIdle
  BY DEF Idle, IdleAt, FailedIsIdle, ToSend, ToRead, Slotted
<1> QED BY <1>1, <1>2, <1>3, PTL DEF Spec

----------------------------------------------------------------------------
(* Where a failed server stays failed, a server that is pending has a      *)
(* request being built unless it failed: until the failure of the server   *)
(* itself nobody takes the request from it.  mmc_pool_schedule_pending     *)
(* forgets the request only when the server is pending no longer (the      *)
(* frame "built"), and whatever runs in between, nested rounds, failovers  *)
(* and callbacks, makes a server pending only if no request is being built *)
(* for it.                                                                 *)

Positions == 1 .. Len(stack)

Builds(f, s) == f.pc = "built" /\ f.s = s

BuildingAt(s) ==
  /\ s \in ToSet(pending) => buildreq[s] # Null
  /\ \A i \in Positions : Builds(stack[i], s) => buildreq[s] # Null /\ s \notin ToSet(pending)
  /\ \A i, j \in Positions : Builds(stack[i], s) /\ Builds(stack[j], s) => i = j

(* A handler that opens the connection of a server anew has no failed one. *)
Reopens == At("slot") \/ At("retry")

Building ==
  /\ Distinct(pending)
  /\ \A s \in Server : status[s] = "failed" \/ BuildingAt(s)
  /\ Reopens => status[top.s] # "failed"

(* A failed server is not tried again. *)
StaysFailed == \A s \in Server : status[s] = "failed" => status'[s] = "failed"

(* The frames that wait to forget a request are those that waited before.  *)
NobodyBuilds == \E d \in Int : \A i \in Positions' :
  stack'[i].pc = "built" => i - d \in Positions /\ stack'[i] = stack[i - d]

(* The stack after frames f in place of the top one. *)
LEMMA Replaced ==
  ASSUME TypeInv, stack # <<>>, NEW T, NEW f \in Seq(T), Goto(f)
  PROVE  /\ Len(f) \in Nat /\ Len(stack) \in Nat \ {0} /\ top = stack[1]
         /\ Len(stack') = Len(f) + Len(stack) - 1
         /\ \A i \in 1 .. Len(f) : stack'[i] = f[i]
         /\ \A i \in 2 .. Len(stack) : stack'[i + Len(f) - 1] = stack[i]
         /\ \A j \in Positions' : ~(j <= Len(f)) =>
              j - Len(f) + 1 \in 2 .. Len(stack) /\ stack'[j] = stack[j - Len(f) + 1]
<1> DEFINE F == Frames(Created)
           S == F \cup T
<1>1. stack \in Seq(S)
  <2>1. stack \in Seq(F)
    BY DEF TypeInv, StackOK
  <2> HIDE DEF F
  <2> QED BY <2>1
<1>2. stack' = f \o Tail(stack)
  BY DEF Goto
<1>3. f \in Seq(S)
  BY DEF S
<1> HIDE DEF S
<1>4. /\ Len(stack') = Len(f) + Len(stack) - 1
      /\ \A i \in 1 .. Len(f) + Len(stack) - 1 :
           stack'[i] = IF i <= Len(f) THEN f[i] ELSE stack[i - Len(f) + 1]
  BY <1>1, <1>2, <1>3, StackElements
<1>5. Len(f) \in Nat /\ Len(stack) \in Nat \ {0} /\ top = stack[1]
  BY <1>1, <1>3, LenProperties, FirstElement DEF top
<1>6. ASSUME NEW i \in 1 .. Len(f) PROVE stack'[i] = f[i]
  <2>1. i \in 1 .. Len(f) + Len(stack) - 1
    BY <1>5
  <2> QED BY <1>4, <2>1
<1>7. ASSUME NEW i \in 2 .. Len(stack) PROVE stack'[i + Len(f) - 1] = stack[i]
  <2>1. /\ i + Len(f) - 1 \in 1 .. Len(f) + Len(stack) - 1 /\ ~(i + Len(f) - 1 <= Len(f))
        /\ i + Len(f) - 1 - Len(f) + 1 = i
    BY <1>5
  <2> QED BY <1>4, <2>1
<1>8. ASSUME NEW j \in Positions', ~(j <= Len(f))
      PROVE  j - Len(f) + 1 \in 2 .. Len(stack) /\ stack'[j] = stack[j - Len(f) + 1]
  <2>1. j \in 1 .. Len(f) + Len(stack) - 1
    BY <1>4 DEF Positions
  <2> QED BY <1>4, <1>5, <1>8, <2>1
<1> QED BY <1>4, <1>5, <1>6, <1>7, <1>8

LEMMA LowerFrames ==
  ASSUME TypeInv, NEW i \in Positions, i # 1
  PROVE  stack[i].pc \in LowerPcs
<1> DEFINE S == Frames(Created)
           L == Lower(Created)
           t == Tail(stack)
<1>1. stack \in Seq(S) /\ stack # <<>> /\ t \in Seq(L)
  <2>1. Len(stack) # 0
    <3>1. Len(stack) \in Nat
      BY LenProperties DEF TypeInv, StackOK
    <3> QED BY <3>1 DEF Positions
  <2>2. stack # <<>>
    BY <2>1
  <2> QED BY <2>2 DEF TypeInv, StackOK
<1>2. \A f \in L : f.pc \in LowerPcs
  BY DEF Lower
<1> HIDE DEF S, L
<1>3. /\ Len(stack) \in Nat \ {0} /\ Len(t) = Len(stack) - 1
      /\ \A j \in 1 .. Len(stack) - 1 : t[j] = stack[j + 1]
  BY <1>1, FirstElement
<1> HIDE DEF t
<1>4. i - 1 \in 1 .. Len(t) /\ t[i - 1] = stack[i]
  <2>1. i - 1 \in 1 .. Len(stack) - 1 /\ i - 1 + 1 = i
    BY <1>3 DEF Positions
  <2> QED BY <1>3, <2>1
<1>5. t[i - 1] \in L
  BY <1>1, <1>4, ElementOfSeq
<1> QED BY <1>2, <1>4, <1>5

(* A list of frames none of which waits to forget a request. *)
NoBuild(f) == /\ \E T : f \in Seq(T)
              /\ \A i \in 1 .. Len(f) : f[i].pc # "built"

LEMMA FewFrames ==
  /\ NoBuild(<<>>)
  /\ \A a : a.pc # "built" => NoBuild(<<a>>)
  /\ \A a, b : a.pc # "built" /\ b.pc # "built" => NoBuild(<<a, b>>)
  /\ \A a, b, c : a.pc # "built" /\ b.pc # "built" /\ c.pc # "built" => NoBuild(<<a, b, c>>)
  /\ \A a, b, c, d : a.pc # "built" /\ b.pc # "built" /\ c.pc # "built" /\ d.pc # "built"
                      => NoBuild(<<a, b, c, d>>)
<1>1. NoBuild(<<>>)
  <2>1. <<>> \in Seq({}) /\ \A i \in 1 .. Len(<<>>) : FALSE
    OBVIOUS
  <2> QED BY <2>1 DEF NoBuild
<1>2. ASSUME NEW a, a.pc # "built" PROVE NoBuild(<<a>>)
  <2>1. <<a>> \in Seq({a}) /\ \A i \in 1 .. Len(<<a>>) : <<a>>[i] = a
    OBVIOUS
  <2> QED BY <1>2, <2>1 DEF NoBuild
<1>3. ASSUME NEW a, NEW b, a.pc # "built", b.pc # "built" PROVE NoBuild(<<a, b>>)
  <2>1. /\ <<a, b>> \in Seq({a, b})
        /\ \A i \in 1 .. Len(<<a, b>>) : <<a, b>>[i] \in {a, b}
    OBVIOUS
  <2> QED BY <1>3, <2>1 DEF NoBuild
<1>4. ASSUME NEW a, NEW b, NEW c, a.pc # "built", b.pc # "built", c.pc # "built"
      PROVE  NoBuild(<<a, b, c>>)
  <2>1. /\ <<a, b, c>> \in Seq({a, b, c})
        /\ \A i \in 1 .. Len(<<a, b, c>>) : <<a, b, c>>[i] \in {a, b, c}
    OBVIOUS
  <2> QED BY <1>4, <2>1 DEF NoBuild
<1>5. ASSUME NEW a, NEW b, NEW c, NEW d,
             a.pc # "built", b.pc # "built", c.pc # "built", d.pc # "built"
      PROVE  NoBuild(<<a, b, c, d>>)
  <2>1. /\ <<a, b, c, d>> \in Seq({a, b, c, d})
        /\ \A i \in 1 .. Len(<<a, b, c, d>>) : <<a, b, c, d>>[i] \in {a, b, c, d}
    OBVIOUS
  <2> QED BY <1>5, <2>1 DEF NoBuild
<1> QED BY <1>1, <1>2, <1>3, <1>4, <1>5

(* A step that calls such frames. *)
LEMMA BuildCalls ==
  ASSUME TypeInv, stack # <<>>, NEW f, NoBuild(f), Goto(f)
  PROVE  /\ NobodyBuilds
         /\ Reopens' => f # <<>> /\ top' = Head(f)
<1>1. PICK T : f \in Seq(T)
  BY DEF NoBuild
<1>2. /\ Len(f) \in Nat /\ Len(stack) \in Nat \ {0}
      /\ Len(stack') = Len(f) + Len(stack) - 1
      /\ \A i \in 1 .. Len(f) : stack'[i] = f[i]
      /\ \A j \in Positions' : ~(j <= Len(f)) =>
           j - Len(f) + 1 \in 2 .. Len(stack) /\ stack'[j] = stack[j - Len(f) + 1]
  BY <1>1, Replaced
<1> DEFINE d == Len(f) - 1
<1>3. ASSUME NEW i \in Positions', stack'[i].pc = "built"
      PROVE  i - d \in Positions /\ stack'[i] = stack[i - d]
  <2>1. ~(i <= Len(f))
    <3>1. i \in Nat /\ i >= 1
      BY <1>2 DEF Positions
    <3>2. i <= Len(f) => i \in 1 .. Len(f)
      BY <1>2, <3>1
    <3> QED BY <1>2, <1>3, <3>2 DEF NoBuild
  <2>2. i - Len(f) + 1 \in 2 .. Len(stack) /\ stack'[i] = stack[i - Len(f) + 1]
    BY <1>2, <2>1
  <2>3. i - d = i - Len(f) + 1
    BY <1>2 DEF Positions
  <2> QED BY <1>2, <2>2, <2>3 DEF Positions
<1>4. d \in Int
  BY <1>2
<1>5. NobodyBuilds
  BY <1>3, <1>4 DEF NobodyBuilds
<1>6. ASSUME Reopens' PROVE f # <<>> /\ top' = Head(f)
  <2>1. /\ stack' # <<>> /\ top' = Head(stack') /\ top'.pc \in {"slot", "retry"}
    BY <1>6 DEF Reopens, At, top
  <2>2. stack' \in Seq(Frames(Created) \cup T)
    <3> DEFINE F == Frames(Created)
               S == F \cup T
    <3>1. stack \in Seq(S) /\ f \in Seq(S)
      <4>1. stack \in Seq(F)
        BY DEF TypeInv, StackOK
      <4> HIDE DEF F
      <4> QED BY <1>1, <4>1
    <3> HIDE DEF S
    <3>2. Tail(stack) \in Seq(S)
      BY <3>1, HeadTailProperties
    <3>3. f \o Tail(stack) \in Seq(S)
      BY <3>1, <3>2, ConcatProperties
    <3> QED BY <3>3 DEF Goto, S
  <2>3. top' = stack'[1] /\ Len(stack') \in Nat \ {0}
    BY <2>1, <2>2, FirstElement
  <2>4. 1 \in Positions'
    BY <2>3 DEF Positions
  <2>5. CASE Len(f) = 0
    <3>1. 1 - Len(f) + 1 \in 2 .. Len(stack) /\ stack'[1] = stack[1 - Len(f) + 1]
      BY <1>2, <2>4, <2>5
    <3>2. 2 \in Positions /\ stack'[1] = stack[2]
      BY <1>2, <2>5, <3>1 DEF Positions
    <3>3. stack[2].pc \in LowerPcs
      BY <3>2, LowerFrames
    <3> QED BY <2>1, <2>3, <3>2, <3>3 DEF LowerPcs
  <2>6. CASE Len(f) # 0
    <3>1. f # <<>> /\ Head(f) = f[1]
      BY <1>1, <2>6, FirstElement
    <3>2. 1 \in 1 .. Len(f)
      BY <1>2, <2>6
    <3> QED BY <1>2, <2>3, <3>1, <3>2
  <2> QED BY <2>5, <2>6
<1> QED BY <1>5, <1>6

(* A step of a round's do-while loop. *)
LEMMA BuildProceeds ==
  ASSUME TypeInv, stack # <<>>, top.pc \in {"xmit", "parse"}, UNCHANGED request,
         NEW f, NoBuild(f), Proceed(f)
  PROVE  /\ NobodyBuilds
         /\ Reopens' => f # <<>> /\ top' = Head(f)
<1>1. CASE in_select
  <2>1. Goto(f)
    BY <1>1 DEF Proceed, Goto
  <2> QED BY <2>1, BuildCalls
<1>2. CASE ~in_select
  <2>1. stack' = Tail(Tail(stack))
    BY <1>2 DEF Proceed
  <2>2. /\ stack' # <<>> => Head(stack').pc \in LowerPcs
        /\ Len(stack') = Len(stack) - 2
        /\ \A i \in 1 .. Len(stack) - 2 : stack'[i] = stack[i + 2]
    BY <2>1, SameRequests, StackLeaves DEF TypeInv
  <2>3. Len(stack) \in Nat
    BY LenProperties DEF TypeInv, StackOK
  <2> DEFINE d == 0 - 2
  <2>4. ASSUME NEW i \in Positions'
        PROVE  i - d \in Positions /\ stack'[i] = stack[i - d]
    <3>1. i \in 1 .. Len(stack) - 2 /\ i - d = i + 2
      BY <2>2, <2>3 DEF Positions
    <3>2. i + 2 \in Positions
      BY <2>3, <3>1 DEF Positions
    <3> QED BY <2>2, <3>1, <3>2
  <2>5. NobodyBuilds
    <3>1. d \in Int
      OBVIOUS
    <3> QED BY <2>4, <3>1 DEF NobodyBuilds
  <2>6. ~Reopens'
    BY <2>2 DEF Reopens, At, LowerPcs
  <2> QED BY <2>5, <2>6
<1> QED BY <1>1, <1>2

(* The frames that wait to forget the request of server s. *)
BuildersKept(s) == \E d \in Int : \A i \in Positions' :
  Builds(stack'[i], s) => i - d \in Positions /\ Builds(stack[i - d], s)

LEMMA KeepsBuilders ==
  ASSUME NobodyBuilds, NEW s
  PROVE  BuildersKept(s)
<1>1. PICK d \in Int : \A i \in Positions' :
        stack'[i].pc = "built" => i - d \in Positions /\ stack'[i] = stack[i - d]
  BY DEF NobodyBuilds
<1>2. \A i \in Positions' : Builds(stack'[i], s) => i - d \in Positions /\ Builds(stack[i - d], s)
  BY <1>1 DEF Builds
<1> QED BY <1>2 DEF BuildersKept

(* A step that does not make s pending and takes no request from it. *)
LEMMA BuildingKept ==
  ASSUME NEW s, BuildingAt(s), BuildersKept(s),
         s \in ToSet(pending)' => s \in ToSet(pending),
         buildreq[s] # Null => buildreq'[s] # Null
  PROVE  BuildingAt(s)'
<1>1. PICK d \in Int : \A i \in Positions' :
        Builds(stack'[i], s) => i - d \in Positions /\ Builds(stack[i - d], s)
  BY DEF BuildersKept
<1>2. ASSUME NEW i \in Positions', NEW j \in Positions',
             Builds(stack'[i], s), Builds(stack'[j], s)
      PROVE  i = j
  <2>1. PICK x \in Positions : x = i - d /\ Builds(stack[x], s)
    BY <1>1, <1>2
  <2>2. PICK y \in Positions : y = j - d /\ Builds(stack[y], s)
    BY <1>1, <1>2
  <2>3. x = y
    BY <2>1, <2>2 DEF BuildingAt
  <2>4. i \in Int /\ j \in Int
    BY DEF Positions
  <2> QED BY <2>1, <2>2, <2>3, <2>4
<1>3. ASSUME NEW i \in Positions', Builds(stack'[i], s)
      PROVE  buildreq'[s] # Null /\ s \notin ToSet(pending)'
  BY <1>1, <1>3 DEF BuildingAt
<1> QED BY <1>2, <1>3 DEF BuildingAt

(* A step that neither builds a request nor finishes one. *)
LEMMA BuildingStep ==
  ASSUME TypeInv, Building, NobodyBuilds, UNCHANGED <<buildreq, pending>>, StaysFailed,
         Reopens' => status'[top'.s] # "failed"
  PROVE  Building'
<1>1. ASSUME NEW s \in Server, status'[s] # "failed" PROVE BuildingAt(s)'
  <2>1. BuildingAt(s)
    BY <1>1 DEF Building, StaysFailed
  <2> QED BY <2>1, KeepsBuilders, BuildingKept
<1> QED BY <1>1 DEF Building

(* ... by calling frames that open no connection anew. *)
LEMMA BuildingCall ==
  ASSUME TypeInv, Building, stack # <<>>, NEW f, NoBuild(f), Goto(f),
         f = <<>> \/ Head(f).pc \notin {"slot", "retry"},
         UNCHANGED <<buildreq, pending>>, StaysFailed
  PROVE  Building'
<1>1. NobodyBuilds /\ (Reopens' => f # <<>> /\ top' = Head(f))
  BY BuildCalls
<1>2. Reopens' => top'.pc \in {"slot", "retry"}
  BY DEF Reopens, At, top
<1> QED BY <1>1, <1>2, BuildingStep

(* ... by calling a frame that opens the connection of s anew. *)
LEMMA BuildingOpen ==
  ASSUME TypeInv, Building, stack # <<>>, NEW f, NoBuild(f), Goto(f),
         NEW s, Head(f).s = s, status'[s] # "failed",
         UNCHANGED <<buildreq, pending>>, StaysFailed
  PROVE  Building'
<1>1. NobodyBuilds /\ (Reopens' => f # <<>> /\ top' = Head(f))
  BY BuildCalls
<1> QED BY <1>1, BuildingStep

(* The same in a do-while loop of a round. *)
LEMMA BuildingServe ==
  ASSUME TypeInv, Building, stack # <<>>, top.pc \in {"xmit", "parse"}, UNCHANGED request,
         NEW f, NoBuild(f), Proceed(f),
         \/ f = <<>> \/ Head(f).pc \notin {"slot", "retry"}
         \/ Head(f).s = top.s /\ status'[top.s] # "failed",
         UNCHANGED <<buildreq, pending>>, StaysFailed
  PROVE  Building'
<1>1. NobodyBuilds /\ (Reopens' => f # <<>> /\ top' = Head(f))
  BY BuildProceeds
<1>2. Reopens' => top'.pc \in {"slot", "retry"}
  BY DEF Reopens, At, top
<1> QED BY <1>1, <1>2, BuildingStep

(* What becomes of the status. *)
LEMMA FailedStays ==
  ASSUME TypeInv
  PROVE  /\ UNCHANGED status => StaysFailed
         /\ UNCHANGED conn => StaysFailed
         /\ \A s \in Server : ServerFailure(s) => StaysFailed
         /\ \A s \in Server : Open(s) /\ status[s] # "failed" => StaysFailed /\ status'[s] # "failed"
<1>1. UNCHANGED status => StaysFailed
  BY DEF StaysFailed
<1>2. UNCHANGED conn => UNCHANGED status
  BY DEF conn
<1>3. status \in [Server -> {"failed", "retriable", "disconnected", "unknown", "connected"}]
  BY DEF TypeInv, ConnOK
<1>4. ASSUME NEW s \in Server, ServerFailure(s) PROVE StaysFailed
  BY <1>3, <1>4 DEF ServerFailure, StaysFailed
<1>5. ASSUME NEW s \in Server, Open(s), status[s] # "failed"
      PROVE  StaysFailed /\ status'[s] # "failed"
  BY <1>1, <1>2, <1>3, <1>5 DEF Open, StaysFailed
<1> QED BY <1>1, <1>2, <1>4, <1>5

LEMMA BuildingSchedule ==
  ASSUME TypeInv, Building,
         \/ ScheduleInvalid \/ Schedule \/ ScheduleRefused \/ SlotSend \/ SlotSendRefused \/ Unslot
  PROVE  Building'
<1>1. CASE ScheduleInvalid
  <2>1. NoBuild(<<Frame("failover", top.s, top.r)>>)
        /\ Head(<<Frame("failover", top.s, top.r)>>).pc \notin {"slot", "retry"}
    BY FewFrames DEF Frame, FrameOf
  <2> QED BY <1>1, <2>1, BuildingCall, FailedStays DEF ScheduleInvalid, At, slots, rounds
<1>2. CASE Schedule
  <2>1. top.s \in Server /\ status[top.s] # "failed"
    BY <1>2, AtTop DEF Schedule, FrameOK, ServerPcs, Valid
  <2>2. StaysFailed
    BY <1>2, <2>1, FailedStays DEF Schedule, Slot
  <2> QED BY <1>2, <2>2, BuildingCall, FewFrames DEF Schedule, At, Return
<1>3. CASE ScheduleRefused
  <2> DEFINE f == <<Frame("deactivate", top.s, Null), Frame("unslot", top.s, top.r)>>
  <2>1. NoBuild(f) /\ Head(f).pc \notin {"slot", "retry"}
    BY FewFrames DEF Frame, FrameOf
  <2> QED BY <1>3, <2>1, BuildingCall, FailedStays DEF ScheduleRefused, At, slots, rounds
<1>4. CASE SlotSend
  <2>1. top.s \in Server /\ status[top.s] # "failed"
    BY <1>4, AtTop DEF SlotSend, FrameOK, ServerPcs, Building, Reopens
  <2>2. StaysFailed
    BY <1>4, <2>1, FailedStays DEF SlotSend, Slot
  <2> QED BY <1>4, <2>2, BuildingCall, FewFrames DEF SlotSend, At, Return, rounds
<1>5. CASE SlotSendRefused
  <2> DEFINE f == <<Frame("deactivate", top.s, Null), Frame("unslot", top.s, top.r)>>
  <2>1. NoBuild(f) /\ Head(f).pc \notin {"slot", "retry"}
    BY FewFrames DEF Frame, FrameOf
  <2> QED BY <1>5, <2>1, BuildingCall, FailedStays DEF SlotSendRefused, At, slots, rounds
<1>6. CASE Unslot
  <2> DEFINE f == <<Frame("failover", top.s, top.r)>>
  <2>1. NoBuild(f) /\ Head(f).pc \notin {"slot", "retry"}
    BY FewFrames DEF Frame, FrameOf
  <2> QED BY <1>6, <2>1, BuildingCall, FailedStays DEF Unslot, At, rounds
<1> QED BY <1>1, <1>2, <1>3, <1>4, <1>5, <1>6

LEMMA BuildingFailOver ==
  ASSUME TypeInv, Building,
         \/ Drain \/ LeaveCallback \/ GiveUp \/ FailOver \/ FindNext \/ Unqueue \/ RetryRead
  PROVE  Building'
<1>1. CASE Drain
  <2> DEFINE f == <<Frame("failover", top.s, Head(top.q)), FrameOf("drain", top.s, Null, Tail(top.q), 0, 0)>>
             g == <<Frame("callback", top.s, Null)>>
  <2>1. /\ NoBuild(f) /\ NoBuild(g) /\ NoBuild(<<>>)
        /\ Head(f).pc \notin {"slot", "retry"} /\ Head(g).pc \notin {"slot", "retry"}
    BY FewFrames DEF Frame, FrameOf
  <2>2. stack # <<>> /\ (Goto(f) \/ Goto(g) \/ Goto(<<>>)) /\ UNCHANGED <<conn, slots, rounds>>
    BY <1>1 DEF Drain, At, Return
  <2>3. UNCHANGED <<buildreq, pending>> /\ StaysFailed
    BY <2>2, FailedStays DEF slots, rounds
  <2> HIDE DEF f, g
  <2> QED BY <2>1, <2>2, <2>3, BuildingCall
<1>2. CASE LeaveCallback \/ GiveUp
  BY <1>2, BuildingCall, FewFrames, FailedStays DEF LeaveCallback, GiveUp, At, Return, slots, rounds
<1>3. CASE FailOver
  <2> DEFINE f == <<Frame("probe", top.s, top.r)>>
             g == <<Each("get", top.r, want)>>
  <2>1. /\ NoBuild(f) /\ NoBuild(g)
        /\ Head(f).pc \notin {"slot", "retry"} /\ Head(g).pc \notin {"slot", "retry"}
    BY FewFrames DEF Frame, FrameOf, Each
  <2>2. stack # <<>> /\ (Goto(f) \/ Goto(g)) /\ UNCHANGED <<conn, slots, rounds>>
    BY <1>3 DEF FailOver, At
  <2>3. UNCHANGED <<buildreq, pending>> /\ StaysFailed
    BY <2>2, FailedStays DEF slots, rounds
  <2> HIDE DEF f, g
  <2> QED BY <2>1, <2>2, <2>3, BuildingCall
<1>4. CASE FindNext
  <2> DEFINE r      == top.r
             failed == request[r].failed \cup {top.s}
             i      == LastProbe(Head(request[r].keys), request[r].index, Server \ failed)
             s      == HashNext[Head(request[r].keys)][i]
             again  == ~Valid(s) /\ i + 1 < MaxAttempts /\ Cardinality(failed) < NumServers
             f      == <<Frame(IF again THEN "probe" ELSE "schedule", s, r)>>
  <2>1. stack # <<>> /\ Goto(f) /\ UNCHANGED <<conn, slots, rounds>>
    BY <1>4 DEF FindNext, At
  <2> HIDE DEF again, s, r
  <2>2. NoBuild(f) /\ Head(f).pc \notin {"slot", "retry"}
    BY FewFrames DEF Frame, FrameOf
  <2> HIDE DEF f
  <2> QED BY <2>1, <2>2, BuildingCall, FailedStays DEF slots, rounds
<1>5. CASE Unqueue
  BY <1>5, BuildingCall, FewFrames, FailedStays DEF Unqueue, At, Return, slots
<1>6. CASE RetryRead
  <2> DEFINE f == <<Frame("failover", top.s, top.r)>>
  <2>1. NoBuild(f) /\ Head(f).pc \notin {"slot", "retry"}
    BY FewFrames DEF Frame, FrameOf
  <2> QED BY <1>6, <2>1, BuildingCall, FailedStays DEF RetryRead, At
<1> QED BY <1>1, <1>2, <1>3, <1>4, <1>5, <1>6

LEMMA BuildingRetry ==
  ASSUME TypeInv, Building, Retry \/ Late
  PROVE  Building'
<1>1. CASE Retry
  <2>1. PICK n : \/ Goto(<<Frame("slot", top.s, n), Frame("unqueue", top.s, Null),
                           Frame("retryRead", top.s, top.r)>>)
                 \/ Goto(<<Frame("retryRead", top.s, top.r)>>)
    BY <1>1 DEF Retry
  <2> DEFINE f == <<Frame("slot", top.s, n), Frame("unqueue", top.s, Null),
                    Frame("retryRead", top.s, top.r)>>
             g == <<Frame("retryRead", top.s, top.r)>>
  <2>2. /\ NoBuild(f) /\ NoBuild(g) /\ Head(f).s = top.s
        /\ Head(g).pc \notin {"slot", "retry"}
    BY FewFrames DEF Frame, FrameOf
  <2>3. stack # <<>> /\ (Goto(f) \/ Goto(g)) /\ UNCHANGED <<conn, buildreq, pending>>
    BY <1>1, <2>1 DEF Retry, At, rounds
  <2>4. StaysFailed /\ status'[top.s] # "failed"
    BY <1>1, <2>3, FailedStays DEF Retry, Building, Reopens, conn
  <2> HIDE DEF f, g
  <2>5. CASE Goto(f)
    BY <2>2, <2>3, <2>4, <2>5, BuildingOpen
  <2>6. CASE Goto(g)
    BY <2>2, <2>3, <2>4, <2>6, BuildingCall
  <2> QED BY <2>3, <2>5, <2>6
<1>2. CASE Late
  <2> DEFINE f == <<Frame("retry", top.s, top.r)>>
             g == <<Frame("deactivate", top.s, Null)>>
  <2>1. /\ NoBuild(f) /\ NoBuild(g) /\ Head(f).s = top.s
        /\ Head(g).pc \notin {"slot", "retry"}
    BY FewFrames DEF Frame, FrameOf
  <2>2. /\ stack # <<>> /\ top.s \in Server /\ UNCHANGED <<buildreq, pending>>
        /\ UNCHANGED status \/ ServerFailure(top.s)
        /\ (Goto(f) /\ Retryable(top.s)) \/ Goto(g)
    BY <1>2, AtTop DEF Late, At, FrameOK, ServerPcs, slots, rounds
  <2>3. StaysFailed
    BY <2>2, FailedStays
  <2>4. status \in [Server -> {"failed", "retriable", "disconnected", "unknown", "connected"}]
    BY DEF TypeInv, ConnOK
  <2>5. Retryable(top.s) => status'[top.s] # "failed"
    BY <2>2, <2>4 DEF Retryable, ServerFailure
  <2> HIDE DEF f, g
  <2>6. CASE Goto(f) /\ Retryable(top.s)
    BY <2>1, <2>2, <2>3, <2>5, <2>6, BuildingOpen
  <2>7. CASE Goto(g)
    BY <2>1, <2>2, <2>3, <2>7, BuildingCall
  <2> QED BY <2>2, <2>6, <2>7
<1> QED BY <1>1, <1>2

LEMMA BuildingRound ==
  ASSUME TypeInv, Building,
         \/ HelpRound \/ Ready \/ Expire \/ SelectError \/ LateSend \/ LateRead
         \/ SendLoop \/ Unread \/ SendEnd \/ ReadLoop \/ EarlyDone \/ ParseEnd
  PROVE  Building'
<1>1. ASSUME NEW pc, NEW w, NEW i, pc \in {"lateSend", "lateRead", "send", "read"}
      PROVE  NoBuild(<<Loop(pc, w, i)>>) /\ Head(<<Loop(pc, w, i)>>).pc \notin {"slot", "retry"}
  BY <1>1, FewFrames DEF Loop, FrameOf
<1>2. CASE HelpRound
  BY <1>1, <1>2, BuildingCall, FailedStays DEF HelpRound, At, slots, rounds
<1>3. CASE Ready \/ Expire \/ SelectError
  <2>1. PICK pc, w, i : pc \in {"lateSend", "lateRead", "send", "read"} /\ Goto(<<Loop(pc, w, i)>>)
    <3>1. \/ Goto(<<Loop("send", cur, 0)>>)
          \/ \E i : Goto(<<Loop("lateSend", cur, i)>>)
      BY <1>3 DEF Ready, Expire, SelectError
    <3> QED BY <3>1
  <2>2. stack # <<>> /\ UNCHANGED <<conn, slots, pending>>
    BY <1>3 DEF Ready, Expire, SelectError, Switch, At
  <2> QED BY <1>1, <2>1, <2>2, BuildingCall, FailedStays DEF slots
<1>4. CASE LateSend \/ LateRead
  <2>1. stack # <<>> /\ top.pc \in {"lateSend", "lateRead"} /\ UNCHANGED <<conn, slots, pending>>
    BY <1>4 DEF LateSend, LateRead, At, top
  <2>2. \/ \E pc, w, i : pc \in {"lateRead", "send"} /\ Goto(<<Loop(pc, w, i)>>)
        \/ \E s, w, r : TakeOut(s, w, r)
    BY <1>4 DEF LateSend, LateRead
  <2>3. CASE \E pc, w, i : pc \in {"lateRead", "send"} /\ Goto(<<Loop(pc, w, i)>>)
    BY <1>1, <2>1, <2>3, BuildingCall, FailedStays DEF slots
  <2>4. CASE \E s, w, r : TakeOut(s, w, r)
    <3>1. PICK s, w, r : TakeOut(s, w, r)
      BY <2>4
    <3> DEFINE f == <<FrameOf("late", s, r, <<>>, 0, top.i), top>>
    <3>2. Goto(f)
      BY <3>1 DEF TakeOut
    <3>3. NoBuild(f) /\ Head(f).pc \notin {"slot", "retry"}
      BY <2>1, FewFrames DEF FrameOf
    <3> HIDE DEF f
    <3> QED BY <2>1, <3>2, <3>3, BuildingCall, FailedStays DEF slots
  <2> QED BY <2>2, <2>3, <2>4
<1>5. CASE SendLoop \/ ReadLoop
  <2>1. stack # <<>> /\ UNCHANGED <<conn, slots, pending>>
    BY <1>5 DEF SendLoop, ReadLoop, At
  <2>2. \/ Goto(<<>>)
        \/ \E pc, w, i : pc \in {"send", "read"} /\ Goto(<<Loop(pc, w, i)>>)
        \/ \E p, s, pc, w, i : /\ p \in {"xmit", "parse"} /\ pc \in {"send", "read"}
                               /\ Goto(<<FrameOf(p, s, Null, <<>>, w, 0), Loop(pc, w, i)>>)
    BY <1>5 DEF SendLoop, ReadLoop, Return
  <2>3. CASE Goto(<<>>)
    BY <2>1, <2>3, BuildingCall, FewFrames, FailedStays DEF slots
  <2>4. CASE \E pc, w, i : pc \in {"send", "read"} /\ Goto(<<Loop(pc, w, i)>>)
    BY <1>1, <2>1, <2>4, BuildingCall, FailedStays DEF slots
  <2>5. CASE \E p, s, pc, w, i : /\ p \in {"xmit", "parse"} /\ pc \in {"send", "read"}
                                 /\ Goto(<<FrameOf(p, s, Null, <<>>, w, 0), Loop(pc, w, i)>>)
    <3>1. PICK p, s, pc, w, i : /\ p \in {"xmit", "parse"} /\ pc \in {"send", "read"}
                                /\ Goto(<<FrameOf(p, s, Null, <<>>, w, 0), Loop(pc, w, i)>>)
      BY <2>5
    <3> DEFINE f == <<FrameOf(p, s, Null, <<>>, w, 0), Loop(pc, w, i)>>
    <3>2. NoBuild(f) /\ Head(f).pc \notin {"slot", "retry"}
      BY <3>1, FewFrames DEF FrameOf, Loop
    <3> QED BY <2>1, <3>1, <3>2, BuildingCall, FailedStays DEF slots
  <2> QED BY <2>2, <2>3, <2>4, <2>5
<1>6. CASE Unread \/ SendEnd \/ EarlyDone \/ ParseEnd
  <2>1. stack # <<>> /\ Goto(<<>>) /\ UNCHANGED <<conn, buildreq, pending>>
    BY <1>6 DEF Unread, SendEnd, EarlyDone, ParseEnd, At, Return, slots, rounds
  <2> QED BY <2>1, BuildingCall, FewFrames, FailedStays
<1> QED BY <1>2, <1>3, <1>4, <1>5, <1>6

LEMMA BuildingServed ==
  ASSUME TypeInv, Idle, Building,
         \/ SendDone \/ SendMore \/ SendError
         \/ ParseDone \/ ParseEarly \/ ParseValue \/ ParseError \/ ParseMore \/ ParseEof
  PROVE  Building'
<1>1. /\ stack # <<>> /\ top.pc \in {"xmit", "parse"} /\ top.s \in Server
      /\ UNCHANGED <<request, buildreq, pending>>
      /\ status[top.s] # "failed"
  <2>1. CASE SendDone \/ SendMore \/ SendError
    <3>1. At("xmit") /\ sendreq[top.s] # Null /\ UNCHANGED <<request, buildreq, pending>>
      BY <2>1 DEF SendDone, SendMore, SendError, Sending, slots, rounds, reqs
    <3> QED BY <3>1, AtTop DEF At, top, FrameOK, ServerPcs, Idle, IdleAt
  <2>2. CASE ParseDone \/ ParseEarly \/ ParseValue \/ ParseError \/ ParseMore \/ ParseEof
    <3>1. At("parse") /\ readreq[top.s] # Null /\ UNCHANGED <<request, buildreq, pending>>
      BY <2>2 DEF ParseDone, ParseEarly, ParseValue, ParseError, ParseMore, ParseEof, Parsing,
         slots, rounds, reqs
    <3> QED BY <3>1, AtTop DEF At, top, FrameOK, ServerPcs, Idle, IdleAt
  <2> QED BY <2>1, <2>2
<1>2. status \in [Server -> {"failed", "retriable", "disconnected", "unknown", "connected"}]
  BY DEF TypeInv, ConnOK
<1>3. StaysFailed /\ status'[top.s] # "failed"
  <2>1. \/ UNCHANGED status \/ ServerFailure(top.s)
        \/ status' = [status EXCEPT ![top.s] = "disconnected"]
    BY DEF SendDone, SendMore, SendError, ParseDone, ParseEarly, ParseValue, ParseError,
       ParseMore, ParseEof, conn
  <2> QED BY <1>1, <1>2, <2>1 DEF ServerFailure, StaysFailed
<1>4. ASSUME NEW f, NoBuild(f), Proceed(f),
             f = <<>> \/ Head(f).pc \notin {"slot", "retry"} \/ Head(f).s = top.s
      PROVE  Building'
  BY <1>1, <1>3, <1>4, BuildingServe
<1>5. CASE SendDone
  <2> DEFINE f == <<Frame("slot", top.s, Popped(sendqueue[top.s], Null)), top>>
  <2>1. NoBuild(f) /\ Head(f).s = top.s
    BY <1>1, FewFrames DEF Frame, FrameOf
  <2>2. Proceed(f)
    BY <1>5 DEF SendDone
  <2> HIDE DEF f
  <2> QED BY <1>4, <2>1, <2>2
<1>6. CASE SendMore \/ ParseMore
  <2>1. Proceed(<<>>)
    BY <1>6 DEF SendMore, ParseMore
  <2> QED BY <1>4, <2>1, FewFrames
<1>7. CASE SendError
  <2> DEFINE f == <<Frame("retry", top.s, sendreq[top.s])>>
             g == <<Frame("deactivate", top.s, Null), FrameOf("unread", top.s, Null, <<>>, top.w, 0)>>
  <2>1. /\ NoBuild(f) /\ Head(f).s = top.s
        /\ NoBuild(g) /\ Head(g).s = top.s
    BY FewFrames DEF Frame, FrameOf
  <2>2. Proceed(f) \/ Proceed(g)
    BY <1>7 DEF SendError
  <2> HIDE DEF f, g
  <2> QED BY <1>4, <2>1, <2>2
<1>8. CASE ParseDone \/ ParseValue
  <2>1. Proceed(<<top>>) /\ NoBuild(<<top>>) /\ Head(<<top>>).s = top.s
    BY <1>1, <1>8, FewFrames DEF ParseDone, ParseValue
  <2> QED BY <1>4, <2>1
<1>9. CASE ParseEarly
  <2> DEFINE f == <<Frame("slot", top.s, Popped(sendqueue[top.s], Null)),
                    Frame("unqueue", top.s, Null), Frame("early", top.s, Null), top>>
  <2>1. NoBuild(f) /\ Head(f).s = top.s
    BY <1>1, FewFrames DEF Frame, FrameOf
  <2>2. Proceed(f)
    BY <1>9 DEF ParseEarly
  <2> HIDE DEF f
  <2> QED BY <1>4, <2>1, <2>2
<1>10. CASE ParseError \/ ParseEof
  <2> DEFINE f == <<Frame("retry", top.s, readreq[top.s])>>
             g == <<Frame("deactivate", top.s, Null)>>
  <2>1. /\ NoBuild(f) /\ Head(f).s = top.s
        /\ NoBuild(g) /\ Head(g).s = top.s
    BY FewFrames DEF Frame, FrameOf
  <2>2. Proceed(f) \/ Proceed(g)
    BY <1>10 DEF ParseError, ParseEof
  <2> HIDE DEF f, g
  <2> QED BY <1>4, <2>1, <2>2
<1> QED BY <1>5, <1>6, <1>7, <1>8, <1>9, <1>10

LEMMA BuildingCalls ==
  ASSUME TypeInv, Building,
         \/ RunRounds \/ Store \/ Stored \/ CloneKey \/ GetFull \/ GetEnd
         \/ Flush \/ Flushed \/ Ask \/ Asked
  PROVE  Building'
<1>1. stack # <<>> /\ UNCHANGED <<buildreq, pending>> /\ StaysFailed
  <2>1. stack # <<>> /\ UNCHANGED <<conn, slots, rounds>>
    BY DEF RunRounds, Store, Stored, CloneKey, GetFull, GetEnd, Flush, Flushed, Ask, Asked, At
  <2> QED BY <2>1, FailedStays DEF slots, rounds
<1>2. ASSUME NEW f, NoBuild(f), Goto(f), f = <<>> \/ Head(f).pc \notin {"slot", "retry"}
      PROVE  Building'
  BY <1>1, <1>2, BuildingCall
<1>3. NoBuild(<<>>)
  BY FewFrames
<1>4. CASE RunRounds \/ GetEnd
  <2>1. (Goto(<<Frame("select", NoServer, Null), top>>) /\ top.pc = "run") \/ Goto(<<>>)
    BY <1>4 DEF RunRounds, GetEnd, Return, At, top
  <2> DEFINE f == <<Frame("select", NoServer, Null), top>>
  <2>2. top.pc = "run" => NoBuild(f) /\ Head(f).pc \notin {"slot", "retry"}
    BY FewFrames DEF Frame, FrameOf
  <2> HIDE DEF f
  <2> QED BY <1>2, <1>3, <2>1, <2>2 DEF f
<1>5. CASE Store
  <2> DEFINE k == Head(top.q)
             r == NewRequest
             s == Find(k)
             last == FrameOf("stored", NoServer, Null, Tail(top.q), top.w, top.i)
             a == Frame("schedule", s, r)
             b == CloneOf(s, r, <<>>, 0, 0, k, FALSE)
             run == Frame("run", NoServer, Null)
  <2>1. \/ Goto(<<run>>)
        \/ Goto(<<a, b>> \o <<last>>)
        \/ Goto(<<a>> \o <<last>>)
    BY <1>5 DEF Store
  <2>2. run.pc = "run" /\ last.pc = "stored" /\ a.pc = "schedule" /\ b.pc = "clone"
    BY DEF Frame, FrameOf, CloneOf
  <2> HIDE DEF last, a, b, run
  <2>3. Goto(<<run>>) \/ Goto(<<a, b, last>>) \/ Goto(<<a, last>>)
    BY <2>1, FramesJoined, ThreeFrames
  <2>4. /\ NoBuild(<<run>>) /\ Head(<<run>>) = run
        /\ NoBuild(<<a, b, last>>) /\ Head(<<a, b, last>>) = a
        /\ NoBuild(<<a, last>>) /\ Head(<<a, last>>) = a
    BY <2>2, FewFrames
  <2> QED BY <1>2, <2>2, <2>3, <2>4
<1>6. CASE Stored
  <2> DEFINE more == FrameOf("store", NoServer, Null, top.q, top.w, top.i)
             a == Frame("select", NoServer, Null)
  <2>1. Goto(<<>>) \/ Goto(<<a, more>>) \/ Goto(<<more>>)
    BY <1>6 DEF Stored
  <2>2. a.pc = "select" /\ more.pc = "store"
    BY DEF Frame, FrameOf
  <2> HIDE DEF a, more
  <2>3. /\ NoBuild(<<a, more>>) /\ Head(<<a, more>>) = a
        /\ NoBuild(<<more>>) /\ Head(<<more>>) = more
    BY <2>2, FewFrames
  <2> QED BY <1>2, <1>3, <2>1, <2>2, <2>3
<1>7. CASE CloneKey
  <2>1. \/ Goto(<<>>)
        \/ \E s, r, q, w, i, k, ok :
             \/ Goto(<<CloneOf(s, r, q, w, i, k, ok)>>)
             \/ \E c : Goto(<<Frame("schedule", s, c), CloneOf(s, r, q, w, i, k, ok)>>)
    <3> DEFINE ok == IF top.i = 0 THEN rv ELSE top.ok
               skip == Append(top.q, top.s)
               j == LastProbe(top.k, top.w, Server \ ToSet(skip))
               s == HashNext[top.k][j]
               next == CloneOf(s, top.r, skip, j + 1, top.i + 1, top.k, ok)
    <3>1. \/ Goto(<<>>) \/ Goto(<<next>>) \/ Goto(<<Frame("schedule", s, NewRequest), next>>)
      BY <1>7 DEF CloneKey, Return
    <3> HIDE DEF s, skip, j, ok
    <3> QED BY <3>1
  <2>2. CASE \E s, r, q, w, i, k, ok :
               \/ Goto(<<CloneOf(s, r, q, w, i, k, ok)>>)
               \/ \E c : Goto(<<Frame("schedule", s, c), CloneOf(s, r, q, w, i, k, ok)>>)
    <3>1. PICK s, r, q, w, i, k, ok :
               \/ Goto(<<CloneOf(s, r, q, w, i, k, ok)>>)
               \/ \E c : Goto(<<Frame("schedule", s, c), CloneOf(s, r, q, w, i, k, ok)>>)
      BY <2>2
    <3> DEFINE next == CloneOf(s, r, q, w, i, k, ok)
    <3>2. next.pc = "clone" /\ \A c : Frame("schedule", s, c).pc = "schedule"
      BY DEF CloneOf, Frame, FrameOf
    <3>3. Goto(<<next>>) \/ \E c : Goto(<<Frame("schedule", s, c), next>>)
      BY <3>1
    <3> HIDE DEF next
    <3>4. CASE Goto(<<next>>)
      <4>1. NoBuild(<<next>>) /\ Head(<<next>>) = next
        BY <3>2, FewFrames
      <4> QED BY <1>2, <3>2, <3>4, <4>1
    <3>5. CASE \E c : Goto(<<Frame("schedule", s, c), next>>)
      <4>1. PICK c : Goto(<<Frame("schedule", s, c), next>>)
        BY <3>5
      <4> DEFINE a == Frame("schedule", s, c)
      <4>2. a.pc = "schedule" /\ Goto(<<a, next>>)
        BY <3>2, <4>1
      <4> HIDE DEF a
      <4>3. NoBuild(<<a, next>>) /\ Head(<<a, next>>) = a
        BY <3>2, <4>2, FewFrames
      <4> QED BY <1>2, <4>2, <4>3
    <3> QED BY <3>3, <3>4, <3>5
  <2> QED BY <1>2, <1>3, <2>1, <2>2
<1>8. CASE GetFull
  <2> DEFINE s == Find(Head(top.q))
             a == Frame("schedule", s, buildreq[s])
             b == Frame("select", NoServer, Null)
             c == FrameOf("rebuild", s, top.r, top.q, 0, 0)
  <2>1. Goto(<<a, b, c>>)
    BY <1>8 DEF GetFull
  <2>2. a.pc = "schedule" /\ b.pc = "select" /\ c.pc = "rebuild"
    BY DEF Frame, FrameOf
  <2> HIDE DEF a, b, c
  <2>3. NoBuild(<<a, b, c>>) /\ Head(<<a, b, c>>) = a
    BY <2>2, FewFrames
  <2> QED BY <1>2, <2>1, <2>2, <2>3
<1>9. CASE Flush \/ Flushed
  <2> DEFINE run == Frame("run", NoServer, Null)
             a == Frame("schedule", Head(top.q), NewRequest)
             b == Each("flushed", Null, Tail(top.q))
             c == Frame("select", NoServer, Null)
             d == Each("flush", Null, top.q)
  <2>1. \/ Goto(<<run>>) \/ Goto(<<a, b>>)
        \/ Goto(<<c>> \o <<d>>) \/ Goto(<<>> \o <<d>>)
    BY <1>9 DEF Flush, Flushed
  <2>2. run.pc = "run" /\ a.pc = "schedule" /\ b.pc = "flushed" /\ c.pc = "select" /\ d.pc = "flush"
    BY DEF Frame, FrameOf, Each
  <2> HIDE DEF run, a, b, c, d
  <2>3. Goto(<<run>>) \/ Goto(<<a, b>>) \/ Goto(<<c, d>>) \/ Goto(<<d>>)
    BY <2>1, FramesJoined
  <2>4. /\ NoBuild(<<run>>) /\ Head(<<run>>) = run
        /\ NoBuild(<<a, b>>) /\ Head(<<a, b>>) = a
        /\ NoBuild(<<c, d>>) /\ Head(<<c, d>>) = c
        /\ NoBuild(<<d>>) /\ Head(<<d>>) = d
    BY <2>2, FewFrames
  <2> QED BY <1>2, <2>2, <2>3, <2>4
<1>10. CASE Ask
  <2> DEFINE run == Frame("run", NoServer, Null)
             a == Frame("schedule", Head(top.q), NewRequest)
             b == FrameOf("asked", NoServer, Null, Tail(top.q), top.w, 0)
  <2>1. Goto(<<>>) \/ Goto(<<run>>) \/ Goto(<<a, b>>)
    BY <1>10 DEF Ask
  <2>2. run.pc = "run" /\ a.pc = "schedule" /\ b.pc = "asked"
    BY DEF Frame, FrameOf
  <2> HIDE DEF run, a, b
  <2>3. /\ NoBuild(<<run>>) /\ Head(<<run>>) = run
        /\ NoBuild(<<a, b>>) /\ Head(<<a, b>>) = a
    BY <2>2, FewFrames
  <2> QED BY <1>2, <1>3, <2>1, <2>2, <2>3
<1>11. CASE Asked
  <2>1. PICK q : Goto((IF rv THEN <<Frame("run", NoServer, Null)>> ELSE <<>>)
                      \o <<FrameOf("ask", NoServer, Null, q, top.w, 0)>>)
    BY <1>11 DEF Asked
  <2> DEFINE run == Frame("run", NoServer, Null)
             d == FrameOf("ask", NoServer, Null, q, top.w, 0)
  <2>2. Goto(<<run>> \o <<d>>) \/ Goto(<<>> \o <<d>>)
    BY <2>1
  <2>3. run.pc = "run" /\ d.pc = "ask"
    BY DEF Frame, FrameOf
  <2> HIDE DEF run, d
  <2>4. Goto(<<run, d>>) \/ Goto(<<d>>)
    BY <2>2, FramesJoined
  <2>5. /\ NoBuild(<<run, d>>) /\ Head(<<run, d>>) = run
        /\ NoBuild(<<d>>) /\ Head(<<d>>) = d
    BY <2>3, FewFrames
  <2> QED BY <1>2, <2>3, <2>4, <2>5
<1> QED BY <1>4, <1>5, <1>6, <1>7, <1>8, <1>9, <1>10, <1>11

(* mmc_server_deactivate takes the request of the server that fails. *)
LEMMA BuildingDeactivate ==
  ASSUME TypeInv, Building, RetryInterval = "never", Deactivate
  PROVE  Building'
<1> DEFINE s == top.s
           f == <<FrameOf("drain", s, Null,
                    WithRequest(WithRequest(readqueue[s], readreq[s]), buildreq[s]), 0, 0)>>
<1>1. /\ s \in Server /\ stack # <<>>
      /\ status \in [Server -> {"failed", "retriable", "disconnected", "unknown", "connected"}]
      /\ buildreq \in [Server -> Created \cup {Null}]
  BY AtTop DEF Deactivate, At, FrameOK, ServerPcs, TypeInv, ConnOK, SlotsOK
<1>2. /\ status' = [status EXCEPT ![s] = "failed"]
      /\ buildreq' = [buildreq EXCEPT ![s] = Null]
      /\ Goto(f) /\ UNCHANGED pending
  BY DEF Deactivate, FailedStatus, Vacate
<1>3. NoBuild(f) /\ Head(f).pc = "drain"
  BY FewFrames DEF FrameOf
<1> HIDE DEF f
<1>4. NobodyBuilds /\ ~Reopens'
  <2>1. NobodyBuilds /\ (Reopens' => f # <<>> /\ top' = Head(f))
    BY <1>1, <1>2, <1>3, BuildCalls
  <2>2. Reopens' => top'.pc \in {"slot", "retry"}
    BY DEF Reopens, At, top
  <2> QED BY <1>3, <2>1, <2>2
<1>5. ASSUME NEW t \in Server, status'[t] # "failed" PROVE BuildingAt(t)'
  <2>1. t # s /\ status[t] # "failed" /\ buildreq'[t] = buildreq[t]
    BY <1>1, <1>2, <1>5
  <2>2. BuildingAt(t)
    BY <2>1 DEF Building
  <2> QED BY <1>2, <1>4, <2>1, <2>2, KeepsBuilders, BuildingKept
<1> QED BY <1>2, <1>4, <1>5 DEF Building

(* mmc_pool_schedule_pending takes a server from pool->pending ... *)
LEMMA BuildingRunPending ==
  ASSUME TypeInv, Building, RunPending
  PROVE  Building'
<1>0. PICK s \in Server : s = Head(pending)
  BY FirstElement DEF RunPending, TypeInv, RoundsOK
<1> DEFINE a == Frame("schedule", s, buildreq[s])
           b == Frame("built", s, Null)
           f == <<a, b, top>>
<1>1. /\ stack # <<>> /\ top.pc = "run" /\ pending # <<>> /\ pending \in Seq(Server)
      /\ buildreq[s] # Null /\ pending' = Tail(pending) /\ Goto(f)
      /\ UNCHANGED <<status, buildreq>>
  BY <1>0 DEF RunPending, At, top, TypeInv, RoundsOK, conn, slots
<1>2. /\ s \in Server /\ s \in ToSet(pending) /\ s \notin ToSet(pending)'
      /\ ToSet(pending)' \subseteq ToSet(pending) /\ Distinct(pending)'
  <2>1. Distinct(pending)
    BY DEF Building
  <2>2. /\ ToSet(pending) = ToSet(Rest(pending)) \cup {Popped(pending, Null)}
        /\ Popped(pending, Null) \notin ToSet(Rest(pending)) /\ Distinct(Rest(pending))
        /\ Rest(pending) = Tail(pending) /\ Popped(pending, Null) = Head(pending)
    BY <1>1, <2>1, RestDrops
  <2>3. Popped(pending, Null) = s /\ Rest(pending) = pending'
    BY <1>0, <1>1, <2>2
  <2> QED BY <2>2, <2>3
<1>3. a.pc = "schedule" /\ b.pc = "built" /\ b.s = s
  BY DEF Frame, FrameOf
<1> HIDE DEF a, b
<1>4. /\ f \in Seq({a, b, top}) /\ Len(f) = 3
      /\ f[1] = a /\ f[2] = b /\ f[3] = top
  OBVIOUS
<1> HIDE DEF f
<1>5. /\ Len(f) \in Nat /\ Len(stack) \in Nat \ {0}
      /\ Len(stack') = Len(f) + Len(stack) - 1
      /\ \A i \in 1 .. Len(f) : stack'[i] = f[i]
      /\ \A j \in Positions' : ~(j <= Len(f)) =>
           j - Len(f) + 1 \in 2 .. Len(stack) /\ stack'[j] = stack[j - Len(f) + 1]
  BY <1>1, <1>4, Replaced
<1>6. /\ stack'[1] = a /\ stack'[2] = b /\ stack'[3] = top
      /\ \A i \in Positions' : i \in {1, 2, 3} \/ (i - 2 \in Positions /\ stack'[i] = stack[i - 2])
  <2>1. stack'[1] = a /\ stack'[2] = b /\ stack'[3] = top
    BY <1>4, <1>5
  <2>2. ASSUME NEW i \in Positions', i \notin {1, 2, 3}
        PROVE  i - 2 \in Positions /\ stack'[i] = stack[i - 2]
    <3>1. i \in Nat /\ i > 3 /\ i - 3 + 1 = i - 2
      BY <2>2 DEF Positions
    <3>2. i - 2 \in 2 .. Len(stack) /\ stack'[i] = stack[i - 2]
      BY <1>4, <1>5, <3>1
    <3> QED BY <1>5, <3>2 DEF Positions
  <2> QED BY <2>1, <2>2
<1>7. ~Reopens'
  <2>1. 1 \in Positions' /\ stack' # <<>> /\ top' = stack'[1]
    <3>1. stack' \in Seq({a, b, top} \cup Frames(Created))
      <4> DEFINE F == Frames(Created)
                 S == {a, b, top} \cup F
      <4>1. f \in Seq(S) /\ stack \in Seq(S)
        <5>1. stack \in Seq(F)
          BY DEF TypeInv, StackOK
        <5> HIDE DEF F
        <5> QED BY <1>4, <5>1
      <4> HIDE DEF S
      <4>2. Tail(stack) \in Seq(S)
        BY <1>1, <4>1, HeadTailProperties
      <4>3. f \o Tail(stack) \in Seq(S)
        BY <4>1, <4>2, ConcatProperties
      <4> QED BY <1>1, <4>3 DEF Goto, S
    <3>2. Len(stack') \in Nat /\ Len(stack') > 0
      BY <1>4, <1>5
    <3>3. stack' # <<>>
      BY <3>2
    <3> QED BY <3>1, <3>2, <3>3, FirstElement DEF top, Positions
  <2>2. top'.pc = "schedule"
    BY <1>3, <1>6, <2>1
  <2> QED BY <2>2 DEF Reopens, At, top
<1>8. ASSUME NEW t \in Server, t # s PROVE BuildersKept(t)
  <2>1. 2 \in Int
    OBVIOUS
  <2>2. ASSUME NEW i \in Positions', Builds(stack'[i], t)
        PROVE  i - 2 \in Positions /\ Builds(stack[i - 2], t)
    BY <1>1, <1>3, <1>6, <1>8, <2>2 DEF Builds
  <2> QED BY <2>1, <2>2 DEF BuildersKept
<1>9. ASSUME status[s] # "failed" PROVE BuildingAt(s)'
  <2>1. BuildingAt(s)
    BY <1>2, <1>9 DEF Building
  <2>2. \A i \in Positions : ~Builds(stack[i], s)
    BY <1>2, <2>1 DEF BuildingAt
  <2>3. \A i \in Positions' : Builds(stack'[i], s) => i = 2
    BY <1>1, <1>3, <1>6, <2>2 DEF Builds
  <2> QED BY <1>1, <1>2, <2>3 DEF BuildingAt
<1>10. ASSUME NEW t \in Server, status'[t] # "failed" PROVE BuildingAt(t)'
  <2>1. CASE t = s
    BY <1>1, <1>9, <1>10, <2>1
  <2>2. CASE t # s
    <3>1. BuildingAt(t)
      BY <1>1, <1>10 DEF Building
    <3> QED BY <1>1, <1>2, <1>8, <2>2, <3>1, BuildingKept
  <2> QED BY <2>1, <2>2
<1> QED BY <1>2, <1>7, <1>10 DEF Building

(* ... and forgets its request when that is scheduled. *)
LEMMA BuildingBuilt ==
  ASSUME TypeInv, Building, Built
  PROVE  Building'
<1>1. PICK s \in Server : s = top.s /\ Builds(top, s)
  BY AtTop DEF Built, FrameOK, ServerPcs, Builds
<1>2. /\ stack # <<>> /\ Goto(<<>>) /\ UNCHANGED <<status, pending>>
      /\ buildreq' = [buildreq EXCEPT ![s] = Null]
      /\ buildreq \in [Server -> Created \cup {Null}]
  BY <1>1 DEF Built, At, Return, conn, rounds, TypeInv, SlotsOK
<1>3. NobodyBuilds /\ ~Reopens'
  BY <1>2, BuildCalls, FewFrames
<1>4. /\ Len(stack) \in Nat \ {0} /\ top = stack[1]
      /\ \A j \in Positions' : j + 1 \in 2 .. Len(stack) /\ stack'[j] = stack[j + 1]
  <2> DEFINE f == <<>>
  <2>1. f \in Seq({}) /\ Len(f) = 0 /\ Goto(f)
    BY <1>2
  <2> HIDE DEF f
  <2>2. /\ Len(stack) \in Nat \ {0} /\ top = stack[1]
        /\ \A j \in Positions' : ~(j <= Len(f)) =>
             j - Len(f) + 1 \in 2 .. Len(stack) /\ stack'[j] = stack[j - Len(f) + 1]
    BY <1>2, <2>1, Replaced
  <2>3. ASSUME NEW j \in Positions' PROVE j + 1 \in 2 .. Len(stack) /\ stack'[j] = stack[j + 1]
    <3>1. ~(j <= Len(f)) /\ j - Len(f) + 1 = j + 1
      BY <2>1 DEF Positions
    <3> QED BY <2>2, <3>1
  <2> QED BY <2>2, <2>3
<1>5. ASSUME status[s] # "failed" PROVE BuildingAt(s)'
  <2>1. BuildingAt(s)
    BY <1>5 DEF Building
  <2>2. 1 \in Positions /\ Builds(stack[1], s)
    BY <1>1, <1>4 DEF Positions
  <2>3. s \notin ToSet(pending)
    BY <2>1, <2>2 DEF BuildingAt
  <2>4. ASSUME NEW i \in Positions', Builds(stack'[i], s) PROVE FALSE
    <3>1. i + 1 \in Positions /\ i + 1 # 1 /\ Builds(stack[i + 1], s)
      BY <1>4, <2>4 DEF Positions
    <3> QED BY <2>1, <2>2, <3>1 DEF BuildingAt
  <2> QED BY <1>2, <2>3, <2>4 DEF BuildingAt
<1>6. ASSUME NEW t \in Server, status'[t] # "failed" PROVE BuildingAt(t)'
  <2>1. CASE t = s
    BY <1>2, <1>5, <1>6, <2>1
  <2>2. CASE t # s
    <3>1. BuildingAt(t) /\ buildreq'[t] = buildreq[t]
      BY <1>2, <1>6, <2>2 DEF Building
    <3> QED BY <1>2, <1>3, <3>1, KeepsBuilders, BuildingKept
  <2> QED BY <2>1, <2>2
<1> QED BY <1>2, <1>3, <1>6 DEF Building

(* mmc_pool_schedule_get makes a server pending that has no request. *)
LEMMA BuildingGet ==
  ASSUME TypeInv, Building, Get \/ Rebuild
  PROVE  Building'
<1> DEFINE a == Each("get", top.r, Tail(top.q))
<1>1. /\ stack # <<>> /\ Goto(<<a>>) /\ UNCHANGED status
      /\ buildreq \in [Server -> Created \cup {Null}] /\ pending \in Seq(Server)
      /\ Distinct(pending)
  BY DEF Get, Rebuild, At, conn, TypeInv, SlotsOK, RoundsOK, Building
<1>2. NobodyBuilds /\ ~Reopens'
  <2>1. a.pc = "get"
    BY DEF Each, FrameOf
  <2> HIDE DEF a
  <2>2. NoBuild(<<a>>) /\ Head(<<a>>) = a
    BY <2>1, FewFrames
  <2>3. Reopens' => top' = a
    BY <1>1, <2>2, BuildCalls
  <2>4. Reopens' => top'.pc \in {"slot", "retry"}
    BY DEF Reopens, At, top
  <2> QED BY <1>1, <2>1, <2>2, <2>3, <2>4, BuildCalls
<1> HIDE DEF a
<1>3. NewRequest # Null
  BY NewRequestType DEF Null
<1>4. CASE UNCHANGED <<buildreq, pending>>
  BY <1>1, <1>2, <1>4, BuildingStep DEF StaysFailed
<1>5. CASE Rebuild
  <2>1. buildreq' = [buildreq EXCEPT ![top.s] = NewRequest] /\ UNCHANGED pending
    BY <1>5 DEF Rebuild, rounds
  <2>2. ASSUME NEW t \in Server, status'[t] # "failed" PROVE BuildingAt(t)'
    <3>1. BuildingAt(t)
      BY <1>1, <2>2 DEF Building
    <3>2. buildreq[t] # Null => buildreq'[t] # Null
      BY <1>1, <1>3, <2>1
    <3> QED BY <1>2, <2>1, <3>1, <3>2, KeepsBuilders, BuildingKept
  <2> QED BY <1>1, <1>2, <2>1, <2>2 DEF Building
<1>6. CASE Get /\ ~UNCHANGED <<buildreq, pending>>
  <2>1. PICK s : s = Find(Head(top.q))
    OBVIOUS
  <2>2. s \in Server
    <3>1. top.q \in Seq(Key) /\ top.q # <<>>
      BY <1>6, AtTop DEF Get, FrameOK
    <3>2. Head(top.q) \in Key
      BY <3>1, FirstElement
    <3> QED BY <2>1, <3>2, FindType DEF TypeInv
  <2>3. /\ status[s] # "failed" /\ buildreq[s] = Null
        /\ pending' = Push(pending, s) /\ buildreq' = [buildreq EXCEPT ![s] = NewRequest]
    BY <1>6, <2>1 DEF Get, Valid
  <2>4. ToSet(pending)' = ToSet(pending) \cup {s} /\ Distinct(pending)'
    BY <1>1, <2>2, <2>3, PushAdds
  <2>5. BuildingAt(s)'
    <3>1. BuildingAt(s)
      BY <2>2, <2>3 DEF Building
    <3>2. \A i \in Positions : ~Builds(stack[i], s)
      BY <2>3, <3>1 DEF BuildingAt
    <3>3. \A i \in Positions' : ~Builds(stack'[i], s)
      BY <1>2, <3>2, KeepsBuilders DEF BuildersKept
    <3>4. buildreq'[s] # Null
      BY <1>1, <1>3, <2>2, <2>3
    <3> QED BY <3>3, <3>4 DEF BuildingAt
  <2>6. ASSUME NEW t \in Server, status'[t] # "failed", t # s PROVE BuildingAt(t)'
    <3>1. BuildingAt(t) /\ buildreq'[t] = buildreq[t]
      BY <1>1, <2>2, <2>3, <2>6 DEF Building
    <3> QED BY <1>2, <2>4, <2>6, <3>1, KeepsBuilders, BuildingKept
  <2> QED BY <1>2, <2>4, <2>5, <2>6 DEF Building
<1> QED BY <1>4, <1>5, <1>6

(* The script calls the extension above the frames it was called back from. *)
LEMMA BuildingScript ==
  ASSUME TypeInv, Building, NEW call \in Calls, Call(call)
  PROVE  Building'
<1> DEFINE run == Frame("run", NoServer, Null)
           get == Each("get", Null, call.keys)
           x == CASE call.op = "set"      -> FrameOf("store", NoServer, Null, call.keys, 0, Redundancy)
                  [] call.op = "setMulti" -> FrameOf("store", NoServer, Null, call.keys, 1, Redundancy)
                  [] call.op = "get"      -> FrameOf("store", NoServer, Null, call.keys, 0, 1)
                  [] call.op = "flush"    -> Each("flush", Null, Servers)
                  [] call.op = "version"  -> FrameOf("ask", NoServer, Null, Servers, 0, 0)
                  [] call.op = "stats"    -> FrameOf("ask", NoServer, Null, Servers, 1, 0)
<1>1. call.op \in {"set", "setMulti", "get", "getMulti", "flush", "version", "stats"}
  BY ConfigType DEF TypeInv, RestOK
<1>2. UNCHANGED <<status, buildreq, pending>>
  BY DEF Call, conn, slots, rounds
<1>3. StaysFailed
  BY <1>2 DEF StaysFailed
<1>4. CASE call.op # "getMulti"
  <2>1. stack' = <<x>> \o stack
    BY <1>1, <1>4 DEF Call
  <2>2. x.pc \in {"store", "flush", "ask"}
    BY <1>1, <1>4 DEF FrameOf, Each
  <2> HIDE DEF x
  <2>3. CASE stack = <<>>
    <3>1. stack' = <<x>>
      <4>1. <<x>> \in Seq({x}) /\ <<x>> \o <<>> = <<x>>
        BY ConcatEmptySeq
      <4> QED BY <2>1, <2>3, <4>1
    <3>2. top' = x /\ NobodyBuilds
      <4>1. Len(<<x>>) = 1 /\ <<x>>[1] = x /\ Head(<<x>>) = x /\ 0 \in Int
        OBVIOUS
      <4>2. \A i \in Positions' : stack'[i].pc # "built"
        BY <2>2, <3>1, <4>1 DEF Positions
      <4> QED BY <3>1, <4>1, <4>2 DEF NobodyBuilds, top
    <3> QED BY <1>2, <1>3, <2>2, <3>2, BuildingStep DEF Reopens, At, top
  <2>4. CASE At("callback")
    <3>1. stack # <<>> /\ top.pc = "callback"
      BY <2>4, AtTop
    <3>2. Goto(<<x, top>>)
      <4> DEFINE F == Frames(Created)
                 S == F \cup {x}
      <4>1. stack \in Seq(F)
        BY DEF TypeInv, StackOK
      <4> HIDE DEF F
      <4>2. stack \in Seq(S) /\ x \in S
        BY <4>1
      <4> HIDE DEF S
      <4>3. <<x>> \o stack = <<x, Head(stack)>> \o Tail(stack)
        BY <3>1, <4>2, CallOnTop
      <4> QED BY <2>1, <4>3 DEF Goto, top
    <3>3. NoBuild(<<x, top>>) /\ Head(<<x, top>>) = x
      BY <2>2, <3>1, FewFrames
    <3> QED BY <1>2, <1>3, <2>2, <3>1, <3>2, <3>3, BuildingCall
  <2> QED BY <2>3, <2>4 DEF Call, Script
<1>5. CASE call.op = "getMulti"
  <2>1. stack = <<>> /\ stack' = <<get, run>> \o stack
    BY <1>5 DEF Call, Script
  <2>2. get.pc = "get" /\ run.pc = "run"
    BY DEF Frame, Each, FrameOf
  <2> HIDE DEF get, run
  <2>3. stack' = <<get, run>>
    <3>1. <<get, run>> \in Seq({get, run})
      OBVIOUS
    <3> QED BY <2>1, <3>1, ConcatEmptySeq
  <2>4. top' = get /\ NobodyBuilds
    <3>1. /\ Len(<<get, run>>) = 2 /\ <<get, run>>[1] = get /\ <<get, run>>[2] = run
          /\ Head(<<get, run>>) = get /\ 0 \in Int
      OBVIOUS
    <3>2. \A i \in Positions' : stack'[i].pc # "built"
      BY <2>2, <2>3, <3>1 DEF Positions
    <3> QED BY <2>3, <3>1, <3>2 DEF NobodyBuilds, top
  <2> QED BY <1>2, <1>3, <2>2, <2>4, BuildingStep DEF Reopens, At, top
<1> QED BY <1>4, <1>5

LEMMA BuildingNext ==
  TypeInv /\ Idle /\ (RetryInterval = "never" => Building) /\ [Next]_vars
    => (RetryInterval = "never" => Building)'
<1> SUFFICES ASSUME TypeInv, Idle, RetryInterval = "never" => Building, [Next]_vars,
                    RetryInterval' = "never"
             PROVE  Building'
  OBVIOUS
<1>1. UNCHANGED config
  BY DEF Next, Step, vars
<1>2. RetryInterval = "never" /\ Building
  BY <1>1 DEF RetryInterval
<1>3. CASE Process
  BY <1>2, <1>3, BuildingSchedule, BuildingDeactivate, BuildingFailOver, BuildingRetry,
     BuildingRound, BuildingServed, BuildingCalls, BuildingRunPending, BuildingBuilt, BuildingGet,
     Zenon DEF Process
<1>4. CASE \E c \in Calls : Call(c)
  BY <1>2, <1>4, BuildingScript
<1>5. CASE \/ \E s \in Server : PeerClose(s) \/ PeerEarly(s)
           \/ UNCHANGED vars
  <2>1. UNCHANGED <<stack, status, buildreq, pending>>
    BY <1>5 DEF PeerClose, PeerEarly, vars, conn, slots, rounds
  <2> QED BY <1>2, <2>1 DEF Building, BuildingAt, Reopens, At, top, Positions
<1>6. \A s \in Server : ~Tick(s)
  BY <1>2 DEF Tick
<1> QED BY <1>3, <1>4, <1>5, <1>6 DEF Next, Step

(* Where a failed server is not tried again, no failure and no nested      *)
(* failover takes from mmc_pool_schedule_pending (memcache_pool.c:         *)
(* 2022-2034) the request it is about to schedule, but the failure of the  *)
(* server itself: in every configuration, for every number of servers,     *)
(* keys and failures, a server that is pending has its request or is       *)
(* marked as failed.                                                       *)
THEOREM PendingKeepsItsRequest == Spec => []PendingIsBuildingOrFailed
<1> DEFINE Inv == RetryInterval = "never" => Building
<1>1. Init => TypeInv /\ Idle /\ Inv
  <2> SUFFICES ASSUME Init PROVE TypeInv /\ Idle /\ Inv
    OBVIOUS
  <2>1. Idle /\ TypeInv
    BY InitTypes DEF Init, Idle, IdleAt
  <2>2. pending = <<>> /\ stack = <<>>
    BY DEF Init
  <2>3. Len(<<>>) = 0 /\ ToSet(<<>>) = {}
    <3>1. <<>> \in Seq({}) /\ Len(<<>>) = 0
      OBVIOUS
    <3> QED BY <3>1, ToSetElements
  <2>4. Building
    BY <2>2, <2>3 DEF Building, BuildingAt, Distinct, Reopens, At, Positions
  <2> QED BY <2>1, <2>4
<1>2. TypeInv /\ Idle /\ Inv /\ [Next]_vars => TypeInv' /\ Idle' /\ Inv'
  BY NextTypes, IdleNext, BuildingNext
<1>3. TypeInv /\ Inv => PendingIsBuildingOrFailed
  <2>1. TypeInv => \A s \in ToSet(pending) : s \in Server
    <3>1. ASSUME TypeInv PROVE \A s \in ToSet(pending) : s \in Server
      BY <3>1, ToSetElements DEF RoundsOK, TypeInv
    <3> QED BY <3>1
  <2> QED BY <2>1 DEF PendingIsBuildingOrFailed, Building, BuildingAt
<1> QED BY <1>1, <1>2, <1>3, PTL DEF Spec
============================================================================
