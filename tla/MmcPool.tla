------------------------------ MODULE MmcPool ------------------------------
(***************************************************************************)
(* The request scheduler of memcache_pool.c and the calls of memcache.c    *)
(* that drive it: a pool of servers, each with its send, read and build    *)
(* slot and the queues behind them, served in rounds of select() or poll() *)
(* until nothing is outstanding.                                           *)
(*                                                                         *)
(* The code is sequential but deeply re-entrant: a failed connect          *)
(* deactivates the server, which fails over everything queued on it, which *)
(* schedules it on other servers, which may connect and fail in turn, all  *)
(* of it below a loop over queues that these calls modify.  The C stack is *)
(* therefore a variable: a sequence of frames, the innermost first.  A     *)
(* frame names the code that runs next (pc) and holds the locals it needs. *)
(* Only what the network does between two frames is nondeterministic.  A   *)
(* step that dereferences a null pointer is not enabled: the process is    *)
(* gone.  NoNullDereference says that this does not happen.                *)
(*                                                                         *)
(* Abstractions.  Every stream is TCP (udp_port is 0).  The content of     *)
(* requests and replies is left out, but not which request a reply         *)
(* answers.  A server that reconnects gets the descriptor it has just      *)
(* closed, so a set of descriptors is a set of servers.  The hash strategy *)
(* is part of the configuration.                                           *)
(***************************************************************************)
EXTENDS Integers, MmcQueueOps

CONSTANTS
  Servers,            \* pool->servers, in the order they were added
  NoServer,           \* a NULL server
  Key,                \* the keys that are stored and read
  MaxAttempts,        \* memcache.max_failover_attempts
  Configs             \* the configurations to look at, see below

Null == 0             \* a NULL request; request r is the r-th one created
Server == ToSet(Servers)
NumServers == Len(Servers)

ASSUME ServerAssumption ==
  /\ Servers \in Seq(Server) /\ NoServer \notin Server /\ MaxAttempts \in Nat
ASSUME ConfigAssumption == \A c \in Configs :
  /\ c.Hash \in [Key -> Server]
  /\ c.HashNext \in [Key -> [0 .. MaxAttempts + c.Redundancy -> Server]]
  /\ {c.AllowFailover, c.Persistent, c.Reentrant} \subseteq BOOLEAN
  /\ c.MaxGetKeys \in Nat \ {0}
  /\ {c.Redundancy, c.MaxFaults, c.MaxCalls} \subseteq Nat
  /\ c.RetryInterval \in {"never", "elapses", "zero"}
  /\ c.Api \in {"select", "poll"}
  /\ c.Dead \subseteq Server
  /\ c.Faults \subseteq {"refuse", "close", "error", "timeout", "partial", "early", "select"}
  /\ \A call \in c.Calls :
       /\ call.op \in {"set", "setMulti", "get", "getMulti", "flush", "version", "stats"}
       /\ call.keys \in Seq(Key)
       /\ call.op \in {"set", "get"} => Len(call.keys) = 1

VARIABLES
  config,     \* the configuration, one of Configs
  status,     \* tcp.status; "retriable": FAILED and retry_interval is over
  link,       \* the stream: "none" (NULL), "up", "eof" (closed by the server)
  wire,       \* the requests on the connection that await their reply
  partly,     \* is sendreq on the connection in part: "no", "yes", and
              \* "answered" when the server did not wait for the rest
  sendreq, readreq, buildreq,   \* the slots of each server
  sendqueue, readqueue,         \* the queues behind them
  sending, reading,             \* _sending1 and 2, _reading1 and 2
  cur,        \* which of the two pool->sending and pool->reading point to
  in_select,  \* a round is past its select()
  wfds, rfds, \* the servers whose descriptor is still set
  pending,    \* the servers with a request being built
  request,    \* request[r]: what the scheduler knows of request r
  free_requests,
  stack,      \* the C stack, innermost frame first
  rv,         \* the result of the last mmc_pool_schedule: did it succeed
  want,       \* the keys a multi-get has no value for yet
  faults, calls   \* how much of the bounds is used up

conn   == <<status, link, wire, partly>>
slots  == <<sendreq, readreq, buildreq, sendqueue, readqueue>>
rounds == <<sending, reading, cur, in_select, wfds, rfds, pending>>
reqs   == <<request, free_requests>>
budget == <<faults, calls>>
vars   == <<config, conn, slots, rounds, reqs, stack, rv, want, budget>>

----------------------------------------------------------------------------
(* The configuration: the ini settings, what memcache_add_server was told, *)
(* the script, and what may happen to it.                                  *)

AllowFailover == config.AllowFailover   \* memcache.allow_failover
Redundancy    == config.Redundancy      \* memcache.redundancy
Api           == config.Api             \* memcache.select_api: "select" or "poll"
MaxGetKeys    == config.MaxGetKeys      \* how many keys of a multi-get fit MMC_MAX_UDP_LEN
RetryInterval == config.RetryInterval   \* retry_interval: "never" (-1), "elapses" or "zero"
Persistent    == config.Persistent      \* the servers were used by an earlier script
Reentrant     == config.Reentrant       \* a failure callback is set, and may use the pool
Hash          == config.Hash            \* Hash[k]: the server of key k
HashNext      == config.HashNext        \* HashNext[k][i]: the server of "k-i", for failover
Dead          == config.Dead            \* the servers that refuse every connection
Faults        == config.Faults          \* what else may go wrong, see Fault
MaxFaults     == config.MaxFaults       \* bound: how often something may go wrong
Calls         == config.Calls           \* the calls the script may make, see Call
MaxCalls      == config.MaxCalls        \* bound: how many calls it makes

----------------------------------------------------------------------------
(* The stack.                                                              *)

FrameOf(pc, s, r, q, w, i) ==
  [pc |-> pc, s |-> s, r |-> r, q |-> q, w |-> w, i |-> i, k |-> Null, ok |-> FALSE]

Frame(pc, s, r) == FrameOf(pc, s, r, <<>>, 0, 0)

(* mmc_pool_schedule_key, see CloneKey. *)
CloneOf(s, r, q, w, i, k, ok) ==
  [pc |-> "clone", s |-> s, r |-> r, q |-> q, w |-> w, i |-> i, k |-> k, ok |-> ok]

(* A loop over the servers of queue w, at its i-th; over the items of q.   *)
Loop(pc, w, i)  == FrameOf(pc, NoServer, Null, <<>>, w, i)
Each(pc, r, q)  == FrameOf(pc, NoServer, r, q, 0, 0)

At(pc) == stack # <<>> /\ Head(stack).pc = pc
top == Head(stack)

(* Calls the frames, and goes on below the current one when they return. *)
Goto(frames) == stack' = frames \o Tail(stack)
Return == Goto(<<>>)

(* Something goes wrong that the configuration allows. *)
Fault(kind) == kind \in Faults /\ faults < MaxFaults /\ faults' = faults + 1

----------------------------------------------------------------------------
(* Requests.  kind is the failover handler: "key" for                      *)
(* mmc_pool_failover_handler, "multi" for mmc_value_failover_handler,      *)
(* "null" for mmc_pool_failover_handler_null, and "blank" for a request    *)
(* with the null handler and an empty send buffer.  keys are the keys in   *)
(* its send buffer, io is the server whose stream it was last slotted on.  *)

Put(r, rec) == IF r \in DOMAIN request THEN [request EXCEPT ![r] = rec]
                                       ELSE Append(request, rec)

(* mmc_pool_request_alloc, and what its caller stores in the request. *)
NewRequest == IF Popped(free_requests, Null) = Null THEN Len(request) + 1
              ELSE Head(free_requests)
OldIo(r) == IF r \in DOMAIN request THEN request[r].io ELSE NoServer
Alloc(r, kind, keys, failed, index) ==
  /\ free_requests' = Rest(free_requests)
  /\ request' = Put(r, [kind |-> kind, keys |-> keys, failed |-> failed,
                        index |-> index, io |-> OldIo(r)])

(* mmc_pool_release *)
Release(r) == free_requests' = Push(free_requests, r)

----------------------------------------------------------------------------
(* Servers.                                                                *)

(* mmc_server_valid *)
Valid(s) == status[s] # "failed"

(* mmc_pool_open has nothing to do *)
IsOpen(s) == status[s] \in {"connected", "unknown"}

(* mmc_pool_open succeeds: the stream is there, or mmc_server_connect      *)
(* closes the old one and connects a new one.                              *)
Open(s) ==
  \/ IsOpen(s) /\ UNCHANGED conn
  \/ /\ ~IsOpen(s) /\ s \notin Dead
     /\ status' = [status EXCEPT ![s] = "connected"]
     /\ link' = [link EXCEPT ![s] = "up"]
     /\ wire' = [wire EXCEPT ![s] = <<>>]
     /\ partly' = [partly EXCEPT ![s] = "no"]

(* mmc_server_connect fails *)
Refused(s) ==
  /\ ~IsOpen(s)
  /\ IF s \in Dead THEN UNCHANGED faults ELSE Fault("refuse")

(* The first of the servers ok at or after "key-i": the loops of           *)
(* mmc_pool_find and mmc_pool_find_next, which give up after the last      *)
(* attempt with whatever server they are at.                               *)
LastProbe(k, i, ok) ==
  LET Stops(j) == HashNext[k][j] \in ok \/ j + 1 >= MaxAttempts
  IN CHOOSE j \in i .. i + MaxAttempts : Stops(j) /\ \A l \in i .. j - 1 : ~Stops(l)

(* mmc_pool_find *)
Find(k) == IF ~Valid(Hash[k]) /\ AllowFailover
           THEN HashNext[k][LastProbe(k, 0, {s \in Server : Valid(s)})]
           ELSE Hash[k]

----------------------------------------------------------------------------
(* Scheduling.                                                             *)

(* mmc_pool_schedule on a server that is down *)
ScheduleInvalid ==
  /\ At("schedule") /\ ~Valid(top.s)
  /\ Goto(<<Frame("failover", top.s, top.r)>>)
  /\ UNCHANGED <<conn, slots, rounds, reqs, rv, want, budget>>

(* mmc_pool_slot_send makes r the request being sent on s *)
Slot(s, r) ==
  /\ Open(s)
  /\ sendreq' = [sendreq EXCEPT ![s] = r]
  /\ request' = [request EXCEPT ![r] = [@ EXCEPT !.io = s]]

(* Mutant of AwaitReply: the new request takes the slot of the one before. *)
AwaitReplyLast(s, r) ==
  IF readreq[s] = Null
  THEN /\ readreq' = [readreq EXCEPT ![s] = r]
       /\ reading' = [reading EXCEPT ![cur] = Push(@, s)]
       /\ UNCHANGED readqueue
  ELSE /\ readqueue' = [readqueue EXCEPT ![s] = Push(@, readreq[s])]
       /\ readreq' = [readreq EXCEPT ![s] = r]
       /\ UNCHANGED reading

(* Mutant of AwaitReply: the server is not read from. *)
AwaitReplyUnheard(s, r) ==
  IF readreq[s] = Null
  THEN /\ readreq' = [readreq EXCEPT ![s] = r]
       /\ UNCHANGED <<readqueue, reading>>
  ELSE /\ readqueue' = [readqueue EXCEPT ![s] = Push(@, r)]
       /\ UNCHANGED <<readreq, reading>>

(* the second half of mmc_pool_schedule *)
AwaitReply(s, r) ==
  IF readreq[s] = Null
  THEN /\ readreq' = [readreq EXCEPT ![s] = r]
       /\ reading' = [reading EXCEPT ![cur] = Push(@, s)]
       /\ UNCHANGED readqueue
  ELSE /\ readqueue' = [readqueue EXCEPT ![s] = Push(@, r)]
       /\ UNCHANGED <<readreq, reading>>

(* mmc_pool_schedule *)
Schedule ==
  LET s == top.s  r == top.r IN
  /\ At("schedule") /\ Valid(s)
  /\ IF sendreq[s] = Null
     THEN /\ Slot(s, r)
          /\ sending' = [sending EXCEPT ![cur] = Push(@, s)]
          /\ UNCHANGED sendqueue
     ELSE /\ sendqueue' = [sendqueue EXCEPT ![s] = Push(@, r)]
          /\ UNCHANGED <<conn, sendreq, sending, request>>
  /\ AwaitReply(s, r)
  /\ rv' = TRUE
  /\ Return
  /\ UNCHANGED <<buildreq, cur, in_select, wfds, rfds, pending, free_requests, want, budget>>

(* ... when the connection is refused *)
ScheduleRefused ==
  LET s == top.s IN
  /\ At("schedule") /\ Valid(s) /\ sendreq[s] = Null
  /\ Refused(s)
  /\ Goto(<<Frame("deactivate", s, Null), Frame("unslot", s, top.r)>>)
  /\ UNCHANGED <<conn, slots, rounds, reqs, rv, want, calls>>

(* mmc_pool_slot_send with handle_failover, for the next request or NULL *)
SlotSend ==
  LET s == top.s  r == top.r IN
  /\ At("slot")
  /\ IF r = Null
     THEN /\ sendreq' = [sendreq EXCEPT ![s] = Null]
          /\ UNCHANGED <<conn, request>>
     ELSE Slot(s, r)
  /\ Return
  /\ UNCHANGED <<readreq, buildreq, sendqueue, readqueue, rounds, free_requests,
                 rv, want, budget>>

SlotSendRefused ==
  /\ At("slot") /\ top.r # Null
  /\ Refused(top.s)
  /\ Goto(<<Frame("deactivate", top.s, Null), Frame("unslot", top.s, top.r)>>)
  /\ UNCHANGED <<conn, slots, rounds, reqs, rv, want, calls>>

(* the end of mmc_pool_slot_send when the connection was refused *)
Unslot ==
  /\ At("unslot")
  /\ sendreq' = [sendreq EXCEPT ![top.s] = Null]
  /\ Goto(<<Frame("failover", top.s, top.r)>>)
  /\ UNCHANGED <<conn, readreq, buildreq, sendqueue, readqueue, rounds, reqs, rv, want, budget>>

----------------------------------------------------------------------------
(* Failure of a server.                                                    *)

(* Mutant of WithRequest: no check for an empty slot. *)
WithAnyRequest(q, r) == Push(q, r)

WithRequest(q, r) == IF r = Null THEN q ELSE Push(q, r)

(* mmc_server_disconnect, but for the status *)
Hangup(s) ==
  /\ link' = [link EXCEPT ![s] = "none"]
  /\ wire' = [wire EXCEPT ![s] = <<>>]
  /\ partly' = [partly EXCEPT ![s] = "no"]

(* The server leaves the coming round, and what was queued on it is taken  *)
(* from it.                                                                *)
Depart(s) ==
  /\ sending' = [sending EXCEPT ![cur] = Without(@, s)]
  /\ reading' = [reading EXCEPT ![cur] = Without(@, s)]

(* Mutant of Vacate: the read queue stays. *)
VacateKeepsQueue(s) ==
  /\ sendreq' = [sendreq EXCEPT ![s] = Null]
  /\ readreq' = [readreq EXCEPT ![s] = Null]
  /\ buildreq' = [buildreq EXCEPT ![s] = Null]
  /\ sendqueue' = [sendqueue EXCEPT ![s] = <<>>]
  /\ readqueue' = readqueue

(* Mutant of Vacate: the send slot stays. *)
VacateKeepsSlot(s) ==
  /\ sendreq' = sendreq
  /\ readreq' = [readreq EXCEPT ![s] = Null]
  /\ buildreq' = [buildreq EXCEPT ![s] = Null]
  /\ sendqueue' = [sendqueue EXCEPT ![s] = <<>>]
  /\ readqueue' = [readqueue EXCEPT ![s] = <<>>]

Vacate(s) ==
  /\ sendreq' = [sendreq EXCEPT ![s] = Null]
  /\ readreq' = [readreq EXCEPT ![s] = Null]
  /\ buildreq' = [buildreq EXCEPT ![s] = Null]
  /\ sendqueue' = [sendqueue EXCEPT ![s] = <<>>]
  /\ readqueue' = [readqueue EXCEPT ![s] = <<>>]

(* MMC_STATUS_FAILED: with a retry_interval of 0 the server is valid at once. *)
FailedStatus == IF RetryInterval = "zero" THEN "retriable" ELSE "failed"

(* mmc_server_deactivate, up to the failover of what was queued *)
Deactivate ==
  LET s == top.s
      mine == WithRequest(WithRequest(readqueue[s], readreq[s]), buildreq[s])
  IN
  /\ At("deactivate")
  /\ status' = [status EXCEPT ![s] = FailedStatus]
  /\ Hangup(s)
  /\ Depart(s)
  /\ Vacate(s)
  /\ Goto(<<FrameOf("drain", s, Null, mine, 0, 0)>>)
  /\ UNCHANGED <<cur, in_select, wfds, rfds, pending, reqs, rv, want, budget>>

(* its loop over them, and the userspace failure callback at its end *)
Drain ==
  /\ At("drain")
  /\ \/ /\ top.q # <<>>
        /\ Goto(<<Frame("failover", top.s, Head(top.q)), FrameOf("drain", top.s, Null, Tail(top.q), 0, 0)>>)
     \/ /\ top.q = <<>>
        /\ IF Reentrant THEN Goto(<<Frame("callback", top.s, Null)>>) ELSE Return
  /\ UNCHANGED <<conn, slots, rounds, reqs, rv, want, budget>>

LeaveCallback ==
  /\ At("callback") /\ Return
  /\ UNCHANGED <<conn, slots, rounds, reqs, rv, want, budget>>

(* Every failover handler when it gives up: mmc_pool_failover_handler_null *)
(* always does.                                                            *)
MayFailOver(r) ==
  /\ AllowFailover
  /\ \/ /\ request[r].kind = "key"
        /\ request[r].index < MaxAttempts
        /\ Cardinality(request[r].failed) < NumServers
     \/ /\ request[r].kind = "multi"
        /\ Cardinality(request[r].failed) < MaxAttempts

(* Mutant of GiveUp: the request is not released. *)
GiveUpLeaks ==
  /\ At("failover") /\ ~MayFailOver(top.r)
  /\ rv' = FALSE
  /\ Return
  /\ UNCHANGED <<conn, slots, rounds, reqs, want, budget>>

GiveUp ==
  /\ At("failover") /\ ~MayFailOver(top.r)
  /\ Release(top.r)
  /\ rv' = FALSE
  /\ Return
  /\ UNCHANGED <<conn, slots, rounds, request, want, budget>>

(* mmc_pool_failover_handler and mmc_value_failover_handler otherwise *)
FailOver ==
  /\ At("failover") /\ MayFailOver(top.r)
  /\ Goto(<<IF request[top.r].kind = "key" THEN Frame("probe", top.s, top.r)
            ELSE Each("get", top.r, want)>>)
  /\ UNCHANGED <<conn, slots, rounds, reqs, rv, want, budget>>

(* the loop body of mmc_pool_failover_handler *)
FindNext ==
  LET r      == top.r
      failed == request[r].failed \cup {top.s}
      k      == Head(request[r].keys)
      i      == LastProbe(k, request[r].index, Server \ failed)
      s      == HashNext[k][i]
      again  == ~Valid(s) /\ i + 1 < MaxAttempts /\ Cardinality(failed) < NumServers
  IN
  /\ At("probe")
  /\ request' = [request EXCEPT ![r] = [@ EXCEPT !.failed = failed, !.index = i + 1]]
  /\ Goto(<<Frame(IF again THEN "probe" ELSE "schedule", s, r)>>)
  /\ UNCHANGED <<conn, slots, rounds, free_requests, rv, want, budget>>

(* mmc_select_retry *)
Retry ==
  LET s == top.s  r == top.r  waiting == Without(sendqueue[s], r) IN
  /\ At("retry")
  /\ readqueue' = [readqueue EXCEPT ![s] = Without(@, r)]
  /\ IF sendreq[s] = r
     THEN /\ sendqueue' = [sendqueue EXCEPT ![s] = Rest(waiting)]
          /\ Goto(<<Frame("slot", s, Popped(waiting, Null)), Frame("unqueue", s, Null),
                    Frame("retryRead", s, r)>>)
     ELSE /\ sendqueue' = [sendqueue EXCEPT ![s] = waiting]
          /\ Goto(<<Frame("retryRead", s, r)>>)
  /\ UNCHANGED <<conn, sendreq, readreq, buildreq, rounds, reqs, rv, want, budget>>

(* Mutant of Unqueue: the server stays in the queue. *)
UnqueueForgets ==
  /\ At("unqueue")
  /\ Return
  /\ UNCHANGED <<conn, slots, rounds, reqs, rv, want, budget>>

(* "clear out connection from send queue if no new request was slotted" *)
Unqueue ==
  /\ At("unqueue")
  /\ sending' = IF sendreq[top.s] = Null THEN [sending EXCEPT ![cur] = Without(@, top.s)]
                ELSE sending
  /\ Return
  /\ UNCHANGED <<conn, slots, reading, cur, in_select, wfds, rfds, pending, reqs,
                 rv, want, budget>>

(* Mutant of RetryRead: the request stays in the read slot. *)
RetryReadStays ==
  /\ At("retryRead")
  /\ Goto(<<Frame("failover", top.s, top.r)>>)
  /\ UNCHANGED <<conn, slots, rounds, reqs, rv, want, budget>>

RetryRead ==
  LET s == top.s  next == Popped(readqueue[s], Null) IN
  /\ At("retryRead")
  /\ IF readreq[s] = top.r
     THEN /\ readreq' = [readreq EXCEPT ![s] = next]
          /\ readqueue' = [readqueue EXCEPT ![s] = Rest(@)]
          /\ reading' = IF next = Null THEN [reading EXCEPT ![cur] = Without(@, s)]
                        ELSE reading
     ELSE UNCHANGED <<readreq, readqueue, reading>>
  /\ Goto(<<Frame("failover", s, top.r)>>)
  /\ UNCHANGED <<conn, sendreq, buildreq, sendqueue, sending, cur, in_select, wfds, rfds,
                 pending, reqs, rv, want, budget>>

----------------------------------------------------------------------------
(* A round: mmc_pool_select_impl, and mmc_pool_poll where it differs.      *)

other == 3 - cur

(* Called from below a round that is past its select(): "help complete     *)
(* previous run", on the queues that round left behind.                    *)
HelpRound ==
  /\ At("select") /\ in_select
  /\ Goto(<<Loop("send", other, 0)>>)
  /\ UNCHANGED <<conn, slots, rounds, reqs, rv, want, budget>>

(* The loops that collect the descriptors dereference the slots of the     *)
(* servers and the stream of the requests in them.                         *)
HasStream(s, r) == r # Null /\ request[r].io = s
CanCollect == /\ \A s \in ToSet(sending[cur]) : HasStream(s, sendreq[s])
              /\ \A s \in ToSet(reading[cur]) : HasStream(s, readreq[s])

(* mmc_pool_switch: what is scheduled from now on is for the next round. *)
Switch(w, r) ==
  /\ At("select") /\ ~in_select /\ CanCollect
  /\ cur' = other
  /\ sending' = [sending EXCEPT ![other] = <<>>]
  /\ reading' = [reading EXCEPT ![other] = <<>>]
  /\ wfds' = w /\ rfds' = r
  /\ UNCHANGED <<conn, slots, pending, reqs, rv, want, calls>>

Readable == {s \in ToSet(reading[cur]) : wire[s] # <<>> \/ link[s] = "eof"}

(* select() returns with some of the descriptors ready. *)
Ready ==
  \E w \in SUBSET ToSet(sending[cur]), r \in SUBSET Readable :
    /\ w \cup r # {}
    /\ Switch(w, r)
    /\ in_select' = TRUE
    /\ Goto(<<Loop("send", cur, 0)>>)
    /\ UNCHANGED faults

(* The timeout expires, because no server answers or none has to. *)
Expire ==
  /\ Switch({}, {})
  /\ IF sending[cur] = <<>> /\ Readable = {} THEN UNCHANGED faults ELSE Fault("timeout")
  /\ Goto(<<Loop("lateSend", cur, 0)>>)
  /\ UNCHANGED in_select

(* An error: select() leaves every bit set, so that every server counts as *)
(* ready; after poll() every server counts as failed.                      *)
SelectError ==
  /\ Fault("select")
  /\ IF Api = "select"
     THEN /\ Switch(ToSet(sending[cur]), ToSet(reading[cur]))
          /\ in_select' = TRUE
          /\ Goto(<<Loop("send", cur, 0)>>)
     ELSE /\ Switch({}, {})
          /\ Goto(<<Loop("lateSend", cur, -1)>>)
          /\ UNCHANGED in_select

(* The loops over the servers that timed out: the server leaves both       *)
(* queues of the round, its request is retried or the server fails.        *)
TakeOut(s, w, r) ==
  /\ r # Null
  /\ sending' = [sending EXCEPT ![w] = Without(@, s)]
  /\ reading' = [reading EXCEPT ![w] = Without(@, s)]
  /\ Goto(<<FrameOf("late", s, r, <<>>, 0, top.i), top>>)

LateSend ==
  LET w == top.w IN
  /\ At("lateSend")
  /\ IF sending[w] = <<>>
     THEN Goto(<<Loop("lateRead", w, top.i)>>) /\ UNCHANGED <<sending, reading>>
     ELSE TakeOut(Head(sending[w]), w, sendreq[Head(sending[w])])
  /\ UNCHANGED <<conn, slots, cur, in_select, wfds, rfds, pending, reqs, rv, want, budget>>

LateRead ==
  LET w == top.w IN
  /\ At("lateRead")
  /\ IF reading[w] = <<>>
     THEN /\ in_select' = TRUE
          /\ Goto(<<Loop("send", w, 0)>>)
          /\ UNCHANGED <<sending, reading>>
     ELSE /\ TakeOut(Head(reading[w]), w, readreq[Head(reading[w])])
          /\ UNCHANGED in_select
  /\ UNCHANGED <<conn, slots, cur, wfds, rfds, pending, reqs, rv, want, budget>>

(* mmc_server_failure: a stream that may have gone away while it was not   *)
(* in use is worth another try.                                            *)
Retryable(s) == status[s] \in {"unknown", "disconnected"}
ServerFailure(s) ==
  status' = IF status[s] = "unknown" THEN [status EXCEPT ![s] = "disconnected"]
            ELSE status

(* mmc_select_failure *)
Late ==
  LET s == top.s  retry == top.i = 0 /\ Retryable(s) IN
  /\ At("late")
  /\ IF retry THEN ServerFailure(s) ELSE UNCHANGED status
  /\ Goto(<<IF retry THEN Frame("retry", s, top.r) ELSE Frame("deactivate", s, Null)>>)
  /\ UNCHANGED <<link, wire, partly, slots, rounds, reqs, rv, want, budget>>

(* A call of the round's do-while loops goes on with these frames, unless  *)
(* "someone has helped complete our run": then the round is over too.      *)
Proceed(frames) ==
  stack' = IF in_select THEN frames \o Tail(stack) ELSE Tail(Tail(stack))

(* The loop over the servers to send to. *)
SendLoop ==
  LET w == top.w  i == top.i + 1  s == sending[w][i] IN
  /\ At("send")
  /\ IF i > Len(sending[w])
     THEN Goto(<<Loop("read", w, 0)>>) /\ UNCHANGED <<wfds, sending>>
     ELSE IF sendreq[s] = Null
     THEN Goto(<<Loop("send", w, i)>>) /\ UNCHANGED <<wfds, sending>>
     ELSE IF s \in wfds
     THEN /\ wfds' = wfds \ {s}
          /\ Goto(<<FrameOf("xmit", s, Null, <<>>, w, 0), Loop("send", w, i)>>)
          /\ UNCHANGED sending
     ELSE /\ sending' = [sending EXCEPT ![cur] = Push(@, s)]
          /\ Goto(<<Loop("send", w, i)>>)
          /\ UNCHANGED wfds
  /\ UNCHANGED <<conn, slots, reading, cur, in_select, rfds, pending, reqs, rv, want, budget>>

Sending(s) == At("xmit") /\ top.s = s /\ sendreq[s] # Null /\ link[s] # "none"

(* mmc_request_send is done: the whole request is on the connection, which *)
(* the server may have closed.  The next request is slotted.               *)
SendDone ==
  LET s == top.s  r == sendreq[s] IN
  /\ Sending(s)
  /\ wire' = [wire EXCEPT ![s] =
       IF link[s] = "eof" \/ partly[s] = "answered" \/ request[r].kind = "blank"
       THEN @ ELSE Append(@, r)]
  /\ partly' = [partly EXCEPT ![s] = "no"]
  /\ sendqueue' = [sendqueue EXCEPT ![s] = IF in_select THEN Rest(@) ELSE @]
  /\ Proceed(<<Frame("slot", s, Popped(sendqueue[s], Null)), top>>)
  /\ UNCHANGED <<status, link, sendreq, readreq, buildreq, readqueue, rounds, reqs,
                 rv, want, budget>>

(* mmc_request_send could not send all of it. *)
SendMore ==
  LET s == top.s IN
  /\ Sending(s) /\ request[sendreq[s]].kind # "blank"
  /\ Fault("partial")
  /\ partly' = [partly EXCEPT ![s] = IF @ = "no" THEN "yes" ELSE @]
  /\ sending' = IF in_select THEN [sending EXCEPT ![cur] = Push(@, s)] ELSE sending
  /\ Proceed(<<>>)
  /\ UNCHANGED <<status, link, wire, slots, reading, cur, in_select, wfds, rfds,
                 pending, reqs, rv, want, calls>>

(* mmc_request_send fails on a connection the server has closed. *)
SendError ==
  LET s == top.s  r == sendreq[s] IN
  /\ Sending(s) /\ link[s] = "eof"
  /\ ServerFailure(s)
  /\ Proceed(IF Retryable(s) THEN <<Frame("retry", s, r)>>
             ELSE <<Frame("deactivate", s, Null),
                    FrameOf("unread", s, Null, <<>>, top.w, 0)>>)
  /\ UNCHANGED <<link, wire, partly, slots, rounds, reqs, rv, want, budget>>

(* "server is failed, remove from read queue" *)
Unread ==
  /\ At("unread")
  /\ reading' = [reading EXCEPT ![top.w] = Without(@, top.s)]
  /\ Return
  /\ UNCHANGED <<conn, slots, sending, cur, in_select, wfds, rfds, pending, reqs,
                 rv, want, budget>>

SendEnd ==
  /\ At("xmit") /\ sendreq[top.s] = Null
  /\ Return
  /\ UNCHANGED <<conn, slots, rounds, reqs, rv, want, budget>>

(* The loop over the servers to read from, and the end of the round. *)
ReadLoop ==
  LET w == top.w  i == top.i + 1  s == reading[w][i] IN
  /\ At("read")
  /\ IF i > Len(reading[w])
     THEN in_select' = FALSE /\ Return /\ UNCHANGED <<rfds, reading>>
     ELSE /\ UNCHANGED in_select
          /\ IF readreq[s] = Null
             THEN Goto(<<Loop("read", w, i)>>) /\ UNCHANGED <<rfds, reading>>
             ELSE IF s \in rfds
             THEN /\ rfds' = rfds \ {s}
                  /\ Goto(<<FrameOf("parse", s, Null, <<>>, w, 0), Loop("read", w, i)>>)
                  /\ UNCHANGED reading
             ELSE /\ reading' = [reading EXCEPT ![cur] = Push(@, s)]
                  /\ Goto(<<Loop("read", w, i)>>)
                  /\ UNCHANGED rfds
  /\ UNCHANGED <<conn, slots, sending, cur, wfds, pending, reqs, rv, want, budget>>

Parsing(s) == At("parse") /\ top.s = s /\ readreq[s] # Null /\ link[s] # "none"

(* The parser has a whole reply. *)
ParseDone ==
  LET s == top.s  next == Popped(readqueue[s], Null) IN
  /\ Parsing(s) /\ wire[s] # <<>> /\ sendreq[s] # readreq[s]
  /\ wire' = [wire EXCEPT ![s] = Tail(@)]
  /\ IF in_select
     THEN /\ Release(readreq[s])
          /\ readreq' = [readreq EXCEPT ![s] = next]
          /\ readqueue' = [readqueue EXCEPT ![s] = Rest(@)]
     ELSE UNCHANGED <<free_requests, readreq, readqueue>>
  /\ Proceed(<<top>>)
  /\ UNCHANGED <<status, link, partly, sendreq, buildreq, sendqueue, rounds, request,
                 rv, want, budget>>

(* ... although the request was not sent entirely: mmc_server_disconnect. *)
ParseEarly ==
  LET s == top.s IN
  /\ Parsing(s) /\ wire[s] # <<>> /\ sendreq[s] = readreq[s]
  /\ IF in_select
     THEN /\ status' = [status EXCEPT ![s] = "disconnected"]
          /\ Hangup(s)
          /\ sendqueue' = [sendqueue EXCEPT ![s] = Rest(@)]
     ELSE /\ wire' = [wire EXCEPT ![s] = Tail(@)]
          /\ UNCHANGED <<status, link, partly, sendqueue>>
  /\ Proceed(<<Frame("slot", s, Popped(sendqueue[s], Null)), Frame("unqueue", s, Null),
               Frame("early", s, Null), top>>)
  /\ UNCHANGED <<sendreq, readreq, buildreq, readqueue, rounds, reqs, rv, want, budget>>

(* Mutant of EarlyDone: the answered request stays in the slot. *)
EarlyDoneStays ==
  LET s == top.s IN
  /\ At("early")
  /\ Release(readreq[s])
  /\ readreq' = readreq
  /\ readqueue' = [readqueue EXCEPT ![s] = Rest(@)]
  /\ Return
  /\ UNCHANGED <<conn, sendreq, buildreq, sendqueue, rounds, request, rv, want, budget>>

(* ... and the next request is read, whatever the slots hold by now. *)
EarlyDone ==
  LET s == top.s IN
  /\ At("early")
  /\ Release(readreq[s])
  /\ readreq' = [readreq EXCEPT ![s] = Popped(readqueue[s], Null)]
  /\ readqueue' = [readqueue EXCEPT ![s] = Rest(@)]
  /\ Return
  /\ UNCHANGED <<conn, sendreq, buildreq, sendqueue, rounds, request, rv, want, budget>>

(* mmc_value_handler_multi: one more value, the reply goes on. *)
ParseValue ==
  LET s == top.s IN
  /\ Parsing(s) /\ wire[s] # <<>>
  /\ request[Head(wire[s])].kind = "multi"
  /\ \E k \in ToSet(request[Head(wire[s])].keys) \cap ToSet(want) :
       want' = Without(want, k)
  /\ Proceed(<<top>>)
  /\ UNCHANGED <<conn, slots, rounds, reqs, rv, budget>>

(* The reply is an error, or not a reply: mmc_request_failure. *)
ParseError ==
  LET s == top.s IN
  /\ Parsing(s) /\ wire[s] # <<>>
  /\ Fault("error")
  /\ wire' = [wire EXCEPT ![s] = Tail(@)]
  /\ ServerFailure(s)
  /\ Proceed(<<IF Retryable(s) THEN Frame("retry", s, readreq[s])
               ELSE Frame("deactivate", s, Null)>>)
  /\ UNCHANGED <<link, partly, slots, rounds, reqs, rv, want, calls>>

(* Mutant of ParseMore: a closed stream is waited for. *)
ParseMoreBlind ==
  LET s == top.s IN
  /\ Parsing(s) /\ link[s] # "none"
  /\ IF wire[s] = <<>> THEN UNCHANGED faults ELSE Fault("partial")
  /\ reading' = IF in_select THEN [reading EXCEPT ![cur] = Push(@, s)] ELSE reading
  /\ Proceed(<<>>)
  /\ UNCHANGED <<conn, slots, sending, cur, in_select, wfds, rfds, pending, reqs,
                 rv, want, calls>>

(* There is nothing more to read: the reply is not there yet ... *)
ParseMore ==
  LET s == top.s IN
  /\ Parsing(s) /\ link[s] = "up"
  /\ IF wire[s] = <<>> THEN UNCHANGED faults ELSE Fault("partial")
  /\ reading' = IF in_select THEN [reading EXCEPT ![cur] = Push(@, s)] ELSE reading
  /\ Proceed(<<>>)
  /\ UNCHANGED <<conn, slots, sending, cur, in_select, wfds, rfds, pending, reqs,
                 rv, want, calls>>

(* ... or the server has closed the connection. *)
ParseEof ==
  LET s == top.s IN
  /\ Parsing(s) /\ wire[s] = <<>> /\ link[s] = "eof"
  /\ IF in_select THEN ServerFailure(s) ELSE UNCHANGED status
  /\ Proceed(<<IF Retryable(s) THEN Frame("retry", s, readreq[s])
               ELSE Frame("deactivate", s, Null)>>)
  /\ UNCHANGED <<link, wire, partly, slots, rounds, reqs, rv, want, budget>>

ParseEnd ==
  /\ At("parse") /\ readreq[top.s] = Null
  /\ Return
  /\ UNCHANGED <<conn, slots, rounds, reqs, rv, want, budget>>

----------------------------------------------------------------------------
(* The calls of memcache.c.                                                *)

(* Mutant of RunPending: the server is not popped. *)
RunPendingStays ==
  LET s == Head(pending) IN
  /\ At("run") /\ pending # <<>>
  /\ buildreq[s] # Null
  /\ pending' = pending
  /\ Goto(<<Frame("schedule", s, buildreq[s]), Frame("built", s, Null), top>>)
  /\ UNCHANGED <<conn, slots, sending, reading, cur, in_select, wfds, rfds, reqs,
                 rv, want, budget>>

(* mmc_pool_run, and mmc_pool_schedule_pending in it: "runs all scheduled  *)
(* requests to completion".                                                *)
RunPending ==
  LET s == Head(pending) IN
  /\ At("run") /\ pending # <<>>
  /\ buildreq[s] # Null
  /\ pending' = Tail(pending)
  /\ Goto(<<Frame("schedule", s, buildreq[s]), Frame("built", s, Null), top>>)
  /\ UNCHANGED <<conn, slots, sending, reading, cur, in_select, wfds, rfds, reqs,
                 rv, want, budget>>

Built ==
  /\ At("built")
  /\ buildreq' = [buildreq EXCEPT ![top.s] = Null]
  /\ Return
  /\ UNCHANGED <<conn, sendreq, readreq, sendqueue, readqueue, rounds, reqs, rv, want, budget>>

(* Mutant of RunRounds: the rounds end when all is sent. *)
RunRoundsSends ==
  /\ At("run") /\ pending = <<>>
  /\ IF sending[cur] # <<>>
     THEN Goto(<<Frame("select", NoServer, Null), top>>)
     ELSE Return
  /\ UNCHANGED <<conn, slots, rounds, reqs, rv, want, budget>>

RunRounds ==
  /\ At("run") /\ pending = <<>>
  /\ IF reading[cur] # <<>> \/ sending[cur] # <<>>
     THEN Goto(<<Frame("select", NoServer, Null), top>>)
     ELSE Return
  /\ UNCHANGED <<conn, slots, rounds, reqs, rv, want, budget>>

(* php_mmc_store, php_mmc_numeric and the single-key memcache_get:         *)
(* allocate a request for the next key, mmc_pool_schedule_key it.  An      *)
(* array of keys (w = 1) is sent while it is being scheduled.              *)
Store ==
  LET k == Head(top.q)  r == NewRequest IN
  /\ At("store")
  /\ IF top.q = <<>>
     THEN Goto(<<Frame("run", NoServer, Null)>>) /\ UNCHANGED reqs
     ELSE /\ Alloc(r, "key", <<k>>, {}, 0)
          /\ Goto((IF top.i > 1
                   THEN <<Frame("schedule", Find(k), r),
                          CloneOf(Find(k), r, <<>>, 0, 0, k, FALSE)>>
                   ELSE <<Frame("schedule", Find(k), r)>>)
                  \o <<FrameOf("stored", NoServer, Null, Tail(top.q), top.w, top.i)>>)
  /\ UNCHANGED <<conn, slots, rounds, rv, want, budget>>

Stored ==
  LET more == FrameOf("store", NoServer, Null, top.q, top.w, top.i) IN
  /\ At("stored")
  /\ Goto(IF top.w = 0 /\ ~rv THEN <<>>
          ELSE IF top.w = 1 /\ rv THEN <<Frame("select", NoServer, Null), more>>
          ELSE <<more>>)
  /\ UNCHANGED <<conn, slots, rounds, reqs, rv, want, budget>>

(* mmc_pool_clone_request copies the send buffer of r, which is empty when *)
(* r is free again and allocated as its own clone.                         *)
CloneKind(clone, r) ==
  IF clone = r \/ request[r].kind = "blank" THEN "blank" ELSE "null"

(* The loop of mmc_pool_schedule_key over the redundant servers: q are the *)
(* servers to skip, w the last index, i the clones so far, k the key, ok   *)
(* the result.                                                             *)
CloneKey ==
  LET r      == top.r
      ok     == IF top.i = 0 THEN rv ELSE top.ok
      skip   == Append(top.q, top.s)
      j      == LastProbe(top.k, top.w, Server \ ToSet(skip))
      s      == HashNext[top.k][j]
      next   == CloneOf(s, r, skip, j + 1, top.i + 1, top.k, ok)
      clone  == NewRequest
      kind   == CloneKind(clone, r)
  IN
  /\ At("clone")
  /\ IF top.i + 1 >= Redundancy \/ top.i + 1 >= NumServers
     THEN Return /\ rv' = ok /\ UNCHANGED reqs
     ELSE /\ UNCHANGED rv
          /\ IF Valid(s)
             THEN /\ Alloc(clone, kind, request[r].keys, {}, 0)
                  /\ Goto(<<Frame("schedule", s, clone), next>>)
             ELSE Goto(<<next>>) /\ UNCHANGED reqs
  /\ UNCHANGED <<conn, slots, rounds, want, budget>>

(* A request for a multi-get: the first one, or one that takes over the    *)
(* failed servers of request r.                                            *)
AllocGet(new, k, r) ==
  IF r \in {Null, new} THEN Alloc(new, "multi", <<k>>, {}, 0)
  ELSE Alloc(new, "multi", <<k>>, request[r].failed, request[r].index)

Full(r) == Len(request[r].keys) >= MaxGetKeys

(* pool->protocol->append_get *)
WithKey(req, k) == [req EXCEPT !.keys = Append(@, k)]

(* mmc_value_failover_handler skips a key that has got its value by now. *)
Asks(r, k) == r = Null \/ k \in ToSet(want)

(* mmc_pool_schedule_get for each of the keys of a multi-get, called for   *)
(* the first time or from mmc_value_failover_handler of request r.         *)
Get ==
  LET r == top.r  k == Head(top.q)  s == Find(k)  new == NewRequest IN
  /\ At("get") /\ top.q # <<>>
  /\ IF ~Asks(r, k) \/ ~Valid(s) THEN UNCHANGED <<buildreq, pending, reqs>>
     ELSE IF buildreq[s] = Null
     THEN /\ pending' = Push(pending, s)
          /\ buildreq' = [buildreq EXCEPT ![s] = new]
          /\ AllocGet(new, k, r)
     ELSE /\ ~Full(buildreq[s])
          /\ request' = [request EXCEPT ![buildreq[s]] = WithKey(@, k)]
          /\ UNCHANGED <<pending, buildreq, free_requests>>
  /\ Goto(<<Each("get", r, Tail(top.q))>>)
  /\ UNCHANGED <<conn, sendreq, readreq, sendqueue, readqueue, sending, reading, cur,
                 in_select, wfds, rfds, rv, want, budget>>

(* ... when the request is full: it is sent, and another one is built,     *)
(* whatever became of the server in the meantime.                          *)
GetFull ==
  LET s == Find(Head(top.q)) IN
  /\ At("get") /\ top.q # <<>> /\ Asks(top.r, Head(top.q))
  /\ Valid(s) /\ buildreq[s] # Null /\ Full(buildreq[s])
  /\ Goto(<<Frame("schedule", s, buildreq[s]), Frame("select", NoServer, Null),
            FrameOf("rebuild", s, top.r, top.q, 0, 0)>>)
  /\ UNCHANGED <<conn, slots, rounds, reqs, rv, want, budget>>

Rebuild ==
  /\ At("rebuild")
  /\ buildreq' = [buildreq EXCEPT ![top.s] = NewRequest]
  /\ AllocGet(NewRequest, Head(top.q), top.r)
  /\ Goto(<<Each("get", top.r, Tail(top.q))>>)
  /\ UNCHANGED <<conn, sendreq, readreq, sendqueue, readqueue, rounds, rv, want, budget>>

(* Mutant of GetEnd: the request that failed over is not released. *)
GetEndLeaks ==
  /\ At("get") /\ top.q = <<>>
  /\ rv' = IF top.r = Null THEN rv ELSE TRUE
  /\ Return
  /\ UNCHANGED <<conn, slots, rounds, reqs, want, budget>>

GetEnd ==
  /\ At("get") /\ top.q = <<>>
  /\ IF top.r = Null THEN UNCHANGED <<free_requests, rv>> ELSE Release(top.r) /\ rv' = TRUE
  /\ Return
  /\ UNCHANGED <<conn, slots, rounds, request, want, budget>>

(* memcache_flush: a request to each server. *)
Flush ==
  LET r == NewRequest IN
  /\ At("flush")
  /\ IF top.q = <<>>
     THEN Goto(<<Frame("run", NoServer, Null)>>) /\ UNCHANGED reqs
     ELSE /\ Alloc(r, "null", <<>>, {}, 0)
          /\ Goto(<<Frame("schedule", Head(top.q), r), Each("flushed", Null, Tail(top.q))>>)
  /\ UNCHANGED <<conn, slots, rounds, rv, want, budget>>

Flushed ==
  /\ At("flushed")
  /\ Goto((IF rv THEN <<Frame("select", NoServer, Null)>> ELSE <<>>)
          \o <<Each("flush", Null, top.q)>>)
  /\ UNCHANGED <<conn, slots, rounds, reqs, rv, want, budget>>

(* memcache_get_version and the statistics (w = 1): one server after the   *)
(* other is asked and the reply awaited.  A server that has answered may   *)
(* be the last one asked.                                                  *)
Ask ==
  LET r == NewRequest IN
  /\ At("ask")
  /\ IF top.q = <<>>
     THEN Goto(IF top.w = 1 THEN <<Frame("run", NoServer, Null)>> ELSE <<>>) /\ UNCHANGED reqs
     ELSE /\ Alloc(r, "null", <<>>, {}, 0)
          /\ Goto(<<Frame("schedule", Head(top.q), r),
                    FrameOf("asked", NoServer, Null, Tail(top.q), top.w, 0)>>)
  /\ UNCHANGED <<conn, slots, rounds, rv, want, budget>>

Asked ==
  /\ At("asked")
  /\ \E q \in {top.q} \cup (IF rv THEN {<<>>} ELSE {}) :
       Goto((IF rv THEN <<Frame("run", NoServer, Null)>> ELSE <<>>)
            \o <<FrameOf("ask", NoServer, Null, q, top.w, 0)>>)
  /\ UNCHANGED <<conn, slots, rounds, reqs, rv, want, budget>>

(* The script calls the extension, or its failure callback does: bound,    *)
(* the callback makes no multi-gets.                                       *)
Script(c) == stack = <<>> \/ (At("callback") /\ c.op # "getMulti")

Call(c) ==
  /\ Script(c) /\ calls < MaxCalls /\ calls' = calls + 1
  /\ stack' = (CASE c.op = "set"      -> <<FrameOf("store", NoServer, Null, c.keys, 0, Redundancy)>>
                 [] c.op = "setMulti" -> <<FrameOf("store", NoServer, Null, c.keys, 1, Redundancy)>>
                 [] c.op = "get"      -> <<FrameOf("store", NoServer, Null, c.keys, 0, 1)>>
                 [] c.op = "getMulti" -> <<Each("get", Null, c.keys), Frame("run", NoServer, Null)>>
                 [] c.op = "flush"    -> <<Each("flush", Null, Servers)>>
                 [] c.op = "version"  -> <<FrameOf("ask", NoServer, Null, Servers, 0, 0)>>
                 [] c.op = "stats"    -> <<FrameOf("ask", NoServer, Null, Servers, 1, 0)>>) \o stack
  /\ want' = IF c.op = "getMulti" THEN c.keys ELSE want
  /\ UNCHANGED <<conn, slots, rounds, reqs, rv, faults>>

----------------------------------------------------------------------------
(* The network and the clock.  Whatever the other end does is noticed when *)
(* the client next selects or sends.                                       *)

Noticed == stack = <<>> \/ At("select") \/ At("xmit")

(* The server closes the connection; replies it has not sent are lost. *)
PeerClose(s) ==
  /\ Noticed /\ link[s] = "up"
  /\ Fault("close")
  /\ link' = [link EXCEPT ![s] = "eof"]
  /\ \E n \in 0 .. Len(wire[s]) : wire' = [wire EXCEPT ![s] = SubSeq(@, 1, n)]
  /\ UNCHANGED <<status, partly, slots, rounds, reqs, stack, rv, want, calls>>

(* The server replies to a request it has not read to the end. *)
PeerEarly(s) ==
  /\ Noticed /\ link[s] = "up" /\ partly[s] = "yes" /\ sendreq[s] # Null
  /\ Fault("early")
  /\ partly' = [partly EXCEPT ![s] = "answered"]
  /\ wire' = [wire EXCEPT ![s] = Append(@, sendreq[s])]
  /\ UNCHANGED <<status, link, slots, rounds, reqs, stack, rv, want, calls>>

(* retry_interval seconds pass. *)
Tick(s) ==
  /\ status[s] = "failed" /\ RetryInterval = "elapses"
  /\ status' = [status EXCEPT ![s] = "retriable"]
  /\ UNCHANGED <<link, wire, partly, slots, rounds, reqs, stack, rv, want, budget>>

----------------------------------------------------------------------------

(* mmc_pool_new, with servers that mmc_server_new has made or that         *)
(* mmc_find_persistent has found as another script left them.              *)
Init ==
  /\ config \in Configs
  /\ status \in [Server -> {"disconnected"} \cup IF Persistent THEN {"unknown", FailedStatus} ELSE {}]
  /\ link = [s \in Server |-> IF status[s] = "unknown" THEN "up" ELSE "none"]
  /\ wire = [s \in Server |-> <<>>]
  /\ partly = [s \in Server |-> "no"]
  /\ sendreq = [s \in Server |-> Null]
  /\ readreq = [s \in Server |-> Null]
  /\ buildreq = [s \in Server |-> Null]
  /\ sendqueue = [s \in Server |-> <<>>]
  /\ readqueue = [s \in Server |-> <<>>]
  /\ sending = [w \in 1 .. 2 |-> <<>>]
  /\ reading = [w \in 1 .. 2 |-> <<>>]
  /\ cur = 1 /\ in_select = FALSE /\ wfds = {} /\ rfds = {}
  /\ pending = <<>>
  /\ request = <<>> /\ free_requests = <<>>
  /\ stack = <<>> /\ rv = TRUE /\ want = <<>>
  /\ faults = 0 /\ calls = 0

(* What the process does next, given the network. *)
Process ==
  \/ ScheduleInvalid \/ Schedule \/ ScheduleRefused
  \/ SlotSend \/ SlotSendRefused \/ Unslot
  \/ Deactivate \/ Drain \/ LeaveCallback
  \/ GiveUp \/ FailOver \/ FindNext
  \/ Retry \/ Unqueue \/ RetryRead
  \/ HelpRound \/ Ready \/ Expire \/ SelectError
  \/ LateSend \/ LateRead \/ Late
  \/ SendLoop \/ SendDone \/ SendMore \/ SendError \/ Unread \/ SendEnd
  \/ ReadLoop \/ ParseDone \/ ParseEarly \/ EarlyDone \/ ParseValue \/ ParseError
  \/ ParseMore \/ ParseEof \/ ParseEnd
  \/ RunPending \/ Built \/ RunRounds
  \/ Store \/ Stored \/ CloneKey \/ Get \/ GetFull \/ Rebuild \/ GetEnd \/ Flush \/ Flushed
  \/ Ask \/ Asked

Step == Process /\ UNCHANGED config

Next ==
  \/ Step
  \/ /\ \/ \E c \in Calls : Call(c)
        \/ \E s \in Server : PeerClose(s) \/ PeerEarly(s) \/ Tick(s)
     /\ UNCHANGED config

(* The process takes its steps; nobody has to call it, or to disturb it. *)
Spec == Init /\ [][Next]_vars /\ WF_vars(Step)

----------------------------------------------------------------------------
(* Properties.                                                             *)

(* The requests of a server, in the order they are sent and answered. *)
Slotted(r, q) == IF r = Null THEN q ELSE <<r>> \o q
ToSend(s) == Slotted(sendreq[s], sendqueue[s])
ToRead(s) == Slotted(readreq[s], readqueue[s])

(* Between two steps of the code that belong together. *)
Settled == stack = <<>> \/ top.pc \in {"select", "run", "store", "flush", "send",
                                       "read", "xmit", "parse"}

(* What the code does not handle, each shown by TLC (README.md).           *)

(* A server fails while a multi-get builds a request for it, because its   *)
(* connection is refused, as the second one while the first failure is     *)
(* handled, or because the keys fill a request for each of two servers and *)
(* begin another one: the request is failed over both by                   *)
(* mmc_server_deactivate and by mmc_pool_schedule, or taken from a server  *)
(* that stays in pool->pending.                                            *)
LosesBuild ==
  \E c \in Calls :
    /\ c.op = "getMulti"
    /\ \/ Dead # {} \/ MaxFaults > 1
       \/ /\ MaxFaults = 1
          /\ \/ {"refuse", "timeout", "select"} \cap Faults # {}
             \/ Len(c.keys) > 2 * MaxGetKeys + 1

(* A stream is given up under its requests, and the connection is refused  *)
(* when mmc_pool_slot_send shifts the next one into the send slot: that    *)
(* one is failed over by mmc_server_deactivate and by mmc_pool_slot_send.  *)
FailsTwice ==
  /\ AllowFailover
  /\ Persistent \/ "early" \in Faults
  /\ "refuse" \in Faults \/ Dead # {}

(* A failure callback runs rounds of its own below a round that is not     *)
(* past its select() yet (in_select is 0 while it takes out the servers    *)
(* that timed out), or on a server that has come back.                     *)
Interrupts == Reentrant /\ (RetryInterval # "never" \/ {"timeout", "select"} \cap Faults # {})

(* A store that fails on its first server is not waited for, although its  *)
(* clones may be scheduled (memcache.c:983).                               *)
SkipsRun == Redundancy > 1 /\ \E c \in Calls : c.op = "set"

Handled == ~LosesBuild /\ ~FailsTwice /\ ~Interrupts

Created == 1 .. Len(request)
TypeOK ==
  /\ status \in [Server -> {"failed", "retriable", "disconnected", "unknown", "connected"}]
  /\ link \in [Server -> {"none", "up", "eof"}]
  /\ wire \in [Server -> Seq(Created)]
  /\ partly \in [Server -> {"no", "yes", "answered"}]
  /\ {sendreq, readreq, buildreq} \subseteq [Server -> Created \cup {Null}]
  /\ {sendqueue, readqueue} \subseteq [Server -> Seq(Created)]
  /\ {sending, reading} \subseteq [1 .. 2 -> Seq(Server)]
  /\ cur \in 1 .. 2 /\ in_select \in BOOLEAN
  /\ wfds \subseteq Server /\ rfds \subseteq Server
  /\ pending \in Seq(Server)
  /\ request \in Seq([kind : {"key", "multi", "null", "blank"}, keys : Seq(Key),
                      failed : SUBSET Server, index : Nat, io : Server \cup {NoServer}])
  /\ free_requests \in Seq(Created \cup {Null})
  /\ \A i \in DOMAIN stack :
       /\ stack[i].s \in Server \cup {NoServer}
       /\ stack[i].r \in Created \cup {Null}
       /\ stack[i].pc \in {"schedule", "unslot", "failover", "probe", "retry"}
            => stack[i].s \in Server /\ stack[i].r \in Created
  /\ rv \in BOOLEAN /\ want \in Seq(Key) /\ config \in Configs
  /\ faults \in 0 .. MaxFaults /\ calls \in 0 .. MaxCalls

(* No slot, stream or request is NULL where the code dereferences it       *)
(* without a check: the loops over the queues of a round                   *)
(* (memcache_pool.c:1436-1450, 1457-1482) and the handlers of a request    *)
(* (:209, :1589), which also rely on a request of a server being on the    *)
(* stream of that server.                                                  *)
NoNullDereference == Handled =>
  /\ At("select") /\ ~in_select => CanCollect
  /\ At("lateSend") => \A s \in ToSet(sending[top.w]) : sendreq[s] # Null
  /\ At("lateRead") => \A s \in ToSet(reading[top.w]) : readreq[s] # Null
  /\ At("xmit")  /\ sendreq[top.s] # Null => link[top.s] # "none"
  /\ At("parse") /\ readreq[top.s] # Null => link[top.s] # "none"

(* "connections that have non-finalized requests" (memcache_pool.h:360):   *)
(* when mmc_pool_schedule_pending pops a server (memcache_pool.c:2029) it  *)
(* has a request being built, whatever failed since it was queued.         *)
PendingIsBuilding == At("run") => \A s \in ToSet(pending) : buildreq[s] # Null

(* Where a failed server is not tried again, it holds for the others       *)
(* (memcache_pool.c:1292, 1314, 2029-2032): nobody but the failure of the  *)
(* server itself (:666-669) takes the request from it, however the         *)
(* failovers nest that build requests of their own (memcache.c:1958).      *)
PendingIsBuildingOrFailed == RetryInterval = "never" =>
  \A s \in ToSet(pending) : buildreq[s] # Null \/ status[s] = "failed"

(* A round loses nobody: when the next select() begins (memcache_pool.c:   *)
(* 1432) every server with a request to send is in pool->sending and every *)
(* server with a reply to read in pool->reading, although the handlers of  *)
(* the last round added and removed servers while it looped over them.     *)
(* After a retry on a persistent connection that had gone away it does not *)
(* hold: RunCompletes, below, is what then fails.                          *)
RoundsServeAll ==
  Handled /\ ~Persistent /\ At("select") /\ ~in_select => \A s \in Server :
    /\ sendreq[s] # Null => s \in ToSet(sending[cur])
    /\ readreq[s] # Null => s \in ToSet(reading[cur])

(* mmc_pool_run "runs all scheduled requests to completion"                *)
(* (memcache_pool.c:2036-2037): when the script has control again, nothing *)
(* is waiting to be built, sent or answered.                               *)
RunCompletes ==
  stack = <<>> => \A s \in Server :
    ToSend(s) = <<>> /\ ToRead(s) = <<>> /\ buildreq[s] = Null

(* It holds where no send is retried on a persistent connection that had   *)
(* gone away (memcache_pool.c:689-695).                                    *)
RunCompletesUnretried == Handled /\ ~SkipsRun /\ ~Persistent => RunCompletes

(* "requests are owned by us so free them" (memcache_pool.c:943): when the *)
(* script has control, every request ever created is on the free list, so  *)
(* that mmc_pool_free frees it.  What RunCompletes leaves behind is lost.  *)
AllReturned ==
  Handled /\ ~SkipsRun /\ ~Persistent /\ stack = <<>> => Created \subseteq ToSet(free_requests)

(* The requests of a server that are not sent yet are the last of those it *)
(* has to answer, in the same order: the pipeline of mmc_pool_schedule     *)
(* (memcache_pool.c:1214-1234) survives retries, and the send queue can be *)
(* ignored when the server fails (:653-654).                               *)
SendOrder == Handled /\ Settled => \A s \in Server : IsSuffix(ToSend(s), ToRead(s))

(* The reply that is parsed for the request in the read slot               *)
(* (memcache_pool.c:1589) is the reply to that request and to no other.    *)
ReplyMatches ==
  At("parse") /\ readreq[top.s] # Null /\ wire[top.s] # <<>>
    => Head(wire[top.s]) = readreq[top.s]

(* It holds on servers that are new to this script, and on persistent ones *)
(* when requests do not fail over (memcache_pool.c:689-695, 1049), where   *)
(* no request is the clone of itself (:1259).                              *)
ReplyMatchesUnretried ==
  Handled /\ Redundancy <= 1 /\ ~(Persistent /\ AllowFailover) => ReplyMatches

(* A request "must be added to pool using mmc_pool_schedule or released    *)
(* with mmc_pool_release" (memcache_pool.c:1106), not both: what is on the *)
(* free list, to be reset and reused, is with no server, to be sent or     *)
(* answered.  (What is being built for a server is not meant: a multi-get  *)
(* may be failed over in two places, see LosesBuild.)                      *)
ScheduledOrReleased == Handled =>
  \A s \in Server : (ToSet(ToSend(s)) \cup ToSet(ToRead(s))) \cap ToSet(free_requests) = {}

(* A failover handler is called for a request that somebody has to place:  *)
(* a failure that is handled at two levels of the recursion                *)
(* (memcache_pool.c:657-663 below :1188-1193) does not fail the same       *)
(* request over twice.  Without failover the handler gives every request   *)
(* up, and what RunCompletes leaves behind comes to it again.              *)
FailsOverOnce == AllowFailover /\ At("failover") => top.r \notin ToSet(free_requests)

(* It holds where the two levels have different requests to place.         *)
FailsOverOnceHandled == Handled => FailsOverOnce

(* A request has one send buffer and one stream: however often it fails    *)
(* over, it is with one server at a time (memcache_pool.c:1046-1060).      *)
OneServer == Handled =>
  \A s, t \in Server : s # t => ToSet(ToRead(s)) \cap ToSet(ToRead(t)) = {}

(* A server that is marked as failed has no requests left that would wait  *)
(* until retry_interval is over (memcache_pool.c:636-683, 1207), whichever *)
(* of the nested failovers came last.  A multi-get may go on building a    *)
(* request for it (:1314), which mmc_pool_schedule_pending then fails over.*)
FailedIsIdle ==
  \A s \in Server : status[s] = "failed" => ToSend(s) = <<>> /\ ToRead(s) = <<>>

(* Every request goes through its life as MmcRequests promises             *)
(* (memcache_pool.c:595-1685): nothing is given to a server after it was   *)
(* released, and nothing that a server has is forgotten.                   *)
Where(r) == IF r \in ToSet(free_requests) THEN "free"
            ELSE IF \E s \in Server : r \in ToSet(ToRead(s))
            THEN CHOOSE s \in Server : r \in ToSet(ToRead(s))
            ELSE "held"
Requests == INSTANCE MmcRequests WITH
  where <- IF Handled THEN [r \in Created |-> Where(r)] ELSE <<>>
ImplementsRequests == Requests!RSpec

(* Every call returns: failover ends, however servers fail (memcache_pool. *)
(* c:1049, 2042), and no round waits for a server that is in no queue.     *)
CallsReturn == (stack # <<>>) ~> (stack = <<>>)
============================================================================
