---------------------------- MODULE MmcSession ----------------------------
(* The session handler of memcache_session.c: PHP pages that share one       *)
(* session, read it, run, and write it back, destroy it or leave it.  Each   *)
(* memcached server keeps the session data and a lock, an item               *)
(* "<key>.lock" that a page increments or adds to lock it and sets to 0 to   *)
(* unlock it.  The item has an expiration time, here its lease.              *)
(*                                                                           *)
(* A page sends the commands of one attempt to one server, which executes    *)
(* them in order and at its own pace: sent[p][s] are those it has not        *)
(* executed.  The request scheduler below (MmcPool) is left out, except that *)
(* a server can fail for a page, which then gets no more replies from it.    *)
EXTENDS Integers, Sequences, FiniteSets, FiniteSetsExt

CONSTANTS
    Page,           \* the PHP requests that use the session, once each
    Server,         \* the servers of memcache.session_save_path
    Probes,         \* the servers the keys "<key>-0", "<key>-1", ... hash to, in a cycle
    MaxAttempts,    \* memcache.max_failover_attempts
    Redundancy,     \* memcache.session_redundancy
    LockTimeout,    \* memcache.lock_timeout, in ticks
    Binary,         \* memcache.protocol = binary
    MaxFaults,      \* bound: lost connections and evicted items
    Old,            \* the session as an earlier page has left it
    None,           \* no item
    Unread          \* no reply to a get

ASSUME SessionAssumption ==
    /\ IsFiniteSet(Server)
    /\ Probes \in Seq(Server) /\ Probes # <<>>
    /\ MaxAttempts \in Nat /\ Redundancy \in Nat \ {0}
    /\ LockTimeout \in Nat \ {0}
    /\ Binary \in BOOLEAN
    /\ MaxFaults \in Nat
    /\ Old \notin Page
    /\ None \notin Page \cup {Old} \cup (0..2)
    /\ Unread \notin Page \cup {Old, None}

VARIABLES
    data,       \* the session on each server: the page that wrote it, Old or None
    lock,       \* the lock on each server: None, 0, 1 or 2, which is two or more
    lease,      \* ticks until the lock expires
    sent,       \* commands a server has to execute for a page
    pc, op,     \* where a page is, and which handler it runs
    skip,       \* skip_servers
    index,      \* last_index, for a read without the attempt that is going on
    remaining,  \* remainingtime, in ticks
    valid,      \* the servers that are valid for the page
    got,        \* lockresult is 1 or addresult is TRUE
    seen,       \* dataresult of each server
    locked,     \* history: the servers a page has locked and not unlocked
    spoiled,    \* history: servers whose lock was lost or overruled while a page had it
    excused,    \* history: a fault, an expired lock, a timed-out read or a destroy happened
    faults      \* history: faults so far

serverVars == <<data, lock, lease>>
loopVars   == <<skip, index, remaining>>
history    == <<locked, spoiled, excused, faults>>
vars == <<serverVars, sent, pc, op, loopVars, valid, got, seen, history>>

Session == Page \cup {Old}
Command == {"incr", "add", "get", "set", "unlock", "delete", "deleteLock"}
Handler == {"read", "write", "destroy"}

TypeOK ==
    /\ data \in [Server -> Session \cup {None}]
    /\ lock \in [Server -> {None} \cup 0..2]
    /\ lease \in [Server -> 0..LockTimeout]
    /\ sent \in [Page -> [Server -> Seq(Command)]]
    /\ pc \in [Page -> {"idle", "find", "wait", "sleep", "page", "over"}]
    /\ op \in [Page -> Handler]
    /\ skip \in [Page -> SUBSET Server]
    /\ index \in [Page -> Nat]
    /\ remaining \in [Page -> 0..2 * LockTimeout]
    /\ valid \in [Page -> SUBSET Server]
    /\ got \in [Page -> BOOLEAN]
    /\ seen \in [Page -> [Server -> Session \cup {None, Unread}]]
    /\ locked \in [Page -> SUBSET Server]
    /\ spoiled \in SUBSET Server
    /\ excused \in BOOLEAN
    /\ faults \in 0..MaxFaults

Init ==
    /\ data \in {[s \in Server |-> None], [s \in Server |-> Old]}
    /\ lock = [s \in Server |-> None]
    /\ lease = [s \in Server |-> 0]
    /\ sent = [p \in Page |-> [s \in Server |-> <<>>]]
    /\ pc = [p \in Page |-> "idle"]
    /\ op = [p \in Page |-> "read"]
    /\ skip = [p \in Page |-> {}]
    /\ index = [p \in Page |-> 0]
    /\ remaining = [p \in Page |-> 0]
    /\ valid = [p \in Page |-> Server]
    /\ got = [p \in Page |-> FALSE]
    /\ seen = [p \in Page |-> [s \in Server |-> Unread]]
    /\ locked = [p \in Page |-> {}]
    /\ spoiled = {} /\ excused = FALSE /\ faults = 0

-----------------------------------------------------------------------------
(* The failover sequence.  An index beyond MaxAttempts is kept in one cycle  *)
(* of Probes, which changes nothing: the code only compares it with          *)
(* max_failover_attempts and hashes it.                                      *)
Probe(i) == Probes[(i % Len(Probes)) + 1]

\* Mutant: last_index is not moved on.
AfterStays(i) == i
After(i) == IF i + 1 = MaxAttempts + Len(Probes) THEN MaxAttempts ELSE i + 1

\* The index that mmc_pool_find_next, called with last_index = i, stops at.
Stops(i, skipped) ==
    {j \in i..(i + MaxAttempts) : Probe(j) \notin skipped \/ j + 1 >= MaxAttempts}
Hit(i, skipped) == Min(Stops(i, skipped))

\* The loop condition without the time that remains.
Enough(skipped) ==
    \/ Cardinality(skipped) >= Redundancy
    \/ Cardinality(skipped) >= Cardinality(Server)

\* Mutant: the time that remains is not looked at.
LoopPcForever(skipped, time) == IF Enough(skipped) THEN "page" ELSE "find"

LoopPc(skipped, time) == IF Enough(skipped) \/ time <= 0 THEN "page" ELSE "find"

-----------------------------------------------------------------------------
(* History.  The lock of s is spoiled from the moment it expires or is       *)
(* evicted under a page that has it, or that another page changes the data   *)
(* or the lock, until no page thinks that it has the lock.                   *)
HasOther(p, s) == \E q \in Page \ {p} : s \in locked[q]
Has(s) == \E p \in Page : s \in locked[p]

\* A page takes or gives up locks, and S is spoiled besides.
Holding(newLocked, S) ==
    /\ locked' = newLocked
    /\ spoiled' = {s \in spoiled \cup S : \E p \in Page : s \in newLocked[p]}

-----------------------------------------------------------------------------
(* PS_READ_FUNC *)

\* session_start: a new process with its own pool.
Read(p) ==
    /\ pc[p] = "idle"
    /\ pc' = [pc EXCEPT ![p] = "find"]
    /\ remaining' = [remaining EXCEPT ![p] = 2 * LockTimeout]
    /\ UNCHANGED <<serverVars, sent, op, skip, index, valid, got, seen, history>>

\* Mutant of LockCommands: the data is read before the lock is taken.
LockCommandsGetFirst == <<"get", "incr", "add">>

\* The three commands of php_mmc_session_read_request.
LockCommands == <<"incr", "add", "get">>

\* mmc, as the loop finds it, and last_index after that.
Index(p) == Hit(index[p], skip[p])
Mmc(p) == Probe(Index(p))

\* The server is skipped.
Skip(p) ==
    /\ skip' = [skip EXCEPT ![p] = @ \cup {Mmc(p)}]
    /\ index' = [index EXCEPT ![p] = After(Index(p))]
    /\ pc' = [pc EXCEPT ![p] = LoopPc(skip[p] \cup {Mmc(p)}, remaining[p])]

\* One turn of the loop up to mmc_pool_run.
Attempt(p) ==
    /\ pc[p] = "find" /\ op[p] = "read"
    /\ seen' = [seen EXCEPT ![p][Mmc(p)] = Unread]
    /\ IF Mmc(p) \in valid[p]
       THEN /\ sent' = [sent EXCEPT ![p][Mmc(p)] = @ \o LockCommands]
            /\ pc' = [pc EXCEPT ![p] = "wait"]
            /\ UNCHANGED <<skip, index>>
       ELSE Skip(p) /\ UNCHANGED sent
    /\ UNCHANGED <<serverVars, op, remaining, valid, got, history>>

\* mmc_pool_run is back with all replies, or the server failed.
Judge(p) ==
    /\ pc[p] = "wait" /\ op[p] = "read"
    /\ Mmc(p) \notin valid[p] \/ sent[p][Mmc(p)] = <<>>
    /\ got' = [got EXCEPT ![p] = FALSE]
    /\ UNCHANGED <<serverVars, sent, op, remaining, valid, seen, history>>

\* Locked, and the server has the session: the read returns it.
Found(p) ==
    /\ Judge(p)
    /\ got[p] /\ seen[p][Mmc(p)] \in Session
    /\ pc' = [pc EXCEPT ![p] = "page"]
    /\ UNCHANGED <<skip, index>>

\* Locked, without a value: try the next server.  At the end of the pool both
\* the return in the branch and the loop condition return an empty session.
Missing(p) ==
    /\ Judge(p)
    /\ got[p] /\ seen[p][Mmc(p)] \notin Session
    /\ Skip(p)

\* Mutant: the page tries again at once, and no time is taken off.
BackOffNever(p) ==
    /\ Judge(p)
    /\ ~got[p]
    /\ pc' = [pc EXCEPT ![p] = "find"]
    /\ UNCHANGED <<skip, index>>

\* Not locked: back off, restore last_index, and try the same server again.
BackOff(p) ==
    /\ Judge(p)
    /\ ~got[p]
    /\ pc' = [pc EXCEPT ![p] = "sleep"]
    /\ UNCHANGED <<skip, index>>

-----------------------------------------------------------------------------
(* PS_WRITE_FUNC and PS_DESTROY_FUNC *)

\* The page calls the handler o.
Call(p, o) ==
    /\ pc[p] = "page"
    /\ pc' = [pc EXCEPT ![p] = "find"]
    /\ op' = [op EXCEPT ![p] = o]
    /\ skip' = [skip EXCEPT ![p] = {}]
    /\ index' = [index EXCEPT ![p] = 0]
    /\ remaining' = [remaining EXCEPT ![p] = 0]
    /\ excused' = (excused \/ o = "destroy")
    /\ UNCHANGED <<serverVars, sent, valid, got, seen, locked, spoiled, faults>>

\* Mutant of WriteCommands: the lock is reset before the data is stored.
WriteCommandsUnlockFirst == <<"unlock", "set">>

WriteCommands   == <<"set", "unlock">>
DestroyCommands == <<"delete", "deleteLock">>

Commands(o) == IF o = "write" THEN WriteCommands ELSE DestroyCommands

\* One turn of either loop.
Schedule(p) ==
    /\ pc[p] = "find" /\ op[p] # "read"
    /\ index' = [index EXCEPT ![p] = After(Index(p))]
    /\ skip' = [skip EXCEPT ![p] = @ \cup {Mmc(p)}]
    /\ sent' = IF Mmc(p) \in valid[p]
               THEN [sent EXCEPT ![p][Mmc(p)] = @ \o Commands(op[p])]
               ELSE sent
    /\ pc' = [pc EXCEPT ![p] = IF Enough(skip'[p]) THEN "wait" ELSE "find"]
    /\ UNCHANGED <<serverVars, op, remaining, valid, got, seen, history>>

\* The page ends, with its pool: it has no locks any more, whatever the servers
\* have.
End(p) ==
    /\ pc' = [pc EXCEPT ![p] = "over"]
    /\ seen' = [seen EXCEPT ![p] = [s \in Server |-> Unread]]
    /\ Holding([locked EXCEPT ![p] = {}], {})
    /\ UNCHANGED <<serverVars, sent, op, loopVars, valid, got, excused, faults>>

\* mmc_pool_run is back.
Finish(p) ==
    /\ pc[p] = "wait" /\ op[p] # "read"
    /\ \A s \in valid[p] : sent[p][s] = <<>>
    /\ End(p)

\* The page dies, or closes the session without writing it.
Leave(p) ==
    /\ pc[p] = "page"
    /\ End(p)

-----------------------------------------------------------------------------
(* memcached *)

\* The replies of s reach page p.
Running(p) == pc[p] \notin {"idle", "over"}
Hears(p, s) == Running(p) /\ s \in valid[p]

\* Page p has got the lock of s if the reply reaches it.
Grant(p, s, success) ==
    IF success /\ Hears(p, s)
    THEN /\ got' = [got EXCEPT ![p] = TRUE]
         /\ Holding([locked EXCEPT ![p] = @ \cup {s}], {})
    ELSE UNCHANGED <<got, locked, spoiled>>

Fresh(s) ==
    /\ lock' = [lock EXCEPT ![s] = 1]
    /\ lease' = [lease EXCEPT ![s] = LockTimeout]

\* Mutant: every increment renews the lock.
IncrementRenews(p, s) ==
    /\ IF lock[s] # None
       THEN /\ lock' = [lock EXCEPT ![s] = IF @ = 0 THEN 1 ELSE 2]
            /\ lease' = [lease EXCEPT ![s] = LockTimeout]
       ELSE IF Binary THEN Fresh(s) ELSE UNCHANGED <<lock, lease>>
    /\ Grant(p, s, lock[s] = 0 \/ (lock[s] = None /\ Binary))
    /\ UNCHANGED <<data, seen, excused>>

\* incr keeps the expiration time; the binary one inserts a missing item.
Increment(p, s) ==
    /\ IF lock[s] # None
       THEN /\ lock' = [lock EXCEPT ![s] = IF @ = 0 THEN 1 ELSE 2]
            /\ UNCHANGED lease
       ELSE IF Binary THEN Fresh(s) ELSE UNCHANGED <<lock, lease>>
    /\ Grant(p, s, lock[s] = 0 \/ (lock[s] = None /\ Binary))
    /\ UNCHANGED <<data, seen, excused>>

\* Mutant: the lock is set, not added.
AddSets(p, s) ==
    /\ Fresh(s)
    /\ Grant(p, s, TRUE)
    /\ UNCHANGED <<data, seen, excused>>

Add(p, s) ==
    /\ IF lock[s] = None THEN Fresh(s) ELSE UNCHANGED <<lock, lease>>
    /\ Grant(p, s, lock[s] = None)
    /\ UNCHANGED <<data, seen, excused>>

Get(p, s) ==
    /\ seen' = IF Hears(p, s) THEN [seen EXCEPT ![p][s] = data[s]] ELSE seen
    /\ UNCHANGED <<serverVars, got, locked, spoiled, excused>>

\* p changes the session under the pages that have the lock of s.
Overrule(p, s) == IF HasOther(p, s) THEN {s} ELSE {}

SetData(p, s, d) ==
    /\ data' = [data EXCEPT ![s] = d]
    /\ Holding(locked, Overrule(p, s))
    /\ UNCHANGED <<lock, lease, got, seen, excused>>

SetLock(p, s, v) ==
    /\ lock' = [lock EXCEPT ![s] = v]
    /\ lease' = [lease EXCEPT ![s] = IF v = None THEN 0 ELSE LockTimeout]
    /\ Holding([locked EXCEPT ![p] = @ \ {s}], Overrule(p, s))
    /\ UNCHANGED <<data, got, seen, excused>>

\* Server s executes the next command of page p.
Execute(p, s) ==
    /\ sent[p][s] # <<>>
    /\ sent' = [sent EXCEPT ![p][s] = Tail(@)]
    /\ LET c == Head(sent[p][s])
       IN \/ c = "incr" /\ Increment(p, s)
          \/ c = "add" /\ Add(p, s)
          \/ c = "get" /\ Get(p, s)
          \/ c = "set" /\ SetData(p, s, p)
          \/ c = "unlock" /\ SetLock(p, s, 0)
          \/ c = "delete" /\ SetData(p, s, None)
          \/ c = "deleteLock" /\ SetLock(p, s, None)
    /\ UNCHANGED <<pc, op, loopVars, valid, faults>>

-----------------------------------------------------------------------------
(* Time: one tick is one back-off; locks expire. *)
Tick ==
    LET expired == {s \in Server : lease[s] = 1}
        sleeping == {p \in Page : pc[p] = "sleep"}
        timedOut == {p \in sleeping : remaining[p] = 1}
    IN /\ (\E s \in Server : lease[s] > 0) \/ sleeping # {}
       /\ lease' = [s \in Server |-> IF lease[s] > 0 THEN lease[s] - 1 ELSE 0]
       /\ lock' = [s \in Server |-> IF s \in expired THEN None ELSE lock[s]]
       /\ remaining' = [p \in Page |-> IF p \in sleeping THEN remaining[p] - 1
                                                         ELSE remaining[p]]
       /\ pc' = [p \in Page |-> IF p \in sleeping
                                THEN LoopPc(skip[p], remaining[p] - 1) ELSE pc[p]]
       /\ Holding(locked, expired)
       /\ excused' = (excused \/ timedOut # {} \/ \E s \in expired : Has(s))
       /\ UNCHANGED <<data, sent, op, skip, index, valid, got, seen, faults>>

-----------------------------------------------------------------------------
(* Faults *)
Fault ==
    /\ faults < MaxFaults
    /\ faults' = faults + 1
    /\ excused' = TRUE

\* A connect, a send or a read fails or times out.  What was sent may still
\* be executed.
Break(p, s) ==
    /\ Fault
    /\ Running(p) /\ s \in valid[p]
    /\ valid' = [valid EXCEPT ![p] = @ \ {s}]
    /\ \E n \in 0..Len(sent[p][s]) : sent' = [sent EXCEPT ![p][s] = SubSeq(@, 1, n)]
    /\ UNCHANGED <<serverVars, pc, op, loopVars, got, seen, locked, spoiled>>

\* retry_interval is over: mmc_server_valid.
Retry(p, s) ==
    /\ Running(p) /\ s \notin valid[p] /\ sent[p][s] = <<>>
    /\ valid' = [valid EXCEPT ![p] = @ \cup {s}]
    /\ UNCHANGED <<serverVars, sent, pc, op, loopVars, got, seen, history>>

\* memcached drops an item for want of memory, or restarts.
EvictData(s) ==
    /\ Fault
    /\ data' = [data EXCEPT ![s] = None]
    /\ Holding(locked, {s})
    /\ UNCHANGED <<lock, lease, sent, pc, op, loopVars, valid, got, seen>>

EvictLock(s) ==
    /\ Fault
    /\ lock' = [lock EXCEPT ![s] = None]
    /\ lease' = [lease EXCEPT ![s] = 0]
    /\ Holding(locked, {s})
    /\ UNCHANGED <<data, sent, pc, op, loopVars, valid, got, seen>>

-----------------------------------------------------------------------------
PageStep(p) ==
    \/ Read(p) \/ Attempt(p) \/ Found(p) \/ Missing(p) \/ BackOff(p)
    \/ \E o \in {"write", "destroy"} : Call(p, o)
    \/ Schedule(p) \/ Finish(p) \/ Leave(p)

Step ==
    \/ \E p \in Page : PageStep(p)
    \/ \E p \in Page, s \in Server : Execute(p, s) \/ Break(p, s) \/ Retry(p, s)
    \/ \E s \in Server : EvictData(s) \/ EvictLock(s)

Next == Step \/ Tick

Spec == Init /\ [][Next]_vars

(* A page runs on and ends, a server executes what it was sent, time passes: *)
(* something of this happens as long as it can.  No process is preferred.    *)
Progress ==
    \/ Tick
    \/ \E p \in Page : PageStep(p)
    \/ \E p \in Page, s \in Server : Execute(p, s)

LiveSpec == Spec /\ WF_vars(Progress)

-----------------------------------------------------------------------------
(* Properties *)

(* At most one page has the lock of a server, unless the lock expired or was *)
(* overruled while a page had it.  It takes incr, add and unlock of several  *)
(* pages: an item that does not exist, an item that is 0, and a count left   *)
(* behind by pages that gave up must each give the lock to one page only.    *)
OneHolder ==
    \A p, q \in Page : p # q => locked[p] \cap locked[q] \subseteq spoiled

(* What a page has read under a lock is what the server still has while the  *)
(* page reads and runs: nothing is written between a page's read and its own *)
(* write.                                                                    *)
HeldIsCurrent ==
    \A p \in Page : op[p] = "read" =>
        \A s \in locked[p] \ spoiled : seen[p][s] # Unread => data[s] = seen[p][s]

(* The failover sequence names a mirror for each copy of the session before  *)
(* the attempts are used up and mmc_pool_find_next returns skipped servers.  *)
NamesEnough == Enough({Probe(i) : i \in 0..(MaxAttempts - 1)})

(* Without a fault, an expired lock, a read that gave up or a destroy, no    *)
(* page is overruled while it reads and runs: PS_WRITE_FUNC sets and unlocks *)
(* all mirrors, also those that its page did not lock, and that hits no page *)
(* but one that is writing too.  Where a skipped mirror is named again, a    *)
(* write sets and unlocks it twice, the second time under the next page.     *)
Serialised ==
    NamesEnough /\ ~excused => \A p \in Page : op[p] = "read" => locked[p] \cap spoiled = {}

(* The expiration time of a lock only comes nearer while it is locked,       *)
(* however many pages wait for it with incr: the lock of a page that died is *)
(* free after lock_timeout.                                                  *)
LeaseRuns ==
    [][\A s \in Server : lock[s] \in {1, 2} /\ lock'[s] \in {1, 2} => lease'[s] <= lease[s]]_vars

(* Every read returns to its page, with the session or without: a page that  *)
(* waits for the lock of another one, for a lock it has itself on a mirror   *)
(* that mmc_pool_find_next names again, or for the lock of a page that has   *)
(* died, runs out of time in the end.                                        *)
ReadReturns ==
    \A p \in Page : op[p] = "read" /\ pc[p] \in {"find", "wait", "sleep"} ~> pc[p] = "page"

(* A write or a destroy ends, although its loop is only left when a server   *)
(* is skipped that was not skipped before and mmc_pool_find_next returns     *)
(* skipped ones once max_failover_attempts is used up.                       *)
HandlersReturn ==
    \A p \in Page : op[p] # "read" ~> pc[p] = "over"
=============================================================================
