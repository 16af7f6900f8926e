----------------------------- MODULE MCMmcPool -----------------------------
(* MmcPool for TLC: two servers, up to three keys, and a set of            *)
(* configurations for each question.                                       *)
EXTENDS MmcPool

CONSTANTS A, B, k1, k2, k3

MCServers == <<A, B>>
MCKey == {k1, k2, k3}

Probes(redundancy) == 0 .. MaxAttempts + redundancy

(* One key on B, the others on A; failover starts at the other server.     *)
SpreadHash == [k \in MCKey |-> IF k = k2 THEN B ELSE A]
SpreadHashNext(redundancy) ==
  [k \in MCKey |-> [i \in Probes(redundancy) |->
     IF (k = k2) = (i % 2 = 0) THEN A ELSE B]]

(* All keys on A, so that requests queue up behind one another.           *)
SharedHash == [k \in MCKey |-> A]
SharedHashNext(redundancy) ==
  [k \in MCKey |-> [i \in Probes(redundancy) |->
     IF i % 2 = 0 THEN B ELSE A]]

MCSet(k)  == [op |-> "set", keys |-> <<k>>]
SetArray(k) == [op |-> "setMulti", keys |-> <<k>>]
SetMulti  == [op |-> "setMulti", keys |-> <<k1, k2>>]
GetOne(k) == [op |-> "get", keys |-> <<k>>]
GetMulti  == [op |-> "getMulti", keys |-> <<k1, k2>>]
GetThree  == [op |-> "getMulti", keys |-> <<k1, k2, k3>>]
Version   == [op |-> "version", keys |-> <<>>]
Stats     == [op |-> "stats", keys |-> <<>>]
FlushAll  == [op |-> "flush", keys |-> <<>>]

StoreCalls == {SetMulti, GetOne(k1)}
MultiCalls == {FlushAll, SetArray(k1), Version, Stats}

AllFaults     == {"refuse", "close", "error", "timeout", "partial", "early", "select"}
NetworkFaults == {"refuse", "close", "error"}

(* Stores and gets of one server, with what may go wrong on it.            *)
Stores ==
  [AllowFailover |-> TRUE, Redundancy |-> 1, Api |-> "select", MaxGetKeys |-> 2,
   RetryInterval |-> "elapses", Persistent |-> FALSE, Reentrant |-> FALSE,
   Hash |-> SharedHash, HashNext |-> SharedHashNext(1), Dead |-> {},
   Faults |-> AllFaults \ {"early"}, MaxFaults |-> 3, Calls |-> StoreCalls, MaxCalls |-> 2]

(* Servers that reply early and are there again at once; one call.         *)
EarlyStores ==
  [Stores EXCEPT !.Faults = {"partial", "early", "close", "timeout"}, !.MaxCalls = 1]

(* The same on servers as an earlier script, or call, left them, with      *)
(* poll(); one call.                                                       *)
PersistentStores ==
  [Stores EXCEPT !.Persistent = TRUE, !.Api = "poll",
                 !.Faults = AllFaults \ {"refuse"}, !.MaxFaults = 2, !.MaxCalls = 1]

(* A failure callback that uses the pool.                                  *)
ReentrantStores ==
  [Stores EXCEPT !.Reentrant = TRUE, !.RetryInterval = "never",
                 !.Hash = SpreadHash, !.HashNext = SpreadHashNext(1),
                 !.Faults = NetworkFaults, !.MaxFaults = 2, !.MaxCalls = 3]

(* memcache.allow_failover = 0.                                            *)
NoFailover ==
  [PersistentStores EXCEPT !.AllowFailover = FALSE, !.Calls = {SetMulti, MCSet(k1)},
                           !.Faults = {"refuse", "close", "partial"}, !.MaxFaults = 3,
                           !.MaxCalls = 2]

(* A multi-get whose servers fail while its requests are being built.      *)
FailingGets ==
  [Stores EXCEPT !.MaxGetKeys = 1, !.RetryInterval = "never",
                 !.Hash = SpreadHash, !.HashNext = SpreadHashNext(1),
                 !.Faults = {"timeout"}, !.MaxFaults = 2,
                 !.Calls = {GetThree}, !.MaxCalls = 1]

(* Calls that use several servers, with redundancy.                        *)
MultiServer ==
  [Stores EXCEPT !.Redundancy = 2, !.MaxGetKeys = 1, !.RetryInterval = "never",
                 !.Hash = SpreadHash, !.HashNext = SpreadHashNext(2),
                 !.Faults = NetworkFaults, !.MaxFaults = 1, !.Calls = MultiCalls]

(* Multi-gets of up to three keys, of which a request takes one, and a     *)
(* server that fails while it has some of the requests.                    *)
SplitGets ==
  [MultiServer EXCEPT !.Redundancy = 1, !.HashNext = SpreadHashNext(1),
                      !.Faults = {"close", "error"},
                      !.Calls = {GetMulti, GetThree}]

PoolConfigs == {Stores, EarlyStores, PersistentStores, ReentrantStores, NoFailover,
                FailingGets}
MultiConfigs == {MultiServer, SplitGets}

(* The smallest ones that show the disagreements.                          *)
RetryConfigs ==
  {[Stores EXCEPT !.Persistent = TRUE, !.Faults = NetworkFaults, !.MaxFaults = 1]}
MultiGet ==
  [Stores EXCEPT !.RetryInterval = "never", !.Hash = SpreadHash,
                 !.HashNext = SpreadHashNext(1), !.Faults = {"timeout"},
                 !.MaxFaults = 1, !.Calls = {GetMulti}, !.MaxCalls = 1]
TimeoutConfigs == {MultiGet}
DeadConfigs == {[MultiGet EXCEPT !.Dead = {A}, !.MaxFaults = 0]}
============================================================================
