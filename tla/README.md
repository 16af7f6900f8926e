# Verification of pecl-memcache

`pecl-memcache` is the `memcache` extension of PHP: a client for memcached
servers.  A script calls `memcache_set`, `memcache_get` and so on; each call
turns into requests that are scheduled on a pool of servers, pipelined over one
connection per server, and driven to completion in rounds of `select()` or
`poll()`.  It also is a session handler: pages of a site lock, read and write
their session on redundant memcached servers.  This directory holds TLA+ modules
that model the request scheduler, the queue it is built from, the hash strategies,
both protocols with the calls they serve, and the session handler, TLC
configurations that check them on small instances, and TLAPS proofs about the
queue, the scheduler, the hash strategies and the session handler.

All line numbers are those of `src/src/`.

## The system

| Component | Source | State | Operations |
|---|---|---|---|
| Queue | `memcache_queue.[ch]` | ring buffer: items, alloc, head, tail, len | push, pop, contains, remove, copy, reset, release |
| Server | `memcache_pool.c` 567-832, `memcache.c` 1183-1246 | per stream: status, socket, time of failure; the send, read and build slot, the send and read queue | connect, disconnect, deactivate, failure (retry or fail), find a persistent one |
| Request scheduler | `memcache_pool.c` 890-2048 | two generations of the queues `sending` and `reading`, `pending`, the free list, `in_select`, descriptor sets | schedule, schedule by key with redundancy, schedule a multi-get, one round, run to completion, fail over |
| Extension calls | `memcache.c` | the result of the call, shared by all its requests | store, get, increment, delete, flush, statistics, set the failure callback |
| Session handler | `memcache_session.c` | per session: the data and a lock counter on each server | open, read (lock), write (unlock), destroy |
| Protocols | `memcache_ascii_protocol.c`, `memcache_binary_protocol.c` | per request: what the parser waits for, its read buffer; per stream: the input buffer | build commands, parse replies |
| UDP transport | `memcache_pool.c` 237-302, 1160-1178 | per server: the next request id; per request: its id, next sequence number, datagrams expected | read and validate a datagram, ask again |
| Hash strategies | `memcache_standard_hash.c`, `memcache_consistent_hash.c` | the buckets; the points of the continuum | add a server, find the server of a key |

How they interact: a call allocates a request from the free list, the hash
strategy names the server, `mmc_pool_schedule` puts the request in the server's
send and read slot or queues it behind them, and queues the *server* in
`pool->sending` and `pool->reading`.  A round (`mmc_pool_select`) swaps these two
queues for empty ones, waits for descriptors, sends, reads and parses, and
refills the new queues with the servers that are not done.  A failure anywhere
deactivates the server, and every request it had is given to the request's
failover handler, which schedules it on another server - from below the loop
that is running.  A failure callback written in PHP may call the extension from
there again.

What makes the scheduler hard is this re-entrancy: the process is sequential, but
a failed connect can be handled four levels below a loop over a queue that the
handling changes.  What makes sessions hard is concurrency: pages are processes
that share nothing but the servers, whose commands interleave, and whose items
expire and are evicted under them.  `PROJECT.json` lists the hazards at their
lines.

What makes each component correct:

* queue: a FIFO without duplicates, whatever its rotation; unwritten cells are
  never read;
* scheduler: replies are given to the requests they answer; no request is lost,
  duplicated or leaked; nobody dereferences an empty slot; calls return;
* session handler: at most one page has the lock of a session; nothing is written
  between a page's read and its own write; a dead page's lock becomes free;
* protocols: a parser consumes exactly one reply per request;
* UDP: a response is assembled from its own datagrams, in order, or retried;
* hash: a key keeps its server while the pool is unchanged; the binary search
  agrees with its definition.

## Modules

| Module | Models | 
|---|---|
| `MmcQueueOps` | push, pop and remove on sequences: what the queue means to its users |
| `MmcFifo` | abstract specification of the queue, by these operations |
| `MmcQueue` | the ring buffer, and `mmc_queue_remove` as the loop it is; refines `MmcFifo` |
| `MmcQueueProofs` | its invariants and the refinement, proved |
| `MmcQueueOpsProofs` | what push, pop and remove return, proved |
| `MmcRequests` | abstract specification of a request's life: free, held, or with one server |
| `MmcHash` | both hash strategies: the continuum, its table of buckets and the binary search |
| `MmcHashProofs` | its types, what a lookup returns, and which keys move, proved |
| `MmcWire` | commands, replies, parsers and result handlers of both protocols, and multi-gets over UDP |
| `MmcPool` | the scheduler, server states and the calls that drive it; refines `MmcRequests` |
| `MmcPoolProofs` | its types, that failed servers are idle, and that pending servers keep their requests, proved |
| `MmcPoolOwnership` | who has a request: one server, in order, never after its release, proved |
| `MmcPoolRounds` | who is served by a round: nobody is lost, nothing is NULL, nothing is left behind, proved |
| `MmcPoolRefinement` | the refinement of `MmcRequests`, that every request returns, and that replies match, proved |
| `MmcSession` | pages that share a session, the servers they lock and store it on, time and faults |
| `MmcSessionLease` | `MmcSession` with the age of each lock that is held |
| `MmcSessionProofs` | types, one holder, currency of what is read, no overruled reader, and the lease, proved |
| `MCMmcQueue`, `MCMmcPool`, `MCMmcHash`, `MCMmcWire`, `MCMmcSession` | instances for TLC |

`MmcPool` extends `MmcQueueOps`, so the queues of the scheduler are the abstract
queue that the ring buffer is proved to implement.  `MmcPool` has the scheduling in
full and tells a reply by the request it answers; `MmcWire` has the replies in full
and a scheduler that sends at once.  `MmcHash` is what both take as a constant.
`MmcSession` stands on its own: a page uses its pool one `mmc_pool_run` at a time.

### MmcQueue

`queue` is the struct, with cells that hold a pointer or nothing written yet.
Push, pop and reset are one action each; `mmc_queue_remove` is a loop in the code (it empties a copy of the struct into a fresh one and leaves out
the pointer), so here it is three actions, `original` holds the copy, and the
contents of the queue in between are those of both.

### MmcPool

The C stack is the variable `stack`, a sequence of frames with the innermost
first; a frame has a `pc` and the locals the code needs when it goes on.  An
action is a piece of a C function between two calls whose callees may change
what the function reads afterwards.  `Deactivate` for example is
`mmc_server_deactivate` up to its loop, `Drain` one turn of that loop, with the
local `readqueue` in the frame; each failover handler it calls is a frame above
it.  So the model has exactly the interleavings that re-entrancy gives the code,
and no others: only the network, the clock and the script choose.

| Frames | Code |
|---|---|
| `schedule`, `slot`, `unslot` | `mmc_pool_schedule`, `mmc_pool_slot_send` |
| `deactivate`, `drain`, `callback` | `mmc_server_deactivate` |
| `failover`, `probe` | the failover handlers, `mmc_pool_find_next` |
| `retry`, `unqueue`, `retryRead` | `mmc_select_retry` |
| `select`, `lateSend`, `lateRead`, `late`, `send`, `xmit`, `unread`, `read`, `parse`, `early` | `mmc_pool_select_impl`, `mmc_pool_poll`, `mmc_select_failure` |
| `run`, `built` | `mmc_pool_run`, `mmc_pool_schedule_pending` |
| `store`, `stored`, `clone` | `php_mmc_store`, `php_mmc_numeric`, single-key `memcache_get`, `mmc_pool_schedule_key` |
| `get`, `rebuild` | `mmc_pool_schedule_get` and its two callers |
| `flush`, `flushed` | `memcache_flush` |
| `ask`, `asked` | `memcache_get_version`, `memcache_get_extended_stats` |

A step that would dereference a null pointer is not enabled, and
`NoNullDereference` and `PendingIsBuildingOrFailed` say where the code does not get
there.  Between a server and the client, `wire` holds the requests that reached
the server and whose replies were not read; a server answers in order, may
close the connection and lose the replies not yet sent, may reject a request
before it has read it all, and may answer with an error.

`config` is the configuration: INI settings, the hash, which servers are dead, which
faults may happen and how many, and the calls.  `Init` takes one of `Configs` and
nothing changes it, so that one run covers several configurations.

Abstractions: streams are TCP, payloads are left out, a reply is told by the
request it answers, a hash strategy is a constant function, a reconnected
socket gets the descriptor it had.  The text of a multi-get is its list of keys
and `MaxGetKeys` stands for `MMC_MAX_UDP_LEN`.  Increments and deletes take the
path of a store, statistics and the version that of a flush, which asks all servers.

### MmcHash

`Add`, `Close` and `Find` are `mmc_pool_add`, `mmc_pool_close` and `find_server`.  A
lookup in a consistent hash whose table is out of date goes on step by step: `Sort`
is `qsort`, which may leave equal points in any order, `Fill` starts the search
for the next bucket, one `Search` is one turn of `mmc_consistent_find`, and
`Populated` answers from the table.  The hash function is an arbitrary map of
points to the circle (`Positions`).  Integers are unbounded; the code compares
`unsigned int` and the only arithmetic is the product in `Place`, which stays
below 2^32.

`before` is history: the points when the table was last complete, which is what
`RemapsToNew` compares with.

### MmcWire

A reply is a sequence of tokens: a text line is a head and the end of the line, an
item is `Length` pieces of data, a binary header is two halves.  `Arrive` brings
one token at a time, so a parser may run after each, and replies are cut at every
place.  Each token carries the number of the request it answers, which the
parsers do not look at.

| Actions | Code |
|---|---|
| `Get`, `Gets`, `Set`, `Numeric`, `Session`, `Stats`, `Flush` | the calls, with the return value each starts from |
| `ParseResponse`, `ParseMutate`, `ParseValue`, `ReadValue` | the text parsers |
| `ParseHeader`, `ReadResponse`, `ReadMutate`, `ParseFlags`, `ReadBody` | the binary parsers |
| `Wake`, `Done`, `Wait`, `Fail`, `Timeout` | the loop of `mmc_pool_select_impl` around `parse()`, and its timeout |
| `ReadUdp`, `Retry` | `mmc_request_read_udp`, `mmc_select_retry` with `mmc_value_failover_handler` |
| `Answer`, `Arrive`, `Lose`, `Drop` | memcached and the network |

`Stored`, `NumericResponse`, `FlushResponse`, `StatsResponse` and `Value` are the
handlers that write the result of the call, which all its requests share.
`GetLine` and `GetBytes` keep what is read in `input`, which belongs to the
stream; `Take` and `TakeLine` tell PHP's buffer (`buf`) from the socket, because
`select()` only sees the latter.

A multi-get over UDP is answered in one datagram or in two, cut anywhere.  A
datagram may be lost, overtake another one, or come twice, and so may the command
be lost.  `mmc->reqid` counts modulo `RequestIds`.  When a datagram is not the one
expected, one with a smaller id is thrown away, and otherwise the request is asked
again on a new socket, for the keys that have no value yet.

`torn` is history.  It is set when failover moves a request whose parser is in the
middle of a reply, or leaves a partial line in the input buffer, and when the first
datagram to arrive is not the first of the reply.  The code takes no notice of
either, and no invariant about what is parsed holds afterwards (run `wire_torn`); the
properties say that nothing else gets a parser out of step.  A script does not go on
with another call after that (a bound).

Abstractions: a request is sent at once; one server is read at a time; connections
are new to the script, so that every failure deactivates a server and fails its
requests over, to any other server that is up; redundancy is 1; a reply is told
apart by what the parsers look at.  memcached answers in order, with an outcome of each
kind that the handlers tell apart: done, with the keys that were found, refused
(`exists`, `not_found`, `client_error`, which for a store is what `too_large` and
`out_of_memory` are), and an error, which makes the server fail.  There are no errors to
quiet gets and to NOOP, and errors are a fault.  The keys of a server fit into
one datagram: what a retry does to other requests on a server is scheduling, and
`RunCompletes` of `MmcPool` is about it.

### MmcSession

Each page runs once: it reads the session, then writes it, destroys it, or ends
without a write, as a page that dies does.  `op` is the handler that it runs and
`pc` the place in it: `find` is the head of a loop, before `mmc_pool_find_next`;
`wait` is in `mmc_pool_run`; `sleep` is in the `usleep` of the back-off; `page` is
between the handlers.

| Actions | Code |
|---|---|
| `Read`, `Attempt` | `PS_READ_FUNC` 287-346, `php_mmc_session_read_request` |
| `Found`, `Missing`, `BackOff` | its three branches, 348-382 |
| `Call`, `Schedule`, `Finish` | `PS_WRITE_FUNC`, `PS_DESTROY_FUNC` |
| `Leave` | `PS_CLOSE_FUNC` of a page that does not write |
| `Execute` | a server executes `incr`, `add`, `get`, `set` or `delete` (memcached) |
| `Tick` | one back-off; expiration times come nearer |
| `Break`, `Retry`, `EvictData`, `EvictLock` | lost connections, `retry_interval`, evictions |

A read sends three commands at once, which lock, lock if the item is missing, and
get.  A server executes the commands of one page in order and those of several
pages interleaved; that is the concurrency of this module.  memcached is external
and modelled by what the code relies on: an increment keeps the item's expiration
time, the text one fails on a missing item, the binary one creates it.

`locked`, `spoiled`, `excused` and `faults` are history: no action but a bounded
fault looks at them.  `locked[p]` are the servers whose lock page `p` was told it
has; a server is `spoiled` from the moment its lock expires, is evicted or is
overruled under a page, until no page thinks that it has it.

Abstractions: the session is the name of the page that wrote it; the lock count
stops at 2, as the code only asks whether it is 1; time goes by in units of the
back-off, which is constant here and doubles in the code up to its limit; the
request scheduler is left out, except that a server may fail for a page; the
connections end with the page; the session itself does not expire (evictions
cover it).  Indices of the failover sequence above `max_failover_attempts` are
kept in one cycle of the servers they hash to.

## Runs

| Run | Instance | Shows |
|---|---|---|
| `queue` | 4 pointers, growth by 2 cells, symmetric | ring consistency, no duplicates, refinement of the FIFO |
| `pool` | six configurations, 1 to 3 calls and 2 or 3 faults each (below) | nothing is lost, leaked, left behind, failed over twice or answered by the wrong reply; a pending server keeps its request until it fails itself; refinement of `MmcRequests` |
| `pool_multi` | multi-gets of 2 and 3 keys, flush, version, statistics, redundant stores, 1 network fault, 2 calls | all requests come back, every call returns |
| `hash` | 3 servers with 1 or 2 points on a circle of 6, 5 buckets, 3 additions, six layouts of points | lookups agree with the definition, keys move to new servers only, the search ends |
| `wire` | 2 servers, 3 keys, both protocols and UDP, items of 2 pieces, 1 fault, any number of calls | parsers stay in step, results are what the servers said, every call returns |
| `session` | 2 pages, 2 mirrors, `session_redundancy` 2, `lock_timeout` 2 ticks, text protocol, 1 fault, symmetric pages | locks, reads and writes of concurrent pages |
| `session_live` | the same with `lock_timeout` 1, `max_failover_attempts` 2 and no fault | every read returns, every write and destroy ends |

Every pool configuration has two servers and up to three keys, and `max_failover_attempts`
2.  Two servers are enough for each hazard: failing over needs one other server and
the failover of the failover comes back to the first.  `SharedHash` puts all
keys on one server, so that requests queue behind one another; `SpreadHash`
uses both servers in one round.  The script makes at most `MaxCalls` calls and
then stops, which is why deadlock is not checked.  The configurations of `pool` are
`Stores` (fresh connections, `select()`, every fault but the early reply, 3 faults,
servers come back), `EarlyStores` (servers that reject a store before they have read
it, partial sends, lost connections and timeouts, 3 faults in one call; the theorems below
cover any number of calls there), `PersistentStores`
(servers as an earlier script or call left them, not connected, connected or failed,
`poll()`, every fault but the refusal, 2 faults in one call; a second call starts where
the next `Init` does),
`ReentrantStores` (a failure callback that makes calls; 3 calls, 2 faults, failed
servers stay failed), `NoFailover` (`allow_failover` off, `poll()`, any 3 of refusal,
close and partial send) and `FailingGets` (a multi-get of three keys, of which a request
takes one, so that one of them is sent while the others are built; 2 timeouts,
failed servers stay failed; it has `LosesBuild`, below).  Two faults are what a failure during the handling of a
failure takes, and a third one disturbs what that left.  The fault that `EarlyStores`
or `PersistentStores` leaves out is the subject of `FailsTwice` below.

The configurations of `pool_multi` are `MultiServer` (the calls that use several servers,
a redundancy of 2, a refused, closed or failed connection) and `SplitGets` (multi-gets of
two and three keys, of which a request takes one, and a closed or failed connection).
With three keys and two servers a request is sent and the next one built on the same
server before the rounds begin; a fourth key would be one more than the code
handles (`LosesBuild`).

The `hash` run has enough points for the wrap-around, for servers that enclose one
another and for points in common; five buckets look up below, at, between and
above them.  The proofs below hold for any number.

In the `wire` run two keys are at one server and one at the other; the arrays have
both keys at one server, which makes replies with several items, or at two, which
makes several requests.  An item of two pieces can be cut inside.  One fault is
enough for a parser to be moved, and a second request on the server it is moved to
is there in the arrays.  Over UDP the array is at one server.  Single keys use one
server only, the other one after a failure.  The number of calls is not bounded:
what a call leaves on a connection is met by the next.  Every call may be the last,
and a server that is down comes back at any time.

The `session` run has two pages, since each hazard is about one page under
another's lock, and two mirrors, since a read that fails over and a write to a
mirror that was not locked take two.  A lock of two ticks can expire before,
between and after the two attempts of a waiting page, whose time runs out after
four.  One fault is enough to make two pages use different mirrors.  Each page
ends, so deadlock is not checked.  With two pages the properties of three are not
seen by TLC; the proofs below hold for any number.  `session_live` has fewer failover
attempts than the failover sequence has probes, so that skipped servers are named
again and a page may wait for its own lock.

### Fairness

* `MmcPool`, `WF_vars(Step)`: the process takes the steps of the code.  The
  script does not have to call, the network does not have to disturb.  A `select()`
  without an answer ends by its timeout, which the model bounds like other faults
  unless no server has anything to answer; so the fairness assumes servers that do
  not hold back replies for ever, and `CallsReturn` says that the client's own loops
  end.
* `MmcHash`, `WF_vars(Lookup)`: a lookup that has begun goes on; nothing runs beside it.
* `MmcWire`, `WF_vars(Network \/ Process)`: while a call runs, something goes on: the
  process reads, parses or times out, or what a server was sent is answered and
  arrives.  Which of them is left open.
* `MmcSession`, `WF_vars(Progress)`: a page, a server or the clock takes a step.  No
  page is preferred and none is promised a step, so that `ReadReturns` rests on what
  the code counts down, not on the scheduling of processes.

### Disagreements found

Five runs show a behaviour of the code that contradicts what the repository says:

* `pool_pending_null`: `pool->pending` keeps a server whose request was taken by
  `mmc_server_deactivate`; `end_get(NULL)` follows.
* `pool_reply_mismatch`: after a retry on a stale persistent connection a reply is
  parsed for the wrong request.  The retry is a failover whose probes pass over the
  other server, which is marked as failed, and end at the first one again.
* `pool_fails_over_twice`: the request of a multi-get is failed over by
  `mmc_server_deactivate` and again by `mmc_pool_schedule`.
* `wire_torn`: a request that is failed over in the middle of its reply keeps the
  parser it had, and a get returns the beginning of the next server's reply as the
  value.
* `session_lease` (three pages, no fault): a lock taken by an increment does not last
  `lock_timeout` but what is left of the `lock_timeout` of the unlock before it, so a
  third page may lock the session while the second one still runs.

Where a property of a passing run has a condition, the code does not hold it otherwise:

* `Handled`, which most properties of `MmcPool` start with, leaves out what the code does
  not handle.  With `LosesBuild` a server fails while a multi-get builds a request for
  it, and the request is failed over at two levels (`pool_fails_over_twice`) or taken from
  a server that stays pending (`pool_pending_null`).  That takes a refused connection, a
  timeout, a second failure, or more than `2 * MaxGetKeys + 1` keys: then rounds run, to
  send a full request, while the next request of another server is under construction,
  and one closed connection is enough.  `PendingIsBuildingOrFailed` holds nevertheless.
  With `FailsTwice` a stream is given up under its requests (a
  persistent connection that has gone away, or an early reply), and the connection is
  refused when the next request is shifted into the send slot: `mmc_pool_slot_send` fails
  that request over, and so does the deactivation.  With `Interrupts` a failure callback
  runs rounds below a round that has not finished with its queues: the round may then
  find slots empty that it dereferences, or leave a server in no queue.
* `SkipsRun`: a redundant store that fails on its first server is not waited for
  (`memcache.c` 983), although its clones may be scheduled; the next call runs them.
* `ReplyMatchesUnretried` asks for a redundancy of 1: a first request that failed and was
  released may be allocated as its own clone (`memcache_pool.c` 1259).
* `RunCompletesUnretried`, `AllReturned`: after a retry on a persistent connection
  that has gone away, `mmc_pool_run` returns with a request still unread, since
  `mmc_select_retry` leaves the next request in the read slot and its server in no
  queue.  A UDP request that is asked again while others wait behind it ends the
  same way.
* `RemapsToNew` asks that no two servers share a point (`Apart`).  Where they do, `qsort`
  may swap them whenever the table is filled again, and a key moves between two servers
  that were there before; `KeyMapped` then says only that it is with one of the two.
* `Serialised` asks that the failover sequence names enough mirrors (`NamesEnough`).  Once
  the attempts are used up, `mmc_pool_find_next` returns a skipped mirror again
  (`memcache_pool.c` 1012-1026), so a write sets and unlocks that mirror twice
  (`memcache_session.c` 449-461), the second time under the page that has locked it since.
* `torn`: over UDP the first datagram that arrives sets the expected sequence number
  (`memcache_pool.c` 264-268), so the loss of the first one is not seen; the items in it
  are missing from the result, or the rest of one fails to parse and the server is
  deactivated.

Seen while reading, and stated by no property:

* The comments at `memcache_pool.c` 270 and 272 do not hold: a request whose datagram was
  lost is asked again over UDP, not TCP, and `mmc_pool_open` connects the failed stream
  again at once.
* A datagram that is appended to one not consumed yet is moved over its header, but
  its length is counted with the header (`memcache_pool.c` 290-300).
* A script that is aborted leaves unread replies on a persistent stream, and
  `mmc_server_sleep` (`memcache_pool.c` 834-852) keeps the stream and its input buffer for the
  next script.
* `mmc_stored_handler` (`memcache.c` 865-894) has no case for a missing item: a binary
  replace or a text cas of a missing item deactivates the server, while `memcache.c` 2024
  says that it returns false.
* `mmc_numeric_response_handler` stores the results of an array under keys one byte too
  long (`memcache.c` 1007, 1019).
* The text protocol keeps a store with an array TRUE although the requests of one key
  failed on every server, since only replies change the result.
* `mmc_value_failover_handler` asks again for keys that are still under way to other
  servers, and never extends the list of failed servers.

## Proofs

TLAPS checks these theorems for every value of the constants.

`MmcQueueProofs`, for any set of pointers and any `MMC_QUEUE_PREALLOC`:

* `RingInvariant`, `NoDuplicatesInvariant`, `RemoveTakesOutInvariant`: the ring is
  consistent, holds no pointer twice, and a removal removes.
* `RingImplementsFifo`: every step of the ring is a step of `MmcFifo` or a stutter.

The inductive invariant (`IInv`) joins the consistency of both buffers, the absence
of duplicates across them, and that the new queue never has the pointer that is
being removed: the duplicate check of a push looks at one buffer only, so each needs
the others during a removal.  The refinement rests on lemmas
about `Grow`, `Store` and `PopFrom` that say what happens to the i-th item.

`MmcPoolProofs`, under `ServerAssumption` and `ConfigAssumption`, for any servers, keys
and failover attempts and for every configuration, multi-gets, redundancy and failure callbacks included:

* `TypeInvariant`.  `TypeOK` says of a frame only that its server and its request exist.
  To keep that, `TypeInv` adds what each kind of frame needs (`FrameOK`), which frames
  may lie below another one (`Lower`), that requests are sent and replies parsed inside
  the loop of a round (`Nested`), and that a server is probed for only while the
  request has attempts left (`ProbeOK`), which is what keeps the index of the hash within
  its domain.
* `FailedServersIdle`: the status and the slots change in different functions, and
  between them handlers run that may fail the same server again.
* `PendingKeepsItsRequest`: where failed servers are not tried again, a pending server has
  its request until it fails itself.  A request is built in one function, scheduled in
  another and forgotten by a third when the second returns (the frame `built`), and
  in between rounds, failovers and callbacks run that may build further requests and make
  servers pending.  The invariant (`Building`) says of each server that has not failed:
  if it is pending or a `built` frame waits for it, it has a request; it is not both; and
  only one such frame waits for it.  What keeps that is `StaysFailed`: the frames that may
  open a connection again (`slot`, `retry`) are only called for servers that are not
  failed, which is where `Idle` is used.  Without the condition on `retry_interval` it is
  false: a server that failed while it was pending comes back without a request.

`MmcPoolOwnership`: `WithOneServer`, `NeverUsedAfterRelease`, `SendsInOrder` and
`FailsOverItsOwn`.  None of the four is inductive, and they are not without each other.
The invariant (`OwnerInv`) claims that a map `own` exists which gives each request one
place: the free list, one server, or the frame at one height of the stack.  It relates
the map to the free list, the slots and queues, and the locals of each frame, and says
what runs directly above what (`Shape`), since a frame that shifts the slots of a
server leaves them inconsistent until the frames above it have returned.  Each action
has a lemma that names the map after it.

The theorems hold in the configurations of `Covered`: no multi-gets, no failure
callback, and not both a connection that may be refused and a stream that may be given
up under its requests.  That is any number of stores, gets, flushes and statistics with
any redundancy, number of faults, hash and limits: on fresh connections with every
fault but the early reply, or on persistent ones with every fault but the refusal, as
in `Stores`, `EarlyStores` and `PersistentStores`.  `ReentrantStores` and `NoFailover`,
which has refusals on persistent connections, are outside of it; there the properties
are only model-checked.  `Covered` implies `Handled`.

`MmcPoolRefinement`: `SchedulerImplementsRequests`, for the same configurations.  With
the invariant above the place of a request is determined (`WhereKnown`), and each
action is one step of `MmcRequests` or a stutter.  `EveryRequestReturns`, which extends the
module below: `OwnerInv` lets a request be held by a frame of the stack, and `KeptInv` says
which frames hold one (`InHands`), namely a handler until it has scheduled, sent or
freed its request.  When a call returns no handler is on the stack and, by
`NothingIsLeft`, no server has a request, so all of them are on the free list.
`RepliesMatch`: `ReplyMatchesUnretried`, on servers that are new to the script.  The
property speaks of the head of the wire and the read slot, but these are far apart while
requests are queued, half sent, or answered before they were sent.  The invariant
(`WiresInv`) claims that what a server has to answer, in order, begins with what the
replies on its wire answer (`Matched`), and that while the connection is up the rest
is exactly what the server was not sent (`Unsent`): its send slot and queue, without the
slot if that request is half sent and was answered early.  A send moves the boundary
between the two, a reply drops the first of both, a connection that is closed cuts the
wire, and a server that is about to be deactivated is excused until it is.  It rests on
`OwnerInv` (what is not sent is the end of what is not answered) and `RoundsInv` (a
server that is opened has nothing to answer but what is being shifted into its slot).

`MmcPoolRounds`: `NothingIsNull`, `NobodyIsLost` and `NothingIsLeft`, for the configurations of `Covered`
on servers that are new to the script (`RoundsServeAll` says nothing of the others,
where it fails).  Neither is inductive: whether a server that has something to send is in the
queue of the next `select()` depends, in the middle of a round, on how far the loops have
got and on which handler runs.  The invariant (`RoundsInv`) claims that there is one loop
frame `f` that the round is in, and that every server with a request in a slot is in
exactly one place: the queue of the next round, the part of this round's queue that `f`
still has ahead, or the handler on top of the stack; and the other way round, that
a server in a queue has its slot filled (`SendInv`, `ReadInv`).  With it go that a server
without a connection has nothing in its slots, but for one whose early reply is
being handled (`ConnectionInv`), that the requests which are not waiting to be sent
are on the stream of their server (`StreamInv`), that no queue of servers has one twice, and
which handlers stand on which (`Chained`).  It uses `OwnerInv` throughout: a request
that is slotted has no other server whose stream it could take away.
`NothingIsLeft` follows the calls (`QuietInv`).  A call begins when nothing is under way.
Either it schedules nothing, and that is still so when it returns, or it ends in
`mmc_pool_run`, which returns when both queues of the round are empty; then, by
`RoundsInv`, so is every slot.  The exception is a redundant store whose first request
was not scheduled while its clones were (`SkipsRun`), and the property excludes it.

`MmcHashProofs`, under `HashAssumption`, for any servers, weights, hash function,
number of points and buckets:

* `SearchInBoundsInvariant`: the binary search stays within the points and its bounds do not
  cross.  Inductive as `Structure`, with `InOrder` (points are sorted from the sort until
  a server is added), `Looking` (only a consistent strategy with servers is searched),
  `NotEmpty`, and `Window`: every point below `lo` lies before the place that is looked up,
  and once the bounds have moved the point at `hi` does not.
* `KeyMappedInvariant`: a lookup returns the server the definition names.  It adds
  `Contents`: the table is right as far as it is filled (`Filled`), the points are those of
  the servers that were added (`PointsPlaced`), and a table that is complete was made
  from them (`Current`).
* `RemapsToNewProperty`, an action property: the entries not filled again yet
  are those of the last complete table (`Kept`, `Fresh`), so an entry that changes now
  names a point that was not there then.

`MmcSessionProofs`, under `SessionAssumption` (finitely many servers, a non-empty
failover sequence, a redundancy and a lock timeout of at least 1), for any set of
pages and either protocol:

* `TypeInvariant`.  `TypeOK` alone is not inductive: a tick takes one off the time
  of a page that sleeps.  `TypeInv` adds that a page that waits or sleeps in a read
  has time left.
* `OneHolderInvariant`.  Inductive with `HeldIsLocked`: the item of a lock that is
  held and not spoiled is 1 or more, so neither an increment nor an add gives it to
  a second page.
* `HeldIsCurrentInvariant`.  Inductive with `ReadSends`, that pages that read have
  no writing command under way, and `InFlight`, that what a page has seen of a server
  is forgotten while an attempt is under way there; and with `OneHolder`, so that a
  grant spoils nobody.
* `SerialisedInvariant`.  All pages go through the mirrors in the same order, so the
  lock of the first one decides.  The invariant (`SerialInv`) adds that a page which has
  the lock of another mirror has that of the first one too (`Reader`), and that a page
  which writes has the lock of the first mirror or has stored the session there, which it
  does once (`Writer`, from `NextMirror`, a lemma about `mmc_pool_find_next`).
* `LeaseRunsProperty`, an action property, from the type invariant alone, once each
  command is shown not to extend the lease of an item that is 1 or more.

What is only model-checked:

* of `MmcPool`: on persistent connections `NoNullDereference`,
  where a server may be left out of a round, and `ReplyMatchesUnretried`, which is claimed
  there without failover; everything about multi-gets and failure callbacks but the three
  theorems of `MmcPoolProofs`;
* all properties of `MmcWire`, which computes with `SelectInSeq`, `SelectSeq` and
  `FlattenSeq`, whose results need an induction;
* liveness (`CallsReturn`, `CallReturns`, `FindReturns`, `ReadReturns`, `HandlersReturn`),
  which is out of this prover's reach, as are ENABLED and induction over data.

## What is not modelled

* Several UDP requests on one server, the limits of a datagram's size, requests too
  large for UDP that go over TCP.
* Results with several redundant requests for a key, and of increments and deletes with
  an array of keys (an array of booleans or numbers, `memcache.c` 1006, 1018); cas tokens; the version
  command; the parsing of statistics, which is string handling.
* Persistent connections in `MmcWire`, and a script that is aborted.
* `mmc_queue_copy`; `mmc_server_sleep` and `mmc_pool_close` at the end of a script;
  `memcache_set_server_params`; the list of persistent connections, of which `Persistent` is
  only the state that it leaves.
* Serialisation and compression, INI settings, SASL, formatting of commands, the
  administration page: data that no property tells apart, or pure I/O.
* In `MmcPool`, memory: the cyclic references of buffers and the poll array.

## Plan

What is there in the order it was built: the queue, the scheduler, the session
handler, the hash strategies, the protocols with the results of calls, UDP.  Next:

1. Connections that outlive a script: `mmc_pool_close`, `mmc_server_sleep`,
   `mmc_find_persistent` and `memcache_set_server_params` as actions between scripts, with
   what an aborted script leaves on them.
2. `MmcWire` as a refinement of an abstract store: a call returns what one atomic
   operation on the servers would return, or a failure.
3. Proofs that follow on those of `MmcPool`: `ReplyMatchesUnretried` on persistent
   connections without failover, from an invariant that allows for retries; `TypeOK` of
   `MmcWire`.
4. Redundant stores with their results, and the order of two stores of one key
   that fail over together.
5. The weaker guarantee that holds when a failure callback re-enters the scheduler
   while failed servers come back.
