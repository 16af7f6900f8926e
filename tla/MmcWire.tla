------------------------------ MODULE MmcWire ------------------------------
(***************************************************************************)
(* Commands and replies: the text protocol (memcache_ascii_protocol.c),    *)
(* the binary protocol (memcache_binary_protocol.c), and the handlers of   *)
(* memcache.c that turn what was parsed into the result of a call.         *)
(*                                                                         *)
(* A reply is a sequence of tokens that arrives in pieces: a text line is  *)
(* a head and the end of the line, a value is Length pieces of data, a     *)
(* binary header is two halves.  The parsers keep their place in           *)
(* request.parse, request.readbuf and the input buffer of the stream, and  *)
(* the replies of pipelined requests follow each other without a gap.      *)
(*                                                                         *)
(* MmcPool has the scheduling in detail.  Here a request is sent at once,  *)
(* connections are not persistent, so that every failure deactivates its   *)
(* server, a round wakes up one server at a time, and a lost connection    *)
(* fails its requests over to any other server that is up.                 *)
(*                                                                         *)
(* A multi-get over UDP is answered in datagrams, which the code numbers   *)
(* to find those that are lost, late or there twice.                       *)
(*                                                                         *)
(* The history variable torn marks the behaviours in which failover moved  *)
(* a parser to another stream in the middle of a reply, or the first       *)
(* datagram of a reply was missed.  The code does not set the parser back  *)
(* (run wire_torn) and does not see the second; the invariants say what    *)
(* holds otherwise.                                                        *)
(***************************************************************************)
EXTENDS Naturals, Sequences, FiniteSets, SequencesExt

CONSTANTS
  Server, Key, NoServer,
  Garbage,      \* what was read is no item, or no key
  Home,         \* the server that the hash strategy names for each key
  Single,       \* bound: the keys of the calls with one key
  Arrays,       \* bound: the arrays of keys of the other calls, for each protocol:
                \* "text", "binary", or "udp" for the text protocol over UDP
  Length,       \* the length of an item
  RequestIds,   \* bound: how many request ids there are, 2^16 in the code
  MaxFaults     \* bound: lost connections and datagrams, timeouts, errors

ASSUME WireAssumption ==
  /\ Garbage \notin Key /\ NoServer \notin Server
  /\ Home \in [Key -> Server] /\ Single \subseteq Key
  /\ DOMAIN Arrays \subseteq {"text", "binary", "udp"}
  /\ UNION {Arrays[p] : p \in DOMAIN Arrays} \subseteq SUBSET Key
  /\ {Length, MaxFaults, RequestIds} \subseteq Nat
  /\ Length > 0 /\ RequestIds > 0

VARIABLES
  protocol,
  call,         \* the call that runs, or "idle"
  array,        \* its array of keys
  result,       \* the return values: what each handler parameter points to
  request,      \* the requests of the call
  readq,        \* mmc->readreq, then mmc->readqueue
  up,           \* the servers that are valid
  input,        \* io->input, a partial line or header
  ids,          \* mmc->reqid
  lossy,        \* the servers whose UDP stream is marked as failed
  buf, socket,  \* arrived bytes: in the buffer of the PHP stream, in the socket
  active,       \* the server whose replies are parsed, or NoServer
  returned,     \* what parse() returned, "" while it asks for another turn
  (* the network and the servers *)
  asked,        \* the commands a server has not answered
  incoming,     \* replies under way
  closed,       \* the servers that closed the connection
  (* history *)
  said,         \* what the server said to each request
  done,         \* the requests that were completed
  torn,         \* a parser is in the middle of a reply it has not read so far
  faults

client  == <<request, readq, up, input, ids, lossy, result, done, torn>>
stream  == <<buf, socket>>
network == <<asked, incoming, closed, said>>
vars    == <<protocol, call, array, client, stream, active, returned, network, faults>>

----------------------------------------------------------------------------
(* Commands: what is in the sendbuf, and which parser waits for the reply  *)

Command(name, keys, opaque) == [name |-> name, keys |-> keys, opaque |-> opaque]
Built(send, parse, next)    == [send |-> send, parse |-> parse, next |-> next]

AsciiGet(keys)   == Built(<<Command("get", keys, 0)>>, "value", "")
AsciiStore(key)  == Built(<<Command("set", <<key>>, 0)>>, "response", "")
AsciiDelete(key) == Built(<<Command("delete", <<key>>, 0)>>, "response", "")
AsciiMutate(key) == Built(<<Command("incr", <<key>>, 0)>>, "mutate", "")
AsciiFlush       == Built(<<Command("flush_all", <<>>, 0)>>, "response", "")
AsciiStats       == Built(<<Command("stats", <<>>, 0)>>, "response", "")

\* The opaque number of a command is the index of its key.
AppendGet(keys, j) == Command("GETQ", <<keys[j]>>, j - 1)
EndGet(keys)       == Command("NOOP", <<>>, Len(keys))
BinaryGets(keys)   ==
  Built([j \in DOMAIN keys |-> AppendGet(keys, j)] \o <<EndGet(keys)>>, "header", "flags")
BinaryGet(key)     == Built(<<Command("GET", <<key>>, 0)>>, "header", "flags")
BinaryStore(key)   == Built(<<Command("SET", <<key>>, 0)>>, "header", "read_response")
BinaryDelete(key)  == Built(<<Command("DELETE", <<key>>, 0)>>, "header", "read_response")
BinaryMutate(key)  == Built(<<Command("INCR", <<key>>, 0)>>, "header", "read_mutate")
BinaryFlush        == Built(<<Command("FLUSH", <<>>, 0)>>, "header", "read_response")
BinaryStats        == Built(<<Command("NOOP", <<>>, 0)>>, "header", "read_response")

Build(op, keys) ==
  IF protocol # "binary"
  THEN CASE op \in {"get", "gets"} -> AsciiGet(keys)
         [] op = "store"  -> AsciiStore(keys[1])
         [] op = "delete" -> AsciiDelete(keys[1])
         [] op = "mutate" -> AsciiMutate(keys[1])
         [] op = "flush"  -> AsciiFlush
         [] op = "stats"  -> AsciiStats
  ELSE CASE op = "gets"   -> BinaryGets(keys)
         [] op = "get"    -> BinaryGet(keys[1])
         [] op = "store"  -> BinaryStore(keys[1])
         [] op = "delete" -> BinaryDelete(keys[1])
         [] op = "mutate" -> BinaryMutate(keys[1])
         [] op = "flush"  -> BinaryFlush
         [] op = "stats"  -> BinaryStats

\* A request for op, whose handlers write to result[slot].
Request(op, keys, slot, failover) ==
  [op |-> op, keys |-> keys, slot |-> slot, failover |-> failover, failed |-> {},
   send |-> Build(op, keys).send, parse |-> Build(op, keys).parse,
   next |-> Build(op, keys).next,
   readbuf |-> <<>>, length |-> 0, current |-> Garbage, reqid |-> 0,
   opcode |-> "", error |-> "", id |-> 0, seqid |-> 0, total |-> 0]

----------------------------------------------------------------------------
(* Replies of memcached *)

Blank == [of |-> 0, kind |-> "", name |-> "", status |-> "", key |-> Garbage, n |-> 0, i |-> 0]

Line(r, name, key) ==
  <<[Blank EXCEPT !.of = r, !.kind = "line", !.name = name, !.key = key, !.n = Length],
    [Blank EXCEPT !.of = r, !.kind = "eol"]>>

Body(r, key) ==
  [j \in 1 .. Length |-> [Blank EXCEPT !.of = r, !.kind = "data", !.key = key, !.n = j]]

Piece(r, kind) == <<[Blank EXCEPT !.of = r, !.kind = kind]>>

Header(r, c, status, length) ==
  <<[Blank EXCEPT !.of = r, !.kind = "head", !.name = c.name, !.status = status],
    [Blank EXCEPT !.of = r, !.kind = "rest", !.n = length, !.i = c.opaque]>>

\* o.status is the outcome of the command, o.hits are the keys it found.
\* "error" is any failure of the server; to store, too_large and out_of_memory are
\* what client_error is.
Outcomes(c) ==
  LET plain(statuses) == [status : statuses, hits : {{}}]
      found == [status : {"ok"}, hits : SUBSET ToSet(c.keys)]
  IN CASE c.name \in {"get", "GET"} -> found \cup plain({"error"})
       [] c.name = "GETQ" -> found
       [] c.name \in {"set", "SET"} -> plain({"ok", "exists", "client_error", "error"})
       [] c.name \in {"delete", "DELETE", "incr", "INCR"} ->
            plain({"ok", "not_found", "client_error", "error"})
       [] c.name \in {"flush_all", "FLUSH"} -> plain({"ok", "client_error", "error"})
       [] c.name = "stats" -> plain({"ok", "error"})
       [] c.name = "NOOP"  -> plain({"ok"})

TextReply(r, c, o) ==
  LET item(k) == IF k \in o.hits THEN Line(r, "VALUE", k) \o Body(r, k) \o Piece(r, "crlf")
                 ELSE <<>>
  IN CASE o.status # "ok"  -> Line(r, o.status, Garbage)
       [] c.name = "get"   -> FlattenSeq([j \in DOMAIN c.keys |-> item(c.keys[j])])
                              \o Line(r, "END", Garbage)
       [] c.name = "incr"  -> Line(r, "number", Garbage)
       [] c.name = "stats" -> Line(r, "STAT", Garbage) \o Line(r, "END", Garbage)
       [] OTHER            -> Line(r, "ok", Garbage)

BinaryReply(r, c, o) ==
  CASE o.status # "ok"  -> Header(r, c, o.status, 1) \o Piece(r, "message")
    [] o.hits # {}      -> Header(r, c, "ok", Length + 1) \o Piece(r, "flags")
                           \o Body(r, c.keys[1])
    [] c.name = "GET"   -> Header(r, c, "not_found", 1) \o Piece(r, "message")
    [] c.name = "GETQ"  -> <<>>
    [] c.name = "INCR"  -> Header(r, c, "ok", 1) \o Piece(r, "number")
    [] OTHER            -> Header(r, c, "ok", 0)

Reply(r, c, o) == IF protocol # "binary" THEN TextReply(r, c, o) ELSE BinaryReply(r, c, o)

\* A reply over UDP is cut into datagrams, in one piece or in two.
Datagrams(id, reply) ==
  LET datagram(seqid, total, tokens) ==
        [id |-> id, seqid |-> seqid, total |-> total, tokens |-> tokens]
  IN {<<datagram(0, 1, reply)>>} \cup
     {<<datagram(0, 2, SubSeq(reply, 1, n)), datagram(1, 2, SubSeq(reply, n + 1, Len(reply)))>> :
        n \in 1 .. Len(reply) - 1}

Fault == faults < MaxFaults /\ faults' = faults + 1
May(fault) == IF fault THEN Fault ELSE UNCHANGED faults

\* The server executes its next command.
Answer(s) ==
  /\ asked[s] # <<>> /\ ~closed[s]
  /\ asked' = [asked EXCEPT ![s] = Tail(@)]
  /\ UNCHANGED <<protocol, call, array, client, stream, active, returned, closed>>
  /\ LET r == Head(asked[s]).of
         c == Head(asked[s]).command
     IN \E o \in Outcomes(c) :
          /\ May(o.status = "error")
          /\ said' = IF r \notin DOMAIN said THEN said ELSE
               [said EXCEPT ![r] = [status |-> o.status, hits |-> @.hits \cup o.hits]]
          /\ \E piece \in IF protocol = "udp" THEN Datagrams(Head(asked[s]).id, Reply(r, c, o))
                          ELSE {Reply(r, c, o)} :
               incoming' = [incoming EXCEPT ![s] = @ \o piece]

Arrive(s) ==
  /\ protocol # "udp" /\ incoming[s] # <<>>
  /\ socket' = [socket EXCEPT ![s] = Append(@, Head(incoming[s]))]
  /\ incoming' = [incoming EXCEPT ![s] = Tail(@)]
  /\ UNCHANGED <<protocol, call, array, client, buf, active, returned, asked, closed, said, faults>>

\* The server or the network closes the connection; what is under way is lost.
Lose(s) ==
  /\ protocol # "udp" /\ readq[s] # <<>> /\ ~closed[s] /\ Fault
  /\ closed' = [closed EXCEPT ![s] = TRUE]
  /\ incoming' = [incoming EXCEPT ![s] = <<>>]
  /\ asked' = [asked EXCEPT ![s] = <<>>]
  /\ UNCHANGED <<protocol, call, array, client, stream, active, returned, said>>

\* A datagram is lost, with a command or with a piece of a reply.
Drop(s) ==
  /\ protocol = "udp" /\ Fault
  /\ \/ asked[s] # <<>> /\ asked' = [asked EXCEPT ![s] = Tail(@)] /\ UNCHANGED incoming
     \/ /\ \E j \in DOMAIN incoming[s] : incoming' = [incoming EXCEPT ![s] = RemoveAt(@, j)]
        /\ UNCHANGED asked
  /\ UNCHANGED <<protocol, call, array, client, stream, active, returned, closed, said>>

----------------------------------------------------------------------------
(* Calls *)

Slot == {"value", "lock", "add"} \cup Key \cup Server

\* mmc_pool_find: another server if the one of the key is not valid.
At(key) == IF Home[key] \in up THEN Home[key] ELSE CHOOSE s \in up : TRUE

\* The commands of request r, as they are sent.
Sent(r, q) == [j \in DOMAIN q.send |-> [of |-> r, command |-> q.send[j], id |-> q.id]]

\* mmc->reqid++ is for UDP only.
Later(id, n) == IF protocol = "udp" THEN (id + n) % RequestIds ELSE id

\* mmc_pool_slot_send for the requests fresh[s] at each server s, among the
\* requests qs, while coming is under way.  A UDP stream that is marked as failed
\* is connected anew, and hears nothing of what was sent to the old one; cut are
\* other streams that are given up.
Send(fresh, qs, coming, marked, cut) ==
  LET renewed == {s \in marked : fresh[s] # <<>>}
      old(f) == [s \in Server |-> IF s \in renewed \cup cut THEN <<>> ELSE f[s]]
      slotted(q, id) == [q EXCEPT !.id = id, !.seqid = 0, !.total = 0]
      place(s, j) == SelectInSeq(fresh[s], LAMBDA i : i = j)
      commands(s) == FlattenSeq([n \in DOMAIN fresh[s] |-> Sent(fresh[s][n], request'[fresh[s][n]])])
  IN /\ request' = [j \in DOMAIN qs |->
          IF \E s \in Server : place(s, j) # 0
          THEN LET s == CHOOSE s \in Server : place(s, j) # 0
               IN slotted(qs[j], Later(ids[s], place(s, j) - 1))
          ELSE qs[j]]
     /\ ids' = [s \in Server |-> Later(ids[s], Len(fresh[s]))]
     /\ lossy' = marked \ renewed
     /\ buf' = old(buf) /\ incoming' = old(coming)
     /\ asked' = [s \in Server |-> old(asked)[s] \o commands(s)]

\* The call starts with the array ks, the requests rs, each at its server,
\* and value as its return value; everything is scheduled and mmc_pool_run begins.
Start(kind, ks, value, rs, at) ==
  LET here == [s \in Server |-> SelectSeq([j \in DOMAIN rs |-> j], LAMBDA j : at[j] = s)]
  IN /\ call = "idle" /\ up # {} /\ ~torn
     /\ call' = kind /\ array' = ks
     /\ result' = [x \in Slot |-> CASE x = "value" -> value
                                    [] x \in {"lock", "add"} -> "null"
                                    [] OTHER -> "none"]
     /\ Send(here, rs, incoming, lossy, {})
     /\ readq' = here /\ done' = {}
     /\ said' = [j \in DOMAIN rs |-> [status |-> "", hits |-> {}]]
     /\ UNCHANGED <<protocol, up, input, socket, active, returned, closed, torn, faults>>

Servers == SetToSeq(up)

\* memcache_get with a key
Get(k) == Start("get", <<>>, "false", <<Request("get", <<k>>, "value", TRUE)>>, <<At(k)>>)

\* memcache_get with an array: one request for each server, which stores every
\* value under its key.  (Bound: the keys of a server fit into a datagram.)
Gets(ks) ==
  LET mine(s) == SelectSeq(ks, LAMBDA k : At(k) = s)
      used == SelectSeq(Servers, LAMBDA s : mine(s) # <<>>)
  IN Start("gets", ks, "none",
           [j \in DOMAIN used |-> Request("gets", mine(used[j]), "value", TRUE)], used)

\* php_mmc_store with an array
Set(ks) ==
  Start("set", ks, "null", [j \in DOMAIN ks |-> Request("store", <<ks[j]>>, "value", TRUE)],
        [j \in DOMAIN ks |-> At(ks[j])])

\* php_mmc_numeric: increment, decrement and delete
Numeric(op, k) == Start(op, <<>>, "null", <<Request(op, <<k>>, "value", TRUE)>>, <<At(k)>>)

\* php_mmc_session_read_request: three requests in a row, without failover.
Session(k) ==
  Start("session", <<>>, "false",
        <<Request("mutate", <<k>>, "lock", FALSE), Request("store", <<k>>, "add", FALSE),
          Request("get", <<k>>, "value", FALSE)>>, <<At(k), At(k), At(k)>>)

\* memcache_get_extended_stats
Stats == Start("stats", <<>>, "none",
               [j \in DOMAIN Servers |-> Request("stats", <<>>, Servers[j], FALSE)], Servers)

\* memcache_flush counts the servers that said OK.
Flush == Start("flush", <<>>, 0,
               [j \in DOMAIN Servers |-> Request("flush", <<>>, "value", FALSE)], Servers)

\* Only a get with an array is sent over UDP.
Call ==
  \/ \E ks \in Arrays[protocol] : \/ Gets(SetToSeq(ks))
                                  \/ protocol # "udp" /\ Set(SetToSeq(ks))
  \/ protocol # "udp" /\ \/ Flush \/ Stats
                         \/ \E k \in Single : \/ Get(k) \/ Session(k)
                                              \/ Numeric("mutate", k) \/ Numeric("delete", k)

\* Every request was completed or released.
Finished == call # "idle" /\ active = NoServer /\ \A s \in Server : readq[s] = <<>>

\* Replies that were not consumed; datagrams are told apart by their numbers.
Left(s) == input[s] \o buf[s] \o socket[s] \o IF protocol = "udp" THEN <<>> ELSE incoming[s]

\* mmc_pool_run finds nothing to send or read, and the call returns its result.
\* The connections stay, with what was left there.
Return ==
  /\ Finished /\ call' = "idle" /\ array' = <<>>
  /\ result' = [x \in Slot |-> "none"]
  /\ request' = <<>> /\ said' = <<>> /\ done' = {}
  /\ torn' = (torn /\ \E s \in Server : Left(s) # <<>> \/ asked[s] # <<>>)
  /\ UNCHANGED <<protocol, readq, up, input, ids, lossy, stream, active, returned,
                 asked, incoming, closed, faults>>

----------------------------------------------------------------------------
(* Reading from the stream of the active server *)

readreq == Head(readq[active])
req == request[readreq]
Arrived == buf[active] \o socket[active]

Least(a, b) == IF a < b THEN a ELSE b

\* php_stream_read: from the buffer, then from the socket, which it does not
\* read ahead of (PHP_STREAM_BUFFER_NONE).
Take(n) ==
  /\ buf' = [buf EXCEPT ![active] = SubSeq(@, n + 1, Len(@))]
  /\ socket' = [socket EXCEPT ![active] =
       SubSeq(@, (IF n > Len(buf[active]) THEN n - Len(buf[active]) ELSE 0) + 1, Len(@))]

\* php_stream_get_line: a line if there is one, or all there is.  It fills the
\* buffer when the buffer has no line.
Eol(t)   == t.kind = "eol"
LineSize == LET n == SelectInSeq(Arrived, Eol) IN IF n = 0 THEN Len(Arrived) ELSE n
TakeLine ==
  IF SelectInSeq(buf[active], Eol) # 0 THEN Take(LineSize)
  ELSE /\ buf' = [buf EXCEPT ![active] = SubSeq(Arrived, LineSize + 1, Len(Arrived))]
       /\ socket' = [socket EXCEPT ![active] = <<>>]

\* The input buffer after a read of n tokens more.
Got(n) == input[active] \o SubSeq(Arrived, 1, n)

\* mmc_stream_get_line: the line, or nothing as long as its end is missing.
TheLine == LET got == Got(LineSize) IN IF got # <<>> /\ Eol(Last(got)) THEN got ELSE <<>>
GetLine ==
  /\ TakeLine
  /\ input' = [input EXCEPT ![active] = IF TheLine = <<>> THEN Got(LineSize) ELSE <<>>]

\* mmc_stream_get
Missing(n)  == Least(n - Least(n, Len(input[active])), Len(Arrived))
TheBytes(n) == IF Len(Got(Missing(n))) >= n THEN Got(Missing(n)) ELSE <<>>
GetBytes(n) ==
  /\ Take(Missing(n))
  /\ input' = [input EXCEPT ![active] = IF TheBytes(n) = <<>> THEN Got(Missing(n)) ELSE <<>>]

\* Mutant of Rest: what was read before is not taken into account.
RestAll(n) == Least(n, Len(Arrived))

\* How much of a body of length n is read now.
Rest(n) == Least(n - Least(n, Len(req.readbuf)), Len(Arrived))

\* The read buffer of the request after reading on to length n.
Filled(n) == req.readbuf \o SubSeq(Arrived, 1, Rest(n))

\* mmc_unpack_value
Item(tokens) ==
  IF \E k \in Key : Len(tokens) = Length /\
       \A j \in DOMAIN tokens : tokens[j].key = k /\ tokens[j].kind = "data" /\ tokens[j].n = j
  THEN tokens[1].key ELSE Garbage

----------------------------------------------------------------------------
(* Handlers *)

Returns(code) == returned' = code

\* Mutant of Again: the rest waits for the socket.
AgainMore == Returns("MORE")

\* MMC_REQUEST_AGAIN: the parser that is set now goes on at once.
Again == Returns("")

Store(slot, value) == result' = [result EXCEPT ![slot] = value]

\* What a handler takes for a server that works and refuses; any other error is
\* a failure of the server.
StoreRefused   == {"exists", "out_of_memory", "too_large", "client_error"}
NumericRefused == {"not_found", "client_error"}

\* Mutant of Stored: a key that was stored hides one that was refused.
StoredAlways(status) ==
  \/ status = "ok" /\ Store(req.slot, "true") /\ Returns("DONE")
  \/ status \in StoreRefused /\ Store(req.slot, "false") /\ Returns("DONE")
  \/ status \notin {"ok"} \cup StoreRefused /\ Returns("FAILURE") /\ UNCHANGED result

\* mmc_stored_handler
Stored(status) ==
  \/ status = "ok" /\ Returns("DONE")
     /\ Store(req.slot, IF result[req.slot] = "null" THEN "true" ELSE result[req.slot])
  \/ status \in StoreRefused /\ Store(req.slot, "false") /\ Returns("DONE")
  \/ status \notin {"ok"} \cup StoreRefused /\ Returns("FAILURE") /\ UNCHANGED result

\* mmc_numeric_response_handler, with one key
NumericResponse(status) ==
  \/ status = "ok" /\ Returns("DONE")
     /\ Store(req.slot, IF result[req.slot] = "null" THEN "true" ELSE result[req.slot])
  \/ status \in NumericRefused /\ Store(req.slot, "false") /\ Returns("DONE")
  \/ status \notin {"ok"} \cup NumericRefused /\ Returns("FAILURE") /\ UNCHANGED result

\* mmc_flush_handler
FlushResponse(status) ==
  \/ status = "ok" /\ Store(req.slot, result[req.slot] + 1) /\ Returns("DONE")
  \/ status = "client_error" /\ Returns("DONE") /\ UNCHANGED result
  \/ status \notin {"ok", "client_error"} /\ Returns("FAILURE") /\ UNCHANGED result

\* mmc_stats_handler; message is what the line starts with.
StatsResponse(status, message) ==
  \/ status = "error" /\ Returns("FAILURE") /\ UNCHANGED result
  \/ status # "error" /\ message = "STAT" /\ Store(req.slot, "stats") /\ Again
  \/ status # "error" /\ message \in {"END", ""} /\ Returns("DONE") /\ UNCHANGED result
  \/ status # "error" /\ message \notin {"STAT", "END", ""} /\ Store(req.slot, "false") /\ Returns("FAILURE")

\* request->response_handler, which of a get is mmc_pool_response_handler_null
Respond(status, message) ==
  \/ req.op = "store" /\ Stored(status)
  \/ req.op \in {"mutate", "delete"} /\ NumericResponse(status)
  \/ req.op \in {"get", "gets"} /\ Returns("DONE") /\ UNCHANGED result
  \/ req.op = "flush" /\ FlushResponse(status)
  \/ req.op = "stats" /\ StatsResponse(status, message)

\* request->value_handler: mmc_value_handler_multi, mmc_value_handler_single
Value(key, value) == Store(IF req.op = "gets" THEN key ELSE req.slot, value)

\* A handler runs until it has consumed what it can.
Handler(parse) ==
  /\ active # NoServer /\ returned = "" /\ req.parse = parse
  /\ UNCHANGED <<protocol, call, array, readq, up, ids, lossy, active, network,
                 done, torn, faults>>

More == Returns("MORE") /\ UNCHANGED <<request, result>>
Becomes(changed) == request' = [request EXCEPT ![readreq] = changed]

----------------------------------------------------------------------------
(* memcache_ascii_protocol.c *)

\* mmc_request_check_response
Check(line) ==
  IF line[1].name \in {"ok", "error"} \cup StoreRefused \cup NumericRefused
  THEN line[1].name ELSE "unknown"

\* mmc_request_parse_response
ParseResponse ==
  /\ Handler("response") /\ GetLine
  /\ IF TheLine = <<>> THEN More
     ELSE Respond(Check(TheLine), TheLine[1].name) /\ UNCHANGED request

\* mmc_request_parse_mutate
ParseMutate ==
  /\ Handler("mutate") /\ GetLine
  /\ IF TheLine = <<>> THEN More
     ELSE /\ \/ Check(TheLine) # "unknown" /\ Respond(Check(TheLine), "")
             \/ TheLine[1].name = "number" /\ Returns("DONE")
                /\ Value(Garbage, IF Len(TheLine) = 2 THEN "number" ELSE Garbage)
             \/ Check(TheLine) = "unknown" /\ TheLine[1].name # "number"
                /\ Returns("FAILURE") /\ UNCHANGED result
          /\ UNCHANGED request

\* mmc_request_parse_value: END or a header
ParseValue ==
  /\ Handler("value") /\ GetLine
  /\ IF TheLine = <<>> THEN More
     ELSE /\ \/ TheLine[1].name = "END" /\ Returns("DONE") /\ UNCHANGED request
             \/ TheLine[1].name = "VALUE" /\ Again
                /\ Becomes([req EXCEPT !.parse = "read_value", !.current = TheLine[1].key,
                                       !.length = TheLine[1].n])
             \/ TheLine[1].name \notin {"END", "VALUE"} /\ Returns("FAILURE") /\ UNCHANGED request
          /\ UNCHANGED result

\* A value and the end of its line.
Whole == req.length + 1

\* mmc_server_read_value
ReadValue ==
  /\ Handler("read_value") /\ Take(Rest(Whole)) /\ UNCHANGED input
  /\ IF Len(Filled(Whole)) < Whole
     THEN Becomes([req EXCEPT !.readbuf = Filled(Whole)]) /\ Returns("MORE") /\ UNCHANGED result
     ELSE /\ Becomes([req EXCEPT !.parse = "value", !.readbuf = <<>>]) /\ Again
          /\ Value(req.current, Item(SubSeq(Filled(Whole), 1, req.length)))

----------------------------------------------------------------------------
(* memcache_binary_protocol.c *)

\* The key of the command with this opaque number.
KeyAt(reqid) == IF reqid < Len(req.keys) THEN req.keys[reqid + 1] ELSE Garbage

\* header->extras_len: the flags of a hit
Extras(name) == IF name \in {"GET", "GETQ"} THEN 1 ELSE 0

\* mmc_request_parse_response; the opcode, the status and extras_len are in
\* the first half of the header, the length and the opaque number in the second.
ParseHeader ==
  /\ Handler("header") /\ GetBytes(2)
  /\ IF TheBytes(2) = <<>> THEN More
     ELSE LET first == TheBytes(2)[1]
              second == TheBytes(2)[2]
              read == [req EXCEPT !.opcode = first.name, !.error = first.status,
                                  !.reqid = second.i, !.length = second.n]
          IN \/ first.kind # "head" /\ Returns("FAILURE") /\ UNCHANGED <<request, result>>
             \/ /\ first.kind = "head" /\ first.name = "NOOP"
                /\ Returns("DONE") /\ UNCHANGED <<request, result>>
             \/ /\ first.kind = "head" /\ first.name # "NOOP" /\ second.n = 0
                /\ Becomes(read) /\ Respond(first.status, "")
             \/ /\ first.kind = "head" /\ first.name # "NOOP" /\ second.n # 0
                /\ Becomes(IF first.status # "ok" THEN [read EXCEPT !.parse = "read_response"]
                           ELSE [read EXCEPT !.parse = req.next,
                                   !.length = second.n - Least(second.n, Extras(first.name))])
                /\ Again /\ UNCHANGED result

\* mmc_request_read_response
ReadResponse ==
  LET n == req.length
  IN /\ Handler("read_response") /\ Take(Rest(n)) /\ UNCHANGED input
     /\ Becomes([req EXCEPT !.readbuf = Filled(n)])
     /\ IF Len(Filled(n)) < n THEN Returns("MORE") /\ UNCHANGED result
        ELSE Respond(req.error, "message")

\* mmc_request_read_mutate
ReadMutate ==
  /\ Handler("read_mutate") /\ GetBytes(1)
  /\ IF TheBytes(1) = <<>> THEN More
     ELSE /\ Value(KeyAt(req.reqid), IF TheBytes(1)[1].kind = "number" THEN "number" ELSE Garbage)
          /\ Returns("DONE") /\ UNCHANGED request

\* mmc_request_parse_value: the flags
ParseFlags ==
  /\ Handler("flags") /\ GetBytes(1)
  /\ IF TheBytes(1) = <<>> THEN More
     ELSE Becomes([req EXCEPT !.parse = "read_body"]) /\ Again /\ UNCHANGED result

\* Mutant of Complete: the value of the last key is taken for the end.
CompleteEarly(reqid) == reqid + 1 >= Len(req.keys)

\* No opaque number of a key: the reply to the NOOP.
Complete(reqid) == reqid >= Len(req.keys)

\* mmc_request_read_value.  After a quiet get the next header is parsed, up to
\* that of the NOOP.
ReadBody ==
  LET n == req.length
  IN /\ Handler("read_body") /\ Take(Rest(n)) /\ UNCHANGED input
     /\ IF Len(Filled(n)) < n
        THEN Becomes([req EXCEPT !.readbuf = Filled(n)]) /\ Returns("MORE") /\ UNCHANGED result
        ELSE /\ Becomes([req EXCEPT !.parse = IF req.opcode = "GET" THEN "null" ELSE "header",
                                    !.readbuf = <<>>])
             /\ Value(KeyAt(req.reqid), Item(Filled(n)))
             /\ IF req.opcode = "GET" \/ Complete(req.reqid) THEN Returns("DONE") ELSE Again

Parse ==
  \/ ParseResponse \/ ParseMutate \/ ParseValue \/ ReadValue
  \/ ParseHeader \/ ReadResponse \/ ReadMutate \/ ParseFlags \/ ReadBody

----------------------------------------------------------------------------
(* mmc_pool_select *)

\* A server that is read from has data or was closed.
Wake(s) ==
  /\ call # "idle" /\ active = NoServer /\ readq[s] # <<>>
  /\ socket[s] # <<>> \/ closed[s]
  /\ active' = s
  /\ UNCHANGED <<protocol, call, array, client, stream, returned, network, faults>>

\* The request is complete; the loop goes on with the next one.
Done ==
  /\ returned = "DONE" /\ returned' = ""
  /\ done' = done \cup {readreq}
  /\ readq' = [readq EXCEPT ![active] = Tail(@)]
  /\ active' = IF Len(readq[active]) = 1 THEN NoServer ELSE active
  /\ UNCHANGED <<protocol, call, array, result, request, up, input, ids, lossy, stream, network, torn, faults>>

\* Mutant of Closed: the end of the stream goes unnoticed.
ClosedNever == FALSE

\* php_stream_eof
Closed == closed[active] /\ Arrived = <<>>

\* More data is needed: the next round waits for it.
Wait ==
  /\ returned = "MORE" /\ ~Closed
  /\ returned' = "" /\ active' = NoServer
  /\ UNCHANGED <<protocol, call, array, client, stream, network, faults>>

Unknown == SelectSeq(array, LAMBDA k : result[k] = "none")

\* mmc_pool_schedule: the send buffer is sent again and the read buffer is
\* reset.  A multi-get is built anew for the keys without a value.
Rescheduled(j, s) ==
  IF request[j].op = "gets"
  THEN [Request("gets", Unknown, "value", TRUE) EXCEPT !.failed = request[j].failed]
  ELSE [request[j] EXCEPT !.readbuf = <<>>, !.failed = @ \cup {s}]

Unsaid(js) == [j \in DOMAIN said |-> IF j \in js THEN [status |-> "", hits |-> {}] ELSE said[j]]

\* mmc_server_deactivate: the connection is given up, and every request goes to
\* the server that mmc_pool_find_next names, if one is left, or is released,
\* as is a multi-get with nothing to ask for.  The input buffer is part of the
\* stream and stays.
Deactivate(s, to) ==
  LET moved == Tail(readq[s]) \o <<Head(readq[s])>>
      now == [j \in DOMAIN request |->
                IF j \in DOMAIN to /\ to[j] # NoServer THEN Rescheduled(j, s) ELSE request[j]]
      new == [t \in Server |-> SelectSeq(moved, LAMBDA j : to[j] = t)]
      empty(j) == request[j].op = "gets" /\ Unknown = <<>>
  IN /\ UNCHANGED <<protocol, call, array, result, input, done>>
     /\ up' = up \ {s}
     /\ \A j \in DOMAIN to :
          LET others == IF request[j].failover /\ ~empty(j) THEN up' \ request[j].failed ELSE {}
          IN \/ to[j] \in others
             \/ others = {} /\ to[j] = NoServer
     /\ Send(new, now, incoming, lossy \ {s}, {s})
     /\ readq' = [t \in Server |-> IF t = s THEN <<>> ELSE readq[t] \o new[t]]
     /\ said' = Unsaid(DOMAIN to)
     /\ torn' = (torn \/ input[s] # <<>> \/ \E j \in DOMAIN to :
          to[j] # NoServer /\ now[j].parse # Build(now[j].op, now[j].keys).parse)
     /\ closed' = [closed EXCEPT ![s] = FALSE]
     /\ socket' = [socket EXCEPT ![s] = <<>>]

Moves(s) == [ToSet(readq[s]) -> Server \cup {NoServer}]

\* A parser or the end of the stream took the server down.
Fail ==
  /\ returned = "FAILURE" \/ (returned = "MORE" /\ Closed)
  /\ returned' = "" /\ active' = NoServer /\ UNCHANGED faults
  /\ \E to \in Moves(active) : Deactivate(active, to)

\* Nothing arrives within the timeout: a fault, unless nothing is to come.
Silent(s) == asked[s] = <<>> /\ incoming[s] = <<>>
Timeout(s) ==
  /\ call # "idle" /\ active = NoServer /\ readq[s] # <<>>
  /\ \A t \in Server : readq[t] # <<>> => socket[t] = <<>> /\ ~closed[t]
  /\ May(~Silent(s)) /\ UNCHANGED <<returned, active>>
  /\ \E to \in Moves(s) : Deactivate(s, to)

\* retry_interval is over.
Recover(s) ==
  /\ s \notin up /\ up' = up \cup {s}
  /\ UNCHANGED <<protocol, call, array, request, readq, input, ids, lossy, result, done, torn, stream,
                 active, returned, network, faults>>

----------------------------------------------------------------------------
(* mmc_request_read_udp *)

\* The datagram that request q waits for.
Expected(q, d) == q.id = d.id /\ q.seqid = d.seqid

\* mmc_select_retry: the request in the read slot is given up, and the keys that
\* have no value are asked for again, each at its server.
Retry(s, left) ==
  LET wanted(t) == SelectSeq(Unknown, LAMBDA k : At(k) = t)
      asks == SelectSeq(Servers, LAMBDA t : wanted(t) # <<>>)
      new == [j \in DOMAIN asks |-> Request("gets", wanted(asks[j]), "value", TRUE)]
      fresh == [t \in Server |-> LET j == SelectInSeq(asks, LAMBDA u : u = t)
                                 IN IF j = 0 THEN <<>> ELSE <<Len(request) + j>>]
  IN /\ Send(fresh, request \o new, left, lossy \cup {s}, {})
     /\ readq' = [t \in Server |-> (IF t = s THEN Tail(readq[t]) ELSE readq[t]) \o fresh[t]]
     /\ said' = said \o [j \in DOMAIN asks |-> [status |-> "", hits |-> {}]]
     /\ torn' = (torn \/ input[s] # <<>>)
     /\ UNCHANGED active

\* A datagram is read: the next one, or one that overtook others, and perhaps
\* it comes once more.  The first one to come starts the count: whether others
\* were before it is not seen.  (Bound: with one request in the read queue, the
\* only place where a loss is found; MmcPool has what a retry does to others.)
ReadUdp(s) ==
  /\ protocol = "udp" /\ call # "idle" /\ active = NoServer /\ readq[s] # <<>>
  /\ \E j \in DOMAIN incoming[s], again \in BOOLEAN :
       LET d == incoming[s][j]
           r == Head(readq[s])
           q == IF request[r].total = 0 /\ request[r].id = d.id
                THEN [request[r] EXCEPT !.seqid = d.seqid, !.total = d.total] ELSE request[r]
           taken == [incoming EXCEPT ![s] = IF again THEN @ ELSE RemoveAt(@, j)]
       IN /\ May(j > 1 \/ again)
          /\ \/ /\ Expected(q, d)
                /\ request' = [request EXCEPT ![r] = [q EXCEPT !.seqid = @ + 1]]
                /\ buf' = [buf EXCEPT ![s] = @ \o d.tokens]
                /\ active' = s /\ incoming' = taken
                /\ torn' = (torn \/ (request[r].total = 0 /\ d.seqid # 0))
                /\ UNCHANGED <<readq, ids, lossy, asked, said>>
             \/ /\ ~Expected(q, d) /\ d.id < q.id
                /\ lossy' = lossy \cup {s} /\ incoming' = taken
                /\ UNCHANGED <<request, readq, ids, torn, buf, active, asked, said>>
             \/ /\ ~Expected(q, d) /\ d.id >= q.id /\ Len(readq[s]) = 1
                /\ Retry(s, taken)
  /\ UNCHANGED <<protocol, call, array, up, input, result, done, socket, returned, closed>>

----------------------------------------------------------------------------
Nothing == [s \in Server |-> <<>>]

Init ==
  /\ protocol \in DOMAIN Arrays
  /\ call = "idle" /\ array = <<>> /\ result = [x \in Slot |-> "none"]
  /\ request = <<>> /\ said = <<>> /\ up = Server
  /\ active = NoServer /\ returned = ""
  /\ readq = Nothing /\ input = Nothing /\ buf = Nothing /\ socket = Nothing
  /\ asked = Nothing /\ incoming = Nothing
  /\ ids = [s \in Server |-> 0] /\ lossy = {}
  /\ closed = [s \in Server |-> FALSE]
  /\ done = {} /\ torn = FALSE /\ faults = 0

Process ==
  \/ Return \/ Parse \/ Done \/ Wait \/ Fail
  \/ \E s \in Server : Wake(s) \/ ReadUdp(s) \/ (Silent(s) /\ Timeout(s))
Network == \E s \in Server : Arrive(s) \/ Answer(s)

Next ==
  \/ Call \/ Process \/ Network
  \/ \E s \in Server : Lose(s) \/ Drop(s) \/ Timeout(s) \/ Recover(s)

\* The process wakes up or times out, and what a server was sent is answered
\* and arrives: while a call runs, one of these steps is taken.
Spec == Init /\ [][Next]_vars /\ WF_vars(Network \/ Process)

----------------------------------------------------------------------------
(* Properties *)

(* Everything has its type, and a parser never reads more into the input   *)
(* buffer or the read buffer than the line, header or body it waits for.   *)
TypeOK ==
  /\ protocol \in DOMAIN Arrays /\ faults \in 0 .. MaxFaults
  /\ up \subseteq Server /\ active \in Server \cup {NoServer}
  /\ returned \in {"", "DONE", "MORE", "FAILURE"}
  /\ \A s \in Server : ToSet(readq[s]) \subseteq DOMAIN request
  /\ done \subseteq DOMAIN request /\ torn \in BOOLEAN
  /\ ids \in [Server -> 0 .. RequestIds - 1] /\ lossy \subseteq Server
  /\ ~torn => /\ \A s \in Server : Len(input[s]) <= 1
              /\ \A j \in DOMAIN request : Len(request[j].readbuf) <= Length + 1

(* Every token that is under way or was not consumed belongs to a request  *)
(* that waits for it, in the order of the requests: a parser consumes its  *)
(* own reply, all of it, and nothing else, wherever the replies of         *)
(* pipelined requests are cut and whatever they say.                       *)
InStep ==
  ~torn => \A s \in Server :
    LET tokens == Left(s)
        place(t) == SelectInSeq(readq[s], LAMBDA j : j = t.of)
    IN \A j \in DOMAIN tokens :
         /\ place(tokens[j]) > 0
         /\ j > 1 => place(tokens[j - 1]) <= place(tokens[j])

(* "php streams buffer input which must be read if available"              *)
(* (memcache_ascii_protocol.c:172): while the process waits for a server,  *)
(* something is still to come from it.  It never waits for what it has.    *)
NoStall ==
  ~torn /\ call # "idle" /\ active = NoServer => \A s \in Server :
    /\ buf[s] = <<>>
    /\ protocol # "udp" /\ readq[s] # <<>> => ~Silent(s) \/ socket[s] # <<>> \/ closed[s]

Told(j) ==
  LET v == result[request[j].slot]
  IN CASE request[j].op \in {"store", "delete"} ->
            /\ said[j].status = "ok" => v # "null"
            /\ said[j].status # "ok" => v = "false"
       [] request[j].op = "mutate" ->
            v = IF said[j].status = "ok" THEN "number" ELSE "false"
       [] request[j].op = "get" ->
            LET k == request[j].keys[1]
            IN v = k \/ (v = "false" /\ k \notin said[j].hits)
       [] request[j].op = "gets" -> \A k \in said[j].hits : result[k] = k
       [] request[j].op = "flush" ->
            LET ok == {i \in DOMAIN said : said[i].status = "ok"}
            IN v \in Cardinality(ok \cap done) .. Cardinality(ok)
       [] request[j].op = "stats" -> TRUE

(* What the script gets is what the servers said: each value under its own *)
(* key, TRUE only if no server refused, FALSE if one did, a flush only     *)
(* where it was done, whatever was failed over in between, for each        *)
(* request that was completed (memcache.c:865-1037, 2055-2137).            *)
ResultTold == ~torn => /\ \A j \in done : Told(j)
                       /\ \A k \in Key : result[k] \in {"none", k}

(* Every call returns, even when the parsers have lost their place: a      *)
(* reply that stays away ends in a timeout.                                *)
CallReturns == call # "idle" ~> call = "idle"

(* "Returns value of existing item or false" (memcache.c:2139): a get with *)
(* one key does not return anything else.                                  *)
GetReturnsItem ==
  Finished /\ call = "get" => result["value"] \in {request[1].keys[1], "false"}
=============================================================================
