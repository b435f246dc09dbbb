# Mudis in TLA+

Mudis is a Redis-like server in Go. Each connection has a goroutine that
parses and executes its own commands; the data of a database is one hash map
whose shards have locks of their own, and nothing else is locked. So whatever a
client sees follows from three things: what one operation of the map promises
when others run beside it, what a command made of several such operations
promises, and what the append-only file, fed by every command after its effect,
can rebuild. This directory models these three, then the lists and sets that
commands share by reference, the client through which the nodes of a cluster
speak to each other, the cluster that they make, and at the front of it all the
server with its parser, its connections and its shutdown.

## 1. Inventory

| component | state | operations | hard parts |
|---|---|---|---|
| **Sharded dict** `datastruct/dict/sync_dict_concurrenthashmap.go` | `table` (shards: map + RWMutex), `count` | Get, Put, PutIfAbsent, PutIfExists, Remove, Len, ForEach, Keys, Clear | every interleaving; `count` changed apart from the map; Clear copies a struct under everyone's feet; scans lock shard after shard |
| **Databases, key commands** `database/standalone_database.go`, `db.go`, `keys.go` | databases, the database of each connection | Exec, SELECT, DEL, RENAME, RENAMENX, FLUSHDB, EXISTS, TYPE, KEYS | several dict operations per command and no lock; panics recovered in Exec |
| **String commands** `database/string.go` | – | SET, SETNX, MSET, MSETNX, GETSET, INCR..., APPEND, SETRANGE, reads | read, compute, put back; addAof after the effect; in-place edits |
| **List commands, linked list** `database/list.go`, `datastruct/list` | list objects shared by reference | pushes, pops, LSET, LREM, LRANGE... | objects changed without a lock; empty lists |
| **Set commands, set** `database/set.go`, `datastruct/set`, `simple_dict.go` | set objects shared by reference | SADD, SREM, SPOP, stores... | the same; random replies; early returns that are not logged |
| **Append-only file** `aof/aof.go` | channel, `currentDB`, read lock, file | AddAof, handleAof, LoadAof, Close | full channel, failed writes, loss at the end of the process, which database a command is read back in |
| **Parser, replies** `resp/parser`, `resp/reply` | `readState`, the buffered reader | ParseStream, parse0 | recovery after a protocol error; bytes that look like headers; a panic |
| **Pipelining client** `resp/client/client.go` | two queues, connection | Send, heartbeat, reconnect, Close | pairing replies with requests across timeouts, misread replies and reconnections; full queues; closing |
| **Cluster** `cluster/`, `lib/consistenthash` | ring, pools of clients | relay, broadcast, Del, Rename, FlushDB | partial failure; broadcasts of broadcasts; clients held while waiting; colliding hashes |
| **Server** `tcp/server.go`, `resp/handler`, `resp/connection`, `lib/sync/wait` | connections, `closing`, WaitGroups | ListenAndServe, Handle, Write, Close | accepting while closing; the reply being written when Close comes; clients that vanish |
| **Glob patterns, utilities, configuration, logging** | – | pure functions, I/O | boundaries of ranges |
| **Echo server, SyncDict** | – | – | examples and an alternative that nothing uses |

How they interact. The server's handler calls `Exec` of a StandaloneDatabase
or, in cluster mode, of a ClusterDatabase, which relays to another node's
server through a pipelining client or to its own StandaloneDatabase. A command
calls its database's dict, then the callback `addAof`, which sends to the
append-only file's channel. When a process starts, LoadAof calls the same Exec
for each command of the file, with `addAof` still a no-op.

What makes each part right: dict operations are atomic and the count is
theirs; a command is logged so that replay rebuilds memory; the file holds each
accepted command once, in order, in its database; a client's reply is the one to
its request; a node answers for the keys the ring gives it; a shutdown leaves
nothing running. The hazards that threaten this are listed, with their lines, in
`PROJECT.json`.

## 2. Modules

| module | models |
|---|---|
| `ConcurrentDict` | the sharded dict, one action per step that touches shared state |
| `DictSpec` | what it promises: every keyed operation is one step on contents and size |
| `ConcurrentDictHistory` | the first, with history variables that follow scans and Clears |
| `Commands` | string and key commands of many connections on several databases, and what their log would rebuild |
| `Aof` | channel, handleAof, file, failures, restarts |
| `SharedObjects` | list and set commands of many connections on objects they share, with DEL and RENAME, and their log |
| `LinkedList` | the pointers of the doubly linked list under every list command of one client |
| `ListSpec` | what those commands promise of a sequence |
| `PipelineClient` | Send, heartbeat, writer, readers, reconnection and Close of the pipelining client |
| `Cluster` | the nodes of a cluster: ring, pools, relay, broadcast, timeouts |
| `Parser` | `parse0` on the bytes of a connection, as operators |
| `Server` | accepting, parsing, executing and answering, clients that end or stall, the signal and the shutdown; extends `Parser` |
| `MCPipelineClient` | the instance of the client, and `Parser` on the bytes of the replies that the client's model calls misread |
| the other `MC...` | values of the constants for TLC |
| `ConcurrentDictProofs`, `CommandsProofs`, `AofProofs`, `SharedObjectsProofs`, `LinkedListProofs`, `PipelineClientProofs`, `ClusterProofs`, `ServerProofs` | theorems |

In each module, definitions whose comment begins "A slip" are wrong variants of
the one that follows; no specification uses them. They exist to show that the
properties notice such mistakes.

### ConcurrentDict

`table` is the number of the current slice of shards, `m[g][k]` what table `g`
holds for `k`, `writer`/`readers` the RWMutex of each shard. A goroutine's frame
is `pc`, `call`, `tab` (the table it read once, at its start), `at` (shard),
`found`, `seen`, `ret`. RWMutex.Lock is two steps as in Go's implementation: the
claim (`Lock`), which stops later readers, and the wait for readers already in
(`Drain`). The section under the lock and the atomic change of `count` are
separate steps. Clear (`*dict = *MakeConcurrent(...)`) allocates a table, then
writes `table` and `count` in either order: the compiler may choose, and no lock
orders them with anything. Hashing is the constant `ShardOf`. A consumer answers
true always (`ForEach`), or false for one chosen key (`ForEachUntil`); a false answer leaves the
function literal of one shard, and the loop goes on with the next. What `Keys` does with its slice is
reduced to `seen` and the length it read. A slice header read while Clear writes
it is taken as the old or the new one; both have the same length.

`DictSpec` has no locks and no shards. A keyed operation looks up, leaves a
value and moves the size in one step between call and return. A scan looks at
each key once, at a moment of its choosing, until its consumer answers false, which breaks it
off as `dict.go:3` says. The code does that only if there is one shard, so that it
implements `DictSpec` if there is one or no consumer answers false (`StopsInOneShard`); with more
shards `StopsWhenTold` is refuted (section 3). Clear is two steps, swap and zero:
nothing stronger is true of the code. The refinement mapping hides a change that
is in its shard but not yet in `count` (`Effective`), so an operation that adds
or removes a key takes effect when it is counted, any other when its lookup is
done.

### Commands

`data[d][k]` is the memory; each action is one operation of the dict (atomic,
by the refinement above), or `AddAof`. A command's frame is `pc`, `cmd`, `i` (which
key), `got` (value read), `deleted`. `saved` is what LoadAof would make of the
commands logged so far; it is computed by `Apply`, the outcome of a command
that runs alone, one branch per command, written independently of the step-wise
actions. Flush is one step: an operation that overlaps Clear on the old table
leaves exactly what it would have left had it come just before. Integers are
int64 of width `2 * Half` and wrap; other strings are `Text`; APPEND is a
function on strings. MSET and MSETNX give both keys one value. SELECT accepts
negative indices as the code does, and such a connection's commands do nothing
(the panic is recovered). Commands that only read are left out. `Uses` is a set of functions from databases to the keys their commands
use, one of which is chosen at the start. A string key that
holds a list or set (WRONGTYPE) is left to a composition with `SharedObjects`,
whose own commands do meet keys of the other kind. SETRANGE, which writes into the
stored bytes, is not modelled.

`apart[d]` is a history variable: the keys for which memory and log are allowed
to differ, because two commands that share a key overlapped (all keys of
both), because a command used such a key, or because GETSET met a missing key and returned
before its addAof. A restart empties it.

### Aof

A command is `[n, db]`: its place in the order of acceptance and the database it
ran in. `sending[c]` is a goroutine inside AddAof, `item` the command handleAof
holds, `selected` whether its SELECT has been written. Writes fail at most
`MaxFail` times; a failed SELECT skips the command and keeps the read lock, a
failed command is logged and forgotten, as in the code. A write is all or
nothing: a partial write would leave bytes that only the parser's model can
interpret. `Close` ends the process as StandaloneDatabase.Close lets it end, with
the channel as it is. `Kill` may also take back any number of the last writes, as
the file is never synced. `Restart` is NewAOFHandler. `InDB(f, i, d)` is how
LoadAof's connection follows SELECTs from database 0. `lost`, `misled`, `killed` and the
counters are history.

### SharedObjects

A key of `data` leads to a reference, a reference to an object of `heap`. A
command's frame `run[c]` holds the references it fetched. Between fetching one
and its next dict operation a goroutine is `inside` the object (or `into` the
second, for RPOPLPUSH): everything a method of the list or set does to the
object is the step that ends this stay, and two goroutines whose stays in one
object overlap, one of them writing, race (`Racing`). A raced write either comes
out as intended or leaves the object `torn`: from then on anyone who reads it may find
anything of its kind, or panic, which Exec recovers. (A racing map write may also abort
the process. That is why `RacesApart` matters.) Dict operations are atomic, as in
`Commands`.

`Get` is getAsList/getAsSet/GetEntity with their early returns, `PutEmpty`
getOrInitList/getOrInitSet, `Work` the method of the object, `Check` the question
whether it was left empty, `Remove` db.Remove by name, `RemoveOnly` the same on
the paths that return without addAof. `Copy`, `Clear`, `PutResult` are the sources
and the destination of SINTERSTORE, SUNIONSTORE and SDIFFSTORE; `TakeLast` and
`PushInto` are RPOPLPUSH; `RenamePut` is RENAME's PutEntity. `saved` and `apart`
are as in `Commands`, and three things besides overlapping put a key `apart`: SPOP
of some of the members, as the log has its count and not its choice; a key removed by a
command that does not log (SREM that finds the set emptied by SPOP, a store
without a result); a command that used such a key. A read-only command is a
`look` at its object or, for the stores' sources, `Copy`.

Positions and counts are left to `LinkedList`: LREM has count 0, LSET position 0, a
push pushes one element. There is no restart, because a replay is the run of one
client, which is a behaviour of this module; `RecoveryExact` says what it yields.
A bound: commands do not begin on keys that are already `apart`, about which
`OneOwner` and `RecoveryExact` say nothing; those under way go on.

### LinkedList

`list` is a record with the nodes by address, `first`, `last` and `size`. `Add`,
`Find`, `Insert`, `RemoveNode`, `Sweep` (the three removals by value) and `RangeOf` (Range)
are the methods of `linked.go` as operators from a list to a list, pointer by
pointer; the commands are operators that give a list and a reply. The steps are
the commands that change the list, so TLC reaches every list that commands can
build. `AsOnSequences` then compares in each of them every command with any
arguments, whether a step or not, with `ListSpec`, which is written on sequences
and sets of positions and shares nothing with the pointer code. It is an invariant
rather than a refinement of a specification with steps, because a step does not tell
which command was given or what it replied.

### PipelineClient

A request is its number, and so is the reply the peer makes to it. `result[r]` is
what `r` was finished with: its own or another's reply, `Garbled` (see below), `Broken` (the
error of the connection's end), `Failed` (the writer gave up) or `Refused` (the channel was closed).
Send and doHeartbeat are `Begin`, `Submit` or `Refuse`, then `Return` or `Timeout`,
which leaves the request wherever it is. handleWrite and doRequest are `Take`,
`WriteOk`/`WriteFails`, `Redial`/`DialFails`, `GiveUp`, and `Enqueue` into
waitingReqs, which blocks on a full channel. Each connection `g` has its reader,
handleRead with finishRequest: `ReadReply`/`ReadError`, then `FinishRequest`, or
`FinishNil` on the closed channel. An error of the protocol is handed to the first of
waitingReqs like any reply, and the reader goes on (`client.go:195`). When the parser
panics it recovers without closing its channel: `ParserPanics` leaves the reader `"stuck"`.
Close is `Close`, `HangUp` when no caller is at
work, `CloseWaiting`. `Serve` and `Break` are the peer and the network, which the code
does not contain: a peer answers in order until its end is gone. A write to a
connection whose other end is gone may succeed or fail.

The peer is a Mudis server, and not everything one writes is read as it was meant.
`replies[g]` is therefore what the reader's parser makes of the bytes: the reply to a
request, or `Garbled` (an error of the protocol, or data that is no one request's
reply), or `Panic`. `Awkward` are the requests to which this can happen. A value that
begins with `$` is read as a header: one error, or, if a number follows, it takes bytes
of the next reply. An empty value is written as `$-1` without CRLF (`reply.go:10`, 32-34),
which the next reply completes (`peer[g] = "begun"`): that one disappears in it, is one error for two
requests, or several payloads for one. An empty or `$` argument of the request goes wrong
at the peer in the same ways, and its parser may panic, after which it reads nothing (`"deaf"`).
`Answers` lists these outcomes in terms of requests and replies. That they are the ones
the bytes have is `AnswersAreParsed` in `MCPipelineClient`, which runs the operators of `Parser`
on what `reply.go` writes.

As for the client's own panics,
ClusterDatabase.Exec recovers that of a Send on the closed channel, while in the
heartbeat's or the writer's goroutine nobody does, and `process` is `"crashed"`.

### Cluster

Each node treats what comes over a connection like what a user sends: there is no
mark on a relayed request. A *call* is one execution of a command by a node, from
its arrival to its reply. `call[s]` holds the node it runs `at`, the link it came `by`,
the node of a broadcast it has reached (`i`), whether one before has failed (`bad`),
and, while it is relayed, the client it has borrowed (`link`) and the call made with it
(`kid`). A link `<<a, b, j>>` is the j-th client of a's pool for b; `queue[l]` the
requests sent over it and not yet answered, which the other node executes one at a
time. `Relay` is BorrowObject and Send: it needs an idle client, and waits for one
without limit. `Return` is Send's return with the reply, `Timeout` its return after
`maxWait`: the client goes back to the pool and the call that was made goes on
without anybody to read its reply. `RelayFails` is a pool that cannot connect.
`RelaySelf` executes on the node itself. `Advance` is the loop of broadcast and the
error that Del and FlushDB make of any node's.

`PickNode` translates `consistenthash.go`: the nodes by hash, the first at or after the
key's, the first of all past the end. `Nodes(a)` is a's own order (peers first, itself
last), which matters where two hashes collide, since `AddNode` overwrites the place of
the earlier node. `hash` is chosen at the start from `Hashes`. A SET stands for every
command on one key, RENAME also for RENAMENX. SELECT is refused by every node's router, so
relays run in database 0 whatever the connection has chosen; the reply to it is dropped.

### Parser and Server

`Parser` works on bytes as members of a small alphabet: `*`, `$`, digits, CR, LF and
letters. `LineLength` is how much readLine takes, by delimiter or by announced length;
`Parse0(rs, line)` is one turn of parse0's loop: the new `readState`, and what is sent on
the channel (`Nothing`, a payload, or `Panic`). `ToBytes` is MultiBulkReply.ToBytes. It is
shorter than the Go code because headers, bodies and single lines share their checks,
which are in the code's order.

A connection of `Server` is a client (`client`, the bytes `in` flight, how many it has
not sent: `cut`), a parser (`ppc`, `rs`, `payload`), and a handler (`hpc`, `cur`,
`handled`: all that was received from the channel). `ClientEnds` and `ClientResets` may
come after any byte; `ClientStalls` makes every write wait. `Check` and `Store` are apart,
as between them Close may run. `BeginWrite` adds 1 to the WaitGroup and `WriteEnds` takes it
off again; `Wait`, `Wakes`, `TimeOut` and `CloseConn` are Connection.Close with its
WaitWithTimeout, whose inner goroutine (`waiter`) may wake after a further write has begun: that
is the documented panic of a WaitGroup, and ends the process. `Visit` and `RangeEnds` are
sync.Map's Range, which may or may not give what is stored or deleted while it goes on
(`base` is what it must give). `CloseClient` and `ServeEnds` are the two ends of the normal
way. A command's execution is part of `Receive`, as it always ends
(`EveryCallReturns`, `SenderReturns`).

`load` is what the clients are going to send, chosen at the start from `Loads`: each
request is its bytes, the payload they mean by the protocol, and whether this parser can
read them (`legible`). What may be called so is said by `ServerAssumption`: a command in the form
`ToBytes` gives it, of one to nine arguments of one to nine bytes none of which begins with `$`
(`Written`), or what the parser answers with this payload when all of it has come in, at one turn
(`LastLine`: a command as text, an integer, an error) or at a header and one line behind it (`HeaderAndLine`).
So `AsSent` says of commands that the reader undoes the writer, and of the others that
nothing before or behind them, and no place where the bytes break off, changes how they are read.

## 3. Runs

| run | instance | shows |
|---|---|---|
| `Dict` | 2 goroutines, 2 keys in one shard, every operation, scans, consumers that break off, and one Clear; 527 114 states | `NoMapRace`, `CountExact`, `EveryCallReturns`, refinement of `DictSpec`, `TypeOK` |
| `DictScan` | 2 goroutines, 2 shards of a key each, Put, Remove, scans that no consumer breaks off, one Clear, with history; 951 194 states | `ScanSound`, `CountExactUnlessRaced`, `KeysSlots`, refinement of `DictSpec` |
| `Strings` | 2 connections, 2 keys, both in one database or one in each of two, SELECT -1, 0, 1, 2, 12 commands, restarts; 455 000 states up to symmetry | `RecoveryExact`, within a database and across databases, `TypeOK` |
| `Aof` | 2 connections, 2 databases, channel of 2, 4 commands, 1 failed write, 2 ends; 127 441 states | `RoutedRight`, `ExactlyOnceInOrder`, `LossBounded`, `Written`, `SenderReturns`, `TypeOK` |
| `Objects` | 2 connections, 2 keys, lists of up to 2 elements and sets of up to 2 members, 14 commands; 3 345 774 states up to symmetry | `OneOwner`, `RacesApart`, `RecoveryExact`, `TypeOK` |
| `Linked` | lists of up to 5 elements of 2 values, positions and counts -6..6; 6 331 states | `TwoWay` (with the types), `AsOnSequences` |
| `Client` | a user and the heartbeat, channels of one, 3 requests of which the first may be misread, 2 connections; 1 202 379 states | `PairedUntilBroken`, `InOnePlace`, `Answered`, `CloseEnds`, `TypeOK` |
| `Cluster` | 2 nodes, a client each way, 2 keys, 2 commands of which one is a DEL, one failed connection, any timeouts, two placements (a key at each node; colliding hashes); 66 888 states | `KeysAtHome`, `OneHop`, `OnceIfOk`, `BroadcastsFail`, `Settled`, `TypeOK` |
| `Server` | a connection that sends one of some 25 requests and a short one behind it, or two connections that send nothing, a signal at any moment; 262 699 states | `AsSent`, `CloseWaits`, `Refused`, `Reaped`, `ShutdownEnds`, `TypeOK` |

Bounds. A lock protocol, a lagging count or a read-modify-write goes wrong
between two goroutines; two keys give one and two shards, one-key and two-key
commands, equal and different names in RENAME. One Clear makes an old and a new
table; a second needs the same overlap again. A channel of two is full with two
commands and can hold commands of two databases; two ends of the process give
a third process that reads what the second appended to the first's file.
Two keys also let an object get two names; in `Objects` a list of two elements is the
least that a pop or a removal does not empty. RPUSH and LPUSHX, which differ
from LPUSH and RPUSHX in the end they push to, LSET, which changes one element in place, LINDEX, which is a
read like `look`, and SINTERSTORE, which ends early as SDIFFSTORE does, are left out of that run; the
theorems are about all of them. With five elements `find` walks from either end and removal by
value meets neighbours to remove at both ends and in the middle; the integers go one
beyond what means anything. Channels of one are full with one request each, so
that three requests block the writer and a caller, and a second connection gives one
reconnection, after which nothing is claimed about replies. One misread reply is enough to
put the two behind it out of step, and the first is the one that has both.

In `Cluster` one client in a pool makes two nodes wait for each other's; commands on
keys use up at most two calls each, and a DEL, which begets calls without end, at most one
call for each of the two clients besides those given up, so that the six of `Slot`
never run out: a larger `Slot` gives the same states. Two nodes suffice for a key to be at
home or not, for a broadcast to come back, and for hashes to collide; a third would only
lengthen the way of a DEL, and the theorems hold for any number. FLUSHDB, which takes the
same path as DEL, is left to the proofs. The `Server`'s requests are the
protocol's cases: commands with arguments that are empty, begin with `$`, hold CR LF, or
look like headers; headers that lie; lines without CR; an empty line; text; replies. The
short request behind shows whether the parser is in step again. The parser of one
connection shares nothing with another's, so that two connections, which matter to
Close, Range and the accepting goroutine, send nothing there.

Symmetry is used in `Strings` and `Objects` only, over connections
and keys, in the latter over elements too; no liveness is checked in them. `Aof`, `Client`,
`Objects`, `Cluster` and `Server` turn off the deadlock check: they stop when every bound is
used up (commands, requests, keys that are followed), the client after a Close or a crash,
the server when it has ended.

Runs that TLC must find violated, each stating what a comment or document says:

| run | said | what the code does |
|---|---|---|
| `AofRouted` | currentDB "records the db the last command worked on" | a new process assumes 0 whatever its file ends in; commands are replayed in the wrong database |
| `StringIncr` | operations are thread-safe; INCR adds one to the value | of two overlapping increments one is lost |
| `ClusterDel` | `Del` "removes the keys from the cluster atomically" | every node broadcasts what it is sent: a DEL goes round for ever after its user has had an error, and removes what is stored later |

Further claims that TLC refutes, each a formula beside the properties it belongs to. No run
of the project is given to them: to see the trace, put the formula in the place of the properties of
the configuration named.

| formula | configuration | said | what the code does |
|---|---|---|---|
| `StopsWhenTold` | `Dict`, with 2 shards | a consumer's false breaks the traversal off (`dict.go:3`) | only that of its shard; it is given keys of the shards that follow |
| `CountExactAtRest` | `DictScan` | a thread-safe map (`sync_dict_concurrenthashmap.go:10`) | a Put that changes the old table counts in the new one; Len is wrong from then on |
| `OnlyNewKeys` | `Strings` | MSETNX sets "if and only if none of the given keys exists" (`string.go:148`) | it tests and puts in operations of their own, and replaces a value put in between |
| `AddsExactly` | `Strings` | INCRBY "adds the given value to the value of the key" (`string.go:220`) | the sum wraps around at the end of int64 |
| `NeverRacing` | `Objects` | operations are thread-safe (`README.md:5`) | two commands are inside one list at once |
| `PushesLast` | `Objects` | the same | two pushes each make the missing list; what one pushed is gone |
| `AssertedSizeAlways` | `Objects`, with "lset" in `Ops` | "assert: size > 0" (`list.go:276`) | LSET may find the list that a push has put and not yet filled |
| `OwnReply` | `Client` | CRLF separates the lines of the protocol (`reply.go:12`); a BulkReply is binary-safe (18) | an empty value is written without CRLF: two replies become one error, and from then on each request on the living connection gets another's reply |
| `BinarySafe` | `Server` | a body is read "binary-safe" (`parser.go:157`) | one that begins with `$` is taken for a header, and another command is received |
| `RefusesClients` | `Server` | `closing` is "refusing new client and new request" (`handler.go:32`) | a connection past its look at `closing` is stored and its command executed |
| `EndsOnSignal` | `Server` | the server blocks until a signal (`server.go:27`) | a parser that panics (an empty line) leaves its channel open, and the server waits for that connection for ever |

Observations without a formula of their own, each met while modelling:

- `sync_dict_concurrenthashmap.go:188` says that ForEach cannot access entries inserted during the
  traversal. It locks one shard at a time and gives those put into a shard it has yet to read;
  `ScanSound` says that it gives no others.
- After a reconnection with a request unanswered, the reader of the ended connection
  gives its error to a request of the next one, and from then on each request gets the
  reply to another. This is why `PairedUntilBroken` ends where it does.
- Requests already parsed when the handler closes are still executed; `Refused` says what does hold of
  `closing`.
- A pipelined reply that begins right after the one Close waits for can end the process with
  the panic of a reused WaitGroup (`wait.go:34`).
- An error of Accept other than at the shutdown (`server.go:67`) makes the server wait for
  every client to leave before it closes anything.

Fairness. `Dict` assumes weak fairness of a goroutine's steps, because the
Go scheduler runs every runnable goroutine, and strong fairness of acquiring a
lock: Go's RWMutex admits waiting readers after each Unlock, lets a waiting
writer stop new readers, and hands its inner mutex to the longest waiter.
`Aof` assumes weak fairness of the goroutine handleAof, and strong fairness of a
blocked channel send, because blocked senders are queued first in, first out.
`Client` assumes that as long as a caller, the writer, a reader or Close can go on, or the peer can with
what it has been sent, some step of theirs happens: requests and connections are bounded, each goroutine takes
finitely many steps in all, and so this is the same as fairness to each (a blocked Submit included, as
the senders of a channel are queued first in, first out). Nobody has to begin a request, break a
connection or close, and `Timeout` is one of the things a waiting caller may do.
`Cluster` assumes that a call that can go on does, `Timeout` among its ways (a reply, or
three seconds, must come), and strong fairness of getting a client from the
pool, because returning one wakes the first who waits. `Server` assumes that as long
as a goroutine of the server can go on, some do: each takes finitely many steps in all, so
that this is the same as fairness to each, and one formula instead of a dozen. The timer of
WaitWithTimeout is among them; the signal, and everything a client does, is not.
No client is assumed to do anything. `Commands` and `SharedObjects` have no fairness
and no liveness property: a command is a finite sequence of dict operations, which return by
`EveryCallReturns`, and one send, which returns by `SenderReturns`.

`Answered` is about a connection that lives and replies that end. Once a connection breaks, a
reader ends with its error given to one request, and what remains of waitingReqs has no replies
to come: a full channel can then keep the writer, and with it every Send, blocked for good. The same
is true of a reply that waits for the next to complete it, of a peer that is deaf and of a reader
that is stuck (a panic of its parser needs a reply left unfinished before it). Replies that are
misread one by one are within it.

## 4. Theorems

All are proved for any set of goroutines, keys, values, shards, connections,
databases and any bounds, from the named assumptions on constants alone
(finite sets of keys and goroutines; at least one shard; each key in one of
them; database 0 exists; what stands for "no object" and "no element" is none; a
list within its bound leaves an address free; what clients send is bytes, and called
legible only if it is `Legible`).

`ConcurrentDictProofs`: `Invariance` proves `IInv`, which adds to the types
who holds which lock at each place (`LockInv`), which operations can be at it
and on which shard (`CallInv`), that tables in use were allocated (`TableInv`), and
what a goroutine about to count has found and done (`UncountedInv`). Mutual
exclusion in itself is not inductive: that a writer past Drain is alone needs the
claim kept by Lock and the readers' set emptied by Drain. `NoConcurrentMapAccess` follows.
`CountIsExact` follows the cardinality of the keys present in the effective
contents through each step; it needs `UncountedInv` for the step that counts, and
that at most one goroutine of a shard is uncounted. `Refinement` assumes `StopsInOneShard` and
maps every step to a step of `DictSpec` or a stutter; that the operations under way are among `Ops`
(`OnlyOps`) brings the assumption to where a consumer answers false; a step of one goroutine leaves the others'
frames alone (a lemma), and moves the effective contents at one key only.

The theorems about scans are of `ConcurrentDictHistory`, with the invariant `HInv`. `ScanSound`
says what does hold of scans: keys inserted meanwhile may be
seen if their shard was not yet read, and shards behind a false answer are scanned, against the
comments on ForEach and Consumer. `ScanInv` says at each shard what a scan has seen
of the shards behind it and bounds the keys ahead of it by those present always and ever, and
`VisitSees` carries this over one shard. That `CountExactUnlessRaced` survives a Clear needs that a
table not allocated yet is empty (`FreshInv`), that a Clear beside a writer or another Clear
counts as a race (`RacedInv`), and, while there was none, that all writers are at the current
table and what Clear puts in its place is still empty (`CountInv`). `KeysSlots` needs
that the count which Keys read was made up by keys that have been there ever since, unless
something went away (`KeysInv`): a scan sees at least so many.

`AofProofs`: `RoutedRight` alone says nothing of where a reader is at the end of
the file, where the next command goes. `RouteInv` adds that handleAof's
`currentDB` is that database (`Followed`), that a SELECT it has written is that of
the command it holds (`Chosen`), and that only commands are queued
(`OnlyCommands`). The lemmas on `InDB` say that appending to a file, or taking back its
end, does not move the entries before. `FileInvariance`, `FileTyping` and
`FileRoutedRight` follow.

For the order, the log is three stretches: the file, what handleAof holds and the channel.
`OrderInv` says that each is in order, that one comes wholly before the next, and that their
commands and those lost are all that were accepted; a command moves from one stretch to the next,
and taking back the end of the file leaves a prefix. `FileExactlyOnce` (`ExactlyOnceInOrder`) is
the three stretches in a row. `FileLossBounded` (`LossBounded`) counts: what Close abandons is
the commands of the channel, never over its capacity, and the one in hand.

`CommandsProofs`: `RecoveryExact` speaks of commands that are through and of those at their last
act. The invariant `CommandsInv` says at every place of every command how far memory has come from
the log on its keys (`Agrees`), for commands that nothing disturbs; that commands which share a key are
disturbed, each on all of its keys (`Solo`); and that keys no command uses hold nothing (`InUse`, for
FLUSHDB). Every action is local to the keys of its command (`Local`), and what is local to one leaves
the others where they were (`LocalKeeps`); `ApplyIs` says what a replay does to the keys of a
command and that it leaves other keys alone. `CommandsTyping` and `LogRebuildsMemory` follow, for
any connections, keys, databases, values and widths of integers. The bound of `Exec` is
part of what they are about: a command that begins on a key already `apart` would carry the
difference to its other keys.

`SharedObjectsProofs`: the invariant has two halves. `OwnInv` holds whatever commands overlap. It
says what each frame can be at its place (`Fits`), that commands which share a key are no
longer followed, each on all of its keys (`Solo`), whose each object is (`Owned`: one with two
keys, or with two commands at it, or reached by one command and a key of another's, is of keys
in `apart`, and RENAME between its two operations is the one exception), and that an object someone
can reach has the kind that those who are at it want, all others being gone (`Alive`). `OneOwner`
alone is not inductive, as it says nothing of references that only a frame still holds.
`RacesApart` follows, and `AssertedSize`, which no run checks: LSET alone on its key never meets an
empty list. `Follows` is the second half: for a command that
nothing disturbs, where its objects are (`Holds`), what it has read of the log's contents
(`HasRead`) and what it has made of them in memory (`HasMade`), at every place; for a key no
command is at, memory is what the log says. `RecoveryExact` speaks only of the latter and of
commands at their last act. Every step has one shape (`Acts`: it changes its own keys and the
objects in its hands), which gives `OwnInv` and leaves other commands' keys alone, once for all actions;
what remains for each action is what it does on its own keys (`Progress`). `WithoutIs` says
by a least counterexample what a list without one value is. One assumption is a matter of encoding only:
that `None`, which stands beside sets of elements, is not such a set.

`LinkedListProofs`: `TwoWay` speaks of the walk from `first`, which is a recursive function. The
proof speaks of the order of the nodes, a sequence `p` of addresses without repetition that `next`
follows forwards and `prev` backwards (`Chain`); each method turns one order into another: `Add` and
`Insert` put an address into it, `RemoveNode` cuts one out, `Find` comes to the i-th from whichever end.
A removal by value goes along the order as it was at the start: after `j` positions it has `Done` those, has taken
out the `Doomed` among them, and the list is in the order of what is left (`SweptTo`). `ListInvHolds` and
`LinksGoBothWays` follow. `CommandsActOnSequences` (`AsOnSequences`) goes on to the elements and
replies of every command with any integers for positions and counts: the elements left by a
removal, or shown by LRANGE, are those `Keep` picks. `Keep` in `ListSpec` says which element comes at which place, by
counting, since the proof needs a definition that does not run through the sequence.

`PipelineClientProofs`: `PairedUntilBroken` is about requests that are finished. Why the
next one gets its own reply is `Aligned`: while the connection lives, the reply the
reader holds, those unread, a mark for one left unfinished, and those the peer has yet to make
(`Coming`) are, up to the first that is spoilt, those due to waitingReqs and to the request the
writer has written and not yet enqueued (`Due`), in this order (`InLine`). Writing appends to both,
finishing takes the head of both, a timeout touches neither, and of a reply that goes wrong nothing
is claimed behind its place. Taking the spoilt one gives it to a request (`Spoiled`), which
keeps it (`SpoiledStays`, from the invariant of `ClientInOnePlace`); from then on replies may be anybody's, and
`OwnReply` is refuted. `Single` adds that a living connection is the first and only one.
The lemmas on `InLine` say what appending, taking the head and replacing the end by something spoilt do to it.
`ClientInvariance`, `ClientTyping` and `ClientPaired` follow, for any number of callers,
requests and connections, channels of any size and any set of requests that may be misread.

`ClientInOnePlace` (`InOnePlace`) needs that the two channels, the writer's
hand and the callers about to submit have no request in common, and none twice (`Apart`), and that
together they hold the requests made and not finished (`Unfinished`).

`ClusterProofs`: `KeysAtHome`, `OneHop`, `OnceIfOk` and `BroadcastsFail` rest on one
invariant that says how calls hang together: who waits for whose reply (`kid` and
`by` fit, no call has two who wait), that a link in use is a client of the node it is used by,
that `queue[l]` holds exactly the unanswered calls that came over `l`, and that a relayed command on
a key runs where its key is at home. `OnceIfOk` needs in addition where the one execution
still may happen: at most one unanswered call of a command on a key is at work, and none once it
has been applied. `BroadcastsFail` needs that a success would need a call without a call of its own
below it, while each call of a broadcast must get through its peers before it gets to itself.
`KeysHaveOneHome` (`OneHome`: a key is at one node) follows from `KeysAtHome` and a lemma on rings:
without colliding hashes `PickNode` does not depend on the order in which nodes were added.
`OtherKeysStay` is what makes that hashing consistent: the place where `PickNode` finds a key is its
place on every smaller ring that still has the node it picks, colliding hashes or not. It is a fact about
rings, not a property of a run: the nodes of a cluster are configured before it starts and stay the same.
`ClusterTyping` (`TypeOK`) is not a matter of types alone: that a reply takes the right request off a
connection, so that `queue` stays a sequence of slots without repetition, needs that only the head of a queue
can be waiting for another node (`QueueOK`).

`ServerProofs`: `NoReplyCutEarly` (`CloseWaits`) needs that the WaitGroup's counter is 1
exactly during a write (`Counted`), and that once Close has seen 0 any write has begun since
(`QuietOrLate`). `RefusedForGood` follows a connection from its look at `closing` on: closed or
about to be, its parser never reads and what Handle receives first is an error of reading
(`Unserved`), a second invariant that begins to hold at that moment. `ServerTyping` (`TypeOK`) opens the
parser's operators: for any bytes whatever, `Parse0` gives a state and sends a payload the handler knows, numbers
in headers are integers (by induction over positions), a line takes no more
bytes than there are, and what is in flight and what a client has withheld stay within what
it was going to send. `CommandsAreReadBack` is about reader and writer alone: what
MultiBulkReply.ToBytes writes for up to nine arguments of up to nine bytes each, none of which
begins with `$`, parse0 takes line by line to those arguments, and sends nothing before the last byte. It is
stated with a set of places (`Reading`): each is an offset in the request with the `readState` there, and
the line that begins at a place leads to another one or ends the request. `HandledAsSent` (`AsSent`)
carries that set along every connection: the bytes taken so far are those of the requests received
and of a part of the next, in which the parser is at one of its places (`Sound`). Whatever
prefix has come in, readLine gives the request's own line or waits (`LineAgrees`); and if it waits and the client has
ended, the request was not sent whole, which is what an `eof` may be given for.

Only model-checked: liveness (`EveryCallReturns`, `Written`, `SenderReturns`,
`Answered`, `CloseEnds`, `Settled`, `Reaped`, `ShutdownEnds`), which is outside what the prover can
do.

## 5. Not modelled, and what could follow

- Of the hazards without a property those that go against a comment are in the second table of section 3. SETRANGE writes into the stored slice and APPEND
  into its spare capacity while others hold the same array (`string.go:364`): values are whole
  strings in `Commands`, and objects as in `SharedObjects` would be needed for them. In three cases memory and log may
  differ, no comment says otherwise, and `RecoveryExact` gives the keys up, so that it says only that no
  other keys differ: overlapping commands that log in another order than they took effect or by what they found
  before the other (`string.go:82`), GETSET of a missing key (`string.go:187`), SPOP of some of the members (`set.go:133`). The
  reuse of a WaitGroup (`wait.go:34`) is among the ways in which the `Server` may end.
- String keys that meet lists and sets (WRONGTYPE): `SharedObjects` composed with `Commands`.
- `Commands` composed with `Aof`: a recovered state is one that memory once was in.
- Pure algorithms: wildcard matching (for KEYS only), computeCapacity; the numbers
  in headers of requests are small, so that ParseInt's limits are not met. The bytes of replies
  matter where the pipelining client reads them, and are evaluated there by `MCPipelineClient`; what a `Server`
  writes to its own clients is only whether it is written whole.
- Logging, configuration, the entry point and the echo server hold no state of the system's;
  nothing uses SyncDict.
