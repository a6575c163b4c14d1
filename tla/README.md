# Zinx, modelled in TLA+

This directory models the Go TCP framework of this repository (`src/zinx`) and
the game built on it (`src/appDemo`) in TLA+. The modules are model-checked with
TLC on small instances, and the main safety properties are proved with TLAPS for
every instance.

    tlc -workers 2 -config Connection_safety.cfg MCConnection
    tlapm ConnectionProof.tla

`PROJECT.json` lists the runs, the lines of source every definition stands
for, the hazards of the code and the properties aimed at them, a mutant for
every property (a plausible mistake in the modelled code that breaks it) and the
theorems.

## 1. The system

A server accepts TCP (or WebSocket) connections and runs user code for the
messages that arrive on them.

    client ──bytes──> StartReader ── FrameDecoder.Decode ── interceptors ─┐
                          │                                               │
       accept loop ─> Connection.Start ──useWorker──> worker pool <─ task queue
            │             │  └─ finalizer, freeWorker     │ handlers
       ConnManager <──────┘         │ msgLock             v
            ^                 heartbeat goroutine   Send / SendToQueue / ...
       Server.Stop                                        │
                                          msgBuffChan ── StartWriter ──> client

| Component (source) | State | Operations | What is hard | What makes it correct |
|---|---|---|---|---|
| TCP connection (`znet/connection.go`) | context, `isClosed`, socket, `msgLock`, `msgBuffChan`, `workerID`, `lastActivityTime` | `Start`, `Stop`, `finalizer`, `StartReader`, `StartWriter`, `Send`, `SendToQueue`, `SendMsg`, `SendBuffMsg` | five kinds of goroutines share it; a lazy channel; a lock around blocking I/O; hooks that panic | nobody writes to a closed socket or channel; an accepted message is kept and in order; `Stop` ends all of it |
| WebSocket connection (`znet/ws_connection.go`) | as the TCP connection | as the TCP connection | the finalizer gives the lock back at once; nothing recovers | calls under way are waited for; `Stop` ends it |
| Heartbeat (`znet/heartbeat.go`) | ticker, `quitChan` | `start`, `check`, `Stop` | a rendezvous taken with a lock held | it ends with the connection and never hinders it |
| Server (`znet/server.go`, `acceptDelay.go`) | `cID`, `exitChan`, listener | accept loop, `StartConn`, `Stop` | the limit is tested long before the connection counts; `Stop` races with everything | limit kept; `Stop` reaches every connection |
| Connection manager (`znet/connmanager.go`) | map of connections | `Add`, `Remove`, `Len`, `ClearConn` | iteration over a snapshot | no connection is missed |
| Worker pool (`znet/msgHandler.go`) | `freeWorkers`, task queues, routers | `useWorker`, `freeWorker`, `SendMsgToTaskQueue`, workers | workers are returned after the connection left the manager; queues are bounded | order per connection, no request lost, no worker lost |
| Requests, routers, chain (`znet/request.go`, `router.go`, `chainBuilder.go`, `zinterceptor/chain.go`) | step, index, lists of handlers | `Call`, `Goto`, `Abort`, `RouterSlicesNext`, `Proceed` | steps changed from inside handlers, panics in the middle, an `int8` index | each handler once and in order; `Abort` is final |
| Frame decoder (`zinterceptor/frameDecoder.go`) | `in`, discard mode | `Decode` | frames cut anywhere; a discard that spans calls | the frames sent are the frames returned |
| Decoders, packing (`zdecoder`, `zpack`) | none | pack, unpack, intercept | widths and byte orders, the same decoder twice | round trip |
| Asynchronous result (`zasync_op/async_op_result.go`) | value, callback, three flags | `SetReturnedObj`, `OnComplete`, `doComplete` | lock-free, half atomic and half plain | the callback runs, and once |
| Asynchronous workers (`zasync_op/async_op.go`, `async_worker.go`) | array of workers, queues | `Process` | double-checked creation | operations of one worker run in order |
| Sharded map (`zutils/shard_lock_map.go`) | 32 locked maps | `Set`, `RemoveCb`, `IterBuffered`, ... | callbacks under a lock, snapshots per shard | listings miss nothing that stays |
| Client (`znet/client.go`) | connection, `exitChan`, `ErrChan` | `Start`, `Restart`, `Stop` | restart, failed dial, channels shared by goroutines of several dials | `Stop` returns and does not crash |
| Log (`zlog`, `zutils/write.go`) | file, size, buffer, backups | `Write`, `rotate`, `flush`, `delete`, `Close` | rotation, flush, time zones, crashes, a failing file system | lines stay in order and reach the disk |
| MMO demo (`appDemo/Api_MMO_GAME/core`, `appDemo/Server`) | areas, map of players, positions | arrive, move, leave | moves race with disconnects; messages to a slow client are dropped | a player is in exactly the area of its position; clients agree |
| Ids, configuration, interfaces, examples | | | | not modelled |

## 2. Modules

| Module | Models | Proved in |
|---|---|---|
| `Connection` | one connection with its reader, writers, heartbeat and user goroutines | `ConnectionProof` |
| `ConnLife` | what a connection promises: up, stopping, closed; each message delivered at most once and not after the close | `ConnectionProof` |
| `WsConnection` | the WebSocket connection; extends `Connection` and replaces what differs | `ConnectionProof` |
| `Server` | accept loop, manager, worker pool, task queues, `Server.Stop` | `ServerProof` |
| `OrderedService` | what the pool promises: the requests of each connection are handled once, in order, and in the end | safety in `ServerProof` |
| `Dispatch` | one request through the interceptor chain, the worker and the handlers | `DispatchProof` |
| `FrameDecoder` | the decoder and the bytes of its input | `ClientProof` |
| `Codec` | messages over `FrameDecoder`: packers, reader, TLV and LTV decoders | `ClientProof` |
| `AsyncOp` | one asynchronous result used by any number of threads | `AsyncOpProof` |
| `OnceCallback` | what it promises: one callback, once | safety in `AsyncOpProof` |
| `AsyncWorkers` | the workers that run operations; extends `AsyncOp` with where the results come from | `AsyncOpProof` |
| `ShardMap` | the sharded map with several keys per shard and the connection manager's use of it | `ShardMapProof` |
| `Client` | `Start`, `Restart`, `Stop` and the dialling goroutines | `ClientProof` |
| `LogWriter` | the logger over its file writer, with time, faults and crashes | `LogWriterProof` |
| `World` | areas of interest, players and what clients show | `WorldProof` |
| `MC...` | a module for TLC: small sets and symmetry | |

In every module a definition named `X_Word` is `X` with one mistake; no action
uses it. `PROJECT.json` pairs each with the property that catches it.

### Connection

Each goroutine is a program counter and each action is what it does between
two points where another goroutine can be noticed: a lock operation, a channel
operation, a read or a write of a shared field.

* `mpc` is `Start`. After the hook, the heartbeat and `useWorker` it waits for the
  context, calls the second hook, takes `msgLock` (`LockRequest`, `LockAcquire`)
  and, holding it, stops the heartbeat, closes the socket, leaves the manager,
  closes the channel and sets `isClosed`.
* `msgLock` is a Go `RWMutex`: a writer that waits keeps new readers out
  (`writeLock = "waiting"`), and gets the lock when the readers have left.
* `spc` is a sender. `Send` and `SendToQueue` take the read lock first; `SendMsg`
  and `SendBuffMsg` first read `isClosed` without it. The heartbeat is the sender
  `Hb` and calls `SendMsg`; its beats are not recorded on the wire.
* The lazy creation of `msgBuffChan` is two steps, test and assignment. Each
  caller that saw nil makes a channel of its own and starts a writer, so
  channels and writers are named for the caller that made them. Go evaluates the
  channel of a `select` case once, when it enters the select: `EnterSelect` and
  `WriterSelect` take it, `Offer` and `WriterReceive` use it.
* The 5 ms timer of the buffered methods may run out at any time. A call of
  `SendToQueue` with nil data returns without an effect, which the timer covers.
* `OfferPanics` is the panic of a send on a closed channel, which `SendBuffMsg`
  can meet. It ends the call; what the user's goroutine does then is not the
  connection's.
* The peer reads, stalls or is gone. `TimePasses` is `HeartbeatMax` without a read.
* `Stop`, `ClearConn` and the calls of users begin after `Start` made the context.
  Before that `Stop` calls a nil function; `Server` has that case.
* Reads of shared fields are sequentially consistent. A race detector would
  object to `isClosed` and `msgBuffChan`; what a weaker memory would add is not
  explored.

### Server

`apc` is the accept loop, `stage` each connection's `Start`, `rpc` its reader,
`taskQueue`, `running` and `handled` the workers, `stopPc` a call of `Server.Stop`.
A connection is coarse here: the finalizer is one action, the senders are left
out. A hook that panics ends `Start` in its recover (`stage = "dead"`): such a connection
stays registered and never returns its worker. `useWorker` takes any free worker,
because it ranges over a Go map. `ClearConn` reads the map shard by shard (`ScanShard`) and then stops and removes what it found
(`ClearOne`); every connection is taken to be alone in its shard, which gives the
most interleavings. `ClearOne` of a connection whose `Start` has not run ends the
process, since `conn.Stop` panics in the goroutine of the caller of `Server.Stop`;
`Next` is disabled then (`Up`). Only the single TCP accept loop adds connections.
Pools have at least one worker and queues at least one place.

### AsyncOp

A step is one load, store or compare-and-swap. Threads in the constant `Delayed`
have a store buffer: their plain store becomes visible later (`Drain`), at the
latest before their own compare-and-swap, while their plain loads overtake it, as
on amd64; setters and registrars alike. `overtook` is history: a registrar's load of
`hasReturnedObj` found no result while its store of `completeFunc` was still delayed.
Threads stand for their arguments. `RunCallback` is the worker that takes the request, and its callback reads `GetReturnedObj`, as the user code
the package is written for does.

### AsyncWorkers

`Process(r, s, id)` is a business thread that hands operation `s` to the worker its id
selects; `Look` is the unlocked look at the array, `Lock` and `GetWorker` the locked
one, `Send` waits for room in the queue. `Exec` and `OpEnds` are `loopExecTask`: an
operation that runs is the setter of `AsyncOp` with the same name, and may panic
instead, which its task recovers. `-opId` is taken as Go does it: the smallest
`int` (`MinInt`) stays negative. Its remainder is 0, since it and the length of the array
are powers of two (`AsyncWorkersAssumption`), so it, too, has a worker.

### WsConnection

`ws_connection.go` is a copy of `connection.go` that changed in places; the module
`EXTENDS Connection` and says only what changed. The finalizer takes `msgLock`
and gives it back in one step (`WsLock`), every send method holds the read lock
for the whole call, nothing recovers (a panic of a hook or on the reader ends the
process, `mpc = "dead"`), and a failed write does not end the writer.

### Dispatch

`rstack` and `wstack` are the call stacks of the reader and of the worker. The
interceptors and handlers are the user's: each may call what the framework
offers, return or panic at any time. `Wrap` is the conversion to `int8`, for an index
of any width (`IndexMax`, 127 in the code). `RouterRecovery` is a handler of its own
kind, which calls Next and recovers. `use`, `group` and `api` are the lists that
`router.go` concatenates.

### FrameDecoder and Codec

`Receive` appends what a read returned to `d.in`; then `Decode`'s loop runs, one
action for each way `decode` returns (`Incomplete`, `ExceededFrameLength`,
`DecodeFrame`). A byte is a digit below `Radix`, a `uint32` is `Word` bytes; `Bytes`
and `Number` are what `encoding/binary` does in both byte orders, the second a
recursive function over the bytes. `decode` works on a buffer made from `d.in`: what
it skips there (`Discarding`) is not removed from `d.in`, and the model says the
same. `Codec` adds the packers in both byte orders, the message the reader makes of
every frame, and the decoder's `Intercept` as often as `Start` put it into the
chain: `Through(m)` is the message after each of the `decoders`, and
`ChainPanics(m)` says that one it gets to panics. Slices have `uint32` bounds that
wrap; a panic is recovered in `StartReader`, which then ends (`alive`).

`LengthAdjustment` has either sign, as in the cases the comments of `frameDecoder.go`
go through. A length that comes out negative or shorter than what is stripped
panics, and on a frame of no bytes with nothing stripped `Decode` loops for ever;
all are `DecodeFails`, after which `pc = "failed"`. Assumed of a peer: the IDs of the
messages are `uint32`s, it sends a frame only if the length field can hold its
length, and the head of its frames is at least as long as what the decoder strips;
`DecodeFails` is met behind a too long frame, where `decode` reads a length anywhere. The panic
for an 8-byte length field that is negative by itself is left out.

### ShardMap

What runs to its end under the lock of one shard is one step. A callback is
user code, so `IterCb` and `RemoveCb` hold their lock over several steps, and a
panic leaves the shard locked (no `defer` in either): for everybody after `RemoveCb`'s,
for writers, and for readers behind a waiting writer, after `IterCb`'s (`Broken`).
A value is the thread that set it. `ClearConn` is `IterBuffered` and then a `RemoveCb` for each item.
`sure` and `maybe` are history: the keys present all the while a listing runs, and
the pairs present at some time of it. Callbacks do not call the map themselves.

### Client

The k-th `Restart` makes exit channel k and dials connection k. `c.conn` and `c.exitChan`
are plain fields, read when a goroutine gets there; a `select` evaluates its
channel once (`waitsOn`). `safe` is history: every call so far was made at a safe
moment, which is a `Restart` before any `Stop`, and one `Stop` when the last dial
succeeded, its connection has started, and no dial or unread error is under way.

### LogWriter

Each method of the `Writer` holds its mutex and is one step; `Close` is two, because
the code takes the mutex twice. A line is its number. `io` is the writer and the
directory: the open file, the `bufio.Writer` with its sticky error, zipped and
unpacked backups by the second in their name. What may fail is `OpenFile`, a write
(the error sticks to the `bufio.Writer`, and `rotate` ignores it and makes a new one),
the rename, and the archive: noticed (`zip`), which keeps the plain backup, or in one
of the deferred `Close` calls (`close`), whose errors are dropped, so that `ZipToFile`
returns nil and `rotate` removes the only copy. A write that fails is taken to write
nothing. The process may exit at any time, and does after a Fatal.
The time zone is `West` seconds behind UTC.

### World

Two goroutines work for a player: the hook goroutine of its connection
(`OnConnectionAdd`, later `OnConnectionLost`) and the worker that runs its moves.
Reading an area (`Scan`), looking a player up (`Lookup`) and sending (`Send`) are
steps of their own, since each takes and releases a lock. Integer division
truncates toward zero, as Go's does, and loses the remainder of the map. `view[p]` is
what the messages sent to `p`'s client make it show, and each of them may be lost:
`SendBuffMsg` gives up when the channel is full for 5 ms, and `SendMsg` only logs it.
`met`, `strayed` and `missed` are history: whose operations overlapped, whose
panicked, and which two players a lost message was about. A client may ask for any
position (`Targets`): `Handle` checks none. One off the map has no area, or a wrong
one, as `GetGIDByPos` computes it. `Around` goes through the directions
of `GetSurroundGrIDsByGID` in the code's order, since `Scan` does. Players
arrive at one of `Spawns`, of which there is at least one, where areas are.

## 3. Runs

Deadlock is not checked in any run: a closed connection, a drained server, a
client that was stopped and a decoder whose peer is silent rightly stop. That
work which must be done gets done is stated as liveness instead.

| Run | Instance | Shows |
|---|---|---|
| `conn_safety` | 2 callers of `Send` and `SendToQueue`, one call each, heartbeat, panicking hooks, stalling peer, channel of 1; and 2 callers of `SendToQueue` and `SendBuffMsg`, one of whom calls twice, up to the finalizer's lock (`Explored`) | `WritesOnOpenSocket`, `QueueNeverPanics`, `ClosedIsDetached`, `AcceptedIsKept`, `BufferedInOrder`, and `ConnLife` is implemented |
| `conn_stop` | 1 caller, 2 calls of `SendMsg`, `SendToQueue`, `SendBuffMsg`, heartbeat, panicking hooks, stalling peer, channel of 1, fair | `StopCompletes` |
| `ws` | 1 caller of `SendMsg` and `SendToQueue`, 2 calls, heartbeat, panicking hooks, fair | `EarlyCallsUnharmed`, `ClosedIsDetached`, `WsStopCompletes` |
| `server_admission` | 3 connections, limit 2, Bind mode, panicking hooks, `Server.Stop` | `WithinLimit`, `LostToPanicsOnly`, `StopReachesAll` |
| `server_requests` | 3 connections, limit 1, 2 requests each, Hash pool of 2, queues of 1, fair | `HandledInOrder`, and `OrderedService` is implemented |
| `dispatch` | an interceptor that proceeds up to twice, up to 4 handlers, 2 Gotos, an index that wraps at 7, fair | `InOrder`, `AbortIsFinal`, `NoneSkipped`, `StepIsDue`, `Finishes` |
| `decoder` | 3 messages with bodies of 0, 1, 4, 5 or 8 bytes, bytes of 3 values, TLV, LTV and fields with the adjustments 1 and -3, 1 or 2 decoders, every cut | `MessagesInOrder`, `NothingHeldBack` |
| `async` | 2 operations, 2 threads, all stores delayed, 2 workers with queues of 1, ids -4 (the smallest int), -1 and 1, fair | `AtMostOnce`, `NeverLost`, `OpsOneByOne`, and `OnceCallback` is implemented |
| `shardmap` | 2 threads, 3 calls, 3 keys in 2 shards, callbacks of `IterCb` and `RemoveCb` that panic, fair | `ListingHolds`, `ShardIsStable`, `Returns` |
| `client` | 3 dials, 2 stops, fair | `SafeStopSurvives`, `SafeStopReturns` |
| `log` | 4 lines, 6 seconds, days of 2, files of less than 3 lines, one kind of fault (any of open, write, rename, zip, close, as often as it likes), 1 exit, 1 Close | `InOrder`, `FilesBounded`, `BackupsLast`, `LinesReachDisk` |
| `world` | 2 players, 2 moves, 3 areas of 2 by 1, positions beside the map, messages lost | `OneArea`, `ListedIsKnown`, `InItsArea`, `ViewsAgree`, `ArrivalsAlone` |

`conn_safety` has an `ACTION_CONSTRAINT`, since all calls of both callers beside
everything else would be too many states. It explores one call each beside everything
else (`LockedCalls`), where the reader and the clock have their turn between calls, as
what they do to a call under way is what `Stop` does, too; and three calls between a
quiet reader, heartbeat and peer (`BufferedCalls`). In both the two callers may race for
the first buffered call.

`world` has a `VIEW` (`MCView`): what two players show of each other is left out of the
state once the pair is exempt from `ViewsAgree`, and so is which of the two exemptions
it was. A guard reads `view` only to ask whether a message that gets lost would have
changed it, and with two players that concerns the same pair; nothing takes an
exemption back. So states that differ only there have the same successors and satisfy
the same properties.

### The properties

Connections (`Connection`, `WsConnection`):

* `WritesOnOpenSocket`: a `Send` past its `isClosed` check finds the socket open.
* `QueueNeverPanics`: `SendToQueue` never sends on a closed channel.
* `ClosedIsDetached`: `isClosed` implies cancelled, socket closed, out of the manager,
  no heartbeat.
* `AcceptedIsKept`: while the connection is up, an accepted message is on the wire,
  in a writer's hand, or in a channel that a writer reads or will read; or it is in a
  channel that a second first caller replaced (`Overwritten`), and nowhere else.
* `BufferedInOrder`: unless the channel was replaced, accepted messages of each caller
  are written in order.
* `StopCompletes`: if the peer does not stall for ever, a done context leads to a
  closed connection with its worker returned and all goroutines ended, to a hook that
  panicked, or to `HeartbeatStuck`, the deadlock of section 4.
* `EarlyCallsUnharmed`: a call on a WebSocket connection that had the lock before the
  finalizer finds socket and channel open.
* `WsStopCompletes`: a done context ends the WebSocket connection, with its heartbeat.

Server and requests (`Server`, `Dispatch`, `Codec`):

* `WithinLimit`: never more than `MaxConn` connections registered, and, until `Stop`
  is called, no open socket that is not registered.
* `LostToPanicsOnly`: in Bind mode a worker that is not free is held by a connection
  that will return it (`Holds`), or by one whose `OnConnStop` hook panicked and that
  never will (`Loses`); connections that were given the same worker take no other along.
* `HandledInOrder`: no request runs before or beside an earlier one of its connection.
* `StopReachesAll`: after `ClearConn` every connection registered at the call of `Stop`
  has been stopped, although the map changed meanwhile.
* `InOrder`, `AbortIsFinal`, `NoneSkipped`: the handlers of a request run in the order of
  registration, none twice, none after an `Abort`, and all unless one aborted or a
  panic escaped, as long as the index can count them (`Countable`).
* `StepIsDue`: a router's three methods run as `Goto` and `Abort` ask for.
* `Finishes`: the worker is done with a dispatched request in the end, also when the
  index wraps around.
* `MessagesInOrder`: what was packed comes out of the decoders, one for one, up to the
  first frame that is too long and the first message that the code cannot slice or
  decodes twice; up to there no panic and no endless `Decode` stops the reader.
* `NothingHeldBack`: nothing complete is kept by the frame decoder.

The rest:

* `AtMostOnce`, `NeverLost`: one callback, not two, and none only where the check for the
  result overtook the store of the callback.
* `OpsOneByOne`: operations of one worker do not run side by side, and not before one
  that was accepted earlier.
* `ListingHolds`: a listing has every key that was there all along, with a value it
  had, and nothing that never was.
* `ShardIsStable`: what `IterCb`'s callbacks saw of a shard is what is in it.
* `Returns`: every call of the map returns, but those that need a shard that a panic in
  a callback of `RemoveCb` or `IterCb` left locked.
* `SafeStopSurvives`, `SafeStopReturns`: a client stopped once at a safe moment does not
  crash, and `Stop` returns and ends the goroutine that waited.
* `InOrder` (of `LogWriter`): backups, live file and buffer hold the lines in order.
* `FilesBounded`: no file reaches `MaxSize`, also over restarts.
* `BackupsLast`: a line leaves a backup when it is old, give or take a day and the time
  zone, or when a second backup takes the name. It does not say that this is right.
* `LinesReachDisk`: a line leaves the file by a rotation whose archive failed unnoticed,
  and the buffer by an exit, under a closed file or after a failed write; nowhere else.
* `OneArea`, `ListedIsKnown`, `InItsArea`: no player in two areas; who is listed is in the
  map; a player at rest is in the area of its position.
* `ViewsAgree`: two players whose operations never overlapped, and between whom no
  message was lost, show each other exactly when they are near.
* `ArrivalsAlone`: `OnConnectionAdd` meets a nil player only if another player left.

### Why the bounds are enough

The races in a connection are between the finalizer, one sender and one other
sender (two creators of the channel, a reader that delays the lock): two callers
reach all of them, also the two first callers of whom one replaces the other's
channel. A second call of one caller, in `conn_safety` beside another caller and in
`conn_stop` beside the closing, is needed for order. A third connection on a server
for two is the first that is refused, and the first that can come while a worker is on its way back. With a limit of one
and a pool of two, the first and third connection share a worker through the hash,
one after the other, and the third can arrive while requests of the first are
queued. Queues of one make readers wait. An index that wraps at 7 lets four
handlers be counted in most runs and wrap in some. Three messages allow one
before and one after a too long one; of the lengths 0, 1, 4, 5 and 8, with bytes of
three values, 5 and 8 make the bound of a slice wrap a `uint32` of two digits, and the
adjustment of -3 lets a peer send a length that counts its head. Two setters and two
registrars are one more than the code lets through, and three ids select both workers, one of them twice. Two keys in one shard and
one in another tell a lock per shard from a lock per map; a third call lets a
thread act during and after a listing. Three dials allow a restart over a
restart. Six seconds are three days, the last of which may delete the first.
Two players meet and part within two moves. The theorems of section 5 do not
have these bounds.

### Fairness

* `Connection`: every goroutine keeps running (weak fairness). Go's `select` picks
  at random among ready cases, so a writer that finds the closed channel and the
  done context ready again and again leaves in the end: strong fairness on
  `WriterDone`. Nothing obliges users to call or stop, or the peer to send, read,
  stall, resume or leave. Hooks return or panic. The worker pool takes the
  reader's requests.
* `WsConnection`: the same, and strong fairness on `HeartbeatStop`, whose rendezvous
  is one of the ready cases of the heartbeat's `select` each time it comes back.
* `Server`: the accept loop, `Start`, the workers, handlers and `Server.Stop` keep
  running. Readers that wait for room in a Go channel are served in the order they
  came: strong fairness on `Enqueue`. Clients need not connect or send.
* `Dispatch`: the worker keeps running and handlers return.
* `AsyncWorkers`: a thread that entered a method goes on, a store buffer drains, and the
  connection's worker takes its tasks (`RunCallback`). Nobody need call, operations
  need not end, and the asynchronous workers need not be fair.
* `ShardMap`: threads keep running, callbacks return or panic, and an `RWMutex` does
  not pass over a waiting thread for ever (it keeps new readers out while a writer
  waits): strong fairness per thread. A reader of a shard that a dead reader still holds
  is not promised that (`Broken`): a writer may wait there.
* `Client`: goroutines go on unless they wait on a channel; errors may stay unread.
* `FrameDecoder`, `Codec`, `LogWriter` and `World` are checked for safety only.

## 4. What the code does not keep

The properties hold of the code as it is, so where it falls short they say how
far it goes: a property that has an exception names it, and so shows that there is no
other. These are the places, met while modelling.

1. **Heartbeat and finalizer deadlock** (`connection.go:498`). The finalizer waits on
   `quitChan` with `msgLock` held; the heartbeat goroutine waits for `msgLock` in `Send`.
   The connection never closes. `StopCompletes` names this state and shows that it is
   the only one in which a stopped connection stays, besides a panic of a hook, which
   ends `Start` in its recover (`connection.go:232`) and leaves all as it is; the
   WebSocket connection does not have this deadlock.
2. **A buffered message is lost or overtaken** (`connection.go:337`). Two first users of
   `SendToQueue` or `SendBuffMsg` both create `msgBuffChan`; what was accepted in the
   overwritten one may never be read, or be written after what came later. `AcceptedIsKept`
   and `BufferedInOrder` name it (`Overwritten`).
3. **The callback is lost, or finds no value.** `OnComplete` stores `completeFunc` and then
   reads `hasReturnedObj`, both plainly (`async_op_result.go:43`). When the load overtakes
   the store, as on amd64, it sees no result, and `doComplete` in `SetReturnedObj` sees no
   callback. The comment at line 51 says that the double check rules this out. `NeverLost`
   and `OnceCallback` name the case (`overtook`); without it TLC finds the loss with one
   thread on each side. And `SetReturnedObj` raises the flag before it stores the value
   (line 32): no property promises the value.
4. **Workers are shared in Bind mode, and lost** (`connection.go:257`). A connection leaves the
   manager before it returns its worker, and the next one may get a worker in use,
   although `newMsgHandle` (`msgHandler.go:68`) says that each connection has its own.
   Order per connection is kept all the same. A connection whose `OnConnStop` hook panics
   never returns its worker: `LostToPanicsOnly` says that nothing else does this.
5. **`Server.Stop` never returns** (`server.go:322`). `exitChan` is nil.
6. **Too long frames are not discarded** (`frameDecoder.go:386`). They stay in `d.in`, and
   the frames behind them are lost. The properties of `Codec` end there.
7. **A WebSocket call that comes behind the finalizer** may write to a closed connection
   or send on a closed channel (`ws_connection.go:360`).
8. **The index of the handlers wraps** (`request.go:109`) when handlers and calls of
   Next together exceed 127: handlers run again, or the list is indexed with a
   negative number. An interceptor that proceeds twice dispatches the same request
   twice, and the calls add up.
9. **`Client.Stop`** panics without a connection, with one that has not started, on a
   second call, and when a dial fails later; it hangs when the goroutine it would
   meet waits on another channel (`client.go:188`).
10. **Messages of 2^32 - 8 bytes or more** wrap the bound of a slice
    (`tlvdecoder.go:80`), and a client that calls `Start` twice decodes the value of a
    message again (`client.go:181`).
11. **A callback of `RemoveCb` or `IterCb` that panics** leaves its shard locked
    (`shard_lock_map.go:152`, `:285`): `Returns` excepts the calls that need that shard.
12. **Backups overwrite each other** when two are cut in the same second, and are deleted
    early west of UTC (`write.go:146`, `write.go:200`).
13. **Lines of the log are lost** when they are buffered and `Close` comes between
    (`write.go:213`), when a write fails, since `rotate` ignores the error of `Flush` and
    makes a new writer (`write.go:140`), and when the archive fails as it is closed, since
    `ZipToFile` then returns nil and `rotate` removes the only copy (`write.go:318`).
    `LinesReachDisk` names these.
14. **Moves that overlap a disconnect** leave a player's id in an area without a player;
    whoever is told of it panics (`player.go:309`). At the map's far edge a position has
    no area, and the move panics; beside the map it gets the area of another row, or
    one that truncation makes of it (`aoi.go:122`).
15. **Messages of the game are lost** when a client's channel is full for 5 ms
    (`player.go:354`): its view then differs from the others' without any overlap.
    `ViewsAgree` excepts the pair the message was about.
16. **A frame whose length comes out zero, negative or too short** by a negative
    `LengthAdjustment` makes `Decode` loop for ever or panic (`frameDecoder.go:337`).

## 5. Proofs

All proofs are of safety, for every value of the constants that satisfies the
module's `ASSUME`s. A theorem that needs more says so in its own hypothesis, and
the runs satisfy it.

* **`ConnectionProof`**: `TypeCorrect`, `SendsOnOpenSocket`, `QueueSafe`,
  `DetachedWhenClosed`. None of these is inductive alone: why is the socket open when
  a sender is about to write? Because a sender past its check holds the read lock,
  and the finalizer closes the socket only while it holds the write lock, which it
  got when no reader was left. The inductive invariant `Inv` says so: which phase of
  `Start` goes with which state of `writeLock`, which phases of a sender hold the read
  lock, that the two exclude each other, what the finalizer has done in each phase,
  and which channels can be closed. `Invariance` proves it with one step per action.
  `LifeImplemented` shows that `Connection` implements `ConnLife`; it needs `OnePlace`: a
  message is on the wire, in one writer's hand, in one channel or with its sender, and
  in one of these only, so no second copy can be delivered. `NothingDropped`
  (`AcceptedIsKept`) and `CallersInOrder` (`BufferedInOrder`) are for any number of callers.
  A channel that is not the one in `msgBuffChan` is one that was replaced, so a message in
  it is excepted; the one in `msgBuffChan` has a writer that reads it or will. `InLine` says
  that, while there is one channel, the messages of each caller get larger from the wire
  to the writer's hand and on through the channel.
  For `WsConnection` it has `EarlyCallsAreSafe` and `WsDetachedWhenClosed`. The finalizer's
  turn comes only when nobody holds the read lock, so whoever holds it later came
  later (`LateInTurn`), and nothing is closed before that turn (`ClosedInTurn`).
* **`ServerProof`**: `TypeCorrect`, `LimitHolds`, `WorkersKept`, `RequestsInOrder`,
  `StopIsThorough`. The limit needs that the loop, once past its test, has room for
  one more: removals only make more. `RequestsInOrder` needs that everything of one
  connection is at one worker, the one it was given, that the numbers in its queue
  rise from the one being handled to the last one read, and that nothing of a
  connection is queued before it has a worker. `WorkersKept` (`LostToPanicsOnly`) is part
  of the invariant: a worker leaves the free ones only in `useWorker`, with the connection
  that keeps its number, and that one reaches `freeWorker` or `dead`. `StopIsThorough` needs that a
  connection registered at `Stop` and no longer registered has been stopped, since
  only a stopped connection is finalized. `ServiceImplemented` shows the safety part of
  `OrderedService`: nothing between the last finished request and the last read one is
  skipped, so the one a worker finishes is the next.
* **`AsyncOpProof`**: `TypeCorrect`, `PostedAtMostOnce`, and `CallbackNotLost` for
  any delays. The last one follows the argument of the code as far as it goes: the
  registrar stores and then reads the flag, the setter raises the flag and then reads
  the callback, so the later of the two sees the other, and a pending `test` or `claim`
  carries the obligation until `called` is set; or the read came while the store was
  delayed and found no result, which is what `overtook` remembers. `OnceImplemented` shows the safety part
  of `OnceCallback`, with delayed stores: whoever won the flag still has its result or
  callback to store, so what is given is given once.
  For `AsyncWorkers` it has `OneByOne`. The array is filled under the lock and no entry
  changes again (`Made`), so operations with one index have one worker, the one that was
  looked up with or without the lock (`Calling`). In a queue an operation stands behind
  those it must follow (`Queued`), and an accepted one is never lost (`Accepted`).
* **`DispatchProof`**: `HandlersInOrder`, `AbortHolds`, `AllHandlersRun`, `StepsAreDue`.
  `Position` says where the index is: at the next handler inside `RouterSlicesNext`, at
  the current one inside a handler, or behind the list, and that what is left of the
  call stack cannot carry it past what `Countable` allows. `Shape` says that calls of
  Next and of handlers alternate on the stack, and `Turn` what `next()` will do.
* **`ShardMapProof`**: `ListingsHold`, `ShardStable`. `Listing` splits the keys that were
  there all along into those of shards still to be read and those already seen;
  `Locking` says who holds which lock, which is why a shard stands still under `IterCb`.
* **`ClientProof`**: `SafeStopIsSafe`. A safe moment lasts (`Settled`): no dial is under
  way that could still fail, and the connection has a context to cancel; and nothing
  is closed before the Stop that closes it (`Closing`).
  Its second part is the decoder that `Client.Start` puts in the chain:
  `NothingStaysBehind` (`NothingHeldBack`) and `PackedMessagesArrive` (`MessagesInOrder`).
  Until a frame that is too long has been reached (`LostBefore`), `d.in` followed by the
  bytes on their way is exactly what comes after the last frame returned (`OnTrack`), every frame says its own length (`Whole`), nothing is discarded, and
  `decode` cannot fail: the frame it looks at is one a peer made, whatever the sign of the
  adjustment (`Called`). So what `decode` returns is the next frame, wherever the reads cut
  it. Above that, the
  message packed in a frame is the one `msgs` names (`Paired`), what passed the
  decoders is what was packed up to the first message they cannot split (`Passed`), and
  a reader that ended had reached such a one (`Ended`). All rests on `NumberOfBytes`:
  `Number` takes back the number `Bytes` wrote, in both byte orders. That and the
  facts on `Power`, the chain and the bytes of the frames behind the next one are
  inductions over data. The library's induction theorems take an operator, so
  `SetInduction` is used instead: if the numbers for which a fact fails had a member,
  they would have a least one (`NatLessThanWellFounded`).
* **`WorldProof`**: `AreasDisjoint`, `ListedKnown`, `FoundInArea`, `ViewsMatch`,
  `ArrivalsUnharmed`. Where is a player listed? In no area but one (`Home`: that of
  its position, or the old one while `UpdatePos` has not taken it out), and in none
  between the halves of `UpdatePos` (`Located`); and, as long as it is present and
  has not panicked, in that one indeed (`Placed`). `Known` says who is in the map of
  players and whose ids a thread may still hold. For `ViewsMatch` two players who
  never overlapped (`Apart`: if both are under way, they have met) are compared loop
  by loop (`Pairs`): what one of them has still to send is the difference between
  what they show and what they will show when it is done, so the two views agree
  when it is at rest. This is where `AreasAround` is needed: the areas
  `GetSurroundGrIDsByGID` returns are those that touch, so if one player finds the
  other, the other would find the one. A panic breaks this off, and `ArrivalsAlone`
  is a part of the induction; so does a lost message (`missed`), for the two players it
  was about and for no other pair.
* **`LogWriterProof`**: `LinesInOrder`, `FilesStayBounded`, `BackupsKept`, `LinesKept`. Why
  does the order of names give the order of lines, though names are seconds and
  several files may be cut in one? Because a file is named after the second it was
  created in, and no backup has a later name than the one that the open file will
  get (`Named`); two with the same second overwrite each other, which loses lines and
  leaves the rest in order. `BackupsKept` needs that a file spans at most a day from
  the second it is named after (`Dated`), which is so unless a rename failed, and
  `LinesKept` that a line waits in the buffer no longer than the daemon's period
  (`Fresh`); the faults of the archive and of a write come in as the exits the property
  names. `FilesStayBounded` is for `MaxSize > 1`: a line, which has the length 1, must be
  shorter than a file may be, or it alone makes the file too large. Its invariant
  `SizeInv` says that the writer counts what is in the file unless something failed.

### Only model-checked

Liveness (`StopCompletes`, `WsStopCompletes`, `Finishes`, `Returns`, `SafeStopReturns` and
the liveness part of `OrderedService` and `OnceCallback`), which is out of this
prover's reach. Every other property of the runs is stated by a theorem.

## 6. Not modelled

* The WebSocket accept handlers, which run concurrently and together exceed the
  limit (`server.go:240`): the limit property would be false, and the model of the
  accept loop relies on there being one.
* The pool of size 0 (`client.go:107`), where every request has a goroutine of its own.
* One `HeartbeatChecker` shared by the connections of a client over its restarts
  (`heartbeat.go:134`).
* A full task queue into which a worker's own asynchronous result posts
  (`async_op_result.go:60`).
* gorilla's rule that one goroutine at a time writes to a connection.
* Chat (`Talk`) in the game: it sends and changes nothing.
* `snowflake_uuid.go`: one critical section, called by nothing in zinx.
* TLS, signal handling and sockets beyond their outcome (I/O), configuration and
  command line (constants here), options and interfaces (setters, declarations),
  the format of log lines, protobuf output, the examples under `myStudyDemo` and
  `example`.

What further work would add most: a refinement from `Connection` to the coarse
connection inside `Server`, so that what `Server` assumes of a connection is checked
and not only written down; and the WebSocket upgrade as a second way into `Server`.
