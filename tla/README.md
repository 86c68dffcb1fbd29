# A TLA+ model of the RPC framework

The program is an RPC framework in C++17: a reactor (epoll loop, channels, connections,
buffers), a thread pool, a server that runs Protobuf services in the pool, a client channel
with retries and asynchronous calls, and a registry that clients ask for server addresses.
This directory models it in TLA+, checks the models with TLC on small instances and proves
the most important properties with TLAPS for all instances. Source paths below are relative
to the repository's root; `src/…` there is `src/src/…` in `PROJECT.json`.

## The system

| part | state it keeps | operations | what makes it correct |
|---|---|---|---|
| `RpcChannel` (`src/rpc/rpc_channel.*`, `custom_controller.h`) | `connections_`, `pendingSync_`, `pendingAsync_`, `nextId_`; per call the attempt, its future, the controller | `CallMethod` with its retry loop, `doCall`, `doCallAsync`, `getConnection`, `onRpcResponse`, `removePending`, `close` | a call gets its own result; it is run no more often than its controller allows; nothing pending is left behind; a synchronous call comes back; a closure runs once |
| `EventLoop` (`src/EventLoop.*`) | `pendingFunctors_`, `quit_`, the eventfd, `threadId_`; `channels_` and the epoll set | `loop`, `quit`, `runInLoop`, `queueInLoop`, `doPendingFunctors`; `updateChannel`, `removeChannel` | tasks run once and in order, in the loop's thread; no lost wakeup; every open connection is registered |
| `ThreadPool` (`src/ThreadPool.*`) | `tasks_`, `stop_`, the workers and their condition variable | constructor (worker loop), `enqueue`, destructor | FIFO, no lost notification, the destructor drains the queue and returns |
| `RpcServer` (`src/rpc/rpc_server.*`) | `connections_`, the service registry | accept callback, `onMessage`, `dispatchRequest`, close callback | each request is answered once, with its id, in the loop's thread |
| `TcpConnection`, `Channel`, `Acceptor` | descriptor, event mask, two buffers | `handleRead/Write/Close`, `send`, `shutdown`; `enable…`, `remove` | bytes leave in order, frames are not torn, no event reaches a dead object |
| `Buffer`, `RpcCodec` | bytes and two indices | `append`, `retrieve`, `makeSpace`, `readFd`; `packWithId`, `tryUnpackWithId` | a queue of bytes; what is packed is unpacked |
| `RegistryClient`, `RegistryCenter` | cache with a time to live, a file on disk; the table of services | `getAddresses`, `fetchFromRegistry`, `saveToDisk`, `loadFromDisk`; `registerService`, `unregisterService`, `discover`, the HTTP handlers | every list is one the registry has answered, whole; a stale one is replaced; a lookup ends |
| generated messages, `MathServiceImpl` (`*.pb.*`, `math_service_impl.h`) | fields and has bits | serialise, parse, copy; `CallMethod`, `Add`, `Sub`, the prototypes | the caller gets the result, or an error that names its cause |
| `LoadBalancer` | a 32-bit counter | `select` | every server gets its turn |

How they meet. A call runs in its caller's thread: it asks `RegistryClient` for addresses,
`LoadBalancer` for one of them and `getConnection` for a connection, enters a pending map and
writes the request with `TcpConnection::send`. All responses of all channels are read by one
detached thread that runs the static `clientLoop`; it completes the future or runs the closure.
On the server the loop's thread decodes requests, a pool worker runs the method, and
`runInLoop` takes the response back to the loop's thread, which sends it. Responses therefore
leave in another order than their requests came.

What is hard to test here: responses that are late, reordered, lost or arrive together;
timeouts racing answers; retries of calls that are still being run; two threads opening a
connection at once; wakeups and notifications sent after a lock was released; shutting down
while others work; short writes and reads that cut frames anywhere; messages that serialise to no
bytes; the program dying while it replaces a file. `PROJECT.json` lists these as hazards, each at
its line, with the properties that watch it.

## Modules

| module | what it is |
|---|---|
| `RpcCall` | abstract specification: what a call promises its caller |
| `RpcChannel` | the client channel, its loop thread and, as environment, server and network |
| `EventLoop` | task queue, wakeup and quit of an event loop |
| `ThreadPool` | the pool |
| `RpcServer` | the server: acceptor, channels and connections, epoll, the way of a request through pool and loop |
| `Buffer`, `RpcCodec` | the byte buffer and the frames, as operators |
| `Stream` | one direction of a connection, byte by byte: `send`, `handleWrite`, socket, `handleRead`, decoding; uses `Buffer` and `RpcCodec` |
| `Protobuf` | the generated message classes, as operators |
| `Dispatch` | what client and server make of the messages of a call, with `MathServiceImpl`; uses `Protobuf` |
| `Discovery` | `RegistryCenter`, `RegistryClient` with its cache and its file, `LoadBalancer` |
| `MCRpcChannel`, `MCEventLoop`, `MCThreadPool`, `MCRpcServer`, `MCStream`, `MCDispatch`, `MCDiscovery` | the instances TLC checks, one `.cfg` per run |
| `QueueLemmas` | facts the proofs share: sequences used as queues, how often something is in one, the least element of a set of numbers, division |
| `RpcChannelProofs`, `EventLoopProofs`, `ThreadPoolProofs`, `RpcServerProofs`, `StreamProofs`, `DispatchProofs`, `DiscoveryProofs` | theorems and proofs |

An operator that stands directly before another one with the same parameters and is used
nowhere (`ForgetNothing` before `ErasePending`, `NeverWakes` before `ReadableAfter`, …) is a
deliberately wrong version of it. Put in its place, it makes the property it is listed with in
`PROJECT.json` fail, which shows that the property depends on that piece of code.

### RpcChannel

`pc[c]` is the point at which the thread of call `c` stands: `attempt` (top of the retry loop
or of `doCallAsync`), `lookup` and `open` (the two halves of `getConnection`), `issue` (taking
the id and entering the pending map), `send`, `wait` (`wait_for`), `expired` (timed out,
`removePending` still to come), `returned`. A step is what the thread does between two points
at which others can interfere: the locks, the atomic counter, the socket and the future.
`reply[c]` is the value of the attempt's promise. `io` is the callback that `onRpcResponse`
runs after it has released `pendingMutex_`.

The pending maps are sets of id/call pairs. An id is a natural number; 2^64 ids are not used
up in a run of the program. A message is the call whose arguments it carries or was computed
from, so that `result[c] = d` means that `c` was handed the result of `d`. A response has one
of three kinds: `ok`, `error`, and `empty`, a successful response whose result is empty. That
one serialises to no bytes, and `onRpcResponse` takes the frame for an incomplete one. The result of
a successful response may or may not parse (`Filled`). `doCall` ignores what `ParseFromString`
returns, and so does the asynchronous path: if it fails, the call ends as a success with the
message `Unparsed`. What
matters about `std::shared_ptr` is who still holds a connection (`Alive`); the last holder's
release closes it.

The environment takes a request that was written and runs it, now or much later, in any order,
and answers once. It may break a connection at any time (`Break`); nothing tells the channel,
since client connections have no close callback. `Faults = FALSE` switches off broken
connections, failing lookups and `close()`.

Simplifications: frames are whole (`Stream` is about partial ones); a write to a broken connection is lost (the program does not handle SIGPIPE,
which would end the process); an address that cannot be used fails the attempt (`std::stoi`
would throw on a malformed port); a new connection is always registered with epoll (which holds
only while descriptors are not reused, see `server_reused`; the model allows more responses than
the program may get). `maxRetries` is not negative.

### RpcCall

`status[c]` and `execs[c]`: a call is made, the server may run it up to `Budget(c)` times, and
it ends once with an answer, if the server ran it at all, or with a failure. The refinement
mapping in `RpcChannel` takes `execs` from the server's runs and `status` from `pc`, the
controller's `failed_` and whether a result was delivered (`CallStatus`); `failed_` is never set
between attempts, because `Reset()` follows every failed one.

### EventLoop

`Submitters` are threads other than `LoopThread`, which is inside `loop()`; `Owner` is the
thread that constructed the loop, the one `isInLoopThread()` recognises. The two differ in
`rpc_server_main` (constructed in `main`, run in `loopThread`) and in `getConnection`.
`queueInLoop` is two steps, the push under the lock and the test with the write to the eventfd;
`quit()` likewise. The loop's thread tests `quit_`, polls, reads the eventfd if that was
reported, swaps the queue and runs the batch; a task may queue another (`Follow`).
`runInLoop` called by `Owner` runs the task on the spot (`RunInLoopNow`).
`submitted`, `ran`, `ranBy`, `by` and `quitBy` are history variables. `quit_` is a plain `bool` written by
another thread; the loop calls functions the compiler cannot see through between two tests, so
the model reads it afresh.

### ThreadPool

A critical section of `mutex_` is one step. The condition variable is the set of workers at
`waiting`; `notify_one` takes one out, `notify_all` all, and `SpuriousWakeup` any. The
destructor is three steps: set `stop_`, notify, join. It starts when no thread is inside
`enqueue`, since an object that is being used may not be destroyed. `enqueued`, `started` and
`finished` are history variables. Tasks return; one that throws would end the process.

### RpcServer

The module composes everything that runs in the server's loop thread with the workers of the
pool. It follows the life of a `TcpConnection`: `obj[x]` is `none`, `alive`, `removed` (in
`~TcpConnection`, after `~Channel` and before `~Socket`) or `freed`. A `shared_ptr` to it is held
by `connections`, by the tasks and functors that captured it (`Captured`), and by the loop's
thread while it is inside `messageCallback_`. Whoever drops the last one destroys the object: the
loop's thread (`ReleaseInLoop`, one step) or a worker that destroys the task it has run
(`WorkerDrop`, then `WorkerClose`, with the loop going on in between). `files` is the
process's descriptor table, `epoll` the kernel's registrations and `channels` the keys of
`channels_`; the three disagree, which is what `server_reused` shows. `got[x]` is what client `x`
has received; a response is named by the request it answers.

`loopPc` follows `EventLoop::loop`: `poll`; `dispatch`, events of the poll still to be handled;
`decode`, inside `onMessage`; `afterRead`, where `handleEvent` reads `revents_` again and
`handleWrite` may run; `run`, inside `doPendingFunctors`. After an access to a destroyed
`Channel`, which is undefined, the thread goes on as if nothing had happened or the process is
`crashed`.

Simplifications: frames are read and written whole; `accept4` may return any free descriptor
(Linux returns the lowest), and the events of one poll are handled in any order; a write to a
client that is gone is lost (the program does not handle SIGPIPE, which would end it); the race of
a worker and the loop inside the container `channels_` is not modelled beyond the order of the
steps; service methods return, and all that `dispatchRequest` may answer is one response. The
queue of the pool is a set and wakeups are left out, because `ThreadPool` and `EventLoop` are
about them. A message that serialises to no bytes (`empty`) ends the decoding loop, as in the
code, and frames behind it wait for the next read; `RequestInOnePlace` makes no claim about the
empty message itself, and `RequestIsAnswered` none about what follows it.

### Buffer, RpcCodec, Stream

A buffer is the record of `buffer_`, `readIndex_` and `writeIndex_`; every member function is an
operator on it, with its test and its copy. `Contents` is what the buffer means, a queue of bytes.
A byte has `Base` values, a length `LenSize` bytes and an id `IdSize`; `tryUnpackWithId` has one
case per early return, and the length is read as a signed number. `CodecAssumption` asks that the
longest frame accepted (64 MB) fits the signed length, and states the laws of `Base ^ k` that the
prover does not know; `StreamAssumption` asks that payloads fit into such a frame and that ids do not
run out.

`Stream` lets `write()` take any part of what it is offered that fits into the socket, and
`readv()` return any part of what is there that fits into the buffer and `extrabuf`. `side` is who
sends. A server sends in its loop's thread only (`SendDirect`, `SendBuffered`), and the client at
the other end decodes one frame per read. A client sends from any thread without a lock; as long
as each write takes the whole frame (`SendRequest`), nobody touches `outputBuffer_`. After the
first write that falls short, threads may be in that buffer at once, which is undefined: `torn`
is set and nothing more is claimed. `sent`, `stream` and `eaten` are history variables.

### Protobuf, Dispatch

A serialised message is a sequence of entries (number, wire type, value) instead of bytes. What
the generated classes differ in is kept: the classes of `math_service.proto` (proto2) have has
bits and serialise what was set; those of `rpc_header.proto` (proto3) serialise what differs from
its default, so that a message of defaults has no bytes. A cut message ends in an entry whose tag
is not one. `Parse` keeps what was parsed before it failed, collects unknown fields and checks
UTF-8 as the generated parsers do.

`Dispatch` follows a call through `MakeRequest`, `OnMessage`, `RunTask` (`DispatchRequest` with the
service registry, the prototypes and `MathServiceImpl`), `OnRpcResponse` and `TakeAnswer`; services
are registered before `Start`, as `rpc_server_main` does. A response with a text in `TooLong` is over the
64 MB that `tryUnpackWithId` accepts (`FitsFrame`); `packWithId` sends it all the same. `UserService` stands for services other
than the repository's: its methods return a message without bytes, or throw. `int` overflow in
`Add` and `Sub` is undefined; the compilers in use wrap it. A worker that follows a null pointer
kills the server (`crashed`).

### Discovery

`pc[t]` is where thread `t` stands in `getAddresses`: `fetch`, `save`, `write`, `rename`, `load`,
`store`, then `select` with the list in `addrs[t]`. `cache[c]` is empty when client `c` has no entry
or an expired one; time is `Expire`, at any moment. `client` is chosen at the start: the threads
share a `RegistryClient`, or have one each and meet only in the files of their directory. `file`
maps names to lines and `open[t]` is what the file that `t` has open is called now, since a rename
by another program moves it. The registry is away for an attempt when it does not answer in time;
if it crashes, it comes back with an empty table. Servers may register again at any time (the
program does it once, at its start). A crash of the client's program ends its threads between any
two steps and leaves the files.

The registry answers with the elements of a `std::set` in order (`Ascending`); a file is loaded line
by line without the empty ones (`NonEmpty`). `handed[c]` is a history variable: what `select` has
handed out last in a row from one list, by whichever threads of client `c`, no more than the list is
long.

The model has one service: every service has its own cache entry and its own file, and the counter
of the load balancer is the only thing they share.

## Runs

| run | instance | shows |
|---|---|---|
| `channel` | any two of a call that may be retried once, one that must not be retried, an asynchronous one and one with a foreign controller; one address, two connections, all kinds of responses and faults | `OwnResult`, `ReplyOfThisAttempt`, `RunsWithinBudget`, `NoPendingLeak`, `ControllerAgrees`, `DoneAtMostOnce`, `SyncCallEnds`; the channel implements `RpcCall` |
| `channel_stranded` | two asynchronous calls, nothing fails | **violated**: `DeliveredIsHandled` |
| `channel_dropped` | the same | **violated**: `PendingKeepsConnection` |
| `loop` | `main` constructs, `io` runs, `main` and two workers submit and quit, one task queues another | `QueueOrder`, `NoLostWakeup`; `WakeupReachesLoop` without the poll timeout; `TimeoutReachesAll` with it |
| `pool` | three workers, two producers, four tasks | `StartedInOrder`, `NoLostNotify`, `NobodySleepsThroughStop`, `DrainedWhenDestroyed`, `EnqueuedTaskFinishes`, `DestructorReturns` |
| `server` | two clients, two descriptors; a malformed request, a good one and an empty one | `ResponseReachesItsClient`, `RequestInOnePlace`, `RegistrationIsCurrent`, `LoopLeavesNoDanglingEvent`, `HungUpIsReleased`, `RequestIsAnswered` |
| `server_reused` | two clients, one descriptor | **violated**: `EstablishedIsRegistered` |
| `server_closed` | one client | **violated**: `DestroyedIsNotAccessed` |
| `stream` | three messages of no, one and two bytes, in both directions | `StreamIntact`, `ReceivedAsSent`, `WritesWhilePending`, `OutputDrains`, `RequestsArrive` |
| `dispatch` | two calls with any arguments, names and cuts, any set of services | `AddIsAnswered`, `ErrorNamesTheCause`, `UnheardOnlyIfMute`, `OnlySubCrashes` |
| `dispatch_sub` | one call | **violated**: `SubIsServed` |
| `discovery` | two threads with one client or with one each, two addresses, two faults or changes | `DiskIsWhole`, `CallerGetsRegistered`, `RoundRobinTurns`, `LookupEnds`, `StaleListIsReplaced` |

The type invariants of `RpcServer` and `Stream` are checked too, since descriptors and indices can
get out of range there; they and those of `RpcChannel`, `EventLoop` and `ThreadPool` are proved.

What the violated ones show:

- `channel_stranded`. The server answers two calls; one read brings both responses;
  `onRpcResponse` decodes the first and returns. epoll reports nothing more, so the second
  response stays in the buffer: an asynchronous caller is never called back, a synchronous one
  times out. The server's `onMessage` decodes in a loop.
- `channel_dropped`. Two callers find no connection and open one each. The first publishes its
  own, sends its asynchronous request and returns; the second publishes over it. Nobody holds
  the first connection any more, it is closed, and the first caller's closure never runs.
- `server_reused`. A client hangs up; its `Channel` is destroyed, but its descriptor stays in
  `channels_`, from which nothing removes it. The next client is given the same descriptor;
  `updateChannel` finds it there and modifies a registration that the kernel has already dropped,
  which fails. The new connection is in `connections_` and never gets an event: the client is
  never answered, and the connection is never released. The liveness properties of `server`
  therefore speak of registered connections.
- `server_closed`. At the end of file `readCallback_` ends in the close callback, which destroys
  the `TcpConnection` and the `Channel` inside it; `Channel::handleEvent` goes on to read
  `revents_` from it.
- `dispatch_sub`. `MathServiceImpl` returns the prototypes of `Add` for every method. `CallMethod`
  casts them to the classes of `Sub`, gets null, and the worker that runs `Sub` kills the server.

Some properties that hold say where the program is weak:

- `RunsInLoopThread` (proved, not a run's property) and `TimeoutReachesAll`: in `rpc_server_main` the thread that constructed the
  loop is not the one that runs it. What that thread submits with `runInLoop` is run on the spot,
  beside the loop, although `EventLoop.h:23` promises the I/O thread, and what it queues, and its
  `quit()`, wait for the poll timeout of one second.
- `RegistrationIsCurrent`: when a worker drops the last reference to a connection, `~Channel` calls
  `remove()`, which `Channel.h:33` says takes the `Channel` out of epoll; it only asks for no events.
  Until `~Socket` closes the descriptor epoll holds a pointer to a `Channel` that is gone, and the
  loop's thread may poll. What holds is that such a registration asks for nothing and never
  survives the descriptor.
- `RequestIsAnswered` leaves out what follows an empty request: a request without bytes ends the loop of
  `onMessage`, and complete ones behind it stay in the buffer, although `rpc_server.cpp:35` says that
  all are decoded. No client of this repository sends one.
- `UnheardOnlyIfMute`: a response whose message has no bytes, and an error whose text is not UTF-8
  or too long for a frame, never reach the caller.
- `DiskIsWhole` is about one client: `registry_client.h:44` calls `fileMutex_` global, but it is a member
  of the client, and of two clients in one directory one may rename the temporary file that the other
  has just emptied.
- `ControllerAgrees`: `Failed()` tells whether a response with NO_ERROR came, not whether its result
  could be parsed.

Bounds. Two calls (`MaxCalls`) are enough for a response to be matched wrongly; they may be any two of
the four, or one alone. One retry is enough for an old response to meet a new attempt. Two
connections let both callers open one, or one caller open a second after `close()`; when they are
used up, a caller at `open` can only fail. `SyncCallEnds` says that again and again no synchronous
call is in progress, which is the same as that each ends, since each is made once. In `EventLoop`
two submitters can be between push and wakeup at once while the loop is anywhere, and three tasks allow a batch of several with more queued behind it. In
`ThreadPool` three workers allow one to run, one to be woken and one to sleep while two producers
are between push and notify. In `RpcServer` two clients mean that a descriptor is given to the
second while a worker still answers the first, and that two events are in one poll; accepting may
fail whether descriptors are left or not. In `Stream` the sizes are chosen so that everything that
can happen to a buffer does: frames of three to five bytes, buffers of three bytes that grow, move
or do neither, an `extrabuf` of two, a server's socket (`Room`) of three, so that most writes are
short, and a client's of ten, so that two requests can come in one read; `MaxSends = 3` gives a frame
that is behind another one and before a third. In `Dispatch` integers have two bits (`Width`), which
is enough for a sum to wrap and to be zero. In `Discovery` `MaxChanges = 2` lets the registry be lost
and change, or the program die once before and once after a write; one retry is enough to count.
`index_` has one bit (`Width`) and wraps at every second selection, from lists of one or two; other widths
and lengths are left to the proof. No run uses symmetry; a new connection is
one fixed unused one (`NewConn`), since no definition tells connections apart. Deadlock is checked in every run but those of `Dispatch`, where every call
ends: `Quiescent`, `Stopped`, `Destroyed` and `Idle` are the only ends elsewhere.

Fairness. `RpcChannel`: threads of callers and of `clientLoop` are scheduled, and `wait_for`
ends, since it has a timeout; nothing is assumed of server and network. `EventLoop`: the loop's
thread runs and a thread that has pushed goes on to the wakeup; that `epoll_wait` returns by
itself (1000 ms) is assumed in `TimeoutReachesAll` only, as its hypothesis. `ThreadPool`:
threads that can run do, tasks return, a destructor that has begun goes on; spurious wakeups are
possible and never needed. `RpcServer`: the loop's thread and the workers run and service methods
return; nothing is assumed of clients, and a socket that is full is written to later only if epoll
reports it. `Stream`: the loops at both ends run, so that `handleWrite`, `handleRead` and the
decoding that are possible happen; nobody has to send. `Discovery`: threads inside `getAddresses`
run, strongly fair, since a mutex that comes free again and again is had; cached entries expire,
because time goes by. Nothing is assumed of registry, servers and crashes.

## Proofs

The theorems hold for all values of the constants that satisfy the modules' named assumptions.

`RpcChannelProofs` (from `ChannelAssumption`)

- `TypeCorrect`. `TypeOK` is not inductive: `connections[addr[c]]` and the request's connection
  need `Prepared`, that an attempt past the choice of an address has one and past
  `getConnection` has a connection.
- `ResultIsOwn`: `OwnResult`. The invariant `IdsMatch` says that every id found in a request, a
  response or at a caller about to send was issued, and if it is pending, it is pending for the
  call it was issued to. Frames are handled as sequences over the set `GoodFrames` of responses
  with that property, which grows with every step. `RepliesMatch` carries it through futures and
  callbacks to the result.
- `PendingIsCurrent`: `NoPendingLeak`, and `LateReplyDropped`: `ReplyOfThisAttempt`, by
  `OneAnswerPlace`: an attempt has an entry in `pendingSync_` or a value in its future, never both,
  and neither before it has an id. That is what makes the late answer of an earlier attempt harmless.
- `FailedMeansNoAnswer`: `ControllerAgrees`, by `ControllerClean`: the loop's thread writes to
  controllers of asynchronous calls only, and that of a synchronous call is clean between
  attempts. Failed means that no attempt got a response with NO_ERROR.
- `RunsKeepBudget`: `RunsWithinBudget`. The server may run the request of an attempt long after that
  attempt has timed out, so the invariant `OneRequestPerAttempt` counts what a call has used of its
  budget, runs and requests still under way together, against the attempts it has made.
- `DoneRunsOnce`: `DoneAtMostOnce`, by `OneEnding`: an asynchronous call is not issued yet, or pending,
  or being called back, or over, and each of these excludes the others.
- `ChannelImplementsRpcCall`: the refinement. Initial states map to initial states, and every step maps
  to a step of `RpcCall` or to a stutter; most do the latter. An answer is reported only for a call
  the server ran, which needs `AnswersRan`: no frame, future or callback holds an answer without a run.

`EventLoopProofs` (from `LoopAssumption`)

- `TypeCorrect`; `TasksRunInOrder`: `QueueOrder`, with `BatchDone`, that a batch is finished
  before the next swap.
- `NoWakeupLost`: `NoLostWakeup`, whoever constructed the loop. `isInLoopThread()` lets the
  constructing thread skip the wakeup, so the property is about what other threads queue and
  quit; the history variables `by` and `quitBy` say whose a task is. The invariant `WakeupComing`
  extends it to every point from the swap to the return of `epoll_wait`.
- `RunsElsewhereOnlyForOwner`: `RunsInLoopThread`.

`ThreadPoolProofs` (from `PoolAssumption`: finitely many workers and producers)

- `TypeCorrect`, `TasksStartInOrder`: `StartedInOrder`.
- `NoNotifyLost`: `NoLostNotify`, which counts and is inductive with the types: a push adds a
  task and a notification to come, a notification turns into a worker awake, and a worker goes to
  sleep only when nothing is queued.
- `StopWakesEverybody`: `NobodySleepsThroughStop`; `DestroyedIsDrained`: `DrainedWhenDestroyed`,
  by `ReturnedAfterDrain` (a worker leaves only once nothing is queued, and nothing is after
  that) and `StartedAccounted` (what was started has finished or is being run).

`RpcServerProofs` (from `ServerAssumption`)

- `TypeCorrect`, with `CurIsConn`: the event in progress is that of a connection.
- `ResponsesAreNotMisdelivered`: `ResponseReachesItsClient`. The property says nothing of
  descriptors, and a response goes to whatever the descriptor of its connection refers to at that
  moment, so the invariant `DeliveryInv` has three parts: `OwnsDescriptor` (as long as an object
  exists its descriptor refers to its own connection), `HeldIsAlive` (what a task, a functor, the
  set or the loop's thread holds is not destroyed) and `OwnStreams` (buffers hold only their own
  client's requests and responses). Every send is made through a held connection.
- `RegistrationsFollowDescriptors`: `RegistrationIsCurrent`, with `DescriptorsBack` (an open
  descriptor is the one of the object it refers to) and `WaitingIsNew` (who waits to be accepted has
  no object yet): otherwise accepting could register a descriptor for somebody who is already there.
- `HandlersLeaveNoDanglingEvent`: `LoopLeavesNoDanglingEvent`, an action property. It needs to know
  which objects a step can destroy: `AliveIsHeld` (only one whose last holder lets go in this step),
  `Phases` (functors run when no events are left) and `OneEventPerChannel` (the event of the object
  being handled has been taken out of the batch).
- `RequestsAreNotLostOrDoubled`: `RequestInOnePlace`. Being in one place is not inductive, since two
  copies in one buffer are in one place; `CopyInv` counts the copies of a request in the sockets, buffers,
  tasks, queues and at its client, and every step moves as many as it takes.

`StreamProofs` (from `BufferAssumption`, `CodecAssumption`, `StreamAssumption`)

- `NoByteIsLost`: `StreamIntact`, for all sizes of buffers, frames, socket and `extrabuf`. The lemmas
  show that `Buffer` is a queue: `append` and `readFd` add at the end of `Contents` (`AppendAppends`,
  `ReadFdAppends`), `retrieve` takes from the front (`RetrieveTakesFront`), `makeSpace` changes
  nothing and makes room, by growing or by moving (`MakeSpaceKeeps`), and whatever
  `tryUnpackWithId` does, it leaves a rest of what it found (`UnpackLeavesRest`). The step then only
  regroups the concatenation.
- `WritingIsPending`: `WritesWhilePending`. Both are parts of `StreamInv`, which adds that
  the buffers are in `BufferType` (indices in order and inside the vector) and that a client has
  nothing in `outputBuffer_`: without that `SendRequest` could overtake buffered bytes.
- `FramesAreFound`: `ReceivedAsSent`. `NumberOfBigEndian` shows that `ntohl` gives back what `htonl`
  was given (the quotients of the number by the powers of `Base` are what the loop computes), and
  `UnpackFrame` that `tryUnpackWithId`, on a buffer that begins like a frame, takes exactly that frame
  once it is complete, and nothing before. The invariant `FrameInv` says where frames end in the
  stream (`Boundaries`), that what has been taken ends at such a place, and that what has been
  received are the messages up to there (`GotFirst`).
- `TypeCorrect`: that what is received has its type follows from the same invariant.

`DispatchProofs` (from `DispatchAssumption`: every exception is given a message, since the code
passes on `what()` or a fixed text; the names of services and methods are ASCII, as protoc demands)

- `RoundTrip`: a message of any class parses to itself. It is stated for any class, with or without has
  bits, and any message of it, not for the six of this program, and says in which case it fails:
  a string that is not UTF-8, which `_InternalSerialize` writes and `_InternalParse` refuses, or an end
  that is cut off. The proof follows the fields by number: `FieldsComeBack` says what the parser has
  after the fields up to `n`, and takes the least `n` for which that would be wrong. `FieldsStep` and
  `ParseStep` are the two recursions, one step each; `FailureStays`, that nothing repairs a failure.
- `ErrorIsTheCause`: `ErrorNamesTheCause`; `AddBringsTheSum`: `AddIsAnswered`; `AnswersAreHeard`:
  `UnheardOnlyIfMute`; `ServerSurvives`: `OnlySubCrashes`. None is inductive, since they speak of
  the end of a call. `Conversation` says, for each point a call can be at, what the message under way or
  held there is: the request that was made, the header as the server must see it, a serialised
  member of `Answers(ask[c])`, one of these as the caller has parsed it. That a task is still answered as
  it would have been when it was queued needs that services are registered before the server is
  up only (`SameAnswers`). `DispatchIs` computes `dispatchRequest` case by case on a request that
  has arrived whole, and `AnswersAre` what its answers can be. `DispatchInv` has been checked with TLC
  in the instance of `dispatch` before it was proved.

`DiscoveryProofs` (from `DiscoveryAssumption`)

- `DiskHoldsWholeLists`: `DiskIsWhole`. `SaveInv` says who may have the temporary file open: one thread
  at a time is in `saveToDisk` (`OneSaver`), it saves an answer of the registry (`SavesAnAnswer`), and
  the file is empty when it begins to write and holds its whole list when it is renamed (`TmpIsMine`),
  also after somebody has died there.
- `CallersGetAnsweredLists`: `CallerGetsRegistered`. `HandInv` follows a list from registry, cache or file
  to the caller; it needs that loading gives back what was saved, as addresses are not empty
  (`KeepsAll`), that the registry's answers are lists of addresses (`AscendingInOrder`), and that
  the round robin's place is inside the list.
- `RoundRobinLeavesNobodyOut`: `RoundRobinTurns` for any width of `index_`. `TurnInv` says which places of the list
  the addresses in `handed` come from: the last of them from the place before `index_`, the others each one
  turn earlier, around the wrap of the counter; `ListInv` adds that lists are lists of addresses, so that there
  is a next place. `OneMoreTurn` is the step in which `select` adds to the row. `EveryPlaceOnce` finds the
  selection that handed out a given place, before and after the counter wraps.

The library's induction theorems cannot be used, because the provers do not instantiate their
predicate. Where an induction is needed (`KeepsAll`, `OrderExists`, `NumberOfBigEndian`, `FieldsComeBack`,
the ends of frames) the proof takes the least number that is an exception, from `Least` in `QueueLemmas`, which
follows from the well-foundedness of `<` on the natural numbers, and shows that there is none.
`FrameInv` quantifies over functions; TLC has checked it with the function given explicitly.

Only model-checked: liveness (`SyncCallEnds`, `WakeupReachesLoop`, `TimeoutReachesAll`,
`EnqueuedTaskFinishes`, `DestructorReturns`, `HungUpIsReleased`, `RequestIsAnswered`, `OutputDrains`,
`RequestsArrive`, `LookupEnds`, `StaleListIsReplaced`), since the prover does not handle fairness. Every
invariant and action property that a passing run checks is a theorem. The five runs that expect a
violation are counterexamples and need no proof.

## Not modelled

- `rpc_server_handler.cpp`, `RpcCodec::pack` and `tryUnpack`, `EventLoop::removeChannel`: nothing
  calls them.
- `Socket` and `InetAddress`, which wrap system calls; the two programs and the benchmark, except for
  which threads construct and run their loops and what they register.
- Of the generated code arenas, swapping, reflection and the tables of descriptors; the vendored
  libraries.
- The lifetime of the `RpcChannel` object itself, whose `this` the message callback captures, and a
  client's `outputBuffer_` once two threads are in it.
- What the code simply does not provide for: an asynchronous call has no timeout, a pool of zero
  threads runs nothing, and `std::stoi` throws on a port that is not a number.
- Frames of more than 64 MB, which make a receiver drop its buffer, except that a response of that
  length is not heard (`Dispatch`).
- What is in the file when two clients share it or after a write has failed: the steps are in
  `Discovery`, and it need not be whole; `DiskIsWhole` does not speak of them. Loss of power, against which the code does not
  call `fsync`.
- The project's README (51, 158, 299) says that `RegistryCenter` keeps its table on disk; the code
  does not, and the model follows the code.

## Plan

Done: all of the above. Left, in this order:

1. `RpcChannel` on top of `Discovery`, instead of a lookup that returns any address.
2. The lifetime of an `RpcChannel` that is destroyed while the loop's thread is in its callback.
