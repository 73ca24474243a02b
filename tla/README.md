# Verification of the webserver

TLA+ models of the C++ program in this repository: a reactor-style TCP server
(`webserver/`, after muduo) with its asynchronous logger, memory pool and LFU
cache, and the beginnings of an HTTP library on top of it (`Httpserver/`).
TLC checks the models on small instances, TLAPS proves what matters most for
all values of the constants. `PROJECT.json` lists the runs, the definitions
with the source lines they translate, the mutants, the hazards, the findings
and the theorems; this file explains them.

1. [The system](#1-the-system)
2. [The modules](#2-the-modules)
3. [What the runs check](#3-what-the-runs-check)
4. [What is proved](#4-what-is-proved)
5. [What was found](#5-what-was-found)
6. [What is not modelled](#6-what-is-not-modelled)
7. [The plan](#7-the-plan)

Paths are relative to the repository; `TcpConnection.cc:51` is line 51 of that
file.

## 1. The system

The server is a set of threads that each run one `EventLoop`. The base loop
accepts connections and deals them out to the loops of a pool; each connection
lives in one loop, and everything that touches it is executed there, either
because epoll reported its channel or because another thread queued a functor.

| Component | State | Operations | Talks to |
|---|---|---|---|
| `EventLoop` | `quit_`, `looping_`, `callingPendingFunctors_`, `pendingFunctors_` under `mutex_`, an eventfd, the active channels | `loop`, `quit`, `runInLoop`, `queueInLoop`, `wakeup` | everyone: functors are the messages of the system |
| `Channel`, `EPollPoller` | interest (`events_`), registration (`index_`), `tie_` | `updateChannel`, `removeChannel`, `poll`, `handleEvent` | the kernel; callbacks into the owner of the channel |
| `EventLoopThread`, `Thread`, `EventLoopThreadPool` | `loop_` under a mutex, the thread; `loops_`, `next_` | `startLoop`, `threadFunc`, destructor; `start`, `getNextLoop` | `EventLoop` by `quit` and `join` |
| `Acceptor`, `TcpServer` | `connections_`, callbacks | `start`, `newConnection`, `removeConnection`, destructor | base loop, pool, connections |
| `TcpConnection` | `state_`, `outputBuffer_`, its channel and socket | `send`, `sendFile`, `shutdown`; `connectEstablished`, `connectDestroyed`; `handleRead`, `handleWrite`, `handleClose` | its loop by functors, the server by `closeCallback_`, the user by callbacks |
| `Buffer` | a vector with a reader and a writer index | `append`, `retrieve`, `readFd`, `writeFd` | owned by a connection |
| `TimerQueue`, `Timer` | the timers sorted by expiration, a timerfd | `addTimer`, `handleRead`, `reset` | its loop |
| `AsyncLogging` | current, spare and full buffers under a mutex, `running_` | `append`, `start`, `stop`, `threadFunc` | any thread in front, `LogFile` behind |
| `Logger`, `LogStream`, `FixedBuffer` | a small buffer per line | `<<`, the destructor | any thread in front, `AsyncLogging::append` behind |
| `LogFile`, `FileUtil` | size, day and count of the current file | `append`, `flush`, `rollFile` | the file system |
| `KLfuCache`, `KHashLfuCache` | nodes, a list per frequency, `minFreq_`, the counts | `put`, `get`, `purge` | the user |
| `MemoryPool`, `HashBucket` | blocks, current slot, free list, two mutexes | `allocate`, `deallocate` | any thread |
| `DbConnectionPool` | the queue of free connections under a mutex, a condition variable | `init`, `getConnection` with its deleter, `checkConnections` | its users, the database |
| HTTP library otherwise | sessions, routes, middleware | mostly unfinished | nothing calls it yet |

What is hard in it, and what makes each component correct:

* **Wakeups.** A functor is queued under a mutex, but the decision to write the
  eventfd is made after it is released, from a flag the loop sets and clears.
  A loop must never block in `epoll_wait` with a functor nobody will announce;
  functors must run once, in the order of the queue; `quit` must end the loop.
* **Threads.** A thread publishes its loop to the one that started it and takes
  it back when it ends; the destructor quits the loop and joins the thread.
  Neither may wait for ever, and the object must outlive its thread.
* **Output.** Bytes go to the socket directly or through a buffer, in pieces of
  any size, from functors and from EPOLLOUT. The stream must be the messages in
  order; interest in EPOLLOUT must match the buffer; a shutdown must wait for
  the buffer and must not be forgotten.
* **Lifetime.** A connection is owned by a map in one thread and by functors in
  two; it is closed in its own loop, removed in the base loop and destroyed in
  its own loop again. Nothing may use it after its last owner is gone, it must
  have left epoll by then, and it must get there.
* **Logging.** The front end and the back end pass four buffers around by
  moving pointers. No line may be lost or written twice, no buffer may run out,
  and lines must reach the file without anybody logging again.
* **Buffers.** One vector serves reads that spill into a second piece of memory
  and writes of any size; data moves to the front or the vector grows. No byte
  may be lost, repeated or overtaken.
* **Database connections.** Users take connections and give them back through a
  deleter, one notification each, while a checking thread pings and reconnects
  them. None may be lost or handed out twice, and nobody may sleep beside a free
  connection.
* **Timers.** One timerfd stands for all timers and is re-armed from three
  places, while callbacks add timers in the middle of it.
* **Memory.** The free list is looked at without its mutex and cleared without
  it. Slots must not be handed out twice, lie within their block and not be lost.
* **Cache.** `minFreq_` is a cached value that four operations maintain in
  different ways, and an eviction trusts it without a test.

The list of hazards, each at its line and with the properties that cover it, is
`hazards` in `PROJECT.json`.

## 2. The modules

```
TaskQueue <---implements--- EventLoop <---extends--- EventLoopThread
   ^                                                     ^
   | functor queue as described there                    |
   |                                               EventLoopProofs
   +-- TcpOutput <--- TcpOutputProofs     (the bytes of one connection)
   +-- TcpServer <--- TcpServerProofs     (the lives of all connections)
   +-- TimerQueue <--- TimerQueueProofs   (the timers of one loop)

Buffer <--extends-- Echo <--- EchoProofs             (main.cc)
LogFile, LogStream <--extends-- AsyncLogging <--- AsyncLoggingProofs
DbConnectionPool <--- DbConnectionPoolProofs
MemoryPool, LFU <--- MemoryProofs                     (on their own)
```

`MCx` modules only give values to constants; a `.cfg` file beside them is a run.
Definitions whose names end in the name of a fault (`swap_Copy`,
`NextIndex_OffByOne`) and that are marked `mutant` are used by no
specification: each replaces the definition it is named after, to show that a
property would notice that bug.

**TaskQueue** is what callers of `runInLoop` and `queueInLoop` may rely on: one
first-in first-out queue, each functor executed once. The larger models use the
loop as this queue, swapped into a batch; that is sound because EventLoop
implements it.

**EventLoop** (`EventLoop.cc`). `pc` walks the loop thread through `loop` and
`doPendingFunctors`, one action per statement that other threads can tell
apart. An operation of another thread is two actions where it is not atomic:
`queueInLoop` (the critical section) and `queueInLoopWakes` (the test and the
write), `quit` and `quitWakes`. User code runs in the loop thread at `"start"`
(the init callback), `"ioCallback"` and `"functor"`, and may call all operations
there. The eventfd is one bit; other channels are `"io"`. `fresh`, `early` and
`executed` are history: each functor is handed over once.

**EventLoopThread** (`EventLoopThread.cc`, `Thread.cc`) extends EventLoop: its
steps are steps of the loop and of its callers, allowed while the loop exists,
or leave the loop alone. `owner` walks the starting thread through `startLoop`
(create, semaphore, the wait on `cond_` with its predicate) and the destructor
(the test of `loop_`, `quit`, `join`); `thread` walks the new one through
`threadFunc`. `others` and `lost` are history: whether somebody else has called
`quit`, and whether `loop()` has overwritten the `quit_` of the destructor.

**TcpOutput** (`TcpConnection.cc:48-107`, `:144-221`). One established
connection, its callers in the loop thread and elsewhere. A message is the
sequence of its units, a file only a count. Each of `send`, `sendFile` and
`shutdown` tests `state_` and then acts: one step in the loop, two or three
elsewhere, because another thread can be overtaken there. A write takes any
prefix, or nothing, or fails once the socket is shut or reset. A queued `send`
keeps a pointer to the caller's string: the functor carries the message or
`Stale` units, whichever the freed string reads as. `accepted`, `lost`,
`dropped`, `written`, `told` and `owed` are history: `owed` counts the messages
and files taken since `writeCompleteCallback_` was last queued.

**Buffer** (`Buffer.h`, `Buffer.cc`) has the vector and both indices; each
operation is an operator that returns the buffer after the call. **Echo** is
`main.cc` for one connection on top of it: `handleRead` reads through `readFd`,
`onMessage` takes everything and sends it, `sendInLoop` writes directly or
appends to the output buffer, `handleWrite` empties that. TcpOutput has the
content of the buffer as a sequence; EchoProofs shows that `Readable` of a
Buffer is such a sequence.

**TcpServer** (`TcpServer.cc`, `TcpConnection.cc`, `Channel.cc`,
`EPollPoller.cc`, `EventLoopThreadPool.cc`). Each loop cycles through `"poll"`,
`"events"` and `"functors"`. What keeps a connection alive is computed, not
stored: it is `Owned` if the map, a thread of the user or a functor that binds
a `shared_ptr` holds it, and `Destroyed` otherwise. A functor that binds
`this` (`Raw`) owns nothing. Of the bytes only the effect on the interest of
the channel is left: the server is that of `main.cc`, which sends in the loop what
it reads there (`onMessage`), so that the channel listens to EPOLLOUT at times.
Each user is in one call at a time, over the test of `state_` and the queueing,
and there are any number of users; `MaxQueued` bounds how many equal calls on a
connection may be queued. The end of the server is there as well: connections are
handed to their loops for destruction, pool loops end with what is still queued
in them, the base loop goes last.

**TimerQueue** (`TimerQueue.cc`, `Timer.cc`). Times are relative to now, so
that the clock runs for ever in a finite state space; `left` is the time to an
expiration and saturates at `-Late`. Callbacks are separate steps, during which
timers may be added and time passes. `resetTimerfd` never arms for less than
one unit (100 microseconds) and forgets an expiry not read yet.

**AsyncLogging** with **LogFile** (`log/AsyncLogging.cc`, `log/LogFile.cc`,
`log/FileUtil.cc`). `append` holds the mutex throughout and is one step; the
thread takes the mutex, swaps, writes buffer by buffer and recycles. A
`unique_ptr` is the buffer (its lines) or `Null`. Lines are numbered as they
come and `Accepted` are those that `append` took in, so that `LinesInOrder` can
say that the numbers rise through all places where a line can be. The wait may
end at any time:
by a notification, after three seconds or for no reason. Whatever writes lines
out may fail part of the way (`writeOut`): `fwrite`, which the code looks at, and
`fflush` and `fclose`, which it does not (`FileUtil.cc:36`, `:9`). The lines that
did not get out are lost then, since the FILE keeps none of them, and are in
`failed`. That `fopen` fails is not modelled. `count_`, which no constructor sets, starts with any
value of `CountInit`. A LOG_FATAL line, once appended, may abort the process.
**LogStream** (`Logger.cc`, `LogSteam.cc`, `FixedBuffer.h`) says how long a line
is: a Logger puts pieces of text and numbers between a stamp and a tail into a
small buffer, which is its `size_` here, and what does not fit is left out.

**DbConnectionPool** (`DbConnectionPool.cpp`, of `DbConnection.cpp` the ping and
the reconnection). A critical section is one step; `phase` walks each user from
the lock through the wait, the ping outside of the mutex and the use to the
deleter, and the checking thread copies the queue and then pings the copies one
by one, also those that are with a user by then. On an empty pool that thread
sleeps with the mutex: `Free` is false and nobody else can lock. `ping` says
that a session is lost, or throws: what is no `SQLException` leaves the user's
`getConnection`, and ends the round of the checking thread (`pingThrows`,
`DbConnectionPool.cpp:111-114`). Sessions with
the database are lost one by one or all together, with the server.

**MemoryPool** (`memory/memoryPool.cc`, `memoryPool.h`). Addresses are numbers
and `size_t` wraps at `AddressSpace`. Threads are cut at both mutexes and at
each access to `freeList_` that a mutex does not order; in the race, a second
mention of `freeList_` may see the value of the first or load it again.
A user of a slot overwrites its next pointer (`Garbage`).

**LFU** (`LFU.h`). `put` and `get` hold a mutex from end to end and are steps
(`CacheNext`). `purge` takes none and leaves that to its caller
(`LFU.h:139`): it is a step because the model takes the caller to do so. The
lists are sequences. A decay moves one key after the other to the list of its
new frequency (`Decay`, `DecayLoop`), in the order of a hash map, which is any
(`DecayedLists`). `older` is history: which key was accessed before which, so
that `EvictsLeast` can say that the key not accessed for longest goes first,
until the first decay. `CapacityAssumption` has `maxAverageNum_` from 2 to 250,
which the constructor does not check (`LFU.h:93`):
a decay takes `maxAverageNum_ / 2` off each frequency, which is nothing for 0 and
1, and `updateMinFreq` takes a least frequency of `INT8_MAX` for an empty cache
(`LFU.h:295-304`). The default is 10.

## 3. What the runs check

All bounds are constants of the `.cfg` files or named in the modules
(`NumLines`, `MaxTime`, `MaxConns`, `MaxTotal`, `MaxQueued`, `Late`,
`BlockAddresses`). Each property is broken by a
mutant.

| Run | Instance | States | Checks |
|---|---|---|---|
| `loop_thread` | an EventLoopThread, its owner and another thread, 2 functors | 31 140 | `NoMissedWakeup`, `JoinedBeforeGone`, `ImplementsQueue`, `QueuedIsExecuted`, `StartReturns`, `DestructorReturns` |
| `tcp_output` | loop thread and another, messages of 2 and 1 units, a file of 2 | 281 386 | `StreamIntact`, `WritingIffBuffered`, `ShutdownAfterDrain`, `CompletionTold`, `FileConserved`, `ShutdownCompletes` |
| `echo` | a stream of 7 bytes; buffers of 1 + 2 bytes, an extra one of 2 | 34 317 | `EchoTypeOK`, `EchoInOrder`, `AllEchoed` |
| `server_pool` | 2 connections, 0 to 2 pool loops, `sendFile` by a user thread, the end of the server | 1 927 533 | `NoDanglingChannel`, `DestroyedLeftPoller`, `UpThenDown` |
| `server_live` | 1 connection, 0 or 1 pool loops, `send` and `shutdown` by two user threads | 140 195 | `ClosedIsDestroyed` |
| `timer_queue` | 3 timers, one repeating, delays past, present and to come | 58 744 | `ArmedInTime`, `TimersRun` |
| `async_logging` | 6 lines, one too long for all of its tail and one FATAL; two lines to a buffer, rolling by size and day | 850 198 | `LinesInOrder`, `BuffersSuffice`, `AcceptedIsFlushed` |
| `db_pool` | 4 users, 2 connections | 115 024 | `ConnectionsConserved`, `NobodyWaitsInVain`, `WaitersAreServed`, `IdleConnectionsRecover` |
| `lfu` | 4 keys, capacity 3, average at most 4, total at most 20 | 4 721 | `ListsMatchNodes`, `KickOutFindsKey`, `EvictsLeast` |
| `memory_pool` | 3 threads, objects of 9 or 24 bytes, 2 blocks of 56 | 27 927 | `SlotsUsedOnce`, `SlotsFit` |
| `log_dropped`, `memory_leak` | small | | one violated claim each, see [5](#5-what-was-found) |

Each passing run but `server_live` and `loop_thread` also checks the type
invariant of its module; that of `loop_thread` is proved.

**Why the bounds are enough.** The protocols are between the loop and *some*
other thread; two other threads, one of them the owner, show those that overtake
each other. Two functors are the least that can be in the batch and in the queue
at once. A buffer with a message in it, a partial write and a second message
behind it need two messages, one of them of two units. Seven bytes go through
buffers of two until these have grown, have moved their data to the front and
have started over, with reads that fill the space behind the data, spill or do
neither. Two connections over two loops make the removals of both overlap and
the round robin wrap; with one call of a kind queued on each, a call that was
begun before a close or a destruction is queued after it, which is what matters
of it. With six lines and two lines to a buffer, the front end
fills three buffers while the back end writes, so that the spare buffers are
used up and recycled in every combination of one and two. Two connections and
four users let two users sleep while two others pass through without sleeping
and take what the sleepers were notified of. Frequencies decay from an average
above 4 several times within a total of 20. A block of 56 bytes has room for two
slots of 16 bytes or one of 24 behind its padding, so that blocks are used up
while threads race; 16 divides the address space of 256 and 24 does not, as with
2^64.

**Deadlock** is checked in `db_pool`, `timer_queue` and `lfu`. The other
systems really stop, when all inputs are used up, the thread was joined, the
process aborted or the server is gone, and their runs switch the check off; that
nobody waits in vain in them is what the liveness properties say.

**Fairness.**

* Threads run: weak fairness of the steps of a loop, of an EventLoopThread and
  its owner, of the logging thread and of a thread in the middle of a call. They
  hold no lock while they wait for anything but the mutexes modelled, and
  callbacks of the user return.
* `epoll_wait` returns while the eventfd is readable. Nothing is assumed of its
  ten second timeout, nor of other channels, so that `QueuedIsExecuted` and
  `DestructorReturns` do not rest on them.
* epoll is level-triggered: a condition that holds is reported by some later
  poll. `handleWrite` in TcpOutput (the peer keeps reading) and `ReportsClose`
  in TcpServer are strongly fair because functors alternate with polls.
* In TcpServer a loop told to quit ends: it tests `quit_` in each round, whatever
  else it has to do.
* The logging thread waits three seconds at most.
* Time passes and an armed timerfd fires.
* A user of the connection pool who wants its mutex gets it in the end: strong
  fairness, because the checking thread takes and releases it without end.
  `std::mutex` does not promise that. On an empty pool the checking thread
  unlocks it only to lock it again at once (`DbConnectionPool.cpp:85-92`), and
  without this assumption the deleter of the only connection may wait for ever.
* `ping` does not throw at the same connection for ever: the check of a
  connection that is next in every round gets done some time.

No fairness is assumed of the users: they may never call anything, and need not
give back what they have.

## 4. What is proved

TLAPS proves for all values of the constants, from the named assumptions in the
modules (`ThreadAssumption`, `OwnerAssumption`, `SizeAssumption`, the two
`BufferAssumption`s of Buffer and AsyncLogging, the two `StreamAssumption`s of
LogStream and Echo, the two `PoolAssumption`s of DbConnectionPool and MemoryPool,
`FileAssumption`, `UsersAssumption`, `LoopAssumption`, `TimerAssumption`,
`CapacityAssumption`). Every safety property that a run checks is among them:

| Theorem | Module | States |
|---|---|---|
| `TypeCorrect` | EventLoopProofs | `Spec => []TypeOK` |
| `WakeupsAreNotMissed` | EventLoopProofs | `Spec => []NoMissedWakeup` |
| `QuitsAreNotMissed` | EventLoopProofs | `Spec => []NoMissedQuit` |
| `LoopImplementsQueue` | EventLoopProofs | `Spec => ImplementsQueue` |
| `LoopOfThread` | EventLoopProofs | `ThreadSpec => Spec`, the specification of EventLoop |
| `ThreadWakeupsAreNotMissed`, `ThreadImplementsQueue` | EventLoopProofs | what this gives for the loop of a thread |
| `ThreadTypeCorrect`, `ThreadIsJoined` | EventLoopProofs | `ThreadTypeOK` and `JoinedBeforeGone` |
| `Invariant`, `TypeCorrect` | TcpOutputProofs | the inductive invariant, and `TypeOK` |
| `StreamIsIntact`, `WritingMeansBuffered`, `ShutdownWaits`, `CompletionIsTold` | TcpOutputProofs | the four invariants of the output path |
| `FilesAreConserved` | TcpOutputProofs | `FileConserved` |
| `TypeCorrect` | TcpServerProofs | `TypeOK` |
| `LeftPoller`, `ToldOnce` | TcpServerProofs | `DestroyedLeftPoller` and `UpThenDown`, if `"send"` is not in `ForeignOps` |
| `ChannelsAlive` | TcpServerProofs | `NoDanglingChannel`, if `"send"` is not in `ForeignOps` |
| `TypeCorrect`, `TimersAreArmedInTime` | TimerQueueProofs | `TypeOK` and `ArmedInTime` |
| `ExpiriesAreReal` | TimerQueueProofs | a timerfd that has fired finds an expired timer |
| `TypeCorrect`, `EchoIsInOrder` | EchoProofs | `EchoTypeOK` and `EchoInOrder` |
| `BuffersGrowWhenHalfFull` | EchoProofs | `Spec => GrowsWhenHalfFull` |
| `TypeCorrect`, `BuffersAlwaysSuffice` | AsyncLoggingProofs | `TypeOK` and `BuffersSuffice` |
| `LinesStayInOrder` | AsyncLoggingProofs | `LinesInOrder` |
| `LinesFit` | AsyncLoggingProofs | whatever a statement streams, its line fits into `kSmallBufferSize` |
| `TypeCorrect`, `ConnectionsAreConserved`, `NobodyIsForgotten` | DbConnectionPoolProofs | `TypeOK`, `ConnectionsConserved`, `NobodyWaitsInVain` |
| `TypeCorrect`, `SlotsDoFit`, `SlotsAreUsedOnce` | MemoryProofs | of MemoryPool: `TypeOK`, `SlotsFit`, `SlotsUsedOnce` |
| `CacheTypeCorrect`, `ListsMatch` | MemoryProofs | of LFU: `CacheTypeOK`, `ListsMatchNodes` |
| `KickOutAlwaysFindsKey`, `EvictsTheLeast` | MemoryProofs | of LFU: `KickOutFindsKey`, `EvictsLeast`, for a `maxAverageNum_` from 2 to 250 |

**EventLoop.** `NoMissedWakeup` is not inductive. A functor may sit in the
queue unannounced while the loop is dispatching events, since it will look at
the queue before it polls; one queued by the loop thread while functors run is
announced only because `callingPendingFunctors_` is set from before the swap to
after the last functor. The strengthening says where the flag is set and from
which points on an unannounced functor must not exist, and the proof goes
through the actions one by one. The refinement maps the abstract queue to
`functors \o pendingFunctors_`: the swap moves nothing in it, because the batch
is empty when it happens.

**EventLoopThread.** Every step is a step of EventLoop or leaves its variables
alone, so that its theorems carry over. That the thread is joined needs to know
why a loop ends: unless somebody else called `quit`, only the destructor did, so
that it has found `loop_` set and is on its way to `join`. `Ends` says so.

**TcpOutput.** The four properties of the stream hold only together:
`shutWr` is set when `isWriting()` is false, which says that the buffer is
empty only because interest and buffer agree; a direct write keeps the order
only if nothing waits in the buffer; and that the completion is told needs that
bytes wait in the buffer only while it is owed for something (`BufferOwed`).
Their conjunction with `TypeOK` is
inductive. The lemma `SplitData` says that what a write took and what it left
are the data; the rest is one lemma for each function that runs in the loop.
That the bytes of a file add up needs to know where a file can be (`FileInv`):
with one caller who has not sent anything of it, or in one functor of the queue
that carries what is left, or in none and then it is done or was dropped.
`Kept` says that no other step touches that functor.

**Buffer and Echo.** For any sizes, `append` and `readFd` put their bytes behind
what `Readable` was and `retrieve` takes them from the front (`AppendFacts`,
`ReadFdFacts`, `RetrieveFacts`), with the indices in their order; below them
`MovedFacts` says that moving the data onto itself keeps it, which is where
`kCheapPrepend <= readerIndex_` is used. The invariant of Echo adds that the
input buffer is empty between two reads, and that a write that dropped its bytes
on a reset connection has left nothing behind that could be written after them.
`BuffersGrowWhenHalfFull` bounds memory: a vector grows only when what it has to
hold is at least half of it.

**AsyncLogging.** That `recycle` never takes the `back()` of an empty vector
needs three buffers to be counted at once: the thread's second spare is used up
only when the spare of the front end is missing, which is so only if the front
end has put a full buffer into `buffers_`, and that one is then among those to
recycle. The invariant (`Supply`) ties each missing pointer to the buffer that
replaces it, and says that spares are empty, without which the swap would put old
lines behind new ones. `LinesInOrder` is proved from `Chain`: the file, the
buffers being written, the full ones and the current one each hold rising
numbers, each comes before the next (`Before`), and together they hold
`Accepted \ failed`. A step then moves a line or a buffer over one border of
the chain: `LineAdded`, `BufferFull`, `BufferGiven`; an error takes the last lines
of the file out of it (`LastLost`, `OutKeepsChain`). The length of a line and
of a buffer are recursive functions over its pieces. The prover knows such a
function as a `CHOOSE` only, so `SumExists` shows, by the least number for which it
would fail, that a function with this recursion exists, and `SumsAgree` that any
two agree; `LinesFit` and the types of the lengths follow.

**DbConnectionPool.** `ConnectionsConserved` is inductive with `TypeOK`: a push
adds the connection of one user to the range of the queue and a pop moves the
head out of it (`RangeOfPush`, `RangeOfPop`), and new connections are numbered
beyond all others. `NobodyWaitsInVain` counts: a push that finds sleepers makes
one of them a user on the way to the queue, a pop takes one away from both sides
of the inequality, and whoever goes to sleep has just seen an empty queue. It
needs, besides, that nobody sleeps before `init`, which pushes without a
notification.

**TcpServer.** The heart of `LifeInv` is `Kept`: as long as the channel of a
connection is registered, the connection is in `connections_`, or one of the two
functors that end its life (`removeConnectionInLoop`, `connectDestroyed`) is
queued, or its loop has stopped. This is so only if a connection is never
established after it was destroyed, although both are queued to its loop, the
second by the destructor of a server whose pool has not yet run the first. So the
invariant also says that the queues of a loop, one behind the other, hold at
most one `connectEstablished` per connection and hold it before any
`connectDestroyed` (`QueuesOrdered`), that this connection was told nothing yet
(`Waits`), that functors are queued in the loop they are for (`Queued`), and
that what `poll` reported is about registered channels, one event for each
(`ActiveOK`), which makes a second close impossible. Each step concerns one
connection (`OneConn`) or none (`QuietStep`), except the destruction of the
server, which is proved for a server with one loop and for one with a pool
(`ServerEnds`). The theorems exclude `send` from other threads: it tests the
state before it queues itself, and may register the channel of a connection that
was closed in between. They are proved without it because the code needs that;
`server_pool` checks the instance `{"sendFile"}`. `NoDanglingChannel` is about the channels that a poll
collected only: the functors of `send` and `shutdown` of another thread bind
`this` and may be queued to a connection that is gone, which the model shows and
no property excludes; it runs none of them (`runFunctor`).

**TimerQueue.** That the timerfd is armed for the earliest timer is preserved by
`handleRead` only if one of the timers has expired, because it does not arm it
again otherwise. The invariant therefore also says that the timerfd is never
earlier than the earliest timer. Both are suspended from the read of the timerfd
until the first timer is dealt with. That a set of timers has an earliest one
comes from the order of the naturals (`LeastTime`): times are bounded below.

**MemoryPool.** `SlotsFit` rests on `BlockInv`: the slots of a block are cut
from the front to the back, and only the newest block has room left, from
`curSlot_` to `lastSlot_`; so a new slot lies beyond all others of its block, and a
new block apart from the old ones. `SlotsUsedOnce` is about a list that is read
and cleared without its mutex. `ListInv` does not follow `freeList_`, which may
be stale or cleared at any time. It says instead that the `next` of the slots
makes disjoint chains (`Chains`), that what is in use is in none and in the hands
of one thread (`Owners`), and that the thread with the list mutex and `freeList_`
refer to the first slot of a chain, or `freeList_` to the one behind it or to
nothing (`Heads`).
That the free list then ends, so that no slot is on it twice, is the pigeonhole
principle on the slots (`ListHasEnd`).

**LFU.** `ListsMatch` is inductive with what the map holds (`ListsOk`). Through
a decay the proof follows the loop: after each turn the keys of the turns so far
are in the lists of their new frequencies and the others in those of their old
ones, also where the two are the same list (`TurnKeeps`, `LoopRuns`). That an
eviction finds its key needs `minFreq_` to be the least frequency (`LeastIs`)
and this to stay small, since `updateMinFreq` takes `INT8_MAX` for "none": the
total counts at least the frequencies of all keys (`UnitsOk`, as the cardinality
of a set of pairs), hence the least one is no more than the average
(`LeastBelowAverage`), and a decay takes it back below the limit
(`LeastDecayed`). `EvictsTheLeast` adds that before the first decay each list is
in the order of the last accesses (`Ordered`).

Model-checked only: the liveness properties, since fairness and `ENABLED` are
beyond the prover. Of LogFile the types and the flow of the lines are proved;
when it rolls and flushes is modelled, and has no property of its own but
`AcceptedIsFlushed`.

## 5. What was found

Each of these is a run that TLC finds violated, by what the code does.

* **A log line is dropped whenever a buffer is full** (`log_dropped`,
  `AppendedIsFlushed`). `append` replaces the full buffer and returns without
  writing the line to the new one (`AsyncLogging.cc:25-31`).
* **Freed slots get lost** (`memory_leak`, `FreedIsKept`). `allocateNewBlock`
  clears the free list without its mutex (`memoryPool.cc:72`). In the same race
  `allocate` may dereference the null pointer (`:33`): `crashed` in the model.

Other behaviour of the code that the models have, and that a property
excepts or does not reach:

* of the loop: a functor that the loop thread queues before `loop()` waits for
  the poll timeout (`EventLoop.cc:121`), and a `quit` before `loop()` is
  forgotten (`:63`), after which the destructor of EventLoopThread waits in
  `join` (`lost`);
* of its thread: `startLoop` waits for ever if the loop is made to quit before
  the owner has looked, and the destructor does not join if it has been since
  (`others`);
* of the output: a queued `send` reads the caller's string after the caller
  returned (`TcpConnection.cc:51`); `send` and `shutdown` of another thread bind
  `this` (`:51`, `:100`) and not a `shared_ptr` as `sendFile` does (`:191`), so
  that the functor may outlive its connection, and runs on one that is gone; a
  `shutdown` that follows two
  queued messages may shut the write side between them, because it sets
  `kDisconnecting` at once (`:99`); a file being sent is cut off without a word
  when the connection starts to shut down (`:201`), and goes on trying when it is
  closed instead;
* of the echo: a peer that shuts down its side after sending loses what is still
  in the output buffer (`:136`), and that buffer has no bound but the
  high-water mark that `main.cc` does not use;
* of connections: `shutdown` of another thread can turn `kDisconnected` back to
  `kDisconnecting` (`:98-99`), and a `send` that runs after the close can
  register the channel again, so that a reset reports the connection down twice;
  a connection that is open when the server is destroyed is never reported down
  (`:119-126`);
* of the log: a number or the end of a line that no longer fits into the small
  buffer is left out (`FixedBuffer.h`), so that a long
  line ends without its newline; the line of a LOG_FATAL never gets to the file, because `g_flush`
  flushes stdout only (`Logger.cc:105`); lines appended after the last swap
  before `stop` are never written; a file is rolled once a second at most, however
  large it is; `count_` is initialised by no constructor (`LogFile.h:58`); what
  `fflush` and `fclose` fail to write is lost without a word (`FileUtil.cc:36`,
  `:9`), and a file that cannot be opened is written to through a null pointer (`:4-6`);
* of the pool of connections: `checkConnections` pings and reconnects, without
  the mutex, connections that users may have by then (`DbConnectionPool.cpp:102`),
  and on an empty pool may keep the deleter of a connection from the mutex (`:90`);
* of the cache: after a decay `curTotalNum_` stays as it was (`LFU.h:288`), so
  that the average remains high and each later access decays again; with a
  `maxAverageNum_` of 0 or 1 a decay takes nothing off, and of 251 and more it
  takes too little, to keep the least frequency below the `INT8_MAX` that
  `updateMinFreq` takes for "no key" (`LFU.h:295-304`); the default is 10.

And outside of the models: `EventLoop` never creates its `timerQueue_`
(`EventLoop.cc:40`), so that `runAt`, `runAfter` and `runEvery` dereference a
null pointer; expirations are wall-clock times while the timerfd runs on the
monotonic clock (`TimerQueue.cc:16`), so that setting the clock back stops all
timers; an `EventLoop` may be destroyed between the store to `quit_` and the
write to its eventfd by the thread that calls `quit` (`EventLoop.cc:97-98`); the
stamp of a line is two characters short and loses the seconds (`Logger.cc:88`),
and threads share the `tm` of `localtime` for it (`:72`); `init` of the
connection pool assigns `database_` to itself (`DbConnectionPool.cpp:15`).

## 6. What is not modelled

* `KHashLfuCache`, which spreads keys over caches like LFU: its `get` is declared
  `void` and returns a value (`LFU.h:329-332`), so that no program can call it.
* The rest of the HTTP library: `HttpContext.cpp:29-31`, `Session.cpp:6` and
  `SessionManager.cpp:22` use names that are not declared, `HttpServer.h`
  declares no server, and nothing calls any of it. The router and the middleware
  are tables that nothing fills.
* Queries of `DbConnection`; that file does not compile as it is (`:23`, `:35`),
  and the pool is modelled as it uses it.
* Destructors of AsyncLogging, TimerQueue and MemoryPool; objects of more than
  512 bytes, which bypass the pools.
* Texts and times (`Timestamp`, `InetAddress`, the formatting in `Logger` and
  `LogStream`), socket options, file names: conversions without state. Of log
  lines the lengths are modelled.
* The wiring in `main.cc`; its callbacks are in Echo.

## 7. The plan

What would come next:

1. That TcpOutput with its buffer as a sequence is implemented by the same
   module over Buffer, by the lemmas of EchoProofs.
2. An abstract log, a queue whose lines are stored or lost, with AsyncLogging
   shown to implement it, from the chain of AsyncLoggingProofs.
3. HttpContext and the sessions, once they compile.

Runs stay few: a new component joins the run of the one it composes with, and a
new property takes the place of a weaker one.
