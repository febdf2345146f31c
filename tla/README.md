# Verification of mymuduo

mymuduo is a C++ network library in the style of muduo: a reactor (`EventLoop`,
`Channel`, `EpollPoller`) per thread, a pool of such threads, and a TCP server
on top. This directory holds TLA+ models of it, TLC runs that check them on
small instances, and TLAPS proofs. Paths below are relative to the repository.

## 1. Inventory

| Component | State | Operations | Works with |
|---|---|---|---|
| `EventLoop` | `quit_`, `PendingFunctors_` (under `mutex_`), `callingPendingFunctors_`, `activeChannels_`, the eventfd `wakeFd_` | `loop`, `quit`, `runInLoop`, `queueInLoop`, `wakeup`, `doPendingFunctors` | any thread calls `quit`, `runInLoop`, `queueInLoop`; the owner calls the poller, channels and functors |
| `Channel` | `events_`, `revents_`, `index_`, `tie_` | `enable*`, `disable*`, `remove`, `handleEvent` | calls the poller through its loop, and the callbacks of its owner |
| `EpollPoller`/`Poller` | `channels_` (fd to `Channel*`), the kernel's epoll set, `events_` | `poll`, `updateChannel`, `removeChannel`, `hasChannel` | the kernel holds `Channel*` as user data |
| `TcpServer` | `connections_`, `nextConnId_`, the pool's `next_` | `newConnection`, `removeConnection(InLoop)`, `~TcpServer` | base loop; hands connections to subloops by functors |
| `TcpConnection` | `state_` (atomic), `channel_`, both buffers, callbacks | `connectEstablished`, `handleRead/Write/Close/Error`, `send`, `shutdown`, `connectDestoryed` | runs in its io loop; `send` and `shutdown` come from any thread; lives by `shared_ptr` |
| `Buffer` | the vector, `readerIndex_`, `writeIndex_` | `append`, `retrieve*`, `makespace`, `readFd`, `writeFd` | one thread |
| `EventLoopThreadPool`, `EventLoopThread`, `Thread` | `loops_`, `next_`; `loop_` under `mutex_`/`cond_`; `tid_` behind a semaphore | `start`, `startLoop`, `threadFunc`, destructors, `getNextLoop` | the owner and the started thread |
| `Acceptor`, `Socket` | the listening channel; the kernel's backlog; descriptors | `listen`, `handleRead` (with and without a free descriptor), `~Acceptor`; `~Socket` closes | base loop; calls `newConnection` |
| `Logger`, `Timestamp`, `InetAddress`, `CurrentThread`, `DefaultPoller`, `nocopyable` | none that a decision depends on | | |

What is hard here: every loop is filled by other threads while it sleeps in
epoll_wait; a connection's end crosses three queues (its io loop, the base
loop, the io loop again) while users call `shutdown()`; raw pointers (`this` in
functors, `Channel*` in the kernel) live next to `shared_ptr`s; `state_` is
tested and set in two steps by other threads; a `write` may take part of the
data; threads are started and stopped by hand-made handshakes. What makes each
component correct is in the list of properties below; the `hazards` of
`PROJECT.json` give the line for each.

## 2. Modules

    TaskQueue       <--refined by--  EventLoop     EventLoop_proofs
    Channel         <--used by--     EpollPoller   EpollPoller_proofs
    ConnectionLife  <--refined by--  TcpServer     TcpServer_proofs
    Channel         <--used by--     TcpServer     (Acceptor, functor queues of all
                                                    loops, pool, life of connections)
    Channel         <--used by--     TcpConnection TcpConnection_proofs
    ByteStream      <--refined by--  TcpConnection (output path of one connection)
    Buffer                                         Buffer_proofs
    EventLoopThreadPool                            EventLoopThreadPool_proofs
                                                   (start and stop of the pool's threads)
    QueueLemmas                                    (facts about sequences for the proofs)

`MC*.tla` instantiate them for TLC. Operators named `Mut...` are deliberately
wrong variants of the definition below them. They are not part of any
specification; each property is checked to fail when one is put in place of
the real definition.

**TaskQueue**: what an `EventLoop` promises. A functor runs at most once, in
queue order, and eventually unless the loop stops.

**EventLoop** (`src/Eventloop.cpp`): the owner's `pc` follows `loop()` line by
line (`check`, `poll`, `handle`, `io`, `run`, `body`); other threads are in a
call of `queueInLoop` or `quit` between the change of the shared state and
`wakeup()` (`wakes`). The eventfd is a Boolean (its counter is only tested for
zero). `QueuesBeforeLoop` says whether the owner may queue before `loop()`.

**Channel** has operators on a record of `events_` and `index_`, which the
modules that have channels share, and the dispatch rules of
`handleEventWithGuard`. **EpollPoller** is the poller with several `Channel`
objects over a set of descriptors that `close` returns to the kernel, the map
`channels_`, the kernel's epoll set and `activeChannels_`. `phase` tells the
handling of events from the running of functors: a `TcpConnection` is only
destroyed in the latter, since `connectDestoryed` is always queued and holds
the connection.

**ConnectionLife** is what a `TcpServer` promises of each connection: it waits,
is accepted, comes up, goes down and is freed; the user hears of the last two
steps once and in order; as long as the server serves, a connection whose peer
has ended gets to the end; only a server that stops may free one silently. It
knows neither loops nor functors nor pointers.

**TcpServer** composes `Acceptor`, `TcpServer`, `TcpConnection` without its
output buffer, `Channel`, the round robin of the pool and the functor queue of
each loop. A loop's thread is handling events (`io`), running functors (`run`), past
`loop()` (`exited`) or past the destruction of its `EventLoop` (`gone`); while
it is inside a user callback, `frame` holds what the rest of the handler will
do. Who holds a `shared_ptr` is `Referenced`: the map, frames on the stack,
functors in a queue or in the local vector of `doPendingFunctors` (`held`,
which keeps all of them until that function returns), and users. A connection
nobody references is freed, and its descriptor with it. `arrived` counts the
clients in the backlog of the listening socket, `maxFds` is the number of
descriptors the process has for connections: when all are taken,
`Acceptor::handleRead` finds `accept` failing (`AcceptFails`) and is called again at
once. `shutdown()` is three steps (test, set, queue), `send()` of another thread
two (test, queue); the functors of both are bound to a raw `this`.
`Life` maps all this to `ConnectionLife`.
Wake-ups are not modelled here, since `EventLoop` shows that a queued functor
gets its loop out of epoll_wait. Events are handled one at a time, not in the
rounds of `EpollPoller`; that allows all the orders a round has, and more.
What `sendInLoop` writes is in `TcpConnection`; here neither `writeCallback_` nor
`highWaterMarkCallback_` is set, so that it queues no functor and leaves the
channel's mask alone.

**TcpConnection** is the other half: the output path of one connection between
`connectEstablished` and `handleClose`. One report of epoll is handled in the
order close, read, write (`revents` is what is left of it), so that `handleWrite`
can meet a connection that `handleRead` has just closed. A write takes any
number of bytes or none; after a FIN or a reset it fails. Bytes carry their
sender and their number, so the order on the wire can be compared with the
order of `send()`. `closed` records that `handleClose` has run: `state_` does not
say so once a racing `shutdown()` has overwritten it. The functor queue stands
for `PendingFunctors_` and the local vector together: functors run in queue
order and never between the callbacks of one report. A user thread may have
any number of sends in the queue. What such a functor finds at the address that
`send()` kept is chosen when it runs (`Found`): the message, or anything if the
caller's string is gone. `Reports` is what epoll says of a socket; once both ends are
closed that includes HUP. The output buffer is the
sequence of its readable bytes; `Buffer` says when the real one is that.

**ByteStream** is what that path promises to those who send: what it accepts is
one stream, with the bytes of each thread in their order; the kernel takes the
stream from its front, without a gap or a repetition; the FIN comes when all
that was accepted has been taken, and nothing more is accepted then; as long as
bytes wait, more are taken or the connection ends. It knows neither a
buffer nor a mask nor a functor. `TcpConnection` implements it with
`wire \o outputBuffer_` as the stream; what the finding of `conn_remainder` drops
was never accepted. A `send` of another thread may be behind a `shutdown()` in the
queue and run after the FIN (section 3). `KeepsStream`, the safety part of `ByteStream`
checked and proved with user threads, says what becomes of it: its write fails, and
nothing is added to the stream of a connection that has not ended. One
that runs after the close may still be accepted, which `ByteStream` allows.

**Buffer** keeps the vector cell by cell and both indexes. A write past the end
of the vector is undefined behaviour: `overrun` is set and the behaviour ends.
`readFd` gives `readv` a first area of `writeIndex_` bytes and then moves the indexes as if
it had been the writable ones. If it is larger, a long read overruns the vector;
if it is smaller, what a read has beyond it is left in `extrabuf` or appended
too far behind. `misplaced` has the numbers of those bytes. With the real sizes that
happens to any read of more than 8 bytes into a fresh buffer. `Fifo` does not say that
`readFd` is right about them: `ReadFdKeepsBytes` does, and fails (section 3).

**EventLoopThreadPool** has the owner's and the threads' places line by line,
including the mutex, the condition variable (which may wake up for no reason),
the semaphore of `Thread::start`, the unlocked read of `loop_` in the
destructor, and the part of `EventLoop` that decides when `loop()` returns.

## 3. Runs

Passing runs:

| Run | Instance | Shows |
|---|---|---|
| `eventloop` | 2 callers, 3 functors | types, `NoLostWakeup`, refinement of `TaskQueue` with its liveness, `QuitStopsLoop` |
| `epoll` | 3 channels, 2 descriptors, list of 1 | `NoFatal`, `KernelMirrors`, `MapMirrors`, `NoDangling`, `ListBounded` |
| `tcpserver_safety` | 0 to 2 subloops, 2 connections, 1 or 2 descriptors, 1 user thread that keeps connection 1, sends and shuts down, `shutdown()` from callbacks, `~TcpServer` | `TypeOK`, `CallbackOrder`, `PollerClean`, `FreedWentDown`, `DestroyedOnce`, `RoundRobin` |
| `tcpserver_live` | 0 or 1 subloop, 2 connections, 1 or 2 descriptors, `~TcpServer`, no user thread | refinement of `ConnectionLife` with its liveness, `WaitingAccepted`, `DestructionEnds`, `CallbackShutdownSafe`, `DisconnectedIsFinal` |
| `conn_loop` | the loop's thread, messages of 1 to 3 bytes, 5 bytes, mark 2 | `TypeOK`, `WritingIffBuffered`, `NothingAfterClose`, refinement of `ByteStream` with its liveness, `ShutdownEnds`, `EndCloses` |
| `conn_users` | the loop's thread and one more, messages of 1 or 2 bytes, 2 bytes each, mark 2 | `WireInOrder`, `FinAfterData`, `KeepsStream`, with up to two sends of a thread in the queue, also behind its `shutdown()` |
| `buffer` | prepend 1, initial size 5, extra area 10, reads of up to 11 bytes, 12 in all | `TypeOK`, `Fifo` (every byte but those of `misplaced` in its place), `CountRight`, `MakespaceMakesRoom` |
| `threadpool` | 2 threads, which may quit by themselves | handshakes of start and stop |

Bounds. Two callers and three functors are enough for one in the queue, one in
the local vector and one on its way. Two descriptors and three channels are
the least with reuse while another channel is alive; an initial list of 1
makes it double. Two connections over two subloops show an uneven round robin,
and are enough for one being removed while another is destroyed; one descriptor
for two connections makes the second wait for the end of the first. The user
thread keeps only connection 1 (`Kept`), while connection 2 lives beside it;
a connection has one cross-thread `send` waiting at a time, since a second is
no different from the first for the life of the connection. The proofs are for
any numbers of all but that one. The number of
subloops is chosen in the initial state, as `setThreadNum` does before
`start()`; 0 is the case in which `runInLoop` is a direct call.
A message of three bytes over a mark of two can be taken not at all, in part
with the rest above the mark, in part with the rest below it, or whole. With
a user thread the mark of two lets a message be appended behind a byte that a
partial write has left, and two one-byte messages of the thread stand in the queue
together. The sizes of `Buffer` are small, with room to move bytes in and to
grow. Both values of `iovcnt` happen, and reads that end in either area, whose first area is
smaller than, equal to or larger than the writable bytes, with and without
unread bytes before them. All counters that
could grow without end are bounded by `MaxConns`, `MaxBytes`, `MaxLen`, and the
functors each being handed over once.

Most runs have `CHECK_DEADLOCK FALSE`, because the systems really stop: all
functors handed over and the loop left, all connections used up, the server
destroyed.

Runs that find the code disagreeing with its comments (`findings` in
`PROJECT.json` quotes each line):

| Run | Finding |
|---|---|
| `eventloop_quit_early` | `quit()` before `loop()` is lost |
| `tcpserver_raw_this` | `shutdownInLoop` on a freed connection |
| `conn_remainder` | what the kernel did not take is dropped below the high water mark |
| `buffer_overrun` | `append` past the end of the vector |

The models also have the following behaviours, which a reader of the code should
know of. The property that fails is in the module; no run is kept for it.

| Property | Fails with | Because |
|---|---|---|
| `EventLoop!NoLostWakeup` | `QueuesBeforeLoop = TRUE` | a functor queued by the owner before `loop()` wakes nobody |
| `EventLoopThreadPool!DestructorReturns` | `DestroysEarly = TRUE` | a pool destroyed before its threads loop loses its `quit()` and hangs in `join()` |
| `EventLoopThreadPool!WakeupFindsLoop` | any pool | `quit()` sets `quit_` and then calls `wakeup()` of the same object; its thread may have left `loop()` and destroyed the `EventLoop` in between |
| `TcpServer!DisconnectedIsFinal` | one user thread | `shutdown()` tests `state_` and sets it in two steps; `handleClose` between them is overwritten |
| `TcpConnection!NoWriteAfterFin` | one user thread | a `send` queued behind `shutdown()` is carried out after the FIN, against the comment at line 172 of `TcpConnection.cpp`: line 173 only tests `kDisconnected` |
| `TcpConnection!NothingAfterClose` | one user thread | as above; a queued `send` then finds `kDisconnecting`, writes, and with a high water callback puts the closed channel back into the epoll set, which closes it a second time |
| `TcpConnection!OnlySentBytes` | one user thread | a cross-thread `send` keeps a pointer into the caller's string |
| `TcpConnection!WriteCompleteTold` | `writeCallback_` set | `handleWrite` queues a functor that selects `writeCallback_` and does not call it |
| `Buffer!ReadFdKeepsBytes` | `readFd` | the first area is given `writeIndex_` bytes instead of the writable ones, and what did not fit stays in `extrabuf` |

## 4. Fairness

- `EventLoop`: weak fairness of the owner while it is not blocked and of a thread
  inside `queueInLoop`/`quit` (threads are scheduled; callbacks return).
  epoll_wait is only assumed to return when the eventfd is readable: neither
  its 10 s timeout nor traffic is relied on.
- `TcpServer`: weak fairness of every thread inside a handler, functor,
  destructor or call (`Start`, `LoopStep`, `DestroyConnection`, `DestroyThread`,
  `DestroyAcceptor`, `ShutdownSet`, `SendQueue`...); strong fairness of the
  running of functors, of the close event and of `NewConnection`, because every iteration of `loop()` handles what epoll (level
  triggered) reports and then runs the functors, so neither can be put off for
  ever by the other. Nothing is assumed of peers, users or `quit()`.
- `TcpConnection`: the same, and a peer that stays open keeps reading, so that
  a reported OUT is in the end followed by a write that takes something; a
  read of a closed connection in the end returns 0.
- `EventLoopThreadPool`: every thread runs; a thread that waits for a mutex gets it
  in the end (strong fairness); spurious wakeups are not relied on.

## 5. Proofs

All are for every value of the constants that satisfies the modules' `ASSUME`s.

- `EventLoop_proofs`: `TypeCorrect` is inductive once it says when the flag
  `callingPendingFunctors_` is up. `WakeupSafe` needs more: that nobody is
  blocked without a wakeup on its way follows from an invariant over all places
  of the owner from which it can reach epoll_wait without looking at the queue
  again. A functor queued there by the owner itself must have seen the flag up
  (so the owner will write the eventfd), one queued by another thread is
  followed by that thread's write, and the eventfd is only drained before
  the swap. The theorem assumes `~QueuesBeforeLoop`: otherwise it is false
  (section 3). `RefinesTaskQueue` maps `batch \o PendingFunctors_`
  to the abstract queue, step by step.
- `EpollPoller_proofs`: one inductive invariant `IInv` (types, both mirrors,
  an existing object behind every active pointer and the bound of the list)
  gives `TypeCorrect`, `NeverFatal`, `KernelAgrees`, `MapAgrees`, `PointersValid`
  and `ListStaysBounded`. `NoFatal` alone is not inductive: that ADD is only called
  for an absent descriptor follows from the mirrors.
- `TcpServer_proofs`: for any number of subloops, connections, descriptors and
  user threads, with destruction at any time. No single property is inductive,
  since a connection's end is spread over three queues. `IInv` has four parts.
  `TypeOK`; `Running` (a loop that is over was asked to quit, and `held` has the
  connections of the local vector); `Ordered` (in a loop's functors, local
  vector first, one that holds a `shared_ptr` stands once, and
  `connectEstablished` before `connectDestoryed`); `Core`, which says of each
  connection how `state_`, the channel, the map, the log and the places of its
  functors determine each other: `States`, `Establishing`, `Closing` and
  `Removal` are its stages. From it follow `CallbacksInOrder`,
  `NothingLeftInPoller`, `NoSilentEnd` and `HandedOverOnce`.
  `RefinesConnectionLife` maps every step: `StepKinds` sorts the actions into
  those that speak to the user, those that only move references and those
  outside, and `FreedForGood` says that a freed connection stays so.
  Two theorems assume `Users = {}`, and are false otherwise (section 3):
  `DownForGood`, from `Tested` (nothing happens to a connection between the test and
  the assignment of a `shutdown()` in its own callback), and
  `CallbackShutdownKeeps`, from `Guarded` (before `quit()` of the base loop, every
  raw functor stands before the `connectDestoryed` of its connection, whose
  `shared_ptr` keeps it, or its connection is in the map).
  `NothingLeaks` says that the server leaves nothing behind (`AllReleased`): when the
  base `EventLoop` goes, the pool's threads are over and every connection has been
  freed, also one whose functors a subloop dropped. `Order` has the order of the end
  (the pool's threads are told to quit when the base loop, the map and the users are
  done; the base loop goes when they are over), and `GoneEmpty` says that
  nobody hands a connection to a loop that is gone.
  `EvenDistribution` counts: `RoundRobin` alone is not inductive, since it does not say
  which loops are one ahead. `Spread` says that they are those below `next_`
  (`Ahead`), so that `newConnection` adds to a loop that is not.
- `TcpConnection_proofs`: for any user threads, marks and message sizes.
  `TypeCorrect`, `WritingAgrees` and `FinIsLast` need to know that a report is
  only handled of a registered channel and that the end always comes with IN
  (`ReportFits`), and what mask an unregistered channel has (`ChannelUsed`).
  `ClosedForGood` assumes `Users = {}`: then `state_` tells whether the close has
  happened (`StateTold`); with a user thread it is false (section 3).
  `BytesInOrder` follows a message from `send()` to the wire. `WireInOrder` speaks of
  the last stage only; `OnTheWay` (that is, `PathOk`) says of the stages together,
  in the order queue, buffer, wire, that what is further on has smaller numbers
  than what is behind it: each thread's queued messages, the one it is about to
  queue and the numbers it has not given out yet. Each step moves bytes
  along that path or cuts some out (`Extends`, `Carries`), which keeps the order.
  A thread may have any number of sends in the queue, and their strings may be gone.
  `RefinesByteStream` (`KeepsStream`) maps every step to one of `ByteStream` or a
  stutter, for any users: a write in `send` to `Accept`, `handleWrite` to `Deliver` (with the FIN when it
  empties the buffer of a connection that is shutting down), `shutdownInLoop`
  to `Finish`, `handleClose` to `End`. It rests on `FinIsLast`, `WritingAgrees` and
  `OnTheWay`.
- `Buffer_proofs`: for any sizes of the vector, the prepend and the second area.
  `IInv` compares the readable cells one by one with what was put in, but for the
  bytes in `misplaced` (`Holds`); `TypeCorrect`, `BufferIsFifo`, `CountsRight` and
  `MakespaceRight` follow. They speak of behaviours without an overrun, as the
  properties do. `BufferIsFifo` is no claim that `readFd` is right: it says that
  appends, moves, growth, resets and the reads whose first area is at least the writable
  bytes keep every byte in its place, and that the other reads spoil only their
  own bytes.
- `EventLoopThreadPool_proofs`: for any number of threads. `Together` says in
  which places the owner and thread k can be at the same time; `TypeCorrect`,
  `TidsKnown`, `LoopsAlive` and `ThreadsJoined` follow. That `join()` has really
  waited is inductive only with `quit_` being set by the owner or by the thread
  itself alone. `NotificationSafe` and `QuitSafe` are what the liveness of the handshakes
  (`StartReturns`, `DestructorReturns`) rests on and a proof can reach: an owner that
  waits in `startLoop()` has been notified or has a thread on its way to
  notify; an owner that waits in `join()` has told the loop to leave, and a loop
  in epoll_wait has been woken. The second assumes `~DestroysEarly` (section 3).
  `QuitSetInLoop` is the half that is true of the promise that the destructor's
  `quit()` finds the `EventLoop` (section 3 has the other).
- `QueueLemmas`: what `Append`, `Tail` and concatenation do to the members and
  positions of a sequence, and how concatenations regroup.

Left to TLC: liveness under fairness and anything with ENABLED, which are out of
the prover's reach. These are `QuitStopsLoop`, `DestructionEnds`, `WaitingAccepted`,
`ShutdownEnds`, `EndCloses`, `StartReturns`, `DestructorReturns` and the fairness
of `TaskQueue`, `ConnectionLife` and `ByteStream`, whose safety parts are proved. Every
invariant and every action property of the passing runs is a theorem.

`AllReleased` and `QuitSetFindsLoop` are stated in the modules and proved, and are in no
run of their own; TLC finds them true on the instances of `tcpserver_safety` and
`threadpool`.

## 6. Assumed and not modelled

- The server is destroyed in the base loop's thread after `loop()` has returned,
  and other threads have dropped their connections by then (the order of
  `example/testserver.cc`'s `main`).
- Descriptors run out for connections only: the sockets, eventfds and epoll
  descriptors made at start exist, so their LOG_FATAL paths are not taken. SIGPIPE is ignored by the application (the library does not do it).
- A callback that was not set is not called where the code does not test it;
  with no subloops a thread init callback is set.
- `quit()`'s write to the eventfd of a loop that is gone has no effect.
- A peer that shuts down only its write side is closed at once and what waits
  for it in `outputBuffer_` is dropped (`handleRead`, n = 0); the properties
  about draining and FIN exclude a closed connection.
- A functor run on a freed connection ends the behaviour. With a user thread, or
  with `shutdown()` from a callback while `~TcpServer` runs, this happens
  (`tcpserver_raw_this`); `DestructionEnds` excludes it.
- A subloop whose own code calls `quit()` may be past its loop when the
  destructor looks, which then detaches its thread; `PoolHasLoops` and
  `JoinedWhenDestroyed` exclude such a loop (`selfQuit`).
- The server is started in the base loop's thread. `start()` from another
  thread would queue `Acceptor::listen` with a raw pointer.
- Not modelled: formatting, logging, addresses, time stamps, thread ids and
  names (no decision depends on them); the choice of a null poller by
  `MUDUO_USE_POLL`; the sequence of system calls that makes the listening socket.

## 7. Plan

Done: EventLoop with TaskQueue; Channel and EpollPoller; TcpServer with the
Acceptor, `send()` of other threads and ConnectionLife; TcpConnection with
ByteStream; Buffer; EventLoopThreadPool; an inductive invariant of each of the
six, proofs of all invariants and action properties of the runs, of the safety
part of the three refinements, and of the end of the server (`AllReleased`).

Next, in this order:

1. The safety half of `WaitingAccepted`: a client that waits is behind an accept
   that is still enabled, or every descriptor is a living connection's.
2. A server that is destroyed while its base loop goes on: the raw `TcpServer*`
   of `removeConnection` and the raw `Acceptor*` of `start()`.
