------------------------------ MODULE TcpServer ------------------------------
(***************************************************************************)
(* The life of the connections of a TcpServer: the Acceptor in the base    *)
(* loop accepts them while the process has descriptors, the server owns    *)
(* the map connections_, their events and functors run in the loops of the *)
(* thread pool, shared_ptrs decide when they are freed.  Composes          *)
(* TcpServer, Acceptor, TcpConnection (all but its output buffer),         *)
(* Channel, the thread pool's round robin and the functor queues of the    *)
(* EventLoops.                                                             *)
(* That a queued functor wakes its loop is EventLoop's subject, and that a *)
(* registered channel is in the epoll set is EpollPoller's.                *)
(***************************************************************************)
EXTENDS Channel, Naturals, Sequences, FiniteSets

CONSTANTS
  MaxThreads,        \* bound: subloops of the pool
  MaxConns,          \* bound: connections accepted in a behaviour
  Users,             \* threads, not of loops, that call send() and shutdown()
  Kept,              \* bound: connections whose callbacks give Users a pointer
  CallbackShutdown,  \* may user callbacks call conn->shutdown()?
  Destroys           \* may the base loop quit and the server be destroyed?

ASSUME ServerAssumption ==
  /\ MaxThreads \in Nat
  /\ MaxConns \in Nat \ {0}
  /\ Users \cap Nat = {}
  /\ Kept \subseteq 1..MaxConns
  /\ CallbackShutdown \in BOOLEAN
  /\ Destroys \in BOOLEAN

Base == 0
SubLoops == 1..MaxThreads
Loops == {Base} \cup SubLoops
Threads == Loops \cup Users
Conns == 1..MaxConns   \* the n-th connection is the one named "...#n"
NoConn == 0

VARIABLES
  numThreads_,   \* EventLoopThreadPool::numThreads_, set before start()
  maxFds,        \* descriptors the process has for connections
  acceptChannel, \* acceptor_->acceptChannel_ with its poller's index
  arrived,       \* clients the kernel has put in the backlog so far
  nextConnId_,   \* TcpServer::nextConnId_
  next_,         \* EventLoopThreadPool::next_
  connections_,  \* TcpServer::connections_
  state_,        \* TcpConnection::state_; "unborn" before the constructor
  loop_,         \* TcpConnection::loop_
  channel_,      \* TcpConnection::channel_ with its poller's index
  peer,          \* has the peer closed its end?
  wrShut,        \* has socket_->shutdownWrite() been called?
  log,           \* history of connectionCallback_: "up" and "down"
  pc,            \* where each loop's thread is
  frame,         \* the user callback each loop's thread is in
  queue,         \* PendingFunctors_ of each loop
  batch,         \* what is left of doPendingFunctors' local vector
  held,          \* connections the local vector holds shared_ptrs to
  quit,          \* quit_ of each loop
  call,          \* the call of shutdown() each thread is in
  hold           \* the connection each user thread holds a shared_ptr to

acceptVars == <<maxFds, acceptChannel, arrived>>
serverVars == <<acceptVars, numThreads_, nextConnId_, next_, connections_, loop_>>
connVars == <<state_, channel_, wrShut, log>>
threadVars == <<pc, batch, held, quit>>
userVars == <<call, hold>>
vars == <<serverVars, connVars, peer, threadVars, frame, queue, userVars>>

(* A functor: a bound member function and its connection.  Those of send() *)
(* and shutdown() are bound to a raw this, the others to a shared_ptr.     *)
RawOps == {"shutdownInLoop", "sendInLoop"}
Ops == RawOps \cup {"connectEstablished", "connectDestoryed",
                    "removeConnectionInLoop"}
Functors == [op : Ops, conn : Conns]
Fn(op, c) == [op |-> op, conn |-> c]

(* connectDestoryed bound to a raw pointer, as shutdownInLoop is.          *)
MutHolds(f, c) == f.conn = c /\ f.op \notin RawOps \cup {"connectDestoryed"}

(* Does functor f hold a shared_ptr to c?                                  *)
Holds(f, c) == f.conn = c /\ f.op \notin RawOps

NoFrame == [at |-> "none", conn |-> NoConn]
Frames == {NoFrame} \cup [at : {"up", "message", "close", "destroy"}, conn : Conns]

NoCall == [at |-> "none", conn |-> NoConn]
Calls == {NoCall} \cup [at : {"tested", "set", "sending"}, conn : Conns]

(* The shared_ptrs: in the map, in a local of a handler on the stack, in   *)
(* functors queued or being run, and those the user keeps.                 *)
Referenced(c) ==
  \/ c \in connections_
  \/ \E l \in Loops : \/ frame[l].conn = c
                      \/ c \in held[l]
                      \/ \E i \in DOMAIN queue[l] : Holds(queue[l][i], c)
  \/ \E u \in Users : hold[u] = c

Born(c) == state_[c] # "unborn"
Alive(c) == Born(c) /\ Referenced(c)
Freed(c) == Born(c) /\ ~Referenced(c)

Init ==
  /\ numThreads_ \in 0..MaxThreads
  /\ maxFds \in 1..MaxConns
  /\ acceptChannel = NewChannel
  /\ arrived = 0
  /\ nextConnId_ = 1
  /\ next_ = 0
  /\ connections_ = {}
  /\ state_ = [c \in Conns |-> "unborn"]
  /\ loop_ = [c \in Conns |-> Base]
  /\ channel_ = [c \in Conns |-> NewChannel]
  /\ peer = [c \in Conns |-> "open"]
  /\ wrShut = [c \in Conns |-> FALSE]
  /\ log = [c \in Conns |-> <<>>]
  /\ pc = [l \in Loops |-> IF l = Base THEN "start" ELSE "io"]
  /\ frame = [l \in Loops |-> NoFrame]
  /\ queue = [l \in Loops |-> <<>>]
  /\ batch = [l \in Loops |-> <<>>]
  /\ held = [l \in Loops |-> {}]
  /\ quit = [l \in Loops |-> FALSE]
  /\ call = [t \in Threads |-> NoCall]
  /\ hold = [u \in Users |-> NoConn]
------------------------------------------------------------------------------
(* The handlers of a connection, run by the thread of loop l.  A handler   *)
(* that calls a user callback stops in a frame; what it does after the     *)
(* callback is in CallbackReturns.                                         *)

Enqueue(l, f) == queue' = [queue EXCEPT ![l] = Append(@, f)]

(* connectEstablished up to its callback.                                  *)
ConnectEstablished(l, c) ==
  /\ state_' = [state_ EXCEPT ![c] = "kConnected"]
  /\ channel_' = [channel_ EXCEPT ![c] = enableReading(@)]
  /\ log' = [log EXCEPT ![c] = Append(@, "up")]
  /\ frame' = [frame EXCEPT ![l] = [at |-> "up", conn |-> c]]
  /\ UNCHANGED wrShut

(* connectionCallback_ not called.                                         *)
MutNotified(seen) == seen

Notified(seen) == Append(seen, "down")

(* The end of a connection, up to its connectionCallback_.                 *)
GoDown(l, c, at) ==
  /\ state_' = [state_ EXCEPT ![c] = "kDisconnected"]
  /\ channel_' = [channel_ EXCEPT ![c] = disableAll(@)]
  /\ log' = [log EXCEPT ![c] = Notified(@)]
  /\ frame' = [frame EXCEPT ![l] = [at |-> at, conn |-> c]]
  /\ UNCHANGED wrShut

HandleClose(l, c) == GoDown(l, c, "close")

(* connectDestoryed that forgets to take the channel out of the poller.    *)
MutConnectDestoryed(l, c) ==
  /\ state_' = [state_ EXCEPT ![c] = "kDisconnected"]
  /\ UNCHANGED <<channel_, log, frame, wrShut>>

(* connectDestoryed without its test of state_.                            *)
MutDestoryAlways(l, c) == GoDown(l, c, "destroy")

(* connectDestoryed: the callback and disableAll only for a connection     *)
(* that is still kConnected.                                               *)
ConnectDestoryed(l, c) ==
  IF state_[c] = "kConnected"
  THEN GoDown(l, c, "destroy")
  ELSE /\ channel_' = [channel_ EXCEPT ![c] = Removed(@)]
       /\ UNCHANGED <<state_, log, frame, wrShut>>

(* removeConnectionInLoop that leaves the connection in the map.           *)
MutRemoveConnectionInLoop(c) ==
  /\ UNCHANGED connections_
  /\ Enqueue(loop_[c], Fn("connectDestoryed", c))

(* removeConnectionInLoop, in the base loop's thread.                      *)
RemoveConnectionInLoop(c) ==
  /\ connections_' = connections_ \ {c}
  /\ Enqueue(loop_[c], Fn("connectDestoryed", c))

ShutdownInLoop(c) ==
  /\ wrShut' = [wrShut EXCEPT ![c] = @ \/ ~isWriting(channel_[c])]
  /\ UNCHANGED <<state_, channel_, log>>
------------------------------------------------------------------------------
(* The Acceptor, in the base loop's thread, and newConnection.             *)

Free(l) == frame[l] = NoFrame   \* not inside a user callback

listen == acceptChannel' = enableReading(acceptChannel)

(* TcpServer::start() by the thread that then enters the base loop.        *)
Start ==
  /\ pc[Base] = "start"
  /\ pc' = [pc EXCEPT ![Base] = "io"]
  /\ listen
  /\ UNCHANGED <<maxFds, arrived, numThreads_, nextConnId_, next_, connections_,
                 loop_, connVars, peer, batch, held, quit, frame, queue, userVars>>

(* A client is in the backlog of the listening socket.                     *)
ClientArrives ==
  /\ Registered(acceptChannel)
  /\ arrived < MaxConns
  /\ arrived' = arrived + 1
  /\ UNCHANGED <<maxFds, acceptChannel, numThreads_, nextConnId_, next_,
                 connections_, loop_, connVars, peer, threadVars, frame, queue,
                 userVars>>

(* Acceptor::handleRead is called while the backlog is not empty.          *)
AcceptReady ==
  /\ pc[Base] = "io" /\ Free(Base)
  /\ CallsRead({"IN"} \cap Reportable(acceptChannel))
  /\ nextConnId_ <= arrived

FdLeft == Cardinality({c \in Conns : Alive(c)}) < maxFds

(* An Acceptor that stops listening when accept fails.                     *)
MutAcceptFails ==
  /\ AcceptReady
  /\ ~FdLeft
  /\ acceptChannel' = disableAll(acceptChannel)
  /\ UNCHANGED <<maxFds, arrived, numThreads_, nextConnId_, next_, connections_,
                 loop_, connVars, peer, threadVars, frame, queue, userVars>>

(* accept fails for want of a descriptor (EMFILE): handleRead only logs,   *)
(* and the backlog is reported again.                                      *)
AcceptFails ==
  /\ AcceptReady
  /\ ~FdLeft
  /\ UNCHANGED vars

(* getNextLoop that wraps one loop early.                                  *)
MutNextLoop(k) == IF k + 2 >= numThreads_ THEN 0 ELSE k + 1

(* getNextLoop: loops_[next_] is subloop next_ + 1.                        *)
NextLoop(k) == IF k + 1 >= numThreads_ THEN 0 ELSE k + 1

(* accept succeeds and newConnection distributes the connection.           *)
NewConnection ==
  LET c == nextConnId_
      l == IF numThreads_ = 0 THEN Base ELSE next_ + 1
  IN
  /\ AcceptReady
  /\ FdLeft
  /\ nextConnId_' = c + 1
  /\ next_' = IF numThreads_ = 0 THEN next_ ELSE NextLoop(next_)
  /\ connections_' = connections_ \cup {c}
  /\ loop_' = [loop_ EXCEPT ![c] = l]
  /\ IF l = Base
     THEN ConnectEstablished(l, c) /\ UNCHANGED queue
     ELSE /\ state_' = [state_ EXCEPT ![c] = "kConnecting"]
          /\ Enqueue(l, Fn("connectEstablished", c))
          /\ UNCHANGED <<channel_, log, wrShut, frame>>
  /\ UNCHANGED <<acceptVars, numThreads_, peer, threadVars, userVars>>

(* The peer sends its FIN; nothing it sends later reaches us.              *)
PeerCloses(c) ==
  /\ c <= arrived
  /\ peer[c] = "open"
  /\ peer' = [peer EXCEPT ![c] = "closed"]
  /\ UNCHANGED <<serverVars, connVars, threadVars, frame, queue, userVars>>

(* What epoll reports for the connection: data or the end of the stream    *)
(* are IN, and both ends closed are HUP as well.                           *)
Revents(c) ==
  ({"IN"} \cup (IF peer[c] = "closed" /\ wrShut[c] THEN {"HUP"} ELSE {}))
    \cap Reportable(channel_[c])

(* Channel::handleEvent with the tie: handleRead or handleClose.           *)
EventReady(l, c) ==
  /\ pc[l] = "io" /\ Free(l)
  /\ loop_[c] = l
  /\ Alive(c)

(* handleRead with n > 0: messageCallback_.                                *)
HandleMessage(l, c) ==
  /\ EventReady(l, c)
  /\ CallsRead(Revents(c))
  /\ peer[c] = "open"
  /\ frame' = [frame EXCEPT ![l] = [at |-> "message", conn |-> c]]
  /\ UNCHANGED <<serverVars, connVars, peer, threadVars, queue, userVars>>

(* handleClose, called for HUP or by handleRead with n = 0.                *)
HandleEnd(l, c) ==
  /\ EventReady(l, c)
  /\ peer[c] = "closed"
  /\ CallsClose(Revents(c)) \/ CallsRead(Revents(c))
  /\ HandleClose(l, c)
  /\ UNCHANGED <<serverVars, peer, threadVars, queue, userVars>>

(* The user callback returns: handleClose goes on with closeCallback_,     *)
(* which is TcpServer::removeConnection; connectDestoryed goes on with     *)
(* channel_->remove().                                                     *)
CallbackReturns(l) ==
  LET c == frame[l].conn IN
  /\ ~Free(l)
  /\ call[l] = NoCall
  /\ \/ /\ frame[l].at \in {"up", "message"}
        /\ UNCHANGED <<connections_, queue, channel_>>
     \/ /\ frame[l].at = "close" /\ l = Base
        /\ RemoveConnectionInLoop(c)
        /\ UNCHANGED channel_
     \/ /\ frame[l].at = "close" /\ l # Base
        /\ Enqueue(Base, Fn("removeConnectionInLoop", c))
        /\ UNCHANGED <<connections_, channel_>>
     \/ /\ frame[l].at = "destroy"
        /\ channel_' = [channel_ EXCEPT ![c] = Removed(@)]
        /\ UNCHANGED <<connections_, queue>>
  /\ frame' = [frame EXCEPT ![l] = NoFrame]
  /\ UNCHANGED <<acceptVars, numThreads_, nextConnId_, next_, loop_, state_, wrShut, log,
                 peer, threadVars, userVars>>
------------------------------------------------------------------------------
(* doPendingFunctors of loop l.                                            *)

(* The swap.  The local vector keeps its functors to the end.              *)
SwapFunctors(l) ==
  /\ pc[l] = "io" /\ Free(l)
  /\ queue[l] # <<>> \/ quit[l]
  /\ batch' = [batch EXCEPT ![l] = queue[l]]
  /\ held' = [held EXCEPT ![l] =
       {c \in Conns : \E i \in DOMAIN queue[l] : Holds(queue[l][i], c)}]
  /\ queue' = [queue EXCEPT ![l] = <<>>]
  /\ pc' = [pc EXCEPT ![l] = "run"]
  /\ UNCHANGED <<serverVars, connVars, peer, frame, quit, userVars>>

AtFunctor(l, op) ==
  /\ pc[l] = "run" /\ Free(l)
  /\ batch[l] # <<>> /\ Head(batch[l]).op = op

PopFunctor(l) ==
  /\ batch' = [batch EXCEPT ![l] = Tail(@)]
  /\ UNCHANGED <<pc, held, quit, peer, userVars>>

RunEstablished(l) ==
  /\ AtFunctor(l, "connectEstablished")
  /\ PopFunctor(l)
  /\ ConnectEstablished(l, Head(batch[l]).conn)
  /\ UNCHANGED <<serverVars, queue>>

RunDestoryed(l) ==
  /\ AtFunctor(l, "connectDestoryed")
  /\ PopFunctor(l)
  /\ ConnectDestoryed(l, Head(batch[l]).conn)
  /\ UNCHANGED <<serverVars, queue>>

RunRemove(l) ==
  /\ AtFunctor(l, "removeConnectionInLoop")
  /\ PopFunctor(l)
  /\ RemoveConnectionInLoop(Head(batch[l]).conn)
  /\ UNCHANGED <<acceptVars, numThreads_, nextConnId_, next_, loop_, connVars, frame>>

(* On a freed connection these are undefined, and the behaviour ends.      *)
RunShutdown(l) ==
  /\ AtFunctor(l, "shutdownInLoop")
  /\ Alive(Head(batch[l]).conn)
  /\ PopFunctor(l)
  /\ ShutdownInLoop(Head(batch[l]).conn)
  /\ UNCHANGED <<serverVars, frame, queue>>

(* What sendInLoop does to the buffer and the socket is in TcpConnection.  *)
(* Here neither writeCallback_ nor highWaterMarkCallback_ is set, so that  *)
(* it queues nothing and never changes the channel's mask.                 *)
RunSend(l) ==
  /\ AtFunctor(l, "sendInLoop")
  /\ Alive(Head(batch[l]).conn)
  /\ PopFunctor(l)
  /\ UNCHANGED <<serverVars, connVars, frame, queue>>

(* doPendingFunctors that returns before its last functor.                 *)
MutLastFunctorDone(l) == TRUE

LastFunctorDone(l) == batch[l] = <<>>

(* A loop that does not look at quit_.                                     *)
MutAfterFunctors(l) == "io"

AfterFunctors(l) == IF quit[l] THEN "exited" ELSE "io"

(* The local vector is destroyed, and loop() tests quit_.                  *)
BatchDone(l) ==
  /\ pc[l] = "run" /\ Free(l)
  /\ LastFunctorDone(l)
  /\ held' = [held EXCEPT ![l] = {}]
  /\ pc' = [pc EXCEPT ![l] = AfterFunctors(l)]
  /\ UNCHANGED <<serverVars, connVars, peer, frame, queue, batch, quit, userVars>>
------------------------------------------------------------------------------
(* TcpConnection::shutdown (the test of state_, its assignment, the        *)
(* queueInLoop of a raw this) by a loop's thread from a callback of that   *)
(* connection or by a user thread that holds the connection, and send of   *)
(* such a thread: from a callback it queues nothing.                       *)

ServerRunning == pc[Base] \in {"io", "run"}

(* Other threads are done with the connections when the server goes.       *)
UsersDone == \A u \in Users : hold[u] = NoConn

(* The functors op of connection c that have not started.                  *)
Pending(c, op) ==
  UNION { {<<l, "q", i>> : i \in {j \in DOMAIN queue[l] : queue[l][j] = Fn(op, c)}}
          \cup {<<l, "b", i>> : i \in {j \in DOMAIN batch[l] : batch[l][j] = Fn(op, c)}}
        : l \in Loops }

CallGoesTo(t, at, c) ==
  /\ call' = [call EXCEPT ![t] = [at |-> at, conn |-> c]]
  /\ UNCHANGED <<serverVars, peer, threadVars, frame, queue, hold>>

MayShutdown(t, c) ==
  \/ t \in Loops /\ CallbackShutdown /\ frame[t].conn = c
  \/ t \in Users /\ hold[t] = c

(* shutdown() without its test.                                            *)
MutStillConnected(c) == TRUE

StillConnected(c) == state_[c] = "kConnected"

ShutdownTest(t, c) ==
  /\ MayShutdown(t, c)
  /\ call[t] = NoCall
  /\ StillConnected(c)
  /\ CallGoesTo(t, "tested", c)
  /\ UNCHANGED connVars

ShutdownSet(t) ==
  /\ call[t].at = "tested"
  /\ state_' = [state_ EXCEPT ![call[t].conn] = "kDisconnecting"]
  /\ CallGoesTo(t, "set", call[t].conn)
  /\ UNCHANGED <<channel_, wrShut, log>>

(* Bound: one send of a connection waits at a time.                        *)
SendTest(u, c) ==
  /\ hold[u] = c
  /\ call[u] = NoCall
  /\ StillConnected(c)
  /\ Pending(c, "sendInLoop") = {}
  /\ CallGoesTo(u, "sending", c)
  /\ UNCHANGED connVars

QueueRaw(t, at, op) ==
  /\ call[t].at = at
  /\ Enqueue(loop_[call[t].conn], Fn(op, call[t].conn))
  /\ call' = [call EXCEPT ![t] = NoCall]
  /\ UNCHANGED <<serverVars, connVars, peer, threadVars, frame, hold>>

ShutdownQueue(t) == QueueRaw(t, "set", "shutdownInLoop")
SendQueue(t) == QueueRaw(t, "sending", "sendInLoop")

(* A user thread gets a TcpConnectionPtr a callback stored for it.         *)
Acquire(u, c) ==
  /\ hold[u] = NoConn
  /\ ServerRunning
  /\ c \in Kept
  /\ \E l \in Loops : frame[l].conn = c
  /\ hold' = [hold EXCEPT ![u] = c]
  /\ UNCHANGED <<serverVars, connVars, peer, threadVars, frame, queue, call>>

Release(u) ==
  /\ hold[u] # NoConn
  /\ call[u] = NoCall
  /\ hold' = [hold EXCEPT ![u] = NoConn]
  /\ UNCHANGED <<serverVars, connVars, peer, threadVars, frame, queue, call>>
------------------------------------------------------------------------------
(* The end: quit() of the base loop, then ~TcpServer in its thread, which  *)
(* is where main() destroys it (example/testserver.cc), then the loop.     *)

Quit ==
  /\ Destroys
  /\ ServerRunning
  /\ ~quit[Base]
  /\ quit' = [quit EXCEPT ![Base] = TRUE]
  /\ UNCHANGED <<serverVars, connVars, peer, pc, batch, held, frame, queue,
                 userVars>>

(* One turn of ~TcpServer's loop over connections_.                        *)
DestroyConnection(c) ==
  /\ pc[Base] = "exited" /\ Free(Base)
  /\ UsersDone
  /\ c \in connections_
  /\ connections_' = connections_ \ {c}
  /\ IF loop_[c] = Base
     THEN ConnectDestoryed(Base, c) /\ UNCHANGED queue
     ELSE /\ Enqueue(loop_[c], Fn("connectDestoryed", c))
          /\ UNCHANGED <<connVars, frame>>
  /\ UNCHANGED <<acceptVars, numThreads_, nextConnId_, next_, loop_, peer, threadVars,
                 userVars>>

PoolDestroyed(k) == \A j \in 1..k : pc[j] = "gone"

(* ~EventLoopThread of the pool's threads, one after another: quit(), then *)
(* join().                                                                 *)
DestroyThread(k) ==
  /\ pc[Base] = "exited" /\ Free(Base)
  /\ UsersDone
  /\ connections_ = {}
  /\ k <= numThreads_ /\ PoolDestroyed(k - 1)
  /\ ~quit[k]
  /\ quit' = [quit EXCEPT ![k] = TRUE]
  /\ UNCHANGED <<serverVars, connVars, peer, pc, batch, held, frame, queue,
                 userVars>>

(* ~Acceptor, after the pool: its channel is taken out of the poller.      *)
DestroyAcceptor ==
  /\ pc[Base] = "exited" /\ Free(Base)
  /\ UsersDone
  /\ connections_ = {} /\ PoolDestroyed(numThreads_)
  /\ Registered(acceptChannel)
  /\ acceptChannel' = Removed(disableAll(acceptChannel))
  /\ UNCHANGED <<maxFds, arrived, numThreads_, nextConnId_, next_, connections_,
                 loop_, connVars, peer, threadVars, frame, queue, userVars>>

ServerDestroyed ==
  /\ connections_ = {} /\ UsersDone /\ PoolDestroyed(numThreads_)
  /\ ~Registered(acceptChannel)

(* threadFunc returns, or main() does: the EventLoop is destroyed, with    *)
(* the functors left in it.                                                *)
LoopDestroyed(l) ==
  /\ pc[l] = "exited" /\ Free(l)
  /\ l = Base => ServerDestroyed
  /\ pc' = [pc EXCEPT ![l] = "gone"]
  /\ queue' = [queue EXCEPT ![l] = <<>>]
  /\ UNCHANGED <<serverVars, connVars, peer, frame, batch, held, quit, userVars>>

------------------------------------------------------------------------------
RunFunctor(l) ==
  \/ RunEstablished(l) \/ RunDestoryed(l) \/ RunRemove(l)
  \/ RunShutdown(l) \/ RunSend(l)

LoopStep(l) ==
  \/ CallbackReturns(l)
  \/ RunFunctor(l)
  \/ BatchDone(l)
  \/ LoopDestroyed(l)

Next ==
  \/ Start \/ ClientArrives \/ NewConnection \/ AcceptFails \/ DestroyAcceptor
  \/ \E c \in Conns : PeerCloses(c) \/ DestroyConnection(c)
  \/ \E l \in Loops :
       \/ \E c \in Conns : HandleMessage(l, c) \/ HandleEnd(l, c)
       \/ SwapFunctors(l)
       \/ LoopStep(l)
  \/ \E t \in Threads :
       \/ \E c \in Conns : ShutdownTest(t, c)
       \/ ShutdownSet(t)
       \/ ShutdownQueue(t)
  \/ \E u \in Users :
       \/ Release(u) \/ SendQueue(u)
       \/ \E c \in Conns : Acquire(u, c) \/ SendTest(u, c)
  \/ Quit
  \/ \E k \in SubLoops : DestroyThread(k)

Spec == Init /\ [][Next]_vars

(* Each loop's thread keeps running, and so does the thread in             *)
(* ~TcpServer.  Every iteration of loop() handles what epoll reports and   *)
(* then runs the functors, so neither is put off for ever by other events  *)
(* (strong fairness).  Nothing is assumed of peers, users or quit().       *)
Fairness ==
  /\ WF_vars(Start)
  /\ SF_vars(NewConnection)
  /\ WF_vars(DestroyAcceptor)
  /\ \A l \in Loops :
       /\ WF_vars(LoopStep(l))
       /\ SF_vars(SwapFunctors(l))
       /\ \A c \in Conns : SF_vars(HandleEnd(l, c))
  /\ \A t \in Threads : WF_vars(ShutdownSet(t) \/ ShutdownQueue(t))
  /\ \A u \in Users : WF_vars(SendQueue(u)) /\ SF_vars(Release(u))
  /\ WF_vars(\E c \in Conns : DestroyConnection(c))
  /\ \A k \in SubLoops : WF_vars(DestroyThread(k))

FairSpec == Spec /\ Fairness
------------------------------------------------------------------------------
(* Types; the local vector of doPendingFunctors is gone when it returns.   *)
TypeOK ==
  /\ numThreads_ \in 0..MaxThreads
  /\ maxFds \in 1..MaxConns
  /\ acceptChannel \in Records
  /\ arrived \in 0..MaxConns
  /\ nextConnId_ \in 1..(arrived + 1)
  /\ next_ \in 0..numThreads_ /\ (numThreads_ # 0 => next_ < numThreads_)
  /\ connections_ \subseteq Conns
  /\ state_ \in [Conns -> {"unborn", "kConnecting", "kConnected",
                           "kDisconnecting", "kDisconnected"}]
  /\ loop_ \in [Conns -> Loops]
  /\ channel_ \in [Conns -> Records]
  /\ peer \in [Conns -> {"open", "closed"}]
  /\ wrShut \in [Conns -> BOOLEAN]
  /\ log \in [Conns -> Seq({"up", "down"})]
  /\ pc \in [Loops -> {"start", "io", "run", "exited", "gone"}]
  /\ frame \in [Loops -> Frames]
  /\ queue \in [Loops -> Seq(Functors)]
  /\ batch \in [Loops -> Seq(Functors)]
  /\ held \in [Loops -> SUBSET Conns]
  /\ \A l \in Loops : pc[l] # "run" => batch[l] = <<>> /\ held[l] = {}
  /\ quit \in [Loops -> BOOLEAN]
  /\ call \in [Threads -> Calls]
  /\ hold \in [Users -> Conns \cup {NoConn}]

(* The user sees each connection come up once, then its messages, then go  *)
(* down at most once, whatever the peer, the loops and shutdown() do       *)
(* (connectEstablished, handleClose, connectDestoryed).                    *)
CallbackOrder ==
  /\ \A c \in Conns : log[c] \in {<<>>, <<"up">>, <<"up", "down">>}
  /\ \A l \in Loops :
       frame[l].at = "message" => log[frame[l].conn] = <<"up">>

(* The raw this of a queued shutdownInLoop or sendInLoop is that of a live *)
(* connection when the functor runs.                                       *)
NoUseAfterFree ==
  \A l \in Loops, op \in RawOps :
    AtFunctor(l, op) => Alive(Head(batch[l]).conn)

(* That is so as long as only callbacks call shutdown() and the server is  *)
(* not being destroyed: a shared_ptr in the same or a later functor keeps  *)
(* the connection.                                                         *)
CallbackShutdownSafe == Users = {} /\ ~quit[Base] => NoUseAfterFree

(* When a connection is freed, the poller of its loop knows nothing of its *)
(* channel any more: no dangling pointer in channels_ or the epoll set.    *)
PollerClean ==
  \A c \in Conns :
    Freed(c) /\ pc[loop_[c]] # "gone" => channel_[c].index = "kNew"

(* A connection that is freed has told the user that it came up and went   *)
(* down.  After quit() of the base loop there are two exceptions: it was   *)
(* in kDisconnecting when connectDestoryed ran, which then does not call   *)
(* the user, or its functor was dropped when its subloop ended first.      *)
FreedWentDown ==
  \A c \in Conns :
    Freed(c) /\ log[c] # <<"up", "down">> =>
      quit[Base] /\ (state_[c] = "kDisconnecting" \/ pc[loop_[c]] = "gone")

(* connectDestoryed is handed to the loop at most once per connection, by  *)
(* removeConnectionInLoop or by ~TcpServer, and only for one that was      *)
(* handed to connectEstablished.                                           *)
DestroyedOnce ==
  \A c \in Conns :
    /\ Cardinality(Pending(c, "connectDestoryed"))
         + (IF c \in connections_ THEN 1 ELSE 0) <= 1
    /\ log[c] # <<>> /\ channel_[c].index = "kNew"
         => /\ c \notin connections_
            /\ Pending(c, "connectDestoryed") = {}

(* The server leaves nothing behind: when the base EventLoop goes after    *)
(* ~TcpServer, the pool's threads are over and every accepted connection   *)
(* has been freed, also one whose functors a subloop dropped.              *)
AllReleased ==
  pc[Base] = "gone" =>
    PoolDestroyed(numThreads_) /\ \A c \in Conns : Born(c) => Freed(c)

(* kDisconnected is final: sendInLoop relies on it to give up writing.     *)
DisconnectedIsFinal ==
  [][\A c \in Conns :
       state_[c] = "kDisconnected" => state_'[c] = "kDisconnected"]_vars

(* getNextLoop spreads the connections evenly over the io loops.           *)
RoundRobin ==
  \A k, l \in IF numThreads_ = 0 THEN {Base} ELSE 1..numThreads_ :
    Cardinality({c \in Conns : Born(c) /\ loop_[c] = k})
      <= Cardinality({c \in Conns : Born(c) /\ loop_[c] = l}) + 1

(* How far a connection has come, for the abstract specification.          *)
Life(c) ==
  IF ~Born(c) THEN "waiting"
  ELSE IF Freed(c) THEN "freed"
  ELSE IF log[c] = <<>> THEN "accepted"
  ELSE IF log[c] = <<"up">> THEN "up" ELSE "down"

CL == INSTANCE ConnectionLife WITH
        life <- [c \in Conns |-> Life(c)],
        ended <- [c \in Conns |-> peer[c] = "closed"],
        serving <- ~quit[Base]

(* The server keeps the promise of ConnectionLife: the user hears of each  *)
(* connection in order, and one whose peer closes is removed and freed,    *)
(* through the two loops and back, unless the server ends.                 *)
ImplementsConnectionLife == CL!Spec

(* A client in the backlog is accepted once those before it have closed,   *)
(* although accept fails as long as they hold all the descriptors.         *)
WaitingAccepted ==
  \A c \in Conns :
    c <= arrived /\ (\A d \in 1..(c - 1) : peer[d] = "closed")
      ~> Born(c) \/ quit[Base]

(* After quit() the base loop returns, and then ~TcpServer: every thread   *)
(* of the pool can be joined, unless a freed connection is used.           *)
DestructionEnds == quit[Base] ~> (pc[Base] = "gone" \/ ~NoUseAfterFree)
==============================================================================
