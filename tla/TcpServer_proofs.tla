---------------------------- MODULE TcpServer_proofs ----------------------------
(***************************************************************************)
(* Proofs about TcpServer, for every number of subloops, connections,      *)
(* descriptors and user threads.                                           *)
(***************************************************************************)
EXTENDS TcpServer, QueueLemmas, FiniteSetTheorems, TLAPS

(* The functors of each loop that have not started, in the order they run. *)
Todo == [l \in Loops |-> batch[l] \o queue[l]]

Members(s) == {s[i] : i \in DOMAIN s}

(* The same, without their order.                                          *)
Waiting == [l \in Loops |-> Members(Todo[l])]

(* In a queue, a functor with a shared_ptr stands once, and                *)
(* connectEstablished before connectDestoryed.                             *)
Orderly(s) ==
  \A i, j \in DOMAIN s :
    /\ s[i] = s[j] /\ s[i].op \notin RawOps => i = j
    /\ s[i].op = "connectEstablished" /\ s[j] = Fn("connectDestoryed", s[i].conn)
         => i <= j

Ordered == \A l \in Loops : Orderly(Todo[l])

(* A connection that is not born is a blank nobody refers to.              *)
Births ==
  /\ \A c \in Conns : Born(c) <=> c < nextConnId_
  /\ \A c \in Conns : ~Born(c) => /\ log[c] = <<>>
                                  /\ channel_[c] = NewChannel
                                  /\ c \notin connections_
  /\ \A l \in Loops, op \in Ops, c \in Conns : Fn(op, c) \in Waiting[l] => Born(c)
  /\ \A l \in Loops : frame[l].at # "none" => Born(frame[l].conn)
  /\ \A u \in Users : hold[u] # NoConn => Born(hold[u])

(* Callbacks and functors of a connection are in its loop, but the removal *)
(* from the map is in the base loop.                                       *)
Placement ==
  /\ \A l \in Loops : frame[l].at # "none" => loop_[frame[l].conn] = l
  /\ \A l \in Loops, op \in Ops, c \in Conns :
       Fn(op, c) \in Waiting[l] =>
         l = IF op = "removeConnectionInLoop" THEN Base ELSE loop_[c]
  /\ \A c \in Conns : Fn("connectEstablished", c) \notin Waiting[Base]

(* A callback about connection c is running.                               *)
At(c, at) == frame[loop_[c]].at = at /\ frame[loop_[c]].conn = c

(* The base loop has left loop(): it runs no functor any more.             *)
BaseOver == pc[Base] \in {"exited", "gone"}

(* What state_, the channel and the callback that is running say about the *)
(* callbacks so far.                                                       *)
States(c) ==
  /\ log[c] \in {<<>>, <<"up">>, <<"up", "down">>}
  /\ Registered(channel_[c]) => log[c] = <<"up">>
  /\ state_[c] = "kConnected" => Registered(channel_[c])
  /\ state_[c] = "kDisconnected" => log[c] = <<"up", "down">>
  /\ state_[c] = "kConnecting" <=> log[c] = <<>>
  /\ At(c, "message") => log[c] = <<"up">>
  /\ At(c, "close") \/ At(c, "destroy") => log[c] = <<"up", "down">>

(* connectEstablished waits exactly as long as the user has heard nothing. *)
Establishing(c) ==
  /\ Fn("connectEstablished", c) \in Waiting[loop_[c]] => log[c] = <<>>
  /\ log[c] = <<>> /\ pc[loop_[c]] # "gone"
       => Fn("connectEstablished", c) \in Waiting[loop_[c]]

(* From the callback of handleClose to removeConnectionInLoop the          *)
(* connection is on its way out of the map, once.                          *)
Closing(c) ==
  /\ At(c, "close") =>
       /\ Fn("removeConnectionInLoop", c) \notin Waiting[Base]
       /\ c \in connections_ \/ (loop_[c] # Base /\ BaseOver)
  /\ Fn("removeConnectionInLoop", c) \in Waiting[Base] =>
       /\ log[c] = <<"up", "down">>
       /\ BaseOver \/ c \in connections_

(* connectDestoryed of c waits, or has run up to its callback, or is over. *)
InDestruction(c) ==
  \/ Fn("connectDestoryed", c) \in Waiting[loop_[c]]
  \/ At(c, "destroy")
  \/ channel_[c].index = "kNew" /\ log[c] # <<>>

(* A connection leaves the map exactly when it is handed to                *)
(* connectDestoryed, which runs once; only ~TcpServer and handleClose do   *)
(* that.                                                                   *)
Removal(c) ==
  /\ c \in connections_ => ~InDestruction(c)
  /\ pc[loop_[c]] # "gone" => c \in connections_ \/ InDestruction(c)
  /\ ~BaseOver /\ log[c] # <<"up", "down">> => c \in connections_
  /\ pc[loop_[c]] # "gone" /\ state_[c] # "kDisconnecting"
     /\ log[c] # <<"up", "down">> =>
       c \in connections_ \/ Fn("connectDestoryed", c) \in Waiting[loop_[c]]
  /\ At(c, "destroy") \/ (channel_[c].index = "kNew" /\ log[c] # <<>>) =>
       Fn("connectDestoryed", c) \notin Waiting[loop_[c]]

ConnInv(c) == States(c) /\ Establishing(c) /\ Closing(c) /\ Removal(c)

(* A call of shutdown() or send() is about a connection that came up.      *)
Heard == \A t \in Threads : call[t].at # "none" => log[call[t].conn] # <<>>

(* Loops that are over were asked to quit; the local vector's shared_ptrs. *)
Running ==
  /\ \A l \in Loops : pc[l] \in {"exited", "gone"} => quit[l]
  /\ \A l \in Loops : \A i \in DOMAIN batch[l] : \A c \in Conns :
       Holds(batch[l][i], c) => c \in held[l]

Core == Births /\ Placement /\ Heard /\ \A c \in Conns : Born(c) => ConnInv(c)

IInv == TypeOK /\ Running /\ Ordered /\ Core
------------------------------------------------------------------------------
(* Types. *)

(* The setters of a channel's record give records.                         *)
LEMMA ChannelTypes ==
  /\ NewChannel \in Records
  /\ \A r \in Records : /\ enableReading(r) \in Records
                        /\ disableAll(r) \in Records
                        /\ Removed(r) \in Records
  BY DEF NewChannel, Records, Indexes, Masks, enableReading, disableAll, Removed,
         WithEvents, Updated, isNoneEvent, kReadEvent, kWriteEvent

(* A queue stays a queue when a functor is appended to it.                 *)
LEMMA EnqueueTypes ==
  ASSUME TypeOK, NEW l \in Loops, NEW op \in Ops, NEW c \in Conns,
         Enqueue(l, Fn(op, c))
  PROVE  queue' \in [Loops -> Seq(Functors)]
<1>1. Fn(op, c) \in Functors
  BY DEF Fn, Functors
<1> QED
  BY <1>1, AppendProperties DEF TypeOK, Enqueue

(* The functor at the head of the local vector, and what is left.          *)
LEMMA PopTypes ==
  ASSUME TypeOK, NEW l \in Loops, batch[l] # <<>>
  PROVE  /\ Head(batch[l]) \in Functors
         /\ Head(batch[l]).op \in Ops
         /\ Head(batch[l]).conn \in Conns
         /\ Tail(batch[l]) \in Seq(Functors)
<1>1. batch[l] \in Seq(Functors)
  BY DEF TypeOK
<1>2. Head(batch[l]) \in Functors /\ Tail(batch[l]) \in Seq(Functors)
  BY <1>1, HeadTailProperties
<1> QED
  BY <1>2 DEF Functors

(* The base loop and the loops of connections are loops.                   *)
LEMMA LoopTypes ==
  TypeOK => /\ Base \in Loops /\ SubLoops \subseteq Loops
            /\ \A c \in Conns : loop_[c] \in Loops
            /\ \A l \in Loops : frame[l] \in Frames /\ frame[l].conn \in Conns \cup {NoConn}
            /\ \A l \in Loops : ~Free(l) => frame[l].conn \in Conns
            /\ \A t \in Threads : call[t].at # "none" => call[t].conn \in Conns
  BY DEF TypeOK, Loops, Frames, NoFrame, Free, Calls, NoCall

(* The variables the handlers of a connection change.                      *)
HandlerTypes ==
  /\ state_ \in [Conns -> {"unborn", "kConnecting", "kConnected",
                           "kDisconnecting", "kDisconnected"}]
  /\ channel_ \in [Conns -> Records]
  /\ wrShut \in [Conns -> BOOLEAN]
  /\ log \in [Conns -> Seq({"up", "down"})]
  /\ frame \in [Loops -> Frames]

(* The handlers keep the types of the variables they change.               *)
LEMMA HandlersKeepTypes ==
  ASSUME TypeOK, NEW l \in Loops, NEW c \in Conns,
         \/ ConnectEstablished(l, c)
         \/ HandleClose(l, c)
         \/ ConnectDestoryed(l, c)
         \/ ShutdownInLoop(c) /\ UNCHANGED frame
  PROVE  HandlerTypes'
<1> USE ChannelTypes DEF TypeOK, HandlerTypes, Frames
<1>1. \A s \in Seq({"up", "down"}) : /\ Append(s, "up") \in Seq({"up", "down"})
                                     /\ Append(s, "down") \in Seq({"up", "down"})
  BY AppendProperties
<1>2. CASE ConnectEstablished(l, c)
  BY <1>1, <1>2 DEF ConnectEstablished
<1>3. ASSUME NEW at \in {"close", "destroy"}, GoDown(l, c, at)
      PROVE  HandlerTypes'
  BY <1>1, <1>3 DEF GoDown, Notified
<1>4. CASE HandleClose(l, c)
  BY <1>3, <1>4 DEF HandleClose
<1>5. CASE ConnectDestoryed(l, c)
  <2>1. CASE state_[c] = "kConnected"
    BY <1>3, <1>5, <2>1 DEF ConnectDestoryed
  <2>2. CASE state_[c] # "kConnected"
    <3>1. Removed(channel_[c]) \in Records
      BY ChannelTypes DEF TypeOK
    <3>2. channel_' = [channel_ EXCEPT ![c] = Removed(channel_[c])]
      BY <1>5, <2>2 DEF ConnectDestoryed
    <3>3. UNCHANGED <<state_, log, frame, wrShut>>
      BY <1>5, <2>2 DEF ConnectDestoryed
    <3> QED
      BY <3>1, <3>2, <3>3
  <2> QED
    BY <2>1, <2>2
<1>6. CASE ShutdownInLoop(c) /\ UNCHANGED frame
  BY <1>6 DEF ShutdownInLoop
<1> QED
  BY <1>2, <1>4, <1>5, <1>6

(* The initial state is well typed.                                        *)
LEMMA TypeInit == Init => TypeOK
  BY ServerAssumption, ChannelTypes, EmptySeq
  DEF Init, TypeOK, Conns, Loops, SubLoops, Base, Frames, Calls, NoFrame,
      NoCall, NoConn

(* The types of the variables no handler changes, for the steps of a loop. *)
LEMMA LoopStepTypes ==
  ASSUME TypeOK, NEW l \in Loops, LoopStep(l)
  PROVE  TypeOK'
<1> USE LoopTypes DEF serverVars, acceptVars, connVars, threadVars, userVars
<1>1. CASE CallbackReturns(l)
  <2>1. frame[l].conn \in Conns
    BY <1>1 DEF CallbackReturns
  <2>2. queue' \in [Loops -> Seq(Functors)]
    <3>1. CASE Enqueue(loop_[frame[l].conn], Fn("connectDestoryed", frame[l].conn))
      BY <2>1, <3>1, EnqueueTypes DEF Ops
    <3>2. CASE Enqueue(Base, Fn("removeConnectionInLoop", frame[l].conn))
      BY <2>1, <3>2, EnqueueTypes DEF Ops
    <3>3. CASE UNCHANGED queue
      BY <3>3 DEF TypeOK
    <3> QED
      BY <1>1, <3>1, <3>2, <3>3 DEF CallbackReturns, RemoveConnectionInLoop
  <2>3. NoFrame \in Frames
    BY DEF Frames
  <2> QED
    <3>1. channel_' \in [Conns -> Records] /\ connections_' \subseteq Conns
      <4>1. /\ \/ UNCHANGED channel_
               \/ channel_' = [channel_ EXCEPT ![frame[l].conn] = Removed(@)]
            /\ connections_' \subseteq connections_
        BY <1>1 DEF CallbackReturns, RemoveConnectionInLoop
      <4>2. Removed(channel_[frame[l].conn]) \in Records
        BY <2>1, ChannelTypes DEF TypeOK
      <4>3. \A x \in Conns : channel_' = [channel_ EXCEPT ![x] = Removed(channel_[x])]
              /\ Removed(channel_[x]) \in Records => channel_' \in [Conns -> Records]
        BY DEF TypeOK
      <4> QED
        BY <2>1, <4>1, <4>2, <4>3 DEF TypeOK
    <3>2. /\ frame' = [frame EXCEPT ![l] = NoFrame]
          /\ UNCHANGED <<maxFds, acceptChannel, arrived, numThreads_,
                         nextConnId_, next_, loop_, state_, wrShut, log, peer,
                         pc, batch, held, quit, call, hold>>
      BY <1>1 DEF CallbackReturns
    <3> QED
      BY <2>2, <2>3, <3>1, <3>2 DEF TypeOK
<1>2. ASSUME batch[l] # <<>>, PopFunctor(l), pc[l] = "run",
             UNCHANGED <<acceptVars, numThreads_, nextConnId_, next_, loop_>>,
             connections_' \subseteq Conns, HandlerTypes',
             queue' \in [Loops -> Seq(Functors)]
      PROVE  TypeOK'
  BY <1>2, PopTypes DEF PopFunctor, TypeOK, HandlerTypes
<1>3. CASE RunEstablished(l)
  BY <1>2, <1>3, PopTypes, HandlersKeepTypes DEF RunEstablished, AtFunctor, TypeOK
<1>4. CASE RunDestoryed(l)
  BY <1>2, <1>4, PopTypes, HandlersKeepTypes DEF RunDestoryed, AtFunctor, TypeOK
<1>5. CASE RunRemove(l)
  <2>1. queue' \in [Loops -> Seq(Functors)]
    BY <1>5, PopTypes, EnqueueTypes
    DEF RunRemove, RemoveConnectionInLoop, AtFunctor, Ops
  <2> QED
    BY <1>2, <1>5, <2>1
    DEF RunRemove, RemoveConnectionInLoop, AtFunctor, TypeOK, HandlerTypes
<1>6. CASE RunShutdown(l)
  BY <1>2, <1>6, PopTypes, HandlersKeepTypes DEF RunShutdown, AtFunctor, TypeOK
<1>7. CASE RunSend(l)
  BY <1>2, <1>7 DEF RunSend, AtFunctor, TypeOK, HandlerTypes
<1>8. CASE BatchDone(l)
  BY <1>8 DEF BatchDone, LastFunctorDone, AfterFunctors, TypeOK
<1>9. CASE LoopDestroyed(l)
  BY <1>9 DEF LoopDestroyed, TypeOK
<1> QED
  BY <1>1, <1>3, <1>4, <1>5, <1>6, <1>7, <1>8, <1>9 DEF LoopStep, RunFunctor

(* Accepting a connection keeps the types.                                 *)
LEMMA NewConnectionTypes ==
  ASSUME TypeOK, NewConnection
  PROVE  TypeOK'
<1> DEFINE c == nextConnId_
           l == IF numThreads_ = 0 THEN Base ELSE next_ + 1
<1>1. c \in Conns /\ nextConnId_ + 1 \in 1..(arrived + 1)
  BY ServerAssumption DEF NewConnection, AcceptReady, TypeOK, Conns
<1>2. l \in Loops
  BY ServerAssumption DEF TypeOK, Loops, SubLoops, Base
<1>3. next_' \in 0..numThreads_ /\ (numThreads_ # 0 => next_' < numThreads_)
  BY ServerAssumption DEF NewConnection, NextLoop, TypeOK
<1>4. /\ nextConnId_' = c + 1
      /\ connections_' = connections_ \cup {c}
      /\ loop_' = [loop_ EXCEPT ![c] = l]
      /\ IF l = Base
         THEN ConnectEstablished(l, c) /\ UNCHANGED queue
         ELSE /\ state_' = [state_ EXCEPT ![c] = "kConnecting"]
              /\ Enqueue(l, Fn("connectEstablished", c))
              /\ UNCHANGED <<channel_, log, wrShut, frame>>
      /\ UNCHANGED <<maxFds, acceptChannel, arrived, numThreads_, peer, pc,
                     batch, held, quit, call, hold>>
  BY DEF NewConnection, acceptVars, threadVars, userVars
<1> HIDE DEF c, l
<1>5. queue' \in [Loops -> Seq(Functors)] /\ HandlerTypes'
  <2>1. CASE l = Base
    BY <1>1, <1>2, <1>4, <2>1, HandlersKeepTypes DEF TypeOK
  <2>2. CASE l # Base
    <3>1. queue' \in [Loops -> Seq(Functors)]
      BY <1>1, <1>2, <1>4, <2>2, EnqueueTypes DEF Ops
    <3> QED
      BY <1>1, <1>4, <2>2, <3>1 DEF TypeOK, HandlerTypes
  <2> QED
    BY <2>1, <2>2
<1>6. c + 1 \in 1..(arrived + 1)
  BY <1>1 DEF c
<1> QED
  BY <1>1, <1>2, <1>3, <1>4, <1>5, <1>6 DEF TypeOK, HandlerTypes

(* Every step keeps the types.                                             *)
LEMMA TypeNext == TypeOK /\ [Next]_vars => TypeOK'
<1> SUFFICES ASSUME TypeOK, [Next]_vars PROVE TypeOK'
  OBVIOUS
<1> USE DEF serverVars, acceptVars, connVars, threadVars, userVars
<1>1. CASE Start
  BY <1>1, ChannelTypes, LoopTypes DEF Start, listen, TypeOK
<1>2. CASE ClientArrives
  BY <1>2, ServerAssumption DEF ClientArrives, TypeOK
<1>3. CASE NewConnection
  BY <1>3, NewConnectionTypes
<1>4. CASE AcceptFails
  BY <1>4 DEF AcceptFails, vars, TypeOK
<1>5. CASE DestroyAcceptor
  BY <1>5, ChannelTypes DEF DestroyAcceptor, TypeOK
<1>6. ASSUME NEW c \in Conns, PeerCloses(c) PROVE TypeOK'
  BY <1>6 DEF PeerCloses, TypeOK
<1>7. ASSUME NEW c \in Conns, DestroyConnection(c) PROVE TypeOK'
  <2>1. queue' \in [Loops -> Seq(Functors)] /\ HandlerTypes'
    <3>1. CASE loop_[c] = Base
      BY <1>7, <3>1, LoopTypes, HandlersKeepTypes DEF DestroyConnection, TypeOK
    <3>2. CASE loop_[c] # Base
      BY <1>7, <3>2, LoopTypes, EnqueueTypes
      DEF DestroyConnection, TypeOK, HandlerTypes, Ops
    <3> QED
      BY <3>1, <3>2
  <2> QED
    BY <1>7, <2>1 DEF DestroyConnection, TypeOK, HandlerTypes
<1>8. ASSUME NEW l \in Loops, NEW c \in Conns, HandleMessage(l, c) PROVE TypeOK'
  BY <1>8 DEF HandleMessage, TypeOK, Frames
<1>9. ASSUME NEW l \in Loops, NEW c \in Conns, HandleEnd(l, c) PROVE TypeOK'
  <2>1. HandlerTypes'
    BY <1>9, HandlersKeepTypes DEF HandleEnd
  <2> QED
    BY <1>9, <2>1 DEF HandleEnd, TypeOK, HandlerTypes
<1>10. ASSUME NEW l \in Loops, SwapFunctors(l) PROVE TypeOK'
  BY <1>10, EmptySeq DEF SwapFunctors, TypeOK
<1>11. ASSUME NEW l \in Loops, LoopStep(l) PROVE TypeOK'
  BY <1>11, LoopStepTypes
<1>12. ASSUME NEW t \in Threads, NEW c \in Conns, ShutdownTest(t, c) \/ SendTest(t, c)
       PROVE  TypeOK'
  <2>1. \E at \in {"tested", "sending"} : CallGoesTo(t, at, c)
    BY <1>12 DEF ShutdownTest, SendTest
  <2>2. UNCHANGED connVars
    BY <1>12 DEF ShutdownTest, SendTest
  <2> QED
    BY <2>1, <2>2 DEF CallGoesTo, TypeOK, Calls
<1>13. ASSUME NEW t \in Threads, ShutdownSet(t) PROVE TypeOK'
  <2>1. call[t].conn \in Conns
    BY <1>13, LoopTypes DEF ShutdownSet
  <2> QED
    BY <1>13, <2>1 DEF ShutdownSet, CallGoesTo, TypeOK, Calls
<1>14. ASSUME NEW t \in Threads, ShutdownQueue(t) \/ SendQueue(t) PROVE TypeOK'
  <2>1. call[t].conn \in Conns
    BY <1>14, LoopTypes DEF ShutdownQueue, SendQueue, QueueRaw
  <2>2. queue' \in [Loops -> Seq(Functors)]
    BY <1>14, <2>1, LoopTypes, EnqueueTypes
    DEF ShutdownQueue, SendQueue, QueueRaw, Ops, RawOps
  <2> QED
    BY <1>14, <2>1, <2>2 DEF ShutdownQueue, SendQueue, QueueRaw, TypeOK, Calls
<1>15. ASSUME NEW u \in Users, Release(u) \/ \E c \in Conns : Acquire(u, c)
       PROVE  TypeOK'
  <2>1. hold' \in [Users -> Conns \cup {NoConn}]
    <3>1. \E x \in Conns \cup {NoConn} : hold' = [hold EXCEPT ![u] = x]
      BY <1>15 DEF Release, Acquire
    <3> QED
      BY <3>1 DEF TypeOK
  <2>2. UNCHANGED <<serverVars, connVars, peer, threadVars, frame, queue, call>>
    BY <1>15 DEF Release, Acquire
  <2> QED
    BY <2>1, <2>2 DEF TypeOK
<1>16. CASE Quit
  BY <1>16, LoopTypes DEF Quit, TypeOK
<1>17. ASSUME NEW k \in SubLoops, DestroyThread(k) PROVE TypeOK'
  BY <1>17, LoopTypes DEF DestroyThread, TypeOK
<1>18. CASE UNCHANGED vars
  BY <1>18 DEF vars, TypeOK
<1>19. Users \subseteq Threads
  BY DEF Threads
<1> QED
  BY <1>1, <1>2, <1>3, <1>4, <1>5, <1>6, <1>7, <1>8, <1>9, <1>10, <1>11,
     <1>12, <1>13, <1>14, <1>15, <1>16, <1>17, <1>18, <1>19 DEF Next

(* Every variable keeps its type, and the local vector of                  *)
(* doPendingFunctors is empty outside it.                                  *)
THEOREM TypeCorrect == Spec => []TypeOK
  BY TypeInit, TypeNext, PTL DEF Spec
------------------------------------------------------------------------------
(* Functors and queues of functors. *)

(* A functor is determined by its member function and its connection.      *)
LEMMA FunctorFacts ==
  /\ \A op \in Ops, c \in Conns : /\ Fn(op, c) \in Functors
                                  /\ Fn(op, c).op = op /\ Fn(op, c).conn = c
  /\ \A f \in Functors : f.op \in Ops /\ f.conn \in Conns /\ f = Fn(f.op, f.conn)
  /\ \A a, b \in Ops, c, d \in Conns : Fn(a, c) = Fn(b, d) <=> a = b /\ c = d
  BY DEF Fn, Functors

(* Appending a functor that does not wait yet keeps a queue orderly.       *)
LEMMA OrderlyAppend ==
  ASSUME NEW s \in Seq(Functors), NEW f \in Functors, Orderly(s),
         f.op \notin RawOps => f \notin Members(s),
         f.op = "connectEstablished" => Fn("connectDestoryed", f.conn) \notin Members(s)
  PROVE  /\ Orderly(Append(s, f))
         /\ Members(Append(s, f)) = Members(s) \cup {f}
<1> DEFINE n == Len(s)
           u == Append(s, f)
<1>1. /\ n \in Nat /\ DOMAIN s = 1..n /\ DOMAIN u = 1..(n + 1)
      /\ \A i \in 1..n : u[i] = s[i]
      /\ u[n + 1] = f
  BY AppendIndices
<1> HIDE DEF n, u
<1>2. DOMAIN u = DOMAIN s \cup {n + 1}
  BY <1>1
<1>3. Members(u) = Members(s) \cup {f}
  BY <1>1, <1>2 DEF Members
<1>4. ASSUME NEW i \in DOMAIN u, NEW j \in DOMAIN u
      PROVE  /\ u[i] = u[j] /\ u[i].op \notin RawOps => i = j
             /\ u[i].op = "connectEstablished" /\ u[j] = Fn("connectDestoryed", u[i].conn)
                  => i <= j
  <2>1. CASE i \in DOMAIN s /\ j \in DOMAIN s
    BY <1>1, <2>1 DEF Orderly
  <2>2. CASE i = n + 1
    <3>1. j \in DOMAIN s => u[j] \in Members(s)
      BY <1>1 DEF Members
    <3> QED
      BY <1>1, <1>2, <2>2, <3>1
  <2>3. CASE i \in DOMAIN s /\ j = n + 1
    <3>1. u[i] \in Members(s)
      BY <1>1, <2>3 DEF Members
    <3> QED
      BY <1>1, <2>3, <3>1
  <2> QED
    BY <1>2, <2>1, <2>2, <2>3
<1>5. Orderly(u)
  BY <1>4 DEF Orderly
<1> QED
  BY <1>3, <1>5 DEF u

(* Taking the head off keeps a queue orderly; a head with a shared_ptr     *)
(* does not stand in the rest.                                             *)
LEMMA OrderlyTail ==
  ASSUME NEW s \in Seq(Functors), s # <<>>, Orderly(s)
  PROVE  /\ Orderly(Tail(s))
         /\ Members(s) = Members(Tail(s)) \cup {Head(s)}
         /\ Head(s).op \notin RawOps => Head(s) \notin Members(Tail(s))
         /\ Head(s).op = "connectDestoryed" =>
              Fn("connectEstablished", Head(s).conn) \notin Members(Tail(s))
<1> DEFINE n == Len(s)
           u == Tail(s)
           h == Head(s)
<1>1. /\ n \in Nat \ {0} /\ DOMAIN s = 1..n /\ DOMAIN u = 1..(n - 1)
      /\ \A i \in 1..(n - 1) : u[i] = s[i + 1]
      /\ h = s[1] /\ h \in Functors
  BY TailIndices
<1> HIDE DEF n, u, h
<1>2. \A i \in DOMAIN u : i + 1 \in DOMAIN s /\ i + 1 # 1 /\ u[i] = s[i + 1]
  BY <1>1
<1>3. 1 \in DOMAIN s /\ \A i \in DOMAIN s : i = 1 \/ (i - 1 \in DOMAIN u /\ s[i] = u[i - 1])
  <2> SUFFICES ASSUME NEW i \in DOMAIN s, i # 1
               PROVE  i - 1 \in DOMAIN u /\ s[i] = u[i - 1]
    BY <1>1
  <2>1. i - 1 \in 1..(n - 1)
    BY <1>1
  <2>2. u[i - 1] = s[(i - 1) + 1] /\ (i - 1) + 1 = i
    BY <1>1, <2>1
  <2> QED
    BY <1>1, <2>1, <2>2
<1>4. Members(s) = Members(u) \cup {h}
  <2>1. \A x : x \in Members(s) => x \in Members(u) \cup {h}
    BY <1>1, <1>3 DEF Members
  <2>2. \A x : x \in Members(u) \cup {h} => x \in Members(s)
    BY <1>1, <1>2, <1>3 DEF Members
  <2> QED
    BY <2>1, <2>2
<1>5. Orderly(u)
  <2>1. ASSUME NEW i \in DOMAIN u, NEW j \in DOMAIN u
        PROVE  /\ u[i] = u[j] /\ u[i].op \notin RawOps => i = j
               /\ u[i].op = "connectEstablished" /\ u[j] = Fn("connectDestoryed", u[i].conn)
                    => i <= j
    <3>1. /\ s[i + 1] = s[j + 1] /\ s[i + 1].op \notin RawOps => i + 1 = j + 1
          /\ s[i + 1].op = "connectEstablished"
             /\ s[j + 1] = Fn("connectDestoryed", s[i + 1].conn) => i + 1 <= j + 1
      BY <1>2 DEF Orderly
    <3> QED
      BY <1>1, <1>2, <3>1
  <2> QED
    BY <2>1 DEF Orderly
<1>6. h.op \notin RawOps => h \notin Members(u)
  <2> SUFFICES ASSUME h.op \notin RawOps, NEW i \in DOMAIN u, u[i] = h
               PROVE  FALSE
    BY DEF Members
  <2>1. s[1] = s[i + 1] /\ s[1].op \notin RawOps
    BY <1>1, <1>2
  <2>2. 1 = i + 1
    BY <1>2, <1>3, <2>1 DEF Orderly
  <2> QED
    BY <1>2, <2>2
<1>7. h.op = "connectDestoryed" => Fn("connectEstablished", h.conn) \notin Members(u)
  <2> SUFFICES ASSUME h.op = "connectDestoryed", NEW i \in DOMAIN u,
                      u[i] = Fn("connectEstablished", h.conn)
               PROVE  FALSE
    BY DEF Members
  <2>1. h = Fn("connectDestoryed", h.conn) /\ h.conn \in Conns
    BY <1>1, FunctorFacts
  <2>2. u[i].op = "connectEstablished" /\ u[i].conn = h.conn
    <3>1. "connectEstablished" \in Ops
      BY DEF Ops
    <3> QED
      BY <2>1, <3>1, FunctorFacts
  <2>3. i + 1 <= 1
    <3>1. s[i + 1] = u[i] /\ i + 1 \in DOMAIN s /\ 1 \in DOMAIN s /\ s[1] = h
      BY <1>1, <1>2, <1>3
    <3>2. s[i + 1].op = "connectEstablished" /\ s[1] = Fn("connectDestoryed", s[i + 1].conn)
      BY <2>1, <2>2, <3>1
    <3> QED
      BY <3>1, <3>2 DEF Orderly
  <2> QED
    BY <1>1, <2>3
<1> QED
  BY <1>4, <1>5, <1>6, <1>7 DEF u, h

(* The functors that wait are functors.                                    *)
LEMMA TodoTypes ==
  ASSUME TypeOK, NEW l \in Loops
  PROVE  /\ Todo[l] \in Seq(Functors)
         /\ Waiting[l] = Members(Todo[l])
         /\ Waiting[l] \subseteq Functors
<1>1. Todo[l] \in Seq(Functors) /\ Waiting[l] = Members(Todo[l])
  BY ConcatProperties DEF TypeOK, Todo, Waiting
<1>2. \A i \in DOMAIN Todo[l] : Todo[l][i] \in Functors
  BY <1>1
<1> QED
  BY <1>1, <1>2 DEF Members

(* Appending to a queue appends to the functors that wait.                 *)
LEMMA FunctorsAppended ==
  \A s, u \in Seq(Functors), f \in Functors :
    s \o Append(u, f) = Append(s \o u, f)
  BY ConcatAppend

(* What a loop has to do after queueInLoop.                                *)
LEMMA Appended ==
  ASSUME TypeOK, Ordered, NEW l \in Loops, NEW op \in Ops, NEW c \in Conns,
         Enqueue(l, Fn(op, c)), UNCHANGED batch,
         op \notin RawOps => Fn(op, c) \notin Waiting[l],
         op = "connectEstablished" => Fn("connectDestoryed", c) \notin Waiting[l]
  PROVE  /\ Ordered'
         /\ Waiting' = [Waiting EXCEPT ![l] = @ \cup {Fn(op, c)}]
<1>1. Fn(op, c) \in Functors /\ Fn(op, c).op = op /\ Fn(op, c).conn = c
  BY FunctorFacts
<1> DEFINE f == Fn(op, c)
<1> HIDE DEF f
<1>2. \A k \in Loops : /\ batch[k] \in Seq(Functors) /\ queue[k] \in Seq(Functors)
                       /\ batch'[k] = batch[k]
                       /\ k # l => queue'[k] = queue[k]
  BY DEF Enqueue, TypeOK
<1>3. queue'[l] = Append(queue[l], f) /\ f \in Functors
  BY <1>1 DEF Enqueue, TypeOK, f
<1>4. \A k \in Loops : k # l => Todo'[k] = Todo[k]
  BY <1>2 DEF Todo
<1>5. Todo'[l] = Append(Todo[l], f)
  <2>1. batch[l] \o Append(queue[l], f) = Append(batch[l] \o queue[l], f)
    BY <1>2, <1>3, FunctorsAppended, Zenon
  <2> QED
    BY <1>2, <1>3, <2>1 DEF Todo
<1>6. Orderly(Todo'[l]) /\ Members(Todo'[l]) = Waiting[l] \cup {f}
  <2>1. Todo[l] \in Seq(Functors) /\ Orderly(Todo[l]) /\ Waiting[l] = Members(Todo[l])
    BY TodoTypes DEF Ordered
  <2>2. /\ f.op \notin RawOps => f \notin Members(Todo[l])
        /\ f.op = "connectEstablished" =>
             Fn("connectDestoryed", f.conn) \notin Members(Todo[l])
    BY <1>1, <2>1 DEF f
  <2>3. /\ Orderly(Append(Todo[l], f))
        /\ Members(Append(Todo[l], f)) = Members(Todo[l]) \cup {f}
    BY <1>3, <2>1, <2>2, OrderlyAppend
  <2> QED
    BY <1>5, <2>1, <2>3
<1>7. Ordered'
  BY <1>4, <1>6 DEF Ordered
<1>8. Waiting' = [Waiting EXCEPT ![l] = Waiting[l] \cup {f}]
  BY <1>4, <1>6 DEF Waiting
<1> QED
  BY <1>7, <1>8 DEF f

(* What a loop has to do after it has taken the head of its local vector.  *)
LEMMA Popped ==
  ASSUME TypeOK, Ordered, NEW l \in Loops, batch[l] # <<>>, PopFunctor(l),
         UNCHANGED queue
  PROVE  LET f == Head(batch[l]) IN
         /\ Ordered'
         /\ \A k \in Loops \ {l} : Waiting'[k] = Waiting[k]
         /\ Waiting[l] = Waiting'[l] \cup {f}
         /\ f.op \notin RawOps => f \notin Waiting'[l]
         /\ f.op = "connectDestoryed" => Fn("connectEstablished", f.conn) \notin Waiting'[l]
<1> DEFINE f == Head(batch[l])
<1>1. \A k \in Loops : /\ batch[k] \in Seq(Functors) /\ queue[k] \in Seq(Functors)
                       /\ queue'[k] = queue[k]
                       /\ k # l => batch'[k] = batch[k]
  BY DEF PopFunctor, TypeOK
<1>2. batch'[l] = Tail(batch[l])
  BY DEF PopFunctor, TypeOK
<1>3. \A k \in Loops : k # l => Todo'[k] = Todo[k]
  BY <1>1 DEF Todo
<1>4. Todo[l] # <<>> /\ Head(Todo[l]) = f /\ Todo'[l] = Tail(Todo[l])
  <2>1. /\ batch[l] \o queue[l] # <<>>
        /\ Head(batch[l] \o queue[l]) = Head(batch[l])
        /\ Tail(batch[l] \o queue[l]) = Tail(batch[l]) \o queue[l]
    BY <1>1, ConcatHeadTail
  <2> QED
    BY <1>1, <1>2, <2>1 DEF Todo
<1> HIDE DEF f
<1>5. Todo[l] \in Seq(Functors) /\ Orderly(Todo[l]) /\ Waiting[l] = Members(Todo[l])
  BY TodoTypes DEF Ordered
<1>6. /\ Orderly(Todo'[l])
      /\ Members(Todo[l]) = Members(Todo'[l]) \cup {f}
      /\ f.op \notin RawOps => f \notin Members(Todo'[l])
      /\ f.op = "connectDestoryed" =>
           Fn("connectEstablished", f.conn) \notin Members(Todo'[l])
  BY <1>4, <1>5, OrderlyTail
<1>7. Ordered'
  BY <1>3, <1>6 DEF Ordered
<1>8. Waiting'[l] = Members(Todo'[l]) /\ \A k \in Loops \ {l} : Waiting'[k] = Waiting[k]
  BY <1>3 DEF Waiting
<1> QED
  BY <1>5, <1>6, <1>7, <1>8 DEF f

(* What a loop has to do after it has taken a removal off its local vector *)
(* and the removal has put connectDestoryed into a queue.                  *)
LEMMA PoppedAppended ==
  ASSUME TypeOK, Ordered, NEW l \in Loops, batch[l] # <<>>, PopFunctor(l),
         NEW k \in Loops, NEW c \in Conns, Enqueue(k, Fn("connectDestoryed", c)),
         Head(batch[l]) = Fn("removeConnectionInLoop", c),
         Fn("connectDestoryed", c) \notin Waiting[k]
  PROVE  /\ Ordered'
         /\ \A m \in Loops :
              Waiting'[m] = (Waiting[m] \ (IF m = l THEN {Fn("removeConnectionInLoop", c)} ELSE {}))
                              \cup (IF m = k THEN {Fn("connectDestoryed", c)} ELSE {})
<1> DEFINE f == Fn("connectDestoryed", c)
           g == Fn("removeConnectionInLoop", c)
<1>1. /\ f \in Functors /\ f.op = "connectDestoryed" /\ f.conn = c
      /\ g.op = "removeConnectionInLoop" /\ f # g
  BY FunctorFacts DEF Ops
<1> HIDE DEF f, g
<1>2. \A m \in Loops : /\ batch[m] \in Seq(Functors) /\ queue[m] \in Seq(Functors)
                       /\ batch'[m] = IF m = l THEN Tail(batch[l]) ELSE batch[m]
                       /\ queue'[m] = IF m = k THEN Append(queue[k], f) ELSE queue[m]
  BY DEF PopFunctor, Enqueue, TypeOK, f
<1> DEFINE u == [m \in Loops |-> IF m = l THEN Tail(Todo[m]) ELSE Todo[m]]
<1>3. \A m \in Loops : Todo[m] \in Seq(Functors) /\ Orderly(Todo[m])
                       /\ Waiting[m] = Members(Todo[m])
  BY TodoTypes DEF Ordered
<1>4. Todo[l] # <<>> /\ Head(Todo[l]) = g /\ Tail(Todo[l]) = Tail(batch[l]) \o queue[l]
  <2>1. /\ batch[l] \o queue[l] # <<>>
        /\ Head(batch[l] \o queue[l]) = Head(batch[l])
        /\ Tail(batch[l] \o queue[l]) = Tail(batch[l]) \o queue[l]
    <3>1. /\ batch[l] \in Seq(Functors) /\ queue[l] \in Seq(Functors)
          /\ batch[l] # <<>>
      BY <1>2
    <3> QED
      BY <3>1, ConcatHeadTail
  <2> QED
    BY <2>1 DEF Todo, g
<1>5. \A m \in Loops :
        /\ u[m] \in Seq(Functors) /\ Orderly(u[m])
        /\ Members(u[m]) = Waiting[m] \ (IF m = l THEN {g} ELSE {})
  <2>1. /\ Orderly(Tail(Todo[l])) /\ Tail(Todo[l]) \in Seq(Functors)
        /\ Members(Todo[l]) = Members(Tail(Todo[l])) \cup {g}
        /\ g \notin Members(Tail(Todo[l]))
    <3>1. g.op \notin RawOps
      BY <1>1 DEF RawOps
    <3> QED
      BY <1>3, <1>4, <3>1, OrderlyTail, TailIndices
  <2> QED
    BY <1>3, <2>1
<1>6. \A m \in Loops : Todo'[m] = IF m = k THEN Append(u[m], f) ELSE u[m]
  <2>1. Tail(batch[l]) \in Seq(Functors)
    BY <1>2, TailIndices
  <2>2. Tail(batch[l]) \o Append(queue[l], f) = Append(Tail(batch[l]) \o queue[l], f)
    BY <1>1, <1>2, <2>1, FunctorsAppended, Zenon
  <2>3. batch[k] \o Append(queue[k], f) = Append(batch[k] \o queue[k], f)
    BY <1>1, <1>2, FunctorsAppended, Zenon
  <2> QED
    BY <1>2, <1>4, <2>2, <2>3 DEF Todo
<1> HIDE DEF u
<1>7. /\ Orderly(Append(u[k], f))
      /\ Members(Append(u[k], f)) = Members(u[k]) \cup {f}
  <2>1. f \notin Members(u[k])
    BY <1>5 DEF f
  <2>2. u[k] \in Seq(Functors) /\ Orderly(u[k])
    BY <1>5
  <2> QED
    BY <1>1, <2>1, <2>2, OrderlyAppend
<1>8. Ordered'
  BY <1>5, <1>6, <1>7 DEF Ordered
<1>9. \A m \in Loops : Waiting'[m] = Members(Todo'[m])
  BY DEF Waiting
<1>10. \A m \in Loops : Waiting'[m] = (Waiting[m] \ (IF m = l THEN {g} ELSE {}))
                                        \cup (IF m = k THEN {f} ELSE {})
  BY <1>5, <1>6, <1>7, <1>9
<1> QED
  BY <1>8, <1>10 DEF f, g

(* The swap of the vectors changes nothing of what waits.                  *)
LEMMA Swapped ==
  ASSUME TypeOK, NEW l \in Loops, SwapFunctors(l)
  PROVE  UNCHANGED Todo
<1>1. ASSUME NEW k \in Loops PROVE batch'[k] \o queue'[k] = batch[k] \o queue[k]
  <2>1. CASE k # l
    BY <2>1 DEF SwapFunctors, TypeOK
  <2>2. CASE k = l
    <3>1. /\ batch[l] = <<>> /\ queue[l] \in Seq(Functors)
          /\ batch'[l] = queue[l] /\ queue'[l] = <<>>
      BY DEF SwapFunctors, TypeOK
    <3> QED
      BY <2>2, <3>1, ConcatEmptySeq
  <2> QED
    BY <2>1, <2>2
<1> QED
  BY <1>1 DEF Todo

(* When nothing of Todo changes, nothing of what waits does.               *)
LEMMA TodoSame ==
  UNCHANGED Todo => UNCHANGED Waiting /\ (Ordered => Ordered')
  BY DEF Waiting, Ordered
------------------------------------------------------------------------------
(* The inductive invariant. *)

(* A log is empty, then <<"up">>, then <<"up", "down">>.                   *)
LEMMA LogFacts ==
  /\ <<>> # <<"up">> /\ <<>> # <<"up", "down">> /\ <<"up">> # <<"up", "down">>
  /\ Append(<<>>, "up") = <<"up">>
  /\ Append(<<"up">>, "down") = <<"up", "down">>
<1>1. Len(<<"up">>) = 1 /\ Len(<<"up", "down">>) = 2 /\ Len(<<>>) = 0
  OBVIOUS
<1>2. Append(<<>>, "up") = <<"up">>
  OBVIOUS
<1>3. Append(<<"up">>, "down") = <<"up", "down">>
  <2> DEFINE S == {"up", "down"}
             s == Append(<<"up">>, "down")
             t == <<"up", "down">>
  <2>1. /\ s \in Seq(S) /\ Len(s) = 2 /\ s[1] = "up" /\ s[2] = "down"
    <3>1. <<"up">> \in Seq(S) /\ "down" \in S /\ Len(<<"up">>) = 1 /\ <<"up">>[1] = "up"
      OBVIOUS
    <3> QED
      BY <3>1, AppendProperties
  <2>2. t \in Seq(S) /\ Len(t) = 2 /\ t[1] = "up" /\ t[2] = "down"
    OBVIOUS
  <2> HIDE DEF S, s, t
  <2>3. Len(s) = Len(t) /\ \A i \in 1..Len(s) : s[i] = t[i]
    BY <2>1, <2>2
  <2>4. s = t
    BY <2>1, <2>2, <2>3, SeqEqual
  <2> QED
    BY <2>4 DEF s, t
<1> QED
  BY <1>1, <1>2, <1>3

(* What the state refers to are connections and loops.                     *)
References ==
  /\ Base \in Loops
  /\ \A l \in Loops : frame[l].at # "none" => frame[l].conn \in Conns
  /\ \A t \in Threads : call[t].at # "none" => call[t].conn \in Conns
  /\ \A u \in Users : hold[u] # NoConn => hold[u] \in Conns
  /\ \A c \in Conns : loop_[c] \in Loops

(* A loop is inside a callback when its frame says so.                     *)
LEMMA FrameFacts ==
  TypeOK => /\ \A l \in Loops : /\ Free(l) <=> frame[l].at = "none"
                                /\ frame[l].at # "none" => frame[l].conn \in Conns
            /\ \A t \in Threads : call[t].at # "none" => call[t].conn \in Conns
            /\ NoFrame.at = "none"
            /\ References
<1> SUFFICES ASSUME TypeOK
             PROVE  /\ \A l \in Loops : /\ Free(l) <=> frame[l].at = "none"
                                        /\ frame[l].at # "none" => frame[l].conn \in Conns
                    /\ \A t \in Threads : call[t].at # "none" => call[t].conn \in Conns
                    /\ NoFrame.at = "none"
                    /\ \A u \in Users : hold[u] # NoConn => hold[u] \in Conns
    BY LoopTypes DEF References
<1>1. NoFrame.at = "none"
  BY DEF NoFrame
<1>2. \A f \in Frames : f # NoFrame => f.at # "none" /\ f.conn \in Conns
  BY DEF Frames
<1>3. \A l \in Loops : frame[l] \in Frames
  BY DEF TypeOK
<1>4. \A u \in Users : hold[u] # NoConn => hold[u] \in Conns
  BY DEF TypeOK
<1> QED
  BY <1>1, <1>2, <1>3, <1>4, LoopTypes DEF Free

(* What a channel's record is after its setters.                           *)
LEMMA ChannelFacts ==
  /\ ~Registered(NewChannel) /\ NewChannel.index = "kNew"
  /\ \A r \in Records :
       /\ r.index = "kNew" => ~Registered(r)
       /\ ~Registered(r) => Registered(enableReading(r))
       /\ Registered(r) => ~Registered(disableAll(r)) /\ disableAll(r).index # "kNew"
       /\ Removed(r).index = "kNew" /\ ~Registered(Removed(r))
  BY DEF NewChannel, Records, Indexes, Masks, enableReading, disableAll, Removed,
         WithEvents, Updated, isNoneEvent, kReadEvent, Registered

(* A step that leaves the connections, the callbacks and the functors that *)
(* hold a shared_ptr alone, ends no EventLoop, and starts calls, queues    *)
(* functors and holds pointers only of connections the user has heard of.  *)
LEMMA QuietStep ==
  ASSUME TypeOK, Core,
         UNCHANGED <<nextConnId_, connections_, loop_, state_, channel_, log, frame>>,
         \A l \in Loops, op \in Ops, c \in Conns :
           /\ Fn(op, c) \in Waiting'[l] =>
                Fn(op, c) \in Waiting[l] \/ (op \in RawOps /\ l = loop_[c] /\ Born(c))
           /\ op \notin RawOps /\ Fn(op, c) \in Waiting[l] => Fn(op, c) \in Waiting'[l],
         \A l \in Loops : pc'[l] = "gone" <=> pc[l] = "gone",
         BaseOver => BaseOver',
         \A t \in Threads : call'[t].at # "none" => log[call'[t].conn] # <<>>,
         \A u \in Users : hold'[u] # NoConn => Born(hold'[u])
  PROVE  Core'
<1> USE LoopTypes DEF Core
<1>1. References
  BY FrameFacts
<1>2. Births'
  BY DEF Births, Born, Ops, RawOps
<1>3. Placement'
  BY DEF Placement, Ops, RawOps
<1>4. Heard'
  BY DEF Heard
<1>5. \A l \in Loops, c \in Conns :
        /\ Fn("connectEstablished", c) \in Waiting'[l]
             <=> Fn("connectEstablished", c) \in Waiting[l]
        /\ Fn("connectDestoryed", c) \in Waiting'[l]
             <=> Fn("connectDestoryed", c) \in Waiting[l]
        /\ Fn("removeConnectionInLoop", c) \in Waiting'[l]
             <=> Fn("removeConnectionInLoop", c) \in Waiting[l]
  BY DEF Ops, RawOps
<1>6. ASSUME NEW c \in Conns, Born(c) PROVE ConnInv(c)'
  <2>1. ConnInv(c) /\ loop_[c] \in Loops
    BY <1>6, LoopTypes
  <2>2. \A at : At(c, at)' <=> At(c, at)
    BY DEF At
  <2>3. States(c)'
    BY <2>1, <2>2 DEF ConnInv, States
  <2>4. Establishing(c)'
    BY <1>5, <2>1 DEF ConnInv, Establishing
  <2>5. Closing(c)'
    BY <1>1, <1>5, <2>1, <2>2 DEF ConnInv, Closing, References
  <2>6. Removal(c)'
    BY <1>5, <2>1, <2>2 DEF ConnInv, Removal, InDestruction
  <2> QED
    BY <2>3, <2>4, <2>5, <2>6 DEF ConnInv
<1> QED
  BY <1>2, <1>3, <1>4, <1>6 DEF Born

(* A step that changes one connection, its callback and its functors: what *)
(* the invariant says of the others stays true.                            *)
LEMMA LocalStep ==
  ASSUME TypeOK, Core, NEW c \in Conns, NEW l \in Loops,
         UNCHANGED <<pc, hold>>,
         loop_'[c] = l, Born(c) => loop_[c] = l, Born(c)',
         frame'[l] = frame[l] \/ (/\ frame[l].at # "none" => frame[l].conn = c
                                  /\ frame'[l].at # "none" => frame'[l].conn = c),
         \A k \in Loops \ {l} : frame'[k] = frame[k],
         \A d \in Conns \ {c} :
           /\ loop_'[d] = loop_[d] /\ state_'[d] = state_[d]
           /\ log'[d] = log[d] /\ channel_'[d] = channel_[d]
           /\ d \in connections_' <=> d \in connections_
           /\ \A k \in Loops, op \in Ops : Fn(op, d) \in Waiting'[k] <=> Fn(op, d) \in Waiting[k],
         \A d \in Conns : d < nextConnId_' <=> d < nextConnId_ \/ d = c,
         \A k \in Loops, op \in Ops : Fn(op, c) \in Waiting'[k] =>
           /\ k = IF op = "removeConnectionInLoop" THEN Base ELSE l
           /\ op = "connectEstablished" => k # Base,
         log[c] # <<>> => log'[c] # <<>>,
         \A t \in Threads : call'[t].at # "none" =>
           call[t].at # "none" /\ call'[t].conn = call[t].conn,
         ConnInv(c)'
  PROVE  Core'
<1>1. References
  BY FrameFacts
<1> USE DEF References
<1>2. \A d \in Conns : Born(d)' <=> Born(d) \/ d = c
  BY DEF Born
<1>3. \A k \in Loops : frame'[k].at # "none" =>
        /\ frame'[k].conn \in Conns
        /\ loop_'[frame'[k].conn] = k
        /\ state_'[frame'[k].conn] # "unborn"
  <2> SUFFICES ASSUME NEW k \in Loops, frame'[k].at # "none"
               PROVE  /\ frame'[k].conn \in Conns
                      /\ loop_'[frame'[k].conn] = k
                      /\ state_'[frame'[k].conn] # "unborn"
    OBVIOUS
  <2>1. CASE frame'[k] # frame[k]
    BY <2>1 DEF Born
  <2>2. CASE frame'[k] = frame[k]
    <3>1. /\ frame[k].conn \in Conns /\ frame'[k].conn = frame[k].conn
          /\ loop_[frame[k].conn] = k /\ state_[frame[k].conn] # "unborn"
      BY <1>1, <2>2 DEF Core, Placement, Births, Born
    <3>2. frame[k].conn = c => loop_'[c] = k /\ state_'[c] # "unborn"
      BY <3>1 DEF Born
    <3> QED
      BY <2>2, <3>1, <3>2 DEF Born
  <2> QED
    BY <2>1, <2>2
<1>4. Births'
  <2>1. \A d \in Conns : Born(d)' <=> d < nextConnId_'
    BY <1>2 DEF Core, Births
  <2>2. \A d \in Conns : ~Born(d)' => /\ log'[d] = <<>> /\ channel_'[d] = NewChannel
                                      /\ d \notin connections_'
    BY <1>2 DEF Core, Births
  <2>3. \A k \in Loops, op \in Ops, d \in Conns : Fn(op, d) \in Waiting'[k] => Born(d)'
    BY <1>2 DEF Core, Births
  <2>4. \A u \in Users : hold'[u] # NoConn => state_'[hold'[u]] # "unborn"
    <3>1. \A u \in Users : hold'[u] # NoConn =>
            hold'[u] \in Conns /\ state_[hold'[u]] # "unborn"
      BY <1>1 DEF Core, Births, Born
    <3> QED
      BY <3>1 DEF Born
  <2> QED
    BY <1>3, <2>1, <2>2, <2>3, <2>4 DEF Births, Born
<1>5. Placement'
  <2>1. \A k \in Loops, op \in Ops, d \in Conns : Fn(op, d) \in Waiting'[k] =>
          k = IF op = "removeConnectionInLoop" THEN Base ELSE loop_'[d]
    BY DEF Core, Placement
  <2>2. \A d \in Conns : Fn("connectEstablished", d) \notin Waiting'[Base]
    BY <1>1 DEF Core, Placement, Ops
  <2> QED
    BY <1>3, <2>1, <2>2 DEF Placement
<1>6. Heard'
  <2>1. \A t \in Threads : call'[t].at # "none" =>
          call'[t].conn \in Conns /\ log[call'[t].conn] # <<>>
    BY <1>1 DEF Core, Heard
  <2> QED
    BY <2>1 DEF Heard
<1>7. ASSUME NEW d \in Conns, d # c, Born(d)' PROVE ConnInv(d)'
  <2>1. ConnInv(d)
    BY <1>2, <1>7 DEF Core
  <2>2. loop_[d] \in Loops /\ loop_'[d] = loop_[d] /\ state_'[d] = state_[d]
        /\ log'[d] = log[d] /\ channel_'[d] = channel_[d]
        /\ (d \in connections_' <=> d \in connections_)
    BY <1>1, <1>7
  <2>3. /\ \A k \in Loops :
             /\ Fn("connectEstablished", d) \in Waiting'[k]
                  <=> Fn("connectEstablished", d) \in Waiting[k]
             /\ Fn("connectDestoryed", d) \in Waiting'[k]
                  <=> Fn("connectDestoryed", d) \in Waiting[k]
             /\ Fn("removeConnectionInLoop", d) \in Waiting'[k]
                  <=> Fn("removeConnectionInLoop", d) \in Waiting[k]
    BY <1>7 DEF Ops
  <2>4. \A at : at # "none" => (At(d, at)' <=> At(d, at))
    BY <1>7, <2>2 DEF At
  <2>5. States(d)'
    BY <2>1, <2>2, <2>4 DEF ConnInv, States
  <2>6. Establishing(d)'
    BY <2>1, <2>2, <2>3 DEF ConnInv, Establishing
  <2>7. Closing(d)'
    BY <1>1, <2>1, <2>2, <2>3, <2>4 DEF ConnInv, Closing, BaseOver
  <2>8. Removal(d)'
    BY <2>1, <2>2, <2>3, <2>4 DEF ConnInv, Removal, InDestruction, BaseOver
  <2> QED
    BY <2>5, <2>6, <2>7, <2>8 DEF ConnInv
<1> QED
  BY <1>2, <1>4, <1>5, <1>6, <1>7 DEF Core

(* The steps that change nothing the invariant speaks of, or only a call   *)
(* or a pointer of a user.                                                 *)
LEMMA QuietActions ==
  ASSUME IInv,
         \/ Start \/ ClientArrives \/ AcceptFails \/ DestroyAcceptor \/ Quit
         \/ \E c \in Conns : PeerCloses(c)
         \/ \E k \in SubLoops : DestroyThread(k)
         \/ \E l \in Loops : BatchDone(l)
         \/ \E t \in Threads, c \in Conns : ShutdownTest(t, c)
         \/ \E u \in Users, c \in Conns : SendTest(u, c) \/ Acquire(u, c)
         \/ \E u \in Users : Release(u)
         \/ UNCHANGED vars
  PROVE  Core' /\ Ordered'
<1> USE DEF IInv, serverVars, acceptVars, connVars, threadVars, userVars
<1>1. UNCHANGED <<nextConnId_, connections_, loop_, state_, channel_, log, frame>>
  BY DEF Start, ClientArrives, AcceptFails, DestroyAcceptor, Quit, PeerCloses,
     DestroyThread, BatchDone, ShutdownTest, SendTest, Acquire, Release, CallGoesTo, vars
<1>2. UNCHANGED <<batch, queue>>
  BY DEF Start, ClientArrives, AcceptFails, DestroyAcceptor, Quit, PeerCloses,
     DestroyThread, BatchDone, ShutdownTest, SendTest, Acquire, Release, CallGoesTo, vars
<1>3. UNCHANGED Waiting /\ Ordered'
  BY <1>2, TodoSame DEF Todo
<1>4. \/ UNCHANGED pc
      \/ Start
      \/ \E l \in Loops : BatchDone(l)
  BY DEF Start, ClientArrives, AcceptFails, DestroyAcceptor, Quit, PeerCloses,
     DestroyThread, BatchDone, ShutdownTest, SendTest, Acquire, Release, CallGoesTo, vars
<1>5. /\ \A l \in Loops : pc'[l] = "gone" <=> pc[l] = "gone"
      /\ BaseOver => BaseOver'
  <2>1. CASE UNCHANGED pc
    BY <2>1 DEF BaseOver
  <2>2. CASE Start
    <3>1. /\ pc[Base] = "start" /\ pc'[Base] = "io"
          /\ \A l \in Loops \ {Base} : pc'[l] = pc[l]
      BY <2>2 DEF Start, TypeOK, Loops
    <3> QED
      BY <3>1 DEF BaseOver
  <2>3. ASSUME NEW k \in Loops, BatchDone(k)
        PROVE  /\ \A l \in Loops : pc'[l] = "gone" <=> pc[l] = "gone"
               /\ BaseOver => BaseOver'
    <3>1. /\ pc[k] = "run" /\ pc'[k] \in {"exited", "io"}
          /\ \A l \in Loops \ {k} : pc'[l] = pc[l]
      BY <2>3 DEF BatchDone, AfterFunctors, TypeOK
    <3> QED
      BY <3>1, LoopTypes DEF BaseOver
  <2> QED
    BY <1>4, <2>1, <2>2, <2>3
<1>6. \A t \in Threads : call'[t].at # "none" => log[call'[t].conn] # <<>>
  <2>1. CASE UNCHANGED call
    BY <2>1 DEF Core, Heard
  <2>2. ASSUME NEW t \in Threads, NEW c \in Conns, StillConnected(c),
               \E at \in {"tested", "sending"} : CallGoesTo(t, at, c)
        PROVE  \A s \in Threads : call'[s].at # "none" => log[call'[s].conn] # <<>>
    <3>1. log[c] # <<>>
      BY <2>2, LogFacts DEF StillConnected, Core, ConnInv, States, Born
    <3>2. call'[t].conn = c /\ \A s \in Threads \ {t} : call'[s] = call[s]
      BY <2>2 DEF CallGoesTo, TypeOK
    <3> QED
      BY <3>1, <3>2 DEF Core, Heard
  <2>3. \/ UNCHANGED call
        \/ \E t \in Threads, c \in Conns : ShutdownTest(t, c)
        \/ \E u \in Users, c \in Conns : SendTest(u, c)
    BY DEF Start, ClientArrives, AcceptFails, DestroyAcceptor, Quit, PeerCloses,
       DestroyThread, BatchDone, Acquire, Release, vars
  <2>4. Users \subseteq Threads
    BY DEF Threads
  <2> QED
    BY <2>1, <2>2, <2>3, <2>4 DEF ShutdownTest, SendTest
<1>7. \A u \in Users : hold'[u] # NoConn => Born(hold'[u])
  <2>1. CASE UNCHANGED hold
    BY <2>1 DEF Core, Births
  <2>2. ASSUME NEW u \in Users, NEW c \in Conns, Acquire(u, c)
        PROVE  \A v \in Users : hold'[v] # NoConn => Born(hold'[v])
    <3>1. PICK l \in Loops : frame[l].conn = c
      BY <2>2 DEF Acquire
    <3>2. frame[l].at # "none"
      BY <3>1, FrameFacts DEF Free, NoFrame, NoConn, Conns
    <3>3. Born(c)
      BY <3>1, <3>2 DEF Core, Births
    <3> QED
      BY <2>2, <3>3 DEF Acquire, TypeOK, Core, Births
  <2>3. ASSUME NEW u \in Users, Release(u)
        PROVE  \A v \in Users : hold'[v] # NoConn => Born(hold'[v])
    BY <2>3 DEF Release, TypeOK, Core, Births
  <2>4. \/ UNCHANGED hold
        \/ \E u \in Users, c \in Conns : Acquire(u, c)
        \/ \E u \in Users : Release(u)
    BY DEF Start, ClientArrives, AcceptFails, DestroyAcceptor, Quit, PeerCloses,
       DestroyThread, BatchDone, ShutdownTest, SendTest, CallGoesTo, vars
  <2> QED
    BY <2>1, <2>2, <2>3, <2>4
<1>8. Core'
  BY <1>1, <1>3, <1>5, <1>6, <1>7, QuietStep
<1> QED
  BY <1>3, <1>8

(* The swap of the vectors.                                                *)
LEMMA SwapStep ==
  ASSUME IInv, NEW l \in Loops, SwapFunctors(l)
  PROVE  Core' /\ Ordered'
<1> USE DEF IInv
<1>1. UNCHANGED Waiting /\ Ordered'
  BY Swapped, TodoSame
<1>2. /\ UNCHANGED <<nextConnId_, connections_, loop_, state_, channel_, log, frame,
                     call, hold>>
      /\ \A k \in Loops : pc'[k] = "gone" <=> pc[k] = "gone"
      /\ BaseOver => BaseOver'
  BY LoopTypes DEF SwapFunctors, serverVars, connVars, userVars, TypeOK, BaseOver
<1>3. Core'
  BY <1>1, <1>2, QuietStep DEF Core, Heard, Births
<1> QED
  BY <1>1, <1>3

(* The functor a loop is about to run.                                     *)
LEMMA AtHead ==
  ASSUME TypeOK, NEW l \in Loops, NEW op \in Ops, AtFunctor(l, op)
  PROVE  /\ pc[l] = "run" /\ frame[l].at = "none" /\ batch[l] # <<>>
         /\ Head(batch[l]).conn \in Conns
         /\ Head(batch[l]) = Fn(op, Head(batch[l]).conn)
  BY PopTypes, FunctorFacts, FrameFacts DEF AtFunctor

(* The functors of a raw this change neither the callbacks nor the map.    *)
LEMMA RunRawStep ==
  ASSUME IInv, NEW l \in Loops, RunShutdown(l) \/ RunSend(l)
  PROVE  Core' /\ Ordered'
<1> USE DEF IInv
<1>1. PICK op \in RawOps : AtFunctor(l, op)
  BY DEF RunShutdown, RunSend, RawOps
<1>2. PICK c \in Conns : batch[l] # <<>> /\ Head(batch[l]) = Fn(op, c)
  BY <1>1, AtHead DEF Ops
<1>3. /\ PopFunctor(l) /\ UNCHANGED queue
      /\ UNCHANGED <<nextConnId_, connections_, loop_, state_, channel_, log, frame,
                     pc, call, hold>>
  BY DEF RunShutdown, RunSend, ShutdownInLoop, PopFunctor, serverVars, acceptVars,
         connVars, userVars
<1>4. /\ Ordered'
      /\ \A k \in Loops \ {l} : Waiting'[k] = Waiting[k]
      /\ Waiting[l] = Waiting'[l] \cup {Fn(op, c)}
  BY <1>2, <1>3, Popped
<1>5. ASSUME NEW k \in Loops, NEW o \in Ops, NEW d \in Conns
      PROVE  /\ Fn(o, d) \in Waiting'[k] => Fn(o, d) \in Waiting[k]
             /\ o \notin RawOps /\ Fn(o, d) \in Waiting[k] => Fn(o, d) \in Waiting'[k]
  <2>1. Fn(o, d) = Fn(op, c) => o \in RawOps
    BY <1>1, FunctorFacts DEF Ops
  <2> QED
    BY <1>4, <2>1
<1>6. /\ \A k \in Loops : pc'[k] = "gone" <=> pc[k] = "gone"
      /\ BaseOver => BaseOver'
      /\ \A t \in Threads : call'[t].at # "none" => log[call'[t].conn] # <<>>
      /\ \A u \in Users : hold'[u] # NoConn => Born(hold'[u])
  BY <1>3 DEF BaseOver, Core, Heard, Births
<1>7. Core'
  BY <1>3, <1>5, <1>6, QuietStep
<1> QED
  BY <1>4, <1>7

(* send() and shutdown() queue a functor of a connection the user knows.   *)
LEMMA QueueRawStep ==
  ASSUME IInv, NEW t \in Threads, ShutdownQueue(t) \/ SendQueue(t)
  PROVE  Core' /\ Ordered'
<1> USE DEF IInv
<1>1. PICK at \in {"set", "sending"}, op \in RawOps : QueueRaw(t, at, op)
  BY DEF ShutdownQueue, SendQueue, RawOps
<1> DEFINE c == call[t].conn
<1>2. c \in Conns /\ log[c] # <<>> /\ loop_[c] \in Loops /\ op \in Ops
  BY <1>1, FrameFacts, LoopTypes DEF QueueRaw, Core, Heard, Ops
<1>3. Born(c)
  BY <1>2 DEF Core, Births
<1>4. /\ Enqueue(loop_[c], Fn(op, c)) /\ UNCHANGED batch
      /\ UNCHANGED <<nextConnId_, connections_, loop_, state_, channel_, log, frame,
                     pc, hold>>
      /\ call' = [call EXCEPT ![t] = NoCall]
  BY <1>1 DEF QueueRaw, serverVars, connVars, threadVars
<1>5. op # "connectEstablished"
  BY DEF RawOps
<1> HIDE DEF c
<1>6. /\ Ordered'
      /\ Waiting' = [Waiting EXCEPT ![loop_[c]] = @ \cup {Fn(op, c)}]
  BY <1>2, <1>4, <1>5, Appended
<1>7. Waiting \in [Loops -> SUBSET Functors]
  BY TodoTypes DEF Waiting
<1>8. ASSUME NEW k \in Loops, NEW o \in Ops, NEW d \in Conns
      PROVE  /\ Fn(o, d) \in Waiting'[k] =>
                  Fn(o, d) \in Waiting[k] \/ (o \in RawOps /\ k = loop_[d] /\ Born(d))
             /\ o \notin RawOps /\ Fn(o, d) \in Waiting[k] => Fn(o, d) \in Waiting'[k]
  <2>1. Fn(o, d) = Fn(op, c) => o = op /\ d = c
    BY <1>2, FunctorFacts
  <2> QED
    BY <1>2, <1>3, <1>6, <1>7, <2>1
<1>9. /\ \A k \in Loops : pc'[k] = "gone" <=> pc[k] = "gone"
      /\ BaseOver => BaseOver'
      /\ \A s \in Threads : call'[s].at # "none" => log[call'[s].conn] # <<>>
      /\ \A u \in Users : hold'[u] # NoConn => Born(hold'[u])
  <2>1. NoCall.at = "none"
    BY DEF NoCall
  <2> QED
    BY <1>4, <2>1 DEF BaseOver, Core, Heard, Births, TypeOK
<1>10. Core'
  BY <1>4, <1>8, <1>9, QuietStep
<1> QED
  BY <1>6, <1>10

(* The functors that hold a shared_ptr.                                    *)
LEMMA OpFacts ==
  /\ RawOps \subseteq Ops
  /\ "connectEstablished" \in Ops \ RawOps
  /\ "connectDestoryed" \in Ops \ RawOps
  /\ "removeConnectionInLoop" \in Ops \ RawOps
  BY DEF Ops, RawOps

(* A loop takes a functor that holds a shared_ptr off its local vector:    *)
(* it waited, and does not wait any more.                                  *)
LEMMA TakesFunctor ==
  ASSUME TypeOK, Ordered, NEW l \in Loops, NEW op \in Ops \ RawOps, AtFunctor(l, op),
         PopFunctor(l), UNCHANGED queue,
         NEW c, c = Head(batch[l]).conn
  PROVE  /\ pc[l] = "run" /\ frame[l].at = "none" /\ c \in Conns
         /\ Ordered'
         /\ Fn(op, c) \in Waiting[l]
         /\ \A k \in Loops, o \in Ops, d \in Conns :
              Fn(o, d) \in Waiting'[k] <=>
                Fn(o, d) \in Waiting[k] /\ ~(k = l /\ o = op /\ d = c)
         /\ op = "connectDestoryed" => Fn("connectEstablished", c) \notin Waiting[l]
<1>1. /\ pc[l] = "run" /\ frame[l].at = "none" /\ batch[l] # <<>> /\ c \in Conns
      /\ Head(batch[l]) = Fn(op, c)
  BY AtHead
<1>2. Fn(op, c).op = op /\ Fn(op, c).conn = c
  BY <1>1, FunctorFacts
<1>3. /\ Ordered'
      /\ \A k \in Loops \ {l} : Waiting'[k] = Waiting[k]
      /\ Waiting[l] = Waiting'[l] \cup {Fn(op, c)}
      /\ Fn(op, c) \notin Waiting'[l]
      /\ op = "connectDestoryed" => Fn("connectEstablished", c) \notin Waiting'[l]
  BY <1>1, <1>2, Popped
<1>4. \A o \in Ops, d \in Conns : Fn(o, d) = Fn(op, c) <=> o = op /\ d = c
  BY <1>1, FunctorFacts
<1>5. op = "connectDestoryed" => Fn("connectEstablished", c) # Fn(op, c)
  BY <1>1, <1>4, OpFacts
<1> QED
  BY <1>1, <1>3, <1>4, <1>5

(* What the invariant says of the connection of a functor or callback.     *)
LEMMA AboutConn ==
  ASSUME IInv, NEW c \in Conns
  PROVE  /\ loop_[c] \in Loops
         /\ \A l \in Loops, op \in Ops : Fn(op, c) \in Waiting[l] =>
              /\ l = IF op = "removeConnectionInLoop" THEN Base ELSE loop_[c]
              /\ op = "connectEstablished" => l # Base
              /\ Born(c)
         /\ Born(c) => ConnInv(c)
         /\ log[c] # <<>> => Born(c)
         /\ ~Born(c) => log[c] = <<>> /\ channel_[c] = NewChannel /\ c \notin connections_
         /\ channel_[c] \in Records
<1>1. \A op \in Ops : op = "connectEstablished" => Fn(op, c) \notin Waiting[Base]
  BY DEF IInv, Core, Placement
<1> QED
  BY <1>1, LoopTypes DEF IInv, Core, Births, Placement, TypeOK

(* connectEstablished runs for a connection the user has heard nothing of. *)
LEMMA RunEstablishedStep ==
  ASSUME IInv, NEW l \in Loops, RunEstablished(l)
  PROVE  Core' /\ Ordered'
<1> DEFINE est == "connectEstablished"
<1>0. PICK c \in Conns : c = Head(batch[l]).conn
  BY AtHead, OpFacts DEF RunEstablished, IInv
<1>1. /\ AtFunctor(l, est) /\ PopFunctor(l) /\ UNCHANGED queue
      /\ ConnectEstablished(l, c)
      /\ UNCHANGED <<nextConnId_, connections_, loop_, pc, call, hold>>
  BY <1>0 DEF RunEstablished, PopFunctor, serverVars, userVars
<1>2. /\ pc[l] = "run" /\ frame[l].at = "none" /\ c \in Conns
      /\ Ordered'
      /\ Fn(est, c) \in Waiting[l]
      /\ \A k \in Loops, o \in Ops, d \in Conns :
           Fn(o, d) \in Waiting'[k] <=>
             Fn(o, d) \in Waiting[k] /\ ~(k = l /\ o = est /\ d = c)
  BY <1>0, <1>1, OpFacts, TakesFunctor DEF IInv
<1>3. loop_[c] = l /\ l # Base /\ Born(c) /\ ConnInv(c)
  BY <1>2, OpFacts, AboutConn
<1>4. log[c] = <<>> /\ state_[c] = "kConnecting" /\ ~Registered(channel_[c])
  BY <1>2, <1>3, LogFacts DEF ConnInv, Establishing, States
<1>5. /\ state_'[c] = "kConnected" /\ log'[c] = <<"up">>
      /\ Registered(channel_'[c])
      /\ frame'[l].at = "up" /\ frame'[l].conn = c
      /\ \A d \in Conns \ {c} : /\ state_'[d] = state_[d] /\ log'[d] = log[d]
                                /\ channel_'[d] = channel_[d]
      /\ \A k \in Loops \ {l} : frame'[k] = frame[k]
  <2>1. Registered(enableReading(channel_[c]))
    BY <1>2, <1>4, AboutConn, ChannelFacts
  <2> QED
    BY <1>1, <1>2, <1>4, <2>1, LogFacts DEF ConnectEstablished, IInv, TypeOK
<1>6. \A at : At(c, at)' <=> at = "up"
  BY <1>1, <1>3, <1>5 DEF At
<1>7. ConnInv(c)'
  <2>1. States(c)'
    BY <1>5, <1>6, LogFacts DEF States
  <2>2. Establishing(c)'
    BY <1>1, <1>2, <1>3, <1>5, LogFacts, OpFacts DEF Establishing
  <2>3. Closing(c)'
    <3>1. Fn("removeConnectionInLoop", c) \notin Waiting[Base]
      BY <1>3, <1>4, LogFacts DEF ConnInv, Closing
    <3>2. Fn("removeConnectionInLoop", c) \notin Waiting'[Base]
      BY <1>2, <3>1, OpFacts, LoopTypes DEF IInv
    <3> QED
      BY <1>6, <3>2 DEF Closing
  <2>4. Removal(c)'
    <3>1. Fn("connectDestoryed", c) \in Waiting'[l] <=> Fn("connectDestoryed", c) \in Waiting[l]
      BY <1>2, OpFacts
    <3>2. channel_'[c].index # "kNew"
      BY <1>5 DEF Registered
    <3>3. InDestruction(c)' <=> InDestruction(c)
      BY <1>1, <1>2, <1>3, <1>4, <1>6, <3>1, <3>2 DEF InDestruction, At
    <3>4. pc[l] # "gone" /\ log[c] # <<"up", "down">> /\ state_[c] # "kDisconnecting"
      BY <1>2, <1>4, LogFacts
    <3> QED
      BY <1>1, <1>3, <1>5, <1>6, <3>1, <3>2, <3>3, <3>4 DEF ConnInv, Removal, BaseOver
  <2> QED
    BY <2>1, <2>2, <2>3, <2>4 DEF ConnInv
<1>8. Core'
  <2>1. \A k \in Loops, op \in Ops : Fn(op, c) \in Waiting'[k] =>
          /\ k = IF op = "removeConnectionInLoop" THEN Base ELSE l
          /\ op = "connectEstablished" => k # Base
    BY <1>2, <1>3, AboutConn
  <2>2. Born(c)' /\ (\A d \in Conns : d < nextConnId_ <=> d < nextConnId_ \/ d = c)
    BY <1>2, <1>3, <1>5 DEF Born, IInv, Core, Births
  <2>3. log'[c] # <<>>
    BY <1>5, LogFacts
  <2> QED
    BY <1>1, <1>2, <1>3, <1>5, <1>7, <2>1, <2>2, <2>3, LocalStep DEF IInv
<1> QED
  BY <1>2, <1>8

(* LocalStep for a step that leaves the functors and the map alone.        *)
LEMMA LocalUnqueued ==
  ASSUME IInv, NEW c \in Conns, Born(c), NEW l \in Loops, loop_[c] = l,
         UNCHANGED <<pc, hold, loop_, nextConnId_, connections_, batch, queue>>,
         state_'[c] # "unborn",
         frame'[l] = frame[l] \/ (/\ frame[l].at # "none" => frame[l].conn = c
                                  /\ frame'[l].at # "none" => frame'[l].conn = c),
         \A k \in Loops \ {l} : frame'[k] = frame[k],
         \A d \in Conns \ {c} :
           state_'[d] = state_[d] /\ log'[d] = log[d] /\ channel_'[d] = channel_[d],
         log[c] # <<>> => log'[c] # <<>>,
         \A t \in Threads : call'[t].at # "none" =>
           call[t].at # "none" /\ call'[t].conn = call[t].conn,
         UNCHANGED Waiting => ConnInv(c)'
  PROVE  Core' /\ Ordered'
<1>1. UNCHANGED Waiting /\ Ordered'
  BY TodoSame DEF Todo, IInv
<1>2. ConnInv(c)' /\ Born(c)'
  BY <1>1 DEF Born
<1>3. \A d \in Conns : d < nextConnId_' <=> d < nextConnId_ \/ d = c
  BY DEF IInv, Core, Births
<1>4. \A k \in Loops, op \in Ops : Fn(op, c) \in Waiting'[k] =>
        /\ k = IF op = "removeConnectionInLoop" THEN Base ELSE l
        /\ op = "connectEstablished" => k # Base
  BY <1>1, AboutConn
<1>5. /\ loop_'[c] = l /\ UNCHANGED <<pc, hold>>
      /\ \A d \in Conns \ {c} :
           /\ loop_'[d] = loop_[d] /\ state_'[d] = state_[d]
           /\ log'[d] = log[d] /\ channel_'[d] = channel_[d]
           /\ d \in connections_' <=> d \in connections_
           /\ \A k \in Loops, op \in Ops : Fn(op, d) \in Waiting'[k] <=> Fn(op, d) \in Waiting[k]
  BY <1>1
<1>6. TypeOK /\ Core
  BY DEF IInv
<1>7. Core'
  BY <1>2, <1>3, <1>4, <1>5, <1>6, LocalStep
<1> QED
  BY <1>1, <1>7

(* shutdown() sets kDisconnecting for a connection that came up.           *)
LEMMA ShutdownSetStep ==
  ASSUME IInv, NEW t \in Threads, ShutdownSet(t)
  PROVE  Core' /\ Ordered'
<1>0. PICK c \in Conns : c = call[t].conn
  BY FrameFacts DEF ShutdownSet, IInv
<1>1. Born(c) /\ log[c] # <<>> /\ ConnInv(c) /\ loop_[c] \in Loops
  BY <1>0, AboutConn DEF ShutdownSet, IInv, Core, Heard
<1>2. /\ state_' = [state_ EXCEPT ![c] = "kDisconnecting"]
      /\ UNCHANGED <<nextConnId_, connections_, loop_, channel_, log, frame, pc, batch,
                     queue, hold>>
      /\ call' = [call EXCEPT ![t] = [at |-> "set", conn |-> c]]
      /\ call[t].at = "tested"
  BY <1>0 DEF ShutdownSet, CallGoesTo, serverVars, threadVars
<1>3. /\ state_'[c] = "kDisconnecting"
      /\ \A d \in Conns \ {c} : state_'[d] = state_[d]
  BY <1>2 DEF IInv, TypeOK
<1>4. \A s \in Threads : call'[s].at # "none" =>
        call[s].at # "none" /\ call'[s].conn = call[s].conn
  BY <1>0, <1>2 DEF IInv, TypeOK
<1>5. \A at : At(c, at)' <=> At(c, at)
  BY <1>2 DEF At
<1>6. ASSUME UNCHANGED Waiting PROVE ConnInv(c)'
  <2>1. States(c)'
    BY <1>1, <1>2, <1>3, <1>5 DEF ConnInv, States
  <2>2. Establishing(c)' /\ Closing(c)'
    BY <1>1, <1>2, <1>5, <1>6 DEF ConnInv, Establishing, Closing, BaseOver
  <2>3. Removal(c)'
    BY <1>1, <1>2, <1>3, <1>5, <1>6 DEF ConnInv, Removal, InDestruction, BaseOver
  <2> QED
    BY <2>1, <2>2, <2>3 DEF ConnInv
<1> QED
  BY <1>1, <1>2, <1>3, <1>4, <1>6, LocalUnqueued

(* A message is handed to the user between up and down.                    *)
LEMMA HandleMessageStep ==
  ASSUME IInv, NEW l \in Loops, NEW c \in Conns, HandleMessage(l, c)
  PROVE  Core' /\ Ordered'
<1>1. /\ frame[l].at = "none" /\ loop_[c] = l /\ Born(c) /\ pc[l] = "io"
      /\ frame' = [frame EXCEPT ![l] = [at |-> "message", conn |-> c]]
      /\ UNCHANGED <<nextConnId_, connections_, loop_, state_, channel_, log, pc, batch,
                     queue, call, hold>>
  BY FrameFacts DEF IInv, HandleMessage, EventReady, Alive, serverVars, connVars,
     threadVars, userVars
<1>2. Registered(channel_[c])
  BY DEF HandleMessage, CallsRead, Revents, Reportable, Registered
<1>3. ConnInv(c) /\ log[c] = <<"up">>
  BY <1>1, <1>2, AboutConn DEF ConnInv, States
<1>4. /\ frame'[l].at = "message" /\ frame'[l].conn = c
      /\ \A k \in Loops \ {l} : frame'[k] = frame[k]
  BY <1>1 DEF IInv, TypeOK
<1>5. /\ \A at : At(c, at)' <=> at = "message"
      /\ ~At(c, "close") /\ ~At(c, "destroy")
  BY <1>1, <1>4 DEF At
<1>6. ASSUME UNCHANGED Waiting PROVE ConnInv(c)'
  <2>1. States(c)'
    BY <1>1, <1>3, <1>5 DEF ConnInv, States
  <2>2. Establishing(c)' /\ Closing(c)'
    BY <1>1, <1>3, <1>5, <1>6 DEF ConnInv, Establishing, Closing, BaseOver
  <2>3. Removal(c)'
    BY <1>1, <1>3, <1>5, <1>6 DEF ConnInv, Removal, InDestruction, BaseOver
  <2> QED
    BY <2>1, <2>2, <2>3 DEF ConnInv
<1> QED
  BY <1>1, <1>4, <1>6, LocalUnqueued DEF Born

(* The end of a connection is found while its channel is registered.       *)
LEMMA HandleEndStep ==
  ASSUME IInv, NEW l \in Loops, NEW c \in Conns, HandleEnd(l, c)
  PROVE  Core' /\ Ordered'
<1>1. /\ frame[l].at = "none" /\ loop_[c] = l /\ Born(c) /\ pc[l] = "io"
      /\ GoDown(l, c, "close")
      /\ UNCHANGED <<nextConnId_, connections_, loop_, pc, batch, queue, call, hold>>
  BY FrameFacts DEF IInv, HandleEnd, HandleClose, EventReady, Alive, serverVars,
     threadVars, userVars
<1>2. Registered(channel_[c])
  BY DEF HandleEnd, CallsRead, CallsClose, Revents, Reportable, Registered
<1>3. ConnInv(c) /\ log[c] = <<"up">>
  BY <1>1, <1>2, AboutConn DEF ConnInv, States
<1>4. /\ state_'[c] = "kDisconnected" /\ log'[c] = <<"up", "down">>
      /\ ~Registered(channel_'[c]) /\ channel_'[c].index # "kNew"
      /\ frame'[l].at = "close" /\ frame'[l].conn = c
      /\ \A d \in Conns \ {c} : /\ state_'[d] = state_[d] /\ log'[d] = log[d]
                                /\ channel_'[d] = channel_[d]
      /\ \A k \in Loops \ {l} : frame'[k] = frame[k]
  <2>1. ~Registered(disableAll(channel_[c])) /\ disableAll(channel_[c]).index # "kNew"
    BY <1>2, AboutConn, ChannelFacts
  <2> QED
    BY <1>1, <1>3, <2>1, LogFacts DEF GoDown, Notified, IInv, TypeOK
<1>5. /\ \A at : At(c, at)' <=> at = "close"
      /\ ~At(c, "close") /\ ~At(c, "destroy")
  BY <1>1, <1>4 DEF At
<1>6. ASSUME UNCHANGED Waiting PROVE ConnInv(c)'
  <2>1. States(c)'
    BY <1>4, <1>5, LogFacts DEF States
  <2>2. Establishing(c)'
    BY <1>1, <1>3, <1>4, <1>6, LogFacts DEF ConnInv, Establishing
  <2>3. Closing(c)'
    <3>1. Fn("removeConnectionInLoop", c) \notin Waiting[Base]
      BY <1>3, LogFacts DEF ConnInv, Closing
    <3>2. c \in connections_ \/ (l # Base /\ BaseOver)
      BY <1>1, <1>3, LogFacts DEF ConnInv, Removal, BaseOver
    <3> QED
      BY <1>1, <1>4, <1>5, <1>6, <3>1, <3>2 DEF Closing, BaseOver
  <2>4. Removal(c)'
    <3>1. channel_[c].index # "kNew"
      BY <1>2 DEF Registered
    <3>2. InDestruction(c)' <=> InDestruction(c)
      BY <1>1, <1>4, <1>5, <1>6, <3>1 DEF InDestruction
    <3> QED
      BY <1>1, <1>3, <1>4, <1>5, <1>6, <3>2 DEF ConnInv, Removal, BaseOver
  <2> QED
    BY <2>1, <2>2, <2>3, <2>4 DEF ConnInv
<1>7. log'[c] # <<>>
  BY <1>4, LogFacts
<1> QED
  BY <1>1, <1>4, <1>6, <1>7, LocalUnqueued

(* connectDestoryed of a connection that is out of the map, by a functor   *)
(* that is done with it or by ~TcpServer itself.                           *)
LEMMA DestoryedStep ==
  ASSUME IInv, NEW c \in Conns, Born(c), NEW l \in Loops, loop_[c] = l,
         frame[l].at = "none", pc[l] # "gone", log[c] # <<>>,
         ConnectDestoryed(l, c),
         UNCHANGED <<nextConnId_, loop_, pc, call, hold>>,
         connections_' = connections_ \ {c},
         c \in connections_ => BaseOver,
         \A k \in Loops, o \in Ops, d \in Conns :
           Fn(o, d) \in Waiting'[k] <=>
             Fn(o, d) \in Waiting[k] /\ ~(k = l /\ o = "connectDestoryed" /\ d = c)
  PROVE  Core'
<1> DEFINE des == "connectDestoryed"
<1>1. ConnInv(c) /\ (\A at : at # "none" => ~At(c, at))
  BY AboutConn DEF At
<1>2. /\ log[c] # <<"up", "down">> => BaseOver
      /\ state_[c] = "kConnected" => log[c] = <<"up">>
      /\ Fn("connectEstablished", c) \notin Waiting[l]
  BY <1>1 DEF ConnInv, Removal, States, Establishing
<1>3. /\ ~Registered(channel_'[c])
      /\ \A d \in Conns \ {c} : /\ state_'[d] = state_[d] /\ log'[d] = log[d]
                                /\ channel_'[d] = channel_[d]
      /\ \A k \in Loops \ {l} : frame'[k] = frame[k]
      /\ \/ /\ state_[c] = "kConnected"
            /\ state_'[c] = "kDisconnected" /\ log'[c] = <<"up", "down">>
            /\ frame'[l].at = "destroy" /\ frame'[l].conn = c
         \/ /\ state_[c] # "kConnected"
            /\ UNCHANGED <<state_, log, frame>>
            /\ channel_'[c].index = "kNew"
  <2>1. /\ ~Registered(Removed(channel_[c])) /\ Removed(channel_[c]).index = "kNew"
    BY AboutConn, ChannelFacts
  <2>2. CASE state_[c] = "kConnected"
    <3>1. ~Registered(disableAll(channel_[c]))
      BY <1>1, <2>2, AboutConn, ChannelFacts DEF ConnInv, States
    <3>2. GoDown(l, c, "destroy")
      BY <2>2 DEF ConnectDestoryed
    <3>3. /\ state_'[c] = "kDisconnected" /\ log'[c] = <<"up", "down">>
          /\ frame'[l].at = "destroy" /\ frame'[l].conn = c
      BY <1>2, <2>2, <3>2, LogFacts DEF GoDown, Notified, IInv, TypeOK
    <3>4. /\ ~Registered(channel_'[c])
          /\ \A d \in Conns \ {c} : /\ state_'[d] = state_[d] /\ log'[d] = log[d]
                                    /\ channel_'[d] = channel_[d]
          /\ \A k \in Loops \ {l} : frame'[k] = frame[k]
      BY <3>1, <3>2 DEF GoDown, IInv, TypeOK
    <3> QED
      BY <2>2, <3>3, <3>4
  <2>3. CASE state_[c] # "kConnected"
    BY <2>1, <2>3 DEF ConnectDestoryed, IInv, TypeOK
  <2> QED
    BY <2>2, <2>3
<1>4. /\ log'[c] # <<>> /\ log'[c] \in {<<"up">>, <<"up", "down">>}
      /\ state_'[c] # "kConnected" /\ state_'[c] # "unborn" /\ state_'[c] # "kConnecting"
      /\ state_'[c] = "kDisconnected" => log'[c] = <<"up", "down">>
      /\ log[c] = <<"up", "down">> => log'[c] = log[c]
      /\ log'[c] # <<"up", "down">> => state_'[c] = "kDisconnecting"
  <2>1. /\ log[c] \in {<<"up">>, <<"up", "down">>} /\ state_[c] # "unborn"
        /\ state_[c] # "kConnecting"
        /\ state_[c] = "kDisconnected" => log[c] = <<"up", "down">>
    BY <1>1 DEF ConnInv, States, Born
  <2>2. state_[c] \in {"kConnected", "kDisconnecting", "kDisconnected"}
    BY <2>1 DEF IInv, TypeOK
  <2>3. CASE state_[c] = "kConnected"
    BY <1>2, <1>3, <2>3, LogFacts
  <2>4. CASE state_[c] # "kConnected"
    <3>1. state_'[c] = state_[c] /\ log'[c] = log[c]
      BY <1>3, <2>4
    <3> QED
      BY <2>1, <2>2, <2>4, <3>1, LogFacts
  <2> QED
    BY <2>3, <2>4
<1>5. \A at : at # "none" =>
        (At(c, at)' <=> at = "destroy" /\ frame' # frame)
  BY <1>1, <1>3 DEF At
<1>6. InDestruction(c)' /\ c \notin connections_'
  BY <1>3, <1>4, <1>5 DEF InDestruction, At
<1>7. /\ Fn(des, c) \notin Waiting'[l]
      /\ Fn("connectEstablished", c) \notin Waiting'[l]
      /\ Fn("removeConnectionInLoop", c) \in Waiting'[Base] =>
           Fn("removeConnectionInLoop", c) \in Waiting[Base]
  BY <1>2, OpFacts, LoopTypes DEF IInv
<1>8. ConnInv(c)'
  <2>1. States(c)'
    BY <1>3, <1>4, <1>5 DEF States
  <2>2. Establishing(c)'
    BY <1>4, <1>7 DEF Establishing
  <2>3. Closing(c)'
    <3>1. Fn("removeConnectionInLoop", c) \in Waiting'[Base] =>
            log'[c] = <<"up", "down">> /\ BaseOver'
      BY <1>1, <1>4, <1>7 DEF ConnInv, Closing, BaseOver
    <3> QED
      BY <1>5, <3>1 DEF Closing
  <2>4. Removal(c)'
    BY <1>2, <1>4, <1>6, <1>7 DEF Removal, BaseOver
  <2> QED
    BY <2>1, <2>2, <2>3, <2>4 DEF ConnInv
<1>9. \A k \in Loops, op \in Ops : Fn(op, c) \in Waiting'[k] =>
        /\ k = IF op = "removeConnectionInLoop" THEN Base ELSE l
        /\ op = "connectEstablished" => k # Base
  BY AboutConn
<1>10. \A d \in Conns : d < nextConnId_ <=> d < nextConnId_ \/ d = c
  BY DEF IInv, Core, Births
<1>11. \A d \in Conns \ {c} :
         /\ d \in connections_' <=> d \in connections_
         /\ \A k \in Loops, op \in Ops : Fn(op, d) \in Waiting'[k] <=> Fn(op, d) \in Waiting[k]
  OBVIOUS
<1>12. /\ frame'[l] = frame[l] \/ (/\ frame[l].at # "none" => frame[l].conn = c
                                   /\ frame'[l].at # "none" => frame'[l].conn = c)
       /\ Born(c)'
  BY <1>3, <1>4 DEF Born
<1> QED
  BY <1>3, <1>4, <1>8, <1>9, <1>10, <1>11, <1>12, LocalStep DEF IInv

(* connectDestoryed as a functor.                                          *)
LEMMA RunDestoryedStep ==
  ASSUME IInv, NEW l \in Loops, RunDestoryed(l)
  PROVE  Core' /\ Ordered'
<1> DEFINE des == "connectDestoryed"
<1>0. PICK c \in Conns : c = Head(batch[l]).conn
  BY AtHead, OpFacts DEF RunDestoryed, IInv
<1>1. /\ AtFunctor(l, des) /\ PopFunctor(l) /\ UNCHANGED queue
      /\ ConnectDestoryed(l, c)
      /\ UNCHANGED <<nextConnId_, connections_, loop_, pc, call, hold>>
  BY <1>0 DEF RunDestoryed, PopFunctor, serverVars, userVars
<1>2. /\ pc[l] = "run" /\ frame[l].at = "none" /\ Ordered'
      /\ Fn(des, c) \in Waiting[l] /\ Fn("connectEstablished", c) \notin Waiting[l]
      /\ \A k \in Loops, o \in Ops, d \in Conns :
           Fn(o, d) \in Waiting'[k] <=>
             Fn(o, d) \in Waiting[k] /\ ~(k = l /\ o = des /\ d = c)
  BY <1>0, <1>1, OpFacts, TakesFunctor DEF IInv
<1>3. loop_[c] = l /\ Born(c) /\ ConnInv(c)
  BY <1>2, OpFacts, AboutConn
<1>4. log[c] # <<>> /\ c \notin connections_
  BY <1>2, <1>3 DEF ConnInv, Establishing, Removal, InDestruction
<1>5. connections_' = connections_ \ {c} /\ pc[l] # "gone"
  BY <1>1, <1>2, <1>4
<1>6. Core'
  BY <1>1, <1>2, <1>3, <1>4, <1>5, DestoryedStep
<1> QED
  BY <1>2, <1>6

(* One turn of ~TcpServer.                                                 *)
LEMMA DestroyConnectionStep ==
  ASSUME IInv, NEW c \in Conns, DestroyConnection(c)
  PROVE  Core' /\ Ordered'
<1>1. /\ c \in connections_ /\ connections_' = connections_ \ {c}
      /\ pc[Base] = "exited" /\ frame[Base].at = "none"
      /\ UNCHANGED <<nextConnId_, loop_, pc, batch, call, hold>>
  BY FrameFacts, LoopTypes DEF DestroyConnection, threadVars, userVars, IInv
<1>2. /\ Born(c) /\ ConnInv(c) /\ BaseOver /\ loop_[c] \in Loops
      /\ ~InDestruction(c) /\ Base \in Loops
  BY <1>1, AboutConn, LoopTypes DEF ConnInv, Removal, BaseOver, IInv
<1>3. CASE loop_[c] = Base
  <2>1. ConnectDestoryed(Base, c) /\ UNCHANGED queue
    BY <1>3 DEF DestroyConnection
  <2>2. UNCHANGED Waiting /\ Ordered'
    BY <1>1, <2>1, TodoSame DEF Todo, IInv
  <2>3. log[c] # <<>>
    BY <1>1, <1>2, <1>3, OpFacts, AboutConn DEF ConnInv, Establishing
  <2>4. Fn("connectDestoryed", c) \notin Waiting[Base]
    BY <1>2, <1>3 DEF InDestruction
  <2>5. \A k \in Loops, o \in Ops, d \in Conns :
          Fn(o, d) \in Waiting'[k] <=>
            Fn(o, d) \in Waiting[k] /\ ~(k = Base /\ o = "connectDestoryed" /\ d = c)
    BY <2>2, <2>4
  <2>6. Core'
    BY <1>1, <1>2, <1>3, <2>1, <2>3, <2>5, DestoryedStep
  <2> QED
    BY <2>2, <2>6
<1>4. CASE loop_[c] # Base
  <2> DEFINE des == "connectDestoryed"
  <2>1. PICK l \in Loops : l = loop_[c]
    BY <1>2
  <2>2. /\ Enqueue(l, Fn(des, c)) /\ UNCHANGED <<state_, channel_, log, frame>>
        /\ Fn(des, c) \notin Waiting[l]
    BY <1>2, <1>4, <2>1 DEF DestroyConnection, connVars, InDestruction
  <2>3. Ordered' /\ Waiting' = [Waiting EXCEPT ![l] = @ \cup {Fn(des, c)}]
    BY <1>1, <2>2, OpFacts, Appended DEF IInv
  <2>4. \A k \in Loops, o \in Ops, d \in Conns :
          Fn(o, d) \in Waiting'[k] <=>
            Fn(o, d) \in Waiting[k] \/ (k = l /\ o = des /\ d = c)
    <3>1. Waiting \in [Loops -> SUBSET Functors]
      BY TodoTypes DEF Waiting, IInv
    <3>2. \A o \in Ops, d \in Conns : Fn(o, d) = Fn(des, c) <=> o = des /\ d = c
      BY OpFacts, FunctorFacts
    <3> QED
      BY <2>3, <3>1, <3>2
  <2>5. \A at : At(c, at)' <=> At(c, at)
    BY <1>1, <2>2 DEF At
  <2>6. ConnInv(c)'
    <3>1. States(c)'
      BY <1>2, <2>2, <2>5 DEF ConnInv, States
    <3>2. Establishing(c)'
      BY <1>1, <1>2, <2>1, <2>2, <2>4, OpFacts DEF ConnInv, Establishing
    <3>3. Closing(c)'
      BY <1>1, <1>2, <1>4, <2>2, <2>4, <2>5, OpFacts DEF ConnInv, Closing, BaseOver
    <3>4. Removal(c)'
      <4>1. c \notin connections_' /\ BaseOver' /\ Fn(des, c) \in Waiting'[loop_'[c]]
        BY <1>1, <1>2, <2>1, <2>4, OpFacts DEF BaseOver
      <4>2. ~At(c, "destroy")' /\ ~(channel_'[c].index = "kNew" /\ log'[c] # <<>>)
        BY <1>2, <2>2, <2>5 DEF InDestruction
      <4> QED
        BY <4>1, <4>2 DEF Removal, InDestruction
    <3> QED
      BY <3>1, <3>2, <3>3, <3>4 DEF ConnInv
  <2>7. /\ loop_'[c] = l /\ Born(c)'
        /\ \A d \in Conns : d < nextConnId_ <=> d < nextConnId_ \/ d = c
    BY <1>1, <1>2, <2>1, <2>2 DEF Born, IInv, Core, Births
  <2>8. \A k \in Loops, op \in Ops : Fn(op, c) \in Waiting'[k] =>
          /\ k = IF op = "removeConnectionInLoop" THEN Base ELSE l
          /\ op = "connectEstablished" => k # Base
    BY <2>1, <2>4, OpFacts, AboutConn
  <2>9. \A d \in Conns \ {c} :
          /\ d \in connections_' <=> d \in connections_
          /\ \A k \in Loops, op \in Ops : Fn(op, d) \in Waiting'[k] <=> Fn(op, d) \in Waiting[k]
    BY <1>1, <2>4
  <2>10. Core'
    BY <1>1, <2>1, <2>2, <2>6, <2>7, <2>8, <2>9, LocalStep DEF IInv
  <2> QED
    BY <2>3, <2>10
<1> QED
  BY <1>3, <1>4

(* The step hands c to connectDestoryed in loop l.                         *)
HandsTo(l, c) ==
  \A k \in Loops, o \in Ops, d \in Conns :
    Fn(o, d) \in Waiting'[k] <=>
      \/ Fn(o, d) \in Waiting[k] /\ ~(o = "removeConnectionInLoop" /\ d = c)
      \/ k = l /\ o = "connectDestoryed" /\ d = c

(* removeConnectionInLoop of a connection in the map that is down: it is   *)
(* handed to connectDestoryed, and only now.                               *)
LEMMA HandedOver ==
  ASSUME IInv, NEW c \in Conns, Born(c), c \in connections_, log[c] = <<"up", "down">>,
         NEW l \in Loops, loop_[c] = l,
         \/ frame' = frame /\ ~At(c, "close")
         \/ frame' = [frame EXCEPT ![l] = NoFrame] /\ At(c, "close"),
         connections_' = connections_ \ {c},
         UNCHANGED <<nextConnId_, loop_, state_, channel_, log, pc, call, hold>>,
         HandsTo(l, c)
  PROVE  Core'
<1> USE DEF HandsTo
<1>1. ConnInv(c) /\ ~InDestruction(c) /\ Base \in Loops
  BY AboutConn, LoopTypes DEF ConnInv, Removal, IInv
<1>2. /\ \A k \in Loops \ {l} : frame'[k] = frame[k]
      /\ frame'[l] = frame[l] \/ (frame[l].conn = c /\ frame'[l].at = "none")
      /\ ~At(c, "close")' /\ ~At(c, "destroy")'
      /\ At(c, "message")' => At(c, "message")
  <2>1. CASE frame' = frame /\ ~At(c, "close")
    BY <1>1, <2>1 DEF At, InDestruction
  <2>2. CASE frame' = [frame EXCEPT ![l] = NoFrame] /\ At(c, "close")
    <3>1. frame'[l].at = "none" /\ \A k \in Loops \ {l} : frame'[k] = frame[k]
      BY <2>2, FrameFacts DEF IInv, TypeOK
    <3> QED
      BY <2>2, <3>1 DEF At
  <2> QED
    BY <2>1, <2>2
<1>3. ConnInv(c)'
  <2>1. States(c)'
    BY <1>1, <1>2 DEF ConnInv, States
  <2>2. Establishing(c)'
    BY <1>1, LogFacts, OpFacts DEF ConnInv, Establishing
  <2>3. Closing(c)'
    BY <1>1, <1>2, OpFacts DEF Closing
  <2>4. Removal(c)'
    <3>1. Fn("connectDestoryed", c) \in Waiting'[l] /\ c \notin connections_'
      BY OpFacts
    <3>2. ~(channel_'[c].index = "kNew" /\ log'[c] # <<>>)
      BY <1>1 DEF InDestruction
    <3> QED
      BY <1>2, <3>1, <3>2 DEF Removal, InDestruction
  <2> QED
    BY <2>1, <2>2, <2>3, <2>4 DEF ConnInv
<1>4. \A k \in Loops, op \in Ops : Fn(op, c) \in Waiting'[k] =>
        /\ k = IF op = "removeConnectionInLoop" THEN Base ELSE l
        /\ op = "connectEstablished" => k # Base
  BY AboutConn
<1>5. \A d \in Conns \ {c} :
        /\ d \in connections_' <=> d \in connections_
        /\ \A k \in Loops, op \in Ops : Fn(op, d) \in Waiting'[k] <=> Fn(op, d) \in Waiting[k]
  OBVIOUS
<1>6. Born(c)' /\ \A d \in Conns : d < nextConnId_ <=> d < nextConnId_ \/ d = c
  BY DEF Born, IInv, Core, Births
<1> QED
  BY <1>2, <1>3, <1>4, <1>5, <1>6, LocalStep DEF IInv

(* removeConnectionInLoop as a functor of the base loop.                   *)
LEMMA RunRemoveStep ==
  ASSUME IInv, NEW l \in Loops, RunRemove(l)
  PROVE  Core' /\ Ordered'
<1> DEFINE rem == "removeConnectionInLoop"
           des == "connectDestoryed"
<1>0. PICK c \in Conns : c = Head(batch[l]).conn
  BY AtHead, OpFacts DEF RunRemove, IInv
<1>1. /\ AtFunctor(l, rem) /\ PopFunctor(l)
      /\ connections_' = connections_ \ {c}
      /\ Enqueue(loop_[c], Fn(des, c))
      /\ UNCHANGED <<nextConnId_, loop_, state_, channel_, log, frame, pc, call, hold>>
  BY <1>0 DEF RunRemove, RemoveConnectionInLoop, PopFunctor, connVars, userVars
<1>2. /\ pc[l] = "run" /\ frame[l].at = "none" /\ batch[l] # <<>>
      /\ Head(batch[l]) = Fn(rem, c)
  BY <1>0, <1>1, OpFacts, AtHead DEF IInv
<1>3. Fn(rem, c) \in Waiting[l]
  <2>1. Todo[l] \in Seq(Functors) /\ Orderly(Todo[l]) /\ Waiting[l] = Members(Todo[l])
    BY TodoTypes DEF IInv, Ordered
  <2>2. batch[l] \in Seq(Functors) /\ queue[l] \in Seq(Functors)
    BY DEF IInv, TypeOK
  <2>3. Todo[l] # <<>> /\ Head(Todo[l]) = Head(batch[l])
    BY <1>2, <2>2, ConcatHeadTail DEF Todo
  <2> QED
    BY <1>2, <2>1, <2>3, OrderlyTail
<1>4. /\ l = Base /\ Born(c) /\ ConnInv(c) /\ loop_[c] \in Loops
      /\ log[c] = <<"up", "down">> /\ c \in connections_
  <2>1. l = Base /\ Born(c) /\ ConnInv(c) /\ loop_[c] \in Loops
    BY <1>3, OpFacts, AboutConn
  <2> QED
    BY <1>2, <1>3, <2>1 DEF ConnInv, Closing, BaseOver
<1>5. PICK k \in Loops : k = loop_[c]
  BY <1>4
<1>6. Fn(des, c) \notin Waiting[k] /\ ~At(c, "close")
  BY <1>3, <1>4, <1>5 DEF ConnInv, Closing, Removal, InDestruction
<1>7. /\ Ordered'
      /\ \A m \in Loops :
           Waiting'[m] = (Waiting[m] \ (IF m = l THEN {Fn(rem, c)} ELSE {}))
                           \cup (IF m = k THEN {Fn(des, c)} ELSE {})
  BY <1>1, <1>2, <1>5, <1>6, PoppedAppended DEF IInv
<1>8. \A m \in Loops, o \in Ops, d \in Conns :
        Fn(o, d) \in Waiting'[m] <=>
          \/ Fn(o, d) \in Waiting[m] /\ ~(o = rem /\ d = c)
          \/ m = k /\ o = des /\ d = c
  <2>1. \A o \in Ops, d \in Conns : /\ Fn(o, d) = Fn(des, c) <=> o = des /\ d = c
                                    /\ Fn(o, d) = Fn(rem, c) <=> o = rem /\ d = c
    BY OpFacts, FunctorFacts
  <2>2. \A m \in Loops : Fn(rem, c) \in Waiting[m] => m = l
    BY <1>4, OpFacts, AboutConn
  <2> QED
    BY <1>7, <2>1, <2>2
<1>9. Core'
  <2>1. HandsTo(k, c)
    BY <1>8 DEF HandsTo
  <2>2. frame' = frame /\ connections_' = connections_ \ {c}
    BY <1>1
  <2>3. UNCHANGED <<nextConnId_, loop_, state_, channel_, log, pc, call, hold>>
    BY <1>1
  <2> QED
    BY <1>4, <1>5, <1>6, <2>1, <2>2, <2>3, HandedOver
<1> QED
  BY <1>7, <1>9

(* What a queue holds after queueInLoop, functor by functor.               *)
LEMMA AppendedOne ==
  ASSUME TypeOK, Ordered, NEW l \in Loops, NEW op \in Ops \ RawOps, NEW c \in Conns,
         Enqueue(l, Fn(op, c)), UNCHANGED batch, Fn(op, c) \notin Waiting[l],
         op = "connectEstablished" => Fn("connectDestoryed", c) \notin Waiting[l]
  PROVE  /\ Ordered'
         /\ \A k \in Loops, o \in Ops, d \in Conns :
              Fn(o, d) \in Waiting'[k] <=>
                Fn(o, d) \in Waiting[k] \/ (k = l /\ o = op /\ d = c)
<1>1. Ordered' /\ Waiting' = [Waiting EXCEPT ![l] = @ \cup {Fn(op, c)}]
  BY Appended
<1>2. Waiting \in [Loops -> SUBSET Functors]
  BY TodoTypes DEF Waiting
<1>3. \A o \in Ops, d \in Conns : Fn(o, d) = Fn(op, c) <=> o = op /\ d = c
  BY FunctorFacts
<1> QED
  BY <1>1, <1>2, <1>3

(* A callback returns to the handler that called it.                       *)
LEMMA CallbackReturnsStep ==
  ASSUME IInv, NEW l \in Loops, CallbackReturns(l)
  PROVE  Core' /\ Ordered'
<1>0. PICK c \in Conns : c = frame[l].conn
  BY LoopTypes DEF CallbackReturns, IInv
<1>1. /\ frame[l].at # "none" /\ frame' = [frame EXCEPT ![l] = NoFrame]
      /\ UNCHANGED <<nextConnId_, loop_, state_, log, pc, batch, call, hold>>
  BY FrameFacts DEF CallbackReturns, threadVars, userVars, IInv
<1>2. Born(c) /\ loop_[c] = l /\ ConnInv(c)
  BY <1>0, <1>1, AboutConn DEF IInv, Core, Births, Placement
<1>3. /\ frame'[l].at = "none" /\ \A k \in Loops \ {l} : frame'[k] = frame[k]
      /\ \A at : At(c, at) <=> at = frame[l].at
      /\ \A at : At(c, at)' => at = "none"
  BY <1>0, <1>1, <1>2, FrameFacts DEF At, IInv, TypeOK
<1>4. CASE frame[l].at \in {"up", "message"}
  <2>1. UNCHANGED <<connections_, queue, channel_>>
    BY <1>4 DEF CallbackReturns
  <2>2. ASSUME UNCHANGED Waiting PROVE ConnInv(c)'
    <3>1. States(c)'
      BY <1>1, <1>2, <1>3, <2>1 DEF ConnInv, States
    <3>2. Establishing(c)' /\ Closing(c)'
      BY <1>1, <1>2, <1>3, <2>1, <2>2 DEF ConnInv, Establishing, Closing, BaseOver
    <3>3. InDestruction(c)' <=> InDestruction(c)
      BY <1>1, <1>2, <1>3, <1>4, <2>1, <2>2 DEF InDestruction
    <3>4. Removal(c)'
      BY <1>1, <1>2, <1>3, <2>1, <2>2, <3>3 DEF ConnInv, Removal, BaseOver
    <3> QED
      BY <3>1, <3>2, <3>4 DEF ConnInv
  <2> QED
    BY <1>0, <1>1, <1>2, <1>3, <2>1, <2>2, LocalUnqueued DEF Born
<1>5. CASE frame[l].at = "close" /\ l = Base
  <2>1. /\ connections_' = connections_ \ {c} /\ UNCHANGED channel_
        /\ Enqueue(l, Fn("connectDestoryed", c))
    BY <1>0, <1>2, <1>5 DEF CallbackReturns, RemoveConnectionInLoop
  <2>2. /\ At(c, "close") /\ c \in connections_ /\ log[c] = <<"up", "down">>
        /\ Fn("removeConnectionInLoop", c) \notin Waiting[Base]
        /\ Fn("connectDestoryed", c) \notin Waiting[l]
    BY <1>2, <1>3, <1>5 DEF ConnInv, Closing, States, Removal, InDestruction
  <2>3. /\ Ordered'
        /\ \A k \in Loops, o \in Ops, d \in Conns :
             Fn(o, d) \in Waiting'[k] <=>
               Fn(o, d) \in Waiting[k] \/ (k = l /\ o = "connectDestoryed" /\ d = c)
    BY <1>1, <2>1, <2>2, OpFacts, AppendedOne DEF IInv
  <2>4. \A k \in Loops : Fn("removeConnectionInLoop", c) \notin Waiting[k]
    BY <2>2, OpFacts, AboutConn
  <2>5. \A k \in Loops, o \in Ops, d \in Conns :
          Fn(o, d) \in Waiting'[k] <=>
            \/ Fn(o, d) \in Waiting[k] /\ ~(o = "removeConnectionInLoop" /\ d = c)
            \/ k = l /\ o = "connectDestoryed" /\ d = c
    BY <2>3, <2>4
  <2>6. Core'
    <3>1. frame' = [frame EXCEPT ![l] = NoFrame] /\ At(c, "close")
      BY <1>1, <2>2
    <3>2. UNCHANGED <<nextConnId_, loop_, state_, channel_, log, pc, call, hold>>
      BY <1>1, <2>1
    <3>3. connections_' = connections_ \ {c}
      BY <2>1
    <3>4. HandsTo(l, c)
      BY <2>5 DEF HandsTo
    <3> QED
      BY <1>2, <2>2, <3>1, <3>2, <3>3, <3>4, HandedOver
  <2> QED
    BY <2>3, <2>6
<1>6. CASE frame[l].at = "close" /\ l # Base
  <2> DEFINE rem == "removeConnectionInLoop"
  <2>1. UNCHANGED <<connections_, channel_>> /\ Enqueue(Base, Fn(rem, c))
    BY <1>0, <1>6 DEF CallbackReturns
  <2>2. /\ At(c, "close") /\ log[c] = <<"up", "down">> /\ Base \in Loops
        /\ Fn(rem, c) \notin Waiting[Base]
        /\ c \in connections_ \/ BaseOver
    BY <1>2, <1>3, <1>6, LoopTypes DEF ConnInv, Closing, States, IInv
  <2>3. /\ Ordered'
        /\ \A k \in Loops, o \in Ops, d \in Conns :
             Fn(o, d) \in Waiting'[k] <=>
               Fn(o, d) \in Waiting[k] \/ (k = Base /\ o = rem /\ d = c)
    BY <1>1, <2>1, <2>2, OpFacts, AppendedOne DEF IInv
  <2>4. /\ Fn("connectEstablished", c) \in Waiting'[l]
             <=> Fn("connectEstablished", c) \in Waiting[l]
        /\ Fn("connectDestoryed", c) \in Waiting'[l]
             <=> Fn("connectDestoryed", c) \in Waiting[l]
    BY <2>3, OpFacts
  <2>5. ConnInv(c)'
    <3>1. States(c)'
      BY <1>1, <1>2, <1>3, <2>1 DEF ConnInv, States
    <3>2. Establishing(c)'
      BY <1>1, <1>2, <2>4 DEF ConnInv, Establishing
    <3>3. Closing(c)'
      BY <1>1, <1>3, <2>1, <2>2 DEF Closing, BaseOver
    <3>4. InDestruction(c)' <=> InDestruction(c)
      BY <1>1, <1>2, <1>3, <1>6, <2>1, <2>4 DEF InDestruction
    <3>5. Removal(c)'
      BY <1>1, <1>2, <1>3, <2>1, <2>4, <3>4 DEF ConnInv, Removal, BaseOver
    <3> QED
      BY <3>1, <3>2, <3>3, <3>5 DEF ConnInv
  <2>6. \A k \in Loops, op \in Ops : Fn(op, c) \in Waiting'[k] =>
          /\ k = IF op = "removeConnectionInLoop" THEN Base ELSE l
          /\ op = "connectEstablished" => k # Base
    BY <1>2, <2>3, OpFacts, AboutConn
  <2>7. \A d \in Conns \ {c} : \A k \in Loops, op \in Ops :
          Fn(op, d) \in Waiting'[k] <=> Fn(op, d) \in Waiting[k]
    BY <2>3
  <2>8. /\ loop_'[c] = l /\ Born(c)'
        /\ \A d \in Conns : d < nextConnId_ <=> d < nextConnId_ \/ d = c
    BY <1>1, <1>2 DEF Born, IInv, Core, Births
  <2>9. Core'
    BY <1>0, <1>1, <1>2, <1>3, <2>1, <2>5, <2>6, <2>7, <2>8, LocalStep DEF IInv
  <2> QED
    BY <2>3, <2>9
<1>7. CASE frame[l].at = "destroy"
  <2>1. UNCHANGED <<connections_, queue>>
    BY <1>7 DEF CallbackReturns
  <2>2. channel_' = [channel_ EXCEPT ![c] = Removed(@)]
    BY <1>0, <1>7 DEF CallbackReturns
  <2>3. /\ ~Registered(channel_'[c]) /\ channel_'[c].index = "kNew"
        /\ \A d \in Conns \ {c} : channel_'[d] = channel_[d]
    BY <2>2, AboutConn, ChannelFacts DEF IInv, TypeOK
  <2>4. /\ At(c, "destroy") /\ log[c] = <<"up", "down">> /\ state_[c] # "kConnected"
        /\ c \notin connections_ /\ Fn("connectDestoryed", c) \notin Waiting[l]
    BY <1>2, <1>3, <1>7, LogFacts DEF ConnInv, States, Removal, InDestruction
  <2>5. ASSUME UNCHANGED Waiting PROVE ConnInv(c)'
    <3>1. States(c)'
      BY <1>1, <1>2, <1>3, <2>3, <2>4 DEF ConnInv, States
    <3>2. Establishing(c)' /\ Closing(c)'
      BY <1>1, <1>2, <1>3, <2>1, <2>5 DEF ConnInv, Establishing, Closing, BaseOver
    <3>3. Removal(c)'
      BY <1>1, <1>2, <2>1, <2>3, <2>4, <2>5, LogFacts DEF Removal, InDestruction
    <3> QED
      BY <3>1, <3>2, <3>3 DEF ConnInv
  <2> QED
    BY <1>0, <1>1, <1>2, <1>3, <2>1, <2>3, <2>5, LocalUnqueued DEF Born
<1> QED
  BY <1>4, <1>5, <1>6, <1>7 DEF CallbackReturns

(* A connection is accepted: the base loop brings its own up at once, for  *)
(* another loop connectEstablished is queued.                              *)
LEMMA NewConnectionStep ==
  ASSUME IInv, NewConnection
  PROVE  Core' /\ Ordered'
<1> DEFINE est == "connectEstablished"
<1>0. PICK c \in Conns : c = nextConnId_
  BY ServerAssumption DEF NewConnection, AcceptReady, IInv, TypeOK, Conns
<1>1. PICK l \in Loops : l = IF numThreads_ = 0 THEN Base ELSE next_ + 1
  BY ServerAssumption DEF IInv, TypeOK, Loops, SubLoops, Base
<1>2. /\ connections_' = connections_ \cup {c} /\ nextConnId_' = c + 1
      /\ loop_' = [loop_ EXCEPT ![c] = l]
      /\ UNCHANGED <<pc, batch, call, hold>>
      /\ IF l = Base
         THEN ConnectEstablished(l, c) /\ UNCHANGED queue
         ELSE /\ state_' = [state_ EXCEPT ![c] = "kConnecting"]
              /\ Enqueue(l, Fn(est, c))
              /\ UNCHANGED <<channel_, log, wrShut, frame>>
      /\ frame[Base].at = "none"
  BY <1>0, <1>1, FrameFacts, LoopTypes
  DEF NewConnection, AcceptReady, threadVars, userVars, IInv
<1>3. /\ ~Born(c) /\ log[c] = <<>> /\ channel_[c] = NewChannel /\ c \notin connections_
      /\ \A k \in Loops, op \in Ops : Fn(op, c) \notin Waiting[k]
  <2>1. ~Born(c)
    BY <1>0 DEF IInv, TypeOK, Core, Births, Conns
  <2> QED
    BY <2>1, AboutConn
<1>4. \A k \in Loops : frame[k].at # "none" => frame[k].conn # c
  BY <1>3 DEF IInv, Core, Births
<1>5. /\ loop_'[c] = l /\ \A d \in Conns \ {c} : loop_'[d] = loop_[d]
      /\ \A d \in Conns : d < nextConnId_' <=> d < nextConnId_ \/ d = c
      /\ \A d \in Conns \ {c} : d \in connections_' <=> d \in connections_
      /\ Base \in Loops
  <2>1. nextConnId_ \in Nat /\ Conns \subseteq Nat
    BY <1>0 DEF Conns
  <2>2. \A d \in Conns : d < nextConnId_' <=> d < nextConnId_ \/ d = c
    BY <1>0, <1>2, <2>1
  <2> QED
    BY <1>2, <2>2, LoopTypes DEF IInv, TypeOK
<1>6. CASE l = Base
  <2>1. ConnectEstablished(l, c) /\ UNCHANGED queue
    BY <1>2, <1>6
  <2>2. UNCHANGED Waiting /\ Ordered'
    BY <1>2, <2>1, TodoSame DEF Todo, IInv
  <2>3. /\ state_'[c] = "kConnected" /\ log'[c] = <<"up">>
        /\ frame'[l].at = "up" /\ frame'[l].conn = c
        /\ \A d \in Conns \ {c} : /\ state_'[d] = state_[d] /\ log'[d] = log[d]
                                  /\ channel_'[d] = channel_[d]
        /\ \A k \in Loops \ {l} : frame'[k] = frame[k]
    BY <1>3, <2>1, LogFacts DEF ConnectEstablished, IInv, TypeOK
  <2>4. Registered(channel_'[c]) /\ channel_'[c].index # "kNew"
    <3>1. channel_'[c] = enableReading(NewChannel)
      BY <1>3, <2>1 DEF ConnectEstablished, IInv, TypeOK
    <3>2. Registered(enableReading(NewChannel))
      BY ChannelFacts, ChannelTypes
    <3> QED
      BY <3>1, <3>2 DEF Registered
  <2>5. \A at : At(c, at)' <=> at = "up"
    BY <1>5, <2>3 DEF At
  <2>6. ConnInv(c)'
    <3>1. States(c)'
      BY <2>3, <2>4, <2>5, LogFacts DEF States
    <3>2. Establishing(c)' /\ Closing(c)'
      BY <1>3, <1>5, <2>2, <2>3, <2>5, LogFacts, OpFacts DEF Establishing, Closing
    <3>3. ~InDestruction(c)' /\ c \in connections_'
      BY <1>2, <1>3, <1>5, <2>2, <2>4, <2>5, OpFacts DEF InDestruction
    <3>4. Removal(c)'
      BY <1>3, <1>5, <2>2, <3>3, OpFacts DEF Removal
    <3> QED
      BY <3>1, <3>2, <3>4 DEF ConnInv
  <2>7. Core'
    BY <1>2, <1>3, <1>4, <1>5, <1>6, <2>2, <2>3, <2>6, LogFacts, LocalStep DEF IInv, Born
  <2> QED
    BY <2>2, <2>7
<1>7. CASE l # Base
  <2>1. /\ state_' = [state_ EXCEPT ![c] = "kConnecting"]
        /\ Enqueue(l, Fn(est, c))
        /\ UNCHANGED <<channel_, log, wrShut, frame>>
    BY <1>2, <1>7
  <2>2. /\ Ordered'
        /\ \A k \in Loops, o \in Ops, d \in Conns :
             Fn(o, d) \in Waiting'[k] <=> Fn(o, d) \in Waiting[k] \/ (k = l /\ o = est /\ d = c)
    BY <1>2, <1>3, <2>1, OpFacts, AppendedOne DEF IInv
  <2>3. /\ state_'[c] = "kConnecting" /\ log'[c] = <<>> /\ channel_'[c] = NewChannel
        /\ \A d \in Conns \ {c} : state_'[d] = state_[d]
    BY <1>3, <2>1 DEF IInv, TypeOK
  <2>4. \A at : at # "none" => ~At(c, at)'
    BY <1>4, <1>5, <2>1 DEF At
  <2>5. /\ Fn(est, c) \in Waiting'[l]
        /\ Fn("connectDestoryed", c) \notin Waiting'[l]
        /\ Fn("removeConnectionInLoop", c) \notin Waiting'[Base]
    BY <1>3, <1>5, <2>2, OpFacts
  <2>6. ConnInv(c)'
    <3>1. States(c)'
      BY <2>3, <2>4, ChannelFacts, LogFacts DEF States
    <3>2. Establishing(c)' /\ Closing(c)'
      BY <1>5, <2>3, <2>4, <2>5 DEF Establishing, Closing
    <3>3. ~InDestruction(c)' /\ c \in connections_'
      BY <1>2, <1>5, <2>3, <2>4, <2>5 DEF InDestruction
    <3>4. Removal(c)'
      BY <1>5, <2>5, <3>3 DEF Removal
    <3> QED
      BY <3>1, <3>2, <3>4 DEF ConnInv
  <2>7. \A k \in Loops, op \in Ops : Fn(op, c) \in Waiting'[k] => k = l /\ op = est
    BY <1>3, <2>2
  <2>8. /\ \A d \in Conns \ {c} : \A k \in Loops, op \in Ops :
             Fn(op, d) \in Waiting'[k] <=> Fn(op, d) \in Waiting[k]
        /\ est # "removeConnectionInLoop"
    BY <2>2
  <2>9. Core'
    BY <1>2, <1>3, <1>5, <1>7, <2>1, <2>3, <2>6, <2>7, <2>8, LocalStep DEF IInv, Born
  <2> QED
    BY <2>2, <2>9
<1> QED
  BY <1>6, <1>7

(* An EventLoop that is destroyed drops the functors that wait in it.      *)
LEMMA LoopDestroyedStep ==
  ASSUME IInv, NEW l \in Loops, LoopDestroyed(l)
  PROVE  Core' /\ Ordered'
<1>1. /\ pc[l] = "exited" /\ pc'[l] = "gone" /\ \A k \in Loops \ {l} : pc'[k] = pc[k]
      /\ UNCHANGED <<nextConnId_, connections_, loop_, state_, channel_, log, frame,
                     batch, call, hold>>
      /\ queue'[l] = <<>> /\ \A k \in Loops \ {l} : queue'[k] = queue[k]
      /\ batch[l] = <<>>
  BY DEF LoopDestroyed, serverVars, connVars, userVars, IInv, TypeOK
<1>2. Todo'[l] = <<>> /\ \A k \in Loops \ {l} : Todo'[k] = Todo[k]
  <2>1. <<>> \o <<>> = <<>>
    BY EmptySeq, ConcatEmptySeq
  <2> QED
    BY <1>1, <2>1 DEF Todo
<1>3. Orderly(<<>>) /\ Members(<<>>) = {}
  BY DEF Orderly, Members
<1>4. Ordered'
  BY <1>2, <1>3 DEF Ordered, IInv
<1>5. Waiting'[l] = {} /\ \A k \in Loops \ {l} : Waiting'[k] = Waiting[k]
  BY <1>2, <1>3 DEF Waiting
<1>6. References /\ Core /\ (BaseOver' <=> BaseOver)
  <2>1. Base \in Loops
    BY LoopTypes DEF IInv
  <2> QED
    BY <1>1, <2>1, FrameFacts DEF BaseOver, IInv
<1>7. Births' /\ Placement' /\ Heard'
  <2>1. \A k \in Loops, op \in Ops, c \in Conns :
          Fn(op, c) \in Waiting'[k] => Fn(op, c) \in Waiting[k]
    BY <1>5
  <2>2. Births'
    BY <1>1, <1>6, <2>1 DEF Core, Births, Born
  <2>3. Placement'
    BY <1>1, <1>6, <2>1, OpFacts DEF Core, Placement, References
  <2>4. Heard'
    BY <1>1, <1>6 DEF Core, Heard
  <2> QED
    BY <2>2, <2>3, <2>4
<1>8. ASSUME NEW c \in Conns, Born(c) PROVE ConnInv(c)'
  <2>1. ConnInv(c) /\ loop_[c] \in Loops /\ Base \in Loops
    BY <1>6, <1>8 DEF Core, References
  <2>2. \A at : At(c, at)' <=> At(c, at)
    BY <1>1 DEF At
  <2>3. \A k \in Loops : pc'[k] # "gone" => pc[k] # "gone" /\ Waiting'[k] = Waiting[k]
    BY <1>1, <1>5
  <2>4. \A k \in Loops : Waiting'[k] \subseteq Waiting[k]
    BY <1>5
  <2>5. States(c)'
    BY <1>1, <2>1, <2>2 DEF ConnInv, States
  <2>6. Establishing(c)'
    BY <1>1, <2>1, <2>3, <2>4 DEF ConnInv, Establishing
  <2>7. Closing(c)'
    BY <1>1, <1>6, <2>1, <2>2, <2>4 DEF ConnInv, Closing
  <2>8. Removal(c)'
    <3>1. InDestruction(c)' => InDestruction(c)
      BY <1>1, <2>1, <2>2, <2>4 DEF InDestruction
    <3>2. pc'[loop_[c]] # "gone" => (InDestruction(c)' <=> InDestruction(c))
      BY <1>1, <2>1, <2>2, <2>3 DEF InDestruction
    <3> QED
      BY <1>1, <1>6, <2>1, <2>2, <2>3, <2>4, <3>1, <3>2 DEF ConnInv, Removal
  <2> QED
    BY <2>5, <2>6, <2>7, <2>8 DEF ConnInv
<1>9. Core'
  BY <1>1, <1>7, <1>8 DEF Core, Born
<1> QED
  BY <1>4, <1>9

(* The local vector and what it holds change together; a loop leaves       *)
(* loop() only when it was asked to quit.                                  *)
LEMMA RunningNext ==
  ASSUME TypeOK, Running, [Next]_vars
  PROVE  Running'
<1> DEFINE Same == \A l \in Loops : batch'[l] = batch[l] /\ held'[l] = held[l]
           Fine(l) == \A i \in DOMAIN batch'[l] : \A c \in Conns :
                        Holds(batch'[l][i], c) => c \in held'[l]
<1> USE DEF serverVars, acceptVars, connVars, threadVars, userVars
<1>1. ASSUME NEW l \in Loops, SwapFunctors(l)
      PROVE  Fine(l) /\ \A k \in Loops \ {l} : batch'[k] = batch[k] /\ held'[k] = held[k]
  <2>1. /\ batch'[l] = queue[l]
        /\ held'[l] = {c \in Conns : \E i \in DOMAIN queue[l] : Holds(queue[l][i], c)}
        /\ \A k \in Loops \ {l} : batch'[k] = batch[k] /\ held'[k] = held[k]
    BY <1>1 DEF SwapFunctors, TypeOK
  <2> QED
    BY <2>1
<1>2. ASSUME NEW l \in Loops, batch[l] # <<>>, PopFunctor(l)
      PROVE  Fine(l) /\ \A k \in Loops \ {l} : batch'[k] = batch[k] /\ held'[k] = held[k]
  <2>1. /\ batch[l] \in Seq(Functors) /\ batch'[l] = Tail(batch[l]) /\ held' = held
        /\ \A k \in Loops \ {l} : batch'[k] = batch[k]
    BY <1>2 DEF PopFunctor, TypeOK
  <2>2. /\ DOMAIN batch[l] = 1..Len(batch[l]) /\ Len(batch[l]) \in Nat
        /\ DOMAIN batch'[l] = 1..(Len(batch[l]) - 1)
        /\ \A i \in 1..(Len(batch[l]) - 1) : batch'[l][i] = batch[l][i + 1]
    BY <1>2, <2>1, TailIndices
  <2>3. \A i \in DOMAIN batch'[l] : i + 1 \in DOMAIN batch[l] /\ batch'[l][i] = batch[l][i + 1]
    BY <2>2
  <2> QED
    BY <2>1, <2>3 DEF Running
<1>3. ASSUME NEW l \in Loops, BatchDone(l)
      PROVE  Fine(l) /\ \A k \in Loops \ {l} : batch'[k] = batch[k] /\ held'[k] = held[k]
  BY <1>3 DEF BatchDone, LastFunctorDone, TypeOK
<1>4. ASSUME NEW l \in Loops, RunFunctor(l) PROVE batch[l] # <<>> /\ PopFunctor(l)
  BY <1>4 DEF RunFunctor, RunEstablished, RunDestoryed, RunRemove, RunShutdown,
              RunSend, AtFunctor
<1>5. \/ Same
      \/ \E l \in Loops : SwapFunctors(l) \/ RunFunctor(l) \/ BatchDone(l)
  BY DEF Next, LoopStep, Start, ClientArrives, NewConnection, AcceptFails,
         DestroyAcceptor, PeerCloses, DestroyConnection, HandleMessage, HandleEnd,
         CallbackReturns, LoopDestroyed, ShutdownTest, ShutdownSet, ShutdownQueue,
         SendQueue, QueueRaw, Release, Acquire, SendTest, CallGoesTo, Quit,
         DestroyThread, vars
<1>6. \A l \in Loops : Fine(l)
  <2>1. Same => \A l \in Loops : Fine(l)
    BY DEF Running
  <2>2. ASSUME NEW l \in Loops, Fine(l),
               \A k \in Loops \ {l} : batch'[k] = batch[k] /\ held'[k] = held[k]
        PROVE  \A k \in Loops : Fine(k)
    BY <2>2 DEF Running
  <2>3. ASSUME NEW l \in Loops, SwapFunctors(l) \/ RunFunctor(l) \/ BatchDone(l)
        PROVE  Fine(l) /\ \A k \in Loops \ {l} : batch'[k] = batch[k] /\ held'[k] = held[k]
    <3>1. CASE SwapFunctors(l)
      BY <1>1, <3>1
    <3>2. CASE RunFunctor(l)
      BY <1>2, <1>4, <3>2
    <3>3. CASE BatchDone(l)
      BY <1>3, <3>3
    <3> QED
      BY <2>3, <3>1, <3>2, <3>3
  <2> HIDE DEF Fine, Same
  <2> QED
    BY <1>5, <2>1, <2>2, <2>3
<1>7. \A l \in Loops : quit[l] => quit'[l]
  <2>1. \/ UNCHANGED quit
        \/ Quit
        \/ \E k \in SubLoops : DestroyThread(k)
    BY DEF Next, LoopStep, RunFunctor, RunEstablished, RunDestoryed, RunRemove,
           RunShutdown, RunSend, PopFunctor, BatchDone, SwapFunctors, Start,
           ClientArrives, NewConnection, AcceptFails,
           DestroyAcceptor, PeerCloses, DestroyConnection, HandleMessage, HandleEnd,
           CallbackReturns, LoopDestroyed, ShutdownTest, ShutdownSet, ShutdownQueue,
           SendQueue, QueueRaw, Release, Acquire, SendTest, CallGoesTo, vars
  <2>2. Quit \/ (\E k \in SubLoops : DestroyThread(k))
          => \E k \in Loops : quit' = [quit EXCEPT ![k] = TRUE]
    BY LoopTypes DEF Quit, DestroyThread
  <2> QED
    BY <2>1, <2>2 DEF TypeOK
<1>8. ASSUME NEW l \in Loops, pc'[l] \in {"exited", "gone"} PROVE quit'[l]
  <2>1. \/ UNCHANGED pc
        \/ Start
        \/ \E k \in Loops : SwapFunctors(k) \/ BatchDone(k) \/ LoopDestroyed(k)
    BY DEF Next, LoopStep, RunFunctor, RunEstablished, RunDestoryed, RunRemove,
           RunShutdown, RunSend, PopFunctor,
           ClientArrives, NewConnection, AcceptFails,
           DestroyAcceptor, PeerCloses, DestroyConnection, HandleMessage, HandleEnd,
           CallbackReturns, ShutdownTest, ShutdownSet, ShutdownQueue,
           SendQueue, QueueRaw, Release, Acquire, SendTest, CallGoesTo, Quit,
           DestroyThread, vars
  <2>2. pc[l] \in {"exited", "gone"} => quit'[l]
    BY <1>7 DEF Running
  <2>3. CASE UNCHANGED pc
    BY <1>8, <2>2, <2>3
  <2>4. CASE Start
    BY <1>8, <2>2, <2>4 DEF Start, TypeOK
  <2>5. ASSUME NEW k \in Loops, SwapFunctors(k) PROVE quit'[l]
    BY <1>8, <2>2, <2>5 DEF SwapFunctors, TypeOK
  <2>6. ASSUME NEW k \in Loops, BatchDone(k) PROVE quit'[l]
    BY <1>7, <1>8, <2>2, <2>6 DEF BatchDone, AfterFunctors, TypeOK
  <2>7. ASSUME NEW k \in Loops, LoopDestroyed(k) PROVE quit'[l]
    <3>1. pc[l] \in {"exited", "gone"}
      BY <1>8, <2>7 DEF LoopDestroyed, TypeOK
    <3> QED
      BY <2>2, <3>1
  <2> QED
    BY <2>1, <2>3, <2>4, <2>5, <2>6, <2>7
<1> QED
  BY <1>6, <1>8 DEF Running

(* The invariant holds before start().                                     *)
LEMMA IInvInit == Init => IInv
<1> SUFFICES ASSUME Init PROVE IInv
  OBVIOUS
<1>1. TypeOK
  BY TypeInit
<1>2. \A l \in Loops : batch[l] = <<>> /\ queue[l] = <<>> /\ frame[l] = NoFrame
  BY DEF Init
<1>3. Running
  <2>1. \A l \in Loops : pc[l] \notin {"exited", "gone"}
    BY DEF Init
  <2> QED
    BY <1>2, <2>1 DEF Running
<1>4. \A l \in Loops : Todo[l] = <<>> /\ Waiting[l] = {}
  <2>1. <<>> \o <<>> = <<>>
    BY EmptySeq, ConcatEmptySeq
  <2>2. \A l \in Loops : Todo[l] = <<>>
    BY <1>2, <2>1 DEF Todo
  <2> QED
    BY <2>2 DEF Waiting, Members
<1>5. Ordered
  BY <1>4 DEF Ordered, Orderly
<1>6. Core
  <2>1. \A c \in Conns : ~Born(c) /\ log[c] = <<>> /\ channel_[c] = NewChannel
                         /\ ~(c < nextConnId_)
    BY ServerAssumption DEF Init, Born, Conns
  <2>2. connections_ = {} /\ \A u \in Users : hold[u] = NoConn
    BY DEF Init
  <2>3. Base \in Loops /\ NoFrame.at = "none"
    BY <1>1, LoopTypes, FrameFacts
  <2>4. Births
    BY <1>2, <1>4, <2>1, <2>2, <2>3 DEF Births
  <2>5. Placement
    BY <1>2, <1>4, <2>3 DEF Placement
  <2>6. Heard
    BY DEF Heard, Init, NoCall
  <2> QED
    BY <2>1, <2>4, <2>5, <2>6 DEF Core
<1> QED
  BY <1>1, <1>3, <1>5, <1>6 DEF IInv

(* Every step keeps the invariant.                                         *)
LEMMA IInvNext == IInv /\ [Next]_vars => IInv'
<1> SUFFICES ASSUME IInv, [Next]_vars PROVE IInv'
  OBVIOUS
<1>1. TypeOK'
  BY TypeNext DEF IInv
<1>2. Running'
  BY RunningNext DEF IInv
<1>3. Core' /\ Ordered'
  <2>1. \A l \in Loops : LoopStep(l) => Core' /\ Ordered'
    BY CallbackReturnsStep, RunEstablishedStep, RunDestoryedStep, RunRemoveStep,
       RunRawStep, QuietActions, LoopDestroyedStep DEF LoopStep, RunFunctor
  <2>2. \A l \in Loops, c \in Conns :
          HandleMessage(l, c) \/ HandleEnd(l, c) => Core' /\ Ordered'
    BY HandleMessageStep, HandleEndStep
  <2>3. \A t \in Threads, c \in Conns :
          ShutdownTest(t, c) \/ ShutdownSet(t) \/ ShutdownQueue(t) => Core' /\ Ordered'
    BY QuietActions, ShutdownSetStep, QueueRawStep
  <2>4. \A u \in Users, c \in Conns :
          Release(u) \/ SendQueue(u) \/ Acquire(u, c) \/ SendTest(u, c) => Core' /\ Ordered'
    BY QuietActions, QueueRawStep DEF Threads
  <2>5. \A c \in Conns : PeerCloses(c) \/ DestroyConnection(c) => Core' /\ Ordered'
    BY QuietActions, DestroyConnectionStep
  <2>6. Start \/ ClientArrives \/ NewConnection \/ AcceptFails \/ DestroyAcceptor \/ Quit
          => Core' /\ Ordered'
    BY QuietActions, NewConnectionStep
  <2>7. \A k \in SubLoops : DestroyThread(k) => Core' /\ Ordered'
    BY QuietActions
  <2>8. \A l \in Loops : SwapFunctors(l) => Core' /\ Ordered'
    BY SwapStep
  <2>9. UNCHANGED vars => Core' /\ Ordered'
    BY QuietActions
  <2>10. Conns # {}
    BY ServerAssumption DEF Conns
  <2> QED
    BY <2>1, <2>2, <2>3, <2>4, <2>5, <2>6, <2>7, <2>8, <2>9, <2>10 DEF Next
<1> QED
  BY <1>1, <1>2, <1>3 DEF IInv

(* The invariant holds in every reachable state.                           *)
THEOREM Invariant == Spec => []IInv
  BY IInvInit, IInvNext, PTL DEF Spec
------------------------------------------------------------------------------
(* What the invariant says to the user of the server. *)

(* Up once, messages, then down once.                                      *)
THEOREM CallbacksInOrder == Spec => []CallbackOrder
<1>1. IInv => CallbackOrder
  <2> SUFFICES ASSUME IInv PROVE CallbackOrder
    OBVIOUS
  <2>1. \A c \in Conns : log[c] \in {<<>>, <<"up">>, <<"up", "down">>}
    BY DEF IInv, Core, Births, ConnInv, States
  <2>2. ASSUME NEW l \in Loops, frame[l].at = "message"
        PROVE  log[frame[l].conn] = <<"up">>
    <3>1. PICK c \in Conns : c = frame[l].conn
      BY <2>2, FrameFacts DEF IInv
    <3>2. Born(c) /\ loop_[c] = l
      BY <2>2, <3>1 DEF IInv, Core, Births, Placement
    <3> QED
      BY <2>2, <3>1, <3>2 DEF IInv, Core, ConnInv, States, At
  <2> QED
    BY <2>1, <2>2 DEF CallbackOrder
<1> QED
  BY <1>1, Invariant, PTL

(* A connection that is freed is out of the map and no handler or functor  *)
(* of it is left.                                                          *)
LEMMA FreedFacts ==
  ASSUME IInv, NEW c \in Conns, Freed(c)
  PROVE  /\ Born(c) /\ ConnInv(c) /\ loop_[c] \in Loops /\ c \notin connections_
         /\ \A at : at # "none" => ~At(c, at)
         /\ \A l \in Loops, op \in Ops \ RawOps : Fn(op, c) \notin Waiting[l]
<1>1. Born(c) /\ ConnInv(c) /\ loop_[c] \in Loops /\ c \notin connections_
  BY AboutConn DEF Freed, Referenced
<1>2. \A at : at # "none" => ~At(c, at)
  BY <1>1 DEF Freed, Referenced, At
<1>3. ASSUME NEW l \in Loops, NEW op \in Ops \ RawOps, Fn(op, c) \in Waiting[l]
      PROVE  FALSE
  <2>1. /\ batch[l] \in Seq(Functors) /\ queue[l] \in Seq(Functors)
        /\ Todo[l] = batch[l] \o queue[l]
    BY DEF IInv, TypeOK, Todo
  <2>2. PICK i \in DOMAIN Todo[l] : Todo[l][i] = Fn(op, c)
    BY <1>3, TodoTypes DEF Members, IInv
  <2>3. \/ i \in DOMAIN batch[l] /\ batch[l][i] = Fn(op, c)
        \/ \E j \in DOMAIN queue[l] : queue[l][j] = Fn(op, c)
    <3>1. \A s, u \in Seq(Functors) : \A k \in DOMAIN (s \o u) :
            \/ k \in DOMAIN s /\ (s \o u)[k] = s[k]
            \/ k - Len(s) \in DOMAIN u /\ (s \o u)[k] = u[k - Len(s)]
      BY ConcatIndices
    <3> DEFINE b == batch[l]
               q == queue[l]
    <3>2. /\ b \in Seq(Functors) /\ q \in Seq(Functors)
          /\ i \in DOMAIN (b \o q) /\ (b \o q)[i] = Fn(op, c)
      BY <2>1, <2>2, Zenon
    <3> HIDE DEF b, q
    <3>3. \/ i \in DOMAIN b /\ (b \o q)[i] = b[i]
          \/ i - Len(b) \in DOMAIN q /\ (b \o q)[i] = q[i - Len(b)]
      BY <3>1, <3>2, Zenon
    <3>4. \/ i \in DOMAIN b /\ b[i] = Fn(op, c)
          \/ i - Len(b) \in DOMAIN q /\ q[i - Len(b)] = Fn(op, c)
      BY <3>2, <3>3, Zenon
    <3> QED
      BY <3>4 DEF b, q
  <2>4. \A f : f = Fn(op, c) => Holds(f, c)
    BY FunctorFacts DEF Holds
  <2>5. c \notin held[l] /\ \A j \in DOMAIN queue[l] : ~Holds(queue[l][j], c)
    BY DEF Freed, Referenced
  <2> QED
    BY <2>3, <2>4, <2>5 DEF IInv, Running
<1> QED
  BY <1>1, <1>2, <1>3

(* No dangling pointer is left in a poller.                                *)
THEOREM NothingLeftInPoller == Spec => []PollerClean
<1>1. ASSUME IInv, NEW c \in Conns, Freed(c), pc[loop_[c]] # "gone"
      PROVE  channel_[c].index = "kNew"
  BY <1>1, FreedFacts, OpFacts DEF ConnInv, Removal, InDestruction
<1>2. IInv => PollerClean
  BY <1>1 DEF PollerClean
<1> QED
  BY <1>2, Invariant, PTL

(* The user has heard of the end of a connection that is freed, unless the *)
(* server was ending.                                                      *)
THEOREM NoSilentEnd == Spec => []FreedWentDown
<1>1. ASSUME IInv, NEW c \in Conns, Freed(c), log[c] # <<"up", "down">>
      PROVE  quit[Base] /\ (state_[c] = "kDisconnecting" \/ pc[loop_[c]] = "gone")
  <2>1. BaseOver /\ (state_[c] = "kDisconnecting" \/ pc[loop_[c]] = "gone")
    BY <1>1, FreedFacts, OpFacts DEF ConnInv, Removal
  <2>2. quit[Base]
    BY <1>1, <2>1, LoopTypes DEF IInv, Running, BaseOver
  <2> QED
    BY <2>1, <2>2
<1>2. IInv => FreedWentDown
  BY <1>1 DEF FreedWentDown
<1> QED
  BY <1>2, Invariant, PTL
------------------------------------------------------------------------------
(* shutdown() called in the loop's own thread. *)

(* A call of shutdown() from a callback: the callback is one of a          *)
(* connection that is up, and nothing else has happened to it since the    *)
(* test of state_.                                                         *)
Tested ==
  \A l \in Loops : call[l].at # "none" =>
    /\ frame[l].at \in {"up", "message"}
    /\ frame[l].conn = call[l].conn
    /\ log[call[l].conn] = <<"up">>
    /\ call[l].at = "tested" => state_[call[l].conn] = "kConnected"

StaysDown ==
  \A c \in Conns : state_[c] = "kDisconnected" => state_'[c] = "kDisconnected"

(* A step that starts no test and disturbs no tested call keeps Tested.    *)
LEMMA TestedSame ==
  ASSUME Tested,
         \A l \in Loops : call'[l].at # "none" =>
           /\ call[l].at # "none" /\ call'[l].conn = call[l].conn
           /\ frame'[l] = frame[l]
           /\ log'[call[l].conn] = log[call[l].conn]
           /\ call'[l].at = "tested" =>
                call[l].at = "tested" /\ state_'[call[l].conn] = state_[call[l].conn]
  PROVE  Tested'
  BY DEF Tested

(* A handler run by a loop that is in no callback changes a connection no  *)
(* loop is in a callback of.                                               *)
LEMMA HandlerTested ==
  ASSUME Tested, NEW l \in Loops, NEW c \in Conns, frame[l].at = "none",
         UNCHANGED call,
         \A k \in Loops : frame[k].at # "none" => frame[k].conn # c,
         \A d : d # c => state_'[d] = state_[d] /\ log'[d] = log[d],
         \A k \in Loops : k # l => frame'[k] = frame[k]
  PROVE  Tested'
<1>1. \A k \in Loops : call[k].at # "none" => k # l /\ call[k].conn # c
  BY DEF Tested
<1> QED
  BY <1>1, TestedSame

(* connectEstablished, handleClose and connectDestoryed.                   *)
LEMMA HandlerKeeps ==
  ASSUME IInv, Tested, NEW l \in Loops, NEW c \in Conns, frame[l].at = "none",
         UNCHANGED call, state_[c] # "kDisconnected" \/ ~ConnectEstablished(l, c),
         \A k \in Loops : frame[k].at # "none" => frame[k].conn # c,
         ConnectEstablished(l, c) \/ HandleClose(l, c) \/ ConnectDestoryed(l, c)
  PROVE  Tested' /\ StaysDown
<1>1. CASE ConnectEstablished(l, c)
  <2>1. /\ \A d : d # c => state_'[d] = state_[d] /\ log'[d] = log[d]
        /\ \A k \in Loops : k # l => frame'[k] = frame[k]
    BY <1>1 DEF ConnectEstablished, IInv, TypeOK
  <2> QED
    BY <1>1, <2>1, HandlerTested DEF StaysDown
<1>2. CASE \E at : GoDown(l, c, at)
  <2>1. /\ \A d : d # c => state_'[d] = state_[d] /\ log'[d] = log[d]
        /\ \A k \in Loops : k # l => frame'[k] = frame[k]
        /\ state_'[c] = "kDisconnected"
    BY <1>2 DEF GoDown, IInv, TypeOK
  <2> QED
    BY <2>1, HandlerTested DEF StaysDown
<1>3. CASE UNCHANGED <<state_, frame, log>>
  BY <1>3, TestedSame DEF StaysDown
<1> QED
  BY <1>1, <1>2, <1>3 DEF HandleClose, ConnectDestoryed

(* No step sets state_ back from kDisconnected.                            *)
LEMMA TestedNext ==
  ASSUME Users = {}, IInv, Tested, [Next]_vars
  PROVE  Tested' /\ StaysDown
<1> USE DEF serverVars, acceptVars, connVars, threadVars, userVars
<1>1. /\ \A l \in Loops : Free(l) <=> frame[l].at = "none"
      /\ \A l \in Loops : frame[l].at # "none" =>
           frame[l].conn \in Conns /\ loop_[frame[l].conn] = l /\ Born(frame[l].conn)
      /\ Base \in Loops
  BY FrameFacts, LoopTypes DEF IInv, Core, Placement, Births
<1>2. \A l \in Loops, c \in Conns : loop_[c] = l /\ frame[l].at = "none" =>
        \A k \in Loops : frame[k].at # "none" => frame[k].conn # c
  BY <1>1
<1>3. Threads = Loops
  BY DEF Threads
<1>4. ASSUME UNCHANGED <<state_, frame, log>>, call' = call \/ \E t \in Threads :
               call' = [call EXCEPT ![t] = NoCall]
      PROVE  Tested' /\ StaysDown
  <2>1. NoCall.at = "none" /\ \A l \in Loops : call'[l] \in {call[l], NoCall}
    BY <1>3, <1>4 DEF NoCall, IInv, TypeOK
  <2> QED
    BY <1>4, <2>1, TestedSame DEF StaysDown
<1>5. CASE Start \/ ClientArrives \/ AcceptFails \/ DestroyAcceptor \/ Quit
           \/ UNCHANGED vars
  BY <1>4, <1>5 DEF Start, ClientArrives, AcceptFails, DestroyAcceptor, Quit, vars
<1>6. CASE NewConnection
  <2> DEFINE c == nextConnId_
             l == IF numThreads_ = 0 THEN Base ELSE next_ + 1
  <2>1. c \in Conns /\ ~Born(c) /\ frame[Base].at = "none" /\ UNCHANGED call
    <3>1. c \in Conns
      BY <1>6, ServerAssumption DEF NewConnection, AcceptReady, IInv, TypeOK, Conns
    <3>2. ~(c < c)
      BY <3>1 DEF Conns
    <3> QED
      BY <1>1, <1>6, <3>1, <3>2 DEF NewConnection, AcceptReady, IInv, Core, Births
  <2>2. \A k \in Loops : frame[k].at # "none" => frame[k].conn # c
    BY <1>1, <2>1
  <2>3. state_[c] # "kDisconnected"
    BY <2>1 DEF Born
  <2>4. \/ ConnectEstablished(Base, c)
        \/ state_' = [state_ EXCEPT ![c] = "kConnecting"] /\ UNCHANGED <<frame, log>>
    BY <1>6 DEF NewConnection
  <2> HIDE DEF c
  <2>5. CASE ConnectEstablished(Base, c)
    BY <1>1, <2>1, <2>2, <2>3, <2>5, HandlerKeeps
  <2>6. CASE state_' = [state_ EXCEPT ![c] = "kConnecting"] /\ UNCHANGED <<frame, log>>
    <3>1. \A d : d # c => state_'[d] = state_[d] /\ log'[d] = log[d]
      BY <2>6 DEF IInv, TypeOK
    <3> QED
      BY <1>1, <2>1, <2>2, <2>3, <2>6, <3>1, HandlerTested DEF StaysDown
  <2> QED
    BY <2>4, <2>5, <2>6
<1>7. ASSUME NEW c \in Conns, PeerCloses(c) PROVE Tested' /\ StaysDown
  BY <1>4, <1>7 DEF PeerCloses
<1>8. ASSUME NEW c \in Conns, DestroyConnection(c) PROVE Tested' /\ StaysDown
  <2>1. frame[Base].at = "none" /\ UNCHANGED call
    BY <1>1, <1>8 DEF DestroyConnection
  <2>2. CASE loop_[c] = Base
    <3>1. state_[c] # "kDisconnected" \/ ~ConnectEstablished(Base, c)
      BY <1>8, <2>2 DEF DestroyConnection, ConnectDestoryed, ConnectEstablished, IInv, TypeOK
    <3>2. ConnectDestoryed(Base, c)
      BY <1>8, <2>2 DEF DestroyConnection
    <3> QED
      BY <1>1, <1>2, <2>1, <2>2, <3>1, <3>2, HandlerKeeps
  <2>3. CASE loop_[c] # Base
    BY <1>4, <1>8, <2>1, <2>3 DEF DestroyConnection
  <2> QED
    BY <2>2, <2>3
<1>9. ASSUME NEW l \in Loops, NEW c \in Conns, HandleMessage(l, c) PROVE Tested' /\ StaysDown
  <2>1. /\ frame[l].at = "none" /\ loop_[c] = l /\ UNCHANGED <<state_, log, call>>
        /\ \A k \in Loops : k # l => frame'[k] = frame[k]
    BY <1>1, <1>9 DEF HandleMessage, EventReady, IInv, TypeOK
  <2> QED
    BY <1>2, <2>1, HandlerTested DEF StaysDown
<1>10. ASSUME NEW l \in Loops, NEW c \in Conns, HandleEnd(l, c) PROVE Tested' /\ StaysDown
  <2>1. /\ frame[l].at = "none" /\ loop_[c] = l /\ UNCHANGED call /\ HandleClose(l, c)
    BY <1>1, <1>10 DEF HandleEnd, EventReady
  <2>2. ~ConnectEstablished(l, c)
    BY <2>1 DEF HandleClose, GoDown, ConnectEstablished, IInv, TypeOK
  <2> QED
    BY <1>2, <2>1, <2>2, HandlerKeeps
<1>11. ASSUME NEW l \in Loops, SwapFunctors(l) PROVE Tested' /\ StaysDown
  BY <1>4, <1>11 DEF SwapFunctors
<1>12. ASSUME NEW l \in Loops, CallbackReturns(l) PROVE Tested' /\ StaysDown
  <2>1. /\ call[l] = NoCall /\ UNCHANGED <<state_, log, call>> /\ NoCall.at = "none"
        /\ \A k \in Loops : k # l => frame'[k] = frame[k]
    BY <1>12 DEF CallbackReturns, NoCall, IInv, TypeOK
  <2>2. \A k \in Loops : call[k].at # "none" => k # l
    BY <2>1
  <2> QED
    BY <2>1, <2>2, TestedSame DEF StaysDown
<1>13. ASSUME NEW l \in Loops, NEW op \in {"connectEstablished", "connectDestoryed"},
              AtFunctor(l, op), PopFunctor(l), UNCHANGED queue, NEW c,
              c = Head(batch[l]).conn
       PROVE  /\ c \in Conns /\ frame[l].at = "none" /\ loop_[c] = l
              /\ op = "connectEstablished" => state_[c] # "kDisconnected"
              /\ UNCHANGED call
  <2>1. frame[l].at = "none" /\ c \in Conns /\ Fn(op, c) \in Waiting[l]
    BY <1>13, OpFacts, TakesFunctor DEF IInv
  <2>2. loop_[c] = l /\ ConnInv(c)
    BY <2>1, OpFacts, AboutConn
  <2> QED
    BY <1>13, <2>1, <2>2, LogFacts DEF ConnInv, Establishing, States, PopFunctor
<1>14. ASSUME NEW l \in Loops, RunEstablished(l) PROVE Tested' /\ StaysDown
  <2>1. PICK c : c = Head(batch[l]).conn
    OBVIOUS
  <2>2. /\ c \in Conns /\ frame[l].at = "none" /\ loop_[c] = l
        /\ state_[c] # "kDisconnected" /\ UNCHANGED call
    BY <1>13, <1>14, <2>1 DEF RunEstablished
  <2> QED
    BY <1>2, <1>14, <2>1, <2>2, HandlerKeeps DEF RunEstablished
<1>15. ASSUME NEW l \in Loops, RunDestoryed(l) PROVE Tested' /\ StaysDown
  <2>1. PICK c : c = Head(batch[l]).conn
    OBVIOUS
  <2>2. /\ c \in Conns /\ frame[l].at = "none" /\ loop_[c] = l /\ UNCHANGED call
        /\ ConnectDestoryed(l, c)
    BY <1>13, <1>15, <2>1 DEF RunDestoryed
  <2>3. state_[c] # "kDisconnected" \/ ~ConnectEstablished(l, c)
    BY <2>2 DEF ConnectDestoryed, ConnectEstablished, IInv, TypeOK
  <2> QED
    BY <1>2, <2>2, <2>3, HandlerKeeps
<1>16. ASSUME NEW l \in Loops, RunRemove(l) \/ RunShutdown(l) \/ RunSend(l)
       PROVE  Tested' /\ StaysDown
  BY <1>4, <1>16 DEF RunRemove, RunShutdown, RunSend, PopFunctor, ShutdownInLoop
<1>17. ASSUME NEW l \in Loops, BatchDone(l) \/ LoopDestroyed(l) PROVE Tested' /\ StaysDown
  BY <1>4, <1>17 DEF BatchDone, LoopDestroyed
<1>18. ASSUME NEW t \in Loops, NEW c \in Conns, ShutdownTest(t, c)
       PROVE  Tested' /\ StaysDown
  <2>1. /\ frame[t].conn = c /\ state_[c] = "kConnected"
        /\ call' = [call EXCEPT ![t] = [at |-> "tested", conn |-> c]]
        /\ UNCHANGED <<state_, log, frame>>
    BY <1>18 DEF ShutdownTest, MayShutdown, StillConnected, CallGoesTo
  <2>2. frame[t].at \in {"up", "message"} /\ log[c] = <<"up">>
    <3>1. frame[t].at # "none"
      BY <1>1, <2>1 DEF Free, NoFrame, NoConn, Conns
    <3>2. loop_[c] = t /\ ConnInv(c)
      BY <1>1, <2>1, <3>1, AboutConn
    <3>3. log[c] = <<"up">>
      BY <2>1, <3>2 DEF ConnInv, States
    <3>4. frame[t].at \notin {"close", "destroy"}
      BY <2>1, <3>2, <3>3, LogFacts DEF ConnInv, States, At
    <3>5. frame[t].at \in {"up", "message", "close", "destroy"}
      BY <3>1, FrameFacts DEF IInv, TypeOK, Frames, Free
    <3> QED
      BY <3>3, <3>4, <3>5
  <2>3. call'[t].conn = c /\ \A l \in Loops : l # t => call'[l] = call[l]
    BY <1>3, <2>1 DEF IInv, TypeOK
  <2>4. ASSUME NEW l \in Loops, call'[l].at # "none"
        PROVE  /\ frame'[l].at \in {"up", "message"}
               /\ frame'[l].conn = call'[l].conn
               /\ log'[call'[l].conn] = <<"up">>
               /\ call'[l].at = "tested" => state_'[call'[l].conn] = "kConnected"
    <3>1. CASE l = t
      BY <2>1, <2>2, <2>3, <3>1
    <3>2. CASE l # t
      BY <2>1, <2>3, <2>4, <3>2 DEF Tested
    <3> QED
      BY <3>1, <3>2
  <2> QED
    BY <2>1, <2>4 DEF Tested, StaysDown
<1>19. ASSUME NEW t \in Loops, ShutdownSet(t) PROVE Tested' /\ StaysDown
  <2> DEFINE c == call[t].conn
  <2>1. /\ call[t].at = "tested" /\ UNCHANGED <<frame, log>>
        /\ state_' = [state_ EXCEPT ![c] = "kDisconnecting"]
        /\ call' = [call EXCEPT ![t] = [at |-> "set", conn |-> c]]
    BY <1>19 DEF ShutdownSet, CallGoesTo
  <2>2. /\ call[t].conn = c
        /\ frame[t].at # "none" /\ frame[t].conn = c /\ state_[c] = "kConnected"
        /\ \A l \in Loops : call[l].at # "none" =>
             frame[l].at # "none" /\ frame[l].conn = call[l].conn
    BY <2>1 DEF Tested
  <2> HIDE DEF c
  <2>3. \A l \in Loops : call[l].at # "none" /\ l # t => call[l].conn # c
    BY <1>1, <2>2
  <2>4. /\ call'[t].at = "set" /\ call'[t].conn = c
        /\ \A l \in Loops : l # t => call'[l] = call[l]
        /\ \A d : d # c => state_'[d] = state_[d]
    BY <1>3, <2>1 DEF IInv, TypeOK
  <2> QED
    BY <2>1, <2>2, <2>3, <2>4, TestedSame DEF StaysDown
<1>20. ASSUME NEW t \in Loops, ShutdownQueue(t) PROVE Tested' /\ StaysDown
  BY <1>3, <1>4, <1>20 DEF ShutdownQueue, QueueRaw
<1>21. ASSUME NEW k \in SubLoops, DestroyThread(k) PROVE Tested' /\ StaysDown
  BY <1>4, <1>21 DEF DestroyThread
<1> QED
  BY <1>3, <1>5, <1>6, <1>7, <1>8, <1>9, <1>10, <1>11, <1>12, <1>14, <1>15, <1>16,
     <1>17, <1>18, <1>19, <1>20, <1>21 DEF Next, LoopStep, RunFunctor

(* When only callbacks call shutdown(), kDisconnected is final: shutdown() *)
(* cannot overwrite what handleClose() set, and sendInLoop can rely on it. *)
THEOREM DownForGood ==
  ASSUME Users = {}
  PROVE  Spec => DisconnectedIsFinal
<1>1. IInv /\ Tested /\ [Next]_vars => (IInv /\ Tested)'
  BY IInvNext, TestedNext
<1>2. Init => IInv /\ Tested
  <2>1. Init => Tested
    <3>1. NoCall.at = "none" /\ Loops \subseteq Threads
      BY DEF NoCall, Threads
    <3> QED
      BY <3>1 DEF Init, Tested
  <2> QED
    BY <2>1, IInvInit
<1>3. IInv /\ Tested /\ [Next]_vars
        => [\A c \in Conns :
              state_[c] = "kDisconnected" => state_'[c] = "kDisconnected"]_vars
  BY TestedNext DEF StaysDown
<1> QED
  BY <1>1, <1>2, <1>3, PTL DEF Spec, DisconnectedIsFinal
------------------------------------------------------------------------------
(* connectDestoryed is handed over once. *)

(* Where the local vector and the queue of a loop stand in Todo.           *)
LEMMA Positions ==
  ASSUME TypeOK, NEW l \in Loops
  PROVE  /\ Len(batch[l]) \in Nat /\ DOMAIN batch[l] = 1..Len(batch[l])
         /\ Len(queue[l]) \in Nat /\ DOMAIN queue[l] = 1..Len(queue[l])
         /\ \A i \in DOMAIN batch[l] : i \in DOMAIN Todo[l] /\ Todo[l][i] = batch[l][i]
         /\ \A i \in DOMAIN queue[l] :
              /\ i + Len(batch[l]) \in DOMAIN Todo[l]
              /\ Todo[l][i + Len(batch[l])] = queue[l][i]
<1>1. /\ batch[l] \in Seq(Functors) /\ queue[l] \in Seq(Functors)
      /\ Todo[l] = batch[l] \o queue[l]
  BY DEF TypeOK, Todo
<1>2. Len(queue[l]) \in Nat
  BY <1>1
<1>3. \A s, u \in Seq(Functors) :
        /\ \A i \in DOMAIN s : i \in DOMAIN (s \o u) /\ (s \o u)[i] = s[i]
        /\ \A i \in DOMAIN u : i + Len(s) \in DOMAIN (s \o u)
                               /\ (s \o u)[i + Len(s)] = u[i]
        /\ Len(s) \in Nat /\ DOMAIN s = 1..Len(s) /\ DOMAIN u = 1..Len(u)
  BY ConcatIndices
<1> QED
  <2> DEFINE b == batch[l]
             q == queue[l]
  <2>1. b \in Seq(Functors) /\ q \in Seq(Functors) /\ Todo[l] = b \o q /\ Len(q) \in Nat
    BY <1>1, <1>2, Zenon
  <2> HIDE DEF b, q
  <2>2. /\ \A i \in DOMAIN b : i \in DOMAIN (b \o q) /\ (b \o q)[i] = b[i]
        /\ \A i \in DOMAIN q : i + Len(b) \in DOMAIN (b \o q) /\ (b \o q)[i + Len(b)] = q[i]
        /\ Len(b) \in Nat /\ DOMAIN b = 1..Len(b) /\ DOMAIN q = 1..Len(q)
    BY <1>3, <2>1, Zenon
  <2>3. /\ Len(b) \in Nat /\ DOMAIN b = 1..Len(b)
        /\ Len(q) \in Nat /\ DOMAIN q = 1..Len(q)
        /\ \A i \in DOMAIN b : i \in DOMAIN Todo[l] /\ Todo[l][i] = b[i]
        /\ \A i \in DOMAIN q : i + Len(b) \in DOMAIN Todo[l] /\ Todo[l][i + Len(b)] = q[i]
    BY <2>1, <2>2, Zenon
  <2> QED
    BY <2>3 DEF b, q

(* A functor with a shared_ptr that waits is in the queue or in the local  *)
(* vector of the loop it belongs to, in one place.                         *)
LEMMA PendingOnce ==
  ASSUME IInv, NEW c \in Conns, NEW op \in Ops \ RawOps
  PROVE  /\ \A x, y \in Pending(c, op) : x = y
         /\ Pending(c, op) # {} => \E l \in Loops : Fn(op, c) \in Waiting[l]
<1> DEFINE f == Fn(op, c)
           Place(x, l, i, k) ==
             /\ k \in DOMAIN Todo[l] /\ Todo[l][k] = f
             /\ \/ i \in 1..Len(queue[l]) /\ x = <<l, "q", i>> /\ k = i + Len(batch[l])
                \/ i \in 1..Len(batch[l]) /\ x = <<l, "b", i>> /\ k = i
<1>1. \A x \in Pending(c, op) : \E l \in Loops :
        \/ \E i \in DOMAIN queue[l] : queue[l][i] = f /\ x = <<l, "q", i>>
        \/ \E i \in DOMAIN batch[l] : batch[l][i] = f /\ x = <<l, "b", i>>
  BY DEF Pending
<1>2. f.op \notin RawOps
  BY FunctorFacts
<1>3. \A l \in Loops :
        /\ Waiting[l] = Members(Todo[l]) /\ Orderly(Todo[l])
        /\ f \in Waiting[l] => l = IF op = "removeConnectionInLoop" THEN Base ELSE loop_[c]
  BY TodoTypes, AboutConn DEF IInv, Ordered
<1> HIDE DEF f
<1>4. ASSUME NEW x \in Pending(c, op)
      PROVE  \E l \in Loops : \E i, k : Place(x, l, i, k)
  <2>1. PICK l \in Loops :
          \/ \E i \in DOMAIN queue[l] : queue[l][i] = f /\ x = <<l, "q", i>>
          \/ \E i \in DOMAIN batch[l] : batch[l][i] = f /\ x = <<l, "b", i>>
    BY <1>1
  <2>2. TypeOK
    BY DEF IInv
  <2>3. CASE \E i \in DOMAIN queue[l] : queue[l][i] = f /\ x = <<l, "q", i>>
    <3>1. PICK i \in DOMAIN queue[l] : queue[l][i] = f /\ x = <<l, "q", i>>
      BY <2>3
    <3>2. PICK k : k = i + Len(batch[l])
      OBVIOUS
    <3>3. Place(x, l, i, k)
      BY <2>2, <3>1, <3>2, Positions
    <3> QED
      BY <3>3
  <2>4. CASE \E i \in DOMAIN batch[l] : batch[l][i] = f /\ x = <<l, "b", i>>
    <3>1. PICK i \in DOMAIN batch[l] : batch[l][i] = f /\ x = <<l, "b", i>>
      BY <2>4
    <3>2. Place(x, l, i, i)
      BY <2>2, <3>1, Positions
    <3> QED
      BY <3>2
  <2> QED
    BY <2>1, <2>3, <2>4
<1>5. \A l \in Loops : \A x, i, k : Place(x, l, i, k) => f \in Waiting[l]
  BY <1>3 DEF Members
<1>6. \A l \in Loops : \A i, j \in DOMAIN Todo[l] : Todo[l][i] = f /\ Todo[l][j] = f => i = j
  BY <1>2, <1>3 DEF Orderly
<1>7. ASSUME NEW x \in Pending(c, op), NEW y \in Pending(c, op)
      PROVE  x = y
  <2>x. PICK l \in Loops : \E i, k : Place(x, l, i, k)
    BY <1>4
  <2>1. PICK i, k : Place(x, l, i, k)
    BY <2>x
  <2>y. PICK m \in Loops : \E j, n : Place(y, m, j, n)
    BY <1>4
  <2>2. PICK j, n : Place(y, m, j, n)
    BY <2>y
  <2>3. m = l
    BY <1>3, <1>5, <2>1, <2>2
  <2>4. k = n
    BY <1>6, <2>1, <2>2, <2>3
  <2>5. Len(batch[l]) \in Nat /\ Len(queue[l]) \in Nat
    BY Positions DEF IInv
  <2>6. \/ i \in 1..Len(queue[l]) /\ x = <<l, "q", i>> /\ k = i + Len(batch[l])
        \/ i \in 1..Len(batch[l]) /\ x = <<l, "b", i>> /\ k = i
    BY <2>1
  <2>7. \/ j \in 1..Len(queue[l]) /\ y = <<l, "q", j>> /\ k = j + Len(batch[l])
        \/ j \in 1..Len(batch[l]) /\ y = <<l, "b", j>> /\ k = j
    BY <2>2, <2>3, <2>4
  <2> HIDE DEF Place
  <2> QED
    BY <2>5, <2>6, <2>7
<1>8. ASSUME NEW x \in Pending(c, op) PROVE \E l \in Loops : f \in Waiting[l]
  <2>x. PICK l \in Loops : \E i, k : Place(x, l, i, k)
    BY <1>4
  <2>1. PICK i, k : Place(x, l, i, k)
    BY <2>x
  <2> HIDE DEF Place
  <2> QED
    BY <1>5, <2>1
<1> QED
  BY <1>7, <1>8 DEF f

(* connectDestoryed is handed to a connection's loop at most once, by      *)
(* removeConnectionInLoop or by ~TcpServer, which then takes it out of the *)
(* map, and not again once it has run.                                     *)
THEOREM HandedOverOnce == Spec => []DestroyedOnce
<1> DEFINE des == "connectDestoryed"
<1>1. ASSUME IInv, NEW c \in Conns
      PROVE  /\ Cardinality(Pending(c, des)) + (IF c \in connections_ THEN 1 ELSE 0) <= 1
             /\ log[c] # <<>> /\ channel_[c].index = "kNew"
                  => c \notin connections_ /\ Pending(c, des) = {}
  <2>1. /\ \A x, y \in Pending(c, des) : x = y
        /\ Pending(c, des) # {} => Fn(des, c) \in Waiting[loop_[c]] /\ Born(c)
    <3>1. des \in Ops \ RawOps /\ des # "removeConnectionInLoop" /\ des \in Ops
      BY OpFacts
    <3>2. /\ \A x, y \in Pending(c, des) : x = y
          /\ Pending(c, des) # {} => \E l \in Loops : Fn(des, c) \in Waiting[l]
      BY <1>1, <3>1, PendingOnce
    <3>3. \A l \in Loops : Fn(des, c) \in Waiting[l] => l = loop_[c] /\ Born(c)
      BY <1>1, <3>1, AboutConn
    <3> QED
      BY <3>2, <3>3
  <2>2. Pending(c, des) = {} \/ \E x : Pending(c, des) = {x}
    BY <2>1
  <2>3. \/ Pending(c, des) = {} /\ Cardinality(Pending(c, des)) = 0
        \/ Pending(c, des) # {} /\ Cardinality(Pending(c, des)) = 1
    BY <2>2, FS_EmptySet, FS_Singleton
  <2>4. c \in connections_ => Pending(c, des) = {}
    BY <1>1, <2>1, AboutConn DEF ConnInv, Removal, InDestruction
  <2>5. log[c] # <<>> /\ channel_[c].index = "kNew"
          => c \notin connections_ /\ Pending(c, des) = {}
    BY <1>1, <2>1, AboutConn DEF ConnInv, Removal, InDestruction
  <2>6. Cardinality(Pending(c, des)) + (IF c \in connections_ THEN 1 ELSE 0) <= 1
    BY <2>3, <2>4
  <2> QED
    BY <2>5, <2>6
<1>2. IInv => DestroyedOnce
  BY <1>1 DEF DestroyedOnce
<1> QED
  BY <1>2, Invariant, PTL
------------------------------------------------------------------------------
(* TcpServer implements ConnectionLife. *)

(* The connections the functors of each loop's queue hold.                 *)
Shared == [l \in Loops |->
             {c \in Conns : \E i \in DOMAIN queue[l] : Holds(queue[l][i], c)}]

(* Who holds a connection, without the indices of the queues.              *)
Pointed(c) ==
  \/ c \in connections_
  \/ \E l \in Loops : frame[l].conn = c \/ c \in held[l] \/ c \in Shared[l]
  \/ \E u \in Users : hold[u] = c

LEMMA ReferencedPointed ==
  ASSUME NEW c \in Conns
  PROVE  (Referenced(c) <=> Pointed(c)) /\ (Referenced(c)' <=> Pointed(c)')
<1>1. Referenced(c) <=> Pointed(c)
  BY DEF Referenced, Pointed, Shared
<1>2. Referenced(c)' <=> Pointed(c)'
  BY DEF Referenced, Pointed, Shared
<1> QED
  BY <1>1, <1>2

(* queueInLoop of a functor bound to a shared_ptr keeps its connection.    *)
LEMMA EnqueueShared ==
  ASSUME TypeOK, NEW l \in Loops, NEW op \in Ops, NEW c \in Conns,
         Enqueue(l, Fn(op, c))
  PROVE  /\ \A k \in Loops : k # l => Shared'[k] = Shared[k]
         /\ Shared'[l] = Shared[l] \cup (IF op \in RawOps THEN {} ELSE {c})
<1> DEFINE s == queue[l]
           f == Fn(op, c)
           u == Append(s, f)
<1>1. /\ f \in Functors /\ s \in Seq(Functors) /\ queue'[l] = u
      /\ \A k \in Loops : k # l => queue'[k] = queue[k]
  BY FunctorFacts DEF Enqueue, TypeOK
<1>2. \A d : Holds(f, d) <=> d = c /\ op \notin RawOps
  BY FunctorFacts DEF Holds
<1> HIDE DEF f
<1>3. /\ Len(s) \in Nat /\ DOMAIN s = 1..Len(s) /\ DOMAIN u = 1..(Len(s) + 1)
      /\ \A i \in 1..Len(s) : u[i] = s[i]
      /\ u[Len(s) + 1] = f
  BY <1>1, AppendIndices
<1>4. Shared[l] = {d \in Conns : \E i \in DOMAIN s : Holds(s[i], d)}
  BY DEF Shared
<1>5. Shared'[l] = {d \in Conns : \E i \in DOMAIN u : Holds(u[i], d)}
  BY <1>1 DEF Shared
<1>6. \A k \in Loops : k # l => Shared'[k] = Shared[k]
  BY <1>1 DEF Shared
<1> DEFINE n == Len(s)
<1> HIDE DEF s, u, n
<1>7. \A d : (\E i \in DOMAIN u : Holds(u[i], d))
               <=> (\E i \in DOMAIN s : Holds(s[i], d)) \/ Holds(f, d)
  <2>1. /\ n \in Nat /\ DOMAIN s = 1..n /\ DOMAIN u = 1..(n + 1)
        /\ \A i \in 1..n : u[i] = s[i]
        /\ u[n + 1] = f
    BY <1>3 DEF n
  <2>2. DOMAIN u = DOMAIN s \cup {n + 1}
    BY <2>1
  <2> QED
    BY <2>1, <2>2
<1> QED
  BY <1>2, <1>4, <1>5, <1>6, <1>7

(* A step that gives shared_ptrs to nobody but to connection d.            *)
Touches(d) ==
  /\ connections_' \subseteq connections_ \cup {d}
  /\ \A l \in Loops : /\ frame'[l].conn \in {frame[l].conn, NoConn, d}
                      /\ held'[l] \subseteq held[l] \cup Shared[l]
                      /\ Shared'[l] \subseteq Shared[l] \cup {d}
  /\ \A u \in Users : hold'[u] \in {hold[u], NoConn, d}

(* Connection d has not been freed.                                        *)
Touchable(d) == d \in Conns => Pointed(d) \/ ~Born(d)

(* The functor a loop is about to run holds its connection.                *)
LEMMA BatchPoints ==
  ASSUME IInv, NEW l \in Loops, NEW op \in Ops \ RawOps, AtFunctor(l, op),
         NEW c, c = Head(batch[l]).conn
  PROVE  /\ c \in Conns /\ c \in held[l] /\ Pointed(c)
         /\ op # "removeConnectionInLoop" => loop_[c] = l
         /\ frame[l].at = "none" /\ Born(c) /\ ConnInv(c) /\ Fn(op, c) \in Waiting[l]
<1>1. /\ frame[l].at = "none" /\ batch[l] # <<>> /\ c \in Conns
      /\ Head(batch[l]) = Fn(op, c)
  BY AtHead DEF IInv
<1>2. Holds(Head(batch[l]), c)
  BY <1>1, FunctorFacts DEF Holds
<1>3. batch[l] \in Seq(Functors) /\ Head(batch[l]) = batch[l][1] /\ 1 \in DOMAIN batch[l]
  BY <1>1, TailIndices DEF IInv, TypeOK
<1>4. c \in held[l]
  BY <1>1, <1>2, <1>3 DEF IInv, Running
<1>5. Fn(op, c) \in Waiting[l]
  <2>1. 1 \in DOMAIN Todo[l] /\ Todo[l][1] = Fn(op, c)
    BY <1>1, <1>3, Positions DEF IInv
  <2> QED
    BY <2>1, TodoTypes DEF IInv, Members
<1>6. Born(c) /\ ConnInv(c) /\ (op # "removeConnectionInLoop" => loop_[c] = l)
  BY <1>1, <1>5, AboutConn
<1> QED
  BY <1>1, <1>4, <1>5, <1>6 DEF Pointed

(* connectEstablished, handleClose and connectDestoryed move the callback  *)
(* to their connection and leave the functors alone.                       *)
LEMMA HandlerFrame ==
  ASSUME TypeOK, NEW l \in Loops, NEW c \in Conns,
         ConnectEstablished(l, c) \/ HandleClose(l, c) \/ ConnectDestoryed(l, c)
  PROVE  /\ \A k \in Loops : k # l => frame'[k] = frame[k]
         /\ frame'[l] = frame[l] \/ frame'[l].conn = c
<1>1. CASE ConnectEstablished(l, c)
  BY <1>1 DEF ConnectEstablished, TypeOK
<1>2. CASE HandleClose(l, c)
  BY <1>2 DEF HandleClose, GoDown, TypeOK
<1>3. CASE ConnectDestoryed(l, c)
  BY <1>3 DEF ConnectDestoryed, GoDown, TypeOK
<1> QED
  BY <1>1, <1>2, <1>3

(* A step only gives shared_ptrs to a connection that has not been freed.  *)
LEMMA OnlyLiveTouched ==
  ASSUME IInv, [Next]_vars
  PROVE  \E d : Touches(d) /\ Touchable(d)
<1> USE DEF serverVars, acceptVars, connVars, threadVars, userVars
<1>1. TypeOK /\ Base \in Loops /\ NoConn \notin Conns
  BY LoopTypes DEF IInv, NoConn, Conns
<1>2. Touchable(NoConn)
  BY <1>1 DEF Touchable
<1>3. UNCHANGED queue => UNCHANGED Shared
  BY DEF Shared
<1>4. ASSUME UNCHANGED <<connections_, held, queue, hold>>,
             NEW l \in Loops, NEW d, frame'[l] = frame[l] \/ frame'[l].conn = d,
             \A k \in Loops : k # l => frame'[k] = frame[k]
      PROVE  Touches(d)
  BY <1>3, <1>4 DEF Touches
<1>5. ASSUME UNCHANGED <<connections_, frame, held, queue, hold>>
      PROVE  \E d : Touches(d) /\ Touchable(d)
  BY <1>1, <1>2, <1>4, <1>5
<1>6. CASE Start \/ ClientArrives \/ AcceptFails \/ DestroyAcceptor \/ Quit
           \/ UNCHANGED vars
  BY <1>5, <1>6 DEF Start, ClientArrives, AcceptFails, DestroyAcceptor, Quit, vars
<1>7. CASE NewConnection
  <2> DEFINE c == nextConnId_
             l == IF numThreads_ = 0 THEN Base ELSE next_ + 1
  <2>1. c \in Conns /\ ~Born(c)
    <3>1. c \in Conns
      BY <1>7, ServerAssumption DEF NewConnection, AcceptReady, IInv, TypeOK, Conns
    <3>2. ~(c < c)
      BY <3>1 DEF Conns
    <3> QED
      BY <3>1, <3>2 DEF IInv, Core, Births
  <2>2. l \in Loops
    BY ServerAssumption DEF IInv, TypeOK, Loops, SubLoops, Base
  <2>3. /\ connections_' = connections_ \cup {c} /\ UNCHANGED <<held, hold>>
        /\ \/ ConnectEstablished(Base, c) /\ UNCHANGED queue
           \/ Enqueue(l, Fn("connectEstablished", c)) /\ UNCHANGED frame
    BY <1>7 DEF NewConnection
  <2> HIDE DEF c, l
  <2>4. \A k \in Loops : frame'[k] = frame[k] \/ frame'[k].conn = c
    BY <1>1, <2>1, <2>3, HandlerFrame
  <2>5. \A k \in Loops : Shared'[k] \subseteq Shared[k] \cup {c}
    BY <1>1, <1>3, <2>1, <2>2, <2>3, EnqueueShared, OpFacts
  <2>6. Touches(c)
    BY <2>3, <2>4, <2>5 DEF Touches
  <2> QED
    BY <2>1, <2>6 DEF Touchable
<1>8. ASSUME NEW c \in Conns, PeerCloses(c) PROVE \E d : Touches(d) /\ Touchable(d)
  BY <1>5, <1>8 DEF PeerCloses
<1>9. ASSUME NEW c \in Conns, DestroyConnection(c) PROVE \E d : Touches(d) /\ Touchable(d)
  <2>1. /\ c \in connections_ /\ connections_' = connections_ \ {c} /\ UNCHANGED <<held, hold>>
        /\ \/ ConnectDestoryed(Base, c) /\ UNCHANGED queue
           \/ Enqueue(loop_[c], Fn("connectDestoryed", c)) /\ UNCHANGED frame
    BY <1>9 DEF DestroyConnection
  <2>2. \A k \in Loops : frame'[k] = frame[k] \/ frame'[k].conn = c
    BY <1>1, <2>1, HandlerFrame
  <2>3. \A k \in Loops : Shared'[k] \subseteq Shared[k] \cup {c}
    BY <1>1, <1>3, <2>1, AboutConn, EnqueueShared, OpFacts
  <2>4. Touches(c)
    BY <2>1, <2>2, <2>3 DEF Touches
  <2> QED
    BY <2>1, <2>4 DEF Touchable, Pointed
<1>10. ASSUME NEW l \in Loops, NEW c \in Conns, HandleMessage(l, c) \/ HandleEnd(l, c)
       PROVE  \E d : Touches(d) /\ Touchable(d)
  <2>1. /\ Referenced(c) /\ UNCHANGED <<connections_, held, queue, hold>>
        /\ \/ frame' = [frame EXCEPT ![l] = [at |-> "message", conn |-> c]]
           \/ HandleClose(l, c)
    BY <1>10 DEF HandleMessage, HandleEnd, EventReady, Alive
  <2>2. /\ \A k \in Loops : k # l => frame'[k] = frame[k]
        /\ frame'[l] = frame[l] \/ frame'[l].conn = c
    BY <1>1, <2>1, HandlerFrame DEF TypeOK
  <2>3. Touches(c)
    BY <1>4, <2>1, <2>2
  <2> QED
    BY <2>1, <2>3, ReferencedPointed DEF Touchable
<1>11. ASSUME NEW l \in Loops, SwapFunctors(l) PROVE \E d : Touches(d) /\ Touchable(d)
  <2>1. /\ UNCHANGED <<connections_, frame, hold>>
        /\ held' = [held EXCEPT ![l] = Shared[l]]
        /\ queue' = [queue EXCEPT ![l] = <<>>]
    BY <1>11 DEF SwapFunctors, Shared
  <2>2. \A k \in Loops : Shared'[k] \subseteq Shared[k]
    BY <1>1, <2>1 DEF Shared, TypeOK
  <2>3. Touches(NoConn)
    BY <1>1, <2>1, <2>2 DEF Touches, TypeOK
  <2> QED
    BY <1>2, <2>3
<1>12. ASSUME NEW l \in Loops, CallbackReturns(l) PROVE \E d : Touches(d) /\ Touchable(d)
  <2> DEFINE c == frame[l].conn
  <2>1. c \in Conns /\ Pointed(c)
    BY <1>1, <1>12, LoopTypes DEF CallbackReturns, Pointed
  <2>2. /\ connections_' \subseteq connections_ /\ UNCHANGED <<held, hold>>
        /\ frame' = [frame EXCEPT ![l] = NoFrame]
        /\ \/ UNCHANGED queue
           \/ Enqueue(loop_[c], Fn("connectDestoryed", c))
           \/ Enqueue(Base, Fn("removeConnectionInLoop", c))
    BY <1>12 DEF CallbackReturns, RemoveConnectionInLoop
  <2> HIDE DEF c
  <2>3. \A k \in Loops : Shared'[k] \subseteq Shared[k] \cup {c}
    BY <1>1, <1>3, <2>1, <2>2, AboutConn, EnqueueShared, OpFacts
  <2>4. Touches(c)
    BY <1>1, <2>2, <2>3 DEF Touches, NoFrame, TypeOK
  <2> QED
    BY <2>1, <2>4 DEF Touchable
<1>13. ASSUME NEW l \in Loops, NEW op \in {"connectEstablished", "connectDestoryed"},
              AtFunctor(l, op), UNCHANGED <<connections_, held, queue, hold>>,
              NEW c, c = Head(batch[l]).conn,
              ConnectEstablished(l, c) \/ ConnectDestoryed(l, c)
       PROVE  Touches(c) /\ Touchable(c)
  <2>1. c \in Conns /\ Pointed(c)
    BY <1>13, OpFacts, BatchPoints
  <2>2. /\ \A k \in Loops : k # l => frame'[k] = frame[k]
        /\ frame'[l] = frame[l] \/ frame'[l].conn = c
    BY <1>1, <1>13, <2>1, HandlerFrame
  <2> QED
    BY <1>4, <1>13, <2>1, <2>2 DEF Touchable
<1>14. ASSUME NEW l \in Loops, RunEstablished(l) \/ RunDestoryed(l)
       PROVE  \E d : Touches(d) /\ Touchable(d)
  BY <1>13, <1>14 DEF RunEstablished, RunDestoryed, PopFunctor
<1>15. ASSUME NEW l \in Loops, RunRemove(l) PROVE \E d : Touches(d) /\ Touchable(d)
  <2>1. PICK c : c = Head(batch[l]).conn
    OBVIOUS
  <2>2. /\ connections_' = connections_ \ {c} /\ UNCHANGED <<held, hold, frame>>
        /\ Enqueue(loop_[c], Fn("connectDestoryed", c))
        /\ AtFunctor(l, "removeConnectionInLoop")
    BY <1>15, <2>1 DEF RunRemove, RemoveConnectionInLoop, PopFunctor
  <2>3. c \in Conns /\ Pointed(c)
    BY <2>1, <2>2, OpFacts, BatchPoints
  <2>4. \A k \in Loops : Shared'[k] \subseteq Shared[k] \cup {c}
    BY <1>1, <2>2, <2>3, AboutConn, EnqueueShared, OpFacts
  <2>5. Touches(c)
    BY <2>2, <2>4 DEF Touches
  <2> QED
    BY <2>3, <2>5 DEF Touchable
<1>16. ASSUME NEW l \in Loops, RunShutdown(l) \/ RunSend(l)
       PROVE  \E d : Touches(d) /\ Touchable(d)
  BY <1>5, <1>16 DEF RunShutdown, RunSend, PopFunctor
<1>17. ASSUME NEW l \in Loops, BatchDone(l) PROVE \E d : Touches(d) /\ Touchable(d)
  <2>1. UNCHANGED <<connections_, frame, queue, hold>> /\ held' = [held EXCEPT ![l] = {}]
    BY <1>17 DEF BatchDone
  <2>2. Touches(NoConn)
    BY <1>1, <1>3, <2>1 DEF Touches, TypeOK
  <2> QED
    BY <1>2, <2>2
<1>18. ASSUME NEW l \in Loops, LoopDestroyed(l) PROVE \E d : Touches(d) /\ Touchable(d)
  <2>1. UNCHANGED <<connections_, frame, held, hold>> /\ queue' = [queue EXCEPT ![l] = <<>>]
    BY <1>18 DEF LoopDestroyed
  <2>2. \A k \in Loops : Shared'[k] \subseteq Shared[k]
    BY <1>1, <2>1 DEF Shared, TypeOK
  <2>3. Touches(NoConn)
    BY <2>1, <2>2 DEF Touches
  <2> QED
    BY <1>2, <2>3
<1>19. ASSUME NEW t \in Threads, NEW c \in Conns, ShutdownTest(t, c) \/ SendTest(t, c)
              \/ ShutdownSet(t)
       PROVE  \E d : Touches(d) /\ Touchable(d)
  BY <1>5, <1>19 DEF ShutdownTest, SendTest, ShutdownSet, CallGoesTo
<1>20. ASSUME NEW t \in Threads, ShutdownQueue(t) \/ SendQueue(t)
       PROVE  \E d : Touches(d) /\ Touchable(d)
  <2>1. PICK at \in {"set", "sending"}, op \in RawOps : QueueRaw(t, at, op)
    BY <1>20 DEF ShutdownQueue, SendQueue, RawOps
  <2>2. call[t].conn \in Conns /\ op \in Ops
    <3>1. call[t].at # "none"
      BY <2>1 DEF QueueRaw
    <3> QED
      BY <1>1, <3>1, LoopTypes DEF Ops
  <2>3. PICK c \in Conns : c = call[t].conn
    BY <2>2
  <2>4. /\ Enqueue(loop_[c], Fn(op, c)) /\ UNCHANGED <<connections_, frame, held, hold>>
    BY <2>1, <2>3 DEF QueueRaw
  <2>5. \A k \in Loops : Shared'[k] = Shared[k]
    <3>1. loop_[c] \in Loops /\ op \in RawOps
      BY <1>1, <2>1, LoopTypes
    <3> QED
      BY <1>1, <2>2, <2>4, <3>1, EnqueueShared
  <2>6. Touches(NoConn)
    BY <2>4, <2>5 DEF Touches
  <2> QED
    BY <1>2, <2>6
<1>21. ASSUME NEW u \in Users, NEW c \in Conns, Acquire(u, c)
       PROVE  \E d : Touches(d) /\ Touchable(d)
  <2>1. /\ UNCHANGED <<connections_, frame, held, queue>> /\ Pointed(c)
        /\ hold' = [hold EXCEPT ![u] = c]
    BY <1>21 DEF Acquire, Pointed
  <2>2. Touches(c)
    BY <1>1, <1>3, <2>1 DEF Touches, TypeOK
  <2> QED
    BY <2>1, <2>2 DEF Touchable
<1>22. ASSUME NEW u \in Users, Release(u) PROVE \E d : Touches(d) /\ Touchable(d)
  <2>1. UNCHANGED <<connections_, frame, held, queue>> /\ hold' = [hold EXCEPT ![u] = NoConn]
    BY <1>22 DEF Release
  <2>2. Touches(NoConn)
    BY <1>1, <1>3, <2>1 DEF Touches, TypeOK
  <2> QED
    BY <1>2, <2>2
<1>23. ASSUME NEW k \in SubLoops, DestroyThread(k) PROVE \E d : Touches(d) /\ Touchable(d)
  BY <1>5, <1>23 DEF DestroyThread
<1>24. Users \subseteq Threads /\ Conns # {}
  BY ServerAssumption DEF Threads, Conns
<1> QED
  BY <1>6, <1>7, <1>8, <1>9, <1>10, <1>11, <1>12, <1>14, <1>15, <1>16, <1>17, <1>18,
     <1>19, <1>20, <1>21, <1>22, <1>23, <1>24 DEF Next, LoopStep, RunFunctor

(* The steps as ConnectionLife sees them: one connection is accepted, goes *)
(* up or goes down; a peer ends; the server stops; or nothing happens but  *)
(* that connections may be freed.                                          *)
Speaks(c) ==
  /\ UNCHANGED <<peer, quit>>
  /\ Born(c)' /\ Pointed(c)'
  /\ \A d \in Conns \ {c} : /\ log'[d] = log[d] /\ (Born(d)' <=> Born(d))
                            /\ Pointed(d) => Pointed(d)'
  /\ \/ ~Born(c) /\ log'[c] \in {<<>>, <<"up">>}
     \/ Born(c) /\ Pointed(c) /\ log[c] = <<>> /\ log'[c] = <<"up">>
     \/ Born(c) /\ Pointed(c) /\ log[c] = <<"up">> /\ log'[c] = <<"up", "down">>

Quiet ==
  /\ UNCHANGED <<log, peer>> /\ quit'[Base] = quit[Base]
  /\ \A c \in Conns : Born(c)' <=> Born(c)

Outside ==
  /\ UNCHANGED <<state_, log, connections_, frame, held, queue, hold>>
  /\ \/ UNCHANGED quit /\ \E c \in Conns : /\ peer[c] = "open"
                                           /\ peer' = [peer EXCEPT ![c] = "closed"]
     \/ UNCHANGED peer /\ ~quit[Base] /\ quit'[Base]

(* A handler that calls the user keeps its connection, and frees no other. *)
LEMMA SpeakKeeps ==
  ASSUME IInv, NEW l \in Loops, NEW c \in Conns, frame[l].at = "none",
         frame'[l].conn = c, \A k \in Loops : k # l => frame'[k] = frame[k],
         connections_ \ {c} \subseteq connections_',
         UNCHANGED <<held, hold, queue>>
  PROVE  Pointed(c)' /\ \A d \in Conns \ {c} : Pointed(d) => Pointed(d)'
<1>1. frame[l].conn \notin Conns
  BY FrameFacts DEF IInv, Free, NoFrame, NoConn, Conns
<1>2. UNCHANGED Shared
  BY DEF Shared
<1> QED
  BY <1>1, <1>2 DEF Pointed

(* connectEstablished of a connection the user has not heard of.           *)
LEMMA EstablishedSpeaks ==
  ASSUME IInv, NEW l \in Loops, NEW c \in Conns, frame[l].at = "none",
         ConnectEstablished(l, c), log[c] = <<>>, Born(c) => Pointed(c),
         connections_ \subseteq connections_', UNCHANGED <<held, hold, queue, peer, quit>>
  PROVE  Speaks(c)
<1>1. /\ log'[c] = <<"up">> /\ Born(c)'
      /\ \A d \in Conns \ {c} : log'[d] = log[d] /\ state_'[d] = state_[d]
      /\ frame'[l].conn = c /\ \A k \in Loops : k # l => frame'[k] = frame[k]
  BY LogFacts DEF ConnectEstablished, IInv, TypeOK, Born
<1>2. Pointed(c)' /\ \A d \in Conns \ {c} : Pointed(d) => Pointed(d)'
  BY <1>1, SpeakKeeps
<1> QED
  BY <1>1, <1>2 DEF Speaks, Born

(* handleClose, and connectDestoryed of a connection that is up.           *)
LEMMA DownSpeaks ==
  ASSUME IInv, NEW l \in Loops, NEW c \in Conns, frame[l].at = "none", NEW at,
         GoDown(l, c, at), log[c] = <<"up">>, Born(c) /\ Pointed(c),
         connections_ \ {c} \subseteq connections_',
         UNCHANGED <<held, hold, queue, peer, quit>>
  PROVE  Speaks(c)
<1>1. /\ log'[c] = <<"up", "down">> /\ Born(c)'
      /\ \A d \in Conns \ {c} : log'[d] = log[d] /\ state_'[d] = state_[d]
      /\ frame'[l].conn = c /\ \A k \in Loops : k # l => frame'[k] = frame[k]
  BY LogFacts DEF GoDown, Notified, IInv, TypeOK, Born
<1>2. Pointed(c)' /\ \A d \in Conns \ {c} : Pointed(d) => Pointed(d)'
  BY <1>1, SpeakKeeps
<1> QED
  BY <1>1, <1>2 DEF Speaks, Born

LEMMA DestoryedSpeaks ==
  ASSUME IInv, NEW l \in Loops, NEW c \in Conns, frame[l].at = "none",
         ConnectDestoryed(l, c), Born(c) /\ Pointed(c),
         connections_ \ {c} \subseteq connections_',
         UNCHANGED <<held, hold, queue, peer, quit>>
  PROVE  Quiet \/ Speaks(c)
<1>1. CASE state_[c] = "kConnected"
  <2>1. log[c] = <<"up">>
    BY <1>1, AboutConn DEF ConnInv, States
  <2> QED
    BY <1>1, <2>1, DownSpeaks DEF ConnectDestoryed
<1>2. CASE state_[c] # "kConnected"
  BY <1>2 DEF ConnectDestoryed, Quiet, Born
<1> QED
  BY <1>1, <1>2

(* Every step is one of these.                                             *)
LEMMA StepKinds ==
  ASSUME IInv, [Next]_vars
  PROVE  Quiet \/ Outside \/ \E c \in Conns : Speaks(c)
<1> USE DEF serverVars, acceptVars, connVars, threadVars, userVars
<1>1. TypeOK /\ Base \in Loops /\ \A l \in Loops : Free(l) <=> frame[l].at = "none"
  BY LoopTypes, FrameFacts DEF IInv
<1>2. ASSUME UNCHANGED <<state_, log, peer, quit>> PROVE Quiet
  BY <1>2 DEF Quiet, Born
<1>3. CASE Start \/ ClientArrives \/ AcceptFails \/ DestroyAcceptor \/ UNCHANGED vars
  BY <1>2, <1>3 DEF Start, ClientArrives, AcceptFails, DestroyAcceptor, vars
<1>4. CASE Quit
  <2>1. quit'[Base] /\ ~quit[Base]
    BY <1>1, <1>4 DEF Quit, TypeOK
  <2> QED
    BY <1>4, <2>1 DEF Quit, Outside
<1>5. ASSUME NEW c \in Conns, PeerCloses(c) PROVE Outside
  BY <1>5 DEF PeerCloses, Outside
<1>6. CASE NewConnection
  <2>1. PICK c : c = nextConnId_
    OBVIOUS
  <2>2. c \in Conns /\ ~Born(c) /\ log[c] = <<>> /\ frame[Base].at = "none"
    <3>1. c \in Conns
      BY <1>6, <2>1, ServerAssumption DEF NewConnection, AcceptReady, IInv, TypeOK, Conns
    <3>2. ~(c < c)
      BY <3>1 DEF Conns
    <3> QED
      BY <1>1, <1>6, <2>1, <3>1, <3>2, AboutConn
      DEF IInv, Core, Births, NewConnection, AcceptReady
  <2>3. connections_' = connections_ \cup {c} /\ UNCHANGED <<held, hold, peer, quit>>
    BY <1>6, <2>1 DEF NewConnection
  <2>4. CASE ConnectEstablished(Base, c) /\ UNCHANGED queue
    BY <1>1, <2>2, <2>3, <2>4, EstablishedSpeaks
  <2>5. ASSUME NEW l \in Loops, state_' = [state_ EXCEPT ![c] = "kConnecting"],
               Enqueue(l, Fn("connectEstablished", c)), UNCHANGED <<log, frame>>
        PROVE  Speaks(c)
    <3>1. \A k \in Loops : Shared[k] \subseteq Shared'[k]
      BY <1>1, <2>2, <2>5, EnqueueShared, OpFacts
    <3>2. Pointed(c)' /\ \A d \in Conns \ {c} : Pointed(d) => Pointed(d)'
      BY <2>3, <2>5, <3>1 DEF Pointed
    <3>3. Born(c)' /\ \A d \in Conns \ {c} : Born(d)' <=> Born(d)
      BY <1>1, <2>2, <2>5 DEF Born, TypeOK
    <3> QED
      BY <2>2, <2>3, <2>5, <3>2, <3>3 DEF Speaks
  <2>6. numThreads_ # 0 => next_ + 1 \in Loops
    BY <1>1, ServerAssumption DEF TypeOK, Loops, SubLoops
  <2> QED
    BY <1>1, <1>6, <2>1, <2>2, <2>4, <2>5, <2>6 DEF NewConnection
<1>7. ASSUME NEW c \in Conns, DestroyConnection(c) PROVE Quiet \/ Speaks(c)
  <2>1. /\ c \in connections_ /\ connections_' = connections_ \ {c}
        /\ frame[Base].at = "none" /\ UNCHANGED <<held, hold, peer, quit>>
    BY <1>1, <1>7 DEF DestroyConnection
  <2>2. Born(c) /\ Pointed(c)
    BY <2>1, AboutConn DEF Pointed
  <2>3. CASE ConnectDestoryed(Base, c) /\ UNCHANGED queue
    BY <1>1, <2>1, <2>2, <2>3, DestoryedSpeaks
  <2>4. CASE UNCHANGED <<state_, log>>
    BY <1>2, <2>1, <2>4
  <2> QED
    BY <1>7, <2>3, <2>4 DEF DestroyConnection
<1>8. ASSUME NEW l \in Loops, NEW c \in Conns, HandleMessage(l, c) PROVE Quiet
  BY <1>2, <1>8 DEF HandleMessage
<1>9. ASSUME NEW l \in Loops, NEW c \in Conns, HandleEnd(l, c) PROVE Speaks(c)
  <2>1. /\ frame[l].at = "none" /\ Born(c) /\ Pointed(c) /\ GoDown(l, c, "close")
        /\ UNCHANGED <<connections_, held, hold, queue, peer, quit>>
    BY <1>1, <1>9, ReferencedPointed DEF HandleEnd, EventReady, Alive, HandleClose
  <2>2. Registered(channel_[c])
    BY <1>9 DEF HandleEnd, CallsRead, CallsClose, Revents, Reportable, Registered
  <2>3. log[c] = <<"up">>
    BY <2>1, <2>2, AboutConn DEF ConnInv, States
  <2> QED
    BY <2>1, <2>3, DownSpeaks
<1>10. ASSUME NEW l \in Loops, SwapFunctors(l) \/ CallbackReturns(l) PROVE Quiet
  BY <1>2, <1>10 DEF SwapFunctors, CallbackReturns
<1>11. ASSUME NEW l \in Loops, RunEstablished(l) PROVE \E c \in Conns : Speaks(c)
  <2>1. PICK c : c = Head(batch[l]).conn
    OBVIOUS
  <2>2. /\ AtFunctor(l, "connectEstablished") /\ ConnectEstablished(l, c)
        /\ UNCHANGED <<connections_, held, hold, queue, peer, quit>>
    BY <1>11, <2>1 DEF RunEstablished, PopFunctor
  <2>3. /\ c \in Conns /\ Pointed(c) /\ loop_[c] = l /\ frame[l].at = "none" /\ ConnInv(c)
        /\ Fn("connectEstablished", c) \in Waiting[l]
    BY <2>1, <2>2, OpFacts, BatchPoints
  <2>4. log[c] = <<>>
    BY <2>3 DEF ConnInv, Establishing
  <2> QED
    BY <2>2, <2>3, <2>4, EstablishedSpeaks
<1>12. ASSUME NEW l \in Loops, RunDestoryed(l) PROVE Quiet \/ \E c \in Conns : Speaks(c)
  <2>1. PICK c : c = Head(batch[l]).conn
    OBVIOUS
  <2>2. /\ AtFunctor(l, "connectDestoryed") /\ ConnectDestoryed(l, c)
        /\ UNCHANGED <<connections_, held, hold, queue, peer, quit>>
    BY <1>12, <2>1 DEF RunDestoryed, PopFunctor
  <2>3. c \in Conns /\ Pointed(c) /\ frame[l].at = "none" /\ Born(c)
    BY <2>1, <2>2, OpFacts, BatchPoints
  <2> QED
    BY <2>2, <2>3, DestoryedSpeaks
<1>13. ASSUME NEW l \in Loops,
              \/ RunRemove(l) \/ RunShutdown(l) \/ RunSend(l)
              \/ BatchDone(l) \/ LoopDestroyed(l)
       PROVE  Quiet
  BY <1>2, <1>13 DEF RunRemove, RunShutdown, RunSend, PopFunctor, ShutdownInLoop,
                     BatchDone, LoopDestroyed
<1>14. ASSUME NEW t \in Threads, NEW c \in Conns,
              ShutdownTest(t, c) \/ SendTest(t, c) \/ ShutdownQueue(t) \/ SendQueue(t)
       PROVE  Quiet
  BY <1>2, <1>14 DEF ShutdownTest, SendTest, CallGoesTo, ShutdownQueue, SendQueue, QueueRaw
<1>15. ASSUME NEW t \in Threads, ShutdownSet(t) PROVE Quiet
  <2>1. PICK c \in Conns : c = call[t].conn
    BY <1>1, <1>15, LoopTypes DEF ShutdownSet
  <2>2. Born(c)
    BY <1>15, <2>1, AboutConn DEF ShutdownSet, IInv, Core, Heard
  <2>3. state_' = [state_ EXCEPT ![c] = "kDisconnecting"] /\ UNCHANGED <<log, peer, quit>>
    BY <1>15, <2>1 DEF ShutdownSet, CallGoesTo
  <2>4. \A d \in Conns : Born(d)' <=> Born(d)
    BY <1>1, <2>2, <2>3 DEF Born, TypeOK
  <2> QED
    BY <2>3, <2>4 DEF Quiet
<1>16. ASSUME NEW u \in Users, NEW c \in Conns, Acquire(u, c) \/ Release(u) PROVE Quiet
  BY <1>2, <1>16 DEF Acquire, Release
<1>17. ASSUME NEW k \in SubLoops, DestroyThread(k) PROVE Quiet
  <2>1. k # Base
    BY ServerAssumption DEF SubLoops, Base
  <2>2. quit'[Base] = quit[Base] /\ UNCHANGED <<state_, log, peer>>
    BY <1>1, <1>17, <2>1 DEF DestroyThread, TypeOK
  <2> QED
    BY <2>2 DEF Quiet, Born
<1>18. Users \subseteq Threads /\ Conns # {}
  BY ServerAssumption DEF Threads, Conns
<1> QED
  BY <1>3, <1>4, <1>5, <1>6, <1>7, <1>8, <1>9, <1>10, <1>11, <1>12, <1>13, <1>14,
     <1>15, <1>16, <1>17, <1>18 DEF Next, LoopStep, RunFunctor

(* A connection that is freed stays so.                                    *)
LEMMA FreedForGood ==
  ASSUME IInv, [Next]_vars, NEW c \in Conns, Freed(c), Born(c)'
  PROVE  Freed(c)'
<1>1. ~Pointed(c) /\ Born(c)
  BY ReferencedPointed DEF Freed
<1>2. PICK d : Touches(d) /\ Touchable(d)
  BY OnlyLiveTouched
<1>3. c # d /\ c # NoConn
  BY <1>1, <1>2 DEF Touchable, NoConn, Conns
<1>4. ~Pointed(c)'
  BY <1>1, <1>2, <1>3 DEF Touches, Pointed
<1> QED
  BY <1>4, ReferencedPointed DEF Freed

(* The abstract life of the connections, now and after a step.             *)
Lifes == [c \in Conns |-> Life(c)]
Ended == [c \in Conns |-> peer[c] = "closed"]

(* A step in which a connection goes up or down is that step of its life.  *)
LEMMA SpeaksRefines ==
  ASSUME IInv, [Next]_vars, NEW c \in Conns, Speaks(c)
  PROVE  CL!Accept(c) \/ CL!Up(c) \/ CL!Down(c)
<1>1. \A d \in Conns : /\ Referenced(d) <=> Pointed(d)
                       /\ Referenced(d)' <=> Pointed(d)'
  BY ReferencedPointed
<1>2. \A d \in Conns \ {c} : Freed(d)' <=> Freed(d)
  BY <1>1, FreedForGood DEF Speaks, Freed
<1>3. \A d \in Conns \ {c} : Life(d)' = Life(d)
  BY <1>2 DEF Speaks, Life
<1>4. Life(c)' = IF log'[c] = <<>> THEN "accepted"
                 ELSE IF log'[c] = <<"up">> THEN "up" ELSE "down"
  BY <1>1 DEF Speaks, Life, Freed
<1>5. Life(c) = IF ~Born(c) THEN "waiting"
                ELSE IF log[c] = <<>> THEN "accepted"
                ELSE IF log[c] = <<"up">> THEN "up" ELSE "down"
  BY <1>1 DEF Speaks, Life, Freed
<1>6. \/ Life(c) = "waiting" /\ Life(c)' \in {"accepted", "up"}
      \/ Life(c) = "accepted" /\ Life(c)' = "up"
      \/ Life(c) = "up" /\ Life(c)' = "down"
  BY <1>4, <1>5, LogFacts DEF Speaks
<1>7. ASSUME NEW from, NEW to, Life(c) = from, Life(c)' = to
      PROVE  CL!Becomes(c, from, to)
  <2>1. Lifes[c] = from /\ Lifes' = [Lifes EXCEPT ![c] = to]
    BY <1>3, <1>7 DEF Lifes
  <2>2. Ended' = Ended /\ quit' = quit
    BY DEF Speaks, Ended
  <2> QED
    BY <2>1, <2>2 DEF CL!Becomes, Lifes, Ended
<1> QED
  BY <1>6, <1>7 DEF CL!Accept, CL!Up, CL!Down

(* The other steps can only free connections.                              *)
LEMMA QuietRefines ==
  ASSUME IInv, [Next]_vars, Quiet, FreedWentDown'
  PROVE  (\E freed \in SUBSET Conns : CL!Free(freed)) \/ UNCHANGED CL!vars
<1> DEFINE freed == {c \in Conns : Freed(c)' /\ ~Freed(c)}
<1>1. \A c \in Conns : c \notin freed => (Freed(c)' <=> Freed(c))
  BY FreedForGood DEF Quiet, Freed
<1>2. \A c \in Conns : Life(c)' = IF c \in freed THEN "freed" ELSE Life(c)
  <2>1. \A c \in Conns : c \in freed => Life(c)' = "freed"
    BY DEF Life, Freed
  <2>2. \A c \in Conns : c \notin freed => Life(c)' = Life(c)
    BY <1>1 DEF Life, Quiet
  <2> QED
    BY <2>1, <2>2
<1>3. ASSUME NEW c \in freed
      PROVE  Life(c) = "down" \/ (quit[Base] /\ Life(c) \in {"accepted", "up"})
  <2>1. Freed(c)' /\ ~Freed(c) /\ Born(c) /\ c \in Conns
    BY DEF Freed, Quiet
  <2>2. log[c] \in {<<>>, <<"up">>, <<"up", "down">>}
    BY <2>1, AboutConn DEF ConnInv, States
  <2>3. log[c] # <<"up", "down">> => quit[Base]
    BY <2>1 DEF FreedWentDown, Quiet
  <2> QED
    BY <2>1, <2>2, <2>3, LogFacts DEF Life
<1>4. Ended' = Ended /\ quit'[Base] = quit[Base]
  BY DEF Quiet, Ended
<1>5. Lifes' = [c \in Conns |-> IF c \in freed THEN "freed" ELSE Lifes[c]]
  BY <1>2 DEF Lifes
<1>6. CASE freed = {}
  <2>1. Lifes' = Lifes
    BY <1>5, <1>6 DEF Lifes
  <2> QED
    BY <1>4, <2>1 DEF CL!vars, Lifes, Ended
<1>7. CASE freed # {}
  <2>1. freed \in SUBSET Conns
    OBVIOUS
  <2>2. \A c \in freed : CL!MayBeFreed(c)
    BY <1>3 DEF CL!MayBeFreed
  <2> HIDE DEF freed
  <2>3. CL!Free(freed)
    BY <1>4, <1>5, <1>7, <2>1, <2>2 DEF CL!Free, Lifes, Ended
  <2> QED
    BY <2>1, <2>3
<1> QED
  BY <1>6, <1>7

(* A peer that closes, and quit() of the base loop.                        *)
LEMMA OutsideRefines ==
  ASSUME IInv, Outside
  PROVE  (\E c \in Conns : CL!PeerEnds(c)) \/ CL!Stop
<1>1. \A c \in Conns : Life(c)' = Life(c)
  <2>1. \A c \in Conns : Referenced(c)' <=> Referenced(c)
    BY DEF Outside, Referenced
  <2> QED
    BY <2>1 DEF Outside, Life, Born, Freed
<1>2. Lifes' = Lifes
  BY <1>1 DEF Lifes
<1>3. ASSUME NEW c \in Conns, UNCHANGED quit, peer[c] = "open",
             peer' = [peer EXCEPT ![c] = "closed"]
      PROVE  CL!PeerEnds(c)
  <2>1. ~Ended[c] /\ Ended' = [Ended EXCEPT ![c] = TRUE]
    BY <1>3 DEF Ended, IInv, TypeOK
  <2> QED
    BY <1>2, <1>3, <2>1 DEF CL!PeerEnds, Lifes, Ended
<1>4. CASE UNCHANGED peer /\ ~quit[Base] /\ quit'[Base]
  BY <1>2, <1>4 DEF CL!Stop, Lifes, Ended
<1> QED
  BY <1>3, <1>4 DEF Outside

(* The server implements the safety part of ConnectionLife: the user hears *)
(* of each connection in order, it is freed at the end and stays so, and   *)
(* only a server that ends frees one without telling the user.             *)
THEOREM RefinesConnectionLife == Spec => CL!SafeSpec
<1>1. Init => CL!Init
  <2> SUFFICES ASSUME Init PROVE CL!Init
    OBVIOUS
  <2>1. \A c \in Conns : Life(c) = "waiting" /\ peer[c] # "closed"
    BY DEF Init, Life, Born
  <2>2. ~quit[Base]
    BY DEF Init, Loops
  <2> QED
    BY <2>1, <2>2 DEF CL!Init
<1>2. IInv /\ FreedWentDown' /\ [Next]_vars => [CL!Next]_CL!vars
  BY StepKinds, SpeaksRefines, QuietRefines, OutsideRefines DEF CL!Next
<1> QED
  BY <1>1, <1>2, Invariant, NoSilentEnd, PTL DEF Spec, CL!SafeSpec
------------------------------------------------------------------------------
(* The raw this of a callback's shutdown(). *)

(* In a queue, functors bound to a raw this stand before the               *)
(* connectDestoryed of their connection.                                   *)
RawsFirst(s) ==
  \A i, j \in DOMAIN s :
    s[i].op \in RawOps /\ s[j] = Fn("connectDestoryed", s[i].conn) => i < j

(* And their connections are in the map, or connectDestoryed waits.        *)
Covered(T, C) ==
  \A l \in Loops :
    /\ RawsFirst(T[l])
    /\ \A f \in Members(T[l]) : f.op \in RawOps =>
         f.conn \in C \/ Fn("connectDestoryed", f.conn) \in Members(T[l])

Guarded == ~quit[Base] => Covered(Todo, connections_)

Queues == [Loops -> Seq(Functors)]

(* Taking the head off a queue.                                            *)
LEMMA CoveredTail ==
  ASSUME NEW T \in Queues, NEW C, Covered(T, C), NEW l \in Loops, T[l] # <<>>
  PROVE  Covered([T EXCEPT ![l] = Tail(T[l])], C)
<1> DEFINE s == T[l]
           n == Len(s)
           u == Tail(s)
           h == Head(s)
<1>1. /\ n \in Nat \ {0} /\ DOMAIN s = 1..n /\ DOMAIN u = 1..(n - 1)
      /\ \A i \in 1..(n - 1) : u[i] = s[i + 1]
      /\ h = s[1] /\ h \in Functors
  BY TailIndices DEF Queues
<1>2. /\ RawsFirst(s)
      /\ \A f \in Members(s) : f.op \in RawOps =>
           f.conn \in C \/ Fn("connectDestoryed", f.conn) \in Members(s)
  BY DEF Covered
<1> HIDE DEF s, n, u, h
<1>3. \A i \in DOMAIN u : /\ i \in Nat /\ i + 1 \in DOMAIN s /\ u[i] = s[i + 1]
                          /\ i + 1 > 1
  BY <1>1
<1>4. 1 \in DOMAIN s /\ \A i \in DOMAIN s : i = 1 \/ \E j \in DOMAIN u : j = i - 1 /\ u[j] = s[i]
  <2> SUFFICES ASSUME NEW i \in DOMAIN s, i # 1
               PROVE  \E j \in DOMAIN u : j = i - 1 /\ u[j] = s[i]
    BY <1>1
  <2>1. PICK j : j = i - 1
    OBVIOUS
  <2>2. j \in 1..(n - 1) /\ j + 1 = i
    BY <1>1, <2>1
  <2> QED
    BY <1>1, <2>1, <2>2
<1>5. RawsFirst(u)
  <2> SUFFICES ASSUME NEW i \in DOMAIN u, NEW j \in DOMAIN u, u[i].op \in RawOps,
                      u[j] = Fn("connectDestoryed", u[i].conn)
               PROVE  i < j
    BY DEF RawsFirst
  <2>1. i + 1 < j + 1
    BY <1>2, <1>3 DEF RawsFirst
  <2> QED
    BY <1>3, <2>1
<1>6. ASSUME NEW f \in Members(u), f.op \in RawOps
      PROVE  f.conn \in C \/ Fn("connectDestoryed", f.conn) \in Members(u)
  <2>1. PICK i \in DOMAIN u : u[i] = f
    BY DEF Members
  <2>2. f \in Members(s)
    BY <1>3, <2>1 DEF Members
  <2>3. CASE Fn("connectDestoryed", f.conn) \in Members(s)
    <3>1. PICK j \in DOMAIN s : s[j] = Fn("connectDestoryed", f.conn)
      BY <2>3 DEF Members
    <3>2. i + 1 < j
      BY <1>2, <1>3, <1>6, <2>1, <3>1 DEF RawsFirst
    <3>3. j # 1
      BY <1>3, <3>2
    <3> QED
      BY <1>4, <3>1, <3>3 DEF Members
  <2> QED
    BY <1>2, <1>6, <2>2, <2>3
<1>7. \A k \in Loops : [T EXCEPT ![l] = u][k] = IF k = l THEN u ELSE T[k]
  BY DEF Queues
<1>8. Covered([T EXCEPT ![l] = u], C)
  BY <1>5, <1>6, <1>7 DEF Covered
<1> QED
  BY <1>8 DEF u, s

(* Appending to a queue, if what is bound to a raw this is of a connection *)
(* that is in the map.                                                     *)
LEMMA CoveredAppend ==
  ASSUME NEW T \in Queues, NEW C, Covered(T, C), NEW l \in Loops, NEW f \in Functors,
         f.op \in RawOps => /\ f.conn \in C
                            /\ Fn("connectDestoryed", f.conn) \notin Members(T[l])
  PROVE  Covered([T EXCEPT ![l] = Append(T[l], f)], C)
<1> DEFINE s == T[l]
           n == Len(s)
           u == Append(s, f)
<1>1. /\ n \in Nat /\ DOMAIN s = 1..n /\ DOMAIN u = 1..(n + 1)
      /\ \A i \in 1..n : u[i] = s[i]
      /\ u[n + 1] = f
  BY AppendIndices DEF Queues
<1>2. /\ RawsFirst(s)
      /\ \A g \in Members(s) : g.op \in RawOps =>
           g.conn \in C \/ Fn("connectDestoryed", g.conn) \in Members(s)
      /\ f.op \in RawOps => /\ f.conn \in C
                            /\ Fn("connectDestoryed", f.conn) \notin Members(s)
  BY DEF Covered
<1> HIDE DEF s, n, u
<1>3. /\ DOMAIN u = DOMAIN s \cup {n + 1}
      /\ \A i \in DOMAIN s : u[i] = s[i] /\ i < n + 1
  BY <1>1
<1>4. Members(u) = Members(s) \cup {f}
  BY <1>1, <1>3 DEF Members
<1>5. RawsFirst(u)
  <2> SUFFICES ASSUME NEW i \in DOMAIN u, NEW j \in DOMAIN u, u[i].op \in RawOps,
                      u[j] = Fn("connectDestoryed", u[i].conn)
               PROVE  i < j
    BY DEF RawsFirst
  <2>1. CASE i \in DOMAIN s /\ j \in DOMAIN s
    BY <1>2, <1>3, <2>1 DEF RawsFirst
  <2>2. CASE i \in DOMAIN s /\ j = n + 1
    BY <1>3, <2>2
  <2>3. CASE i = n + 1
    <3>1. f.op \in RawOps /\ u[i] = f
      BY <1>1, <2>3
    <3>2. f.op # "connectDestoryed"
      BY <3>1 DEF RawOps
    <3>3. j # n + 1
      BY <1>1, <3>1, <3>2 DEF Fn
    <3>4. u[j] \in Members(s)
      BY <1>3, <3>3 DEF Members
    <3> QED
      BY <1>2, <3>1, <3>4
  <2> QED
    BY <1>3, <2>1, <2>2, <2>3
<1>6. \A g \in Members(u) : g.op \in RawOps =>
        g.conn \in C \/ Fn("connectDestoryed", g.conn) \in Members(u)
  BY <1>2, <1>4
<1>7. \A k \in Loops : [T EXCEPT ![l] = u][k] = IF k = l THEN u ELSE T[k]
  BY DEF Queues
<1>8. Covered([T EXCEPT ![l] = u], C)
  BY <1>5, <1>6, <1>7 DEF Covered
<1> QED
  BY <1>8 DEF u, s

(* Taking a connection out of the map once connectDestoryed waits for it.  *)
LEMMA CoveredRemove ==
  ASSUME NEW T, NEW C, Covered(T, C), NEW c \in Conns, NEW k \in Loops,
         Fn("connectDestoryed", c) \in Members(T[k]),
         \A l \in Loops : \A f \in Members(T[l]) : f.op \in RawOps /\ f.conn = c => l = k
  PROVE  Covered(T, C \ {c})
  BY DEF Covered

(* The functors that wait, after a step of a queue or of the local vector. *)
LEMMA TodoEnqueue ==
  ASSUME TypeOK, NEW l \in Loops, NEW f \in Functors, Enqueue(l, f), UNCHANGED batch
  PROVE  Todo' = [Todo EXCEPT ![l] = Append(Todo[l], f)]
<1>1. \A k \in Loops : /\ batch[k] \in Seq(Functors) /\ queue[k] \in Seq(Functors)
                       /\ queue'[k] = IF k = l THEN Append(queue[l], f) ELSE queue[k]
  BY DEF Enqueue, TypeOK
<1>2. batch[l] \o Append(queue[l], f) = Append(batch[l] \o queue[l], f)
  BY <1>1, FunctorsAppended, Zenon
<1>3. \A k \in Loops :
        Todo'[k] = IF k = l THEN Append(batch[l] \o queue[l], f) ELSE batch[k] \o queue[k]
  BY <1>1, <1>2 DEF Todo
<1> QED
  BY <1>3 DEF Todo

LEMMA TodoPop ==
  ASSUME TypeOK, NEW l \in Loops, batch[l] # <<>>, PopFunctor(l), UNCHANGED queue
  PROVE  Todo[l] # <<>> /\ Todo' = [Todo EXCEPT ![l] = Tail(Todo[l])]
<1>1. \A k \in Loops : /\ batch[k] \in Seq(Functors) /\ queue[k] \in Seq(Functors)
                       /\ batch'[k] = IF k = l THEN Tail(batch[l]) ELSE batch[k]
  BY DEF PopFunctor, TypeOK
<1>2. batch[l] \o queue[l] # <<>> /\ Tail(batch[l] \o queue[l]) = Tail(batch[l]) \o queue[l]
  BY <1>1, ConcatHeadTail
<1>3. \A k \in Loops :
        Todo'[k] = IF k = l THEN Tail(batch[l] \o queue[l]) ELSE batch[k] \o queue[k]
  BY <1>1, <1>2 DEF Todo
<1> QED
  BY <1>2, <1>3 DEF Todo

(* shutdown() queues its functor from a callback of a connection that is   *)
(* up, so it is in the map and connectDestoryed has not been queued.       *)
LEMMA GuardedNext ==
  ASSUME Users = {}, IInv, IInv', Tested, Guarded, [Next]_vars
  PROVE  Guarded'
<1> SUFFICES ASSUME ~quit'[Base] PROVE Covered(Todo', connections_')
  BY DEF Guarded, Covered, RawsFirst, Members
<1> USE DEF serverVars, acceptVars, connVars, threadVars, userVars
<1>1. TypeOK /\ Base \in Loops /\ \A l \in Loops : Free(l) <=> frame[l].at = "none"
  BY LoopTypes, FrameFacts DEF IInv
<1>2. ~quit[Base]
  BY StepKinds DEF Quiet, Outside, Speaks
<1>3. pc[Base] \notin {"exited", "gone"} /\ ~BaseOver
  BY <1>1, <1>2 DEF IInv, Running, BaseOver
<1>4. Covered(Todo, connections_)
  BY <1>2 DEF Guarded
<1>5. Todo \in Queues /\ \A l \in Loops : Waiting[l] = Members(Todo[l])
  BY <1>1, TodoTypes DEF Todo, Queues
<1>6. ASSUME UNCHANGED <<Todo, connections_>> PROVE Covered(Todo', connections_')
  BY <1>4, <1>6
<1>7. UNCHANGED <<batch, queue>> => UNCHANGED Todo
  BY DEF Todo
<1>8. ASSUME NEW C, connections_ \subseteq C PROVE Covered(Todo, C)
  BY <1>4, <1>8 DEF Covered
<1>9. ASSUME NEW l \in Loops, NEW op \in Ops \ RawOps, NEW c \in Conns,
             Enqueue(l, Fn(op, c)), UNCHANGED batch, NEW C, connections_ \subseteq C
      PROVE  Covered(Todo', C) /\ Fn(op, c) \in Members(Todo'[l])
  <2>1. Fn(op, c) \in Functors /\ Fn(op, c).op \notin RawOps
    BY FunctorFacts
  <2>2. Todo' = [Todo EXCEPT ![l] = Append(Todo[l], Fn(op, c))]
    BY <1>1, <1>9, <2>1, TodoEnqueue
  <2>3. Covered(Todo', C)
    BY <1>5, <1>8, <1>9, <2>1, <2>2, CoveredAppend
  <2>4. Todo'[l] = Append(Todo[l], Fn(op, c)) /\ Todo[l] \in Seq(Functors)
    BY <1>5, <2>2 DEF Queues
  <2>5. Fn(op, c) \in Members(Todo'[l])
    <3> DEFINE f == Fn(op, c)
               s == Todo[l]
    <3>1. f \in Functors /\ s \in Seq(Functors) /\ Todo'[l] = Append(s, f)
      BY <2>1, <2>4
    <3> HIDE DEF f, s
    <3>2. Len(s) + 1 \in DOMAIN Append(s, f) /\ Append(s, f)[Len(s) + 1] = f
      BY <3>1, AppendIndices
    <3> QED
      BY <3>1, <3>2 DEF Members, f
  <2> QED
    BY <2>3, <2>5
<1>10. ASSUME NEW c \in Conns, loop_'[c] = loop_[c], Covered(Todo', connections_),
              Fn("connectDestoryed", c) \in Members(Todo'[loop_[c]])
       PROVE  Covered(Todo', connections_ \ {c})
  <2>1. \A l \in Loops : Waiting'[l] = Members(Todo'[l]) /\ Waiting'[l] \subseteq Functors
    <3>1. TypeOK'
      BY DEF IInv
    <3>2. \A l \in Loops : Todo'[l] \in Seq(Functors)
      BY <3>1, ConcatProperties DEF TypeOK, Todo
    <3>3. \A l \in Loops : Members(Todo'[l]) \subseteq Functors
      BY <3>2 DEF Members
    <3> QED
      BY <3>3 DEF Waiting
  <2>2. \A l \in Loops, op \in RawOps : Fn(op, c) \in Waiting'[l] => l = loop_[c]
    BY <1>10 DEF IInv, Core, Placement, Ops, RawOps
  <2>3. \A l \in Loops : \A f \in Members(Todo'[l]) :
          f.op \in RawOps /\ f.conn = c => l = loop_[c]
    <3>1. \A f \in Functors : f.conn = c => f = Fn(f.op, c)
      BY FunctorFacts
    <3> QED
      BY <2>1, <2>2, <3>1
  <2>4. loop_[c] \in Loops
    BY <1>1, LoopTypes
  <2> QED
    BY <1>10, <2>3, <2>4, CoveredRemove
<1>11. CASE \/ Start \/ ClientArrives \/ AcceptFails \/ DestroyAcceptor \/ UNCHANGED vars
  BY <1>6, <1>7, <1>11 DEF Start, ClientArrives, AcceptFails, DestroyAcceptor, vars
<1>12. ~Quit
  BY <1>1 DEF Quit, TypeOK
<1>13. CASE NewConnection
  <2> DEFINE c == nextConnId_
             l == IF numThreads_ = 0 THEN Base ELSE next_ + 1
  <2>1. c \in Conns /\ l \in Loops
    BY <1>1, <1>13, ServerAssumption
    DEF NewConnection, AcceptReady, TypeOK, Conns, Loops, SubLoops, Base
  <2>2. /\ connections_ \subseteq connections_' /\ UNCHANGED batch
        /\ UNCHANGED queue \/ Enqueue(l, Fn("connectEstablished", c))
    BY <1>13 DEF NewConnection
  <2> HIDE DEF c, l
  <2> QED
    BY <1>7, <1>8, <1>9, <2>1, <2>2, OpFacts
<1>14. ASSUME NEW c \in Conns, PeerCloses(c) PROVE Covered(Todo', connections_')
  BY <1>6, <1>7, <1>14 DEF PeerCloses
<1>15. \A c \in Conns : ~DestroyConnection(c)
  BY <1>3 DEF DestroyConnection
<1>16. \A k \in SubLoops : ~DestroyThread(k)
  BY <1>3 DEF DestroyThread
<1>17. ASSUME NEW l \in Loops, NEW c \in Conns, HandleMessage(l, c) \/ HandleEnd(l, c)
       PROVE  Covered(Todo', connections_')
  BY <1>6, <1>7, <1>17 DEF HandleMessage, HandleEnd
<1>18. ASSUME NEW l \in Loops, SwapFunctors(l) PROVE Covered(Todo', connections_')
  BY <1>1, <1>6, <1>18, Swapped DEF SwapFunctors
<1>19. ASSUME NEW l \in Loops, CallbackReturns(l) PROVE Covered(Todo', connections_')
  <2>1. PICK c \in Conns : c = frame[l].conn
    BY <1>1, <1>19, LoopTypes DEF CallbackReturns
  <2>2. UNCHANGED <<batch, loop_>>
    BY <1>19 DEF CallbackReturns
  <2>3. CASE UNCHANGED <<connections_, queue>>
    BY <1>6, <1>7, <2>2, <2>3
  <2>4. CASE UNCHANGED connections_ /\ Enqueue(Base, Fn("removeConnectionInLoop", c))
    BY <1>1, <1>9, <2>2, <2>4, OpFacts
  <2>5. CASE RemoveConnectionInLoop(c)
    <3>1. /\ Covered(Todo', connections_)
          /\ Fn("connectDestoryed", c) \in Members(Todo'[loop_[c]])
      BY <1>1, <1>9, <2>2, <2>5, OpFacts, LoopTypes DEF RemoveConnectionInLoop
    <3> QED
      BY <1>10, <2>2, <2>5, <3>1 DEF RemoveConnectionInLoop
  <2> QED
    BY <1>19, <2>1, <2>3, <2>4, <2>5 DEF CallbackReturns
<1>20. ASSUME NEW l \in Loops, batch[l] # <<>>, PopFunctor(l), UNCHANGED <<queue, connections_>>
       PROVE  Covered(Todo', connections_')
  BY <1>1, <1>4, <1>5, <1>20, TodoPop, CoveredTail
<1>21. ASSUME NEW l \in Loops,
              RunEstablished(l) \/ RunDestoryed(l) \/ RunShutdown(l) \/ RunSend(l)
       PROVE  Covered(Todo', connections_')
  BY <1>20, <1>21 DEF RunEstablished, RunDestoryed, RunShutdown, RunSend, AtFunctor
<1>22. ASSUME NEW l \in Loops, RunRemove(l) PROVE Covered(Todo', connections_')
  <2>1. PICK c : c = Head(batch[l]).conn
    OBVIOUS
  <2>2. /\ AtFunctor(l, "removeConnectionInLoop") /\ PopFunctor(l) /\ batch[l] # <<>>
        /\ connections_' = connections_ \ {c} /\ UNCHANGED loop_
        /\ Enqueue(loop_[c], Fn("connectDestoryed", c))
    BY <1>22, <2>1 DEF RunRemove, RemoveConnectionInLoop, AtFunctor
  <2>3. c \in Conns
    BY <2>1, <2>2, OpFacts, BatchPoints
  <2>4. PICK k \in Loops : k = loop_[c]
    BY <1>1, <2>3, LoopTypes
  <2> DEFINE f == Fn("connectDestoryed", c)
             T == [Todo EXCEPT ![l] = Tail(Todo[l])]
  <2>5. f \in Functors /\ f.op \notin RawOps
    BY <2>3, FunctorFacts, OpFacts
  <2> HIDE DEF f
  <2>6. Todo[l] # <<>> /\ Tail(Todo[l]) = Tail(batch[l]) \o queue[l]
    <3>1. /\ batch[l] \in Seq(Functors) /\ queue[l] \in Seq(Functors)
          /\ Todo[l] = batch[l] \o queue[l]
      BY <1>1 DEF TypeOK, Todo
    <3> QED
      BY <2>2, <3>1, ConcatHeadTail
  <2>7. T \in Queues /\ Covered(T, connections_)
    <3>1. Tail(Todo[l]) \in Seq(Functors)
      BY <1>5, <2>6, TailIndices DEF Queues
    <3> QED
      BY <1>4, <1>5, <2>6, <3>1, CoveredTail DEF Queues
  <2>8. Todo' = [T EXCEPT ![k] = Append(T[k], f)]
    <3>1. \A m \in Loops :
            /\ batch[m] \in Seq(Functors) /\ queue[m] \in Seq(Functors)
            /\ batch'[m] = IF m = l THEN Tail(batch[l]) ELSE batch[m]
            /\ queue'[m] = IF m = k THEN Append(queue[k], f) ELSE queue[m]
      BY <1>1, <2>2, <2>4 DEF PopFunctor, Enqueue, TypeOK, f
    <3>2. \A m \in Loops : batch'[m] \in Seq(Functors)
      <4>1. batch[l] \in Seq(Functors) /\ batch[l] # <<>>
        BY <2>2, <3>1
      <4>2. Tail(batch[l]) \in Seq(Functors)
        BY <4>1, TailIndices
      <4> QED
        BY <3>1, <4>2
    <3>3. \A m \in Loops : T[m] = batch'[m] \o queue[m]
      BY <2>6, <3>1 DEF Todo
    <3>4. batch'[k] \o Append(queue[k], f) = Append(batch'[k] \o queue[k], f)
      BY <2>5, <3>1, <3>2, FunctorsAppended, Zenon
    <3>5. \A m \in Loops : Todo'[m] = IF m = k THEN Append(T[k], f) ELSE T[m]
      BY <3>1, <3>3, <3>4 DEF Todo
    <3> QED
      BY <3>5 DEF Todo
  <2> HIDE DEF T
  <2>9. Covered(Todo', connections_)
    BY <2>5, <2>7, <2>8, CoveredAppend
  <2>10. f \in Members(Todo'[k])
    <3> DEFINE s == T[k]
    <3>1. s \in Seq(Functors) /\ Todo'[k] = Append(s, f)
      BY <2>7, <2>8 DEF Queues
    <3> HIDE DEF s
    <3>2. Len(s) + 1 \in DOMAIN Append(s, f) /\ Append(s, f)[Len(s) + 1] = f
      BY <2>5, <3>1, AppendIndices
    <3> QED
      BY <3>1, <3>2 DEF Members
  <2> QED
    BY <1>10, <2>2, <2>3, <2>4, <2>9, <2>10 DEF f
<1>23. ASSUME NEW l \in Loops, BatchDone(l) PROVE Covered(Todo', connections_')
  BY <1>6, <1>7, <1>23 DEF BatchDone
<1>24. ASSUME NEW l \in Loops, LoopDestroyed(l) PROVE Covered(Todo', connections_')
  <2>1. batch'[l] = <<>> /\ queue'[l] = <<>> /\ UNCHANGED connections_
    BY <1>1, <1>24 DEF LoopDestroyed, TypeOK
  <2>2. Todo'[l] = <<>>
    BY <2>1, EmptySeq, ConcatEmptySeq DEF Todo
  <2>3. \A k \in Loops : k # l => Todo'[k] = Todo[k]
    BY <1>1, <1>24 DEF LoopDestroyed, Todo, TypeOK
  <2> QED
    BY <1>4, <2>1, <2>2, <2>3 DEF Covered, RawsFirst, Members
<1>25. ASSUME NEW t \in Loops, NEW c \in Conns, ShutdownTest(t, c) \/ ShutdownSet(t)
       PROVE  Covered(Todo', connections_')
  BY <1>6, <1>7, <1>25 DEF ShutdownTest, ShutdownSet, CallGoesTo
<1>26. ASSUME NEW t \in Loops, ShutdownQueue(t) PROVE Covered(Todo', connections_')
  <2>1. t \in Threads /\ call[t].at # "none"
    BY <1>26 DEF ShutdownQueue, QueueRaw, Threads
  <2>2. PICK c \in Conns : c = call[t].conn
    BY <1>1, <2>1, LoopTypes
  <2>3. PICK k \in Loops : k = loop_[c]
    BY <1>1, LoopTypes
  <2>4. log[c] = <<"up">> /\ ConnInv(c)
    BY <2>1, <2>2, LogFacts, AboutConn DEF Tested
  <2>5. c \in connections_
    BY <1>3, <2>4, LogFacts DEF ConnInv, Removal
  <2>6. Fn("connectDestoryed", c) \notin Members(Todo[k])
    BY <1>5, <2>3, <2>4, <2>5 DEF ConnInv, Removal, InDestruction
  <2>7. PICK f : f = Fn("shutdownInLoop", c)
    OBVIOUS
  <2>8. f \in Functors /\ f.conn = c
    BY <2>7, FunctorFacts, OpFacts DEF RawOps
  <2>9. Enqueue(k, f) /\ UNCHANGED <<connections_, batch>>
    BY <1>26, <2>2, <2>3, <2>7 DEF ShutdownQueue, QueueRaw
  <2>10. Todo' = [Todo EXCEPT ![k] = Append(Todo[k], f)]
    BY <1>1, <2>8, <2>9, TodoEnqueue
  <2> QED
    BY <1>4, <1>5, <2>5, <2>6, <2>8, <2>9, <2>10, CoveredAppend
<1>27. Threads = Loops /\ Conns # {}
  BY ServerAssumption DEF Threads, Conns
<1> QED
  BY <1>11, <1>12, <1>13, <1>14, <1>15, <1>16, <1>17, <1>18, <1>19, <1>21, <1>22, <1>23,
     <1>24, <1>25, <1>26, <1>27 DEF Next, LoopStep, RunFunctor

(* A shutdownInLoop that a callback queued never meets a freed connection  *)
(* while the server runs: the map or the functor of connectDestoryed keeps *)
(* it.                                                                     *)
THEOREM CallbackShutdownKeeps ==
  ASSUME Users = {}
  PROVE  Spec => []CallbackShutdownSafe
<1>1. ASSUME IInv, Guarded, ~quit[Base], NEW l \in Loops, NEW op \in RawOps,
             AtFunctor(l, op)
      PROVE  Alive(Head(batch[l]).conn)
  <2>1. PICK c \in Conns : c = Head(batch[l]).conn /\ Head(batch[l]) = Fn(op, c)
    BY <1>1, AtHead, OpFacts DEF IInv
  <2>2. /\ batch[l] \in Seq(Functors) /\ Head(batch[l]) = batch[l][1]
        /\ 1 \in DOMAIN batch[l]
    BY <1>1, TailIndices DEF AtFunctor, IInv, TypeOK
  <2>3. Fn(op, c) \in Members(Todo[l]) /\ Members(Todo[l]) = Waiting[l]
    <3>1. 1 \in DOMAIN Todo[l] /\ Todo[l][1] = Fn(op, c)
      BY <1>1, <2>1, <2>2, Positions DEF IInv
    <3> QED
      BY <1>1, <3>1, TodoTypes DEF IInv, Members
  <2>4. c \in connections_ \/ Fn("connectDestoryed", c) \in Waiting[l]
    <3>1. Fn(op, c).op = op /\ Fn(op, c).conn = c
      BY <1>1, <2>1, FunctorFacts, OpFacts
    <3> QED
      BY <1>1, <2>3, <3>1 DEF Guarded, Covered
  <2>5. Born(c)
    BY <1>1, <2>3, OpFacts, AboutConn
  <2>6. ~Freed(c)
    BY <1>1, <2>4, OpFacts, FreedFacts
  <2> QED
    BY <2>1, <2>5, <2>6 DEF Freed, Alive
<1>2. IInv /\ Guarded => CallbackShutdownSafe
  BY <1>1 DEF CallbackShutdownSafe, NoUseAfterFree
<1>3. Init => Tested /\ Guarded
  <2> SUFFICES ASSUME Init PROVE Tested /\ Guarded
    OBVIOUS
  <2>1. NoCall.at = "none" /\ Loops \subseteq Threads
    BY DEF NoCall, Threads
  <2>2. Tested
    BY <2>1 DEF Init, Tested
  <2>3. \A l \in Loops : Todo[l] = <<>>
    BY EmptySeq, ConcatEmptySeq DEF Init, Todo
  <2>4. Guarded
    BY <2>3 DEF Guarded, Covered, RawsFirst, Members
  <2> QED
    BY <2>2, <2>4
<1>4. IInv /\ IInv' /\ Tested /\ Guarded /\ [Next]_vars => Tested' /\ Guarded'
  BY TestedNext, GuardedNext
<1> QED
  BY <1>2, <1>3, <1>4, Invariant, PTL DEF Spec
------------------------------------------------------------------------------
(* The round robin. *)

(* The connections given to loop k so far.                                 *)
GivenTo(k) == {c \in Conns : c < nextConnId_ /\ loop_[c] = k}
Load(k) == Cardinality(GivenTo(k))

(* The loops up to next_ are one connection ahead of the others.           *)
Ahead(k) == IF k <= next_ THEN 1 ELSE 0

Spread ==
  \A k, l \in 1..numThreads_ : Load(k) - Ahead(k) = Load(l) - Ahead(l)

(* Loads are numbers, and those of the loops connections are in.           *)
LEMMA LoadFacts ==
  ASSUME IInv
  PROVE  /\ \A k : Load(k) \in Nat /\ IsFiniteSet(GivenTo(k))
         /\ \A k : GivenTo(k) = {c \in Conns : Born(c) /\ loop_[c] = k}
<1>1. IsFiniteSet(Conns)
  <2>1. 1 \in Int /\ MaxConns \in Int
    BY ServerAssumption
  <2> QED
    BY <2>1, FS_Interval DEF Conns
<1>2. ASSUME NEW k PROVE Load(k) \in Nat /\ IsFiniteSet(GivenTo(k))
  <2>1. GivenTo(k) \in SUBSET Conns
    BY DEF GivenTo
  <2>2. IsFiniteSet(GivenTo(k))
    BY <1>1, <2>1, FS_Subset
  <2> QED
    BY <2>2, FS_CardinalityType DEF Load
<1>3. \A k : GivenTo(k) = {c \in Conns : Born(c) /\ loop_[c] = k}
  BY DEF GivenTo, IInv, Core, Births
<1> QED
  BY <1>2, <1>3

(* Only newConnection gives a connection to a loop.                        *)
LEMMA OnlyNewConnectionGives ==
  ASSUME [Next]_vars
  PROVE  NewConnection \/ UNCHANGED <<numThreads_, nextConnId_, next_, loop_>>
<1> USE DEF serverVars
<1>1. ASSUME NEW l \in Loops,
             \/ \E c \in Conns : HandleMessage(l, c) \/ HandleEnd(l, c)
             \/ SwapFunctors(l) \/ LoopStep(l)
      PROVE  UNCHANGED <<numThreads_, nextConnId_, next_, loop_>>
  BY <1>1 DEF LoopStep, RunFunctor, RunEstablished, RunDestoryed, RunRemove,
              RunShutdown, RunSend, BatchDone, SwapFunctors, HandleMessage,
              HandleEnd, CallbackReturns, LoopDestroyed
<1>2. ASSUME NEW t \in Threads,
             \/ \E c \in Conns : ShutdownTest(t, c) \/ SendTest(t, c) \/ Acquire(t, c)
             \/ ShutdownSet(t) \/ ShutdownQueue(t) \/ SendQueue(t) \/ Release(t)
      PROVE  UNCHANGED <<numThreads_, nextConnId_, next_, loop_>>
  BY <1>2 DEF ShutdownTest, ShutdownSet, ShutdownQueue, SendQueue, QueueRaw,
              Release, Acquire, SendTest, CallGoesTo
<1>3. ASSUME \/ Start \/ ClientArrives \/ AcceptFails \/ DestroyAcceptor \/ Quit
             \/ \E c \in Conns : PeerCloses(c) \/ DestroyConnection(c)
             \/ \E k \in SubLoops : DestroyThread(k)
             \/ UNCHANGED vars
      PROVE  UNCHANGED <<numThreads_, nextConnId_, next_, loop_>>
  BY <1>3 DEF Start, ClientArrives, AcceptFails, DestroyAcceptor, Quit, PeerCloses,
              DestroyConnection, DestroyThread, vars
<1>4. Users \subseteq Threads
  BY DEF Threads
<1> QED
  BY <1>1, <1>2, <1>3, <1>4 DEF Next

(* newConnection adds a connection to the loop at next_ and moves next_ on. *)
LEMMA NewConnectionSpreads ==
  ASSUME IInv, Spread, NewConnection
  PROVE  Spread'
<1> DEFINE c == nextConnId_
<1>1. /\ numThreads_ \in Nat /\ numThreads_' = numThreads_
      /\ next_ \in Nat /\ (numThreads_ # 0 => next_ < numThreads_)
  BY ServerAssumption DEF IInv, TypeOK, NewConnection
<1>2. CASE numThreads_ = 0
  BY <1>1, <1>2 DEF Spread
<1>3. CASE numThreads_ # 0
  <2>1. /\ c \in Conns /\ c \in Nat /\ nextConnId_' = c + 1
        /\ loop_' = [loop_ EXCEPT ![c] = next_ + 1]
        /\ next_' = NextLoop(next_)
    <3>1. c \in Conns /\ c \in Nat
      BY ServerAssumption DEF NewConnection, AcceptReady, IInv, TypeOK, Conns
    <3> QED
      BY <1>3, <3>1 DEF NewConnection
  <2> HIDE DEF c
  <2>2. /\ loop_'[c] = next_ + 1
        /\ \A d \in Conns \ {c} : loop_'[d] = loop_[d]
    BY <2>1 DEF IInv, TypeOK
  <2>3. \A d \in Conns : d < c + 1 <=> d < c \/ d = c
    BY <2>1 DEF Conns
  <2>4. ~(c < c)
    BY <2>1
  <2>5. ASSUME NEW k
        PROVE  GivenTo(k)' = IF k = next_ + 1 THEN GivenTo(k) \cup {c} ELSE GivenTo(k)
    <3>1. GivenTo(k)' = {d \in Conns : d < c + 1 /\ loop_'[d] = k}
      BY <2>1 DEF GivenTo
    <3>2. GivenTo(k) = {d \in Conns : d < c /\ loop_[d] = k}
      BY DEF GivenTo, c
    <3> QED
      BY <2>1, <2>2, <2>3, <2>4, <3>1, <3>2
  <2>6. c \notin GivenTo(next_ + 1)
    BY <2>4 DEF GivenTo, c
  <2>7. \A k \in 1..numThreads_ :
          /\ Load(k) \in Nat
          /\ Load(k)' = IF k = next_ + 1 THEN Load(k) + 1 ELSE Load(k)
    <3>1. ASSUME NEW k \in 1..numThreads_, k = next_ + 1
          PROVE  Load(k)' = Load(k) + 1
      <4>1. GivenTo(k)' = GivenTo(k) \cup {c} /\ c \notin GivenTo(k)
        BY <2>5, <2>6, <3>1
      <4>2. IsFiniteSet(GivenTo(k))
        BY LoadFacts
      <4> QED
        BY <4>1, <4>2, FS_AddElement DEF Load
    <3>2. ASSUME NEW k \in 1..numThreads_, k # next_ + 1
          PROVE  Load(k)' = Load(k)
      BY <2>5, <3>2 DEF Load
    <3>3. \A k \in 1..numThreads_ : Load(k) \in Nat
      BY LoadFacts
    <3> QED
      BY <3>1, <3>2, <3>3
  <2>8. \A k \in 1..numThreads_ :
          Ahead(k)' = IF next_ + 1 = numThreads_ THEN 0
                      ELSE IF k = next_ + 1 THEN 1 ELSE Ahead(k)
    BY <1>1, <1>3, <2>1 DEF Ahead, NextLoop
  <2>9. \A k \in 1..numThreads_ :
          /\ next_ + 1 = numThreads_ => Ahead(k) = IF k = next_ + 1 THEN 0 ELSE 1
          /\ Ahead(next_ + 1) = 0 /\ Ahead(k) \in {0, 1}
    BY <1>1, <1>3 DEF Ahead
  <2>10. ASSUME NEW k \in 1..numThreads_, NEW l \in 1..numThreads_
         PROVE  Load(k)' - Ahead(k)' = Load(l)' - Ahead(l)'
    <3>1. Load(k) - Ahead(k) = Load(l) - Ahead(l)
      BY DEF Spread
    <3> QED
      BY <1>1, <1>3, <2>7, <2>8, <2>9, <3>1
  <2> QED
    BY <1>1, <2>10 DEF Spread
<1> QED
  BY <1>2, <1>3

(* However many connections come and whatever becomes of them, getNextLoop *)
(* has given no io loop more than one connection more than another.        *)
THEOREM EvenDistribution == Spec => []RoundRobin
<1>1. Init => Spread
  <2> SUFFICES ASSUME Init PROVE Spread
    OBVIOUS
  <2>1. \A k : GivenTo(k) = {}
    BY DEF Init, GivenTo, Conns
  <2>2. \A k \in 1..numThreads_ : Ahead(k) = 0
    BY ServerAssumption DEF Init, Ahead
  <2> QED
    BY <2>1, <2>2 DEF Spread, Load
<1>2. IInv /\ Spread /\ [Next]_vars => Spread'
  <2> SUFFICES ASSUME IInv, Spread, UNCHANGED <<numThreads_, nextConnId_, next_, loop_>>
               PROVE  Spread'
    BY OnlyNewConnectionGives, NewConnectionSpreads
  <2> QED
    BY DEF Spread, Load, GivenTo, Ahead
<1>3. IInv /\ Spread => RoundRobin
  <2> SUFFICES ASSUME IInv, Spread,
                      NEW k \in IF numThreads_ = 0 THEN {Base} ELSE 1..numThreads_,
                      NEW l \in IF numThreads_ = 0 THEN {Base} ELSE 1..numThreads_
               PROVE  Load(k) <= Load(l) + 1
    BY LoadFacts DEF RoundRobin, Load
  <2>1. Load(k) \in Nat /\ Load(l) \in Nat /\ Ahead(k) \in {0, 1} /\ Ahead(l) \in {0, 1}
    BY LoadFacts DEF Ahead
  <2>2. k = l \/ Load(k) - Ahead(k) = Load(l) - Ahead(l)
    BY DEF Spread
  <2> QED
    BY <2>1, <2>2
<1> QED
  BY <1>1, <1>2, <1>3, Invariant, PTL DEF Spec
------------------------------------------------------------------------------
(* The end of the server. *)

(* No thread runs a loop beyond numThreads_, and no connection is in one.  *)
UnusedIdle == \A k \in SubLoops : k > numThreads_ => pc[k] = "io" /\ ~quit[k]
UsedLoops == \A c \in Conns : Born(c) => loop_[c] <= numThreads_

(* The pool's threads are told to leave when base loop, map and users are  *)
(* done, and the base EventLoop goes when those threads are over.          *)
PoolLast ==
  \A k \in SubLoops : quit[k] => BaseOver /\ connections_ = {} /\ UsersDone
BaseLast ==
  pc[Base] = "gone" => connections_ = {} /\ UsersDone /\ PoolDestroyed(numThreads_)

(* Nothing comes after the end that ~TcpServer has dealt with.             *)
Order == UnusedIdle /\ UsedLoops /\ PoolLast /\ BaseLast

(* A loop that is gone is in no callback and holds no connection.          *)
GoneEmpty == \A l \in Loops : pc[l] = "gone" => Free(l) /\ Shared[l] = {}

(* A functor in the queue of a loop is one of a connection of that loop,   *)
(* or of any in the base loop.                                             *)
LEMMA QueuedHere ==
  ASSUME IInv, NEW l \in Loops, NEW i \in DOMAIN queue[l]
  PROVE  /\ queue[l][i].conn \in Conns /\ Born(queue[l][i].conn)
         /\ l = Base \/ loop_[queue[l][i].conn] = l
<1> DEFINE f == queue[l][i]
<1>1. queue[l] \in Seq(Functors) /\ f \in Functors
  BY DEF IInv, TypeOK
<1>2. f.op \in Ops /\ f.conn \in Conns /\ f = Fn(f.op, f.conn)
  BY <1>1, FunctorFacts
<1>3. f \in Waiting[l]
  <2>1. i + Len(batch[l]) \in DOMAIN Todo[l] /\ Todo[l][i + Len(batch[l])] = f
    BY Positions DEF IInv
  <2> HIDE DEF f
  <2> QED
    BY <2>1, TodoTypes DEF IInv, Members
<1> HIDE DEF f
<1>4. Fn(f.op, f.conn) \in Waiting[l]
  BY <1>2, <1>3
<1>5. f.conn \in Conns /\ Born(f.conn) /\ (l = Base \/ loop_[f.conn] = l)
  BY <1>2, <1>4, AboutConn
<1> QED
  BY <1>5, Zenon DEF f

(* The steps that have to do with the end of the server.                   *)
LEMMA EndChanges ==
  ASSUME IInv, [Next]_vars
  PROVE  \/ /\ UNCHANGED <<numThreads_, nextConnId_, loop_, pc, quit, hold>>
            /\ connections_' \subseteq connections_
         \/ Start \/ NewConnection \/ Quit
         \/ \E l \in Loops : SwapFunctors(l) \/ BatchDone(l) \/ LoopDestroyed(l)
         \/ \E k \in SubLoops : DestroyThread(k)
         \/ \E u \in Users : Release(u) \/ \E c \in Conns : Acquire(u, c)
<1> USE DEF serverVars, acceptVars, connVars, threadVars, userVars
<1> DEFINE Same == /\ UNCHANGED <<numThreads_, nextConnId_, loop_, pc, quit, hold>>
                   /\ connections_' \subseteq connections_
<1>1. ASSUME NEW l \in Loops,
             \/ \E c \in Conns : HandleMessage(l, c) \/ HandleEnd(l, c)
             \/ CallbackReturns(l) \/ RunFunctor(l)
      PROVE  Same
  BY <1>1 DEF RunFunctor, RunEstablished, RunDestoryed, RunRemove, RunShutdown,
              RunSend, PopFunctor, HandleMessage, HandleEnd, CallbackReturns,
              RemoveConnectionInLoop
<1>2. ASSUME NEW t \in Threads,
             \/ \E c \in Conns : ShutdownTest(t, c) \/ SendTest(t, c)
             \/ ShutdownSet(t) \/ ShutdownQueue(t) \/ SendQueue(t)
      PROVE  Same
  BY <1>2 DEF ShutdownTest, ShutdownSet, ShutdownQueue, SendQueue, QueueRaw,
              SendTest, CallGoesTo
<1>3. ASSUME \/ ClientArrives \/ AcceptFails \/ DestroyAcceptor
             \/ \E c \in Conns : PeerCloses(c) \/ DestroyConnection(c)
             \/ UNCHANGED vars
      PROVE  Same
  BY <1>3 DEF ClientArrives, AcceptFails, DestroyAcceptor, PeerCloses,
              DestroyConnection, vars
<1>4. Users \subseteq Threads
  BY DEF Threads
<1> HIDE DEF Same
<1>5. \/ Same
      \/ Start \/ NewConnection \/ Quit
      \/ \E l \in Loops : SwapFunctors(l) \/ BatchDone(l) \/ LoopDestroyed(l)
      \/ \E k \in SubLoops : DestroyThread(k)
      \/ \E u \in Users : Release(u) \/ \E c \in Conns : Acquire(u, c)
  BY <1>1, <1>2, <1>3, <1>4 DEF Next, LoopStep
<1> QED
  BY <1>5 DEF Same

(* Every step keeps the order of the end.                                  *)
LEMMA OrderNext ==
  ASSUME IInv, IInv', Order, [Next]_vars
  PROVE  Order'
<1> USE DEF Order
<1>1. /\ TypeOK /\ Base \in Loops /\ Base \notin SubLoops /\ SubLoops \subseteq Loops
      /\ SubLoops \subseteq Nat /\ numThreads_ \in Nat
      /\ \A c \in Conns : Born(c) <=> c < nextConnId_
      /\ \A c \in Conns : Born(c)' <=> c < nextConnId_'
  <2>1. TypeOK /\ Base \in Loops /\ SubLoops \subseteq Loops
    BY LoopTypes DEF IInv
  <2>2. Base \notin SubLoops /\ SubLoops \subseteq Nat
    BY ServerAssumption DEF Base, SubLoops
  <2>3. numThreads_ \in Nat
    BY <2>1, ServerAssumption DEF TypeOK
  <2>4. /\ \A c \in Conns : Born(c) <=> c < nextConnId_
        /\ \A c \in Conns : Born(c)' <=> c < nextConnId_'
    BY DEF IInv, Core, Births
  <2> QED
    BY <2>1, <2>2, <2>3, <2>4
<1>2. CASE /\ UNCHANGED <<numThreads_, nextConnId_, loop_, pc, quit, hold>>
           /\ connections_' \subseteq connections_
  <2>1. UnusedIdle' /\ UsedLoops'
    <3>1. /\ numThreads_' = numThreads_ /\ nextConnId_' = nextConnId_
          /\ loop_' = loop_ /\ pc' = pc /\ quit' = quit
      BY <1>2
    <3>2. UnusedIdle'
      BY <3>1 DEF UnusedIdle
    <3>3. UsedLoops'
      BY <1>1, <3>1 DEF UsedLoops
    <3> QED
      BY <3>2, <3>3
  <2>2. connections_ = {} => connections_' = {}
    BY <1>2
  <2>3. (BaseOver <=> BaseOver') /\ (UsersDone <=> UsersDone')
    BY <1>2 DEF BaseOver, UsersDone
  <2>4. PoolLast' /\ BaseLast'
    BY <1>2, <2>2, <2>3 DEF PoolLast, BaseLast, PoolDestroyed
  <2> QED
    BY <2>1, <2>4
<1>3. ASSUME UNCHANGED <<numThreads_, connections_, hold, loop_, nextConnId_>>,
             \A k \in SubLoops : k > numThreads_ => pc'[k] = pc[k] /\ ~quit'[k],
             \A k \in SubLoops : quit'[k] /\ ~quit[k]
                => BaseOver /\ connections_ = {} /\ UsersDone,
             BaseOver => BaseOver',
             \A k \in SubLoops : pc[k] = "gone" => pc'[k] = "gone",
             pc'[Base] = "gone" =>
               pc[Base] = "gone"
                 \/ (connections_ = {} /\ UsersDone /\ PoolDestroyed(numThreads_))
      PROVE  Order'
  <2>1. UnusedIdle' /\ UsedLoops'
    BY <1>1, <1>3 DEF UnusedIdle, UsedLoops
  <2>2. PoolLast'
    BY <1>1, <1>3 DEF PoolLast, UsersDone
  <2>3. BaseLast'
    <3>1. 1..numThreads_ \subseteq SubLoops
      BY ServerAssumption, <1>1 DEF TypeOK, SubLoops
    <3> QED
      BY <1>3, <3>1 DEF BaseLast, UsersDone, PoolDestroyed
  <2> QED
    BY <2>1, <2>2, <2>3
<1>4. CASE Start
  <2>1. pc' = [pc EXCEPT ![Base] = "io"] /\ pc[Base] = "start"
    BY <1>4 DEF Start
  <2> QED
    BY <1>1, <1>3, <1>4, <2>1
       DEF Start, TypeOK, threadVars, serverVars, userVars, BaseOver, UnusedIdle
<1>5. CASE NewConnection
  <2>1. /\ pc[Base] = "io" /\ pc' = pc /\ quit' = quit /\ numThreads_' = numThreads_
        /\ nextConnId_ \in Conns /\ nextConnId_' = nextConnId_ + 1
        /\ loop_' = [loop_ EXCEPT ![nextConnId_] =
                       IF numThreads_ = 0 THEN Base ELSE next_ + 1]
    BY <1>5, ServerAssumption
       DEF NewConnection, AcceptReady, TypeOK, IInv, Conns, threadVars
  <2>2. UnusedIdle' /\ PoolLast' /\ BaseLast'
    BY <1>1, <2>1 DEF UnusedIdle, PoolLast, BaseLast, BaseOver
  <2>3. ASSUME NEW c \in Conns, Born(c)' PROVE loop_'[c] <= numThreads_
    <3>1. CASE c = nextConnId_
      <4>1. loop_'[c] = IF numThreads_ = 0 THEN Base ELSE next_ + 1
        BY <2>1, <3>1 DEF IInv, TypeOK
      <4>2. numThreads_ # 0 => next_ \in Nat /\ next_ < numThreads_
        BY <1>1 DEF TypeOK
      <4> QED
        BY <1>1, <4>1, <4>2 DEF Base
    <3>2. CASE c # nextConnId_
      <4>1. Born(c) /\ loop_'[c] = loop_[c]
        BY <1>1, <2>1, <2>3, <3>2 DEF IInv, TypeOK, Conns
      <4> QED
        BY <4>1 DEF UsedLoops
    <3> QED
      BY <3>1, <3>2
  <2> QED
    BY <2>1, <2>2, <2>3 DEF UsedLoops
<1>6. CASE Quit
  <2>1. quit' = [quit EXCEPT ![Base] = TRUE] /\ pc' = pc
    BY <1>6 DEF Quit
  <2> QED
    BY <1>1, <1>3, <1>6, <2>1
       DEF Quit, TypeOK, serverVars, userVars, BaseOver, UnusedIdle
<1>7. ASSUME NEW l \in Loops, SwapFunctors(l) PROVE Order'
  <2>1. /\ pc' = [pc EXCEPT ![l] = "run"] /\ pc[l] = "io" /\ quit' = quit
        /\ queue[l] # <<>> \/ quit[l]
    BY <1>7 DEF SwapFunctors
  <2>2. ASSUME l \in SubLoops, l > numThreads_ PROVE FALSE
    <3>1. ~quit[l] /\ queue[l] # <<>>
      BY <2>1, <2>2 DEF UnusedIdle
    <3>2. 1 \in DOMAIN queue[l]
      <4>1. queue[l] \in Seq(Functors)
        BY <1>1 DEF TypeOK
      <4> QED
        BY <3>1, <4>1, TailIndices
    <3>3. PICK c \in Conns : Born(c) /\ (l = Base \/ loop_[c] = l)
      BY <3>2, QueuedHere
    <3>4. loop_[c] = l
      BY <1>1, <2>2, <3>3
    <3> QED
      BY <1>1, <2>2, <3>3, <3>4 DEF UsedLoops
  <2> QED
    BY <1>1, <1>3, <1>7, <2>1, <2>2
       DEF SwapFunctors, TypeOK, serverVars, userVars, BaseOver, UnusedIdle
<1>8. ASSUME NEW l \in Loops, BatchDone(l) PROVE Order'
  <2>1. /\ pc' = [pc EXCEPT ![l] = AfterFunctors(l)] /\ pc[l] = "run" /\ quit' = quit
        /\ AfterFunctors(l) \in {"exited", "io"}
    BY <1>8 DEF BatchDone, AfterFunctors
  <2> QED
    BY <1>1, <1>3, <1>8, <2>1
       DEF BatchDone, TypeOK, serverVars, userVars, BaseOver, UnusedIdle
<1>9. ASSUME NEW l \in Loops, LoopDestroyed(l) PROVE Order'
  <2>1. /\ pc' = [pc EXCEPT ![l] = "gone"] /\ pc[l] = "exited" /\ quit' = quit
        /\ l = Base => connections_ = {} /\ UsersDone /\ PoolDestroyed(numThreads_)
    BY <1>9 DEF LoopDestroyed, ServerDestroyed
  <2> QED
    BY <1>1, <1>3, <1>9, <2>1
       DEF LoopDestroyed, TypeOK, serverVars, userVars, BaseOver, UnusedIdle
<1>10. ASSUME NEW k \in SubLoops, DestroyThread(k) PROVE Order'
  <2>1. /\ quit' = [quit EXCEPT ![k] = TRUE] /\ pc' = pc /\ k <= numThreads_
        /\ BaseOver /\ connections_ = {} /\ UsersDone
        /\ UNCHANGED <<numThreads_, connections_, hold, loop_, nextConnId_>>
    BY <1>10 DEF DestroyThread, BaseOver, serverVars, userVars
  <2>2. \A j \in SubLoops : j # k => quit'[j] = quit[j]
    BY <1>1, <2>1 DEF TypeOK
  <2>3. k \in Nat /\ ~(k > numThreads_)
    BY <1>1, <2>1
  <2>4. \A j \in SubLoops : j > numThreads_ => pc'[j] = pc[j] /\ ~quit'[j]
    BY <2>1, <2>2, <2>3 DEF UnusedIdle
  <2>5. BaseOver => BaseOver'
    BY <2>1 DEF BaseOver
  <2> QED
    BY <1>3, <2>1, <2>4, <2>5
<1>11. ASSUME NEW u \in Users, Release(u) PROVE Order'
  <2>1. /\ hold' = [hold EXCEPT ![u] = NoConn]
        /\ UNCHANGED <<numThreads_, nextConnId_, loop_, pc, quit, connections_>>
    BY <1>11 DEF Release, serverVars, threadVars
  <2>2. UsersDone => UsersDone'
    BY <2>1 DEF UsersDone, TypeOK, IInv
  <2> QED
    BY <1>1, <2>1, <2>2
       DEF UnusedIdle, UsedLoops, PoolLast, BaseLast, BaseOver, PoolDestroyed
<1>12. ASSUME NEW u \in Users, NEW c \in Conns, Acquire(u, c) PROVE Order'
  <2>1. /\ pc[Base] \in {"io", "run"}
        /\ UNCHANGED <<numThreads_, nextConnId_, loop_, pc, quit, connections_>>
    BY <1>12 DEF Acquire, ServerRunning, serverVars, threadVars
  <2> QED
    BY <1>1, <2>1
       DEF UnusedIdle, UsedLoops, PoolLast, BaseLast, BaseOver
<1> QED
  BY <1>2, <1>4, <1>5, <1>6, <1>7, <1>8, <1>9, <1>10, <1>11, <1>12, EndChanges

(* A loop that is gone stays empty when a step has to do with other loops  *)
(* and with what they hold.                                                *)
Elsewhere(S) ==
  /\ \A l \in Loops \ S : frame'[l] = frame[l] /\ Shared'[l] \subseteq Shared[l]
  /\ \A l \in S : pc[l] # "gone"
  /\ \A l \in Loops : pc'[l] = "gone" => pc[l] = "gone"

LEMMA ElsewhereKeeps ==
  ASSUME GoneEmpty, NEW S, Elsewhere(S)
  PROVE  GoneEmpty'
BY DEF GoneEmpty, Elsewhere, Free

(* While the base loop runs, or the map is not empty, no thread of the     *)
(* pool is over.                                                           *)
LEMMA PoolRuns ==
  ASSUME IInv, Order, ~BaseOver \/ connections_ # {}, NEW k \in SubLoops
  PROVE  pc[k] # "gone"
<1>1. ~quit[k] /\ k \in Loops
  BY DEF Order, PoolLast, Loops
<1> QED
  BY <1>1 DEF IInv, Running

(* A callback that runs is one of a loop that is not gone, and the base    *)
(* loop is there as well.                                                  *)
LEMMA CallbackRuns ==
  ASSUME IInv, Order, GoneEmpty, NEW l \in Loops, ~Free(l)
  PROVE  /\ frame[l].conn \in Conns /\ loop_[frame[l].conn] = l
         /\ pc[l] # "gone" /\ pc[Base] # "gone"
<1>1. TypeOK /\ frame[l].at # "none" /\ frame[l].conn \in Conns
  BY LoopTypes, FrameFacts DEF IInv
<1>2. loop_[frame[l].conn] = l /\ Born(frame[l].conn)
  BY <1>1 DEF IInv, Core, Placement, Births
<1>3. pc[l] # "gone"
  BY DEF GoneEmpty
<1>4. ASSUME pc[Base] = "gone" PROVE FALSE
  <2>1. l # Base
    BY <1>3, <1>4
  <2>2. l \in 1..MaxThreads /\ l <= numThreads_ /\ numThreads_ \in Nat
    BY <1>1, <1>2, <2>1, ServerAssumption
       DEF Order, UsedLoops, Loops, SubLoops, Base, TypeOK
  <2>3. pc[l] = "gone"
    BY <1>4, <2>2, ServerAssumption DEF Order, BaseLast, PoolDestroyed
  <2> QED
    BY <1>3, <2>3
<1> QED
  BY <1>1, <1>2, <1>3, <1>4

(* Nobody hands a connection to a loop that is gone.                       *)
LEMMA GoneEmptyNext ==
  ASSUME IInv, Order, GoneEmpty, [Next]_vars
  PROVE  GoneEmpty'
<1> USE DEF serverVars, acceptVars, connVars, threadVars, userVars
<1>1. TypeOK /\ Base \in Loops /\ \A c \in Conns : loop_[c] \in Loops
  BY LoopTypes DEF IInv
<1>2. UNCHANGED queue => UNCHANGED Shared
  BY DEF Shared
<1>3. ASSUME NEW l \in Loops, pc[l] # "gone", UNCHANGED <<pc, queue>>,
             \A k \in Loops : k # l => frame'[k] = frame[k]
      PROVE  GoneEmpty'
  <2>1. Elsewhere({l})
    BY <1>2, <1>3 DEF Elsewhere
  <2> QED
    BY <2>1, ElsewhereKeeps
<1>4. ASSUME UNCHANGED <<frame, queue>>,
             \A k \in Loops : pc'[k] = "gone" => pc[k] = "gone"
      PROVE  GoneEmpty'
  <2>1. Elsewhere({})
    BY <1>2, <1>4 DEF Elsewhere
  <2> QED
    BY <2>1, ElsewhereKeeps
<1>5. ASSUME NEW l \in Loops, NEW op \in Ops, NEW c \in Conns, Enqueue(l, Fn(op, c)),
             op \in RawOps \/ pc[l] # "gone", UNCHANGED pc,
             NEW k \in Loops, frame' = frame \/ pc[k] # "gone",
             \A j \in Loops : j # k => frame'[j] = frame[j]
      PROVE  GoneEmpty'
  <2>1. /\ \A j \in Loops : j # l => Shared'[j] = Shared[j]
        /\ Shared'[l] = Shared[l] \cup (IF op \in RawOps THEN {} ELSE {c})
    BY <1>1, <1>5, EnqueueShared
  <2>2. Elsewhere({j \in {l, k} : pc[j] # "gone"})
    BY <1>5, <2>1 DEF Elsewhere
  <2> QED
    BY <2>2, ElsewhereKeeps
<1>6. ASSUME ~BaseOver \/ connections_ # {}, pc[Base] # "gone", NEW c \in Conns
      PROVE  pc[loop_[c]] # "gone"
  <2>1. loop_[c] = Base \/ loop_[c] \in SubLoops
    BY <1>1 DEF Loops
  <2> QED
    BY <1>6, <2>1, PoolRuns
<1>7. ASSUME NEW l \in Loops, NEW c \in Conns, HandleMessage(l, c) \/ HandleEnd(l, c)
      PROVE  GoneEmpty'
  <2>1. pc[l] = "io" /\ UNCHANGED <<pc, queue>>
    BY <1>7 DEF HandleMessage, HandleEnd, EventReady
  <2>2. \A k \in Loops : k # l => frame'[k] = frame[k]
    <3>1. CASE HandleMessage(l, c)
      BY <1>1, <3>1 DEF HandleMessage, TypeOK
    <3>2. CASE HandleEnd(l, c)
      BY <1>1, <3>2, HandlerFrame DEF HandleEnd
    <3> QED
      BY <1>7, <3>1, <3>2
  <2> QED
    BY <1>3, <2>1, <2>2
<1>8. ASSUME NEW t \in Threads, ShutdownQueue(t) \/ SendQueue(t)
      PROVE  GoneEmpty'
  <2>1. PICK at \in {"set", "sending"}, op \in RawOps : QueueRaw(t, at, op)
    BY <1>8 DEF ShutdownQueue, SendQueue, RawOps
  <2>2. /\ Enqueue(loop_[call[t].conn], Fn(op, call[t].conn))
        /\ call[t].conn \in Conns
        /\ UNCHANGED <<pc, frame>>
    BY <1>1, <2>1, FrameFacts DEF QueueRaw
  <2> QED
    BY <1>1, <1>5, <2>2, OpFacts
<1>9. ASSUME NEW l \in Loops, CallbackReturns(l)
      PROVE  GoneEmpty'
  <2> DEFINE c == frame[l].conn
  <2>1. /\ c \in Conns /\ loop_[c] = l /\ pc[l] # "gone" /\ pc[Base] # "gone"
    BY <1>9, CallbackRuns DEF CallbackReturns
  <2>2. /\ UNCHANGED pc /\ \A k \in Loops : k # l => frame'[k] = frame[k]
        /\ \/ UNCHANGED queue
           \/ l = Base /\ Enqueue(l, Fn("connectDestoryed", c))
           \/ Enqueue(Base, Fn("removeConnectionInLoop", c))
    BY <1>1, <1>9, <2>1 DEF CallbackReturns, RemoveConnectionInLoop, TypeOK
  <2> HIDE DEF c
  <2> QED
    BY <1>1, <1>3, <1>5, <2>1, <2>2, OpFacts
<1>10. ASSUME NEW l \in Loops, RunFunctor(l)
       PROVE  GoneEmpty'
  <2>1. pc[l] = "run" /\ UNCHANGED pc
    BY <1>10 DEF RunFunctor, RunEstablished, RunDestoryed, RunRemove, RunShutdown,
                 RunSend, AtFunctor, PopFunctor
  <2>2. CASE RunEstablished(l) \/ RunDestoryed(l)
    <3>1. PICK c \in Conns : ConnectEstablished(l, c) \/ ConnectDestoryed(l, c)
      BY <1>1, <2>2, AtHead, OpFacts DEF RunEstablished, RunDestoryed
    <3>2. UNCHANGED queue
      BY <2>2 DEF RunEstablished, RunDestoryed
    <3> QED
      BY <1>1, <1>3, <2>1, <3>1, <3>2, HandlerFrame
  <2>3. CASE RunRemove(l)
    <3>1. PICK c \in Conns : /\ Fn("removeConnectionInLoop", c) \in Waiting[l]
                             /\ RemoveConnectionInLoop(c)
      BY <2>3, BatchPoints, OpFacts DEF RunRemove
    <3>2. l = Base
      BY <3>1, AboutConn, OpFacts
    <3>3. pc[loop_[c]] # "gone"
      BY <1>6, <2>1, <3>2 DEF BaseOver
    <3>4. Enqueue(loop_[c], Fn("connectDestoryed", c)) /\ frame' = frame
      BY <2>3, <3>1 DEF RunRemove, RemoveConnectionInLoop
    <3> QED
      BY <1>1, <1>5, <2>1, <3>3, <3>4, OpFacts
  <2>4. CASE RunShutdown(l) \/ RunSend(l)
    BY <1>4, <2>1, <2>4 DEF RunShutdown, RunSend
  <2> QED
    BY <1>10, <2>2, <2>3, <2>4 DEF RunFunctor
<1>11. CASE NewConnection
  <2> DEFINE c == nextConnId_
             l == IF numThreads_ = 0 THEN Base ELSE next_ + 1
  <2>1. /\ pc[Base] = "io" /\ UNCHANGED pc /\ c \in Conns
        /\ \/ l = Base /\ ConnectEstablished(Base, c) /\ UNCHANGED queue
           \/ Enqueue(l, Fn("connectEstablished", c)) /\ UNCHANGED frame
    BY <1>1, <1>11, ServerAssumption
       DEF NewConnection, AcceptReady, Conns, TypeOK
  <2>2. l \in Loops
    BY <1>1, ServerAssumption DEF TypeOK, Loops, SubLoops, Base
  <2>3. pc[l] # "gone"
    BY <2>1, <2>2, PoolRuns DEF Loops, BaseOver
  <2> HIDE DEF c, l
  <2> QED
    BY <1>1, <1>3, <1>5, <2>1, <2>2, <2>3, HandlerFrame, OpFacts
<1>12. ASSUME NEW c \in Conns, DestroyConnection(c)
       PROVE  GoneEmpty'
  <2>1. /\ pc[Base] = "exited" /\ UNCHANGED pc /\ connections_ # {}
        /\ \/ ConnectDestoryed(Base, c) /\ UNCHANGED queue
           \/ Enqueue(loop_[c], Fn("connectDestoryed", c)) /\ UNCHANGED frame
    BY <1>12 DEF DestroyConnection
  <2>2. pc[loop_[c]] # "gone"
    BY <1>6, <2>1
  <2> QED
    BY <1>1, <1>3, <1>5, <2>1, <2>2, HandlerFrame, OpFacts
<1>13. ASSUME NEW l \in Loops, SwapFunctors(l) \/ LoopDestroyed(l)
       PROVE  GoneEmpty'
  <2>1. /\ queue' = [queue EXCEPT ![l] = <<>>] /\ frame' = frame
        /\ SwapFunctors(l) => pc' = [pc EXCEPT ![l] = "run"]
        /\ LoopDestroyed(l) => pc' = [pc EXCEPT ![l] = "gone"] /\ Free(l)
    BY <1>13 DEF SwapFunctors, LoopDestroyed
  <2>2. /\ \A k \in Loops : k # l => queue'[k] = queue[k] /\ pc'[k] = pc[k]
        /\ queue'[l] = <<>>
        /\ pc'[l] = "gone" => Free(l)
    BY <1>1, <1>13, <2>1 DEF TypeOK
  <2>3. DOMAIN <<>> = {}
    OBVIOUS
  <2>4. /\ Shared'[l] = {}
        /\ \A k \in Loops : k # l => Shared'[k] = Shared[k]
    BY <2>2, <2>3 DEF Shared
  <2> QED
    BY <2>1, <2>2, <2>4 DEF GoneEmpty, Free
<1>14. CASE \/ Start \/ \E l \in Loops : BatchDone(l)
  <2>1. UNCHANGED <<frame, queue>> /\ \E l \in Loops, p \in {"io", "exited"} :
           pc' = [pc EXCEPT ![l] = p]
    BY <1>1, <1>14 DEF Start, BatchDone, AfterFunctors
  <2>2. \A k \in Loops : pc'[k] = "gone" => pc[k] = "gone"
    BY <1>1, <2>1 DEF TypeOK
  <2> QED
    BY <1>4, <2>1, <2>2
<1>15. CASE \/ ClientArrives \/ AcceptFails \/ DestroyAcceptor \/ Quit
            \/ \E c \in Conns : PeerCloses(c)
            \/ \E k \in SubLoops : DestroyThread(k)
            \/ UNCHANGED vars
  BY <1>4, <1>15 DEF ClientArrives, AcceptFails, DestroyAcceptor, Quit, PeerCloses,
                     DestroyThread, vars
<1>16. ASSUME NEW t \in Threads,
              \/ \E c \in Conns : ShutdownTest(t, c) \/ SendTest(t, c) \/ Acquire(t, c)
              \/ ShutdownSet(t) \/ Release(t)
       PROVE  GoneEmpty'
  BY <1>4, <1>16 DEF ShutdownTest, SendTest, Acquire, ShutdownSet, Release, CallGoesTo
<1>17. Users \subseteq Threads
  BY DEF Threads
<1> QED
  BY <1>7, <1>8, <1>9, <1>10, <1>11, <1>12, <1>13, <1>14, <1>15, <1>16, <1>17
     DEF Next, LoopStep

(* When the base EventLoop is gone nobody holds a connection any more.     *)
LEMMA NobodyHolds ==
  ASSUME IInv, Order, GoneEmpty, pc[Base] = "gone", NEW c \in Conns, Born(c)
  PROVE  ~Pointed(c)
<1>1. connections_ = {} /\ UsersDone /\ PoolDestroyed(numThreads_)
  BY DEF Order, BaseLast
<1>2. NoConn \notin Conns /\ numThreads_ \in Nat /\ loop_[c] \in Loops
  BY ServerAssumption, LoopTypes DEF NoConn, Conns, IInv, TypeOK
<1>3. ASSUME NEW l \in Loops, Free(l) PROVE frame[l].conn # c
  BY <1>2, <1>3 DEF Free, NoFrame
<1>4. ASSUME NEW l \in Loops, pc[l] # "gone"
      PROVE  Free(l) /\ c \notin held[l] /\ c \notin Shared[l]
  <2>1. /\ l \in SubLoops /\ l > numThreads_ /\ l # Base
        /\ pc[l] = "io"
    <3>1. l # Base /\ l \in SubLoops
      BY <1>4 DEF Loops
    <3>2. ~(l \in 1..numThreads_)
      BY <1>1, <1>4 DEF PoolDestroyed
    <3>3. l > numThreads_
      BY <1>2, <3>1, <3>2, ServerAssumption DEF SubLoops
    <3> QED
      BY <3>1, <3>3 DEF Order, UnusedIdle
  <2>2. \A d \in Conns : Born(d) => loop_[d] # l
    BY <1>2, <2>1, ServerAssumption DEF Order, UsedLoops, SubLoops
  <2>3. Free(l)
    BY <2>2, FrameFacts DEF IInv, Core, Births, Placement
  <2>4. c \notin Shared[l]
    <3>1. \A i \in DOMAIN queue[l] : FALSE
      BY <2>1, <2>2, QueuedHere
    <3> QED
      BY <3>1 DEF Shared
  <2> QED
    BY <2>1, <2>3, <2>4 DEF IInv, TypeOK
<1>5. \A l \in Loops : frame[l].conn # c /\ c \notin held[l] /\ c \notin Shared[l]
  <2>1. \A l \in Loops : pc[l] = "gone" => Free(l) /\ Shared[l] = {} /\ held[l] = {}
    BY DEF GoneEmpty, IInv, TypeOK
  <2> QED
    BY <1>3, <1>4, <2>1
<1>6. \A u \in Users : hold[u] # c
  BY <1>1, <1>2 DEF UsersDone
<1> QED
  BY <1>1, <1>5, <1>6 DEF Pointed

(* ~TcpServer leaves nothing behind, however many loops, connections and   *)
(* user threads there are and whatever functors it drops: when the base    *)
(* EventLoop goes, the pool's threads are over and every connection has    *)
(* been freed.                                                             *)
THEOREM NothingLeaks == Spec => []AllReleased
<1>1. Init => Order /\ GoneEmpty
  <2> SUFFICES ASSUME Init PROVE Order /\ GoneEmpty
    OBVIOUS
  <2>1. \A l \in Loops : pc[l] \in {"start", "io"} /\ ~quit[l]
    BY DEF Init
  <2>2. \A k \in SubLoops : k \in Loops /\ pc[k] = "io"
    BY DEF Init, Loops, SubLoops, Base
  <2>3. Base \in Loops /\ \A c \in Conns : ~Born(c)
    BY DEF Init, Loops, Born
  <2> QED
    BY <2>1, <2>2, <2>3
       DEF Order, UnusedIdle, UsedLoops, PoolLast, BaseLast, GoneEmpty
<1>2. IInv /\ IInv' /\ Order /\ GoneEmpty /\ [Next]_vars => Order' /\ GoneEmpty'
  BY OrderNext, GoneEmptyNext
<1>3. IInv /\ Order /\ GoneEmpty => AllReleased
  <2> SUFFICES ASSUME IInv, Order, GoneEmpty, pc[Base] = "gone"
               PROVE  PoolDestroyed(numThreads_) /\ \A c \in Conns : Born(c) => Freed(c)
    BY DEF AllReleased
  <2>1. \A c \in Conns : Born(c) => ~Referenced(c)
    BY NobodyHolds, ReferencedPointed
  <2> QED
    BY <2>1 DEF Freed, Order, BaseLast
<1> QED
  BY <1>1, <1>2, <1>3, Invariant, PTL DEF Spec
==============================================================================
