---------------------------- MODULE TcpConnection ----------------------------
(***************************************************************************)
(* The output path of one TcpConnection, from connectEstablished to        *)
(* handleClose: send() and shutdown() called in the thread of its io loop  *)
(* or in others, the functors they queue, the output buffer, what the      *)
(* kernel takes of each write, and the events epoll reports.  What happens *)
(* to the connection before and after that is in TcpServer; the buffer is  *)
(* the sequence of its readable bytes (Buffer says when it really is one). *)
(***************************************************************************)
EXTENDS Channel, Naturals, Sequences, FiniteSets

CONSTANTS
  Loop,           \* the thread of the connection's io loop
  Users,          \* the other threads that send and shut down
  NoThread,       \* no thread: the sender of bytes nobody sent
  HighWaterMark,  \* highWaterMark_
  Callbacks,      \* which of writeCallback_, highWaterMarkCallback_ are set
  MaxLen,         \* bound: the longest message
  MaxBytes        \* bound: bytes each thread sends in a behaviour

ASSUME ConnectionAssumption ==
  /\ Loop \notin Users /\ NoThread \notin Users \cup {Loop}
  /\ HighWaterMark \in Nat
  /\ Callbacks \subseteq {"writeCallback_", "highWaterMarkCallback_"}
  /\ MaxLen \in Nat \ {0} /\ MaxBytes \in Nat

Threads == Users \cup {Loop}

VARIABLES
  state_,         \* state_
  channel_,       \* channel_, with its poller's index
  outputBuffer_,  \* outputBuffer_
  peer,           \* the other end: "open", "closed" and all it sent read,
                  \* or "reset"
  wrShut,         \* has socket_->shutdownWrite() been called?
  revents,        \* what handleEvent has still to call callbacks for
  inCallback,     \* is the loop's thread in a user callback?
  queue,          \* PendingFunctors_ and the local vector, in order
  call,           \* the call each user thread is in
  sent,           \* history: how many bytes each thread gave to send()
  wire,           \* history: the bytes the kernel took
  closed          \* history: has handleClose run?

loopVars == <<revents, inCallback>>
outVars == <<channel_, outputBuffer_, wire, closed>>
vars == <<state_, outVars, peer, wrShut, loopVars, queue, call, sent>>

(* Byte n of a thread; a message is a run of such bytes.                   *)
Bytes == [from : Threads, n : 1..MaxBytes]
Garbage == [from |-> NoThread, n |-> 0]
Msgs ==
  {m \in [from : Threads, first : 1..MaxBytes, len : 1..MaxLen] :
     m.first + m.len <= MaxBytes + 1}
NoMsg == [from |-> NoThread, first |-> 0, len |-> 0]
BytesOf(m) == [i \in 1..m.len |-> [from |-> m.from, n |-> m.first + i - 1]]

(* "nothing" is std::bind(&TcpConnection::writeCallback_, conn): calling   *)
(* it selects the member and does not call it.                             *)
Functors == [op : {"sendInLoop"}, msg : Msgs] \cup
  [op : {"shutdownInLoop", "writeCallback_", "highWaterMarkCallback_", "nothing"},
   msg : {NoMsg}]
Fn(op) == [op |-> op, msg |-> NoMsg]

NoCall == [at |-> "none", msg |-> NoMsg]
Calls == [at : {"none", "shutdownTested", "shutdownSet"}, msg : {NoMsg}]
           \cup [at : {"sendTested"}, msg : Msgs]

(* connectEstablished has run.                                             *)
Init ==
  /\ state_ = "kConnected"
  /\ channel_ = enableReading(NewChannel)
  /\ outputBuffer_ = <<>>
  /\ peer = "open" /\ wrShut = FALSE
  /\ revents = {} /\ inCallback = FALSE
  /\ queue = <<>>
  /\ call = [u \in Users |-> NoCall]
  /\ sent = [t \in Threads |-> 0]
  /\ wire = <<>> /\ closed = FALSE
------------------------------------------------------------------------------
(* Writing, in the thread of the loop.                                     *)

CanWrite == ~wrShut /\ peer # "reset"

(* What a write() of data to the socket may return: how many bytes it      *)
(* took, 0 standing for EWOULDBLOCK and for an error.                      *)
Written(data) == IF CanWrite THEN 0..Len(data) ELSE {0}

Direct == ~isWriting(channel_) /\ outputBuffer_ = <<>>

(* Takes EPIPE for an error like EWOULDBLOCK.                              *)
MutFault == Direct /\ peer = "reset"

(* faultError: write() said EPIPE or ECONNRESET.                           *)
Fault == Direct /\ ~CanWrite

(* The test around the high water callback, which the code also wants      *)
(* before it keeps the bytes that remain.                                  *)
CrossesMark(remaining) ==
  /\ Len(outputBuffer_) + remaining >= HighWaterMark
  /\ Len(outputBuffer_) < HighWaterMark
  /\ "highWaterMarkCallback_" \in Callbacks

(* sendInLoop; rest is the queue without the functor that runs.            *)
SendInLoop(data, rest) ==
  IF state_ = "kDisconnected"
  THEN queue' = rest /\ UNCHANGED outVars
  ELSE \E n \in IF Direct THEN Written(data) ELSE {0} :
    LET remaining == Len(data) - n
        keeps == ~Fault /\ remaining > 0 /\ CrossesMark(remaining)
    IN
    /\ wire' = wire \o SubSeq(data, 1, n)
    /\ queue' = rest
         \o (IF remaining = 0 /\ "writeCallback_" \in Callbacks
             THEN <<Fn("writeCallback_")>> ELSE <<>>)
         \o (IF keeps THEN <<Fn("highWaterMarkCallback_")>> ELSE <<>>)
    /\ outputBuffer_' = IF keeps THEN outputBuffer_ \o SubSeq(data, n + 1, Len(data))
                                 ELSE outputBuffer_
    /\ channel_' = IF keeps /\ ~isWriting(channel_) THEN enableWriting(channel_)
                                                    ELSE channel_
    /\ UNCHANGED closed

(* shutdownInLoop that does not wait for the buffer.                       *)
MutMayShutWrite(ch) == TRUE

(* The test of shutdownInLoop.                                             *)
MayShutWrite(ch) == ~isWriting(ch)
------------------------------------------------------------------------------
(* handleEvent: the callbacks of one report of epoll, in their order.      *)

AtEvent(bits) == revents \cap bits # {} /\ ~inCallback

Reported == kReadEvent \cup kWriteEvent \cup {"ERR", "HUP"}

(* What epoll reports of the socket, beyond what the mask allows: the end  *)
(* of the stream is IN, if that is wanted; both ends closed or a reset are *)
(* HUP.                                                                    *)
Reports(r) ==
  /\ r # {} /\ r \subseteq Reportable(channel_)
  /\ peer # "open" /\ "IN" \in channel_.events => "IN" \in r
  /\ "HUP" \in r <=> peer = "reset" \/ (peer = "closed" /\ wrShut)
  /\ "ERR" \in r => peer = "reset"

Poll(r) ==
  /\ revents = {} /\ ~inCallback
  /\ Reports(r)
  /\ revents' = r \ {"ERR"}   \* handleError only logs
  /\ UNCHANGED <<state_, outVars, peer, wrShut, inCallback, queue, call, sent>>

(* handleClose that leaves the channel in the epoll set.                   *)
MutHandleClose ==
  /\ state_' = "kDisconnected"
  /\ closed' = TRUE
  /\ UNCHANGED <<channel_, outputBuffer_, wire, wrShut, inCallback, queue>>

(* handleClose that leaves state_ alone.                                   *)
MutHandleCloseState ==
  /\ channel_' = disableAll(channel_)
  /\ closed' = TRUE
  /\ UNCHANGED <<state_, outputBuffer_, wire, wrShut, inCallback, queue>>

(* handleClose, called for HUP without IN or by handleRead.                *)
HandleClose ==
  /\ state_' = "kDisconnected"
  /\ channel_' = disableAll(channel_)
  /\ closed' = TRUE
  /\ UNCHANGED <<outputBuffer_, wire, wrShut, inCallback, queue>>

HandleHup ==
  /\ AtEvent({"HUP"})
  /\ revents' = revents \ {"HUP"}
  /\ IF CallsClose(revents) THEN HandleClose
     ELSE UNCHANGED <<state_, outVars, wrShut, inCallback, queue>>
  /\ UNCHANGED <<peer, call, sent>>

(* handleRead: data for messageCallback_, the end, or an error it logs.    *)
HandleRead ==
  /\ AtEvent(kReadEvent) /\ "HUP" \notin revents
  /\ revents' = revents \ kReadEvent
  /\ \/ /\ peer = "open"
        /\ inCallback' = TRUE
        /\ UNCHANGED <<state_, outVars, wrShut, queue>>
     \/ peer # "open" /\ HandleClose
     \/ /\ peer # "closed"
        /\ UNCHANGED <<state_, outVars, wrShut, inCallback, queue>>
  /\ UNCHANGED <<peer, call, sent>>

(* Gives up EPOLLOUT after each write.                                     *)
MutAfterWrite(left) == disableWriting(channel_)

(* Keeps EPOLLOUT when the buffer is empty.                                *)
MutKeepsWriting(left) == channel_

(* EPOLLOUT is wanted until the buffer is empty.                           *)
AfterWrite(left) ==
  IF left = <<>> THEN disableWriting(channel_) ELSE channel_

(* handleWrite that forgets the shutdown() that waited for it.             *)
MutDrained(left) ==
  /\ queue' = IF left = <<>> /\ "writeCallback_" \in Callbacks
              THEN Append(queue, Fn("nothing")) ELSE queue
  /\ UNCHANGED wrShut

(* What handleWrite does once the buffer is empty.                         *)
Drained(left) ==
  /\ queue' = IF left = <<>> /\ "writeCallback_" \in Callbacks
              THEN Append(queue, Fn("nothing")) ELSE queue
  /\ wrShut' = (wrShut \/ ( /\ left = <<>> /\ state_ = "kDisconnecting"
                            /\ MayShutWrite(AfterWrite(left))))

(* writeFd and the lines after it, with n bytes taken.                     *)
WriteOut(n) ==
  LET left == SubSeq(outputBuffer_, n + 1, Len(outputBuffer_)) IN
  /\ outputBuffer_' = left
  /\ wire' = wire \o SubSeq(outputBuffer_, 1, n)
  /\ IF n > 0
     THEN channel_' = AfterWrite(left) /\ Drained(left)
     ELSE UNCHANGED <<channel_, queue, wrShut>>
  /\ UNCHANGED closed

AtWrite ==
  /\ AtEvent({"OUT"}) /\ revents \cap (kReadEvent \cup {"HUP"}) = {}
  /\ revents' = {}
  /\ UNCHANGED <<state_, peer, inCallback, call, sent>>

(* handleWrite that trusts the reported event.                             *)
MutHandleWrite(n) ==
  AtWrite /\ n \in Written(outputBuffer_) /\ WriteOut(n)

(* handleWrite: the mask may have changed since epoll reported.            *)
HandleWrite(n) ==
  /\ AtWrite
  /\ IF isWriting(channel_)
     THEN n \in Written(outputBuffer_) /\ WriteOut(n)
     ELSE n = 0 /\ UNCHANGED <<outVars, wrShut, queue>>

(* What a functor of send() finds at the address it kept: the message, or, *)
(* if the caller's string has been destroyed meanwhile, anything.          *)
Found(m) == {BytesOf(m), [i \in 1..m.len |-> Garbage]}

(* The first functor of the queue.  Functors run when no event is being    *)
(* handled.                                                                *)
RunFunctor ==
  /\ revents = {} /\ ~inCallback
  /\ queue # <<>>
  /\ LET f == Head(queue)
     IN
     \/ /\ f.op = "sendInLoop"
        /\ \E data \in Found(f.msg) : SendInLoop(data, Tail(queue))
        /\ UNCHANGED <<wrShut, inCallback>>
     \/ /\ f.op = "shutdownInLoop"
        /\ wrShut' = (wrShut \/ MayShutWrite(channel_))
        /\ queue' = Tail(queue)
        /\ UNCHANGED <<outVars, inCallback>>
     \/ /\ f.op \in {"writeCallback_", "highWaterMarkCallback_", "nothing"}
        /\ inCallback' = (f.op # "nothing")
        /\ queue' = Tail(queue)
        /\ UNCHANGED <<outVars, wrShut>>
  /\ UNCHANGED <<state_, peer, revents, call, sent>>

CallbackReturns ==
  /\ inCallback
  /\ inCallback' = FALSE
  /\ UNCHANGED <<state_, outVars, peer, wrShut, revents, queue, call, sent>>
------------------------------------------------------------------------------
(* send() and shutdown(), from a callback in the thread of the loop.       *)

Message(t, len) == [from |-> t, first |-> sent[t] + 1, len |-> len]

Gives(t, len) ==
  /\ sent[t] + len <= MaxBytes
  /\ sent' = [sent EXCEPT ![t] = @ + len]

Send(len) ==
  /\ inCallback
  /\ state_ = "kConnected"
  /\ Gives(Loop, len)
  /\ SendInLoop(BytesOf(Message(Loop, len)), queue)
  /\ UNCHANGED <<state_, peer, wrShut, loopVars, call>>

Shutdown ==
  /\ inCallback
  /\ state_ = "kConnected"
  /\ state_' = "kDisconnecting"
  /\ queue' = Append(queue, Fn("shutdownInLoop"))
  /\ UNCHANGED <<outVars, peer, wrShut, loopVars, call, sent>>

(* The same from another thread: the test of state_, then the change.  A   *)
(* thread may have several sends in the queue.                             *)
SendTest(u, len) ==
  /\ call[u] = NoCall
  /\ state_ = "kConnected"
  /\ Gives(u, len)
  /\ call' = [call EXCEPT ![u] = [at |-> "sendTested", msg |-> Message(u, len)]]
  /\ UNCHANGED <<state_, outVars, peer, wrShut, loopVars, queue>>

(* The functor that is queued last runs first.                             *)
MutSendQueue(u) ==
  /\ call[u].at = "sendTested"
  /\ queue' = <<[op |-> "sendInLoop", msg |-> call[u].msg]>> \o queue
  /\ call' = [call EXCEPT ![u] = NoCall]
  /\ UNCHANGED <<state_, outVars, peer, wrShut, loopVars, sent>>

SendQueue(u) ==
  /\ call[u].at = "sendTested"
  /\ queue' = Append(queue, [op |-> "sendInLoop", msg |-> call[u].msg])
  /\ call' = [call EXCEPT ![u] = NoCall]
  /\ UNCHANGED <<state_, outVars, peer, wrShut, loopVars, sent>>

ShutdownTest(u) ==
  /\ call[u] = NoCall
  /\ state_ = "kConnected"
  /\ call' = [call EXCEPT ![u].at = "shutdownTested"]
  /\ UNCHANGED <<state_, outVars, peer, wrShut, loopVars, queue, sent>>

ShutdownSet(u) ==
  /\ call[u].at = "shutdownTested"
  /\ state_' = "kDisconnecting"
  /\ call' = [call EXCEPT ![u].at = "shutdownSet"]
  /\ UNCHANGED <<outVars, peer, wrShut, loopVars, queue, sent>>

ShutdownQueue(u) ==
  /\ call[u].at = "shutdownSet"
  /\ queue' = Append(queue, Fn("shutdownInLoop"))
  /\ call' = [call EXCEPT ![u] = NoCall]
  /\ UNCHANGED <<state_, outVars, peer, wrShut, loopVars, sent>>

(* The peer closes its end, or resets the connection.                      *)
PeerEnds(how) ==
  /\ peer # "reset" /\ how # peer
  /\ peer' = how
  /\ UNCHANGED <<state_, outVars, wrShut, loopVars, queue, call, sent>>
------------------------------------------------------------------------------
Writes == \E n \in 0..MaxBytes : HandleWrite(n)

Next ==
  \/ \E r \in SUBSET Reported : Poll(r)
  \/ HandleHup \/ HandleRead \/ Writes
  \/ RunFunctor \/ CallbackReturns
  \/ \E len \in 1..MaxLen : Send(len) \/ \E u \in Users : SendTest(u, len)
  \/ Shutdown
  \/ \E u \in Users :
       \/ SendQueue(u)
       \/ ShutdownTest(u) \/ ShutdownSet(u) \/ ShutdownQueue(u)
  \/ \E how \in {"closed", "reset"} : PeerEnds(how)

Spec == Init /\ [][Next]_vars

(* The loop's thread keeps running, callbacks return, and every iteration  *)
(* of loop() runs the functors.  The poller is level triggered: as long as *)
(* the mask has OUT and the peer reads, epoll reports OUT again and write  *)
(* takes some bytes; the end of the stream is reported until it is read.   *)
(* A peer that stays open keeps reading.                                   *)
Fairness ==
  /\ WF_vars(HandleHup \/ Writes \/ CallbackReturns)
  /\ WF_vars(HandleRead)
  /\ SF_vars(HandleRead /\ HandleClose)
  /\ SF_vars(RunFunctor)
  /\ SF_vars(\E r \in SUBSET Reported :
               "OUT" \in r /\ Poll(r))
  /\ SF_vars(\E r \in SUBSET Reported :
               "IN" \in r /\ peer # "open" /\ Poll(r))
  /\ SF_vars(\E n \in 1..MaxBytes : HandleWrite(n))
  /\ \A u \in Users : WF_vars(SendQueue(u) \/ ShutdownSet(u) \/ ShutdownQueue(u))

FairSpec == Spec /\ Fairness
------------------------------------------------------------------------------
(* Types; a connection is in the epoll set until handleClose, and out of   *)
(* it while it is kDisconnected.                                           *)
TypeOK ==
  /\ state_ \in {"kConnected", "kDisconnecting", "kDisconnected"}
  /\ channel_ \in Records
  /\ ~closed => Registered(channel_)
  /\ state_ = "kDisconnected" => closed /\ ~Registered(channel_)
  /\ outputBuffer_ \in Seq(Bytes \cup {Garbage})
  /\ peer \in {"open", "closed", "reset"} /\ wrShut \in BOOLEAN
  /\ revents \subseteq {"IN", "PRI", "OUT", "HUP"} /\ inCallback \in BOOLEAN
  /\ queue \in Seq(Functors)
  /\ call \in [Users -> Calls]
  /\ sent \in [Threads -> 0..MaxBytes]
  /\ wire \in Seq(Bytes \cup {Garbage})
  /\ closed \in BOOLEAN

(* EPOLLOUT is wanted exactly while bytes wait in outputBuffer_, until the *)
(* connection is closed: a wait without it would never end, an empty       *)
(* buffer with it would make the loop spin (sendInLoop, handleWrite).      *)
WritingIffBuffered ==
  Registered(channel_) => (isWriting(channel_) <=> outputBuffer_ # <<>>)

From(s, t) == SelectSeq(s, LAMBDA b : b.from = t)

(* Whatever part of its bytes reach the kernel, they do so in the order in *)
(* which each thread gave them to send(), and none twice, whether they     *)
(* went straight to the socket, through the buffer or through the queue.   *)
WireInOrder ==
  LET b == wire \o outputBuffer_ IN
  \A i, j \in DOMAIN b :
    i < j /\ b[i].from = b[j].from /\ b[j].from \in Threads => b[i].n < b[j].n

(* shutdown() lets what is buffered go out first: after the FIN nothing    *)
(* waits in the buffer of a connection that is not closed, also when a     *)
(* send() of another thread is behind it (shutdownInLoop, handleWrite,     *)
(* sendInLoop).                                                            *)
FinAfterData == wrShut /\ ~closed => outputBuffer_ = <<>>

(* Nothing is left to be written after the FIN: "a connection that had     *)
(* shutdown called before cannot send again", says the comment at the head *)
(* of sendInLoop, whose test lets kDisconnecting pass.                     *)
NoWriteAfterFin ==
  wrShut /\ ~closed => \A i \in DOMAIN queue : queue[i].op # "sendInLoop"

(* Once handleClose has run no byte goes out, also not for an OUT that     *)
(* epoll reported together with the end, and the channel is not put back   *)
(* in the epoll set, where it would be closed a second time.               *)
NothingAfterClose ==
  [][closed => wire' = wire /\ ~Registered(channel_')]_vars

(* The connection implements the abstract stream of bytes: whatever route  *)
(* bytes take, they are one stream the kernel takes from its front, the    *)
(* FIN comes after all that was accepted, and (under FairSpec) what waits  *)
(* in outputBuffer_ goes out or the connection ends.                       *)
BS == INSTANCE ByteStream WITH stream <- wire \o outputBuffer_,
                               taken <- Len(wire),
                               fin <- wrShut,
                               ended <- closed
ImplementsByteStream == BS!Spec

(* With other threads as well, whose send() may be carried out after the   *)
(* shutdown() that came before it in the queue: the stream never grows     *)
(* after the FIN, is taken from its front, and no thread's bytes change    *)
(* their order in it (sendInLoop, shutdownInLoop, handleWrite).            *)
KeepsStream == BS!SafeSpec

(* A shutdown() in the thread of the loop is followed by the FIN, also if  *)
(* the buffer is not empty when shutdownInLoop runs, or by the end.        *)
ShutdownEnds == state_ = "kDisconnecting" ~> (wrShut \/ peer # "open")

(* A connection whose peer ends is closed.                                 *)
EndCloses == peer # "open" ~> state_ = "kDisconnected"

(* Of what the loop's thread gave to send(), all that the kernel did not   *)
(* take is kept in outputBuffer_, as long as the connection is good.       *)
RemainderKept ==
  state_ = "kConnected" /\ peer # "reset"
    => Len(From(wire \o outputBuffer_, Loop)) = sent[Loop]

(* Every byte on the wire was in a string given to send(), also when it    *)
(* comes from another thread, whose functor keeps the string's address.    *)
OnlySentBytes == \A i \in DOMAIN wire : wire[i] # Garbage

(* When the buffer has gone out, writeCallback_ is called.                 *)
WriteCompleteTold ==
  [][outputBuffer_ # <<>> /\ outputBuffer_' = <<>>
       => \E i \in DOMAIN queue' : queue'[i] = Fn("writeCallback_")]_vars
==============================================================================
