------------------------- MODULE TcpConnection_proofs -------------------------
(***************************************************************************)
(* Proofs about the output path of a TcpConnection, for any number of user *)
(* threads, messages and marks.  What a racing shutdown() of another       *)
(* thread breaks is proved under the assumption that there is none.        *)
(***************************************************************************)
EXTENDS TcpConnection, QueueLemmas, SequenceTheorems, TLAPS

(* The channel is read from until handleClose and never after it; out of   *)
(* the epoll set it has an empty mask, so that being put back starts from  *)
(* nothing.                                                                *)
ChannelUsed ==
  /\ ~closed => kReadEvent \subseteq channel_.events
  /\ closed => channel_.events \cap kReadEvent = {}
  /\ ~Registered(channel_) => channel_.events = {}

(* A report is only being handled of a registered channel, until one of    *)
(* its callbacks closes the connection; HUP comes without IN only for a    *)
(* closed one that sendInLoop has put back.                                *)
ReportFits ==
  /\ revents \cap {"IN", "PRI", "HUP"} # {} => Registered(channel_)
  /\ "HUP" \in revents /\ "IN" \notin revents
       => closed /\ revents \cap kReadEvent = {}

IInv ==
  TypeOK /\ ChannelUsed /\ ReportFits /\ WritingIffBuffered /\ FinAfterData

(* With sends and shutdowns in the loop's thread only, state_ says when    *)
(* the FIN may go out and when the connection is over.                     *)
Fits(f, state) ==
  /\ f.op # "sendInLoop"
  /\ f.op = "shutdownInLoop" => state # "kConnected"

AllFit(q, state) == \A i \in DOMAIN q : Fits(q[i], state)

StateTold ==
  /\ closed => state_ = "kDisconnected"
  /\ wrShut => state_ # "kConnected"
  /\ AllFit(queue, state_)

Any == Bytes \cup {Garbage}
------------------------------------------------------------------------------
(* The channel's operations, on a channel the poller knows.                *)
LEMMA EnableWriting ==
  ASSUME NEW ch \in Records
  PROVE  LET e == enableWriting(ch) IN
         /\ e \in Records /\ Registered(e) /\ isWriting(e)
         /\ ch.events \subseteq e.events
         /\ e.events \cap kReadEvent = ch.events \cap kReadEvent
BY DEF enableWriting, WithEvents, Updated, Registered, isWriting, isNoneEvent,
       Records, Indexes, Masks, kReadEvent, kWriteEvent

LEMMA DisableWriting ==
  ASSUME NEW ch \in Records, Registered(ch)
  PROVE  LET e == disableWriting(ch) IN
         /\ e \in Records /\ ~isWriting(e)
         /\ e.events = ch.events \ kWriteEvent
         /\ Registered(e) <=> e.events # {}
BY DEF disableWriting, WithEvents, Updated, Registered, isWriting, isNoneEvent,
       Records, Indexes, Masks, kReadEvent, kWriteEvent

LEMMA DisableAll ==
  ASSUME NEW ch \in Records, Registered(ch)
  PROVE  LET e == disableAll(ch) IN
         e \in Records /\ ~Registered(e) /\ e.events = {}
BY DEF disableAll, WithEvents, Updated, Registered, isNoneEvent,
       Records, Indexes, Masks, kReadEvent, kWriteEvent

LEMMA EnableReading ==
  /\ enableReading(NewChannel) \in Records
  /\ Registered(enableReading(NewChannel))
  /\ ~isWriting(enableReading(NewChannel))
  /\ kReadEvent \subseteq enableReading(NewChannel).events
BY DEF enableReading, WithEvents, Updated, Registered, isWriting, isNoneEvent,
       Records, Indexes, Masks, kReadEvent, kWriteEvent, NewChannel

(* The part a write took, and the part it left.                            *)
LEMMA Parts ==
  ASSUME NEW S, NEW s \in Seq(S), NEW n \in 0..Len(s)
  PROVE  /\ SubSeq(s, 1, n) \in Seq(S)
         /\ SubSeq(s, n + 1, Len(s)) \in Seq(S)
         /\ Len(SubSeq(s, n + 1, Len(s))) = Len(s) - n
<1>1. Len(s) \in Nat /\ \A i \in 1..Len(s) : s[i] \in S
  OBVIOUS
<1>2. \A i \in 1..n : s[i] \in S
  BY <1>1
<1>3. \A i \in (n + 1)..Len(s) : s[i] \in S
  BY <1>1
<1>4. SubSeq(s, 1, n) \in Seq(S)
  BY <1>1, <1>2, SubSeqProperties
<1>5. /\ SubSeq(s, n + 1, Len(s)) \in Seq(S)
      /\ Len(SubSeq(s, n + 1, Len(s))) = Len(s) - n
  <2>1. /\ SubSeq(s, n + 1, Len(s)) \in Seq(S)
        /\ Len(SubSeq(s, n + 1, Len(s))) =
             IF n + 1 <= Len(s) THEN Len(s) - (n + 1) + 1 ELSE 0
    BY <1>1, <1>3, SubSeqProperties
  <2> QED
    BY <1>1, <2>1
<1> QED
  BY <1>4, <1>5

(* What the types say.                                                     *)
LEMMA Types ==
  ASSUME TypeOK
  PROVE  /\ channel_ \in Records /\ outputBuffer_ \in Seq(Any)
         /\ queue \in Seq(Functors) /\ wire \in Seq(Any)
         /\ closed \in BOOLEAN /\ wrShut \in BOOLEAN
         /\ Len(outputBuffer_) \in Nat
         /\ outputBuffer_ = <<>> <=> Len(outputBuffer_) = 0
BY DEF TypeOK, Any

(* Messages are made of bytes.                                             *)
LEMMA MessageBytes ==
  ASSUME NEW m \in Msgs
  PROVE  /\ BytesOf(m) \in Seq(Any)
         /\ [i \in 1..m.len |-> Garbage] \in Seq(Any)
<1>1. /\ m.from \in Threads /\ m.first \in Nat /\ m.len \in Nat /\ 1 <= m.first
      /\ m.first + m.len <= MaxBytes + 1 /\ MaxBytes \in Nat
  BY ConnectionAssumption DEF Msgs
<1>2. \A i \in 1..m.len : m.first + i - 1 \in 1..MaxBytes
  BY <1>1
<1>3. \A i \in 1..m.len : [from |-> m.from, n |-> m.first + i - 1] \in Any
  BY <1>1, <1>2 DEF Any, Bytes
<1>4. BytesOf(m) \in Seq(Any)
  BY <1>1, <1>3, IsASeq DEF BytesOf
<1>5. [i \in 1..m.len |-> Garbage] \in Seq(Any)
  BY <1>1, IsASeq DEF Any
<1> QED
  BY <1>4, <1>5

LEMMA FunctorTypes ==
  /\ Fn("shutdownInLoop") \in Functors /\ Fn("writeCallback_") \in Functors
  /\ Fn("highWaterMarkCallback_") \in Functors /\ Fn("nothing") \in Functors
  /\ \A m \in Msgs : [op |-> "sendInLoop", msg |-> m] \in Functors
BY DEF Fn, Functors
------------------------------------------------------------------------------
(* What sendInLoop does to the channel and the buffer.                     *)
LEMMA SendKeeps ==
  ASSUME IInv, NEW data \in Seq(Any), NEW rest \in Seq(Functors),
         SendInLoop(data, rest)
  PROVE  /\ channel_' \in Records /\ outputBuffer_' \in Seq(Any)
         /\ queue' \in Seq(Functors) /\ wire' \in Seq(Any)
         /\ closed' = closed
         /\ channel_.events \subseteq channel_'.events
         /\ channel_'.events \cap kReadEvent = channel_.events \cap kReadEvent
         /\ Registered(channel_) => Registered(channel_')
         /\ ~Registered(channel_') => channel_'.events = {}
         /\ WritingIffBuffered'
         /\ state_ = "kDisconnected" => channel_' = channel_
         /\ wrShut /\ ~closed => outputBuffer_' = <<>>
<1>1. /\ TypeOK /\ WritingIffBuffered /\ FinAfterData /\ ChannelUsed
      /\ channel_ \in Records /\ outputBuffer_ \in Seq(Any)
      /\ wire \in Seq(Any) /\ closed \in BOOLEAN
      /\ wrShut \in BOOLEAN
  BY Types DEF IInv
<1>2. CASE state_ = "kDisconnected"
  <2>1. queue' = rest /\ UNCHANGED outVars
    BY <1>2 DEF SendInLoop
  <2>2. /\ channel_' = channel_ /\ outputBuffer_' = outputBuffer_ /\ wire' = wire
        /\ closed' = closed
    BY <2>1 DEF outVars
  <2> QED
    BY <1>1, <2>1, <2>2 DEF WritingIffBuffered, FinAfterData, ChannelUsed
<1>3. CASE state_ # "kDisconnected"
  <2> DEFINE Keeps(n) == /\ ~Fault /\ Len(data) - n > 0
                         /\ CrossesMark(Len(data) - n)
             F1(n) == IF Len(data) - n = 0 /\ "writeCallback_" \in Callbacks
                      THEN <<Fn("writeCallback_")>> ELSE <<>>
             F2(n) == IF Keeps(n) THEN <<Fn("highWaterMarkCallback_")>> ELSE <<>>
  <2>1. PICK n \in IF Direct THEN Written(data) ELSE {0} :
          /\ wire' = wire \o SubSeq(data, 1, n)
          /\ queue' = rest \o F1(n) \o F2(n)
          /\ outputBuffer_' = IF Keeps(n)
                              THEN outputBuffer_ \o SubSeq(data, n + 1, Len(data))
                              ELSE outputBuffer_
          /\ channel_' = IF Keeps(n) /\ ~isWriting(channel_)
                         THEN enableWriting(channel_) ELSE channel_
          /\ closed' = closed
    BY <1>3 DEF SendInLoop
  <2>2. Len(data) \in Nat /\ n \in 0..Len(data)
    BY DEF Written
  <2>3. /\ SubSeq(data, 1, n) \in Seq(Any)
        /\ SubSeq(data, n + 1, Len(data)) \in Seq(Any)
        /\ Len(SubSeq(data, n + 1, Len(data))) = Len(data) - n
    BY <2>2, Parts
  <2>4. wire' \in Seq(Any)
    BY <1>1, <2>1, <2>3, ConcatProperties
  <2>6. F1(n) \in Seq(Functors) /\ F2(n) \in Seq(Functors)
    BY FunctorTypes
  <2> HIDE DEF F1, F2
  <2>7. queue' \in Seq(Functors)
    <3>1. rest \o F1(n) \in Seq(Functors)
      BY <2>6, ConcatProperties
    <3> QED
      BY <2>1, <2>6, <3>1, ConcatProperties
  <2>8. CASE Keeps(n)
    <3> DEFINE more == SubSeq(data, n + 1, Len(data))
    <3>1. Len(data) - n > 0 /\ ~Fault
      BY <2>8
    <3> HIDE DEF Keeps
    <3>2. more \in Seq(Any) /\ Len(more) > 0
      BY <2>3, <3>1
    <3> HIDE DEF more
    <3>3. outputBuffer_' = outputBuffer_ \o more
      BY <2>1, <2>8 DEF more
    <3>4. outputBuffer_' \in Seq(Any) /\ outputBuffer_' # <<>>
      BY <1>1, <3>2, <3>3
    <3>5. channel_' = IF isWriting(channel_) THEN channel_ ELSE enableWriting(channel_)
      BY <2>1, <2>8
    <3>6. /\ channel_' \in Records /\ isWriting(channel_')
          /\ channel_.events \subseteq channel_'.events
          /\ channel_'.events \cap kReadEvent = channel_.events \cap kReadEvent
          /\ Registered(channel_')
      <4>1. isWriting(channel_) => Registered(channel_)
        BY <1>1 DEF ChannelUsed, isWriting
      <4> QED
        BY <1>1, <3>5, <4>1, EnableWriting
    <3>7. ~(wrShut /\ ~closed)
      <4> SUFFICES ASSUME wrShut, ~closed PROVE FALSE
        OBVIOUS
      <4>1. Registered(channel_) /\ outputBuffer_ = <<>>
        BY <1>1 DEF TypeOK, FinAfterData
      <4>2. Fault
        BY <1>1, <4>1 DEF WritingIffBuffered, Direct, CanWrite, Fault
      <4> QED
        BY <3>1, <4>2
    <3>8. WritingIffBuffered'
      BY <3>4, <3>6 DEF WritingIffBuffered
    <3> QED
      BY <1>3, <2>1, <2>4, <2>7, <3>4, <3>6, <3>7, <3>8
  <2>9. CASE ~Keeps(n)
    <3> HIDE DEF Keeps
    <3>1. channel_' = channel_ /\ outputBuffer_' = outputBuffer_
      BY <2>1, <2>9
    <3> QED
      BY <1>1, <2>1, <2>4, <2>7, <3>1
         DEF WritingIffBuffered, FinAfterData, ChannelUsed
  <2> QED
    BY <2>8, <2>9
<1> QED
  BY <1>2, <1>3
------------------------------------------------------------------------------
(* The events of one report.                                               *)

LEMMA PollStep ==
  ASSUME IInv, NEW r \in SUBSET Reported, Poll(r)
  PROVE  IInv'
<1>1. /\ r # {} /\ r \subseteq Reportable(channel_) /\ revents' = r \ {"ERR"}
      /\ "HUP" \in r /\ "IN" \in channel_.events => "IN" \in r
      /\ UNCHANGED <<state_, outVars, peer, wrShut, inCallback, queue, call, sent>>
  BY DEF Poll, Reports
<1>2. Registered(channel_)
  BY <1>1 DEF Reportable
<1>3. revents' \subseteq {"IN", "PRI", "OUT", "HUP"}
  BY <1>1 DEF Reported, kReadEvent, kWriteEvent
<1>4. TypeOK'
  BY <1>1, <1>3 DEF IInv, TypeOK, outVars
<1>5. ReportFits'
  <2>1. r \subseteq channel_.events \cup {"ERR", "HUP"} /\ channel_' = channel_
        /\ closed' = closed
    BY <1>1, <1>2 DEF Reportable, outVars
  <2>2. CASE closed
    <3>1. revents' \cap kReadEvent = {}
      BY <1>1, <2>1, <2>2 DEF IInv, ChannelUsed, kReadEvent
    <3> QED
      BY <1>2, <2>1, <2>2, <3>1 DEF ReportFits
  <2>3. CASE ~closed
    <3>1. "HUP" \in revents' => "IN" \in revents'
      BY <1>1, <2>3 DEF IInv, ChannelUsed, kReadEvent
    <3> QED
      BY <1>2, <2>1, <3>1 DEF ReportFits
  <2> QED
    BY <2>2, <2>3
<1> QED
  BY <1>1, <1>4, <1>5
     DEF IInv, ChannelUsed, WritingIffBuffered, FinAfterData, outVars

(* handleClose, with no event left that it would have to answer.           *)
LEMMA CloseStep ==
  ASSUME IInv, Registered(channel_), HandleClose,
         revents' \subseteq revents, revents' \cap {"IN", "PRI", "HUP"} = {},
         UNCHANGED <<peer, call, sent>>
  PROVE  IInv'
<1>1. /\ state_' = "kDisconnected" /\ channel_' = disableAll(channel_)
      /\ closed' = TRUE
      /\ UNCHANGED <<outputBuffer_, wire, wrShut, inCallback, queue>>
  BY DEF HandleClose
<1>2. channel_ \in Records
  BY DEF IInv, TypeOK
<1>3. channel_' \in Records /\ ~Registered(channel_') /\ channel_'.events = {}
  BY <1>1, <1>2, DisableAll
<1>4. TypeOK'
  BY <1>1, <1>3 DEF IInv, TypeOK
<1> QED
  BY <1>1, <1>3, <1>4
     DEF IInv, ChannelUsed, ReportFits, WritingIffBuffered, FinAfterData

LEMMA HandleHupStep == IInv /\ HandleHup => IInv'
<1> SUFFICES ASSUME IInv, HandleHup PROVE IInv'
  OBVIOUS
<1>1. /\ "HUP" \in revents /\ revents' = revents \ {"HUP"}
      /\ UNCHANGED <<peer, call, sent>>
  BY DEF HandleHup, AtEvent
<1>2. CASE ~CallsClose(revents)
  <2>1. UNCHANGED <<state_, outVars, wrShut, inCallback, queue>>
    BY <1>2 DEF HandleHup
  <2>2. TypeOK'
    BY <1>1, <2>1 DEF IInv, TypeOK, outVars
  <2> QED
    BY <1>1, <2>1, <2>2
       DEF IInv, ChannelUsed, ReportFits, WritingIffBuffered, FinAfterData, outVars
<1>3. CASE CallsClose(revents)
  <2>1. HandleClose
    BY <1>3 DEF HandleHup
  <2>2. Registered(channel_) /\ revents \cap kReadEvent = {}
    BY <1>1, <1>3 DEF IInv, ReportFits, CallsClose
  <2>3. revents' \subseteq revents /\ revents' \cap {"IN", "PRI", "HUP"} = {}
    BY <1>1, <2>2 DEF kReadEvent
  <2> QED
    BY <1>1, <2>1, <2>2, <2>3, CloseStep
<1> QED
  BY <1>2, <1>3

LEMMA HandleReadStep == IInv /\ HandleRead => IInv'
<1> SUFFICES ASSUME IInv, HandleRead PROVE IInv'
  OBVIOUS
<1>1. /\ revents \cap kReadEvent # {} /\ "HUP" \notin revents
      /\ revents' = revents \ kReadEvent
      /\ UNCHANGED <<peer, call, sent>>
  BY DEF HandleRead, AtEvent
<1>2. CASE /\ UNCHANGED <<state_, outVars, wrShut, queue>>
           /\ inCallback' = TRUE \/ inCallback' = inCallback
  <2>1. TypeOK'
    BY <1>1, <1>2 DEF IInv, TypeOK, outVars
  <2> QED
    BY <1>1, <1>2, <2>1
       DEF IInv, ChannelUsed, ReportFits, WritingIffBuffered, FinAfterData, outVars
<1>3. CASE HandleClose
  <2>1. Registered(channel_)
    BY <1>1 DEF IInv, ReportFits, kReadEvent
  <2>2. revents' \subseteq revents /\ revents' \cap {"IN", "PRI", "HUP"} = {}
    BY <1>1 DEF kReadEvent
  <2> QED
    BY <1>1, <1>3, <2>1, <2>2, CloseStep
<1> QED
  BY <1>2, <1>3 DEF HandleRead

(* A write gives up EPOLLOUT with the last byte, and only then may the FIN *)
(* go out.                                                                 *)
LEMMA HandleWriteStep ==
  ASSUME IInv, NEW n \in 0..MaxBytes, HandleWrite(n)
  PROVE  IInv'
<1>1. /\ revents' = {} /\ UNCHANGED <<state_, peer, inCallback, call, sent>>
  BY DEF HandleWrite, AtWrite
<1>2. CASE ~isWriting(channel_)
  <2>1. UNCHANGED <<outVars, wrShut, queue>>
    BY <1>2 DEF HandleWrite
  <2>2. TypeOK'
    BY <1>1, <2>1 DEF IInv, TypeOK, outVars
  <2> QED
    BY <1>1, <2>1, <2>2
       DEF IInv, ChannelUsed, ReportFits, WritingIffBuffered, FinAfterData, outVars
<1>3. CASE isWriting(channel_)
  <2> DEFINE left == SubSeq(outputBuffer_, n + 1, Len(outputBuffer_))
             part == SubSeq(outputBuffer_, 1, n)
  <2>1. /\ n \in Written(outputBuffer_)
        /\ outputBuffer_' = left /\ wire' = wire \o part
        /\ closed' = closed
        /\ n > 0 => channel_' = AfterWrite(left) /\ Drained(left)
        /\ ~(n > 0) => UNCHANGED <<channel_, queue, wrShut>>
    BY <1>3 DEF HandleWrite, WriteOut
  <2>2. /\ channel_ \in Records /\ outputBuffer_ \in Seq(Any) /\ wire \in Seq(Any)
        /\ queue \in Seq(Functors) /\ wrShut \in BOOLEAN
        /\ closed \in BOOLEAN /\ Len(outputBuffer_) \in Nat
    BY Types DEF IInv
  <2>3. Registered(channel_) /\ outputBuffer_ # <<>>
    BY <1>3 DEF IInv, ChannelUsed, isWriting, WritingIffBuffered
  <2>4. n \in 0..Len(outputBuffer_)
    BY <2>1, <2>2 DEF Written
  <2>5. /\ left \in Seq(Any) /\ part \in Seq(Any)
        /\ Len(left) = Len(outputBuffer_) - n
    BY <2>2, <2>4, Parts
  <2> HIDE DEF left, part
  <2>6. wire' \in Seq(Any)
    BY <2>1, <2>2, <2>5, ConcatProperties
  <2>7. closed \/ ~wrShut
    BY <2>2, <2>3 DEF IInv, FinAfterData
  <2>8. state_ # "kDisconnected"
    BY <2>3 DEF IInv, TypeOK
  <2>9. CASE n > 0
    <3>1. /\ channel_' = AfterWrite(left)
          /\ queue' = IF left = <<>> /\ "writeCallback_" \in Callbacks
                      THEN Append(queue, Fn("nothing")) ELSE queue
          /\ wrShut' = (wrShut \/ (/\ left = <<>> /\ state_ = "kDisconnecting"
                                   /\ MayShutWrite(AfterWrite(left))))
      BY <2>1, <2>9 DEF Drained
    <3>2. queue' \in Seq(Functors) /\ wrShut' \in BOOLEAN
      BY <2>2, <3>1, FunctorTypes
    <3>3. /\ channel_' \in Records
          /\ ~closed => kReadEvent \subseteq channel_'.events /\ Registered(channel_')
          /\ closed => channel_'.events \cap kReadEvent = {}
          /\ ~Registered(channel_') => channel_'.events = {}
          /\ isWriting(channel_') <=> left # <<>>
      <4>1. CASE left = <<>>
        <5>1. channel_' = disableWriting(channel_)
          BY <3>1, <4>1 DEF AfterWrite
        <5>2. /\ ~closed => kReadEvent \subseteq channel_.events
              /\ closed => channel_.events \cap kReadEvent = {}
          BY DEF IInv, ChannelUsed
        <5>3. /\ channel_' \in Records /\ ~isWriting(channel_')
              /\ channel_'.events = channel_.events \ kWriteEvent
              /\ Registered(channel_') <=> channel_'.events # {}
          BY <2>2, <2>3, <5>1, DisableWriting
        <5> QED
          BY <4>1, <5>2, <5>3 DEF kReadEvent, kWriteEvent
      <4>2. CASE left # <<>>
        <5>1. channel_' = channel_
          BY <3>1, <4>2 DEF AfterWrite
        <5> QED
          BY <1>3, <2>2, <2>3, <4>2, <5>1 DEF IInv, ChannelUsed
      <4> QED
        BY <4>1, <4>2
    <3>4. WritingIffBuffered' /\ FinAfterData'
      BY <2>1, <2>7, <3>1, <3>3 DEF WritingIffBuffered, FinAfterData
    <3>5. TypeOK'
      BY <1>1, <2>1, <2>2, <2>5, <2>6, <2>8, <3>2, <3>3
         DEF IInv, TypeOK, Any
    <3> QED
      BY <1>1, <2>1, <3>3, <3>4, <3>5 DEF IInv, ChannelUsed, ReportFits
  <2>10. CASE ~(n > 0)
    <3>1. channel_' = channel_ /\ queue' = queue /\ wrShut' = wrShut
      BY <2>1, <2>10
    <3>2. Len(left) = Len(outputBuffer_) /\ outputBuffer_' # <<>>
      BY <2>1, <2>2, <2>3, <2>4, <2>5, <2>10
    <3>3. WritingIffBuffered' /\ FinAfterData'
      BY <1>3, <2>1, <2>7, <3>1, <3>2 DEF WritingIffBuffered, FinAfterData
    <3>4. TypeOK'
      BY <1>1, <2>1, <2>2, <2>5, <2>6, <3>1 DEF IInv, TypeOK, Any
    <3> QED
      BY <1>1, <2>1, <3>1, <3>3, <3>4 DEF IInv, ChannelUsed, ReportFits
  <2> QED
    BY <2>9, <2>10
<1> QED
  BY <1>2, <1>3
------------------------------------------------------------------------------
(* Functors, callbacks and the other threads.                              *)

(* What is left to show of a step that runs sendInLoop.                    *)
LEMMA SendStep ==
  ASSUME IInv, NEW data \in Seq(Any), NEW rest \in Seq(Functors),
         SendInLoop(data, rest), sent' \in [Threads -> 0..MaxBytes],
         UNCHANGED <<state_, peer, wrShut, loopVars, call>>
  PROVE  IInv'
<1>1. /\ channel_' \in Records /\ outputBuffer_' \in Seq(Any)
      /\ queue' \in Seq(Functors) /\ wire' \in Seq(Any)
      /\ closed' = closed
      /\ channel_.events \subseteq channel_'.events
      /\ channel_'.events \cap kReadEvent = channel_.events \cap kReadEvent
      /\ Registered(channel_) => Registered(channel_')
      /\ ~Registered(channel_') => channel_'.events = {}
      /\ WritingIffBuffered'
      /\ state_ = "kDisconnected" => channel_' = channel_
      /\ wrShut /\ ~closed => outputBuffer_' = <<>>
  BY SendKeeps
<1>2. TypeOK'
  BY <1>1 DEF IInv, TypeOK, Any, loopVars
<1> QED
  BY <1>1, <1>2 DEF IInv, ChannelUsed, ReportFits, FinAfterData, loopVars

LEMMA RunFunctorStep == IInv /\ RunFunctor => IInv'
<1> SUFFICES ASSUME IInv, RunFunctor PROVE IInv'
  OBVIOUS
<1> DEFINE f == Head(queue)
<1>1. /\ queue # <<>> /\ queue \in Seq(Functors)
      /\ UNCHANGED <<state_, peer, revents, call, sent>>
  BY Types DEF RunFunctor, IInv
<1>2. f \in Functors /\ Tail(queue) \in Seq(Functors)
  BY <1>1
<1>3. CASE /\ f.op = "sendInLoop"
           /\ \E data \in Found(f.msg) : SendInLoop(data, Tail(queue))
           /\ UNCHANGED <<wrShut, inCallback>>
  <2>1. f.msg \in Msgs
    BY <1>2, <1>3 DEF Functors
  <2>2. PICK data \in Found(f.msg) : SendInLoop(data, Tail(queue))
    BY <1>3
  <2>3. data \in Seq(Any)
    BY <2>1, MessageBytes DEF Found
  <2>4. sent' \in [Threads -> 0..MaxBytes]
    BY <1>1 DEF IInv, TypeOK
  <2>5. UNCHANGED <<state_, peer, wrShut, loopVars, call>>
    BY <1>1, <1>3 DEF loopVars
  <2> QED
    BY <1>2, <2>2, <2>3, <2>4, <2>5, SendStep
<1>4. CASE /\ f.op = "shutdownInLoop"
           /\ wrShut' = (wrShut \/ MayShutWrite(channel_))
           /\ queue' = Tail(queue)
           /\ UNCHANGED <<outVars, inCallback>>
  <2>1. wrShut' \in BOOLEAN
    BY <1>4 DEF IInv, TypeOK
  <2>2. TypeOK'
    BY <1>1, <1>2, <1>4, <2>1 DEF IInv, TypeOK, outVars
  <2>3. FinAfterData'
    BY <1>4 DEF IInv, TypeOK, FinAfterData, WritingIffBuffered, MayShutWrite, outVars
  <2> QED
    BY <1>1, <1>4, <2>2, <2>3
       DEF IInv, ChannelUsed, ReportFits, WritingIffBuffered, outVars
<1>5. CASE /\ inCallback' = (f.op # "nothing") /\ queue' = Tail(queue)
           /\ UNCHANGED <<outVars, wrShut>>
  <2>1. inCallback' \in BOOLEAN
    BY <1>5
  <2>2. TypeOK'
    BY <1>1, <1>2, <1>5, <2>1 DEF IInv, TypeOK, outVars
  <2> QED
    BY <1>1, <1>5, <2>2
       DEF IInv, ChannelUsed, ReportFits, WritingIffBuffered, FinAfterData, outVars
<1> QED
  BY <1>3, <1>4, <1>5 DEF RunFunctor

LEMMA Messages ==
  ASSUME TypeOK, NEW t \in Threads, NEW len \in 1..MaxLen, Gives(t, len)
  PROVE  /\ Message(t, len) \in Msgs
         /\ sent' \in [Threads -> 0..MaxBytes]
<1>1. /\ sent \in [Threads -> 0..MaxBytes] /\ sent[t] + len <= MaxBytes
      /\ sent' = [sent EXCEPT ![t] = sent[t] + len]
      /\ MaxBytes \in Nat /\ MaxLen \in Nat /\ sent[t] \in Nat
  BY ConnectionAssumption DEF TypeOK, Gives
<1>2. sent[t] + 1 \in 1..MaxBytes /\ sent[t] + len \in 0..MaxBytes
  BY <1>1
<1>3. sent' \in [Threads -> 0..MaxBytes]
  BY <1>1, <1>2
<1>4. sent[t] + 1 + len <= MaxBytes + 1
  BY <1>1
<1>5. Message(t, len) \in [from : Threads, first : 1..MaxBytes, len : 1..MaxLen]
  BY <1>2 DEF Message
<1>6. Message(t, len).first = sent[t] + 1 /\ Message(t, len).len = len
  BY DEF Message
<1> QED
  BY <1>3, <1>4, <1>5, <1>6 DEF Msgs

LEMMA InCallbackStep ==
  ASSUME IInv, CallbackReturns \/ Shutdown \/ \E len \in 1..MaxLen : Send(len)
  PROVE  IInv'
<1>1. CASE CallbackReturns
  <2>1. TypeOK'
    BY <1>1 DEF CallbackReturns, IInv, TypeOK, outVars
  <2> QED
    BY <1>1, <2>1 DEF CallbackReturns, IInv, ChannelUsed, ReportFits,
                      WritingIffBuffered, FinAfterData, outVars
<1>2. CASE Shutdown
  <2>1. /\ state_' = "kDisconnecting"
        /\ queue' = Append(queue, Fn("shutdownInLoop"))
        /\ UNCHANGED <<outVars, peer, wrShut, loopVars, call, sent>>
    BY <1>2 DEF Shutdown
  <2>2. queue' \in Seq(Functors)
    BY <2>1, Types, FunctorTypes DEF IInv
  <2>3. TypeOK'
    BY <2>1, <2>2 DEF IInv, TypeOK, outVars, loopVars
  <2> QED
    BY <2>1, <2>3 DEF IInv, ChannelUsed, ReportFits, WritingIffBuffered,
                      FinAfterData, outVars, loopVars
<1>3. ASSUME NEW len \in 1..MaxLen, Send(len) PROVE IInv'
  <2>1. /\ Gives(Loop, len) /\ SendInLoop(BytesOf(Message(Loop, len)), queue)
        /\ UNCHANGED <<state_, peer, wrShut, loopVars, call>>
    BY <1>3 DEF Send
  <2>2. Message(Loop, len) \in Msgs /\ sent' \in [Threads -> 0..MaxBytes]
    BY <2>1, Messages DEF IInv, Threads
  <2>3. BytesOf(Message(Loop, len)) \in Seq(Any) /\ queue \in Seq(Functors)
    BY <2>2, MessageBytes, Types DEF IInv
  <2> QED
    BY <2>1, <2>2, <2>3, SendStep
<1> QED
  BY <1>1, <1>2, <1>3

LEMMA UserStep ==
  ASSUME IInv, NEW u \in Users,
         \/ \E len \in 1..MaxLen : SendTest(u, len)
         \/ SendQueue(u)
         \/ ShutdownTest(u) \/ ShutdownSet(u) \/ ShutdownQueue(u)
  PROVE  IInv'
<1>0. /\ UNCHANGED <<outVars, peer, wrShut, loopVars>>
      /\ state_' = state_ \/ state_' = "kDisconnecting"
  BY DEF SendTest, SendQueue, ShutdownTest, ShutdownSet, ShutdownQueue
<1>1. /\ queue \in Seq(Functors) /\ call \in [Users -> Calls]
      /\ sent \in [Threads -> 0..MaxBytes]
  BY DEF IInv, TypeOK
<1>2. ASSUME NEW len \in 1..MaxLen, SendTest(u, len)
      PROVE  /\ queue' = queue /\ call' \in [Users -> Calls]
             /\ sent' \in [Threads -> 0..MaxBytes]
  <2>1. Message(u, len) \in Msgs /\ sent' \in [Threads -> 0..MaxBytes]
    BY <1>2, Messages DEF IInv, SendTest, Threads
  <2>2. [at |-> "sendTested", msg |-> Message(u, len)] \in Calls
    BY <2>1 DEF Calls
  <2> QED
    BY <1>1, <1>2, <2>1, <2>2 DEF SendTest
<1>3. ASSUME SendQueue(u)
      PROVE  /\ queue' \in Seq(Functors) /\ call' \in [Users -> Calls]
             /\ sent' = sent
  <2>1. call[u].msg \in Msgs
    BY <1>1, <1>3 DEF SendQueue, Calls
  <2>2. [op |-> "sendInLoop", msg |-> call[u].msg] \in Functors /\ NoCall \in Calls
    BY <2>1, FunctorTypes DEF NoCall, Calls
  <2> QED
    BY <1>1, <1>3, <2>2 DEF SendQueue
<1>5. ASSUME ShutdownTest(u)
      PROVE  /\ queue' = queue /\ call' \in [Users -> Calls]
             /\ sent' = sent
  <2>1. [call[u] EXCEPT !.at = "shutdownTested"] \in Calls
    BY <1>5 DEF ShutdownTest, NoCall, Calls
  <2> QED
    BY <1>1, <1>5, <2>1 DEF ShutdownTest
<1>6. ASSUME ShutdownSet(u)
      PROVE  /\ queue' = queue /\ call' \in [Users -> Calls]
             /\ sent' = sent
  <2>1. [call[u] EXCEPT !.at = "shutdownSet"] \in Calls
    BY <1>1, <1>6 DEF ShutdownSet, Calls
  <2> QED
    BY <1>1, <1>6, <2>1 DEF ShutdownSet
<1>7. ASSUME ShutdownQueue(u)
      PROVE  /\ queue' \in Seq(Functors) /\ call' \in [Users -> Calls]
             /\ sent' = sent
  BY <1>1, <1>7, FunctorTypes DEF ShutdownQueue, NoCall, Calls
<1>8. /\ queue' \in Seq(Functors) /\ call' \in [Users -> Calls]
      /\ sent' \in [Threads -> 0..MaxBytes]
  BY <1>1, <1>2, <1>3, <1>5, <1>6, <1>7
<1>9. TypeOK'
  BY <1>0, <1>8 DEF IInv, TypeOK, outVars, loopVars
<1> QED
  BY <1>0, <1>9 DEF IInv, ChannelUsed, ReportFits, WritingIffBuffered,
                    FinAfterData, outVars, loopVars
------------------------------------------------------------------------------
LEMMA IInvInit == Init => IInv
<1> SUFFICES ASSUME Init PROVE IInv
  OBVIOUS
<1>1. /\ channel_ \in Records /\ Registered(channel_) /\ ~isWriting(channel_)
      /\ kReadEvent \subseteq channel_.events
  BY EnableReading DEF Init
<1>2. /\ outputBuffer_ = <<>> /\ queue = <<>> /\ wire = <<>> /\ revents = {}
      /\ wrShut = FALSE /\ inCallback = FALSE /\ closed = FALSE
      /\ state_ = "kConnected" /\ peer = "open"
  BY DEF Init
<1>3. /\ outputBuffer_ \in Seq(Bytes \cup {Garbage}) /\ queue \in Seq(Functors)
      /\ wire \in Seq(Bytes \cup {Garbage})
  BY <1>2
<1>4. /\ call \in [Users -> Calls]
      /\ sent \in [Threads -> 0..MaxBytes]
  BY ConnectionAssumption DEF Init, NoCall, Calls
<1>5. TypeOK
  BY <1>1, <1>2, <1>3, <1>4 DEF TypeOK
<1> QED
  BY <1>1, <1>2, <1>5
     DEF IInv, ChannelUsed, ReportFits, WritingIffBuffered, FinAfterData

LEMMA IInvNext == IInv /\ [Next]_vars => IInv'
<1> SUFFICES ASSUME IInv, [Next]_vars PROVE IInv'
  OBVIOUS
<1>1. ASSUME NEW how \in {"closed", "reset"}, PeerEnds(how) PROVE IInv'
  <2>1. TypeOK'
    BY <1>1 DEF PeerEnds, IInv, TypeOK, outVars, loopVars
  <2> QED
    BY <1>1, <2>1 DEF PeerEnds, IInv, ChannelUsed, ReportFits,
                      WritingIffBuffered, FinAfterData, outVars, loopVars
<1>2. CASE UNCHANGED vars
  <2>1. TypeOK'
    BY <1>2 DEF vars, IInv, TypeOK, outVars, loopVars
  <2> QED
    BY <1>2, <2>1 DEF vars, IInv, ChannelUsed, ReportFits, WritingIffBuffered,
                      FinAfterData, outVars, loopVars
<1>3. CASE Next
  BY <1>1, <1>3, PollStep, HandleHupStep, HandleReadStep, HandleWriteStep,
     RunFunctorStep, InCallbackStep, UserStep DEF Next, Writes
<1> QED
  BY <1>2, <1>3

(* The mask of the channel, its place in the epoll set, the buffer and the *)
(* FIN agree at all times, for any number of threads that send and shut    *)
(* down.  That a channel out of the epoll set has an empty mask is what    *)
(* keeps the other parts when sendInLoop puts it back.                     *)
THEOREM Invariant == Spec => []IInv
<1> QED
  BY IInvInit, IInvNext, PTL DEF Spec

(* Types, and that a connection is in the epoll set until handleClose.     *)
THEOREM TypeCorrect == Spec => []TypeOK
<1>1. IInv => TypeOK
  BY DEF IInv
<1> QED
  BY <1>1, Invariant, PTL

(* EPOLLOUT is neither forgotten while bytes wait nor kept when none do.   *)
THEOREM WritingAgrees == Spec => []WritingIffBuffered
<1>1. IInv => WritingIffBuffered
  BY DEF IInv
<1> QED
  BY <1>1, Invariant, PTL

(* The FIN leaves nothing behind it, whoever called shutdown().            *)
THEOREM FinIsLast == Spec => []FinAfterData
<1>1. IInv => FinAfterData
  BY DEF IInv
<1> QED
  BY <1>1, Invariant, PTL
------------------------------------------------------------------------------
(* Without other threads.                                                  *)

(* Functors added to the queue, and taken from it.                         *)
LEMMA AddedFit ==
  ASSUME NEW q \in Seq(Functors), NEW g \in Seq(Functors), NEW state,
         AllFit(q, state), AllFit(g, state)
  PROVE  AllFit(q \o g, state)
<1> SUFFICES ASSUME NEW i \in DOMAIN (q \o g) PROVE Fits((q \o g)[i], state)
  BY DEF AllFit
<1>1. \/ i \in DOMAIN q /\ (q \o g)[i] = q[i]
      \/ i - Len(q) \in DOMAIN g /\ (q \o g)[i] = g[i - Len(q)]
  BY ConcatIndices
<1> QED
  BY <1>1 DEF AllFit

LEMMA AppendedFits ==
  ASSUME NEW q \in Seq(Functors), NEW f \in Functors, NEW state,
         AllFit(q, state), Fits(f, state)
  PROVE  AllFit(Append(q, f), state)
<1>1. /\ Len(q) \in Nat /\ DOMAIN q = 1..Len(q)
      /\ DOMAIN Append(q, f) = 1..(Len(q) + 1)
      /\ \A i \in 1..Len(q) : Append(q, f)[i] = q[i]
      /\ Append(q, f)[Len(q) + 1] = f
  BY AppendIndices
<1> SUFFICES ASSUME NEW i \in DOMAIN Append(q, f) PROVE Fits(Append(q, f)[i], state)
  BY DEF AllFit
<1>2. i \in 1..Len(q) \/ i = Len(q) + 1
  BY <1>1
<1> QED
  BY <1>1, <1>2 DEF AllFit

LEMMA TailFits ==
  ASSUME NEW q \in Seq(Functors), q # <<>>, NEW state, AllFit(q, state)
  PROVE  Fits(Head(q), state) /\ AllFit(Tail(q), state)
<1>1. /\ Len(q) \in Nat \ {0} /\ DOMAIN q = 1..Len(q) /\ Head(q) = q[1]
      /\ DOMAIN Tail(q) = 1..(Len(q) - 1)
      /\ \A i \in 1..(Len(q) - 1) : Tail(q)[i] = q[i + 1]
  BY TailIndices
<1>2. 1 \in DOMAIN q /\ \A i \in 1..(Len(q) - 1) : i + 1 \in DOMAIN q
  BY <1>1
<1> QED
  BY <1>1, <1>2 DEF AllFit

(* state_ never goes back to kConnected, so what fits stays fitting.       *)
LEMMA FitsOn ==
  ASSUME NEW q, NEW old, NEW new, AllFit(q, old), new = old \/ new # "kConnected"
  PROVE  AllFit(q, new)
BY DEF AllFit, Fits

(* A send() in the loop's thread while the connection is up.               *)
LEMMA SendFits ==
  ASSUME IInv, StateTold, NEW data \in Seq(Any), SendInLoop(data, queue),
         state_ = "kConnected", state_' = state_, wrShut' = wrShut
  PROVE  StateTold'
<1>1. ~wrShut /\ ~closed /\ queue \in Seq(Functors)
  BY Types DEF IInv, StateTold
<1> DEFINE F1(n) == IF Len(data) - n = 0 /\ "writeCallback_" \in Callbacks
                    THEN <<Fn("writeCallback_")>> ELSE <<>>
           K(n) == /\ ~Fault /\ Len(data) - n > 0
                   /\ CrossesMark(Len(data) - n)
           F2(n) == IF K(n) THEN <<Fn("highWaterMarkCallback_")>> ELSE <<>>
<1>2. PICK n : /\ queue' = queue \o F1(n) \o F2(n)
               /\ closed' = closed
  BY DEF SendInLoop
<1> HIDE DEF K
<1>4. /\ F1(n) \in Seq(Functors) /\ AllFit(F1(n), state_')
      /\ F2(n) \in Seq(Functors) /\ AllFit(F2(n), state_')
  BY FunctorTypes DEF AllFit, Fits, Fn
<1> HIDE DEF F1, F2
<1>5. AllFit(queue, state_')
  BY DEF StateTold
<1>6. AllFit(queue \o F1(n), state_') /\ queue \o F1(n) \in Seq(Functors)
  BY <1>1, <1>4, <1>5, AddedFit, ConcatProperties
<1>7. AllFit(queue \o F1(n) \o F2(n), state_')
  BY <1>4, <1>6, AddedFit
<1> QED
  BY <1>1, <1>2, <1>7 DEF StateTold

LEMMA StateToldNext ==
  ASSUME Users = {}, IInv, StateTold, [Next]_vars
  PROVE  StateTold'
<1>0. /\ closed => state_ = "kDisconnected"
      /\ wrShut => state_ # "kConnected"
      /\ AllFit(queue, state_)
      /\ queue \in Seq(Functors) /\ wrShut \in BOOLEAN /\ closed \in BOOLEAN
  BY Types DEF IInv, StateTold
(* Most steps leave all of this alone.                                     *)
<1>1. ASSUME UNCHANGED <<state_, closed, wrShut, queue>> PROVE StateTold'
  BY <1>0, <1>1 DEF StateTold
<1>2. ASSUME NEW r \in SUBSET Reported, Poll(r) PROVE StateTold'
  BY <1>1, <1>2 DEF Poll, outVars
<1>3. ASSUME HandleHup PROVE StateTold'
  <2>1. ~CallsClose(revents)
    BY <1>0, <1>3 DEF HandleHup, AtEvent, IInv, TypeOK, ReportFits, CallsClose
  <2> QED
    BY <1>1, <1>3, <2>1 DEF HandleHup, outVars
<1>4. ASSUME HandleRead PROVE StateTold'
  <2>1. CASE UNCHANGED <<state_, outVars, wrShut, queue>>
    BY <1>1, <2>1 DEF outVars
  <2>2. CASE HandleClose
    <3>1. /\ state_' = "kDisconnected"
          /\ UNCHANGED <<wrShut, queue>>
      BY <2>2 DEF HandleClose
    <3>2. AllFit(queue', state_')
      BY <1>0, <3>1, FitsOn
    <3> QED
      BY <1>0, <3>1, <3>2 DEF StateTold
  <2> QED
    BY <1>4, <2>1, <2>2 DEF HandleRead
<1>5. ASSUME NEW n \in 0..MaxBytes, HandleWrite(n) PROVE StateTold'
  <2>1. CASE ~isWriting(channel_)
    BY <1>1, <1>5, <2>1 DEF HandleWrite, AtWrite, outVars
  <2>2. CASE isWriting(channel_)
    <3> DEFINE left == SubSeq(outputBuffer_, n + 1, Len(outputBuffer_))
    <3>1. /\ state_' = state_ /\ closed' = closed
          /\ Drained(left) \/ UNCHANGED <<queue, wrShut>>
      BY <1>5, <2>2 DEF HandleWrite, AtWrite, WriteOut
    <3> HIDE DEF left
    <3>2. Registered(channel_) /\ outputBuffer_ # <<>>
      BY <2>2 DEF IInv, ChannelUsed, isWriting, WritingIffBuffered
    <3>3. ~wrShut
      BY <1>0, <3>2 DEF IInv, FinAfterData, TypeOK
    <3>5. /\ queue' = queue \/ queue' = Append(queue, Fn("nothing"))
          /\ wrShut' => wrShut \/ state_ = "kDisconnecting"
      <4>1. CASE UNCHANGED <<queue, wrShut>>
        BY <4>1
      <4>2. CASE Drained(left)
        <5>1. queue' = queue \/ queue' = Append(queue, Fn("nothing"))
          BY <4>2 DEF Drained
        <5>2. wrShut' = (wrShut \/ (/\ left = <<>> /\ state_ = "kDisconnecting"
                                    /\ MayShutWrite(AfterWrite(left))))
          BY <4>2 DEF Drained
        <5> QED
          BY <5>1, <5>2
      <4> QED
        BY <3>1, <4>1, <4>2
    <3>6. AllFit(queue', state_')
      <4>1. Fn("nothing") \in Functors /\ Fits(Fn("nothing"), state_)
        BY FunctorTypes DEF Fits, Fn
      <4> QED
        BY <1>0, <3>1, <3>5, <4>1, AppendedFits
    <3> QED
      BY <1>0, <3>1, <3>5, <3>6 DEF StateTold
  <2> QED
    BY <2>1, <2>2
<1>6. ASSUME RunFunctor PROVE StateTold'
  <2>1. queue # <<>> /\ state_' = state_
    BY <1>6 DEF RunFunctor
  <2>2. Fits(Head(queue), state_) /\ AllFit(Tail(queue), state_)
    BY <1>0, <2>1, TailFits
  <2>3. CASE /\ Head(queue).op = "shutdownInLoop"
             /\ wrShut' = (wrShut \/ MayShutWrite(channel_))
             /\ queue' = Tail(queue) /\ UNCHANGED outVars
    <3>1. state_ # "kConnected"
      BY <2>2, <2>3 DEF Fits
    <3> QED
      BY <1>0, <2>1, <2>2, <2>3, <3>1 DEF StateTold, outVars
  <2>4. CASE queue' = Tail(queue) /\ UNCHANGED <<outVars, wrShut>>
    BY <1>0, <2>1, <2>2, <2>4 DEF StateTold, outVars
  <2> QED
    BY <1>6, <2>2, <2>3, <2>4 DEF RunFunctor, Fits
<1>7. ASSUME CallbackReturns PROVE StateTold'
  BY <1>1, <1>7 DEF CallbackReturns, outVars
<1>8. ASSUME NEW len \in 1..MaxLen, Send(len) PROVE StateTold'
  <2>1. /\ state_ = "kConnected" /\ Gives(Loop, len)
        /\ SendInLoop(BytesOf(Message(Loop, len)), queue)
        /\ state_' = state_ /\ wrShut' = wrShut
    BY <1>8 DEF Send
  <2>2. Message(Loop, len) \in Msgs
    BY <2>1, Messages DEF IInv, Threads
  <2> QED
    BY <2>1, <2>2, MessageBytes, SendFits
<1>9. ASSUME Shutdown PROVE StateTold'
  <2>1. /\ state_ = "kConnected" /\ state_' = "kDisconnecting"
        /\ queue' = Append(queue, Fn("shutdownInLoop"))
        /\ closed' = closed /\ wrShut' = wrShut
    BY <1>9 DEF Shutdown, outVars
  <2>2. Fn("shutdownInLoop") \in Functors /\ Fits(Fn("shutdownInLoop"), state_')
    BY <2>1, FunctorTypes DEF Fits, Fn
  <2>3. AllFit(queue, state_')
    BY <1>0, <2>1, FitsOn
  <2>4. AllFit(queue', state_')
    BY <1>0, <2>1, <2>2, <2>3, AppendedFits
  <2> QED
    BY <1>0, <2>1, <2>4 DEF StateTold
<1>10. ASSUME NEW how \in {"closed", "reset"}, PeerEnds(how) PROVE StateTold'
  BY <1>1, <1>10 DEF PeerEnds, outVars
<1>11. CASE UNCHANGED vars
  BY <1>1, <1>11 DEF vars, outVars
<1> QED
  BY <1>2, <1>3, <1>4, <1>5, <1>6, <1>7, <1>8, <1>9, <1>10, <1>11
     DEF Next, Writes

(* A closed connection writes nothing and stays out of the epoll set.      *)
LEMMA ClosedIsOver ==
  ASSUME Users = {}, IInv, StateTold, [Next]_vars, closed
  PROVE  wire' = wire /\ ~Registered(channel_')
<1>0. /\ state_ = "kDisconnected" /\ ~Registered(channel_)
      /\ revents \cap {"IN", "PRI", "HUP"} = {}
      /\ ~isWriting(channel_) /\ AllFit(queue, state_) /\ queue \in Seq(Functors)
  BY DEF IInv, StateTold, TypeOK, ReportFits, ChannelUsed, isWriting
<1>1. UNCHANGED outVars
  <2>1. ASSUME NEW n \in 0..MaxBytes, HandleWrite(n) PROVE UNCHANGED outVars
    BY <1>0, <2>1 DEF HandleWrite
  <2>2. ASSUME RunFunctor PROVE UNCHANGED outVars
    <3>1. Fits(Head(queue), state_)
      BY <1>0, <2>2, TailFits DEF RunFunctor
    <3> QED
      BY <2>2, <3>1 DEF RunFunctor, Fits
  <2>3. ASSUME NEW len \in 1..MaxLen, Send(len) PROVE FALSE
    BY <1>0, <2>3 DEF Send
  <2>4. ASSUME HandleRead \/ HandleHup PROVE FALSE
    BY <1>0, <2>4 DEF HandleRead, HandleHup, AtEvent, kReadEvent
  <2>5. ASSUME \/ \E r \in SUBSET Reported : Poll(r)
               \/ CallbackReturns \/ Shutdown
               \/ \E how \in {"closed", "reset"} : PeerEnds(how)
        PROVE  UNCHANGED outVars
    BY <2>5 DEF Poll, CallbackReturns, Shutdown, PeerEnds
  <2>6. CASE UNCHANGED vars
    BY <2>6 DEF vars
  <2> QED
    BY <2>1, <2>2, <2>3, <2>4, <2>5, <2>6 DEF Next, Writes
<1> QED
  BY <1>0, <1>1 DEF outVars

LEMMA StateToldInit == Init => StateTold
<1> SUFFICES ASSUME Init PROVE StateTold
  OBVIOUS
<1>1. queue = <<>> /\ closed = FALSE /\ wrShut = FALSE
  BY DEF Init
<1>2. AllFit(queue, state_)
  BY <1>1 DEF AllFit
<1> QED
  BY <1>1, <1>2 DEF StateTold

(* When only the loop's thread sends and shuts down, the connection is     *)
(* over once handleClose has run: nothing is written and nothing puts its  *)
(* channel back in the epoll set.                                          *)
THEOREM ClosedForGood ==
  ASSUME Users = {}
  PROVE  Spec => NothingAfterClose
<1>1. IInv /\ StateTold /\ [Next]_vars => (IInv /\ StateTold)'
  BY IInvNext, StateToldNext
<1>2. Init => IInv /\ StateTold
  BY IInvInit, StateToldInit
<1>3. IInv /\ StateTold /\ [Next]_vars
        => [closed => wire' = wire /\ ~Registered(channel_')]_vars
  BY ClosedIsOver
<1> QED
  BY <1>1, <1>2, <1>3, PTL DEF Spec, NothingAfterClose
------------------------------------------------------------------------------
(* The order of the bytes: what a message has to do with the bytes that    *)
(* are out, in the buffer or on the wire, and with the messages that wait. *)

InOrder(s) ==
  \A i, j \in DOMAIN s :
    i < j /\ s[i].from = s[j].from /\ s[j].from \in Threads => s[i].n < s[j].n

(* The bytes of m come after all that s has of its thread.                 *)
After(m, s) == \A i \in DOMAIN s : s[i].from = m.from => s[i].n < m.first

(* The bytes of m come before those of k, if they are of one thread.       *)
Before(m, k) == m.from = k.from => m.first + m.len <= k.first

(* m is of what its thread gave to send().                                 *)
Given(m, given) == m.first + m.len <= given[m.from] + 1

OutOk(s, given) ==
  /\ InOrder(s)
  /\ \A i \in DOMAIN s : s[i].from \in Threads => s[i].n <= given[s[i].from]

IsSend(f) == f.op = "sendInLoop"

(* The queued messages are of other threads, come after what is out and    *)
(* stand in the order of their bytes.                                      *)
QueueOk(q, s, given) ==
  \A j \in DOMAIN q : IsSend(q[j]) =>
    /\ q[j].msg.from # Loop /\ Given(q[j].msg, given) /\ After(q[j].msg, s)
    /\ \A i \in DOMAIN q : i < j /\ IsSend(q[i]) => Before(q[i].msg, q[j].msg)

(* The message of a call of send() that has not queued it yet comes after  *)
(* all of them.                                                            *)
CallOk(u, c, q, s, given) ==
  c.at = "sendTested" =>
    /\ c.msg.from = u /\ Given(c.msg, given) /\ After(c.msg, s)
    /\ \A i \in DOMAIN q : IsSend(q[i]) => Before(q[i].msg, c.msg)

PathOk(s, q, c, given) ==
  /\ OutOk(s, given)
  /\ QueueOk(q, s, given)
  /\ \A u \in Users : CallOk(u, c[u], q, s, given)

(* The bytes the connection has been made to send, in order.               *)
Out == wire \o outputBuffer_

OnTheWay == PathOk(Out, queue, call, sent)

(* p is q with functors behind it that send nothing.                       *)
Extends(q, p) ==
  /\ DOMAIN q \subseteq DOMAIN p /\ \A i \in DOMAIN q : p[i] = q[i]
  /\ \A i \in DOMAIN p \ DOMAIN q : ~IsSend(p[i])

(* The bytes d are a first part of m, or bytes nobody sent.                *)
Carries(d, m) ==
  /\ InOrder(d)
  /\ \A i \in DOMAIN d : d[i].from \in Threads =>
       d[i].from = m.from /\ m.first <= d[i].n /\ d[i].n < m.first + m.len

(* Messages and bytes have numbers.                                        *)
LEMMA MessageTypes ==
  /\ \A f \in Functors : IsSend(f) => f.msg \in Msgs
  /\ \A c \in Calls : c.at = "sendTested" => c.msg \in Msgs
  /\ \A m \in Msgs : m.from \in Threads /\ m.first \in Nat /\ m.len \in Nat
  /\ \A b \in Any : b.n \in Nat
<1>1. \A f \in Functors : IsSend(f) => f.msg \in Msgs
  BY DEF Functors, IsSend
<1>2. \A c \in Calls : c.at = "sendTested" => c.msg \in Msgs
  BY DEF Calls
<1>3. \A m \in Msgs : m.from \in Threads /\ m.first \in Nat /\ m.len \in Nat
  BY ConnectionAssumption DEF Msgs
<1>4. \A b \in Any : b.n \in Nat
  BY ConnectionAssumption DEF Any, Bytes, Garbage
<1> QED
  BY <1>1, <1>2, <1>3, <1>4

(* Bytes put behind others that come before them.                          *)
LEMMA OutGrows ==
  ASSUME NEW s \in Seq(Any), NEW d \in Seq(Any), NEW m \in Msgs,
         NEW g \in [Threads -> Nat],
         OutOk(s, g), After(m, s), Given(m, g), Carries(d, m)
  PROVE  /\ OutOk(s \o d, g)
         /\ \A k \in Msgs : After(k, s) /\ Before(m, k) => After(k, s \o d)
<1>1. /\ \A i \in DOMAIN (s \o d) :
           \/ i \in DOMAIN s /\ (s \o d)[i] = s[i]
           \/ i - Len(s) \in DOMAIN d /\ (s \o d)[i] = d[i - Len(s)]
      /\ Len(s) \in Nat /\ DOMAIN s = 1..Len(s) /\ DOMAIN d = 1..Len(d)
  BY ConcatIndices
<1>2. /\ \A i \in DOMAIN s : s[i].n \in Nat
      /\ \A i \in DOMAIN d : d[i].n \in Nat
      /\ m.first \in Nat /\ m.len \in Nat /\ m.from \in Threads /\ g[m.from] \in Nat
  BY MessageTypes
<1>3. ASSUME NEW i \in DOMAIN (s \o d), NEW j \in DOMAIN (s \o d), i < j,
             (s \o d)[i].from = (s \o d)[j].from, (s \o d)[j].from \in Threads
      PROVE  (s \o d)[i].n < (s \o d)[j].n
  <2>1. CASE j \in DOMAIN s /\ (s \o d)[j] = s[j]
    <3>1. i \in DOMAIN s /\ (s \o d)[i] = s[i]
      BY <1>1, <1>3, <2>1
    <3> QED
      BY <1>3, <2>1, <3>1 DEF OutOk, InOrder
  <2>2. CASE j - Len(s) \in DOMAIN d /\ (s \o d)[j] = d[j - Len(s)]
    <3>1. PICK b \in DOMAIN d : b = j - Len(s) /\ (s \o d)[j] = d[b]
      BY <2>2
    <3>2. d[b].from = m.from /\ m.first <= d[b].n
      BY <1>3, <3>1 DEF Carries
    <3>3. CASE i \in DOMAIN s /\ (s \o d)[i] = s[i]
      <4>1. s[i].n < m.first
        BY <1>3, <3>1, <3>2, <3>3 DEF After
      <4> QED
        BY <1>2, <3>1, <3>2, <3>3, <4>1
    <3>4. CASE i - Len(s) \in DOMAIN d /\ (s \o d)[i] = d[i - Len(s)]
      <4>1. PICK a \in DOMAIN d : a = i - Len(s) /\ (s \o d)[i] = d[a]
        BY <3>4
      <4>2. a < b
        BY <1>1, <1>3, <3>1, <4>1
      <4> QED
        BY <1>3, <3>1, <4>1, <4>2 DEF Carries, InOrder
    <3> QED
      BY <1>1, <3>3, <3>4
  <2> QED
    BY <1>1, <2>1, <2>2
<1>4. ASSUME NEW i \in DOMAIN (s \o d), (s \o d)[i].from \in Threads
      PROVE  (s \o d)[i].n <= g[(s \o d)[i].from]
  <2>1. CASE i \in DOMAIN s /\ (s \o d)[i] = s[i]
    BY <1>4, <2>1 DEF OutOk
  <2>2. CASE i - Len(s) \in DOMAIN d /\ (s \o d)[i] = d[i - Len(s)]
    <3>1. PICK a \in DOMAIN d : (s \o d)[i] = d[a]
      BY <2>2
    <3>2. d[a].from = m.from /\ d[a].n < m.first + m.len /\ d[a].n \in Nat
      BY <1>2, <1>4, <3>1 DEF Carries
    <3>3. m.first + m.len <= g[m.from] + 1
      BY DEF Given
    <3>4. d[a].n <= g[m.from]
      BY <1>2, <3>2, <3>3
    <3> QED
      BY <3>1, <3>2, <3>4
  <2> QED
    BY <1>1, <2>1, <2>2
<1>5. ASSUME NEW k \in Msgs, After(k, s), Before(m, k), NEW i \in DOMAIN (s \o d),
             (s \o d)[i].from = k.from
      PROVE  (s \o d)[i].n < k.first
  <2>1. CASE i \in DOMAIN s /\ (s \o d)[i] = s[i]
    BY <1>5, <2>1 DEF After
  <2>2. CASE i - Len(s) \in DOMAIN d /\ (s \o d)[i] = d[i - Len(s)]
    <3>1. PICK a \in DOMAIN d : (s \o d)[i] = d[a]
      BY <2>2
    <3>2. /\ d[a].from = m.from /\ m.from = k.from
          /\ d[a].n < m.first + m.len /\ d[a].n \in Nat /\ k.first \in Nat
      BY <1>2, <1>5, <3>1, MessageTypes DEF Carries
    <3>3. m.first + m.len <= k.first
      BY <1>5, <3>2 DEF Before
    <3>4. d[a].n < k.first
      BY <1>2, <3>2, <3>3
    <3> QED
      BY <3>1, <3>4
  <2> QED
    BY <1>1, <2>1, <2>2
<1> QED
  BY <1>3, <1>4, <1>5 DEF OutOk, InOrder, After

(* The same with messages waiting, all of which come after those bytes.    *)
LEMMA PathGrows ==
  ASSUME NEW s \in Seq(Any), NEW d \in Seq(Any), NEW m \in Msgs,
         NEW g \in [Threads -> Nat], NEW q \in Seq(Functors),
         NEW c \in [Users -> Calls],
         PathOk(s, q, c, g), After(m, s), Given(m, g), Carries(d, m),
         \A j \in DOMAIN q : IsSend(q[j]) => Before(m, q[j].msg),
         \A u \in Users : c[u].at = "sendTested" => Before(m, c[u].msg)
  PROVE  PathOk(s \o d, q, c, g)
<1>1. /\ OutOk(s \o d, g)
      /\ \A k \in Msgs : After(k, s) /\ Before(m, k) => After(k, s \o d)
  BY OutGrows DEF PathOk
<1>2. \A j \in DOMAIN q : IsSend(q[j]) => q[j].msg \in Msgs
  BY MessageTypes
<1>3. QueueOk(q, s \o d, g)
  BY <1>1, <1>2 DEF PathOk, QueueOk
<1>4. ASSUME NEW u \in Users PROVE CallOk(u, c[u], q, s \o d, g)
  <2>1. c[u].at = "sendTested" => c[u].msg \in Msgs
    BY MessageTypes
  <2> QED
    BY <1>1, <2>1 DEF PathOk, CallOk
<1> QED
  BY <1>1, <1>3, <1>4 DEF PathOk

(* Functors that send nothing do not matter, nor does taking a functor.    *)
LEMMA PathExtended ==
  ASSUME NEW s, NEW q, NEW p, NEW c, NEW g, PathOk(s, q, c, g), Extends(q, p)
  PROVE  PathOk(s, p, c, g)
<1>1. \A i \in DOMAIN p : IsSend(p[i]) => i \in DOMAIN q /\ p[i] = q[i]
  BY DEF Extends
<1>2. QueueOk(p, s, g)
  BY <1>1 DEF PathOk, QueueOk
<1>3. \A u \in Users : CallOk(u, c[u], p, s, g)
  BY <1>1 DEF PathOk, CallOk
<1> QED
  BY <1>2, <1>3 DEF PathOk

LEMMA PathTaken ==
  ASSUME NEW s, NEW q \in Seq(Functors), q # <<>>, NEW c, NEW g, PathOk(s, q, c, g)
  PROVE  /\ PathOk(s, Tail(q), c, g)
         /\ IsSend(Head(q)) =>
              /\ Head(q).msg.from # Loop /\ Given(Head(q).msg, g) /\ After(Head(q).msg, s)
              /\ \A j \in DOMAIN Tail(q) :
                   IsSend(Tail(q)[j]) => Before(Head(q).msg, Tail(q)[j].msg)
              /\ \A u \in Users : c[u].at = "sendTested" => Before(Head(q).msg, c[u].msg)
<1>1. /\ Len(q) \in Nat \ {0} /\ DOMAIN q = 1..Len(q) /\ Head(q) = q[1]
      /\ DOMAIN Tail(q) = 1..(Len(q) - 1)
      /\ \A i \in 1..(Len(q) - 1) : Tail(q)[i] = q[i + 1]
  BY TailIndices
<1>2. /\ 1 \in DOMAIN q
      /\ \A i \in DOMAIN Tail(q) : i + 1 \in DOMAIN q /\ Tail(q)[i] = q[i + 1] /\ 1 < i + 1
      /\ \A i, j \in DOMAIN Tail(q) : i < j => i + 1 < j + 1
  BY <1>1
<1>3. QueueOk(Tail(q), s, g)
  BY <1>2 DEF PathOk, QueueOk
<1>4. \A u \in Users : CallOk(u, c[u], Tail(q), s, g)
  BY <1>2 DEF PathOk, CallOk
<1>5. PathOk(s, Tail(q), c, g)
  BY <1>3, <1>4 DEF PathOk
<1>6. ASSUME IsSend(Head(q))
      PROVE  /\ Head(q).msg.from # Loop /\ Given(Head(q).msg, g) /\ After(Head(q).msg, s)
             /\ \A j \in DOMAIN Tail(q) :
                  IsSend(Tail(q)[j]) => Before(Head(q).msg, Tail(q)[j].msg)
  BY <1>1, <1>2, <1>6 DEF PathOk, QueueOk
<1>7. ASSUME IsSend(Head(q)), NEW u \in Users, c[u].at = "sendTested"
      PROVE  Before(Head(q).msg, c[u].msg)
  BY <1>1, <1>2, <1>7 DEF PathOk, CallOk
<1> QED
  BY <1>5, <1>6, <1>7

(* More is given to send().                                                *)
LEMMA PathGiven ==
  ASSUME NEW s \in Seq(Any), NEW q \in Seq(Functors), NEW c \in [Users -> Calls],
         NEW g \in [Threads -> Nat], NEW h \in [Threads -> Nat],
         \A t \in Threads : g[t] <= h[t], PathOk(s, q, c, g)
  PROVE  PathOk(s, q, c, h)
<1>1. \A m \in Msgs : Given(m, g) => Given(m, h)
  <2> SUFFICES ASSUME NEW m \in Msgs, Given(m, g) PROVE Given(m, h)
    OBVIOUS
  <2>1. /\ g[m.from] <= h[m.from] /\ g[m.from] \in Nat /\ h[m.from] \in Nat
        /\ m.first \in Nat /\ m.len \in Nat
    BY MessageTypes
  <2> QED
    BY <2>1 DEF Given
<1>2. OutOk(s, h)
  <2> SUFFICES ASSUME NEW i \in DOMAIN s, s[i].from \in Threads
               PROVE  s[i].n <= h[s[i].from]
    BY DEF PathOk, OutOk
  <2>1. /\ s[i].n <= g[s[i].from] /\ g[s[i].from] <= h[s[i].from]
        /\ g[s[i].from] \in Nat /\ h[s[i].from] \in Nat
    BY DEF PathOk, OutOk
  <2>2. s[i].n \in Nat
    BY MessageTypes
  <2> QED
    BY <2>1, <2>2
<1>3. \A j \in DOMAIN q : IsSend(q[j]) => q[j].msg \in Msgs
  BY MessageTypes
<1>4. QueueOk(q, s, h)
  BY <1>1, <1>3 DEF PathOk, QueueOk
<1>5. ASSUME NEW u \in Users PROVE CallOk(u, c[u], q, s, h)
  <2>1. c[u].at = "sendTested" => c[u].msg \in Msgs
    BY MessageTypes
  <2> QED
    BY <1>1, <2>1 DEF PathOk, CallOk
<1> QED
  BY <1>2, <1>4, <1>5 DEF PathOk

(* Adding functors that send nothing.                                      *)
LEMMA ExtendsConcat ==
  ASSUME NEW q \in Seq(Functors), NEW f \in Seq(Functors),
         \A i \in DOMAIN f : ~IsSend(f[i])
  PROVE  Extends(q, q \o f)
<1>1. /\ \A i \in DOMAIN (q \o f) :
           \/ i \in DOMAIN q /\ (q \o f)[i] = q[i]
           \/ i - Len(q) \in DOMAIN f /\ (q \o f)[i] = f[i - Len(q)]
      /\ \A i \in DOMAIN q : i \in DOMAIN (q \o f) /\ (q \o f)[i] = q[i]
  BY ConcatIndices
<1> QED
  BY <1>1 DEF Extends

LEMMA ExtendsAppend ==
  ASSUME NEW q \in Seq(Functors), NEW f \in Functors, ~IsSend(f)
  PROVE  Extends(q, Append(q, f))
<1>1. /\ Len(q) \in Nat /\ DOMAIN q = 1..Len(q)
      /\ DOMAIN Append(q, f) = 1..(Len(q) + 1)
      /\ \A i \in 1..Len(q) : Append(q, f)[i] = q[i]
      /\ Append(q, f)[Len(q) + 1] = f
  BY AppendIndices
<1>2. \A i \in DOMAIN Append(q, f) : i \in DOMAIN q \/ i = Len(q) + 1
  BY <1>1
<1> QED
  BY <1>1, <1>2 DEF Extends

LEMMA ExtendsTwice ==
  ASSUME NEW q, NEW p, NEW r, Extends(q, p), Extends(p, r)
  PROVE  Extends(q, r)
BY DEF Extends

LEMMA QuietFunctors ==
  /\ ~IsSend(Fn("shutdownInLoop")) /\ ~IsSend(Fn("writeCallback_"))
  /\ ~IsSend(Fn("highWaterMarkCallback_")) /\ ~IsSend(Fn("nothing"))
BY DEF IsSend, Fn

(* A write that takes n bytes of d, and what is kept of the others.        *)
PutsOut(w, b, d, n) ==
  /\ (w \o SubSeq(d, 1, n)) \o (b \o SubSeq(d, n + 1, Len(d)))
       = (w \o b) \o SubSeq(d, 1, Len(d))
  /\ (w \o SubSeq(d, 1, n)) \o b = (w \o b) \o SubSeq(d, 1, n)

LEMMA Kept ==
  ASSUME NEW w \in Seq(Any), NEW b \in Seq(Any), NEW d \in Seq(Any),
         NEW n \in 0..Len(d), n # 0 => b = <<>>
  PROVE  PutsOut(w, b, d, n)
<1>1. Len(d) \in Nat /\ n \in Int /\ 0 <= n /\ n <= Len(d)
  OBVIOUS
<1>2. /\ SubSeq(d, 1, n) \in Seq(Any) /\ SubSeq(d, n + 1, Len(d)) \in Seq(Any)
      /\ SubSeq(d, 1, Len(d)) = d
  BY Parts, SubSeqFull
<1>3. SubSeq(d, 1, n) \o SubSeq(d, n + 1, Len(d)) = SubSeq(d, 1, Len(d))
  <2>1. 1 \in 1..(Len(d) + 1) /\ n \in 0..Len(d) /\ Len(d) \in n..Len(d)
    BY <1>1
  <2>2. n \in (1 - 1)..Len(d)
    BY <1>1
  <2> QED
    BY <2>1, <2>2, ConcatAdjacentSubSeq
<1> DEFINE x == SubSeq(d, 1, n)
           y == SubSeq(d, n + 1, Len(d))
<1>4. x \in Seq(Any) /\ y \in Seq(Any) /\ x \o y = d
  BY <1>2, <1>3, Zenon
<1>5. n = 0 => x = <<>>
  BY <1>1, SubSeqEmpty
<1> HIDE DEF x, y
<1>6. x = <<>> \/ b = <<>>
  BY <1>5
<1>7. x \in Seq(Any) /\ y \in Seq(Any)
  BY <1>4
<1>8. /\ (w \o x) \o (b \o y) = (w \o b) \o (x \o y)
      /\ (w \o x) \o b = (w \o b) \o x
  <2>1. Distribute(w, b, x, y)
    BY <1>6, <1>7, ConcatParts
  <2> QED
    BY <2>1, Zenon DEF Distribute
<1>9. (w \o x) \o (b \o y) = (w \o b) \o d
  BY <1>4, <1>8, Zenon
<1> QED
  BY <1>2, <1>8, <1>9 DEF x, y, PutsOut

(* sendInLoop puts a first part of its data behind all that is out, and    *)
(* functors that send nothing behind the queue.                            *)
LEMMA SendPutsOut ==
  ASSUME IInv, NEW data \in Seq(Any), NEW rest \in Seq(Functors),
         SendInLoop(data, rest)
  PROVE  /\ \E k \in 0..Len(data) : Out' = Out \o SubSeq(data, 1, k)
         /\ Extends(rest, queue')
<1>1. /\ wire \in Seq(Any) /\ outputBuffer_ \in Seq(Any) /\ Len(data) \in Nat
      /\ 0 \in 0..Len(data) /\ Len(data) \in 0..Len(data)
  BY Types DEF IInv
<1>2. CASE state_ = "kDisconnected"
  <2>1. queue' = rest /\ Out' = Out
    BY <1>2 DEF SendInLoop, outVars, Out
  <2>2. Out = Out \o SubSeq(data, 1, 0)
    <3>1. Out \in Seq(Any) /\ SubSeq(data, 1, 0) = <<>>
      BY <1>1, ConcatProperties, SubSeqEmpty DEF Out
    <3> QED
      BY <3>1, ConcatEmptySeq
  <2> QED
    BY <1>1, <2>1, <2>2 DEF Extends
<1>3. CASE state_ # "kDisconnected"
  <2> DEFINE Keeps(n) == /\ ~Fault /\ Len(data) - n > 0
                         /\ CrossesMark(Len(data) - n)
             F1(n) == IF Len(data) - n = 0 /\ "writeCallback_" \in Callbacks
                      THEN <<Fn("writeCallback_")>> ELSE <<>>
             F2(n) == IF Keeps(n) THEN <<Fn("highWaterMarkCallback_")>> ELSE <<>>
  <2>1. PICK n \in IF Direct THEN Written(data) ELSE {0} :
          /\ wire' = wire \o SubSeq(data, 1, n)
          /\ queue' = rest \o F1(n) \o F2(n)
          /\ outputBuffer_' = IF Keeps(n)
                              THEN outputBuffer_ \o SubSeq(data, n + 1, Len(data))
                              ELSE outputBuffer_
    BY <1>3 DEF SendInLoop
  <2>2. n \in 0..Len(data) /\ (n # 0 => outputBuffer_ = <<>>)
    BY <1>1 DEF Written, Direct
  <2>3. Out' = Out \o SubSeq(data, 1, Len(data)) \/ Out' = Out \o SubSeq(data, 1, n)
    <3> DEFINE x == SubSeq(data, 1, n)
               y == SubSeq(data, n + 1, Len(data))
               z == SubSeq(data, 1, Len(data))
    <3>1. /\ (wire \o x) \o (outputBuffer_ \o y) = (wire \o outputBuffer_) \o z
          /\ (wire \o x) \o outputBuffer_ = (wire \o outputBuffer_) \o x
      <4>1. PutsOut(wire, outputBuffer_, data, n)
        BY <1>1, <2>2, Kept
      <4> QED
        BY <4>1, Zenon DEF PutsOut
    <3>2. wire' = wire \o x /\ outputBuffer_' \in {outputBuffer_ \o y, outputBuffer_}
      BY <2>1
    <3> HIDE DEF x, y, z
    <3>3. Out' = Out \o z \/ Out' = Out \o x
      BY <3>1, <3>2 DEF Out
    <3> QED
      BY <3>3 DEF x, z
  <2>4. Extends(rest, queue')
    <3>1. /\ F1(n) \in Seq(Functors) /\ \A i \in DOMAIN F1(n) : ~IsSend(F1(n)[i])
          /\ F2(n) \in Seq(Functors) /\ \A i \in DOMAIN F2(n) : ~IsSend(F2(n)[i])
      BY FunctorTypes, QuietFunctors
    <3> HIDE DEF F1, F2
    <3>2. Extends(rest, rest \o F1(n)) /\ rest \o F1(n) \in Seq(Functors)
      BY <3>1, ExtendsConcat, ConcatProperties
    <3>3. Extends(rest \o F1(n), rest \o F1(n) \o F2(n))
      BY <3>1, <3>2, ExtendsConcat
    <3> QED
      BY <2>1, <3>2, <3>3, ExtendsTwice
  <2> QED
    BY <1>1, <2>2, <2>3, <2>4
<1> QED
  BY <1>2, <1>3

(* handleWrite moves bytes from the buffer to the wire.                    *)
LEMMA WriteMoves ==
  ASSUME NEW w \in Seq(Any), NEW b \in Seq(Any), NEW n \in 0..Len(b)
  PROVE  (w \o SubSeq(b, 1, n)) \o SubSeq(b, n + 1, Len(b)) = w \o b
<1>1. Len(b) \in Nat /\ <<>> \in Seq(Any)
  OBVIOUS
<1>2. /\ SubSeq(b, n + 1, Len(b)) \in Seq(Any) /\ SubSeq(b, 1, Len(b)) = b
  BY <1>1, Parts, SubSeqFull
<1>3. PutsOut(w, <<>>, b, n)
  BY <1>1, Kept
<1>4. /\ <<>> \o SubSeq(b, n + 1, Len(b)) = SubSeq(b, n + 1, Len(b))
      /\ w \o <<>> = w
  BY <1>2, ConcatEmptySeq
<1> QED
  BY <1>2, <1>3, <1>4, Zenon DEF PutsOut

(* What sendInLoop gets, and every first part of it, carries the message.  *)
LEMMA Pieces ==
  ASSUME NEW m \in Msgs, NEW data,
         data = BytesOf(m) \/ data = [i \in 1..m.len |-> Garbage],
         NEW k \in 0..Len(data)
  PROVE  /\ SubSeq(data, 1, k) \in Seq(Any)
         /\ Carries(SubSeq(data, 1, k), m)
<1>1. /\ m.from \in Threads /\ m.first \in Nat /\ m.len \in Nat
      /\ NoThread \notin Threads
  BY ConnectionAssumption DEF Msgs, Threads
<1>2. data \in Seq(Any) /\ Len(data) = m.len
  <2>1. data \in Seq(Any)
    BY MessageBytes
  <2>2. DOMAIN data = 1..m.len
    BY DEF BytesOf
  <2> QED
    BY <1>1, <2>1, <2>2
<1>3. \A i \in 1..m.len :
        \/ data[i] = [from |-> m.from, n |-> m.first + i - 1]
        \/ data[i] = Garbage
  BY DEF BytesOf
<1>4. \A i \in 1..m.len : data[i].from \in Threads =>
        data[i].from = m.from /\ data[i].n = m.first + i - 1
  <2> SUFFICES ASSUME NEW i \in 1..m.len, data[i].from \in Threads
               PROVE  data[i].from = m.from /\ data[i].n = m.first + i - 1
    OBVIOUS
  <2>1. data[i] # Garbage
    BY <1>1 DEF Garbage
  <2>2. data[i] = [from |-> m.from, n |-> m.first + i - 1]
    BY <1>3, <2>1
  <2> QED
    BY <2>2
<1> DEFINE d == SubSeq(data, 1, k)
<1>5. /\ d \in Seq(Any)
      /\ DOMAIN d = 1..k /\ \A i \in DOMAIN d : i \in 1..m.len /\ d[i] = data[i]
  <2>1. d \in Seq(Any)
    BY <1>2, Parts
  <2>2. k \in Nat /\ k <= m.len
    BY <1>1, <1>2
  <2>3. DOMAIN d = 1..k /\ \A i \in 1..k : d[i] = data[i]
    BY <1>2, <2>2
  <2>4. \A i \in 1..k : i \in 1..m.len
    BY <1>1, <2>2
  <2> QED
    BY <2>1, <2>3, <2>4
<1> HIDE DEF d
<1>6. ASSUME NEW i \in DOMAIN d, d[i].from \in Threads
      PROVE  /\ d[i].from = m.from /\ d[i].n = m.first + i - 1
             /\ i \in Nat /\ 1 <= i /\ i <= m.len
  BY <1>1, <1>4, <1>5, <1>6
<1>7. ASSUME NEW i \in DOMAIN d, NEW j \in DOMAIN d, i < j,
             d[i].from = d[j].from, d[j].from \in Threads
      PROVE  d[i].n < d[j].n
  <2>1. /\ d[i].n = m.first + i - 1 /\ d[j].n = m.first + j - 1
        /\ i \in Nat /\ j \in Nat
    BY <1>6, <1>7
  <2> QED
    BY <1>1, <1>7, <2>1
<1>8. ASSUME NEW i \in DOMAIN d, d[i].from \in Threads
      PROVE  d[i].from = m.from /\ m.first <= d[i].n /\ d[i].n < m.first + m.len
  <2>1. /\ d[i].from = m.from /\ d[i].n = m.first + i - 1
        /\ i \in Nat /\ 1 <= i /\ i <= m.len
    BY <1>6, <1>8
  <2> QED
    BY <1>1, <2>1
<1>9. Carries(d, m)
  BY <1>7, <1>8 DEF Carries, InOrder
<1> QED
  BY <1>5, <1>9 DEF d

(* A call that does not send, or has queued what it sends.                 *)
LEMMA CallsOver ==
  ASSUME NEW s, NEW q, NEW c, NEW e, NEW g, PathOk(s, q, c, g),
         \A u \in Users : e[u] = c[u] \/ e[u].at # "sendTested"
  PROVE  PathOk(s, q, e, g)
BY DEF PathOk, CallOk

(* A call of send() that has given its message comes after all others.     *)
LEMMA NewCall ==
  ASSUME NEW s \in Seq(Any), NEW q \in Seq(Functors), NEW c \in [Users -> Calls],
         NEW g \in [Threads -> Nat], NEW h \in [Threads -> Nat], NEW u \in Users,
         NEW m \in Msgs, m.from = u, m.first = g[u] + 1, Given(m, h),
         \A t \in Threads : g[t] <= h[t], PathOk(s, q, c, g)
  PROVE  PathOk(s, q, [c EXCEPT ![u] = [at |-> "sendTested", msg |-> m]], h)
<1> DEFINE e == [c EXCEPT ![u] = [at |-> "sendTested", msg |-> m]]
<1>1. PathOk(s, q, c, h)
  BY PathGiven
<1>2. u \in Threads /\ g[u] \in Nat
  BY DEF Threads
<1>3. After(m, s)
  <2> SUFFICES ASSUME NEW i \in DOMAIN s, s[i].from = m.from PROVE s[i].n < m.first
    BY DEF After
  <2>1. s[i].n <= g[u]
    BY <1>2 DEF PathOk, OutOk
  <2>2. s[i].n \in Nat
    BY MessageTypes
  <2> QED
    BY <1>2, <2>1, <2>2
<1>4. ASSUME NEW i \in DOMAIN q, IsSend(q[i]) PROVE Before(q[i].msg, m)
  <2>1. q[i].msg \in Msgs /\ Given(q[i].msg, g)
    BY <1>4, MessageTypes DEF PathOk, QueueOk
  <2>2. q[i].msg.from = u => q[i].msg.first + q[i].msg.len <= g[u] + 1
    BY <2>1 DEF Given
  <2> QED
    BY <2>2 DEF Before
<1>5. CallOk(u, [at |-> "sendTested", msg |-> m], q, s, h)
  BY <1>3, <1>4 DEF CallOk
<1>6. ASSUME NEW v \in Users PROVE CallOk(v, e[v], q, s, h)
  <2>1. CASE v = u
    BY <1>5, <2>1
  <2>2. CASE v # u
    BY <1>1, <2>2 DEF PathOk
  <2> QED
    BY <2>1, <2>2
<1> HIDE DEF e
<1>7. PathOk(s, q, e, h)
  BY <1>1, <1>6 DEF PathOk
<1> QED
  BY <1>7 DEF e

(* The functor of that call goes behind those of all others.               *)
LEMMA NewFunctor ==
  ASSUME NEW s \in Seq(Any), NEW q \in Seq(Functors), NEW c \in [Users -> Calls],
         NEW g \in [Threads -> Nat], NEW u \in Users, c[u].at = "sendTested",
         PathOk(s, q, c, g)
  PROVE  PathOk(s, Append(q, [op |-> "sendInLoop", msg |-> c[u].msg]),
                [c EXCEPT ![u] = NoCall], g)
<1> DEFINE f == [op |-> "sendInLoop", msg |-> c[u].msg]
           p == Append(q, f)
           e == [c EXCEPT ![u] = NoCall]
<1>1. /\ c[u].msg \in Msgs /\ c[u].msg.from = u /\ u # Loop
      /\ Given(c[u].msg, g) /\ After(c[u].msg, s)
      /\ \A i \in DOMAIN q : IsSend(q[i]) => Before(q[i].msg, c[u].msg)
  BY MessageTypes, ConnectionAssumption DEF PathOk, CallOk
<1>2. f \in Functors /\ f.msg = c[u].msg
  BY <1>1, FunctorTypes
<1>3. /\ \A v \in Users : v # u => e[v] = c[v]
      /\ e[u].at # "sendTested"
  BY DEF NoCall
<1> HIDE DEF e, f
<1>4. /\ Len(q) \in Nat /\ DOMAIN q = 1..Len(q) /\ DOMAIN p = 1..(Len(q) + 1)
      /\ \A i \in 1..Len(q) : p[i] = q[i]
      /\ p[Len(q) + 1] = f
  BY <1>2, AppendIndices
<1> HIDE DEF p
<1>5. \A j \in DOMAIN p :
        \/ j \in DOMAIN q /\ p[j] = q[j]
        \/ j = Len(q) + 1 /\ p[j] = f
  BY <1>4
<1>6. \A i \in DOMAIN p, j \in DOMAIN q : i < j => i \in DOMAIN q /\ p[i] = q[i]
  BY <1>4
<1>7. \A i \in DOMAIN p : i < Len(q) + 1 => i \in DOMAIN q /\ p[i] = q[i]
  BY <1>4
<1>8. QueueOk(p, s, g)
  <2> SUFFICES ASSUME NEW j \in DOMAIN p, IsSend(p[j])
               PROVE  /\ p[j].msg.from # Loop /\ Given(p[j].msg, g)
                      /\ After(p[j].msg, s)
                      /\ \A i \in DOMAIN p :
                           i < j /\ IsSend(p[i]) => Before(p[i].msg, p[j].msg)
    BY DEF QueueOk
  <2>1. CASE j \in DOMAIN q /\ p[j] = q[j]
    BY <1>6, <2>1 DEF PathOk, QueueOk
  <2>2. CASE j = Len(q) + 1 /\ p[j] = f
    BY <1>1, <1>2, <1>7, <2>2
  <2> QED
    BY <1>5, <2>1, <2>2
<1>9. ASSUME NEW v \in Users PROVE CallOk(v, e[v], p, s, g)
  <2>1. CASE v = u
    BY <1>3, <2>1 DEF CallOk
  <2>2. CASE v # u
    <3>1. CallOk(v, c[v], q, s, g) /\ e[v] = c[v]
      BY <1>3, <2>2 DEF PathOk
    <3>2. c[v].at = "sendTested" => Before(f.msg, c[v].msg)
      BY <1>1, <1>2, <2>2, <3>1 DEF CallOk, Before
    <3> QED
      BY <1>5, <3>1, <3>2 DEF CallOk
  <2> QED
    BY <2>1, <2>2
<1>10. PathOk(s, p, e, g)
  BY <1>8, <1>9 DEF PathOk
<1> QED
  BY <1>10 DEF p, e, f
------------------------------------------------------------------------------
LEMMA PathTypes ==
  ASSUME IInv
  PROVE  /\ Out \in Seq(Any) /\ queue \in Seq(Functors) /\ call \in [Users -> Calls]
         /\ sent \in [Threads -> Nat]
         /\ wire \in Seq(Any) /\ outputBuffer_ \in Seq(Any)
<1>1. /\ wire \in Seq(Any) /\ outputBuffer_ \in Seq(Any) /\ queue \in Seq(Functors)
  BY Types DEF IInv
<1>2. call \in [Users -> Calls] /\ sent \in [Threads -> Nat]
  BY ConnectionAssumption DEF IInv, TypeOK
<1> QED
  BY <1>1, <1>2, ConcatProperties DEF Out

(* What steps that send nothing leave of all this.                         *)
Quiet ==
  /\ Out' = Out /\ sent' = sent /\ Extends(queue, queue')
  /\ \A u \in Users : call'[u] = call[u] \/ call'[u].at # "sendTested"

LEMMA QuietPath ==
  ASSUME OnTheWay, Quiet
  PROVE  OnTheWay'
<1>1. PathOk(Out, queue', call, sent)
  BY PathExtended DEF OnTheWay, Quiet
<1>2. PathOk(Out, queue', call', sent)
  BY <1>1, CallsOver DEF Quiet
<1> QED
  BY <1>2 DEF OnTheWay, Quiet

LEMMA QuietSteps ==
  ASSUME \/ \E r \in SUBSET Reported : Poll(r)
         \/ HandleHup \/ HandleRead \/ CallbackReturns
         \/ \E how \in {"closed", "reset"} : PeerEnds(how)
         \/ UNCHANGED vars
  PROVE  Quiet
<1>1. /\ outputBuffer_' = outputBuffer_ /\ wire' = wire /\ queue' = queue
      /\ call' = call /\ sent' = sent
  BY DEF Poll, HandleHup, HandleRead, HandleClose, CallbackReturns, PeerEnds,
         vars, outVars
<1>2. Extends(queue, queue)
  BY DEF Extends
<1> QED
  BY <1>1, <1>2 DEF Quiet, Out

LEMMA QuietShutdown ==
  ASSUME IInv,
         \/ Shutdown
         \/ \E u \in Users : ShutdownTest(u) \/ ShutdownSet(u) \/ ShutdownQueue(u)
  PROVE  Quiet
<1>1. /\ sent' = sent /\ UNCHANGED outVars
      /\ queue' \in {queue, Append(queue, Fn("shutdownInLoop"))}
  BY DEF Shutdown, ShutdownTest, ShutdownSet, ShutdownQueue
<1>2. Out' = Out
  BY <1>1 DEF outVars, Out
<1>3. Extends(queue, queue')
  <2>1. Extends(queue, queue) /\ Extends(queue, Append(queue, Fn("shutdownInLoop")))
    BY PathTypes, FunctorTypes, QuietFunctors, ExtendsAppend DEF Extends
  <2> QED
    BY <1>1, <2>1
<1>4. CASE Shutdown
  BY <1>1, <1>2, <1>3, <1>4 DEF Shutdown, Quiet
<1>5. ASSUME NEW u \in Users, ShutdownTest(u) \/ ShutdownSet(u) \/ ShutdownQueue(u)
      PROVE  Quiet
  <2>1. call \in [Users -> Calls]
    BY PathTypes
  <2>2. \/ \E at \in {"shutdownTested", "shutdownSet"} :
             call' = [call EXCEPT ![u].at = at]
        \/ call' = [call EXCEPT ![u] = NoCall]
    BY <1>5 DEF ShutdownTest, ShutdownSet, ShutdownQueue
  <2>3. \A v \in Users : v # u => call'[v] = call[v]
    BY <2>1, <2>2
  <2>4. call'[u].at # "sendTested"
    <3>1. ASSUME NEW at \in {"shutdownTested", "shutdownSet"},
                 call' = [call EXCEPT ![u].at = at]
          PROVE  call'[u].at # "sendTested"
      <4>1. call'[u] = [call[u] EXCEPT !.at = at] /\ call[u] \in Calls
        BY <2>1, <3>1
      <4> QED
        BY <4>1 DEF Calls
    <3>2. ASSUME call' = [call EXCEPT ![u] = NoCall]
          PROVE  call'[u].at # "sendTested"
      BY <2>1, <3>2 DEF NoCall
    <3> QED
      BY <2>2, <3>1, <3>2
  <2> QED
    BY <1>1, <1>2, <1>3, <2>3, <2>4 DEF Quiet
<1> QED
  BY <1>1, <1>4, <1>5

LEMMA QuietWrite ==
  ASSUME IInv, NEW n \in 0..MaxBytes, HandleWrite(n)
  PROVE  Quiet
<1>1. call' = call /\ sent' = sent
  BY DEF HandleWrite, AtWrite
<1>2. Extends(queue, queue)
  BY DEF Extends
<1>3. CASE ~isWriting(channel_)
  <2>1. outputBuffer_' = outputBuffer_ /\ wire' = wire /\ queue' = queue
    BY <1>3 DEF HandleWrite, outVars
  <2> QED
    BY <1>1, <1>2, <2>1 DEF Quiet, Out
<1>4. CASE isWriting(channel_)
  <2> DEFINE left == SubSeq(outputBuffer_, n + 1, Len(outputBuffer_))
  <2>1. /\ n \in Written(outputBuffer_)
        /\ outputBuffer_' = left /\ wire' = wire \o SubSeq(outputBuffer_, 1, n)
        /\ n > 0 => Drained(left)
        /\ ~(n > 0) => queue' = queue
    BY <1>4 DEF HandleWrite, WriteOut
  <2>2. n \in 0..Len(outputBuffer_)
    BY <2>1, PathTypes DEF Written
  <2>3. Out' = Out
    BY <2>1, <2>2, PathTypes, WriteMoves DEF Out
  <2> HIDE DEF left
  <2>4. queue' \in {queue, Append(queue, Fn("nothing"))}
    BY <2>1 DEF Drained
  <2>5. Extends(queue, queue')
    <3>1. Extends(queue, Append(queue, Fn("nothing")))
      BY PathTypes, FunctorTypes, QuietFunctors, ExtendsAppend
    <3> QED
      BY <1>2, <2>4, <3>1
  <2> QED
    BY <1>1, <2>3, <2>5 DEF Quiet
<1> QED
  BY <1>3, <1>4

(* sendInLoop, with a message that comes before all that wait.             *)
LEMMA SendPath ==
  ASSUME IInv, NEW m \in Msgs, NEW data, NEW rest \in Seq(Functors),
         NEW g \in [Threads -> Nat], sent' = g, call' = call,
         data = BytesOf(m) \/ data = [i \in 1..m.len |-> Garbage],
         SendInLoop(data, rest), PathOk(Out, rest, call, g),
         After(m, Out), Given(m, g),
         \A j \in DOMAIN rest : IsSend(rest[j]) => Before(m, rest[j].msg),
         \A u \in Users : call[u].at = "sendTested" => Before(m, call[u].msg)
  PROVE  OnTheWay'
<1>1. data \in Seq(Any)
  BY MessageBytes
<1>2. /\ \E k \in 0..Len(data) : Out' = Out \o SubSeq(data, 1, k)
      /\ Extends(rest, queue')
  BY <1>1, SendPutsOut
<1>3. PICK k \in 0..Len(data) : Out' = Out \o SubSeq(data, 1, k)
  BY <1>2
<1> DEFINE d == SubSeq(data, 1, k)
<1>4. d \in Seq(Any) /\ Carries(d, m)
  BY Pieces
<1> HIDE DEF d
<1>5. PathOk(Out \o d, rest, call, g)
  BY <1>4, PathTypes, PathGrows
<1>6. PathOk(Out', queue', call, g)
  <2>1. Out' = Out \o d
    BY <1>3 DEF d
  <2> QED
    BY <1>2, <1>5, <2>1, PathExtended
<1> QED
  BY <1>6 DEF OnTheWay

LEMMA RunFunctorPath ==
  ASSUME IInv, OnTheWay, RunFunctor
  PROVE  OnTheWay'
<1> DEFINE f == Head(queue)
<1>1. queue # <<>> /\ call' = call /\ sent' = sent
  BY DEF RunFunctor
<1>2. f \in Functors /\ Tail(queue) \in Seq(Functors)
  BY <1>1, PathTypes
<1>3. /\ PathOk(Out, Tail(queue), call, sent)
      /\ IsSend(f) =>
           /\ Given(f.msg, sent) /\ After(f.msg, Out)
           /\ \A j \in DOMAIN Tail(queue) :
                IsSend(Tail(queue)[j]) => Before(f.msg, Tail(queue)[j].msg)
           /\ \A u \in Users : call[u].at = "sendTested" => Before(f.msg, call[u].msg)
  BY <1>1, PathTypes, PathTaken DEF OnTheWay
<1>4. CASE IsSend(f)
  <2>1. PICK data \in Found(f.msg) : SendInLoop(data, Tail(queue))
    BY <1>4 DEF RunFunctor, IsSend
  <2>2. f.msg \in Msgs
    BY <1>2, <1>4, MessageTypes
  <2>3. data = BytesOf(f.msg) \/ data = [i \in 1..f.msg.len |-> Garbage]
    BY <2>1 DEF Found
  <2> HIDE DEF f
  <2> QED
    BY <1>1, <1>2, <1>3, <1>4, <2>1, <2>2, <2>3, PathTypes, SendPath
<1>5. CASE ~IsSend(f)
  <2>1. queue' = Tail(queue) /\ UNCHANGED outVars
    BY <1>5 DEF RunFunctor, IsSend
  <2>2. Out' = Out
    BY <2>1 DEF outVars, Out
  <2> QED
    BY <1>1, <1>3, <2>1, <2>2 DEF OnTheWay
<1> QED
  BY <1>4, <1>5

(* What a call of send() gives.                                            *)
LEMMA GivenMessage ==
  ASSUME IInv, NEW t \in Threads, NEW len \in 1..MaxLen, Gives(t, len)
  PROVE  /\ Message(t, len) \in Msgs
         /\ Message(t, len).from = t /\ Message(t, len).first = sent[t] + 1
         /\ Given(Message(t, len), sent')
         /\ sent' \in [Threads -> Nat]
         /\ \A r \in Threads : sent[r] <= sent'[r]
<1>1. /\ Message(t, len) \in Msgs /\ sent' \in [Threads -> 0..MaxBytes]
  BY Messages DEF IInv
<1>2. /\ sent \in [Threads -> Nat] /\ sent' = [sent EXCEPT ![t] = sent[t] + len]
      /\ len \in Nat /\ sent' \in [Threads -> Nat]
  BY <1>1, PathTypes, ConnectionAssumption DEF Gives
<1>3. /\ Message(t, len).from = t /\ Message(t, len).first = sent[t] + 1
      /\ Message(t, len).len = len
  BY DEF Message
<1>4. sent'[t] = sent[t] + len /\ \A r \in Threads : r # t => sent'[r] = sent[r]
  BY <1>2
<1>5. Given(Message(t, len), sent')
  <2>1. sent[t] \in Nat
    BY <1>2
  <2>2. sent[t] + 1 + len <= sent'[t] + 1
    BY <1>2, <1>4, <2>1
  <2> QED
    BY <1>3, <2>2 DEF Given
<1>6. ASSUME NEW r \in Threads PROVE sent[r] <= sent'[r]
  <2>1. sent[r] \in Nat /\ sent'[r] \in Nat
    BY <1>2
  <2>2. CASE r = t
    BY <1>2, <1>4, <2>1, <2>2
  <2>3. CASE r # t
    BY <1>4, <2>1, <2>3
  <2> QED
    BY <2>2, <2>3
<1> QED
  BY <1>1, <1>2, <1>3, <1>5, <1>6

LEMMA SendInCallback ==
  ASSUME IInv, OnTheWay, NEW len \in 1..MaxLen, Send(len)
  PROVE  OnTheWay'
<1>1. /\ Gives(Loop, len) /\ SendInLoop(BytesOf(Message(Loop, len)), queue)
      /\ call' = call
  BY DEF Send
<1>2. Loop \in Threads /\ Loop \notin Users
  BY ConnectionAssumption DEF Threads
<1>3. PICK m : m = Message(Loop, len)
  OBVIOUS
<1>4. PICK g : g = sent'
  OBVIOUS
<1>5. /\ m \in Msgs /\ m.from = Loop /\ m.first = sent[Loop] + 1
      /\ Given(m, g) /\ g \in [Threads -> Nat]
      /\ \A r \in Threads : sent[r] <= g[r]
  BY <1>1, <1>2, <1>3, <1>4, GivenMessage
<1>6. PathOk(Out, queue, call, g)
  BY <1>5, PathTypes, PathGiven DEF OnTheWay
<1>7. After(m, Out)
  <2> SUFFICES ASSUME NEW i \in DOMAIN Out, Out[i].from = m.from
               PROVE  Out[i].n < m.first
    BY DEF After
  <2>1. Out[i].n <= sent[Loop]
    BY <1>2, <1>5 DEF OnTheWay, PathOk, OutOk
  <2>2. Out[i].n \in Nat /\ sent[Loop] \in Nat
    BY <1>2, PathTypes, MessageTypes
  <2> QED
    BY <1>5, <2>1, <2>2
<1>8. \A j \in DOMAIN queue : IsSend(queue[j]) => Before(m, queue[j].msg)
  BY <1>5 DEF OnTheWay, PathOk, QueueOk, Before
<1>9. \A u \in Users : call[u].at = "sendTested" => Before(m, call[u].msg)
  BY <1>2, <1>5 DEF OnTheWay, PathOk, CallOk, Before
<1> QED
  BY <1>1, <1>3, <1>4, <1>5, <1>6, <1>7, <1>8, <1>9, PathTypes, SendPath

LEMMA UserPath ==
  ASSUME IInv, OnTheWay, NEW u \in Users,
         \/ \E len \in 1..MaxLen : SendTest(u, len)
         \/ SendQueue(u)
  PROVE  OnTheWay'
<1>1. UNCHANGED outVars /\ Out' = Out
  <2>1. UNCHANGED outVars
    BY DEF SendTest, SendQueue
  <2> QED
    BY <2>1 DEF outVars, Out
<1>2. ASSUME NEW len \in 1..MaxLen, SendTest(u, len) PROVE OnTheWay'
  <2>1. /\ Gives(u, len) /\ queue' = queue
        /\ call' = [call EXCEPT ![u] = [at |-> "sendTested", msg |-> Message(u, len)]]
    BY <1>2 DEF SendTest
  <2>2. PICK m : m = Message(u, len)
    OBVIOUS
  <2>3. PICK g : g = sent'
    OBVIOUS
  <2>4. /\ m \in Msgs /\ m.from = u /\ m.first = sent[u] + 1
        /\ Given(m, g) /\ g \in [Threads -> Nat]
        /\ \A r \in Threads : sent[r] <= g[r]
    BY <2>1, <2>2, <2>3, GivenMessage DEF Threads
  <2>5. PathOk(Out, queue, [call EXCEPT ![u] = [at |-> "sendTested", msg |-> m]], g)
    BY <2>4, PathTypes, NewCall DEF OnTheWay
  <2> QED
    BY <1>1, <2>1, <2>2, <2>3, <2>5, Zenon DEF OnTheWay
<1>3. ASSUME SendQueue(u) PROVE OnTheWay'
  <2>1. /\ call[u].at = "sendTested" /\ sent' = sent
        /\ queue' = Append(queue, [op |-> "sendInLoop", msg |-> call[u].msg])
        /\ call' = [call EXCEPT ![u] = NoCall]
    BY <1>3 DEF SendQueue
  <2>2. PathOk(Out, Append(queue, [op |-> "sendInLoop", msg |-> call[u].msg]),
               [call EXCEPT ![u] = NoCall], sent)
    BY <2>1, PathTypes, NewFunctor DEF OnTheWay
  <2> QED
    BY <1>1, <2>1, <2>2, Zenon DEF OnTheWay
<1> QED
  BY <1>2, <1>3

LEMMA OnTheWayInit == Init => OnTheWay
<1> SUFFICES ASSUME Init PROVE OnTheWay
  OBVIOUS
<1>1. wire = <<>> /\ outputBuffer_ = <<>> /\ queue = <<>>
  BY DEF Init
<1>2. Out = <<>> /\ DOMAIN Out = {}
  BY <1>1 DEF Out
<1>3. \A u \in Users : call[u].at # "sendTested"
  BY DEF Init, NoCall
<1>4. OutOk(Out, sent)
  BY <1>2, Zenon DEF OutOk, InOrder
<1>5. QueueOk(queue, Out, sent)
  BY <1>1 DEF QueueOk
<1>6. \A u \in Users : CallOk(u, call[u], queue, Out, sent)
  BY <1>3 DEF CallOk
<1> QED
  BY <1>4, <1>5, <1>6 DEF OnTheWay, PathOk

LEMMA OnTheWayNext == IInv /\ OnTheWay /\ [Next]_vars => OnTheWay'
<1> SUFFICES ASSUME IInv, OnTheWay, [Next]_vars PROVE OnTheWay'
  OBVIOUS
<1>1. ASSUME Quiet PROVE OnTheWay'
  BY <1>1, QuietPath
<1>2. CASE UNCHANGED vars
  BY <1>1, <1>2, QuietSteps
<1>3. CASE Next
  BY <1>1, <1>3, QuietSteps, QuietShutdown, QuietWrite, RunFunctorPath,
     SendInCallback, UserPath DEF Next, Writes
<1> QED
  BY <1>2, <1>3

LEMMA OnTheWayAlways == Spec => []OnTheWay
BY OnTheWayInit, OnTheWayNext, Invariant, PTL DEF Spec

(* The bytes of each thread reach the wire in the order in which it gave   *)
(* them to send(), none of them twice, for any number of threads, any      *)
(* number of sends that one of them has in the queue, writes that take a   *)
(* part, and callers whose string is gone when sendInLoop runs.  The       *)
(* invariant has to follow a message from the call of send() through the   *)
(* queue to the bytes it becomes, and to keep the messages of one thread   *)
(* in the order of their numbers.                                          *)
THEOREM BytesInOrder == Spec => []WireInOrder
<1>1. OnTheWay => WireInOrder
  BY DEF OnTheWay, PathOk, OutOk, InOrder, Out, WireInOrder
<1> QED
  BY <1>1, OnTheWayAlways, PTL
------------------------------------------------------------------------------
(* The steps of the output path, as steps of the abstract stream.          *)

LEMMA OutLength ==
  ASSUME NEW w \in Seq(Any), NEW b \in Seq(Any)
  PROVE  /\ Len(w \o b) = Len(w) + Len(b)
         /\ Len(w) \in Nat /\ Len(b) \in Nat
         /\ b = <<>> <=> Len(b) = 0
OBVIOUS

LEMMA Grown ==
  ASSUME NEW s \in Seq(Any), NEW d \in Seq(Any)
  PROVE  Len(s) <= Len(s \o d) /\ SubSeq(s \o d, 1, Len(s)) = s
<1>1. Len(s) \in Nat /\ Len(d) \in Nat /\ Len(s \o d) = Len(s) + Len(d)
  OBVIOUS
<1>2. SubSeq(s \o d, 1, Len(s)) = s
  BY <1>1, ConcatProperties, SubSeqFull
<1> QED
  BY <1>1, <1>2

(* After the FIN sendInLoop writes nothing, and keeps nothing unless the   *)
(* connection has ended; straight to the socket it writes only when        *)
(* nothing waits.                                                          *)
LEMMA SendTakes ==
  ASSUME IInv, NEW data \in Seq(Any), NEW rest \in Seq(Functors),
         SendInLoop(data, rest)
  PROVE  /\ Len(wire) <= Len(wire')
         /\ Len(wire') # Len(wire) => outputBuffer_ = <<>> /\ ~wrShut
         /\ wrShut /\ ~closed => Out' = Out /\ Len(wire') = Len(wire)
         /\ closed' = closed
<1>1. /\ wire \in Seq(Any) /\ outputBuffer_ \in Seq(Any) /\ Len(data) \in Nat
      /\ Len(wire) \in Nat
  BY PathTypes
<1>2. CASE state_ = "kDisconnected"
  BY <1>1, <1>2 DEF SendInLoop, outVars, Out
<1>3. CASE state_ # "kDisconnected"
  <2> DEFINE Keeps(n) == /\ ~Fault /\ Len(data) - n > 0
                         /\ CrossesMark(Len(data) - n)
  <2>1. PICK n \in IF Direct THEN Written(data) ELSE {0} :
          /\ wire' = wire \o SubSeq(data, 1, n)
          /\ outputBuffer_' = IF Keeps(n)
                              THEN outputBuffer_ \o SubSeq(data, n + 1, Len(data))
                              ELSE outputBuffer_
          /\ closed' = closed
    BY <1>3 DEF SendInLoop
  <2>2. n \in 0..Len(data) /\ (n # 0 => Direct /\ CanWrite)
    BY <1>1 DEF Written
  <2>3. Len(wire') = Len(wire) + n /\ (n = 0 => wire' = wire)
    <3>1. SubSeq(data, 1, n) \in Seq(Any) /\ Len(SubSeq(data, 1, n)) = n
      BY <1>1, <2>2, Parts, SubSeqProperties
    <3>2. Len(wire') = Len(wire) + n
      BY <1>1, <2>1, <3>1
    <3>3. n = 0 => SubSeq(data, 1, n) = <<>>
      BY <3>1
    <3> QED
      BY <1>1, <2>1, <3>2, <3>3, ConcatEmptySeq
  <2>4. n # 0 => outputBuffer_ = <<>> /\ ~wrShut
    BY <2>2 DEF Direct, CanWrite
  <2>5. ASSUME wrShut, ~closed PROVE Out' = Out /\ n = 0
    <3>1. Registered(channel_) /\ outputBuffer_ = <<>>
      BY <2>5 DEF IInv, TypeOK, FinAfterData
    <3>2. Direct /\ ~CanWrite
      BY <2>5, <3>1 DEF IInv, WritingIffBuffered, Direct, CanWrite
    <3>3. ~Keeps(n)
      BY <3>2 DEF Fault
    <3> HIDE DEF Keeps
    <3>4. outputBuffer_' = outputBuffer_ /\ n = 0
      BY <2>1, <2>2, <3>2, <3>3
    <3> QED
      BY <2>3, <3>4 DEF Out
  <2> QED
    BY <1>1, <2>1, <2>2, <2>3, <2>4, <2>5
<1> QED
  BY <1>2, <1>3

LEMMA SendAccepts ==
  ASSUME IInv, IInv', OnTheWay', NEW data \in Seq(Any), NEW rest \in Seq(Functors),
         SendInLoop(data, rest), wrShut' = wrShut
  PROVE  [BS!Next]_BS!vars
<1>1. /\ Len(wire) <= Len(wire')
      /\ Len(wire') # Len(wire) => outputBuffer_ = <<>> /\ ~wrShut
      /\ wrShut /\ ~closed => Out' = Out /\ Len(wire') = Len(wire)
      /\ closed' = closed
  BY SendTakes
<1>2. /\ wire \in Seq(Any) /\ outputBuffer_ \in Seq(Any) /\ Out \in Seq(Any)
      /\ Len(wire) \in Nat
      /\ wire' \in Seq(Any) /\ outputBuffer_' \in Seq(Any)
  <2>1. wire' \in Seq(Any) /\ outputBuffer_' \in Seq(Any)
    BY DEF IInv, TypeOK, Any
  <2> QED
    BY <2>1, PathTypes
<1>3. PICK k \in 0..Len(data) : Out' = Out \o SubSeq(data, 1, k)
  BY SendPutsOut
<1>4. Len(Out) <= Len(Out') /\ SubSeq(Out', 1, Len(Out)) = Out
  <2>1. SubSeq(data, 1, k) \in Seq(Any)
    BY Parts
  <2> QED
    BY <1>2, <1>3, <2>1, Grown
<1>5. BS!InOrder(Out')
  BY DEF OnTheWay, PathOk, OutOk, InOrder, BS!InOrder
<1>6. Len(wire') \in Len(wire)..Len(Out')
  <2>1. Len(Out') = Len(wire') + Len(outputBuffer_') /\ Len(outputBuffer_') \in Nat
    BY <1>2, OutLength DEF Out
  <2> QED
    BY <1>1, <1>2, <2>1
<1>7. Len(wire') # Len(wire) => ~(Len(wire) < Len(Out)) /\ ~wrShut
  <2>1. outputBuffer_ = <<>> => Len(Out) = Len(wire)
    BY <1>2, OutLength DEF Out
  <2> QED
    BY <1>1, <1>2, <2>1
<1>8. CASE wrShut /\ ~closed
  <2>1. UNCHANGED <<Out, Len(wire), wrShut, closed>>
    BY <1>1, <1>8
  <2> QED
    BY <2>1 DEF BS!vars, Out
<1>9. CASE ~wrShut \/ closed
  <2>1. BS!Accept
    BY <1>1, <1>4, <1>5, <1>6, <1>7, <1>9 DEF BS!Accept, BS!Pending, Out
  <2> QED
    BY <2>1 DEF BS!Next
<1> QED
  BY <1>8, <1>9

LEMMA WriteDelivers ==
  ASSUME IInv, NEW n \in 0..MaxBytes, HandleWrite(n)
  PROVE  [BS!Next]_BS!vars
<1>1. Out' = Out
  BY QuietWrite DEF Quiet
<1>2. CASE ~isWriting(channel_)
  <2>1. wire' = wire /\ wrShut' = wrShut /\ closed' = closed
    BY <1>2 DEF HandleWrite, outVars
  <2> QED
    BY <1>1, <2>1 DEF BS!vars, Out
<1>3. CASE isWriting(channel_)
  <2> DEFINE left == SubSeq(outputBuffer_, n + 1, Len(outputBuffer_))
             part == SubSeq(outputBuffer_, 1, n)
  <2>1. /\ n \in Written(outputBuffer_)
        /\ outputBuffer_' = left /\ wire' = wire \o part /\ closed' = closed
        /\ n > 0 => Drained(left)
        /\ ~(n > 0) => UNCHANGED <<channel_, queue, wrShut>>
    BY <1>3 DEF HandleWrite, WriteOut
  <2>2. /\ wire \in Seq(Any) /\ outputBuffer_ \in Seq(Any)
        /\ Len(wire) \in Nat /\ Len(outputBuffer_) \in Nat
        /\ wrShut \in BOOLEAN
    BY PathTypes DEF IInv, TypeOK
  <2>3. n \in 0..Len(outputBuffer_) /\ (n # 0 => ~wrShut)
    BY <2>1, <2>2 DEF Written, CanWrite
  <2>4. /\ part \in Seq(Any) /\ Len(part) = n
        /\ left \in Seq(Any) /\ Len(left) = Len(outputBuffer_) - n
    BY <2>2, <2>3, Parts, SubSeqProperties
  <2> HIDE DEF left, part
  <2>5. /\ Len(wire') = Len(wire) + n
        /\ Len(Out) = Len(wire) + Len(outputBuffer_)
        /\ Len(Out') = Len(wire') + Len(left)
    <3>1. wire' \in Seq(Any) /\ Len(wire') = Len(wire) + n
      <4>1. wire \o part \in Seq(Any) /\ Len(wire \o part) = Len(wire) + Len(part)
        BY <2>2, <2>4, OutLength, ConcatProperties
      <4>2. wire' = wire \o part
        BY <2>1
      <4> QED
        BY <2>4, <4>1, <4>2
    <3> QED
      BY <2>1, <2>2, <2>4, <3>1, OutLength DEF Out
  <2>6. CASE n = 0
    <3>1. Len(wire') = Len(wire) /\ wrShut' = wrShut
      BY <2>1, <2>2, <2>5, <2>6
    <3> QED
      BY <1>1, <2>1, <3>1 DEF BS!vars, Out
  <2>7. CASE n # 0
    <3>1. wrShut' = (wrShut \/ (/\ left = <<>> /\ state_ = "kDisconnecting"
                                /\ MayShutWrite(AfterWrite(left))))
      BY <2>1, <2>3, <2>7 DEF Drained
    <3>2. ~wrShut /\ wrShut' \in BOOLEAN /\ (wrShut' => left = <<>>)
      BY <2>3, <2>7, <3>1
    <3>3. Len(wire') \in (Len(wire) + 1)..Len(Out)
      BY <2>2, <2>3, <2>5, <2>7
    <3>4. wrShut' => ~(Len(wire') < Len(Out'))
      <4>1. left = <<>> => Len(left) = 0
        BY <2>4
      <4>2. Len(wire') \in Nat
        BY <2>2, <2>3, <2>5
      <4> QED
        BY <2>5, <3>2, <4>1, <4>2
    <3>5. BS!Deliver
      BY <1>1, <2>1, <3>2, <3>3, <3>4 DEF BS!Deliver, BS!Pending, Out
    <3> QED
      BY <3>5 DEF BS!Next
  <2> QED
    BY <2>6, <2>7
<1> QED
  BY <1>2, <1>3

LEMMA FunctorRefines ==
  ASSUME IInv, IInv', OnTheWay', RunFunctor
  PROVE  [BS!Next]_BS!vars
<1> DEFINE f == Head(queue)
<1>1. f \in Functors /\ Tail(queue) \in Seq(Functors)
  BY PathTypes DEF RunFunctor
<1>2. CASE IsSend(f)
  <2>1. PICK data \in Found(f.msg) :
          SendInLoop(data, Tail(queue)) /\ wrShut' = wrShut
    BY <1>2 DEF RunFunctor, IsSend
  <2>2. data \in Seq(Any)
    <3>1. f.msg \in Msgs
      BY <1>1, <1>2, MessageTypes
    <3> QED
      BY <2>1, <3>1, MessageBytes DEF Found
  <2> HIDE DEF f
  <2> QED
    BY <1>1, <2>1, <2>2, SendAccepts
<1>3. CASE f.op = "shutdownInLoop"
  <2>1. UNCHANGED outVars /\ wrShut' = (wrShut \/ MayShutWrite(channel_))
    BY <1>3 DEF RunFunctor
  <2>2. wire' = wire /\ outputBuffer_' = outputBuffer_ /\ closed' = closed
    BY <2>1 DEF outVars
  <2>3. CASE wrShut' = wrShut
    BY <2>2, <2>3 DEF BS!vars
  <2>4. CASE wrShut' # wrShut
    <3>1. wrShut' = TRUE /\ ~isWriting(channel_)
      BY <2>1, <2>4 DEF IInv, TypeOK, MayShutWrite
    <3>2. ~closed => outputBuffer_ = <<>>
      BY <3>1 DEF IInv, TypeOK, WritingIffBuffered
    <3>3. outputBuffer_ = <<>> => ~(Len(wire) < Len(wire \o outputBuffer_))
      BY PathTypes, OutLength
    <3>4. BS!Finish
      BY <2>2, <3>1, <3>2, <3>3 DEF BS!Finish, BS!Pending
    <3> QED
      BY <3>4 DEF BS!Next
  <2> QED
    BY <2>3, <2>4
<1>4. CASE ~IsSend(f) /\ f.op # "shutdownInLoop"
  <2>1. UNCHANGED outVars /\ wrShut' = wrShut
    BY <1>4 DEF RunFunctor, IsSend
  <2> QED
    BY <2>1 DEF outVars, BS!vars
<1> QED
  BY <1>2, <1>3, <1>4 DEF IsSend

LEMMA CloseRefines ==
  ASSUME HandleHup \/ HandleRead
  PROVE  [BS!Next]_BS!vars
<1>1. /\ wire' = wire /\ outputBuffer_' = outputBuffer_ /\ wrShut' = wrShut
      /\ closed' = closed \/ closed' = TRUE
  BY DEF HandleHup, HandleRead, HandleClose, outVars
<1> QED
  BY <1>1 DEF BS!Next, BS!End, BS!vars

LEMMA CallRefines ==
  ASSUME IInv, IInv', OnTheWay', NEW len \in 1..MaxLen, Send(len)
  PROVE  [BS!Next]_BS!vars
<1>1. /\ Gives(Loop, len) /\ SendInLoop(BytesOf(Message(Loop, len)), queue)
      /\ wrShut' = wrShut
  BY DEF Send
<1>2. Message(Loop, len) \in Msgs
  BY <1>1, GivenMessage DEF Threads
<1>3. BytesOf(Message(Loop, len)) \in Seq(Any) /\ queue \in Seq(Functors)
  BY <1>2, MessageBytes, PathTypes
<1> QED
  BY <1>1, <1>3, SendAccepts

LEMMA StepRefines ==
  ASSUME IInv, IInv', OnTheWay', [Next]_vars
  PROVE  [BS!Next]_BS!vars
<1>1. ASSUME UNCHANGED outVars, wrShut' = wrShut PROVE UNCHANGED BS!vars
  BY <1>1 DEF outVars, BS!vars
<1>2. CASE \/ \E r \in SUBSET Reported : Poll(r)
           \/ CallbackReturns \/ Shutdown
           \/ \E how \in {"closed", "reset"} : PeerEnds(how)
           \/ UNCHANGED vars
  BY <1>1, <1>2 DEF Poll, CallbackReturns, Shutdown, PeerEnds, vars
<1>3. ASSUME NEW u \in Users,
             \/ \E len \in 1..MaxLen : SendTest(u, len)
             \/ SendQueue(u)
             \/ ShutdownTest(u) \/ ShutdownSet(u) \/ ShutdownQueue(u)
      PROVE  UNCHANGED BS!vars
  BY <1>1, <1>3
     DEF SendTest, SendQueue, ShutdownTest, ShutdownSet, ShutdownQueue
<1> QED
  BY <1>2, <1>3, WriteDelivers, FunctorRefines, CloseRefines, CallRefines
     DEF Next, Writes

(* The output path implements the abstract stream of bytes, but for its    *)
(* fairness, whoever sends and shuts down, also a send() that was put      *)
(* behind a shutdown() in the queue: each step accepts bytes at the  *)
(* end of the stream, takes some from its front, sends the FIN behind the  *)
(* last, ends the connection, or is none of the stream's business.         *)
THEOREM RefinesByteStream == Spec => KeepsStream
<1>1. Init => BS!Init
  <2> SUFFICES ASSUME Init PROVE BS!Init
    OBVIOUS
  <2>1. wire = <<>> /\ outputBuffer_ = <<>> /\ wrShut = FALSE /\ closed = FALSE
    BY DEF Init
  <2>2. wire \o outputBuffer_ = <<>> /\ Len(wire) = 0
    BY <2>1
  <2> QED
    BY <2>1, <2>2 DEF BS!Init
<1>2. IInv /\ IInv' /\ OnTheWay' /\ [Next]_vars => [BS!Next]_BS!vars
  BY StepRefines
<1> QED
  BY <1>1, <1>2, Invariant, OnTheWayAlways, PTL
     DEF Spec, KeepsStream, BS!SafeSpec
==============================================================================
