--------------------------- MODULE EventLoop_proofs ---------------------------
(***************************************************************************)
(* Proofs about EventLoop, for every set of callers and functors.          *)
(***************************************************************************)
EXTENDS EventLoop, QueueLemmas, TLAPS

(* The owner itself is about to write its eventfd only inside a functor    *)
(* (queueInLoop during doPendingFunctors).                                 *)
OwnerWakesInBody == Loop \in wakes => pc = "body"

(* The swapped vector is empty outside doPendingFunctors.                  *)
BatchOnlyWhileRunning == batch # <<>> => pc \in {"run", "body"}

(* From the end of a swap to the next poll, a non-empty queue has a wakeup *)
(* under way: that is what the owner takes into the poll.                  *)
QueueHasWakeup ==
  pc \in {"before", "check", "poll", "run", "body"} /\ PendingFunctors_ # <<>>
    => wakeFd \/ wakes # {}

(* A quit() the owner in the poll has not seen is another thread's, and    *)
(* its wakeup is under way.                                                *)
QuitHasWakeup == pc = "poll" /\ quit_ => WakeupComing

(* What holds whether or not the owner queues before loop().               *)
BaseInv == TypeOK /\ OwnerWakesInBody /\ BatchOnlyWhileRunning

(* The inductive invariant behind NoLostWakeup.                            *)
IInv == BaseInv /\ QueueHasWakeup /\ QuitHasWakeup
------------------------------------------------------------------------------
(* The initial state satisfies BaseInv.                                    *)
LEMMA BaseInit == Init => BaseInv
  BY LoopAssumption, EmptySeq
  DEF Init, BaseInv, TypeOK, OwnerWakesInBody, BatchOnlyWhileRunning, Places,
      Channels, Threads

(* Every step of the owner or of a caller preserves BaseInv.               *)
LEMMA BaseNext == BaseInv /\ [Next]_vars => BaseInv'
<1> SUFFICES ASSUME BaseInv, [Next]_vars PROVE BaseInv'
  OBVIOUS
<1> USE LoopAssumption DEF BaseInv, TypeOK, OwnerWakesInBody,
        BatchOnlyWhileRunning, Places, Channels, Threads, loopVars, queueVars
<1>1. CASE EnterLoop
  BY <1>1 DEF EnterLoop
<1>2. CASE CheckQuit
  BY <1>2 DEF CheckQuit
<1>3. ASSUME NEW ready \in SUBSET Channels, Poll(ready) PROVE BaseInv'
  BY <1>3 DEF Poll
<1>4. CASE HandleRead
  BY <1>4 DEF HandleRead
<1>5. CASE HandleEvent
  BY <1>5 DEF HandleEvent
<1>6. CASE HandlerReturns
  BY <1>6 DEF HandlerReturns
<1>7. CASE SwapFunctors
  BY <1>7 DEF SwapFunctors
<1>8. CASE RunFunctor
  <2>1. Tail(batch) \in Seq(Functors) /\ Head(batch) \in Functors
    BY <1>8, HeadTailProperties DEF RunFunctor
  <2>2. Append(done, Head(batch)) \in Seq(Functors)
    BY <2>1, AppendProperties
  <2> QED
    BY <1>8, <2>1, <2>2 DEF RunFunctor
<1>9. CASE FunctorReturns
  BY <1>9 DEF FunctorReturns
<1>10. CASE BatchDone
  BY <1>10 DEF BatchDone
<1>11. ASSUME NEW t \in Threads, NEW f \in Functors, QueueInLoop(t, f)
       PROVE  BaseInv'
  <2>1. Append(PendingFunctors_, f) \in Seq(Functors)
    BY AppendProperties
  <2> QED
    BY <1>11, <2>1 DEF QueueInLoop, CanCall, OwnerCode, WakesAfterQueue
<1>12. ASSUME NEW t \in Threads, NEW f \in Functors, RunInLoop(t, f)
       PROVE  BaseInv'
  <2>1. CASE t = Loop
    <3>1. Append(done, f) \in Seq(Functors)
      BY AppendProperties
    <3> QED
      BY <1>12, <2>1, <3>1 DEF RunInLoop
  <2>2. CASE t # Loop
    BY <1>11, <1>12, <2>2 DEF RunInLoop
  <2> QED
    BY <2>1, <2>2
<1>13. ASSUME NEW t \in Threads, Quit(t) PROVE BaseInv'
  BY <1>13 DEF Quit
<1>14. ASSUME NEW t \in Threads, Wakeup(t) PROVE BaseInv'
  BY <1>14 DEF Wakeup
<1>15. CASE UNCHANGED vars
  BY <1>15 DEF vars
<1> QED
  BY <1>1, <1>2, <1>3, <1>4, <1>5, <1>6, <1>7, <1>8, <1>9, <1>10, <1>11,
     <1>12, <1>13, <1>14, <1>15 DEF Next

(* Every variable keeps its type, and callingPendingFunctors_ is up        *)
(* exactly during doPendingFunctors.                                       *)
THEOREM TypeCorrect == Spec => []TypeOK
<1>1. BaseInv => TypeOK
  BY DEF BaseInv
<1> QED
  BY <1>1, BaseInit, BaseNext, PTL DEF Spec
------------------------------------------------------------------------------
(* The wakeup invariant is inductive when the owner hands its loop nothing *)
(* before loop().                                                          *)
LEMMA IInvNext ==
  ASSUME ~QueuesBeforeLoop, IInv, [Next]_vars
  PROVE  IInv'
<1>1. BaseInv'
  BY BaseNext DEF IInv
<1> USE LoopAssumption DEF IInv, BaseInv, TypeOK, OwnerWakesInBody,
        QueueHasWakeup, QuitHasWakeup, WakeupComing, Threads, loopVars, queueVars
<1>2. QueueHasWakeup' /\ QuitHasWakeup'
  <2>1. CASE EnterLoop
    BY <2>1 DEF EnterLoop
  <2>2. CASE CheckQuit
    BY <2>2 DEF CheckQuit
  <2>3. ASSUME NEW ready \in SUBSET Channels, Poll(ready)
        PROVE  QueueHasWakeup' /\ QuitHasWakeup'
    BY <2>3 DEF Poll
  <2>4. CASE HandleRead
    BY <2>4 DEF HandleRead
  <2>5. CASE HandleEvent
    BY <2>5 DEF HandleEvent
  <2>6. CASE HandlerReturns
    BY <2>6 DEF HandlerReturns
  <2>7. CASE SwapFunctors
    BY <2>7 DEF SwapFunctors
  <2>8. CASE RunFunctor
    BY <2>8 DEF RunFunctor
  <2>9. CASE FunctorReturns
    BY <2>9 DEF FunctorReturns
  <2>10. CASE BatchDone
    BY <2>10 DEF BatchDone
  <2>11. ASSUME NEW t \in Threads, NEW f \in Functors, QueueInLoop(t, f)
         PROVE  QueueHasWakeup' /\ QuitHasWakeup'
    BY <2>11 DEF QueueInLoop, CanCall, OwnerCode, WakesAfterQueue
  <2>12. ASSUME NEW t \in Threads, NEW f \in Functors, RunInLoop(t, f)
         PROVE  QueueHasWakeup' /\ QuitHasWakeup'
    <3>1. CASE t = Loop
      BY <2>12, <3>1 DEF RunInLoop
    <3>2. CASE t # Loop
      BY <2>11, <2>12, <3>2 DEF RunInLoop
    <3> QED
      BY <3>1, <3>2
  <2>13. ASSUME NEW t \in Threads, Quit(t)
         PROVE  QueueHasWakeup' /\ QuitHasWakeup'
    BY <2>13 DEF Quit, CanCall, OwnerCode
  <2>14. ASSUME NEW t \in Threads, Wakeup(t)
         PROVE  QueueHasWakeup' /\ QuitHasWakeup'
    BY <2>14 DEF Wakeup
  <2>15. CASE UNCHANGED vars
    BY <2>15 DEF vars
  <2> QED
    BY <2>1, <2>2, <2>3, <2>4, <2>5, <2>6, <2>7, <2>8, <2>9, <2>10, <2>11,
       <2>12, <2>13, <2>14, <2>15 DEF Next
<1> QED
  BY <1>1, <1>2

(* The owner is never blocked in epoll_wait with a functor in its queue,   *)
(* or asked to quit, without a wakeup under way, for any number of callers *)
(* and functors: the test of queueInLoop and the write in quit() suffice,  *)
(* provided the owner does not queue before loop().                        *)
THEOREM WakeupSafe ==
  ASSUME ~QueuesBeforeLoop
  PROVE  Spec => []NoLostWakeup
<1>1. Init => IInv
  BY BaseInit DEF Init, IInv, QueueHasWakeup, QuitHasWakeup
<1>2. IInv /\ [Next]_vars => IInv'
  BY IInvNext
<1>3. IInv => NoLostWakeup
  BY LoopAssumption
  DEF IInv, BaseInv, TypeOK, OwnerWakesInBody, QueueHasWakeup, QuitHasWakeup,
      NoLostWakeup, WakeupComing, Threads
<1> QED
  BY <1>1, <1>2, <1>3, PTL DEF Spec
------------------------------------------------------------------------------
(* A functor that is fresh for the loop is fresh for the abstract queue.   *)
LEMMA FreshRefines ==
  ASSUME TypeOK, NEW f \in Functors, Fresh(f)
  PROVE  TQ!Fresh(f)
<1>1. Range(batch \o PendingFunctors_) = Range(batch) \cup Range(PendingFunctors_)
  BY RangeConcatenation DEF TypeOK
<1>2. f \notin Range(batch \o PendingFunctors_) \cup Range(done)
  BY <1>1 DEF Fresh
<1> QED
  BY <1>2 DEF Range, TQ!Fresh, TQ!Range

(* The loop implements the abstract queue: at every step either nothing    *)
(* happens to the functors handed over and not started, or one enters at   *)
(* the end, or the oldest starts, or a fresh one runs at once.             *)
LEMMA StepRefines ==
  ASSUME BaseInv, [Next]_vars
  PROVE  [TQ!Next]_TQ!vars
<1> USE LoopAssumption DEF BaseInv, TypeOK, BatchOnlyWhileRunning, TQ!vars,
        loopVars, queueVars
<1>1. CASE EnterLoop
  BY <1>1 DEF EnterLoop
<1>2. CASE CheckQuit
  BY <1>2 DEF CheckQuit, TQ!Next, TQ!Stop
<1>3. ASSUME NEW ready \in SUBSET Channels, Poll(ready)
      PROVE  UNCHANGED TQ!vars
  BY <1>3 DEF Poll
<1>4. CASE HandleRead
  BY <1>4 DEF HandleRead
<1>5. CASE HandleEvent
  BY <1>5 DEF HandleEvent
<1>6. CASE HandlerReturns
  BY <1>6 DEF HandlerReturns
<1>7. CASE SwapFunctors
  <2>1. batch = <<>> /\ batch' \o PendingFunctors_' = batch \o PendingFunctors_
    BY <1>7, ConcatEmptySeq DEF SwapFunctors
  <2> QED
    BY <1>7, <2>1 DEF SwapFunctors
<1>8. CASE RunFunctor
  <2>1. TQ!RunNext
    BY <1>8, ConcatHeadTail DEF RunFunctor, TQ!RunNext
  <2> QED
    BY <2>1 DEF TQ!Next
<1>9. CASE FunctorReturns
  BY <1>9 DEF FunctorReturns
<1>10. CASE BatchDone
  BY <1>10 DEF BatchDone
<1>11. ASSUME NEW t \in Threads, NEW f \in Functors, QueueInLoop(t, f)
       PROVE  TQ!Next
  <2>1. TQ!Fresh(f)
    BY <1>11, FreshRefines DEF QueueInLoop
  <2>2. batch' \o PendingFunctors_' = Append(batch \o PendingFunctors_, f)
    BY <1>11, ConcatAppend DEF QueueInLoop
  <2>3. TQ!Submit(f)
    BY <1>11, <2>1, <2>2 DEF QueueInLoop, TQ!Submit
  <2> QED
    BY <2>3 DEF TQ!Next
<1>12. ASSUME NEW t \in Threads, NEW f \in Functors, RunInLoop(t, f)
       PROVE  TQ!Next
  <2>1. CASE t = Loop
    <3>1. TQ!Fresh(f)
      BY <1>12, <2>1, FreshRefines DEF RunInLoop
    <3>2. TQ!RunNow(f)
      BY <1>12, <2>1, <3>1 DEF RunInLoop, CanCall, OwnerCode, TQ!RunNow
    <3> QED
      BY <3>2 DEF TQ!Next
  <2>2. CASE t # Loop
    BY <1>11, <1>12, <2>2 DEF RunInLoop
  <2> QED
    BY <2>1, <2>2
<1>13. ASSUME NEW t \in Threads, Quit(t) PROVE UNCHANGED TQ!vars
  BY <1>13 DEF Quit
<1>14. ASSUME NEW t \in Threads, Wakeup(t) PROVE UNCHANGED TQ!vars
  BY <1>14 DEF Wakeup
<1>15. CASE UNCHANGED vars
  BY <1>15 DEF vars
<1> QED
  BY <1>1, <1>2, <1>3, <1>4, <1>5, <1>6, <1>7, <1>8, <1>9, <1>10, <1>11,
     <1>12, <1>13, <1>14, <1>15 DEF Next

(* The safety part of the refinement: every functor starts at most once    *)
(* and queued functors start in the order they were queued, however the    *)
(* threads interleave and also when the owner queues before loop().        *)
THEOREM RefinesTaskQueue == Spec => TQ!SafeSpec
<1>1. Init => TQ!Init
  BY DEF Init, TQ!Init
<1>2. BaseInv /\ [Next]_vars => [TQ!Next]_TQ!vars
  BY StepRefines
<1> QED
  BY <1>1, <1>2, BaseInit, BaseNext, PTL DEF Spec, TQ!SafeSpec
==============================================================================
