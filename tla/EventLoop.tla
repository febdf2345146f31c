------------------------------ MODULE EventLoop ------------------------------
(***************************************************************************)
(* One EventLoop (Eventloop.cpp): the thread that runs loop(), the functor *)
(* queue other threads fill under mutex_, and the eventfd they write to    *)
(* wake the loop out of epoll_wait.  A call of queueInLoop or quit takes   *)
(* two steps, the change of the shared state and the write to wakeFd_,     *)
(* with steps of every other thread in between.                            *)
(***************************************************************************)
EXTENDS Sequences, Functions

CONSTANTS
  Loop,              \* the thread that owns the loop (threadId_)
  Callers,           \* the other threads
  Functors,          \* the functors; each is handed over at most once
  QueuesBeforeLoop   \* may the owner call queueInLoop before loop()?

ASSUME LoopAssumption ==
  /\ Loop \notin Callers
  /\ QueuesBeforeLoop \in BOOLEAN

VARIABLES
  pc,                      \* where the owner is in loop()
  quit_,                   \* quit_
  callingPendingFunctors_, \* callingPendingFunctors_
  PendingFunctors_,        \* PendingFunctors_
  batch,                   \* what is left of doPendingFunctors' local vector
  active,                  \* activeChannels_ not handled yet
  wakeFd,                  \* is wakeFd_ readable (its counter is not 0)?
  wakes,                   \* threads about to call wakeup()
  done                     \* history: the functors that have run

loopVars == <<pc, active>>
queueVars == <<callingPendingFunctors_, PendingFunctors_, batch, done>>
vars == <<pc, quit_, callingPendingFunctors_, PendingFunctors_, batch,
          active, wakeFd, wakes, done>>

(* "wakeup" is the channel of wakeFd_, "io" any other channel of the loop. *)
Channels == {"wakeup", "io"}
Threads == Callers \cup {Loop}

(* "before" is the owner's code up to the call of loop(); "io" and "body"  *)
(* are the inside of a channel's callback and of a functor.                *)
Places == {"before", "check", "poll", "handle", "io", "run", "body", "exited"}

Init ==
  /\ pc = "before"
  /\ quit_ = FALSE
  /\ callingPendingFunctors_ = FALSE
  /\ PendingFunctors_ = <<>>
  /\ batch = <<>>
  /\ active = {}
  /\ wakeFd = FALSE
  /\ wakes = {}
  /\ done = <<>>
------------------------------------------------------------------------------
(* The owner thread: loop().                                               *)

(* Entering loop() resets quit_.                                           *)
EnterLoop ==
  /\ pc = "before"
  /\ quit_' = FALSE
  /\ pc' = "check"
  /\ UNCHANGED <<active, wakeFd, wakes, queueVars>>

(* while(!quit_)                                                           *)
CheckQuit ==
  /\ pc = "check"
  /\ pc' = IF quit_ THEN "exited" ELSE "poll"
  /\ UNCHANGED <<quit_, active, wakeFd, wakes, queueVars>>

(* epoll_wait returns the ready channels: the wakeup channel when its fd   *)
(* is readable, others when the network says so, none on a timeout.        *)
Poll(ready) ==
  /\ pc = "poll"
  /\ ("wakeup" \in ready) = wakeFd
  /\ active' = ready
  /\ pc' = "handle"
  /\ UNCHANGED <<quit_, wakeFd, wakes, queueVars>>

(* The wakeup channel's callback: reading an eventfd sets it to 0.         *)
HandleRead ==
  /\ pc = "handle"
  /\ "wakeup" \in active
  /\ active' = active \ {"wakeup"}
  /\ wakeFd' = FALSE
  /\ UNCHANGED <<pc, quit_, wakes, queueVars>>

HandleEvent ==
  /\ pc = "handle"
  /\ "io" \in active
  /\ active' = active \ {"io"}
  /\ pc' = "io"
  /\ UNCHANGED <<quit_, wakeFd, wakes, queueVars>>

HandlerReturns ==
  /\ pc = "io"
  /\ Loop \notin wakes
  /\ pc' = "handle"
  /\ UNCHANGED <<quit_, active, wakeFd, wakes, queueVars>>

(* Mut...: a deliberately wrong variant of the operator below it, kept to   *)
(* show that the properties notice.  Here: a copy instead of a swap.       *)
MutSwapKeepsQueue ==
  /\ pc = "handle"
  /\ active = {}
  /\ callingPendingFunctors_' = TRUE
  /\ batch' = PendingFunctors_
  /\ pc' = "run"
  /\ UNCHANGED <<quit_, active, wakeFd, wakes, PendingFunctors_, done>>

(* doPendingFunctors up to its loop: the swap under mutex_.                *)
SwapFunctors ==
  /\ pc = "handle"
  /\ active = {}
  /\ callingPendingFunctors_' = TRUE
  /\ batch' = PendingFunctors_
  /\ PendingFunctors_' = <<>>
  /\ pc' = "run"
  /\ UNCHANGED <<quit_, active, wakeFd, wakes, done>>

RunFunctor ==
  /\ pc = "run"
  /\ batch # <<>>
  /\ done' = Append(done, Head(batch))
  /\ batch' = Tail(batch)
  /\ pc' = "body"
  /\ UNCHANGED <<quit_, active, wakeFd, wakes, callingPendingFunctors_,
                 PendingFunctors_>>

FunctorReturns ==
  /\ pc = "body"
  /\ Loop \notin wakes
  /\ pc' = "run"
  /\ UNCHANGED <<quit_, active, wakeFd, wakes, queueVars>>

(* Without the last line of doPendingFunctors.                             *)
MutBatchDoneKeepsFlag ==
  /\ pc = "run"
  /\ batch = <<>>
  /\ pc' = "check"
  /\ UNCHANGED <<quit_, active, wakeFd, wakes, queueVars>>

BatchDone ==
  /\ pc = "run"
  /\ batch = <<>>
  /\ callingPendingFunctors_' = FALSE
  /\ pc' = "check"
  /\ UNCHANGED <<quit_, active, wakeFd, wakes, PendingFunctors_, batch, done>>
------------------------------------------------------------------------------
(* The calls: by another thread at any time, by the owner from a callback, *)
(* a functor, or (with QueuesBeforeLoop) before it enters loop().          *)

Fresh(f) == f \notin Range(PendingFunctors_) \cup Range(batch) \cup Range(done)

OwnerCode == {"io", "body"} \cup (IF QueuesBeforeLoop THEN {"before"} ELSE {})

CanCall(t) ==
  /\ t \notin wakes
  /\ t = Loop => pc \in OwnerCode

(* The test the wrong way round.                                           *)
MutWakesUnlessCalling(t) == t # Loop /\ ~callingPendingFunctors_

(* The test at the end of queueInLoop: does this thread call wakeup()?     *)
WakesAfterQueue(t) == t # Loop \/ callingPendingFunctors_

QueueInLoop(t, f) ==
  /\ CanCall(t)
  /\ Fresh(f)
  /\ PendingFunctors_' = Append(PendingFunctors_, f)
  /\ wakes' = IF WakesAfterQueue(t) THEN wakes \cup {t} ELSE wakes
  /\ UNCHANGED <<pc, quit_, active, wakeFd, callingPendingFunctors_, batch, done>>

(* In the owner's thread the functor runs at once, inside the caller's.    *)
RunInLoop(t, f) ==
  IF t = Loop
  THEN /\ CanCall(t)
       /\ Fresh(f)
       /\ done' = Append(done, f)
       /\ UNCHANGED <<pc, quit_, active, wakeFd, wakes,
                      callingPendingFunctors_, PendingFunctors_, batch>>
  ELSE QueueInLoop(t, f)

(* quit() without the wakeup.                                              *)
MutQuitNoWakeup(t) ==
  /\ CanCall(t)
  /\ quit_' = TRUE
  /\ UNCHANGED <<loopVars, wakeFd, wakes, queueVars>>

Quit(t) ==
  /\ CanCall(t)
  /\ quit_' = TRUE
  /\ wakes' = IF t # Loop THEN wakes \cup {t} ELSE wakes
  /\ UNCHANGED <<loopVars, wakeFd, queueVars>>

Wakeup(t) ==
  /\ t \in wakes
  /\ wakeFd' = TRUE
  /\ wakes' = wakes \ {t}
  /\ UNCHANGED <<loopVars, quit_, queueVars>>
------------------------------------------------------------------------------
Next ==
  \/ EnterLoop \/ CheckQuit
  \/ \E ready \in SUBSET Channels : Poll(ready)
  \/ HandleRead \/ HandleEvent \/ HandlerReturns
  \/ SwapFunctors \/ RunFunctor \/ FunctorReturns \/ BatchDone
  \/ \E t \in Threads :
       \/ \E f \in Functors : QueueInLoop(t, f) \/ RunInLoop(t, f)
       \/ Quit(t)
       \/ Wakeup(t)

Spec == Init /\ [][Next]_vars

(* The owner keeps running while it is not blocked, and leaves epoll_wait  *)
(* when the eventfd is readable; callbacks and functors return; a thread   *)
(* inside queueInLoop or quit reaches its wakeup().  Nothing is assumed of *)
(* the 10 s timeout or of traffic on other channels.                       *)
OwnerStep ==
  \/ EnterLoop \/ CheckQuit
  \/ wakeFd /\ \E ready \in SUBSET Channels : Poll(ready)
  \/ HandleRead \/ HandleEvent \/ HandlerReturns
  \/ SwapFunctors \/ RunFunctor \/ FunctorReturns \/ BatchDone
  \/ Wakeup(Loop)

Fairness ==
  /\ WF_vars(OwnerStep)
  /\ \A t \in Callers : WF_vars(Wakeup(t))

FairSpec == Spec /\ Fairness
------------------------------------------------------------------------------
(* Types; the flag callingPendingFunctors_ is up exactly while the owner is *)
(* between the swap and the last line of doPendingFunctors.                *)
TypeOK ==
  /\ pc \in Places
  /\ quit_ \in BOOLEAN
  /\ callingPendingFunctors_ \in BOOLEAN
  /\ callingPendingFunctors_ <=> pc \in {"run", "body"}
  /\ PendingFunctors_ \in Seq(Functors)
  /\ batch \in Seq(Functors)
  /\ active \subseteq Channels
  /\ wakeFd \in BOOLEAN
  /\ wakes \subseteq Threads
  /\ done \in Seq(Functors)

(* A wakeup is under way: the eventfd is readable, or a thread other than  *)
(* the owner is about to write it.                                         *)
WakeupComing == wakeFd \/ wakes \cap Callers # {}

(* No lost wakeup: the owner is never blocked in epoll_wait with work in   *)
(* the queue, or asked to quit, unless a wakeup is under way (queueInLoop, *)
(* quit and doPendingFunctors, with the callingPendingFunctors_ test).     *)
NoLostWakeup ==
  pc = "poll" /\ (PendingFunctors_ # <<>> \/ quit_) => WakeupComing

(* The loop implements the abstract task queue: at most once, in queue     *)
(* order, and (under FairSpec) each functor in the queue runs unless the   *)
(* loop exits.  The functors left of the swapped vector come before those  *)
(* of the shared one.                                                      *)
TQ == INSTANCE TaskQueue WITH pending <- batch \o PendingFunctors_,
                              stopped <- pc = "exited"
ImplementsTaskQueue == TQ!Spec

(* quit() called once the owner is inside loop() makes loop() return.      *)
QuitStopsLoop == (quit_ /\ pc # "before") ~> pc = "exited"

(* The promise of quit() as its comment states it, whenever it is called.  *)
QuitAlwaysStopsLoop == quit_ ~> pc = "exited"
==============================================================================
