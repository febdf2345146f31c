------------------------------ MODULE TaskQueue ------------------------------
(***************************************************************************)
(* What an EventLoop promises to the threads that hand it work: a functor  *)
(* given to runInLoop or queueInLoop runs at most once, functors that go   *)
(* through the queue run in the order they entered it, and every one of    *)
(* them runs unless the loop stops first.  EventLoop implements it.        *)
(***************************************************************************)
EXTENDS Sequences, Functions

CONSTANT Functors   \* the work items; each is handed over at most once

VARIABLES
  pending,   \* queued and not yet started, oldest first
  done,      \* started, in the order in which they started
  stopped    \* the loop has left EventLoop::loop

vars == <<pending, done, stopped>>

Fresh(f) == f \notin Range(pending) \cup Range(done)

Init ==
  /\ pending = <<>>
  /\ done = <<>>
  /\ stopped = FALSE

Submit(f) ==
  /\ Fresh(f)
  /\ pending' = Append(pending, f)
  /\ UNCHANGED <<done, stopped>>

RunNext ==
  /\ ~stopped
  /\ pending # <<>>
  /\ pending' = Tail(pending)
  /\ done' = Append(done, Head(pending))
  /\ UNCHANGED stopped

(* runInLoop in the loop's own thread: no queue is involved.               *)
RunNow(f) ==
  /\ ~stopped
  /\ Fresh(f)
  /\ done' = Append(done, f)
  /\ UNCHANGED <<pending, stopped>>

Stop ==
  /\ ~stopped
  /\ stopped' = TRUE
  /\ UNCHANGED <<pending, done>>

Next ==
  \/ \E f \in Functors : Submit(f) \/ RunNow(f)
  \/ RunNext
  \/ Stop

SafeSpec == Init /\ [][Next]_vars

Spec == SafeSpec /\ WF_vars(RunNext)
==============================================================================
