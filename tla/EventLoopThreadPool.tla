------------------------- MODULE EventLoopThreadPool -------------------------
(***************************************************************************)
(* The thread pool from start() to its destruction: the owner starts the   *)
(* EventLoopThreads one after another with startLoop() and destroys them   *)
(* in the same order; each started thread runs threadFunc() around         *)
(* EventLoop::loop().  Composes EventLoopThreadPool, EventLoopThread,      *)
(* Thread and the part of EventLoop that decides when loop() returns.      *)
(* Owner and thread share loop_ (under mutex_, except in the destructor),  *)
(* quit_ and the eventfd.                                                  *)
(***************************************************************************)
EXTENDS Naturals

CONSTANTS
  NumThreads,      \* numThreads_
  DestroysEarly    \* may the pool be destroyed before its threads loop?

ASSUME PoolAssumption ==
  /\ NumThreads \in Nat \ {0}
  /\ DestroysEarly \in BOOLEAN

Ts == 1..NumThreads   \* threads_

VARIABLES
  owner,     \* where the owner is
  cur,       \* the EventLoopThread it is at
  loops_,    \* how many pointers the pool's loops_ holds
  thread,    \* where each started thread is
  mutex,     \* who holds each mutex_: "owner", "thread" or "nobody"
  notified,  \* is the owner awake in cond_.wait?
  sem,       \* the semaphore of each Thread::start
  tid,       \* has tid_ been set?
  loop_,     \* does EventLoopThread::loop_ point to the EventLoop?
  quit_,     \* EventLoop::quit_
  wakeFd,    \* is the loop's eventfd readable?
  selfQuit   \* history: the threads whose own code called loop->quit()

ownerVars == <<owner, cur, loops_>>
startVars == <<notified, sem, tid>>
loopVars == <<quit_, wakeFd, selfQuit>>
vars == <<ownerVars, startVars, loopVars, thread, mutex, loop_>>

OwnerPlaces ==
  {"start", "semWait", "startLoop", "testLoop", "asleep", "running",
   "destroy", "quit", "wakeup", "join", "detach", "done"}

(* The EventLoop is a local of threadFunc.                                 *)
AlivePlaces ==
  {"publish", "unlock", "enter", "check", "poll", "leave", "clear", "unwind"}
ThreadPlaces == {"none", "started", "func", "ended"} \cup AlivePlaces
LoopAlive(k) == thread[k] \in AlivePlaces
InLoop(k) == thread[k] \notin {"none", "started", "func", "publish", "unlock", "enter"}

Init ==
  /\ owner = "start" /\ cur = 1 /\ loops_ = 0
  /\ thread = [k \in Ts |-> "none"]
  /\ mutex = [k \in Ts |-> "nobody"]
  /\ notified = FALSE
  /\ sem = [k \in Ts |-> FALSE]
  /\ tid = [k \in Ts |-> FALSE]
  /\ loop_ = [k \in Ts |-> FALSE]
  /\ quit_ = [k \in Ts |-> FALSE]
  /\ wakeFd = [k \in Ts |-> FALSE]
  /\ selfQuit = {}
------------------------------------------------------------------------------
(* The owner: EventLoopThreadPool::start, which is startLoop() in turn.    *)

(* Thread::start creates the thread and waits for its semaphore.           *)
ThreadStart ==
  /\ owner = "start"
  /\ owner' = "semWait"
  /\ thread' = [thread EXCEPT ![cur] = "started"]
  /\ UNCHANGED <<cur, loops_, startVars, loopVars, mutex, loop_>>

(* A start() that does not wait for the semaphore.                         *)
MutSemWait ==
  /\ owner = "semWait"
  /\ owner' = "startLoop"
  /\ UNCHANGED <<sem, cur, loops_, notified, tid, loopVars, thread, mutex, loop_>>

SemWait ==
  /\ owner = "semWait"
  /\ sem[cur]
  /\ sem' = [sem EXCEPT ![cur] = FALSE]
  /\ owner' = "startLoop"
  /\ UNCHANGED <<cur, loops_, notified, tid, loopVars, thread, mutex, loop_>>

(* The lock of startLoop, or the one cond_.wait takes again.               *)
LockForLoop ==
  /\ owner = "startLoop" \/ (owner = "asleep" /\ notified)
  /\ mutex[cur] = "nobody"
  /\ mutex' = [mutex EXCEPT ![cur] = "owner"]
  /\ notified' = FALSE
  /\ owner' = "testLoop"
  /\ UNCHANGED <<cur, loops_, sem, tid, loopVars, thread, loop_>>

(* A wait that keeps the mutex.                                            *)
MutWaitForLoop ==
  /\ owner = "testLoop"
  /\ ~loop_[cur]
  /\ owner' = "asleep"
  /\ UNCHANGED <<cur, loops_, startVars, loopVars, thread, mutex, loop_>>

(* cond_.wait gives the mutex back and sleeps in one step.                 *)
WaitForLoop ==
  /\ owner = "testLoop"
  /\ ~loop_[cur]
  /\ mutex' = [mutex EXCEPT ![cur] = "nobody"]
  /\ owner' = "asleep"
  /\ UNCHANGED <<cur, loops_, startVars, loopVars, thread, loop_>>

(* A condition variable may wake up for no reason.                         *)
SpuriousWakeup ==
  /\ owner = "asleep"
  /\ ~notified
  /\ notified' = TRUE
  /\ UNCHANGED <<ownerVars, sem, tid, loopVars, thread, mutex, loop_>>

NextToStart ==
  IF cur < NumThreads THEN cur' = cur + 1 /\ owner' = "start"
                      ELSE cur' = 1 /\ owner' = "running"

(* "if" instead of "while" around the wait.                                *)
MutTakeLoop ==
  /\ owner = "testLoop"
  /\ loops_' = loops_ + 1
  /\ mutex' = [mutex EXCEPT ![cur] = "nobody"]
  /\ NextToStart
  /\ UNCHANGED <<startVars, loopVars, thread, loop_>>

(* startLoop returns loop_, and the pool keeps it in loops_.               *)
TakeLoop ==
  /\ owner = "testLoop"
  /\ loop_[cur]
  /\ loops_' = loops_ + 1
  /\ mutex' = [mutex EXCEPT ![cur] = "nobody"]
  /\ NextToStart
  /\ UNCHANGED <<startVars, loopVars, thread, loop_>>
------------------------------------------------------------------------------
(* The owner: the pool's destructor, which is ~EventLoopThread() in turn,  *)
(* which ends with ~Thread().  It reads loop_ without the mutex.           *)

DestructorBegins ==
  /\ owner = "running"
  /\ DestroysEarly \/ \A k \in Ts : InLoop(k)
  /\ owner' = "destroy"
  /\ UNCHANGED <<cur, loops_, startVars, loopVars, thread, mutex, loop_>>

TestNull ==
  /\ owner = "destroy"
  /\ owner' = IF loop_[cur] THEN "quit" ELSE "detach"
  /\ UNCHANGED <<cur, loops_, startVars, loopVars, thread, mutex, loop_>>

(* loop_->quit(): first quit_ ...                                          *)
QuitSet ==
  /\ owner = "quit"
  /\ quit_' = [quit_ EXCEPT ![cur] = TRUE]
  /\ owner' = "wakeup"
  /\ UNCHANGED <<cur, loops_, startVars, wakeFd, selfQuit, thread, mutex, loop_>>

(* A quit() without the wakeup.                                            *)
MutQuitWakeup ==
  /\ owner = "wakeup"
  /\ owner' = "join"
  /\ UNCHANGED <<cur, loops_, startVars, loopVars, thread, mutex, loop_>>

(* ... then, through the same pointer, wakeup().  The EventLoop may be gone *)
(* by now: the write to its closed fd has no effect.                       *)
QuitWakeup ==
  /\ owner = "wakeup"
  /\ wakeFd' = [wakeFd EXCEPT ![cur] = TRUE]
  /\ owner' = "join"
  /\ UNCHANGED <<cur, loops_, startVars, quit_, selfQuit, thread, mutex, loop_>>

NextToDestroy ==
  IF cur < NumThreads THEN cur' = cur + 1 /\ owner' = "destroy"
                      ELSE cur' = cur /\ owner' = "done"

(* A destructor without the join.                                          *)
MutJoin ==
  /\ owner = "join"
  /\ NextToDestroy
  /\ UNCHANGED <<loops_, startVars, loopVars, thread, mutex, loop_>>

Join ==
  /\ owner = "join"
  /\ thread[cur] = "ended"
  /\ NextToDestroy
  /\ UNCHANGED <<loops_, startVars, loopVars, thread, mutex, loop_>>

(* ~Thread of a thread that was not joined detaches it.                    *)
Detach ==
  /\ owner = "detach"
  /\ NextToDestroy
  /\ UNCHANGED <<loops_, startVars, loopVars, thread, mutex, loop_>>
------------------------------------------------------------------------------
(* Thread k.                                                               *)

Goes(k, from, to) ==
  /\ thread[k] = from
  /\ thread' = [thread EXCEPT ![k] = to]

(* Thread::start's lambda.                                                 *)
SemPost(k) ==
  /\ Goes(k, "started", "func")
  /\ tid' = [tid EXCEPT ![k] = TRUE]
  /\ sem' = [sem EXCEPT ![k] = TRUE]
  /\ UNCHANGED <<ownerVars, notified, loopVars, mutex, loop_>>

(* threadFunc constructs the EventLoop.                                    *)
ConstructLoop(k) ==
  /\ Goes(k, "func", "publish")
  /\ UNCHANGED <<ownerVars, startVars, loopVars, mutex, loop_>>

(* loop_ is set without a notification.                                    *)
MutPublishLoop(k) ==
  /\ Goes(k, "publish", "unlock")
  /\ mutex[k] = "nobody"
  /\ mutex' = [mutex EXCEPT ![k] = "thread"]
  /\ loop_' = [loop_ EXCEPT ![k] = TRUE]
  /\ UNCHANGED <<ownerVars, startVars, loopVars>>

(* loop_ is set under the mutex, and notify_one wakes the owner if it      *)
(* sleeps by now.                                                          *)
PublishLoop(k) ==
  /\ Goes(k, "publish", "unlock")
  /\ mutex[k] = "nobody"
  /\ mutex' = [mutex EXCEPT ![k] = "thread"]
  /\ loop_' = [loop_ EXCEPT ![k] = TRUE]
  /\ notified' = (notified \/ (owner = "asleep" /\ cur = k))
  /\ UNCHANGED <<ownerVars, sem, tid, loopVars>>

Unlock(k) ==
  /\ Goes(k, "unlock", "enter") \/ Goes(k, "clear", "unwind")
  /\ mutex' = [mutex EXCEPT ![k] = "nobody"]
  /\ UNCHANGED <<ownerVars, startVars, loopVars, loop_>>

(* loop() begins: quit_ = false.                                           *)
EnterLoop(k) ==
  /\ Goes(k, "enter", "check")
  /\ quit_' = [quit_ EXCEPT ![k] = FALSE]
  /\ UNCHANGED <<ownerVars, startVars, wakeFd, selfQuit, mutex, loop_>>

CheckQuit(k) ==
  /\ Goes(k, "check", IF quit_[k] THEN "leave" ELSE "poll")
  /\ UNCHANGED <<ownerVars, startVars, loopVars, mutex, loop_>>

(* One iteration: epoll_wait returns for the eventfd, for another channel  *)
(* or for nothing, and the handlers and functors run.  They can only be     *)
(* there once startLoop() has given the loop to somebody.                  *)
PollAndHandle(k) ==
  /\ Goes(k, "poll", "check")
  /\ wakeFd' = [wakeFd EXCEPT ![k] = FALSE]
  /\ \/ UNCHANGED <<quit_, selfQuit>>
     \/ /\ k <= loops_
        /\ quit_' = [quit_ EXCEPT ![k] = TRUE]
        /\ selfQuit' = selfQuit \cup {k}
  /\ UNCHANGED <<ownerVars, startVars, mutex, loop_>>

(* After loop(): loop_ = nullptr under the mutex.                          *)
ClearLoop(k) ==
  /\ Goes(k, "leave", "clear")
  /\ mutex[k] = "nobody"
  /\ mutex' = [mutex EXCEPT ![k] = "thread"]
  /\ loop_' = [loop_ EXCEPT ![k] = FALSE]
  /\ UNCHANGED <<ownerVars, startVars, loopVars>>

(* The locals of threadFunc go, the lock before the EventLoop.             *)
DestroyLoop(k) ==
  /\ Goes(k, "unwind", "ended")
  /\ UNCHANGED <<ownerVars, startVars, loopVars, mutex, loop_>>
------------------------------------------------------------------------------
Start == ThreadStart \/ SemWait \/ LockForLoop \/ WaitForLoop \/ TakeLoop

Destructor ==
  DestructorBegins \/ TestNull \/ QuitSet \/ QuitWakeup \/ Join \/ Detach

ThreadFunc(k) ==
  \/ SemPost(k) \/ ConstructLoop(k) \/ PublishLoop(k) \/ Unlock(k)
  \/ EnterLoop(k) \/ CheckQuit(k) \/ ClearLoop(k) \/ DestroyLoop(k)

Next ==
  \/ Start \/ SpuriousWakeup \/ Destructor
  \/ \E k \in Ts : ThreadFunc(k) \/ PollAndHandle(k)

Spec == Init /\ [][Next]_vars

(* Every thread keeps running; a thread that waits for a mutex gets it     *)
(* although the owner takes it again and again; epoll_wait returns when    *)
(* the eventfd is readable (its timeout is not relied on).  The            *)
(* destructor need not begin.                                              *)
Fairness ==
  /\ WF_vars(Start)
  /\ WF_vars(TestNull \/ QuitSet \/ QuitWakeup \/ Join \/ Detach)
  /\ \A k \in Ts :
       /\ SF_vars(ThreadFunc(k))
       /\ WF_vars(wakeFd[k] /\ PollAndHandle(k))

FairSpec == Spec /\ Fairness
------------------------------------------------------------------------------
(* Types; each mutex_ is held where the code holds it.                     *)
TypeOK ==
  /\ owner \in OwnerPlaces /\ cur \in Ts /\ loops_ \in 0..NumThreads
  /\ thread \in [Ts -> ThreadPlaces]
  /\ mutex \in [Ts -> {"owner", "thread", "nobody"}]
  /\ \A k \in Ts :
       /\ mutex[k] = "owner" <=> owner = "testLoop" /\ cur = k
       /\ mutex[k] = "thread" <=> thread[k] \in {"unlock", "clear"}
  /\ notified \in BOOLEAN
  /\ {sem, tid, loop_, quit_, wakeFd} \subseteq [Ts -> BOOLEAN]
  /\ selfQuit \subseteq Ts

(* When Thread::start has returned, the thread's id is known.              *)
TidKnown ==
  \A k \in Ts :
    thread[k] # "none" /\ ~(owner = "semWait" /\ cur = k) => tid[k]

(* Every pointer the pool put in loops_ is that of a constructed EventLoop *)
(* until the pool is destroyed, also when the wait wakes up for no reason, *)
(* unless the code in that loop called quit().                             *)
PoolHasLoops ==
  owner = "running" =>
    loops_ = NumThreads /\ \A k \in Ts \ selfQuit : LoopAlive(k)

(* When an EventLoopThread has been destroyed, its thread no longer runs,  *)
(* so nothing touches the mutex_ and loop_ of the freed object; unless the *)
(* loop had left by itself, when the destructor detaches the thread.       *)
JoinedWhenDestroyed ==
  \A k \in Ts \ selfQuit :
    \/ owner = "done"
    \/ owner \in {"destroy", "quit", "wakeup", "join", "detach"} /\ k < cur
    => thread[k] = "ended"

(* The EventLoop that the destructor tells to quit is there: when quit()   *)
(* sets quit_, and still when it goes on to wakeup() through the same      *)
(* pointer; unless the loop had left by itself.  The first is so, the      *)
(* second is not: the thread may see quit_, leave loop() and destroy the   *)
(* EventLoop before quit() is over.                                        *)
QuitSetFindsLoop == owner = "quit" /\ cur \notin selfQuit => LoopAlive(cur)
WakeupFindsLoop == owner = "wakeup" /\ cur \notin selfQuit => LoopAlive(cur)

(* start() returns: no notification is lost.                               *)
StartReturns == <>(owner = "running")

(* The destructor returns, after each EventLoop left its scope: no quit()  *)
(* is lost.                                                                *)
DestructorReturns == owner = "destroy" ~> owner = "done"
==============================================================================
