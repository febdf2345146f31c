---------------------- MODULE EventLoopThreadPool_proofs ----------------------
(***************************************************************************)
(* Proofs about the thread pool, for any number of threads.  The           *)
(* properties of EventLoopThreadPool speak of the moments after start()    *)
(* and after each destructor; what makes them true is where the owner and  *)
(* a thread can be at the same time, which the inductive invariant says.   *)
(***************************************************************************)
EXTENDS EventLoopThreadPool, TLAPS

StartPlaces == {"start", "semWait", "startLoop", "testLoop", "asleep"}
DestroyPlaces == {"destroy", "quit", "wakeup", "join", "detach"}

(* The pool has one loop of each thread it has passed.                     *)
LoopsCounted ==
  /\ loops_ = IF owner \in StartPlaces THEN cur - 1 ELSE NumThreads
  /\ owner = "running" => cur = 1
  /\ owner = "done" => cur = NumThreads

(* Threads are created in order.                                           *)
NotCreated(k) ==
  \/ owner = "start" /\ cur <= k
  \/ owner \in StartPlaces /\ cur < k

(* The destructor has called quit() on the loop of thread k.               *)
QuitByOwner(k) ==
  \/ owner = "done"
  \/ owner \in DestroyPlaces /\ k < cur
  \/ owner \in {"wakeup", "join"} /\ k = cur

Over(k) == thread[k] \in {"leave", "clear", "unwind", "ended"}

(* What the owner and thread k know of each other.                         *)
Together(k) ==
  /\ thread[k] = "none" <=> NotCreated(k)
  /\ tid[k] <=> thread[k] \notin {"none", "started"}
  /\ sem[k] => tid[k]
  /\ tid[k] \/ NotCreated(k) \/ (owner = "semWait" /\ cur = k)
  /\ loop_[k] <=> thread[k] \in {"unlock", "enter", "check", "poll", "leave"}
  /\ k <= loops_ => loop_[k] \/ Over(k)
  /\ quit_[k] \/ Over(k) => k \in selfQuit \/ QuitByOwner(k)
  /\ owner = "detach" /\ cur = k => k \in selfQuit

IInv ==
  TypeOK /\ LoopsCounted /\ JoinedWhenDestroyed /\ \A k \in Ts : Together(k)

(* The types one by one.                                                   *)
LEMMA Types ==
  TypeOK <=>
    /\ owner \in OwnerPlaces /\ cur \in Ts /\ loops_ \in 0..NumThreads
    /\ thread \in [Ts -> ThreadPlaces]
    /\ mutex \in [Ts -> {"owner", "thread", "nobody"}]
    /\ \A k \in Ts :
         /\ mutex[k] = "owner" <=> owner = "testLoop" /\ cur = k
         /\ mutex[k] = "thread" <=> thread[k] \in {"unlock", "clear"}
    /\ notified \in BOOLEAN
    /\ sem \in [Ts -> BOOLEAN] /\ tid \in [Ts -> BOOLEAN]
    /\ loop_ \in [Ts -> BOOLEAN] /\ quit_ \in [Ts -> BOOLEAN]
    /\ wakeFd \in [Ts -> BOOLEAN]
    /\ selfQuit \subseteq Ts
BY DEF TypeOK

LEMMA IInvInit == Init => IInv
<1> SUFFICES ASSUME Init PROVE IInv
  OBVIOUS
<1>0. NumThreads \in Nat \ {0} /\ 1 \in Ts
  BY PoolAssumption DEF Ts
<1>1. TypeOK
  <2>1. /\ owner \in OwnerPlaces /\ cur \in Ts /\ loops_ \in 0..NumThreads
    BY <1>0 DEF Init, OwnerPlaces
  <2>5. notified \in BOOLEAN /\ selfQuit \subseteq Ts
    BY DEF Init
  <2>2. /\ thread \in [Ts -> ThreadPlaces]
        /\ mutex \in [Ts -> {"owner", "thread", "nobody"}]
    BY DEF Init, ThreadPlaces
  <2>3. \A k \in Ts :
          /\ mutex[k] = "owner" <=> owner = "testLoop" /\ cur = k
          /\ mutex[k] = "thread" <=> thread[k] \in {"unlock", "clear"}
    BY DEF Init
  <2>4. /\ sem \in [Ts -> BOOLEAN] /\ tid \in [Ts -> BOOLEAN]
        /\ loop_ \in [Ts -> BOOLEAN] /\ quit_ \in [Ts -> BOOLEAN]
        /\ wakeFd \in [Ts -> BOOLEAN]
    BY DEF Init
  <2> QED
    BY <2>1, <2>2, <2>3, <2>4, <2>5, Types
<1>2. LoopsCounted /\ JoinedWhenDestroyed
  BY DEF Init, LoopsCounted, StartPlaces, JoinedWhenDestroyed
<1>3. \A k \in Ts : Together(k)
  BY <1>0 DEF Init, Together, NotCreated, QuitByOwner, Over, StartPlaces,
              DestroyPlaces, Ts
<1> QED
  BY <1>1, <1>2, <1>3 DEF IInv
------------------------------------------------------------------------------
(* Types. *)

LEMMA TypesLater ==
  ASSUME owner' \in OwnerPlaces /\ cur' \in Ts /\ loops_' \in 0..NumThreads,
         notified' \in BOOLEAN /\ selfQuit' \subseteq Ts,
         thread' \in [Ts -> ThreadPlaces],
         mutex' \in [Ts -> {"owner", "thread", "nobody"}],
         sem' \in [Ts -> BOOLEAN], tid' \in [Ts -> BOOLEAN],
         loop_' \in [Ts -> BOOLEAN], quit_' \in [Ts -> BOOLEAN],
         wakeFd' \in [Ts -> BOOLEAN],
         \A k \in Ts :
           /\ mutex'[k] = "owner" <=> owner' = "testLoop" /\ cur' = k
           /\ mutex'[k] = "thread" <=> thread'[k] \in {"unlock", "clear"}
  PROVE  TypeOK'
BY DEF TypeOK

LEMMA TypeOwner ==
  ASSUME IInv, Start \/ SpuriousWakeup \/ Destructor
  PROVE  TypeOK'
<1> USE DEF ownerVars, startVars, loopVars, IInv
<1>0. /\ NumThreads \in Nat \ {0} /\ cur \in Ts /\ cur \in Nat /\ loops_ \in 0..NumThreads
      /\ cur - 1 \in 0..NumThreads /\ owner \in OwnerPlaces /\ notified \in BOOLEAN
      /\ cur <= NumThreads /\ 1 <= cur
  BY PoolAssumption DEF TypeOK, Ts
<1>1. CASE ThreadStart
  <2>1. owner' \in OwnerPlaces /\ cur' \in Ts /\ loops_' \in 0..NumThreads
    BY <1>0, <1>1 DEF ThreadStart, OwnerPlaces, LoopsCounted, StartPlaces, Ts
  <2>2. /\ notified' \in BOOLEAN /\ selfQuit' \subseteq Ts
        /\ thread' \in [Ts -> ThreadPlaces]
        /\ mutex' \in [Ts -> {"owner", "thread", "nobody"}]
    BY <1>0, <1>1, Types DEF ThreadStart, ThreadPlaces
  <2>3. /\ sem' \in [Ts -> BOOLEAN] /\ tid' \in [Ts -> BOOLEAN]
        /\ loop_' \in [Ts -> BOOLEAN] /\ quit_' \in [Ts -> BOOLEAN]
        /\ wakeFd' \in [Ts -> BOOLEAN]
    BY <1>0, <1>1, Types DEF ThreadStart
  <2>4. \A k \in Ts :
          /\ mutex'[k] = "owner" <=> owner' = "testLoop" /\ cur' = k
          /\ mutex'[k] = "thread" <=> thread'[k] \in {"unlock", "clear"}
    <3>1. thread[cur] = "none"
      BY <1>0, <1>1 DEF ThreadStart, Together, NotCreated
    <3> QED
      BY <1>0, <1>1, <3>1, Types DEF ThreadStart
  <2> QED
    BY <2>1, <2>2, <2>3, <2>4, TypesLater
<1>2. CASE SemWait
  <2>1. owner' \in OwnerPlaces /\ cur' \in Ts /\ loops_' \in 0..NumThreads
    BY <1>0, <1>2 DEF SemWait, OwnerPlaces, LoopsCounted, StartPlaces, Ts
  <2>2. /\ notified' \in BOOLEAN /\ selfQuit' \subseteq Ts
        /\ thread' \in [Ts -> ThreadPlaces]
        /\ mutex' \in [Ts -> {"owner", "thread", "nobody"}]
    BY <1>0, <1>2, Types DEF SemWait, ThreadPlaces
  <2>3. /\ sem' \in [Ts -> BOOLEAN] /\ tid' \in [Ts -> BOOLEAN]
        /\ loop_' \in [Ts -> BOOLEAN] /\ quit_' \in [Ts -> BOOLEAN]
        /\ wakeFd' \in [Ts -> BOOLEAN]
    BY <1>0, <1>2, Types DEF SemWait
  <2>4. \A k \in Ts :
          /\ mutex'[k] = "owner" <=> owner' = "testLoop" /\ cur' = k
          /\ mutex'[k] = "thread" <=> thread'[k] \in {"unlock", "clear"}
    BY <1>0, <1>2, Types DEF SemWait
  <2> QED
    BY <2>1, <2>2, <2>3, <2>4, TypesLater
<1>3. CASE LockForLoop
  <2>1. owner' \in OwnerPlaces /\ cur' \in Ts /\ loops_' \in 0..NumThreads
    BY <1>0, <1>3 DEF LockForLoop, OwnerPlaces, LoopsCounted, StartPlaces, Ts
  <2>2. /\ notified' \in BOOLEAN /\ selfQuit' \subseteq Ts
        /\ thread' \in [Ts -> ThreadPlaces]
        /\ mutex' \in [Ts -> {"owner", "thread", "nobody"}]
    BY <1>0, <1>3, Types DEF LockForLoop, ThreadPlaces
  <2>3. /\ sem' \in [Ts -> BOOLEAN] /\ tid' \in [Ts -> BOOLEAN]
        /\ loop_' \in [Ts -> BOOLEAN] /\ quit_' \in [Ts -> BOOLEAN]
        /\ wakeFd' \in [Ts -> BOOLEAN]
    BY <1>0, <1>3, Types DEF LockForLoop
  <2>4. \A k \in Ts :
          /\ mutex'[k] = "owner" <=> owner' = "testLoop" /\ cur' = k
          /\ mutex'[k] = "thread" <=> thread'[k] \in {"unlock", "clear"}
    BY <1>0, <1>3, Types DEF LockForLoop
  <2> QED
    BY <2>1, <2>2, <2>3, <2>4, TypesLater
<1>4. CASE WaitForLoop
  <2>1. owner' \in OwnerPlaces /\ cur' \in Ts /\ loops_' \in 0..NumThreads
    BY <1>0, <1>4 DEF WaitForLoop, OwnerPlaces, LoopsCounted, StartPlaces, Ts
  <2>2. /\ notified' \in BOOLEAN /\ selfQuit' \subseteq Ts
        /\ thread' \in [Ts -> ThreadPlaces]
        /\ mutex' \in [Ts -> {"owner", "thread", "nobody"}]
    BY <1>0, <1>4, Types DEF WaitForLoop, ThreadPlaces
  <2>3. /\ sem' \in [Ts -> BOOLEAN] /\ tid' \in [Ts -> BOOLEAN]
        /\ loop_' \in [Ts -> BOOLEAN] /\ quit_' \in [Ts -> BOOLEAN]
        /\ wakeFd' \in [Ts -> BOOLEAN]
    BY <1>0, <1>4, Types DEF WaitForLoop
  <2>4. \A k \in Ts :
          /\ mutex'[k] = "owner" <=> owner' = "testLoop" /\ cur' = k
          /\ mutex'[k] = "thread" <=> thread'[k] \in {"unlock", "clear"}
    BY <1>0, <1>4, Types DEF WaitForLoop
  <2> QED
    BY <2>1, <2>2, <2>3, <2>4, TypesLater
<1>5. CASE TakeLoop
  <2>1. owner' \in OwnerPlaces /\ cur' \in Ts /\ loops_' \in 0..NumThreads
    BY <1>0, <1>5 DEF TakeLoop, NextToStart, OwnerPlaces, LoopsCounted, StartPlaces, Ts
  <2>2. /\ notified' \in BOOLEAN /\ selfQuit' \subseteq Ts
        /\ thread' \in [Ts -> ThreadPlaces]
        /\ mutex' \in [Ts -> {"owner", "thread", "nobody"}]
    BY <1>0, <1>5, Types DEF TakeLoop, ThreadPlaces
  <2>3. /\ sem' \in [Ts -> BOOLEAN] /\ tid' \in [Ts -> BOOLEAN]
        /\ loop_' \in [Ts -> BOOLEAN] /\ quit_' \in [Ts -> BOOLEAN]
        /\ wakeFd' \in [Ts -> BOOLEAN]
    BY <1>0, <1>5, Types DEF TakeLoop
  <2>4. \A k \in Ts :
          /\ mutex'[k] = "owner" <=> owner' = "testLoop" /\ cur' = k
          /\ mutex'[k] = "thread" <=> thread'[k] \in {"unlock", "clear"}
    BY <1>0, <1>5, Types DEF TakeLoop, NextToStart
  <2> QED
    BY <2>1, <2>2, <2>3, <2>4, TypesLater
<1>6. CASE SpuriousWakeup
  <2>1. owner' \in OwnerPlaces /\ cur' \in Ts /\ loops_' \in 0..NumThreads
    BY <1>0, <1>6 DEF SpuriousWakeup, OwnerPlaces, LoopsCounted, StartPlaces, Ts
  <2>2. /\ notified' \in BOOLEAN /\ selfQuit' \subseteq Ts
        /\ thread' \in [Ts -> ThreadPlaces]
        /\ mutex' \in [Ts -> {"owner", "thread", "nobody"}]
    BY <1>0, <1>6, Types DEF SpuriousWakeup, ThreadPlaces
  <2>3. /\ sem' \in [Ts -> BOOLEAN] /\ tid' \in [Ts -> BOOLEAN]
        /\ loop_' \in [Ts -> BOOLEAN] /\ quit_' \in [Ts -> BOOLEAN]
        /\ wakeFd' \in [Ts -> BOOLEAN]
    BY <1>0, <1>6, Types DEF SpuriousWakeup
  <2>4. \A k \in Ts :
          /\ mutex'[k] = "owner" <=> owner' = "testLoop" /\ cur' = k
          /\ mutex'[k] = "thread" <=> thread'[k] \in {"unlock", "clear"}
    BY <1>0, <1>6, Types DEF SpuriousWakeup
  <2> QED
    BY <2>1, <2>2, <2>3, <2>4, TypesLater
<1>7. CASE DestructorBegins
  <2>1. owner' \in OwnerPlaces /\ cur' \in Ts /\ loops_' \in 0..NumThreads
    BY <1>0, <1>7 DEF DestructorBegins, OwnerPlaces, LoopsCounted, StartPlaces, Ts
  <2>2. /\ notified' \in BOOLEAN /\ selfQuit' \subseteq Ts
        /\ thread' \in [Ts -> ThreadPlaces]
        /\ mutex' \in [Ts -> {"owner", "thread", "nobody"}]
    BY <1>0, <1>7, Types DEF DestructorBegins, ThreadPlaces
  <2>3. /\ sem' \in [Ts -> BOOLEAN] /\ tid' \in [Ts -> BOOLEAN]
        /\ loop_' \in [Ts -> BOOLEAN] /\ quit_' \in [Ts -> BOOLEAN]
        /\ wakeFd' \in [Ts -> BOOLEAN]
    BY <1>0, <1>7, Types DEF DestructorBegins
  <2>4. \A k \in Ts :
          /\ mutex'[k] = "owner" <=> owner' = "testLoop" /\ cur' = k
          /\ mutex'[k] = "thread" <=> thread'[k] \in {"unlock", "clear"}
    BY <1>0, <1>7, Types DEF DestructorBegins
  <2> QED
    BY <2>1, <2>2, <2>3, <2>4, TypesLater
<1>8. CASE TestNull
  <2>1. owner' \in OwnerPlaces /\ cur' \in Ts /\ loops_' \in 0..NumThreads
    BY <1>0, <1>8 DEF TestNull, OwnerPlaces, LoopsCounted, StartPlaces, Ts
  <2>2. /\ notified' \in BOOLEAN /\ selfQuit' \subseteq Ts
        /\ thread' \in [Ts -> ThreadPlaces]
        /\ mutex' \in [Ts -> {"owner", "thread", "nobody"}]
    BY <1>0, <1>8, Types DEF TestNull, ThreadPlaces
  <2>3. /\ sem' \in [Ts -> BOOLEAN] /\ tid' \in [Ts -> BOOLEAN]
        /\ loop_' \in [Ts -> BOOLEAN] /\ quit_' \in [Ts -> BOOLEAN]
        /\ wakeFd' \in [Ts -> BOOLEAN]
    BY <1>0, <1>8, Types DEF TestNull
  <2>4. \A k \in Ts :
          /\ mutex'[k] = "owner" <=> owner' = "testLoop" /\ cur' = k
          /\ mutex'[k] = "thread" <=> thread'[k] \in {"unlock", "clear"}
    BY <1>0, <1>8, Types DEF TestNull
  <2> QED
    BY <2>1, <2>2, <2>3, <2>4, TypesLater
<1>9. CASE QuitSet
  <2>1. owner' \in OwnerPlaces /\ cur' \in Ts /\ loops_' \in 0..NumThreads
    BY <1>0, <1>9 DEF QuitSet, OwnerPlaces, LoopsCounted, StartPlaces, Ts
  <2>2. /\ notified' \in BOOLEAN /\ selfQuit' \subseteq Ts
        /\ thread' \in [Ts -> ThreadPlaces]
        /\ mutex' \in [Ts -> {"owner", "thread", "nobody"}]
    BY <1>0, <1>9, Types DEF QuitSet, ThreadPlaces
  <2>3. /\ sem' \in [Ts -> BOOLEAN] /\ tid' \in [Ts -> BOOLEAN]
        /\ loop_' \in [Ts -> BOOLEAN] /\ quit_' \in [Ts -> BOOLEAN]
        /\ wakeFd' \in [Ts -> BOOLEAN]
    BY <1>0, <1>9, Types DEF QuitSet
  <2>4. \A k \in Ts :
          /\ mutex'[k] = "owner" <=> owner' = "testLoop" /\ cur' = k
          /\ mutex'[k] = "thread" <=> thread'[k] \in {"unlock", "clear"}
    BY <1>0, <1>9, Types DEF QuitSet
  <2> QED
    BY <2>1, <2>2, <2>3, <2>4, TypesLater
<1>10. CASE QuitWakeup
  <2>1. owner' \in OwnerPlaces /\ cur' \in Ts /\ loops_' \in 0..NumThreads
    BY <1>0, <1>10 DEF QuitWakeup, OwnerPlaces, LoopsCounted, StartPlaces, Ts
  <2>2. /\ notified' \in BOOLEAN /\ selfQuit' \subseteq Ts
        /\ thread' \in [Ts -> ThreadPlaces]
        /\ mutex' \in [Ts -> {"owner", "thread", "nobody"}]
    BY <1>0, <1>10, Types DEF QuitWakeup, ThreadPlaces
  <2>3. /\ sem' \in [Ts -> BOOLEAN] /\ tid' \in [Ts -> BOOLEAN]
        /\ loop_' \in [Ts -> BOOLEAN] /\ quit_' \in [Ts -> BOOLEAN]
        /\ wakeFd' \in [Ts -> BOOLEAN]
    BY <1>0, <1>10, Types DEF QuitWakeup
  <2>4. \A k \in Ts :
          /\ mutex'[k] = "owner" <=> owner' = "testLoop" /\ cur' = k
          /\ mutex'[k] = "thread" <=> thread'[k] \in {"unlock", "clear"}
    BY <1>0, <1>10, Types DEF QuitWakeup
  <2> QED
    BY <2>1, <2>2, <2>3, <2>4, TypesLater
<1>11. CASE Join
  <2>1. owner' \in OwnerPlaces /\ cur' \in Ts /\ loops_' \in 0..NumThreads
    BY <1>0, <1>11 DEF Join, NextToDestroy, OwnerPlaces, LoopsCounted, StartPlaces, Ts
  <2>2. /\ notified' \in BOOLEAN /\ selfQuit' \subseteq Ts
        /\ thread' \in [Ts -> ThreadPlaces]
        /\ mutex' \in [Ts -> {"owner", "thread", "nobody"}]
    BY <1>0, <1>11, Types DEF Join, ThreadPlaces
  <2>3. /\ sem' \in [Ts -> BOOLEAN] /\ tid' \in [Ts -> BOOLEAN]
        /\ loop_' \in [Ts -> BOOLEAN] /\ quit_' \in [Ts -> BOOLEAN]
        /\ wakeFd' \in [Ts -> BOOLEAN]
    BY <1>0, <1>11, Types DEF Join
  <2>4. \A k \in Ts :
          /\ mutex'[k] = "owner" <=> owner' = "testLoop" /\ cur' = k
          /\ mutex'[k] = "thread" <=> thread'[k] \in {"unlock", "clear"}
    BY <1>0, <1>11, Types DEF Join, NextToDestroy
  <2> QED
    BY <2>1, <2>2, <2>3, <2>4, TypesLater
<1>12. CASE Detach
  <2>1. owner' \in OwnerPlaces /\ cur' \in Ts /\ loops_' \in 0..NumThreads
    BY <1>0, <1>12 DEF Detach, NextToDestroy, OwnerPlaces, LoopsCounted, StartPlaces, Ts
  <2>2. /\ notified' \in BOOLEAN /\ selfQuit' \subseteq Ts
        /\ thread' \in [Ts -> ThreadPlaces]
        /\ mutex' \in [Ts -> {"owner", "thread", "nobody"}]
    BY <1>0, <1>12, Types DEF Detach, ThreadPlaces
  <2>3. /\ sem' \in [Ts -> BOOLEAN] /\ tid' \in [Ts -> BOOLEAN]
        /\ loop_' \in [Ts -> BOOLEAN] /\ quit_' \in [Ts -> BOOLEAN]
        /\ wakeFd' \in [Ts -> BOOLEAN]
    BY <1>0, <1>12, Types DEF Detach
  <2>4. \A k \in Ts :
          /\ mutex'[k] = "owner" <=> owner' = "testLoop" /\ cur' = k
          /\ mutex'[k] = "thread" <=> thread'[k] \in {"unlock", "clear"}
    BY <1>0, <1>12, Types DEF Detach, NextToDestroy
  <2> QED
    BY <2>1, <2>2, <2>3, <2>4, TypesLater
<1> QED
  BY <1>1, <1>2, <1>3, <1>4, <1>5, <1>6, <1>7, <1>8, <1>9, <1>10, <1>11, <1>12
  DEF Start, Destructor

LEMMA TypeThread ==
  ASSUME TypeOK, NEW t \in Ts, ThreadFunc(t) \/ PollAndHandle(t)
  PROVE  TypeOK'
<1> USE DEF ownerVars, startVars, loopVars
<1>1. CASE SemPost(t)
  <2>1. /\ owner' \in OwnerPlaces /\ cur' \in Ts /\ loops_' \in 0..NumThreads
        /\ notified' \in BOOLEAN /\ selfQuit' \subseteq Ts
    BY <1>1, Types DEF SemPost
  <2>2. /\ thread' \in [Ts -> ThreadPlaces]
        /\ mutex' \in [Ts -> {"owner", "thread", "nobody"}]
    BY <1>1, Types DEF SemPost, Goes, ThreadPlaces, AlivePlaces
  <2>3. /\ sem' \in [Ts -> BOOLEAN] /\ tid' \in [Ts -> BOOLEAN]
        /\ loop_' \in [Ts -> BOOLEAN] /\ quit_' \in [Ts -> BOOLEAN]
        /\ wakeFd' \in [Ts -> BOOLEAN]
    BY <1>1, Types DEF SemPost
  <2>4. \A k \in Ts :
          /\ mutex'[k] = "owner" <=> owner' = "testLoop" /\ cur' = k
          /\ mutex'[k] = "thread" <=> thread'[k] \in {"unlock", "clear"}
    BY <1>1, Types DEF SemPost, Goes
  <2> QED
    BY <2>1, <2>2, <2>3, <2>4, TypesLater
<1>2. CASE ConstructLoop(t)
  <2>1. /\ owner' \in OwnerPlaces /\ cur' \in Ts /\ loops_' \in 0..NumThreads
        /\ notified' \in BOOLEAN /\ selfQuit' \subseteq Ts
    BY <1>2, Types DEF ConstructLoop
  <2>2. /\ thread' \in [Ts -> ThreadPlaces]
        /\ mutex' \in [Ts -> {"owner", "thread", "nobody"}]
    BY <1>2, Types DEF ConstructLoop, Goes, ThreadPlaces, AlivePlaces
  <2>3. /\ sem' \in [Ts -> BOOLEAN] /\ tid' \in [Ts -> BOOLEAN]
        /\ loop_' \in [Ts -> BOOLEAN] /\ quit_' \in [Ts -> BOOLEAN]
        /\ wakeFd' \in [Ts -> BOOLEAN]
    BY <1>2, Types DEF ConstructLoop
  <2>4. \A k \in Ts :
          /\ mutex'[k] = "owner" <=> owner' = "testLoop" /\ cur' = k
          /\ mutex'[k] = "thread" <=> thread'[k] \in {"unlock", "clear"}
    BY <1>2, Types DEF ConstructLoop, Goes
  <2> QED
    BY <2>1, <2>2, <2>3, <2>4, TypesLater
<1>3. CASE PublishLoop(t)
  <2>1. /\ owner' \in OwnerPlaces /\ cur' \in Ts /\ loops_' \in 0..NumThreads
        /\ notified' \in BOOLEAN /\ selfQuit' \subseteq Ts
    BY <1>3, Types DEF PublishLoop
  <2>2. /\ thread' \in [Ts -> ThreadPlaces]
        /\ mutex' \in [Ts -> {"owner", "thread", "nobody"}]
    BY <1>3, Types DEF PublishLoop, Goes, ThreadPlaces, AlivePlaces
  <2>3. /\ sem' \in [Ts -> BOOLEAN] /\ tid' \in [Ts -> BOOLEAN]
        /\ loop_' \in [Ts -> BOOLEAN] /\ quit_' \in [Ts -> BOOLEAN]
        /\ wakeFd' \in [Ts -> BOOLEAN]
    BY <1>3, Types DEF PublishLoop
  <2>4. \A k \in Ts :
          /\ mutex'[k] = "owner" <=> owner' = "testLoop" /\ cur' = k
          /\ mutex'[k] = "thread" <=> thread'[k] \in {"unlock", "clear"}
    BY <1>3, Types DEF PublishLoop, Goes
  <2> QED
    BY <2>1, <2>2, <2>3, <2>4, TypesLater
<1>4. CASE Unlock(t)
  <2>1. /\ owner' \in OwnerPlaces /\ cur' \in Ts /\ loops_' \in 0..NumThreads
        /\ notified' \in BOOLEAN /\ selfQuit' \subseteq Ts
    BY <1>4, Types DEF Unlock
  <2>2. /\ thread' \in [Ts -> ThreadPlaces]
        /\ mutex' \in [Ts -> {"owner", "thread", "nobody"}]
    BY <1>4, Types DEF Unlock, Goes, ThreadPlaces, AlivePlaces
  <2>3. /\ sem' \in [Ts -> BOOLEAN] /\ tid' \in [Ts -> BOOLEAN]
        /\ loop_' \in [Ts -> BOOLEAN] /\ quit_' \in [Ts -> BOOLEAN]
        /\ wakeFd' \in [Ts -> BOOLEAN]
    BY <1>4, Types DEF Unlock
  <2>4. \A k \in Ts :
          /\ mutex'[k] = "owner" <=> owner' = "testLoop" /\ cur' = k
          /\ mutex'[k] = "thread" <=> thread'[k] \in {"unlock", "clear"}
    BY <1>4, Types DEF Unlock, Goes
  <2> QED
    BY <2>1, <2>2, <2>3, <2>4, TypesLater
<1>5. CASE EnterLoop(t)
  <2>1. /\ owner' \in OwnerPlaces /\ cur' \in Ts /\ loops_' \in 0..NumThreads
        /\ notified' \in BOOLEAN /\ selfQuit' \subseteq Ts
    BY <1>5, Types DEF EnterLoop
  <2>2. /\ thread' \in [Ts -> ThreadPlaces]
        /\ mutex' \in [Ts -> {"owner", "thread", "nobody"}]
    BY <1>5, Types DEF EnterLoop, Goes, ThreadPlaces, AlivePlaces
  <2>3. /\ sem' \in [Ts -> BOOLEAN] /\ tid' \in [Ts -> BOOLEAN]
        /\ loop_' \in [Ts -> BOOLEAN] /\ quit_' \in [Ts -> BOOLEAN]
        /\ wakeFd' \in [Ts -> BOOLEAN]
    BY <1>5, Types DEF EnterLoop
  <2>4. \A k \in Ts :
          /\ mutex'[k] = "owner" <=> owner' = "testLoop" /\ cur' = k
          /\ mutex'[k] = "thread" <=> thread'[k] \in {"unlock", "clear"}
    BY <1>5, Types DEF EnterLoop, Goes
  <2> QED
    BY <2>1, <2>2, <2>3, <2>4, TypesLater
<1>6. CASE CheckQuit(t)
  <2>1. /\ owner' \in OwnerPlaces /\ cur' \in Ts /\ loops_' \in 0..NumThreads
        /\ notified' \in BOOLEAN /\ selfQuit' \subseteq Ts
    BY <1>6, Types DEF CheckQuit
  <2>2. /\ thread' \in [Ts -> ThreadPlaces]
        /\ mutex' \in [Ts -> {"owner", "thread", "nobody"}]
    BY <1>6, Types DEF CheckQuit, Goes, ThreadPlaces, AlivePlaces
  <2>3. /\ sem' \in [Ts -> BOOLEAN] /\ tid' \in [Ts -> BOOLEAN]
        /\ loop_' \in [Ts -> BOOLEAN] /\ quit_' \in [Ts -> BOOLEAN]
        /\ wakeFd' \in [Ts -> BOOLEAN]
    BY <1>6, Types DEF CheckQuit
  <2>4. \A k \in Ts :
          /\ mutex'[k] = "owner" <=> owner' = "testLoop" /\ cur' = k
          /\ mutex'[k] = "thread" <=> thread'[k] \in {"unlock", "clear"}
    BY <1>6, Types DEF CheckQuit, Goes
  <2> QED
    BY <2>1, <2>2, <2>3, <2>4, TypesLater
<1>7. CASE ClearLoop(t)
  <2>1. /\ owner' \in OwnerPlaces /\ cur' \in Ts /\ loops_' \in 0..NumThreads
        /\ notified' \in BOOLEAN /\ selfQuit' \subseteq Ts
    BY <1>7, Types DEF ClearLoop
  <2>2. /\ thread' \in [Ts -> ThreadPlaces]
        /\ mutex' \in [Ts -> {"owner", "thread", "nobody"}]
    BY <1>7, Types DEF ClearLoop, Goes, ThreadPlaces, AlivePlaces
  <2>3. /\ sem' \in [Ts -> BOOLEAN] /\ tid' \in [Ts -> BOOLEAN]
        /\ loop_' \in [Ts -> BOOLEAN] /\ quit_' \in [Ts -> BOOLEAN]
        /\ wakeFd' \in [Ts -> BOOLEAN]
    BY <1>7, Types DEF ClearLoop
  <2>4. \A k \in Ts :
          /\ mutex'[k] = "owner" <=> owner' = "testLoop" /\ cur' = k
          /\ mutex'[k] = "thread" <=> thread'[k] \in {"unlock", "clear"}
    BY <1>7, Types DEF ClearLoop, Goes
  <2> QED
    BY <2>1, <2>2, <2>3, <2>4, TypesLater
<1>8. CASE DestroyLoop(t)
  <2>1. /\ owner' \in OwnerPlaces /\ cur' \in Ts /\ loops_' \in 0..NumThreads
        /\ notified' \in BOOLEAN /\ selfQuit' \subseteq Ts
    BY <1>8, Types DEF DestroyLoop
  <2>2. /\ thread' \in [Ts -> ThreadPlaces]
        /\ mutex' \in [Ts -> {"owner", "thread", "nobody"}]
    BY <1>8, Types DEF DestroyLoop, Goes, ThreadPlaces, AlivePlaces
  <2>3. /\ sem' \in [Ts -> BOOLEAN] /\ tid' \in [Ts -> BOOLEAN]
        /\ loop_' \in [Ts -> BOOLEAN] /\ quit_' \in [Ts -> BOOLEAN]
        /\ wakeFd' \in [Ts -> BOOLEAN]
    BY <1>8, Types DEF DestroyLoop
  <2>4. \A k \in Ts :
          /\ mutex'[k] = "owner" <=> owner' = "testLoop" /\ cur' = k
          /\ mutex'[k] = "thread" <=> thread'[k] \in {"unlock", "clear"}
    BY <1>8, Types DEF DestroyLoop, Goes
  <2> QED
    BY <2>1, <2>2, <2>3, <2>4, TypesLater
<1>9. CASE PollAndHandle(t)
  <2>1. /\ owner' \in OwnerPlaces /\ cur' \in Ts /\ loops_' \in 0..NumThreads
        /\ notified' \in BOOLEAN /\ selfQuit' \subseteq Ts
    BY <1>9, Types DEF PollAndHandle
  <2>2. /\ thread' \in [Ts -> ThreadPlaces]
        /\ mutex' \in [Ts -> {"owner", "thread", "nobody"}]
    BY <1>9, Types DEF PollAndHandle, Goes, ThreadPlaces, AlivePlaces
  <2>3. /\ sem' \in [Ts -> BOOLEAN] /\ tid' \in [Ts -> BOOLEAN]
        /\ loop_' \in [Ts -> BOOLEAN] /\ quit_' \in [Ts -> BOOLEAN]
        /\ wakeFd' \in [Ts -> BOOLEAN]
    BY <1>9, Types DEF PollAndHandle
  <2>4. \A k \in Ts :
          /\ mutex'[k] = "owner" <=> owner' = "testLoop" /\ cur' = k
          /\ mutex'[k] = "thread" <=> thread'[k] \in {"unlock", "clear"}
    BY <1>9, Types DEF PollAndHandle, Goes
  <2> QED
    BY <2>1, <2>2, <2>3, <2>4, TypesLater
<1> QED
  BY <1>1, <1>2, <1>3, <1>4, <1>5, <1>6, <1>7, <1>8, <1>9
  DEF ThreadFunc
------------------------------------------------------------------------------
(* The owner in start().                                                   *)
LEMMA StartStep == IInv /\ (Start \/ SpuriousWakeup) => IInv'
<1> SUFFICES ASSUME IInv, Start \/ SpuriousWakeup PROVE IInv'
  OBVIOUS
<1> USE DEF Ts, OwnerPlaces, ThreadPlaces, AlivePlaces, LoopsCounted, Together,
            NotCreated, QuitByOwner, Over, StartPlaces, DestroyPlaces,
            JoinedWhenDestroyed, ownerVars, startVars, loopVars
<1>0. /\ NumThreads \in Nat \ {0} /\ cur \in Nat /\ 1 <= cur /\ cur <= NumThreads
      /\ TypeOK /\ LoopsCounted /\ JoinedWhenDestroyed /\ \A k \in Ts : Together(k)
  BY PoolAssumption, Types DEF IInv
<1>1. ASSUME ThreadStart PROVE IInv'
  <2>1. TypeOK'
    BY <1>1, TypeOwner DEF Start
  <2>2. (LoopsCounted /\ JoinedWhenDestroyed)'
    BY <1>0, <1>1 DEF ThreadStart
  <2>3. \A k \in Ts : Together(k)'
    BY <1>0, <1>1, Types DEF ThreadStart
  <2> QED
    BY <2>1, <2>2, <2>3 DEF IInv
<1>2. ASSUME SemWait PROVE IInv'
  <2>1. TypeOK'
    BY <1>2, TypeOwner DEF Start
  <2>2. (LoopsCounted /\ JoinedWhenDestroyed)'
    BY <1>0, <1>2 DEF SemWait
  <2>3. \A k \in Ts : Together(k)'
    BY <1>0, <1>2, Types DEF SemWait
  <2> QED
    BY <2>1, <2>2, <2>3 DEF IInv
<1>3. ASSUME LockForLoop PROVE IInv'
  <2>1. TypeOK'
    BY <1>3, TypeOwner DEF Start
  <2>2. (LoopsCounted /\ JoinedWhenDestroyed)'
    BY <1>0, <1>3 DEF LockForLoop
  <2>3. \A k \in Ts : Together(k)'
    BY <1>0, <1>3, Types DEF LockForLoop
  <2> QED
    BY <2>1, <2>2, <2>3 DEF IInv
<1>4. ASSUME WaitForLoop PROVE IInv'
  <2>1. TypeOK'
    BY <1>4, TypeOwner DEF Start
  <2>2. (LoopsCounted /\ JoinedWhenDestroyed)'
    BY <1>0, <1>4 DEF WaitForLoop
  <2>3. \A k \in Ts : Together(k)'
    BY <1>0, <1>4, Types DEF WaitForLoop
  <2> QED
    BY <2>1, <2>2, <2>3 DEF IInv
<1>5. ASSUME TakeLoop PROVE IInv'
  <2>1. TypeOK'
    BY <1>5, TypeOwner DEF Start
  <2>2. (LoopsCounted /\ JoinedWhenDestroyed)'
    BY <1>0, <1>5 DEF TakeLoop, NextToStart
  <2>3. \A k \in Ts : Together(k)'
    BY <1>0, <1>5, Types DEF TakeLoop, NextToStart
  <2> QED
    BY <2>1, <2>2, <2>3 DEF IInv
<1>6. ASSUME SpuriousWakeup PROVE IInv'
  <2>1. TypeOK'
    BY <1>6, TypeOwner DEF Start
  <2>2. (LoopsCounted /\ JoinedWhenDestroyed)'
    BY <1>0, <1>6 DEF SpuriousWakeup
  <2>3. \A k \in Ts : Together(k)'
    BY <1>0, <1>6, Types DEF SpuriousWakeup
  <2> QED
    BY <2>1, <2>2, <2>3 DEF IInv
<1> QED
  BY <1>1, <1>2, <1>3, <1>4, <1>5, <1>6 DEF Start

(* The owner in the destructor.                                            *)
LEMMA DestructorStep == IInv /\ Destructor => IInv'
<1> SUFFICES ASSUME IInv, Destructor PROVE IInv'
  OBVIOUS
<1> USE DEF Ts, OwnerPlaces, ThreadPlaces, AlivePlaces, LoopsCounted, Together,
            NotCreated, QuitByOwner, Over, StartPlaces, DestroyPlaces,
            JoinedWhenDestroyed, ownerVars, startVars, loopVars
<1>0. /\ NumThreads \in Nat \ {0} /\ cur \in Nat /\ 1 <= cur /\ cur <= NumThreads
      /\ TypeOK /\ LoopsCounted /\ JoinedWhenDestroyed /\ \A k \in Ts : Together(k)
  BY PoolAssumption, Types DEF IInv
<1>1. ASSUME DestructorBegins PROVE IInv'
  <2>1. TypeOK'
    BY <1>1, TypeOwner DEF Destructor
  <2>2. (LoopsCounted /\ JoinedWhenDestroyed)'
    BY <1>0, <1>1 DEF DestructorBegins
  <2>3. \A k \in Ts : Together(k)'
    BY <1>0, <1>1, Types DEF DestructorBegins
  <2> QED
    BY <2>1, <2>2, <2>3 DEF IInv
<1>2. ASSUME TestNull PROVE IInv'
  <2>1. TypeOK'
    BY <1>2, TypeOwner DEF Destructor
  <2>2. (LoopsCounted /\ JoinedWhenDestroyed)'
    BY <1>0, <1>2 DEF TestNull
  <2>3. \A k \in Ts : Together(k)'
    BY <1>0, <1>2, Types DEF TestNull
  <2> QED
    BY <2>1, <2>2, <2>3 DEF IInv
<1>3. ASSUME QuitSet PROVE IInv'
  <2>1. TypeOK'
    BY <1>3, TypeOwner DEF Destructor
  <2>2. (LoopsCounted /\ JoinedWhenDestroyed)'
    BY <1>0, <1>3 DEF QuitSet
  <2>3. \A k \in Ts : Together(k)'
    BY <1>0, <1>3, Types DEF QuitSet
  <2> QED
    BY <2>1, <2>2, <2>3 DEF IInv
<1>4. ASSUME QuitWakeup PROVE IInv'
  <2>1. TypeOK'
    BY <1>4, TypeOwner DEF Destructor
  <2>2. (LoopsCounted /\ JoinedWhenDestroyed)'
    BY <1>0, <1>4 DEF QuitWakeup
  <2>3. \A k \in Ts : Together(k)'
    BY <1>0, <1>4, Types DEF QuitWakeup
  <2> QED
    BY <2>1, <2>2, <2>3 DEF IInv
<1>5. ASSUME Join PROVE IInv'
  <2>1. TypeOK'
    BY <1>5, TypeOwner DEF Destructor
  <2>2. (LoopsCounted /\ JoinedWhenDestroyed)'
    BY <1>0, <1>5 DEF Join, NextToDestroy
  <2>3. \A k \in Ts : Together(k)'
    BY <1>0, <1>5, Types DEF Join, NextToDestroy
  <2> QED
    BY <2>1, <2>2, <2>3 DEF IInv
<1>6. ASSUME Detach PROVE IInv'
  <2>1. TypeOK'
    BY <1>6, TypeOwner DEF Destructor
  <2>2. (LoopsCounted /\ JoinedWhenDestroyed)'
    BY <1>0, <1>6 DEF Detach, NextToDestroy
  <2>3. \A k \in Ts : Together(k)'
    BY <1>0, <1>6, Types DEF Detach, NextToDestroy
  <2> QED
    BY <2>1, <2>2, <2>3 DEF IInv
<1> QED
  BY <1>1, <1>2, <1>3, <1>4, <1>5, <1>6 DEF Destructor

(* Thread t.                                                               *)
LEMMA ThreadStep ==
  ASSUME IInv, NEW t \in Ts, ThreadFunc(t) \/ PollAndHandle(t) PROVE IInv'
<1> USE DEF Ts, OwnerPlaces, ThreadPlaces, AlivePlaces, LoopsCounted, Together,
            NotCreated, QuitByOwner, Over, StartPlaces, DestroyPlaces,
            JoinedWhenDestroyed, ownerVars, startVars, loopVars
<1>0. /\ NumThreads \in Nat \ {0} /\ cur \in Nat /\ 1 <= cur /\ cur <= NumThreads
      /\ TypeOK /\ LoopsCounted /\ JoinedWhenDestroyed /\ \A k \in Ts : Together(k)
  BY PoolAssumption, Types DEF IInv
<1>1. ASSUME SemPost(t) PROVE IInv'
  <2>1. TypeOK'
    BY <1>0, <1>1, TypeThread DEF ThreadFunc
  <2>2. (LoopsCounted /\ JoinedWhenDestroyed)'
    BY <1>0, <1>1 DEF SemPost, Goes
  <2>3. ASSUME NEW k \in Ts PROVE Together(k)'
    <3>1. Together(k) /\ k \in Nat
      BY <1>0
    <3>2. CASE k = t
      BY <1>0, <1>1, <3>1, <3>2, Types DEF SemPost, Goes
    <3>3. CASE k # t
      BY <1>0, <1>1, <3>1, <3>3, Types DEF SemPost, Goes
    <3> QED
      BY <3>2, <3>3
  <2> QED
    BY <2>1, <2>2, <2>3 DEF IInv
<1>2. ASSUME ConstructLoop(t) PROVE IInv'
  <2>1. TypeOK'
    BY <1>0, <1>2, TypeThread DEF ThreadFunc
  <2>2. (LoopsCounted /\ JoinedWhenDestroyed)'
    BY <1>0, <1>2 DEF ConstructLoop, Goes
  <2>3. \A k \in Ts : Together(k)'
    BY <1>0, <1>2, Types DEF ConstructLoop, Goes
  <2> QED
    BY <2>1, <2>2, <2>3 DEF IInv
<1>3. ASSUME PublishLoop(t) PROVE IInv'
  <2>1. TypeOK'
    BY <1>0, <1>3, TypeThread DEF ThreadFunc
  <2>2. (LoopsCounted /\ JoinedWhenDestroyed)'
    BY <1>0, <1>3 DEF PublishLoop, Goes
  <2>3. \A k \in Ts : Together(k)'
    BY <1>0, <1>3, Types DEF PublishLoop, Goes
  <2> QED
    BY <2>1, <2>2, <2>3 DEF IInv
<1>4. ASSUME Unlock(t) PROVE IInv'
  <2>1. CASE Goes(t, "unlock", "enter")
    <3>1. TypeOK'
      BY <1>0, <1>4, TypeThread DEF ThreadFunc
    <3>2. (LoopsCounted /\ JoinedWhenDestroyed)'
      BY <1>0, <1>4, <2>1 DEF Unlock, Goes
    <3>3. \A k \in Ts : Together(k)'
      BY <1>0, <1>4, <2>1, Types DEF Unlock, Goes
    <3> QED
      BY <3>1, <3>2, <3>3 DEF IInv
  <2>2. CASE Goes(t, "clear", "unwind")
    <3>1. TypeOK'
      BY <1>0, <1>4, TypeThread DEF ThreadFunc
    <3>2. (LoopsCounted /\ JoinedWhenDestroyed)'
      BY <1>0, <1>4, <2>2 DEF Unlock, Goes
    <3>3. ASSUME NEW k \in Ts PROVE Together(k)'
      <4>1. Together(k) /\ k \in Nat
        BY <1>0
      <4>2. CASE k = t
        BY <1>0, <1>4, <2>2, <4>1, <4>2, Types DEF Unlock, Goes
      <4>3. CASE k # t
        BY <1>0, <1>4, <2>2, <4>1, <4>3, Types DEF Unlock, Goes
      <4> QED
        BY <4>2, <4>3
    <3> QED
      BY <3>1, <3>2, <3>3 DEF IInv
  <2> QED
    BY <1>4, <2>1, <2>2 DEF Unlock
<1>5. ASSUME EnterLoop(t) PROVE IInv'
  <2>1. TypeOK'
    BY <1>0, <1>5, TypeThread DEF ThreadFunc
  <2>2. (LoopsCounted /\ JoinedWhenDestroyed)'
    BY <1>0, <1>5 DEF EnterLoop, Goes
  <2>3. \A k \in Ts : Together(k)'
    BY <1>0, <1>5, Types DEF EnterLoop, Goes
  <2> QED
    BY <2>1, <2>2, <2>3 DEF IInv
<1>6. ASSUME CheckQuit(t) PROVE IInv'
  <2>1. TypeOK'
    BY <1>0, <1>6, TypeThread DEF ThreadFunc
  <2>2. (LoopsCounted /\ JoinedWhenDestroyed)'
    BY <1>0, <1>6 DEF CheckQuit, Goes
  <2>3. \A k \in Ts : Together(k)'
    BY <1>0, <1>6, Types DEF CheckQuit, Goes
  <2> QED
    BY <2>1, <2>2, <2>3 DEF IInv
<1>7. ASSUME ClearLoop(t) PROVE IInv'
  <2>1. TypeOK'
    BY <1>0, <1>7, TypeThread DEF ThreadFunc
  <2>2. (LoopsCounted /\ JoinedWhenDestroyed)'
    BY <1>0, <1>7 DEF ClearLoop, Goes
  <2>3. \A k \in Ts : Together(k)'
    BY <1>0, <1>7, Types DEF ClearLoop, Goes
  <2> QED
    BY <2>1, <2>2, <2>3 DEF IInv
<1>8. ASSUME DestroyLoop(t) PROVE IInv'
  <2>1. TypeOK'
    BY <1>0, <1>8, TypeThread DEF ThreadFunc
  <2>2. (LoopsCounted /\ JoinedWhenDestroyed)'
    BY <1>0, <1>8 DEF DestroyLoop, Goes
  <2>3. \A k \in Ts : Together(k)'
    BY <1>0, <1>8, Types DEF DestroyLoop, Goes
  <2> QED
    BY <2>1, <2>2, <2>3 DEF IInv
<1>9. ASSUME PollAndHandle(t) PROVE IInv'
  <2>1. CASE UNCHANGED <<quit_, selfQuit>>
    <3>1. TypeOK'
      BY <1>0, <1>9, TypeThread DEF ThreadFunc
    <3>2. (LoopsCounted /\ JoinedWhenDestroyed)'
      BY <1>0, <1>9, <2>1 DEF PollAndHandle, Goes
    <3>3. \A k \in Ts : Together(k)'
      BY <1>0, <1>9, <2>1, Types DEF PollAndHandle, Goes
    <3> QED
      BY <3>1, <3>2, <3>3 DEF IInv
  <2>2. CASE quit_' = [quit_ EXCEPT ![t] = TRUE] /\ selfQuit' = selfQuit \cup {t}
    <3>1. TypeOK'
      BY <1>0, <1>9, TypeThread DEF ThreadFunc
    <3>2. (LoopsCounted /\ JoinedWhenDestroyed)'
      BY <1>0, <1>9, <2>2 DEF PollAndHandle, Goes
    <3>3. \A k \in Ts : Together(k)'
      BY <1>0, <1>9, <2>2, Types DEF PollAndHandle, Goes
    <3> QED
      BY <3>1, <3>2, <3>3 DEF IInv
  <2> QED
    BY <1>9, <2>1, <2>2 DEF PollAndHandle
<1> QED
  BY <1>1, <1>2, <1>3, <1>4, <1>5, <1>6, <1>7, <1>8, <1>9 DEF ThreadFunc
------------------------------------------------------------------------------
(* What the owner and each thread know of each other holds at all times,   *)
(* whatever the number of threads and the order of their steps.            *)
THEOREM Invariant == Spec => []IInv
<1>1. Init => IInv
  BY IInvInit
<1>2. IInv /\ [Next]_vars => IInv'
  <2> SUFFICES ASSUME IInv, [Next]_vars PROVE IInv'
    OBVIOUS
  <2>1. CASE Next
    BY <2>1, StartStep, DestructorStep, ThreadStep DEF Next
  <2>2. CASE UNCHANGED vars
    BY <2>2 DEF vars, ownerVars, startVars, loopVars, IInv, TypeOK, LoopsCounted,
                JoinedWhenDestroyed, Together, NotCreated, QuitByOwner, Over
  <2> QED
    BY <2>1, <2>2
<1> QED
  BY <1>1, <1>2, PTL DEF Spec

(* Every variable keeps its type, and each mutex_ is held where the code   *)
(* holds it.                                                               *)
THEOREM TypeCorrect == Spec => []TypeOK
<1>1. IInv => TypeOK
  BY DEF IInv
<1> QED
  BY <1>1, Invariant, PTL

(* The id of every thread is known once Thread::start has returned.        *)
THEOREM TidsKnown == Spec => []TidKnown
<1>1. IInv => TidKnown
  BY DEF IInv, TidKnown, Together
<1> QED
  BY <1>1, Invariant, PTL

(* start() puts only pointers to living EventLoops in the pool, one for    *)
(* each thread.                                                            *)
THEOREM LoopsAlive == Spec => []PoolHasLoops
<1>1. IInv => PoolHasLoops
  <2> SUFFICES ASSUME IInv, owner = "running"
               PROVE  loops_ = NumThreads /\ \A k \in Ts \ selfQuit : LoopAlive(k)
    BY DEF PoolHasLoops
  <2>1. loops_ = NumThreads
    BY DEF IInv, LoopsCounted, StartPlaces
  <2>2. ASSUME NEW k \in Ts \ selfQuit PROVE LoopAlive(k)
    <3>1. k <= loops_ /\ Together(k)
      BY <2>1, PoolAssumption DEF IInv, Ts
    <3>2. ~QuitByOwner(k)
      BY DEF QuitByOwner, DestroyPlaces
    <3> QED
      BY <3>1, <3>2 DEF Together, LoopAlive, AlivePlaces
  <2> QED
    BY <2>1, <2>2
<1> QED
  BY <1>1, Invariant, PTL

(* No thread uses an EventLoopThread that has been destroyed.              *)
THEOREM ThreadsJoined == Spec => []JoinedWhenDestroyed
<1>1. IInv => JoinedWhenDestroyed
  BY DEF IInv
<1> QED
  BY <1>1, Invariant, PTL
(* The destructor sets quit_ of an EventLoop that is there, however early  *)
(* it runs: loop_ was published, and nobody else has ended the loop.       *)
THEOREM QuitSetInLoop == Spec => []QuitSetFindsLoop
<1>1. IInv => QuitSetFindsLoop
  <2> SUFFICES ASSUME IInv, owner = "quit", cur \notin selfQuit
               PROVE  LoopAlive(cur)
    BY DEF QuitSetFindsLoop
  <2>1. cur \in Ts /\ loops_ = NumThreads /\ Together(cur)
    BY DEF IInv, TypeOK, LoopsCounted, StartPlaces
  <2>2. cur <= loops_ /\ ~(cur < cur)
    BY <2>1, PoolAssumption DEF Ts
  <2>3. ~QuitByOwner(cur)
    BY <2>2 DEF QuitByOwner
  <2>4. loop_[cur]
    BY <2>1, <2>2, <2>3 DEF Together
  <2> QED
    BY <2>1, <2>4 DEF Together, LoopAlive, AlivePlaces
<1> QED
  BY <1>1, Invariant, PTL
------------------------------------------------------------------------------
(* What the owner waits for is on its way.                                 *)

SelfQuitAfterStart == \A k \in selfQuit : k <= loops_

(* The semaphore will be posted, the notification will be sent.            *)
StartAnswered ==
  /\ owner = "semWait" => sem[cur] \/ thread[cur] = "started"
  /\ owner = "asleep" => notified \/ thread[cur] \in {"func", "publish"}

(* The loop whose thread is joined has been told to leave, and woken.      *)
JoinAnswered ==
  owner = "join" =>
    /\ InLoop(cur)
    /\ thread[cur] \in {"check", "poll"} => quit_[cur]
    /\ thread[cur] = "poll" => wakeFd[cur]

(* The same from the first destructor on.                                  *)
LoopsQuit ==
  /\ owner \in DestroyPlaces => \A k \in Ts : InLoop(k)
  /\ owner \in {"wakeup", "join"} /\ thread[cur] \in {"check", "poll"} => quit_[cur]
  /\ owner = "join" /\ thread[cur] = "poll" => wakeFd[cur]

LEMMA SelfQuitNext ==
  ASSUME IInv, SelfQuitAfterStart, [Next]_vars
  PROVE  SelfQuitAfterStart'
<1>1. loops_ \in Nat /\ \A k \in selfQuit : k \in Nat
  BY PoolAssumption, Types DEF IInv, Ts
<1>2. selfQuit' = selfQuit \/ \E k \in Ts : k <= loops_ /\ selfQuit' = selfQuit \cup {k}
  BY DEF Next, vars, Start, SpuriousWakeup, Destructor, ThreadFunc, PollAndHandle,
         ThreadStart, SemWait, LockForLoop, WaitForLoop, TakeLoop, DestructorBegins,
         TestNull, QuitSet, QuitWakeup, Join, Detach, SemPost, ConstructLoop,
         PublishLoop, Unlock, EnterLoop, CheckQuit, ClearLoop, DestroyLoop,
         loopVars
<1>3. loops_' = loops_ \/ loops_' = loops_ + 1
  BY DEF Next, vars, Start, SpuriousWakeup, Destructor, ThreadFunc, PollAndHandle,
         ThreadStart, SemWait, LockForLoop, WaitForLoop, TakeLoop, DestructorBegins,
         TestNull, QuitSet, QuitWakeup, Join, Detach, SemPost, ConstructLoop,
         PublishLoop, Unlock, EnterLoop, CheckQuit, ClearLoop, DestroyLoop,
         ownerVars
<1>4. \A k \in selfQuit' : k <= loops_ /\ k \in Nat
  BY <1>1, <1>2 DEF SelfQuitAfterStart, Ts
<1> QED
  BY <1>1, <1>3, <1>4 DEF SelfQuitAfterStart

(* The owner falls asleep only if the thread has not published its loop:   *)
(* it looks at loop_ and sleeps without letting go of the mutex between.   *)
LEMMA FallsAsleep ==
  ASSUME IInv, SelfQuitAfterStart, WaitForLoop
  PROVE  thread[cur] \in {"func", "publish"}
<1>1. /\ owner = "testLoop" /\ ~loop_[cur] /\ cur \in Ts /\ cur \in Nat
      /\ thread[cur] \in ThreadPlaces
  BY Types, PoolAssumption DEF WaitForLoop, IInv, Ts
<1>2. Together(cur) /\ ~NotCreated(cur) /\ ~QuitByOwner(cur)
  BY <1>1 DEF IInv, NotCreated, QuitByOwner, StartPlaces, DestroyPlaces
<1>3. cur \notin selfQuit
  <2>1. loops_ = cur - 1
    BY <1>1 DEF IInv, LoopsCounted, StartPlaces
  <2> QED
    BY <1>1, <2>1 DEF SelfQuitAfterStart
<1>4. thread[cur] \notin {"none", "started"}
  BY <1>1, <1>2 DEF Together
<1>5. thread[cur] \notin {"unlock", "enter", "check", "poll", "leave"} /\ ~Over(cur)
  BY <1>1, <1>2, <1>3 DEF Together
<1> QED
  BY <1>1, <1>4, <1>5 DEF Over, ThreadPlaces, AlivePlaces

LEMMA StartAnsweredByOwner ==
  ASSUME IInv, SelfQuitAfterStart, StartAnswered,
         Start \/ SpuriousWakeup \/ Destructor
  PROVE  StartAnswered'
<1> USE DEF ownerVars, startVars, loopVars
<1>1. CASE ThreadStart
  BY <1>1, Types DEF ThreadStart, StartAnswered, IInv
<1>2. CASE WaitForLoop
  BY <1>2, FallsAsleep DEF WaitForLoop, StartAnswered
<1>3. CASE SpuriousWakeup
  BY <1>3 DEF SpuriousWakeup, StartAnswered
<1>4. CASE SemWait \/ LockForLoop \/ TakeLoop \/ Destructor
  <2>1. owner' \notin {"semWait", "asleep"}
    BY <1>4 DEF SemWait, LockForLoop, TakeLoop, NextToStart, Destructor,
                DestructorBegins, TestNull, QuitSet, QuitWakeup, Join, Detach,
                NextToDestroy
  <2> QED
    BY <2>1 DEF StartAnswered
<1> QED
  BY <1>1, <1>2, <1>3, <1>4 DEF Start

LEMMA StartAnsweredByThread ==
  ASSUME IInv, StartAnswered, NEW k \in Ts, ThreadFunc(k) \/ PollAndHandle(k)
  PROVE  StartAnswered'
<1>1. /\ cur \in Ts /\ owner' = owner /\ cur' = cur
      /\ thread \in [Ts -> ThreadPlaces] /\ sem \in [Ts -> BOOLEAN]
  BY Types DEF IInv, ThreadFunc, SemPost, ConstructLoop, PublishLoop, Unlock,
               EnterLoop, CheckQuit, ClearLoop, DestroyLoop, PollAndHandle, ownerVars
<1>2. CASE SemPost(k)
  BY <1>1, <1>2 DEF SemPost, Goes, StartAnswered
<1>3. CASE ConstructLoop(k)
  BY <1>1, <1>3 DEF ConstructLoop, Goes, StartAnswered, startVars
<1>4. CASE PublishLoop(k)
  <2>1. /\ thread[k] = "publish" /\ sem' = sem
        /\ notified' = (notified \/ (owner = "asleep" /\ cur = k))
        /\ thread' = [thread EXCEPT ![k] = "unlock"]
    BY <1>4 DEF PublishLoop, Goes
  <2> QED
    BY <1>1, <2>1 DEF StartAnswered
<1>5. CASE ~(SemPost(k) \/ ConstructLoop(k) \/ PublishLoop(k))
  <2>1. /\ sem' = sem /\ notified' = notified
        /\ thread[k] \notin {"started", "func", "publish"}
        /\ \E to : thread' = [thread EXCEPT ![k] = to]
    BY <1>5 DEF ThreadFunc, Unlock, EnterLoop, CheckQuit, ClearLoop, DestroyLoop,
                PollAndHandle, Goes, startVars
  <2>2. thread[cur] \in {"started", "func", "publish"} => thread'[cur] = thread[cur]
    BY <1>1, <2>1
  <2> QED
    BY <1>1, <2>1, <2>2 DEF StartAnswered
<1> QED
  BY <1>2, <1>3, <1>4, <1>5

(* start() never waits for what has already happened: whenever it sleeps,  *)
(* the post of the semaphore or the notification is still to come or is    *)
(* there, also when the wait wakes up for no reason (Thread::start,        *)
(* startLoop, threadFunc).                                                 *)
THEOREM NotificationSafe == Spec => []StartAnswered
<1>1. Init => SelfQuitAfterStart /\ StartAnswered
  BY DEF Init, SelfQuitAfterStart, StartAnswered
<1>2. IInv /\ SelfQuitAfterStart /\ StartAnswered /\ [Next]_vars
        => SelfQuitAfterStart' /\ StartAnswered'
  <2> SUFFICES ASSUME IInv, SelfQuitAfterStart, StartAnswered, [Next]_vars
               PROVE  SelfQuitAfterStart' /\ StartAnswered'
    OBVIOUS
  <2>1. SelfQuitAfterStart'
    BY SelfQuitNext
  <2>2. CASE Next
    BY <2>1, <2>2, StartAnsweredByOwner, StartAnsweredByThread DEF Next
  <2>3. CASE UNCHANGED vars
    BY <2>1, <2>3 DEF vars, ownerVars, startVars, StartAnswered
  <2> QED
    BY <2>2, <2>3
<1> QED
  BY <1>1, <1>2, Invariant, PTL DEF Spec

(* A thread that is in its loop stays past the reset of quit_.             *)
LEMMA InLoopStays ==
  ASSUME TypeOK, NEW j \in Ts, NEW k \in Ts, InLoop(j),
         ThreadFunc(k) \/ PollAndHandle(k)
  PROVE  InLoop(j)' /\ (quit_[j] => quit_'[j])
<1>1. /\ thread \in [Ts -> ThreadPlaces] /\ quit_ \in [Ts -> BOOLEAN]
      /\ thread[j] \notin {"none", "started", "func", "publish", "unlock", "enter"}
  BY Types DEF InLoop
<1>2. InLoop(j)'
  BY <1>1 DEF InLoop, ThreadFunc, SemPost, ConstructLoop, PublishLoop, Unlock,
              EnterLoop, CheckQuit, ClearLoop, DestroyLoop, PollAndHandle, Goes
<1>3. quit_[j] => quit_'[j]
  <2>1. CASE k = j
    <3>1. ~EnterLoop(k)
      BY <1>1, <2>1 DEF EnterLoop, Goes
    <3> QED
      BY <1>1, <3>1 DEF ThreadFunc, SemPost, ConstructLoop, PublishLoop, Unlock,
              CheckQuit, ClearLoop, DestroyLoop, PollAndHandle, loopVars
  <2>2. CASE k # j
    <3>1. quit_' = quit_ \/ \E b \in BOOLEAN : quit_' = [quit_ EXCEPT ![k] = b]
      BY DEF ThreadFunc, SemPost, ConstructLoop, PublishLoop, Unlock, EnterLoop,
             CheckQuit, ClearLoop, DestroyLoop, PollAndHandle, loopVars
    <3> QED
      BY <1>1, <2>2, <3>1
  <2> QED
    BY <2>1, <2>2
<1> QED
  BY <1>2, <1>3

LEMMA LoopsQuitByThread ==
  ASSUME IInv, LoopsQuit, NEW k \in Ts, ThreadFunc(k) \/ PollAndHandle(k)
  PROVE  LoopsQuit'
<1>1. /\ cur \in Ts /\ owner' = owner /\ cur' = cur
      /\ thread \in [Ts -> ThreadPlaces] /\ wakeFd \in [Ts -> BOOLEAN] /\ TypeOK
  BY Types DEF IInv, ThreadFunc, SemPost, ConstructLoop, PublishLoop, Unlock,
               EnterLoop, CheckQuit, ClearLoop, DestroyLoop, PollAndHandle, ownerVars
<1>2. owner \in DestroyPlaces => \A j \in Ts : InLoop(j) /\ InLoop(j)'
  BY <1>1, InLoopStays DEF LoopsQuit
<1>3. ASSUME owner \in {"wakeup", "join"}, thread'[cur] \in {"check", "poll"}
      PROVE  thread[cur] \in {"check", "poll"} /\ quit_[cur] /\ quit_'[cur]
  <2>1. InLoop(cur)
    BY <1>1, <1>2, <1>3 DEF DestroyPlaces
  <2>2. thread[cur] \in {"check", "poll"}
    BY <1>1, <1>3, <2>1
       DEF InLoop, ThreadFunc, SemPost, ConstructLoop, PublishLoop, Unlock,
           EnterLoop, CheckQuit, ClearLoop, DestroyLoop, PollAndHandle, Goes
  <2> QED
    BY <1>1, <1>3, <2>1, <2>2, InLoopStays DEF LoopsQuit
<1>4. ASSUME owner = "join", thread'[cur] = "poll" PROVE wakeFd'[cur]
  <2>1. thread[cur] \in {"check", "poll"} /\ quit_[cur]
    BY <1>3, <1>4
  <2>2. thread[k] # "poll" \/ k # cur
    BY <1>1, <1>4
       DEF ThreadFunc, SemPost, ConstructLoop, PublishLoop, Unlock,
           EnterLoop, CheckQuit, ClearLoop, DestroyLoop, PollAndHandle, Goes
  <2>3. k # cur
    <3> SUFFICES ASSUME k = cur, thread[k] = "check" PROVE FALSE
      BY <2>1, <2>2
    <3>1. CheckQuit(k)
      BY DEF ThreadFunc, SemPost, ConstructLoop, PublishLoop, Unlock,
             EnterLoop, ClearLoop, DestroyLoop, PollAndHandle, Goes
    <3>2. thread'[k] = "leave"
      BY <1>1, <2>1, <3>1 DEF CheckQuit, Goes
    <3> QED
      BY <1>4, <3>2
  <2>4. thread'[cur] = thread[cur] /\ wakeFd'[cur] = wakeFd[cur]
    <3>1. /\ \E to : thread' = [thread EXCEPT ![k] = to]
          /\ wakeFd' = wakeFd \/ wakeFd' = [wakeFd EXCEPT ![k] = FALSE]
      BY DEF ThreadFunc, SemPost, ConstructLoop, PublishLoop, Unlock, EnterLoop,
             CheckQuit, ClearLoop, DestroyLoop, PollAndHandle, Goes, loopVars
    <3> QED
      BY <1>1, <2>3, <3>1
  <2> QED
    BY <1>4, <2>4 DEF LoopsQuit
<1> QED
  BY <1>1, <1>2, <1>3, <1>4 DEF LoopsQuit

LEMMA LoopsQuitByOwner ==
  ASSUME ~DestroysEarly, IInv, LoopsQuit, Start \/ SpuriousWakeup \/ Destructor
  PROVE  LoopsQuit'
<1> USE DEF ownerVars, startVars, loopVars
<1>1. cur \in Ts /\ quit_ \in [Ts -> BOOLEAN] /\ wakeFd \in [Ts -> BOOLEAN]
  BY Types DEF IInv
<1>2. CASE Start \/ SpuriousWakeup
  <2>1. owner' \notin DestroyPlaces
    BY <1>2 DEF Start, SpuriousWakeup, ThreadStart, SemWait, LockForLoop, WaitForLoop,
                TakeLoop, NextToStart, DestroyPlaces
  <2> QED
    BY <2>1 DEF LoopsQuit, DestroyPlaces
<1>3. CASE DestructorBegins
  BY <1>3 DEF DestructorBegins, LoopsQuit, InLoop
<1>4. CASE QuitSet
  <2>1. quit_'[cur] /\ cur' = cur /\ thread' = thread /\ owner = "quit" /\ owner' = "wakeup"
    BY <1>1, <1>4 DEF QuitSet
  <2> QED
    BY <2>1 DEF LoopsQuit, InLoop, DestroyPlaces
<1>5. CASE QuitWakeup
  <2>1. /\ wakeFd'[cur] /\ cur' = cur /\ thread' = thread /\ quit_' = quit_
        /\ owner = "wakeup" /\ owner' = "join"
    BY <1>1, <1>5 DEF QuitWakeup
  <2> QED
    BY <2>1 DEF LoopsQuit, InLoop, DestroyPlaces
<1>6. CASE TestNull \/ Join \/ Detach
  <2>1. /\ owner \in DestroyPlaces /\ owner' \notin {"wakeup", "join"}
        /\ thread' = thread
    BY <1>6 DEF TestNull, Join, Detach, NextToDestroy, DestroyPlaces
  <2> QED
    BY <2>1 DEF LoopsQuit, InLoop
<1> QED
  BY <1>2, <1>3, <1>4, <1>5, <1>6 DEF Destructor

(* A pool that is destroyed once its threads loop never joins a thread     *)
(* that has missed its quit(): a thread that has not left loop() finds     *)
(* quit_ set, and its eventfd readable if it is in epoll_wait.             *)
THEOREM QuitSafe ==
  ASSUME ~DestroysEarly
  PROVE  Spec => []JoinAnswered
<1>1. Init => LoopsQuit
  BY DEF Init, LoopsQuit, DestroyPlaces
<1>2. IInv /\ LoopsQuit /\ [Next]_vars => LoopsQuit'
  <2> SUFFICES ASSUME IInv, LoopsQuit, [Next]_vars PROVE LoopsQuit'
    OBVIOUS
  <2>1. CASE Next
    BY <2>1, LoopsQuitByOwner, LoopsQuitByThread DEF Next
  <2>2. CASE UNCHANGED vars
    BY <2>2 DEF vars, ownerVars, loopVars, LoopsQuit, InLoop
  <2> QED
    BY <2>1, <2>2
<1>3. IInv /\ LoopsQuit => JoinAnswered
  BY Types DEF IInv, LoopsQuit, JoinAnswered, DestroyPlaces
<1> QED
  BY <1>1, <1>2, <1>3, Invariant, PTL DEF Spec
==============================================================================
