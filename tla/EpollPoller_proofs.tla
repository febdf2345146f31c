-------------------------- MODULE EpollPoller_proofs --------------------------
(***************************************************************************)
(* Proofs about EpollPoller, for every set of channels and descriptors.    *)
(***************************************************************************)
EXTENDS EpollPoller, FiniteSetTheorems, TLAPS

(* Two Channel objects that exist have different descriptors.              *)
FdsDistinct ==
  \A c, d \in ChannelIds : Exists(c) /\ fd[c] = fd[d] => c = d

(* The channels in activeChannels_ exist, and remove() has not been called *)
(* for them since the poll.                                                *)
ActiveExist == \A c \in active : Exists(c) /\ ch[c].index # "kNew"

(* The inductive invariant: the properties of the module, which need one   *)
(* another, and the two facts above.                                       *)
IInv ==
  /\ TypeOK
  /\ NoFatal
  /\ KernelMirrors
  /\ MapMirrors
  /\ FdsDistinct
  /\ ActiveExist
------------------------------------------------------------------------------
(* What the setters of a channel's mask make of its index_.                *)
LEMMA SetterResult ==
  ASSUME NEW r \in Records, NEW new \in Setters(r)
  PROVE  /\ new \in Records
         /\ Registered(new) <=> r.index # "kAdded" \/ ~isNoneEvent(new)
         /\ new.index # "kNew"
<1>1. PICK mask \in Masks : new = WithEvents(r, mask)
  BY DEF Setters, Records, Masks, enableReading, disableReading,
         enableWriting, disableWriting, disableAll
<1>2. DEFINE m == [r EXCEPT !.events = mask]
<1>3. m \in Records /\ m.index = r.index /\ m.events = mask
  BY DEF Records
<1>4. new = [m EXCEPT !.index = IF r.index = "kAdded" /\ mask = {}
                                THEN "kDel" ELSE "kAdded"]
  BY <1>1, <1>3 DEF WithEvents, Updated, isNoneEvent
<1> HIDE DEF m
<1> QED
  BY <1>3, <1>4 DEF Records, Indexes, Registered, isNoneEvent

(* A channel whose index_ is not kAdded has no entry in the epoll set.     *)
LEMMA UnregisteredAbsent ==
  ASSUME IInv, NEW c \in ChannelIds, Exists(c)
  PROVE  fd[c] \in Fds /\ (InEpoll(fd[c]) <=> Registered(ch[c]))
<1>1. fd[c] \in Fds
  BY DEF IInv, TypeOK, Exists
<1>2. ASSUME InEpoll(fd[c]) PROVE Registered(ch[c])
  <2>1. epoll[fd[c]].ptr \in ChannelIds
    BY <1>1, <1>2 DEF IInv, TypeOK, Entries, InEpoll
  <2>2. epoll[fd[c]].ptr = c
    BY <1>1, <1>2, <2>1 DEF IInv, KernelMirrors, FdsDistinct
  <2> QED
    BY <1>1, <1>2, <2>2 DEF IInv, KernelMirrors
<1>3. ASSUME Registered(ch[c]) PROVE InEpoll(fd[c])
  <2>1. epoll[fd[c]] = [events |-> ch[c].events, ptr |-> c]
    BY <1>3 DEF IInv, KernelMirrors
  <2>2. epoll[fd[c]].ptr = c
    BY <2>1
  <2> QED
    BY <2>2, PollerAssumption DEF InEpoll
<1> QED
  BY <1>1, <1>2, <1>3

(* The initial state satisfies the invariant.                              *)
LEMMA IInvInit == Init => IInv
  BY PollerAssumption
  DEF Init, IInv, TypeOK, NoFatal, KernelMirrors, MapMirrors, FdsDistinct,
      ActiveExist, Exists, InEpoll, Entries, NoEntry, NewChannel, Records,
      Indexes, Masks, kReadEvent, kWriteEvent, Registered

(* A new Channel takes a descriptor nothing refers to.                     *)
LEMMA CreateStep ==
  ASSUME IInv, NEW c \in ChannelIds, NEW f \in Fds, Create(c, f)
  PROVE  IInv'
<1> USE PollerAssumption DEF IInv, Create, Exists, Used
<1>1. TypeOK' /\ NoFatal'
  BY DEF TypeOK, NoFatal, NewChannel, Records, Indexes, Masks
<1>2. ~InEpoll(f)
  BY DEF KernelMirrors, TypeOK, Entries, InEpoll
<1>3. KernelMirrors'
  BY <1>2 DEF KernelMirrors, TypeOK, Entries, InEpoll, Registered, NewChannel
<1>4. MapMirrors'
  BY DEF MapMirrors, TypeOK, NewChannel
<1>5. FdsDistinct' /\ ActiveExist'
  BY DEF FdsDistinct, ActiveExist, TypeOK
<1> QED
  BY <1>1, <1>3, <1>4, <1>5

(* A Channel is freed when nothing refers to it any more.                  *)
LEMMA DestroyStep ==
  ASSUME IInv, NEW c \in ChannelIds, Destroy(c)
  PROVE  IInv'
<1> USE PollerAssumption DEF IInv, Destroy, Exists
<1>1. TypeOK' /\ NoFatal'
  BY DEF TypeOK, NoFatal, Entries, NoEntry, Masks
<1>2. KernelMirrors'
  BY DEF KernelMirrors, TypeOK, Entries, NoEntry, InEpoll, Registered,
         FdsDistinct
<1>3. MapMirrors'
  BY DEF MapMirrors, TypeOK
<1>4. FdsDistinct' /\ ActiveExist'
  BY DEF FdsDistinct, ActiveExist, TypeOK
<1> QED
  BY <1>1, <1>2, <1>3, <1>4

(* Every setter does the right epoll_ctl.                                  *)
LEMMA UpdateChannelStep ==
  ASSUME IInv, NEW c \in ChannelIds, NEW new \in Setters(ch[c]),
         UpdateChannel(c, new)
  PROVE  IInv'
<1> USE PollerAssumption DEF IInv, UpdateChannel
<1>1. ch[c] \in Records
  BY DEF TypeOK
<1>2. /\ new \in Records
      /\ Registered(new) <=> ~Registered(ch[c]) \/ ~isNoneEvent(new)
      /\ new.index # "kNew"
  BY <1>1, SetterResult DEF Registered
<1>3. fd[c] \in Fds /\ (InEpoll(fd[c]) <=> Registered(ch[c]))
  BY UnregisteredAbsent
<1>4. /\ phase' = phase
      /\ epoll' = [epoll EXCEPT ![fd[c]] =
           IF Registered(new) THEN [events |-> new.events, ptr |-> c]
                              ELSE NoEntry]
  BY <1>2, <1>3 DEF UpdateAdd, UpdateMod, UpdateDel, Registered
<1>5. TypeOK' /\ NoFatal'
  BY <1>2, <1>3, <1>4
  DEF TypeOK, NoFatal, Entries, NoEntry, Records, Masks
<1>6. KernelMirrors'
  BY <1>2, <1>3, <1>4
  DEF KernelMirrors, TypeOK, Entries, NoEntry, InEpoll, FdsDistinct, Exists
<1>7. MapMirrors'
  BY <1>2, <1>3 DEF MapMirrors, TypeOK, FdsDistinct, Exists
<1>8. FdsDistinct' /\ ActiveExist'
  BY <1>2, <1>4 DEF FdsDistinct, ActiveExist, Exists, TypeOK
<1> QED
  BY <1>5, <1>6, <1>7, <1>8

(* remove() leaves nothing behind in the map or the epoll set.             *)
LEMMA RemoveChannelStep ==
  ASSUME IInv, NEW c \in ChannelIds, RemoveChannel(c)
  PROVE  IInv'
<1> USE PollerAssumption DEF IInv, RemoveChannel
<1>1. ch[c] \in Records
  BY DEF TypeOK
<1>2. Removed(ch[c]) \in Records /\ Removed(ch[c]).index = "kNew"
  BY <1>1 DEF Removed, Records, Indexes
<1>3. fd[c] \in Fds /\ (InEpoll(fd[c]) <=> Registered(ch[c]))
  BY UnregisteredAbsent
<1>4. /\ phase' = phase
      /\ epoll' = IF Registered(ch[c]) THEN [epoll EXCEPT ![fd[c]] = NoEntry]
                                       ELSE epoll
  BY DEF UpdateDel, Registered
<1>5. TypeOK' /\ NoFatal'
  BY <1>2, <1>3, <1>4 DEF TypeOK, NoFatal, Entries, NoEntry, Masks
<1>6. KernelMirrors'
  BY <1>2, <1>3, <1>4
  DEF KernelMirrors, TypeOK, Entries, NoEntry, InEpoll, FdsDistinct, Exists,
      Registered
<1>7. MapMirrors'
  BY <1>2, <1>3 DEF MapMirrors, TypeOK, FdsDistinct, Exists
<1>8. FdsDistinct' /\ ActiveExist'
  BY <1>4 DEF FdsDistinct, ActiveExist, Exists, TypeOK
<1> QED
  BY <1>5, <1>6, <1>7, <1>8

(* epoll_wait hands out pointers to channels that exist.                   *)
LEMMA PollStep ==
  ASSUME IInv, NEW ready \in SUBSET Fds, Poll(ready)
  PROVE  IInv'
<1> USE PollerAssumption DEF IInv, Poll, ActiveChannels
<1>1. \A f \in ready : LET c == epoll[f].ptr IN
        c \in ChannelIds /\ Exists(c) /\ ch[c].index # "kNew"
  BY DEF TypeOK, Entries, InEpoll, KernelMirrors, Exists, Registered
<1>2. Cardinality(ready) \in Nat
  BY FS_Subset, FS_CardinalityType
<1>3. TypeOK' /\ NoFatal'
  BY <1>1, <1>2 DEF TypeOK, NoFatal, Grown
<1>4. KernelMirrors' /\ MapMirrors' /\ FdsDistinct'
  BY DEF KernelMirrors, MapMirrors, FdsDistinct, Exists, InEpoll
<1>5. ActiveExist'
  BY <1>1 DEF ActiveExist, Exists
<1> QED
  BY <1>3, <1>4, <1>5

(* Every step preserves the invariant.                                     *)
LEMMA IInvNext == IInv /\ [Next]_vars => IInv'
<1> SUFFICES ASSUME IInv, [Next]_vars PROVE IInv'
  OBVIOUS
<1>1. ASSUME NEW c \in ChannelIds, HandleEvent(c) PROVE IInv'
  BY <1>1
  DEF HandleEvent, IInv, TypeOK, NoFatal, KernelMirrors, MapMirrors,
      FdsDistinct, ActiveExist, Exists, InEpoll
<1>2. CASE DoPendingFunctors
  BY <1>2
  DEF DoPendingFunctors, IInv, TypeOK, NoFatal, KernelMirrors, MapMirrors,
      FdsDistinct, ActiveExist, Exists, InEpoll
<1>3. CASE UNCHANGED vars
  BY <1>3
  DEF vars, IInv, TypeOK, NoFatal, KernelMirrors, MapMirrors,
      FdsDistinct, ActiveExist, Exists, InEpoll
<1> QED
  BY <1>1, <1>2, <1>3, CreateStep, DestroyStep, UpdateChannelStep,
     RemoveChannelStep, PollStep DEF Next

(* Every variable keeps its type.                                          *)
THEOREM TypeCorrect == Spec => []TypeOK
<1>1. IInv => TypeOK
  BY DEF IInv
<1> QED
  BY <1>1, IInvInit, IInvNext, PTL DEF Spec

(* No sequence of setters, removals, closes and reuses of descriptors      *)
(* makes epoll_ctl fail fatally.                                           *)
THEOREM NeverFatal == Spec => []NoFatal
<1>1. IInv => NoFatal
  BY DEF IInv
<1> QED
  BY <1>1, IInvInit, IInvNext, PTL DEF Spec

(* The kernel's epoll set is what index_ and events_ of the channels say.  *)
THEOREM KernelAgrees == Spec => []KernelMirrors
<1>1. IInv => KernelMirrors
  BY DEF IInv
<1> QED
  BY <1>1, IInvInit, IInvNext, PTL DEF Spec

(* The map channels_ holds the channels whose index_ is not kNew, each     *)
(* under its descriptor, also when descriptors are reused.                 *)
THEOREM MapAgrees == Spec => []MapMirrors
<1>1. IInv => MapMirrors
  BY DEF IInv
<1> QED
  BY <1>1, IInvInit, IInvNext, PTL DEF Spec

(* No pointer to a freed Channel is ever left where the loop would follow  *)
(* it, provided remove() is not called while events are handled.           *)
THEOREM PointersValid == Spec => []NoDangling
<1>1. IInv => NoDangling
  BY PollerAssumption
  DEF IInv, TypeOK, NoDangling, ActiveExist, KernelMirrors, Exists, InEpoll
<1> QED
  BY <1>1, IInvInit, IInvNext, PTL DEF Spec

(* events_ stays within twice the number of descriptors.                   *)
THEOREM ListStaysBounded == Spec => []ListBounded
<1>1. Init => ListBounded
  BY PollerAssumption DEF Init, ListBounded
<1>2. TypeOK /\ ListBounded /\ [Next]_vars => ListBounded'
  <2> SUFFICES ASSUME TypeOK, ListBounded, [Next]_vars PROVE ListBounded'
    OBVIOUS
  <2>1. ASSUME NEW ready \in SUBSET Fds, Poll(ready) PROVE ListBounded'
    <3>1. /\ Cardinality(ready) \in Nat
          /\ Cardinality(Fds) \in Nat
          /\ Cardinality(ready) <= Cardinality(Fds)
      BY PollerAssumption, FS_Subset, FS_CardinalityType
    <3> QED
      BY <2>1, <3>1, PollerAssumption DEF Poll, Grown, ListBounded, TypeOK
  <2>2. CASE UNCHANGED listSize
    BY <2>2 DEF ListBounded
  <2> QED
    BY <2>1, <2>2
    DEF Next, vars, Create, Destroy, UpdateChannel, RemoveChannel,
        HandleEvent, DoPendingFunctors
<1> QED
  BY <1>1, <1>2, TypeCorrect, PTL DEF Spec
==============================================================================
