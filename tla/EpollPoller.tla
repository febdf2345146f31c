----------------------------- MODULE EpollPoller -----------------------------
(***************************************************************************)
(* EpollPoller with the channels of one EventLoop: the map channels_ from  *)
(* descriptors to channels, the kernel's epoll set with the Channel        *)
(* pointers stored in it, and activeChannels_.  Descriptors are reused     *)
(* after close; Channel objects are created and freed by their owners      *)
(* (Acceptor, TcpConnection, EventLoop).  All of it is code of the loop's  *)
(* own thread, so every call is one step.                                  *)
(***************************************************************************)
EXTENDS Channel, Naturals, FiniteSets

CONSTANTS
  ChannelIds,          \* the Channel objects
  Fds,                 \* the descriptors the kernel hands out
  None,                \* no descriptor, no Channel
  KInitEventListSize   \* the initial size of events_

ASSUME PollerAssumption ==
  /\ None \notin ChannelIds \cup Fds
  /\ IsFiniteSet(Fds)
  /\ KInitEventListSize \in Nat \ {0}

VARIABLES
  phase,      \* what the loop is doing; "aborted" after LOG_FATAL
  ch,         \* index_ and events_ of every Channel
  fd,         \* fd_ of every Channel object, None when there is no object
  channels_,  \* channels_: descriptor -> Channel
  epoll,      \* the kernel's epoll set: descriptor -> mask and data.ptr
  active,     \* activeChannels_ not handled yet
  listSize    \* events_.size()

vars == <<phase, ch, fd, channels_, epoll, active, listSize>>

Exists(c) == fd[c] # None
Used(f) == \E c \in ChannelIds : fd[c] = f

Entries == [events : Masks, ptr : ChannelIds \cup {None}]
NoEntry == [events |-> {}, ptr |-> None]
InEpoll(f) == epoll[f].ptr # None

Init ==
  /\ phase = "functors"
  /\ ch = [c \in ChannelIds |-> NewChannel]
  /\ fd = [c \in ChannelIds |-> None]
  /\ channels_ = [f \in Fds |-> None]
  /\ epoll = [f \in Fds |-> NoEntry]
  /\ active = {}
  /\ listSize = KInitEventListSize
------------------------------------------------------------------------------
(* The owners.  The constructors of TcpConnection and Acceptor make a      *)
(* Channel for a fresh descriptor.                                         *)
Create(c, f) ==
  /\ phase \in {"handle", "functors"}
  /\ ~Exists(c)
  /\ ~Used(f)
  /\ fd' = [fd EXCEPT ![c] = f]
  /\ ch' = [ch EXCEPT ![c] = NewChannel]
  /\ UNCHANGED <<phase, channels_, epoll, active, listSize>>

(* A destructor that runs after disableAll alone.                          *)
MutDestroy(c) ==
  /\ phase \in {"handle", "functors"}
  /\ Exists(c)
  /\ ch[c].index # "kAdded"
  /\ fd' = [fd EXCEPT ![c] = None]
  /\ epoll' = [epoll EXCEPT ![fd[c]] = NoEntry]
  /\ UNCHANGED <<phase, ch, channels_, active, listSize>>

(* Their destructors free it and close the descriptor, which takes it out  *)
(* of the epoll set.  A channel that was registered is destroyed after     *)
(* Channel::remove(), but by whatever thread drops the last shared_ptr,    *)
(* also while events are handled.                                          *)
Destroy(c) ==
  /\ phase \in {"handle", "functors"}
  /\ Exists(c)
  /\ ch[c].index = "kNew"
  /\ fd' = [fd EXCEPT ![c] = None]
  /\ epoll' = [epoll EXCEPT ![fd[c]] = NoEntry]
  /\ UNCHANGED <<phase, ch, channels_, active, listSize>>
------------------------------------------------------------------------------
(* EpollPoller::update.  An ADD of a descriptor that is in the epoll set   *)
(* and a MOD of one that is not fail, which is fatal; a DEL that fails is  *)
(* only logged.                                                            *)
UpdateAdd(c, mask) ==
  IF InEpoll(fd[c])
  THEN phase' = "aborted" /\ UNCHANGED epoll
  ELSE /\ epoll' = [epoll EXCEPT ![fd[c]] = [events |-> mask, ptr |-> c]]
       /\ UNCHANGED phase

UpdateMod(c, mask) ==
  IF ~InEpoll(fd[c])
  THEN phase' = "aborted" /\ UNCHANGED epoll
  ELSE /\ epoll' = [epoll EXCEPT ![fd[c]] = [events |-> mask, ptr |-> c]]
       /\ UNCHANGED phase

UpdateDel(c) ==
  /\ epoll' = [epoll EXCEPT ![fd[c]] = NoEntry]
  /\ UNCHANGED phase

(* A call of one of the five setters, which makes new of the channel.  It  *)
(* is made by a callback or a functor.                                     *)
UpdateChannel(c, new) ==
  /\ phase \in {"handle", "functors"}
  /\ Exists(c)
  /\ channels_' = IF ch[c].index = "kNew"
                  THEN [channels_ EXCEPT ![fd[c]] = c] ELSE channels_
  /\ \/ ch[c].index # "kAdded" /\ UpdateAdd(c, new.events)
     \/ ch[c].index = "kAdded" /\ isNoneEvent(new) /\ UpdateDel(c)
     \/ ch[c].index = "kAdded" /\ ~isNoneEvent(new) /\ UpdateMod(c, new.events)
  /\ ch' = [ch EXCEPT ![c] = new]
  /\ UNCHANGED <<fd, active, listSize>>

Setters(r) == {enableReading(r), disableReading(r), enableWriting(r),
               disableWriting(r), disableAll(r)}

(* A removal that leaves the map alone when there is no DEL to do.         *)
MutRemoveKeepsMap(c) ==
  /\ phase = "functors"
  /\ Exists(c)
  /\ \/ /\ ch[c].index = "kAdded"
        /\ channels_' = [channels_ EXCEPT ![fd[c]] = None]
        /\ UpdateDel(c)
     \/ ch[c].index # "kAdded" /\ UNCHANGED <<phase, channels_, epoll>>
  /\ ch' = [ch EXCEPT ![c] = Removed(@)]
  /\ UNCHANGED <<fd, active, listSize>>

(* A removal that forgets the epoll set.                                   *)
MutRemoveChannel(c) ==
  /\ phase = "functors"
  /\ Exists(c)
  /\ channels_' = [channels_ EXCEPT ![fd[c]] = None]
  /\ UNCHANGED <<phase, epoll>>
  /\ ch' = [ch EXCEPT ![c] = Removed(@)]
  /\ UNCHANGED <<fd, active, listSize>>

(* Channel::remove(): connectDestoryed, which only runs as a functor, and  *)
(* the destructors of Acceptor and EventLoop.                              *)
RemoveChannel(c) ==
  /\ phase = "functors"
  /\ Exists(c)
  /\ channels_' = [channels_ EXCEPT ![fd[c]] = None]
  /\ \/ ch[c].index = "kAdded" /\ UpdateDel(c)
     \/ ch[c].index # "kAdded" /\ UNCHANGED <<phase, epoll>>
  /\ ch' = [ch EXCEPT ![c] = Removed(@)]
  /\ UNCHANGED <<fd, active, listSize>>
------------------------------------------------------------------------------
(* The growth test with the wrong comparison.                              *)
MutGrown(n) == IF n <= listSize THEN 2 * listSize ELSE listSize

(* events_ doubles when a poll fills it.                                   *)
Grown(n) == IF n = listSize THEN 2 * listSize ELSE listSize

(* fillActiveChannels: the stored pointers, without another look.          *)
ActiveChannels(ready) == {epoll[f].ptr : f \in ready}

(* poll: epoll_wait reports some of the descriptors of the epoll set, at   *)
(* most as many as events_ has room for.                                   *)
Poll(ready) ==
  /\ phase = "functors"
  /\ \A f \in ready : InEpoll(f)
  /\ Cardinality(ready) <= listSize
  /\ active' = ActiveChannels(ready)
  /\ listSize' = IF ready = {} THEN listSize ELSE Grown(Cardinality(ready))
  /\ phase' = "handle"
  /\ UNCHANGED <<ch, fd, channels_, epoll>>

(* channel->handleEvent() for the next active channel; what its callbacks  *)
(* do to this or other channels are the steps Create and UpdateChannel.    *)
HandleEvent(c) ==
  /\ phase = "handle"
  /\ c \in active
  /\ active' = active \ {c}
  /\ UNCHANGED <<phase, ch, fd, channels_, epoll, listSize>>

(* The functors run with events left to handle.                            *)
MutDoPendingFunctors ==
  /\ phase = "handle"
  /\ phase' = "functors"
  /\ UNCHANGED <<ch, fd, channels_, epoll, active, listSize>>

DoPendingFunctors ==
  /\ phase = "handle"
  /\ active = {}
  /\ phase' = "functors"
  /\ UNCHANGED <<ch, fd, channels_, epoll, active, listSize>>

Next ==
  \/ \E c \in ChannelIds :
       \/ \E f \in Fds : Create(c, f)
       \/ Destroy(c)
       \/ \E new \in Setters(ch[c]) : UpdateChannel(c, new)
       \/ RemoveChannel(c)
       \/ HandleEvent(c)
  \/ \E ready \in SUBSET Fds : Poll(ready)
  \/ DoPendingFunctors

Spec == Init /\ [][Next]_vars
------------------------------------------------------------------------------
(* Types; activeChannels_ is in use only while events are handled.         *)
TypeOK ==
  /\ phase \in {"handle", "functors", "aborted"}
  /\ ch \in [ChannelIds -> Records]
  /\ fd \in [ChannelIds -> Fds \cup {None}]
  /\ channels_ \in [Fds -> ChannelIds \cup {None}]
  /\ epoll \in [Fds -> Entries]
  /\ active \subseteq ChannelIds
  /\ active # {} => phase = "handle"
  /\ listSize \in Nat \ {0}

(* EpollPoller::update never ends the process: whatever the owners do with *)
(* their channels, in whatever order and with reused descriptors, every    *)
(* ADD is of a descriptor outside the epoll set and every MOD of one in it.*)
NoFatal == phase # "aborted"

(* The kernel agrees with the channels: a channel whose index_ is kAdded   *)
(* has its mask and its pointer in the epoll set under its descriptor, and *)
(* the epoll set holds nothing else, closed descriptors included.          *)
KernelMirrors ==
  /\ \A c \in ChannelIds :
       Exists(c) /\ Registered(ch[c])
         => epoll[fd[c]] = [events |-> ch[c].events, ptr |-> c]
  /\ \A f \in Fds :
       InEpoll(f) => fd[epoll[f].ptr] = f /\ Registered(ch[epoll[f].ptr])

(* channels_ (what hasChannel looks up) holds the channels whose index_ is *)
(* kAdded or kDel, each under its own descriptor, and no freed channel.    *)
MapMirrors ==
  \A f \in Fds : \A c \in ChannelIds :
    channels_[f] = c <=> fd[c] = f /\ ch[c].index # "kNew"

(* The pointers the loop is about to call through are those of objects     *)
(* that exist: neither activeChannels_ nor the epoll set ever holds a      *)
(* pointer to a freed Channel.                                             *)
NoDangling ==
  /\ \A c \in active : Exists(c)
  /\ \A f \in Fds : InEpoll(f) => Exists(epoll[f].ptr)

(* events_ only grows as far as the descriptors can fill it.               *)
ListBounded ==
  listSize <= KInitEventListSize \/ listSize <= 2 * Cardinality(Fds)
==============================================================================
