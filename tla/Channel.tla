------------------------------- MODULE Channel -------------------------------
(***************************************************************************)
(* Channel (Channel.h, Channel.cpp) together with what its poller keeps of *)
(* it, as operators on a record: the mask events_ and the poller's index_. *)
(* Each setter of the mask calls update(), so it includes the change of    *)
(* index_ that EpollPoller::updateChannel makes.                           *)
(***************************************************************************)

kReadEvent == {"IN", "PRI"}
kWriteEvent == {"OUT"}
Masks == SUBSET (kReadEvent \cup kWriteEvent)

(* The index_ of a channel: never seen by the poller or removed from it,   *)
(* in the epoll set, known to the poller but not in the epoll set.         *)
Indexes == {"kNew", "kAdded", "kDel"}

Records == [index : Indexes, events : Masks]

NewChannel == [index |-> "kNew", events |-> {}]

isNoneEvent(ch) == ch.events = {}
isWriting(ch) == ch.events \cap kWriteEvent # {}

(* EpollPoller::updateChannel as far as the channel sees it: an unknown    *)
(* channel is added whatever its mask, a known one is taken out when its   *)
(* mask is empty.                                                          *)
MutUpdated(ch) ==
  [ch EXCEPT !.index = IF isNoneEvent(ch) THEN "kDel" ELSE "kAdded"]

Updated(ch) ==
  [ch EXCEPT !.index = IF ch.index = "kAdded" /\ isNoneEvent(ch)
                       THEN "kDel" ELSE "kAdded"]

WithEvents(ch, mask) == Updated([ch EXCEPT !.events = mask])

enableReading(ch)  == WithEvents(ch, ch.events \cup kReadEvent)
disableReading(ch) == WithEvents(ch, ch.events \ kReadEvent)
enableWriting(ch)  == WithEvents(ch, ch.events \cup kWriteEvent)
disableWriting(ch) == WithEvents(ch, ch.events \ kWriteEvent)
disableAll(ch)     == WithEvents(ch, {})

(* EpollPoller::removeChannel leaves the mask alone.                       *)
Removed(ch) == [ch EXCEPT !.index = "kNew"]

Registered(ch) == ch.index = "kAdded"

(* What epoll may report for a registered channel: ERR and HUP need no     *)
(* bit of the mask.                                                        *)
Reportable(ch) == IF Registered(ch) THEN ch.events \cup {"ERR", "HUP"} ELSE {}

(* handleEventWithGuard: which callbacks a set of revents calls.  They are *)
(* called in the order close, error, read, write.                          *)
CallsClose(revents) == "HUP" \in revents /\ "IN" \notin revents
CallsError(revents) == "ERR" \in revents
CallsRead(revents)  == revents \cap kReadEvent # {}
CallsWrite(revents) == "OUT" \in revents
==============================================================================
