---------------------------- MODULE MCEpollPoller ----------------------------
(* Instance of EpollPoller for TLC.                                        *)
EXTENDS EpollPoller, TLC

Symmetry == Permutations(ChannelIds) \cup Permutations(Fds)
==============================================================================
