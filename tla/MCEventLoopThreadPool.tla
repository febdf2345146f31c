------------------------ MODULE MCEventLoopThreadPool ------------------------
(* Instance of EventLoopThreadPool for TLC.  The threads are started in    *)
(* order, so there is no symmetry.                                         *)
EXTENDS EventLoopThreadPool
==============================================================================
