----------------------------- MODULE MCEventLoop -----------------------------
(* Instance of EventLoop for TLC.                                          *)
EXTENDS EventLoop

==============================================================================
