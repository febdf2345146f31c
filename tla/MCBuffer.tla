------------------------------ MODULE MCBuffer ------------------------------
(* Instance of Buffer for TLC, with small sizes in place of 8, 1024 and    *)
(* 65536 that keep their order.                                            *)
EXTENDS Buffer
==============================================================================
