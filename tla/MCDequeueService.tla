------------------------- MODULE MCDequeueService -------------------------
(* DequeueService for TLC.                                                 *)
EXTENDS DequeueService, TLC
=============================================================================
