------------------------------ MODULE MCNotify ------------------------------
(* Instance of Notify for TLC.  The run checks liveness too, so the senders *)
(* are not declared symmetric.                                              *)
EXTENDS Notify, TLC
=============================================================================
