---------------------------- MODULE MCVCPUPause ----------------------------
(* TLC instances of VCPUPause: two threads and the main thread. *)
EXTENDS VCPUPause
=============================================================================
