----------------------------- MODULE MCRPCTable -----------------------------
(* Two VCPU threads that call the coordinator at once. *)
EXTENDS RPC
=============================================================================
