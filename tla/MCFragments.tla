---------------------------- MODULE MCFragments ----------------------------
(* One datagram in three fragments, one in two, and one socket. *)
EXTENDS SkinnyNetwork

CONSTANTS d1, d2

MCFrags == [d \in Datagrams |-> IF d = d1 THEN 3 ELSE 2]
MCPort == [d \in Datagrams |-> "port"]
=============================================================================
