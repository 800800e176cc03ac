----------------------------- MODULE Containers -----------------------------
(***************************************************************************)
(* Two containers that share no state: the hash table (HashTable) and the  *)
(* message queue (ZQueue).                                                 *)
(***************************************************************************)
EXTENDS HashTable

CONSTANTS Threads, Pollers, MaxItems

ASSUME QueueAssumption == Pollers \subseteq Threads /\ MaxItems \in Nat

VARIABLES next, tailp, seq, inserter, pc, match_val, inserted, consumed

Queue == INSTANCE ZQueue

\* The queue holds what came and was not taken, in order (ZQueue.cpp:72-113).
InOrder == Queue!InOrder

\* The queue's sleepers are not forgotten (ZQueue.cpp:86-111).
NoLostWake == Queue!NoLostWake
=============================================================================
