---------------------------- MODULE MCContainers ----------------------------
(***************************************************************************)
(* The containers: a hash table with nine keys and a load limit of 1, so   *)
(* that it grows at the fourth and at the eighth key and several keys      *)
(* share a bucket at every size (HashTable); a tree with the keys 1 .. 10, *)
(* so that removals rotate up several levels (AVLTree); an allocator of    *)
(* seven addresses (CoalescingAllocator); and a queue with three threads   *)
(* that insert and consume and one that consumes and polls (ZQueue).  The  *)
(* four share no state; a behaviour is one of one of them.                 *)
(***************************************************************************)
EXTENDS Containers, TLC

CONSTANTS Objects, Nil

VARIABLES heap, tree_count,
          trees, managed, failed,
          component   \* the one that moves

CollidingHash == [k \in Keys |-> (5 * k) % 7]

Tree == INSTANCE AVLTree WITH Keys <- 1..10, NULL <- Nil, count <- tree_count

Allocator == INSTANCE CoalescingAllocator WITH Space <- 7, allow_redundant_frees <- TRUE

treevars == <<heap, tree_count>>
allocvars == <<trees, managed, failed>>
queuevars == <<next, tailp, seq, inserter, pc, match_val, inserted, consumed>>

Symmetry == Permutations(Objects) \cup Permutations(Threads \ Pollers)

MCInit == /\ component \in {"table", "tree", "allocator", "queue"}
          /\ Init /\ Tree!Init /\ Allocator!Init /\ Queue!Init

Moves(x) == component = x /\ UNCHANGED component

MCNext == \/ Moves("table") /\ Next /\ UNCHANGED <<treevars, allocvars, queuevars>>
          \/ Moves("tree") /\ Tree!Next /\ UNCHANGED <<vars, allocvars, queuevars>>
          \/ Moves("allocator") /\ Allocator!Next /\ UNCHANGED <<vars, treevars, queuevars>>
          \/ Moves("queue") /\ Queue!Next /\ UNCHANGED <<vars, treevars, allocvars>>

MCSpec == MCInit /\ [][MCNext]_<<vars, treevars, allocvars, queuevars, component>>

\* The tree is balanced and its searches are exact (avl2.h:240-570).
SearchesAreExact == Tree!SearchesAreExact

\* The tree behaves as a set of keys (avl2.h:573-628).
TreeIsKeySet == Tree!IsKeySet

\* Free and allocated ranges partition the space (CoalescingAllocator.cpp:149-352).
Partition == Allocator!Partition
=============================================================================
