---------------------------- MODULE ClientNetwork ----------------------------
(***************************************************************************)
(* The client's network (SkinnyNetwork) under names that are not those     *)
(* of the other modules about messages.                                    *)
(***************************************************************************)
EXTENDS Naturals

CONSTANTS None, Datagrams, Frags, Sockets, Port, QUEUE_SIZE, MAX_PARTIAL_PACKETS

ASSUME NetworkAssumption == /\ Frags \in [Datagrams -> Nat \ {0}]
                            /\ Port \in [Datagrams -> Sockets]
                            /\ None \notin Datagrams
                            /\ QUEUE_SIZE \in Nat
                            /\ MAX_PARTIAL_PACKETS \in Nat

VARIABLES in_flight, home, fragments, next_gap, have_last, mq, handler, held, depth,
          removing, net_failed

Network == INSTANCE SkinnyNetwork WITH failed <- net_failed

\* Only whole datagrams are delivered (FragmentReassembly.cpp:148-202).
DeliveredWhole == Network!DeliveredWhole

\* Every buffer that counts is held (xax_skinny_network.cpp:83-92).
BuffersAccounted == Network!BuffersAccounted
=============================================================================
