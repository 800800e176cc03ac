----------------------------- MODULE MCMessages -----------------------------
(***************************************************************************)
(* The messages of the coordinator: three apps pass long messages around,  *)
(* keep, free and exit with them (LongMessages), three threads take        *)
(* packets from the queue (PacketQueue), three of four datagrams come in   *)
(* fragments, two more than the limit of partial packets (SkinnyNetwork),  *)
(* and two apps lease three viewports (Blitter).  A behaviour is one of    *)
(* one of them.                                                            *)
(***************************************************************************)
EXTENDS LongMessages, ClientNetwork, Deliveries, TLC

CONSTANTS d1, d4

VARIABLE component   \* the one that moves

MCPort == [d \in Datagrams |-> "port"]
MCFrags == [d \in Datagrams |-> IF d = d1 THEN 3 ELSE IF d = d4 THEN 1 ELSE 2]

queuevars == <<queue, count, size_bytes, pc, queue_failed>>
netvars == <<in_flight, home, fragments, next_gap, have_last, mq, handler, held, depth,
             removing, net_failed>>
blitvars == <<palifcs, gone, landlord, parent, tenant, deeds, known, mapped, canvases,
              blitter_failed>>

Symmetry == Permutations(Apps) \cup Permutations(Viewports)

MCInit == /\ component \in {"long", "queue", "network", "windows"}
          /\ Init /\ Queue!Init /\ Network!Init /\ Windows!Init

Moves(x) == component = x /\ UNCHANGED component

MCNext == \/ Moves("long") /\ Next /\ UNCHANGED <<queuevars, netvars, blitvars>>
          \/ Moves("queue") /\ Queue!Next /\ UNCHANGED <<vars, netvars, blitvars>>
          \/ Moves("network") /\ Network!Next /\ UNCHANGED <<vars, queuevars, blitvars>>
          \/ Moves("windows") /\ Windows!Next /\ UNCHANGED <<vars, queuevars, netvars>>

MCSpec == MCInit /\ [][MCNext]_<<vars, queuevars, netvars, blitvars, component>>
=============================================================================
