----------------------------- MODULE Deliveries -----------------------------
(***************************************************************************)
(* What the coordinator delivers to apps besides long messages: packets,   *)
(* which wait in the monitor's queue (PacketQueue), and windows (Blitter). *)
(* The two share no state; their names are not those of the other modules  *)
(* about messages.                                                         *)
(***************************************************************************)
EXTENDS Naturals, FiniteSets

CONSTANTS Receivers, Sizes, MaxBytes, MinPackets, SmallLimit, MaxPackets,
          Clients, Viewports, Nobody, MaxDeeds

ASSUME PacketAssumption == /\ IsFiniteSet(Receivers)
                           /\ Sizes \subseteq Nat
                           /\ MaxBytes \in Nat /\ MinPackets \in Nat

ASSUME WindowAssumption == Nobody \notin Clients /\ Nobody \notin Viewports

VARIABLES queue, count, size_bytes, pc, queue_failed,
          palifcs, gone, landlord, parent, tenant, deeds, known, mapped, canvases,
          blitter_failed

Queue == INSTANCE PacketQueue WITH Threads <- Receivers, failed <- queue_failed

Windows == INSTANCE Blitter WITH Apps <- Clients, None <- Nobody, failed <- blitter_failed

\* The packet queue is within its limits (CoordinatorConnection.cpp:434-443).
WithinLimits == Queue!WithinLimits

\* No packet lies idle (CoordinatorConnection.cpp:254, 416-419).
NoIdlePacket == Queue!NoIdlePacket

\* A lease is held by one party (BlitterManager.cpp:165-194).
LeaseIsExclusive == Windows!LeaseIsExclusive

\* The canvases are those of the mapped viewports (BlitterManager.cpp:86-98).
CanvasesAreLive == Windows!CanvasesAreLive
=============================================================================
