---------------------------- MODULE MCCloseWindow ----------------------------
(* An app, another it leases a part of its window to, and three viewports. *)
EXTENDS Blitter, TLC

Symmetry == Permutations(Apps) \cup Permutations(Viewports)
=============================================================================
