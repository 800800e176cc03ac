-------------------------- MODULE DeliveriesProofs --------------------------
(***************************************************************************)
(* Proofs about the two parts of Deliveries: leases and canvases, for any  *)
(* applications, viewports and deeds (Blitter), and the monitor's packet   *)
(* queue, for any threads, sizes and limits (PacketQueue).                 *)
(***************************************************************************)
EXTENDS Deliveries, Integers, Sequences, FiniteSetTheorems, WellFoundedInduction, TLAPS
-----------------------------------------------------------------------------
(* Blitter *)

Canvas == [viewport : Viewports, palifc : Clients, pc : BOOLEAN]

WindowTypeOK == /\ palifcs \in SUBSET Clients /\ gone \in SUBSET Clients
          /\ landlord \in [Viewports -> Clients \cup {Nobody}]
          /\ tenant \in [Viewports -> Clients \cup {Nobody}]
          /\ deeds \in Seq(Viewports \cup {Nobody})
          /\ known \in SUBSET (1..Len(deeds))
          /\ mapped \in [Viewports -> BOOLEAN]
          /\ canvases \in SUBSET Canvas

\* A viewport that has not been made has no tenant and no deed.
Unmade == \A v \in Viewports : landlord[v] = Nobody => tenant[v] = Nobody /\ Windows!Entries(v) = {}

\* The inductive invariant
WindowIInv == WindowTypeOK /\ Unmade /\ Windows!LeaseIsExclusive /\ Windows!CanvasesAreLive

\* Every initial state satisfies the invariant (hash_table_init of the tables,
\* BlitterManager.cpp:8-21).
LEMMA InitIInv == Windows!Init => WindowIInv
  BY DEF Windows!Init, WindowIInv, WindowTypeOK, Unmade, Windows!LeaseIsExclusive, Windows!CanvasesAreLive, Windows!Entries

\* What manufacture_deed does to the deeds of each viewport: one new number, for
\* the viewport it was made for (BlitterManager.cpp:255-272).
LEMMA NewDeed ==
  ASSUME WindowTypeOK, Nobody \notin Viewports,
         NEW v \in Viewports, Windows!manufacture_deed(v)
  PROVE  /\ deeds' \in Seq(Viewports \cup {Nobody})
         /\ Len(deeds') = Len(deeds) + 1
         /\ Windows!new_deed \notin known
         /\ Windows!new_deed \in 1..Len(deeds')
         /\ known \in SUBSET (1..Len(deeds'))
         /\ \A w \in Viewports : Windows!Entries(w)' = IF w = v THEN Windows!Entries(w) \cup {Windows!new_deed}
                                               ELSE Windows!Entries(w)
  <1>1. deeds' = Append(deeds, v) /\ deeds \in Seq(Viewports \cup {Nobody})
    BY Zenon DEF Windows!manufacture_deed, WindowTypeOK
  <1>2. /\ deeds' \in Seq(Viewports \cup {Nobody})
        /\ Len(deeds') = Len(deeds) + 1
        /\ Len(deeds) \in Nat
        /\ deeds'[Len(deeds) + 1] = v
        /\ \A n \in 1..Len(deeds) : deeds'[n] = deeds[n]
    BY <1>1
  <1>3. Windows!new_deed \notin known /\ Windows!new_deed \in 1..Len(deeds')
    BY <1>2 DEF Windows!new_deed, WindowTypeOK
  <1>4. known \in SUBSET (1..Len(deeds'))
    BY <1>2 DEF WindowTypeOK
  <1>5. ASSUME NEW w \in Viewports
        PROVE  Windows!Entries(w)' = IF w = v THEN Windows!Entries(w) \cup {Windows!new_deed} ELSE Windows!Entries(w)
    <2>1. 1..Len(deeds') = (1..Len(deeds)) \cup {Len(deeds) + 1}
      BY <1>2
    <2> QED  BY Zenon, <1>2, <2>1 DEF Windows!Entries, Windows!new_deed
  <1> QED  BY Zenon, <1>2, <1>3, <1>4, <1>5

\* What unmap does to the canvases that stay: they keep their viewports and
\* applications, and a viewport is mapped if its canvas stays
\* (BlitterCanvas.cpp:55-62).
LEMMA Unmapped ==
  ASSUME WindowTypeOK, Windows!CanvasesAreLive, NEW cs \in SUBSET canvases, Windows!unmap(cs)
  PROVE  /\ mapped' \in [Viewports -> BOOLEAN]
         /\ canvases' \in SUBSET Canvas
         /\ canvases' = canvases \ cs
         /\ \A c \in canvases' : mapped'[c.viewport]
         /\ \A c, d \in canvases' : c.viewport = d.viewport => c = d
         /\ \A v \in Viewports : mapped'[v] => \E c \in canvases' : c.viewport = v
  <1>1. canvases' = canvases \ cs /\ canvases' \in SUBSET Canvas
    BY Zenon DEF Windows!unmap, WindowTypeOK
  <1>2. mapped' \in [Viewports -> BOOLEAN]
    BY Zenon DEF Windows!unmap, WindowTypeOK
  <1>3. \A c, d \in canvases' : c.viewport = d.viewport => c = d
    BY Zenon, <1>1 DEF Windows!CanvasesAreLive
  <1>4. ASSUME NEW c \in canvases'
        PROVE  mapped'[c.viewport]
    <2>1. c \in canvases /\ c \notin cs /\ mapped[c.viewport] /\ c.viewport \in Viewports
      BY Zenon, <1>1 DEF Windows!CanvasesAreLive, WindowTypeOK, Canvas
    <2>2. c.viewport \notin {d.viewport : d \in cs}
      BY Zenon, <2>1 DEF Windows!CanvasesAreLive
    <2> QED  BY Zenon, <2>1, <2>2 DEF Windows!unmap
  <1>5. ASSUME NEW v \in Viewports, mapped'[v]
        PROVE  \E c \in canvases' : c.viewport = v
    <2>1. mapped[v] /\ v \notin {d.viewport : d \in cs}
      BY Zenon, <1>5 DEF Windows!unmap
    <2>2. PICK c \in canvases : c.viewport = v
      BY Zenon, <2>1 DEF Windows!CanvasesAreLive
    <2> QED  BY Zenon, <1>1, <2>1, <2>2
  <1> QED  BY Zenon, <1>1, <1>2, <1>3, <1>4, <1>5

\* Every step preserves the invariant: one case per handler of the listener and
\* one for the window the user closes (Listener.cpp:189-209, 277-380, 422-427).
LEMMA NextIInv ==
  ASSUME Nobody \notin Clients, Nobody \notin Viewports
  PROVE  WindowIInv /\ [Windows!Next]_(Windows!vars) => WindowIInv'
  <1> SUFFICES ASSUME WindowIInv, [Windows!Next]_(Windows!vars) PROVE WindowIInv'
    BY Zenon
  <1> USE DEF WindowIInv
  <1>1. ASSUME NEW p \in Clients, NEW v \in Viewports, Windows!new_toplevel_viewport(p, v),
               palifcs' \in SUBSET Clients, palifcs \subseteq palifcs', gone' \in SUBSET Clients
        PROVE  WindowIInv'
    <2>1. /\ landlord[v] = Nobody /\ landlord' = [landlord EXCEPT ![v] = p]
          /\ tenant' = [tenant EXCEPT ![v] = p]
          /\ Windows!manufacture_deed(v)
          /\ UNCHANGED <<known, mapped, canvases>>
      BY Zenon, <1>1 DEF Windows!new_toplevel_viewport, Windows!BlitterViewport
    <2>2. tenant[v] = Nobody /\ Windows!Entries(v) = {}
      BY Zenon, <2>1 DEF Unmade
    <2>3. WindowTypeOK'
      BY Zenon, <1>1, <2>1, NewDeed DEF WindowTypeOK
    <2>4. Unmade'
      BY Zenon, <2>1, NewDeed DEF Unmade, WindowTypeOK
    <2>5. \A w \in Viewports : Windows!Entries(w)' \cap known' = Windows!Entries(w) \cap known
      BY Zenon, <2>1, NewDeed
    <2>6. \A c \in canvases : c.viewport # v
      BY Zenon, <2>2 DEF Windows!LeaseIsExclusive, WindowTypeOK, Canvas
    <2>7. Windows!LeaseIsExclusive'
      BY <2>1, <2>2, <2>5, <2>6 DEF Windows!LeaseIsExclusive, WindowTypeOK, Canvas
    <2>8. Windows!CanvasesAreLive'
      BY Zenon, <1>1, <2>1 DEF Windows!CanvasesAreLive
    <2> QED  BY Zenon, <2>3, <2>4, <2>7, <2>8
  <1>2. ASSUME NEW p \in Clients, NEW v \in Viewports, Windows!connect(p, v)
        PROVE  WindowIInv'
    BY Zenon, <1>1, <1>2 DEF Windows!connect, WindowTypeOK
  <1>3. ASSUME NEW p \in Clients, NEW v \in Viewports, Windows!extn_debug_create_toplevel_window(p, v)
        PROVE  WindowIInv'
    BY Zenon, <1>1, <1>3 DEF Windows!extn_debug_create_toplevel_window, WindowTypeOK
  <1>4. ASSUME NEW p \in Clients, NEW v \in Viewports, NEW w \in Viewports,
               Windows!sublet_viewport(p, w, v)
        PROVE  WindowIInv'
    <2>1. /\ landlord[v] = Nobody /\ landlord' = [landlord EXCEPT ![v] = p]
          /\ Windows!manufacture_deed(v)
          /\ known' = known \cup {Windows!new_deed}
          /\ UNCHANGED <<palifcs, gone, tenant, mapped, canvases>>
      BY Zenon, <1>4 DEF Windows!sublet_viewport, Windows!BlitterViewport
    <2>2. tenant[v] = Nobody /\ Windows!Entries(v) = {}
      BY Zenon, <2>1 DEF Unmade
    <2>3. WindowTypeOK'
      BY Zenon, <2>1, NewDeed DEF WindowTypeOK
    <2>4. Unmade'
      BY Zenon, <2>1, NewDeed DEF Unmade, WindowTypeOK
    <2>5. \A u \in Viewports : Windows!Entries(u)' \cap known' =
                                  IF u = v THEN {Windows!new_deed} ELSE Windows!Entries(u) \cap known
      <3>1. \A u \in Viewports : Windows!new_deed \notin Windows!Entries(u)
        BY DEF Windows!Entries, Windows!new_deed, WindowTypeOK
      <3> QED  BY <2>1, <2>2, <3>1, NewDeed
    <2>6. Windows!LeaseIsExclusive'
      <3>1. ASSUME NEW u \in Viewports, landlord'[u] # Nobody
            PROVE  IF tenant'[u] = Nobody THEN \E n \in known' : Windows!Entries(u)' \cap known' = {n}
                   ELSE Windows!Entries(u)' \cap known' = {}
        <4>1. CASE u = v
          BY Zenon, <2>1, <2>2, <2>5, <4>1
        <4>2. CASE u # v
          BY Zenon, <2>1, <2>5, <3>1, <4>2 DEF Windows!LeaseIsExclusive,
             WindowTypeOK
        <4> QED  BY Zenon, <4>1, <4>2
      <3>2. \A c \in canvases' : c.palifc = tenant'[c.viewport]
        BY Zenon, <2>1 DEF Windows!LeaseIsExclusive
      <3> QED  BY Zenon, <3>1, <3>2 DEF Windows!LeaseIsExclusive
    <2>7. Windows!CanvasesAreLive'
      BY Zenon, <2>1 DEF Windows!CanvasesAreLive
    <2> QED  BY Zenon, <2>3, <2>4, <2>6, <2>7
  <1>5. ASSUME NEW p \in Clients, NEW n \in known, Windows!accept_viewport(p, n)
        PROVE  WindowIInv'
    <2> DEFINE v == deeds[n]
    <2>1. /\ p \in palifcs /\ v # Nobody
          /\ tenant' = [tenant EXCEPT ![v] = p]
          /\ deeds' = [deeds EXCEPT ![n] = Nobody]
          /\ UNCHANGED <<palifcs, gone, landlord, known, mapped, canvases>>
      BY Zenon, <1>5 DEF Windows!accept_viewport, Windows!Calls
    <2>2. n \in 1..Len(deeds) /\ v \in Viewports
      BY <2>1 DEF WindowTypeOK
    <2>3. n \in Windows!Entries(v) \cap known
      BY Zenon, <2>2 DEF Windows!Entries
    <2>4. landlord[v] # Nobody /\ tenant[v] = Nobody
      BY Zenon, <2>2, <2>3 DEF Unmade, Windows!LeaseIsExclusive
    <2>5. Windows!Entries(v) \cap known = {n}
      BY Zenon, <2>2, <2>3, <2>4 DEF Windows!LeaseIsExclusive
    <2>6. /\ deeds' \in Seq(Viewports \cup {Nobody}) /\ Len(deeds') = Len(deeds)
          /\ \A m \in 1..Len(deeds) : deeds'[m] = IF m = n THEN Nobody ELSE deeds[m]
      BY <2>1, <2>2 DEF WindowTypeOK
    <2>7. \A u \in Viewports : Windows!Entries(u)' = Windows!Entries(u) \ {n}
      BY Zenon, <2>6 DEF Windows!Entries
    <2>8. \A u \in Viewports : u # v => n \notin Windows!Entries(u)
      BY Zenon DEF Windows!Entries
    <2>9. WindowTypeOK'
      BY Zenon, <2>1, <2>2, <2>6 DEF WindowTypeOK
    <2>10. Unmade'
      BY Zenon, <2>1, <2>4, <2>7 DEF Unmade, WindowTypeOK
    <2>11. \A c \in canvases : c.viewport # v
      BY Zenon, <2>4 DEF Windows!LeaseIsExclusive, WindowTypeOK, Canvas
    <2>12. Windows!LeaseIsExclusive'
      <3>1. ASSUME NEW u \in Viewports, landlord'[u] # Nobody
            PROVE  IF tenant'[u] = Nobody THEN \E m \in known' : Windows!Entries(u)' \cap known' = {m}
                   ELSE Windows!Entries(u)' \cap known' = {}
        <4>1. CASE u = v
          BY Zenon, <2>1, <2>2, <2>5, <2>7, <4>1 DEF WindowTypeOK
        <4>2. CASE u # v
          BY <2>1, <2>7, <2>8, <3>1, <4>2 DEF Windows!LeaseIsExclusive, WindowTypeOK
        <4> QED  BY Zenon, <4>1, <4>2
      <3>2. \A c \in canvases' : c.palifc = tenant'[c.viewport]
        BY Zenon, <2>1, <2>11 DEF Windows!LeaseIsExclusive, WindowTypeOK, Canvas
      <3> QED  BY Zenon, <3>1, <3>2 DEF Windows!LeaseIsExclusive
    <2>13. Windows!CanvasesAreLive'
      BY Zenon, <2>1 DEF Windows!CanvasesAreLive
    <2> QED  BY Zenon, <2>9, <2>10, <2>12, <2>13
  <1>6. ASSUME NEW p \in Clients, NEW v \in Viewports, Windows!transfer_viewport(p, v)
        PROVE  WindowIInv'
    <2> DEFINE cs == {c \in canvases : c.viewport = v}
    <2>1. /\ tenant[v] = p
          /\ tenant' = [tenant EXCEPT ![v] = Nobody]
          /\ Windows!unmap(cs)
          /\ Windows!manufacture_deed(v)
          /\ known' = known \cup {Windows!new_deed}
          /\ UNCHANGED <<palifcs, gone, landlord>>
      BY Zenon, <1>6 DEF Windows!transfer_viewport
    <2>2. landlord[v] # Nobody /\ Windows!Entries(v) \cap known = {}
      BY Zenon, <2>1 DEF Unmade, Windows!LeaseIsExclusive
    <2>3. cs \in SUBSET canvases
      BY Zenon
    <2>4. WindowTypeOK'
      <3>1. mapped' \in [Viewports -> BOOLEAN] /\ canvases' \in SUBSET Canvas
        BY Zenon, <2>1, <2>3, Unmapped
      <3>2. /\ deeds' \in Seq(Viewports \cup {Nobody})
            /\ known' \in SUBSET (1..Len(deeds'))
        BY Zenon, <2>1, NewDeed
      <3>3. tenant' \in [Viewports -> Clients \cup {Nobody}]
        BY Zenon, <2>1 DEF WindowTypeOK
      <3> QED  BY Zenon, <2>1, <3>1, <3>2, <3>3 DEF WindowTypeOK
    <2>5. Unmade'
      BY Zenon, <2>1, <2>2, NewDeed DEF Unmade, WindowTypeOK
    <2>6. \A u \in Viewports : Windows!Entries(u)' \cap known' =
                                  IF u = v THEN {Windows!new_deed} ELSE Windows!Entries(u) \cap known
      <3>1. \A u \in Viewports : Windows!new_deed \notin Windows!Entries(u)
        BY DEF Windows!Entries, Windows!new_deed, WindowTypeOK
      <3> QED  BY Zenon, <2>1, <2>2, <3>1, NewDeed
    <2>7. Windows!LeaseIsExclusive'
      <3>1. ASSUME NEW u \in Viewports, landlord'[u] # Nobody
            PROVE  IF tenant'[u] = Nobody THEN \E n \in known' : Windows!Entries(u)' \cap known' = {n}
                   ELSE Windows!Entries(u)' \cap known' = {}
        <4>1. CASE u = v
          BY Zenon, <2>1, <2>6, <4>1 DEF WindowTypeOK
        <4>2. CASE u # v
          BY Zenon, <2>1, <2>6, <3>1, <4>2 DEF Windows!LeaseIsExclusive,
             WindowTypeOK
        <4> QED  BY Zenon, <4>1, <4>2
      <3>2. ASSUME NEW c \in canvases'
            PROVE  c.palifc = tenant'[c.viewport]
        <4>1. c \in canvases /\ c.viewport # v /\ c.viewport \in Viewports
          BY <2>1, <2>3, Unmapped DEF WindowTypeOK, Canvas
        <4> QED  BY Zenon, <2>1, <4>1 DEF Windows!LeaseIsExclusive, WindowTypeOK
      <3> QED  BY Zenon, <3>1, <3>2 DEF Windows!LeaseIsExclusive
    <2>8. Windows!CanvasesAreLive'
      BY <2>1, <2>3, Unmapped DEF Windows!CanvasesAreLive
    <2> QED  BY Zenon, <2>4, <2>5, <2>7, <2>8
  <1>7. ASSUME NEW cs \in SUBSET canvases, Windows!unmap(cs), UNCHANGED <<Windows!leases>>,
               palifcs' \in SUBSET palifcs, gone' \in SUBSET Clients,
               \A c \in canvases \ cs : c.palifc \in palifcs'
        PROVE  WindowIInv'
    <2>1. WindowTypeOK'
      BY Zenon, <1>7, Unmapped DEF WindowTypeOK, Windows!leases
    <2>2. Unmade' /\ Windows!LeaseIsExclusive'
      BY <1>7, Unmapped DEF Unmade, Windows!LeaseIsExclusive, Windows!Entries, Windows!leases
    <2>3. Windows!CanvasesAreLive'
      BY <1>7, Unmapped DEF Windows!CanvasesAreLive
    <2> QED  BY Zenon, <2>1, <2>2, <2>3
  <1>8. ASSUME NEW p \in Clients, NEW v \in Viewports, Windows!repossess_viewport(p, v)
        PROVE  WindowIInv'
    BY Zenon, <1>7, <1>8 DEF Windows!repossess_viewport, WindowTypeOK,
       Windows!CanvasesAreLive
  <1>9. ASSUME NEW c \in canvases, Windows!unmap_canvas(c)
        PROVE  WindowIInv'
    BY <1>7, <1>9 DEF Windows!unmap_canvas, WindowTypeOK, Windows!CanvasesAreLive
  <1>10. ASSUME NEW p \in palifcs, Windows!unregister_palifc(p)
         PROVE  WindowIInv'
    <2> DEFINE cs == {c \in canvases : c.palifc = p}
    <2>1. cs \in SUBSET canvases /\ Windows!unmap(cs) /\ UNCHANGED Windows!leases
          /\ palifcs' = palifcs \ {p} /\ gone' = gone \cup {p}
      BY Zenon, <1>10 DEF Windows!unregister_palifc
    <2>2. \A c \in canvases \ cs : c.palifc \in palifcs'
      BY Zenon, <2>1 DEF Windows!CanvasesAreLive
    <2> QED  BY Zenon, <1>7, <2>1, <2>2 DEF WindowTypeOK
  <1>11. ASSUME NEW p \in Clients, NEW v \in Viewports, Windows!map_canvas(p, v)
         PROVE  WindowIInv'
    <2>1. UNCHANGED <<palifcs, gone, landlord, tenant, deeds, known>>
      BY Zenon, <1>11 DEF Windows!map_canvas, Windows!leases
    <2>2. CASE UNCHANGED <<mapped, canvases>>
      BY <2>1, <2>2 DEF WindowTypeOK, Unmade, Windows!LeaseIsExclusive, Windows!CanvasesAreLive, Windows!Entries
    <2>3. ASSUME mapped' = [mapped EXCEPT ![v] = TRUE],
                 canvases' = canvases \cup {[viewport |-> v, palifc |-> p, pc |-> TRUE]}
          PROVE  WindowIInv'
      <3>1. p \in palifcs /\ tenant[v] = p /\ ~ mapped[v]
        BY Zenon, <1>11 DEF Windows!map_canvas, Windows!Calls
      <3> DEFINE c == [viewport |-> v, palifc |-> p, pc |-> TRUE]
      <3>a. c \in Canvas /\ c.viewport = v /\ c.palifc = p
        BY Zenon DEF Canvas
      <3>b. mapped' \in [Viewports -> BOOLEAN]
            /\ \A u \in Viewports : mapped'[u] = IF u = v THEN TRUE ELSE mapped[u]
        BY Zenon, <2>3 DEF WindowTypeOK
      <3>c. canvases' = canvases \cup {c}
        BY Zenon, <2>3
      <3> HIDE DEF c
      <3>2. WindowTypeOK' /\ Unmade'
        BY <2>1, <3>a, <3>b, <3>c DEF WindowTypeOK, Unmade, Windows!Entries
      <3>3. Windows!LeaseIsExclusive'
        BY <2>1, <3>1, <3>a, <3>c DEF Windows!LeaseIsExclusive, Windows!Entries
      <3>4. Windows!CanvasesAreLive'
        <4>1. \A d \in canvases : d.viewport \in Viewports /\ d.viewport # v
          BY <3>1 DEF Windows!CanvasesAreLive, WindowTypeOK, Canvas
        <4>2. \A d \in canvases' : mapped'[d.viewport] /\ d.palifc \in palifcs'
          <5>1. \A d \in canvases : mapped'[d.viewport] /\ d.palifc \in palifcs'
            <6>1. \A d \in canvases : mapped[d.viewport] /\ d.palifc \in palifcs
              BY Zenon DEF Windows!CanvasesAreLive
            <6> QED  BY Zenon, <2>1, <3>b, <4>1, <6>1
          <5>2. mapped'[c.viewport] /\ c.palifc \in palifcs'
            BY Zenon, <2>1, <3>1, <3>a, <3>b
          <5> QED  BY Zenon, <3>c, <5>1, <5>2
        <4>3. \A d, e \in canvases' : d.viewport = e.viewport => d = e
          BY Zenon, <3>a, <3>c, <4>1 DEF Windows!CanvasesAreLive
        <4>4. \A u \in Viewports : mapped'[u] => \E d \in canvases' : d.viewport = u
          BY Zenon, <3>a, <3>b, <3>c DEF Windows!CanvasesAreLive
        <4> QED  BY Zenon, <4>2, <4>3, <4>4 DEF Windows!CanvasesAreLive
      <3> QED  BY Zenon, <3>2, <3>3, <3>4
    <2> QED  BY Zenon, <1>11, <2>2, <2>3 DEF Windows!map_canvas
  <1>12. ASSUME NEW c \in canvases, Windows!WindowClosed(c)
         PROVE  WindowIInv'
    <2> DEFINE d == [c EXCEPT !.pc = FALSE]
    <2>1. /\ UNCHANGED <<palifcs, gone, landlord, tenant, deeds, known, mapped>>
          /\ canvases' = (canvases \ {c}) \cup {d}
      BY Zenon, <1>12 DEF Windows!WindowClosed, Windows!leases
    <2>2. d \in Canvas /\ d.viewport = c.viewport /\ d.palifc = c.palifc
      BY ZenonT(40) DEF WindowTypeOK, Canvas
    <2> HIDE DEF d
    <2>3. WindowTypeOK' /\ Unmade'
      BY <2>1, <2>2 DEF WindowTypeOK, Unmade, Windows!Entries
    <2>4. Windows!LeaseIsExclusive'
      BY <2>1, <2>2 DEF Windows!LeaseIsExclusive, Windows!Entries
    <2>5. Windows!CanvasesAreLive'
      <3>1. \A e \in canvases' : mapped'[e.viewport] /\ e.palifc \in palifcs'
        BY Zenon, <2>1, <2>2 DEF Windows!CanvasesAreLive
      <3>2. \A e, f \in canvases' : e.viewport = f.viewport => e = f
        BY <2>1, <2>2 DEF Windows!CanvasesAreLive
      <3>3. \A u \in Viewports : mapped'[u] => \E e \in canvases' : e.viewport = u
        BY Zenon, <2>1, <2>2 DEF Windows!CanvasesAreLive
      <3> QED  BY Zenon, <3>1, <3>2, <3>3 DEF Windows!CanvasesAreLive
    <2> QED  BY Zenon, <2>3, <2>4, <2>5
  <1>13. CASE UNCHANGED Windows!vars
    BY <1>13 DEF Windows!vars, Windows!leases, WindowTypeOK, Unmade, Windows!LeaseIsExclusive, Windows!CanvasesAreLive, Windows!Entries
  <1> QED
    BY <1>2, <1>3, <1>4, <1>5, <1>6, <1>8, <1>9, <1>10, <1>11, <1>12, <1>13 DEF Windows!Next, WindowTypeOK

\* The invariant holds in every reachable state.
LEMMA WindowsInvariant == Windows!Spec => []WindowIInv
  BY InitIInv, NextIInv, WindowAssumption, PTL DEF Windows!Spec

\* For any applications and viewports a lease has one holder: what
\* transfer_viewport and accept_viewport rely on (BlitterManager.cpp:165-194,
\* BlitterViewport.cpp:153-172).
THEOREM BlitterLeases == Windows!Spec => []LeaseIsExclusive
  <1>1. WindowIInv => LeaseIsExclusive
    BY Zenon DEF WindowIInv, LeaseIsExclusive
  <1> QED  BY WindowsInvariant, <1>1, PTL

\* For any applications and viewports the table holds the mapped canvases and
\* none of an application that is gone: what unregister_palifc is for
\* (BlitterManager.cpp:86-98, BlitterCanvas.cpp:55-62).
THEOREM BlitterCanvases == Windows!Spec => []CanvasesAreLive
  <1>1. WindowIInv => CanvasesAreLive
    BY Zenon DEF WindowIInv, CanvasesAreLive
  <1> QED  BY WindowsInvariant, <1>1, PTL

-----------------------------------------------------------------------------
(* PacketQueue *)

\* A set of numbers that is not empty has a least one (for the packet at which
\* _tidy_nolock stops).
LEMMA LeastNumber == \A T \in SUBSET Nat : T # {} => \E x \in T : \A y \in T : x <= y
<1> DEFINE R == {ss \in Nat \X Nat : ss[1] < ss[2]}
<1> SUFFICES ASSUME NEW T \in SUBSET Nat, T # {} PROVE \E x \in T : \A y \in T : x <= y
  BY Zenon
<1>1. IsWellFoundedOn(R, Nat)
  BY Zenon, NatLessThanWellFounded DEF OpToRel
<1>2. \E x \in T : \A y \in T : ~ (<<y, x>> \in R)
  <2> HIDE DEF R
  <2> QED BY Zenon, <1>1, WFMin
<1>3. PICK x \in T : \A y \in T : ~ (<<y, x>> \in R)
  BY Zenon, <1>2
<1>4. ASSUME NEW y \in T PROVE x <= y
  <2>1. ~ (<<y, x>> \in R)
    BY Zenon, <1>3
  <2>2. <<y, x>> \in Nat \X Nat
    BY Zenon
  <2>3. ~ (y < x)
    BY Zenon, <2>1, <2>2
  <2> QED
    BY <2>3
<1> QED
  BY Zenon, <1>4

\* _tidy_nolock stops at the latest when the queue is empty, as then it has no
\* more than the minimum of packets (CoordinatorConnection.cpp:434-443).
LEMMA TossedSome ==
  ASSUME NEW q \in Seq(Sizes)
  PROVE  Queue!Tossed(q) \in 0..Len(q) /\ ~Queue!TooMuch(q, Queue!Tossed(q))
  <1> DEFINE T == {k \in 0..Len(q) : ~Queue!TooMuch(q, k)}
  <1>1. Len(q) \in T
    BY PacketAssumption DEF Queue!TooMuch
  <1>2. PICK k \in T : \A j \in T : k <= j
    <2>1. T \in SUBSET Nat /\ T # {}
      BY <1>1
    <2> HIDE DEF T
    <2> QED  BY Zenon, <2>1, LeastNumber
  <1>3. ASSUME NEW j \in 0..(k - 1) PROVE Queue!TooMuch(q, j)
    <2>1. j \in 0..Len(q) /\ ~(k <= j)
      BY <1>2
    <2> QED  BY Zenon, <1>2, <2>1
  <1>4. k \in 0..Len(q) /\ ~Queue!TooMuch(q, k)
    BY Zenon, <1>2
  <1> QED  BY Zenon, <1>3, <1>4 DEF Queue!Tossed

\* PacketQueue counts threads with the same operator.
LEMMA QueueCardinality == \A S : Queue!Cardinality(S) = Cardinality(S)
  BY Zenon DEF Queue!Cardinality, Cardinality

\* What the invariant needs of the types.
QueueTypeOK == /\ queue \in Seq(Sizes)
               /\ pc \in [Receivers -> {"idle", "waiting", "woken"}]

WaitingThreads == {t \in Receivers : pc[t] = "waiting"}
WokenThreads == {t \in Receivers : pc[t] = "woken"}

\* The inductive invariant
PacketIInv == /\ QueueTypeOK
              /\ WaitingThreads # {} => Len(queue) <= Cardinality(WokenThreads)

\* A thread that is woken or moves on changes the number of woken threads by one.
LEMMA CountWoken ==
  ASSUME QueueTypeOK
  PROVE  /\ Cardinality(WokenThreads) \in Nat
         /\ \A t \in Receivers \ WokenThreads :
               Cardinality(WokenThreads \cup {t}) = Cardinality(WokenThreads) + 1
         /\ \A t \in WokenThreads :
               Cardinality(WokenThreads \ {t}) = Cardinality(WokenThreads) - 1
  <1>1. IsFiniteSet(WokenThreads)
    <2>1. WokenThreads \subseteq Receivers
      BY Zenon DEF WokenThreads
    <2> QED  BY Zenon, <2>1, PacketAssumption, FS_Subset
  <1>2. Cardinality(WokenThreads) \in Nat
    BY Zenon, <1>1, FS_CardinalityType
  <1>3. ASSUME NEW t \in Receivers \ WokenThreads
        PROVE  Cardinality(WokenThreads \cup {t}) = Cardinality(WokenThreads) + 1
    BY Zenon, <1>1, <1>3, FS_AddElement
  <1>4. ASSUME NEW t \in WokenThreads
        PROVE  Cardinality(WokenThreads \ {t}) = Cardinality(WokenThreads) - 1
    BY Zenon, <1>1, <1>4, FS_RemoveElement
  <1> QED  BY Zenon, <1>2, <1>3, <1>4

\* Every step preserves the invariant: an arrival wakes a thread for the packet,
\* and a thread that takes its packet leaves one less to take
\* (CoordinatorConnection.cpp:251-260, 414-432).
LEMMA PacketNext == PacketIInv /\ [Queue!Next]_(Queue!vars) => PacketIInv'
  <1> SUFFICES ASSUME PacketIInv, [Queue!Next]_(Queue!vars) PROVE PacketIInv'
    BY Zenon
  <1>1. QueueTypeOK /\ (WaitingThreads # {} => Len(queue) <= Cardinality(WokenThreads))
    BY Zenon DEF PacketIInv
  <1>2. queue \in Seq(Sizes) /\ Len(queue) \in Nat
    BY <1>1 DEF QueueTypeOK
  <1>3. ASSUME UNCHANGED <<queue, pc>> PROVE PacketIInv'
    BY Zenon, <1>1, <1>3 DEF PacketIInv, QueueTypeOK, WaitingThreads, WokenThreads
  <1>4. ASSUME NEW t \in Receivers, pc[t] = "waiting", pc' = [pc EXCEPT ![t] = "woken"]
        PROVE  /\ pc' \in [Receivers -> {"idle", "waiting", "woken"}]
               /\ Cardinality(WokenThreads') = Cardinality(WokenThreads) + 1
               /\ WaitingThreads # {}
    <2>1. pc' \in [Receivers -> {"idle", "waiting", "woken"}]
      BY Zenon, <1>1, <1>4 DEF QueueTypeOK
    <2>2. WokenThreads' = WokenThreads \cup {t} /\ t \in Receivers \ WokenThreads
      BY Zenon, <1>1, <1>4 DEF QueueTypeOK, WokenThreads
    <2>3. WaitingThreads # {}
      BY Zenon, <1>4 DEF WaitingThreads
    <2> QED  BY Zenon, <1>1, <2>1, <2>2, <2>3, CountWoken
  <1>5. ASSUME NEW p \in Sizes, Queue!_enqueue_packet(p) PROVE PacketIInv'
    <2> DEFINE q == Append(queue, p)
               k == Queue!Tossed(q)
    <2>1. q \in Seq(Sizes) /\ Len(q) = Len(queue) + 1
      BY <1>2
    <2>2. k \in 0..Len(q)
      BY Zenon, <2>1, TossedSome
    <2>3. \/ UNCHANGED <<queue, pc>>
          \/ Queue!CondSignal /\ queue' = SubSeq(q, k + 1, Len(q))
      BY Zenon, <1>5 DEF Queue!_enqueue_packet
    <2> HIDE DEF q, k
    <2>4. CASE UNCHANGED <<queue, pc>>
      BY Zenon, <2>4, <1>3
    <2>5. CASE Queue!CondSignal /\ queue' = SubSeq(q, k + 1, Len(q))
      <3>1. queue' \in Seq(Sizes) /\ Len(queue') <= Len(queue) + 1 /\ Len(queue') \in Nat
        BY <2>1, <2>2, <2>5
      <3>2. CASE Queue!Waiting = {} /\ pc' = pc
        BY Zenon, <1>1, <3>1, <3>2
           DEF PacketIInv, QueueTypeOK, WaitingThreads, WokenThreads, Queue!Waiting
      <3>3. CASE \E t \in Queue!Waiting : Queue!Goto(t, "woken")
        <4>1. PICK t \in Receivers : pc[t] = "waiting" /\ pc' = [pc EXCEPT ![t] = "woken"]
          BY Zenon, <3>3 DEF Queue!Waiting, Queue!Goto
        <4>2. /\ pc' \in [Receivers -> {"idle", "waiting", "woken"}]
              /\ Cardinality(WokenThreads') = Cardinality(WokenThreads) + 1
              /\ WaitingThreads # {}
          BY Zenon, <4>1, <1>4
        <4>3. Cardinality(WokenThreads) \in Nat
          BY Zenon, <1>1, CountWoken
        <4>4. Len(queue') <= Cardinality(WokenThreads')
          BY <1>1, <1>2, <3>1, <4>2, <4>3
        <4> QED  BY Zenon, <3>1, <4>2, <4>4 DEF PacketIInv, QueueTypeOK
      <3> QED  BY Zenon, <2>5, <3>2, <3>3 DEF Queue!CondSignal
    <2> QED  BY Zenon, <2>3, <2>4, <2>5
  <1>6. ASSUME NEW t \in Receivers, pc[t] \in {"idle", "woken"}, Queue!_dequeue_nolock(t)
        PROVE  PacketIInv'
    <2>1. CASE queue = <<>> /\ pc' = [pc EXCEPT ![t] = "waiting"] /\ queue' = queue
      <3>1. QueueTypeOK'
        BY Zenon, <1>1, <2>1 DEF QueueTypeOK
      <3>2. Cardinality(WokenThreads') \in Nat
        <4>1. WokenThreads' \subseteq Receivers
          BY Zenon DEF WokenThreads
        <4> QED  BY Zenon, <4>1, PacketAssumption, FS_Subset, FS_CardinalityType
      <3>3. Len(queue') <= Cardinality(WokenThreads')
        BY <2>1, <3>2
      <3> QED  BY Zenon, <3>1, <3>3 DEF PacketIInv
    <2>2. CASE queue # <<>> /\ queue' = Tail(queue) /\ pc' = [pc EXCEPT ![t] = "idle"]
      <3>1. queue' \in Seq(Sizes) /\ Len(queue') = Len(queue) - 1
        BY <1>2, <2>2
      <3>2. QueueTypeOK'
        BY Zenon, <1>1, <2>2, <3>1 DEF QueueTypeOK
      <3>3. WaitingThreads' = WaitingThreads /\ WokenThreads' = WokenThreads \ {t}
        BY Zenon, <1>1, <1>6, <2>2 DEF QueueTypeOK, WaitingThreads, WokenThreads
      <3>4. /\ Cardinality(WokenThreads) \in Nat
            /\ \/ Cardinality(WokenThreads') = Cardinality(WokenThreads) - 1
               \/ Cardinality(WokenThreads') = Cardinality(WokenThreads)
        <4>1. CASE t \in WokenThreads
          BY Zenon, <1>1, <3>3, <4>1, CountWoken
        <4>2. CASE t \notin WokenThreads
          <5>1. WokenThreads' = WokenThreads
            BY Zenon, <3>3, <4>2
          <5> QED  BY Zenon, <1>1, <5>1, CountWoken
        <4> QED  BY Zenon, <4>1, <4>2
      <3>5. WaitingThreads' # {} => Len(queue') <= Cardinality(WokenThreads')
        BY <1>1, <1>2, <3>1, <3>3, <3>4
      <3> QED  BY Zenon, <3>2, <3>5 DEF PacketIInv
    <2> QED  BY Zenon, <1>6, <2>1, <2>2 DEF Queue!_dequeue_nolock, Queue!Goto
  <1>7. ASSUME NEW t \in Receivers, Queue!SpuriousWake(t) PROVE PacketIInv'
    <2>1. /\ pc[t] = "waiting" /\ pc' = [pc EXCEPT ![t] = "woken"] /\ queue' = queue
      BY Zenon, <1>7 DEF Queue!SpuriousWake, Queue!Goto
    <2>2. /\ pc' \in [Receivers -> {"idle", "waiting", "woken"}]
          /\ Cardinality(WokenThreads') = Cardinality(WokenThreads) + 1
          /\ WaitingThreads # {}
      BY Zenon, <2>1, <1>4
    <2>3. Cardinality(WokenThreads) \in Nat
      BY Zenon, <1>1, CountWoken
    <2>4. Len(queue') <= Cardinality(WokenThreads')
      BY <1>1, <1>2, <2>1, <2>2, <2>3
    <2> QED  BY Zenon, <1>2, <2>1, <2>2, <2>4 DEF PacketIInv, QueueTypeOK
  <1>8. CASE \E p \in Sizes : Queue!_enqueue_packet(p)
    BY Zenon, <1>5, <1>8
  <1>9. CASE \E t \in Receivers : Queue!dequeue_packet(t) \/ Queue!Resume(t)
    BY Zenon, <1>6, <1>9 DEF Queue!dequeue_packet, Queue!Resume
  <1>10. CASE UNCHANGED Queue!vars
    <2>1. UNCHANGED <<queue, pc>>
      BY Zenon, <1>10 DEF Queue!vars
    <2> QED  BY Zenon, <2>1, <1>3
  <1> QED  BY Zenon, <1>7, <1>8, <1>9, <1>10 DEF Queue!Next

\* For any threads, packet sizes and limits, and whatever is tossed: if threads
\* still wait, every queued packet has a woken thread coming for it (one
\* pthread_cond_signal per packet, CoordinatorConnection.cpp:254, 416-419).
THEOREM PacketQueueNoIdle == Queue!Spec => []NoIdlePacket
  <1>1. Queue!Init => PacketIInv
    <2> SUFFICES ASSUME Queue!Init PROVE PacketIInv
      BY Zenon
    <2>1. queue = <<>> /\ pc = [t \in Receivers |-> "idle"]
      BY Zenon DEF Queue!Init
    <2>2. QueueTypeOK /\ WaitingThreads = {}
      BY <2>1 DEF QueueTypeOK, WaitingThreads
    <2> QED  BY Zenon, <2>2 DEF PacketIInv
  <1>2. PacketIInv => NoIdlePacket
    BY Zenon, QueueCardinality DEF PacketIInv, NoIdlePacket, Queue!NoIdlePacket,
                                   WaitingThreads, WokenThreads, Queue!Waiting, Queue!Woken
  <1> QED  BY <1>1, <1>2, PacketNext, PTL DEF Queue!Spec

\* g[n] is the size of the first n packets of q.
Adds(g, q) == /\ g \in [0..Len(q) -> Int]
              /\ g[0] = 0
              /\ \A n \in 1..Len(q) : g[n] = g[n - 1] + q[n]

\* Such sizes exist.
LEMMA SumExists ==
  ASSUME NEW q \in Seq(Nat)
  PROVE  \E g \in [0..Len(q) -> Nat] : Adds(g, q)
  <1> DEFINE A(g, m) == /\ g \in [0..m -> Nat]
                        /\ g[0] = 0
                        /\ \A n \in 1..m : g[n] = g[n - 1] + q[n]
             T == {m \in 0..Len(q) : ~\E g : A(g, m)}
  <1>1. Len(q) \in Nat /\ \A n \in 1..Len(q) : q[n] \in Nat
    OBVIOUS
  <1>2. ASSUME T # {} PROVE FALSE
    <2>1. T \in SUBSET Nat
      BY <1>1
    <2>2. PICK m \in T : \A j \in T : m <= j
      <3> HIDE DEF T
      <3> QED  BY Zenon, <2>1, <1>2, LeastNumber
    <2>3. m \in Nat /\ m <= Len(q)
      BY <1>1, <2>2
    <2>4. m # 0
      <3> SUFFICES ASSUME m = 0 PROVE FALSE
        OBVIOUS
      <3>1. A([n \in 0..0 |-> 0], 0)
        OBVIOUS
      <3> HIDE DEF A
      <3> QED  BY Zenon, <3>1, <2>2
    <2>5. PICK g : A(g, m - 1)
      <3>1. m - 1 \in 0..Len(q) /\ ~(m <= m - 1)
        BY <2>3, <2>4, <1>1
      <3>2. m - 1 \notin T
        BY Zenon, <2>2, <3>1
      <3> HIDE DEF A
      <3> QED  BY Zenon, <3>1, <3>2
    <2> DEFINE h == [n \in 0..m |-> IF n = m THEN g[m - 1] + q[m] ELSE g[n]]
    <2>6. A(h, m)
      <3>1. /\ m \in 1..Len(q) /\ q[m] \in Nat /\ m - 1 \in 0..(m - 1)
            /\ 0..m = (0..(m - 1)) \cup {m} /\ 1..m = (1..(m - 1)) \cup {m}
        BY <2>3, <2>4, <1>1
      <3>2. /\ g \in [0..(m - 1) -> Nat] /\ g[0] = 0
            /\ \A n \in 1..(m - 1) : g[n] = g[n - 1] + q[n]
        BY <2>5
      <3>3. g[m - 1] + q[m] \in Nat
        BY <3>1, <3>2
      <3>4. h \in [0..m -> Nat]
        BY <3>1, <3>2, <3>3
      <3>5. h[m] = g[m - 1] + q[m] /\ \A n \in 0..(m - 1) : h[n] = g[n]
        BY <3>1, <2>3
      <3>6. \A n \in 1..(m - 1) : n - 1 \in 0..(m - 1) /\ n \in 0..(m - 1)
        BY <2>3
      <3>7. 0 \in 0..(m - 1)
        BY <2>3, <2>4
      <3> HIDE DEF h
      <3> QED  BY Zenon, <3>1, <3>2, <3>4, <3>5, <3>6, <3>7
    <2> HIDE DEF A, h
    <2> QED  BY Zenon, <2>2, <2>6
  <1>3. PICK g : A(g, Len(q))
    <2>1. Len(q) \in 0..Len(q)
      BY <1>1
    <2> HIDE DEF A
    <2> QED  BY Zenon, <2>1, <1>2
  <1>4. g \in [0..Len(q) -> Nat] /\ g \in [0..Len(q) -> Int]
    BY <1>3
  <1> QED  BY Zenon, <1>3, <1>4 DEF Adds

\* TotalSize adds up the sizes (CoordinatorConnection.cpp:414-443).
LEMMA TotalIs ==
  ASSUME NEW q \in Seq(Nat), NEW g, Adds(g, q)
  PROVE  Queue!TotalSize(q) = g[Len(q)]
  <1> DEFINE Eq(f) == f = [n \in 0..Len(q) |-> IF n = 0 THEN 0 ELSE f[n - 1] + q[n]]
             sum == CHOOSE f : Eq(f)
  <1>1. Len(q) \in Nat
    OBVIOUS
  <1>2. Eq(g)
    BY <1>1 DEF Adds
  <1>3. Eq(sum)
    <2> HIDE DEF Eq
    <2> QED  BY Zenon, <1>2
  <1>4. Queue!TotalSize(q) = sum[Len(q)]
    BY Zenon DEF Queue!TotalSize
  <1> DEFINE T == {n \in 0..Len(q) : sum[n] # g[n]}
  <1>5. /\ \A n \in 0..Len(q) : sum[n] = IF n = 0 THEN 0 ELSE sum[n - 1] + q[n]
        /\ \A n \in 0..Len(q) : g[n] = IF n = 0 THEN 0 ELSE g[n - 1] + q[n]
    <2> HIDE DEF sum
    <2> QED  BY Zenon, <1>2, <1>3
  <1> HIDE DEF sum
  <1>6. ASSUME T # {} PROVE FALSE
    <2>1. T \in SUBSET Nat
      BY <1>1
    <2>2. PICK m \in T : \A j \in T : m <= j
      <3> HIDE DEF T
      <3> QED  BY Zenon, <2>1, <1>6, LeastNumber
    <2>3. m \in 0..Len(q) /\ sum[m] # g[m]
      BY Zenon, <2>2
    <2>4. m # 0
      BY Zenon, <2>3, <1>5
    <2>5. m - 1 \in 0..Len(q) /\ ~(m <= m - 1)
      BY <2>3, <2>4, <1>1
    <2>6. sum[m - 1] = g[m - 1]
      BY Zenon, <2>2, <2>5
    <2> QED  BY Zenon, <2>3, <2>4, <2>6, <1>5
  <1>7. Len(q) \in 0..Len(q)
    BY <1>1
  <1> QED  BY Zenon, <1>4, <1>6, <1>7

\* What a packet more, or the first ones less, mean for the size of the queue.
LEMMA Resized ==
  ASSUME NEW q \in Seq(Nat)
  PROVE  /\ Queue!TotalSize(q) \in Nat
         /\ Queue!TotalSize(<<>>) = 0
         /\ \A p \in Nat : Queue!TotalSize(Append(q, p)) = Queue!TotalSize(q) + p
         /\ \A k \in 0..Len(q) : /\ Queue!TotalSize(SubSeq(q, 1, k)) \in Nat
                                  /\ Queue!TotalSize(SubSeq(q, k + 1, Len(q)))
                                        = Queue!TotalSize(q) - Queue!TotalSize(SubSeq(q, 1, k))
         /\ q # <<>> => Queue!TotalSize(Tail(q)) = Queue!TotalSize(q) - Head(q)
  <1>1. PICK g \in [0..Len(q) -> Nat] : Adds(g, q)
    BY Zenon, SumExists
  <1>2. /\ g[0] = 0 /\ \A n \in 1..Len(q) : g[n] = g[n - 1] + q[n]
        /\ Len(q) \in Nat /\ \A n \in 1..Len(q) : q[n] \in Nat
        /\ \A n \in 0..Len(q) : g[n] \in Nat
    <2>1. Len(q) \in Nat /\ \A n \in 1..Len(q) : q[n] \in Nat
      OBVIOUS
    <2>2. \A n \in 0..Len(q) : g[n] \in Nat
      BY <1>1
    <2> QED  BY Zenon, <1>1, <2>1, <2>2 DEF Adds
  <1>3. Queue!TotalSize(q) = g[Len(q)] /\ g[Len(q)] \in Nat
    <2>1. Len(q) \in 0..Len(q)
      BY <1>2
    <2> QED  BY Zenon, <1>1, <1>2, <2>1, TotalIs
  <1>4. Queue!TotalSize(<<>>) = 0
    <2> DEFINE f == [n \in 0..0 |-> 0]
               e == <<>>
    <2>1. e \in Seq(Nat) /\ Len(e) = 0 /\ Adds(f, e) /\ f[0] = 0
      BY DEF Adds
    <2> HIDE DEF f, e
    <2>2. Queue!TotalSize(e) = 0
      BY Zenon, <2>1, TotalIs
    <2> QED  BY Zenon, <2>2 DEF e
  <1>5. ASSUME NEW p \in Nat PROVE Queue!TotalSize(Append(q, p)) = Queue!TotalSize(q) + p
    <2> DEFINE r == Append(q, p)
               f == [n \in 0..Len(r) |-> IF n = Len(q) + 1 THEN g[Len(q)] + p ELSE g[n]]
    <2>1. /\ r \in Seq(Nat) /\ Len(r) = Len(q) + 1 /\ r[Len(q) + 1] = p
          /\ \A n \in 1..Len(q) : r[n] = q[n]
      BY <1>2
    <2> HIDE DEF r
    <2>2. Adds(f, r) /\ f[Len(r)] = g[Len(q)] + p
      <3>1. /\ 0..Len(r) = (0..Len(q)) \cup {Len(q) + 1} /\ 1..Len(r) = (1..Len(q)) \cup {Len(q) + 1}
            /\ \A n \in 0..Len(q) : n # Len(q) + 1
            /\ Len(q) + 1 - 1 = Len(q) /\ Len(q) \in 0..Len(q) /\ 0 \in 0..Len(q)
            /\ \A n \in 1..Len(q) : n \in 0..Len(q) /\ n - 1 \in 0..Len(q)
        BY <1>2, <2>1
      <3>2. g[Len(q)] + p \in Int /\ \A n \in 0..Len(q) : g[n] \in Int
        BY <1>2, <1>3
      <3>3. f[Len(q) + 1] = g[Len(q)] + p /\ \A n \in 0..Len(q) : f[n] = g[n]
        BY Zenon, <3>1
      <3>4. f \in [0..Len(r) -> Int]
        BY Zenon, <3>1, <3>2
      <3> HIDE DEF f
      <3>5. \A n \in 1..Len(q) : f[n] = f[n - 1] + r[n]
        BY Zenon, <1>2, <2>1, <3>1, <3>3
      <3>6. f[Len(q) + 1] = f[Len(q) + 1 - 1] + r[Len(q) + 1]
        BY Zenon, <2>1, <3>1, <3>3
      <3>7. \A n \in 1..Len(r) : f[n] = f[n - 1] + r[n]
        BY <3>1, <3>5, <3>6
      <3>8. f[0] = 0 /\ f[Len(r)] = g[Len(q)] + p
        BY Zenon, <1>2, <2>1, <3>1, <3>3
      <3> QED  BY Zenon, <3>4, <3>7, <3>8 DEF Adds
    <2> HIDE DEF f
    <2>3. Queue!TotalSize(r) = g[Len(q)] + p
      BY Zenon, <2>1, <2>2, TotalIs
    <2> QED  BY Zenon, <2>3, <1>3 DEF r
  <1>6. ASSUME NEW k \in 0..Len(q)
        PROVE  Queue!TotalSize(SubSeq(q, 1, k)) = g[k]
    <2> DEFINE r == SubSeq(q, 1, k)
               f == [n \in 0..Len(r) |-> g[n]]
    <2>1. /\ r \in Seq(Nat) /\ Len(r) = k
          /\ \A n \in 1..k : r[n] = q[n]
      BY <1>2
    <2> HIDE DEF r
    <2>2. Adds(f, r) /\ f[Len(r)] = g[k]
      <3>1. /\ \A n \in 0..k : n \in 0..Len(q) /\ g[n] \in Int
            /\ \A n \in 1..k : n \in 1..Len(q) /\ n \in 0..k /\ n - 1 \in 0..k
            /\ 0 \in 0..k /\ k \in 0..k
        BY <1>2
      <3>2. f \in [0..Len(r) -> Int] /\ \A n \in 0..k : f[n] = g[n]
        BY Zenon, <2>1, <3>1
      <3> HIDE DEF f
      <3> QED  BY Zenon, <1>2, <2>1, <3>1, <3>2 DEF Adds
    <2> HIDE DEF f
    <2>3. Queue!TotalSize(r) = g[k]
      BY Zenon, <2>1, <2>2, TotalIs
    <2> QED  BY Zenon, <2>3 DEF r
  <1>7. ASSUME NEW k \in 0..Len(q)
        PROVE  Queue!TotalSize(SubSeq(q, k + 1, Len(q))) = g[Len(q)] - g[k]
    <2> DEFINE r == SubSeq(q, k + 1, Len(q))
               f == [n \in 0..Len(r) |-> g[n + k] - g[k]]
    <2>1. /\ r \in Seq(Nat) /\ Len(r) = Len(q) - k
          /\ \A n \in 1..Len(r) : r[n] = q[n + k]
      BY <1>2
    <2> HIDE DEF r
    <2>2. Adds(f, r) /\ f[Len(r)] = g[Len(q)] - g[k]
      <3>1. \A n \in 0..Len(r) : n + k \in 0..Len(q) /\ g[n + k] \in Nat /\ g[k] \in Nat
        BY <1>2, <2>1
      <3>2. \A n \in 1..Len(r) : /\ n + k \in 1..Len(q) /\ n + k - 1 = n - 1 + k
                                 /\ n - 1 \in 0..Len(r) /\ n \in 0..Len(r)
        BY <1>2, <2>1
      <3>3. ASSUME NEW n \in 1..Len(r) PROVE f[n] = f[n - 1] + r[n]
        <4>1. f[n] = g[n + k] - g[k] /\ f[n - 1] = g[n - 1 + k] - g[k]
          BY Zenon, <3>2
        <4>2. g[n + k] = g[n + k - 1] + q[n + k] /\ r[n] = q[n + k] /\ n + k - 1 = n - 1 + k
          <5>1. n + k \in 1..Len(q) /\ n + k - 1 = n - 1 + k
            BY Zenon, <3>2
          <5>2. \A m \in 1..Len(q) : g[m] = g[m - 1] + q[m]
            BY Zenon, <1>2
          <5>3. g[n + k] = g[n + k - 1] + q[n + k]
            <6>1. n + k \in 1..Len(q)
              BY Zenon, <5>1
            <6> QED  BY <5>2, <6>1
          <5>4. r[n] = q[n + k]
            BY Zenon, <2>1
          <5> HIDE DEF f
          <5> QED  BY Zenon, <5>1, <5>3, <5>4
        <4>3. g[n - 1 + k] \in Nat /\ g[k] \in Nat /\ q[n + k] \in Nat
          BY Zenon, <1>2, <3>1, <3>2
        <4>4. g[n + k] = g[n - 1 + k] + q[n + k]
          BY Zenon, <4>2
        <4>5. \A a, b, c \in Nat : (a + b) - c = (a - c) + b
          OBVIOUS
        <4>6. (g[n - 1 + k] + q[n + k]) - g[k] = (g[n - 1 + k] - g[k]) + q[n + k]
          BY Zenon, <4>3, <4>5
        <4> HIDE DEF f
        <4> QED  BY Zenon, <4>1, <4>2, <4>4, <4>6
      <3>4. f[0] = 0 /\ f \in [0..Len(r) -> Int] /\ f[Len(r)] = g[Len(q)] - g[k]
        BY <1>2, <2>1, <3>1
      <3> QED  BY Zenon, <3>3, <3>4 DEF Adds
    <2> HIDE DEF f
    <2>3. Queue!TotalSize(r) = g[Len(q)] - g[k]
      BY Zenon, <2>1, <2>2, TotalIs
    <2> QED  BY Zenon, <2>3 DEF r
  <1>8. ASSUME q # <<>> PROVE Queue!TotalSize(Tail(q)) = g[Len(q)] - Head(q)
    <2>1. 1 \in 0..Len(q) /\ Tail(q) = SubSeq(q, 1 + 1, Len(q)) /\ Head(q) = q[1] /\ 1 \in 1..Len(q)
      BY <1>8
    <2>2. g[1] = Head(q)
      BY <1>2, <2>1
    <2> QED  BY Zenon, <1>7, <2>1, <2>2
  <1> QED  BY Zenon, <1>2, <1>3, <1>4, <1>5, <1>6, <1>7, <1>8

\* Packet sizes are numbers.
LEMMA SizesAreNumbers ==
  ASSUME NEW q \in Seq(Sizes)
  PROVE  q \in Seq(Nat) /\ Len(q) \in Nat
  <1>1. Len(q) \in Nat /\ q \in [1..Len(q) -> Sizes]
    OBVIOUS
  <1>2. q \in [1..Len(q) -> Nat]
    BY Zenon, <1>1, PacketAssumption
  <1> QED  BY <1>1, <1>2

\* What _tidy_nolock decides by is right, and it has brought the queue within its limits.
Limited == /\ queue_failed \in BOOLEAN
           /\ Queue!TotalSize(queue) <= MaxBytes \/ Len(queue) <= MinPackets
           /\ count = Len(queue) /\ size_bytes = Queue!TotalSize(queue)

\* Every step preserves this: what is tossed or taken is taken off both counters
\* (CoordinatorConnection.cpp:251-260, 414-443).
LEMMA LimitedNext == QueueTypeOK /\ Limited /\ [Queue!Next]_(Queue!vars) => Limited'
  <1> SUFFICES ASSUME QueueTypeOK, Limited, [Queue!Next]_(Queue!vars) PROVE Limited'
    BY Zenon
  <1>1. /\ queue \in Seq(Nat) /\ Len(queue) \in Nat /\ queue \in Seq(Sizes)
        /\ MaxBytes \in Nat /\ MinPackets \in Nat
    BY Zenon, SizesAreNumbers, PacketAssumption DEF QueueTypeOK
  <1>2. ASSUME UNCHANGED <<queue, count, size_bytes>>, queue_failed' \in BOOLEAN PROVE Limited'
    BY Zenon, <1>2 DEF Limited
  <1>3. /\ Queue!TotalSize(queue) \in Nat
        /\ \A p \in Nat : Queue!TotalSize(Append(queue, p)) = Queue!TotalSize(queue) + p
        /\ queue # <<>> => Queue!TotalSize(Tail(queue)) = Queue!TotalSize(queue) - Head(queue)
    BY Zenon, <1>1, Resized
  <1>4. ASSUME NEW p \in Sizes, Queue!_enqueue_packet(p) PROVE Limited'
    <2> DEFINE q == Append(queue, p)
               k == Queue!Tossed(q)
               first == SubSeq(q, 1, k)
               rest == SubSeq(q, k + 1, Len(q))
    <2>1. p \in Nat /\ q \in Seq(Nat) /\ q \in Seq(Sizes) /\ Len(q) = Len(queue) + 1
      BY <1>1, PacketAssumption
    <2>2. k \in 0..Len(q) /\ ~Queue!TooMuch(q, k)
      BY Zenon, <2>1, TossedSome
    <2>3. /\ Queue!TotalSize(first) \in Nat
          /\ Queue!TotalSize(rest) = Queue!TotalSize(q) - Queue!TotalSize(first)
      BY Zenon, <2>1, <2>2, Resized
    <2>4. Queue!TotalSize(q) = Queue!TotalSize(queue) + p
      BY Zenon, <2>1, <1>3
    <2>5. \/ UNCHANGED <<queue, count, size_bytes>> /\ queue_failed' = TRUE
          \/ /\ queue' = rest /\ count' = count + 1 - k
             /\ size_bytes' = size_bytes + p - Queue!TotalSize(first)
             /\ UNCHANGED queue_failed
      BY Zenon, <1>4 DEF Queue!_enqueue_packet
    <2>6. ~(Queue!TotalSize(rest) > MaxBytes) \/ ~(Len(q) - k > MinPackets)
      BY Zenon, <2>2 DEF Queue!TooMuch
    <2> HIDE DEF q, k
    <2>7. Len(rest) = Len(q) - k
      BY <2>1, <2>2
    <2> HIDE DEF first, rest
    <2>8. CASE UNCHANGED <<queue, count, size_bytes>> /\ queue_failed' = TRUE
      BY Zenon, <2>8, <1>2
    <2>9. CASE /\ queue' = rest /\ count' = count + 1 - k
               /\ size_bytes' = size_bytes + p - Queue!TotalSize(first)
               /\ UNCHANGED queue_failed
      <3>1. count = Len(queue) /\ size_bytes = Queue!TotalSize(queue) /\ queue_failed \in BOOLEAN
        BY Zenon DEF Limited
      <3>2. count' = Len(rest) /\ size_bytes' = Queue!TotalSize(rest)
        BY <1>1, <1>3, <2>1, <2>2, <2>3, <2>4, <2>7, <2>9, <3>1
      <3>3. Queue!TotalSize(rest) <= MaxBytes \/ Len(rest) <= MinPackets
        <4>1. Queue!TotalSize(rest) \in Int /\ Len(q) - k \in Int
          BY SMTT(30), <1>1, <1>3, <2>1, <2>2, <2>3, <2>4
        <4>2. \A a \in Int, b \in Nat : ~(a > b) => a <= b
          OBVIOUS
        <4> QED  BY Zenon, <1>1, <2>6, <2>7, <4>1, <4>2
      <3> QED  BY Zenon, <2>9, <3>1, <3>2, <3>3 DEF Limited
    <2> QED  BY Zenon, <2>5, <2>8, <2>9
  <1>5. ASSUME NEW t \in Receivers, Queue!_dequeue_nolock(t), UNCHANGED queue_failed PROVE Limited'
    <2>0. queue_failed' \in BOOLEAN
      BY Zenon, <1>5 DEF Limited
    <2>1. CASE UNCHANGED <<queue, count, size_bytes>>
      BY Zenon, <2>0, <2>1, <1>2
    <2>2. CASE /\ queue # <<>> /\ queue' = Tail(queue) /\ count' = count - 1
               /\ size_bytes' = size_bytes - Head(queue)
      <3>1. Head(queue) \in Nat /\ Len(Tail(queue)) = Len(queue) - 1
        BY <1>1, <2>2
      <3>2. Queue!TotalSize(Tail(queue)) = Queue!TotalSize(queue) - Head(queue)
        BY Zenon, <1>3, <2>2
      <3>3. /\ count = Len(queue) /\ size_bytes = Queue!TotalSize(queue)
            /\ Queue!TotalSize(queue) <= MaxBytes \/ Len(queue) <= MinPackets
        BY Zenon DEF Limited
      <3>4. count' = Len(Tail(queue)) /\ size_bytes' = Queue!TotalSize(Tail(queue))
        BY Zenon, <2>2, <3>1, <3>2, <3>3
      <3>5. Queue!TotalSize(Tail(queue)) <= MaxBytes \/ Len(Tail(queue)) <= MinPackets
        <4>1. Queue!TotalSize(queue) <= MaxBytes => Queue!TotalSize(Tail(queue)) <= MaxBytes
          <5>1. \A a, b, c \in Nat : a <= c => a - b <= c
            OBVIOUS
          <5> QED  BY ZenonT(40), <1>1, <1>3, <3>1, <3>2, <5>1
        <4>2. Len(queue) <= MinPackets => Len(Tail(queue)) <= MinPackets
          BY <1>1, <3>1
        <4> QED  BY Zenon, <3>3, <4>1, <4>2
      <3> QED  BY Zenon, <2>0, <2>2, <3>4, <3>5 DEF Limited
    <2> QED  BY Zenon, <1>5, <2>1, <2>2 DEF Queue!_dequeue_nolock
  <1>6. CASE \E p \in Sizes : Queue!_enqueue_packet(p)
    BY Zenon, <1>4, <1>6
  <1>7. CASE \E t \in Receivers : Queue!dequeue_packet(t) \/ Queue!Resume(t)
    BY Zenon, <1>5, <1>7 DEF Queue!dequeue_packet, Queue!Resume
  <1>8. CASE (\E t \in Receivers : Queue!SpuriousWake(t)) \/ UNCHANGED Queue!vars
    <2>1. UNCHANGED <<queue, count, size_bytes, queue_failed>>
      BY Zenon, <1>8 DEF Queue!SpuriousWake, Queue!vars
    <2>2. queue_failed' \in BOOLEAN
      BY Zenon, <2>1 DEF Limited
    <2> QED  BY Zenon, <2>1, <2>2, <1>2
  <1> QED  BY Zenon, <1>6, <1>7, <1>8 DEF Queue!Next

\* For any packet sizes and limits, between operations the queue is within its limits,
\* and its two counters are the truth about it, whoever took or tossed packets
\* (CoordinatorConnection.cpp:251-260, 414-443).
THEOREM PacketQueueLimits == Queue!Spec => []WithinLimits
  <1>1. Queue!Init => PacketIInv /\ Limited
    <2> SUFFICES ASSUME Queue!Init PROVE PacketIInv /\ Limited
      BY Zenon
    <2>1. /\ queue = <<>> /\ pc = [t \in Receivers |-> "idle"] /\ count = 0 /\ size_bytes = 0
          /\ queue_failed = FALSE
      BY Zenon DEF Queue!Init
    <2>2. QueueTypeOK /\ WaitingThreads = {} /\ Len(queue) = 0 /\ queue \in Seq(Nat)
      BY <2>1 DEF QueueTypeOK, WaitingThreads
    <2>3. Queue!TotalSize(queue) = 0
      BY Zenon, <2>1, <2>2, Resized
    <2>4. 0 <= MaxBytes
      BY PacketAssumption
    <2> QED  BY Zenon, <2>1, <2>2, <2>3, <2>4 DEF PacketIInv, Limited
  <1>2. PacketIInv /\ Limited /\ [Queue!Next]_(Queue!vars) => (PacketIInv /\ Limited)'
    BY Zenon, PacketNext, LimitedNext DEF PacketIInv
  <1>3. PacketIInv /\ Limited => WithinLimits
    <2> SUFFICES ASSUME PacketIInv, Limited PROVE WithinLimits
      BY Zenon
    <2>1. queue \in Seq(Nat) /\ Len(queue) \in Nat
      BY Zenon, SizesAreNumbers DEF PacketIInv, QueueTypeOK
    <2>2. Queue!TotalSize(queue) \in Nat
      BY Zenon, <2>1, Resized
    <2> QED  BY Zenon, <2>1, <2>2 DEF PacketIInv, QueueTypeOK, Limited, WithinLimits,
                                  Queue!WithinLimits, Queue!TypeOK
  <1> QED  BY <1>1, <1>2, <1>3, PTL DEF Queue!Spec
=============================================================================
