------------------------------- MODULE Blitter -------------------------------
(***************************************************************************)
(* The coordinator's windows (monitors/common/BlitterManager.cpp,          *)
(* BlitterViewport.cpp, BlitterCanvas.cpp, as Listener.cpp calls them):    *)
(* viewports that an application leases to another by a deed, and the      *)
(* canvases their tenants map, each with a window of the X thread          *)
(* (monitors/linux_common/xblit).  Applications call with handles and      *)
(* deeds they were given; a call runs to its end before the next, and so   *)
(* does the X thread's handler of a closed window.                         *)
(***************************************************************************)
EXTENDS Integers, Sequences

CONSTANTS Apps,        \* App objects; each connects once
          Viewports,   \* BlitterViewport objects
          None,
          MaxDeeds     \* bound on the deeds made

VARIABLES palifcs,     \* the connected applications
          gone,        \* those that have disconnected
          landlord,    \* the process of the landlord handle; None: not made yet
          parent,      \* parent_viewport
          tenant,      \* the process of the tenant handle, or None
          deeds,       \* the table of deeds
          known,       \* the deeds that were handed out
          mapped,      \* mapped_canvas # NULL
          canvases,    \* the table of canvases: their viewport, palifc and pc
          failed       \* the coordinator has called through a NULL canvas or asserted false

leases == <<landlord, parent, tenant, deeds, known>>
vars == <<palifcs, gone, leases, mapped, canvases, failed>>

Init == /\ palifcs = {} /\ gone = {}
        /\ landlord = [v \in Viewports |-> None]
        /\ parent = [v \in Viewports |-> None]
        /\ tenant = [v \in Viewports |-> None]
        /\ deeds = <<>> /\ known = {}
        /\ mapped = [v \in Viewports |-> FALSE]
        /\ canvases = {}
        /\ failed = FALSE

\* Application p is connected, to a coordinator that runs.
Calls(p) == p \in palifcs /\ ~ failed

\* The deed table: the viewport of each deed made, in the order they were made;
\* None where the entry has been removed.
Entries(v) == {n \in 1..Len(deeds) : deeds[n] = v}
new_deed == Len(deeds) + 1
manufacture_deed(v) == Len(deeds) < MaxDeeds /\ deeds' = Append(deeds, v)

\* The constructor: viewport v for the landlord p
BlitterViewport(v, p, w) ==
    /\ landlord[v] = None
    /\ landlord' = [landlord EXCEPT ![v] = p]
    /\ parent' = [parent EXCEPT ![v] = w]
    /\ manufacture_deed(v)

\* BlitterCanvas::unmap of the canvases cs
unmap(cs) == /\ canvases' = canvases \ cs
             /\ mapped' = [v \in Viewports |-> mapped[v] /\ v \notin {c.viewport : c \in cs}]
-----------------------------------------------------------------------------
\* new_toplevel_viewport: the viewport's own first deed stays in the table
new_toplevel_viewport(p, v) ==
    /\ BlitterViewport(v, p, None)
    /\ tenant' = [tenant EXCEPT ![v] = p]
    /\ UNCHANGED <<known, mapped, canvases, failed>>

\* Listener::connect: register_palifc and a first viewport
connect(p, v) ==
    /\ ~ failed /\ p \notin palifcs \cup gone
    /\ palifcs' = palifcs \cup {p}
    /\ new_toplevel_viewport(p, v)
    /\ UNCHANGED gone

\* Listener::extn_debug_create_toplevel_window
extn_debug_create_toplevel_window(p, v) ==
    Calls(p) /\ new_toplevel_viewport(p, v) /\ UNCHANGED <<palifcs, gone>>

\* sublet_viewport, of tenant p's viewport w
sublet_viewport(p, w, v) ==
    /\ Calls(p) /\ tenant[w] = p
    /\ BlitterViewport(v, p, w)
    /\ known' = known \cup {new_deed}
    /\ UNCHANGED <<palifcs, gone, tenant, mapped, canvases, failed>>

\* Mutant of accept_viewport: the entry stays in the table.
accept_viewport_again(p, n) ==
    /\ Calls(p) /\ deeds[n] # None
    /\ tenant' = [tenant EXCEPT ![deeds[n]] = p]
    /\ UNCHANGED <<palifcs, gone, landlord, parent, deeds, known, mapped, canvases, failed>>

\* accept_viewport, of a deed whose entry is in the table
accept_viewport(p, n) ==
    /\ Calls(p) /\ deeds[n] # None
    /\ tenant' = [tenant EXCEPT ![deeds[n]] = p]
    /\ deeds' = [deeds EXCEPT ![n] = None]
    /\ UNCHANGED <<palifcs, gone, landlord, parent, known, mapped, canvases, failed>>

\* transfer_viewport: the canvas goes first, then the handle; a new deed
transfer_viewport(p, v) ==
    /\ Calls(p) /\ tenant[v] = p
    /\ unmap({c \in canvases : c.viewport = v})
    /\ tenant' = [tenant EXCEPT ![v] = None]
    /\ manufacture_deed(v) /\ known' = known \cup {new_deed}
    /\ UNCHANGED <<palifcs, gone, landlord, parent, failed>>

\* repossess_viewport: the destructor closes the viewport's own canvas, and then
\* asserts false, for what is below it is not closed yet.
repossess_viewport(p, v) ==
    /\ Calls(p) /\ landlord[v] = p
    /\ unmap({c \in canvases : c.viewport = v})
    /\ failed' = TRUE
    /\ UNCHANGED <<palifcs, gone, leases>>
-----------------------------------------------------------------------------
\* map_canvas.  The window is created inside that of the parent's canvas, read
\* through a pointer that is NULL if the parent has none.
map_canvas(p, v) ==
    /\ Calls(p) /\ tenant[v] = p /\ ~ mapped[v]
    /\ IF parent[v] # None /\ ~ mapped[parent[v]]
         THEN failed' = TRUE /\ UNCHANGED <<mapped, canvases>>
         ELSE /\ mapped' = [mapped EXCEPT ![v] = TRUE]
              /\ canvases' = canvases \cup {[viewport |-> v, palifc |-> p, pc |-> TRUE]}
              /\ failed' = FALSE
    /\ UNCHANGED <<palifcs, gone, leases>>

\* unmap_canvas, by its owner
unmap_canvas(c) ==
    /\ Calls(c.palifc)
    /\ unmap({c})
    /\ UNCHANGED <<palifcs, gone, leases, failed>>

\* The X thread: _client_message_event deletes the XblitCanvas of a window the
\* user closes, and notify_canvas_closed; the BlitterCanvas stays.
WindowClosed(c) ==
    /\ ~ failed /\ c.pc
    /\ canvases' = (canvases \ {c}) \cup {[c EXCEPT !.pc = FALSE]}
    /\ UNCHANGED <<palifcs, gone, leases, mapped, failed>>

\* Mutant of unregister_palifc: only the canvases whose window is open are closed.
unregister_palifc_open(p) ==
    /\ Calls(p)
    /\ palifcs' = palifcs \ {p} /\ gone' = gone \cup {p}
    /\ unmap({c \in canvases : c.palifc = p /\ c.pc})
    /\ UNCHANGED <<leases, failed>>

\* Listener::disconnect: unregister_palifc
unregister_palifc(p) ==
    /\ Calls(p)
    /\ palifcs' = palifcs \ {p} /\ gone' = gone \cup {p}
    /\ unmap({c \in canvases : c.palifc = p})
    /\ UNCHANGED <<leases, failed>>

Next ==
    \/ \E p \in Apps, v \in Viewports :
          \/ connect(p, v) \/ extn_debug_create_toplevel_window(p, v)
          \/ \E w \in Viewports : sublet_viewport(p, w, v)
          \/ transfer_viewport(p, v) \/ repossess_viewport(p, v) \/ map_canvas(p, v)
    \/ \E p \in Apps, n \in known : accept_viewport(p, n)
    \/ \E c \in canvases : unmap_canvas(c) \/ WindowClosed(c)
    \/ \E p \in palifcs : unregister_palifc(p)

Spec == Init /\ [][Next]_vars
-----------------------------------------------------------------------------
\* A lease is held by one party.  A viewport is its tenant's or waits for the
\* holder of the one deed that was handed out for it, never both or two, and only
\* its tenant's canvas draws in it (BlitterManager.cpp:165-194,
\* BlitterViewport.cpp:153-172).
LeaseIsExclusive ==
    /\ \A v \in Viewports :
          landlord[v] # None =>
             IF tenant[v] = None THEN \E n \in known : Entries(v) \cap known = {n}
             ELSE Entries(v) \cap known = {}
    /\ \A c \in canvases : c.palifc = tenant[c.viewport]

\* The table holds exactly the canvases that viewports have mapped, and none of
\* an application that is gone: no event is routed to it
\* (BlitterManager.cpp:86-98, BlitterCanvas.cpp:55-62).
CanvasesAreLive ==
    /\ \A c \in canvases : mapped[c.viewport] /\ c.palifc \in palifcs
    /\ \A c, d \in canvases : c.viewport = d.viewport => c = d
    /\ \A v \in Viewports : mapped[v] => \E c \in canvases : c.viewport = v

\* If a parent closes its canvas, all viewports delegated from that canvas are
\* closed, and hence the children's canvases are (pal_ui.h).
ClosedWithParent ==
    \A c \in canvases : parent[c.viewport] # None =>
        \E d \in canvases : d.viewport = parent[c.viewport]
=============================================================================
