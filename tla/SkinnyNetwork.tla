---------------------------- MODULE SkinnyNetwork ---------------------------
(***************************************************************************)
(* The receive side of the client's network                                *)
(* (toolchains/linux_elf/common/xax_skinny_network.cpp): the dispatcher    *)
(* thread, the reassembly of fragmented datagrams (FragmentReassembly.cpp),*)
(* the accounting of the buffers still held (XSNReceiveAccounting.cpp) and *)
(* the sockets' handlers and queues (packetfilter.cpp).  The network loses *)
(* and reorders fragments.  A datagram has an identification of its own;   *)
(* its fragment i lies between the offsets i - 1 and i.                    *)
(***************************************************************************)
EXTENDS Integers, FiniteSets, Sequences, FiniteSetsExt, Functions

CONSTANTS Datagrams,
          Frags,      \* the number of fragments of each; 1: not fragmented
          Sockets,
          Port,       \* the socket each datagram is for
          None,
          QUEUE_SIZE,
          MAX_PARTIAL_PACKETS

VARIABLES in_flight,  \* fragments sent and not yet received or lost
          home,       \* the table a PartialPacket is in: "none", "new", "old"
          fragments,  \* the fragments it holds
          next_gap,
          have_last,  \* have_last_fragment
          mq,         \* the datagrams queued at each socket's handler
          handler,    \* "none", "live", "unregistered"
          held,       \* the datagram a socket's owner has received and not deleted
          depth,      \* get_queue_depth
          removing,   \* the dispatched packet the dispatcher is about to remove
          failed      \* hash_table_remove has not found the packet

packets == <<home, fragments, next_gap, have_last>>
sockets == <<mq, handler, held>>
vars == <<in_flight, packets, sockets, depth, removing, failed>>

Init == /\ in_flight = UNION {{<<d, i>> : i \in 1..Frags[d]} : d \in Datagrams}
        /\ home = [d \in Datagrams |-> "none"]
        /\ fragments = [d \in Datagrams |-> {}]
        /\ next_gap = [d \in Datagrams |-> 0]
        /\ have_last = [d \in Datagrams |-> FALSE]
        /\ mq = [s \in Sockets |-> <<>>]
        /\ handler = [s \in Sockets |-> "none"]
        /\ held = [s \in Sockets |-> None]
        /\ depth = 0
        /\ removing = None
        /\ failed = FALSE

Partials(tables) == {d \in Datagrams : home[d] \in tables}

\* The received buffers the datagrams ds keep from being freed.
Buffers(ds) == Cardinality(UNION {{d} \X fragments[d] : d \in ds})

\* The datagrams ds are deleted, and a datagram d is kept with its fragments F:
\* XSNReceiveAccounting::add and remove.
Account(ds, d, F) ==
    /\ fragments' = [e \in Datagrams |-> IF e \in ds THEN {}
                                         ELSE IF e = d THEN F ELSE fragments[e]]
    /\ depth' = depth - Buffers(ds \cup {d}) + IF d \in ds THEN 0 ELSE Cardinality(F)
-----------------------------------------------------------------------------
\* The tables after tidy: the old packets are deleted and the new ones become
\* old, and these are deleted too if they alone are over the limit.
tidy ==
    [d \in Datagrams |->
       IF Cardinality(Partials({"new", "old"})) <= MAX_PARTIAL_PACKETS THEN home[d]
       ELSE IF home[d] = "new" /\ Cardinality(Partials({"new"})) <= MAX_PARTIAL_PACKETS
              THEN "old" ELSE "none"]

\* dispatch_packet, of datagram d with the received fragments F, while the
\* datagrams gone are deleted; it is deleted too if nobody listens
dispatch_packet(d, F, gone) ==
    IF handler[Port[d]] = "live"
      THEN mq' = [mq EXCEPT ![Port[d]] = Append(@, d)] /\ Account(gone, d, F)
      ELSE mq' = mq /\ Account(gone \cup {d}, d, F)

\* Mutant of Complete: the last fragment and the number of bytes are enough.
Complete_any(gap, last, F) == last

\* The test at the end of ingest_fragment that the packet is done.
Complete(gap, last, F) == last /\ gap = Max(F)

\* ingest_fragment, of fragment i of d.  The gap moves to the end of the new
\* fragment, whatever fragments follow it.
ingest_fragment(d, i) ==
    [fragments |-> fragments[d] \cup {i},
     next_gap  |-> IF next_gap[d] = i - 1 THEN i ELSE next_gap[d],
     have_last |-> have_last[d] \/ i = Frags[d]]

\* A packet that is not known yet is made after the tables have been tidied.
handle_fragment(d, i) ==
    LET tidied == IF home[d] # "none" THEN home ELSE [tidy EXCEPT ![d] = "new"]
        gone   == {e \in Partials({"new", "old"}) : tidied[e] = "none"}
        packet == ingest_fragment(d, i)
    IN  /\ home' = tidied
        /\ next_gap' = [e \in Datagrams |->
                          IF e = d THEN packet.next_gap ELSE IF e \in gone THEN 0 ELSE next_gap[e]]
        /\ have_last' = [e \in Datagrams |->
                          IF e = d THEN packet.have_last ELSE e \notin gone /\ have_last[e]]
        /\ IF Complete(packet.next_gap, packet.have_last, packet.fragments)
             THEN dispatch_packet(d, packet.fragments, gone) /\ removing' = d
             ELSE Account(gone, d, packet.fragments) /\ UNCHANGED <<mq, removing>>

\* One round of _network_dispatcher_thread.  A packet that comes when too many
\* buffers are held is dropped.
Receive(d, i) ==
    /\ removing = None /\ ~ failed
    /\ <<d, i>> \in in_flight
    /\ in_flight' = in_flight \ {<<d, i>>}
    /\ \/ /\ depth > QUEUE_SIZE
          /\ UNCHANGED <<packets, mq, depth, removing>>
       \/ /\ depth <= QUEUE_SIZE /\ Frags[d] > 1
          /\ handle_fragment(d, i)
       \/ /\ depth <= QUEUE_SIZE /\ Frags[d] = 1
          /\ dispatch_packet(d, {1}, {})
          /\ UNCHANGED <<home, next_gap, have_last, removing>>
    /\ UNCHANGED <<handler, held, failed>>

\* The rest of handle_fragment: hash_table_remove of the dispatched packet, by
\* its identification, which is read from freed memory if the packet has been
\* deleted since.
RemoveDispatched(d) ==
    /\ removing = d /\ ~ failed
    /\ \/ home' = [home EXCEPT ![d] = "none"] /\ failed' = FALSE
       \/ fragments[d] = {} /\ failed' = TRUE /\ home' = home
    /\ removing' = None
    /\ UNCHANGED <<in_flight, fragments, next_gap, have_last, sockets, depth>>

\* The network loses a fragment (external).
Lose(d, i) == /\ <<d, i>> \in in_flight
              /\ in_flight' = in_flight \ {<<d, i>>}
              /\ UNCHANGED <<packets, sockets, depth, removing, failed>>
-----------------------------------------------------------------------------
unchangedBySockets == UNCHANGED <<in_flight, home, next_gap, have_last, removing, failed>>

\* xax_skinny_socket_init, network_register_handler
socket_init(s) ==
    /\ handler[s] = "none" /\ handler' = [handler EXCEPT ![s] = "live"]
    /\ UNCHANGED <<mq, held, fragments, depth>> /\ unchangedBySockets

\* xax_skinny_socket_recv_packet that does not time out
socket_recv(s) ==
    /\ handler[s] = "live" /\ held[s] = None /\ mq[s] # <<>>
    /\ held' = [held EXCEPT ![s] = Head(mq[s])]
    /\ mq' = [mq EXCEPT ![s] = Tail(@)]
    /\ UNCHANGED <<handler, fragments, depth>> /\ unchangedBySockets

\* The owner deletes the view, and with it the datagram, it received.
DeleteView(s) ==
    /\ held[s] # None
    /\ Account({held[s]}, held[s], {})
    /\ held' = [held EXCEPT ![s] = None]
    /\ UNCHANGED <<mq, handler>> /\ unchangedBySockets

\* xax_skinny_socket_free: unregister
unregister(s) ==
    /\ handler[s] = "live" /\ handler' = [handler EXCEPT ![s] = "unregistered"]
    /\ UNCHANGED <<mq, held, fragments, depth>> /\ unchangedBySockets

\* Mutant of pfhandler_free: the messages still queued are forgotten.
pfhandler_free_leak(s) ==
    /\ handler[s] = "unregistered" /\ handler' = [handler EXCEPT ![s] = "none"]
    /\ mq' = [mq EXCEPT ![s] = <<>>]
    /\ UNCHANGED <<held, fragments, depth>> /\ unchangedBySockets

\* xax_skinny_socket_free: pfhandler_free, with what is queued
pfhandler_free(s) ==
    /\ handler[s] = "unregistered" /\ handler' = [handler EXCEPT ![s] = "none"]
    /\ fragments' = [d \in Datagrams |-> IF d \in Range(mq[s]) THEN {} ELSE fragments[d]]
    /\ depth' = depth - Buffers(Range(mq[s]))
    /\ mq' = [mq EXCEPT ![s] = <<>>]
    /\ UNCHANGED held /\ unchangedBySockets

Next == \/ \E d \in Datagrams : \/ \E i \in 1..Frags[d] : Receive(d, i) \/ Lose(d, i)
                                \/ RemoveDispatched(d)
        \/ \E s \in Sockets : \/ socket_init(s) \/ socket_recv(s) \/ DeleteView(s)
                              \/ unregister(s) \/ pfhandler_free(s)

Spec == Init /\ [][Next]_vars
-----------------------------------------------------------------------------
Delivered == (UNION {Range(mq[s]) \cup {held[s]} : s \in Sockets}) \ {None}

\* A datagram reaches a socket only with all of its fragments, in whatever
\* order they came and whatever was lost (FragmentReassembly.cpp:148-202).
DeliveredWhole == \A d \in Delivered : fragments[d] = 1..Frags[d]

\* Every buffer that counts against the limit is held by a partial packet that
\* can still be completed or tidied away, by a queue or by a socket's owner; the
\* count is exact, and it and the number of partial packets stay bounded
\* (xax_skinny_network.cpp:83-92, FragmentReassembly.cpp:255-264).
BuffersAccounted ==
    /\ \A d \in Datagrams : fragments[d] # {} => d \in Delivered \cup Partials({"new", "old"})
    /\ depth = Buffers(Datagrams)
    /\ depth <= QUEUE_SIZE + 1
    /\ Cardinality(Partials({"new", "old"})) <= MAX_PARTIAL_PACKETS + 1

\* A packet is assembled when its last missing fragment comes: none that holds
\* all of its fragments stays partial (FragmentReassembly.cpp:174-187).
CompleteIsAssembled ==
    \A d \in Partials({"new", "old"}) \ {removing} : fragments[d] # 1..Frags[d]
=============================================================================
