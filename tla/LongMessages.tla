---------------------------- MODULE LongMessages ----------------------------
(***************************************************************************)
(* Long packets (linux_kvm).  The coordinator allocates a shared memory    *)
(* segment for each long network buffer and counts the references to it;   *)
(* monitors pass a buffer on by its key, over datagram sockets.  What the  *)
(* coordinator believes (outstanding_lmas, _refs) follows what monitors do *)
(* (alloc, send, free, exit) only by the messages between them.  The       *)
(* packet's header, which says where it goes, is in the shared segment:    *)
(* the coordinator reads it when it dispatches the message.                *)
(***************************************************************************)
EXTENDS Integers, FiniteSets, Sequences

CONSTANTS Apps,
          MaxIds,      \* segments that can be allocated: Shm::allocate asserts it
          MaxMsgs      \* bound: messages on their way to the coordinator

ASSUME LongAssumption == /\ IsFiniteSet(Apps)
                         /\ MaxIds \in Nat
                         /\ MaxMsgs \in Nat

VARIABLES \* the coordinator
          connected,      \* the apps that have an App object
          outstanding,    \* App::outstanding_lmas
          refs,           \* LongMessageAllocation::_refs, 0 when it is gone
          next_identity,  \* Shm::next_identity
          failed,         \* the assertion that ended a process, or "none"
          \* the segments
          header,         \* the destination in the packet's header, 0 in a new one
          \* the sockets
          rendezvous,     \* datagrams for the coordinator
          inbox,          \* datagrams for each monitor
          \* the monitors
          alive,
          allocating,     \* whether a thread waits for an alloc_long_message_reply
          buffer,         \* the state of each net buffer
          mine,           \* the buffers the app allocated itself
          \* history
          kept,           \* the segments that were sent without release
          passed_on       \* those that were sent by an app that received them

coordinator == <<connected, outstanding, refs, next_identity>>
history == <<kept, passed_on>>
monitors == <<alive, allocating, buffer, mine, history>>
vars == <<connected, outstanding, refs, next_identity, failed, header,
          rendezvous, inbox, alive, allocating, buffer, mine, kept, passed_on>>

Ids == 1..MaxIds
Requests == [op : {"alloc", "packet", "free"}, from : Apps, id : 0..MaxIds, dest : Apps]

\* A buffer is absent; queued for receive_net_buffer; held by the app;
\* sent, to be released; or freed, but still mapped and in the tables.
BufferStates == {"absent", "queued", "held", "sent", "freed"}

TypeOK == /\ connected \subseteq Apps
          /\ outstanding \in [Apps -> SUBSET Ids]
          /\ refs \in [Ids -> Nat]
          /\ next_identity \in 1..(MaxIds + 1)
          /\ failed \in {"none", "duplicate", "stranger", "ingest", "keyspace"}
          /\ header \in [Ids -> Apps \cup {0}]
          /\ rendezvous \in Seq(Requests)
          /\ inbox \in [Apps -> Seq([op : {"alloc_reply", "packet"}, id : Ids])]
          /\ alive \subseteq Apps
          /\ allocating \subseteq Apps
          /\ buffer \in [Apps -> [Ids -> BufferStates]]
          /\ mine \in [Apps -> SUBSET Ids]
          /\ kept \subseteq Ids /\ passed_on \subseteq Ids

Init == /\ connected = Apps
        /\ outstanding = [a \in Apps |-> {}]
        /\ refs = [i \in Ids |-> 0]
        /\ next_identity = 1
        /\ failed = "none"
        /\ header = [i \in Ids |-> 0]
        /\ rendezvous = <<>>
        /\ inbox = [a \in Apps |-> <<>>]
        /\ alive = Apps
        /\ allocating = {}
        /\ buffer = [a \in Apps |-> [i \in Ids |-> "absent"]]
        /\ mine = [a \in Apps |-> {}]
        /\ kept = {} /\ passed_on = {}

-----------------------------------------------------------------------------
(* The monitors *)

Send(op, a, i, d) ==
    /\ Len(rendezvous) < MaxMsgs
    /\ rendezvous' = Append(rendezvous, [op |-> op, from |-> a, id |-> i, dest |-> d])

Buffer(a, i, state) == buffer' = [buffer EXCEPT ![a][i] = state]

Running(a) == failed = "none" /\ a \in alive

\* A long buffer is asked of the coordinator (send_alloc_long_message).
alloc_net_buffer(a) ==
    /\ Running(a) /\ a \notin allocating
    /\ Send("alloc", a, 0, a)
    /\ allocating' = allocating \cup {a}
    /\ UNCHANGED <<coordinator, failed, header, inbox, alive, buffer, mine, history>>

\* What SentByValue and NoFailure tell apart.
Used(a, i, release) ==
    /\ kept' = IF release THEN kept ELSE kept \cup {i}
    /\ passed_on' = IF i \in mine[a] THEN passed_on ELSE passed_on \cup {i}

\* Mutant of send_net_buffer: a release frees the buffer before the packet
\* is sent.
send_net_buffer_swapped(a, i, d, release) ==
    /\ Running(a) /\ buffer[a][i] = "held"
    /\ header' = [header EXCEPT ![i] = d]
    /\ Used(a, i, release)
    /\ Len(rendezvous) < MaxMsgs
    /\ rendezvous' = Append(Append(rendezvous,
                         [op |-> "free", from |-> a, id |-> i, dest |-> a]),
                         [op |-> "packet", from |-> a, id |-> i, dest |-> d])
    /\ Buffer(a, i, IF release THEN "freed" ELSE "held")
    /\ UNCHANGED <<coordinator, failed, inbox, alive, allocating, mine>>

\* Mutant of send_net_buffer: the release flag is ignored.
send_net_buffer_keep(a, i, d, release) ==
    /\ Running(a) /\ buffer[a][i] = "held"
    /\ header' = [header EXCEPT ![i] = d]
    /\ Used(a, i, release)
    /\ Send("packet", a, i, d)
    /\ UNCHANGED <<coordinator, failed, inbox, alive, allocating, buffer, mine>>

\* The app writes the header and sends the buffer.
send_net_buffer(a, i, d, release) ==
    /\ Running(a) /\ buffer[a][i] = "held"
    /\ header' = [header EXCEPT ![i] = d]
    /\ Used(a, i, release)
    /\ Send("packet", a, i, d)
    /\ Buffer(a, i, IF release THEN "sent" ELSE "held")
    /\ UNCHANGED <<coordinator, failed, inbox, alive, allocating, mine>>

\* _free_net_buffer tells the coordinator, after a send with release or
\* when the app calls zoog_free_net_buffer ...
_free_net_buffer(a, i) ==
    /\ Running(a) /\ buffer[a][i] \in {"held", "sent"}
    /\ Send("free", a, i, a)
    /\ Buffer(a, i, "freed")
    /\ UNCHANGED <<coordinator, failed, header, inbox, alive, allocating, mine, history>>

\* ... and then unmaps the buffer, which leaves the monitor's tables
free_net_buffer(a, i) ==
    /\ Running(a) /\ buffer[a][i] = "freed"
    /\ Buffer(a, i, "absent")
    /\ mine' = [mine EXCEPT ![a] = @ \ {i}]
    /\ UNCHANGED <<coordinator, failed, header, rendezvous, inbox, alive, allocating, history>>

Received(a) == inbox' = [inbox EXCEPT ![a] = Tail(@)]

\* The reply to alloc_long_message: ingest and install_net_buffer.
AllocReply(a) ==
    /\ Running(a) /\ inbox[a] /= <<>> /\ Head(inbox[a]).op = "alloc_reply"
    /\ Received(a)
    /\ Buffer(a, Head(inbox[a]).id, "held")
    /\ mine' = [mine EXCEPT ![a] = @ \cup {Head(inbox[a]).id}]
    /\ allocating' = allocating \ {a}
    /\ UNCHANGED <<coordinator, failed, header, rendezvous, alive, history>>

\* The receive thread ingests a long packet, whose key it must not have in
\* its table (hash_table_insert asserts that), and queues it.
deliver_packet_long(a) ==
    /\ Running(a) /\ inbox[a] /= <<>> /\ Head(inbox[a]).op = "packet"
    /\ Received(a)
    /\ IF buffer[a][Head(inbox[a]).id] = "absent"
       THEN Buffer(a, Head(inbox[a]).id, "queued") /\ UNCHANGED failed
       ELSE failed' = "ingest" /\ UNCHANGED buffer
    /\ UNCHANGED <<coordinator, header, rendezvous, alive, allocating, mine, history>>

receive_net_buffer(a, i) ==
    /\ Running(a) /\ buffer[a][i] = "queued"
    /\ Buffer(a, i, "held")
    /\ UNCHANGED <<coordinator, failed, header, rendezvous, inbox, alive, allocating, mine, history>>

\* The app exits, however far its threads were; what it sent is still sent.
Exit(a) ==
    /\ Running(a)
    /\ alive' = alive \ {a}
    /\ inbox' = [inbox EXCEPT ![a] = <<>>]
    /\ allocating' = allocating \ {a}
    /\ buffer' = [buffer EXCEPT ![a] = [i \in Ids |-> "absent"]]
    /\ mine' = [mine EXCEPT ![a] = {}]
    /\ UNCHANGED <<coordinator, failed, header, rendezvous, history>>

-----------------------------------------------------------------------------
(* The coordinator *)

\* Mutant of send_cm: a closed app's references are forgotten.
send_cm_forget(a, msg, out, r) ==
    IF a \in alive
    THEN /\ inbox' = [inbox EXCEPT ![a] = Append(@, msg)]
         /\ outstanding' = out
         /\ refs' = r
         /\ UNCHANGED connected
    ELSE /\ connected' = connected \ {a}
         /\ outstanding' = [out EXCEPT ![a] = {}]
         /\ refs' = r
         /\ UNCHANGED inbox

\* App::send_cm, with the bookkeeping already done (out, r).  If the monitor
\* is gone, ECONNREFUSED deletes the App: ~App drops each reference the app
\* had outstanding, and disconnects it.
send_cm(a, msg, out, r) ==
    IF a \in alive
    THEN /\ inbox' = [inbox EXCEPT ![a] = Append(@, msg)]
         /\ outstanding' = out
         /\ refs' = r
         /\ UNCHANGED connected
    ELSE /\ connected' = connected \ {a}
         /\ outstanding' = [out EXCEPT ![a] = {}]
         /\ refs' = [i \in Ids |-> IF i \in out[a] THEN r[i] - 1 ELSE r[i]]
         /\ UNCHANGED inbox

\* Listener::run reads the next message.
Dispatch(op) ==
    /\ failed = "none"
    /\ rendezvous /= <<>> /\ Head(rendezvous).op = op
    /\ rendezvous' = Tail(rendezvous)
    /\ UNCHANGED <<header, monitors>>

\* The handler goes on with an App or a segment that is not there any more.
Fail(why) == failed' = why /\ UNCHANGED <<coordinator, inbox>>

\* Mutant of alloc_long_message: the segment is not recorded with the app.
alloc_long_message_unrecorded ==
    /\ Dispatch("alloc")
    /\ LET a == Head(rendezvous).from IN
       IF next_identity > MaxIds
       THEN Fail("keyspace")
       ELSE IF a \notin connected
       THEN Fail("stranger")
       ELSE /\ next_identity' = next_identity + 1
            /\ send_cm(a, [op |-> "alloc_reply", id |-> next_identity],
                       outstanding, [refs EXCEPT ![next_identity] = 1])
            /\ UNCHANGED failed

\* A new segment, while there are keys, with one reference that stands for the monitor's.
alloc_long_message ==
    /\ Dispatch("alloc")
    /\ LET a == Head(rendezvous).from IN
       IF next_identity > MaxIds
       THEN Fail("keyspace")
       ELSE IF a \notin connected
       THEN Fail("stranger")
       ELSE /\ next_identity' = next_identity + 1
            /\ send_cm(a, [op |-> "alloc_reply", id |-> next_identity],
                       [outstanding EXCEPT ![a] = @ \cup {next_identity}],
                       [refs EXCEPT ![next_identity] = 1])
            /\ UNCHANGED failed

\* UnicastIfc::deliver and App::send_packet: add_ref, and record the segment
\* with the receiver, who must not have it yet (hash_table_insert asserts
\* that).  The LongPacket's own reference comes and goes in this step.
Forward(i, d) ==
    IF d \notin connected
    THEN UNCHANGED <<connected, outstanding, refs, failed, inbox>>
    ELSE IF i \in outstanding[d]
    THEN failed' = "duplicate" /\ UNCHANGED <<connected, outstanding, refs, inbox>>
    ELSE /\ send_cm(d, [op |-> "packet", id |-> i],
                    [outstanding EXCEPT ![d] = @ \cup {i}], [refs EXCEPT ![i] = @ + 1])
         /\ UNCHANGED failed

\* Listener::deliver_packet_long: the segment is looked up, and the
\* destination read from the header that is in it now.
RoutePacket ==
    /\ Dispatch("packet")
    /\ LET i == Head(rendezvous).id IN
       IF refs[i] = 0
       THEN Fail("stranger")
       ELSE Forward(i, header[i]) /\ UNCHANGED next_identity

\* App::free_long_message: forget the segment, which must be outstanding
\* (hash_table_remove asserts that), then drop the reference.
free_long_message ==
    /\ Dispatch("free")
    /\ LET a == Head(rendezvous).from
           i == Head(rendezvous).id IN
       IF a \notin connected \/ i \notin outstanding[a]
       THEN Fail("stranger")
       ELSE /\ outstanding' = [outstanding EXCEPT ![a] = @ \ {i}]
            /\ refs' = [refs EXCEPT ![i] = @ - 1]
            /\ UNCHANGED <<connected, next_identity, failed, inbox>>

\* Something else is sent to an app that is gone: a short packet from the
\* tunnel or another app, a UI event, an RPC reply.
AppGone(a) ==
    /\ failed = "none"
    /\ a \in connected \ alive
    /\ send_cm(a, [op |-> "packet", id |-> 0], outstanding, refs)
    /\ UNCHANGED <<next_identity, failed, header, rendezvous, monitors>>

Next ==
    \/ \E a \in Apps :
          \/ alloc_net_buffer(a) \/ AllocReply(a) \/ deliver_packet_long(a)
          \/ Exit(a) \/ AppGone(a)
          \/ \E i \in Ids :
                \/ \E d \in Apps \ {a}, release \in BOOLEAN : send_net_buffer(a, i, d, release)
                \/ _free_net_buffer(a, i) \/ free_net_buffer(a, i) \/ receive_net_buffer(a, i)
    \/ alloc_long_message \/ RoutePacket \/ free_long_message

Spec == Init /\ [][Next]_vars
-----------------------------------------------------------------------------
\* A segment's count is the number of apps it is outstanding with, whoever
\* allocated, sent, freed or exited, so it is unlinked when the last of them
\* gives it up and never leaks (LongMessageAllocator.cpp:57-75,
\* App.cpp:138-169).
RefsAreOwners ==
    \A i \in Ids : refs[i] = Cardinality({a \in connected : i \in outstanding[a]})

\* A segment that a running app holds, or that is on its way to it, is
\* outstanding with that app at the coordinator: nobody else's free or exit
\* unlinks a buffer in use (App.cpp:138-142, Listener.cpp:410-420).
InUseIsOutstanding ==
    failed = "none" => \A a \in alive, i \in Ids :
       \/ buffer[a][i] \in {"queued", "held", "sent"}
       \/ \E k \in 1..Len(inbox[a]) : inbox[a][k].id = i
       => i \in outstanding[a]

\* What keeps the assertions of coordinator and monitors from failing.  As
\* long as no app has exited, every message is dispatched while the
\* coordinator still has the App and the segment it is about
\* (Listener.cpp:248-267); a message that an app sent before it exited may
\* come after its App is deleted.  As long as apps release what they send and
\* send only what they allocated, no segment is recorded twice with one app or
\* ingested twice by one monitor (hash_table_insert asserts that,
\* common/utils/hash_table.c:182); one that sends on what it received can send
\* it to an app whose own free of it is still on its way.
NoFailure == /\ alive = Apps => failed /= "stranger"
             /\ kept \cup passed_on = {} => failed \notin {"duplicate", "ingest"}

\* A packet goes where its header said when it was sent, the "copy-by-value"
\* of the ABI (common/ifc/pal_abi/pal_net.h:236), if its segment was always
\* sent with release, however often it was passed on.
SentByValue ==
    [][/\ rendezvous /= <<>> /\ rendezvous' = Tail(rendezvous)
       /\ Head(rendezvous).op = "packet" /\ Head(rendezvous).id \notin kept
       => header[Head(rendezvous).id] = Head(rendezvous).dest]_vars
=============================================================================
