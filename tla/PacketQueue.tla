----------------------------- MODULE PacketQueue -----------------------------
(***************************************************************************)
(* The queue of received packets in the KVM monitor's connection to the    *)
(* coordinator (linux_kvm/monitor/CoordinatorConnection.cpp).  The receive *)
(* thread appends a packet and tosses the oldest ones while the queue is   *)
(* over its limits; the app's threads take packets in receive_net_buffer,  *)
(* sleeping on the condition variable while there are none.                *)
(***************************************************************************)
EXTENDS Integers, FiniteSets, Sequences

CONSTANTS Threads,      \* the app's threads
          Sizes,        \* packet sizes
          MaxBytes,     \* QUEUE_MAX_BYTES
          MinPackets,   \* QUEUE_MIN_PACKETS
          SmallLimit,   \* ZK_SMALL_MESSAGE_LIMIT: a larger packet is long
          MaxPackets    \* bound: packets the queue holds when one more arrives

VARIABLES queue,        \* the packets, each known by its size
          count,
          size_bytes,
          pc,           \* "idle", "waiting" in pthread_cond_wait, or "woken"
          failed        \* an assertion has ended the monitor

vars == <<queue, count, size_bytes, pc, failed>>

TypeOK == /\ queue \in Seq(Sizes)
          /\ count \in Nat
          /\ size_bytes \in Nat
          /\ pc \in [Threads -> {"idle", "waiting", "woken"}]
          /\ failed \in BOOLEAN

Init == /\ queue = <<>>
        /\ count = 0
        /\ size_bytes = 0
        /\ pc = [t \in Threads |-> "idle"]
        /\ failed = FALSE

Goto(t, label) == pc' = [pc EXCEPT ![t] = label]

TotalSize(q) == LET sum[n \in 0..Len(q)] == IF n = 0 THEN 0 ELSE sum[n - 1] + q[n]
                IN  sum[Len(q)]

\* The mutex is held throughout an action except in pthread_cond_wait.
Waiting == {t \in Threads : pc[t] = "waiting"}
Woken == {t \in Threads : pc[t] = "woken"}

\* pthread_cond_signal (external): one waiter, if there is one
CondSignal == \/ Waiting = {} /\ pc' = pc
              \/ \E t \in Waiting : Goto(t, "woken")

-----------------------------------------------------------------------------
\* Mutant of TooMuch: one packet less is enough.
TooMuch_short(q, k) == /\ TotalSize(SubSeq(q, k + 2, Len(q))) > MaxBytes
                       /\ Len(q) - k > MinPackets

\* Without its first k packets, q still is over the limits.
TooMuch(q, k) == /\ TotalSize(SubSeq(q, k + 1, Len(q))) > MaxBytes
                 /\ Len(q) - k > MinPackets

\* How many packets _tidy_nolock tosses from the front of q: it goes on
\* while there are too many bytes and more than the minimum of packets.
Tossed(q) == CHOOSE k \in 0..Len(q) : ~TooMuch(q, k) /\ \A j \in 0..(k - 1) : TooMuch(q, j)

\* Mutant of _enqueue_packet: signals only when the queue was empty.
_enqueue_packet_first(p) ==
    LET q == Append(queue, p)
        k == Tossed(q)
    IN  /\ Len(queue) < MaxPackets
        /\ IF queue = <<>> THEN CondSignal ELSE pc' = pc
        /\ queue' = SubSeq(q, k + 1, Len(q))
        /\ count' = count + 1 - k
        /\ size_bytes' = size_bytes + p - TotalSize(SubSeq(q, 1, k))
        /\ ~failed /\ failed' = FALSE

\* The receive thread delivers a packet, long or short.  For the message
\* about a tossed packet _tidy_nolock asks its get_size, which asserts that
\* the packet is not long.
_enqueue_packet(p) ==
    LET q == Append(queue, p)
        k == Tossed(q)
    IN  /\ ~failed
        /\ Len(queue) < MaxPackets
        /\ IF \E j \in 1..k : q[j] > SmallLimit
           THEN failed' = TRUE /\ UNCHANGED <<queue, count, size_bytes, pc>>
           ELSE /\ CondSignal
                /\ queue' = SubSeq(q, k + 1, Len(q))
                /\ count' = count + 1 - k
                /\ size_bytes' = size_bytes + p - TotalSize(SubSeq(q, 1, k))
                /\ UNCHANGED failed

\* while (queue.count==0) cond_wait; then remove the head
_dequeue_nolock(t) ==
    \/ /\ queue = <<>>
       /\ Goto(t, "waiting")
       /\ UNCHANGED <<queue, count, size_bytes>>
    \/ /\ queue /= <<>>
       /\ queue' = Tail(queue)
       /\ count' = count - 1
       /\ size_bytes' = size_bytes - Head(queue)
       /\ Goto(t, "idle")

\* zoog_receive_net_buffer: dequeue_packet takes the mutex ...
dequeue_packet(t) == ~failed /\ pc[t] = "idle" /\ _dequeue_nolock(t) /\ UNCHANGED failed

\* ... and pthread_cond_wait gives it back to a woken thread
Resume(t) == ~failed /\ pc[t] = "woken" /\ _dequeue_nolock(t) /\ UNCHANGED failed

\* pthread_cond_wait may return without a signal (external).
SpuriousWake(t) ==
    /\ ~failed
    /\ pc[t] = "waiting"
    /\ Goto(t, "woken")
    /\ UNCHANGED <<queue, count, size_bytes, failed>>

Next == \/ \E p \in Sizes : _enqueue_packet(p)
        \/ \E t \in Threads : dequeue_packet(t) \/ Resume(t) \/ SpuriousWake(t)

Spec == Init /\ [][Next]_vars
-----------------------------------------------------------------------------
\* Between operations the queue is within its limits: tossing goes on until
\* the bytes fit or the minimum of packets is left, whatever the sizes
\* (CoordinatorConnection.cpp:434-443); and the two counters _tidy_nolock
\* decides by are the truth about the queue, whoever took or tossed packets
\* (CoordinatorConnection.cpp:251-260, 414-443; the destructor asserts
\* size_bytes == 0).
WithinLimits == /\ TypeOK
                /\ TotalSize(queue) <= MaxBytes \/ Len(queue) <= MinPackets
                /\ count = Len(queue) /\ size_bytes = TotalSize(queue)

\* No packet lies idle: if threads still wait, every queued packet has a
\* woken thread coming for it (one pthread_cond_signal per packet,
\* CoordinatorConnection.cpp:254, 416-419).
NoIdlePacket == Waiting /= {} => Len(queue) <= Cardinality(Woken)
=============================================================================
