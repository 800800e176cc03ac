--------------------------------- MODULE RPC ---------------------------------
(***************************************************************************)
(* A monitor's calls to the coordinator                                    *)
(* (monitors/linux_kvm/monitor/CoordinatorConnection.cpp, RPCToken.cpp and *)
(* the handlers of monitors/linux_kvm/coordinator/Listener.cpp).  The VCPU *)
(* threads that call, the monitor's receive thread and the coordinator's   *)
(* listener share two datagram sockets, whose queues are bounded and whose *)
(* senders block.  Tokens wait for their reply in a hash table that no     *)
(* lock protects.  A request and its reply are the nonce they carry.       *)
(***************************************************************************)
EXTENDS Integers, Sequences

CONSTANTS Callers,       \* VCPU threads
          None,
          Packet,        \* any message that is not part of a call
          QueueLen,      \* datagrams a socket holds (external)
          num_buckets,   \* of rpc_table, which does not grow here
          MaxNonce,      \* bound on the calls made
          MaxPackets,    \* bound on the other messages
          OneAtATime     \* no two threads are ever inside rpc_table together

\* Nonces are numbers; the other values are not.
ASSUME NonceAssumption == None \notin Nat /\ Packet \notin Nat /\ None # Packet

VARIABLES pc,            \* per caller
          nonce,         \* the nonce of its token
          head,          \* the bucket as the caller read it in hash_table_insert
          reply,         \* its reply buffer: None, or the request it answers
          event,         \* its token's event is signalled
          next_nonce,
          rpc_table,     \* per bucket, the nonces of the tokens chained there
          to_coordinator, to_monitor,   \* the sockets' queues
          recv,          \* the token the receive thread is delivering to
          copied,        \* and whether it has copied the reply yet
          listener,      \* the message the listener is sending
          packets,       \* messages made so far
          failed         \* "expected key to be present"

call == <<pc, nonce, head, reply, event>>
queues == <<to_coordinator, to_monitor>>
vars == <<call, next_nonce, rpc_table, queues, recv, copied, listener, packets, failed>>

Bucket(n) == n % num_buckets

Init == /\ pc = [c \in Callers |-> "idle"]
        /\ nonce = [c \in Callers |-> None]
        /\ head = [c \in Callers |-> {}]
        /\ reply = [c \in Callers |-> None]
        /\ event = [c \in Callers |-> FALSE]
        /\ next_nonce = 7
        /\ rpc_table = [b \in 0..(num_buckets - 1) |-> {}]
        /\ to_coordinator = <<>> /\ to_monitor = <<>>
        /\ recv = None /\ copied = FALSE
        /\ listener = None
        /\ packets = 0
        /\ failed = FALSE

goto(c, from, to) == ~ failed /\ pc[c] = from /\ pc' = [pc EXCEPT ![c] = to]
-----------------------------------------------------------------------------
\* rpc_start: the nonce, under the mutex, and the new token
rpc_start(c) ==
    /\ goto(c, "idle", "insert")
    /\ next_nonce < MaxNonce
    /\ nonce' = [nonce EXCEPT ![c] = next_nonce]
    /\ next_nonce' = next_nonce + 1
    /\ reply' = [reply EXCEPT ![c] = None]
    /\ event' = [event EXCEPT ![c] = FALSE]
    /\ UNCHANGED <<head, rpc_table, queues, recv, copied, listener, packets, failed>>

\* rpc_start: hash_table_insert, up to its reading the head of the bucket
ReadHead(c) ==
    /\ goto(c, "insert", "link")
    /\ OneAtATime => \A o \in Callers : pc[o] # "link"
    /\ head' = [head EXCEPT ![c] = rpc_table[Bucket(nonce[c])]]
    /\ UNCHANGED <<nonce, reply, event, next_nonce, rpc_table, queues, recv, copied,
                   listener, packets, failed>>

\* rpc_start: hash_table_insert, from its writing the head of the bucket
WriteHead(c) ==
    /\ goto(c, "link", "send")
    /\ rpc_table' = [rpc_table EXCEPT ![Bucket(nonce[c])] = head[c] \cup {nonce[c]}]
    /\ UNCHANGED <<nonce, head, reply, event, next_nonce, queues, recv, copied,
                   listener, packets, failed>>

\* RPCToken::wait: _send, which blocks while the coordinator's queue is full
Send(c) ==
    /\ goto(c, "send", "wait")
    /\ Len(to_coordinator) < QueueLen
    /\ to_coordinator' = Append(to_coordinator, nonce[c])
    /\ UNCHANGED <<nonce, head, reply, event, next_nonce, rpc_table, to_monitor, recv,
                   copied, listener, packets, failed>>

\* RPCToken::wait and transact: the event wakes the caller, who deletes the
\* token and takes the results from its reply buffer.
Return(c) ==
    /\ goto(c, "wait", "idle")
    /\ event[c]
    /\ UNCHANGED <<nonce, head, reply, event, next_nonce, rpc_table, queues, recv, copied,
                   listener, packets, failed>>

\* send_packet, send_update_canvas, send_free_long_message: one-way messages
send_packet(c) ==
    /\ goto(c, "idle", "idle")
    /\ Len(to_coordinator) < QueueLen /\ packets < MaxPackets
    /\ to_coordinator' = Append(to_coordinator, Packet)
    /\ packets' = packets + 1
    /\ UNCHANGED <<nonce, head, reply, event, next_nonce, rpc_table, to_monitor, recv,
                   copied, listener, failed>>
-----------------------------------------------------------------------------
recvIdle == ~ failed /\ recv = None /\ to_monitor # <<>>
unchangedByRecv == UNCHANGED <<pc, nonce, head, next_nonce, listener, packets>>

\* Mutant of deliver_packet: the receive thread frees what it was sent at once.
deliver_packet_free ==
    /\ recvIdle /\ Head(to_monitor) = Packet
    /\ Len(to_coordinator) < QueueLen
    /\ to_coordinator' = Append(to_coordinator, None)
    /\ to_monitor' = Tail(to_monitor)
    /\ UNCHANGED <<reply, event, rpc_table, recv, copied, failed>>
    /\ unchangedByRecv

\* _recv_loop of a packet or a UI event: queued in memory, nothing is sent
deliver_packet ==
    /\ recvIdle /\ Head(to_monitor) = Packet
    /\ to_monitor' = Tail(to_monitor)
    /\ UNCHANGED <<reply, event, rpc_table, to_coordinator, recv, copied, failed>>
    /\ unchangedByRecv

\* accept_rpc_reply: the token is looked up and removed; without one the
\* assertion of hash_table_remove fails.
accept_rpc_reply ==
    LET n == Head(to_monitor)
        found == n \in rpc_table[Bucket(n)]
    IN  /\ recvIdle /\ n # Packet
        /\ OneAtATime => \A o \in Callers : pc[o] # "link"
        /\ to_monitor' = Tail(to_monitor)
        /\ rpc_table' = [rpc_table EXCEPT ![Bucket(n)] = @ \ {n}]
        /\ recv' = IF found THEN n ELSE None
        /\ copied' = FALSE
        /\ failed' = ~ found
        /\ UNCHANGED <<reply, event, to_coordinator>>
        /\ unchangedByRecv

\* reply_arrived: the reply is copied into the caller's buffer
CopyReply ==
    /\ recv # None /\ ~ copied /\ ~ failed
    /\ reply' = [c \in Callers |-> IF nonce[c] = recv THEN recv ELSE reply[c]]
    /\ copied' = TRUE
    /\ UNCHANGED <<event, rpc_table, queues, recv, failed>>
    /\ unchangedByRecv

\* Mutant of SignalReply: the event is signalled before the reply is copied.
SignalReply_early ==
    /\ recv # None /\ ~ failed
    /\ event' = [c \in Callers |-> event[c] \/ nonce[c] = recv]
    /\ recv' = IF copied THEN None ELSE recv
    /\ UNCHANGED <<reply, rpc_table, queues, copied, failed>>
    /\ unchangedByRecv

\* reply_arrived: and the event is signalled
SignalReply ==
    /\ recv # None /\ copied /\ ~ failed
    /\ event' = [c \in Callers |-> event[c] \/ nonce[c] = recv]
    /\ recv' = None
    /\ UNCHANGED <<reply, rpc_table, queues, copied, failed>>
    /\ unchangedByRecv
-----------------------------------------------------------------------------
\* Listener::run and dispatch: a request is answered with its nonce; a packet is
\* routed back to this monitor (a broadcast, or its own address) or elsewhere.
ListenerDispatch ==
    /\ listener = None /\ to_coordinator # <<>>
    /\ to_coordinator' = Tail(to_coordinator)
    /\ \/ listener' = Head(to_coordinator)
       \/ Head(to_coordinator) = Packet /\ listener' = None
    /\ UNCHANGED <<call, next_nonce, rpc_table, to_monitor, recv, copied, packets, failed>>

\* App::send_cm by the listener, which blocks while the monitor's queue is full
send_cm ==
    /\ listener # None
    /\ Len(to_monitor) < QueueLen
    /\ to_monitor' = Append(to_monitor, listener)
    /\ listener' = None
    /\ UNCHANGED <<call, next_nonce, rpc_table, to_coordinator, recv, copied, packets, failed>>

\* App::send_cm by the threads of the tunnel and of the window system
OtherTraffic ==
    /\ Len(to_monitor) < QueueLen /\ packets < MaxPackets
    /\ to_monitor' = Append(to_monitor, Packet)
    /\ packets' = packets + 1
    /\ UNCHANGED <<call, next_nonce, rpc_table, to_coordinator, recv, copied, listener, failed>>

Recv == deliver_packet \/ accept_rpc_reply \/ CopyReply \/ SignalReply
Caller(c) == ReadHead(c) \/ WriteHead(c) \/ Send(c) \/ Return(c)

Next == \/ \E c \in Callers : rpc_start(c) \/ Caller(c) \/ send_packet(c)
        \/ Recv \/ ListenerDispatch \/ send_cm \/ OtherTraffic

\* Threads that can run do run, and the kernel wakes a sender whose queue has
\* drained; a caller that finds the queue full again and again gets its turn.
Fairness == /\ WF_vars(Recv) /\ WF_vars(ListenerDispatch) /\ SF_vars(send_cm)
            /\ \A c \in Callers : /\ SF_vars(ReadHead(c)) /\ WF_vars(WriteHead(c))
                                  /\ SF_vars(Send(c)) /\ WF_vars(Return(c))

Spec == Init /\ [][Next]_vars /\ Fairness
-----------------------------------------------------------------------------
Waiting(n) == \E c \in Callers : nonce[c] = n /\ pc[c] = "wait"

\* A caller returns with the answer to the call it made, and the token the
\* receive thread writes to has not been deleted: its owner deletes it only
\* after the last thing that thread does with it (RPCToken.cpp:35-78).
ReplyReachesCaller ==
    /\ \A c \in Callers : pc[c] = "idle" => reply[c] = nonce[c]
    /\ recv # None => Waiting(recv)

\* Every reply finds the token of its caller in the table
\* (CoordinatorConnection.cpp:286-296, hash_table.c:237-242).
TokenIsFound == ~ failed

\* Every call returns, although both ends block in sending to bounded queues:
\* the receive thread never sends, so the monitor's queue always drains
\* (CoordinatorConnection.cpp:139-195, App.cpp:107-126).
CallReturns == \A c \in Callers : pc[c] # "idle" ~> pc[c] = "idle"
=============================================================================
