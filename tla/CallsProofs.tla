----------------------------- MODULE CallsProofs -----------------------------
(***************************************************************************)
(* Proofs about RPC, for any callers, queue lengths and numbers of calls,  *)
(* and whether or not threads meet inside rpc_table: what that table loses *)
(* ends the monitor, and never makes a reply go to the wrong caller.  And  *)
(* about AlarmThread, for any number of calls, any times and one caller.   *)
(***************************************************************************)
EXTENDS Calls, TLAPS

Message == Nat \cup {Packet}

TypeOK == /\ pc \in [Callers -> {"idle", "insert", "link", "send", "wait"}]
          /\ nonce \in [Callers -> Nat \cup {None}]
          /\ reply \in [Callers -> Nat \cup {None}]
          /\ event \in [Callers -> BOOLEAN]
          /\ next_nonce \in Nat
          /\ to_coordinator \in Seq(Message) /\ to_monitor \in Seq(Message)
          /\ recv \in Nat \cup {None}
          /\ copied \in BOOLEAN
          /\ listener \in Message \cup {None}

In(n, q) == \E i \in 1..Len(q) : q[i] = n
Distinct(q) == \A i, j \in 1..Len(q) : q[i] = q[j] /\ q[i] # Packet => i = j

\* The nonces handed out are different.
Fresh == /\ \A c \in Callers : nonce[c] # None => nonce[c] < next_nonce
         /\ \A c, d \in Callers : nonce[c] = nonce[d] /\ nonce[c] # None => c = d

\* A call's nonce is in one place at a time.
OnePlace ==
    /\ Distinct(to_coordinator) /\ Distinct(to_monitor)
    /\ \A n \in Nat : /\ In(n, to_coordinator) => ~In(n, to_monitor) /\ listener # n /\ recv # n
                      /\ In(n, to_monitor) => listener # n /\ recv # n
                      /\ listener = n => recv # n

OnItsWay(n) == In(n, to_coordinator) \/ In(n, to_monitor) \/ listener = n \/ recv = n

\* A call that is on its way has a caller who waits and cannot return yet.
Awaited == \A n \in Nat : OnItsWay(n) =>
              \E c \in Callers : nonce[c] = n /\ pc[c] = "wait" /\ ~event[c]

\* A caller has a nonce while it calls, its event is clear until it waits, and
\* when the event is set, or the call over, the buffer holds the reply.
Replied ==
    \A c \in Callers :
        /\ pc[c] # "idle" => nonce[c] # None
        /\ pc[c] \in {"insert", "link", "send"} => ~event[c]
        /\ pc[c] = "wait" /\ event[c] => reply[c] = nonce[c]
        /\ pc[c] = "idle" => reply[c] = nonce[c]
        /\ recv # None /\ copied /\ nonce[c] = recv => reply[c] = nonce[c]

\* The inductive invariant
IInv == TypeOK /\ Fresh /\ OnePlace /\ Awaited /\ Replied

\* What sending does to the messages in a socket's queue
\* (CoordinatorConnection::_send, App::send_cm).
LEMMA Sent ==
  ASSUME NEW q \in Seq(Message), NEW m \in Message, Distinct(q), m = Packet \/ ~In(m, q)
  PROVE  /\ Append(q, m) \in Seq(Message)
         /\ Distinct(Append(q, m))
         /\ \A n : In(n, Append(q, m)) <=> In(n, q) \/ n = m
  <1> DEFINE r == Append(q, m)
  <1>1. /\ r \in Seq(Message) /\ Len(r) = Len(q) + 1 /\ Len(q) \in Nat
        /\ r[Len(q) + 1] = m
        /\ \A i \in 1..Len(q) : r[i] = q[i]
    OBVIOUS
  <1>2. 1..Len(r) = (1..Len(q)) \cup {Len(q) + 1}
    BY <1>1
  <1> HIDE DEF r
  <1>3. \A n : In(n, r) <=> In(n, q) \/ n = m
    BY Zenon, <1>1, <1>2 DEF In
  <1>4. Distinct(r)
    BY Zenon, <1>1, <1>2 DEF Distinct, In
  <1> QED  BY Zenon, <1>1, <1>3, <1>4 DEF r

\* What receiving does to them: the first message leaves the queue
\* (CoordinatorConnection::_recv_loop, Listener::run).
LEMMA Received ==
  ASSUME NEW q \in Seq(Message), q # <<>>, Distinct(q)
  PROVE  /\ Tail(q) \in Seq(Message)
         /\ Distinct(Tail(q))
         /\ Head(q) \in Message
         /\ In(Head(q), q)
         /\ \A n : In(n, Tail(q)) => In(n, q)
         /\ Head(q) # Packet => ~In(Head(q), Tail(q))
  <1> DEFINE r == Tail(q)
  <1>1. /\ r \in Seq(Message) /\ Len(q) \in Nat /\ Len(q) > 0
        /\ Len(r) = Len(q) - 1
        /\ Head(q) = q[1] /\ q[1] \in Message
        /\ \A i \in 1..Len(r) : r[i] = q[i + 1]
    OBVIOUS
  <1> HIDE DEF r
  <1>2. \A i \in 1..Len(r) : i + 1 \in 1..Len(q) /\ i + 1 # 1
    BY <1>1
  <1>3. 1 \in 1..Len(q)
    BY <1>1
  <1>4. Distinct(r)
    BY <1>1, <1>2 DEF Distinct
  <1>5. \A n : In(n, r) => In(n, q)
    BY Zenon, <1>1, <1>2 DEF In
  <1>6. In(Head(q), q)
    BY Zenon, <1>1, <1>3 DEF In
  <1>7. Head(q) # Packet => ~In(Head(q), r)
    BY Zenon, <1>1, <1>2, <1>3 DEF In, Distinct
  <1> QED  BY Zenon, <1>1, <1>4, <1>5, <1>6, <1>7 DEF r

\* No call has been made when the monitor connects
\* (CoordinatorConnection.cpp:22-47).
LEMMA InitIInv == Init => IInv
  <1> SUFFICES ASSUME Init PROVE IInv
    BY Zenon
  <1>1. Len(to_coordinator) = 0 /\ Len(to_monitor) = 0
    BY Zenon DEF Init
  <1>2. \A n : ~In(n, to_coordinator) /\ ~In(n, to_monitor)
    BY <1>1 DEF In
  <1>3. Distinct(to_coordinator) /\ Distinct(to_monitor)
    BY <1>1 DEF Distinct
  <1>4. TypeOK
    <2>1. to_coordinator \in Seq(Message) /\ to_monitor \in Seq(Message) /\ next_nonce \in Nat
      BY DEF Init
    <2>2. event \in [Callers -> BOOLEAN] /\ copied \in BOOLEAN
      BY Zenon DEF Init
    <2>3. /\ pc \in [Callers -> {"idle", "insert", "link", "send", "wait"}]
          /\ nonce \in [Callers -> Nat \cup {None}] /\ reply \in [Callers -> Nat \cup {None}]
      BY Zenon DEF Init
    <2>4. recv \in Nat \cup {None} /\ listener \in Message \cup {None}
      BY Zenon DEF Init
    <2> QED  BY Zenon, <2>1, <2>2, <2>3, <2>4 DEF TypeOK
  <1> QED  BY Zenon, <1>2, <1>3, <1>4, NonceAssumption
           DEF Init, IInv, Fresh, OnePlace, Awaited, Replied, OnItsWay

\* Every step of the callers, of the receive thread and of the listener keeps
\* the invariant (CoordinatorConnection.cpp:139-195, 286-296, RPCToken.cpp:35-78).
LEMMA NextIInv == IInv /\ [Next]_vars => IInv'
  <1> SUFFICES ASSUME IInv, [Next]_vars PROVE IInv'
    BY Zenon
  <1> USE NonceAssumption
  <1>u. /\ TypeOK /\ Fresh /\ OnePlace /\ Awaited /\ Replied
        /\ \A c \in Callers : nonce[c] \in Nat \cup {None} /\ event[c] \in BOOLEAN
        /\ \A n \in Nat : n # None /\ n # Packet
    BY Zenon DEF IInv, TypeOK
  <1>1. ASSUME NEW c \in Callers, rpc_start(c) PROVE IInv'
    <2>1. /\ nonce' = [nonce EXCEPT ![c] = next_nonce] /\ next_nonce' = next_nonce + 1
          /\ pc[c] = "idle" /\ pc' = [pc EXCEPT ![c] = "insert"]
          /\ reply' = [reply EXCEPT ![c] = None]
          /\ event' = [event EXCEPT ![c] = FALSE]
          /\ UNCHANGED <<to_coordinator, to_monitor, listener, recv, copied>>
      BY Zenon, <1>1 DEF rpc_start, goto, queues
    <2>2. TypeOK'
      <3>1. event' \in [Callers -> BOOLEAN]
        BY Zenon, <2>1, <1>u DEF TypeOK
      <3> QED  BY <2>1, <3>1, <1>u DEF TypeOK
    <2>3. Fresh'
      BY <2>1, <1>u DEF TypeOK, Fresh
    <2>4. OnePlace'
      BY Zenon, <2>1, <1>u DEF OnePlace
    <2>5. Awaited'
      BY Zenon, <2>1, <1>u DEF Awaited, OnItsWay, TypeOK
    <2>6. recv # next_nonce
      BY <1>u DEF Awaited, OnItsWay, Fresh, TypeOK
    <2>7. Replied'
      BY Zenon, <2>1, <2>6, <1>u DEF Replied, TypeOK
    <2> QED  BY Zenon, <2>2, <2>3, <2>4, <2>5, <2>7 DEF IInv
  <1>2. ASSUME NEW c \in Callers, ReadHead(c) \/ WriteHead(c) PROVE IInv'
    <2>1. /\ \E p \in {"link", "send"} : pc' = [pc EXCEPT ![c] = p]
          /\ pc[c] \in {"insert", "link"}
          /\ UNCHANGED <<nonce, next_nonce, reply, event, to_coordinator, to_monitor, listener,
                         recv, copied>>
      BY Zenon, <1>2 DEF ReadHead, WriteHead, goto, queues
    <2>2. TypeOK' /\ Fresh'
      BY Zenon, <2>1, <1>u DEF TypeOK, Fresh
    <2>4. OnePlace'
      BY Zenon, <2>1, <1>u DEF OnePlace
    <2>5. Awaited'
      BY <2>1, <1>u DEF Awaited, OnItsWay, TypeOK
    <2>6. Replied'
      BY Zenon, <2>1, <1>u DEF Replied, TypeOK
    <2> QED  BY Zenon, <2>2, <2>4, <2>5, <2>6 DEF IInv
  <1>3. ASSUME NEW c \in Callers, Send(c) PROVE IInv'
    <2>1. /\ pc[c] = "send" /\ pc' = [pc EXCEPT ![c] = "wait"]
          /\ to_coordinator' = Append(to_coordinator, nonce[c])
          /\ UNCHANGED <<nonce, next_nonce, reply, event, to_monitor, listener, recv, copied>>
      BY Zenon, <1>3 DEF Send, goto
    <2>2. nonce[c] \in Nat /\ ~event[c] /\ nonce[c] # Packet
      BY Zenon, <2>1, <1>u DEF Replied
    <2>3. ~OnItsWay(nonce[c])
      BY ZenonT(40), <2>1, <2>2, <1>u DEF Awaited, Fresh
    <2>4. /\ to_coordinator' \in Seq(Message) /\ Distinct(to_coordinator')
          /\ \A n : In(n, to_coordinator') <=> In(n, to_coordinator) \/ n = nonce[c]
      <3>1. nonce[c] \in Message /\ ~In(nonce[c], to_coordinator)
        BY Zenon, <2>2, <2>3 DEF OnItsWay, Message
      <3> QED  BY <2>1, <3>1, <1>u, Sent DEF TypeOK, OnePlace
    <2>5. TypeOK' /\ Fresh'
      BY Zenon, <2>1, <2>4, <1>u DEF TypeOK, Fresh
    <2>6. OnePlace'
      BY Zenon, <2>1, <2>2, <2>3, <2>4, <1>u DEF OnePlace, OnItsWay
    <2>7. Awaited'
      BY Zenon, <2>1, <2>2, <2>4, <1>u DEF Awaited, OnItsWay, TypeOK
    <2>8. Replied'
      BY Zenon, <2>1, <2>2, <1>u DEF Replied, TypeOK
    <2> QED  BY Zenon, <2>5, <2>6, <2>7, <2>8 DEF IInv
  <1>4. ASSUME NEW c \in Callers, Return(c) PROVE IInv'
    <2>1. /\ pc[c] = "wait" /\ event[c] /\ pc' = [pc EXCEPT ![c] = "idle"]
          /\ UNCHANGED <<nonce, next_nonce, reply, event, to_coordinator, to_monitor, listener,
                         recv, copied>>
      BY Zenon, <1>4 DEF Return, goto, queues
    <2>2. TypeOK' /\ Fresh'
      BY Zenon, <2>1, <1>u DEF TypeOK, Fresh
    <2>4. OnePlace'
      BY Zenon, <2>1, <1>u DEF OnePlace
    <2>5. Awaited'
      BY Zenon, <2>1, <1>u DEF Awaited, OnItsWay, TypeOK
    <2>6. Replied'
      BY Zenon, <2>1, <1>u DEF Replied, TypeOK
    <2> QED  BY Zenon, <2>2, <2>4, <2>5, <2>6 DEF IInv
  <1>5. ASSUME NEW c \in Callers, send_packet(c) PROVE IInv'
    <2>1. /\ to_coordinator' = Append(to_coordinator, Packet)
          /\ pc' = [pc EXCEPT ![c] = "idle"] /\ pc[c] = "idle"
          /\ UNCHANGED <<nonce, next_nonce, reply, event, to_monitor, listener, recv, copied>>
      BY Zenon, <1>5 DEF send_packet, goto
    <2>2. /\ to_coordinator' \in Seq(Message) /\ Distinct(to_coordinator')
          /\ \A n : In(n, to_coordinator') <=> In(n, to_coordinator) \/ n = Packet
      BY Zenon, <2>1, <1>u, Sent DEF TypeOK, OnePlace, Message
    <2>3. pc' = pc
      BY Zenon, <2>1, <1>u DEF TypeOK
    <2>4. TypeOK' /\ Fresh'
      BY Zenon, <2>1, <2>2, <2>3, <1>u DEF TypeOK, Fresh
    <2>5. OnePlace'
      BY Zenon, <2>1, <2>2, <1>u DEF OnePlace
    <2>6. Awaited'
      BY <2>1, <2>2, <2>3, <1>u DEF Awaited, OnItsWay
    <2>7. Replied'
      BY Zenon, <2>1, <2>3, <1>u DEF Replied
    <2> QED  BY Zenon, <2>4, <2>5, <2>6, <2>7 DEF IInv
  <1>6. ASSUME deliver_packet \/ accept_rpc_reply PROVE IInv'
    <2>1. /\ to_monitor # <<>> /\ to_monitor' = Tail(to_monitor)
          /\ recv = None
          /\ recv' = None \/ (recv' = Head(to_monitor) /\ Head(to_monitor) # Packet /\ copied' = FALSE)
          /\ copied' = copied \/ copied' = FALSE
          /\ UNCHANGED <<pc, nonce, next_nonce, reply, event, to_coordinator, listener>>
      BY Zenon, <1>6 DEF deliver_packet, accept_rpc_reply, recvIdle, unchangedByRecv
    <2>2. /\ to_monitor' \in Seq(Message) /\ Distinct(to_monitor')
          /\ Head(to_monitor) \in Message
          /\ In(Head(to_monitor), to_monitor)
          /\ \A n : In(n, to_monitor') => In(n, to_monitor)
          /\ Head(to_monitor) # Packet => ~In(Head(to_monitor), to_monitor')
      BY Zenon, <2>1, <1>u, Received DEF TypeOK, OnePlace
    <2>3. recv' \in Nat \cup {None}
      BY Zenon, <2>1, <2>2 DEF Message
    <2>4. TypeOK' /\ Fresh'
      <3>1. copied' \in BOOLEAN
        BY Zenon, <2>1, <1>u DEF TypeOK
      <3> QED  BY Zenon, <2>1, <2>2, <2>3, <3>1, <1>u DEF TypeOK, Fresh
    <2>5. OnePlace'
      BY Zenon, <2>1, <2>2, <1>u DEF OnePlace
    <2>6. \A n \in Nat : OnItsWay(n)' => OnItsWay(n)
      BY Zenon, <2>1, <2>2, <1>u DEF OnItsWay
    <2>7. Awaited'
      BY Zenon, <2>1, <2>6, <1>u DEF Awaited
    <2>8. Replied'
      BY Zenon, <2>1, <1>u DEF Replied
    <2> QED  BY Zenon, <2>4, <2>5, <2>7, <2>8 DEF IInv
  <1>7. ASSUME CopyReply PROVE IInv'
    <2>1. /\ recv # None /\ copied' = TRUE
          /\ reply' = [c \in Callers |-> IF nonce[c] = recv THEN recv ELSE reply[c]]
          /\ UNCHANGED <<pc, nonce, next_nonce, event, to_coordinator, to_monitor, listener, recv>>
      BY Zenon, <1>7 DEF CopyReply, unchangedByRecv, queues
    <2>2. TypeOK' /\ Fresh'
      BY Zenon, <2>1, <1>u DEF TypeOK, Fresh
    <2>3. OnePlace' /\ Awaited'
      BY Zenon, <2>1, <1>u DEF OnePlace, Awaited, OnItsWay
    <2>4. Replied'
      BY Zenon, <2>1, <1>u DEF Replied
    <2> QED  BY Zenon, <2>2, <2>3, <2>4 DEF IInv
  <1>8. ASSUME SignalReply PROVE IInv'
    <2>1. /\ recv # None /\ copied /\ recv' = None
          /\ event' = [c \in Callers |-> event[c] \/ nonce[c] = recv]
          /\ UNCHANGED <<pc, nonce, next_nonce, reply, copied, to_coordinator, to_monitor, listener>>
      BY Zenon, <1>8 DEF SignalReply, unchangedByRecv, queues
    <2>2. TypeOK'
      <3>1. event' \in [Callers -> BOOLEAN]
        BY Zenon, <2>1, <1>u
      <3> QED  BY Zenon, <2>1, <3>1, <1>u DEF TypeOK
    <2>3. Fresh'
      BY Zenon, <2>1, <1>u DEF Fresh
    <2>4. OnePlace'
      BY Zenon, <2>1, <1>u DEF OnePlace
    <2>5. recv \in Nat /\ \A n \in Nat : OnItsWay(n)' => OnItsWay(n) /\ n # recv
      BY Zenon, <2>1, <1>u DEF OnItsWay, OnePlace, TypeOK
    <2>6. PICK w \in Callers : nonce[w] = recv /\ pc[w] = "wait"
      BY Zenon, <2>5, <1>u DEF Awaited, OnItsWay
    <2>7. \A c \in Callers : c # w => event'[c] = event[c]
      BY Zenon, <2>1, <2>5, <2>6, <1>u DEF Fresh, TypeOK
    <2>8. Awaited'
      BY Zenon, <2>1, <2>5, <2>6, <2>7, <1>u DEF Awaited
    <2>9. Replied'
      BY Zenon, <2>1, <2>5, <2>6, <2>7, <1>u DEF Replied
    <2> QED  BY Zenon, <2>2, <2>3, <2>4, <2>8, <2>9 DEF IInv
  <1>9. CASE ListenerDispatch
    <2>1. /\ listener = None /\ to_coordinator # <<>> /\ to_coordinator' = Tail(to_coordinator)
          /\ \/ listener' = Head(to_coordinator)
             \/ listener' = None
          /\ UNCHANGED <<pc, nonce, next_nonce, reply, event, to_monitor, recv, copied>>
      BY Zenon, <1>9 DEF ListenerDispatch, call
    <2>2. /\ to_coordinator' \in Seq(Message) /\ Distinct(to_coordinator')
          /\ Head(to_coordinator) \in Message
          /\ In(Head(to_coordinator), to_coordinator)
          /\ \A n : In(n, to_coordinator') => In(n, to_coordinator)
          /\ Head(to_coordinator) # Packet => ~In(Head(to_coordinator), to_coordinator')
      BY Zenon, <2>1, <1>u, Received DEF TypeOK, OnePlace
    <2>3. TypeOK' /\ Fresh'
      BY Zenon, <2>1, <2>2, <1>u DEF TypeOK, Fresh
    <2>4. OnePlace'
      BY Zenon, <2>1, <2>2, <1>u DEF OnePlace
    <2>5. \A n \in Nat : OnItsWay(n)' => OnItsWay(n)
      BY Zenon, <2>1, <2>2, <1>u DEF OnItsWay
    <2>6. Awaited' /\ Replied'
      BY Zenon, <2>1, <2>5, <1>u DEF Awaited, Replied
    <2> QED  BY Zenon, <2>3, <2>4, <2>6 DEF IInv
  <1>10. CASE send_cm \/ OtherTraffic
    <2>1. PICK m \in Message :
             /\ to_monitor' = Append(to_monitor, m)
             /\ \/ m = listener /\ listener' = None
                \/ m = Packet /\ listener' = listener
             /\ UNCHANGED <<pc, nonce, next_nonce, reply, event, to_coordinator, recv, copied>>
      BY Zenon, <1>10, <1>u DEF send_cm, OtherTraffic, call, TypeOK, Message
    <2>2. m = Packet \/ ~In(m, to_monitor)
      BY Zenon, <2>1, <1>u DEF OnePlace, Message
    <2>3. /\ to_monitor' \in Seq(Message) /\ Distinct(to_monitor')
          /\ \A n : In(n, to_monitor') <=> In(n, to_monitor) \/ n = m
      BY Zenon, <2>1, <2>2, <1>u, Sent DEF TypeOK, OnePlace
    <2>4. TypeOK' /\ Fresh'
      BY Zenon, <2>1, <2>3, <1>u DEF TypeOK, Fresh
    <2>5. OnePlace'
      BY Zenon, <2>1, <2>3, <1>u DEF OnePlace
    <2>6. \A n \in Nat : OnItsWay(n)' => OnItsWay(n)
      BY Zenon, <2>1, <2>3, <1>u DEF OnItsWay
    <2>7. Awaited' /\ Replied'
      BY Zenon, <2>1, <2>6, <1>u DEF Awaited, Replied
    <2> QED  BY Zenon, <2>4, <2>5, <2>7 DEF IInv
  <1>11. CASE UNCHANGED vars
    BY Zenon, <1>11, <1>u DEF vars, call, queues, IInv, TypeOK, Fresh,
       OnePlace, Awaited, Replied, OnItsWay
  <1> QED  BY Zenon, <1>1, <1>2, <1>3, <1>4, <1>5, <1>6, <1>7, <1>8, <1>9, <1>10, <1>11
           DEF Next, Caller, Recv

\* A caller returns with the reply to its own call, and the token the receive
\* thread delivers to still has its caller waiting (RPCToken.cpp:35-78).  This
\* needs no lock on rpc_table: a call's nonce is in one place at a time.
THEOREM RPCReplies == Spec => []ReplyReachesCaller
  <1>1. IInv => ReplyReachesCaller
    <2> SUFFICES ASSUME IInv PROVE ReplyReachesCaller
      BY Zenon
    <2>1. \A c \in Callers : pc[c] = "idle" => reply[c] = nonce[c]
      BY Zenon DEF IInv, Replied
    <2>2. recv # None => Waiting(recv)
      BY Zenon DEF IInv, TypeOK, Awaited, OnItsWay, Waiting
    <2> QED  BY Zenon, <2>1, <2>2 DEF ReplyReachesCaller
  <1> QED  BY InitIInv, NextIInv, <1>1, PTL DEF Spec

-----------------------------------------------------------------------------
(* The alarm. *)

\* The alarm thread was to sleep beyond the alarm that is set now.
Stale == ~expired /\ timeout > next_alarm

\* The alarm thread has seen the futex as it is or as it was before the
\* current call, and what the caller stores is more.
Counting == /\ sampled <= alarm_futex
            /\ \A s \in Setters : spc[s] = "store" => sum[s] = alarm_futex + 1

\* Before it sleeps on an old timeout, the futex has changed, or the caller is
\* still to change it; while it sleeps on it, the caller is still to wake it.
Poked == /\ apc = "evaluate" => expired
         /\ apc = "before_wait" /\ Stale =>
               sampled # alarm_futex \/ \E s \in Setters : spc[s] \in {"load", "store"}
         /\ apc = "asleep" /\ Stale => \E s \in Setters : spc[s] # "app"

AlarmIInv == Alarm!TypeOK /\ Counting /\ Poked

\* The alarm starts expired, and nobody sleeps (AlarmThread.cpp:11-22).
LEMMA AlarmInit == Alarm!Init => AlarmIInv
  BY AlarmAssumption DEF Alarm!Init, AlarmIInv, Alarm!TypeOK, Counting, Poked, Stale, Alarm!Never

\* A caller's steps, with the lock and without it (AlarmThread.cpp:24-42).
LEMMA SetterKeeps ==
    ASSUME AlarmIInv, NEW s \in Setters, Alarm!Call(s) \/ Alarm!SetterStep(s)
    PROVE  AlarmIInv'
<1> USE AlarmAssumption DEF AlarmIInv, Alarm!TypeOK, Counting, Poked, Stale, Alarm!Never,
        Alarm!avars, Alarm!svars
<1>1. CASE Alarm!Call(s)
  <2>1. PICK time \in 0..MaxTime : Alarm!SetAlarm(s, time)
    BY Zenon, <1>1 DEF Alarm!Call
  <2>2. Alarm!TypeOK'
    <3>1. calls[s] + 1 \in 0..MaxCalls
      BY <2>1 DEF Alarm!SetAlarm
    <3> QED
      BY Zenon, <2>1, <3>1 DEF Alarm!SetAlarm
  <2>3. Counting'
    BY Zenon, <2>1 DEF Alarm!SetAlarm
  <2>4. Poked'
    BY Zenon, <2>1 DEF Alarm!SetAlarm
  <2> QED
    BY Zenon, <2>2, <2>3, <2>4
<1>2. CASE Alarm!LoadFutex(s)
  BY <1>2 DEF Alarm!LoadFutex
<1>3. CASE Alarm!StoreFutex(s)
  BY <1>3 DEF Alarm!StoreFutex
<1>4. CASE Alarm!WakeFutex(s)
  BY Zenon, <1>4 DEF Alarm!WakeFutex
<1> QED
  BY Zenon, <1>1, <1>2, <1>3, <1>4 DEF Alarm!SetterStep

\* The steps of the alarm thread: a timeout that it chooses is not beyond the
\* alarm, because an alarm in the past is signalled instead
\* (AlarmThread.cpp:44-107).
LEMMA AlarmKeeps ==
    ASSUME AlarmIInv, Alarm!AlarmStep
    PROVE  AlarmIInv'
<1> USE AlarmAssumption DEF AlarmIInv, Alarm!TypeOK, Counting, Poked, Stale, Alarm!Never,
        Alarm!svars
<1>1. CASE Alarm!FirstEvaluate
  BY <1>1 DEF Alarm!FirstEvaluate, Alarm!Timeouts
<1>2. CASE Alarm!FutexWait
  BY Zenon, <1>2 DEF Alarm!FutexWait
<1>3. CASE Alarm!FutexTimeout
  BY Zenon, <1>3 DEF Alarm!FutexTimeout
<1>4. CASE Alarm!Evaluate
  <2>1. CASE ~expired /\ clock >= next_alarm
    BY <1>4, <2>1 DEF Alarm!Evaluate, Alarm!signal
  <2>2. CASE expired
    BY <1>4, <2>2 DEF Alarm!Evaluate, Alarm!Timeouts
  <2>3. CASE ~expired /\ ~(clock >= next_alarm)
    <3>1. timeout' = next_alarm
      BY <1>4, <2>3 DEF Alarm!Evaluate, Alarm!Timeouts
    <3> QED
      BY <1>4, <2>3, <3>1 DEF Alarm!Evaluate
  <2> QED
    BY Zenon, <2>1, <2>2, <2>3
<1> QED
  BY Zenon, <1>1, <1>2, <1>3, <1>4 DEF Alarm!AlarmStep

\* With one caller at a time, and after the alarm thread's first pass, the
\* futex does what the comment in run says: whenever the alarm thread sleeps
\* beyond a pending alarm, the caller that set it is still to poke it, for any
\* number of calls and any times (AlarmThread.cpp:57-64).
THEOREM AlarmNoOversleep == Alarm!Spec => []NoOversleep
<1>1. AlarmIInv /\ [Alarm!Next]_(Alarm!vars) => AlarmIInv'
  <2> SUFFICES ASSUME AlarmIInv, [Alarm!Next]_(Alarm!vars) PROVE AlarmIInv'
    BY Zenon
  <2>1. CASE Alarm!Tick
    BY <2>1, AlarmAssumption DEF Alarm!Tick, AlarmIInv, Alarm!TypeOK, Counting, Poked, Stale,
       Alarm!avars, Alarm!svars
  <2>2. CASE UNCHANGED Alarm!vars
    BY Zenon, <2>2 DEF Alarm!vars, AlarmIInv, Alarm!TypeOK, Counting, Poked, Stale,
       Alarm!avars, Alarm!svars
  <2> QED
    BY Zenon, <2>1, <2>2, SetterKeeps, AlarmKeeps DEF Alarm!Next
<1>2. AlarmIInv => NoOversleep
  BY Zenon DEF AlarmIInv, Poked, Stale, NoOversleep, Alarm!NoOversleep
<1> QED
  BY <1>1, <1>2, AlarmInit, PTL DEF Alarm!Spec
=============================================================================
