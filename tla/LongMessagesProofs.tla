------------------------- MODULE LongMessagesProofs -------------------------
(***************************************************************************)
(* For any number of apps and segments, and whatever the apps do: the      *)
(* reference count of a segment is the number of connected apps it is      *)
(* outstanding with; a segment in use is outstanding; which assertions can *)
(* fail, and when; and packets go where their headers said.                *)
(***************************************************************************)
EXTENDS LongMessages, FiniteSetTheorems, TLAPS

Owners(i) == {a \in Apps : i \in outstanding[a]}

\* The coordinator's part of TypeOK.
CoordinatorTypeOK == /\ connected \subseteq Apps
                     /\ outstanding \in [Apps -> SUBSET Ids]
                     /\ refs \in [Ids -> Nat]
                     /\ next_identity \in Nat \ {0}

\* Only a connected app has segments outstanding, only an allocated segment
\* is outstanding, and the count is right.
Counted == /\ \A a \in Apps \ connected : outstanding[a] = {}
           /\ \A a \in Apps, i \in Ids : i \in outstanding[a] => i < next_identity
           /\ \A i \in Ids : refs[i] = Cardinality(Owners(i))

IInv == CoordinatorTypeOK /\ Counted

\* A segment has finitely many owners, so they can be counted.
LEMMA OwnersFinite ==
    \A i \in Ids : IsFiniteSet(Owners(i)) /\ Cardinality(Owners(i)) \in Nat
  <1> TAKE i \in Ids
  <1>1. Owners(i) \subseteq Apps
    BY Zenon DEF Owners
  <1> QED
    BY Zenon, <1>1, LongAssumption, FS_Subset, FS_CardinalityType

\* Before the first allocation nothing is owned or counted.
LEMMA InitIInv == Init => IInv
<1> SUFFICES ASSUME Init PROVE IInv
  BY Zenon
<1>1. CoordinatorTypeOK
  BY DEF Init, CoordinatorTypeOK, Ids
<1>2. ASSUME NEW i \in Ids PROVE refs[i] = Cardinality(Owners(i))
  <2>1. Owners(i) = {}
    BY Zenon DEF Init, Owners
  <2> QED
    BY Zenon, <2>1, FS_EmptySet DEF Init
<1>3. Counted
  BY Zenon, <1>2 DEF Init, Counted
<1> QED
  BY Zenon, <1>1, <1>3 DEF IInv

\* One element more, as for an owner of a segment.
LEMMA CardinalityAdd ==
    ASSUME NEW S, IsFiniteSet(S), NEW x, x \notin S
    PROVE  Cardinality(S \cup {x}) = Cardinality(S) + 1
  BY Zenon, FS_AddElement

\* One element fewer.
LEMMA CardinalityDrop ==
    ASSUME NEW S, IsFiniteSet(S), NEW x \in S
    PROVE  Cardinality(S \ {x}) = Cardinality(S) - 1 /\ Cardinality(S) \in Nat \ {0}
<1>1. Cardinality(S) \in Nat
  BY Zenon, FS_CardinalityType
<1>2. Cardinality(S \ {x}) = Cardinality(S) - 1
  BY Zenon, FS_RemoveElement
<1>3. Cardinality(S) /= 0
  BY Zenon, FS_EmptySet
<1> QED
  BY Zenon, <1>1, <1>2, <1>3

\* send_cm keeps the count right if it was right before: deleting the App
\* drops exactly the references it had.
LEMMA SendCM ==
    ASSUME NEW d \in connected, NEW msg, IInv,
           NEW out \in [Apps -> SUBSET Ids], NEW r \in [Ids -> Nat],
           next_identity' \in Nat \ {0},
           \A a \in Apps \ connected : out[a] = {},
           \A a \in Apps, i \in Ids : i \in out[a] => i < next_identity',
           \A i \in Ids : r[i] = Cardinality({a \in Apps : i \in out[a]}),
           send_cm(d, msg, out, r)
    PROVE  IInv'
<1> DEFINE Own(i) == {a \in Apps : i \in out[a]}
<1>0. d \in Apps /\ connected \subseteq Apps
  BY Zenon DEF IInv, CoordinatorTypeOK
<1>1. CASE d \in alive
  <2>1. outstanding' = out /\ refs' = r /\ connected' = connected
    BY Zenon, <1>1 DEF send_cm
  <2>2. CoordinatorTypeOK'
    BY Zenon, <2>1, <1>0 DEF CoordinatorTypeOK
  <2>3. Counted'
    BY Zenon, <2>1 DEF Counted, Owners
  <2> QED
    BY Zenon, <2>2, <2>3 DEF IInv
<1>2. CASE d \notin alive
  <2>1. /\ connected' = connected \ {d}
        /\ outstanding' = [out EXCEPT ![d] = {}]
        /\ refs' = [i \in Ids |-> IF i \in out[d] THEN r[i] - 1 ELSE r[i]]
    BY Zenon, <1>2 DEF send_cm
  <2>2. ASSUME NEW i \in Ids
        PROVE  refs'[i] \in Nat /\ refs'[i] = Cardinality(Owners(i)')
    <3>1. IsFiniteSet(Own(i))
      <4>1. Own(i) \subseteq Apps
        BY Zenon
      <4> QED
        BY Zenon, <4>1, LongAssumption, FS_Subset
    <3>2. CASE i \in out[d]
      <4>1. Owners(i)' = Own(i) \ {d}
        BY Zenon, <2>1, <1>0 DEF Owners
      <4>2. d \in Own(i)
        BY Zenon, <3>2, <1>0
      <4>3. Cardinality(Own(i) \ {d}) = Cardinality(Own(i)) - 1
            /\ Cardinality(Own(i)) \in Nat \ {0}
        BY Zenon, <3>1, <4>2, CardinalityDrop
      <4>4. refs'[i] = Cardinality(Own(i)) - 1
        BY Zenon, <2>1, <3>2
      <4> QED
        BY <4>1, <4>3, <4>4
    <3>3. CASE i \notin out[d]
      <4>1. Owners(i)' = Own(i)
        BY Zenon, <2>1, <3>3, <1>0 DEF Owners
      <4>2. refs'[i] = r[i]
        BY Zenon, <2>1, <3>3
      <4> QED
        BY Zenon, <4>1, <4>2
    <3> QED
      BY Zenon, <3>2, <3>3
  <2>3. CoordinatorTypeOK'
    <3>1. refs' \in [Ids -> Nat]
      BY Zenon, <2>1, <2>2
    <3> QED
      BY Zenon, <2>1, <3>1, <1>0 DEF CoordinatorTypeOK
  <2>4. Counted'
    BY Zenon, <2>1, <2>2, <1>0 DEF Counted
  <2> QED
    BY Zenon, <2>3, <2>4 DEF IInv
<1> QED
  BY Zenon, <1>1, <1>2

\* alloc_long_message: the new segment has one owner, the app that asked.
LEMMA AllocStep == IInv /\ alloc_long_message => IInv'
<1> SUFFICES ASSUME IInv, alloc_long_message PROVE IInv'
  BY Zenon
<1> DEFINE d == Head(rendezvous).from
           n == next_identity
           out == [outstanding EXCEPT ![d] = @ \cup {n}]
           r == [refs EXCEPT ![n] = 1]
<1>1. CASE UNCHANGED coordinator
  BY Zenon, <1>1 DEF coordinator, IInv, CoordinatorTypeOK, Counted, Owners
<1>2. CASE /\ n <= MaxIds /\ d \in connected
           /\ next_identity' = n + 1
           /\ send_cm(d, [op |-> "alloc_reply", id |-> n], out, r)
  <2>1. n \in Ids /\ d \in Apps
    BY <1>2, LongAssumption DEF IInv, CoordinatorTypeOK, Ids
  <2>2. out \in [Apps -> SUBSET Ids] /\ r \in [Ids -> Nat]
    BY Zenon, <2>1 DEF IInv, CoordinatorTypeOK
  <2>3. \A a \in Apps \ connected : out[a] = {}
    BY Zenon, <1>2, <2>1 DEF IInv, CoordinatorTypeOK, Counted
  <2>4. n + 1 \in Nat \ {0}
    BY DEF IInv, CoordinatorTypeOK
  <2>5. \A a \in Apps, i \in Ids : i \in out[a] => i < n + 1
    BY <2>1, <2>4 DEF IInv, CoordinatorTypeOK, Counted, Ids
  <2>6. ASSUME NEW i \in Ids PROVE r[i] = Cardinality({a \in Apps : i \in out[a]})
    <3>1. CASE i = n
      <4>1. {a \in Apps : i \in out[a]} = {d}
        BY <3>1, <2>1 DEF IInv, CoordinatorTypeOK, Counted
      <4>2. Cardinality({d}) = 1
        BY Zenon, FS_Singleton
      <4> QED
        BY Zenon, <3>1, <4>1, <4>2 DEF IInv, CoordinatorTypeOK
    <3>2. CASE i /= n
      <4>1. {a \in Apps : i \in out[a]} = Owners(i)
        BY Zenon, <3>2, <2>1 DEF IInv, CoordinatorTypeOK, Owners
      <4> QED
        BY Zenon, <3>2, <4>1 DEF IInv, CoordinatorTypeOK, Counted
    <3> QED
      BY Zenon, <3>1, <3>2
  <2> HIDE DEF out, r
  <2> QED
    BY Zenon, <1>2, <2>2, <2>3, <2>4, <2>5, <2>6, SendCM
<1>3. n > MaxIds \/ n <= MaxIds
  BY LongAssumption DEF IInv, CoordinatorTypeOK
<1>4. CASE n > MaxIds \/ d \notin connected
  BY Zenon, <1>1, <1>4 DEF alloc_long_message, Fail
<1>5. CASE n <= MaxIds /\ d \in connected
  <2>1. ~(n > MaxIds)
    BY <1>5, LongAssumption DEF IInv, CoordinatorTypeOK
  <2> QED
    BY Zenon, <1>2, <1>5, <2>1 DEF alloc_long_message
<1> QED
  BY Zenon, <1>3, <1>4, <1>5

\* deliver_packet_long: the receiver was not an owner, and becomes one.
LEMMA RouteStep ==
    ASSUME IInv, RoutePacket, Head(rendezvous).id \in Ids
    PROVE  IInv'
<1> DEFINE i == Head(rendezvous).id
           d == header[i]
           out == [outstanding EXCEPT ![d] = @ \cup {i}]
           r == [refs EXCEPT ![i] = @ + 1]
<1>1. CASE UNCHANGED coordinator
  BY Zenon, <1>1 DEF coordinator, IInv, CoordinatorTypeOK, Counted, Owners
<1>2. CASE /\ refs[i] /= 0 /\ d \in connected /\ i \notin outstanding[d]
           /\ next_identity' = next_identity
           /\ send_cm(d, [op |-> "packet", id |-> i], out, r)
  <2>1. d \in Apps /\ i \in Ids
    BY Zenon, <1>2 DEF IInv, CoordinatorTypeOK
  <2>2. out \in [Apps -> SUBSET Ids] /\ r \in [Ids -> Nat]
    BY <2>1 DEF IInv, CoordinatorTypeOK
  <2>3. \A a \in Apps \ connected : out[a] = {}
    BY Zenon, <1>2, <2>1 DEF IInv, CoordinatorTypeOK, Counted
  <2>4. i < next_identity
    \* somebody owns the segment, since its count is not 0
    <3>1. Owners(i) /= {}
      BY Zenon, <1>2, <2>1, FS_EmptySet DEF IInv, Counted
    <3> QED
      BY Zenon, <3>1, <2>1 DEF IInv, Counted, Owners
  <2>5. \A a \in Apps, j \in Ids : j \in out[a] => j < next_identity
    BY Zenon, <2>1, <2>4 DEF IInv, CoordinatorTypeOK, Counted
  <2>6. ASSUME NEW j \in Ids PROVE r[j] = Cardinality({a \in Apps : j \in out[a]})
    <3>1. CASE j = i
      <4>1. {a \in Apps : j \in out[a]} = Owners(i) \cup {d} /\ d \notin Owners(i)
        BY Zenon, <3>1, <1>2, <2>1 DEF IInv, CoordinatorTypeOK, Owners
      <4>2. Cardinality(Owners(i) \cup {d}) = Cardinality(Owners(i)) + 1
        BY Zenon, <4>1, <2>1, OwnersFinite, CardinalityAdd
      <4>3. r[j] = Cardinality(Owners(i)) + 1
        BY Zenon, <3>1, <2>1 DEF IInv, CoordinatorTypeOK, Counted
      <4> QED
        BY Zenon, <4>1, <4>2, <4>3
    <3>2. CASE j /= i
      <4>1. {a \in Apps : j \in out[a]} = Owners(j)
        BY Zenon, <3>2, <2>1 DEF IInv, CoordinatorTypeOK, Owners
      <4> QED
        BY Zenon, <3>2, <4>1, <2>1 DEF IInv, CoordinatorTypeOK, Counted
    <3> QED
      BY Zenon, <3>1, <3>2
  <2>7. next_identity' \in Nat \ {0}
    BY Zenon, <1>2 DEF IInv, CoordinatorTypeOK
  <2> HIDE DEF out, r
  <2> QED
    BY <1>2, <2>2, <2>3, <2>5, <2>6, <2>7, SendCM
<1> QED
  BY Zenon, <1>1, <1>2 DEF RoutePacket, Forward, Fail, coordinator

\* free_long_message: one owner and one reference fewer.
LEMMA FreeStep == IInv /\ free_long_message => IInv'
<1> SUFFICES ASSUME IInv, free_long_message PROVE IInv'
  BY Zenon
<1> DEFINE a == Head(rendezvous).from
           i == Head(rendezvous).id
<1>1. CASE UNCHANGED coordinator
  BY Zenon, <1>1 DEF coordinator, IInv, CoordinatorTypeOK, Counted, Owners
<1>2. CASE /\ a \in connected /\ i \in outstanding[a]
           /\ outstanding' = [outstanding EXCEPT ![a] = @ \ {i}]
           /\ refs' = [refs EXCEPT ![i] = @ - 1]
           /\ UNCHANGED <<connected, next_identity>>
  <2>1. a \in Apps /\ i \in Ids
    BY Zenon, <1>2 DEF IInv, CoordinatorTypeOK
  <2>2. ASSUME NEW j \in Ids
        PROVE  refs'[j] \in Nat /\ refs'[j] = Cardinality(Owners(j)')
    <3>1. CASE j = i
      <4>1. Owners(j)' = Owners(i) \ {a} /\ a \in Owners(i)
        BY Zenon, <3>1, <1>2, <2>1 DEF IInv, CoordinatorTypeOK, Owners
      <4>2. Cardinality(Owners(i) \ {a}) = Cardinality(Owners(i)) - 1
            /\ Cardinality(Owners(i)) \in Nat \ {0}
        BY Zenon, <4>1, <2>1, OwnersFinite, CardinalityDrop
      <4>3. refs'[j] = Cardinality(Owners(i)) - 1
        BY Zenon, <3>1, <1>2, <2>1 DEF IInv, CoordinatorTypeOK, Counted
      <4> QED
        BY <4>1, <4>2, <4>3
    <3>2. CASE j /= i
      <4>1. Owners(j)' = Owners(j)
        BY Zenon, <3>2, <1>2, <2>1 DEF IInv, CoordinatorTypeOK, Owners
      <4>2. refs'[j] = refs[j]
        BY Zenon, <3>2, <1>2, <2>1 DEF IInv, CoordinatorTypeOK
      <4> QED
        BY Zenon, <4>1, <4>2 DEF IInv, CoordinatorTypeOK, Counted
    <3> QED
      BY Zenon, <3>1, <3>2
  <2>3. CoordinatorTypeOK'
    <3>1. refs' \in [Ids -> Nat]
      BY Zenon, <1>2, <2>1, <2>2 DEF IInv, CoordinatorTypeOK
    <3> QED
      BY Zenon, <1>2, <2>1, <3>1 DEF IInv, CoordinatorTypeOK
  <2>4. Counted'
    BY Zenon, <1>2, <2>1, <2>2 DEF IInv, CoordinatorTypeOK, Counted
  <2> QED
    BY Zenon, <2>3, <2>4 DEF IInv
<1> QED
  BY Zenon, <1>1, <1>2 DEF free_long_message, Fail

\* A packet names a segment, and so does its release.
Messages == [op : {"alloc"}, from : Apps, id : {0}, dest : Apps]
            \cup [op : {"packet", "free"}, from : Apps, id : Ids, dest : Apps]

QueueOK == rendezvous \in Seq(Messages)

\* Monitors send packets only about segments that exist.
LEMMA QueueStep == QueueOK /\ [Next]_vars => QueueOK'
<1> SUFFICES ASSUME rendezvous \in Seq(Messages), [Next]_vars
             PROVE  rendezvous' \in Seq(Messages)
  BY Zenon DEF QueueOK
<1>1. ASSUME NEW op, NEW a \in Apps, NEW i, NEW d \in Apps, Send(op, a, i, d),
             \/ op = "alloc" /\ i = 0
             \/ op \in {"packet", "free"} /\ i \in Ids
      PROVE  rendezvous' \in Seq(Messages)
  <2>1. [op |-> op, from |-> a, id |-> i, dest |-> d] \in Messages
    BY Zenon, <1>1 DEF Messages
  <2> QED
    BY <1>1, <2>1 DEF Send
<1>2. ASSUME NEW op, Dispatch(op) PROVE rendezvous' \in Seq(Messages)
  BY <1>2 DEF Dispatch
<1>3. ASSUME NEW a \in Apps, alloc_net_buffer(a) PROVE rendezvous' \in Seq(Messages)
  BY Zenon, <1>1, <1>3 DEF alloc_net_buffer
<1>4. ASSUME NEW a \in Apps, NEW i \in Ids, NEW d \in Apps, NEW release \in BOOLEAN,
             send_net_buffer(a, i, d, release)
      PROVE  rendezvous' \in Seq(Messages)
  BY Zenon, <1>1, <1>4 DEF send_net_buffer
<1>5. ASSUME NEW a \in Apps, NEW i \in Ids, _free_net_buffer(a, i)
      PROVE  rendezvous' \in Seq(Messages)
  BY Zenon, <1>1, <1>5 DEF _free_net_buffer
<1>6. ASSUME NEW a \in Apps, NEW i \in Ids, free_net_buffer(a, i) \/ receive_net_buffer(a, i)
      PROVE  rendezvous' \in Seq(Messages)
  BY Zenon, <1>6 DEF free_net_buffer, receive_net_buffer
<1>7. ASSUME NEW a \in Apps, AllocReply(a) \/ deliver_packet_long(a) \/ Exit(a) \/ AppGone(a)
      PROVE  rendezvous' \in Seq(Messages)
  BY Zenon, <1>7 DEF AllocReply, deliver_packet_long, Exit, AppGone
<1>8. CASE alloc_long_message \/ RoutePacket \/ free_long_message
  BY Zenon, <1>2, <1>8 DEF alloc_long_message, RoutePacket, free_long_message
<1>9. CASE UNCHANGED vars
  BY Zenon, <1>9 DEF vars
<1> QED
  BY Zenon, <1>3, <1>4, <1>5, <1>6, <1>7, <1>8, <1>9 DEF Next

\* Only the handlers of the coordinator touch what the invariant is about.
LEMMA NextIInv == QueueOK /\ IInv /\ [Next]_vars => IInv'
<1> SUFFICES ASSUME rendezvous \in Seq(Messages), IInv, [Next]_vars PROVE IInv'
  BY Zenon DEF QueueOK
<1>1. ASSUME UNCHANGED coordinator PROVE IInv'
  BY Zenon, <1>1 DEF coordinator, IInv, CoordinatorTypeOK, Counted, Owners
<1>2. ASSUME NEW a \in Apps,
             alloc_net_buffer(a) \/ AllocReply(a) \/ deliver_packet_long(a) \/ Exit(a)
      PROVE  IInv'
  BY Zenon, <1>1, <1>2 DEF alloc_net_buffer, AllocReply, deliver_packet_long, Exit
<1>3. ASSUME NEW a \in Apps, NEW i \in Ids,
             \/ \E d \in Apps \ {a}, release \in BOOLEAN : send_net_buffer(a, i, d, release)
             \/ _free_net_buffer(a, i) \/ free_net_buffer(a, i) \/ receive_net_buffer(a, i)
      PROVE  IInv'
  BY Zenon, <1>1, <1>3 DEF send_net_buffer, _free_net_buffer, free_net_buffer,
     receive_net_buffer
<1>4. ASSUME NEW a \in Apps, AppGone(a) PROVE IInv'
  <2>1. a \in connected /\ next_identity' = next_identity
        /\ send_cm(a, [op |-> "packet", id |-> 0], outstanding, refs)
    BY Zenon, <1>4 DEF AppGone
  <2>2. \A i \in Ids : refs[i] = Cardinality({b \in Apps : i \in outstanding[b]})
    BY Zenon DEF IInv, Counted, Owners
  <2>3. /\ outstanding \in [Apps -> SUBSET Ids] /\ refs \in [Ids -> Nat]
        /\ next_identity' \in Nat \ {0}
        /\ \A b \in Apps \ connected : outstanding[b] = {}
        /\ \A b \in Apps, i \in Ids : i \in outstanding[b] => i < next_identity'
    BY Zenon, <2>1 DEF IInv, CoordinatorTypeOK, Counted
  <2> QED
    BY Zenon, <2>1, <2>2, <2>3, SendCM
<1>5. CASE RoutePacket
  <2>1. Head(rendezvous) \in Messages /\ Head(rendezvous).op = "packet"
    BY <1>5 DEF RoutePacket, Dispatch
  <2>2. Head(rendezvous).id \in Ids
    BY Zenon, <2>1 DEF Messages
  <2> QED
    BY Zenon, <1>5, <2>2, RouteStep
<1>6. CASE alloc_long_message
  BY Zenon, <1>6, AllocStep
<1>7. CASE free_long_message
  BY Zenon, <1>7, FreeStep
<1>8. CASE UNCHANGED vars
  BY Zenon, <1>1, <1>8 DEF vars, coordinator
<1> QED
  BY Zenon, <1>2, <1>3, <1>4, <1>5, <1>6, <1>7, <1>8 DEF Next

\* The reference count of a segment is always the number of connected apps it
\* is outstanding with, through allocation, sending on, freeing and the
\* deletion of an App whose monitor is gone.
THEOREM LongMessagesRefs == Spec => []RefsAreOwners
<1>1. Init => QueueOK
  BY DEF Init, QueueOK
<1>2. IInv => RefsAreOwners
  <2> SUFFICES ASSUME IInv, NEW i \in Ids
               PROVE  refs[i] = Cardinality({a \in connected : i \in outstanding[a]})
    BY Zenon DEF RefsAreOwners
  <2>1. {a \in connected : i \in outstanding[a]} = Owners(i)
    BY Zenon DEF IInv, CoordinatorTypeOK, Counted, Owners
  <2> QED
    BY Zenon, <2>1 DEF IInv, Counted
<1> QED
  BY <1>1, <1>2, InitIInv, NextIInv, QueueStep, PTL DEF Spec

-----------------------------------------------------------------------------
\* The monitors' part of TypeOK.
Letters == [op : {"alloc_reply", "packet"}, id : Ids]
MonitorTypeOK == /\ header \in [Ids -> Apps \cup {0}]
                 /\ inbox \in [Apps -> Seq(Letters)]
                 /\ alive \subseteq Apps
                 /\ buffer \in [Apps -> [Ids -> BufferStates]]
                 /\ mine \in [Apps -> SUBSET Ids]
                 /\ kept \subseteq Ids /\ passed_on \subseteq Ids

\* What is at the places of a queue after a send, and after a receive.
LEMMA AppendAt ==
    ASSUME NEW S, NEW s \in Seq(S), NEW m \in S, NEW k \in DOMAIN Append(s, m)
    PROVE  /\ k \in Nat \ {0}
           /\ \/ k \in DOMAIN s /\ Append(s, m)[k] = s[k] /\ k <= Len(s)
              \/ k = Len(s) + 1 /\ Append(s, m)[k] = m
  OBVIOUS

LEMMA TailAt ==
    ASSUME NEW S, NEW s \in Seq(S), s # <<>>
    PROVE  /\ 1 \in DOMAIN s /\ Head(s) = s[1] /\ s[1] \in S
           /\ Tail(s) \in Seq(S)
           /\ \A k \in DOMAIN Tail(s) : /\ k \in Nat \ {0} /\ k + 1 \in DOMAIN s
                                        /\ Tail(s)[k] = s[k + 1]
<1>1. Len(s) \in Nat \ {0} /\ DOMAIN s = 1..Len(s)
  OBVIOUS
<1>2. Tail(s) \in Seq(S) /\ Len(Tail(s)) = Len(s) - 1
  BY <1>1
<1>3. DOMAIN Tail(s) = 1..(Len(s) - 1)
  BY <1>2
<1>4. ASSUME NEW k \in 1..(Len(s) - 1) PROVE Tail(s)[k] = s[k + 1]
  BY <1>1
<1> QED
  BY <1>1, <1>2, <1>3, <1>4

\* send_cm leaves the inboxes typed.
LEMMA LettersStep ==
    ASSUME MonitorTypeOK, NEW a \in Apps, NEW m, m \in Letters \/ a \notin alive,
           NEW out, NEW r, send_cm(a, m, out, r)
    PROVE  inbox' \in [Apps -> Seq(Letters)]
<1>1. CASE a \in alive
  <2>1. inbox' = [inbox EXCEPT ![a] = Append(@, m)]
    BY Zenon, <1>1 DEF send_cm
  <2>2. Append(inbox[a], m) \in Seq(Letters)
    BY <1>1 DEF MonitorTypeOK
  <2> QED
    BY Zenon, <2>1, <2>2 DEF MonitorTypeOK
<1>2. CASE a \notin alive
  BY Zenon, <1>2 DEF MonitorTypeOK, send_cm
<1> QED
  BY Zenon, <1>1, <1>2

\* The letter a monitor takes from its inbox.
LEMMA HeadLetter ==
    ASSUME MonitorTypeOK, NEW a \in Apps, inbox[a] # <<>>
    PROVE  /\ Head(inbox[a]).id \in Ids /\ Tail(inbox[a]) \in Seq(Letters)
           /\ 1 \in DOMAIN inbox[a] /\ Head(inbox[a]) = inbox[a][1]
           /\ \A k \in DOMAIN Tail(inbox[a]) : /\ k \in Nat \ {0} /\ k + 1 \in DOMAIN inbox[a]
                                               /\ Tail(inbox[a])[k] = inbox[a][k + 1]
<1>1. inbox[a] \in Seq(Letters)
  BY Zenon DEF MonitorTypeOK
<1>2. Head(inbox[a]) \in Letters
  BY <1>1, TailAt
<1>3. Head(inbox[a]).id \in Ids
  BY Zenon, <1>2 DEF Letters
<1> QED
  BY <1>1, <1>3, TailAt

\* The types of what the monitors have, for any step.
LEMMA MonitorType ==
    QueueOK /\ IInv /\ MonitorTypeOK /\ [Next]_vars => MonitorTypeOK'
<1> SUFFICES ASSUME rendezvous \in Seq(Messages), IInv, MonitorTypeOK, [Next]_vars
             PROVE  MonitorTypeOK'
  BY Zenon DEF QueueOK
<1>0. connected \subseteq Apps
  BY Zenon DEF IInv, CoordinatorTypeOK
<1> USE DEF MonitorTypeOK
<1>1. ASSUME NEW a \in Apps, alloc_net_buffer(a) PROVE MonitorTypeOK'
  BY Zenon, <1>1 DEF alloc_net_buffer, history
<1>2. ASSUME NEW a \in Apps, AllocReply(a) PROVE MonitorTypeOK'
  <2>1. Head(inbox[a]).id \in Ids /\ Tail(inbox[a]) \in Seq(Letters)
    BY Zenon, <1>2, HeadLetter DEF AllocReply
  <2> QED
    BY <1>2, <2>1 DEF AllocReply, Received, Buffer, history, BufferStates
<1>3. ASSUME NEW a \in Apps, deliver_packet_long(a) PROVE MonitorTypeOK'
  <2>1. Head(inbox[a]).id \in Ids /\ Tail(inbox[a]) \in Seq(Letters)
    BY Zenon, <1>3, HeadLetter DEF deliver_packet_long
  <2>2. inbox' \in [Apps -> Seq(Letters)]
    BY Zenon, <1>3, <2>1 DEF deliver_packet_long, Received
  <2>3. buffer' \in [Apps -> [Ids -> BufferStates]]
    <3>1. CASE UNCHANGED buffer
      BY Zenon, <3>1
    <3>2. CASE Buffer(a, Head(inbox[a]).id, "queued")
      BY Zenon, <2>1, <3>2 DEF Buffer, BufferStates
    <3> QED
      BY Zenon, <1>3, <3>1, <3>2 DEF deliver_packet_long
  <2> QED
    BY Zenon, <1>3, <2>2, <2>3 DEF deliver_packet_long, history
<1>4. ASSUME NEW a \in Apps, Exit(a) PROVE MonitorTypeOK'
  BY <1>4 DEF Exit, history, BufferStates
<1>5. ASSUME NEW a \in Apps, AppGone(a) PROVE MonitorTypeOK'
  BY Zenon, <1>5, LettersStep DEF AppGone, monitors, history
<1>6. ASSUME NEW a \in Apps, NEW i \in Ids, NEW d \in Apps, NEW release \in BOOLEAN,
             send_net_buffer(a, i, d, release)
      PROVE  MonitorTypeOK'
  BY Zenon, <1>6 DEF send_net_buffer, Used, Buffer, BufferStates
<1>7. ASSUME NEW a \in Apps, NEW i \in Ids,
             _free_net_buffer(a, i) \/ free_net_buffer(a, i) \/ receive_net_buffer(a, i)
      PROVE  MonitorTypeOK'
  <2>1. CASE _free_net_buffer(a, i)
    BY Zenon, <2>1 DEF _free_net_buffer, Buffer, history, BufferStates
  <2>2. CASE free_net_buffer(a, i)
    BY Zenon, <2>2 DEF free_net_buffer, Buffer, history, BufferStates
  <2>3. CASE receive_net_buffer(a, i)
    BY Zenon, <2>3 DEF receive_net_buffer, Buffer, history, BufferStates
  <2> QED
    BY Zenon, <1>7, <2>1, <2>2, <2>3
<1>8. CASE alloc_long_message
  <2>1. CASE UNCHANGED inbox
    BY Zenon, <1>8, <2>1 DEF alloc_long_message, Dispatch, monitors, history
  <2>2. CASE /\ Head(rendezvous).from \in connected /\ ~(next_identity > MaxIds)
             /\ ~UNCHANGED inbox
    <3>1. [op |-> "alloc_reply", id |-> next_identity] \in Letters
      BY <2>2, LongAssumption DEF Letters, Ids, IInv, CoordinatorTypeOK
    <3> QED
      BY Zenon, <1>8, <2>2, <3>1, <1>0, LettersStep DEF alloc_long_message,
         Dispatch, monitors, history
  <2> QED
    BY Zenon, <1>8, <2>1, <2>2 DEF alloc_long_message, Fail
<1>9. CASE RoutePacket
  <2>1. CASE UNCHANGED inbox
    BY Zenon, <1>9, <2>1 DEF RoutePacket, Dispatch, monitors, history
  <2>2. CASE ~UNCHANGED inbox
    <3> DEFINE i == Head(rendezvous).id
    <3>1. i \in Ids
      BY <1>9, TailAt DEF RoutePacket, Dispatch, Messages
    <3>2. [op |-> "packet", id |-> i] \in Letters
      BY Zenon, <3>1 DEF Letters
    <3> QED
      BY Zenon, <1>9, <2>2, <3>1, <3>2, <1>0, LettersStep
         DEF RoutePacket, Forward, Fail, Dispatch, monitors, history
  <2> QED
    BY Zenon, <2>1, <2>2
<1>10. CASE free_long_message
  BY Zenon, <1>10 DEF free_long_message, Fail, Dispatch, monitors, history
<1>11. CASE UNCHANGED vars
  BY Zenon, <1>11 DEF vars
<1> QED
  BY <1>1, <1>2, <1>3, <1>4, <1>5, <1>6, <1>7, <1>8, <1>9, <1>10, <1>11 DEF Next

\* What is in an inbox is about segments.
LEMMA InboxIds ==
    MonitorTypeOK => \A a \in Apps : \A k \in DOMAIN inbox[a] : inbox[a][k].id \in Ids
<1> SUFFICES ASSUME MonitorTypeOK, NEW a \in Apps, NEW k \in DOMAIN inbox[a]
             PROVE  inbox[a][k].id \in Ids
  BY Zenon
<1>1. inbox[a] \in Seq(Letters)
  BY Zenon DEF MonitorTypeOK
<1>2. inbox[a][k] \in Letters
  BY <1>1
<1> QED
  BY Zenon, <1>2 DEF Letters

\* What is in a packet for the coordinator.
LEMMA PacketIds ==
    QueueOK => \A k \in DOMAIN rendezvous :
                  /\ rendezvous[k].from \in Apps
                  /\ rendezvous[k].op \in {"packet", "free"} => rendezvous[k].id \in Ids
<1> SUFFICES ASSUME QueueOK, NEW k \in DOMAIN rendezvous
             PROVE  /\ rendezvous[k].from \in Apps
                    /\ rendezvous[k].op \in {"packet", "free"} => rendezvous[k].id \in Ids
  BY Zenon
<1>1. rendezvous[k] \in Messages
  BY DEF QueueOK
<1> QED
  BY Zenon, <1>1 DEF Messages

-----------------------------------------------------------------------------
(* Where a segment is.  All of this is about a system nothing has failed in. *)

\* Segment i is on its way to app a, or with it and not yet sent; or with it.
InInbox(a, i) == \E k \in DOMAIN inbox[a] : inbox[a][k].id = i
Held(a, i) == buffer[a][i] \in {"queued", "held"} \/ InInbox(a, i)
Has(a, i) == buffer[a][i] = "sent" \/ Held(a, i)

\* The k-th message for the coordinator is this operation of app a on segment i.
Sent(k, op, a, i) == /\ rendezvous[k].op = op
                     /\ rendezvous[k].from = a /\ rendezvous[k].id = i

\* A running app has a segment once: in its inbox or in its tables, and not
\* any more when it has told the coordinator so, which it does once, and after
\* all it had to send of it.
Once == \A a \in alive :
    /\ \A k, l \in DOMAIN inbox[a] : inbox[a][k].id = inbox[a][l].id => k = l
    /\ \A k \in DOMAIN inbox[a] :
          buffer[a][inbox[a][k].id] \notin {"queued", "held", "sent"}
    /\ \A i \in Ids : \A l \in DOMAIN rendezvous : Sent(l, "free", a, i) =>
          /\ ~Has(a, i)
          /\ \A k \in DOMAIN rendezvous : Sent(k, "free", a, i) => k = l
          /\ \A k \in DOMAIN rendezvous : Sent(k, "packet", a, i) => k < l

\* The coordinator knows of every segment a running app has, and of those it
\* has sent messages about.
Known == \A a \in alive : \A i \in Ids :
    \/ Has(a, i)
    \/ \E k \in DOMAIN rendezvous : Sent(k, "packet", a, i) \/ Sent(k, "free", a, i)
    => i \in outstanding[a]

\* Nobody has a segment before it is allocated, and no app is deleted that
\* runs; packets go to another app; what an app allocated itself it has not
\* received.
Allocated ==
    /\ alive \subseteq connected
    /\ \A a \in alive : \A i \in Ids : buffer[a][i] # "absent" => i < next_identity
    /\ \A a \in alive : \A i \in mine[a] : buffer[a][i] \notin {"absent", "queued"}
    /\ \A k \in DOMAIN rendezvous : rendezvous[k].op = "packet" =>
          rendezvous[k].id < next_identity /\ rendezvous[k].dest # rendezvous[k].from

\* A segment that was always released when it was sent is in one place: with
\* one app that can send it, or in one packet, whose destination is the one its
\* header still says.
Routed == \A i \in Ids \ kept :
    /\ \A a, b \in alive : Held(a, i) /\ Held(b, i) => a = b
    /\ \A k \in DOMAIN rendezvous : rendezvous[k].op = "packet" /\ rendezvous[k].id = i =>
          /\ \A l \in DOMAIN rendezvous :
                rendezvous[l].op = "packet" /\ rendezvous[l].id = i => k = l
          /\ \A a \in alive : ~Held(a, i)
          /\ header[i] = rendezvous[k].dest

\* The app has the segment it allocated and has not sent it.
Unsent(a, i) == \/ buffer[a][i] = "held" /\ i \in mine[a]
                \/ \E k \in DOMAIN inbox[a] : /\ inbox[a][k].op = "alloc_reply"
                                              /\ inbox[a][k].id = i

\* No app but a has, or had, the segment.
OnlyOf(a, i) == \A b \in Apps \ {a} : /\ i \notin outstanding[b]
                                      /\ b \in alive => buffer[b][i] = "absent"

\* While apps release what they send, and send only what they allocated, a
\* segment is only its sender's until the coordinator passes it on.
FirstHand ==
    /\ \A a \in alive : \A i \in Ids : Unsent(a, i) => OnlyOf(a, i)
    /\ \A k \in DOMAIN rendezvous : rendezvous[k].op = "packet"
          => OnlyOf(rendezvous[k].from, rendezvous[k].id)
    /\ \A a \in alive : \A k \in DOMAIN inbox[a] : buffer[a][inbox[a][k].id] = "absent"

Places == /\ Once /\ Known /\ Allocated /\ Routed
          /\ kept \cup passed_on = {} => FirstHand

Typed == QueueOK /\ IInv /\ MonitorTypeOK

\* The queue after a message m was sent.
Sends(m) == \A k \in DOMAIN rendezvous' :
    /\ k \in Nat \ {0}
    /\ \/ k \in DOMAIN rendezvous /\ k <= Len(rendezvous) /\ rendezvous'[k] = rendezvous[k]
       \/ k = Len(rendezvous) + 1 /\ rendezvous'[k] = m

\* send_net_buffer, a packet sent and perhaps the buffer given up
\* (linux_kvm monitor).
LEMMA SendPlaces ==
    ASSUME Typed, Places, NEW a \in Apps, NEW i \in Ids, NEW d \in Apps \ {a},
           NEW release \in BOOLEAN, send_net_buffer(a, i, d, release)
    PROVE  Places'
<1> DEFINE m == [op |-> "packet", from |-> a, id |-> i, dest |-> d]
<1>1. a \in alive /\ buffer[a][i] = "held"
  BY Zenon DEF send_net_buffer, Running
<1>2. /\ m.op = "packet" /\ m.from = a /\ m.id = i /\ m.dest = d
      /\ Sends(m) /\ Len(rendezvous) \in Nat
      /\ \A k \in DOMAIN rendezvous : k \in Nat /\ k <= Len(rendezvous)
  <2>1. m \in Messages /\ rendezvous \in Seq(Messages)
    BY Zenon DEF Messages, Typed, QueueOK
  <2>2. rendezvous' = Append(rendezvous, m)
    BY Zenon DEF send_net_buffer, Send
  <2> HIDE DEF m
  <2>3. Sends(m)
    BY <2>1, <2>2, AppendAt DEF Sends
  <2> QED
    BY <2>1, <2>3 DEF m
<1> HIDE DEF m
<1>3. \A b \in Apps, j \in Ids :
         /\ (b # a \/ j # i) => buffer'[b][j] = buffer[b][j]
         /\ buffer'[a][i] = IF release THEN "sent" ELSE "held"
  BY Zenon DEF send_net_buffer, Buffer, Typed, MonitorTypeOK
<1>4. UNCHANGED <<connected, outstanding, refs, next_identity, inbox, alive, mine>>
  BY Zenon DEF send_net_buffer, coordinator
<1>5. alive \subseteq Apps /\ \A b \in Apps : \A k \in DOMAIN inbox[b] : inbox[b][k].id \in Ids
  BY Zenon, InboxIds DEF Typed, MonitorTypeOK
<1>6. \A b \in Apps, j \in Ids : Has(b, j)' => Has(b, j)
  BY Zenon, <1>1, <1>3, <1>4 DEF Has, Held, InInbox
<1>7. \A b \in Apps, j \in Ids : Held(b, j)' => Held(b, j)
  BY Zenon, <1>1, <1>3, <1>4 DEF Held, InInbox
<1>8. Has(a, i) /\ Held(a, i)
  BY ZenonT(40), <1>1 DEF Has, Held
<1>9. Once'
  BY SMTT(30), <1>1, <1>2, <1>3, <1>4, <1>5, <1>6, <1>8 DEF Once, Places, Sends, Sent
<1>10. Known'
  BY <1>2, <1>4, <1>5, <1>6, <1>8, <1>1 DEF Known, Places, Sends, Sent
<1>11. Allocated'
  <2>1. d # a /\ i < next_identity
    BY Zenon, <1>1 DEF Allocated, Places
  <2>2. \A b \in alive : \A j \in mine[b] : j \in Ids
    BY Zenon DEF Typed, MonitorTypeOK
  <2>3. \A b \in alive' : \A j \in mine'[b] : buffer'[b][j] \notin {"absent", "queued"}
    BY <1>3, <1>4, <1>5, <2>2 DEF Allocated, Places
  <2>4. \A b \in alive' : \A j \in Ids : buffer'[b][j] # "absent" => j < next_identity'
    BY <1>3, <1>4, <1>5, <2>1 DEF Allocated, Places
  <2> QED
    BY Zenon, <1>2, <1>4, <2>1, <2>3, <2>4 DEF Allocated, Places, Sends
<1>12. Routed'
  <2> SUFFICES ASSUME NEW j \in Ids \ kept'
               PROVE  /\ \A b, c \in alive : Held(b, j)' /\ Held(c, j)' => b = c
                      /\ \A k \in DOMAIN rendezvous' :
                            rendezvous'[k].op = "packet" /\ rendezvous'[k].id = j =>
                            /\ \A l \in DOMAIN rendezvous' :
                                  rendezvous'[l].op = "packet" /\ rendezvous'[l].id = j => k = l
                            /\ \A b \in alive : ~Held(b, j)'
                            /\ header'[j] = rendezvous'[k].dest
    BY Zenon, <1>4 DEF Routed
  <2>1. j \in Ids \ kept /\ (j = i => release)
    BY Zenon DEF send_net_buffer, Used
  <2>2. j # i => header'[j] = header[j]
    BY Zenon DEF send_net_buffer, Typed, MonitorTypeOK
  <2>3. CASE j # i
    BY <1>2, <1>4, <1>5, <1>7, <2>1, <2>2, <2>3 DEF Routed, Places, Sends
  <2>4. CASE j = i
    <3>1. header'[i] = d
      BY Zenon DEF send_net_buffer, Typed, MonitorTypeOK
    <3>2. \A b \in alive : b # a => ~Held(b, i)
      BY Zenon, <1>1, <1>8, <2>1, <2>4 DEF Routed, Places
    <3>3. \A k \in DOMAIN rendezvous : ~(rendezvous[k].op = "packet" /\ rendezvous[k].id = i)
      BY Zenon, <1>1, <1>8, <2>1, <2>4 DEF Routed, Places
    <3>4. ~Held(a, i)'
      <4>1. buffer'[a][i] = "sent"
        BY Zenon, <1>3, <2>1, <2>4
      <4>2. ~InInbox(a, i)
        BY Zenon, <1>1 DEF Once, Places, InInbox
      <4> QED
        BY Zenon, <4>1, <4>2, <1>4 DEF Held, InInbox
    <3> QED
      BY Zenon, <1>2, <1>5, <1>7, <2>4, <3>1, <3>2, <3>3, <3>4 DEF Sends
  <2> QED
    BY Zenon, <2>3, <2>4
<1>13. ASSUME kept' \cup passed_on' = {} PROVE FirstHand'
  <2>1. release /\ i \in mine[a] /\ kept = {} /\ FirstHand
    BY Zenon, <1>13 DEF send_net_buffer, Used, Places
  <2>2. \A b \in Apps, j \in Ids : OnlyOf(b, j) /\ (j = i => b = a) => OnlyOf(b, j)'
    BY <1>3, <1>4, <1>5 DEF OnlyOf
  <2>3. Unsent(a, i) /\ OnlyOf(a, i)
    BY Zenon, <1>1, <2>1 DEF Unsent, FirstHand
  <2>4. \A b \in alive, j \in Ids : Unsent(b, j)' => Unsent(b, j) /\ (j = i => b = a)
    <3> SUFFICES ASSUME NEW b \in alive, NEW j \in Ids, Unsent(b, j)'
                 PROVE  Unsent(b, j) /\ (j = i => b = a)
      BY Zenon
    <3>1. Unsent(b, j)
      BY <1>3, <1>4, <1>5, <1>1, <2>1 DEF Unsent
    <3>2. ASSUME j = i, b # a PROVE FALSE
      <4>1. buffer[b][i] = "absent" /\ i \notin outstanding[b]
        BY Zenon, <2>3, <3>2, <1>5 DEF OnlyOf
      <4>2. Has(b, i)
        BY Zenon, <3>1, <3>2 DEF Unsent, Has, Held, InInbox
      <4> QED
        BY Zenon, <4>1, <4>2 DEF Known, Places
    <3> QED
      BY Zenon, <3>1, <3>2
  <2>5. \A b \in alive' : \A j \in Ids : Unsent(b, j)' => OnlyOf(b, j)'
    BY <1>4, <1>5, <2>1, <2>2, <2>4 DEF FirstHand
  <2>6. ASSUME NEW k \in DOMAIN rendezvous', rendezvous'[k].op = "packet"
        PROVE  OnlyOf(rendezvous[k].from, rendezvous[k].id)'
    <3>1. CASE rendezvous'[k] = m
      BY <1>2, <2>2, <2>3, <3>1 DEF OnlyOf
    <3>2. CASE k \in DOMAIN rendezvous /\ rendezvous'[k] = rendezvous[k]
      <4>1. PICK b \in Apps, j \in Ids : b = rendezvous[k].from /\ j = rendezvous[k].id
        BY Zenon, <2>6, <3>2, PacketIds DEF Typed
      <4>2. OnlyOf(b, j)
        BY Zenon, <2>1, <2>6, <3>2, <4>1 DEF FirstHand
      <4>3. j # i
        BY <1>1, <1>8, <2>1, <2>6, <3>2, <4>1 DEF Routed, Places
      <4>4. OnlyOf(b, j)'
        BY Zenon, <2>2, <4>2, <4>3
      <4> QED
        BY Zenon, <3>2, <4>1, <4>4 DEF OnlyOf
    <3> QED
      BY Zenon, <1>2, <3>1, <3>2 DEF Sends
  <2>7. \A b \in alive' : \A k \in DOMAIN inbox'[b] : buffer'[b][inbox'[b][k].id] = "absent"
    BY <1>1, <1>3, <1>4, <1>5, <2>1 DEF FirstHand
  <2> QED
    BY Zenon, <2>5, <2>6, <2>7 DEF FirstHand
<1> QED
  BY Zenon, <1>9, <1>10, <1>11, <1>12, <1>13 DEF Places

\* A request for a segment is about no segment yet.
LEMMA RequestPlaces ==
    ASSUME Typed, Places, NEW a \in Apps, alloc_net_buffer(a)
    PROVE  Places'
<1> DEFINE m == [op |-> "alloc", from |-> a, id |-> 0, dest |-> a]
<1>1. m.op = "alloc" /\ Sends(m)
  <2>1. m \in Messages /\ rendezvous \in Seq(Messages)
    BY Zenon, LongAssumption DEF Messages, Typed, QueueOK
  <2>2. rendezvous' = Append(rendezvous, m)
    BY Zenon DEF alloc_net_buffer, Send
  <2> HIDE DEF m
  <2>3. Sends(m)
    BY <2>1, <2>2, AppendAt DEF Sends
  <2> QED
    BY Zenon, <2>1, <2>3 DEF m
<1> HIDE DEF m
<1>2. UNCHANGED <<connected, outstanding, refs, next_identity, header, inbox, alive, buffer,
                  mine, kept, passed_on>>
  BY Zenon DEF alloc_net_buffer, coordinator, history
<1>3. \A b, j : /\ Has(b, j)' <=> Has(b, j)
                /\ Held(b, j)' <=> Held(b, j)
                /\ Unsent(b, j)' <=> Unsent(b, j)
                /\ OnlyOf(b, j)' <=> OnlyOf(b, j)
  BY SMTT(30), <1>2 DEF Has, Held, InInbox, Unsent, OnlyOf
<1>4. Once' /\ Known' /\ Allocated'
  BY SMTT(30), <1>1, <1>2, <1>3 DEF Places, Once, Known, Allocated, Sends, Sent
<1>5. Routed'
  BY <1>1, <1>2, <1>3 DEF Places, Routed, Sends
<1>6. ASSUME kept' \cup passed_on' = {} PROVE FirstHand'
  <2>1. FirstHand
    BY Zenon, <1>6, <1>2 DEF Places
  <2>2. ASSUME NEW k \in DOMAIN rendezvous', rendezvous'[k].op = "packet"
        PROVE  OnlyOf(rendezvous[k].from, rendezvous[k].id)'
    BY ZenonT(40), <1>1, <1>2, <2>1, <2>2 DEF FirstHand, OnlyOf, Sends
  <2> QED
    BY Zenon, <1>2, <1>3, <2>1, <2>2 DEF FirstHand
<1> QED
  BY Zenon, <1>4, <1>5, <1>6 DEF Places

\* _free_net_buffer gives the segment up, and says so once.
LEMMA FreePlaces ==
    ASSUME Typed, Places, NEW a \in Apps, NEW i \in Ids, _free_net_buffer(a, i)
    PROVE  Places'
<1> DEFINE m == [op |-> "free", from |-> a, id |-> i, dest |-> a]
<1>1. a \in alive /\ buffer[a][i] \in {"held", "sent"}
  BY Zenon DEF _free_net_buffer, Running
<1>2. /\ m.op = "free" /\ m.from = a /\ m.id = i
      /\ Sends(m) /\ Len(rendezvous) \in Nat
      /\ \A k \in DOMAIN rendezvous : k \in Nat /\ k <= Len(rendezvous)
  <2>1. m \in Messages /\ rendezvous \in Seq(Messages)
    BY Zenon, LongAssumption DEF Messages, Typed, QueueOK, Ids
  <2>2. rendezvous' = Append(rendezvous, m)
    BY Zenon DEF _free_net_buffer, Send
  <2> HIDE DEF m
  <2>3. Sends(m)
    BY <2>1, <2>2, AppendAt DEF Sends
  <2> QED
    BY <2>1, <2>3 DEF m
<1> HIDE DEF m
<1>3. \A b \in Apps, j \in Ids : /\ (b # a \/ j # i) => buffer'[b][j] = buffer[b][j]
                                 /\ buffer'[a][i] = "freed"
  BY Zenon DEF _free_net_buffer, Buffer, Typed, MonitorTypeOK
<1>4. UNCHANGED <<connected, outstanding, refs, next_identity, header, inbox, alive, mine,
                  kept, passed_on>>
  BY Zenon DEF _free_net_buffer, coordinator, history
<1>5. alive \subseteq Apps /\ \A b \in Apps : \A k \in DOMAIN inbox[b] : inbox[b][k].id \in Ids
  BY Zenon, InboxIds DEF Typed, MonitorTypeOK
<1>6. \A b \in Apps, j \in Ids : Has(b, j)' => Has(b, j) /\ (b # a \/ j # i)
  <2>1. ~InInbox(a, i)
    BY Zenon, <1>1 DEF Places, Once, InInbox
  <2> QED
    BY Zenon, <1>3, <1>4, <2>1 DEF Has, Held, InInbox
<1>7. \A b \in Apps, j \in Ids : Held(b, j)' => Held(b, j)
  BY Zenon, <1>3, <1>4 DEF Held, InInbox
<1>8. Has(a, i) /\ \A k \in DOMAIN rendezvous : ~Sent(k, "free", a, i)
  <2>1. Has(a, i)
    BY ZenonT(40), <1>1 DEF Has, Held
  <2> QED
    BY Zenon, <1>1, <2>1 DEF Places, Once
<1>9. Once'
  BY SMTT(30), <1>1, <1>2, <1>3, <1>4, <1>5, <1>6, <1>8 DEF Once, Places, Sends, Sent
<1>10. Known'
  BY <1>2, <1>4, <1>5, <1>6, <1>8, <1>1 DEF Known, Places, Sends, Sent
<1>11. Allocated'
  <2>1. i < next_identity
    BY Zenon, <1>1 DEF Allocated, Places
  <2>2. \A b \in alive : \A j \in mine[b] : j \in Ids
    BY Zenon DEF Typed, MonitorTypeOK
  <2>3. \A b \in alive' : \A j \in mine'[b] : buffer'[b][j] \notin {"absent", "queued"}
    BY <1>3, <1>4, <1>5, <2>2 DEF Allocated, Places
  <2>4. \A b \in alive' : \A j \in Ids : buffer'[b][j] # "absent" => j < next_identity'
    BY ZenonT(40), <1>3, <1>4, <1>5, <2>1 DEF Allocated, Places
  <2> QED
    BY Zenon, <1>2, <1>4, <2>3, <2>4 DEF Allocated, Places, Sends
<1>12. Routed'
  BY <1>2, <1>4, <1>5, <1>7 DEF Places, Routed, Sends
<1>13. ASSUME kept' \cup passed_on' = {} PROVE FirstHand'
  <2>1. FirstHand
    BY Zenon, <1>13, <1>4 DEF Places
  <2>2. \A b \in Apps, j \in Ids : OnlyOf(b, j) => OnlyOf(b, j)'
    BY ZenonT(40), <1>1, <1>3, <1>4, <1>5 DEF OnlyOf
  <2>3. \A b \in alive, j \in Ids : Unsent(b, j)' => Unsent(b, j)
    BY Zenon, <1>3, <1>4, <1>5 DEF Unsent
  <2>4. ASSUME NEW k \in DOMAIN rendezvous', rendezvous'[k].op = "packet"
        PROVE  OnlyOf(rendezvous[k].from, rendezvous[k].id)'
    <3>1. k \in DOMAIN rendezvous /\ rendezvous'[k] = rendezvous[k]
      BY Zenon, <1>2, <2>4 DEF Sends
    <3>2. PICK b \in Apps, j \in Ids : b = rendezvous[k].from /\ j = rendezvous[k].id
      BY Zenon, <2>4, <3>1, PacketIds DEF Typed
    <3>3. OnlyOf(b, j)'
      BY Zenon, <2>1, <2>2, <2>4, <3>1, <3>2 DEF FirstHand
    <3> QED
      BY Zenon, <3>1, <3>2, <3>3 DEF OnlyOf
  <2>5. \A b \in alive' : \A k \in DOMAIN inbox'[b] : buffer'[b][inbox'[b][k].id] = "absent"
    BY <1>1, <1>3, <1>4, <1>5, <2>1 DEF FirstHand
  <2> QED
    BY Zenon, <1>4, <1>5, <2>1, <2>2, <2>3, <2>4, <2>5 DEF FirstHand
<1> QED
  BY Zenon, <1>9, <1>10, <1>11, <1>12, <1>13 DEF Places

\* A step that only moves one buffer on in its app's tables: the buffer leaves
\* the tables, or the app takes it from its queue.
LEMMA BufferPlaces ==
    ASSUME Typed, Places, NEW a \in Apps, NEW i \in Ids,
           free_net_buffer(a, i) \/ receive_net_buffer(a, i)
    PROVE  Places'
<1>1. a \in alive
  BY Zenon DEF free_net_buffer, receive_net_buffer, Running
<1>2. \A b \in Apps, j \in Ids :
        /\ (b # a \/ j # i) => buffer'[b][j] = buffer[b][j]
        /\ \/ buffer[a][i] = "freed" /\ buffer'[a][i] = "absent"
           \/ buffer[a][i] = "queued" /\ buffer'[a][i] = "held"
  BY DEF free_net_buffer, receive_net_buffer, Buffer, Typed, MonitorTypeOK
<1>3. UNCHANGED <<connected, outstanding, refs, next_identity, header, rendezvous, inbox, alive,
                  kept, passed_on>>
  BY Zenon DEF free_net_buffer, receive_net_buffer, coordinator, history
<1>4. \A b \in Apps : /\ mine'[b] \subseteq mine[b] /\ mine[b] \subseteq Ids
                      /\ buffer'[a][i] \in {"absent", "held"} => i \notin mine'[a]
  <2>1. i \in mine[a] => buffer[a][i] # "queued"
    BY Zenon, <1>1 DEF Places, Allocated
  <2>2. CASE free_net_buffer(a, i)
    BY Zenon, <2>2 DEF free_net_buffer, Typed, MonitorTypeOK
  <2>3. CASE receive_net_buffer(a, i)
    BY Zenon, <2>1, <2>3 DEF receive_net_buffer, Typed, MonitorTypeOK
  <2> QED
    BY Zenon, <2>2, <2>3
<1>5. alive \subseteq Apps /\ \A b \in Apps : \A k \in DOMAIN inbox[b] : inbox[b][k].id \in Ids
  BY Zenon, InboxIds DEF Typed, MonitorTypeOK
<1>6. \A b \in Apps, j \in Ids : /\ Has(b, j)' <=> Has(b, j)
                                 /\ Held(b, j)' <=> Held(b, j)
  BY SMTT(30), <1>2, <1>3 DEF Has, Held, InInbox
<1>7. Once' /\ Known'
  BY <1>2, <1>3, <1>5, <1>6 DEF Places, Once, Known, Sent
<1>8. Allocated'
  BY <1>1, <1>2, <1>3, <1>4, <1>5 DEF Places, Allocated
<1>9. Routed'
  BY <1>3, <1>5, <1>6 DEF Places, Routed
<1>10. ASSUME kept' \cup passed_on' = {} PROVE FirstHand'
  <2>1. FirstHand
    BY Zenon, <1>10, <1>3 DEF Places
  <2>2. \A b \in Apps, j \in Ids : OnlyOf(b, j) => OnlyOf(b, j)'
    BY ZenonT(40), <1>1, <1>2, <1>3, <1>5 DEF OnlyOf
  <2>3. \A b \in alive, j \in Ids : Unsent(b, j)' => Unsent(b, j)
    BY <1>2, <1>3, <1>4, <1>5 DEF Unsent
  <2>4. ASSUME NEW k \in DOMAIN rendezvous', rendezvous'[k].op = "packet"
        PROVE  OnlyOf(rendezvous[k].from, rendezvous[k].id)'
    <3>2. PICK b \in Apps, j \in Ids : b = rendezvous[k].from /\ j = rendezvous[k].id
      BY Zenon, <2>4, <1>3, PacketIds DEF Typed
    <3>3. OnlyOf(b, j)'
      BY <1>3, <2>1, <2>2, <2>4, <3>2 DEF FirstHand
    <3> QED
      BY Zenon, <1>3, <3>2, <3>3 DEF OnlyOf
  <2>5. \A b \in alive' : \A k \in DOMAIN inbox'[b] : buffer'[b][inbox'[b][k].id] = "absent"
    BY <1>1, <1>2, <1>3, <1>5, <2>1 DEF FirstHand
  <2> QED
    BY Zenon, <1>3, <1>5, <2>1, <2>2, <2>3, <2>4, <2>5 DEF FirstHand
<1> QED
  BY Zenon, <1>7, <1>8, <1>9, <1>10 DEF Places

\* The exit of an app takes what it has out of the picture.
LEMMA ExitPlaces ==
    ASSUME Typed, Places, NEW a \in Apps, Exit(a)
    PROVE  Places'
<1>1. alive' = alive \ {a} /\ alive \subseteq Apps
  BY Zenon DEF Exit, Typed, MonitorTypeOK
<1>2. UNCHANGED <<connected, outstanding, refs, next_identity, header, rendezvous, kept, passed_on>>
  BY Zenon DEF Exit, coordinator, history
<1>3. \A b \in Apps \ {a} : inbox'[b] = inbox[b] /\ buffer'[b] = buffer[b] /\ mine'[b] = mine[b]
  BY Zenon DEF Exit, Typed, MonitorTypeOK
<1>4. \A b \in Apps \ {a} : \A j : /\ Has(b, j)' <=> Has(b, j)
                                   /\ Held(b, j)' <=> Held(b, j)
                                   /\ Unsent(b, j)' <=> Unsent(b, j)
  BY SMTT(30), <1>3 DEF Has, Held, InInbox, Unsent
<1>5. Once' /\ Known'
  BY SMTT(30), <1>1, <1>2, <1>3, <1>4 DEF Places, Once, Known, Sent
<1>6. Allocated' /\ Routed'
  BY SMTT(30), <1>1, <1>2, <1>3, <1>4 DEF Places, Allocated, Routed
<1>7. ASSUME kept' \cup passed_on' = {} PROVE FirstHand'
  <2>1. FirstHand
    BY Zenon, <1>7, <1>2 DEF Places
  <2>2. \A b, j : OnlyOf(b, j) => OnlyOf(b, j)'
    BY Zenon, <1>1, <1>2, <1>3 DEF OnlyOf
  <2>3. ASSUME NEW k \in DOMAIN rendezvous', rendezvous'[k].op = "packet"
        PROVE  OnlyOf(rendezvous[k].from, rendezvous[k].id)'
    <3>1. PICK b, j : b = rendezvous[k].from /\ j = rendezvous[k].id
      BY Zenon
    <3>2. OnlyOf(b, j)'
      BY Zenon, <1>2, <2>1, <2>2, <2>3, <3>1 DEF FirstHand
    <3> QED
      BY Zenon, <1>2, <3>1, <3>2 DEF OnlyOf
  <2> QED
    BY <1>1, <1>3, <1>4, <2>1, <2>2, <2>3 DEF FirstHand
<1> QED
  BY Zenon, <1>5, <1>6, <1>7 DEF Places

\* A segment goes from an app's inbox to its tables: the reply to a request, or
\* a packet that was not refused.
LEMMA IngestPlaces ==
    ASSUME Typed, Places, NEW a \in Apps,
           AllocReply(a) \/ deliver_packet_long(a), failed' = "none"
    PROVE  Places'
<1> DEFINE n == Head(inbox[a]).id
<1>1. a \in alive /\ inbox[a] # <<>>
  BY Zenon DEF AllocReply, deliver_packet_long, Running
<1>2. /\ n \in Ids /\ 1 \in DOMAIN inbox[a] /\ Head(inbox[a]) = inbox[a][1]
      /\ \A k \in DOMAIN inbox'[a] : /\ k \in Nat \ {0} /\ k + 1 \in DOMAIN inbox[a]
                                     /\ inbox'[a][k] = inbox[a][k + 1]
  <2>1. inbox'[a] = Tail(inbox[a])
    BY Zenon DEF AllocReply, deliver_packet_long, Received, Typed, MonitorTypeOK
  <2> QED
    BY Zenon, <1>1, <2>1, HeadLetter DEF Typed
<1>3. \A b \in Apps \ {a} : inbox'[b] = inbox[b]
  BY Zenon DEF AllocReply, deliver_packet_long, Received, Typed, MonitorTypeOK
<1>4. PICK st \in {"held", "queued"} :
         /\ \A b \in Apps, j \in Ids : /\ (b # a \/ j # n) => buffer'[b][j] = buffer[b][j]
                                       /\ buffer'[a][n] = st
         /\ \A b \in Apps : mine'[b] \subseteq Ids
         /\ \A b \in Apps, j \in Ids :
               j \in mine'[b] => (b = a /\ j = n /\ st = "held") \/ j \in mine[b]
         /\ \/ st = "held" /\ Head(inbox[a]).op = "alloc_reply"
            \/ st = "queued" /\ buffer[a][n] = "absent"
  <2>1. CASE AllocReply(a)
    <3>1. \A b \in Apps, j \in Ids : /\ (b # a \/ j # n) => buffer'[b][j] = buffer[b][j]
                                     /\ buffer'[a][n] = "held"
      BY ZenonT(40), <1>2, <2>1 DEF AllocReply, Buffer, Typed, MonitorTypeOK
    <3>2. /\ \A b \in Apps : mine'[b] \subseteq Ids
          /\ \A b \in Apps, j \in Ids : j \in mine'[b] => (b = a /\ j = n) \/ j \in mine[b]
      BY <1>2, <2>1 DEF AllocReply, Typed, MonitorTypeOK
    <3> QED
      BY Zenon, <2>1, <3>1, <3>2 DEF AllocReply
  <2>2. CASE deliver_packet_long(a)
    <3>1. buffer[a][n] = "absent" /\ Buffer(a, n, "queued") /\ mine' = mine
      BY Zenon, <2>2 DEF deliver_packet_long
    <3>2. \A b \in Apps, j \in Ids : /\ (b # a \/ j # n) => buffer'[b][j] = buffer[b][j]
                                     /\ buffer'[a][n] = "queued"
      BY Zenon, <1>2, <3>1 DEF Buffer, Typed, MonitorTypeOK
    <3> QED
      BY Zenon, <3>1, <3>2 DEF Typed, MonitorTypeOK
  <2> QED
    BY Zenon, <2>1, <2>2
<1>5. UNCHANGED <<connected, outstanding, refs, next_identity, header, rendezvous, alive,
                  kept, passed_on>>
  BY Zenon DEF AllocReply, deliver_packet_long, coordinator, history
<1>6. alive \subseteq Apps /\ \A b \in Apps : \A k \in DOMAIN inbox[b] : inbox[b][k].id \in Ids
  BY Zenon, InboxIds DEF Typed, MonitorTypeOK
<1> HIDE DEF n
<1>7. /\ inbox[a][1].id = n
      /\ \A k \in DOMAIN inbox'[a] : inbox'[a][k].id # n
  <2>1. inbox[a][1].id = n
    BY Zenon, <1>2 DEF n
  <2>2. ASSUME NEW k \in DOMAIN inbox'[a] PROVE inbox'[a][k].id # n
    <3>1. k + 1 # 1
      BY <1>2
    <3> QED
      BY <1>1, <1>2, <2>1, <3>1 DEF Places, Once
  <2> QED
    BY Zenon, <2>1, <2>2
<1>8. InInbox(a, n) /\ Held(a, n) /\ Has(a, n) /\ n \in outstanding[a] /\ n < next_identity
  <2>1. InInbox(a, n) /\ Held(a, n) /\ Has(a, n)
    BY Zenon, <1>2, <1>7 DEF InInbox, Held, Has
  <2>2. n \in outstanding[a]
    BY Zenon, <1>1, <1>2, <2>1 DEF Places, Known
  <2> QED
    BY Zenon, <1>2, <2>1, <2>2 DEF Typed, IInv, Counted
<1>9. \A b \in Apps, j \in Ids : InInbox(b, j)' => InInbox(b, j) /\ (b # a \/ j # n)
  <2>1. \A j \in Ids : InInbox(a, j)' => InInbox(a, j) /\ j # n
    BY Zenon, <1>2, <1>7 DEF InInbox
  <2> QED
    BY <1>3, <2>1 DEF InInbox
<1>10. \A b \in Apps, j \in Ids : (Held(b, j)' => Held(b, j)) /\ (Has(b, j)' => Has(b, j))
  BY ZenonT(40), <1>2, <1>4, <1>8, <1>9 DEF Held, Has
<1>11. Once'
  <2>1. ASSUME NEW b \in alive, NEW k \in DOMAIN inbox'[b]
        PROVE  /\ \A l \in DOMAIN inbox'[b] : inbox'[b][k].id = inbox'[b][l].id => k = l
               /\ buffer'[b][inbox'[b][k].id] \notin {"queued", "held", "sent"}
    <3>1. CASE b = a
      <4>1. \A l \in DOMAIN inbox'[a] : inbox'[a][k].id = inbox'[a][l].id => k = l
        BY SMTT(30), <1>1, <1>2, <2>1, <3>1 DEF Places, Once
      <4>2. inbox'[a][k].id = inbox[a][k + 1].id /\ inbox[a][k + 1].id \in Ids
        BY Zenon, <1>2, <1>6, <2>1, <3>1
      <4> QED
        BY SMTT(30), <1>1, <1>2, <1>4, <1>7, <2>1, <3>1, <4>1, <4>2 DEF Places, Once
    <3>2. CASE b # a
      BY <1>3, <1>4, <1>6, <2>1, <3>2 DEF Places, Once
    <3> QED
      BY ZenonT(40), <3>1, <3>2
  <2>2. ASSUME NEW b \in alive, NEW j \in Ids, NEW l \in DOMAIN rendezvous, Sent(l, "free", b, j)
        PROVE  /\ ~Has(b, j)'
               /\ \A k \in DOMAIN rendezvous : Sent(k, "free", b, j) => k = l
               /\ \A k \in DOMAIN rendezvous : Sent(k, "packet", b, j) => k < l
    BY ZenonT(40), <1>6, <1>10, <2>2 DEF Places, Once
  <2> QED
    BY <1>5, <2>1, <2>2 DEF Once, Sent
<1>12. Known'
  BY <1>5, <1>6, <1>10 DEF Places, Known, Sent
<1>13. Allocated'
  <2>1. ASSUME NEW b \in alive, NEW j \in mine'[b] PROVE buffer'[b][j] \notin {"absent", "queued"}
    BY <1>1, <1>2, <1>4, <1>6, <2>1 DEF Places, Allocated
  <2>2. \A b \in alive : \A j \in Ids : buffer'[b][j] # "absent" => j < next_identity
    BY ZenonT(40), <1>4, <1>6, <1>8 DEF Places, Allocated
  <2> QED
    BY Zenon, <1>5, <2>1, <2>2 DEF Places, Allocated
<1>14. Routed'
  BY <1>5, <1>6, <1>10 DEF Places, Routed
<1>15. ASSUME kept' \cup passed_on' = {} PROVE FirstHand'
  <2>1. FirstHand
    BY ZenonT(40), <1>15, <1>5 DEF Places
  <2>2. \A b \in Apps, j \in Ids : OnlyOf(b, j) => OnlyOf(b, j)'
    BY <1>1, <1>2, <1>4, <1>5, <1>6, <1>8 DEF OnlyOf
  <2>3. \A b \in alive, j \in Ids : Unsent(b, j)' => Unsent(b, j)
    <3> SUFFICES ASSUME NEW b \in alive, NEW j \in Ids, Unsent(b, j)' PROVE Unsent(b, j)
      BY Zenon
    <3>1. CASE b # a
      BY ZenonT(40), <1>3, <1>4, <1>6, <3>1 DEF Unsent
    <3>2. CASE b = a /\ j # n
      BY <1>2, <1>4, <1>6, <3>2 DEF Unsent
    <3>3. CASE b = a /\ j = n
      <4>1. buffer'[a][n] = "held"
        BY Zenon, <1>7, <3>3 DEF Unsent
      <4>2. inbox[a][1].op = "alloc_reply"
        BY Zenon, <1>2, <1>4, <4>1
      <4> QED
        BY Zenon, <1>2, <1>7, <3>3, <4>2 DEF Unsent
    <3> QED
      BY Zenon, <3>1, <3>2, <3>3
  <2>4. ASSUME NEW k \in DOMAIN rendezvous', rendezvous'[k].op = "packet"
        PROVE  OnlyOf(rendezvous[k].from, rendezvous[k].id)'
    <3>2. PICK b \in Apps, j \in Ids : b = rendezvous[k].from /\ j = rendezvous[k].id
      BY Zenon, <2>4, <1>5, PacketIds DEF Typed
    <3>3. OnlyOf(b, j)'
      BY <1>5, <2>1, <2>2, <2>4, <3>2 DEF FirstHand
    <3> QED
      BY Zenon, <1>5, <3>2, <3>3 DEF OnlyOf
  <2>5. ASSUME NEW b \in alive, NEW k \in DOMAIN inbox'[b]
        PROVE  buffer'[b][inbox'[b][k].id] = "absent"
    <3>1. CASE b # a
      BY SMTT(30), <1>3, <1>4, <1>6, <2>1, <2>5, <3>1 DEF FirstHand
    <3>2. CASE b = a
      <4>1. inbox'[a][k].id = inbox[a][k + 1].id /\ inbox[a][k + 1].id \in Ids
        BY Zenon, <1>2, <1>6, <2>5, <3>2
      <4> QED
        BY SMTT(30), <1>1, <1>2, <1>4, <1>7, <2>1, <2>5, <3>2, <4>1 DEF FirstHand
    <3> QED
      BY ZenonT(40), <3>1, <3>2
  <2> QED
    BY <1>5, <1>6, <2>1, <2>2, <2>3, <2>4, <2>5 DEF FirstHand
<1> QED
  BY Zenon, <1>11, <1>12, <1>13, <1>14, <1>15 DEF Places

\* The queue with the first z messages taken.
Shift(z) == \A k \in DOMAIN rendezvous' :
    /\ k \in Nat \ {0} /\ k + z \in DOMAIN rendezvous
    /\ rendezvous'[k] = rendezvous[k + z]

\* The coordinator takes the first message.
LEMMA DispatchShift ==
    ASSUME QueueOK, NEW op, Dispatch(op)
    PROVE  /\ Shift(1) /\ 1 \in DOMAIN rendezvous
           /\ Head(rendezvous) = rendezvous[1] /\ rendezvous[1].op = op
           /\ UNCHANGED <<header, alive, buffer, mine, kept, passed_on>>
<1>1. rendezvous \in Seq(Messages) /\ rendezvous # <<>> /\ rendezvous' = Tail(rendezvous)
  BY Zenon DEF QueueOK, Dispatch
<1>2. Shift(1) /\ 1 \in DOMAIN rendezvous /\ Head(rendezvous) = rendezvous[1]
  BY <1>1, TailAt DEF Shift
<1> QED
  BY Zenon, <1>2 DEF Dispatch, monitors, history

\* The coordinator does nothing for the apps that run: it takes a message whose
\* receiver is not there, or deletes an app that has exited.
LEMMA QuietPlaces ==
    ASSUME Typed, Places, NEW z \in {0, 1}, Shift(z),
           UNCHANGED <<header, inbox, alive, buffer, mine, kept, passed_on>>,
           alive \subseteq connected',
           next_identity' \in Nat, next_identity <= next_identity',
           \A b \in Apps : outstanding'[b] \subseteq outstanding[b],
           \A b \in alive : outstanding'[b] = outstanding[b]
    PROVE  Places'
<1>1. /\ alive \subseteq Apps /\ next_identity \in Nat /\ \A i \in Ids : i \in Nat
      /\ \A b \in Apps : mine[b] \subseteq Ids
      /\ \A k \in DOMAIN rendezvous : rendezvous[k].op = "packet" => rendezvous[k].id \in Ids
  BY LongAssumption, PacketIds DEF Typed, MonitorTypeOK, IInv, CoordinatorTypeOK, Ids
<1>2. \A b \in Apps : \A j : /\ Has(b, j)' <=> Has(b, j)
                             /\ Held(b, j)' <=> Held(b, j)
                             /\ Unsent(b, j)' <=> Unsent(b, j)
  BY SMTT(30) DEF Has, Held, InInbox, Unsent
<1>3. Once'
  BY SMTT(30), <1>1, <1>2 DEF Places, Once, Sent, Shift
<1>4. Known'
  BY SMTT(30), <1>1, <1>2 DEF Places, Known, Sent, Shift
<1>5. Allocated'
  <2>1. \A b \in alive : \A i \in Ids : buffer[b][i] # "absent" => i < next_identity'
    BY <1>1 DEF Places, Allocated
  <2>2. \A k \in DOMAIN rendezvous : rendezvous[k].op = "packet" => rendezvous[k].id < next_identity'
    BY SMTT(30), <1>1 DEF Places, Allocated
  <2> QED
    BY <2>1, <2>2 DEF Places, Allocated, Shift
<1>6. Routed'
  BY <1>1, <1>2 DEF Places, Routed, Shift
<1>7. ASSUME kept' \cup passed_on' = {} PROVE FirstHand'
  <2>1. FirstHand
    BY Zenon, <1>7 DEF Places
  <2>2. \A b, j : OnlyOf(b, j) => OnlyOf(b, j)'
    BY Zenon DEF OnlyOf
  <2>3. ASSUME NEW k \in DOMAIN rendezvous', rendezvous'[k].op = "packet"
        PROVE  OnlyOf(rendezvous[k].from, rendezvous[k].id)'
    <3>1. PICK b, j : b = rendezvous[k + z].from /\ j = rendezvous[k + z].id
      BY Zenon
    <3>2. OnlyOf(b, j)'
      BY Zenon, <2>1, <2>2, <2>3, <3>1 DEF FirstHand, Shift
    <3> QED
      BY Zenon, <3>1, <3>2 DEF OnlyOf, Shift
  <2> QED
    BY Zenon, <1>1, <1>2, <2>1, <2>2, <2>3 DEF FirstHand
<1> QED
  BY Zenon, <1>3, <1>4, <1>5, <1>6, <1>7 DEF Places

\* free_long_message: the app said so after it gave the segment up and after all
\* its packets of it (App.cpp:138-142).
LEMMA FreedPlaces ==
    ASSUME Typed, Places, free_long_message, failed' = "none"
    PROVE  Places'
<1> DEFINE a == rendezvous[1].from
           i == rendezvous[1].id
<1>1. /\ Shift(1) /\ 1 \in DOMAIN rendezvous
      /\ Head(rendezvous) = rendezvous[1] /\ rendezvous[1].op = "free"
      /\ UNCHANGED <<header, alive, buffer, mine, kept, passed_on>>
  BY Zenon, DispatchShift DEF free_long_message, Typed
<1>2. /\ a \in connected /\ i \in outstanding[a]
      /\ outstanding' = [outstanding EXCEPT ![a] = @ \ {i}]
      /\ UNCHANGED <<connected, next_identity, inbox>>
  BY Zenon, <1>1 DEF free_long_message, Fail
<1>3. /\ alive \subseteq Apps /\ a \in Apps /\ i \in Ids
      /\ outstanding \in [Apps -> SUBSET Ids]
  BY Zenon, <1>1, <1>2, PacketIds DEF Typed, MonitorTypeOK, IInv, CoordinatorTypeOK
<1>4. Sent(1, "free", a, i)
  BY Zenon, <1>1 DEF Sent
<1> HIDE DEF a, i
<1>5. \A b \in Apps : \A j : /\ Has(b, j)' <=> Has(b, j)
                             /\ Held(b, j)' <=> Held(b, j)
                             /\ Unsent(b, j)' <=> Unsent(b, j)
  BY SMTT(30), <1>1, <1>2 DEF Has, Held, InInbox, Unsent
<1>6. Once'
  BY <1>1, <1>2, <1>3, <1>5 DEF Places, Once, Sent, Shift
<1>7. Known'
  <2> SUFFICES ASSUME NEW b \in alive, NEW j \in Ids,
                      \/ Has(b, j)
                      \/ \E k \in DOMAIN rendezvous' :
                            Sent(k, "packet", b, j)' \/ Sent(k, "free", b, j)'
               PROVE  j \in outstanding'[b]
    BY ZenonT(40), <1>1, <1>3, <1>5 DEF Known
  <2>1. \/ Has(b, j)
        \/ \E k \in DOMAIN rendezvous :
              k # 1 /\ (Sent(k, "packet", b, j) \/ Sent(k, "free", b, j))
    BY <1>1 DEF Sent, Shift
  <2>2. j \in outstanding[b]
    BY Zenon, <2>1 DEF Places, Known
  <2>3. ~(b = a /\ j = i)
    <3> SUFFICES ASSUME b = a, j = i PROVE FALSE
      BY Zenon
    <3>1. /\ ~Has(a, i)
          /\ \A k \in DOMAIN rendezvous : Sent(k, "free", a, i) => k = 1
          /\ \A k \in DOMAIN rendezvous : Sent(k, "packet", a, i) => k < 1
      BY Zenon, <1>1, <1>3, <1>4 DEF Places, Once
    <3>2. \A k \in DOMAIN rendezvous : k \in Nat \ {0}
      BY DEF Typed, QueueOK
    <3> QED
      BY <2>1, <3>1, <3>2
  <2> QED
    BY Zenon, <1>2, <1>3, <2>2, <2>3
<1>8. Allocated'
  BY ZenonT(40), <1>1, <1>2, <1>3 DEF Places, Allocated, Shift
<1>9. Routed'
  BY <1>1, <1>2, <1>3, <1>5 DEF Places, Routed, Shift
<1>10. ASSUME kept' \cup passed_on' = {} PROVE FirstHand'
  <2>1. FirstHand
    BY Zenon, <1>1, <1>10 DEF Places
  <2>2. \A b, j : OnlyOf(b, j) => OnlyOf(b, j)'
    BY Zenon, <1>1, <1>2, <1>3 DEF OnlyOf
  <2>3. ASSUME NEW k \in DOMAIN rendezvous', rendezvous'[k].op = "packet"
        PROVE  OnlyOf(rendezvous[k].from, rendezvous[k].id)'
    <3>1. PICK b, j : b = rendezvous[k + 1].from /\ j = rendezvous[k + 1].id
      BY Zenon
    <3>2. OnlyOf(b, j)'
      BY Zenon, <1>1, <2>1, <2>2, <2>3, <3>1 DEF FirstHand, Shift
    <3> QED
      BY Zenon, <1>1, <3>1, <3>2 DEF OnlyOf, Shift
  <2> QED
    BY Zenon, <1>1, <1>2, <1>3, <1>5, <2>1, <2>2, <2>3 DEF FirstHand
<1> QED
  BY Zenon, <1>6, <1>7, <1>8, <1>9, <1>10 DEF Places

\* The coordinator records a segment with an app that runs and sends it the
\* letter: nobody who could send the segment has it, unless it was kept.
LEMMA LetterPlaces ==
    ASSUME Typed, Places, Shift(1),
           UNCHANGED <<connected, header, alive, buffer, mine, kept, passed_on>>,
           NEW d \in alive, NEW x \in Letters,
           inbox' = [inbox EXCEPT ![d] = Append(@, x)],
           outstanding' = [outstanding EXCEPT ![d] = @ \cup {x.id}],
           x.id \notin outstanding[d],
           next_identity' \in Nat, next_identity <= next_identity', x.id < next_identity',
           x.id \notin kept =>
              /\ \A b \in alive : ~Held(b, x.id)
              /\ \A k \in DOMAIN rendezvous :
                    k # 1 => ~(rendezvous[k].op = "packet" /\ rendezvous[k].id = x.id),
           kept \cup passed_on = {} => buffer[d][x.id] = "absent",
           x.op = "alloc_reply" => OnlyOf(d, x.id)
    PROVE  Places'
<1> DEFINE i == x.id
<1>1. /\ alive \subseteq Apps /\ next_identity \in Nat /\ (\A j \in Ids : j \in Nat) /\ i \in Ids
      /\ outstanding \in [Apps -> SUBSET Ids]
      /\ (\A b \in Apps : mine[b] \subseteq Ids)
      /\ \A k \in DOMAIN rendezvous : rendezvous[k].op = "packet" => rendezvous[k].id \in Ids
  BY LongAssumption, PacketIds DEF Typed, MonitorTypeOK, IInv, CoordinatorTypeOK, Ids, Letters
<1>2. /\ \A b \in Apps \ {d} : inbox'[b] = inbox[b] /\ outstanding'[b] = outstanding[b]
      /\ \A b \in Apps : outstanding[b] \subseteq outstanding'[b]
      /\ outstanding'[d] = outstanding[d] \cup {i}
      /\ d \in Apps
  BY Zenon, <1>1 DEF Typed, MonitorTypeOK
<1>3. /\ \A k \in DOMAIN inbox[d] : k \in Nat /\ k <= Len(inbox[d]) /\ inbox[d][k].id \in Ids
      /\ Len(inbox[d]) \in Nat
      /\ \A k \in DOMAIN inbox'[d] :
          \/ k \in DOMAIN inbox[d] /\ k <= Len(inbox[d]) /\ inbox'[d][k] = inbox[d][k]
          \/ k = Len(inbox[d]) + 1 /\ inbox'[d][k] = x
  <2>1. inbox[d] \in Seq(Letters) /\ inbox'[d] = Append(inbox[d], x)
    BY Zenon, <1>1 DEF Typed, MonitorTypeOK
  <2>2. \A k \in DOMAIN inbox[d] : inbox[d][k].id \in Ids
    BY Zenon, <1>2, InboxIds DEF Typed
  <2> QED
    BY <2>1, <2>2, AppendAt
<1>4. /\ ~Has(d, i)
      /\ \A k \in DOMAIN rendezvous : ~Sent(k, "free", d, i) /\ ~Sent(k, "packet", d, i)
  BY ZenonT(40), <1>1 DEF Places, Known
<1> HIDE DEF i
<1>5. \A b \in Apps, j \in Ids : InInbox(b, j)' => InInbox(b, j) \/ (b = d /\ j = i)
  <2>1. \A j \in Ids : InInbox(d, j)' => InInbox(d, j) \/ j = i
    BY Zenon, <1>3 DEF InInbox, i
  <2> QED
    BY <1>2, <2>1 DEF InInbox
<1>6. \A b \in Apps, j \in Ids : /\ Held(b, j)' => Held(b, j) \/ (b = d /\ j = i)
                                 /\ Has(b, j)' => Has(b, j) \/ (b = d /\ j = i)
  BY ZenonT(40), <1>5 DEF Held, Has
<1>7. Once'
  <2>1. ASSUME NEW b \in alive, NEW k \in DOMAIN inbox'[b]
        PROVE  /\ \A l \in DOMAIN inbox'[b] : inbox'[b][k].id = inbox'[b][l].id => k = l
               /\ buffer'[b][inbox'[b][k].id] \notin {"queued", "held", "sent"}
    <3>1. CASE b = d
      <4>1. \A l \in DOMAIN inbox[d] : inbox[d][l].id # i
        BY Zenon, <1>4 DEF Has, Held, InInbox
      <4>2. buffer[d][i] \notin {"queued", "held", "sent"}
        BY ZenonT(40), <1>4 DEF Has, Held
      <4>3. \A l \in DOMAIN inbox'[d] : inbox'[d][k].id = inbox'[d][l].id => k = l
        BY SMTT(30), <1>3, <2>1, <3>1, <4>1 DEF Places, Once, i
      <4> QED
        BY ZenonT(40), <1>3, <2>1, <3>1, <4>2, <4>3 DEF Places, Once, i
    <3>2. CASE b # d
      BY <1>1, <1>2, <2>1, <3>2 DEF Places, Once
    <3> QED
      BY Zenon, <3>1, <3>2
  <2>2. ASSUME NEW b \in alive, NEW j \in Ids, NEW l \in DOMAIN rendezvous', Sent(l, "free", b, j)'
        PROVE  /\ ~Has(b, j)'
               /\ \A k \in DOMAIN rendezvous' : Sent(k, "free", b, j)' => k = l
               /\ \A k \in DOMAIN rendezvous' : Sent(k, "packet", b, j)' => k < l
    <3>1. l + 1 \in DOMAIN rendezvous /\ Sent(l + 1, "free", b, j)
      BY Zenon, <2>2 DEF Sent, Shift
    <3>2. /\ ~Has(b, j)
          /\ \A k \in DOMAIN rendezvous : Sent(k, "free", b, j) => k = l + 1
          /\ \A k \in DOMAIN rendezvous : Sent(k, "packet", b, j) => k < l + 1
      BY Zenon, <3>1 DEF Places, Once
    <3>3. ~Has(b, j)'
      BY ZenonT(40), <1>1, <1>4, <1>6, <3>1, <3>2
    <3>4. ASSUME NEW k \in DOMAIN rendezvous'
          PROVE  (Sent(k, "free", b, j)' => k = l) /\ (Sent(k, "packet", b, j)' => k < l)
      BY SMTT(30), <3>2 DEF Sent, Shift
    <3> QED
      BY Zenon, <3>3, <3>4
  <2> QED
    BY ZenonT(40), <2>1, <2>2 DEF Once
<1>8. Known'
  BY <1>1, <1>2, <1>6 DEF Places, Known, Sent, Shift
<1>9. Allocated'
  <2>1. \A b \in alive : \A j \in Ids : buffer[b][j] # "absent" => j < next_identity'
    BY SMTT(30), <1>1 DEF Places, Allocated
  <2>2. \A k \in DOMAIN rendezvous : rendezvous[k].op = "packet" => rendezvous[k].id < next_identity'
    BY <1>1 DEF Places, Allocated
  <2> QED
    BY ZenonT(40), <2>1, <2>2 DEF Places, Allocated, Shift
<1>10. Routed'
  <2> SUFFICES ASSUME NEW j \in Ids \ kept
               PROVE  /\ \A b, c \in alive : Held(b, j)' /\ Held(c, j)' => b = c
                      /\ \A k \in DOMAIN rendezvous' :
                            rendezvous'[k].op = "packet" /\ rendezvous'[k].id = j =>
                            /\ \A l \in DOMAIN rendezvous' :
                                  rendezvous'[l].op = "packet" /\ rendezvous'[l].id = j => k = l
                            /\ \A b \in alive : ~Held(b, j)'
                            /\ header[j] = rendezvous'[k].dest
    BY SMTT(30) DEF Routed
  <2>1. CASE j # i
    BY <1>1, <1>6, <2>1 DEF Places, Routed, Shift
  <2>2. CASE j = i
    <3>1. \A b \in alive : Held(b, i)' => b = d
      BY ZenonT(40), <1>1, <1>6, <2>2 DEF i
    <3>2. \A k \in DOMAIN rendezvous' : ~(rendezvous'[k].op = "packet" /\ rendezvous'[k].id = i)
      BY <2>2 DEF Shift, i
    <3> QED
      BY Zenon, <2>2, <3>1, <3>2
  <2> QED
    BY ZenonT(40), <2>1, <2>2
<1>11. ASSUME kept' \cup passed_on' = {} PROVE FirstHand'
  <2>1. /\ FirstHand /\ buffer[d][i] = "absent"
        /\ \A b \in alive : ~Held(b, i)
        /\ \A k \in DOMAIN rendezvous :
              k # 1 => ~(rendezvous[k].op = "packet" /\ rendezvous[k].id = i)
    BY ZenonT(40), <1>11 DEF Places, i
  <2>2. \A b \in Apps, j \in Ids : OnlyOf(b, j) /\ (b = d \/ j # i) => OnlyOf(b, j)'
    BY <1>1, <1>2 DEF OnlyOf
  <2>3. \A b \in alive, j \in Ids : Unsent(b, j)' =>
           Unsent(b, j) \/ (b = d /\ j = i /\ OnlyOf(d, i))
    <3> SUFFICES ASSUME NEW b \in alive, NEW j \in Ids, Unsent(b, j)'
                 PROVE  Unsent(b, j) \/ (b = d /\ j = i /\ OnlyOf(d, i))
      BY ZenonT(40)
    <3>1. CASE b # d
      BY SMTT(30), <1>1, <1>2, <3>1 DEF Unsent
    <3>2. CASE b = d
      BY <1>3, <3>2 DEF Unsent, i
    <3> QED
      BY Zenon, <3>1, <3>2
  <2>4. ASSUME NEW b \in alive, NEW j \in Ids, Unsent(b, j)' PROVE OnlyOf(b, j)'
    <3>1. CASE Unsent(b, j)
      <4>1. Held(b, j) /\ OnlyOf(b, j)
        BY Zenon, <2>1, <3>1 DEF Unsent, Held, InInbox, FirstHand
      <4> QED
        BY Zenon, <1>1, <2>1, <2>2, <4>1
    <3>2. CASE b = d /\ j = i /\ OnlyOf(d, i)
      BY Zenon, <1>1, <1>2, <2>2, <3>2
    <3> QED
      BY Zenon, <2>3, <2>4, <3>1, <3>2
  <2>5. ASSUME NEW k \in DOMAIN rendezvous', rendezvous'[k].op = "packet"
        PROVE  OnlyOf(rendezvous[k].from, rendezvous[k].id)'
    <3>1. /\ k + 1 \in DOMAIN rendezvous /\ k + 1 # 1 /\ rendezvous'[k] = rendezvous[k + 1]
      BY DEF Shift
    <3>2. PICK b \in Apps, j \in Ids : b = rendezvous[k + 1].from /\ j = rendezvous[k + 1].id
      BY Zenon, <2>5, <3>1, PacketIds DEF Typed
    <3>3. OnlyOf(b, j) /\ j # i
      BY Zenon, <2>1, <2>5, <3>1, <3>2 DEF FirstHand
    <3>4. OnlyOf(b, j)'
      BY Zenon, <2>2, <3>3
    <3> QED
      BY ZenonT(40), <3>1, <3>2, <3>4 DEF OnlyOf
  <2>6. ASSUME NEW b \in alive, NEW k \in DOMAIN inbox'[b]
        PROVE  buffer[b][inbox'[b][k].id] = "absent"
    <3>1. CASE b # d
      BY SMTT(30), <1>1, <1>2, <2>1, <2>6, <3>1 DEF FirstHand
    <3>2. CASE b = d
      BY <1>3, <2>1, <2>6, <3>2 DEF FirstHand, i
    <3> QED
      BY ZenonT(40), <3>1, <3>2
  <2> QED
    BY Zenon, <1>1, <2>4, <2>5, <2>6 DEF FirstHand
<1> QED
  BY ZenonT(40), <1>7, <1>8, <1>9, <1>10, <1>11 DEF Places

\* alloc_long_message: nobody knows the new segment yet.
LEMMA AllocPlaces ==
    ASSUME Typed, Places, alloc_long_message, failed' = "none"
    PROVE  Places'
<1> DEFINE d == rendezvous[1].from
           n == next_identity
           x == [op |-> "alloc_reply", id |-> n]
<1>1. /\ Shift(1) /\ 1 \in DOMAIN rendezvous
      /\ Head(rendezvous) = rendezvous[1]
      /\ UNCHANGED <<header, alive, buffer, mine, kept, passed_on>>
  BY Zenon, DispatchShift DEF alloc_long_message, Typed
<1>2. /\ ~(n > MaxIds) /\ d \in connected
      /\ next_identity' = n + 1
      /\ send_cm(d, x, [outstanding EXCEPT ![d] = @ \cup {n}], [refs EXCEPT ![n] = 1])
  BY ZenonT(40), <1>1 DEF alloc_long_message, Fail
<1>3. /\ n \in Ids /\ n \in Nat /\ d \in Apps /\ alive \subseteq Apps
      /\ outstanding \in [Apps -> SUBSET Ids] /\ connected \subseteq Apps
      /\ \A b \in Apps : n \notin outstanding[b]
  <2>1. n \in Ids /\ n \in Nat
    BY <1>2, LongAssumption DEF Typed, IInv, CoordinatorTypeOK, Ids
  <2> QED
    BY <1>2, <2>1 DEF Typed, IInv, CoordinatorTypeOK, Counted, MonitorTypeOK
<1>4. /\ \A b \in alive : buffer[b][n] = "absent" /\ ~Held(b, n)
      /\ \A k \in DOMAIN rendezvous : ~(rendezvous[k].op = "packet" /\ rendezvous[k].id = n)
  <2>1. \A b \in alive : buffer[b][n] = "absent"
    BY <1>3 DEF Places, Allocated
  <2>2. \A b \in alive : ~Held(b, n)
    BY Zenon, <1>3 DEF Places, Known, Has
  <2> QED
    BY <1>3, <2>1, <2>2 DEF Places, Allocated
<1>5. CASE d \in alive
  <2>1. /\ inbox' = [inbox EXCEPT ![d] = Append(@, x)] /\ connected' = connected
        /\ outstanding' = [outstanding EXCEPT ![d] = @ \cup {n}]
    BY Zenon, <1>2, <1>5 DEF send_cm
  <2>2. x \in Letters /\ x.id = n
    BY Zenon, <1>3 DEF Letters
  <2>3. OnlyOf(d, n)
    BY Zenon, <1>3, <1>4 DEF OnlyOf
  <2>4. next_identity' \in Nat /\ next_identity <= next_identity' /\ n < next_identity'
    BY <1>2, <1>3
  <2> HIDE DEF x, n, d
  <2> QED
    BY Zenon, <1>1, <1>3, <1>4, <1>5, <2>1, <2>2, <2>3, <2>4, LetterPlaces
<1>6. CASE d \notin alive
  <2>1. /\ connected' = connected \ {d} /\ inbox' = inbox
        /\ outstanding' = [[outstanding EXCEPT ![d] = @ \cup {n}] EXCEPT ![d] = {}]
    BY Zenon, <1>2, <1>6 DEF send_cm
  <2>2. /\ \A b \in Apps : outstanding'[b] \subseteq outstanding[b]
        /\ \A b \in alive : outstanding'[b] = outstanding[b]
    BY Zenon, <1>3, <1>6, <2>1
  <2>3. alive \subseteq connected'
    BY Zenon, <1>6, <2>1 DEF Places, Allocated
  <2>4. next_identity' \in Nat /\ next_identity <= next_identity'
    BY <1>2, <1>3
  <2> QED
    BY Zenon, <1>1, <2>1, <2>2, <2>3, <2>4, QuietPlaces
<1> QED
  BY Zenon, <1>5, <1>6

\* The packet the coordinator is to pass on (Listener.cpp:248-267).
LEMMA RouteFacts ==
    ASSUME Typed, Places, RoutePacket
    PROVE  LET i == rendezvous[1].id
               a == rendezvous[1].from
               d == header[i]
           IN /\ Shift(1) /\ 1 \in DOMAIN rendezvous
              /\ Head(rendezvous) = rendezvous[1] /\ rendezvous[1].op = "packet"
              /\ UNCHANGED <<header, alive, buffer, mine, kept, passed_on>>
              /\ i \in Ids /\ a \in Apps /\ i < next_identity /\ next_identity \in Nat
              /\ a \in alive => refs[i] # 0
              /\ i \notin kept =>
                    /\ d # a
                    /\ \A b \in alive : ~Held(b, i)
                    /\ \A k \in DOMAIN rendezvous :
                          k # 1 => ~(rendezvous[k].op = "packet" /\ rendezvous[k].id = i)
              /\ kept \cup passed_on = {} => OnlyOf(a, i)
<1> DEFINE i == rendezvous[1].id
           a == rendezvous[1].from
           d == header[i]
<1>1. /\ Shift(1) /\ 1 \in DOMAIN rendezvous
      /\ Head(rendezvous) = rendezvous[1] /\ rendezvous[1].op = "packet"
      /\ UNCHANGED <<header, alive, buffer, mine, kept, passed_on>>
  BY Zenon, DispatchShift DEF RoutePacket, Typed
<1>2. i \in Ids /\ a \in Apps
  BY Zenon, <1>1, PacketIds DEF Typed
<1>3. i < next_identity /\ next_identity \in Nat /\ rendezvous[1].dest # a
  BY Zenon, <1>1 DEF Places, Allocated, Typed, IInv, CoordinatorTypeOK
<1>4. a \in alive => refs[i] # 0
  <2> SUFFICES ASSUME a \in alive PROVE refs[i] # 0
    BY Zenon
  <2>1. Sent(1, "packet", a, i)
    BY Zenon, <1>1 DEF Sent
  <2>2. i \in outstanding[a]
    BY Zenon, <1>1, <1>2, <2>1 DEF Places, Known
  <2>3. a \in Owners(i)
    BY Zenon, <1>2, <2>2 DEF Owners
  <2>4. Cardinality(Owners(i)) # 0
    BY Zenon, <1>2, <2>3, OwnersFinite, CardinalityDrop
  <2> QED
    BY Zenon, <1>2, <2>4 DEF Typed, IInv, Counted
<1>5. ASSUME i \notin kept
      PROVE  /\ d # a
             /\ \A b \in alive : ~Held(b, i)
             /\ \A k \in DOMAIN rendezvous :
                   k # 1 => ~(rendezvous[k].op = "packet" /\ rendezvous[k].id = i)
  BY Zenon, <1>1, <1>2, <1>3, <1>5 DEF Places, Routed
<1>6. kept \cup passed_on = {} => OnlyOf(a, i)
  BY Zenon, <1>1 DEF Places, FirstHand
<1> QED
  BY Zenon, <1>1, <1>2, <1>3, <1>4, <1>5, <1>6

\* A packet passed on: it is in nobody else's hands (Listener.cpp:410-420).
LEMMA RoutePlaces ==
    ASSUME Typed, Places, RoutePacket, failed' = "none"
    PROVE  Places'
<1> DEFINE i == rendezvous[1].id
           a == rendezvous[1].from
           d == header[i]
           x == [op |-> "packet", id |-> i]
<1>1. /\ Shift(1) /\ 1 \in DOMAIN rendezvous /\ Head(rendezvous) = rendezvous[1]
      /\ UNCHANGED <<header, alive, buffer, mine, kept, passed_on>>
      /\ i \in Ids /\ a \in Apps /\ i < next_identity /\ next_identity \in Nat
      /\ i \notin kept =>
            /\ d # a
            /\ \A b \in alive : ~Held(b, i)
            /\ \A k \in DOMAIN rendezvous :
                  k # 1 => ~(rendezvous[k].op = "packet" /\ rendezvous[k].id = i)
      /\ kept \cup passed_on = {} => OnlyOf(a, i)
  BY Zenon, RouteFacts
<1>2. /\ alive \subseteq Apps /\ alive \subseteq connected
      /\ outstanding \in [Apps -> SUBSET Ids] /\ connected \subseteq Apps
  BY ZenonT(40) DEF Typed, IInv, CoordinatorTypeOK, MonitorTypeOK, Places, Allocated
<1>3. next_identity' \in Nat /\ next_identity <= next_identity' /\ i < next_identity'
  <2>1. next_identity' = next_identity
    BY Zenon DEF RoutePacket, Fail, coordinator
  <2> QED
    BY <1>1, <2>1
<1>4. \/ UNCHANGED <<connected, outstanding, inbox>>
      \/ /\ d \in connected /\ i \notin outstanding[d]
         /\ send_cm(d, x, [outstanding EXCEPT ![d] = @ \cup {i}], [refs EXCEPT ![i] = @ + 1])
  BY Zenon, <1>1 DEF RoutePacket, Forward, Fail
<1>5. CASE UNCHANGED <<connected, outstanding, inbox>>
  BY Zenon, <1>1, <1>2, <1>3, <1>5, QuietPlaces
<1>6. CASE /\ d \in connected /\ i \notin outstanding[d]
           /\ send_cm(d, x, [outstanding EXCEPT ![d] = @ \cup {i}], [refs EXCEPT ![i] = @ + 1])
  <2>1. CASE d \in alive
    <3>1. /\ inbox' = [inbox EXCEPT ![d] = Append(@, x)] /\ connected' = connected
          /\ outstanding' = [outstanding EXCEPT ![d] = @ \cup {i}]
      BY Zenon, <1>6, <2>1 DEF send_cm
    <3>2. x \in Letters /\ x.id = i /\ x.op = "packet"
      BY Zenon, <1>1 DEF Letters
    <3>3. kept \cup passed_on = {} => buffer[d][i] = "absent"
      <4> SUFFICES ASSUME kept \cup passed_on = {} PROVE buffer[d][i] = "absent"
        BY Zenon
      <4>1. d # a /\ OnlyOf(a, i)
        BY Zenon, <1>1
      <4> QED
        BY Zenon, <1>2, <2>1, <4>1 DEF OnlyOf
    <3> HIDE DEF x, i, d, a
    <3> QED
      BY ZenonT(40), <1>1, <1>3, <1>6, <2>1, <3>1, <3>2, <3>3, LetterPlaces
  <2>2. CASE d \notin alive
    <3>1. /\ connected' = connected \ {d} /\ inbox' = inbox
          /\ outstanding' = [[outstanding EXCEPT ![d] = @ \cup {i}] EXCEPT ![d] = {}]
      BY Zenon, <1>6, <2>2 DEF send_cm
    <3> HIDE DEF i, d
    <3>2. /\ \A b \in Apps : outstanding'[b] \subseteq outstanding[b]
          /\ \A b \in alive : outstanding'[b] = outstanding[b]
      BY Zenon, <1>2, <1>6, <2>2, <3>1
    <3>3. alive \subseteq connected'
      BY Zenon, <1>2, <2>2, <3>1
    <3> QED
      BY ZenonT(40), <1>1, <1>3, <3>1, <3>2, <3>3, QuietPlaces
  <2> QED
    BY ZenonT(40), <2>1, <2>2
<1> QED
  BY Zenon, <1>4, <1>5, <1>6

\* The deletion of an app that has exited (App.cpp:144-169).
LEMMA GonePlaces ==
    ASSUME Typed, Places, NEW a \in Apps, AppGone(a)
    PROVE  Places'
<1>1. /\ a \notin alive /\ next_identity' = next_identity
      /\ connected' = connected \ {a} /\ inbox' = inbox
      /\ outstanding' = [outstanding EXCEPT ![a] = {}]
      /\ UNCHANGED <<header, rendezvous, alive, buffer, mine, kept, passed_on>>
  BY Zenon DEF AppGone, send_cm, monitors, history
<1>2. Shift(0)
  <2>1. \A k \in DOMAIN rendezvous : k \in Nat \ {0} /\ k + 0 = k
    BY DEF Typed, QueueOK
  <2> QED
    BY Zenon, <1>1, <2>1 DEF Shift
<1>3. /\ alive \subseteq Apps /\ alive \subseteq connected' /\ next_identity \in Nat
      /\ \A b \in Apps : outstanding'[b] \subseteq outstanding[b]
      /\ \A b \in alive : outstanding'[b] = outstanding[b]
  BY Zenon, <1>1 DEF Typed, IInv, CoordinatorTypeOK, MonitorTypeOK, Places,
     Allocated
<1> QED
  BY <1>1, <1>2, <1>3, QuietPlaces

\* Every step of monitors and coordinator leaves the segments in their places,
\* unless it ends in a failed assertion.
LEMMA PlacesStep ==
    ASSUME Typed, Places, [Next]_vars, failed' = "none"
    PROVE  Places'
<1>1. CASE UNCHANGED vars
  <2>1. /\ UNCHANGED <<connected, outstanding, next_identity, header, rendezvous, inbox>>
        /\ UNCHANGED <<alive, buffer, mine, kept, passed_on>>
    BY Zenon, <1>1 DEF vars
  <2>2. Shift(0)
    <3>1. \A k \in DOMAIN rendezvous : k \in Nat \ {0} /\ k + 0 = k
      BY DEF Typed, QueueOK
    <3> QED
      BY Zenon, <2>1, <3>1 DEF Shift
  <2>3. /\ alive \subseteq Apps /\ alive \subseteq connected' /\ next_identity \in Nat
        /\ \A b \in Apps : outstanding'[b] \subseteq outstanding[b]
        /\ \A b \in alive : outstanding'[b] = outstanding[b]
    BY Zenon, <2>1 DEF Typed, IInv, CoordinatorTypeOK, MonitorTypeOK, Places, Allocated
  <2> QED
    BY <2>1, <2>2, <2>3, QuietPlaces
<1>2. ASSUME NEW a \in Apps, alloc_net_buffer(a) PROVE Places'
  BY Zenon, <1>2, RequestPlaces
<1>3. ASSUME NEW a \in Apps, AllocReply(a) \/ deliver_packet_long(a) PROVE Places'
  BY Zenon, <1>3, IngestPlaces
<1>4. ASSUME NEW a \in Apps, Exit(a) PROVE Places'
  BY Zenon, <1>4, ExitPlaces
<1>5. ASSUME NEW a \in Apps, AppGone(a) PROVE Places'
  BY Zenon, <1>5, GonePlaces
<1>6. ASSUME NEW a \in Apps, NEW i \in Ids, NEW d \in Apps \ {a}, NEW release \in BOOLEAN,
             send_net_buffer(a, i, d, release)
      PROVE  Places'
  BY Zenon, <1>6, SendPlaces
<1>7. ASSUME NEW a \in Apps, NEW i \in Ids, _free_net_buffer(a, i) PROVE Places'
  BY Zenon, <1>7, FreePlaces
<1>8. ASSUME NEW a \in Apps, NEW i \in Ids, free_net_buffer(a, i) \/ receive_net_buffer(a, i)
      PROVE  Places'
  BY Zenon, <1>8, BufferPlaces
<1>9. CASE alloc_long_message
  BY Zenon, <1>9, AllocPlaces
<1>10. CASE RoutePacket
  BY Zenon, <1>10, RoutePlaces
<1>11. CASE free_long_message
  BY Zenon, <1>11, FreedPlaces
<1> QED
  BY ZenonT(40), <1>1, <1>2, <1>3, <1>4, <1>5, <1>6, <1>7, <1>8, <1>9, <1>10,
     <1>11 DEF Next

\* Which assertion can fail when: a message is dispatched without its App or
\* segment only if an app has exited, and a segment is recorded or ingested
\* twice only if it was kept or passed on (Listener.cpp:248-267,
\* common/utils/hash_table.c:182).
LEMMA FailureStep ==
    ASSUME Typed, Places, [Next]_vars, failed = "none", failed' # "none"
    PROVE  NoFailure'
<1>1. CASE UNCHANGED vars
  BY Zenon, <1>1 DEF vars
<1>2. ASSUME NEW a \in Apps,
             alloc_net_buffer(a) \/ AllocReply(a) \/ Exit(a) \/ AppGone(a)
      PROVE  FALSE
  BY Zenon, <1>2 DEF alloc_net_buffer, AllocReply, Exit, AppGone
<1>3. ASSUME NEW a \in Apps, NEW i \in Ids,
             \/ \E d \in Apps \ {a}, release \in BOOLEAN : send_net_buffer(a, i, d, release)
             \/ _free_net_buffer(a, i) \/ free_net_buffer(a, i) \/ receive_net_buffer(a, i)
      PROVE  FALSE
  BY Zenon, <1>3 DEF send_net_buffer, _free_net_buffer, free_net_buffer,
     receive_net_buffer
<1>4. ASSUME NEW a \in Apps, deliver_packet_long(a) PROVE NoFailure'
  <2>1. a \in alive /\ inbox[a] # <<>> /\ UNCHANGED <<kept, passed_on>>
    BY Zenon, <1>4 DEF deliver_packet_long, Running, history
  <2>2. failed' = "ingest" /\ buffer[a][Head(inbox[a]).id] # "absent"
    BY Zenon, <1>4 DEF deliver_packet_long
  <2>3. 1 \in DOMAIN inbox[a] /\ Head(inbox[a]) = inbox[a][1]
    BY Zenon, <2>1, HeadLetter DEF Typed
  <2>4. kept \cup passed_on # {}
    BY Zenon, <2>1, <2>2, <2>3 DEF Places, FirstHand
  <2> QED
    BY Zenon, <2>1, <2>2, <2>4 DEF NoFailure
<1>5. CASE alloc_long_message
  <2>1. Head(rendezvous) = rendezvous[1] /\ 1 \in DOMAIN rendezvous /\ alive' = alive
    BY Zenon, <1>5, DispatchShift DEF alloc_long_message, Typed
  <2>2. \/ failed' = "keyspace"
        \/ failed' = "stranger" /\ Head(rendezvous).from \notin connected
    BY Zenon, <1>5 DEF alloc_long_message, Fail
  <2>3. rendezvous[1].from \in Apps
    BY Zenon, <2>1, PacketIds DEF Typed
  <2> QED
    BY Zenon, <2>1, <2>2, <2>3 DEF NoFailure, Places, Allocated
<1>6. CASE RoutePacket
  <2> DEFINE i == rendezvous[1].id
             a == rendezvous[1].from
             d == header[i]
  <2>1. /\ Head(rendezvous) = rendezvous[1] /\ i \in Ids /\ a \in Apps
        /\ UNCHANGED <<alive, kept, passed_on>>
        /\ a \in alive => refs[i] # 0
        /\ i \notin kept => d # a
        /\ kept \cup passed_on = {} => OnlyOf(a, i)
    BY Zenon, <1>6, RouteFacts
  <2>2. \/ failed' = "stranger" /\ refs[i] = 0
        \/ failed' = "duplicate" /\ d \in connected /\ i \in outstanding[d]
    BY Zenon, <1>6, <2>1 DEF RoutePacket, Forward, Fail
  <2>3. CASE failed' = "stranger" /\ refs[i] = 0
    BY Zenon, <2>1, <2>3 DEF NoFailure
  <2>4. CASE failed' = "duplicate" /\ d \in connected /\ i \in outstanding[d]
    <3>1. d \in Apps
      BY Zenon, <2>4 DEF Typed, IInv, CoordinatorTypeOK
    <3>2. kept \cup passed_on # {}
      BY Zenon, <2>1, <2>4, <3>1 DEF OnlyOf
    <3> QED
      BY Zenon, <2>1, <2>4, <3>2 DEF NoFailure
  <2> QED
    BY Zenon, <2>2, <2>3, <2>4
<1>7. CASE free_long_message
  <2> DEFINE a == rendezvous[1].from
             i == rendezvous[1].id
  <2>1. /\ Head(rendezvous) = rendezvous[1] /\ rendezvous[1].op = "free"
        /\ 1 \in DOMAIN rendezvous /\ alive' = alive
    BY Zenon, <1>7, DispatchShift DEF free_long_message, Typed
  <2>2. failed' = "stranger" /\ (a \notin connected \/ i \notin outstanding[a])
    BY Zenon, <1>7, <2>1 DEF free_long_message, Fail
  <2>3. a \in Apps /\ i \in Ids
    BY Zenon, <2>1, PacketIds DEF Typed
  <2>4. a \notin alive
    <3>1. Sent(1, "free", a, i)
      BY Zenon, <2>1 DEF Sent
    <3> QED
      BY Zenon, <2>1, <2>2, <2>3, <3>1 DEF Places, Known, Allocated
  <2> QED
    BY Zenon, <2>1, <2>2, <2>3, <2>4 DEF NoFailure
<1> QED
  BY Zenon, <1>1, <1>2, <1>3, <1>4, <1>5, <1>6, <1>7 DEF Next

\* A failed assertion ends the process: nothing happens after it.
LEMMA NothingFailed ==
    ASSUME Next
    PROVE  failed = "none"
<1>1. ASSUME NEW a \in Apps, alloc_net_buffer(a) \/ AllocReply(a) \/ deliver_packet_long(a)
      PROVE  failed = "none"
  BY Zenon, <1>1 DEF alloc_net_buffer, AllocReply, deliver_packet_long, Running
<1>2. ASSUME NEW a \in Apps, Exit(a) \/ AppGone(a) PROVE failed = "none"
  BY Zenon, <1>2 DEF Exit, AppGone, Running
<1>3. ASSUME NEW a \in Apps, NEW i \in Ids, NEW d \in Apps \ {a}, NEW release \in BOOLEAN,
             send_net_buffer(a, i, d, release)
      PROVE  failed = "none"
  BY Zenon, <1>3 DEF send_net_buffer, Running
<1>4. ASSUME NEW a \in Apps, NEW i \in Ids,
             _free_net_buffer(a, i) \/ free_net_buffer(a, i) \/ receive_net_buffer(a, i)
      PROVE  failed = "none"
  BY Zenon, <1>4 DEF _free_net_buffer, free_net_buffer, receive_net_buffer, Running
<1>5. CASE alloc_long_message \/ RoutePacket \/ free_long_message
  BY Zenon, <1>5 DEF alloc_long_message, RoutePacket, free_long_message, Dispatch
<1> QED
  BY Zenon, <1>1, <1>2, <1>3, <1>4, <1>5 DEF Next

\* The inductive invariant of the whole protocol.
LongIInv == Typed /\ NoFailure /\ (failed = "none" => Places)

\* The system starts with nothing allocated, and every step keeps it so.
LEMMA LongInvariant == Spec => []LongIInv
<1>1. Init => LongIInv
  <2> SUFFICES ASSUME Init PROVE LongIInv
    BY Zenon
  <2>1. Typed
    BY InitIInv DEF Init, Typed, QueueOK, MonitorTypeOK, BufferStates
  <2>2. NoFailure
    BY Zenon DEF Init, NoFailure
  <2>3. /\ DOMAIN rendezvous = {} /\ alive = Apps /\ connected = Apps
        /\ \A a \in Apps, i \in Ids : buffer[a][i] = "absent"
        /\ \A a \in Apps : DOMAIN inbox[a] = {} /\ mine[a] = {}
    BY DEF Init
  <2>4. \A a \in Apps, i \in Ids : ~Has(a, i) /\ ~Held(a, i) /\ ~Unsent(a, i)
    BY Zenon, <2>3 DEF Has, Held, InInbox, Unsent
  <2>5. Once /\ Known /\ Allocated
    BY Zenon, <2>3, <2>4 DEF Once, Known, Allocated
  <2>6. Routed /\ FirstHand
    BY Zenon, <2>3, <2>4 DEF Routed, FirstHand
  <2> QED
    BY Zenon, <2>1, <2>2, <2>5, <2>6 DEF LongIInv, Places
<1>2. LongIInv /\ [Next]_vars => LongIInv'
  <2> SUFFICES ASSUME LongIInv, [Next]_vars PROVE LongIInv'
    BY Zenon
  <2>1. Typed'
    BY Zenon, QueueStep, NextIInv, MonitorType DEF LongIInv, Typed
  <2>2. CASE failed # "none"
    <3>1. UNCHANGED vars
      BY Zenon, <2>2, NothingFailed
    <3> QED
      BY <2>1, <2>2, <3>1 DEF LongIInv, NoFailure, vars
  <2>3. CASE failed = "none" /\ failed' = "none"
    BY Zenon, <2>1, <2>3, PlacesStep DEF LongIInv, NoFailure
  <2>4. CASE failed = "none" /\ failed' # "none"
    BY Zenon, <2>1, <2>4, FailureStep DEF LongIInv
  <2> QED
    BY Zenon, <2>2, <2>3, <2>4
<1> QED
  BY <1>1, <1>2, PTL DEF Spec

\* A segment that a running app holds, or that is on its way to it, is
\* outstanding with that app at the coordinator, for any apps and segments
\* (App.cpp:138-142, Listener.cpp:410-420).
THEOREM LongMessagesInUse == Spec => []InUseIsOutstanding
<1>1. LongIInv => InUseIsOutstanding
  <2> SUFFICES ASSUME LongIInv, failed = "none", NEW a \in alive, NEW i \in Ids,
                      \/ buffer[a][i] \in {"queued", "held", "sent"}
                      \/ \E k \in 1..Len(inbox[a]) : inbox[a][k].id = i
               PROVE  i \in outstanding[a]
    BY Zenon DEF InUseIsOutstanding
  <2>1. DOMAIN inbox[a] = 1..Len(inbox[a])
    BY DEF LongIInv, Typed, MonitorTypeOK
  <2>2. Has(a, i)
    BY Zenon, <2>1 DEF Has, Held, InInbox
  <2> QED
    BY Zenon, <2>2 DEF LongIInv, Places, Known
<1> QED
  BY <1>1, LongInvariant, PTL

\* What keeps the assertions of coordinator and monitors from failing, for any
\* apps and segments: no App is missing while no app has exited, and no segment
\* is recorded or ingested twice while apps release what they send and send
\* only what they allocated (Listener.cpp:248-267, common/utils/hash_table.c:182).
THEOREM LongMessagesNoFailure == Spec => []NoFailure
<1>1. LongIInv => NoFailure
  BY Zenon DEF LongIInv
<1> QED
  BY <1>1, LongInvariant, PTL

\* A packet goes where its header said when it was sent, if its segment was
\* always sent with release: for any apps, and however often it was passed on
\* (common/ifc/pal_abi/pal_net.h:236).
THEOREM LongMessagesByValue == Spec => SentByValue
<1> DEFINE ByValue == /\ rendezvous # <<>> /\ rendezvous' = Tail(rendezvous)
                      /\ Head(rendezvous).op = "packet" /\ Head(rendezvous).id \notin kept
                      => header[Head(rendezvous).id] = Head(rendezvous).dest
<1>1. LongIInv /\ [Next]_vars => [ByValue]_vars
  <2> SUFFICES ASSUME LongIInv, Next, ~UNCHANGED vars,
                      rendezvous # <<>>, rendezvous' = Tail(rendezvous),
                      Head(rendezvous).op = "packet", Head(rendezvous).id \notin kept
               PROVE  header[Head(rendezvous).id] = Head(rendezvous).dest
    BY Zenon
  <2>1. rendezvous \in Seq(Messages)
    BY Zenon DEF LongIInv, Typed, QueueOK
  <2>2. 1 \in DOMAIN rendezvous /\ Head(rendezvous) = rendezvous[1]
    BY Zenon, <2>1, TailAt
  <2>3. rendezvous[1].id \in Ids
    BY Zenon, <2>2, PacketIds DEF LongIInv, Typed
  <2>4. failed = "none"
    BY Zenon, NothingFailed
  <2> QED
    BY <2>2, <2>3, <2>4 DEF LongIInv, Places, Routed
<1> QED
  BY <1>1, LongInvariant, PTL DEF SentByValue, Spec
=============================================================================
