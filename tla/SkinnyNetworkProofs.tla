------------------------- MODULE SkinnyNetworkProofs -------------------------
(***************************************************************************)
(* Proofs about SkinnyNetwork, for any number of datagrams, fragments and  *)
(* sockets and any limits: no incomplete datagram reaches a socket, and    *)
(* the buffers held are counted, owned and bounded.                        *)
(***************************************************************************)
EXTENDS ClientNetwork, Integers, Sequences, FiniteSets, FiniteSetTheorems, TLAPS

\* The constants are what their comments say.
Constants == /\ Frags \in [Datagrams -> Nat \ {0}]
             /\ Port \in [Datagrams -> Sockets]
             /\ None \notin Datagrams
             /\ QUEUE_SIZE \in Nat /\ MAX_PARTIAL_PACKETS \in Nat

NetTypeOK == /\ home \in [Datagrams -> {"none", "new", "old"}]
          /\ fragments \in [Datagrams -> SUBSET Nat]
          /\ next_gap \in [Datagrams -> Nat]
          /\ have_last \in [Datagrams -> BOOLEAN]
          /\ mq \in [Sockets -> Seq(Datagrams)]
          /\ handler \in [Sockets -> {"none", "live", "unregistered"}]
          /\ held \in [Sockets -> Datagrams \cup {None}]

Queued(d, q) == \E k \in 1..Len(q) : q[k] = d
Distinct(q) == \A j, k \in 1..Len(q) : q[j] = q[k] => j = k
At(d, s) == Queued(d, mq[s]) \/ held[s] = d

\* Nothing of the datagram will come any more.
Done(d) == \A i \in 1..Frags[d] : <<d, i>> \notin in_flight

\* A fragment that is held has been received.
Arrived == \A d \in Datagrams : \A i \in fragments[d] : i \in 1..Frags[d] /\ <<d, i>> \notin in_flight

\* While fragments may come, the gap and have_last_fragment speak of fragments
\* that are there.
GapIsFilled == \A d \in Datagrams : ~Done(d) =>
                  /\ 1..next_gap[d] \subseteq fragments[d]
                  /\ have_last[d] => Frags[d] \in fragments[d]

\* A datagram is in one place of its own socket, whole, and a packet in the
\* tables has not been delivered, except while the dispatcher is at it.
OnePlace ==
    /\ \A s \in Sockets : Distinct(mq[s]) /\ ~Queued(held[s], mq[s])
    /\ \A d \in Datagrams, s \in Sockets : At(d, s) =>
          /\ s = Port[d]
          /\ fragments[d] = 1..Frags[d]
          /\ home[d] # "none" => removing = d \/ net_failed

\* Only fragmented datagrams are in the tables of partial packets.
Fragmented == \A d \in Datagrams : home[d] # "none" => Frags[d] > 1

\* The buffers that the datagrams ds hold, and the partial packets.
Kept(ds) == UNION {{d} \X fragments[d] : d \in ds}
Partial == {d \in Datagrams : home[d] # "none"}

\* The buffers and the partial packets are counted and bounded.  A datagram with a
\* buffer that is not a partial packet, or is about to be none, is at a socket.
Accounted ==
    /\ IsFiniteSet(Kept(Datagrams))
    /\ depth = Cardinality(Kept(Datagrams)) /\ depth <= QUEUE_SIZE + 1
    /\ IsFiniteSet(Partial) /\ Cardinality(Partial) <= MAX_PARTIAL_PACKETS + 1
    /\ \A d \in Datagrams : fragments[d] # {} /\ (home[d] = "none" \/ removing = d)
          => \E s \in Sockets : At(d, s)

\* The inductive invariant
NetIInv == NetTypeOK /\ Arrived /\ GapIsFilled /\ OnePlace /\ Fragmented /\ Accounted

\* SkinnyNetwork's Cardinality is the standard one.
LEMMA NetworkCardinality == \A S : Network!Cardinality(S) = Cardinality(S)
  BY Zenon DEF Network!Cardinality, Cardinality

\* The datagrams ds are deleted, and d is kept with the fragments F.
Replaced(ds, d, F) ==
    \A e \in Datagrams : fragments'[e] = IF e \in ds THEN {} ELSE IF e = d THEN F ELSE fragments[e]

\* Deleting datagrams takes as many buffers off the count as they hold, and a
\* datagram that is kept with a fragment more adds at most one
\* (XSNReceiveAccounting.cpp).
LEMMA Recounted ==
  ASSUME NEW ds \in SUBSET Datagrams, NEW d \in Datagrams, NEW F, IsFiniteSet(F),
         IsFiniteSet(Kept(Datagrams)),
         Replaced(ds, d, F)
  PROVE  /\ IsFiniteSet(Kept(Datagrams)')
         /\ d \in ds => Cardinality(Kept(Datagrams)')
              = Cardinality(Kept(Datagrams)) - Cardinality(Kept(ds \cup {d})) + 0
         /\ d \notin ds => Cardinality(Kept(Datagrams)')
              = Cardinality(Kept(Datagrams)) - Cardinality(Kept(ds \cup {d})) + Cardinality(F)
         /\ d \in ds => Cardinality(Kept(Datagrams)') <= Cardinality(Kept(Datagrams))
         /\ \A i : F = fragments[d] \cup {i} => Cardinality(Kept(Datagrams)') <= Cardinality(Kept(Datagrams)) + 1
  <1> DEFINE H == Kept(Datagrams)
             K == Kept(ds \cup {d})
             N == IF d \in ds THEN {} ELSE {d} \X F
             G == {d} \X fragments[d]
  <1>1. K \in SUBSET H /\ G \in SUBSET K
    BY Zenon DEF Kept
  <1>2. Kept(Datagrams)' = (H \ K) \cup N
    <2>1. Kept(Datagrams)' = UNION {{e} \X fragments'[e] : e \in Datagrams}
      BY Zenon DEF Kept
    <2>2. ASSUME NEW p PROVE p \in Kept(Datagrams)' <=> p \in (H \ K) \cup N
      BY <2>1 DEF Kept, Replaced
    <2> QED  BY Zenon, <2>2
  <1>3. N \cap (H \ K) = {}
    BY DEF Kept
  <1>4. IsFiniteSet(H) /\ H = Kept(Datagrams) /\ K = Kept(ds \cup {d})
    BY Zenon
  <1>5. IsFiniteSet({d} \X F) /\ Cardinality({d} \X F) = Cardinality(F)
    <2>1. IsFiniteSet({d}) /\ Cardinality({d}) = 1
      BY Zenon, FS_Singleton
    <2>2. IsFiniteSet({d} \X F) /\ Cardinality({d} \X F) = Cardinality({d}) * Cardinality(F)
      BY Zenon, <2>1, FS_Product
    <2>3. Cardinality(F) \in Nat
      BY Zenon, FS_CardinalityType
    <2> QED  BY <2>1, <2>2, <2>3
  <1>6. IsFiniteSet(N) /\ Cardinality(N) = IF d \in ds THEN 0 ELSE Cardinality(F)
    BY Zenon, <1>5, FS_EmptySet
  <1>7. ASSUME NEW i, F = fragments[d] \cup {i} PROVE Cardinality(F) <= Cardinality(G) + 1
    <2>1. {d} \X F = G \cup {<<d, i>>}
      BY <1>7
    <2>2. IsFiniteSet(G)
      BY Zenon, <1>1, <1>4, FS_Subset
    <2>3. Cardinality(G) \in Nat
      BY Zenon, <2>2, FS_CardinalityType
    <2>4. Cardinality({d} \X F) \in {Cardinality(G), Cardinality(G) + 1}
      BY Zenon, <2>1, <2>2, FS_AddElement
    <2> QED  BY <2>3, <2>4, <1>5
  <1> HIDE DEF H, K, N, G
  <1>8. /\ IsFiniteSet(H \ K)
        /\ Cardinality(H \ K) = Cardinality(H) - Cardinality(H \cap K)
    BY Zenon, <1>4, FS_Difference
  <1>9. H \cap K = K
    BY Zenon, <1>1
  <1>10. /\ IsFiniteSet((H \ K) \cup N)
         /\ Cardinality((H \ K) \cup N)
              = Cardinality(H \ K) + Cardinality(N) - Cardinality((H \ K) \cap N)
    BY Zenon, <1>8, <1>6, FS_Union
  <1>11. Cardinality((H \ K) \cap N) = 0
    <2>1. (H \ K) \cap N = {}
      BY Zenon, <1>3
    <2> QED  BY Zenon, <2>1, FS_EmptySet
  <1>12. IsFiniteSet(K) /\ Cardinality(K) \in Nat /\ Cardinality(H) \in Nat /\ Cardinality(N) \in Nat
    BY Zenon, <1>1, <1>4, <1>6, FS_Subset, FS_CardinalityType
  <1>13. Cardinality(G) <= Cardinality(K) /\ Cardinality(G) \in Nat
    BY Zenon, <1>1, <1>12, FS_Subset, FS_CardinalityType
  <1>14. Cardinality(Kept(Datagrams)') = Cardinality(H) - Cardinality(K) + Cardinality(N)
    <2>1. /\ Cardinality(Kept(Datagrams)') = Cardinality(H \ K) + Cardinality(N) - 0
          /\ Cardinality(H \ K) = Cardinality(H) - Cardinality(K)
      BY Zenon, <1>2, <1>8, <1>9, <1>10, <1>11
    <2> QED  BY <2>1, <1>12
  <1>15. Cardinality(F) \in Nat
    BY Zenon, FS_CardinalityType
  <1>16. d \in ds => Cardinality(Kept(Datagrams)') <= Cardinality(H)
    BY <1>14, <1>12, <1>6
  <1>17. \A i : F = fragments[d] \cup {i} => Cardinality(Kept(Datagrams)') <= Cardinality(H) + 1
    <2> SUFFICES ASSUME NEW i, F = fragments[d] \cup {i}
                 PROVE  Cardinality(Kept(Datagrams)') <= Cardinality(H) + 1
      BY Zenon
    <2>1. Cardinality(N) = 0 \/ Cardinality(N) = Cardinality(F)
      BY Zenon, <1>6
    <2>2. Cardinality(F) <= Cardinality(G) + 1
      BY Zenon, <1>7
    <2> QED  BY <2>1, <2>2, <1>14, <1>12, <1>13, <1>15
  <1> QED  BY Zenon, <1>2, <1>4, <1>6, <1>10, <1>14, <1>16, <1>17


\* What queueing a datagram does to a socket's queue (packetfilter.cpp).
LEMMA Enqueued ==
  ASSUME NEW q \in Seq(Datagrams), NEW d \in Datagrams, Distinct(q), ~Queued(d, q)
  PROVE  /\ Append(q, d) \in Seq(Datagrams)
         /\ Distinct(Append(q, d))
         /\ \A e : Queued(e, Append(q, d)) <=> Queued(e, q) \/ e = d
  <1> DEFINE r == Append(q, d)
  <1>1. /\ r \in Seq(Datagrams) /\ Len(r) = Len(q) + 1 /\ Len(q) \in Nat
        /\ r[Len(q) + 1] = d
        /\ \A i \in 1..Len(q) : r[i] = q[i]
    OBVIOUS
  <1>2. 1..Len(r) = (1..Len(q)) \cup {Len(q) + 1}
    BY <1>1
  <1> HIDE DEF r
  <1>3. \A e : Queued(e, r) <=> Queued(e, q) \/ e = d
    BY Zenon, <1>1, <1>2 DEF Queued
  <1>4. Distinct(r)
    BY Zenon, <1>1, <1>2 DEF Distinct, Queued
  <1> QED  BY Zenon, <1>1, <1>3, <1>4 DEF r

\* What taking the first one does to it.
LEMMA Dequeued ==
  ASSUME NEW q \in Seq(Datagrams), q # <<>>, Distinct(q)
  PROVE  /\ Tail(q) \in Seq(Datagrams)
         /\ Distinct(Tail(q))
         /\ Head(q) \in Datagrams
         /\ Queued(Head(q), q)
         /\ \A e : Queued(e, q) <=> e = Head(q) \/ Queued(e, Tail(q))
         /\ ~Queued(Head(q), Tail(q))
  <1> DEFINE r == Tail(q)
  <1>1. /\ r \in Seq(Datagrams) /\ Len(q) \in Nat /\ Len(q) > 0
        /\ Len(r) = Len(q) - 1
        /\ Head(q) = q[1] /\ q[1] \in Datagrams
        /\ \A i \in 1..Len(r) : r[i] = q[i + 1]
    OBVIOUS
  <1> HIDE DEF r
  <1>2. \A i \in 1..Len(r) : i + 1 \in 1..Len(q) /\ i + 1 # 1
    BY <1>1
  <1>3. 1 \in 1..Len(q)
    BY <1>1
  <1>4. Distinct(r)
    BY <1>1, <1>2 DEF Distinct
  <1>6. Queued(Head(q), q)
    BY Zenon, <1>1, <1>3 DEF Queued
  <1>5. \A e : Queued(e, q) <=> e = Head(q) \/ Queued(e, r)
    <2>1. \A e : Queued(e, r) => Queued(e, q)
      BY Zenon, <1>1, <1>2 DEF Queued
    <2>2. \A k \in 1..Len(q) : k = 1 \/ (k - 1 \in 1..Len(r) /\ r[k - 1] = q[k])
      BY <1>1
    <2>3. \A e : Queued(e, q) => e = Head(q) \/ Queued(e, r)
      BY Zenon, <2>2, <1>1 DEF Queued
    <2> QED  BY Zenon, <2>1, <2>3, <1>6
  <1>7. ~Queued(Head(q), r)
    BY Zenon, <1>1, <1>2, <1>3 DEF Queued, Distinct
  <1> QED  BY Zenon, <1>1, <1>4, <1>5, <1>6, <1>7 DEF r

\* When ingest_fragment finds the packet done, every fragment is there.
LEMMA CompleteIsWhole ==
  ASSUME NEW n \in Nat, n # 0, NEW gap \in Nat, NEW last \in BOOLEAN, NEW F \in SUBSET (1..n),
         1..gap \subseteq F, last => n \in F, Network!Complete(gap, last, F)
  PROVE  F = 1..n
  <1>1. n \in F /\ gap = Network!Max(F)
    BY Zenon DEF Network!Complete
  <1>2. \A y \in F : n >= y
    OBVIOUS
  <1>3. Network!Max(F) \in F /\ \A y \in F : Network!Max(F) >= y
    BY Zenon, <1>1, <1>2 DEF Network!Max
  <1>4. Network!Max(F) = n
    BY <1>1, <1>2, <1>3
  <1> QED  BY Zenon, <1>1, <1>4

\* Nothing has been received when the network starts.
LEMMA InitIInv == Constants /\ Network!Init => NetIInv
  <1> SUFFICES ASSUME Constants, Network!Init PROVE NetIInv
    BY Zenon
  <1>1. \A s \in Sockets : mq[s] = <<>> /\ held[s] = None
    BY Zenon DEF Network!Init
  <1>2. \A s \in Sockets : Len(mq[s]) = 0
    BY <1>1
  <1>3. \A s \in Sockets : Distinct(mq[s]) /\ \A d : ~Queued(d, mq[s])
    BY <1>2 DEF Distinct, Queued
  <1>4. NetTypeOK
    <2>1. have_last \in [Datagrams -> BOOLEAN]
      BY Zenon DEF Network!Init
    <2>2. mq \in [Sockets -> Seq(Datagrams)]
      BY DEF Network!Init
    <2>3. fragments \in [Datagrams -> SUBSET Nat] /\ next_gap \in [Datagrams -> Nat]
      BY Zenon DEF Network!Init
    <2>4. /\ home \in [Datagrams -> {"none", "new", "old"}]
          /\ handler \in [Sockets -> {"none", "live", "unregistered"}]
          /\ held \in [Sockets -> Datagrams \cup {None}]
      BY Zenon DEF Network!Init
    <2> QED  BY Zenon, <2>1, <2>2, <2>3, <2>4 DEF NetTypeOK
  <1>5. Arrived /\ GapIsFilled
    BY DEF Network!Init, Arrived, GapIsFilled
  <1>6. OnePlace
    BY Zenon, <1>1, <1>3, Zenon DEF OnePlace, At, Constants
  <1>7. Fragmented
    BY Zenon DEF Network!Init, Fragmented
  <1>8. Accounted
    <2>1. Kept(Datagrams) = {} /\ Partial = {}
      BY DEF Network!Init, Kept, Partial
    <2>2. depth = 0 /\ \A d \in Datagrams : fragments[d] = {}
      BY Zenon DEF Network!Init
    <2>3. IsFiniteSet({}) /\ Cardinality({}) = 0
      BY Zenon, FS_EmptySet
    <2>4. 0 <= QUEUE_SIZE + 1 /\ 0 <= MAX_PARTIAL_PACKETS + 1
      BY DEF Constants
    <2> QED  BY Zenon, <2>1, <2>2, <2>3, <2>4 DEF Accounted
  <1> QED  BY Zenon, <1>4, <1>5, <1>6, <1>7, <1>8 DEF NetIInv

\* The datagrams ds of socket s are taken out and deleted, and no others.
Deleted(s, ds) ==
    /\ ds \in SUBSET Datagrams /\ \A d \in ds : At(d, s)
    /\ fragments' = [e \in Datagrams |-> IF e \in ds THEN {} ELSE fragments[e]]
    /\ mq' \in [Sockets -> Seq(Datagrams)]
    /\ handler' \in [Sockets -> {"none", "live", "unregistered"}]
    /\ held' \in [Sockets -> Datagrams \cup {None}]
    /\ \A r \in Sockets : Distinct(mq'[r]) /\ ~Queued(held'[r], mq'[r])
    /\ \A d \in Datagrams, r \in Sockets :
          (Queued(d, mq'[r]) \/ held'[r] = d) <=> (At(d, r) /\ d \notin ds)
    /\ depth' = depth - Cardinality(Kept(ds))
    /\ Network!unchangedBySockets

\* Such a step keeps the invariant (socket_recv, DeleteView, pfhandler_free).
LEMMA DeletedIInv ==
  ASSUME Constants, NetIInv, NEW s \in Sockets, NEW ds, Deleted(s, ds)
  PROVE  NetIInv'
  <1>0. \A d \in ds : d \in Datagrams /\ At(d, s)
    BY Zenon DEF Deleted
  <1>u. /\ NetTypeOK /\ Arrived /\ GapIsFilled /\ OnePlace /\ Fragmented /\ Accounted
        /\ UNCHANGED <<in_flight, home, next_gap, have_last, removing, net_failed>>
    BY Zenon DEF NetIInv, Deleted, Network!unchangedBySockets
  <1>1. \A d \in ds : Done(d)
    BY Zenon, <1>0, <1>u DEF OnePlace, Arrived, Done
  <1> USE DEF Deleted
  <1>2. NetTypeOK'
    BY Zenon, <1>u DEF NetTypeOK
  <1>3. Arrived'
    BY Zenon, <1>u DEF Arrived
  <1>4. \A d \in Datagrams : Done(d)' <=> Done(d)
    BY Zenon, <1>u DEF Done
  <1>5. GapIsFilled'
    BY ZenonT(30), <1>u, <1>1, <1>4 DEF GapIsFilled
  <1>6. \A d \in Datagrams, r \in Sockets : At(d, r)' <=> At(d, r) /\ d \notin ds
    BY Zenon DEF At
  <1>7. OnePlace'
    BY ZenonT(40), <1>u, <1>6 DEF OnePlace
  <1>8. Fragmented'
    BY Zenon, <1>u DEF Fragmented
  <1>9. IsFiniteSet(Kept(Datagrams)') /\ depth' = Cardinality(Kept(Datagrams)') /\ depth' <= depth
    <2>1. IsFiniteSet(Kept(Datagrams)) /\ depth = Cardinality(Kept(Datagrams)) /\ depth \in Nat
      BY Zenon, <1>u, FS_CardinalityType DEF Accounted
    <2>2. CASE ds = {}
      <3>1. Kept(ds) = {}
        BY Zenon, <2>2 DEF Kept
      <3>2. Kept(Datagrams)' = Kept(Datagrams)
        <4>1. \A e \in Datagrams : fragments'[e] = fragments[e]
          BY Zenon, <2>2
        <4> QED  BY <4>1 DEF Kept
      <3>3. Cardinality(Kept(ds)) = 0
        BY Zenon, <3>1, FS_EmptySet
      <3>4. depth' = depth /\ depth' <= depth
        BY <2>1, <3>3
      <3> QED  BY Zenon, <2>1, <3>2, <3>4
    <2>3. CASE ds # {}
      <3>1. PICK d \in ds : TRUE
        BY Zenon, <2>3
      <3>2. d \in Datagrams /\ ds \cup {d} = ds /\ IsFiniteSet({})
        <4> HIDE DEF Deleted
        <4>1. ds \cup {d} = ds
          BY Zenon, <3>1
        <4> QED  BY Zenon, <1>0, <3>1, <4>1, FS_EmptySet
      <3>3. Replaced(ds, d, {})
        BY ZenonT(30), <3>1 DEF Replaced
      <3>4. /\ IsFiniteSet(Kept(Datagrams)')
            /\ Cardinality(Kept(Datagrams)')
                 = Cardinality(Kept(Datagrams)) - Cardinality(Kept(ds)) + 0
            /\ Cardinality(Kept(Datagrams)') <= Cardinality(Kept(Datagrams))
        BY ZenonT(60), <2>1, <3>1, <3>2, <3>3, Recounted
      <3>5. IsFiniteSet(Kept(ds))
        <4>1. Kept(ds) \in SUBSET Kept(Datagrams)
          BY DEF Kept
        <4> QED  BY Zenon, <4>1, <2>1, FS_Subset
      <3>6. Cardinality(Kept(ds)) \in Nat
        BY Zenon, <3>5, FS_CardinalityType
      <3> QED  BY <2>1, <3>4, <3>6
    <2> QED  BY Zenon, <2>2, <2>3
  <1>10. Accounted'
    <2>1. Partial' = Partial
      BY Zenon, <1>u DEF Partial
    <2>2. depth' <= QUEUE_SIZE + 1
      <3>1. depth \in Nat /\ depth <= QUEUE_SIZE + 1 /\ QUEUE_SIZE \in Nat
        BY Zenon, <1>u, FS_CardinalityType DEF Accounted, Constants
      <3>2. Cardinality(Kept(Datagrams)') \in Nat
        BY Zenon, <1>9, FS_CardinalityType
      <3>3. depth' \in Nat /\ depth' <= depth
        BY Zenon, <1>9, <3>2
      <3> QED  BY <3>1, <3>3
    <2>3. ASSUME NEW d \in Datagrams, fragments'[d] # {}, home'[d] = "none" \/ removing' = d
          PROVE  \E r \in Sockets : At(d, r)'
      <3>1. fragments[d] # {} /\ d \notin ds
        BY Zenon, <2>3
      <3>2. \E r \in Sockets : At(d, r)
        BY Zenon, <2>3, <3>1, <1>u DEF Accounted
      <3> QED  BY Zenon, <3>1, <3>2, <1>6
    <2> QED  BY Zenon, <2>1, <2>2, <2>3, <1>9, <1>u DEF Accounted
  <1> QED  BY SMTT(30), <1>2, <1>3, <1>5, <1>7, <1>8, <1>10 DEF NetIInv

\* A step that changes neither packets nor sockets leaves the buffers accounted for.
LEMMA StillAccounted ==
  ASSUME Accounted, UNCHANGED <<fragments, home, mq, held, depth, removing>>
  PROVE  Accounted'
  <1>1. Kept(Datagrams)' = Kept(Datagrams) /\ Partial' = Partial
    BY Zenon DEF Kept, Partial
  <1>2. \A d \in Datagrams, s \in Sockets : At(d, s)' <=> At(d, s)
    BY Zenon DEF At
  <1> QED  BY Zenon, <1>1, <1>2 DEF Accounted

Same(e) == next_gap'[e] = next_gap[e] /\ have_last'[e] = have_last[e]
Reset(e) == next_gap'[e] = 0 /\ have_last'[e] = FALSE

\* Fragment i of d is received: the datagrams dropped are deleted while partial, and
\* d becomes a packet with fragments F, which is dispatched only if they are all.
Ingested(d, i, dropped, F) ==
    /\ removing = None /\ ~net_failed /\ depth <= QUEUE_SIZE
    /\ <<d, i>> \in in_flight /\ in_flight' = in_flight \ {<<d, i>>}
    /\ \A e \in dropped : home[e] # "none" /\ e # d
    /\ F = fragments[d] \cup {i} \/ (F = {i} /\ Frags[d] = 1)
    /\ home' \in [Datagrams -> {"none", "new", "old"}]
    /\ \A e \in Datagrams : e # d => (home'[e] # "none" => home[e] # "none")
    /\ \A e \in Datagrams \ dropped : home'[e] = "none" => home[e] = "none"
    /\ home'[d] # "none" => Frags[d] > 1
    /\ IsFiniteSet(Partial') /\ Cardinality(Partial') <= MAX_PARTIAL_PACKETS + 1
    /\ next_gap' \in [Datagrams -> Nat]
    /\ have_last' \in [Datagrams -> BOOLEAN]
    /\ \A e \in Datagrams \ {d} : Same(e) \/ Reset(e)
    /\ \A e \in dropped : Reset(e)
    /\ \/ /\ F = 1..Frags[d] /\ Network!dispatch_packet(d, F, dropped)
          /\ removing' = d \/ (removing' = None /\ home'[d] = "none")
       \/ /\ mq' = mq /\ Network!Account(dropped, d, F)
          /\ removing' = None /\ home'[d] # "none"
          /\ 1..next_gap'[d] \subseteq F
          /\ have_last'[d] => Frags[d] \in F
    /\ UNCHANGED <<handler, held, net_failed>>

\* Such a step keeps the invariant (handle_fragment, dispatch_packet).
LEMMA IngestedIInv ==
  ASSUME Constants, NetIInv,
         NEW d \in Datagrams, NEW i \in 1..Frags[d],
         NEW dropped \in SUBSET Datagrams, NEW F \in SUBSET Nat,
         Ingested(d, i, dropped, F)
  PROVE  NetIInv'
  <1> USE DEF Ingested
  <1>u. /\ NetTypeOK /\ Arrived /\ GapIsFilled /\ OnePlace /\ Fragmented /\ Accounted
        /\ Frags[d] \in Nat /\ Frags[d] # 0
    BY Zenon DEF NetIInv, Constants
  <1>1. \A s \in Sockets : ~At(d, s)
    BY Zenon, <1>u DEF OnePlace, Arrived
  <1>2. \A e \in dropped, s \in Sockets : ~At(e, s)
    BY Zenon, <1>u DEF OnePlace, Constants
  <1>c. \A ds : Network!Buffers(ds) = Cardinality(Kept(ds))
    BY Zenon, NetworkCardinality DEF Network!Buffers, Kept
  <1>3. PICK G \in SUBSET Nat :
           /\ fragments' = [e \in Datagrams |-> IF e \in dropped THEN {}
                                                ELSE IF e = d THEN G ELSE fragments[e]]
           /\ G = F \/ G = {}
           /\ \/ mq' = mq /\ (G = {} \/ (home'[d] # "none" /\ removing' = None))
              \/ mq' = [mq EXCEPT ![Port[d]] = Append(@, d)] /\ G = F /\ F = 1..Frags[d]
                 /\ (removing' = d \/ home'[d] = "none")
           /\ removing' \in {None, d}
           /\ depth' = depth - Cardinality(Kept(dropped \cup {d})) + Cardinality(G)
           /\ \/ F = 1..Frags[d]
              \/ G = F /\ mq' = mq /\ 1..next_gap'[d] \subseteq F
                 /\ (have_last'[d] => Frags[d] \in F)
    <2>0. d \notin dropped
      BY Zenon
    <2>1. CASE /\ F = 1..Frags[d] /\ Network!dispatch_packet(d, F, dropped)
               /\ removing' = d \/ (removing' = None /\ home'[d] = "none")
      <3>1. CASE handler[Port[d]] = "live"
        <4>1. /\ mq' = [mq EXCEPT ![Port[d]] = Append(@, d)]
              /\ fragments' = [e \in Datagrams |-> IF e \in dropped THEN {}
                                               ELSE IF e = d THEN F ELSE fragments[e]]
              /\ depth' = depth - Network!Buffers(dropped \cup {d}) + Network!Cardinality(F)
          BY Zenon, <2>0, <2>1, <3>1 DEF Network!dispatch_packet, Network!Account
        <4> QED  BY Zenon, <2>1, <4>1, <1>c, NetworkCardinality
      <3>2. CASE handler[Port[d]] # "live"
        <4>1. /\ mq' = mq
              /\ fragments' = [e \in Datagrams |-> IF e \in dropped \cup {d} THEN {}
                                               ELSE IF e = d THEN F ELSE fragments[e]]
              /\ depth' = depth - Network!Buffers(dropped \cup {d} \cup {d}) + 0
          BY Zenon, <2>1, <3>2 DEF Network!dispatch_packet, Network!Account
        <4>2. fragments' = [e \in Datagrams |-> IF e \in dropped THEN {}
                                               ELSE IF e = d THEN {} ELSE fragments[e]]
          BY Zenon, <4>1
        <4>3. dropped \cup {d} \cup {d} = dropped \cup {d} /\ Cardinality({}) = 0
          BY Zenon, FS_EmptySet
        <4>4. depth' = depth - Cardinality(Kept(dropped \cup {d})) + Cardinality({})
          BY Zenon, <4>1, <4>3, <1>c
        <4> QED  BY Zenon, <2>1, <4>1, <4>2, <4>4
      <3> QED  BY Zenon, <3>1, <3>2, Zenon
    <2>2. CASE /\ mq' = mq /\ Network!Account(dropped, d, F)
               /\ removing' = None /\ home'[d] # "none"
               /\ 1..next_gap'[d] \subseteq F
               /\ have_last'[d] => Frags[d] \in F
      <3>1. /\ fragments' = [e \in Datagrams |-> IF e \in dropped THEN {}
                                               ELSE IF e = d THEN F ELSE fragments[e]]
            /\ depth' = depth - Cardinality(Kept(dropped \cup {d})) + Cardinality(F)
        BY Zenon, <2>0, <2>2, <1>c, NetworkCardinality DEF Network!Account
      <3> QED  BY Zenon, <2>2, <3>1
    <2> QED  BY Zenon, <2>1, <2>2, Zenon
  <1>4. /\ mq' \in [Sockets -> Seq(Datagrams)]
        /\ \A s \in Sockets : Distinct(mq'[s])
        /\ \A e \in Datagrams, s \in Sockets :
             Queued(e, mq'[s]) <=> Queued(e, mq[s]) \/ (mq' # mq /\ e = d /\ s = Port[d])
        /\ \A s \in Sockets : held[s] = None => ~Queued(held[s], mq'[s])
        /\ G = {} \/ (home'[d] # "none" /\ removing' = None) \/ Queued(d, mq'[Port[d]])
    <2>1. CASE mq' = mq /\ (G = {} \/ (home'[d] # "none" /\ removing' = None))
      BY Zenon, <2>1, <1>u DEF NetTypeOK, OnePlace
    <2>2. CASE mq' = [mq EXCEPT ![Port[d]] = Append(@, d)]
      <3>1. Port[d] \in Sockets /\ mq[Port[d]] \in Seq(Datagrams) /\ Distinct(mq[Port[d]])
            /\ ~Queued(d, mq[Port[d]])
        BY Zenon, <1>u, <1>1 DEF NetTypeOK, OnePlace, Constants, At
      <3>2. /\ Append(mq[Port[d]], d) \in Seq(Datagrams)
            /\ Distinct(Append(mq[Port[d]], d))
            /\ \A e : Queued(e, Append(mq[Port[d]], d)) <=> Queued(e, mq[Port[d]]) \/ e = d
        BY Zenon, <3>1, Enqueued
      <3>3. \A s \in Sockets : mq'[s] = IF s = Port[d] THEN Append(mq[Port[d]], d) ELSE mq[s]
        BY Zenon, <2>2, <1>u DEF NetTypeOK
      <3>4. mq' # mq
        BY <3>1, <3>2, <3>3
      <3>5. mq' \in [Sockets -> Seq(Datagrams)]
        BY ZenonT(40), <2>2, <3>1, <3>2, <1>u DEF NetTypeOK
      <3>6. \A s \in Sockets : Distinct(mq'[s])
        BY Zenon, <3>2, <3>3, <1>u, Zenon DEF OnePlace
      <3>7. \A s \in Sockets : \A e : Queued(e, mq'[s]) <=> Queued(e, mq[s]) \/ (e = d /\ s = Port[d])
        BY Zenon, <3>2, <3>3
      <3>8. \A s \in Sockets : held[s] = None => ~Queued(held[s], mq'[s])
        <4>1. d # None /\ \A s \in Sockets : ~Queued(held[s], mq[s])
          BY Zenon, <1>u DEF OnePlace, Constants
        <4> QED  BY Zenon, <3>7, <4>1
      <3>9. Queued(d, mq'[Port[d]])
        BY Zenon, <3>1, <3>7
      <3> QED  BY Zenon, <3>4, <3>5, <3>6, <3>7, <3>8, <3>9
    <2> QED  BY Zenon, <1>3, <2>1, <2>2
  <1>5. NetTypeOK'
    <2>1. fragments' \in [Datagrams -> SUBSET Nat]
      BY Zenon, <1>3, <1>u DEF NetTypeOK
    <2> QED  BY Zenon, <2>1, <1>4, <1>u DEF NetTypeOK
  <1>6. F \subseteq 1..Frags[d] /\ \A j \in F : <<d, j>> \notin in_flight'
    BY Zenon, <1>u DEF Arrived
  <1>7. Arrived'
    BY Zenon, <1>3, <1>6, <1>u, ZenonT(40) DEF Arrived
  <1>8. \A e \in Datagrams : e # d => (Done(e)' <=> Done(e))
    BY Zenon DEF Done
  <1>9. F = 1..Frags[d] => Done(d)'
    BY Zenon, <1>6 DEF Done
  <1>10. GapIsFilled'
    <2> SUFFICES ASSUME NEW e \in Datagrams, ~Done(e)'
                 PROVE  /\ 1..next_gap'[e] \subseteq fragments'[e]
                        /\ have_last'[e] => Frags[e] \in fragments'[e]
      BY Zenon DEF GapIsFilled
    <2>1. CASE e = d
      BY ZenonT(40), <2>1, <1>3, <1>9
    <2>2. CASE e # d /\ Reset(e)
      BY <2>2 DEF Reset
    <2>3. CASE e # d /\ Same(e) /\ e \notin dropped
      <3>1. ~Done(e) /\ fragments'[e] = fragments[e]
        BY ZenonT(40), <2>3, <1>3, <1>8
      <3> QED  BY ZenonT(40), <2>3, <3>1, <1>u DEF GapIsFilled, Same
    <2> QED  BY Zenon, <2>1, <2>2, <2>3
  <1>11. \A s \in Sockets : ~Queued(held'[s], mq'[s])
    BY <1>1, <1>4, <1>u DEF OnePlace, NetTypeOK, At
  <1>12. ASSUME NEW e \in Datagrams, NEW s \in Sockets, At(e, s)'
         PROVE  /\ s = Port[e] /\ fragments'[e] = 1..Frags[e]
                /\ home'[e] # "none" => removing' = e \/ net_failed'
    <2>1. CASE At(e, s)
      BY SMTT(30), <2>1, <1>1, <1>2, <1>3, <1>u DEF OnePlace, Constants
    <2>2. CASE ~At(e, s)
      <3>1. mq' # mq /\ e = d /\ s = Port[d]
        BY Zenon, <2>2, <1>12, <1>4 DEF At
      <3>2. d \notin dropped
        BY Zenon
      <3> QED  BY Zenon, <3>1, <3>2, <1>3
    <2> QED  BY Zenon, <2>1, <2>2
  <1>13. Fragmented'
    BY ZenonT(30), <1>u DEF Fragmented
  <1>14. /\ IsFiniteSet(Kept(Datagrams)') /\ depth' = Cardinality(Kept(Datagrams)')
         /\ depth' <= QUEUE_SIZE + 1
    <2>1. IsFiniteSet(Kept(Datagrams)) /\ depth = Cardinality(Kept(Datagrams))
      BY Zenon, <1>u DEF Accounted
    <2>2. IsFiniteSet(G)
      <3>1. IsFiniteSet(1..Frags[d])
        <4>1. 1 \in Int /\ Frags[d] \in Int
          BY <1>u
        <4> QED  BY Zenon, <4>1, FS_Interval
      <3>2. G \in SUBSET (1..Frags[d])
        BY Zenon, <1>3, <1>6
      <3> QED  BY Zenon, <3>1, <3>2, FS_Subset
    <2>3. Replaced(dropped, d, G)
      BY Zenon, <1>3 DEF Replaced
    <2>4. d \notin dropped
      BY Zenon
    <2>5. /\ IsFiniteSet(Kept(Datagrams)')
          /\ Cardinality(Kept(Datagrams)') = Cardinality(Kept(Datagrams))
                - Cardinality(Kept(dropped \cup {d})) + Cardinality(G)
          /\ \A j : G = fragments[d] \cup {j}
                => Cardinality(Kept(Datagrams)') <= Cardinality(Kept(Datagrams)) + 1
      <3> HIDE DEF Ingested
      <3> QED  BY Zenon, <2>1, <2>2, <2>3, <2>4, Recounted
    <2>6. depth' = Cardinality(Kept(Datagrams)')
      BY Zenon, <2>1, <2>5, <1>3
    <2>7. /\ depth \in Nat /\ Cardinality(Kept(dropped \cup {d})) \in Nat
          /\ QUEUE_SIZE \in Nat /\ Cardinality(Kept(Datagrams)') \in Nat
      <3>1. Kept(dropped \cup {d}) \in SUBSET Kept(Datagrams)
        BY DEF Kept
      <3>2. IsFiniteSet(Kept(dropped \cup {d}))
        BY Zenon, <2>1, <3>1, FS_Subset
      <3> QED  BY Zenon, <2>1, <2>5, <3>2, FS_CardinalityType DEF Constants
    <2>8. CASE G = {}
      <3>1. Cardinality(G) = 0
        BY Zenon, <2>8, FS_EmptySet
      <3> QED  BY <2>1, <2>5, <2>6, <2>7, <3>1
    <2>9. CASE G # {}
      <3>1. Frags[d] = 1 => fragments[d] = {}
        <4> SUFFICES ASSUME Frags[d] = 1, NEW j \in fragments[d] PROVE FALSE
          BY Zenon
        <4>1. j \in 1..Frags[d] /\ <<d, j>> \notin in_flight
          BY Zenon, <1>u DEF Arrived
        <4>2. i = j
          BY <4>1
        <4> QED  BY Zenon, <4>1, <4>2
      <3>2. G = fragments[d] \cup {i}
        BY Zenon, <2>9, <3>1, <1>3
      <3>3. Cardinality(Kept(Datagrams)') <= Cardinality(Kept(Datagrams)) + 1
        BY Zenon, <2>5, <3>2
      <3> QED  BY <2>1, <2>5, <2>6, <2>7, <3>3
    <2> QED  BY Zenon, <2>8, <2>9
  <1>15. ASSUME NEW e \in Datagrams, fragments'[e] # {}, home'[e] = "none" \/ removing' = e
         PROVE  \E s \in Sockets : At(e, s)'
    <2>1. CASE e = d
      <3>1. fragments'[d] = G
        BY Zenon, <1>3
      <3>2. d # None /\ Port[d] \in Sockets
        BY Zenon DEF Constants
      <3> QED  BY Zenon, <1>4, <1>15, <2>1, <3>1, <3>2 DEF At
    <2>2. CASE e # d
      <3>1. e \notin dropped /\ fragments'[e] = fragments[e]
        BY Zenon, <1>3, <1>15, <2>2
      <3>2. e # None
        BY Zenon DEF Constants
      <3>3. home[e] = "none"
        BY Zenon, <1>3, <1>15, <2>2, <3>1, <3>2
      <3>4. PICK s \in Sockets : At(e, s)
        BY Zenon, <1>15, <3>1, <3>3, <1>u DEF Accounted
      <3> QED  BY Zenon, <3>4, <1>4 DEF At
    <2> QED  BY Zenon, <2>1, <2>2
  <1>16. Accounted'
    BY Zenon, <1>14, <1>15 DEF Accounted
  <1> QED  BY SMTT(30), <1>4, <1>5, <1>7, <1>10, <1>11, <1>12, <1>13, <1>16 DEF NetIInv, OnePlace

\* After tidy there is room for one more partial packet (FragmentReassembly.cpp:255-315).
LEMMA Tidied ==
  ASSUME Constants, NetTypeOK, IsFiniteSet(Partial)
  PROVE  LET T == {e \in Datagrams : Network!tidy[e] # "none"}
         IN  IsFiniteSet(T) /\ Cardinality(T) \in Nat /\ Cardinality(T) <= MAX_PARTIAL_PACKETS
  <1> DEFINE T == {e \in Datagrams : Network!tidy[e] # "none"}
             New == {e \in Datagrams : home[e] \in {"new"}}
  <1>1. Network!Partials({"new", "old"}) = Partial /\ Network!Partials({"new"}) = New
    BY Zenon DEF Network!Partials, Partial, NetTypeOK
  <1>2. \A e \in Datagrams : Network!tidy[e] =
           IF Cardinality(Partial) <= MAX_PARTIAL_PACKETS THEN home[e]
           ELSE IF home[e] = "new" /\ Cardinality(New) <= MAX_PARTIAL_PACKETS THEN "old" ELSE "none"
    BY Zenon, <1>1, NetworkCardinality DEF Network!tidy
  <1>3. IsFiniteSet(New)
    <2>1. New \in SUBSET Partial
      BY Zenon DEF Partial
    <2> QED  BY Zenon, <2>1, FS_Subset
  <1>4. Cardinality(Partial) \in Nat /\ Cardinality(New) \in Nat
    BY Zenon, <1>3, FS_CardinalityType
  <1>5. CASE Cardinality(Partial) <= MAX_PARTIAL_PACKETS
    <2>1. T = Partial
      BY Zenon, <1>2, <1>5 DEF Partial
    <2> QED  BY Zenon, <2>1, <1>4, <1>5
  <1>6. CASE ~(Cardinality(Partial) <= MAX_PARTIAL_PACKETS) /\ Cardinality(New) <= MAX_PARTIAL_PACKETS
    <2>1. T = New
      BY Zenon, <1>2, <1>6
    <2> QED  BY Zenon, <2>1, <1>3, <1>4, <1>6
  <1>7. CASE ~(Cardinality(Partial) <= MAX_PARTIAL_PACKETS) /\ ~(Cardinality(New) <= MAX_PARTIAL_PACKETS)
    <2>1. T = {}
      BY Zenon, <1>2, <1>7
    <2>2. 0 \in Nat /\ 0 <= MAX_PARTIAL_PACKETS
      BY DEF Constants
    <2> QED  BY Zenon, <2>1, <2>2, FS_EmptySet
  <1> QED  BY Zenon, <1>5, <1>6, <1>7

\* Every step of the dispatcher, the network and the sockets keeps the invariant
\* (xax_skinny_network.cpp:59-166, FragmentReassembly.cpp:148-202, 255-315).
LEMMA NextIInv == Constants /\ NetIInv /\ [Network!Next]_(Network!vars) => NetIInv'
  <1> SUFFICES ASSUME Constants, NetIInv, [Network!Next]_(Network!vars) PROVE NetIInv'
    BY Zenon
  <1>u. NetTypeOK /\ Arrived /\ GapIsFilled /\ OnePlace /\ Fragmented /\ Accounted
    BY Zenon DEF NetIInv
  <1>1. ASSUME NEW d \in Datagrams, NEW i \in 1..Frags[d], Network!Receive(d, i) PROVE NetIInv'
    <2>u. /\ removing = None /\ ~net_failed /\ <<d, i>> \in in_flight
          /\ in_flight' = in_flight \ {<<d, i>>}
          /\ UNCHANGED <<handler, held, net_failed>>
          /\ i \in Nat /\ i # 0 /\ Frags[d] \in Nat /\ Frags[d] # 0
      BY <1>1, SMTT(20) DEF Network!Receive, Constants
    <2>1. CASE UNCHANGED <<Network!packets, mq, depth, removing>>
      <3>1. \A e \in Datagrams : Done(e) => Done(e)'
        BY Zenon, <2>u DEF Done
      <3>2. UNCHANGED <<home, fragments, next_gap, have_last, mq, handler, held, depth, removing, net_failed>>
        BY Zenon, <2>u, <2>1 DEF Network!packets
      <3>3. Accounted'
        BY Zenon, <3>2, <1>u, StillAccounted
      <3> QED  BY <2>u, <3>1, <3>2, <3>3, <1>u
               DEF NetIInv, NetTypeOK, Arrived, GapIsFilled, OnePlace, At, Fragmented
    <2>2. CASE /\ depth <= QUEUE_SIZE /\ Frags[d] = 1 /\ Network!dispatch_packet(d, {1}, {})
               /\ UNCHANGED <<home, next_gap, have_last, removing>>
      <3>1. i = 1 /\ {1} = 1..Frags[d]
        BY <2>2
      <3> DEFINE dropped == {}
                 F == {1}
      <3>2. /\ dropped \in SUBSET Datagrams /\ F \in SUBSET Nat /\ F = {i} /\ F = 1..Frags[d]
            /\ \A e \in dropped : FALSE
            /\ Network!dispatch_packet(d, F, dropped)
        BY <2>2, <3>1, SMTT(20)
      <3>4. home'[d] = "none"
        BY <2>2, <1>u DEF Fragmented
      <3>3. /\ home' \in [Datagrams -> {"none", "new", "old"}]
            /\ next_gap' \in [Datagrams -> Nat] /\ have_last' \in [Datagrams -> BOOLEAN]
        BY Zenon, <2>2, <1>u DEF NetTypeOK
      <3> HIDE DEF dropped, F
      <3> QED
        <4>1. Ingested(d, i, dropped, F)
          <5>1. /\ \A e \in dropped : home[e] # "none" /\ e # d
                /\ \A e \in dropped : Reset(e)
            BY Zenon, <3>2
          <5>2. /\ \A e \in Datagrams : e # d => (home'[e] # "none" => home[e] # "none")
                /\ \A e \in Datagrams \ {d} :
                      Same(e) \/ Reset(e)
            BY Zenon, <2>2 DEF Same
          <5>3. /\ IsFiniteSet(Partial') /\ Cardinality(Partial') <= MAX_PARTIAL_PACKETS + 1
                /\ \A e \in Datagrams \ dropped : home'[e] = "none" => home[e] = "none"
            BY Zenon, <2>2, <1>u DEF Partial, Accounted
          <5>4. removing' = None
            BY Zenon, <2>u, <2>2
          <5>5. home'[d] # "none" => Frags[d] > 1
            BY Zenon, <3>4
          <5> QED  BY Zenon, <2>u, <2>2, <3>2, <3>3, <3>4, <5>1, <5>2, <5>3, <5>4, <5>5 DEF Ingested
        <4> QED  BY Zenon, <3>2, <4>1, IngestedIInv
    <2>3. CASE depth <= QUEUE_SIZE /\ Network!handle_fragment(d, i) /\ Frags[d] > 1
      <3> DEFINE tidied == IF home[d] # "none" THEN home ELSE [Network!tidy EXCEPT ![d] = "new"]
                 dropped == {e \in Network!Partials({"new", "old"}) : tidied[e] = "none"}
                 F == fragments[d] \cup {i}
                 gap == IF next_gap[d] = i - 1 THEN i ELSE next_gap[d]
                 last == have_last[d] \/ i = Frags[d]
      <3>1. /\ home' = tidied
            /\ next_gap' = [e \in Datagrams |-> IF e = d THEN gap ELSE IF e \in dropped THEN 0 ELSE next_gap[e]]
            /\ have_last' = [e \in Datagrams |-> IF e = d THEN last ELSE e \notin dropped /\ have_last[e]]
            /\ IF Network!Complete(gap, last, F)
                 THEN Network!dispatch_packet(d, F, dropped) /\ removing' = d
                 ELSE Network!Account(dropped, d, F) /\ UNCHANGED <<mq, removing>>
        BY Zenon, <2>3 DEF Network!handle_fragment, Network!ingest_fragment
      <3>2. tidied \in [Datagrams -> {"none", "new", "old"}] /\ tidied[d] # "none"
            /\ \A e \in Datagrams : e # d => (tidied[e] # "none" => home[e] # "none")
        <4>1. CASE home[d] # "none"
          BY Zenon, <4>1, <1>u DEF NetTypeOK
        <4>2. CASE home[d] = "none"
          <5>1. Network!tidy \in [Datagrams -> {"none", "new", "old"}]
                /\ \A e \in Datagrams : Network!tidy[e] # "none" => home[e] # "none"
            BY Zenon, <1>u DEF Network!tidy, NetTypeOK
          <5> QED  BY Zenon, <4>2, <5>1
        <4> QED  BY Zenon, <4>1, <4>2
      <3>3. dropped \in SUBSET Datagrams /\ \A e \in dropped : home[e] # "none" /\ e # d
        BY Zenon, <3>2 DEF Network!Partials
      <3>4. /\ F \in SUBSET Nat /\ F \in SUBSET (1..Frags[d]) /\ gap \in Nat /\ last \in BOOLEAN
        BY Zenon, <2>u, <1>u, Zenon DEF NetTypeOK, Arrived
      <3>5. 1..gap \subseteq F /\ (last => Frags[d] \in F)
        <4>1. 1..next_gap[d] \subseteq fragments[d] /\ (have_last[d] => Frags[d] \in fragments[d])
          BY Zenon, <2>u, <1>u DEF GapIsFilled, Done
        <4>2. 1..gap \subseteq F
          BY <4>1, <2>u, <1>u DEF NetTypeOK
        <4> QED  BY Zenon, <4>1, <4>2
      <3>10. F = fragments[d] \cup {i}
        BY Zenon
      <3>12. \A e \in Datagrams \ dropped : tidied[e] = "none" => home[e] = "none"
        <4>1. \A e \in Datagrams : home[e] # "none" => e \in Network!Partials({"new", "old"})
          BY Zenon, <1>u DEF Network!Partials, NetTypeOK
        <4> QED  BY Zenon, <4>1
      <3>13. LET P == {e \in Datagrams : tidied[e] # "none"}
             IN  IsFiniteSet(P) /\ Cardinality(P) <= MAX_PARTIAL_PACKETS + 1
        <4> DEFINE P == {e \in Datagrams : tidied[e] # "none"}
                   T == {e \in Datagrams : Network!tidy[e] # "none"}
        <4> SUFFICES IsFiniteSet(P) /\ Cardinality(P) <= MAX_PARTIAL_PACKETS + 1
          BY Zenon
        <4>0. IsFiniteSet(Partial) /\ Cardinality(Partial) <= MAX_PARTIAL_PACKETS + 1
          BY Zenon, <1>u DEF Accounted
        <4>1. CASE home[d] # "none"
          BY Zenon, <4>0, <4>1 DEF Partial
        <4>2. CASE home[d] = "none"
          <5>1. P = T \cup {d}
            <6>1. Network!tidy \in [Datagrams -> {"none", "new", "old"}]
              BY Zenon, <1>u DEF Network!tidy, NetTypeOK
            <6>2. \A e \in Datagrams : tidied[e] = IF e = d THEN "new" ELSE Network!tidy[e]
              BY Zenon, <4>2, <6>1
            <6> QED  BY <6>2
          <5>2. IsFiniteSet(T) /\ Cardinality(T) \in Nat /\ Cardinality(T) <= MAX_PARTIAL_PACKETS
            BY Zenon, <4>0, <1>u, Tidied
          <5>3. /\ IsFiniteSet(P) /\ Cardinality(P) \in {Cardinality(T), Cardinality(T) + 1}
            <6>1. /\ IsFiniteSet(T \cup {d})
                  /\ Cardinality(T \cup {d}) = IF d \in T THEN Cardinality(T) ELSE Cardinality(T) + 1
              BY Zenon, <5>2, FS_AddElement
            <6> HIDE DEF P, T
            <6> QED  BY Zenon, <5>1, <6>1
          <5> QED  BY <5>2, <5>3 DEF Constants
        <4> QED  BY Zenon, <4>1, <4>2
      <3> HIDE DEF tidied, dropped, gap, last, F
      <3>6. /\ home' \in [Datagrams -> {"none", "new", "old"}]
            /\ \A e \in Datagrams : e # d => (home'[e] # "none" => home[e] # "none")
            /\ next_gap' \in [Datagrams -> Nat]
            /\ next_gap'[d] = gap /\ have_last'[d] = last
        BY ZenonT(40), <3>1, <3>2, <3>4, <1>u DEF NetTypeOK
      <3>7. have_last' \in [Datagrams -> BOOLEAN]
        <4>1. \A e \in Datagrams : have_last[e] \in BOOLEAN
          BY Zenon, <1>u DEF NetTypeOK
        <4> QED  BY ZenonT(40), <3>1, <3>4, <4>1
      <3>8. /\ \A e \in Datagrams \ {d} : Same(e) \/ Reset(e)
            /\ \A e \in dropped : Reset(e)
        <4>1. /\ \A e \in Datagrams \ {d} : next_gap'[e] = IF e \in dropped THEN 0 ELSE next_gap[e]
              /\ \A e \in Datagrams \ {d} : have_last'[e] = (e \notin dropped /\ have_last[e])
          BY Zenon, <3>1
        <4>2. \A e \in Datagrams \ {d} : have_last'[e] = IF e \in dropped THEN FALSE ELSE have_last[e]
          BY Zenon, <4>1, <1>u, Zenon DEF NetTypeOK
        <4>3. dropped \subseteq Datagrams \ {d}
          BY Zenon, <3>3
        <4>4. \A e \in Datagrams \ {d} : e \in dropped => Reset(e)
          BY Zenon, <4>1, <4>2, Zenon DEF Reset
        <4>5. \A e \in Datagrams \ {d} : e \notin dropped => Same(e)
          BY Zenon, <4>1, <4>2, Zenon DEF Same
        <4> QED  BY Zenon, <4>3, <4>4, <4>5
      <3>14. /\ IsFiniteSet(Partial') /\ Cardinality(Partial') <= MAX_PARTIAL_PACKETS + 1
             /\ \A e \in Datagrams \ dropped : home'[e] = "none" => home[e] = "none"
             /\ home'[d] # "none"
        BY Zenon, <3>1, <3>2, <3>12, <3>13 DEF Partial
      <3>9. \/ F = 1..Frags[d] /\ Network!dispatch_packet(d, F, dropped) /\ removing' = d
            \/ /\ mq' = mq /\ Network!Account(dropped, d, F)
               /\ removing' = None /\ home'[d] # "none"
               /\ 1..next_gap'[d] \subseteq F
               /\ have_last'[d] => Frags[d] \in F
        <4>1. CASE Network!Complete(gap, last, F)
          <5>1. F = 1..Frags[d]
            BY SMTT(30), <4>1, <3>4, <3>5, <2>u, CompleteIsWhole
          <5> QED  BY Zenon, <4>1, <5>1, <3>1
        <4>2. CASE ~Network!Complete(gap, last, F)
          BY Zenon, <4>2, <3>1, <3>5, <3>6, <3>14, <2>u
        <4> QED  BY Zenon, <4>1, <4>2
      <3>11. Ingested(d, i, dropped, F)
        BY ZenonT(40), <2>u, <2>3, <3>3, <3>6, <3>7, <3>8, <3>9, <3>10,
           <3>14 DEF Ingested
      <3> QED  BY Zenon, <3>3, <3>4, <3>11, IngestedIInv
    <2> QED  BY Zenon, <2>1, <2>2, <2>3, <1>1 DEF Network!Receive
  <1>2. ASSUME NEW d \in Datagrams, Network!RemoveDispatched(d) PROVE NetIInv'
    <2>1. /\ home' = [home EXCEPT ![d] = "none"] \/ (net_failed' = TRUE /\ home' = home)
          /\ removing = d /\ ~net_failed
          /\ UNCHANGED <<in_flight, fragments, next_gap, have_last, mq, handler, held, depth>>
          /\ removing' = None
      BY Zenon, <1>2 DEF Network!RemoveDispatched, Network!sockets
    <2>2. NetTypeOK'
      BY Zenon, <2>1, <1>u, Zenon DEF NetTypeOK
    <2>3. Arrived' /\ GapIsFilled'
      BY ZenonT(40), <2>1, <1>u DEF Arrived, GapIsFilled, Done
    <2>4. OnePlace'
      BY <2>1, <1>u DEF OnePlace, At, NetTypeOK
    <2>5. Fragmented'
      BY <2>1, <1>u, SMTT(20) DEF Fragmented, NetTypeOK
    <2>6. Accounted'
      <3>1. Kept(Datagrams)' = Kept(Datagrams)
        BY Zenon, <2>1 DEF Kept
      <3>2. Partial' \in SUBSET Partial
        BY Zenon, <2>1, <1>u DEF Partial, NetTypeOK
      <3>3. IsFiniteSet(Partial) /\ Cardinality(Partial) <= MAX_PARTIAL_PACKETS + 1
            /\ MAX_PARTIAL_PACKETS \in Nat
        BY Zenon, <1>u DEF Accounted, Constants
      <3>4. IsFiniteSet(Partial') /\ Cardinality(Partial') <= Cardinality(Partial)
        BY Zenon, <3>2, <3>3, FS_Subset
      <3>5. Cardinality(Partial') \in Nat /\ Cardinality(Partial) \in Nat
        BY Zenon, <3>3, <3>4, FS_CardinalityType
      <3>6. Cardinality(Partial') <= MAX_PARTIAL_PACKETS + 1
        BY <3>3, <3>4, <3>5
      <3>7. ASSUME NEW e \in Datagrams, fragments'[e] # {}, home'[e] = "none" \/ removing' = e
            PROVE  \E s \in Sockets : At(e, s)'
        <4>1. e # None
          BY Zenon DEF Constants
        <4>2. home[e] = "none" \/ removing = e
          BY Zenon, <3>7, <4>1, <2>1, <1>u DEF NetTypeOK
        <4>3. PICK s \in Sockets : At(e, s)
          BY Zenon, <3>7, <4>2, <2>1, <1>u DEF Accounted
        <4> QED  BY Zenon, <4>3, <2>1 DEF At
      <3> QED  BY Zenon, <3>1, <3>4, <3>6, <3>7, <2>1, <1>u DEF Accounted
    <2> QED  BY Zenon, <2>2, <2>3, <2>4, <2>5, <2>6 DEF NetIInv
  <1>3. ASSUME NEW d \in Datagrams, NEW i \in 1..Frags[d], Network!Lose(d, i) PROVE NetIInv'
    <2>1. /\ in_flight' \subseteq in_flight
          /\ UNCHANGED <<home, fragments, next_gap, have_last, mq, handler, held, removing, depth, net_failed>>
      BY Zenon, <1>3 DEF Network!Lose, Network!packets, Network!sockets
    <2>2. \A e \in Datagrams : Done(e) => Done(e)'
      BY <2>1, SMTT(20) DEF Done
    <2>3. Accounted'
      BY Zenon, <2>1, <1>u, StillAccounted
    <2> QED  BY Zenon, <2>1, <2>2, <2>3, <1>u DEF NetIInv, NetTypeOK, Arrived, GapIsFilled,
                OnePlace, At,
                Fragmented
  <1>4. ASSUME NEW s \in Sockets, Network!socket_init(s) \/ Network!unregister(s) PROVE NetIInv'
    <2>1. /\ handler' \in [Sockets -> {"none", "live", "unregistered"}]
          /\ UNCHANGED <<in_flight, home, fragments, next_gap, have_last, mq, held, depth, removing, net_failed>>
      BY Zenon, <1>4, <1>u, Zenon DEF Network!socket_init, Network!unregister,
         Network!unchangedBySockets,
         NetTypeOK
    <2>2. Accounted'
      BY Zenon, <2>1, <1>u, StillAccounted
    <2> QED  BY Zenon, <2>1, <2>2, <1>u DEF NetIInv, NetTypeOK, Arrived, GapIsFilled, Done,
                OnePlace, At, Fragmented
  <1>5. ASSUME NEW s \in Sockets, Network!socket_recv(s) PROVE NetIInv'
    <2>1. /\ held[s] = None /\ mq[s] # <<>>
          /\ held' = [held EXCEPT ![s] = Head(mq[s])]
          /\ mq' = [mq EXCEPT ![s] = Tail(mq[s])]
          /\ UNCHANGED <<handler, fragments, depth>> /\ Network!unchangedBySockets
      BY Zenon, <1>5 DEF Network!socket_recv
    <2>2. mq[s] \in Seq(Datagrams) /\ Distinct(mq[s])
      BY Zenon, <1>u DEF NetTypeOK, OnePlace
    <2>3. /\ Tail(mq[s]) \in Seq(Datagrams)
          /\ Distinct(Tail(mq[s]))
          /\ Head(mq[s]) \in Datagrams
          /\ Queued(Head(mq[s]), mq[s])
          /\ \A e : Queued(e, mq[s]) <=> e = Head(mq[s]) \/ Queued(e, Tail(mq[s]))
          /\ ~Queued(Head(mq[s]), Tail(mq[s]))
      BY SMTT(30), <2>1, <2>2, Dequeued
    <2>4. \A r \in Sockets : /\ mq'[r] = IF r = s THEN Tail(mq[s]) ELSE mq[r]
                            /\ held'[r] = IF r = s THEN Head(mq[s]) ELSE held[r]
      BY SMTT(30), <2>1, <1>u DEF NetTypeOK
    <2>5. mq' \in [Sockets -> Seq(Datagrams)] /\ held' \in [Sockets -> Datagrams \cup {None}]
      BY SMTT(30), <2>1, <2>3, <1>u DEF NetTypeOK
    <2>6. \A r \in Sockets : Distinct(mq'[r]) /\ ~Queued(held'[r], mq'[r])
      BY SMTT(30), <2>3, <2>4, <1>u DEF OnePlace
    <2> DEFINE ds == {}
    <2>7. \A d \in Datagrams, r \in Sockets :
             (Queued(d, mq'[r]) \/ held'[r] = d) <=> (At(d, r) /\ d \notin ds)
      BY <2>1, <2>3, <2>4 DEF At, Constants
    <2>10. depth' = depth - Cardinality(Kept(ds))
      <3>1. Kept(ds) = {}
        BY Zenon DEF Kept
      <3>2. Cardinality(Kept(ds)) = 0
        BY Zenon, <3>1, FS_EmptySet
      <3>3. depth \in Nat
        BY Zenon, <1>u, FS_CardinalityType DEF Accounted
      <3> QED  BY <2>1, <3>2, <3>3
    <2>8. /\ fragments' = [e \in Datagrams |-> IF e \in ds THEN {} ELSE fragments[e]]
          /\ ds \in SUBSET Datagrams /\ \A d \in ds : At(d, s)
      BY Zenon, <2>1, <1>u DEF NetTypeOK
    <2>9. handler' \in [Sockets -> {"none", "live", "unregistered"}]
      BY Zenon, <2>1, <1>u DEF NetTypeOK
    <2> HIDE DEF ds
    <2>11. Deleted(s, ds)
      BY Zenon, <2>1, <2>5, <2>6, <2>7, <2>8, <2>9, <2>10 DEF Deleted
    <2> QED  BY Zenon, <2>11, DeletedIInv
  <1>6. ASSUME NEW s \in Sockets, Network!DeleteView(s) PROVE NetIInv'
    <2>1. /\ held[s] # None
          /\ fragments' = [e \in Datagrams |-> IF e \in {held[s]} THEN {}
                                         ELSE IF e = held[s] THEN {} ELSE fragments[e]]
          /\ held' = [held EXCEPT ![s] = None]
          /\ UNCHANGED <<mq, handler>> /\ Network!unchangedBySockets
      BY Zenon, <1>6 DEF Network!DeleteView, Network!Account
    <2> DEFINE ds == {held[s]}
    <2>2. fragments' = [e \in Datagrams |-> IF e \in ds THEN {} ELSE fragments[e]]
      BY Zenon, <2>1
    <2>3. ds \in SUBSET Datagrams /\ \A d \in ds : At(d, s)
      BY Zenon, <2>1, <1>u DEF NetTypeOK, At
    <2>4. \A r \in Sockets : held'[r] = IF r = s THEN None ELSE held[r]
      BY Zenon, <2>1, <1>u DEF NetTypeOK
    <2>5. \A r \in Sockets : ~Queued(None, mq[r])
      <3>1. \A r \in Sockets : mq[r] \in Seq(Datagrams)
        BY Zenon, <1>u DEF NetTypeOK
      <3>2. \A r \in Sockets : \A k \in 1..Len(mq[r]) : mq[r][k] \in Datagrams
        BY <3>1
      <3> QED  BY Zenon, <3>2 DEF Queued, Constants
    <2>6. /\ mq' \in [Sockets -> Seq(Datagrams)] /\ held' \in [Sockets -> Datagrams \cup {None}]
          /\ handler' \in [Sockets -> {"none", "live", "unregistered"}]
      BY ZenonT(40), <2>1, <1>u DEF NetTypeOK
    <2>7. \A r \in Sockets : Distinct(mq'[r]) /\ ~Queued(held'[r], mq'[r])
      BY SMTT(30), <2>1, <2>4, <2>5, <1>u DEF OnePlace
    <2>9. depth' = depth - Cardinality(Kept(ds))
      <3>1. ds \cup {held[s]} = ds /\ held[s] \in ds
        BY Zenon
      <3>2. depth' = depth - Network!Buffers(ds \cup {held[s]}) + 0
        BY Zenon, <1>6, <3>1 DEF Network!DeleteView, Network!Account
      <3>3. Network!Buffers(ds) = Cardinality(Kept(ds))
        BY Zenon, NetworkCardinality DEF Network!Buffers, Kept
      <3>4. depth' = depth - Cardinality(Kept(ds)) + 0
        BY Zenon, <3>1, <3>2, <3>3
      <3>5. Cardinality(Kept(ds)) \in Nat /\ depth \in Nat
        <4>1. Kept(ds) \in SUBSET Kept(Datagrams)
          BY Zenon, <2>3 DEF Kept
        <4>2. IsFiniteSet(Kept(Datagrams)) /\ depth = Cardinality(Kept(Datagrams))
          BY Zenon, <1>u DEF Accounted
        <4>3. IsFiniteSet(Kept(ds))
          BY Zenon, <4>1, <4>2, FS_Subset
        <4> QED  BY Zenon, <4>2, <4>3, FS_CardinalityType
      <3> QED  BY <3>4, <3>5
    <2>8. \A d \in Datagrams, r \in Sockets :
             (Queued(d, mq'[r]) \/ held'[r] = d) <=> (At(d, r) /\ d \notin ds)
      BY SMTT(30), <2>1, <2>3, <2>4, <1>u DEF OnePlace, At, Constants
    <2> HIDE DEF ds
    <2>10. Deleted(s, ds)
      BY Zenon, <2>1, <2>2, <2>3, <2>6, <2>7, <2>8, <2>9 DEF Deleted
    <2> QED  BY Zenon, <2>10, DeletedIInv
  <1>7. ASSUME NEW s \in Sockets, Network!pfhandler_free(s) PROVE NetIInv'
    <2>1. /\ handler' = [handler EXCEPT ![s] = "none"]
          /\ fragments' = [e \in Datagrams |-> IF e \in Network!Range(mq[s]) THEN {} ELSE fragments[e]]
          /\ mq' = [mq EXCEPT ![s] = <<>>]
          /\ UNCHANGED held /\ Network!unchangedBySockets
      BY Zenon, <1>7 DEF Network!pfhandler_free
    <2>2. mq[s] \in Seq(Datagrams)
      BY Zenon, <1>u DEF NetTypeOK
    <2>3. Network!Range(mq[s]) \in SUBSET Datagrams /\ \A d : d \in Network!Range(mq[s]) <=> Queued(d, mq[s])
      BY <2>2 DEF Network!Range, Queued
    <2>4. Len(<<>>) = 0 /\ <<>> \in Seq(Datagrams)
      OBVIOUS
    <2>5. Distinct(<<>>) /\ \A d : ~Queued(d, <<>>)
      BY <2>4 DEF Distinct, Queued
    <2>6. \A r \in Sockets : mq'[r] = IF r = s THEN <<>> ELSE mq[r]
      BY Zenon, <2>1, <1>u DEF NetTypeOK
    <2>7. /\ mq' \in [Sockets -> Seq(Datagrams)] /\ held' \in [Sockets -> Datagrams \cup {None}]
          /\ handler' \in [Sockets -> {"none", "live", "unregistered"}]
      BY ZenonT(40), <2>1, <2>4, <1>u DEF NetTypeOK
    <2>8. \A r \in Sockets : Distinct(mq'[r]) /\ ~Queued(held'[r], mq'[r])
      BY SMTT(30), <2>1, <2>5, <2>6, <1>u DEF OnePlace
    <2>9. \A d \in Datagrams, r \in Sockets :
             (Queued(d, mq'[r]) \/ held'[r] = d) <=> (At(d, r) /\ d \notin Network!Range(mq[s]))
      BY SMTT(30), <2>1, <2>3, <2>5, <2>6, <1>u DEF OnePlace, At
    <2>10. \A d \in Network!Range(mq[s]) : At(d, s)
      BY <2>3, SMTT(20) DEF At
    <2>11. depth' = depth - Cardinality(Kept(Network!Range(mq[s])))
      BY Zenon, <1>7, NetworkCardinality DEF Network!pfhandler_free,
         Network!Buffers, Kept
    <2>12. Deleted(s, Network!Range(mq[s]))
      BY Zenon, <2>1, <2>3, <2>7, <2>8, <2>9, <2>10, <2>11 DEF Deleted
    <2> QED  BY Zenon, <2>12, DeletedIInv
  <1>8. CASE UNCHANGED Network!vars
    <2>1. UNCHANGED <<in_flight, home, fragments, next_gap, have_last, mq, handler, held, depth,
                      removing, net_failed>>
      BY Zenon, <1>8 DEF Network!vars, Network!packets, Network!sockets
    <2>2. Accounted'
      BY Zenon, <2>1, <1>u, StillAccounted
    <2> QED  BY Zenon, <2>1, <2>2, <1>u DEF NetIInv, NetTypeOK, Arrived, GapIsFilled, Done,
                OnePlace,
                At, Fragmented
  <1> QED  BY SMTT(30), <1>1, <1>2, <1>3, <1>4, <1>5, <1>6, <1>7, <1>8 DEF Network!Next

\* Whatever the network loses or reorders, and whatever the limits, a datagram
\* reaches a socket only with all of its fragments (FragmentReassembly.cpp:148-202).
THEOREM SkinnyNetworkWhole == Network!Spec => []DeliveredWhole
  <1>0. Constants
    BY Zenon, NetworkAssumption DEF Constants
  <1>1. NetIInv => DeliveredWhole
    <2> SUFFICES ASSUME NetIInv, NEW d \in Network!Delivered PROVE fragments[d] = 1..Frags[d]
      BY Zenon DEF DeliveredWhole, Network!DeliveredWhole
    <2>1. d # None /\ \E s \in Sockets : d \in Network!Range(mq[s]) \/ d = held[s]
      BY Zenon DEF Network!Delivered
    <2>2. PICK s \in Sockets : d \in Network!Range(mq[s]) \/ d = held[s]
      BY Zenon, <2>1
    <2>3. mq[s] \in Seq(Datagrams) /\ held[s] \in Datagrams \cup {None}
      BY Zenon DEF NetIInv, NetTypeOK
    <2>4. d \in Datagrams /\ At(d, s)
      BY <2>1, <2>2, <2>3 DEF Network!Range, At, Queued
    <2> QED  BY Zenon, <2>4 DEF NetIInv, OnePlace
  <1>2. Network!Init => NetIInv
    BY Zenon, InitIInv, <1>0
  <1>3. NetIInv /\ [Network!Next]_(Network!vars) => NetIInv'
    BY Zenon, NextIInv, <1>0
  <1> QED  BY <1>1, <1>2, <1>3, PTL DEF Network!Spec

\* Every buffer that counts against QUEUE_SIZE is held by a partial packet, a queue or a
\* socket's owner, the count is exact, and it and the number of partial packets are at
\* most one above their limits (xax_skinny_network.cpp:83-92, XSNReceiveAccounting.cpp,
\* FragmentReassembly.cpp:255-264).
THEOREM SkinnyNetworkAccounts == Network!Spec => []BuffersAccounted
  <1>0. Constants
    BY Zenon, NetworkAssumption DEF Constants
  <1>1. NetIInv => BuffersAccounted
    <2> SUFFICES ASSUME NetIInv PROVE BuffersAccounted
      BY Zenon
    <2>u. NetTypeOK /\ Accounted
      BY Zenon DEF NetIInv
    <2>1. Network!Partials({"new", "old"}) = Partial
      BY Zenon, <2>u DEF Network!Partials, Partial, NetTypeOK
    <2>2. Network!Buffers(Datagrams) = Cardinality(Kept(Datagrams))
      BY Zenon, NetworkCardinality DEF Network!Buffers, Kept
    <2>3. ASSUME NEW d \in Datagrams, fragments[d] # {} PROVE d \in Network!Delivered \cup Partial
      <3>1. CASE home[d] # "none"
        BY Zenon, <3>1 DEF Partial
      <3>2. CASE home[d] = "none"
        <4>1. PICK s \in Sockets : At(d, s)
          BY Zenon, <2>3, <2>u, <3>2 DEF Accounted
        <4>2. mq[s] \in Seq(Datagrams) /\ d # None
          BY Zenon, <2>u, <1>0 DEF NetTypeOK, Constants
        <4>3. d \in Network!Range(mq[s]) \cup {held[s]}
          BY <4>1, <4>2 DEF At, Queued, Network!Range
        <4> QED  BY Zenon, <4>2, <4>3 DEF Network!Delivered
      <3> QED  BY Zenon, <3>1, <3>2
    <2> QED  BY Zenon, <2>u, <2>1, <2>2, <2>3, NetworkCardinality
             DEF BuffersAccounted, Network!BuffersAccounted, Accounted
  <1>2. Network!Init => NetIInv
    BY Zenon, InitIInv, <1>0
  <1>3. NetIInv /\ [Network!Next]_(Network!vars) => NetIInv'
    BY Zenon, NextIInv, <1>0
  <1> QED  BY <1>1, <1>2, <1>3, PTL DEF Network!Spec
==============================================================================
