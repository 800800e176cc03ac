-------------------------- MODULE ContainersProofs --------------------------
(***************************************************************************)
(* For every set of keys, hash function and load limit: the hash table is  *)
(* well formed, its old table is empty whenever it is freed, and it        *)
(* implements a set.  For any threads: the queue keeps its messages in     *)
(* order and forgets no sleeper.                                           *)
(***************************************************************************)
EXTENDS Containers, FiniteSetTheorems, TLAPS

IInv == TypeOK /\ WellFormed /\ OldDrains

\* Growing is due when the count reaches LoadLimit+1 data per bucket.
LEMMA GrowthThreshold ==
  ASSUME NEW c \in Nat, NEW n \in Nat \ {0}, NEW l \in Nat
  PROVE  c \div n > l <=> c >= (l + 1) * n
<1> DEFINE q == c \div n
           r == c % n
<1>1. q \in Nat /\ r \in 0..(n - 1) /\ c = n * q + r
  BY SMTT(30)
<1>2. CASE q > l
  <2>1. n * q >= n * (l + 1)
    BY <1>1, <1>2, SMTT(30)
  <2>2. n * (l + 1) = (l + 1) * n
    BY SMT
  <2> QED
    BY <1>1, <1>2, <2>1, <2>2, SMT
<1>3. CASE ~(q > l)
  <2>1. n * q <= n * l
    BY <1>1, <1>3, SMTT(30)
  <2>2. (l + 1) * n = n * l + n
    BY SMT
  <2> QED
    BY <1>1, <1>3, <2>1, <2>2, SMT
<1> QED
  BY Zenon, <1>2, <1>3

\* A bucket number is below the number of buckets.
LEMMA BucketRange ==
  ASSUME NEW d \in Keys, NEW n \in Nat \ {0}
  PROVE  Bucket(d, n) \in 0..(n - 1)
<1>1. Hash[d] \in Nat
  BY Zenon, HashAssumption
<1> QED
  BY <1>1, SMTT(30) DEF Bucket

\* What a shift does to the data: nothing if the cursor has passed them all,
\* else one datum moves; the cursor stays at or below what is left.
LEMMA ShiftOne ==
  ASSUME NEW o \in SUBSET Keys, IsFiniteSet(o),
         NEW n \in SUBSET Keys, IsFiniteSet(n),
         o \cap n = {},
         NEW b \in Nat \ {0}, NEW cur \in 0..b,
         \A d \in o : Bucket(d, b) >= cur,
         shift_one(o, b, cur, n)
  PROVE  /\ old' \in SUBSET Keys /\ IsFiniteSet(old')
         /\ new' \in SUBSET Keys /\ IsFiniteSet(new')
         /\ next_old_bucket' \in 0..b
         /\ old' \cap new' = {}
         /\ old' \cup new' = o \cup n
         /\ \A d \in old' : Bucket(d, b) >= next_old_bucket'
         /\ Cardinality(old') + Cardinality(new') = Cardinality(o) + Cardinality(n)
         /\ IF o = {} THEN Cardinality(old') = 0
                     ELSE Cardinality(old') = Cardinality(o) - 1
<1>1. Cardinality(o) \in Nat /\ Cardinality(n) \in Nat
  BY Zenon, FS_CardinalityType
<1>2. CASE o = {}
  <2>1. old' = {} /\ new' = n /\ next_old_bucket' = b
    BY Zenon, <1>2 DEF shift_one
  <2>2. Cardinality(o) = 0
    BY Zenon, <1>2, FS_EmptySet
  <2> QED
    BY <1>1, <1>2, <2>1, <2>2
<1>3. CASE o /= {}
  <2>1. PICK d \in o :
           /\ Bucket(d, b) >= cur
           /\ \A e \in o : Bucket(e, b) \notin cur..(Bucket(d, b) - 1)
           /\ old' = o \ {d} /\ new' = n \cup {d}
           /\ next_old_bucket' = Bucket(d, b)
    <3>1. \A e \in o : Bucket(e, b) \in 0..(b - 1)
      BY Zenon, BucketRange
    <3>2. ~ \A e \in o : Bucket(e, b) < cur
      BY <1>3, <3>1
    <3> QED
      BY Zenon, <3>2 DEF shift_one
  <2>2. \A e \in o : Bucket(e, b) \in 0..(b - 1)
    BY Zenon, BucketRange
  <2>3. next_old_bucket' \in 0..b
    BY <2>1, <2>2
  <2>4. \A e \in old' : Bucket(e, b) >= next_old_bucket'
    <3> SUFFICES ASSUME NEW e \in o PROVE Bucket(e, b) >= Bucket(d, b)
      BY Zenon, <2>1
    <3>1. Bucket(e, b) \in Int /\ Bucket(d, b) \in Int /\ cur \in Int
      BY <2>2
    <3>2. Bucket(e, b) >= cur /\ Bucket(e, b) \notin cur..(Bucket(d, b) - 1)
      BY Zenon, <2>1
    <3> QED
      BY <3>1, <3>2
  <2>5. IsFiniteSet(old') /\ Cardinality(old') = Cardinality(o) - 1
    BY Zenon, <2>1, FS_RemoveElement
  <2>6. IsFiniteSet(new') /\ Cardinality(new') = Cardinality(n) + 1
    <3>1. d \notin n
      BY Zenon
    <3> QED
      BY Zenon, <2>1, <3>1, FS_AddElement
  <2>7. /\ old' \in SUBSET Keys /\ new' \in SUBSET Keys
        /\ old' \cap new' = {} /\ old' \cup new' = o \cup n
    BY Zenon, <2>1
  <2> QED
    BY <1>1, <1>3, <2>3, <2>4, <2>5, <2>6, <2>7
<1> QED
  BY Zenon, <1>2, <1>3

\* An empty table (hash_table_init) satisfies the invariant.
LEMMA InitIInv == Init => IInv
<1> SUFFICES ASSUME Init PROVE IInv
  BY Zenon
<1>1. IsFiniteSet({}) /\ Cardinality({}) = 0
  BY Zenon, FS_EmptySet
<1>2. (LoadLimit + 1) * 2 >= 2 /\ (LoadLimit + 1) * 2 \in Nat
  BY HashAssumption
<1> QED
  BY <1>1, <1>2 DEF Init, IInv, TypeOK, WellFormed, OldDrains

\* A new datum that does not make the table grow: the shift keeps the old
\* table ahead of the insertions that are left.
LEMMA InsertPlain ==
  ASSUME IInv, NEW d \in Keys, insert(d),
         ~((count + 1) \div new_buckets > LoadLimit)
  PROVE  IInv' /\ old' \cup new' = (old \cup new) \cup {d}
<1> USE DEF IInv, TypeOK, WellFormed, OldDrains
<1> DEFINE n == new \cup {d}
           limit == (LoadLimit + 1) * new_buckets
<1>1. /\ d \notin old /\ d \notin new
      /\ count' = count + 1
      /\ shift_one(old, old_buckets, next_old_bucket, n)
      /\ old_buckets' = old_buckets /\ new_buckets' = new_buckets
  BY Zenon DEF insert
<1>2. n \in SUBSET Keys /\ IsFiniteSet(n) /\ Cardinality(n) = Cardinality(new) + 1
  BY Zenon, <1>1, FS_AddElement
<1>3. Cardinality(old) \in Nat /\ Cardinality(new) \in Nat
  BY Zenon, FS_CardinalityType
<1>4. old \cap n = {}
  BY Zenon, <1>1
<1> HIDE DEF n
<1>5. /\ old' \in SUBSET Keys /\ IsFiniteSet(old')
      /\ new' \in SUBSET Keys /\ IsFiniteSet(new')
      /\ next_old_bucket' \in 0..old_buckets
      /\ old' \cap new' = {}
      /\ old' \cup new' = old \cup n
      /\ \A e \in old' : Bucket(e, old_buckets) >= next_old_bucket'
      /\ Cardinality(old') + Cardinality(new') = Cardinality(old) + Cardinality(n)
      /\ IF old = {} THEN Cardinality(old') = 0
                    ELSE Cardinality(old') = Cardinality(old) - 1
  <2> HIDE DEF OldDrains
  <2> QED
    BY Zenon, <1>1, <1>2, <1>4, ShiftOne
<1>6. limit \in Nat
  BY HashAssumption
<1>7. ~(count + 1 >= limit)
  BY GrowthThreshold, HashAssumption
<1> HIDE DEF limit
<1>8. Cardinality(old) < limit - count
  BY Zenon DEF limit
<1>9. Cardinality(old') < limit - count'
  <2>1. count \in Nat /\ count' = count + 1
    BY Zenon, <1>1
  <2> HIDE DEF IInv, TypeOK, WellFormed, OldDrains
  <2>2. CASE old = {}
    <3>1. Cardinality(old') = 0
      BY Zenon, <2>2, <1>5
    <3> QED
      BY <2>1, <3>1, <1>6, <1>7
  <2>3. CASE old /= {}
    <3>1. Cardinality(old') = Cardinality(old) - 1
      BY Zenon, <2>3, <1>5
    <3> QED
      BY <2>1, <3>1, <1>3, <1>6, <1>8
  <2> QED
    BY Zenon, <2>2, <2>3
<1>10. TypeOK'
  BY <1>1, <1>5
<1>11. WellFormed'
  <2>1. count' = Cardinality(old') + Cardinality(new')
    BY <1>1, <1>2, <1>3, <1>5
  <2>2. \A e \in old' : Bucket(e, old_buckets)' >= next_old_bucket'
    BY Zenon, <1>1, <1>5 DEF Bucket
  <2> QED
    BY Zenon, <1>1, <1>5, <2>1, <2>2 DEF Bucket
<1>12. OldDrains'
  BY Zenon, <1>1, <1>9 DEF limit
<1>13. old' \cup new' = (old \cup new) \cup {d}
  BY Zenon, <1>5 DEF n
<1> QED
  BY Zenon, <1>10, <1>11, <1>12, <1>13

\* The datum that makes the table grow: the old table is empty, and the new
\* old table, one datum already shifted, is one ahead of the insertions left.
LEMMA InsertGrow ==
  ASSUME IInv, NEW d \in Keys, insert(d),
         (count + 1) \div new_buckets > LoadLimit
  PROVE  old = {} /\ IInv' /\ old' \cup new' = (old \cup new) \cup {d}
<1> USE DEF IInv, TypeOK, WellFormed, OldDrains
<1> DEFINE n == new \cup {d}
           limit == (LoadLimit + 1) * new_buckets
<1>1. /\ d \notin old /\ d \notin new
      /\ count' = count + 1
      /\ old_buckets' = new_buckets /\ new_buckets' = 2 * new_buckets
      /\ shift_one(n, new_buckets, 0, {})
  BY Zenon DEF insert
<1>2. n \in SUBSET Keys /\ IsFiniteSet(n) /\ Cardinality(n) = Cardinality(new) + 1
  BY ZenonT(40), <1>1, FS_AddElement
<1>3. Cardinality(old) \in Nat /\ Cardinality(new) \in Nat
  BY Zenon, FS_CardinalityType
<1>4. IsFiniteSet({}) /\ Cardinality({}) = 0
  BY Zenon, FS_EmptySet
<1>5. \A e \in n : Bucket(e, new_buckets) >= 0
  BY <1>2, BucketRange
<1>6. n /= {}
  BY Zenon
<1> HIDE DEF n
<1>7. /\ old' \in SUBSET Keys /\ IsFiniteSet(old')
      /\ new' \in SUBSET Keys /\ IsFiniteSet(new')
      /\ next_old_bucket' \in 0..new_buckets
      /\ old' \cap new' = {}
      /\ old' \cup new' = n \cup {}
      /\ \A e \in old' : Bucket(e, new_buckets) >= next_old_bucket'
      /\ Cardinality(old') + Cardinality(new') = Cardinality(n) + Cardinality({})
      /\ Cardinality(old') = Cardinality(n) - 1
  <2> HIDE DEF OldDrains, WellFormed
  <2> QED
    BY <1>1, <1>2, <1>4, <1>5, <1>6, ShiftOne
<1>8. limit \in Nat
  BY HashAssumption
<1>9. count + 1 >= limit
  BY GrowthThreshold, HashAssumption
<1>10. (LoadLimit + 1) * (2 * new_buckets) = 2 * limit
  BY HashAssumption
<1> HIDE DEF limit
<1>11. /\ Cardinality(old) < limit - count
       /\ count \in Nat
       /\ count = Cardinality(old) + Cardinality(new)
  BY Zenon DEF limit
<1>12. Cardinality(old) = 0 /\ count + 1 = limit
  <2> HIDE DEF IInv, TypeOK, WellFormed, OldDrains
  <2> QED
    BY <1>3, <1>8, <1>9, <1>11
<1>13. old = {}
  BY Zenon, <1>12, FS_EmptySet
<1>14. Cardinality(old') < 2 * limit - count'
  <2> HIDE DEF IInv, TypeOK, WellFormed, OldDrains
  <2> QED
    BY <1>1, <1>2, <1>3, <1>7, <1>8, <1>11, <1>12
<1>15. OldDrains'
  BY Zenon, <1>1, <1>10, <1>14
<1>16. TypeOK'
  BY <1>1, <1>7
<1>17. WellFormed'
  <2>1. count' = Cardinality(old') + Cardinality(new')
    BY <1>1, <1>2, <1>3, <1>4, <1>7, <1>11, <1>12
  <2> QED
    BY Zenon, <1>1, <1>7, <2>1 DEF Bucket
<1>18. old' \cup new' = (old \cup new) \cup {d}
  BY Zenon, <1>7, <1>13 DEF n
<1> QED
  BY Zenon, <1>13, <1>15, <1>16, <1>17, <1>18

\* A lookup only shifts.
LEMMA LookupStep ==
  ASSUME IInv, NEW d \in Keys, lookup(d)
  PROVE  IInv' /\ old' \cup new' = old \cup new
<1> USE DEF IInv, TypeOK, WellFormed, OldDrains
<1> DEFINE limit == (LoadLimit + 1) * new_buckets
<1>1. /\ shift_one(old, old_buckets, next_old_bucket, new)
      /\ old_buckets' = old_buckets /\ new_buckets' = new_buckets /\ count' = count
  BY Zenon DEF lookup
<1>2. /\ old' \in SUBSET Keys /\ IsFiniteSet(old')
      /\ new' \in SUBSET Keys /\ IsFiniteSet(new')
      /\ next_old_bucket' \in 0..old_buckets
      /\ old' \cap new' = {}
      /\ old' \cup new' = old \cup new
      /\ \A e \in old' : Bucket(e, old_buckets) >= next_old_bucket'
      /\ Cardinality(old') + Cardinality(new') = Cardinality(old) + Cardinality(new)
      /\ IF old = {} THEN Cardinality(old') = 0
                    ELSE Cardinality(old') = Cardinality(old) - 1
  <2> HIDE DEF OldDrains
  <2> QED
    BY Zenon, <1>1, ShiftOne
<1>3. /\ Cardinality(old) \in Nat /\ limit \in Nat /\ count \in Nat
      /\ Cardinality(old) < limit - count
  BY FS_CardinalityType, HashAssumption
<1> HIDE DEF limit
<1>4. Cardinality(old') < limit - count'
  <2> HIDE DEF IInv, TypeOK, WellFormed, OldDrains
  <2> QED
    BY <1>1, <1>2, <1>3
<1>5. OldDrains'
  BY Zenon, <1>1, <1>4 DEF limit
<1>6. TypeOK' /\ WellFormed'
  BY Zenon, <1>1, <1>2 DEF Bucket
<1> QED
  BY Zenon, <1>2, <1>5, <1>6

\* A removal takes one datum from one subtable.
LEMMA RemoveStep ==
  ASSUME IInv, NEW d \in Keys, remove(d)
  PROVE  IInv' /\ old' \cup new' = (old \cup new) \ {d}
<1> USE DEF IInv, TypeOK, WellFormed, OldDrains
<1> DEFINE limit == (LoadLimit + 1) * new_buckets
<1>1. /\ old_buckets' = old_buckets /\ new_buckets' = new_buckets
      /\ next_old_bucket' = next_old_bucket
      /\ count' = count - 1
  BY Zenon DEF remove
<1>2. /\ Cardinality(old) \in Nat /\ Cardinality(new) \in Nat
      /\ limit \in Nat /\ count \in Nat
      /\ Cardinality(old) < limit - count
  BY FS_CardinalityType, HashAssumption
<1>3. /\ old' \in SUBSET old /\ new' \in SUBSET new
      /\ IsFiniteSet(old') /\ IsFiniteSet(new')
      /\ Cardinality(old') \in Nat /\ Cardinality(new') \in Nat
      /\ Cardinality(old') <= Cardinality(old)
      /\ Cardinality(old') + Cardinality(new') = count - 1
  <2>1. CASE d \in new
    <3>1. new' = new \ {d} /\ old' = old
      BY Zenon, <2>1 DEF remove
    <3>2. IsFiniteSet(new') /\ Cardinality(new') = Cardinality(new) - 1
      BY Zenon, <2>1, <3>1, FS_RemoveElement
    <3>3. Cardinality(new') \in Nat
      BY Zenon, <3>2, FS_CardinalityType
    <3> QED
      BY <1>2, <3>1, <3>2, <3>3
  <2>2. CASE d \notin new
    <3>1. new' = new /\ old' = old \ {d} /\ d \in old
      BY Zenon, <2>2 DEF remove
    <3>2. IsFiniteSet(old') /\ Cardinality(old') = Cardinality(old) - 1
      BY Zenon, <3>1, FS_RemoveElement
    <3>3. Cardinality(old') \in Nat
      BY Zenon, <3>2, FS_CardinalityType
    <3> QED
      BY <1>2, <3>1, <3>2, <3>3
  <2> QED
    BY Zenon, <2>1, <2>2
<1> HIDE DEF limit
<1>4. Cardinality(old') < limit - count' /\ count' \in Nat
  <2> HIDE DEF IInv, TypeOK, WellFormed, OldDrains
  <2> QED
    BY <1>1, <1>2, <1>3
<1>5. OldDrains'
  BY Zenon, <1>1, <1>4 DEF limit
<1>6. TypeOK'
  BY Zenon, <1>1, <1>3, <1>4
<1>7. WellFormed'
  BY Zenon, <1>1, <1>3 DEF Bucket
<1>8. old' \cup new' = (old \cup new) \ {d}
  BY Zenon DEF remove
<1> QED
  BY Zenon, <1>5, <1>6, <1>7, <1>8

\* hash_table_remove_every leaves an empty, well-formed table.
LEMMA RemoveEveryStep ==
  ASSUME IInv, remove_every
  PROVE  IInv' /\ old' \cup new' = {}
<1> USE DEF IInv, TypeOK, WellFormed, OldDrains, remove_every
<1>1. IsFiniteSet({}) /\ Cardinality({}) = 0
  BY Zenon, FS_EmptySet
<1>2. (LoadLimit + 1) * new_buckets \in Nat /\ (LoadLimit + 1) * new_buckets > 0
  <2>1. (LoadLimit + 1) * new_buckets = LoadLimit * new_buckets + new_buckets
    BY HashAssumption
  <2>2. LoadLimit * new_buckets \in Nat
    BY HashAssumption
  <2> QED
    BY <2>1, <2>2
<1> QED
  BY <1>1, <1>2

\* Every operation of the table keeps the invariant.
LEMMA NextIInv == IInv /\ [Next]_vars => IInv'
<1> SUFFICES ASSUME IInv, [Next]_vars PROVE IInv'
  BY Zenon
<1>1. ASSUME NEW d \in Keys, insert(d) PROVE IInv'
  BY Zenon, <1>1, InsertPlain, InsertGrow
<1>2. ASSUME NEW d \in Keys, lookup(d) PROVE IInv'
  BY Zenon, <1>2, LookupStep
<1>3. ASSUME NEW d \in Keys, remove(d) PROVE IInv'
  BY Zenon, <1>3, RemoveStep
<1>4. CASE remove_every
  BY Zenon, <1>4, RemoveEveryStep
<1>5. CASE UNCHANGED vars
  BY Zenon, <1>5 DEF vars, IInv, TypeOK, WellFormed, OldDrains, Bucket
<1> QED
  BY Zenon, <1>1, <1>2, <1>3, <1>4, <1>5 DEF Next

\* Whatever is inserted, looked up and removed, in any order: the table is
\* well formed, and the old table holds fewer data than there are insertions
\* left before it is freed, so hash_table.c's assertion that it "is empty by
\* now" cannot fail.
THEOREM HashTableSafe == Spec => [](TypeOK /\ WellFormed /\ OldDrains)
<1>1. Spec => []IInv
  BY InitIInv, NextIInv, PTL DEF Spec
<1> QED
  BY <1>1, PTL DEF IInv

\* The hash table implements the set its users think of: no growth and no
\* shift loses, duplicates or resurrects a datum.
THEOREM HashTableIsKeySet == Spec => IsKeySet
<1>1. Init => Contents!Init
  BY Zenon DEF Init, Contents!Init
<1>2. IInv /\ [Next]_vars => [Contents!Next]_(old \cup new)
  <2> SUFFICES ASSUME IInv, [Next]_vars PROVE [Contents!Next]_(old \cup new)
    BY Zenon
  <2>1. ASSUME NEW d \in Keys, insert(d) PROVE Contents!Insert(d)
    <3>1. old' \cup new' = (old \cup new) \cup {d}
      BY Zenon, <2>1, InsertPlain, InsertGrow
    <3> QED
      BY Zenon, <2>1, <3>1 DEF Contents!Insert, insert
  <2>2. ASSUME NEW d \in Keys, lookup(d) PROVE UNCHANGED (old \cup new)
    BY Zenon, <2>2, LookupStep
  <2>3. ASSUME NEW d \in Keys, remove(d) PROVE Contents!Remove(d)
    <3>1. old' \cup new' = (old \cup new) \ {d}
      BY Zenon, <2>3, RemoveStep
    <3> QED
      BY Zenon, <2>3, <3>1 DEF Contents!Remove, remove
  <2>4. CASE remove_every
    BY Zenon, <2>4, RemoveEveryStep DEF Contents!Next, Contents!RemoveEvery
  <2>5. CASE UNCHANGED vars
    BY Zenon, <2>5 DEF vars
  <2> QED
    BY Zenon, <2>1, <2>2, <2>3, <2>4, <2>5 DEF Next, Contents!Next
<1>3. Spec => []IInv
  BY InitIInv, NextIInv, PTL DEF Spec
<1> QED
  BY <1>1, <1>2, <1>3, PTL DEF Spec, IsKeySet, Contents!Spec

-----------------------------------------------------------------------------
(* ZQueue *)

\* Whoever inserts holds the mutex; the word counts the insertions begun; only
\* pollers poll, and only they have left a wait; and who has noted the word as
\* it is now saw an empty queue, and it is empty still.
WordIsFresh ==
    /\ seq = inserted + (IF inserter = {} THEN 0 ELSE 1)
    /\ \A t \in Threads :
          /\ pc[t] = "insert" <=> inserter = {t}
          /\ match_val[t] <= seq
          /\ pc[t] \in {"pcheck", "pwait", "pasleep", "left"} => t \in Pollers
          /\ pc[t] \in {"wait", "pwait"} /\ match_val[t] = seq
                => consumed = inserted /\ inserter = {}

\* An entry that is not yet in the list ends it when it comes.
FreshEntries == \A e \in Queue!Entries : e > inserted => next[e] = Queue!NULL

\* The list is what InOrder says.
ListOK == /\ next \in [Queue!Entries -> Queue!Entries \cup {Queue!NULL}]
          /\ tailp \in Queue!Entries
          /\ inserted \in 0..MaxItems /\ consumed \in 0..inserted
          /\ next[0] = IF consumed = inserted THEN Queue!NULL ELSE consumed + 1
          /\ \A e \in (consumed + 1)..inserted : next[e] = IF e = inserted THEN Queue!NULL ELSE e + 1
          /\ tailp = IF consumed = inserted THEN 0 ELSE inserted
          /\ FreshEntries

\* The threads and the word they sleep on.
ThreadsOK == /\ seq \in 0..MaxItems
             /\ pc \in [Threads -> Queue!PCs]
             /\ match_val \in [Threads -> 0..MaxItems]
             /\ \A t \in inserter : inserter = {t} /\ pc[t] = "insert"
             /\ WordIsFresh

\* The inductive invariant of the queue.
QueueIInv == ListOK /\ ThreadsOK /\ NoLostWake

\* The queue begins empty, with nobody in it.
LEMMA QueueInit == Queue!Init => QueueIInv
<1> SUFFICES ASSUME Queue!Init PROVE QueueIInv
  BY Zenon
<1> USE QueueAssumption DEF Queue!Init, Queue!Entries, Queue!HEAD, Queue!NULL
<1>1. ListOK
  BY DEF ListOK, FreshEntries
<1>2. ThreadsOK
  BY DEF ThreadsOK, WordIsFresh, Queue!PCs
<1>3. NoLostWake
  BY DEF NoLostWake, Queue!NoLostWake, Queue!zq_is_empty
<1> QED BY Zenon, <1>1, <1>2, <1>3 DEF QueueIInv

\* An empty queue is one whose messages have all been taken.
LEMMA EmptyQueue == ListOK => (Queue!zq_is_empty <=> consumed = inserted)
  BY QueueAssumption DEF ListOK, Queue!zq_is_empty, Queue!HEAD, Queue!NULL

\* Where the threads may be after a step of t that wakes nobody or one sleeper.
LEMMA Woken ==
    ASSUME pc \in [Threads -> Queue!PCs], NEW t \in Threads, NEW label \in Queue!PCs, NEW b \in BOOLEAN,
           pc[t] \notin {"asleep", "pasleep"}, Queue!GotoAndWake(t, label, b)
    PROVE  /\ pc' \in [Threads -> Queue!PCs]
           /\ pc'[t] = label
           /\ \A u \in Threads \ {t} :
                 \/ pc'[u] = pc[u]
                 \/ pc[u] = "asleep" /\ pc'[u] = "check"
                 \/ pc[u] = "pasleep" /\ pc'[u] = "pcheck"
           /\ b => \/ \A u \in Threads : pc[u] \notin {"asleep", "pasleep"}
                   \/ \E u \in Threads \ {t} : pc'[u] \in {"check", "pcheck"}
<1>1. CASE (b => Queue!asleep = {}) /\ Queue!Goto(t, label)
  BY Zenon, <1>1 DEF Queue!Goto, Queue!asleep
<1>2. ASSUME NEW u \in Queue!asleep, b,
             pc' = [pc EXCEPT ![t] = label, ![u] = IF @ = "asleep" THEN "check" ELSE "pcheck"]
      PROVE  /\ pc' \in [Threads -> Queue!PCs]
             /\ pc'[t] = label
             /\ \A v \in Threads \ {t} :
                   \/ pc'[v] = pc[v]
                   \/ pc[v] = "asleep" /\ pc'[v] = "check"
                   \/ pc[v] = "pasleep" /\ pc'[v] = "pcheck"
             /\ \E v \in Threads \ {t} : pc'[v] \in {"check", "pcheck"}
  <2>1. u \in Threads \ {t} /\ pc[u] \in {"asleep", "pasleep"}
    BY Zenon DEF Queue!asleep
  <2> QED BY Zenon, <1>2, <2>1 DEF Queue!PCs
<1> QED BY Zenon, <1>1, <1>2 DEF Queue!GotoAndWake

\* zq_insert links the new entry at the tail pointer (ZQueue.cpp:112-113).
LEMMA LinkKeeps ==
    ASSUME ListOK, inserted < MaxItems,
           next' = [next EXCEPT ![tailp] = inserted + 1],
           tailp' = inserted + 1, inserted' = inserted + 1, consumed' = consumed
    PROVE  ListOK' /\ consumed' # inserted'
<1> USE QueueAssumption DEF ListOK, FreshEntries, Queue!Entries, Queue!NULL, Queue!HEAD
<1>1. /\ inserted \in Nat /\ consumed \in Nat /\ consumed <= inserted /\ tailp \in 0..inserted
      /\ inserted + 1 \in 0..MaxItems /\ MaxItems + 1 # inserted + 1
  OBVIOUS
<1>2. /\ next' \in [0..MaxItems -> (0..MaxItems) \cup {MaxItems + 1}]
      /\ \A e \in 0..MaxItems : next'[e] = IF e = tailp THEN inserted + 1 ELSE next[e]
  BY Zenon, <1>1
<1>3. next'[0] = consumed + 1
  BY <1>1, <1>2
<1>4. \A e \in (consumed + 1)..(inserted + 1) :
         next'[e] = IF e = inserted + 1 THEN MaxItems + 1 ELSE e + 1
  BY <1>1, <1>2
<1>5. \A e \in 0..MaxItems : e > inserted + 1 => next'[e] = MaxItems + 1
  BY <1>1, <1>2
<1> QED BY <1>1, <1>2, <1>3, <1>4, <1>5

\* consume_method unlinks the first entry, or leaves it (ZQueue.cpp:72-84).
LEMMA TakeKeeps ==
    ASSUME ListOK, consumed # inserted, NEW whole \in BOOLEAN,
           next' = [next EXCEPT ![0] = IF whole THEN next[next[0]] ELSE next[0]],
           tailp' = (IF next'[0] = Queue!NULL THEN 0 ELSE tailp),
           consumed' = (IF whole THEN consumed + 1 ELSE consumed), inserted' = inserted
    PROVE  ListOK' /\ (next'[0] # Queue!NULL <=> consumed' # inserted')
<1> USE QueueAssumption DEF ListOK, FreshEntries, Queue!Entries, Queue!NULL, Queue!HEAD
<1>1. /\ inserted \in 0..MaxItems /\ consumed \in Nat /\ consumed < inserted /\ tailp = inserted
      /\ next[0] = consumed + 1 /\ consumed + 1 \in (consumed + 1)..inserted
      /\ consumed + 1 # MaxItems + 1
  OBVIOUS
<1>2. next[next[0]] = IF consumed + 1 = inserted THEN MaxItems + 1 ELSE consumed + 2
  BY <1>1
<1>3. /\ next'[0] = IF whole THEN next[next[0]] ELSE next[0]
      /\ \A e \in 1..MaxItems : next'[e] = next[e]
      /\ next' \in [0..MaxItems -> (0..MaxItems) \cup {MaxItems + 1}]
  BY <1>1, <1>2
<1>4. CASE whole
  BY <1>1, <1>2, <1>3, <1>4
<1>5. CASE ~whole
  BY <1>1, <1>3, <1>5
<1> QED BY Zenon, <1>4, <1>5

\* A step that inserts and takes nothing (ZQueue.cpp:36-71, 96).
LEMMA QuietKeeps ==
    ASSUME QueueIInv, NEW t \in Threads,
           \/ Queue!zq_consume(t) \/ Queue!Look(t) \/ Queue!Grabbed(t) \/ Queue!_zq_check(t)
           \/ Queue!zutex_wait(t) \/ Queue!Poll(t) \/ Queue!OtherReady(t)
    PROVE  QueueIInv'
<1>1. UNCHANGED <<next, tailp, inserted, consumed, seq, inserter>>
  BY Zenon DEF Queue!listvars, Queue!zq_consume, Queue!Look, Queue!Grabbed,
     Queue!_zq_check, Queue!zutex_wait, Queue!Poll,
         Queue!OtherReady
<1>2. /\ ListOK' /\ (Queue!zq_is_empty <=> consumed = inserted)
      /\ Queue!zq_is_empty' <=> consumed = inserted
  BY Zenon, <1>1, EmptyQueue DEF QueueIInv, ListOK, FreshEntries, Queue!zq_is_empty
<1>3. /\ pc \in [Threads -> Queue!PCs] /\ match_val \in [Threads -> 0..MaxItems] /\ seq \in 0..MaxItems
      /\ \A u \in inserter : inserter = {u} /\ pc[u] = "insert"
      /\ WordIsFresh
  BY Zenon DEF QueueIInv, ThreadsOK
<1> DEFINE Moves(p) ==
              /\ pc' = [pc EXCEPT ![t] = p] /\ pc[t] # "insert"
              /\ match_val' \in [Threads -> 0..MaxItems] /\ match_val'[t] <= seq
              /\ \A u \in Threads \ {t} : match_val'[u] = match_val[u]
              /\ p \in {"pcheck", "pwait", "pasleep", "left"} => t \in Pollers
              /\ p \in {"wait", "pwait", "asleep", "pasleep"} => consumed = inserted /\ inserter = {}
<1>4. PICK p \in Queue!PCs \ {"insert", "idle"} : Moves(p)
  <2> USE <1>1, <1>2, <1>3 DEF WordIsFresh, Queue!Goto, Queue!PCs
  <2>1. CASE Queue!zq_consume(t)
    <3>1. Moves("look")
      BY Zenon, <2>1 DEF Queue!zq_consume, Queue!Outside
    <3> QED BY Zenon, <3>1
  <2>2. CASE Queue!Look(t)
    <3>1. Moves("check") \/ Moves("take")
      BY Zenon, <2>2 DEF Queue!Look
    <3> QED BY Zenon, <3>1
  <2>3. CASE Queue!Grabbed(t)
    <3>1. Moves("look")
      BY Zenon, <2>3 DEF Queue!Grabbed
    <3> QED BY Zenon, <3>1
  <2>4. CASE Queue!_zq_check(t)
    <3>1. CASE ~Queue!zq_is_empty
      <4>1. Moves("look") \/ Moves("left")
        BY Zenon, <2>4, <3>1 DEF Queue!_zq_check
      <4> QED BY Zenon, <4>1
    <3>2. CASE Queue!zq_is_empty
      <4>1. Moves("wait") \/ Moves("pwait")
        BY <2>4, <3>2 DEF Queue!_zq_check
      <4> QED BY Zenon, <4>1
    <3> QED BY Zenon, <3>1, <3>2
  <2>5. CASE Queue!zutex_wait(t)
    <3>1. CASE seq = match_val[t]
      <4>1. Moves("asleep") \/ Moves("pasleep")
        BY Zenon, <2>5, <3>1 DEF Queue!zutex_wait
      <4> QED BY Zenon, <4>1
    <3>2. CASE seq # match_val[t]
      <4>1. Moves("check") \/ Moves("pcheck")
        BY Zenon, <2>5, <3>2 DEF Queue!zutex_wait
      <4> QED BY Zenon, <4>1
    <3> QED BY Zenon, <3>1, <3>2
  <2>6. CASE Queue!Poll(t)
    <3>1. Moves("pcheck")
      BY Zenon, <2>6 DEF Queue!Poll, Queue!Outside
    <3> QED BY Zenon, <3>1
  <2>7. CASE Queue!OtherReady(t)
    <3>1. Moves("pcheck") \/ Moves("left")
      BY Zenon, <2>7 DEF Queue!OtherReady
    <3> QED BY Zenon, <3>1
  <2> QED BY Zenon, <2>1, <2>2, <2>3, <2>4, <2>5, <2>6, <2>7
<1>5. ThreadsOK'
  BY <1>1, <1>3, <1>4 DEF ThreadsOK, WordIsFresh
<1>6. NoLostWake'
  <2>1. CASE consumed = inserted
    BY Zenon, <1>2, <2>1 DEF NoLostWake, Queue!NoLostWake
  <2>2. CASE consumed # inserted /\ \E u \in Threads : pc'[u] \in {"asleep", "pasleep"}
    <3>1. p \in {"left", "look", "take", "check", "pcheck"}
      BY Zenon, <1>4, <2>2 DEF Queue!PCs
    <3>2. Queue!Coming(t)' \/ pc'[t] = "left"
      BY Zenon, <1>3, <1>4, <3>1 DEF Queue!Coming
    <3> QED BY Zenon, <3>2 DEF NoLostWake, Queue!NoLostWake
  <2> QED BY Zenon, <2>1, <2>2, <1>2 DEF NoLostWake, Queue!NoLostWake, Queue!asleep
<1> QED BY Zenon, <1>2, <1>5, <1>6 DEF QueueIInv

\* An insertion begins: the word changes (ZQueue.cpp:106-107).
LEMMA InsertKeeps ==
    ASSUME QueueIInv, NEW t \in Threads, Queue!zq_insert(t)
    PROVE  QueueIInv'
<1> USE DEF Queue!zq_insert, Queue!listvars, Queue!Goto, Queue!Outside
<1>1. ListOK' /\ (Queue!zq_is_empty' <=> Queue!zq_is_empty)
  BY Zenon DEF QueueIInv, ListOK, FreshEntries, Queue!zq_is_empty
<1>2. ThreadsOK'
  <2>1. /\ pc \in [Threads -> Queue!PCs] /\ match_val \in [Threads -> 0..MaxItems] /\ seq \in Nat
        /\ \A u \in Threads : pc[u] # "insert" /\ match_val[u] <= seq
        /\ pc'[t] = "insert" /\ \A u \in Threads \ {t} : pc'[u] = pc[u]
        /\ pc' \in [Threads -> Queue!PCs]
    BY DEF QueueIInv, ThreadsOK, WordIsFresh, Queue!PCs
  <2>2. seq' \in 0..MaxItems /\ \A u \in Threads : match_val'[u] < seq'
    BY <2>1, QueueAssumption
  <2>3. WordIsFresh'
    <3>1. seq' = inserted' + (IF inserter' = {} THEN 0 ELSE 1)
      <4>1. inserter = {} /\ inserter' # {} /\ seq = inserted /\ inserted \in Nat
        BY DEF QueueIInv, ListOK, ThreadsOK, WordIsFresh
      <4> QED BY Zenon, <4>1
    <3>2. \A u \in Threads : pc'[u] \in {"pcheck", "pwait", "pasleep", "left"} => u \in Pollers
      BY Zenon, <2>1 DEF QueueIInv, ThreadsOK, WordIsFresh
    <3>3. \A u \in Threads : pc'[u] = "insert" <=> inserter' = {u}
      BY Zenon, <2>1
    <3>4. \A u \in Threads : match_val'[u] <= seq' /\ match_val'[u] # seq'
      BY <2>1, <2>2
    <3> QED BY Zenon, <3>1, <3>2, <3>3, <3>4 DEF WordIsFresh
  <2> QED BY Zenon, <2>1, <2>2, <2>3 DEF ThreadsOK
<1>3. NoLostWake'
  <2> SUFFICES ASSUME ~Queue!zq_is_empty, Queue!asleep' # {}
               PROVE  \E u \in Threads : (Queue!Coming(u) \/ pc[u] = "left")'
    BY Zenon, <1>1 DEF NoLostWake, Queue!NoLostWake
  <2>1. Queue!asleep # {}
    BY Zenon DEF Queue!asleep, QueueIInv, ThreadsOK
  <2>2. PICK u \in Threads : Queue!Coming(u) \/ pc[u] = "left"
    BY Zenon, <2>1 DEF QueueIInv, NoLostWake, Queue!NoLostWake
  <2>3. u # t
    BY Zenon, <2>2 DEF Queue!Coming, QueueIInv, ThreadsOK, WordIsFresh
  <2>4. Queue!Coming(u)' \/ pc'[u] = "left"
    BY <2>2, <2>3 DEF Queue!Coming, QueueIInv, ThreadsOK, WordIsFresh
  <2> QED BY Zenon, <2>4
<1> QED BY Zenon, <1>1, <1>2, <1>3 DEF QueueIInv

\* The entry is linked, and an insertion into an empty queue wakes a sleeper
\* (ZQueue.cpp:108-114).
LEMMA InsertLinkKeeps ==
    ASSUME QueueIInv, NEW t \in Threads, Queue!InsertLink(t)
    PROVE  QueueIInv'
<1> USE DEF Queue!InsertLink
<1>1. /\ pc \in [Threads -> Queue!PCs] /\ match_val \in [Threads -> 0..MaxItems] /\ seq \in 0..MaxItems
      /\ inserter = {t} /\ pc[t] = "insert" /\ WordIsFresh /\ seq = inserted + 1
      /\ inserted \in Nat /\ inserted < MaxItems /\ "idle" \in Queue!PCs
      /\ Queue!zq_is_empty \in BOOLEAN
  BY QueueAssumption DEF QueueIInv, ThreadsOK, ListOK, WordIsFresh, Queue!PCs, Queue!zq_is_empty
<1>2. /\ pc' \in [Threads -> Queue!PCs]
      /\ pc'[t] = "idle"
      /\ \A u \in Threads \ {t} :
            \/ pc'[u] = pc[u]
            \/ pc[u] = "asleep" /\ pc'[u] = "check"
            \/ pc[u] = "pasleep" /\ pc'[u] = "pcheck"
      /\ Queue!zq_is_empty => \/ \A u \in Threads : pc[u] \notin {"asleep", "pasleep"}
                              \/ \E u \in Threads \ {t} : pc'[u] \in {"check", "pcheck"}
  BY Zenon, <1>1, Woken
<1>3. ListOK'
  BY Zenon, <1>1, LinkKeeps DEF QueueIInv
<1>4. ThreadsOK'
  BY <1>1, <1>2 DEF ThreadsOK, WordIsFresh
<1>5. NoLostWake'
  <2> SUFFICES ASSUME NEW s \in Threads, pc'[s] \in {"asleep", "pasleep"}
               PROVE  \E u \in Threads : (Queue!Coming(u) \/ pc[u] = "left")'
    BY Zenon DEF NoLostWake, Queue!NoLostWake, Queue!asleep
  <2>1. pc[s] \in {"asleep", "pasleep"}
    BY Zenon, <1>2
  <2>2. CASE Queue!zq_is_empty
    BY Zenon, <1>2, <2>1, <2>2 DEF Queue!Coming
  <2>3. CASE ~Queue!zq_is_empty
    <3>1. PICK u \in Threads : Queue!Coming(u) \/ pc[u] = "left"
      BY Zenon, <2>1, <2>3 DEF QueueIInv, NoLostWake, Queue!NoLostWake, Queue!asleep
    <3>2. Queue!Coming(u)' \/ pc'[u] = "left"
      BY Zenon, <1>1, <1>2, <3>1 DEF Queue!Coming
    <3> QED BY Zenon, <3>2
  <2> QED BY Zenon, <2>2, <2>3
<1> QED BY Zenon, <1>3, <1>4, <1>5 DEF QueueIInv

\* A consumer takes a message or a part of it, and wakes the next if anything
\* is left (ZQueue.cpp:72-94).
LEMMA QueueTakeKeeps ==
    ASSUME QueueIInv, NEW t \in Threads, NEW whole \in BOOLEAN, Queue!Take(t, whole)
    PROVE  QueueIInv'
<1>1. /\ pc \in [Threads -> Queue!PCs] /\ match_val \in [Threads -> 0..MaxItems] /\ seq \in 0..MaxItems
      /\ pc[t] = "take" /\ inserter = {} /\ WordIsFresh /\ "idle" \in Queue!PCs
      /\ consumed # inserted
      /\ UNCHANGED <<seq, inserter, match_val, inserted>>
  BY Zenon, EmptyQueue DEF Queue!Take, QueueIInv, ThreadsOK, WordIsFresh, Queue!PCs
<1>2. ListOK' /\ (next'[0] # Queue!NULL <=> consumed' # inserted')
  <2>1. /\ next' = [next EXCEPT ![0] = IF whole THEN next[next[0]] ELSE next[0]]
        /\ tailp' = (IF next'[0] = Queue!NULL THEN 0 ELSE tailp)
        /\ consumed' = (IF whole THEN consumed + 1 ELSE consumed)
    BY Zenon DEF Queue!Take, Queue!HEAD
  <2> QED BY Zenon, <1>1, <2>1, TakeKeeps DEF QueueIInv
<1>3. /\ pc' \in [Threads -> Queue!PCs]
      /\ pc'[t] = "idle"
      /\ \A u \in Threads \ {t} :
            \/ pc'[u] = pc[u]
            \/ pc[u] = "asleep" /\ pc'[u] = "check"
            \/ pc[u] = "pasleep" /\ pc'[u] = "pcheck"
      /\ next'[0] # Queue!NULL => \/ \A u \in Threads : pc[u] \notin {"asleep", "pasleep"}
                                  \/ \E u \in Threads \ {t} : pc'[u] \in {"check", "pcheck"}
  <2>1. Queue!GotoAndWake(t, "idle", next'[0] # Queue!NULL) /\ (next'[0] # Queue!NULL) \in BOOLEAN
    BY Zenon DEF Queue!Take, Queue!HEAD
  <2> QED BY Zenon, <1>1, <2>1, Woken
<1>4. ThreadsOK'
  <2>1. \A u \in Threads : pc[u] \in {"wait", "pwait"} => match_val[u] # seq
    BY Zenon, <1>1 DEF WordIsFresh
  <2> QED BY Zenon, <1>1, <1>3, <2>1 DEF ThreadsOK, WordIsFresh
<1>5. NoLostWake'
  <2> SUFFICES ASSUME next'[0] # Queue!NULL, NEW s \in Threads, pc'[s] \in {"asleep", "pasleep"}
               PROVE  \E u \in Threads : (Queue!Coming(u) \/ pc[u] = "left")'
    BY Zenon DEF NoLostWake, Queue!NoLostWake, Queue!asleep, Queue!zq_is_empty,
       Queue!HEAD
  <2>1. pc[s] \in {"asleep", "pasleep"}
    BY Zenon, <1>3
  <2> QED BY Zenon, <1>3, <2>1 DEF Queue!Coming
<1> QED BY Zenon, <1>2, <1>4, <1>5 DEF QueueIInv

\* The invariant holds of every behaviour of the queue.
LEMMA QueueInvariant == Queue!Spec => []QueueIInv
<1>1. ASSUME QueueIInv, [Queue!Next]_(Queue!vars) PROVE QueueIInv'
  <2>1. CASE UNCHANGED Queue!vars
    <3>1. ListOK' /\ ThreadsOK'
      BY Zenon, <1>1, <2>1 DEF QueueIInv, ListOK, ThreadsOK, WordIsFresh,
         FreshEntries, Queue!vars
    <3>2. NoLostWake'
      BY Zenon, <1>1, <2>1 DEF QueueIInv, NoLostWake, Queue!NoLostWake,
         Queue!zq_is_empty, Queue!asleep, Queue!Coming, Queue!vars
    <3> QED BY Zenon, <3>1, <3>2 DEF QueueIInv
  <2>2. CASE Queue!Next
    BY Zenon, <1>1, <2>2, QuietKeeps, InsertKeeps, InsertLinkKeeps,
       QueueTakeKeeps DEF Queue!Next
  <2> QED BY Zenon, <1>1, <2>1, <2>2
<1> QED BY <1>1, QueueInit, PTL DEF Queue!Spec

\* For any threads that insert, consume and poll, and any number of messages:
\* the list holds exactly what came and was not taken, in order, and the tail
\* pointer is at its end (ZQueue.cpp:72-84, 112-113).
THEOREM ZQueueInOrder == Queue!Spec => []InOrder
<1>1. QueueIInv => InOrder
  BY Zenon DEF QueueIInv, ListOK, ThreadsOK, InOrder, Queue!InOrder,
     Queue!TypeOK, Queue!HEAD
<1> QED BY <1>1, QueueInvariant, PTL

\* Likewise: while a message is left and a consumer sleeps, somebody is on the
\* way who will take it or wake the next (ZQueue.cpp:86-91, 108-111).
THEOREM ZQueueNoLostWake == Queue!Spec => []NoLostWake
<1>1. QueueIInv => NoLostWake
  BY Zenon DEF QueueIInv
<1> QED BY <1>1, QueueInvariant, PTL
=============================================================================
