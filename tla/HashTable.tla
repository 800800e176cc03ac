------------------------------ MODULE HashTable ------------------------------
(***************************************************************************)
(* The hash table used throughout monitors and client                      *)
(* (common/utils/hash_table.c).  It grows incrementally: growing makes the *)
(* full table the old one and starts an empty table of twice the buckets,  *)
(* and every insertion and every successful lookup moves one datum across. *)
(* Growing again frees the old table, which is asserted to be empty by     *)
(* then.  A chain is the set of its data, and a subtable the set of its    *)
(* data and its number of buckets.                                         *)
(***************************************************************************)
EXTENDS Integers, FiniteSets

CONSTANTS Keys,       \* data, equal when cmp_func says 0
          Hash,       \* hash_func
          LoadLimit   \* LOAD_FACTOR_LIMIT

ASSUME HashAssumption == Hash \in [Keys -> Nat] /\ LoadLimit \in Nat

VARIABLES old,              \* data of old_table
          old_buckets,      \* old_table->num_buckets
          next_old_bucket,
          new,              \* data of new_table
          new_buckets,      \* new_table->num_buckets
          count

vars == <<old, old_buckets, next_old_bucket, new, new_buckets, count>>

TypeOK == /\ old \in SUBSET Keys /\ IsFiniteSet(old)
          /\ new \in SUBSET Keys /\ IsFiniteSet(new)
          /\ old_buckets \in Nat \ {0}
          /\ new_buckets \in Nat \ {0}
          /\ next_old_bucket \in 0..old_buckets
          /\ count \in Nat

\* hash_table_init
Init == /\ old = {} /\ old_buckets = 1 /\ next_old_bucket = 1
        /\ new = {} /\ new_buckets = 2
        /\ count = 0

\* _subtable_find_bucket
Bucket(d, num_buckets) == Hash[d] % num_buckets

-----------------------------------------------------------------------------
\* Mutant of shift_one: the cursor steps over the bucket it takes from.
shift_one_over(o, buckets, cursor, n) ==
    \/ /\ \A d \in o : Bucket(d, buckets) < cursor
       /\ old' = o /\ new' = n
       /\ next_old_bucket' = buckets
    \/ \E d \in o :
          /\ Bucket(d, buckets) >= cursor
          /\ \A e \in o : Bucket(e, buckets) \notin cursor..(Bucket(d, buckets) - 1)
          /\ old' = o \ {d} /\ new' = n \cup {d}
          /\ next_old_bucket' = Bucket(d, buckets) + 1

\* _hash_table_shift_one: from the first old bucket at or after the cursor
\* that has a chain, the head of the chain moves to the new table.
shift_one(o, buckets, cursor, n) ==
    \/ /\ \A d \in o : Bucket(d, buckets) < cursor
       /\ old' = o /\ new' = n
       /\ next_old_bucket' = buckets
    \/ \E d \in o :
          /\ Bucket(d, buckets) >= cursor
          /\ \A e \in o : Bucket(e, buckets) \notin cursor..(Bucket(d, buckets) - 1)
          /\ old' = o \ {d} /\ new' = n \cup {d}
          /\ next_old_bucket' = Bucket(d, buckets)

\* hash_table_insert (and hash_table_union of an absent datum): growing
\* frees the old table, whatever is in it
insert(d) ==
    /\ d \notin old \cup new
    /\ count' = count + 1
    /\ IF (count + 1) \div new_buckets > LoadLimit
         THEN /\ old_buckets' = new_buckets
              /\ new_buckets' = 2 * new_buckets
              /\ shift_one(new \cup {d}, new_buckets, 0, {})
         ELSE /\ shift_one(old, old_buckets, next_old_bucket, new \cup {d})
              /\ UNCHANGED <<old_buckets, new_buckets>>

\* hash_table_lookup that finds d (also hash_table_union of a datum present)
lookup(d) ==
    /\ d \in old \cup new
    /\ shift_one(old, old_buckets, next_old_bucket, new)
    /\ UNCHANGED <<old_buckets, new_buckets, count>>

\* hash_table_remove
remove(d) ==
    /\ d \in old \cup new
    /\ new' = new \ {d}
    /\ old' = IF d \in new THEN old ELSE old \ {d}
    /\ count' = count - 1
    /\ UNCHANGED <<old_buckets, new_buckets, next_old_bucket>>

\* hash_table_remove_every
remove_every ==
    /\ old' = {} /\ new' = {} /\ count' = 0
    /\ UNCHANGED <<old_buckets, new_buckets, next_old_bucket>>

Next == \/ \E d \in Keys : insert(d) \/ lookup(d) \/ remove(d)
        \/ remove_every

Spec == Init /\ [][Next]_vars
-----------------------------------------------------------------------------
\* The old table empties in time: the data still to be moved are fewer than
\* the insertions left before the table grows again, so the assertion that
\* it is empty when it is freed holds (hash_table.c:23, 121, 199-206).
OldDrains == Cardinality(old) < (LoadLimit + 1) * new_buckets - count

\* Every datum is in one subtable only, the count is exact, and no datum of
\* the old table is in a bucket the cursor has passed, where it would never
\* be moved (hash_table.c:140-175, 237-251).
WellFormed == /\ old \cap new = {}
              /\ count = Cardinality(old) + Cardinality(new)
              /\ \A d \in old : Bucket(d, old_buckets) >= next_old_bucket

\* The table behaves as a set: growing and shifting never lose, duplicate or
\* resurrect a datum (hash_table.c:119-251).
Contents == INSTANCE KeySet WITH contents <- old \cup new
IsKeySet == Contents!Spec
=============================================================================
