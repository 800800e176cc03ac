------------------------- MODULE CoalescingAllocator ------------------------
(***************************************************************************)
(* The range allocator of common/utils/CoalescingAllocator.cpp, which      *)
(* hands out guest memory (ZoogVM), tunnel addresses (Listener) and the    *)
(* memory of the Genode PAL.  Every operation that changes it runs under   *)
(* its mutex and is one step.  Its three AVL trees are the sets of their   *)
(* ranges, which is what AVLTree shows them to be; RangeByStartKey::cmp    *)
(* and RangeBySizeKey::cmp subtract unsigned 32-bit values into an int,    *)
(* which orders any two addresses less than 2^31 apart.  A range is        *)
(* [start, end); user objects are reference-counted by the fragments of    *)
(* their allocation.                                                       *)
(***************************************************************************)
EXTENDS Integers, FiniteSets

CONSTANTS Space,      \* the addresses 0 .. Space - 1
          Objects,    \* user objects an allocation may carry
          allow_redundant_frees

VARIABLES trees,      \* by_size, by_start: free ranges; allocated: fragments;
                      \* refcount: of each object's RefcountedUserObj;
                      \* deleted: the objects whose count fell to 0
          managed,    \* the addresses ever passed to create_empty_range
          failed      \* an assertion of the allocator has failed

vars == <<trees, managed, failed>>

Range(start, end) == [start |-> start, end |-> end]

Ranges == {Range(s, e) : s \in 0 .. Space - 1, e \in 1 .. Space}

\* Range::size
size(r) == IF r.end < r.start THEN 0 ELSE r.end - r.start

max(a, b) == IF a > b THEN a ELSE b
min(a, b) == IF a < b THEN a ELSE b

\* Range::intersect
intersect(r, q) == Range(max(r.start, q.start), min(r.end, q.end))

\* RangeBySizeKey::cmp, by size and then by start
SmallerThan(r, q) == \/ size(r) < size(q)
                     \/ size(r) = size(q) /\ r.start < q.start

\* The tree searches by start, as the set of what they return: one range or none.
LastAtOrBefore(S, x) ==
    {r \in S : r.start <= x /\ \A q \in S : q.start <= x => q.start <= r.start}
FirstAtOrAfter(S, x) ==
    {r \in S : r.start >= x /\ \A q \in S : q.start >= x => r.start <= q.start}

Init == /\ trees = [by_size |-> {}, by_start |-> {}, allocated |-> {},
                    refcount |-> [o \in Objects |-> 0], deleted |-> Objects]
        /\ managed = {}
        /\ failed = FALSE
-----------------------------------------------------------------------------
\* An outcome of the nolock routines: the trees, and whether an assertion failed.
Outcome(t, ok) == [trees |-> t, ok |-> ok]

\* _remove_free_range_by_start_elt
_remove_free_range(t, r) == [t EXCEPT !.by_size = @ \ {r}, !.by_start = @ \ {r}]

\* _insert_coalesced_free_range
_insert_coalesced_free_range(t, r) ==
    Outcome([t EXCEPT !.by_size = @ \cup {r}, !.by_start = @ \cup {r}], size(r) > 0)

\* Mutant of _create_empty_range_nolock: after coalescing to the right it does
\* not look to the left.
_create_empty_range_nolock_right(t, new) ==
    LET following == FirstAtOrAfter(t.by_start, new.start)
        preceding == LastAtOrBefore(t.by_start, new.start)
    IN
    CASE \E f \in following : f.start < new.end -> Outcome(t, FALSE)
      [] \E f \in following : f.start = new.end ->
           LET f == CHOOSE f \in following : TRUE IN
           _insert_coalesced_free_range(_remove_free_range(t, f), Range(new.start, f.end))
      [] \E p \in preceding : p.end > new.start -> Outcome(t, FALSE)
      [] \E p \in preceding : p.end = new.start ->
           LET p == CHOOSE p \in preceding : TRUE IN
           _insert_coalesced_free_range(_remove_free_range(t, p), Range(p.start, new.end))
      [] OTHER -> _insert_coalesced_free_range(t, new)

RECURSIVE _create_empty_range_nolock(_, _)
_create_empty_range_nolock(t, new) ==
    LET following == FirstAtOrAfter(t.by_start, new.start)
        preceding == LastAtOrBefore(t.by_start, new.start)
    IN
    CASE \E f \in following : f.start < new.end -> Outcome(t, FALSE)
      [] \E f \in following : f.start = new.end ->
           LET f == CHOOSE f \in following : TRUE IN
           _create_empty_range_nolock(_remove_free_range(t, f), Range(new.start, f.end))
      [] \E p \in preceding : p.end > new.start -> Outcome(t, FALSE)
      [] \E p \in preceding : p.end = new.start ->
           LET p == CHOOSE p \in preceding : TRUE IN
           _insert_coalesced_free_range(_remove_free_range(t, p), Range(p.start, new.end))
      [] OTHER -> _insert_coalesced_free_range(t, new)

\* An element of the allocated tree, which holds a reference to its object.
Fragment(r, o) == [range |-> r, obj |-> o]

\* A RangeByStartElt is made for each of the ranges and put in the tree.
AddFragments(t, ranges, o) ==
    [t EXCEPT !.allocated = @ \cup {Fragment(r, o) : r \in ranges},
              !.refcount[o] = @ + Cardinality(ranges)]

\* RefcountedUserObj::drop_ref, by the destructor of a RangeByStartElt
drop_ref(t, o) ==
    [t EXCEPT !.refcount[o] = @ - 1,
              !.deleted = IF t.refcount[o] = 1 THEN @ \cup {o} ELSE @]

\* What is left of the fragment on either side stays allocated.
_free_subrange(t, fragment, overlap) ==
    LET left  == Range(fragment.range.start, overlap.start)
        right == Range(overlap.end, fragment.range.end)
        rest  == {q \in {left, right} : size(q) > 0}
        gone  == [t EXCEPT !.allocated = @ \ {fragment}]
        split == AddFragments(gone, rest, fragment.obj)
    IN  _create_empty_range_nolock(drop_ref(split, fragment.obj), overlap)

\* The loop of free_range, which skips what is not allocated.
RECURSIVE FreeFrom(_, _)
FreeFrom(t, r) ==
    LET ranges  == {f.range : f \in t.allocated}
        covers  == {q \in LastAtOrBefore(ranges, r.start) : size(intersect(r, q)) > 0}
        further == FirstAtOrAfter(ranges, r.start)
    IN
    CASE size(r) = 0 -> Outcome(t, TRUE)
      [] covers # {} ->
           LET fragment == CHOOSE f \in t.allocated : f.range \in covers
               overlap  == intersect(r, fragment.range)
               freed    == _free_subrange(t, fragment, overlap)
           IN  IF freed.ok THEN FreeFrom(freed.trees, Range(overlap.end, r.end)) ELSE freed
      [] ~ allow_redundant_frees -> Outcome(t, FALSE)
      [] further = {} -> Outcome(t, TRUE)
      [] OTHER -> FreeFrom(t, Range((CHOOSE q \in further : TRUE).start, r.end))
-----------------------------------------------------------------------------
\* create_empty_range, of addresses not managed before
create_empty_range(r) ==
    /\ size(r) > 0
    /\ (r.start .. r.end - 1) \cap managed = {}
    /\ LET result == _create_empty_range_nolock(trees, r) IN
         trees' = result.trees /\ failed' = ~ result.ok
    /\ managed' = managed \cup (r.start .. r.end - 1)

\* The free ranges allocate_range may take for want addresses: the smallest
\* that is large enough, the first of those that are equal.
Suitable(t, want) ==
    LET enough == {r \in t.by_size : ~ SmallerThan(r, Range(0, want))}
    IN  {r \in enough : \A q \in enough \ {r} : SmallerThan(r, q)}

\* allocate_range of a size above 0 that finds a suitable range, for an object
\* the caller has just made; one that finds none changes nothing
allocate_range(want, o) ==
    /\ o \in trees.deleted
    /\ \E r \in Suitable(trees, want) :
         LET consumed == Range(r.start, r.start + want)
             leftover == Range(consumed.end, r.end)
             taken    == AddFragments(_remove_free_range(trees, r), {consumed}, o)
             made     == [taken EXCEPT !.deleted = @ \ {o}]
             result   == IF size(leftover) > 0
                           THEN _create_empty_range_nolock(made, leftover)
                           ELSE Outcome(made, TRUE)
         IN  /\ trees' = result.trees
             /\ failed' = ~ (result.ok /\ size(intersect(consumed, r)) = want)
    /\ UNCHANGED managed

\* free_range, of any range if redundant frees are allowed and of allocated
\* addresses otherwise
free_range(r) ==
    /\ size(r) > 0
    /\ allow_redundant_frees \/
         \A a \in r.start .. r.end - 1 : \E f \in trees.allocated :
            a \in f.range.start .. f.range.end - 1
    /\ LET result == FreeFrom(trees, r) IN
         trees' = result.trees /\ failed' = ~ result.ok
    /\ UNCHANGED managed

Next == \/ \E r \in Ranges : create_empty_range(r) \/ free_range(r)
        \/ \E want \in 1 .. Space, o \in Objects : allocate_range(want, o)

Spec == Init /\ [][Next]_vars
-----------------------------------------------------------------------------
Addresses(r) == r.start .. r.end - 1

\* No assertion fails; the two free trees hold the same ranges; the free and
\* the allocated ranges partition the managed addresses, whatever is freed
\* piecewise or twice; no two free ranges touch, the invariant on which the
\* recursion that coalesces to the right rests; and a user object has one
\* reference for each fragment left of its allocation, and is deleted when the
\* last is freed, never before (CoalescingAllocator.cpp:69-93, 149-203, 285-352).
Partition ==
    LET all == trees.by_start \cup {f.range : f \in trees.allocated} IN
    /\ ~ failed
    /\ trees.by_size = trees.by_start
    /\ \A r \in all : size(r) > 0
    /\ UNION {Addresses(r) : r \in all} = managed
    /\ \A r, q \in all : r # q => Addresses(r) \cap Addresses(q) = {}
    /\ \A r, q \in trees.by_start : r.end # q.start
    /\ \A o \in Objects :
         LET fragments == {f \in trees.allocated : f.obj = o} IN
         /\ trees.refcount[o] = Cardinality(fragments)
         /\ o \in trees.deleted <=> fragments = {}
=============================================================================
