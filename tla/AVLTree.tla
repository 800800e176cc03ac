------------------------------ MODULE AVLTree -------------------------------
(***************************************************************************)
(* The balanced tree of common/utils/avl2.h and avl2logic.h, on which the  *)
(* timers of ZClock, the CoalescingAllocator, the FragmentReassembly and   *)
(* the file-transfer RequestBuilder are built.  Every operation runs under *)
(* the tree's critical section, so each is one step.  A node is named by   *)
(* the key of its element.  The heap is a record of the root and of the    *)
(* fields of the nodes; kid["Left"] and kid["Right"] are the two child     *)
(* links, so that code written twice, once per side, is one definition.    *)
(***************************************************************************)
EXTENDS Integers, FiniteSets, Sequences

CONSTANTS Keys,   \* keyClass, totally ordered by <
          NULL

VARIABLES heap,   \* tree, and the nodes' left, right, parent and balance
          count   \* insertions - deletions

vars == <<heap, count>>

Side == {"Left", "Right"}

Opposite(side) == IF side = "Left" THEN "Right" ELSE "Left"

\* AVLNodeLogic::initialize, and what remove leaves in the freed node
Blank(h, n) == [h EXCEPT !.kid["Left"][n] = NULL, !.kid["Right"][n] = NULL,
                         !.parent[n] = NULL, !.balance[n] = "New"]

\* AVLTree::AVLTree
Init == /\ heap = [root    |-> NULL,
                   kid     |-> [s \in Side |-> [k \in Keys |-> NULL]],
                   parent  |-> [k \in Keys |-> NULL],
                   balance |-> [k \in Keys |-> "New"]]
        /\ count = 0

-----------------------------------------------------------------------------
\* The searches, as methods of the tree: NULL where no key qualifies.

RECURSIVE FirstLess(_, _, _, _)
FirstLess(h, self, key, orEqual) ==
    IF self = NULL THEN NULL
    ELSE IF orEqual /\ self = key THEN self
    ELSE IF self < key
      THEN LET below == FirstLess(h, h.kid["Right"][self], key, orEqual)
           IN  IF below = NULL THEN self ELSE below
      ELSE FirstLess(h, h.kid["Left"][self], key, orEqual)

findFirstLessThan(h, key) == FirstLess(h, h.root, key, FALSE)

findFirstLessThanOrEqualTo(h, key) == FirstLess(h, h.root, key, TRUE)

RECURSIVE FirstGreater(_, _, _, _)
FirstGreater(h, self, key, orEqual) ==
    IF self = NULL THEN NULL
    ELSE IF orEqual /\ self = key THEN self
    ELSE IF self > key
      THEN LET below == FirstGreater(h, h.kid["Left"][self], key, orEqual)
           IN  IF below = NULL THEN self ELSE below
      ELSE FirstGreater(h, h.kid["Right"][self], key, orEqual)

findFirstGreaterThan(h, key) == FirstGreater(h, h.root, key, FALSE)

findFirstGreaterThanOrEqualTo(h, key) == FirstGreater(h, h.root, key, TRUE)

lookup(h, key) == IF findFirstLessThanOrEqualTo(h, key) = key THEN key ELSE NULL

RECURSIVE Outermost(_, _, _)
Outermost(h, self, side) ==
    IF h.kid[side][self] = NULL THEN self ELSE Outermost(h, h.kid[side][self], side)

findMin(h) == IF h.root = NULL THEN NULL ELSE Outermost(h, h.root, "Left")

findMax(h) == IF h.root = NULL THEN NULL ELSE Outermost(h, h.root, "Right")

\* The elements foreach and firstthat visit from one on, in order.
RECURSIVE VisitFrom(_, _)
VisitFrom(h, element) ==
    IF element = NULL THEN <<>>
    ELSE <<element>> \o VisitFrom(h, findFirstGreaterThan(h, element))

foreach(h) == VisitFrom(h, findMin(h))

-----------------------------------------------------------------------------
\* setLeft or setRight, with the child's setParent that goes with it
Attach(h, self, side, child) ==
    [h EXCEPT !.kid[side][self] = child,
              !.parent = IF child = NULL THEN @ ELSE [@ EXCEPT ![child] = self]]

\* The side of its parent on which self hangs.
SideOf(h, self) == IF h.kid["Left"][h.parent[self]] = self THEN "Left" ELSE "Right"

\* Puts other, which may be NULL, where self hangs; the root has no parent.
Promote(h, self, other) ==
    IF h.parent[self] # NULL
      THEN Attach(h, h.parent[self], SideOf(h, self), other)
      ELSE [h EXCEPT !.root = other,
                     !.parent = IF other = NULL THEN @ ELSE [@ EXCEPT ![other] = NULL]]

SetBalance(h, self, b) == [h EXCEPT !.balance[self] = b]

\* Mutant of singleRotate: the light subtree of child is forgotten.
singleRotate_drop(h, self, child, side) ==
    LET up   == Promote(h, self, child)
        down == Attach(Attach(up, self, side, NULL), child, Opposite(side), self)
    IN  SetBalance(SetBalance(down, self, "Balanced"), child, "Balanced")

\* child takes the place of self, its parent, which keeps child's light subtree
singleRotate(h, self, child, side) ==
    LET light == Opposite(side)
        up    == Promote(h, self, child)
        mid   == Attach(up, self, side, h.kid[light][child])
        down  == Attach(mid, child, light, self)
    IN  SetBalance(SetBalance(down, self, "Balanced"), child, "Balanced")

\* Mutant of doubleRotate: the balances are set as for a single rotation.
doubleRotate_flat(h, self, child, grandchild, side) ==
    LET light == Opposite(side)
        up   == Promote(h, self, grandchild)
        top  == Attach(Attach(up, grandchild, side, child), grandchild, light, self)
        beta == Attach(top, self, side, h.kid[light][grandchild])
        all  == Attach(beta, child, light, h.kid[side][grandchild])
    IN  [all EXCEPT !.balance[self] = "Balanced", !.balance[child] = "Balanced",
                    !.balance[grandchild] = "Balanced"]

\* grandchild takes the place of self, and self and child become its children;
\* its two subtrees, beta and gamma, go to them
doubleRotate(h, self, child, grandchild, side) ==
    LET light == Opposite(side)
        up    == Promote(h, self, grandchild)
        top   == Attach(Attach(up, grandchild, side, child), grandchild, light, self)
        beta  == Attach(top, self, side, h.kid[light][grandchild])
        gamma == Attach(beta, child, light, h.kid[side][grandchild])
        heavy == h.balance[grandchild]
    IN  [gamma EXCEPT
           !.balance[self]  = IF heavy = side THEN light ELSE "Balanced",
           !.balance[child] = IF heavy = light THEN side ELSE "Balanced",
           !.balance[grandchild] = "Balanced"]

\* rightAdded and leftAdded: the subtree of self on side is one deeper
RECURSIVE Added(_, _, _)
Added(h, self, side) ==
    LET child == h.kid[side][self] IN
    CASE h.balance[self] = Opposite(side) -> SetBalance(h, self, "Balanced")
      [] h.balance[self] = "Balanced" ->
           LET deeper == SetBalance(h, self, side) IN
           IF h.parent[self] = NULL THEN deeper
           ELSE Added(deeper, h.parent[self], SideOf(h, self))
      [] OTHER ->
           IF h.balance[child] = side
             THEN singleRotate(h, self, child, side)
             ELSE doubleRotate(h, self, child, h.kid[Opposite(side)][child], side)

\* The leaf under which a new element goes.
RECURSIVE Leaf(_, _, _)
Leaf(h, node, key) ==
    LET next == h.kid[IF node < key THEN "Right" ELSE "Left"][node]
    IN  IF next = NULL THEN node ELSE Leaf(h, next, key)

\* AVLNodeLogic::insert
NodeInsert(h, self) ==
    LET new == SetBalance(h, self, "Balanced") IN
    IF h.root = NULL THEN [new EXCEPT !.root = self]
    ELSE LET previous == Leaf(h, h.root, self)
             side     == IF previous < self THEN "Right" ELSE "Left"
         IN  Added(Attach(new, previous, side, self), previous, side)

\* The subtree of self on side is one shorter.
RECURSIVE gotOneShorter(_, _, _)
gotOneShorter(h, self, side) ==
    LET heavySide  == Opposite(side)
        heavyChild == h.kid[heavySide][self]
        grandchild == h.kid[side][heavyChild]
        Above(g, n) == IF g.parent[n] = NULL THEN g
                       ELSE gotOneShorter(g, g.parent[n], SideOf(g, n))
    IN
    CASE h.balance[self] = "Balanced" -> SetBalance(h, self, heavySide)
      [] h.balance[self] = side -> Above(SetBalance(h, self, "Balanced"), self)
      [] h.balance[self] = heavySide ->
           CASE h.balance[heavyChild] = heavySide ->
                  Above(singleRotate(h, self, heavyChild, heavySide), heavyChild)
             [] h.balance[heavyChild] = side ->
                  Above(doubleRotate(h, self, heavyChild, grandchild, heavySide), grandchild)
             [] OTHER ->
                  [singleRotate(h, self, heavyChild, heavySide) EXCEPT
                     !.balance[self] = heavySide, !.balance[heavyChild] = side]

\* AVLNodeLogic::remove: a node with one child at most is replaced by it, any
\* other by its successor, whose own place its right child takes
NodeRemove(h, self) ==
    LET left  == h.kid["Left"][self]
        right == h.kid["Right"][self]
        only  == IF left = NULL THEN right ELSE left
        succ  == Outermost(h, right, "Left")
        \* the successor is the right child, or is taken out from under it
        taken == IF succ = right THEN h
                 ELSE Attach(h, h.parent[succ], "Left", h.kid["Right"][succ])
        kids  == Attach(IF succ = right THEN taken
                        ELSE Attach(taken, succ, "Right", taken.kid["Right"][self]),
                        succ, "Left", left)
        moved == SetBalance(Promote(kids, self, succ), succ, h.balance[self])
        spliced == Promote(h, self, only)
        rest  ==
          IF left = NULL \/ right = NULL
            THEN IF h.parent[self] = NULL THEN spliced
                 ELSE gotOneShorter(spliced, h.parent[self], SideOf(h, self))
            ELSE IF succ = right THEN gotOneShorter(moved, succ, "Right")
                 ELSE gotOneShorter(moved, h.parent[succ], "Left")
    IN  Blank(rest, self)

-----------------------------------------------------------------------------
\* AVLTree::insert; inserting a key that is there is asserted against
insert(k) ==
    /\ heap.balance[k] = "New"
    /\ heap' = NodeInsert(Blank(heap, k), k)
    /\ count' = count + 1

\* AVLTree::remove by element or key, which finds the node first; by a key
\* that is not there it changes nothing
remove(k) ==
    /\ findFirstLessThanOrEqualTo(heap, k) = k
    /\ heap' = NodeRemove(heap, k)
    /\ count' = count - 1

Next == \E k \in Keys : insert(k) \/ remove(k)

Spec == Init /\ [][Next]_vars
-----------------------------------------------------------------------------
\* AVLNodeLogic::checkAndReturnDepth, as the depth of the subtree, or -1 where
\* one of its assertions fails in it
RECURSIVE checkAndReturnDepth(_, _)
checkAndReturnDepth(h, self) ==
    IF self = NULL THEN 0
    ELSE LET left  == h.kid["Left"][self]
             right == h.kid["Right"][self]
             l     == checkAndReturnDepth(h, left)
             r     == checkAndReturnDepth(h, right)
         IN  IF /\ left # NULL => h.parent[left] = self /\ left < self
                /\ right # NULL => h.parent[right] = self /\ self < right
                /\ l # -1 /\ r # -1
                /\ <<r - l, h.balance[self]>> \in
                      {<<-1, "Left">>, <<0, "Balanced">>, <<1, "Right">>}
             THEN 1 + IF l > r THEN l ELSE r
             ELSE -1

\* The nodes of the subtree of self.
RECURSIVE Nodes(_, _)
Nodes(h, self) ==
    IF self = NULL THEN {}
    ELSE {self} \cup Nodes(h, h.kid["Left"][self]) \cup Nodes(h, h.kid["Right"][self])

Contents == Nodes(heap, heap.root)

\* The tree passes its own check: the links agree in both directions, the
\* keys are ordered, every balance field tells the difference of the depths,
\* which is at most one, and the count is exact (avl2.h:524-570,
\* avl2logic.h:349-399).  The code never calls it: the calls in insert and
\* remove are commented out.
CheckPasses == /\ heap.root # NULL => heap.parent[heap.root] = NULL
           /\ checkAndReturnDepth(heap, heap.root) # -1
           /\ count = Cardinality(Contents)
           /\ \A k \in Keys : heap.balance[k] = "New" <=> k \notin Contents

Largest(S) == IF S = {} THEN NULL ELSE CHOOSE x \in S : \A y \in S : y <= x
Smallest(S) == IF S = {} THEN NULL ELSE CHOOSE x \in S : \A y \in S : x <= y

\* After every insertion and removal, whatever the rotations on the way up, the
\* tree passes its check, each search returns the key its name promises, for
\* every key asked for, in the tree or not, and foreach visits every element
\* once, in order (avl2.h:240-570, avl2logic.h:156-399).
SearchesAreExact ==
    /\ CheckPasses
    /\ \A k \in Keys :
         /\ lookup(heap, k) = IF k \in Contents THEN k ELSE NULL
         /\ findFirstLessThan(heap, k) = Largest({x \in Contents : x < k})
         /\ findFirstLessThanOrEqualTo(heap, k) = Largest({x \in Contents : x <= k})
         /\ findFirstGreaterThan(heap, k) = Smallest({x \in Contents : x > k})
         /\ findFirstGreaterThanOrEqualTo(heap, k) = Smallest({x \in Contents : x >= k})
    /\ findMin(heap) = Smallest(Contents) /\ findMax(heap) = Largest(Contents)
    /\ LET visited == foreach(heap) IN
         /\ {visited[i] : i \in DOMAIN visited} = Contents
         /\ \A i, j \in DOMAIN visited : i < j => visited[i] < visited[j]

\* The tree behaves as a set of keys (avl2.h:573-628).
Tree == INSTANCE KeySet WITH contents <- Contents
IsKeySet == Tree!Spec
=============================================================================
