-------------------------- MODULE ZutexTableProofs --------------------------
(***************************************************************************)
(* Proofs about the KVM monitor's zutexes, for any threads, zutexes,       *)
(* widths of their words, numbers of wakes and waits that name each zutex  *)
(* once: the book-keeping of the table, and that it implements Zutex.      *)
(***************************************************************************)
EXTENDS AppZutexes, WellFoundedInduction, TLAPS

\* A set of numbers that is not empty has a least one: the loops of
\* ZutexTable::wake are reasoned about by their first wrong turn.
LEMMA LeastNumber == \A T \in SUBSET Nat : T # {} => \E x \in T : \A y \in T : x <= y
<1> DEFINE R == {ss \in Nat \X Nat : ss[1] < ss[2]}
<1> SUFFICES ASSUME NEW T \in SUBSET Nat, T # {} PROVE \E x \in T : \A y \in T : x <= y
  BY Zenon
<1>1. IsWellFoundedOn(R, Nat)
  BY Zenon, NatLessThanWellFounded DEF OpToRel
<1>2. \E x \in T : \A y \in T : ~ (<<y, x>> \in R)
  <2> HIDE DEF R
  <2> QED BY Zenon, <1>1, WFMin
<1>3. PICK x \in T : \A y \in T : ~ (<<y, x>> \in R)
  BY Zenon, <1>2
<1>4. ASSUME NEW y \in T PROVE x <= y
  <2>1. ~ (<<y, x>> \in R)
    BY Zenon, <1>3
  <2>2. <<y, x>> \in Nat \X Nat
    BY Zenon
  <2>3. ~ (y < x)
    BY Zenon, <2>1, <2>2
  <2> QED
    BY <2>3
<1> QED
  BY Zenon, <1>4

-----------------------------------------------------------------------------
\* A set of numbers that has 0 and, with every number below n, the next one
\* has them all.
LEMMA Counts0 ==
  ASSUME NEW n \in Nat, NEW T \in SUBSET (0..n), 0 \in T,
         \A i \in 1..n : i - 1 \in T => i \in T
  PROVE  n \in T
<1> SUFFICES ASSUME n \notin T PROVE FALSE
  OBVIOUS
<1> DEFINE U == {i \in 0..n : i \notin T}
<1>1. U \in SUBSET Nat /\ n \in U
  OBVIOUS
<1>2. PICK m \in U : \A j \in U : m <= j
  <2> HIDE DEF U
  <2> QED  BY Zenon, <1>1, LeastNumber
<1>3. m \in 1..n /\ m - 1 \in 0..n /\ ~(m <= m - 1) /\ m \notin T
  BY <1>2
<1>4. m - 1 \in T
  BY Zenon, <1>2, <1>3
<1> QED  BY Zenon, <1>3, <1>4

\* The states g of a loop of n turns from x.
Loop(g, S, x, n, step) == /\ g \in [0..n -> S] /\ g[0] = x
                          /\ \A i \in 1..n : g[i] = step[<<i, g[i - 1]>>]

\* A loop has a state after each turn.
LEMMA Unrolls ==
  ASSUME NEW S, NEW x \in S, NEW n \in Nat, NEW step \in [(1..n) \X S -> S]
  PROVE  \E g : Loop(g, S, x, n, step)
<1> DEFINE A(g, m) == /\ g \in [0..m -> S] /\ g[0] = x
                      /\ \A i \in 1..m : g[i] = step[<<i, g[i - 1]>>]
           T == {m \in 0..n : \E g : A(g, m)}
<1>1. 0 \in T
  <2>1. A([i \in 0..0 |-> x], 0)
    OBVIOUS
  <2>2. 0 \in 0..n
    OBVIOUS
  <2> HIDE DEF A
  <2> QED  BY Zenon, <2>1, <2>2
<1>2. ASSUME NEW m \in 1..n, m - 1 \in T PROVE m \in T
  <2>1. PICK g : A(g, m - 1)
    <3> HIDE DEF A
    <3> QED  BY Zenon, <1>2
  <2> DEFINE y == step[<<m, g[m - 1]>>]
             h == [i \in 0..m |-> IF i = m THEN y ELSE g[i]]
  <2>2. /\ m - 1 \in 0..(m - 1) /\ 0 \in 0..(m - 1) /\ m \in 0..n /\ m \in 0..m
        /\ 0..m = (0..(m - 1)) \cup {m} /\ 1..m = (1..(m - 1)) \cup {m}
        /\ \A i \in 1..(m - 1) : i - 1 \in 0..(m - 1) /\ i \in 0..(m - 1)
        /\ \A i \in 0..(m - 1) : i # m
    OBVIOUS
  <2>3. g[m - 1] \in S
    BY Zenon, <2>1, <2>2
  <2>4. y \in S
    BY <2>3
  <2>5. h[m] = y /\ \A i \in 0..(m - 1) : h[i] = g[i]
    <3> HIDE DEF y
    <3> QED  BY Zenon, <2>2
  <2>6. h \in [0..m -> S]
    <3> HIDE DEF y
    <3> QED  BY <2>1, <2>2, <2>4
  <2>7. A(h, m)
    <3> HIDE DEF h
    <3> QED  BY Zenon, <2>1, <2>2, <2>5, <2>6
  <2> HIDE DEF A, h
  <2> QED  BY Zenon, <2>2, <2>7
<1>3. n \in T
  <2>1. T \in SUBSET (0..n)
    BY Zenon
  <2> HIDE DEF T
  <2> QED  BY Zenon, <1>1, <1>2, <2>1, Counts0
<1> QED  BY Zenon, <1>3 DEF Loop

-----------------------------------------------------------------------------
\* e is in the queue q, and q has nobody twice.
Queued(e, q) == \E k \in 1..Len(q) : q[k] = e
Distinct(q) == \A j, k \in 1..Len(q) : q[j] = q[k] => j = k

\* The waiters of a ZutexQueue are the members of the list (ZutexQueue.cpp:35-49).
LEMMA RangeIs == ASSUME NEW S, NEW q \in Seq(S)
                 PROVE  \A e : e \in Table!Range(q) <=> Queued(e, q)
  BY DEF Table!Range, Queued

\* ZutexQueue::remove takes out the waiter (ZutexQueue.cpp:35-49).
LEMMA Removes ==
  ASSUME NEW S, NEW q \in Seq(S), Distinct(q), NEW w
  PROVE  /\ Table!remove(q, w) \in Seq(S)
         /\ Distinct(Table!remove(q, w))
         /\ \A e : Queued(e, Table!remove(q, w)) <=> Queued(e, q) /\ e # w
<1>1. CASE ~Queued(w, q)
  <2>1. Table!remove(q, w) = q
    BY Zenon, <1>1, RangeIs DEF Table!remove
  <2> QED  BY Zenon, <1>1, <2>1
<1>2. CASE Queued(w, q)
  <2> DEFINE P(i) == q[i] = w /\ \A j \in 1..(i - 1) : q[j] # w
             m == CHOOSE i \in DOMAIN q : P(i)
             r == [k \in 1..(Len(q) - 1) |-> q[IF k < m THEN k ELSE k + 1]]
  <2>1. PICK i \in 1..Len(q) : q[i] = w
    BY Zenon, <1>2 DEF Queued
  <2>2. P(i)
    BY <2>1 DEF Distinct
  <2>3. DOMAIN q = 1..Len(q) /\ Len(q) \in Nat
    OBVIOUS
  <2>4. m \in 1..Len(q) /\ P(m)
    <3> HIDE DEF P
    <3> QED  BY Zenon, <2>2, <2>3
  <2>5. Table!remove(q, w) = r
    BY Zenon, <1>2, RangeIs DEF Table!remove
  <2> HIDE DEF m
  <2>6. r \in Seq(S) /\ Len(r) = Len(q) - 1 /\ \A k \in 1..(Len(q) - 1) : r[k] = q[IF k < m THEN k ELSE k + 1]
    BY <2>3, <2>4
  <2> HIDE DEF r
  <2>7. Distinct(r)
    BY <2>3, <2>4, <2>6 DEF Distinct
  <2>8. ASSUME NEW e PROVE Queued(e, r) => Queued(e, q) /\ e # w
    BY <2>3, <2>4, <2>6 DEF Queued, Distinct
  <2>9. ASSUME NEW e, Queued(e, q), e # w PROVE Queued(e, r)
    <3>1. PICK k \in 1..Len(q) : q[k] = e
      BY Zenon, <2>9 DEF Queued
    <3>2. k # m
      BY <3>1, <2>4, <2>9
    <3>3. CASE k < m
      BY <3>1, <3>3, <2>3, <2>4, <2>6 DEF Queued
    <3>4. CASE ~(k < m)
      <4>1. k - 1 \in 1..(Len(q) - 1) /\ ~(k - 1 < m) /\ k - 1 + 1 = k
        BY <3>1, <3>2, <3>4, <2>3, <2>4
      <4>2. r[k - 1] = e
        BY Zenon, <4>1, <2>6, <3>1
      <4> QED  BY Zenon, <4>1, <4>2, <2>6 DEF Queued
    <3> QED  BY Zenon, <3>3, <3>4
  <2> QED  BY Zenon, <2>5, <2>6, <2>7, <2>8, <2>9
<1> QED  BY Zenon, <1>1, <1>2
\* ZutexQueue::push puts the waiter into the queue (ZutexQueue.cpp:25-28).
LEMMA Pushed ==
  ASSUME NEW S, NEW q \in Seq(S), NEW t \in S
  PROVE  /\ Append(q, t) \in Seq(S)
         /\ \A e : Queued(e, Append(q, t)) <=> Queued(e, q) \/ e = t
         /\ Distinct(q) /\ ~Queued(t, q) => Distinct(Append(q, t))
<1> DEFINE r == Append(q, t)
<1>1. /\ r \in Seq(S) /\ Len(r) = Len(q) + 1 /\ Len(q) \in Nat
      /\ \A i \in 1..(Len(q) + 1) : r[i] = IF i <= Len(q) THEN q[i] ELSE t
  OBVIOUS
<1> HIDE DEF r
<1>2. Distinct(q) /\ ~Queued(t, q) => Distinct(r)
  BY <1>1 DEF Distinct, Queued
<1>3. ASSUME NEW e PROVE Queued(e, r) => Queued(e, q) \/ e = t
  BY <1>1 DEF Queued
<1>4. ASSUME NEW e, Queued(e, q) PROVE Queued(e, r)
  BY <1>4, <1>1 DEF Queued
<1>5. Queued(t, r)
  <2>1. Len(q) + 1 \in 1..Len(r) /\ r[Len(q) + 1] = t
    BY <1>1
  <2> QED  BY Zenon, <2>1 DEF Queued
<1>6. r = Append(q, t)
  BY Zenon DEF r
<1> QED  BY Zenon, <1>1, <1>2, <1>3, <1>4, <1>5, <1>6

-----------------------------------------------------------------------------
\* Tables whose queues name no waiter twice.
WaiterQueues == {q \in Seq(Guests) : Distinct(q)}

\* Tables as the loop of wait sees them, and who is in which queue of one.
Tables == UNION {[D -> Seq(Guests)] : D \in SUBSET Addresses}
Listed(e, y, q) == y \in DOMAIN q /\ Queued(e, q[y])

\* r is the table q with w in the queues of the zutexes Z as well.
Joins(r, q, w, Z) ==
    /\ r \in [DOMAIN r -> WaiterQueues]
    /\ \A y : y \in DOMAIN r <=> y \in DOMAIN q \/ y \in Z
    /\ \A y, e : Listed(e, y, r) <=> Listed(e, y, q) \/ (e = w /\ y \in Z)

\* A waiter that is in no queue enters those of its list, each once, and
\* nobody else does (ZutexTable.cpp:103-109).
LEMMA Enters ==
  ASSUME NEW tab \in Tables, tab \in [DOMAIN tab -> WaiterQueues],
         NEW zs \in Seq(Addresses), Distinct(zs), NEW w \in Guests,
         \A y : ~Listed(w, y, tab)
  PROVE  Joins(Table!Push(tab, zs, w), tab, w, {zs[j] : j \in 1..Len(zs)})
<1> DEFINE n == Len(zs)
           Turn(i, q) == [y \in DOMAIN q \cup {zs[i]} |->
                             IF y = zs[i] THEN Append(Table!QueueOf(q, y), w) ELSE q[y]]
           step == [a \in (1..n) \X Tables |-> Turn(a[1], a[2])]
           Eq(f) == f = [i \in 0..n |-> IF i = 0 THEN tab ELSE Turn(i, f[i - 1])]
           left == CHOOSE f : Eq(f)
<1>0. n \in Nat /\ \A i \in 1..n : zs[i] \in Addresses
  OBVIOUS
<1>1. ASSUME NEW i \in 1..n, NEW q \in Tables
      PROVE  /\ Turn(i, q) \in Tables
             /\ DOMAIN Turn(i, q) = DOMAIN q \cup {zs[i]}
             /\ \A y, e : Listed(e, y, Turn(i, q)) <=> Listed(e, y, q) \/ (e = w /\ y = zs[i])
             /\ q \in [DOMAIN q -> WaiterQueues] /\ ~Listed(w, zs[i], q)
                   => Turn(i, q) \in [DOMAIN Turn(i, q) -> WaiterQueues]
  <2> DEFINE r == Turn(i, q)
             p == Table!QueueOf(q, zs[i])
  <2>1. DOMAIN q \in SUBSET Addresses /\ q \in [DOMAIN q -> Seq(Guests)]
    BY Zenon DEF Tables
  <2>2. p \in Seq(Guests) /\ \A e : Queued(e, p) <=> Listed(e, zs[i], q)
    <3>1. <<>> \in Seq(Guests) /\ \A e : ~Queued(e, <<>>)
      BY DEF Queued
    <3> QED  BY Zenon, <2>1, <3>1 DEF Table!QueueOf, Listed
  <2>3. q \in [DOMAIN q -> WaiterQueues] => p \in WaiterQueues
    <3>1. <<>> \in WaiterQueues
      BY DEF Distinct, WaiterQueues
    <3> QED  BY Zenon, <3>1 DEF Table!QueueOf
  <2>4. r = [y \in DOMAIN q \cup {zs[i]} |-> IF y = zs[i] THEN Append(p, w) ELSE q[y]]
    BY Zenon
  <2>5. r = Turn(i, q)
    BY Zenon
  <2> HIDE DEF r, p
  <2>6. /\ Append(p, w) \in Seq(Guests)
        /\ \A e : Queued(e, Append(p, w)) <=> Queued(e, p) \/ e = w
        /\ Distinct(p) /\ ~Queued(w, p) => Distinct(Append(p, w))
    BY Zenon, <2>2, Pushed
  <2>7. /\ DOMAIN r = DOMAIN q \cup {zs[i]} /\ r[zs[i]] = Append(p, w)
        /\ \A y \in DOMAIN q : y # zs[i] => r[y] = q[y]
    BY Zenon, <2>4
  <2>8. r \in Tables
    <3>1. DOMAIN r \in SUBSET Addresses
      BY Zenon, <2>1, <2>7, <1>0
    <3>2. r \in [DOMAIN q \cup {zs[i]} -> Seq(Guests)]
      BY Zenon, <2>1, <2>4, <2>6
    <3> QED  BY Zenon, <3>1, <3>2, <2>7 DEF Tables
  <2>9. ASSUME NEW y, NEW e PROVE Listed(e, y, r) <=> Listed(e, y, q) \/ (e = w /\ y = zs[i])
    <3>1. CASE y = zs[i]
      BY Zenon, <3>1, <2>2, <2>6, <2>7 DEF Listed
    <3>2. CASE y # zs[i]
      BY Zenon, <3>2, <2>7 DEF Listed
    <3> QED  BY Zenon, <3>1, <3>2
  <2>10. ASSUME q \in [DOMAIN q -> WaiterQueues], ~Listed(w, zs[i], q)
         PROVE  r \in [DOMAIN r -> WaiterQueues]
    <3>1. Append(p, w) \in WaiterQueues
      BY Zenon, <2>2, <2>3, <2>6, <2>10 DEF WaiterQueues
    <3>2. r \in [DOMAIN q \cup {zs[i]} -> WaiterQueues]
      BY Zenon, <2>4, <2>10, <3>1
    <3> QED  BY Zenon, <2>7, <3>2
  <2> HIDE DEF Turn
  <2> QED  BY Zenon, <2>5, <2>7, <2>8, <2>9, <2>10
<1>2. step \in [(1..n) \X Tables -> Tables]
      /\ \A i \in 1..n : \A q \in Tables : step[<<i, q>>] = Turn(i, q)
  <2> HIDE DEF Turn, n
  <2>1. \A i \in 1..n : \A q \in Tables : Turn(i, q) \in Tables
    BY Zenon, <1>1
  <2>2. \A a \in (1..n) \X Tables : Turn(a[1], a[2]) \in Tables
    BY <2>1
  <2> QED  BY <2>2
<1>3. PICK g : Loop(g, Tables, tab, n, step)
  <2>1. step \in [(1..n) \X Tables -> Tables]
    BY Zenon, <1>2
  <2> HIDE DEF step, n
  <2> QED  BY Zenon, <1>0, <2>1, Unrolls
<1>4. \A i \in 1..n : i - 1 \in 0..n /\ i \in 0..n /\ i # 0
  BY <1>0
<1>5. \A i \in 1..n : g[i] = Turn(i, g[i - 1])
  <2> HIDE DEF step, Turn, n
  <2> QED  BY Zenon, <1>2, <1>3, <1>4 DEF Loop
<1>6. Eq(g)
  <2>1. \A i \in 0..n : i = 0 \/ i \in 1..n
    BY <1>0
  <2>2. \A i \in 0..n : g[i] = IF i = 0 THEN tab ELSE Turn(i, g[i - 1])
    <3> HIDE DEF Turn, n
    <3> QED  BY Zenon, <1>3, <1>5, <2>1 DEF Loop
  <2> HIDE DEF Turn, n
  <2> QED  BY Zenon, <2>2, <1>3 DEF Loop
<1>7. Eq(left)
  <2> HIDE DEF Eq
  <2> QED  BY Zenon, <1>6
<1>8. Table!Push(tab, zs, w) = left[n]
  BY Zenon DEF Table!Push
<1>9. \A i \in 0..n : left[i] = IF i = 0 THEN tab ELSE Turn(i, left[i - 1])
  <2> HIDE DEF left, Turn, n
  <2> QED  BY Zenon, <1>7
<1> HIDE DEF left
<1> DEFINE Z(i) == {zs[j] : j \in 1..i}
           T == {i \in 0..n : left[i] \in Tables /\ Joins(left[i], tab, w, Z(i))}
<1>10. 0 \in T
  <2>1. 0 \in 0..n /\ \A j \in 1..0 : FALSE
    BY <1>0
  <2>2. left[0] = tab
    BY Zenon, <1>9, <2>1
  <2>3. \A y : y \notin Z(0)
    BY Zenon, <2>1
  <2> HIDE DEF Z
  <2> QED  BY Zenon, <2>1, <2>2, <2>3 DEF Joins
<1>11. ASSUME NEW i \in 1..n, i - 1 \in T PROVE i \in T
  <2>1. left[i - 1] \in Tables /\ Joins(left[i - 1], tab, w, Z(i - 1))
    <3> HIDE DEF Z
    <3> QED  BY Zenon, <1>11
  <2>2. left[i] = Turn(i, left[i - 1])
    <3> HIDE DEF Turn
    <3> QED  BY Zenon, <1>4, <1>9
  <2>3. zs[i] \notin Z(i - 1) /\ \A y : y \in Z(i) <=> y \in Z(i - 1) \/ y = zs[i]
    <3>1. 1..i = (1..(i - 1)) \cup {i} /\ \A j \in 1..(i - 1) : j # i /\ j \in 1..n
      BY <1>0
    <3> QED  BY Zenon, <3>1 DEF Distinct
  <2> DEFINE q == left[i - 1]
             r == left[i]
  <2>4. ~Listed(w, zs[i], q)
    <3> HIDE DEF Z
    <3> QED  BY Zenon, <2>1, <2>3 DEF Joins
  <2>5. /\ r \in Tables
        /\ DOMAIN r = DOMAIN q \cup {zs[i]}
        /\ \A y, e : Listed(e, y, r) <=> Listed(e, y, q) \/ (e = w /\ y = zs[i])
        /\ q \in [DOMAIN q -> WaiterQueues] /\ ~Listed(w, zs[i], q)
              => r \in [DOMAIN r -> WaiterQueues]
    <3>1. /\ Turn(i, q) \in Tables
          /\ DOMAIN Turn(i, q) = DOMAIN q \cup {zs[i]}
          /\ \A y, e : Listed(e, y, Turn(i, q)) <=> Listed(e, y, q) \/ (e = w /\ y = zs[i])
          /\ q \in [DOMAIN q -> WaiterQueues] /\ ~Listed(w, zs[i], q)
                => Turn(i, q) \in [DOMAIN Turn(i, q) -> WaiterQueues]
      <4>1. q \in Tables
        BY Zenon, <2>1
      <4> HIDE DEF q, Turn
      <4> QED  BY Zenon, <1>1, <4>1
    <3>2. r = Turn(i, q)
      BY Zenon, <2>2
    <3> HIDE DEF Turn, q, r
    <3> QED  BY Zenon, <3>1, <3>2
  <2>6. Joins(r, tab, w, Z(i))
    <3> HIDE DEF Z, q, r
    <3>1. Joins(q, tab, w, Z(i - 1))
      BY Zenon, <2>1 DEF q
    <3> QED  BY Zenon, <2>3, <2>4, <2>5, <3>1 DEF Joins
  <2> HIDE DEF Z
  <2> QED  BY Zenon, <1>4, <2>5, <2>6
<1>12. n \in T
  <2>1. T \in SUBSET (0..n)
    BY Zenon
  <2> HIDE DEF T, n
  <2> QED  BY Zenon, <1>0, <1>10, <1>11, <2>1, Counts0
<1>13. Joins(left[n], tab, w, Z(n))
  <2> HIDE DEF Z
  <2> QED  BY Zenon, <1>12
<1> QED  BY Zenon, <1>8, <1>13


\* A woken waiter leaves the queues of its list but z's (ZutexTable.cpp:219-245).
Gone(e, y, w, z) == e = w /\ y # z /\ Queued(y, waiting_on[w])

\* A woken waiter is removed from the queues it listed, from the one it was
\* popped from by the pop, and nobody else is (ZutexTable.cpp:217-250).
LEMMA Leaves ==
  ASSUME NEW D, NEW tab \in [D -> WaiterQueues], NEW w, NEW z,
         waiting_on[w] \in Seq(Addresses)
  PROVE  /\ Table!LeaveQueues(tab, w, z) \in [D -> WaiterQueues]
         /\ \A y \in D : \A e : Queued(e, Table!LeaveQueues(tab, w, z)[y])
                                   <=> Queued(e, tab[y]) /\ ~Gone(e, y, w, z)
<1> DEFINE S == [D -> WaiterQueues]
           list == waiting_on[w]
           n == Len(list)
           Turn(i, q) == IF list[i] = z THEN q
                         ELSE [q EXCEPT ![list[i]] = Table!remove(@, w)]
           step == [a \in (1..n) \X S |-> Turn(a[1], a[2])]
           Eq(f) == f = [i \in 0..n |-> IF i = 0 THEN tab ELSE Turn(i, f[i - 1])]
           left == CHOOSE f : Eq(f)
<1>0. n \in Nat
  OBVIOUS
<1>1. ASSUME NEW i \in 1..n, NEW q \in S
      PROVE  /\ Turn(i, q) \in S
             /\ \A y \in D : \A e : Queued(e, Turn(i, q)[y])
                   <=> Queued(e, q[y]) /\ ~(e = w /\ y # z /\ list[i] = y)
  <2>1. \A y \in D : q[y] \in Seq(Guests) /\ Distinct(q[y])
    BY Zenon DEF WaiterQueues
  <2>2. \A y \in D : /\ Table!remove(q[y], w) \in WaiterQueues
                     /\ \A e : Queued(e, Table!remove(q[y], w)) <=> Queued(e, q[y]) /\ e # w
    BY Zenon, <2>1, Removes DEF WaiterQueues
  <2>3. CASE list[i] = z
    <3>1. Turn(i, q) = q
      BY Zenon, <2>3
    <3> QED  BY Zenon, <3>1, <2>3
  <2>4. CASE list[i] # z
    <3> DEFINE r == Turn(i, q)
    <3>1. r = [y \in D |-> IF y = list[i] THEN Table!remove(q[y], w) ELSE q[y]]
      BY Zenon, <2>4
    <3>2. \A y \in D : r[y] = IF y = list[i] THEN Table!remove(q[y], w) ELSE q[y]
      <4> HIDE DEF r
      <4> QED  BY Zenon, <3>1
    <3>3. r \in S
      <4> HIDE DEF r
      <4> QED  BY Zenon, <3>1, <2>2
    <3> HIDE DEF r
    <3>4. \A y \in D : \A e : Queued(e, r[y])
                   <=> Queued(e, q[y]) /\ ~(e = w /\ y # z /\ list[i] = y)
      BY Zenon, <3>2, <2>2, <2>4
    <3>5. r = Turn(i, q)
      BY Zenon DEF r
    <3> QED  BY Zenon, <3>3, <3>4, <3>5
  <2> HIDE DEF Turn
  <2> QED  BY Zenon, <2>3, <2>4
<1>2. step \in [(1..n) \X S -> S] /\ \A i \in 1..n : \A q \in S : step[<<i, q>>] = Turn(i, q)
  <2> HIDE DEF S, Turn, n
  <2>1. \A a \in (1..n) \X S : Turn(a[1], a[2]) \in S
    BY <1>1
  <2> QED  BY <2>1
<1>3. PICK g : Loop(g, S, tab, n, step)
  <2>1. tab \in S
    BY Zenon
  <2>2. step \in [(1..n) \X S -> S]
    BY Zenon, <1>2
  <2> HIDE DEF step, n, S
  <2> QED  BY Zenon, <1>0, <2>1, <2>2, Unrolls
<1>4. \A i \in 1..n : i - 1 \in 0..n /\ i \in 0..n /\ i # 0
  BY <1>0
<1>5. \A i \in 1..n : g[i] = Turn(i, g[i - 1])
  <2> HIDE DEF step, Turn, n, S
  <2> QED  BY Zenon, <1>2, <1>3, <1>4 DEF Loop
<1>6. Eq(g)
  <2>1. \A i \in 0..n : i = 0 \/ i \in 1..n
    BY <1>0
  <2>2. \A i \in 0..n : g[i] = IF i = 0 THEN tab ELSE Turn(i, g[i - 1])
    <3> HIDE DEF Turn, n
    <3> QED  BY Zenon, <1>3, <1>5, <2>1 DEF Loop
  <2> HIDE DEF Turn, n, S
  <2> QED  BY Zenon, <2>2, <1>3 DEF Loop
<1>7. Eq(left)
  <2> HIDE DEF Eq
  <2> QED  BY Zenon, <1>6
<1>8. Table!LeaveQueues(tab, w, z) = left[n]
  BY Zenon DEF Table!LeaveQueues
<1>9. \A i \in 0..n : left[i] = IF i = 0 THEN tab ELSE Turn(i, left[i - 1])
  <2> HIDE DEF left, Turn, n
  <2> QED  BY Zenon, <1>7
<1> HIDE DEF left
<1> DEFINE Shed(i) == \A y \in D : \A e : Queued(e, left[i][y])
               <=> Queued(e, tab[y]) /\ ~(e = w /\ y # z /\ \E j \in 1..i : list[j] = y)
           T == {i \in 0..n : left[i] \in S /\ Shed(i)}
<1>10. 0 \in T
  <2>1. 0 \in 0..n /\ \A j \in 1..0 : FALSE
    BY <1>0
  <2>2. left[0] = tab
    BY Zenon, <1>9, <2>1
  <2> QED  BY Zenon, <2>1, <2>2
<1>11. ASSUME NEW i \in 1..n, i - 1 \in T PROVE i \in T
  <2>1. left[i - 1] \in S /\ Shed(i - 1)
    <3> HIDE DEF Shed, S
    <3> QED  BY Zenon, <1>11
  <2>2. left[i] = Turn(i, left[i - 1])
    <3> HIDE DEF Turn
    <3> QED  BY Zenon, <1>4, <1>9
  <2>3. 1..i = (1..(i - 1)) \cup {i}
    BY <1>0
  <2>4. left[i] \in S /\ \A y \in D : \A e : Queued(e, left[i][y])
           <=> Queued(e, left[i - 1][y]) /\ ~(e = w /\ y # z /\ list[i] = y)
    <3>1. /\ Turn(i, left[i - 1]) \in S
          /\ \A y \in D : \A e : Queued(e, Turn(i, left[i - 1])[y])
                <=> Queued(e, left[i - 1][y]) /\ ~(e = w /\ y # z /\ list[i] = y)
      <4> HIDE DEF S, Turn, list
      <4> QED  BY Zenon, <1>1, <2>1
    <3> HIDE DEF S, Turn, list
    <3> QED  BY Zenon, <3>1, <2>2
  <2>5. Shed(i)
    <3> HIDE DEF list
    <3> QED  BY Zenon, <2>1, <2>3, <2>4
  <2> HIDE DEF Shed, S
  <2> QED  BY Zenon, <1>4, <2>4, <2>5
<1>12. n \in T
  <2>1. T \in SUBSET (0..n)
    BY Zenon
  <2> HIDE DEF T, n
  <2> QED  BY Zenon, <1>0, <1>10, <1>11, <2>1, Counts0
<1>13. \A y : Queued(y, list) <=> \E j \in 1..n : list[j] = y
  BY Zenon DEF Queued
<1>14. left[n] \in S /\ Shed(n)
  <2> HIDE DEF Shed, S
  <2> QED  BY Zenon, <1>12
<1> QED  BY Zenon, <1>8, <1>13, <1>14 DEF Gone

\* So do all the waiters that were popped (ZutexTable.cpp:209-253).
LEMMA AllLeave ==
  ASSUME NEW D, NEW tab \in [D -> WaiterQueues], NEW popped \in Seq(Guests), NEW z,
         waiting_on \in [Guests -> Seq(Addresses)]
  PROVE  /\ Table!LeaveAll(tab, popped, z) \in [D -> WaiterQueues]
         /\ \A y \in D : \A e : Queued(e, Table!LeaveAll(tab, popped, z)[y])
               <=> Queued(e, tab[y]) /\ ~(Queued(e, popped) /\ Gone(e, y, e, z))
<1> DEFINE S == [D -> WaiterQueues]
           n == Len(popped)
           Turn(i, q) == Table!LeaveQueues(q, popped[i], z)
           step == [a \in (1..n) \X S |-> Turn(a[1], a[2])]
           Eq(f) == f = [i \in 0..n |-> IF i = 0 THEN tab ELSE Turn(i, f[i - 1])]
           left == CHOOSE f : Eq(f)
<1>0. n \in Nat /\ \A i \in 1..n : waiting_on[popped[i]] \in Seq(Addresses)
  OBVIOUS
<1>1. ASSUME NEW i \in 1..n, NEW q \in S
      PROVE  /\ Turn(i, q) \in S
             /\ \A y \in D : \A e : Queued(e, Turn(i, q)[y])
                   <=> Queued(e, q[y]) /\ ~Gone(e, y, popped[i], z)
  BY Zenon, <1>0, Leaves
<1>2. step \in [(1..n) \X S -> S] /\ \A i \in 1..n : \A q \in S : step[<<i, q>>] = Turn(i, q)
  <2> HIDE DEF S, Turn, n
  <2>1. \A a \in (1..n) \X S : Turn(a[1], a[2]) \in S
    BY <1>1
  <2> QED  BY <2>1
<1>3. PICK g : Loop(g, S, tab, n, step)
  <2>1. tab \in S
    BY Zenon
  <2>2. step \in [(1..n) \X S -> S]
    BY Zenon, <1>2
  <2> HIDE DEF step, n, S
  <2> QED  BY Zenon, <1>0, <2>1, <2>2, Unrolls
<1>4. \A i \in 1..n : i - 1 \in 0..n /\ i \in 0..n /\ i # 0
  BY <1>0
<1>5. \A i \in 1..n : g[i] = Turn(i, g[i - 1])
  <2> HIDE DEF step, Turn, n, S
  <2> QED  BY Zenon, <1>2, <1>3, <1>4 DEF Loop
<1>6. Eq(g)
  <2>1. \A i \in 0..n : i = 0 \/ i \in 1..n
    BY <1>0
  <2>2. \A i \in 0..n : g[i] = IF i = 0 THEN tab ELSE Turn(i, g[i - 1])
    <3> HIDE DEF Turn, n
    <3> QED  BY Zenon, <1>3, <1>5, <2>1 DEF Loop
  <2> HIDE DEF Turn, n, S
  <2> QED  BY Zenon, <2>2, <1>3 DEF Loop
<1>7. Eq(left)
  <2> HIDE DEF Eq
  <2> QED  BY Zenon, <1>6
<1>8. Table!LeaveAll(tab, popped, z) = left[n]
  BY Zenon DEF Table!LeaveAll
<1>9. \A i \in 0..n : left[i] = IF i = 0 THEN tab ELSE Turn(i, left[i - 1])
  <2> HIDE DEF left, Turn, n
  <2> QED  BY Zenon, <1>7
<1> HIDE DEF left
<1> DEFINE Shed(i) == \A y \in D : \A e : Queued(e, left[i][y])
               <=> Queued(e, tab[y]) /\ ~\E j \in 1..i : Gone(e, y, popped[j], z)
           T == {i \in 0..n : left[i] \in S /\ Shed(i)}
<1>10. 0 \in T
  <2>1. 0 \in 0..n /\ \A j \in 1..0 : FALSE
    BY <1>0
  <2>2. left[0] = tab
    BY Zenon, <1>9, <2>1
  <2> QED  BY Zenon, <2>1, <2>2
<1>11. ASSUME NEW i \in 1..n, i - 1 \in T PROVE i \in T
  <2>1. left[i - 1] \in S /\ Shed(i - 1)
    <3> HIDE DEF Shed, S
    <3> QED  BY Zenon, <1>11
  <2>2. left[i] = Turn(i, left[i - 1])
    <3> HIDE DEF Turn
    <3> QED  BY Zenon, <1>4, <1>9
  <2>3. 1..i = (1..(i - 1)) \cup {i}
    BY <1>0
  <2>4. left[i] \in S /\ \A y \in D : \A e : Queued(e, left[i][y])
           <=> Queued(e, left[i - 1][y]) /\ ~Gone(e, y, popped[i], z)
    <3> HIDE DEF S, Turn
    <3> QED  BY Zenon, <1>1, <2>1, <2>2
  <2>5. Shed(i)
    BY Zenon, <2>1, <2>3, <2>4
  <2> HIDE DEF Shed, S
  <2> QED  BY Zenon, <1>4, <2>4, <2>5
<1>12. n \in T
  <2>1. T \in SUBSET (0..n)
    BY Zenon
  <2> HIDE DEF T, n
  <2> QED  BY Zenon, <1>0, <1>10, <1>11, <2>1, Counts0
<1>13. \A e, y : (\E j \in 1..n : Gone(e, y, popped[j], z)) <=> Queued(e, popped) /\ Gone(e, y, e, z)
  BY Zenon DEF Queued, Gone
<1>14. left[n] \in S /\ Shed(n)
  <2> HIDE DEF Shed, S
  <2> QED  BY Zenon, <1>12
<1> QED  BY Zenon, <1>8, <1>13, <1>14

-----------------------------------------------------------------------------
\* Where a thread can be in wait and wake.
ZutexPlaces == {"run", "wait", "check", "asleep", "wake"}

\* The types of the words, the waiters and the arguments of their calls.
TableTypes ==
    /\ mem \in [Addresses -> Table!Word]
    /\ waiting_on \in [Guests -> Seq(Addresses)]
    /\ zevent \in [Guests -> BOOLEAN]
    /\ zpc \in [Guests -> ZutexPlaces]
    /\ specs \in [Guests -> Seq(Table!Spec1)]
    /\ idx \in [Guests -> Nat]
    /\ wake_arg \in [Guests -> [zutex : Addresses, n : Nat]]

\* The thread that compares words has the mutex (ZutexTable.cpp:64-111).
MutexHeld == /\ table_mutex = {} \/ \E t \in Guests : table_mutex = {t}
             /\ \A t \in Guests : zpc[t] = "check" <=> t \in table_mutex

\* The specs of a wait name each zutex once, and the loop is within them.
SpecsOK == \A t \in Guests : /\ Distinct(Table!ZutexesOf(t))
                             /\ idx[t] \in 1..(Len(specs[t]) + 1)
                             /\ zpc[t] # "check" => idx[t] = 1

\* Queues hold each waiter once, and the table has no empty one.
QueuesOK == /\ DOMAIN table \in SUBSET Addresses
            /\ table \in [DOMAIN table -> WaiterQueues]
            /\ \A z \in DOMAIN table : table[z] # <<>>

\* t is in the queue of z.
InQueue(t, z) == z \in DOMAIN table /\ Queued(t, table[z])

\* Exactly the sleeping threads are in queues, and know in which.
Enrolled == \A t \in Guests :
    /\ \A z : InQueue(t, z) <=> t \in Table!Sleeping /\ Queued(z, Table!ZutexesOf(t))
    /\ waiting_on[t] = IF t \in Table!Sleeping THEN Table!ZutexesOf(t) ELSE <<>>

\* The inductive invariant of the table.
TableIInv == TableTypes /\ MutexHeld /\ SpecsOK /\ QueuesOK /\ Enrolled

\* The zutexes of a wait are those of its specs, one by one (ZutexTable.cpp:103-109).
LEMMA ZutexesOfSeq ==
  ASSUME NEW t, specs[t] \in Seq(Table!Spec1)
  PROVE  /\ Table!ZutexesOf(t) \in Seq(Addresses)
         /\ Len(Table!ZutexesOf(t)) = Len(specs[t])
         /\ \A i \in 1..Len(specs[t]) : Table!ZutexesOf(t)[i] = specs[t][i].zutex
<1> DEFINE q == specs[t]
<1>1. \A s \in Table!Spec1 : s.zutex \in Addresses
  BY DEF Table!Spec1
<1>2. q \in Seq(Table!Spec1) /\ Table!ZutexesOf(t) = [i \in DOMAIN q |-> q[i].zutex]
  BY Zenon DEF Table!ZutexesOf
<1> HIDE DEF q
<1>3. DOMAIN q = 1..Len(q) /\ Len(q) \in Nat /\ \A i \in 1..Len(q) : q[i] \in Table!Spec1
  BY <1>2
<1>4. \A i \in 1..Len(q) : q[i].zutex \in Addresses
  BY Zenon, <1>1, <1>3
<1>5. /\ Table!ZutexesOf(t) \in Seq(Addresses)
      /\ Len(Table!ZutexesOf(t)) = Len(q)
      /\ \A i \in 1..Len(q) : Table!ZutexesOf(t)[i] = q[i].zutex
  BY <1>2, <1>3, <1>4
<1> QED  BY Zenon, <1>5 DEF q

\* What the book-keeping says (ZutexTable.cpp:103-111, 209-253).
\* What the book-keeping says (ZutexTable.cpp:103-111, 209-253).
LEMMA TableIsConsistent == TableIInv => TableConsistent
<1> SUFFICES ASSUME TableIInv PROVE TableConsistent
  BY Zenon
<1> USE DEF TableIInv
<1>1. \A z \in DOMAIN table : table[z] \in Seq(Guests) /\ Distinct(table[z])
  BY Zenon DEF QueuesOK, WaiterQueues
<1>2. Table!TypeOK
  BY Zenon, <1>1 DEF Table!TypeOK, TableTypes, QueuesOK, MutexHeld, ZutexPlaces
<1>3. ASSUME NEW z \in DOMAIN table, NEW i \in DOMAIN table[z], NEW j \in DOMAIN table[z],
             table[z][i] = table[z][j]
      PROVE  i = j
  <2>1. DOMAIN table[z] = 1..Len(table[z])
    BY <1>1
  <2> QED  BY Zenon, <2>1, <1>1, <1>3 DEF Distinct
<1>4. ASSUME NEW t \in Guests, NEW z \in Addresses
      PROVE  t \in Table!Range(Table!QueueOf(table, z)) <=> z \in Table!Range(waiting_on[t])
  <2>1. /\ Table!QueueOf(table, z) \in Seq(Guests)
        /\ Queued(t, Table!QueueOf(table, z)) <=> InQueue(t, z)
    <3>1. ~Queued(t, <<>>) /\ <<>> \in Seq(Guests)
      BY DEF Queued
    <3> QED  BY Zenon, <1>1, <3>1 DEF Table!QueueOf, InQueue
  <2>2. waiting_on[t] \in Seq(Addresses) /\ (Queued(z, waiting_on[t]) <=> InQueue(t, z))
    <3>1. ~Queued(z, <<>>)
      BY DEF Queued
    <3> QED  BY Zenon, <3>1 DEF TableTypes, Enrolled
  <2> QED  BY Zenon, <2>1, <2>2, RangeIs
<1> QED  BY Zenon, <1>2, <1>3, <1>4 DEF TableConsistent, Table!TableConsistent, Enrolled, QueuesOK


\* A new table is empty and nobody sleeps (ZutexTable.cpp:4-14).
LEMMA TableInit == Table!Init => TableIInv
<1> SUFFICES ASSUME Table!Init PROVE TableIInv
  BY Zenon
<1> USE DEF Table!Init
<1>1. TableTypes
  <2>1. 0 \in Table!Word
    BY ZutexAssumption DEF Table!Word
  <2>2. Table!NoWake \in [zutex : Addresses, n : Nat]
    BY ZutexAssumption DEF Table!NoWake
  <2>3. <<>> \in Seq(Addresses) /\ <<>> \in Seq(Table!Spec1) /\ 1 \in Nat
    OBVIOUS
  <2> QED  BY Zenon, <2>1, <2>2, <2>3 DEF TableTypes, ZutexPlaces
<1>2. MutexHeld
  BY Zenon DEF MutexHeld
<1>3. \A t \in Guests : Table!ZutexesOf(t) = <<>>
  <2>1. ASSUME NEW q, q = <<>> PROVE [i \in DOMAIN q |-> q[i].zutex] = <<>>
    BY <2>1
  <2>2. \A t \in Guests : specs[t] = <<>>
    BY Zenon
  <2> QED  BY ZenonT(40), <2>1, <2>2 DEF Table!ZutexesOf
<1>4. Distinct(<<>>) /\ \A t : ~Queued(t, <<>>)
  BY DEF Distinct, Queued
<1>5. SpecsOK
  <2>1. 1 \in 1..(Len(<<>>) + 1)
    OBVIOUS
  <2> QED  BY Zenon, <1>3, <1>4, <2>1 DEF SpecsOK
<1>6. QueuesOK
  BY DEF QueuesOK
<1>7. Table!Sleeping = {}
  BY Zenon DEF Table!Sleeping
<1>8. Enrolled
  BY Zenon, <1>3, <1>4, <1>7 DEF Enrolled, InQueue
<1> QED  BY Zenon, <1>1, <1>2, <1>5, <1>6, <1>8 DEF TableIInv

\* A step that neither puts a thread to sleep nor wakes one leaves the queues
\* and the lists right.
LEMMA StillEnrolled ==
  ASSUME QueuesOK, Enrolled, UNCHANGED <<table, waiting_on>>,
         Table!Sleeping' = Table!Sleeping,
         \A t \in Table!Sleeping : specs'[t] = specs[t]
  PROVE  QueuesOK' /\ Enrolled'
<1>1. QueuesOK'
  BY Zenon DEF QueuesOK
<1>2. \A t \in Table!Sleeping : Table!ZutexesOf(t)' = Table!ZutexesOf(t)
  BY Zenon DEF Table!ZutexesOf
<1>3. \A t, z : InQueue(t, z)' <=> InQueue(t, z)
  BY Zenon DEF InQueue
<1>4. Enrolled'
  BY Zenon, <1>2, <1>3 DEF Enrolled
<1> QED  BY Zenon, <1>1, <1>4

\* The same of one thread's specs, which other threads do not touch.
LEMMA SpecsStay ==
  ASSUME NEW u, specs'[u] = specs[u], idx'[u] = idx[u], zpc'[u] = zpc[u]
  PROVE  /\ Table!ZutexesOf(u)' = Table!ZutexesOf(u)
         /\ Len(specs'[u]) = Len(specs[u])
  BY Zenon DEF Table!ZutexesOf

\* A thread that calls wait is in no queue yet (ZoogVCPU.cpp:720-736).
LEMMA CallWaitKeeps ==
  ASSUME TableIInv, NEW t \in Guests, NEW zs \in SpecLists, Table!CallWait(t, zs)
  PROVE  TableIInv'
<1> USE DEF TableIInv
<1> DEFINE s == [i \in DOMAIN zs |-> [zutex |-> zs[i], match_val |-> mem[zs[i]]]]
<1>1. /\ zpc[t] = "run" /\ specs' = [specs EXCEPT ![t] = s] /\ zpc' = [zpc EXCEPT ![t] = "wait"]
      /\ UNCHANGED <<mem, table, waiting_on, zevent, table_mutex, idx, wake_arg>>
  BY Zenon DEF Table!CallWait
<1>2. zs \in Seq(Addresses) /\ Distinct(zs)
  BY Zenon, ZutexAssumption DEF Distinct
<1>3. \A a \in Addresses : [zutex |-> a, match_val |-> mem[a]] \in Table!Spec1
  BY DEF TableTypes, Table!Spec1
<1>4. /\ s \in Seq(Table!Spec1) /\ DOMAIN s = 1..Len(s) /\ Len(s) \in Nat
      /\ [i \in DOMAIN s |-> s[i].zutex] = zs
  <2>1. zs \in Seq(Addresses) /\ \A i \in 1..Len(zs) : zs[i] \in Addresses
    BY <1>2
  <2>2. \A i \in 1..Len(zs) : s[i] \in Table!Spec1 /\ s[i].zutex = zs[i]
    BY <1>3, <2>1
  <2>3. DOMAIN s = 1..Len(zs) /\ Len(zs) \in Nat /\ DOMAIN zs = 1..Len(zs)
    BY <2>1
  <2>4. s = [i \in 1..Len(zs) |-> s[i]]
    BY Zenon, <2>3
  <2> HIDE DEF s
  <2>5. s \in Seq(Table!Spec1) /\ Len(s) = Len(zs)
    BY <2>2, <2>3, <2>4
  <2>6. [i \in DOMAIN s |-> s[i].zutex] = zs
    BY <2>1, <2>2, <2>3
  <2> QED  BY Zenon, <2>3, <2>5, <2>6
<1> HIDE DEF s
<1>5. /\ specs'[t] = s /\ zpc'[t] = "wait"
      /\ \A u \in Guests : u # t => specs'[u] = specs[u] /\ zpc'[u] = zpc[u]
  BY Zenon, <1>1 DEF TableTypes
<1>6. TableTypes'
  BY Zenon, <1>1, <1>4 DEF TableTypes, ZutexPlaces
<1>7. MutexHeld'
  BY Zenon, <1>1, <1>5 DEF MutexHeld
<1>8. SpecsOK'
  <2>1. ASSUME NEW u \in Guests, u # t
        PROVE  /\ Distinct(Table!ZutexesOf(u)') /\ idx'[u] \in 1..(Len(specs'[u]) + 1)
               /\ zpc'[u] # "check" => idx'[u] = 1
    BY Zenon, <2>1, <1>1, <1>5, SpecsStay DEF SpecsOK
  <2>2. Table!ZutexesOf(t)' = zs
    BY Zenon, <1>4, <1>5 DEF Table!ZutexesOf
  <2>3. idx'[t] = 1 /\ 1 \in 1..(Len(specs'[t]) + 1)
    <3>1. idx'[t] = 1
      BY Zenon, <1>1 DEF SpecsOK
    <3> QED  BY <3>1, <1>4, <1>5
  <2> QED  BY Zenon, <2>1, <2>2, <2>3, <1>2 DEF SpecsOK
<1>9. Table!Sleeping' = Table!Sleeping /\ t \notin Table!Sleeping
  BY Zenon, <1>1, <1>5 DEF Table!Sleeping
<1>10. \A u \in Table!Sleeping : specs'[u] = specs[u]
  BY Zenon, <1>5, <1>9 DEF Table!Sleeping
<1>11. QueuesOK' /\ Enrolled'
  BY Zenon, <1>1, <1>9, <1>10, StillEnrolled
<1> QED  BY Zenon, <1>6, <1>7, <1>8, <1>11

\* wait takes the table's mutex first (ZutexTable.cpp:64).
LEMMA LockTableKeeps ==
  ASSUME TableIInv, NEW t \in Guests, Table!LockTable(t)
  PROVE  TableIInv'
<1> USE DEF TableIInv
<1>1. /\ zpc[t] = "wait" /\ table_mutex = {} /\ table_mutex' = {t} /\ zpc' = [zpc EXCEPT ![t] = "check"]
      /\ UNCHANGED <<mem, table, waiting_on, zevent, specs, idx, wake_arg>>
  BY Zenon DEF Table!LockTable
<1>2. zpc'[t] = "check" /\ \A u \in Guests : u # t => zpc'[u] = zpc[u]
  BY Zenon, <1>1 DEF TableTypes
<1>3. TableTypes'
  BY Zenon, <1>1 DEF TableTypes, ZutexPlaces
<1>4. MutexHeld'
  BY Zenon, <1>1, <1>2 DEF MutexHeld
<1>5. \A u : Table!ZutexesOf(u)' = Table!ZutexesOf(u)
  BY Zenon, <1>1 DEF Table!ZutexesOf
<1>6. SpecsOK'
  BY Zenon, <1>1, <1>2, <1>5 DEF SpecsOK
<1>7. Table!Sleeping' = Table!Sleeping
  BY Zenon, <1>1, <1>2 DEF Table!Sleeping
<1>8. QueuesOK' /\ Enrolled'
  BY Zenon, <1>1, <1>7, StillEnrolled
<1> QED  BY Zenon, <1>3, <1>4, <1>6, <1>8

\* A wait that finds a changed or unmapped word leaves no trace
\* (ZutexTable.cpp:98-102, 121-123).
LEMMA GiveUpKeeps ==
  ASSUME TableIInv, NEW t \in Guests, zpc[t] = "check", Table!GiveUp(t)
  PROVE  TableIInv'
<1> USE DEF TableIInv
<1>1. /\ table_mutex' = table_mutex \ {t} /\ zpc' = [zpc EXCEPT ![t] = "run"]
      /\ specs' = [specs EXCEPT ![t] = <<>>] /\ idx' = [idx EXCEPT ![t] = 1]
      /\ UNCHANGED <<mem, table, waiting_on, zevent, wake_arg>>
  BY Zenon DEF Table!GiveUp
<1>2. /\ zpc'[t] = "run" /\ specs'[t] = <<>> /\ idx'[t] = 1
      /\ \A u \in Guests : u # t => specs'[u] = specs[u] /\ zpc'[u] = zpc[u] /\ idx'[u] = idx[u]
  BY Zenon, <1>1 DEF TableTypes
<1>3. TableTypes'
  <2>1. <<>> \in Seq(Table!Spec1) /\ 1 \in Nat
    OBVIOUS
  <2> QED  BY Zenon, <1>1, <2>1 DEF TableTypes, ZutexPlaces
<1>4. MutexHeld'
  BY Zenon, <1>1, <1>2 DEF MutexHeld
<1>5. SpecsOK'
  <2>1. ASSUME NEW u \in Guests, u # t
        PROVE  /\ Distinct(Table!ZutexesOf(u)') /\ idx'[u] \in 1..(Len(specs'[u]) + 1)
               /\ zpc'[u] # "check" => idx'[u] = 1
    BY Zenon, <2>1, <1>2, SpecsStay DEF SpecsOK
  <2>2. Distinct(Table!ZutexesOf(t)')
    BY <1>2 DEF Table!ZutexesOf, Distinct
  <2>3. 1 \in 1..(Len(specs'[t]) + 1)
    BY <1>2
  <2> QED  BY Zenon, <2>1, <2>2, <2>3, <1>2 DEF SpecsOK
<1>6. Table!Sleeping' = Table!Sleeping /\ t \notin Table!Sleeping
  BY Zenon, <1>1, <1>2 DEF Table!Sleeping
<1>7. \A u \in Table!Sleeping : specs'[u] = specs[u]
  BY Zenon, <1>2, <1>6 DEF Table!Sleeping
<1>8. QueuesOK' /\ Enrolled'
  BY Zenon, <1>1, <1>6, <1>7, StillEnrolled
<1> QED  BY Zenon, <1>3, <1>4, <1>5, <1>8

\* So does the comparison of a word, whichever way it ends (ZutexTable.cpp:76-102).
LEMMA CheckOneKeeps ==
  ASSUME TableIInv, NEW t \in Guests, Table!CheckOne(t)
  PROVE  TableIInv'
<1> USE DEF TableIInv
<1>1. zpc[t] = "check" /\ idx[t] <= Len(specs[t])
  BY Zenon DEF Table!CheckOne
<1>2. CASE Table!GiveUp(t)
  BY Zenon, <1>1, <1>2, GiveUpKeeps
<1>3. CASE ~Table!GiveUp(t)
  <2>1. /\ idx' = [idx EXCEPT ![t] = @ + 1]
        /\ UNCHANGED <<mem, table, waiting_on, zevent, table_mutex, zpc, specs, wake_arg>>
    BY Zenon, <1>3 DEF Table!CheckOne
  <2>2. /\ Len(specs[t]) \in Nat /\ idx[t] \in Nat /\ idx[t] + 1 \in Nat
        /\ idx[t] + 1 \in 1..(Len(specs[t]) + 1)
    <3>1. specs[t] \in Seq(Table!Spec1) /\ idx[t] \in Nat
      BY Zenon DEF TableTypes
    <3> QED  BY <3>1, <1>1
  <2>3. idx'[t] = idx[t] + 1 /\ \A u \in Guests : u # t => idx'[u] = idx[u]
    BY Zenon, <2>1 DEF TableTypes
  <2>4. TableTypes'
    BY Zenon, <2>1, <2>2 DEF TableTypes
  <2>5. MutexHeld'
    BY Zenon, <2>1 DEF MutexHeld
  <2>6. \A u : Table!ZutexesOf(u)' = Table!ZutexesOf(u)
    BY Zenon, <2>1 DEF Table!ZutexesOf
  <2>7. SpecsOK'
    BY Zenon, <2>1, <2>2, <2>3, <2>6, <1>1 DEF SpecsOK
  <2>8. Table!Sleeping' = Table!Sleeping
    BY Zenon, <2>1 DEF Table!Sleeping
  <2>9. QueuesOK' /\ Enrolled'
    BY Zenon, <2>1, <2>8, StillEnrolled
  <2> QED  BY Zenon, <2>4, <2>5, <2>7, <2>9
<1> QED  BY Zenon, <1>2, <1>3

\* A thread returns from its sleep when the wake has taken it out of every
\* queue (ZutexWaiter.cpp:11-24).
LEMMA ReturnKeeps ==
  ASSUME TableIInv, NEW t \in Guests, Table!Return(t)
  PROVE  TableIInv'
<1> USE DEF TableIInv
<1>1. /\ zpc[t] = "asleep" /\ zevent[t] /\ zpc' = [zpc EXCEPT ![t] = "run"]
      /\ specs' = [specs EXCEPT ![t] = <<>>]
      /\ UNCHANGED <<mem, table, waiting_on, zevent, table_mutex, idx, wake_arg>>
  BY Zenon DEF Table!Return
<1>2. /\ zpc'[t] = "run" /\ specs'[t] = <<>> /\ idx'[t] = 1
      /\ \A u \in Guests : u # t => specs'[u] = specs[u] /\ zpc'[u] = zpc[u] /\ idx'[u] = idx[u]
  BY Zenon, <1>1 DEF TableTypes, SpecsOK
<1>3. TableTypes'
  <2>1. <<>> \in Seq(Table!Spec1)
    OBVIOUS
  <2> QED  BY Zenon, <1>1, <2>1 DEF TableTypes, ZutexPlaces
<1>4. MutexHeld'
  BY Zenon, <1>1, <1>2 DEF MutexHeld
<1>5. SpecsOK'
  <2>1. ASSUME NEW u \in Guests, u # t
        PROVE  /\ Distinct(Table!ZutexesOf(u)') /\ idx'[u] \in 1..(Len(specs'[u]) + 1)
               /\ zpc'[u] # "check" => idx'[u] = 1
    BY Zenon, <2>1, <1>2, SpecsStay DEF SpecsOK
  <2>2. Distinct(Table!ZutexesOf(t)')
    BY <1>2 DEF Table!ZutexesOf, Distinct
  <2>3. 1 \in 1..(Len(specs'[t]) + 1)
    BY <1>2
  <2> QED  BY Zenon, <2>1, <2>2, <2>3, <1>2 DEF SpecsOK
<1>6. Table!Sleeping' = Table!Sleeping /\ t \notin Table!Sleeping
  BY Zenon, <1>1, <1>2 DEF Table!Sleeping
<1>7. \A u \in Table!Sleeping : specs'[u] = specs[u]
  BY Zenon, <1>2, <1>6 DEF Table!Sleeping
<1>8. QueuesOK' /\ Enrolled'
  BY Zenon, <1>1, <1>6, <1>7, StillEnrolled
<1> QED  BY Zenon, <1>3, <1>4, <1>5, <1>8

\* A word changes without the table's mutex (HostAlarms.cpp:10-25).
LEMMA StoreWordKeeps ==
  ASSUME TableIInv, NEW t \in Guests, NEW z \in Addresses \ Unmapped, NEW n \in WakeCounts[z],
         Table!StoreWord(t, z, n)
  PROVE  TableIInv'
<1> USE DEF TableIInv
<1>1. /\ zpc[t] = "run" /\ mem' = [mem EXCEPT ![z] = (@ + 1) % Words]
      /\ wake_arg' = [wake_arg EXCEPT ![t] = [zutex |-> z, n |-> n]]
      /\ zpc' = [zpc EXCEPT ![t] = "wake"]
      /\ UNCHANGED <<table, waiting_on, zevent, table_mutex, specs, idx>>
  BY Zenon DEF Table!StoreWord
<1>2. zpc'[t] = "wake" /\ \A u \in Guests : u # t => zpc'[u] = zpc[u]
  BY Zenon, <1>1 DEF TableTypes
<1>3. TableTypes'
  <2>1. (mem[z] + 1) % Words \in Table!Word
    BY ZutexAssumption DEF TableTypes, Table!Word
  <2>2. n \in Nat
    BY Zenon, ZutexAssumption
  <2>3. [zutex |-> z, n |-> n] \in [zutex : Addresses, n : Nat]
    BY <2>2
  <2>4. mem' \in [Addresses -> Table!Word]
    BY Zenon, <1>1, <2>1 DEF TableTypes
  <2>5. wake_arg' \in [Guests -> [zutex : Addresses, n : Nat]]
    BY Zenon, <1>1, <2>3 DEF TableTypes
  <2> QED  BY Zenon, <1>1, <2>4, <2>5 DEF TableTypes, ZutexPlaces
<1>4. MutexHeld'
  BY Zenon, <1>1, <1>2 DEF MutexHeld
<1>5. \A u : Table!ZutexesOf(u)' = Table!ZutexesOf(u)
  BY Zenon, <1>1 DEF Table!ZutexesOf
<1>6. SpecsOK'
  BY Zenon, <1>1, <1>2, <1>5 DEF SpecsOK
<1>7. Table!Sleeping' = Table!Sleeping
  BY Zenon, <1>1, <1>2 DEF Table!Sleeping
<1>8. QueuesOK' /\ Enrolled'
  BY Zenon, <1>1, <1>7, StillEnrolled
<1> QED  BY Zenon, <1>3, <1>4, <1>6, <1>8

\* A waiter enters one queue for each of its zutexes, and sleeps
\* (ZutexTable.cpp:103-111).
LEMMA EnqueueKeeps ==
  ASSUME TableIInv, NEW t \in Guests, Table!Enqueue(t)
  PROVE  TableIInv' /\ Table!Sleeping' = Table!Sleeping \cup {t} /\ t \notin Table!Sleeping
<1> USE DEF TableIInv
<1> DEFINE zs == Table!ZutexesOf(t)
<1>1. /\ zpc[t] = "check" /\ table' = Table!Push(table, zs, t)
      /\ waiting_on' = [waiting_on EXCEPT ![t] = @ \o zs]
      /\ zevent' = [zevent EXCEPT ![t] = FALSE] /\ table_mutex' = table_mutex \ {t}
      /\ zpc' = [zpc EXCEPT ![t] = "asleep"] /\ idx' = [idx EXCEPT ![t] = 1]
      /\ UNCHANGED <<mem, specs, wake_arg>>
  BY Zenon DEF Table!Enqueue
<1>2. zs \in Seq(Addresses) /\ Distinct(zs)
  <2>1. specs[t] \in Seq(Table!Spec1)
    BY Zenon DEF TableTypes
  <2> QED  BY Zenon, <2>1, ZutexesOfSeq DEF SpecsOK
<1>3. t \notin Table!Sleeping /\ waiting_on[t] = <<>>
  BY Zenon, <1>1 DEF Table!Sleeping, Enrolled
<1>4. /\ zpc'[t] = "asleep" /\ ~zevent'[t] /\ idx'[t] = 1
      /\ \A u \in Guests : u # t => /\ zpc'[u] = zpc[u] /\ idx'[u] = idx[u]
                                  /\ zevent'[u] = zevent[u] /\ waiting_on'[u] = waiting_on[u]
  BY Zenon, <1>1 DEF TableTypes
<1>5. waiting_on'[t] = zs
  <2>1. <<>> \o zs = zs
    BY <1>2
  <2> QED  BY Zenon, <2>1, <1>1, <1>3 DEF TableTypes
<1>6. TableTypes'
  <2>1. waiting_on' = [waiting_on EXCEPT ![t] = zs]
    <3>1. <<>> \o zs = zs
      BY <1>2
    <3> QED  BY Zenon, <3>1, <1>1, <1>3
  <2>2. waiting_on' \in [Guests -> Seq(Addresses)]
    <3> HIDE DEF zs
    <3> QED  BY Zenon, <2>1, <1>2 DEF TableTypes
  <2>3. 1 \in Nat
    OBVIOUS
  <2> QED  BY Zenon, <2>2, <2>3, <1>1 DEF TableTypes, ZutexPlaces
<1>7. MutexHeld'
  BY Zenon, <1>1, <1>4 DEF MutexHeld
<1>8. \A u : Table!ZutexesOf(u)' = Table!ZutexesOf(u)
  BY Zenon, <1>1 DEF Table!ZutexesOf
<1>9. SpecsOK'
  <2>1. 1 \in 1..(Len(specs[t]) + 1)
    <3>1. specs[t] \in Seq(Table!Spec1)
      BY Zenon DEF TableTypes
    <3> QED  BY <3>1
  <2> QED  BY Zenon, <1>1, <1>4, <1>8, <2>1 DEF SpecsOK
<1>10. Table!Sleeping' = Table!Sleeping \cup {t}
  BY Zenon, <1>4 DEF Table!Sleeping
<1>11. \A e, z : InQueue(e, z) <=> Listed(e, z, table)
  BY Zenon DEF InQueue, Listed
<1>12. Joins(table', table, t, {zs[j] : j \in 1..Len(zs)})
  <2>1. \A y : ~Listed(t, y, table)
    BY Zenon, <1>3, <1>11 DEF Enrolled
  <2>2. table \in Tables
    <3>1. table \in [DOMAIN table -> Seq(Guests)]
      BY Zenon DEF QueuesOK, WaiterQueues
    <3> QED  BY Zenon, <3>1 DEF QueuesOK, Tables
  <2> HIDE DEF zs
  <2> QED  BY Zenon, <1>1, <1>2, <2>1, <2>2, Enters DEF QueuesOK
<1>13. \A z : z \in {zs[j] : j \in 1..Len(zs)} <=> Queued(z, zs)
  <2> HIDE DEF zs
  <2> QED  BY Zenon DEF Queued
<1>14. /\ table' \in [DOMAIN table' -> WaiterQueues]
       /\ \A z : z \in DOMAIN table' <=> z \in DOMAIN table \/ Queued(z, zs)
       /\ \A z, e : Listed(e, z, table') <=> Listed(e, z, table) \/ (e = t /\ Queued(z, zs))
  <2> DEFINE Z == {zs[j] : j \in 1..Len(zs)}
  <2>1. Joins(table', table, t, Z) /\ \A z : z \in Z <=> Queued(z, zs)
    BY Zenon, <1>12, <1>13
  <2> HIDE DEF zs, Z
  <2> QED  BY <2>1 DEF Joins
<1>15. QueuesOK'
  <2>1. \A z : Queued(z, zs) => z \in Addresses
    BY <1>2 DEF Queued
  <2>2. DOMAIN table' \in SUBSET Addresses
    <3> HIDE DEF zs
    <3> QED  BY Zenon, <2>1, <1>14 DEF QueuesOK
  <2>3. ASSUME NEW z \in DOMAIN table' PROVE table'[z] # <<>>
    <3>1. \E e : Listed(e, z, table')
      <4>1. CASE z \in DOMAIN table
        <5>1. table[z] # <<>> /\ table[z] \in Seq(Guests)
          BY Zenon, <4>1 DEF QueuesOK, WaiterQueues
        <5>2. Queued(table[z][1], table[z])
          BY <5>1 DEF Queued
        <5> QED  BY Zenon, <4>1, <5>2, <1>14 DEF Listed
      <4> QED  BY Zenon, <4>1, <1>14
    <3>2. \A e : ~Queued(e, <<>>)
      BY DEF Queued
    <3> QED  BY Zenon, <3>1, <3>2 DEF Listed
  <2> QED  BY Zenon, <2>2, <2>3, <1>14 DEF QueuesOK
<1>16. \A e, z : InQueue(e, z)' <=> InQueue(e, z) \/ (Queued(z, zs) /\ e = t)
  <2>1. \A e, z : InQueue(e, z)' <=> Listed(e, z, table')
    BY Zenon DEF InQueue, Listed
  <2>2. \A z, e : Listed(e, z, table') <=> Listed(e, z, table) \/ (e = t /\ Queued(z, zs))
    BY Zenon, <1>14
  <2> HIDE DEF zs
  <2> QED  BY <2>1, <2>2, <1>11
<1>17. Enrolled'
  <2>1. ASSUME NEW u \in Guests
        PROVE  /\ \A z : InQueue(u, z)'
                     <=> u \in Table!Sleeping' /\ Queued(z, Table!ZutexesOf(u)')
               /\ waiting_on'[u] = IF u \in Table!Sleeping' THEN Table!ZutexesOf(u)' ELSE <<>>
    <3>1. CASE u = t
      BY Zenon, <3>1, <1>3, <1>5, <1>8, <1>10, <1>16 DEF Enrolled
    <3>2. CASE u # t
      BY Zenon, <3>2, <1>4, <1>8, <1>10, <1>16 DEF Enrolled
    <3> QED  BY Zenon, <3>1, <3>2
  <2> QED  BY Zenon, <2>1 DEF Enrolled
<1> QED  BY Zenon, <1>3, <1>6, <1>7, <1>9, <1>10, <1>15, <1>17


\* A queue cut in two.
Halves(q, a, b) == /\ \A e : Queued(e, q) <=> Queued(e, a) \/ Queued(e, b)
                   /\ \A e : ~(Queued(e, a) /\ Queued(e, b))

\* The victims of wake and the waiters left are different threads
\* (ZutexTable.cpp:185-203).
LEMMA Splits ==
  ASSUME NEW S, NEW q \in Seq(S), Distinct(q), NEW n \in 0..Len(q),
         NEW a, a = SubSeq(q, 1, n), NEW b, b = SubSeq(q, n + 1, Len(q))
  PROVE  a \in Seq(S) /\ b \in Seq(S) /\ Distinct(b) /\ Halves(q, a, b)
<1>1. Len(q) \in Nat /\ n \in Nat /\ n <= Len(q)
  OBVIOUS
<1>2. a \in Seq(S) /\ Len(a) = n /\ \A i \in 1..n : a[i] = q[i]
  BY <1>1
<1>3. /\ b \in Seq(S) /\ Len(b) = Len(q) - n
      /\ \A i \in 1..(Len(q) - n) : b[i] = q[n + i] /\ n + i \in 1..Len(q)
  BY <1>1
<1>4. Distinct(b)
  BY <1>1, <1>3 DEF Distinct
<1>5. ASSUME NEW e, Queued(e, q) PROVE Queued(e, a) \/ Queued(e, b)
  <2>1. PICK k \in 1..Len(q) : q[k] = e
    BY Zenon, <1>5 DEF Queued
  <2>2. CASE k <= n
    BY <2>1, <2>2, <1>1, <1>2 DEF Queued
  <2>3. CASE ~(k <= n)
    <3>1. k - n \in 1..(Len(q) - n) /\ n + (k - n) = k
      BY <2>1, <2>3, <1>1
    <3>2. b[k - n] = e
      BY Zenon, <3>1, <2>1, <1>3
    <3> QED  BY Zenon, <3>1, <3>2, <1>3 DEF Queued
  <2> QED  BY Zenon, <2>2, <2>3
<1>6. ASSUME NEW e PROVE Queued(e, a) \/ Queued(e, b) => Queued(e, q)
  BY <1>1, <1>2, <1>3 DEF Queued
<1>7. ASSUME NEW e PROVE ~(Queued(e, a) /\ Queued(e, b))
  BY <1>1, <1>2, <1>3 DEF Queued, Distinct
<1> QED  BY Zenon, <1>2, <1>3, <1>4, <1>5, <1>6, <1>7 DEF Halves

\* What ZutexTable::wake does: some of the threads that wait on one zutex
\* wake, and nobody else is touched (ZutexTable.cpp:170-261).
WokenFrom(W, z) ==
    /\ z \in Addresses
    /\ \A u \in W : u \in Table!Sleeping /\ Queued(z, Table!ZutexesOf(u))
    /\ Table!Sleeping' = Table!Sleeping \ W
    /\ table_mutex = {} /\ UNCHANGED <<mem, table_mutex, specs, idx>>

\* wake leaves no victim in any queue, no other waiter out of one, and no queue
\* empty; the victims waited for the zutex (ZutexTable.cpp:170-261).
LEMMA WakeCallKeeps ==
  ASSUME TableIInv, NEW t \in Guests, Table!WakeCall(t)
  PROVE  TableIInv' /\ \E W : \E z : WokenFrom(W, z)
<1> USE DEF TableIInv
<1> DEFINE z == wake_arg[t].zutex
           zq == Table!QueueOf(table, z)
           n == Table!Popped(z, wake_arg[t].n)
           popped == SubSeq(zq, 1, n)
           rest == SubSeq(zq, n + 1, Len(zq))
           woken == Table!Range(popped)
           tab == [table EXCEPT ![z] = rest]
           left == Table!LeaveAll(tab, popped, z)
           E == Table!empty_zq_set(left, woken)
           D == DOMAIN table
<1>1. /\ zpc[t] = "wake" /\ table_mutex = {}
      /\ \/ z \notin D /\ UNCHANGED <<table, waiting_on, zevent>>
         \/ /\ z \in D /\ table' = [y \in DOMAIN left \ E |-> left[y]]
            /\ waiting_on' = [u \in Guests |-> IF u \in woken THEN <<>> ELSE waiting_on[u]]
            /\ zevent' = [u \in Guests |-> u \in woken \/ zevent[u]]
      /\ wake_arg' = [wake_arg EXCEPT ![t] = Table!NoWake]
      /\ zpc' = [zpc EXCEPT ![t] = "run"]
      /\ UNCHANGED <<mem, table_mutex, specs, idx>>
  BY Zenon DEF Table!WakeCall
<1>2. zpc'[t] = "run" /\ \A u \in Guests : u # t => zpc'[u] = zpc[u]
  BY Zenon, <1>1 DEF TableTypes
<1>3. z \in Addresses /\ wake_arg[t].n \in Nat
  BY DEF TableTypes
<1>4. wake_arg' \in [Guests -> [zutex : Addresses, n : Nat]]
  <2>1. Table!NoWake \in [zutex : Addresses, n : Nat]
    BY ZutexAssumption DEF Table!NoWake
  <2> QED  BY Zenon, <2>1, <1>1 DEF TableTypes
<1>5. \A u : Table!ZutexesOf(u)' = Table!ZutexesOf(u)
  BY Zenon, <1>1 DEF Table!ZutexesOf
<1>6. MutexHeld' /\ SpecsOK'
  <2>1. MutexHeld'
    BY Zenon, <1>1, <1>2 DEF MutexHeld
  <2>2. SpecsOK'
    BY Zenon, <1>1, <1>2, <1>5 DEF SpecsOK
  <2> QED  BY Zenon, <2>1, <2>2
<1>7. CASE z \notin D
  <2>1. UNCHANGED <<table, waiting_on, zevent>>
    BY Zenon, <1>1, <1>7
  <2>2. Table!Sleeping' = Table!Sleeping
    BY Zenon, <2>1, <1>1, <1>2 DEF Table!Sleeping
  <2>3. QueuesOK' /\ Enrolled'
    BY Zenon, <1>1, <2>1, <2>2, StillEnrolled
  <2>4. TableTypes'
    <3> HIDE DEF z
    <3> QED  BY Zenon, <1>1, <1>4, <2>1 DEF TableTypes, ZutexPlaces
  <2>5. WokenFrom({}, z)
    BY Zenon, <1>1, <1>3, <2>2 DEF WokenFrom
  <2> QED  BY Zenon, <1>6, <2>3, <2>4, <2>5
<1>8. CASE z \in D
  <2>1. zq = table[z] /\ zq \in Seq(Guests) /\ Distinct(zq)
    BY Zenon, <1>8 DEF Table!QueueOf, QueuesOK, WaiterQueues
  <2>2. n \in 0..Len(zq)
    <3> HIDE DEF zq
    <3> QED  BY <2>1, <1>3 DEF Table!Popped, zq
  <2>3. /\ table' = [y \in DOMAIN left \ E |-> left[y]]
        /\ waiting_on' = [u \in Guests |-> IF u \in woken THEN <<>> ELSE waiting_on[u]]
        /\ zevent' = [u \in Guests |-> u \in woken \/ zevent[u]]
    BY Zenon, <1>1, <1>8
  <2>4. /\ popped \in Seq(Guests) /\ rest \in Seq(Guests) /\ Distinct(rest)
        /\ \A e : Queued(e, zq) <=> Queued(e, popped) \/ Queued(e, rest)
        /\ \A e : ~(Queued(e, popped) /\ Queued(e, rest))
    <3>1. popped = SubSeq(zq, 1, n) /\ rest = SubSeq(zq, n + 1, Len(zq))
      BY Zenon
    <3> HIDE DEF zq, n, popped, rest
    <3>2. popped \in Seq(Guests) /\ rest \in Seq(Guests) /\ Distinct(rest) /\ Halves(zq, popped, rest)
      BY Zenon, <3>1, <2>1, <2>2, Splits
    <3> QED  BY Zenon, <3>2 DEF Halves
  <2> HIDE DEF z, zq, n, popped, rest
  <2>5. \A e : e \in woken <=> Queued(e, popped)
    BY Zenon, <2>4, RangeIs
  <2>6. tab \in [D -> WaiterQueues] /\ \A y \in D : tab[y] = IF y = z THEN rest ELSE table[y]
    BY Zenon, <2>4 DEF QueuesOK, WaiterQueues
  <2>7. waiting_on \in [Guests -> Seq(Addresses)]
    BY Zenon DEF TableTypes
  <2>8. /\ left \in [D -> WaiterQueues]
        /\ \A y \in D : \A e : Queued(e, left[y])
              <=> Queued(e, tab[y]) /\ ~(Queued(e, popped) /\ Gone(e, y, e, z))
    <3> HIDE DEF tab, D
    <3> QED  BY Zenon, <2>4, <2>6, <2>7, AllLeave
  <2> HIDE DEF woken, left, tab
  <2>9. \A e \in woken : e \in Guests /\ InQueue(e, z)
    <3>1. \A e : Queued(e, popped) => e \in Guests
      BY <2>4 DEF Queued
    <3> QED  BY Zenon, <3>1, <2>1, <2>4, <2>5, <1>8 DEF InQueue
  <2>10. \A e \in woken : /\ e \in Table!Sleeping /\ Queued(z, Table!ZutexesOf(e))
                          /\ waiting_on[e] = Table!ZutexesOf(e)
    BY Zenon, <2>9 DEF Enrolled
  <2>11. \A y \in D : \A e : Queued(e, left[y]) <=> Queued(e, table[y]) /\ e \notin woken
    <3> SUFFICES ASSUME NEW y \in D, NEW e
                 PROVE  Queued(e, left[y]) <=> Queued(e, table[y]) /\ e \notin woken
      BY Zenon
    <3>1. CASE y = z
      BY Zenon, <3>1, <2>1, <2>4, <2>5, <2>6, <2>8 DEF Gone
    <3>2. CASE y # z /\ e \in woken /\ Queued(e, table[y])
      <4>1. Queued(y, waiting_on[e])
        BY Zenon, <3>2, <2>9, <2>10 DEF Enrolled, InQueue
      <4> QED  BY Zenon, <4>1, <3>2, <2>5, <2>8 DEF Gone
    <3>3. CASE y # z /\ ~(e \in woken /\ Queued(e, table[y]))
      BY Zenon, <3>3, <2>5, <2>6, <2>8
    <3> QED  BY Zenon, <3>1, <3>2, <3>3
  <2>12. \A y : y \in E <=> left[y] = <<>> /\ \E w \in woken : Queued(y, waiting_on[w])
    <3>1. \A w \in woken : \A y : y \in Table!Range(waiting_on[w]) <=> Queued(y, waiting_on[w])
      BY Zenon, <2>7, <2>9, RangeIs
    <3> QED  BY Zenon, <3>1 DEF Table!empty_zq_set
  <2> HIDE DEF E
  <2>13. DOMAIN table' = D \ E /\ \A y \in D \ E : table'[y] = left[y]
    BY Zenon, <2>3, <2>8
  <2>14. ASSUME NEW y \in D, left[y] = <<>> PROVE y \in E
    <3>1. table[y] # <<>> /\ table[y] \in Seq(Guests)
      BY Zenon DEF QueuesOK, WaiterQueues
    <3>2. PICK e : Queued(e, table[y])
      <4>1. Queued(table[y][1], table[y])
        BY <3>1 DEF Queued
      <4> QED  BY Zenon, <4>1
    <3>3. ~Queued(e, left[y])
      BY <2>14 DEF Queued
    <3>4. e \in woken
      BY Zenon, <3>2, <3>3, <2>11
    <3>5. Queued(y, waiting_on[e])
      BY Zenon, <3>2, <3>4, <2>9, <2>10 DEF Enrolled, InQueue
    <3> QED  BY Zenon, <2>14, <3>4, <3>5, <2>12
  <2>15. QueuesOK'
    <3>1. \A y \in D \ E : left[y] \in WaiterQueues /\ left[y] # <<>>
      BY Zenon, <2>8, <2>14
    <3>2. table' = [y \in D \ E |-> left[y]]
      BY Zenon, <2>3, <2>8
    <3>3. table' \in [D \ E -> WaiterQueues]
      BY Zenon, <3>1, <3>2
    <3>4. D \ E \in SUBSET Addresses
      BY Zenon DEF QueuesOK
    <3> QED  BY Zenon, <3>1, <3>3, <3>4, <2>13 DEF QueuesOK
  <2>16. \A e, y : InQueue(e, y)' <=> InQueue(e, y) /\ e \notin woken
    <3> SUFFICES ASSUME NEW e, NEW y
                 PROVE  InQueue(e, y)' <=> InQueue(e, y) /\ e \notin woken
      BY Zenon
    <3>1. InQueue(e, y)' <=> y \in D \ E /\ Queued(e, left[y])
      BY Zenon, <2>13 DEF InQueue
    <3>2. Queued(e, left[y]) => left[y] # <<>>
      BY DEF Queued
    <3> QED  BY Zenon, <3>1, <3>2, <2>11, <2>12 DEF InQueue
  <2>17. /\ \A u \in Guests : zevent'[u] <=> u \in woken \/ zevent[u]
         /\ \A u \in Guests : waiting_on'[u] = IF u \in woken THEN <<>> ELSE waiting_on[u]
    BY Zenon, <2>3
  <2>18. Table!Sleeping' = Table!Sleeping \ woken
    BY Zenon, <2>17, <1>1, <1>2 DEF Table!Sleeping
  <2>19. Enrolled'
    BY Zenon, <2>16, <2>17, <2>18, <1>5 DEF Enrolled
  <2>20. TableTypes'
    <3>1. zevent' \in [Guests -> BOOLEAN]
      BY Zenon, <2>3 DEF TableTypes
    <3>2. waiting_on' \in [Guests -> Seq(Addresses)]
      <4>1. <<>> \in Seq(Addresses)
        OBVIOUS
      <4> QED  BY Zenon, <4>1, <2>3, <2>7
    <3> QED  BY Zenon, <1>1, <1>4, <3>1, <3>2 DEF TableTypes, ZutexPlaces
  <2>21. WokenFrom(woken, z)
    BY Zenon, <1>1, <1>3, <2>10, <2>18 DEF WokenFrom
  <2> QED  BY Zenon, <1>6, <2>15, <2>19, <2>20, <2>21
<1> QED  BY Zenon, <1>7, <1>8

\* Every step of a wait or a wake keeps the invariant (ZutexTable.cpp:59-261).
LEMMA TableNext == TableIInv /\ [Table!Next]_(Table!vars) => TableIInv'
<1> SUFFICES ASSUME TableIInv, [Table!Next]_(Table!vars) PROVE TableIInv'
  BY Zenon
<1>1. CASE UNCHANGED Table!vars
  <2>1. UNCHANGED <<mem, table, waiting_on, zevent, table_mutex, zpc, specs, idx, wake_arg>>
    BY Zenon, <1>1 DEF Table!vars
  <2>2. Table!Sleeping' = Table!Sleeping /\ \A u : Table!ZutexesOf(u)' = Table!ZutexesOf(u)
    BY Zenon, <2>1 DEF Table!Sleeping, Table!ZutexesOf
  <2>3. QueuesOK' /\ Enrolled'
    BY Zenon, <2>1, <2>2, StillEnrolled DEF TableIInv
  <2> QED  BY Zenon, <2>1, <2>2, <2>3 DEF TableIInv, TableTypes, MutexHeld, SpecsOK
<1>2. CASE Table!Next
  BY Zenon, <1>2, CallWaitKeeps, StoreWordKeeps, LockTableKeeps, CheckOneKeeps, EnqueueKeeps,
     ReturnKeeps, WakeCallKeeps DEF Table!Next, Table!Step
<1> QED  BY Zenon, <1>1, <1>2

\* Whoever waits and wakes, exactly the sleeping threads are in the queues of
\* the zutexes they wait for, and no queue is left empty
\* (ZutexTable.cpp:103-111, 209-256).
THEOREM ZutexTableConsistent == Table!Spec => []TableConsistent
  BY TableInit, TableNext, TableIsConsistent, PTL DEF Table!Spec

-----------------------------------------------------------------------------
\* What the ABI sees of a thread's wait.
Waited(t) == [z \in Table!Joined(t) |-> Table!MatchOf(t, z)]
\* The ABI's waits, as the table has them.
Waits == [t \in Guests |-> Waited(t)]

\* A thread that neither compares nor sleeps waits for nothing.
LEMMA NotJoined ==
  ASSUME NEW t, zpc[t] # "check", t \notin Table!Sleeping
  PROVE  Table!Joined(t) = {} /\ Waited(t) = Table!ABI!NoSpecs
<1>1. Table!Joined(t) = {}
  BY Zenon DEF Table!Joined
<1> QED  BY <1>1 DEF Waited, Table!ABI!NoSpecs

\* The thread that compares has joined the zutexes it has compared.
LEMMA JoinedIs ==
  ASSUME TableIInv, NEW t \in Guests
  PROVE  /\ zpc[t] = "check" => \A z : z \in Table!Joined(t)
                 <=> \E i \in 1..(idx[t] - 1) : specs[t][i].zutex = z
         /\ t \in Table!Sleeping => \A z : z \in Table!Joined(t)
                 <=> Queued(z, Table!ZutexesOf(t))
         /\ \A z : Queued(z, Table!ZutexesOf(t))
                 <=> \E i \in 1..Len(specs[t]) : specs[t][i].zutex = z
<1>1. specs[t] \in Seq(Table!Spec1)
  BY Zenon DEF TableIInv, TableTypes
<1>2. /\ Table!ZutexesOf(t) \in Seq(Addresses) /\ Len(Table!ZutexesOf(t)) = Len(specs[t])
      /\ \A i \in 1..Len(specs[t]) : Table!ZutexesOf(t)[i] = specs[t][i].zutex
  BY Zenon, <1>1, ZutexesOfSeq
<1>3. zpc[t] = "check" => \A z : z \in Table!Joined(t)
                 <=> \E i \in 1..(idx[t] - 1) : specs[t][i].zutex = z
  BY Zenon DEF Table!Joined
<1>4. t \in Table!Sleeping => \A z : z \in Table!Joined(t) <=> Queued(z, Table!ZutexesOf(t))
  <2>1. t \in Table!Sleeping => zpc[t] = "asleep"
    BY Zenon DEF Table!Sleeping
  <2>2. \A z : z \in Table!Range(Table!ZutexesOf(t)) <=> Queued(z, Table!ZutexesOf(t))
    BY Zenon, <1>2, RangeIs
  <2> QED  BY Zenon, <2>1, <2>2 DEF Table!Joined
<1>5. \A z : Queued(z, Table!ZutexesOf(t)) <=> \E i \in 1..Len(specs[t]) : specs[t][i].zutex = z
  BY Zenon, <1>2 DEF Queued
<1> QED  BY Zenon, <1>3, <1>4, <1>5

\* The match_val of a zutex is the one given with it.
LEMMA MatchIs ==
  ASSUME TableIInv, NEW t \in Guests, NEW i \in 1..Len(specs[t])
  PROVE  /\ Table!MatchOf(t, specs[t][i].zutex) = specs[t][i].match_val
         /\ specs[t][i].match_val \in Table!Word /\ specs[t][i].zutex \in Addresses
<1> DEFINE z == specs[t][i].zutex
           R == Table!Range(specs[t])
           s == CHOOSE s \in R : s.zutex = z
<1>1. specs[t] \in Seq(Table!Spec1)
  BY Zenon DEF TableIInv, TableTypes
<1>2. /\ Len(Table!ZutexesOf(t)) = Len(specs[t])
      /\ \A j \in 1..Len(specs[t]) : Table!ZutexesOf(t)[j] = specs[t][j].zutex
  BY Zenon, <1>1, ZutexesOfSeq
<1>3. \A e : e \in R <=> \E j \in 1..Len(specs[t]) : specs[t][j] = e
  BY Zenon, <1>1, RangeIs DEF Queued
<1>4. s \in R /\ s.zutex = z
  <2> HIDE DEF R, z
  <2>1. specs[t][i] \in R /\ specs[t][i].zutex = z
    BY Zenon, <1>3 DEF z
  <2> QED  BY Zenon, <2>1
<1>5. PICK j \in 1..Len(specs[t]) : specs[t][j] = s
  BY Zenon, <1>3, <1>4
<1>6. i = j
  <2>1. Distinct(Table!ZutexesOf(t))
    BY Zenon DEF TableIInv, SpecsOK
  <2>2. Table!ZutexesOf(t)[i] = Table!ZutexesOf(t)[j]
    BY Zenon, <1>2, <1>4, <1>5
  <2> QED  BY Zenon, <2>1, <2>2, <1>2 DEF Distinct
<1>7. Table!MatchOf(t, z) = specs[t][i].match_val
  BY Zenon, <1>5, <1>6 DEF Table!MatchOf
<1>8. specs[t][i] \in Table!Spec1
  BY <1>1
<1>9. specs[t][i].match_val \in Table!Word /\ specs[t][i].zutex \in Addresses
  BY <1>8 DEF Table!Spec1
<1> QED  BY Zenon, <1>7, <1>9

\* A step that leaves a thread's joined zutexes and specs alone leaves its wait.
LEMMA SameWait ==
  ASSUME NEW u, Table!Joined(u)' = Table!Joined(u),
         specs'[u] = specs[u] \/ Table!Joined(u) = {}
  PROVE  Waited(u)' = Waited(u)
<1>1. CASE specs'[u] = specs[u]
  <2>1. \A z : Table!MatchOf(u, z)' = Table!MatchOf(u, z)
    BY Zenon, <1>1 DEF Table!MatchOf, Table!Range
  <2> QED  BY Zenon, <2>1 DEF Waited
<1>2. CASE Table!Joined(u) = {}
  BY <1>2 DEF Waited
<1> QED  BY Zenon, <1>1, <1>2

\* Nor do others, when neither its place nor its specs change.
LEMMA OtherWaits ==
  ASSUME NEW u, specs'[u] = specs[u], idx'[u] = idx[u], zpc'[u] = zpc[u],
         u \in Table!Sleeping' <=> u \in Table!Sleeping
  PROVE  Waited(u)' = Waited(u)
<1>1. Table!Joined(u)' = Table!Joined(u)
  BY Zenon DEF Table!Joined, Table!ZutexesOf, Table!Range
<1> QED  BY Zenon, <1>1, SameWait

\* A step of one thread is an ABI step of it, or none, when it says so of what
\* that thread waits for.
LEMMA WaitsOfOne ==
  ASSUME NEW t \in Guests, \A u \in Guests : u # t => Waited(u)' = Waited(u)
  PROVE  \A s : Waited(t)' = s => Waits' = [Waits EXCEPT ![t] = s]
<1>1. Waits' = [u \in Guests |-> Waited(u)']
  BY Zenon DEF Waits
<1> QED  BY Zenon, <1>1 DEF Waits

\* A step that changes no wait, word or sleeper is invisible at the ABI
\* (pal_zutex.h:27-108).
LEMMA WaitsStay ==
  ASSUME \A u \in Guests : Waited(u)' = Waited(u), UNCHANGED mem,
         Table!Sleeping' = Table!Sleeping
  PROVE  UNCHANGED Table!ABI!zvars
<1>1. Waits' = Waits
  BY Zenon DEF Waits
<1> QED  BY Zenon, <1>1 DEF Table!ABI!zvars, Waits, Waited

\* A call, the lock and the return change nothing the ABI speaks of.
LEMMA QuietABI ==
  ASSUME TableIInv, NEW t \in Guests,
         \/ \E zs \in SpecLists : Table!CallWait(t, zs)
         \/ Table!LockTable(t) \/ Table!Return(t)
  PROVE  UNCHANGED Table!ABI!zvars
<1> USE DEF TableIInv
<1>1. /\ zpc[t] # "check" /\ t \notin Table!Sleeping /\ Table!Sleeping' = Table!Sleeping
      /\ UNCHANGED <<mem, idx, zevent>>
      /\ zpc' = [zpc EXCEPT ![t] = "wait"] \/ zpc' = [zpc EXCEPT ![t] = "run"]
            \/ (zpc' = [zpc EXCEPT ![t] = "check"] /\ idx[t] = 1)
      /\ \E s : specs' = [specs EXCEPT ![t] = s]
  <2>1. CASE \E zs \in SpecLists : Table!CallWait(t, zs)
    <3>1. /\ zpc[t] = "run" /\ zpc' = [zpc EXCEPT ![t] = "wait"] /\ UNCHANGED <<mem, idx, zevent>>
          /\ \E s : specs' = [specs EXCEPT ![t] = s]
      BY Zenon, <2>1 DEF Table!CallWait
    <3>2. Table!Sleeping' = Table!Sleeping /\ t \notin Table!Sleeping
      BY Zenon, <3>1 DEF Table!Sleeping, TableTypes
    <3> QED  BY Zenon, <3>1, <3>2
  <2>2. CASE Table!LockTable(t)
    <3>1. /\ zpc[t] = "wait" /\ zpc' = [zpc EXCEPT ![t] = "check"]
          /\ UNCHANGED <<mem, idx, zevent, specs>>
      BY Zenon, <2>2 DEF Table!LockTable
    <3>2. Table!Sleeping' = Table!Sleeping /\ t \notin Table!Sleeping
      BY Zenon, <3>1 DEF Table!Sleeping, TableTypes
    <3>3. idx[t] = 1
      BY Zenon, <3>1 DEF SpecsOK
    <3>4. specs' = [specs EXCEPT ![t] = specs[t]]
      BY Zenon, <3>1 DEF TableTypes
    <3> QED  BY Zenon, <3>1, <3>2, <3>3, <3>4
  <2>3. CASE Table!Return(t)
    <3>1. /\ zpc[t] = "asleep" /\ zevent[t] /\ zpc' = [zpc EXCEPT ![t] = "run"]
          /\ specs' = [specs EXCEPT ![t] = <<>>] /\ UNCHANGED <<mem, idx, zevent>>
      BY Zenon, <2>3 DEF Table!Return
    <3>2. Table!Sleeping' = Table!Sleeping /\ t \notin Table!Sleeping
      BY Zenon, <3>1 DEF Table!Sleeping, TableTypes
    <3> QED  BY Zenon, <3>1, <3>2
  <2> QED  BY Zenon, <2>1, <2>2, <2>3
<1>2. \A u \in Guests : u # t => specs'[u] = specs[u] /\ zpc'[u] = zpc[u]
  BY Zenon, <1>1 DEF TableTypes
<1>3. \A u \in Guests : u # t => Waited(u)' = Waited(u)
  BY Zenon, <1>1, <1>2, OtherWaits
<1>4. Table!Joined(t) = {}
  BY Zenon, <1>1, NotJoined
<1>5. Table!Joined(t)' = {}
  <2>1. CASE zpc'[t] # "check"
    BY Zenon, <2>1, <1>1 DEF Table!Joined
  <2>2. CASE zpc'[t] = "check"
    <3>1. idx'[t] = 1
      BY Zenon, <2>2, <1>1 DEF TableTypes
    <3>2. 1..(idx'[t] - 1) = {}
      BY <3>1
    <3> QED  BY Zenon, <3>2, <2>2 DEF Table!Joined
  <2> QED  BY Zenon, <2>1, <2>2
<1>6. Waited(t)' = Waited(t)
  BY Zenon, <1>4, <1>5, SameWait
<1> QED  BY Zenon, <1>1, <1>3, <1>6, WaitsStay

\* A store is a store.
LEMMA StoreABI ==
  ASSUME TableIInv, TableIInv', NEW t \in Guests, NEW z, NEW n, Table!StoreWord(t, z, n)
  PROVE  Table!ABI!Store
<1>1. /\ zpc[t] = "run" /\ zpc' = [zpc EXCEPT ![t] = "wake"]
      /\ UNCHANGED <<zevent, specs, idx>>
  BY Zenon DEF Table!StoreWord
<1>2. zpc'[t] = "wake" /\ \A u \in Guests : u # t => zpc'[u] = zpc[u]
  BY Zenon, <1>1 DEF TableIInv, TableTypes
<1>3. Table!Sleeping' = Table!Sleeping /\ t \notin Table!Sleeping
  BY Zenon, <1>1, <1>2 DEF Table!Sleeping
<1>4. \A u \in Guests : u # t => Waited(u)' = Waited(u)
  BY Zenon, <1>1, <1>2, <1>3, OtherWaits
<1>5. Table!Joined(t)' = Table!Joined(t)
  BY Zenon, <1>1, <1>2, <1>3 DEF Table!Joined
<1>6. Waited(t)' = Waited(t)
  BY Zenon, <1>1, <1>5, SameWait
<1>7. Waits' = Waits
  BY Zenon, <1>4, <1>6 DEF Waits
<1>8. mem' \in [Addresses -> Table!Word]
  BY Zenon DEF TableIInv, TableTypes
<1> QED  BY Zenon, <1>3, <1>7, <1>8 DEF Table!ABI!Store, Waits, Waited

\* A wait that finds a changed word or a bad address leaves.
LEMMA GiveUpABI ==
  ASSUME TableIInv, NEW t \in Guests, zpc[t] = "check", Table!GiveUp(t)
  PROVE  Table!ABI!Leave(t)
<1>1. /\ zpc' = [zpc EXCEPT ![t] = "run"] /\ specs' = [specs EXCEPT ![t] = <<>>]
      /\ idx' = [idx EXCEPT ![t] = 1] /\ UNCHANGED <<mem, zevent>>
  BY Zenon DEF Table!GiveUp
<1>2. zpc'[t] = "run" /\ \A u \in Guests : u # t => /\ zpc'[u] = zpc[u] /\ specs'[u] = specs[u]
                                                  /\ idx'[u] = idx[u]
  BY Zenon, <1>1 DEF TableIInv, TableTypes
<1>3. Table!Sleeping' = Table!Sleeping /\ t \notin Table!Sleeping
  BY Zenon, <1>1, <1>2 DEF Table!Sleeping
<1>4. \A u \in Guests : u # t => Waited(u)' = Waited(u)
  BY Zenon, <1>2, <1>3, OtherWaits
<1>5. Table!Joined(t)' = {}
  BY Zenon, <1>2, <1>3 DEF Table!Joined
<1>6. Waited(t)' = Table!ABI!NoSpecs
  BY <1>5 DEF Waited, Table!ABI!NoSpecs
<1>7. Waits' = [Waits EXCEPT ![t] = Table!ABI!NoSpecs]
  BY Zenon, <1>4, <1>6, WaitsOfOne
<1> QED  BY Zenon, <1>1, <1>3, <1>7 DEF Table!ABI!Leave, Waits, Waited

\* One that finds the word as expected joins (ZutexTable.cpp:76-101).
LEMMA CheckOneABI ==
  ASSUME TableIInv, NEW t \in Guests, Table!CheckOne(t)
  PROVE  Table!ABI!Next
<1>1. zpc[t] = "check" /\ idx[t] <= Len(specs[t])
  BY Zenon DEF Table!CheckOne
<1>2. CASE Table!GiveUp(t)
  BY Zenon, <1>1, <1>2, GiveUpABI DEF Table!ABI!Next
<1>3. CASE ~Table!GiveUp(t)
  <2> DEFINE i == idx[t]
             z == specs[t][i].zutex
             s == [y \in DOMAIN Waited(t) \cup {z} |-> IF y = z THEN mem[z] ELSE Waited(t)[y]]
  <2>1. /\ mem[z] = specs[t][i].match_val /\ idx' = [idx EXCEPT ![t] = i + 1]
        /\ UNCHANGED <<mem, zevent, zpc, specs>>
    BY Zenon, <1>3 DEF Table!CheckOne
  <2>2. /\ i \in 1..Len(specs[t]) /\ Len(specs[t]) \in Nat /\ i + 1 - 1 = i
        /\ 1..i = (1..(i - 1)) \cup {i}
        /\ \A j \in 1..(i - 1) : j \in 1..Len(specs[t]) /\ j # i
    <3>1. specs[t] \in Seq(Table!Spec1) /\ i \in 1..(Len(specs[t]) + 1)
      BY Zenon DEF TableIInv, TableTypes, SpecsOK
    <3>2. Len(specs[t]) \in Nat
      BY <3>1
    <3> QED  BY <3>1, <3>2, <1>1
  <2>3. /\ Table!MatchOf(t, z) = mem[z] /\ z \in Addresses
    BY Zenon, <2>1, <2>2, MatchIs
  <2>4. idx'[t] = i + 1 /\ \A u \in Guests : u # t => idx'[u] = idx[u]
    BY Zenon, <2>1 DEF TableIInv, TableTypes
  <2>5. Table!Sleeping' = Table!Sleeping /\ t \notin Table!Sleeping
    BY Zenon, <2>1, <1>1 DEF Table!Sleeping
  <2>6. \A u \in Guests : u # t => Waited(u)' = Waited(u)
    BY Zenon, <2>1, <2>4, <2>5, OtherWaits
  <2>7. \A y : y \in Table!Joined(t) <=> \E j \in 1..(i - 1) : specs[t][j].zutex = y
    BY Zenon, <1>1, JoinedIs
  <2>8. \A y : y \in Table!Joined(t)' <=> \E j \in 1..i : specs[t][j].zutex = y
    <3>1. Table!Joined(t)' = {specs[t][j].zutex : j \in 1..(idx'[t] - 1)}
      BY Zenon, <1>1, <2>1 DEF Table!Joined
    <3>2. idx'[t] - 1 = i
      BY <2>2, <2>4
    <3> QED  BY Zenon, <3>1, <3>2
  <2>9. z \notin Table!Joined(t)
    <3>1. SUFFICES ASSUME NEW j \in 1..(i - 1), specs[t][j].zutex = z PROVE FALSE
      BY Zenon, <2>7
    <3>2. /\ Distinct(Table!ZutexesOf(t)) /\ Len(Table!ZutexesOf(t)) = Len(specs[t])
          /\ \A k \in 1..Len(specs[t]) : Table!ZutexesOf(t)[k] = specs[t][k].zutex
      BY Zenon, ZutexesOfSeq DEF TableIInv, TableTypes, SpecsOK
    <3>3. j \in 1..Len(specs[t]) /\ i \in 1..Len(specs[t]) /\ j # i
      BY <2>2
    <3>4. Table!ZutexesOf(t)[j] = Table!ZutexesOf(t)[i]
      BY Zenon, <3>1, <3>2, <3>3
    <3> QED  BY Zenon, <3>2, <3>3, <3>4 DEF Distinct
  <2>10. Table!Joined(t)' = Table!Joined(t) \cup {z}
    <3>1. \A y : (\E j \in 1..i : specs[t][j].zutex = y)
             <=> (\E j \in 1..(i - 1) : specs[t][j].zutex = y) \/ y = z
      BY Zenon, <2>2
    <3> HIDE DEF z, i
    <3> QED  BY Zenon, <3>1, <2>7, <2>8
  <2>11. \A y : Table!MatchOf(t, y)' = Table!MatchOf(t, y)
    BY Zenon, <2>1 DEF Table!MatchOf, Table!Range
  <2>12. Waited(t)' = s
    <3>1. Waited(t)' = [y \in Table!Joined(t)' |-> Table!MatchOf(t, y)']
      BY Zenon DEF Waited
    <3>2. /\ DOMAIN Waited(t) = Table!Joined(t)
          /\ \A y \in Table!Joined(t) : Waited(t)[y] = Table!MatchOf(t, y)
      BY Zenon DEF Waited
    <3> HIDE DEF z, i
    <3> QED  BY Zenon, <3>1, <3>2, <2>3, <2>9, <2>10, <2>11
  <2>13. Waits' = [Waits EXCEPT ![t] = s]
    <3> HIDE DEF s
    <3> QED  BY Zenon, <2>6, <2>12, WaitsOfOne
  <2>14. Waits[t] = Waited(t)
    BY Zenon DEF Waits
  <2>15. z \notin DOMAIN Waited(t)
    BY Zenon, <2>9 DEF Waited
  <2> HIDE DEF z, i
  <2>16. Table!ABI!Join(t, z)
    <3>1. Waits' = [Waits EXCEPT ![t] =
             [y \in DOMAIN Waits[t] \cup {z} |-> IF y = z THEN mem[z] ELSE Waits[t][y]]]
      BY Zenon, <2>13, <2>14
    <3>2. z \notin DOMAIN Waits[t]
      BY Zenon, <2>14, <2>15
    <3> QED  BY Zenon, <2>1, <2>5, <3>1, <3>2 DEF Table!ABI!Join, Waits, Waited
  <2> QED  BY Zenon, <2>3, <2>16 DEF Table!ABI!Next
<1> QED  BY Zenon, <1>2, <1>3

\* One that found them all as expected sleeps (ZutexTable.cpp:103-117).
LEMMA EnqueueABI ==
  ASSUME TableIInv, TableIInv', NEW t \in Guests, Table!Enqueue(t)
  PROVE  Table!ABI!Next
<1>1. /\ zpc[t] = "check" /\ idx[t] > Len(specs[t]) /\ zpc' = [zpc EXCEPT ![t] = "asleep"]
      /\ idx' = [idx EXCEPT ![t] = 1] /\ UNCHANGED <<mem, specs>>
  BY Zenon DEF Table!Enqueue
<1>2. Table!Sleeping' = Table!Sleeping \cup {t} /\ t \notin Table!Sleeping
  BY Zenon, EnqueueKeeps
<1>3. \A u \in Guests : u # t => zpc'[u] = zpc[u] /\ idx'[u] = idx[u]
  BY Zenon, <1>1 DEF TableIInv, TableTypes
<1>4. \A u \in Guests : u # t => Waited(u)' = Waited(u)
  BY Zenon, <1>1, <1>2, <1>3, OtherWaits
<1>5. idx[t] - 1 = Len(specs[t])
  <2>1. specs[t] \in Seq(Table!Spec1) /\ idx[t] \in 1..(Len(specs[t]) + 1)
    BY Zenon DEF TableIInv, TableTypes, SpecsOK
  <2>2. Len(specs[t]) \in Nat
    BY <2>1
  <2> QED  BY <2>1, <2>2, <1>1
<1>6. \A z : z \in Table!Joined(t) <=> \E i \in 1..Len(specs[t]) : specs[t][i].zutex = z
  <2>1. \A z : z \in Table!Joined(t) <=> \E i \in 1..(idx[t] - 1) : specs[t][i].zutex = z
    BY Zenon, <1>1, JoinedIs
  <2> QED  BY <1>5, <2>1
<1>7. Table!Joined(t)' = Table!Joined(t)
  <2>1. \A z : z \in Table!Range(Table!ZutexesOf(t)) <=> Queued(z, Table!ZutexesOf(t))
    BY Zenon, ZutexesOfSeq, RangeIs DEF TableIInv, TableTypes
  <2>2. Table!Joined(t)' = Table!Range(Table!ZutexesOf(t))
    <3>1. t \in Table!Sleeping' /\ zpc'[t] # "check"
      BY Zenon, <1>1, <1>2 DEF TableIInv, TableTypes
    <3> QED  BY Zenon, <3>1, <1>1 DEF Table!Joined, Table!Range, Table!ZutexesOf
  <2>3. \A z : Queued(z, Table!ZutexesOf(t))
                 <=> \E i \in 1..Len(specs[t]) : specs[t][i].zutex = z
    BY Zenon, JoinedIs
  <2> QED  BY Zenon, <1>6, <2>1, <2>2, <2>3
<1>8. Waited(t)' = Waited(t)
  BY Zenon, <1>1, <1>7, SameWait
<1>9. Waited(t) \in Table!ABI!WaitSpecs
  <2>1. \A z \in Table!Joined(t) : Table!MatchOf(t, z) \in Table!Word /\ z \in Addresses
    <3> SUFFICES ASSUME NEW z \in Table!Joined(t)
                 PROVE  Table!MatchOf(t, z) \in Table!Word /\ z \in Addresses
      BY Zenon
    <3>1. PICK i \in 1..Len(specs[t]) : specs[t][i].zutex = z
      BY Zenon, <1>6
    <3>2. /\ Table!MatchOf(t, specs[t][i].zutex) = specs[t][i].match_val
          /\ specs[t][i].match_val \in Table!Word /\ specs[t][i].zutex \in Addresses
      BY Zenon, MatchIs
    <3> QED  BY <3>1, <3>2
  <2>2. Table!Joined(t) \in SUBSET Addresses
    BY Zenon, <2>1
  <2>3. Waited(t) \in [Table!Joined(t) -> Table!Word]
    BY Zenon, <2>1 DEF Waited
  <2> QED  BY Zenon, <2>2, <2>3 DEF Table!ABI!WaitSpecs
<1>10. Waits' = [Waits EXCEPT ![t] = Waited(t)] /\ Waits[t] = Waited(t)
  <2>1. Waits' = [Waits EXCEPT ![t] = Waited(t)]
    BY Zenon, <1>4, <1>8, WaitsOfOne
  <2> QED  BY Zenon, <2>1 DEF Waits
<1> DEFINE s == Waits[t]
<1>11. Table!ABI!Sleep(t, s)
  <2>1. Waits' = [Waits EXCEPT ![t] = s]
    BY Zenon, <1>10
  <2>2. /\ DOMAIN Waits[t] \subseteq DOMAIN s
        /\ \A z \in DOMAIN s : s[z] = IF z \in DOMAIN Waits[t] THEN Waits[t][z] ELSE mem[z]
    BY Zenon
  <2> QED  BY Zenon, <1>1, <1>2, <2>1, <2>2 DEF Table!ABI!Sleep, Waits, Waited
<1>12. s \in Table!ABI!WaitSpecs
  BY Zenon, <1>9, <1>10
<1> HIDE DEF s
<1> QED  BY Zenon, <1>11, <1>12 DEF Table!ABI!Next

\* A wake is a wake of those it wakes (ZutexTable.cpp:170-261).
LEMMA WakeCallABI ==
  ASSUME TableIInv, NEW t \in Guests, Table!WakeCall(t)
  PROVE  Table!ABI!Next
<1>1. PICK W, z : WokenFrom(W, z)
  BY Zenon, WakeCallKeeps
<1>2. /\ z \in Addresses /\ \A u \in W : u \in Table!Sleeping /\ Queued(z, Table!ZutexesOf(u))
      /\ Table!Sleeping' = Table!Sleeping \ W
      /\ table_mutex = {} /\ UNCHANGED <<mem, table_mutex, specs, idx>>
  BY Zenon, <1>1 DEF WokenFrom
<1>3. zpc' = [zpc EXCEPT ![t] = "run"] /\ zpc[t] = "wake"
  BY Zenon DEF Table!WakeCall
<1>4. W \in SUBSET Guests
  BY Zenon, <1>2 DEF Table!Sleeping
<1>5. /\ \A u \in Guests : zpc[u] # "check" /\ zpc'[u] # "check"
  <2>1. \A u \in Guests : zpc[u] # "check"
    BY Zenon, <1>2 DEF TableIInv, MutexHeld
  <2> QED  BY Zenon, <2>1, <1>3 DEF TableIInv, TableTypes
<1>6. ASSUME NEW u \in Guests
      PROVE  Waited(u)' = IF u \in W THEN Table!ABI!NoSpecs ELSE Waited(u)
  <2>1. CASE u \in Table!Sleeping'
    <3>1. u \in Table!Sleeping /\ u \notin W
      BY Zenon, <2>1, <1>2
    <3>2. Table!Joined(u)' = Table!Joined(u)
      BY Zenon, <2>1, <3>1, <1>2, <1>5 DEF Table!Joined, Table!ZutexesOf, Table!Range
    <3>3. Waited(u)' = Waited(u)
      BY Zenon, <3>2, <1>2, SameWait
    <3> QED  BY Zenon, <3>1, <3>3
  <2>2. CASE u \notin Table!Sleeping'
    <3>1. Table!Joined(u)' = {}
      BY Zenon, <2>2, <1>5 DEF Table!Joined
    <3>2. Waited(u)' = Table!ABI!NoSpecs
      BY <3>1 DEF Waited, Table!ABI!NoSpecs
    <3>3. u \notin W => Waited(u) = Table!ABI!NoSpecs
      BY Zenon, <2>2, <1>2, <1>5, NotJoined
    <3> QED  BY Zenon, <3>2, <3>3
  <2> QED  BY Zenon, <2>1, <2>2
<1>7. Waits' = [u \in Guests |-> IF u \in W THEN Table!ABI!NoSpecs ELSE Waits[u]]
  <2>1. Waits' = [u \in Guests |-> Waited(u)'] /\ \A u \in Guests : Waits[u] = Waited(u)
    BY Zenon DEF Waits
  <2> QED  BY Zenon, <2>1, <1>6
<1>8. \A u \in W : z \in DOMAIN Waits[u]
  <2>1. \A u \in W : z \in Table!Joined(u)
    BY Zenon, <1>2, <1>4, JoinedIs
  <2> QED  BY Zenon, <2>1, <1>4 DEF Waits, Waited
<1>9. W \in SUBSET Table!ABI!Waiters(z)
  BY Zenon, <1>4, <1>8 DEF Table!ABI!Waiters, Waits, Waited
<1>10. Table!ABI!Wake(z, W)
  BY Zenon, <1>2, <1>7, <1>9 DEF Table!ABI!Wake, Waits, Waited
<1> QED  BY Zenon, <1>2, <1>4, <1>10 DEF Table!ABI!Next

\* A new table is the ABI's first state: nobody waits (ZutexTable.cpp:4-14).
LEMMA TableInitABI == Table!Init => Table!ABI!Init
<1> SUFFICES ASSUME Table!Init PROVE Table!ABI!Init
  BY Zenon
<1>1. TableIInv
  BY Zenon, TableInit
<1>2. Table!Sleeping = {} /\ \A t \in Guests : zpc[t] # "check"
  BY Zenon DEF Table!Init, Table!Sleeping
<1>3. \A t \in Guests : Waited(t) = Table!ABI!NoSpecs
  BY Zenon, <1>2, NotJoined
<1>4. Waits = [t \in Guests |-> Table!ABI!NoSpecs]
  BY Zenon, <1>3 DEF Waits
<1>5. mem \in [Addresses -> Table!Word]
  BY Zenon, <1>1 DEF TableIInv, TableTypes
<1> QED  BY Zenon, <1>2, <1>4, <1>5 DEF Table!ABI!Init, Waits, Waited

\* Every step of the table is a step the ABI allows, or none.
LEMMA TableStepABI ==
    TableIInv /\ TableIInv' /\ [Table!Next]_(Table!vars)
       => [Table!ABI!Next]_(Table!ABI!zvars)
<1> SUFFICES ASSUME TableIInv, TableIInv', [Table!Next]_(Table!vars)
             PROVE  Table!ABI!Next \/ UNCHANGED Table!ABI!zvars
  BY Zenon
<1>1. CASE UNCHANGED Table!vars
  <2>1. UNCHANGED <<mem, zevent, zpc, specs, idx>>
    BY Zenon, <1>1 DEF Table!vars
  <2>2. Table!Sleeping' = Table!Sleeping
    BY Zenon, <2>1 DEF Table!Sleeping
  <2>3. \A u \in Guests : Waited(u)' = Waited(u)
    BY Zenon, <2>1, <2>2, OtherWaits
  <2> QED  BY Zenon, <2>1, <2>2, <2>3, WaitsStay
<1>2. ASSUME NEW t \in Guests,
             \/ \E zs \in SpecLists : Table!CallWait(t, zs)
             \/ Table!LockTable(t) \/ Table!Return(t)
      PROVE  UNCHANGED Table!ABI!zvars
  BY Zenon, <1>2, QuietABI
<1>3. ASSUME NEW t \in Guests, NEW z, NEW n, Table!StoreWord(t, z, n)
      PROVE  Table!ABI!Next
  BY Zenon, <1>3, StoreABI DEF Table!ABI!Next
<1>4. ASSUME NEW t \in Guests,
             Table!CheckOne(t) \/ Table!Enqueue(t) \/ Table!WakeCall(t)
      PROVE  Table!ABI!Next
  BY Zenon, <1>4, CheckOneABI, EnqueueABI, WakeCallABI
<1> QED  BY Zenon, <1>1, <1>2, <1>3, <1>4 DEF Table!Next, Table!Step

\* The monitor's zutexes are the ABI's (pal_zutex.h:27-108), for any threads,
\* zutexes and waits that name each zutex once: a thread sleeps only if every
\* word still held the value it expects when it was compared, with no wake in
\* between, and a wake wakes only threads that wait on its zutex.
THEOREM ZutexTableIsZutex == Table!Spec => ZutexABI
<1>1. Table!Spec => []TableIInv
  BY TableInit, TableNext, PTL DEF Table!Spec
<1> QED
  BY <1>1, TableInitABI, TableStepABI, PTL
     DEF Table!Spec, ZutexABI, Table!ZutexABI, Table!ABI!Spec
=============================================================================
