----------------------------- MODULE ZutexTable -----------------------------
(***************************************************************************)
(* The KVM monitor's zutexes (monitors/linux_kvm/monitor/ZutexTable.cpp,   *)
(* ZutexQueue.cpp, ZutexWaiter.cpp): a table of queues of waiters, one     *)
(* queue per zutex that has a waiter, and in each waiter the list of the   *)
(* queues it is in.  The table mutex is held across the comparison of the  *)
(* words and the enqueueing, but the guest writes the words without it.    *)
(***************************************************************************)
EXTENDS Naturals, Sequences

CONSTANTS Threads,    \* guest threads, each with its ZutexWaiter
          Zutexes,    \* guest addresses used as zutexes
          Unmapped,   \* those that are not in any memory slot
          SpecLists,  \* sequences of zutexes a thread may wait on
          WakeCounts, \* for each zutex, the values of n_wake its users give
          Words       \* number of values of a zutex word (its width)

VARIABLES mem,        \* the zutex words, in guest memory
          table,      \* the hash table: a queue of waiters for some zutexes
          waiting_on, \* each waiter's waiting_on_queues
          event,      \* each waiter's event_is_set
          mutex,      \* holder of the table's mutex, or {}
          pc,         \* where each thread is
          specs,      \* the ZutexWaitSpecs of its wait
          idx,        \* the loop index of wait
          wake_arg    \* the zutex and n_wake of its wake

vars == <<mem, table, waiting_on, event, mutex, pc, specs, idx, wake_arg>>

Word == 0..(Words - 1)
Spec1 == [zutex : Zutexes, match_val : Word]

TypeOK == /\ mem \in [Zutexes -> Word]
          /\ DOMAIN table \subseteq Zutexes
          /\ \A z \in DOMAIN table : table[z] \in Seq(Threads)
          /\ waiting_on \in [Threads -> Seq(Zutexes)]
          /\ event \in [Threads -> BOOLEAN]
          /\ mutex = {} \/ \E t \in Threads : mutex = {t}
          /\ pc \in [Threads -> {"run", "wait", "check", "asleep", "wake"}]
          /\ specs \in [Threads -> Seq(Spec1)]
          /\ idx \in [Threads -> Nat]
          /\ wake_arg \in [Threads -> [zutex : Zutexes, n : Nat]]

NoWake == [zutex |-> CHOOSE z \in Zutexes : TRUE, n |-> 0]

Init == /\ mem = [z \in Zutexes |-> 0]
        /\ table = [z \in {} |-> <<>>]
        /\ waiting_on = [t \in Threads |-> <<>>]
        /\ event = [t \in Threads |-> FALSE]
        /\ mutex = {}
        /\ pc = [t \in Threads |-> "run"]
        /\ specs = [t \in Threads |-> <<>>]
        /\ idx = [t \in Threads |-> 1]
        /\ wake_arg = [t \in Threads |-> NoWake]

-----------------------------------------------------------------------------
\* The guest reads some zutex words and asks to sleep on them.
CallWait(t, zs) ==
    /\ pc[t] = "run"
    /\ specs' = [specs EXCEPT ![t] =
                    [i \in DOMAIN zs |-> [zutex |-> zs[i], match_val |-> mem[zs[i]]]]]
    /\ pc' = [pc EXCEPT ![t] = "wait"]
    /\ UNCHANGED <<mem, table, waiting_on, event, mutex, idx, wake_arg>>

\* ZutexTable::wait: _lock()
LockTable(t) ==
    /\ pc[t] = "wait"
    /\ mutex = {}
    /\ mutex' = mutex \cup {t}
    /\ pc' = [pc EXCEPT ![t] = "check"]
    /\ UNCHANGED <<mem, table, waiting_on, event, specs, idx, wake_arg>>

\* The call returns: an unmapped zutex fails the safety check, a changed
\* word is not slept on; either way the mutex is released.
GiveUp(t) ==
    /\ mutex' = mutex \ {t}
    /\ pc' = [pc EXCEPT ![t] = "run"]
    /\ specs' = [specs EXCEPT ![t] = <<>>]
    /\ idx' = [idx EXCEPT ![t] = 1]
    /\ UNCHANGED <<mem, table, waiting_on, event, wake_arg>>

\* Mutant of CheckOne: the loop stops after the first spec.
CheckOne_first(t) ==
    /\ pc[t] = "check" /\ idx[t] <= Len(specs[t])
    /\ LET s == specs[t][idx[t]] IN
       \/ /\ s.zutex \in Unmapped \/ mem[s.zutex] /= s.match_val
          /\ GiveUp(t)
       \/ /\ s.zutex \notin Unmapped /\ mem[s.zutex] = s.match_val
          /\ idx' = [idx EXCEPT ![t] = Len(specs[t]) + 1]
          /\ UNCHANGED <<mem, table, waiting_on, event, mutex, pc, specs, wake_arg>>

\* One turn of the first loop of wait: compare specs[i] with memory.
CheckOne(t) ==
    /\ pc[t] = "check" /\ idx[t] <= Len(specs[t])
    /\ LET s == specs[t][idx[t]] IN
       \/ /\ s.zutex \in Unmapped \/ mem[s.zutex] /= s.match_val
          /\ GiveUp(t)
       \/ /\ s.zutex \notin Unmapped /\ mem[s.zutex] = s.match_val
          /\ idx' = [idx EXCEPT ![t] = @ + 1]
          /\ UNCHANGED <<mem, table, waiting_on, event, mutex, pc, specs, wake_arg>>

Range(s) == {s[i] : i \in DOMAIN s}

QueueOf(tab, z) == IF z \in DOMAIN tab THEN tab[z] ELSE <<>>

\* _get_or_create_queue(z)->push(w), for each z of the list zs
Push(tab, zs, w) ==
    LET pushed[i \in 0..Len(zs)] ==
           IF i = 0 THEN tab
           ELSE [z \in DOMAIN pushed[i - 1] \cup {zs[i]} |->
                    IF z = zs[i] THEN Append(QueueOf(pushed[i - 1], z), w)
                    ELSE pushed[i - 1][z]]
    IN pushed[Len(zs)]

ZutexesOf(t) == [i \in DOMAIN specs[t] |-> specs[t][i].zutex]

\* Mutant of Enqueue: the event of the previous wait is not reset.
Enqueue_no_reset(t) ==
    /\ pc[t] = "check" /\ idx[t] > Len(specs[t])
    /\ table' = Push(table, ZutexesOf(t), t)
    /\ waiting_on' = [waiting_on EXCEPT ![t] = @ \o ZutexesOf(t)]
    /\ mutex' = mutex \ {t}
    /\ pc' = [pc EXCEPT ![t] = "asleep"]
    /\ idx' = [idx EXCEPT ![t] = 1]
    /\ UNCHANGED <<mem, event, specs, wake_arg>>

\* The second loop of wait: enter every queue, reset the event, unlock.
Enqueue(t) ==
    /\ pc[t] = "check" /\ idx[t] > Len(specs[t])
    /\ table' = Push(table, ZutexesOf(t), t)
    /\ waiting_on' = [waiting_on EXCEPT ![t] = @ \o ZutexesOf(t)]
    /\ event' = [event EXCEPT ![t] = FALSE]
    /\ mutex' = mutex \ {t}
    /\ pc' = [pc EXCEPT ![t] = "asleep"]
    /\ idx' = [idx EXCEPT ![t] = 1]
    /\ UNCHANGED <<mem, specs, wake_arg>>

\* ZutexWaiter::wait: event->wait() returns once the event is set.
Return(t) ==
    /\ pc[t] = "asleep"
    /\ event[t]
    /\ pc' = [pc EXCEPT ![t] = "run"]
    /\ specs' = [specs EXCEPT ![t] = <<>>]
    /\ UNCHANGED <<mem, table, waiting_on, event, mutex, idx, wake_arg>>

\* The guest (or the host, for an alarm) changes a word, and is to wake it.
StoreWord(t, z, n) ==
    /\ pc[t] = "run"
    /\ mem' = [mem EXCEPT ![z] = (@ + 1) % Words]
    /\ wake_arg' = [wake_arg EXCEPT ![t] = [zutex |-> z, n |-> n]]
    /\ pc' = [pc EXCEPT ![t] = "wake"]
    /\ UNCHANGED <<table, waiting_on, event, mutex, specs, idx>>

\* How many waiters wake(z, n) pops from the queue of z.
Popped(z, n) == LET len == Len(QueueOf(table, z)) IN IF n < len THEN n ELSE len

\* ZutexQueue::remove: the first entry of w, which must be there.
remove(q, w) ==
    IF w \notin Range(q) THEN q
    ELSE LET i == CHOOSE i \in DOMAIN q : q[i] = w /\ \A j \in 1..(i - 1) : q[j] /= w
         IN [k \in 1..(Len(q) - 1) |-> q[IF k < i THEN k ELSE k + 1]]

\* A popped waiter leaves every queue of its list but z's, from which it was
\* popped: one removal for each entry of the list.
LeaveQueues(tab, w, z) ==
    LET list == waiting_on[w]
        left[i \in 0..Len(list)] ==
           IF i = 0 THEN tab
           ELSE IF list[i] = z THEN left[i - 1]
           ELSE [left[i - 1] EXCEPT ![list[i]] = remove(@, w)]
    IN left[Len(list)]

\* So do the waiters popped, in the order of the private_wake_queue.
LeaveAll(tab, popped, z) ==
    LET left[k \in 0..Len(popped)] ==
           IF k = 0 THEN tab ELSE LeaveQueues(left[k - 1], popped[k], z)
    IN left[Len(popped)]

\* The queues that removing the woken waiters has emptied.
empty_zq_set(tab, woken) ==
    {y \in UNION {Range(waiting_on[w]) : w \in woken} : tab[y] = <<>>}

\* ZutexTable::wake, under the mutex: pop up to n waiters, take each out of
\* its other queues, signal its event, then free the queues this emptied.
WakeCall(t) ==
    LET z == wake_arg[t].zutex
        zq == QueueOf(table, z)
        n == Popped(z, wake_arg[t].n)
        popped == SubSeq(zq, 1, n)
        woken == Range(popped)
        left == LeaveAll([table EXCEPT ![z] = SubSeq(zq, n + 1, Len(zq))], popped, z)
    IN /\ pc[t] = "wake"
       /\ mutex = {}
       /\ \/ /\ z \notin DOMAIN table
             /\ UNCHANGED <<table, waiting_on, event>>
          \/ /\ z \in DOMAIN table
             /\ table' = [y \in DOMAIN left \ empty_zq_set(left, woken) |-> left[y]]
             /\ waiting_on' = [u \in Threads |-> IF u \in woken THEN <<>> ELSE waiting_on[u]]
             /\ event' = [u \in Threads |-> u \in woken \/ event[u]]
       /\ wake_arg' = [wake_arg EXCEPT ![t] = NoWake]
       /\ pc' = [pc EXCEPT ![t] = "run"]
       /\ UNCHANGED <<mem, mutex, specs, idx>>

Step(t) == LockTable(t) \/ CheckOne(t) \/ Enqueue(t) \/ Return(t) \/ WakeCall(t)

Next == \E t \in Threads :
           \/ \E zs \in SpecLists : CallWait(t, zs)
           \/ \E z \in Zutexes \ Unmapped : \E n \in WakeCounts[z] : StoreWord(t, z, n)
           \/ Step(t)

Spec == Init /\ [][Next]_vars

-----------------------------------------------------------------------------
\* Threads the monitor has put to sleep and not yet woken.
Sleeping == {t \in Threads : pc[t] = "asleep" /\ ~event[t]}

\* The book-keeping is right whoever waits and wakes.  A waiter is in a queue
\* just when the queue is in the waiter's list, and then once
\* (ZutexQueue.cpp:48 asserts a part of this); exactly the sleeping threads
\* are in queues, in one for each zutex they asked for, so nobody sleeps where
\* no wake can find them and no wake is spent on a running thread
\* (ZutexTable.cpp:103-111, 209-253); and no empty queue stays in the table, so
\* it does not grow without bound and the asserts of _free_zq and ~ZutexQueue
\* hold (ZutexTable.cpp:44-57, 242-256).
TableConsistent ==
    /\ TypeOK
    /\ \A z \in DOMAIN table : \A i, j \in DOMAIN table[z] : table[z][i] = table[z][j] => i = j
    /\ \A t \in Threads, z \in Zutexes :
          t \in Range(QueueOf(table, z)) <=> z \in Range(waiting_on[t])
    /\ \A t \in Threads : waiting_on[t] = IF t \in Sleeping THEN ZutexesOf(t) ELSE <<>>
    /\ \A z \in DOMAIN table : table[z] /= <<>>

-----------------------------------------------------------------------------
Joined(t) == IF pc[t] = "check" THEN {specs[t][i].zutex : i \in 1..(idx[t] - 1)}
             ELSE IF t \in Sleeping THEN Range(ZutexesOf(t)) ELSE {}

MatchOf(t, z) == (CHOOSE s \in Range(specs[t]) : s.zutex = z).match_val

ABI == INSTANCE Zutex WITH
          Values <- Word,
          waits <- [t \in Threads |-> [z \in Joined(t) |-> MatchOf(t, z)]],
          asleep <- Sleeping

\* The monitor implements the ABI's zutexes (pal_zutex.h:27-108).
ZutexABI == ABI!Spec
=============================================================================
