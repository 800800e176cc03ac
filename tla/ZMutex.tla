------------------------------- MODULE ZMutex -------------------------------
(***************************************************************************)
(* zmutex_lock and zmutex_unlock of the client's synchronization library   *)
(* (toolchains/linux_elf/common/zutex_sync.c): a three-valued word, taken  *)
(* with cmpxchg, whose contended path sleeps on the word as a zutex.       *)
(* Every atomic instruction and every ABI call is one action; any number   *)
(* of threads lock and unlock one mutex.                                   *)
(***************************************************************************)
EXTENDS Naturals

CONSTANT Threads

VARIABLES val,    \* zmutex->val
          pc,     \* where each thread is in lock or unlock
          c,      \* zmutex_lock's local c
          old_val \* atomic_dec's local old_val

vars == <<val, pc, c, old_val>>

\* "idle": outside; "loop", "wait", "asleep", "retry": the do-while of lock;
\* "held": lock returned; "dec", "store", "wake": inside unlock.
PCs == {"idle", "loop", "wait", "asleep", "retry", "held", "dec", "store", "wake"}

TypeOK == /\ val \in 0..2
          /\ pc \in [Threads -> PCs]
          /\ c \in [Threads -> 0..2]
          /\ old_val \in [Threads -> 0..2]

Init == /\ val = 0
        /\ pc = [t \in Threads |-> "idle"]
        /\ c = [t \in Threads |-> 0]
        /\ old_val = [t \in Threads |-> 0]

Goto(t, label) == pc' = [pc EXCEPT ![t] = label]

-----------------------------------------------------------------------------
\* zmutex_lock: if ((c = cmpxchg(&val, 0, 1)) != 0)
LockFast(t) ==
    /\ pc[t] = "idle"
    /\ \/ /\ val = 0
          /\ val' = 1
          /\ Goto(t, "held")
          /\ c' = c
       \/ /\ val /= 0
          /\ c' = [c EXCEPT ![t] = val]
          /\ Goto(t, "loop")
          /\ val' = val
    /\ UNCHANGED old_val

\* if (c==2 || cmpxchg(&val, 1, 2) != 0): on to the wait, or not
MarkContended(t) ==
    /\ pc[t] = "loop"
    /\ \/ /\ c[t] = 2
          /\ Goto(t, "wait")
          /\ val' = val
       \/ /\ c[t] /= 2
          /\ val' = IF val = 1 THEN 2 ELSE val
          /\ Goto(t, IF val /= 0 THEN "wait" ELSE "retry")
    /\ UNCHANGED <<c, old_val>>

\* Mutant of SimpleWait: the wait does not compare the word with 2.
SimpleWait_blind(t) ==
    /\ pc[t] = "wait"
    /\ Goto(t, "asleep")
    /\ UNCHANGED <<val, c, old_val>>

\* zutex_simple_wait(&val, 2): sleep only while the word still is 2
SimpleWait(t) ==
    /\ pc[t] = "wait"
    /\ Goto(t, IF val = 2 THEN "asleep" ELSE "retry")
    /\ UNCHANGED <<val, c, old_val>>

\* Mutant of Retry: a woken thread takes the mutex as uncontended.
Retry_one(t) ==
    /\ pc[t] = "retry"
    /\ \/ /\ val = 0
          /\ val' = 1
          /\ Goto(t, "held")
          /\ c' = c
       \/ /\ val /= 0
          /\ c' = [c EXCEPT ![t] = val]
          /\ Goto(t, "loop")
          /\ val' = val
    /\ UNCHANGED old_val

\* while ((c = cmpxchg(&val, 0, 2)) != 0)
Retry(t) ==
    /\ pc[t] = "retry"
    /\ \/ /\ val = 0
          /\ val' = 2
          /\ Goto(t, "held")
          /\ c' = c
       \/ /\ val /= 0
          /\ c' = [c EXCEPT ![t] = val]
          /\ Goto(t, "loop")
          /\ val' = val
    /\ UNCHANGED old_val

\* zmutex_unlock: atomic_dec reads the word ...
ReadOld(t) ==
    /\ pc[t] = "held"
    /\ old_val' = [old_val EXCEPT ![t] = val]
    /\ Goto(t, "dec")
    /\ UNCHANGED <<val, c>>

\* Mutant of Decrement: unlock stores 0 even when nobody contended.
Decrement_always_store(t) ==
    /\ pc[t] = "dec"
    /\ val = old_val[t]
    /\ val' = old_val[t] - 1
    /\ Goto(t, "store")
    /\ UNCHANGED <<c, old_val>>

\* Mutant of Decrement: read and write are not one atomic instruction.
Decrement_torn(t) ==
    /\ pc[t] = "dec"
    /\ val' = old_val[t] - 1
    /\ Goto(t, IF old_val[t] /= 1 THEN "store" ELSE "idle")
    /\ UNCHANGED <<c, old_val>>

\* ... and swaps in one less, going round again if the word has changed;
\* a word that was 1 had no contender and unlock is done
Decrement(t) ==
    /\ pc[t] = "dec"
    /\ \/ /\ val = old_val[t]
          /\ val' = old_val[t] - 1
          /\ Goto(t, IF old_val[t] /= 1 THEN "store" ELSE "idle")
       \/ /\ val /= old_val[t]
          /\ Goto(t, "held")
          /\ val' = val
    /\ UNCHANGED <<c, old_val>>

\* zmutex->val = 0
StoreZero(t) ==
    /\ pc[t] = "store"
    /\ val' = 0
    /\ Goto(t, "wake")
    /\ UNCHANGED <<c, old_val>>

asleep == {t \in Threads : pc[t] = "asleep"}

\* zutex_simple_wake(&val): one sleeper, if there is one
SimpleWake(t) ==
    /\ pc[t] = "wake"
    /\ \/ /\ asleep = {}
          /\ Goto(t, "idle")
       \/ \E u \in asleep :
             pc' = [pc EXCEPT ![t] = "idle", ![u] = "retry"]
    /\ UNCHANGED <<val, c, old_val>>

Step(t) == \/ LockFast(t) \/ MarkContended(t) \/ SimpleWait(t) \/ Retry(t)
           \/ ReadOld(t) \/ Decrement(t) \/ StoreZero(t) \/ SimpleWake(t)

Next == \E t \in Threads : Step(t)

Spec == Init /\ [][Next]_vars

\* The host runs every runnable thread, and a thread that holds the mutex
\* releases it; a thread need not lock the mutex again.
Fairness == \A t \in Threads : WF_vars(pc[t] /= "idle" /\ Step(t))
-----------------------------------------------------------------------------
\* A thread owns the mutex from the cmpxchg that takes it to the instruction
\* that lets another cmpxchg from 0 succeed.
Owners == {t \in Threads : pc[t] \in {"held", "dec", "store"}}

\* At most one thread owns the mutex, through every interleaving of the
\* decrement loop of unlock with the cmpxchgs of lock (zutex_sync.c:74-95).
MutualExclusion == \A t, u \in Owners : t = u

\* The word is 0 exactly while the mutex is free: no interleaving of
\* atomic_dec, the store of 0 and the cmpxchgs leaves a free mutex looking
\* taken, or a taken one free (zutex_sync.c:77-92).
WordTellsOwnership == (val = 0) <=> (Owners = {})

\* Threads that are about to look at the word again, or to wake a sleeper.
Contenders == {t \in Threads : pc[t] \in {"loop", "wait", "retry"}}
Wakers == {t \in Threads : pc[t] \in {"store", "wake"}}

\* No sleeper is forgotten: while a thread sleeps, either the word says
\* "contended", so the owner will wake someone, or a thread is on its way
\* that will wake a sleeper or mark the word (zutex_sync.c:79-84, 90-94).
NoLostWake == asleep /= {} => val = 2 \/ Contenders /= {} \/ Wakers /= {}

\* If some thread is waiting for the mutex, some thread gets it: the mutex
\* never comes to rest with sleepers behind it (zutex_sync.c:74-95).
Progress == (asleep \cup Contenders /= {}) ~> (\E t \in Threads : pc[t] = "held")

-----------------------------------------------------------------------------
\* The sleeping and waking above is the ABI's, for the one zutex "m".
ABI == INSTANCE Zutex WITH
          Zutexes <- {"m"},
          Values <- 0..2,
          mem <- [z \in {"m"} |-> val],
          waits <- [t \in Threads |->
                       [z \in IF pc[t] = "asleep" THEN {"m"} ELSE {} |-> 2]]

\* The library sleeps and wakes only as the ABI allows (pal_zutex.h:27-108):
\* it falls asleep only while the word is the value it saw, and only a wake
\* of the word makes it runnable.
ZutexABI == ABI!Spec
=============================================================================
