------------------------------ MODULE Locks -------------------------------
(***************************************************************************)
(* The locks of the client's library: a semaphore that threads wait for,   *)
(* with or without a timeout (SysSem), and a mutex with an owner, a        *)
(* sleeper and a newcomer (ZMutex).  The two share no state; a behaviour   *)
(* is one of one of them, and the fairness of the other, which nobody      *)
(* uses, asks for nothing.  Their names are not those of ZEvent.           *)
(***************************************************************************)
EXTENDS Naturals

CONSTANTS Users, Nobody, MaxSignals

ASSUME LocksAssumption == Nobody \notin Users /\ MaxSignals \in Nat

VARIABLES sem_mutex, sem_c, sem_seq, sem_pc, seq_value, timed, expired,
          val, mutex_pc, mutex_c, old_val,
          component   \* the one that moves

Sem == INSTANCE SysSem WITH
          Threads <- Users, None <- Nobody, MaxSeq <- MaxSignals,
          mutex <- sem_mutex, c <- sem_c, seq <- sem_seq, pc <- sem_pc

Mutex == INSTANCE ZMutex WITH Threads <- Users, pc <- mutex_pc, c <- mutex_c

semvars == <<sem_mutex, sem_c, sem_seq, sem_pc, seq_value, timed, expired>>
mutexvars == <<val, mutex_pc, mutex_c, old_val>>

MCInit == component \in {"semaphore", "mutex"} /\ Sem!Init /\ Mutex!Init

Moves(x) == component = x /\ UNCHANGED component

\* The semaphore may come to rest: MaxSignals bounds its signals.
MCNext == \/ Moves("semaphore") /\ Sem!Next /\ UNCHANGED mutexvars
          \/ Moves("mutex") /\ Mutex!Next /\ UNCHANGED semvars
          \/ Moves("semaphore") /\ UNCHANGED <<semvars, mutexvars>>

MCSpec == /\ MCInit /\ [][MCNext]_<<semvars, mutexvars, component>>
          /\ Sem!Fairness /\ Mutex!Fairness

\* Nobody sleeps past a signal of the semaphore (zutex_sync.c:376-439).
NoSleepPastSignal == Sem!NoSleepPastSignal

\* A timeout means that the semaphore is not available (xax_arch.c:60-61, 84-92).
TimeoutMeansEmpty == Sem!TimeoutMeansEmpty

\* A semaphore that is available is taken (xax_arch.c:117-143).
SignalIsTaken == Sem!SignalIsTaken

\* One thread owns the mutex (zutex_sync.c:74-95).
MutualExclusion == Mutex!MutualExclusion

\* The mutex never forgets its sleepers (zutex_sync.c:79-84, 90-94).
NoLostWake == Mutex!NoLostWake

\* A mutex that is waited for is taken (zutex_sync.c:74-95).
Progress == Mutex!Progress

\* The mutex sleeps and wakes as the ABI allows (pal_zutex.h:27-108).
ZutexABI == Mutex!ZutexABI
=============================================================================
