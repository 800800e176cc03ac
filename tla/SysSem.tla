------------------------------- MODULE SysSem -------------------------------
(***************************************************************************)
(* The semaphores lwip runs on (lwip_lib/src/xax_arch.c), on top of the    *)
(* ZCond condition variable of zutex_sync.c and, for a timed wait, a       *)
(* timer.  A wait releases the semaphore's mutex around zoog_zutex_wait    *)
(* (prewait, postwait) and is driven by zas_wait_any's check loop, so a    *)
(* broadcast, the timer and other waiters can come between any two of its  *)
(* steps.                                                                  *)
(***************************************************************************)
EXTENDS Naturals

CONSTANTS Threads,
          None,       \* nobody: the mutex is free
          MaxSeq      \* bound: how often the semaphore is signalled

VARIABLES mutex,      \* sem->zmutex: its owner
          c,          \* sem->c
          seq,        \* sem->zcond.seq_zutex
          pc,
          seq_value,  \* each waiter's ZCondWaitRecord
          timed,      \* whether the wait has a timeout
          expired     \* whether its timer has fired

vars == <<mutex, c, seq, pc, seq_value, timed, expired>>

\* "lock" .. "relock": sys_arch_sem_wait; "siglock", "wake": sys_sem_signal
PCs == {"idle", "lock", "test", "check", "wait", "asleep", "relock", "siglock", "wake"}

TypeOK == /\ mutex \in Threads \cup {None}
          /\ c \in 0..1
          /\ seq \in 0..MaxSeq
          /\ pc \in [Threads -> PCs]
          /\ seq_value \in [Threads -> 0..MaxSeq]
          /\ timed \in [Threads -> BOOLEAN]
          /\ expired \in [Threads -> BOOLEAN]

\* sys_sem_new(sem, 0)
Init == /\ mutex = None
        /\ c = 0
        /\ seq = 0
        /\ pc = [t \in Threads |-> "idle"]
        /\ seq_value = [t \in Threads |-> 0]
        /\ timed = [t \in Threads |-> FALSE]
        /\ expired = [t \in Threads |-> FALSE]

Goto(t, label) == pc' = [pc EXCEPT ![t] = label]

-----------------------------------------------------------------------------
sys_arch_sem_wait(t, with_timeout) ==
    /\ pc[t] = "idle"
    /\ Goto(t, "lock")
    /\ timed' = [timed EXCEPT ![t] = with_timeout]
    /\ UNCHANGED <<mutex, c, seq, seq_value, expired>>

Lock(t) ==
    /\ pc[t] = "lock"
    /\ mutex = None
    /\ mutex' = t
    /\ Goto(t, "test")
    /\ UNCHANGED <<c, seq, seq_value, timed, expired>>

\* while (sem->c <= 0) fails: take the semaphore
Take(t) ==
    /\ pc[t] = "test"
    /\ c > 0
    /\ c' = c - 1
    /\ mutex' = None
    /\ Goto(t, "idle")
    /\ UNCHANGED <<seq, seq_value, timed, expired>>

\* cond_wait: a new wait record, and a new timer for the whole timeout
BeginCondWait(t) ==
    /\ pc[t] = "test"
    /\ c = 0
    /\ seq_value' = [seq_value EXCEPT ![t] = seq]
    /\ expired' = [expired EXCEPT ![t] = FALSE]
    /\ Goto(t, "check")
    /\ UNCHANGED <<mutex, c, seq, timed>>

\* _zcwr_check finds a broadcast: cond_wait returns, to test c again
SeenBroadcast(t) ==
    /\ pc[t] = "check"
    /\ seq /= seq_value[t]
    /\ Goto(t, "test")
    /\ UNCHANGED <<mutex, c, seq, seq_value, timed, expired>>

\* Mutant of TimedOut: the timer is checked before the condition.
TimedOut_first(t) ==
    /\ pc[t] = "check"
    /\ timed[t] /\ expired[t]
    /\ mutex' = None
    /\ Goto(t, "idle")
    /\ UNCHANGED <<c, seq, seq_value, timed, expired>>

\* the condition is not ready but the timer is: SYS_ARCH_TIMEOUT
TimedOut(t) ==
    /\ pc[t] = "check"
    /\ seq = seq_value[t]
    /\ timed[t] /\ expired[t]
    /\ mutex' = None
    /\ Goto(t, "idle")
    /\ UNCHANGED <<c, seq, seq_value, timed, expired>>

\* _zcwr_prewait releases the semaphore's mutex
Prewait(t) ==
    /\ pc[t] = "check"
    /\ seq = seq_value[t]
    /\ ~(timed[t] /\ expired[t])
    /\ mutex' = None
    /\ Goto(t, "wait")
    /\ UNCHANGED <<c, seq, seq_value, timed, expired>>

\* Mutant of zutex_wait: the condition's word is not compared.
zutex_wait_blind(t) ==
    /\ pc[t] = "wait"
    /\ Goto(t, IF timed[t] /\ expired[t] THEN "relock" ELSE "asleep")
    /\ UNCHANGED <<mutex, c, seq, seq_value, timed, expired>>

\* zoog_zutex_wait on the condition's word and the timer's
zutex_wait(t) ==
    /\ pc[t] = "wait"
    /\ Goto(t, IF seq /= seq_value[t] \/ (timed[t] /\ expired[t]) THEN "relock" ELSE "asleep")
    /\ UNCHANGED <<mutex, c, seq, seq_value, timed, expired>>

\* _zcwr_postwait takes it back, before the next check
Postwait(t) ==
    /\ pc[t] = "relock"
    /\ mutex = None
    /\ mutex' = t
    /\ Goto(t, "check")
    /\ UNCHANGED <<c, seq, seq_value, timed, expired>>

\* The clock fires a waiter's timer, and wakes it if it sleeps.
TimerFires(t) ==
    /\ timed[t] /\ ~expired[t]
    /\ pc[t] \in {"check", "wait", "asleep", "relock"}
    /\ expired' = [expired EXCEPT ![t] = TRUE]
    /\ Goto(t, IF pc[t] = "asleep" THEN "relock" ELSE pc[t])
    /\ UNCHANGED <<mutex, c, seq, seq_value, timed>>

sys_sem_signal(t) ==
    /\ pc[t] = "idle"
    /\ Goto(t, "siglock")
    /\ UNCHANGED <<mutex, c, seq, seq_value, timed, expired>>

\* sem->c++, held at 1; zcond_broadcast changes its word
Increment(t) ==
    /\ pc[t] = "siglock"
    /\ mutex = None
    /\ seq < MaxSeq
    /\ mutex' = t
    /\ c' = 1
    /\ seq' = seq + 1
    /\ Goto(t, "wake")
    /\ UNCHANGED <<seq_value, timed, expired>>

\* Mutant of BroadcastWake: wakes nobody.
BroadcastWake_none(t) ==
    /\ pc[t] = "wake"
    /\ Goto(t, "idle")
    /\ mutex' = None
    /\ UNCHANGED <<c, seq, seq_value, timed, expired>>

\* zcond_broadcast wakes all of its waiters; unlock
BroadcastWake(t) ==
    /\ pc[t] = "wake"
    /\ pc' = [u \in Threads |-> CASE u = t -> "idle"
                                  [] pc[u] = "asleep" -> "relock"
                                  [] OTHER -> pc[u]]
    /\ mutex' = None
    /\ UNCHANGED <<c, seq, seq_value, timed, expired>>

Wait(t) == \/ Lock(t) \/ Take(t) \/ BeginCondWait(t) \/ SeenBroadcast(t)
           \/ TimedOut(t) \/ Prewait(t) \/ zutex_wait(t) \/ Postwait(t)
Signal(t) == Increment(t) \/ BroadcastWake(t)

Next == \E t \in Threads :
           \/ \E b \in BOOLEAN : sys_arch_sem_wait(t, b)
           \/ sys_sem_signal(t)
           \/ Wait(t) \/ Signal(t) \/ TimerFires(t)

Spec == Init /\ [][Next]_vars

\* Runnable threads run, and ZMutex gives a free mutex to one of the threads
\* that want it (ZMutex's Progress), not to a particular one.
Fairness == WF_vars(\E t \in Threads : Wait(t) \/ BroadcastWake(t))
-----------------------------------------------------------------------------
\* Whoever is in the critical section owns the mutex: cond_wait always
\* returns with it held, timeout or not (zutex_sync.c:429-439).
HoldsMutex == \A t \in Threads : pc[t] \in {"test", "check", "wake"} <=> mutex = t

\* No thread sleeps while the semaphore can be taken, unless the signaller
\* is just about to wake it: the broadcast and the match value leave no gap
\* between the release of the mutex and the sleep (zutex_sync.c:376-439).
NoSleepPastSignal ==
    c > 0 => \/ \A t \in Threads : pc[t] /= "asleep"
             \/ \E t \in Threads : pc[t] = "wake"

\* A timed wait reports a timeout only while the semaphore is not available:
\* a signal that races the timer wins (xax_arch.c:60-61, 84-92, the order of
\* the list).
TimeoutMeansEmpty ==
    [][\A t \in Threads : pc[t] = "check" /\ pc'[t] = "idle" => c = 0]_vars

Waiting(t) == pc[t] \in {"lock", "test", "check", "wait", "asleep", "relock"}

\* An available semaphore with waiters is taken (xax_arch.c:117-143).
SignalIsTaken == (c > 0 /\ \E t \in Threads : Waiting(t)) ~> (c = 0)
=============================================================================
