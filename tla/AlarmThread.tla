----------------------------- MODULE AlarmThread -----------------------------
(***************************************************************************)
(* The clock alarm of the KVM monitor (monitors/linux_kvm/monitor/         *)
(* AlarmThread.cpp, HostAlarms.cpp): set_clock_alarm records a time and    *)
(* pokes a futex; the alarm thread sleeps on the futex until it is poked   *)
(* or the time has come, and then signals the clock zutex.  The futex word *)
(* is sampled under the lock but incremented, not atomically, after the    *)
(* lock is released.                                                       *)
(***************************************************************************)
EXTENDS Naturals

CONSTANTS Setters,   \* app threads that call set_clock_alarm
          MaxTime,   \* bound on the clock and on alarm times
          MaxCalls,  \* bound on the calls of each setter
          Booted     \* does the alarm thread start before the app first calls?

VARIABLES clock,       \* what get_time returns
          next_alarm, expired,
          alarm_futex,
          clock_zutex, \* the word of the clock alarm in the host alarms page
          apc,         \* where the alarm thread is
          sampled,     \* its alarm_futex_value
          timeout,     \* the time its FUTEX_WAIT ends, or Never
          spc,         \* where each setter is
          sum,         \* its copy of alarm_futex, incremented
          calls        \* how often it has called

avars == <<apc, sampled, timeout>>
svars == <<spc, sum, calls>>
vars == <<clock, next_alarm, expired, alarm_futex, clock_zutex, avars, svars>>

Never == MaxTime + 1

TypeOK == /\ clock \in 0..MaxTime
          /\ next_alarm \in 0..MaxTime
          /\ expired \in BOOLEAN
          /\ alarm_futex \in Nat
          /\ clock_zutex \in Nat
          /\ apc \in {"evaluate", "before_wait", "asleep", "woken"}
          /\ sampled \in Nat
          /\ timeout \in 0..Never
          /\ spc \in [Setters -> {"app", "load", "store", "wake"}]
          /\ sum \in [Setters -> Nat]
          /\ calls \in [Setters -> 0..MaxCalls]

Init == /\ clock = 0
        /\ next_alarm = 0
        /\ expired = TRUE
        /\ alarm_futex = 0
        /\ clock_zutex = 0
        /\ apc = "evaluate"
        /\ sampled = 0
        /\ timeout = Never
        /\ spc = [s \in Setters |-> "app"]
        /\ sum = [s \in Setters |-> 0]
        /\ calls = [s \in Setters |-> 0]

Tick == /\ clock < MaxTime
        /\ clock' = clock + 1
        /\ UNCHANGED <<next_alarm, expired, alarm_futex, clock_zutex, avars, svars>>

-----------------------------------------------------------------------------
(* reset_alarm *)

\* Under the lock: the new alarm replaces the old one.
SetAlarm(s, time) ==
    /\ spc[s] = "app" /\ calls[s] < MaxCalls
    /\ Booted => apc /= "evaluate"
    /\ next_alarm' = time
    /\ expired' = FALSE
    /\ spc' = [spc EXCEPT ![s] = "load"]
    /\ calls' = [calls EXCEPT ![s] = @ + 1]
    /\ UNCHANGED <<clock, alarm_futex, clock_zutex, avars, sum>>

\* alarm_futex += 1, after the lock is released: read ...
LoadFutex(s) ==
    /\ spc[s] = "load"
    /\ sum' = [sum EXCEPT ![s] = alarm_futex + 1]
    /\ spc' = [spc EXCEPT ![s] = "store"]
    /\ UNCHANGED <<clock, next_alarm, expired, alarm_futex, clock_zutex, avars, calls>>

\* Mutant of StoreFutex: the futex is woken but not changed.
StoreFutex_same(s) ==
    /\ spc[s] = "store"
    /\ spc' = [spc EXCEPT ![s] = "wake"]
    /\ sum' = [sum EXCEPT ![s] = 0]
    /\ UNCHANGED <<clock, next_alarm, expired, alarm_futex, clock_zutex, avars, calls>>

\* ... and written back.
StoreFutex(s) ==
    /\ spc[s] = "store"
    /\ alarm_futex' = sum[s]
    /\ sum' = [sum EXCEPT ![s] = 0]
    /\ spc' = [spc EXCEPT ![s] = "wake"]
    /\ UNCHANGED <<clock, next_alarm, expired, clock_zutex, avars, calls>>

\* FUTEX_WAKE
WakeFutex(s) ==
    /\ spc[s] = "wake"
    /\ apc' = IF apc = "asleep" THEN "woken" ELSE apc
    /\ spc' = [spc EXCEPT ![s] = "app"]
    /\ UNCHANGED <<clock, next_alarm, expired, alarm_futex, clock_zutex, sampled, timeout, sum, calls>>

-----------------------------------------------------------------------------
(* run *)

\* When the timed wait for an alarm would end.  The difference to an alarm in
\* the past wraps around: the seconds come out as some 40 years, and the
\* nanoseconds may be valid (the wait lasts) or not (it fails at once).
Timeouts(now) == IF expired THEN {Never}
                 ELSE IF next_alarm >= now THEN {next_alarm}
                 ELSE {now, Never}

\* HostAlarms::signal(alarm_clock)
signal == clock_zutex' = clock_zutex + 1

\* The first pass: nothing is signalled yet.
FirstEvaluate == /\ apc = "evaluate"
                 /\ sampled' = alarm_futex
                 /\ timeout' \in Timeouts(clock)
                 /\ apc' = "before_wait"
                 /\ UNCHANGED <<clock, next_alarm, expired, alarm_futex, clock_zutex, svars>>

\* FUTEX_WAIT returns at once if the futex has changed.
FutexWait == /\ apc = "before_wait"
             /\ apc' = IF alarm_futex = sampled THEN "asleep" ELSE "woken"
             /\ UNCHANGED <<clock, next_alarm, expired, alarm_futex, clock_zutex, sampled, timeout, svars>>

FutexTimeout == /\ apc = "asleep" /\ timeout <= clock
                /\ apc' = "woken"
                /\ UNCHANGED <<clock, next_alarm, expired, alarm_futex, clock_zutex, sampled, timeout, svars>>

\* Mutant of Evaluate: a wait that ends before the alarm drops the alarm.
Evaluate_skip == /\ apc = "woken"
                 /\ expired' = TRUE
                 /\ IF ~expired /\ clock >= next_alarm THEN signal ELSE UNCHANGED clock_zutex
                 /\ sampled' = alarm_futex
                 /\ timeout' = Never
                 /\ apc' = "before_wait"
                 /\ UNCHANGED <<clock, next_alarm, alarm_futex, svars>>

\* Under the lock, after a wait: signal a due alarm, sample the futex and
\* choose the next timeout.
Evaluate == /\ apc = "woken"
            /\ IF ~expired /\ clock >= next_alarm
               THEN signal /\ expired' = TRUE /\ timeout' = Never
               ELSE UNCHANGED <<clock_zutex, expired>> /\ timeout' \in Timeouts(clock)
            /\ sampled' = alarm_futex
            /\ apc' = "before_wait"
            /\ UNCHANGED <<clock, next_alarm, alarm_futex, svars>>

AlarmStep == FirstEvaluate \/ FutexWait \/ FutexTimeout \/ Evaluate
Call(s) == \E time \in 0..MaxTime : SetAlarm(s, time)
SetterStep(s) == LoadFutex(s) \/ StoreFutex(s) \/ WakeFutex(s)

Next == \/ Tick
        \/ AlarmStep
        \/ \E s \in Setters : Call(s) \/ SetterStep(s)

Spec == Init /\ [][Next]_vars

\* Time passes, and the host runs the alarm thread and the callers.
Fairness == /\ WF_vars(Tick)
            /\ WF_vars(AlarmStep)
            /\ \A s \in Setters : WF_vars(SetterStep(s))
-----------------------------------------------------------------------------
\* While the alarm thread sleeps beyond a pending alarm, the caller that set
\* the alarm is still to poke it: the futex does what the comment in run says
\* (AlarmThread.cpp:57-64).
NoOversleep ==
    /\ TypeOK
    /\ apc = "asleep" /\ ~expired /\ timeout > next_alarm =>
          \E s \in Setters : spc[s] /= "app"

\* "Note that there will always eventually be a signalling of the zutex after
\* each call to zoog_set_clock_alarm" (pal_time.h:64-65).
AlwaysSignalled ==
    \A n \in 0..MaxCalls : ~expired /\ clock_zutex = n ~> clock_zutex > n
=============================================================================
