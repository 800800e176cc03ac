------------------------------- MODULE Calls -------------------------------
(***************************************************************************)
(* The monitor's waits for something outside it: the host's alarm          *)
(* (AlarmThread) and the coordinator's answer (RPC).  The two share no     *)
(* state.                                                                  *)
(***************************************************************************)
EXTENDS RPC

CONSTANTS Setters, MaxTime, MaxCalls

\* One thread at a time sets the alarm: ZClock does it under its mutex.
ASSUME AlarmAssumption == /\ \A s, u \in Setters : s = u
                          /\ MaxTime \in Nat /\ MaxCalls \in Nat

VARIABLES clock, next_alarm, expired, alarm_futex, clock_zutex, apc, sampled, timeout,
          spc, sum, calls

Alarm == INSTANCE AlarmThread WITH Booted <- TRUE

\* The alarm thread does not sleep past an alarm (AlarmThread.cpp:57-64).
NoOversleep == Alarm!NoOversleep

\* Every alarm is signalled in the end (pal_time.h:64-65).
AlwaysSignalled == Alarm!AlwaysSignalled
=============================================================================
