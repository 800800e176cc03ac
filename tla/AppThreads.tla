----------------------------- MODULE AppThreads -----------------------------
(***************************************************************************)
(* The threads of one app at the monitor and in its library: more of them  *)
(* than VCPUs (VCPUPool), the main thread that stops them for a core file  *)
(* (VCPUPause) and their timers (ZClock).  The three share no state.       *)
(***************************************************************************)
EXTENDS VCPUPool

CONSTANTS None, MaxTime

ASSUME TimerAssumption == None \notin Threads /\ MaxTime \in Nat

VARIABLES count, pause_control_flag, is_paused_flag, vpc, cur, ppc,
          now, host_alarm, timer_tree, master, clock_mutex, tiebreakers, alarm_time,
          spec, cpc

\* The threads that wait.
Some == Threads \ {Root}

Pause == INSTANCE VCPUPause

Clock == INSTANCE ZClock WITH Threads <- Some, mutex <- clock_mutex, pc <- cpc

\* pause sees a stopped thread, and a parked one stays parked (ZoogVCPU.cpp:279-363).
PauseHolds == Pause!PauseHolds

\* The host's alarm covers every timer (ZClock.cpp:154-264).
AlarmCovers == Clock!AlarmCovers
=============================================================================
