----------------------------- MODULE MCThreads -----------------------------
\* The threads of an app, and their zutexes, which share no state with the
\* rest; a behaviour is one of one component.
EXTENDS AppThreads, AppZutexes, TLC

CONSTANTS z1, z2, bad

VARIABLE component   \* the one that moves

\* A thread waits on one zutex, on two, or on a bad address too.
DistinctSpecs == {<<z1>>, <<z1, z2>>, <<z2, bad>>}

\* z1 is used as a mutex, whose users wake one, or all; z2 as a condition
\* variable, whose users wake all.
Counts == [z \in {z1, z2, bad} |-> IF z = z2 THEN {3} ELSE {1, 3}]

pausevars == <<count, pause_control_flag, is_paused_flag, vpc, cur, ppc>>
zutexvars == <<mem, table, waiting_on, zevent, table_mutex, zpc, specs, idx, wake_arg>>
clockvars == <<now, host_alarm, timer_tree, master, clock_mutex, tiebreakers, alarm_time,
               spec, cpc>>

Symmetry == Permutations(Some)

MCInit == /\ component \in {"pool", "pause", "zutexes", "clock"}
          /\ Init /\ Pause!Init /\ Table!Init /\ Clock!Init

Moves(c) == component = c /\ UNCHANGED component

MCNext == \/ Moves("pool") /\ Next /\ UNCHANGED <<pausevars, zutexvars, clockvars>>
          \/ Moves("pause") /\ Pause!Next /\ UNCHANGED <<vars, zutexvars, clockvars>>
          \/ Moves("zutexes") /\ Table!Next /\ UNCHANGED <<vars, pausevars, clockvars>>
          \/ Moves("clock") /\ Clock!Next /\ UNCHANGED <<vars, pausevars, zutexvars>>

MCSpec == MCInit /\ [][MCNext]_<<vars, pausevars, zutexvars, clockvars, component>>
=============================================================================
