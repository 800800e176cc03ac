------------------------------ MODULE MCCalls ------------------------------
\* The calls of the monitor, one kind at a time: a behaviour is one of the
\* alarm or of the RPCs.  The fairness of an RPC that nobody makes asks for
\* nothing.
EXTENDS Calls

VARIABLE component   \* the one that moves

alarmvars == <<clock, next_alarm, expired, alarm_futex, clock_zutex, apc, sampled, timeout,
               spc, sum, calls>>

MCInit == component \in {"alarm", "call"} /\ Init /\ Alarm!Init

Moves(x) == component = x /\ UNCHANGED component

MCNext == \/ Moves("alarm") /\ Alarm!Next /\ UNCHANGED vars
          \/ Moves("call") /\ Next /\ UNCHANGED alarmvars

MCSpec == /\ MCInit /\ [][MCNext]_<<vars, alarmvars, component>>
          /\ component = "alarm" => Alarm!Fairness
          /\ Fairness
=============================================================================
