------------------------------- MODULE ZClock -------------------------------
(***************************************************************************)
(* ZClock shares the one alarm that the host gives an app among all timers *)
(* of its threads (toolchains/linux_elf/common/ZClock.cpp).  One timer is  *)
(* the master: it waits on the alarm's zutex, the others on zutexes of     *)
(* their own.  Whoever finds that there is no master makes the earliest    *)
(* timer wake up, and that one takes the duty over.  A thread waits for    *)
(* its timer and for other things at once (zas_wait_any), and deletes the  *)
(* timer when any of them is ready.                                        *)
(*                                                                         *)
(* The bodies under the clock's mutex are one step each, except that the   *)
(* host's alarm, which the mutex does not stop, may ring between the two   *)
(* statements of _reset_host_alarm.  Of a zutex's value only matters       *)
(* whether it has changed since a waiter read it, of the tiebreakers only  *)
(* their order.                                                            *)
(***************************************************************************)
EXTENDS Naturals, Sequences

CONSTANTS Threads,
          None,     \* no timer (NULL)
          MaxTime   \* bound on the time

VARIABLES now,            \* the host's clock
          host_alarm,     \* when the host's alarm rings, Never if it is not set
          timer_tree,     \* the threads whose timer is in the tree
          master,
          mutex,          \* who holds the clock's mutex
          tiebreakers,    \* the threads with a timer, in the order of their tiebreakers
          alarm_time,     \* of each thread's timer
          spec,           \* the zutex it is to wait on, and whether that has changed
          pc

vars == <<now, host_alarm, timer_tree, master, mutex, tiebreakers, alarm_time, spec, pc>>

host == <<now, host_alarm>>
clock == <<timer_tree, master, mutex, tiebreakers>>
timers == <<alarm_time, spec>>

Never == MaxTime + 1
Alarm == [on |-> "alarm", changed |-> FALSE]
Private == [on |-> "private", changed |-> FALSE]

Init == /\ now = 0
        /\ host_alarm = Never
        /\ timer_tree = {}
        /\ master = None
        /\ mutex = None
        /\ tiebreakers = <<>>
        /\ alarm_time = [t \in Threads |-> 0]
        /\ spec = [t \in Threads |-> Private]
        /\ pc = [t \in Threads |-> "idle"]

Goto(t, p) == pc' = [pc EXCEPT ![t] = p]

\* _cmp: by time, then in the order of the tiebreakers
Place(t) == CHOOSE i \in DOMAIN tiebreakers : tiebreakers[i] = t
Before(t, u) == \/ alarm_time[t] < alarm_time[u]
                \/ alarm_time[t] = alarm_time[u] /\ Place(t) <= Place(u)
IsMin(t, tree) == t \in tree /\ \A u \in tree : Before(t, u)

-----------------------------------------------------------------------------
(* Under the clock's mutex. *)

\* The first half of _reset_host_alarm reads the alarm's zutex; SetClockAlarm
\* is the other half, still under the mutex.
_reset_host_alarm(t, next) == mutex' = t /\ Goto(t, next)

BecomeMaster(t, next) ==
    /\ master' = t
    /\ spec' = [spec EXCEPT ![t] = Alarm]
    /\ _reset_host_alarm(t, next)

\* zoog_zutex_wake of the earliest timer's private zutex, after a change
Poke(t, min, next) ==
    /\ spec' = [spec EXCEPT ![t] = Private,
                            ![min].changed = @ \/ spec[min].on = "private"]
    /\ pc' = [pc EXCEPT ![t] = next,
                        ![min] = IF @ = "asleep" /\ spec[min].on = "private"
                                 THEN "check" ELSE @]

\* There is no master and t is not to be one: wake the earliest timer, if
\* there is one.
WakeMin(t, tree, next) ==
    /\ master' = None
    /\ \/ tree = {} /\ spec' = [spec EXCEPT ![t] = Private] /\ Goto(t, next)
       \/ \E min \in tree : IsMin(min, tree) /\ Poke(t, min, next)
    /\ UNCHANGED mutex

\* Another timer is the master.
StandBy(t) == /\ spec' = [spec EXCEPT ![t] = Private]
              /\ UNCHANGED master

Others(t) == master \notin {None, t}

_discharge_duties_nolock(t, tree, next, nextset) ==
    \/ Others(t) /\ StandBy(t) /\ Goto(t, next) /\ UNCHANGED mutex
    \/ ~Others(t) /\ IsMin(t, tree) /\ BecomeMaster(t, nextset)
    \/ ~Others(t) /\ ~IsMin(t, tree) /\ WakeMin(t, tree, next)

\* The second half of _reset_host_alarm, and the end of activate or
\* discharge_duties.
SetClockAlarm(t) ==
    /\ pc[t] \in {"set_in_activate", "set_in_check"}
    /\ host_alarm' = alarm_time[t]
    /\ mutex' = None
    /\ Goto(t, IF pc[t] = "set_in_activate" THEN "work" ELSE "test")
    /\ UNCHANGED <<now, timer_tree, master, tiebreakers, timers>>

-----------------------------------------------------------------------------
(* A thread and its timer. *)

\* ZTimer::ZTimer, up to activate; make_tiebreaker takes the mutex.
NewTimer(t) ==
    /\ pc[t] = "idle" /\ mutex = None
    /\ \E time \in now..MaxTime : alarm_time' = [alarm_time EXCEPT ![t] = time]
    /\ tiebreakers' = Append(tiebreakers, t)
    /\ Goto(t, "activate")
    /\ UNCHANGED <<host, timer_tree, master, mutex, spec>>

\* Mutant of activate: a new earliest timer relies on the master.
activate_lazy(t) ==
    /\ pc[t] = "activate" /\ mutex = None
    /\ timer_tree' = timer_tree \cup {t}
    /\ _discharge_duties_nolock(t, timer_tree', "work", "set_in_activate")
    /\ UNCHANGED <<host, tiebreakers, alarm_time>>

\* A new earliest timer that does not become the master sets the alarm to its
\* own time, for the master.
activate(t) ==
    /\ pc[t] = "activate" /\ mutex = None
    /\ timer_tree' = timer_tree \cup {t}
    /\ IF Others(t) /\ IsMin(t, timer_tree')
       THEN StandBy(t) /\ _reset_host_alarm(t, "set_in_activate")
       ELSE _discharge_duties_nolock(t, timer_tree', "work", "set_in_activate")
    /\ UNCHANGED <<host, tiebreakers, alarm_time>>

\* zas_wait_any: the timer is checked, unless something else is ready: then
\* the thread sees to that, and deletes the timer, or waits again.
WaitAny(t) ==
    /\ pc[t] = "work"
    /\ Goto(t, "check") \/ Goto(t, "deactivate")
    /\ UNCHANGED <<host, clock, timers>>

\* check: discharge_duties ...
check(t) ==
    /\ pc[t] = "check" /\ mutex = None
    /\ _discharge_duties_nolock(t, timer_tree, "test", "set_in_check")
    /\ UNCHANGED <<host, timer_tree, tiebreakers, alarm_time>>

\* ... then the time
CheckTime(t) ==
    /\ pc[t] = "test"
    /\ Goto(t, IF now >= alarm_time[t] THEN "deactivate" ELSE "wait")
    /\ UNCHANGED <<host, clock, timers>>

\* zoog_zutex_wait on what check returned
zutex_wait(t) ==
    /\ pc[t] = "wait"
    /\ Goto(t, IF spec[t].changed THEN "check" ELSE "asleep")
    /\ UNCHANGED <<host, clock, timers>>

\* Something else the thread waits for becomes ready.
OtherReady(t) ==
    /\ pc[t] = "asleep"
    /\ Goto(t, "work")
    /\ UNCHANGED <<host, clock, timers>>

\* The fields of a timer that is deleted.
Delete(t) == /\ tiebreakers' = [i \in 1..(Len(tiebreakers) - 1) |->
                                   tiebreakers[IF i < Place(t) THEN i ELSE i + 1]]
             /\ alarm_time' = [alarm_time EXCEPT ![t] = 0]

\* The timer fires, or is deleted before; nobody waits again for one that has
\* fired, so that its deletion is part of the step.
deactivate(t) ==
    /\ pc[t] = "deactivate" /\ mutex = None
    /\ timer_tree' = timer_tree \ {t}
    /\ _discharge_duties_nolock(t, timer_tree', "idle", "idle")
    /\ Delete(t)
    /\ UNCHANGED host

-----------------------------------------------------------------------------
(* The host. *)

Tick == /\ now < MaxTime
        /\ now' = now + 1
        /\ UNCHANGED <<host_alarm, clock, timers, pc>>

\* The alarm rings: its zutex changes and is woken.
Ring == /\ host_alarm <= now
        /\ host_alarm' = Never
        /\ spec' = [t \in Threads |-> IF spec[t].on = "alarm" THEN [Alarm EXCEPT !.changed = TRUE]
                                                              ELSE spec[t]]
        /\ pc' = [t \in Threads |-> IF pc[t] = "asleep" /\ spec[t].on = "alarm"
                                    THEN "check" ELSE pc[t]]
        /\ UNCHANGED <<now, clock, alarm_time>>

ThreadStep(t) == \/ NewTimer(t) \/ activate(t) \/ SetClockAlarm(t) \/ WaitAny(t) \/ check(t)
                 \/ CheckTime(t) \/ zutex_wait(t) \/ deactivate(t)

Next == (\E t \in Threads : ThreadStep(t) \/ OtherReady(t)) \/ Tick \/ Ring

Spec == Init /\ [][Next]_vars
-----------------------------------------------------------------------------
\* When every thread with a timer in the tree sleeps, the master is one of
\* them, it sleeps on the alarm's zutex, and the alarm will ring for the
\* earliest timer of all, or before it: no timer is forgotten,
\* whichever timer comes or goes in between (ZClock.cpp:154-264).
AlarmCovers ==
    timer_tree # {} /\ (\A t \in timer_tree : pc[t] = "asleep") =>
        /\ master \in timer_tree
        /\ spec[master].on = "alarm"
        /\ \E t \in timer_tree : IsMin(t, timer_tree) /\ host_alarm <= alarm_time[t]
=============================================================================
