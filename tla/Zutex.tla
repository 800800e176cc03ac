-------------------------------- MODULE Zutex --------------------------------
(***************************************************************************)
(* What the Zoog ABI promises of zutexes (common/ifc/pal_abi/pal_zutex.h): *)
(* a thread goes to sleep on a set of zutexes only if each of them still   *)
(* held the value the thread expects when the monitor looked, no wake came *)
(* between the look and the sleep, and only a wake on a zutex makes the    *)
(* threads waiting on it runnable.  A wake may be for any number of        *)
(* threads, and nothing is said of which are chosen: the set of those it   *)
(* wakes may be any set of waiters.  The monitors implement this module;   *)
(* the client library is built on it.                                      *)
(***************************************************************************)
EXTENDS Naturals

CONSTANTS Threads,    \* the threads of one picoprocess
          Zutexes,    \* addresses used as zutexes
          Values      \* contents of a zutex word

VARIABLES mem,        \* [Zutexes -> Values]: the words, in app memory
          waits,      \* [Threads -> WaitSpecs]: the zutexes a thread waits on
          asleep      \* the threads that are descheduled

zvars == <<mem, waits, asleep>>

\* The specs of a wait: a match_val for each of some zutexes.
WaitSpecs == UNION {[Z -> Values] : Z \in SUBSET Zutexes}
NoSpecs == [z \in {} |-> 0]

Init == /\ mem \in [Zutexes -> Values]
        /\ waits = [t \in Threads |-> NoSpecs]
        /\ asleep = {}

Waiters(z) == {t \in Threads : z \in DOMAIN waits[t]}

\* The app (or the host, for an alarm) writes zutex words as it likes.
Store == /\ mem' \in [Zutexes -> Values]
         /\ UNCHANGED <<waits, asleep>>

\* zoog_zutex_wait may look at its zutexes one by one ...
Join(t, z) == /\ t \notin asleep
              /\ z \notin DOMAIN waits[t]
              /\ waits' = [waits EXCEPT ![t] =
                              [y \in DOMAIN @ \cup {z} |-> IF y = z THEN mem[z] ELSE @[y]]]
              /\ UNCHANGED <<mem, asleep>>

\* ... and return without sleeping ...
Leave(t) == /\ t \notin asleep
            /\ waits' = [waits EXCEPT ![t] = NoSpecs]
            /\ UNCHANGED <<mem, asleep>>

\* ... or sleep, if those it has not looked at yet match as well.
Sleep(t, specs) == /\ t \notin asleep
                   /\ DOMAIN waits[t] \subseteq DOMAIN specs
                   /\ \A z \in DOMAIN specs :
                         specs[z] = IF z \in DOMAIN waits[t] THEN waits[t][z] ELSE mem[z]
                   /\ waits' = [waits EXCEPT ![t] = specs]
                   /\ asleep' = asleep \cup {t}
                   /\ mem' = mem

\* zoog_zutex_wake, whose victims are S.
Wake(z, S) == /\ S \subseteq Waiters(z)
              /\ waits' = [t \in Threads |-> IF t \in S THEN NoSpecs ELSE waits[t]]
              /\ asleep' = asleep \ S
              /\ mem' = mem

Next == \/ Store
        \/ \E t \in Threads : \/ \E z \in Zutexes : Join(t, z)
                              \/ Leave(t)
                              \/ \E specs \in WaitSpecs : Sleep(t, specs)
        \/ \E z \in Zutexes, S \in SUBSET Threads : Wake(z, S)

Spec == Init /\ [][Next]_zvars
=============================================================================
