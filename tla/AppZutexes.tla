----------------------------- MODULE AppZutexes -----------------------------
(***************************************************************************)
(* The zutexes of one app at the monitor (ZutexTable), for any threads,    *)
(* addresses and waits that name each of their zutexes once.               *)
(***************************************************************************)
EXTENDS Naturals, Sequences

CONSTANTS Guests,     \* the threads that wait and wake
          Addresses,  \* the addresses of zutexes
          Unmapped, SpecLists, WakeCounts, Words

\* A wait names each of its zutexes once; a word has some value.
ASSUME ZutexAssumption ==
    /\ Addresses # {}
    /\ \A zs \in SpecLists : /\ zs \in Seq(Addresses)
                             /\ \A i, j \in 1..Len(zs) : zs[i] = zs[j] => i = j
    /\ WakeCounts \in [Addresses -> SUBSET Nat]
    /\ Words \in Nat \ {0}

VARIABLES mem, table, waiting_on, zevent, table_mutex, zpc, specs, idx, wake_arg

Table == INSTANCE ZutexTable WITH
            Threads <- Guests, Zutexes <- Addresses, event <- zevent,
            mutex <- table_mutex, pc <- zpc

\* Exactly the sleeping threads are in queues (ZutexTable.cpp:103-111, 209-253).
TableConsistent == Table!TableConsistent

\* The monitor implements the ABI's zutexes (pal_zutex.h:27-108).
ZutexABI == Table!ZutexABI
=============================================================================
