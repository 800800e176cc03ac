------------------------------- MODULE ZEvent -------------------------------
(***************************************************************************)
(* Events and zas_wait_any of the client's synchronization library         *)
(* (toolchains/linux_elf/common/zutex_sync.c): threads wait for any of a   *)
(* list of events, checking them in the list's order, and sleep on all of  *)
(* their seq_zutex words at once.  The body of a function between          *)
(* zmutex_lock and zmutex_unlock is one step, which ZMutex's               *)
(* MutualExclusion justifies.                                              *)
(***************************************************************************)
EXTENDS Naturals, Sequences

CONSTANTS Threads,
          Events,
          AutoReset,  \* the events made by zevent_init(.., true)
          WaitLists,  \* the lists passed to zas_wait_any
          MaxSeq      \* bound: how often an event is signalled

ASSUME EventAssumption == /\ AutoReset \subseteq Events
                          /\ WaitLists \subseteq Seq(Events) \ {<<>>}
                          /\ MaxSeq \in Nat

VARIABLES seq,      \* seq_zutex of each event
          signal,   \* signal of each event
          waking,   \* the events whose signaller holds the mutex to wake
          pc,       \* where each thread is in zas_wait_any
          zasses,   \* its argument
          specs,    \* the match_vals its checks have filled in
          released  \* history: how many waits each auto-reset event ended

vars == <<seq, signal, waking, pc, zasses, specs, released>>

TypeOK == /\ seq \in [Events -> 0..MaxSeq]
          /\ signal \in [Events -> BOOLEAN]
          /\ waking \subseteq Events
          /\ pc \in [Threads -> {"idle", "check", "wait", "asleep"}]
          /\ zasses \in [Threads -> WaitLists \cup {<<>>}]
          /\ \A t \in Threads : /\ specs[t] \in Seq(0..MaxSeq)
                                /\ Len(specs[t]) <= Len(zasses[t])
                                /\ pc[t] = "check" => Len(specs[t]) < Len(zasses[t])
                                /\ pc[t] \in {"wait", "asleep"}
                                      => Len(specs[t]) = Len(zasses[t])
          /\ released \in [AutoReset -> Nat]

\* zevent_init
Init == /\ seq = [e \in Events |-> 0]
        /\ signal = [e \in Events |-> FALSE]
        /\ waking = {}
        /\ pc = [t \in Threads |-> "idle"]
        /\ zasses = [t \in Threads |-> <<>>]
        /\ specs = [t \in Threads |-> <<>>]
        /\ released = [e \in AutoReset |-> 0]

Goto(t, label) == pc' = [pc EXCEPT ![t] = label]

-----------------------------------------------------------------------------
zas_wait_any(t, list) ==
    /\ pc[t] = "idle"
    /\ Goto(t, "check")
    /\ zasses' = [zasses EXCEPT ![t] = list]
    /\ UNCHANGED <<seq, signal, waking, specs, released>>

\* The event thread t is to check next.
Current(t) == zasses[t][Len(specs[t]) + 1]

\* Mutant of ReturnReady: every event stays set until it is reset.
ReturnReady_keep(t) ==
    /\ pc[t] = "check"
    /\ Current(t) \notin waking
    /\ signal[Current(t)]
    /\ signal' = signal
    /\ released' = [e \in AutoReset |-> released[e] + IF e = Current(t) THEN 1 ELSE 0]
    /\ Goto(t, "idle")
    /\ zasses' = [zasses EXCEPT ![t] = <<>>]
    /\ specs' = [specs EXCEPT ![t] = <<>>]
    /\ UNCHANGED <<seq, waking>>

\* _zevent_check of a set event: zas_wait_any returns its index
ReturnReady(t) ==
    /\ pc[t] = "check"
    /\ Current(t) \notin waking
    /\ signal[Current(t)]
    /\ signal' = [signal EXCEPT ![Current(t)] = Current(t) \notin AutoReset]
    /\ released' = [e \in AutoReset |-> released[e] + IF e = Current(t) THEN 1 ELSE 0]
    /\ Goto(t, "idle")
    /\ zasses' = [zasses EXCEPT ![t] = <<>>]
    /\ specs' = [specs EXCEPT ![t] = <<>>]
    /\ UNCHANGED <<seq, waking>>

\* _zevent_check of an event that is not set: note seq_zutex, and look at the
\* next event, or wait if this was the last one
FillSpec(t) ==
    /\ pc[t] = "check"
    /\ Current(t) \notin waking
    /\ ~signal[Current(t)]
    /\ specs' = [specs EXCEPT ![t] = Append(@, seq[Current(t)])]
    /\ Goto(t, IF Len(specs[t]) + 1 = Len(zasses[t]) THEN "wait" ELSE "check")
    /\ UNCHANGED <<seq, signal, waking, zasses, released>>

Matches(t) == \A i \in DOMAIN zasses[t] : specs[t][i] = seq[zasses[t][i]]

\* Mutant of zutex_wait: a wait that cannot sleep is tried again as it is.
zutex_wait_again(t) ==
    /\ pc[t] = "wait"
    /\ Matches(t)
    /\ Goto(t, "asleep")
    /\ UNCHANGED <<seq, signal, waking, zasses, specs, released>>

\* zoog_zutex_wait(specs, count): sleep if every word still is what was
\* seen, else return at once and check the list again
zutex_wait(t) ==
    /\ pc[t] = "wait"
    /\ \/ /\ Matches(t)
          /\ Goto(t, "asleep")
          /\ specs' = specs
       \/ /\ ~Matches(t)
          /\ Goto(t, "check")
          /\ specs' = [specs EXCEPT ![t] = <<>>]
    /\ UNCHANGED <<seq, signal, waking, zasses, released>>

Waits(t, e) == \E i \in DOMAIN zasses[t] : zasses[t][i] = e
Sleepers(e) == {t \in Threads : pc[t] = "asleep" /\ Waits(t, e)}

\* zoog_zutex_wake makes the threads of S check their lists again
Awaken(S) == /\ pc' = [t \in Threads |-> IF t \in S THEN "check" ELSE pc[t]]
             /\ specs' = [t \in Threads |-> IF t \in S THEN <<>> ELSE specs[t]]

\* Any thread, or a callback, signals an event: under the mutex it sets the
\* event and changes the word; an event that is set already is left alone
zevent_signal(e) ==
    /\ e \notin waking
    /\ ~signal[e]
    /\ seq[e] < MaxSeq
    /\ signal' = [signal EXCEPT ![e] = TRUE]
    /\ seq' = [seq EXCEPT ![e] = @ + 1]
    /\ waking' = waking \cup {e}
    /\ UNCHANGED <<pc, zasses, specs, released>>

\* Mutant of SignalWake: wakes one waiter, whatever the kind of event.
SignalWake_one(e) ==
    /\ e \in waking
    /\ \/ Sleepers(e) = {} /\ Awaken({})
       \/ \E t \in Sleepers(e) : Awaken({t})
    /\ waking' = waking \ {e}
    /\ UNCHANGED <<seq, signal, zasses, released>>

\* ... and, still under the mutex, wakes one waiter of an auto-reset event or
\* all of a manual-reset one
SignalWake(e) ==
    /\ e \in waking
    /\ \/ e \notin AutoReset /\ Awaken(Sleepers(e))
       \/ e \in AutoReset /\ Sleepers(e) = {} /\ Awaken({})
       \/ e \in AutoReset /\ \E t \in Sleepers(e) : Awaken({t})
    /\ waking' = waking \ {e}
    /\ UNCHANGED <<seq, signal, zasses, released>>

zevent_reset(e) ==
    /\ e \notin waking
    /\ signal[e]
    /\ signal' = [signal EXCEPT ![e] = FALSE]
    /\ UNCHANGED <<seq, waking, pc, zasses, specs, released>>

Step(t) == ReturnReady(t) \/ FillSpec(t) \/ zutex_wait(t)

Next == \/ \E t \in Threads : \/ \E list \in WaitLists : zas_wait_any(t, list)
                              \/ Step(t)
        \/ \E e \in Events : zevent_signal(e) \/ SignalWake(e) \/ zevent_reset(e)

Spec == Init /\ [][Next]_vars

\* The host runs every runnable thread, a signaller too.
FairSpec == /\ Spec
            /\ \A t \in Threads : WF_vars(Step(t))
            /\ \A e \in Events : WF_vars(SignalWake(e))
-----------------------------------------------------------------------------
\* A thread that is going to look at e before it sleeps again.
WillCheck(t, e) ==
    \/ /\ pc[t] = "check"
       /\ \E i \in DOMAIN zasses[t] : i > Len(specs[t]) /\ zasses[t][i] = e
    \/ /\ pc[t] \in {"check", "wait"}
       /\ \E i \in DOMAIN specs[t] : zasses[t][i] = e /\ specs[t][i] /= seq[e]

\* Events that are first in every list they are in.
Firsts == {e \in Events : \A list \in WaitLists :
                              (\E i \in DOMAIN list : list[i] = e) => list[1] = e}

\* An event can only count to 1, but that one is not lost if every waiter
\* checks the event before the others of its list: while it is set, either
\* nobody sleeps on it or somebody awake is going to look at it
\* (zutex_sync.c:177-220, the one wake of an auto-reset event and the test of
\* the old state).  A waiter that checks another event first may return with
\* that one, and the wake is gone.  Nobody at all sleeps on a set manual-reset
\* event, wherever it is in their lists (zutex_sync.c:216, ZUTEX_ALL).
NoLostSignal ==
    /\ TypeOK
    /\ \A e \in Events : signal[e] /\ e \notin waking =>
          /\ e \in Firsts /\ Sleepers(e) /= {} => \E t \in Threads : WillCheck(t, e)
          /\ e \notin AutoReset => Sleepers(e) = {}

\* An auto-reset event ends at most one wait per setting, however checks,
\* signals and resets interleave (zutex_sync.c:181-189, 212-215).
OneReleasePerSignal ==
    \A e \in AutoReset : released[e] + (IF signal[e] THEN 1 ELSE 0) <= seq[e]

\* A waiter does not wait for ever beside a set event: the event is taken or
\* reset, or its waiters get away (zutex_sync.c:118-153).
SetEventIsSeen ==
    \A e \in Events : \A t \in Threads :
       (signal[e] /\ pc[t] /= "idle" /\ Waits(t, e)) ~> (~signal[e] \/ pc[t] = "idle")
=============================================================================
