----------------------------- MODULE SyncProofs -----------------------------
(***************************************************************************)
(* The client's synchronization library, for any number of threads and     *)
(* signals.  ZEvent: no signal is lost and an auto-reset event ends one    *)
(* wait for each.  SysSem: whoever is in a semaphore's critical section    *)
(* owns its mutex, nobody sleeps past a signal, and a timeout is reported  *)
(* only for a semaphore that is not available.  ZMutex: one thread owns    *)
(* the mutex, no sleeper is forgotten, and every sleep and wake is one the *)
(* ABI allows.                                                             *)
(***************************************************************************)
EXTENDS Locks, ZEvent, TLAPS

-----------------------------------------------------------------------------
(* The events *)

\* A thread outside zas_wait_any has noted nothing, and one inside has a list.
WaitShape == /\ specs \in [Threads -> Seq(0..MaxSeq)]
             /\ \A t \in Threads : IF pc[t] = "idle" THEN specs[t] = <<>>
                                                    ELSE zasses[t] \in WaitLists

\* What a thread has noted of an event is out of date once the event is set:
\* the event was not set when the thread looked, and setting it changed the
\* word.  So nobody falls asleep on a set event.
NotesAreOld ==
    \A t \in Threads : \A i \in DOMAIN specs[t] :
       LET e == zasses[t][i] IN
       specs[t][i] <= seq[e] /\ (signal[e] => specs[t][i] < seq[e])

\* Nobody takes or resets an event while its signaller holds the mutex.
WakingIsSet == \A e \in waking : signal[e]

\* A thread at the start of its list, or of another look at it.
Starts(t, e) == pc[t] = "check" /\ specs[t] = <<>> /\ Waits(t, e)

\* A set event with sleepers is about to be looked at by a thread that has it
\* first on its list, and so cannot return with another event before.
Attended == \A e \in Events : signal[e] /\ e \notin waking =>
               /\ e \in Firsts /\ Sleepers(e) # {} => \E t \in Threads : Starts(t, e)
               /\ e \notin AutoReset => Sleepers(e) = {}

IInv == /\ TypeOK /\ WaitShape /\ NotesAreOld /\ Attended
        /\ WakingIsSet /\ OneReleasePerSignal

-----------------------------------------------------------------------------
\* What a list has is in the set it is a list over, as the events of a
\* zas_wait_any are among the events there are (zutex_sync.c:118-152).
LEMMA Element == \A S : \A q \in Seq(S) : \A i \in DOMAIN q : q[i] \in S
  OBVIOUS

\* The lists are of events, and none is empty.
LEMMA ListLength == \A list \in WaitLists : /\ list \in Seq(Events)
                                           /\ Len(list) \in Nat
                                           /\ Len(list) > 0
                                           /\ DOMAIN list = 1..Len(list)
<1> SUFFICES ASSUME NEW list \in WaitLists
             PROVE  /\ list \in Seq(Events)
                    /\ Len(list) \in Nat
                    /\ Len(list) > 0
                    /\ DOMAIN list = 1..Len(list)
  OBVIOUS
<1>1. list \in Seq(Events) /\ list # <<>>
  BY EventAssumption
<1> QED
  BY <1>1

\* A thread that is checking has an event to check.
LEMMA CurrentEvent ==
    TypeOK /\ WaitShape => \A t \in Threads : pc[t] = "check" =>
                 /\ Len(specs[t]) + 1 \in DOMAIN zasses[t]
                 /\ Current(t) \in Events
<1> SUFFICES ASSUME TypeOK, WaitShape, NEW t \in Threads, pc[t] = "check"
             PROVE  /\ Len(specs[t]) + 1 \in DOMAIN zasses[t]
                    /\ Current(t) \in Events
  OBVIOUS
<1>1. zasses[t] \in Seq(Events) /\ DOMAIN zasses[t] = 1..Len(zasses[t])
  BY ListLength DEF WaitShape
<1>2. Len(specs[t]) + 1 \in 1..Len(zasses[t])
  BY <1>1 DEF TypeOK
<1> QED
  BY <1>1, <1>2 DEF Current

\* What a thread has noted is of events.
LEMMA NotedEvent ==
    TypeOK /\ WaitShape => \A t \in Threads : \A i \in DOMAIN specs[t] :
                              zasses[t][i] \in Events
<1> SUFFICES ASSUME TypeOK, WaitShape, NEW t \in Threads, NEW i \in DOMAIN specs[t]
             PROVE  zasses[t][i] \in Events
  OBVIOUS
<1>1. i \in 1..Len(specs[t]) /\ Len(specs[t]) \in Nat
  BY DEF WaitShape
<1>2. zasses[t] \in WaitLists
  BY <1>1 DEF WaitShape
<1>3. zasses[t] \in Seq(Events) /\ Len(zasses[t]) \in Nat /\ i \in 1..Len(zasses[t])
  BY <1>1, <1>2, ListLength DEF TypeOK
<1> QED
  BY <1>3

\* What TypeOK and WaitShape say of one thread.
Shape(label, list, notes) ==
    /\ Len(notes) <= Len(list)
    /\ label = "check" => Len(notes) < Len(list)
    /\ label \in {"wait", "asleep"} => Len(notes) = Len(list)
    /\ IF label = "idle" THEN notes = <<>> ELSE list \in WaitLists

\* The shapes of the threads at each step of zas_wait_any (zutex_sync.c:118-153).
LEMMA Shapes ==
    /\ TypeOK /\ WaitShape
       <=> /\ seq \in [Events -> 0..MaxSeq]
           /\ signal \in [Events -> BOOLEAN]
           /\ waking \subseteq Events
           /\ pc \in [Threads -> {"idle", "check", "wait", "asleep"}]
           /\ zasses \in [Threads -> WaitLists \cup {<<>>}]
           /\ specs \in [Threads -> Seq(0..MaxSeq)]
           /\ released \in [AutoReset -> Nat]
           /\ \A t \in Threads : Shape(pc[t], zasses[t], specs[t])
    /\ Shape("idle", <<>>, <<>>)
    /\ \A list \in WaitLists : Shape("check", list, <<>>)
    /\ \A list \in WaitLists : \A notes \in Seq(0..MaxSeq) :
          /\ Shape("wait", list, notes) => Shape("asleep", list, notes)
          /\ Shape("check", list, notes) =>
                \A n \in 0..MaxSeq :
                   Shape(IF Len(notes) + 1 = Len(list) THEN "wait" ELSE "check",
                         list, Append(notes, n))
<1>1. TypeOK /\ WaitShape
       <=> /\ seq \in [Events -> 0..MaxSeq]
           /\ signal \in [Events -> BOOLEAN]
           /\ waking \subseteq Events
           /\ pc \in [Threads -> {"idle", "check", "wait", "asleep"}]
           /\ zasses \in [Threads -> WaitLists \cup {<<>>}]
           /\ specs \in [Threads -> Seq(0..MaxSeq)]
           /\ released \in [AutoReset -> Nat]
           /\ \A t \in Threads : Shape(pc[t], zasses[t], specs[t])
  BY DEF TypeOK, WaitShape, Shape
<1>2. Shape("idle", <<>>, <<>>)
  BY DEF Shape
<1>3. \A list \in WaitLists : Shape("check", list, <<>>)
  BY ListLength DEF Shape
<1>4. ASSUME NEW list \in WaitLists, NEW notes \in Seq(0..MaxSeq)
      PROVE  Shape("wait", list, notes) => Shape("asleep", list, notes)
  BY ListLength DEF Shape
<1>5. ASSUME NEW list \in WaitLists, NEW notes \in Seq(0..MaxSeq), NEW n \in 0..MaxSeq,
             Shape("check", list, notes)
      PROVE  Shape(IF Len(notes) + 1 = Len(list) THEN "wait" ELSE "check",
                   list, Append(notes, n))
  <2>1. Len(Append(notes, n)) = Len(notes) + 1 /\ Len(notes) \in Nat /\ Len(list) \in Nat
    BY ListLength
  <2> QED
    BY <1>5, <2>1 DEF Shape
<1> QED
  BY <1>1, <1>2, <1>3, <1>4, <1>5

\* The type of the state, and the notes of a thread outside zas_wait_any,
\* whatever thread or signaller steps (zutex_sync.c:118-220).
LEMMA EventType == TypeOK /\ WaitShape /\ [Next]_vars => TypeOK' /\ WaitShape'
<1> SUFFICES ASSUME TypeOK, WaitShape, [Next]_vars PROVE TypeOK' /\ WaitShape'
  OBVIOUS
<1> DEFINE Typed == /\ seq \in [Events -> 0..MaxSeq]
                    /\ signal \in [Events -> BOOLEAN]
                    /\ waking \subseteq Events
                    /\ pc \in [Threads -> {"idle", "check", "wait", "asleep"}]
                    /\ zasses \in [Threads -> WaitLists \cup {<<>>}]
                    /\ specs \in [Threads -> Seq(0..MaxSeq)]
                    /\ released \in [AutoReset -> Nat]
                    /\ \A t \in Threads : Shape(pc[t], zasses[t], specs[t])
<1>a. Typed
  BY Shapes
<1>b. SUFFICES Typed'
  BY DEF TypeOK, WaitShape, Shape
<1>c. \A t \in Threads : pc[t] # "idle" => zasses[t] \in WaitLists
  BY DEF WaitShape
<1>e. <<>> \in Seq(0..MaxSeq)
  OBVIOUS
<1> USE <1>a
<1>1. CASE UNCHANGED vars
  BY <1>1 DEF vars
<1>2. ASSUME NEW t \in Threads, NEW list \in WaitLists, zas_wait_any(t, list)
      PROVE  Typed'
  <2>1. specs[t] = <<>>
    BY <1>2 DEF zas_wait_any, WaitShape
  <2> QED
    BY <1>2, <2>1, Shapes DEF zas_wait_any, Goto
<1>3. ASSUME NEW t \in Threads, ReturnReady(t) PROVE Typed'
  <2>1. Current(t) \in Events
    BY <1>3, CurrentEvent DEF ReturnReady
  <2>2. signal' \in [Events -> BOOLEAN] /\ released' \in [AutoReset -> Nat]
    BY <1>3, <2>1 DEF ReturnReady
  <2> QED
    BY <1>3, <2>2, Shapes DEF ReturnReady, Goto
<1>4. ASSUME NEW t \in Threads, FillSpec(t) PROVE Typed'
  <2>1. seq[Current(t)] \in 0..MaxSeq /\ zasses[t] \in WaitLists
    BY <1>4, <1>c, CurrentEvent DEF FillSpec
  <2> DEFINE label == IF Len(specs[t]) + 1 = Len(zasses[t]) THEN "wait" ELSE "check"
             notes == Append(specs[t], seq[Current(t)])
  <2>2. notes \in Seq(0..MaxSeq) /\ label \in {"wait", "check"}
    BY <2>1
  <2>3. Shape(label, zasses[t], notes)
    BY <1>4, <2>1, Shapes DEF FillSpec
  <2>4. pc' = [pc EXCEPT ![t] = label] /\ specs' = [specs EXCEPT ![t] = notes]
    BY <1>4 DEF FillSpec, Goto
  <2>5. UNCHANGED <<seq, signal, waking, zasses, released>>
    BY <1>4 DEF FillSpec
  <2> HIDE DEF label, notes
  <2> QED
    BY <2>2, <2>3, <2>4, <2>5
<1>5. ASSUME NEW t \in Threads, zutex_wait(t) PROVE Typed'
  <2>1. Shape("asleep", zasses[t], specs[t]) /\ Shape("check", zasses[t], <<>>)
    BY <1>5, <1>c, Shapes DEF zutex_wait
  <2>2. CASE Matches(t)
    BY <1>5, <2>1, <2>2 DEF zutex_wait, Goto
  <2>3. CASE ~Matches(t)
    BY <1>5, <2>1, <2>3, <1>e DEF zutex_wait, Goto
  <2> QED
    BY <2>2, <2>3
<1>6. ASSUME NEW e \in Events, zevent_signal(e) PROVE Typed'
  BY <1>6, EventAssumption DEF zevent_signal
<1>7. ASSUME NEW e \in Events, SignalWake(e) PROVE Typed'
  <2>1. PICK S \in SUBSET Sleepers(e) : Awaken(S)
    BY <1>7 DEF SignalWake
  <2>2. \A t \in S : Shape("check", zasses[t], <<>>)
    BY <2>1, <1>c, Shapes DEF Sleepers
  <2>3. UNCHANGED <<seq, signal, zasses, released>> /\ waking' \subseteq Events
    BY <1>7 DEF SignalWake
  <2>4. /\ pc' \in [Threads -> {"idle", "check", "wait", "asleep"}]
        /\ specs' \in [Threads -> Seq(0..MaxSeq)]
    BY <2>1, <1>e DEF Awaken
  <2>5. ASSUME NEW t \in Threads PROVE Shape(pc'[t], zasses'[t], specs'[t])
    <3>1. CASE t \in S
      <4>1. pc'[t] = "check" /\ specs'[t] = <<>> /\ zasses'[t] = zasses[t]
        BY <3>1, <2>1, <2>3 DEF Awaken
      <4> QED
        BY <3>1, <4>1, <2>2
    <3>2. CASE t \notin S
      BY <3>2, <2>1, <2>3 DEF Awaken
    <3> QED
      BY <3>1, <3>2
  <2> QED
    BY <2>3, <2>4, <2>5
<1>8. ASSUME NEW e \in Events, zevent_reset(e) PROVE Typed'
  BY <1>8 DEF zevent_reset
<1> QED
  BY <1>1, <1>2, <1>3, <1>4, <1>5, <1>6, <1>7, <1>8 DEF Next, Step

\* A note is never newer than the word, and older once the event is set: the
\* check notes the word of an event that is not set, and zevent_signal changes
\* the word as it sets the event (zutex_sync.c:181-196, 204-215).
LEMMA EventNotes == TypeOK /\ WaitShape /\ NotesAreOld /\ [Next]_vars => NotesAreOld'
<1> SUFFICES ASSUME TypeOK, WaitShape, NotesAreOld, [Next]_vars,
                    NEW u \in Threads, NEW i \in DOMAIN specs'[u]
             PROVE  LET e == zasses'[u][i] IN
                    specs'[u][i] <= seq'[e] /\ (signal'[e] => specs'[u][i] < seq'[e])
  BY DEF NotesAreOld
<1> DEFINE Old == LET e == zasses[u][i] IN
                  specs[u][i] <= seq[e] /\ (signal[e] => specs[u][i] < seq[e])
<1>0. i \in DOMAIN specs[u] => Old
  BY DEF NotesAreOld
<1>e. DOMAIN <<>> = {}
  OBVIOUS
<1>1. ASSUME UNCHANGED vars PROVE Old'
  BY <1>1, <1>0 DEF vars
<1>2. ASSUME NEW t \in Threads, NEW list \in WaitLists, zas_wait_any(t, list)
      PROVE  Old'
  <2>1. specs[t] = <<>> /\ u # t
    BY <1>2, <1>e DEF zas_wait_any, WaitShape
  <2> QED
    BY <1>2, <2>1, <1>0 DEF zas_wait_any, TypeOK
<1>3. ASSUME NEW t \in Threads, ReturnReady(t) PROVE Old'
  <2>1. u # t
    BY <1>3, <1>e DEF ReturnReady, WaitShape
  <2>2. specs'[u] = specs[u] /\ zasses'[u] = zasses[u] /\ seq' = seq
    BY <1>3, <2>1 DEF ReturnReady, WaitShape, TypeOK
  <2>3. ASSUME NEW e, signal'[e], e \in Events PROVE signal[e]
    BY <1>3, <2>3 DEF ReturnReady, TypeOK
  <2>4. zasses[u][i] \in Events
    BY <2>2, NotedEvent
  <2> QED
    BY <2>2, <2>3, <2>4, <1>0
<1>4. ASSUME NEW t \in Threads, FillSpec(t) PROVE Old'
  <2>1. CASE u # t
    BY <1>4, <2>1, <1>0 DEF FillSpec, WaitShape
  <2>2. CASE u = t
    <3>1. specs'[t] = Append(specs[t], seq[Current(t)]) /\ specs[t] \in Seq(0..MaxSeq)
      BY <1>4 DEF FillSpec, WaitShape
    <3>2. seq[Current(t)] \in 0..MaxSeq
      BY <1>4, CurrentEvent DEF FillSpec, TypeOK
    <3>3. CASE i \in DOMAIN specs[t]
      <4>1. specs'[t][i] = specs[t][i]
        BY <3>1, <3>2, <3>3
      <4> QED
        BY <1>4, <2>2, <3>3, <4>1, <1>0 DEF FillSpec
    <3>4. CASE i \notin DOMAIN specs[t]
      <4>1. i = Len(specs[t]) + 1 /\ specs'[t][i] = seq[Current(t)]
        BY <2>2, <3>1, <3>2, <3>4
      <4>2. zasses'[t][i] = Current(t)
        BY <1>4, <4>1 DEF FillSpec, Current
      <4> QED
        BY <1>4, <2>2, <3>2, <4>1, <4>2 DEF FillSpec
    <3> QED
      BY <3>3, <3>4
  <2> QED
    BY <2>1, <2>2
<1>5. ASSUME NEW t \in Threads, zutex_wait(t) PROVE Old'
  <2>1. specs'[u] = specs[u] \/ specs'[u] = <<>>
    BY <1>5 DEF zutex_wait, WaitShape
  <2> QED
    BY <1>5, <2>1, <1>0, <1>e DEF zutex_wait
<1>6. ASSUME NEW e \in Events, zevent_signal(e) PROVE Old'
  <2>0. i \in DOMAIN specs[u] /\ specs[u] \in Seq(0..MaxSeq)
    BY <1>6 DEF zevent_signal, WaitShape
  <2>1. i \in DOMAIN specs[u] /\ specs[u][i] \in 0..MaxSeq
    BY <2>0, Element
  <2>2. zasses[u][i] \in Events
    BY <2>1, NotedEvent
  <2> QED
    BY <1>6, <2>1, <2>2, <1>0 DEF zevent_signal, TypeOK
<1>7. ASSUME NEW e \in Events, SignalWake(e) PROVE Old'
  <2>1. specs'[u] = specs[u] \/ specs'[u] = <<>>
    BY <1>7 DEF SignalWake, Awaken
  <2> QED
    BY <1>7, <2>1, <1>0, <1>e DEF SignalWake
<1>8. ASSUME NEW e \in Events, zevent_reset(e) PROVE Old'
  <2>1. i \in DOMAIN specs[u] /\ zasses[u][i] \in Events
    BY <1>8, NotedEvent DEF zevent_reset
  <2> QED
    BY <1>8, <2>1, <1>0 DEF zevent_reset, TypeOK
<1>9. Old'
  <2> HIDE DEF Old
  <2> QED
    BY <1>2, <1>3, <1>4, <1>5, <1>6, <1>7, <1>8, <1>1 DEF Next, Step
<1> QED
  BY <1>9

\* An event stays set while its signaller is still to wake its waiters, and an
\* auto-reset event ends no more waits than it was set, for every step of every
\* thread (zutex_sync.c:181-189, 204-215).
LEMMA EventCounts ==
    /\ TypeOK /\ WaitShape /\ [Next]_vars
    /\ WakingIsSet /\ OneReleasePerSignal
    => WakingIsSet' /\ OneReleasePerSignal'
<1> SUFFICES ASSUME TypeOK, WaitShape, [Next]_vars, WakingIsSet, OneReleasePerSignal
             PROVE  WakingIsSet' /\ OneReleasePerSignal'
  OBVIOUS
<1> USE EventAssumption DEF TypeOK, WakingIsSet, OneReleasePerSignal
<1>1. CASE UNCHANGED vars
  BY <1>1 DEF vars
<1>2. ASSUME NEW t \in Threads, NEW list \in WaitLists, zas_wait_any(t, list)
      PROVE  WakingIsSet' /\ OneReleasePerSignal'
  BY <1>2 DEF zas_wait_any
<1>3. ASSUME NEW t \in Threads, ReturnReady(t)
      PROVE  WakingIsSet' /\ OneReleasePerSignal'
  <2>1. Current(t) \in Events
    BY <1>3, CurrentEvent DEF ReturnReady
  <2>2. ASSUME NEW e \in Events, e # Current(t) PROVE signal'[e] = signal[e]
    BY <1>3, <2>2 DEF ReturnReady
  <2>3. WakingIsSet'
    BY <1>3, <2>2 DEF ReturnReady
  <2>4. ASSUME NEW e \in AutoReset
        PROVE  released'[e] + (IF signal'[e] THEN 1 ELSE 0) <= seq'[e]
    <3>1. CASE e = Current(t)
      <4>1. signal[e] /\ ~signal'[e]
        BY <1>3, <3>1 DEF ReturnReady
      <4> QED
        BY <1>3, <3>1, <4>1 DEF ReturnReady
    <3>2. CASE e # Current(t)
      BY <1>3, <2>2, <3>2 DEF ReturnReady
    <3> QED
      BY <3>1, <3>2
  <2> QED
    BY <2>3, <2>4
<1>4. ASSUME NEW t \in Threads, FillSpec(t) PROVE WakingIsSet' /\ OneReleasePerSignal'
  BY <1>4 DEF FillSpec
<1>5. ASSUME NEW t \in Threads, zutex_wait(t) PROVE WakingIsSet' /\ OneReleasePerSignal'
  BY <1>5 DEF zutex_wait
<1>6. ASSUME NEW e \in Events, zevent_signal(e)
      PROVE  WakingIsSet' /\ OneReleasePerSignal'
  BY <1>6 DEF zevent_signal
<1>7. ASSUME NEW e \in Events, SignalWake(e) PROVE WakingIsSet' /\ OneReleasePerSignal'
  BY <1>7 DEF SignalWake
<1>8. ASSUME NEW e \in Events, zevent_reset(e)
      PROVE  WakingIsSet' /\ OneReleasePerSignal'
  BY <1>8 DEF zevent_reset
<1> QED
  BY <1>1, <1>2, <1>3, <1>4, <1>5, <1>6, <1>7, <1>8 DEF Next, Step

\* A thread about to look at its list looks first at an event that is first in
\* every list it is in.
LEMMA StartsFirst ==
    TypeOK /\ WaitShape => \A t \in Threads : \A e \in Firsts :
                              Starts(t, e) => Current(t) = e
<1> SUFFICES ASSUME TypeOK, WaitShape, NEW t \in Threads, NEW e \in Firsts, Starts(t, e)
             PROVE  Current(t) = e
  OBVIOUS
<1>1. zasses[t] \in WaitLists /\ Len(specs[t]) = 0
  BY DEF Starts, WaitShape
<1>2. zasses[t][1] = e
  BY <1>1 DEF Firsts, Starts, Waits
<1> QED
  BY <1>1, <1>2 DEF Current

\* Nobody falls asleep on an event that is set: its note is out of date
\* (zutex_sync.c:147-151).
LEMMA NoSleepOnSet ==
    TypeOK /\ WaitShape /\ NotesAreOld =>
       \A t \in Threads : \A e \in Events :
          pc[t] = "wait" /\ Matches(t) /\ Waits(t, e) => ~signal[e]
<1> SUFFICES ASSUME TypeOK, WaitShape, NotesAreOld, NEW t \in Threads, NEW e \in Events,
                    pc[t] = "wait", Matches(t), Waits(t, e), signal[e]
             PROVE  FALSE
  OBVIOUS
<1>1. PICK i \in DOMAIN zasses[t] : zasses[t][i] = e
  BY DEF Waits
<1>2. zasses[t] \in WaitLists /\ Len(specs[t]) = Len(zasses[t])
  BY DEF TypeOK, WaitShape
<1>3. i \in DOMAIN specs[t]
  BY <1>1, <1>2, ListLength DEF WaitShape
<1>4. specs[t][i] < seq[e] /\ specs[t][i] = seq[e] /\ seq[e] \in Nat
  BY <1>1, <1>3 DEF NotesAreOld, Matches, TypeOK
<1> QED
  BY <1>4

\* No step takes the attention from a set event: only its own check by a thread
\* that starts its list ends that thread's start, and then the event is not set
\* or has no sleepers; only its signaller's wake ends the signalling
\* (zutex_sync.c:118-153, 177-220).
LEMMA EventAttended ==
    TypeOK /\ WaitShape /\ NotesAreOld /\ Attended /\ [Next]_vars => Attended'
<1> SUFFICES ASSUME TypeOK, WaitShape, NotesAreOld, Attended, [Next]_vars,
                    NEW e \in Events, signal'[e], e \notin waking'
             PROVE  /\ e \in Firsts /\ Sleepers(e)' # {}
                          => \E t \in Threads : Starts(t, e)'
                    /\ e \notin AutoReset => Sleepers(e)' = {}
  BY DEF Attended, Firsts
<1> DEFINE P == /\ e \in Firsts /\ Sleepers(e) # {}
                      => \E t \in Threads : Starts(t, e)
                /\ e \notin AutoReset => Sleepers(e) = {}
<1>0. signal[e] /\ e \notin waking => P
  BY DEF Attended
<1>1. ASSUME UNCHANGED vars PROVE P'
  <2>1. P' = P
    BY <1>1 DEF vars, Sleepers, Starts, Waits
  <2> QED
    BY <1>1, <1>0, <2>1 DEF vars
<1>2. ASSUME NEW t \in Threads, NEW list \in WaitLists, zas_wait_any(t, list)
      PROVE  P'
  <2>1. P /\ pc[t] = "idle" /\ pc'[t] = "check"
    BY <1>0, <1>2 DEF zas_wait_any, Goto, TypeOK
  <2>2. ASSUME NEW u \in Threads, u # t
        PROVE  pc'[u] = pc[u] /\ zasses'[u] = zasses[u] /\ specs'[u] = specs[u]
    BY <1>2, <2>2 DEF zas_wait_any, Goto, TypeOK
  <2>3. Sleepers(e)' = Sleepers(e)
    BY <2>1, <2>2 DEF Sleepers, Waits
  <2>4. ASSUME NEW u \in Threads, Starts(u, e) PROVE Starts(u, e)'
    BY <2>1, <2>2, <2>4 DEF Starts, Waits
  <2> QED
    BY <2>1, <2>3, <2>4
<1>3. ASSUME NEW t \in Threads, ReturnReady(t) PROVE P'
  <2>1. Current(t) \in Events
    BY <1>3, CurrentEvent DEF ReturnReady
  <2>2. signal[e] /\ e \notin waking
    BY <1>3 DEF ReturnReady, TypeOK
  <2>3. pc[t] = "check" /\ pc'[t] = "idle"
    BY <1>3 DEF ReturnReady, Goto, TypeOK
  <2>4. ASSUME NEW u \in Threads, u # t
        PROVE  pc'[u] = pc[u] /\ zasses'[u] = zasses[u] /\ specs'[u] = specs[u]
    BY <1>3, <2>4 DEF ReturnReady, Goto, TypeOK, WaitShape
  <2>5. Sleepers(e)' = Sleepers(e)
    BY <2>3, <2>4 DEF Sleepers, Waits
  <2>6. CASE Current(t) = e
    <3>1. e \notin AutoReset
      BY <1>3, <2>1, <2>6 DEF ReturnReady, TypeOK
    <3> QED
      BY <1>0, <2>2, <2>5, <3>1
  <2>7. CASE Current(t) # e
    <3>1. ASSUME NEW u \in Threads, e \in Firsts, Starts(u, e) PROVE Starts(u, e)'
      <4>1. u # t
        BY <2>7, <3>1, StartsFirst
      <4> QED
        BY <2>4, <3>1, <4>1 DEF Starts, Waits
    <3> QED
      BY <1>0, <2>2, <2>5, <3>1
  <2> QED
    BY <2>6, <2>7
<1>4. ASSUME NEW t \in Threads, FillSpec(t) PROVE P'
  <2>1. signal[e] /\ e \notin waking /\ pc[t] = "check"
    BY <1>4 DEF FillSpec
  <2>2. pc'[t] \in {"check", "wait"} /\ zasses' = zasses
    BY <1>4 DEF FillSpec, Goto, TypeOK
  <2>3. ASSUME NEW u \in Threads, u # t PROVE pc'[u] = pc[u] /\ specs'[u] = specs[u]
    BY <1>4, <2>3 DEF FillSpec, Goto, TypeOK, WaitShape
  <2>4. Sleepers(e)' = Sleepers(e)
    BY <2>1, <2>2, <2>3 DEF Sleepers, Waits
  <2>5. ASSUME NEW u \in Threads, e \in Firsts, Starts(u, e) PROVE Starts(u, e)'
    <3>1. u # t
      BY <1>4, <2>1, <2>5, StartsFirst DEF FillSpec
    <3> QED
      BY <2>2, <2>3, <2>5, <3>1 DEF Starts, Waits
  <2> QED
    BY <1>0, <2>1, <2>4, <2>5
<1>5. ASSUME NEW t \in Threads, zutex_wait(t) PROVE P'
  <2>1. signal[e] /\ e \notin waking /\ pc[t] = "wait" /\ zasses' = zasses
    BY <1>5 DEF zutex_wait
  <2>2. pc'[t] = "asleep" => ~Waits(t, e)
    BY <1>5, <2>1, NoSleepOnSet DEF zutex_wait, Goto, TypeOK
  <2>3. ASSUME NEW u \in Threads, u # t PROVE pc'[u] = pc[u] /\ specs'[u] = specs[u]
    BY <1>5, <2>3 DEF zutex_wait, Goto, TypeOK, WaitShape
  <2>4. Sleepers(e)' = Sleepers(e)
    BY <2>1, <2>2, <2>3 DEF Sleepers, Waits
  <2>5. ASSUME NEW u \in Threads, Starts(u, e) PROVE Starts(u, e)'
    BY <2>1, <2>3, <2>5 DEF Starts, Waits
  <2> QED
    BY <1>0, <2>1, <2>4, <2>5
<1>6. ASSUME NEW f \in Events, zevent_signal(f) PROVE P'
  <2>1. e # f /\ signal[e] /\ e \notin waking
    BY <1>6 DEF zevent_signal, TypeOK
  <2>2. P' = P
    BY <1>6 DEF zevent_signal, Sleepers, Starts, Waits
  <2> QED
    BY <1>0, <2>1, <2>2
<1>7. ASSUME NEW f \in Events, SignalWake(f) PROVE P'
  <2>1. PICK S \in SUBSET Sleepers(f) : Awaken(S)
    BY <1>7 DEF SignalWake
  <2>2. signal[e] /\ zasses' = zasses
    BY <1>7 DEF SignalWake
  <2>3. ASSUME NEW u \in Threads, u \notin S PROVE pc'[u] = pc[u] /\ specs'[u] = specs[u]
    BY <2>1, <2>3 DEF Awaken
  <2>4. ASSUME NEW u \in S PROVE u \in Threads /\ pc'[u] = "check" /\ specs'[u] = <<>>
    BY <2>1, <2>4 DEF Awaken, Sleepers
  <2>5. Sleepers(e)' = Sleepers(e) \ S
    BY <2>2, <2>3, <2>4 DEF Sleepers, Waits
  <2>6. CASE f # e
    <3>1. P
      BY <1>0, <1>7, <2>2, <2>6 DEF SignalWake
    <3>2. ASSUME NEW u \in Threads, Starts(u, e) PROVE Starts(u, e)'
      BY <2>2, <2>3, <2>4, <3>2 DEF Starts, Waits
    <3> QED
      BY <2>5, <3>1, <3>2
  <2>7. CASE f = e /\ e \notin AutoReset
    <3>1. Awaken(Sleepers(e))
      BY <1>7, <2>7 DEF SignalWake
    <3>2. Sleepers(e)' = {}
      BY <3>1, <2>2 DEF Awaken, Sleepers, Waits
    <3> QED
      BY <2>7, <3>2
  <2>8. CASE f = e /\ e \in AutoReset
    <3>1. CASE Sleepers(e) = {}
      BY <2>5, <2>8, <3>1
    <3>2. CASE Sleepers(e) # {}
      <4>1. PICK t \in Sleepers(e) : Awaken({t})
        BY SMTT(30), <1>7, <2>8, <3>2 DEF SignalWake
      <4>2. t \in Threads /\ Starts(t, e)'
        BY <4>1, <2>2 DEF Awaken, Starts, Sleepers, Waits
      <4> QED
        BY <2>8, <4>2
    <3> QED
      BY <3>1, <3>2
  <2> QED
    BY <2>6, <2>7, <2>8
<1>8. ASSUME NEW f \in Events, zevent_reset(f) PROVE P'
  <2>1. signal[e] /\ e \notin waking
    BY <1>8 DEF zevent_reset, TypeOK
  <2>2. P' = P
    BY <1>8 DEF zevent_reset, Sleepers, Starts, Waits
  <2> QED
    BY <1>0, <2>1, <2>2
<1>9. P'
  <2> HIDE DEF P
  <2> QED
    BY <1>1, <1>2, <1>3, <1>4, <1>5, <1>6, <1>7, <1>8 DEF Next, Step
<1> QED
  BY <1>9 DEF Firsts

\* zevent_init sets up a state of the invariant (zutex_sync.c:160-175).
LEMMA EventInit == Init => IInv
<1> SUFFICES ASSUME Init PROVE IInv
  OBVIOUS
<1>1. TypeOK /\ WaitShape
  BY EventAssumption DEF Init, TypeOK, WaitShape
<1>2. NotesAreOld
  BY DEF Init, NotesAreOld
<1>3. Attended /\ WakingIsSet /\ OneReleasePerSignal
  BY EventAssumption DEF Init, Attended, WakingIsSet, OneReleasePerSignal
<1> QED
  BY <1>1, <1>2, <1>3 DEF IInv

\* The invariant holds in every reachable state.
LEMMA EventInvariant == Spec => []IInv
<1>1. IInv /\ [Next]_vars => IInv'
  BY EventType, EventNotes, EventAttended, EventCounts DEF IInv
<1> QED
  BY EventInit, <1>1, PTL DEF Spec

\* An auto-reset event ends at most one wait per setting, for any threads,
\* events and lists: the check that takes the event clears it, and only
\* zevent_signal, which counts, sets it again (zutex_sync.c:181-189, 212-215).
THEOREM ZEventOneRelease == Spec => []OneReleasePerSignal
<1>1. IInv => OneReleasePerSignal
  BY DEF IInv
<1> QED
  BY EventInvariant, <1>1, PTL

\* A signal is not lost, for any threads, events and lists: while an event that
\* is first in every list is set, nobody sleeps on it or somebody awake is going
\* to look at it, and nobody at all sleeps on a manual-reset event that is set
\* (zutex_sync.c:118-153, 177-220).
THEOREM ZEventNoLostSignal == Spec => []NoLostSignal
<1>1. IInv => NoLostSignal
  <2> SUFFICES ASSUME IInv, NEW e \in Events, signal[e], e \notin waking
               PROVE  /\ e \in Firsts /\ Sleepers(e) # {}
                            => \E t \in Threads : WillCheck(t, e)
                      /\ e \notin AutoReset => Sleepers(e) = {}
    BY DEF IInv, NoLostSignal
  <2>1. ASSUME NEW t \in Threads, Starts(t, e) PROVE WillCheck(t, e)
    <3>1. PICK i \in DOMAIN zasses[t] : zasses[t][i] = e
      BY <2>1 DEF Starts, Waits
    <3>2. pc[t] = "check" /\ Len(specs[t]) = 0 /\ zasses[t] \in WaitLists
      BY <2>1 DEF Starts, IInv, WaitShape
    <3>3. i > 0
      BY <3>1, <3>2, ListLength
    <3> QED
      BY <3>1, <3>2, <3>3 DEF WillCheck
  <2> QED
    BY <2>1 DEF IInv, Attended
<1> QED
  BY EventInvariant, <1>1, PTL

-----------------------------------------------------------------------------
(* The semaphore *)

\* A wait record taken while the semaphore was unavailable ...
InCondWait(t) == sem_pc[t] \in {"check", "wait", "asleep", "relock"}

\* ... is not from the future, and is out of date once it is available;
Records == \A t \in Users : InCondWait(t) =>
              seq_value[t] <= sem_seq /\ (sem_c > 0 => seq_value[t] /= sem_seq)

\* a sleeper's record is up to date, or a broadcast is on its way to it.
SemSleepers == \A t \in Users : sem_pc[t] = "asleep" =>
               seq_value[t] = sem_seq \/ \E u \in Users : sem_pc[u] = "wake"

SemIInv == Sem!TypeOK /\ Sem!HoldsMutex /\ Records /\ SemSleepers

\* A new semaphore (sys_sem_new) satisfies the invariant.
LEMMA SemInit == Sem!Init => SemIInv
<1> SUFFICES ASSUME Sem!Init PROVE SemIInv
  OBVIOUS
<1>1. Sem!TypeOK
  <2>1. sem_mutex \in Users \cup {Nobody} /\ sem_c \in 0..1 /\ sem_seq \in 0..MaxSignals
    BY LocksAssumption DEF Sem!Init
  <2>2. sem_pc \in [Users -> Sem!PCs] /\ seq_value \in [Users -> 0..MaxSignals]
    BY LocksAssumption DEF Sem!Init, Sem!PCs
  <2>3. timed \in [Users -> BOOLEAN] /\ expired \in [Users -> BOOLEAN]
    BY Zenon DEF Sem!Init
  <2> QED
    BY <2>1, <2>2, <2>3, Zenon DEF Sem!TypeOK
<1>2. Sem!HoldsMutex
  BY LocksAssumption DEF Sem!Init, Sem!HoldsMutex
<1>3. Records /\ SemSleepers
  BY SMTT(30) DEF Sem!Init, Records, SemSleepers, InCondWait
<1> QED
  BY <1>1, <1>2, <1>3 DEF SemIInv

\* Every step keeps the types; the count stays 0 or 1.
LEMMA SemTypeStep == Sem!TypeOK /\ [Sem!Next]_(Sem!vars) => Sem!TypeOK'
<1> SUFFICES ASSUME Sem!TypeOK, [Sem!Next]_(Sem!vars) PROVE Sem!TypeOK'
  OBVIOUS
<1> USE DEF Sem!TypeOK, Sem!PCs, Sem!Goto
<1>1. ASSUME NEW t \in Users, NEW b \in BOOLEAN, Sem!sys_arch_sem_wait(t, b) PROVE Sem!TypeOK'
  <2>1. timed' \in [Users -> BOOLEAN]
    BY <1>1, Zenon DEF Sem!sys_arch_sem_wait
  <2> QED
    BY <1>1, <2>1 DEF Sem!sys_arch_sem_wait
<1>2. ASSUME NEW t \in Users, Sem!Wait(t) PROVE Sem!TypeOK'
  <2>1. CASE Sem!BeginCondWait(t)
    <3>1. expired' \in [Users -> BOOLEAN]
      BY <2>1, Zenon DEF Sem!BeginCondWait
    <3> QED
      BY <2>1, <3>1 DEF Sem!BeginCondWait
  <2>2. CASE Sem!Lock(t)
    BY <2>2 DEF Sem!Lock
  <2>3. CASE Sem!Take(t)
    BY <2>3 DEF Sem!Take
  <2>4. CASE Sem!SeenBroadcast(t) \/ Sem!TimedOut(t) \/ Sem!Prewait(t)
    BY <2>4 DEF Sem!SeenBroadcast, Sem!TimedOut, Sem!Prewait
  <2>5. CASE Sem!zutex_wait(t) \/ Sem!Postwait(t)
    BY <2>5 DEF Sem!zutex_wait, Sem!Postwait
  <2> QED
    BY <1>2, <2>1, <2>2, <2>3, <2>4, <2>5 DEF Sem!Wait
<1>3. ASSUME NEW t \in Users, Sem!Signal(t) PROVE Sem!TypeOK'
  <2>1. CASE Sem!Increment(t)
    <3>1. sem_seq' \in 0..MaxSignals
      BY <2>1, LocksAssumption DEF Sem!Increment
    <3> QED
      BY <2>1, <3>1 DEF Sem!Increment
  <2>2. CASE Sem!BroadcastWake(t)
    BY <2>2 DEF Sem!BroadcastWake
  <2> QED
    BY <1>3, <2>1, <2>2 DEF Sem!Signal
<1>4. ASSUME NEW t \in Users, Sem!TimerFires(t) PROVE Sem!TypeOK'
  <2>1. expired' \in [Users -> BOOLEAN]
    BY <1>4, Zenon DEF Sem!TimerFires
  <2> QED
    BY <1>4, <2>1 DEF Sem!TimerFires
<1>5. ASSUME NEW t \in Users, Sem!sys_sem_signal(t) PROVE Sem!TypeOK'
  BY <1>5 DEF Sem!sys_sem_signal
<1>6. CASE UNCHANGED Sem!vars
  BY SMTT(30), <1>6 DEF Sem!vars
<1> QED
  BY <1>1, <1>2, <1>3, <1>4, <1>5, <1>6 DEF Sem!Next

\* Every step keeps the mutex with the thread that is at a place under it.
LEMMA MutexStep == SemIInv /\ [Sem!Next]_(Sem!vars) => Sem!HoldsMutex'
<1> SUFFICES ASSUME SemIInv, [Sem!Next]_(Sem!vars) PROVE Sem!HoldsMutex'
  BY SMTT(30)
<1> USE LocksAssumption DEF SemIInv, Sem!TypeOK, Sem!HoldsMutex, Sem!Goto
<1>1. ASSUME NEW t \in Users, Sem!Wait(t) PROVE Sem!HoldsMutex'
  BY <1>1 DEF Sem!Wait, Sem!Lock, Sem!Take, Sem!BeginCondWait, Sem!SeenBroadcast, Sem!TimedOut, Sem!Prewait,
              Sem!zutex_wait, Sem!Postwait
<1>2. ASSUME NEW t \in Users, Sem!Signal(t) PROVE Sem!HoldsMutex'
  BY <1>2 DEF Sem!Signal, Sem!Increment, Sem!BroadcastWake
<1>3. ASSUME NEW t \in Users, Sem!TimerFires(t) PROVE Sem!HoldsMutex'
  BY <1>3 DEF Sem!TimerFires
<1>4. ASSUME NEW t \in Users, NEW b \in BOOLEAN,
             Sem!sys_arch_sem_wait(t, b) \/ Sem!sys_sem_signal(t) PROVE Sem!HoldsMutex'
  BY <1>4 DEF Sem!sys_arch_sem_wait, Sem!sys_sem_signal
<1>5. CASE UNCHANGED Sem!vars
  BY SMTT(30), <1>5 DEF Sem!vars
<1> QED
  BY <1>1, <1>2, <1>3, <1>4, <1>5 DEF Sem!Next

\* A signal changes the sequence number of every wait record older than it.
LEMMA RecordsStep == SemIInv /\ [Sem!Next]_(Sem!vars) => Records'
<1> SUFFICES ASSUME SemIInv, [Sem!Next]_(Sem!vars) PROVE Records'
  OBVIOUS
<1> USE LocksAssumption DEF SemIInv, Sem!TypeOK, Records, InCondWait, Sem!Goto
<1>1. ASSUME NEW t \in Users, Sem!Wait(t) PROVE Records'
  <2>1. CASE Sem!Take(t)
    BY <2>1 DEF Sem!Take
  <2>2. CASE Sem!BeginCondWait(t)
    BY <2>2 DEF Sem!BeginCondWait
  <2>3. CASE Sem!Lock(t) \/ Sem!SeenBroadcast(t) \/ Sem!TimedOut(t) \/ Sem!Prewait(t)
    BY <2>3 DEF Sem!Lock, Sem!SeenBroadcast, Sem!TimedOut, Sem!Prewait
  <2>4. CASE Sem!zutex_wait(t) \/ Sem!Postwait(t)
    BY <2>4 DEF Sem!zutex_wait, Sem!Postwait
  <2> QED
    BY <1>1, <2>1, <2>2, <2>3, <2>4 DEF Sem!Wait
<1>2. ASSUME NEW t \in Users, Sem!Signal(t) PROVE Records'
  BY <1>2 DEF Sem!Signal, Sem!Increment, Sem!BroadcastWake
<1>3. ASSUME NEW t \in Users, Sem!TimerFires(t) PROVE Records'
  BY <1>3 DEF Sem!TimerFires
<1>4. ASSUME NEW t \in Users, NEW b \in BOOLEAN,
             Sem!sys_arch_sem_wait(t, b) \/ Sem!sys_sem_signal(t) PROVE Records'
  BY <1>4 DEF Sem!sys_arch_sem_wait, Sem!sys_sem_signal
<1>5. CASE UNCHANGED Sem!vars
  BY SMTT(30), <1>5 DEF Sem!vars
<1> QED
  BY ZenonT(40), <1>1, <1>2, <1>3, <1>4, <1>5 DEF Sem!Next

\* A thread falls asleep only on an up-to-date record, and a signal that
\* makes the record old is followed by its broadcast.
LEMMA SleepersStep == SemIInv /\ [Sem!Next]_(Sem!vars) => SemSleepers'
<1> SUFFICES ASSUME SemIInv, [Sem!Next]_(Sem!vars) PROVE SemSleepers'
  OBVIOUS
<1> USE DEF SemIInv, Sem!TypeOK, SemSleepers, Sem!Goto
<1>1. ASSUME NEW t \in Users, Sem!Wait(t) PROVE SemSleepers'
  <2>1. CASE Sem!Lock(t) \/ Sem!Take(t) \/ Sem!SeenBroadcast(t) \/ Sem!TimedOut(t) \/ Sem!Prewait(t) \/ Sem!Postwait(t)
    BY <2>1 DEF Sem!Lock, Sem!Take, Sem!SeenBroadcast, Sem!TimedOut, Sem!Prewait, Sem!Postwait
  <2>2. CASE Sem!BeginCondWait(t)
    BY <2>2 DEF Sem!BeginCondWait
  <2>3. CASE Sem!zutex_wait(t)
    BY <2>3 DEF Sem!zutex_wait
  <2> QED
    BY <1>1, <2>1, <2>2, <2>3 DEF Sem!Wait
<1>2. ASSUME NEW t \in Users, Sem!Signal(t) PROVE SemSleepers'
  BY <1>2 DEF Sem!Signal, Sem!Increment, Sem!BroadcastWake
<1>3. ASSUME NEW t \in Users, Sem!TimerFires(t) PROVE SemSleepers'
  BY <1>3 DEF Sem!TimerFires
<1>4. ASSUME NEW t \in Users, NEW b \in BOOLEAN,
             Sem!sys_arch_sem_wait(t, b) \/ Sem!sys_sem_signal(t) PROVE SemSleepers'
  BY <1>4 DEF Sem!sys_arch_sem_wait, Sem!sys_sem_signal
<1>5. CASE UNCHANGED Sem!vars
  BY <1>5 DEF Sem!vars
<1> QED
  BY ZenonT(40), <1>1, <1>2, <1>3, <1>4, <1>5 DEF Sem!Next

\* The invariant holds throughout.
LEMMA SemInvariant == Sem!Spec => []SemIInv
<1>1. SemIInv /\ [Sem!Next]_(Sem!vars) => SemIInv'
  BY SemTypeStep, MutexStep, RecordsStep, SleepersStep DEF SemIInv
<1> QED
  BY <1>1, SemInit, PTL DEF Sem!Spec

\* cond_wait returns with the mutex, and no thread sleeps while the semaphore
\* can be taken: there is no gap between the release of the mutex and the
\* sleep that a signal could fall into.
THEOREM SysSemSafe == Sem!Spec => [](Sem!TypeOK /\ Sem!HoldsMutex /\ NoSleepPastSignal)
<1>1. SemIInv => Sem!TypeOK /\ Sem!HoldsMutex /\ NoSleepPastSignal
  BY DEF SemIInv, Records, SemSleepers, InCondWait, NoSleepPastSignal, Sem!NoSleepPastSignal
<1> QED
  BY <1>1, SemInvariant, PTL

\* A timed wait reports a timeout only while the semaphore is not available.
THEOREM SysSemTimeout == Sem!Spec => TimeoutMeansEmpty
<1>1. SemIInv /\ [Sem!Next]_(Sem!vars)
        => [\A t \in Users : sem_pc[t] = "check" /\ sem_pc'[t] = "idle" => sem_c = 0]_(Sem!vars)
  <2> SUFFICES ASSUME SemIInv, Sem!Next, NEW u \in Users, sem_pc[u] = "check", sem_pc'[u] = "idle"
               PROVE  sem_c = 0
    OBVIOUS
  <2> USE DEF SemIInv, Sem!TypeOK, Sem!Goto
  <2>1. ASSUME NEW t \in Users, Sem!Wait(t) PROVE sem_c = 0
    <3>1. Sem!TimedOut(t) /\ t = u
      BY <2>1 DEF Sem!Wait, Sem!Lock, Sem!Take, Sem!BeginCondWait, Sem!SeenBroadcast, Sem!TimedOut, Sem!Prewait,
                  Sem!zutex_wait, Sem!Postwait
    <3> QED
      BY SMTT(30), <3>1 DEF Sem!TimedOut, Records, InCondWait
  <2>2. ASSUME NEW t \in Users, Sem!Signal(t) PROVE sem_c = 0
    BY <2>2 DEF Sem!Signal, Sem!Increment, Sem!BroadcastWake
  <2>3. ASSUME NEW t \in Users, Sem!TimerFires(t) PROVE sem_c = 0
    BY <2>3 DEF Sem!TimerFires
  <2>4. ASSUME NEW t \in Users, NEW b \in BOOLEAN,
               Sem!sys_arch_sem_wait(t, b) \/ Sem!sys_sem_signal(t) PROVE sem_c = 0
    BY <2>4 DEF Sem!sys_arch_sem_wait, Sem!sys_sem_signal
  <2> QED
    BY <2>1, <2>2, <2>3, <2>4 DEF Sem!Next
<1> QED
  BY <1>1, SemInvariant, PTL DEF Sem!Spec, TimeoutMeansEmpty, Sem!TimeoutMeansEmpty

-----------------------------------------------------------------------------
(* The mutex *)

\* atomic_dec reads the word of a taken mutex, which is 1 or 2.
OldPositive == \A t \in Users : mutex_pc[t] = "dec" => old_val[t] \in 1..2

\* The inductive invariant of mutual exclusion: ownership and the word go
\* together, and a thread inside atomic_dec has read a nonzero word.
MutexIInv == /\ Mutex!TypeOK
             /\ OldPositive
             /\ Mutex!WordTellsOwnership
             /\ MutualExclusion

USE DEF Mutex!PCs, Mutex!Goto

\* zmutex_init establishes the invariant (zutex_sync.c:65-68).
LEMMA MutexInit == Mutex!Init => MutexIInv
  BY SMTT(30) DEF Mutex!Init, MutexIInv, Mutex!TypeOK, OldPositive, Mutex!WordTellsOwnership,
         MutualExclusion, Mutex!MutualExclusion, Mutex!Owners

\* Every instruction of zmutex_lock and zmutex_unlock keeps the invariant
\* (zutex_sync.c:74-95).
LEMMA MutexNext == MutexIInv /\ [Mutex!Next]_(Mutex!vars) => MutexIInv'
<1> USE DEF MutexIInv, Mutex!TypeOK, OldPositive, Mutex!WordTellsOwnership,
            MutualExclusion, Mutex!MutualExclusion, Mutex!Owners
<1> SUFFICES ASSUME MutexIInv, [Mutex!Next]_(Mutex!vars) PROVE MutexIInv'
    OBVIOUS
<1>1. ASSUME NEW t \in Users, Mutex!LockFast(t) PROVE MutexIInv'
    BY <1>1 DEF Mutex!LockFast
<1>2. ASSUME NEW t \in Users, Mutex!MarkContended(t) PROVE MutexIInv'
    BY <1>2 DEF Mutex!MarkContended
<1>3. ASSUME NEW t \in Users, Mutex!SimpleWait(t) PROVE MutexIInv'
    BY <1>3 DEF Mutex!SimpleWait
<1>4. ASSUME NEW t \in Users, Mutex!Retry(t) PROVE MutexIInv'
    BY <1>4 DEF Mutex!Retry
<1>5. ASSUME NEW t \in Users, Mutex!ReadOld(t) PROVE MutexIInv'
    BY <1>5 DEF Mutex!ReadOld
<1>6. ASSUME NEW t \in Users, Mutex!Decrement(t) PROVE MutexIInv'
    BY <1>6 DEF Mutex!Decrement
<1>7. ASSUME NEW t \in Users, Mutex!StoreZero(t) PROVE MutexIInv'
    BY <1>7 DEF Mutex!StoreZero
<1>8. ASSUME NEW t \in Users, Mutex!SimpleWake(t) PROVE MutexIInv'
    BY <1>8 DEF Mutex!SimpleWake, Mutex!asleep
<1>9. CASE UNCHANGED Mutex!vars
    BY <1>9 DEF Mutex!vars
<1> QED
    BY ZenonT(40), <1>1, <1>2, <1>3, <1>4, <1>5, <1>6, <1>7, <1>8, <1>9 DEF Mutex!Next, Mutex!Step

\* A ZMutex gives mutual exclusion to any number of threads, and its word
\* is 0 exactly while no thread owns it (zutex_sync.c:74-95).
THEOREM ZMutexSafe == 
    Mutex!Spec => [](Mutex!TypeOK /\ Mutex!WordTellsOwnership /\ MutualExclusion)
<1>1. MutexIInv => Mutex!TypeOK /\ Mutex!WordTellsOwnership /\ MutualExclusion
    BY SMTT(30) DEF MutexIInv
<1> QED
    BY MutexInit, MutexNext, <1>1, PTL DEF Mutex!Spec

-----------------------------------------------------------------------------
\* SemSleepers, contenders and wakers before and after a step (zutex_sync.c:79-94).
LEMMA MutexWakeStep ==
    MutexIInv /\ NoLostWake /\ [Mutex!Next]_(Mutex!vars) => NoLostWake'
<1> USE DEF MutexIInv, Mutex!TypeOK, OldPositive, NoLostWake, Mutex!NoLostWake,
            Mutex!asleep, Mutex!Contenders, Mutex!Wakers
<1> SUFFICES ASSUME MutexIInv, NoLostWake, [Mutex!Next]_(Mutex!vars) PROVE NoLostWake'
    OBVIOUS
<1>1. ASSUME NEW t \in Users, Mutex!LockFast(t) PROVE NoLostWake'
    BY <1>1 DEF Mutex!LockFast
<1>2. ASSUME NEW t \in Users, Mutex!MarkContended(t) PROVE NoLostWake'
    BY <1>2 DEF Mutex!MarkContended
<1>3. ASSUME NEW t \in Users, Mutex!SimpleWait(t) PROVE NoLostWake'
    BY <1>3 DEF Mutex!SimpleWait
<1>4. ASSUME NEW t \in Users, Mutex!Retry(t) PROVE NoLostWake'
    BY <1>4 DEF Mutex!Retry
<1>5. ASSUME NEW t \in Users, Mutex!ReadOld(t) PROVE NoLostWake'
    BY <1>5 DEF Mutex!ReadOld
<1>6. ASSUME NEW t \in Users, Mutex!Decrement(t) PROVE NoLostWake'
    BY <1>6 DEF Mutex!Decrement
<1>7. ASSUME NEW t \in Users, Mutex!StoreZero(t) PROVE NoLostWake'
    BY <1>7 DEF Mutex!StoreZero
<1>8. ASSUME NEW t \in Users, Mutex!SimpleWake(t) PROVE NoLostWake'
    BY <1>8 DEF Mutex!SimpleWake
<1>9. CASE UNCHANGED Mutex!vars
    BY <1>9 DEF Mutex!vars
<1> QED
    BY <1>1, <1>2, <1>3, <1>4, <1>5, <1>6, <1>7, <1>8, <1>9 DEF Mutex!Next, Mutex!Step

\* No thread sleeps on a ZMutex that nobody is going to wake: for any number
\* of threads, while one sleeps the word is 2 or another thread is on its way
\* to wake a sleeper or to mark the word (zutex_sync.c:79-84, 90-94).
THEOREM ZMutexNoLostWake == Mutex!Spec => []NoLostWake
<1>1. Mutex!Init => NoLostWake
    BY DEF Mutex!Init, NoLostWake, Mutex!NoLostWake, Mutex!asleep
<1> QED
    BY MutexInit, MutexNext, MutexWakeStep, <1>1, PTL DEF Mutex!Spec

-----------------------------------------------------------------------------
\* The word as the ABI sees it, and what the threads that sleep wait for.
Word == [z \in {"m"} |-> val]
Specs(t) == [z \in IF mutex_pc[t] = "asleep" THEN {"m"} ELSE {} |-> 2]

\* zmutex_init is an initial state of the ABI: nobody waits (zutex_sync.c:65-68).
LEMMA MutexInitABI == Mutex!Init => Mutex!ABI!Init
<1> SUFFICES ASSUME Mutex!Init PROVE Mutex!ABI!Init
    OBVIOUS
<1>1. Word \in [{"m"} -> 0..2]
    BY DEF Mutex!Init, Word
<1>2. [t \in Users |-> Specs(t)] = [t \in Users |-> Mutex!ABI!NoSpecs]
    BY DEF Mutex!Init, Specs, Mutex!ABI!NoSpecs
<1>3. Mutex!asleep = {}
    BY DEF Mutex!Init, Mutex!asleep
<1> QED
    BY <1>1, <1>2, <1>3 DEF Mutex!ABI!Init, Word, Specs

\* Every instruction of the mutex is a step the ABI allows: a wait that finds
\* the word at 2 is a Sleep, a wake of a sleeper is a Wake of one, and every
\* other step writes the word or is none of the ABI's business
\* (zutex_sync.c:74-95).
LEMMA MutexStepABI ==
    MutexIInv /\ [Mutex!Next]_(Mutex!vars) => [Mutex!ABI!Next]_(Mutex!ABI!zvars)
<1> SUFFICES ASSUME MutexIInv, [Mutex!Next]_(Mutex!vars)
             PROVE  Mutex!ABI!Next \/ UNCHANGED Mutex!ABI!zvars
    OBVIOUS
<1> DEFINE Asked == [t \in Users |-> Specs(t)]
<1> USE DEF Mutex!TypeOK
<1>1. Mutex!TypeOK /\ Mutex!TypeOK'
    BY MutexNext DEF MutexIInv
<1>2. Word \in [{"m"} -> 0..2] /\ Word' \in [{"m"} -> 0..2]
    BY <1>1 DEF Word
<1>3. ASSUME \A u \in Users : mutex_pc'[u] = "asleep" <=> mutex_pc[u] = "asleep"
      PROVE  Mutex!ABI!Store
    <2>1. Asked' = Asked /\ Mutex!asleep' = Mutex!asleep
        BY <1>3 DEF Specs, Mutex!asleep
    <2> QED
        BY <1>2, <2>1 DEF Mutex!ABI!Store, Word, Specs
<1>4. ASSUME NEW t \in Users,
             \/ Mutex!LockFast(t) \/ Mutex!MarkContended(t) \/ Mutex!Retry(t)
             \/ Mutex!ReadOld(t) \/ Mutex!Decrement(t) \/ Mutex!StoreZero(t)
      PROVE  Mutex!ABI!Store
    <2>1. \A u \in Users : mutex_pc'[u] = "asleep" <=> mutex_pc[u] = "asleep"
        BY <1>1, <1>4 DEF Mutex!LockFast, Mutex!MarkContended, Mutex!Retry, Mutex!ReadOld,
                          Mutex!Decrement, Mutex!StoreZero
    <2> QED
        BY <1>3, <2>1
<1>5. ASSUME NEW t \in Users, Mutex!SimpleWait(t)
      PROVE  Mutex!ABI!Next
    <2>1. CASE val # 2
        <3>1. \A u \in Users : mutex_pc'[u] = "asleep" <=> mutex_pc[u] = "asleep"
            BY <1>1, <1>5, <2>1 DEF Mutex!SimpleWait
        <3> QED
            BY <1>3, <3>1 DEF Mutex!ABI!Next
    <2>2. CASE val = 2
        <3> DEFINE ws == [z \in {"m"} |-> 2]
        <3>1. ws \in Mutex!ABI!WaitSpecs
            <4>1. ws \in [{"m"} -> 0..2] /\ {"m"} \in SUBSET {"m"}
                OBVIOUS
            <4> QED
                BY <4>1, Zenon DEF Mutex!ABI!WaitSpecs
        <3>2. /\ mutex_pc[t] = "wait"
              /\ mutex_pc' = [mutex_pc EXCEPT ![t] = "asleep"]
              /\ val' = val
            BY <1>5, <2>2 DEF Mutex!SimpleWait
        <3>3. Asked[t] = [z \in {} |-> 2]
            BY <3>2 DEF Specs
        <3>4. Asked' = [Asked EXCEPT ![t] = ws]
            BY <1>1, <3>2 DEF Specs
        <3>5. t \notin Mutex!asleep /\ Mutex!asleep' = Mutex!asleep \cup {t}
            BY <1>1, <3>2 DEF Mutex!asleep
        <3>6. \A z \in DOMAIN ws :
                 ws[z] = IF z \in DOMAIN Asked[t] THEN Asked[t][z] ELSE Word[z]
            BY <2>2, <3>3 DEF Word
        <3>7. DOMAIN Asked[t] \subseteq DOMAIN ws
            BY <3>3
        <3>8. Word' = Word
            BY SMTT(30), <3>2 DEF Word
        <3>9. Mutex!ABI!Sleep(t, ws)
            BY <3>4, <3>5, <3>6, <3>7, <3>8 DEF Mutex!ABI!Sleep, Word, Specs
        <3> QED
            BY <3>1, <3>9 DEF Mutex!ABI!Next
    <2> QED
        BY <2>1, <2>2
<1>6. ASSUME NEW t \in Users, Mutex!SimpleWake(t)
      PROVE  Mutex!ABI!Next
    <2>1. CASE Mutex!asleep = {}
        <3>1. \A u \in Users : mutex_pc'[u] = "asleep" <=> mutex_pc[u] = "asleep"
            BY <1>1, <1>6, <2>1 DEF Mutex!SimpleWake, Mutex!asleep
        <3> QED
            BY <1>3, <3>1 DEF Mutex!ABI!Next
    <2>2. CASE Mutex!asleep # {}
        <3>1. PICK u \in Mutex!asleep :
                 /\ mutex_pc[t] = "wake" /\ val' = val
                 /\ mutex_pc' = [mutex_pc EXCEPT ![t] = "idle", ![u] = "retry"]
            BY <1>6, <2>2 DEF Mutex!SimpleWake
        <3>2. u \in Users /\ mutex_pc[u] = "asleep"
            BY DEF Mutex!asleep
        <3>3. u \in Mutex!ABI!Waiters("m")
            BY <3>2 DEF Mutex!ABI!Waiters
        <3>4. {u} \in SUBSET Users /\ {u} \subseteq Mutex!ABI!Waiters("m")
            BY <3>2, <3>3
        <3>5. Asked' = [v \in Users |-> IF v \in {u} THEN Mutex!ABI!NoSpecs ELSE Asked[v]]
            BY <1>1, <3>1, <3>2 DEF Specs, Mutex!ABI!NoSpecs
        <3>6. Mutex!asleep' = Mutex!asleep \ {u}
            BY <1>1, <3>1, <3>2 DEF Mutex!asleep
        <3>7. Word' = Word
            BY <3>1 DEF Word
        <3>8. Mutex!ABI!Wake("m", {u})
            BY <3>4, <3>5, <3>6, <3>7 DEF Mutex!ABI!Wake, Word, Specs
        <3> QED
            BY <3>4, <3>8 DEF Mutex!ABI!Next
    <2> QED
        BY <2>1, <2>2
<1>7. CASE UNCHANGED Mutex!vars
    BY <1>7 DEF Mutex!vars, Mutex!ABI!zvars, Mutex!asleep
<1> QED
    BY <1>4, <1>5, <1>6, <1>7 DEF Mutex!Next, Mutex!Step, Mutex!ABI!Next

\* The mutex sleeps and wakes as the ABI allows, for any number of threads: it
\* falls asleep only while the word is what it saw, and only a wake of the
\* word makes a sleeper runnable (pal_zutex.h:27-108, zutex_sync.c:74-95).
THEOREM ZMutexIsZutex == Mutex!Spec => ZutexABI
<1>1. Mutex!Spec => []MutexIInv
    BY MutexInit, MutexNext, PTL DEF Mutex!Spec
<1> QED
    BY <1>1, MutexInitABI, MutexStepABI, PTL
       DEF Mutex!Spec, ZutexABI, Mutex!ZutexABI, Mutex!ABI!Spec
=============================================================================
