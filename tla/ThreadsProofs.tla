---------------------------- MODULE ThreadsProofs ----------------------------
(***************************************************************************)
(* For any number of threads, VCPUs and timers.  VCPUPool: the pool loses  *)
(* no VCPU, gives none to two threads, and a thread runs the guest on its  *)
(* own VCPU.  VCPUPause: pause sees a stopped thread.  ZClock: the alarm   *)
(* covers every timer.                                                     *)
(***************************************************************************)
EXTENDS AppThreads, WellFoundedInduction, TLAPS

\* The inductive invariant: what Recycle hands out is not held, because the
\* list and the holders are disjoint, and what Yield adds to the list was
\* held, because of where threads yield (HeldWhenNeeded).
IInv == TypeOK /\ Conservation /\ HeldWhenNeeded /\ FreeIsAnnounced

USE MaxVCPUsAssumption, RootAssumption

\* Before the first claim nothing is created, free or held.
LEMMA InitIInv == Init => IInv
<1> SUFFICES ASSUME Init PROVE IInv
    BY Zenon
<1>1. TypeOK
  <2>1. vcpu \in [Threads -> VCPUs \cup {NoVCPU}]
      BY Zenon DEF Init, NoVCPU
  <2>2. pc \in [Threads -> Places]
      BY Zenon DEF Init, Places
  <2>3. next_ident \in 0..MaxVCPUs
      BY DEF Init
  <2>4. free_list \in Seq(VCPUs)
      BY DEF Init
  <2>5. all_vcpus_used \in BOOLEAN /\ event_is_set \in BOOLEAN
      BY Zenon DEF Init
  <2> QED BY Zenon, <2>1, <2>2, <2>3, <2>4, <2>5 DEF Init, TypeOK
<1>2. Free = {} /\ Held = {}
    BY DEF Init, Free, Held
<1>3. Conservation
    BY <1>2 DEF Init, Conservation
<1>4. HeldWhenNeeded
    BY Zenon DEF Init, HeldWhenNeeded
<1>5. FreeIsAnnounced
    BY Zenon DEF Init, FreeIsAnnounced
<1> QED BY Zenon, <1>1, <1>3, <1>4, <1>5 DEF IInv

\* The steps that move neither a VCPU nor the free list.
Quiet(t) == \/ KeepVCPU(t) \/ AwaitFree(t) \/ EventWait(t) \/ SpuriousWake(t)
            \/ Exit(t) \/ ShortCall(t) \/ Block(t) \/ Unblock(t)
            \/ \E u \in Threads : thread_create(t, u)

\* pthread_cond_signal only takes threads out of the wait.
LEMMA CondSignalShrinks == CondSignal => cond' \subseteq cond
BY Zenon DEF CondSignal

\* Every step keeps the types.
LEMMA TypeStep == TypeOK /\ HeldWhenNeeded /\ [Next]_vars => TypeOK'
<1> SUFFICES ASSUME TypeOK, HeldWhenNeeded, [Next]_vars PROVE TypeOK'
    BY Zenon
<1> USE DEF TypeOK, Places, Goto, VCPUs, NoVCPU
<1>1. CASE UNCHANGED vars
    BY Zenon, <1>1 DEF vars
<1>2. ASSUME NEW t \in Threads, Quiet(t) PROVE TypeOK'
  <2>1. CASE AwaitFree(t)
      BY Zenon, <2>1, CondSignalShrinks DEF AwaitFree
  <2>2. CASE EventWait(t)
      BY Zenon, <2>2 DEF EventWait
  <2>3. CASE SpuriousWake(t)
      BY Zenon, <2>3 DEF SpuriousWake
  <2>4. CASE KeepVCPU(t) \/ Exit(t) \/ ShortCall(t) \/ Block(t) \/ Unblock(t)
      BY Zenon, <2>4 DEF KeepVCPU, Exit, ShortCall, Block, Unblock
  <2>5. CASE \E u \in Threads : thread_create(t, u)
      BY Zenon, <2>5 DEF thread_create
  <2> QED BY Zenon, <1>2, <2>1, <2>2, <2>3, <2>4, <2>5 DEF Quiet
<1>3. ASSUME NEW t \in Threads, Recycle(t) PROVE TypeOK'
    BY <1>3 DEF Recycle
<1>4. ASSUME NEW t \in Threads, Create(t) PROVE TypeOK'
    BY <1>4 DEF Create
<1>5. ASSUME NEW t \in Threads, yield_kvm_vcpu(t), vcpu[t] /= NoVCPU,
             Goto(t, "zutex_sleep") \/ Goto(t, "exited"),
             UNCHANGED <<next_ident, all_vcpus_used>>, pc[t] /= "event_wait"
      PROVE TypeOK'
  <2>1. free_list' \in Seq(VCPUs)
      BY <1>5 DEF yield_kvm_vcpu
  <2>2. cond' \subseteq cond
      BY Zenon, <1>5, CondSignalShrinks DEF yield_kvm_vcpu
  <2> QED BY Zenon, <1>5, <2>1, <2>2 DEF yield_kvm_vcpu
<1>6. ASSUME NEW t \in Threads, Yield(t) \/ thread_exit(t) PROVE TypeOK'
    BY Zenon, <1>5, <1>6 DEF Yield, thread_exit, HeldWhenNeeded
<1> QED BY Zenon, <1>1, <1>2, <1>3, <1>4, <1>6 DEF Next, Quiet

\* The steps that move no VCPU disturb none of the sets Conservation counts.
LEMMA QuietConserves ==
    ASSUME Conservation, UNCHANGED <<free_list, next_ident, vcpu>>
    PROVE  Conservation'
BY DEF Conservation, Free, Held

\* allocate hands out a VCPU that was free, hence not held.
LEMMA RecycleConserves ==
    ASSUME TypeOK, Conservation, NEW t \in Threads, Recycle(t)
    PROVE  Conservation'
<1> DEFINE v == Head(free_list)
<1>1. /\ free_list /= <<>> /\ free_list' = Tail(free_list)
      /\ vcpu[t] = NoVCPU /\ vcpu' = [vcpu EXCEPT ![t] = v] /\ next_ident' = next_ident
    BY Zenon DEF Recycle
<1>2. Len(free_list) >= 1 /\ v = free_list[1] /\ free_list \in Seq(VCPUs)
    BY <1>1 DEF TypeOK
<1>3. DOMAIN free_list = 1..Len(free_list) /\ DOMAIN free_list' = 1..(Len(free_list) - 1)
    BY <1>1, <1>2
<1>4. \A i \in DOMAIN free_list' : free_list'[i] = free_list[i + 1] /\ i + 1 \in DOMAIN free_list
    BY <1>1, <1>2, <1>3
<1>5. \A i \in DOMAIN free_list : i /= 1 => i - 1 \in DOMAIN free_list' /\ free_list[i] = free_list'[i - 1]
    BY <1>1, <1>2, <1>3
<1>6. v \in Free /\ v \in VCPUs /\ v /= NoVCPU
    BY <1>2, <1>3 DEF Free, VCPUs, NoVCPU
<1>7. Free' = Free \ {v}
  <2>1. \A i, j \in DOMAIN free_list : free_list[i] = free_list[j] => i = j
      BY Zenon DEF Conservation
  <2>2. ASSUME NEW x \in Free' PROVE x \in Free \ {v}
    <3>1. PICK i \in DOMAIN free_list' : x = free_list'[i]
        BY Zenon, <2>2 DEF Free
    <3>2. i + 1 /= 1 /\ 1 \in DOMAIN free_list
        BY <1>2, <1>3, <3>1
    <3> QED BY Zenon, <1>2, <1>4, <2>1, <3>1, <3>2 DEF Free
  <2>3. ASSUME NEW x \in Free \ {v} PROVE x \in Free'
    <3>1. PICK i \in DOMAIN free_list : x = free_list[i]
        BY Zenon, <2>3 DEF Free
    <3>2. i /= 1
        BY Zenon, <1>2, <2>3, <3>1
    <3> QED BY Zenon, <1>5, <3>1, <3>2 DEF Free
  <2> QED BY Zenon, <2>2, <2>3
<1>8. Held' = Held \cup {v}
    BY Zenon, <1>1, <1>6 DEF Held, TypeOK
<1>9. \A i, j \in DOMAIN free_list' : free_list'[i] = free_list'[j] => i = j
  <2> SUFFICES ASSUME NEW i \in DOMAIN free_list', NEW j \in DOMAIN free_list',
                      free_list'[i] = free_list'[j]
               PROVE  i = j
      BY Zenon
  <2>1. i + 1 = j + 1
      BY Zenon, <1>4 DEF Conservation
  <2> QED BY <1>2, <1>3, <2>1
<1>10. \A a, b \in Threads : vcpu'[a] = vcpu'[b] /\ vcpu'[a] /= NoVCPU => a = b
  <2>1. \A a \in Threads : a /= t => vcpu'[a] = vcpu[a]
      BY Zenon, <1>1 DEF TypeOK
  <2>2. \A a \in Threads : vcpu[a] /= v
      BY Zenon, <1>6 DEF Conservation, Held
  <2> QED BY Zenon, <1>1, <2>1, <2>2 DEF TypeOK, Conservation
<1> QED BY <1>1, <1>6, <1>7, <1>8, <1>9, <1>10 DEF Conservation, NoVCPU

\* A created VCPU has a number no VCPU had.
LEMMA CreateConserves ==
    ASSUME TypeOK, Conservation, NEW t \in Threads, Create(t)
    PROVE  Conservation'
<1>1. /\ free_list' = free_list /\ next_ident' = next_ident + 1 /\ next_ident \in VCPUs
      /\ vcpu[t] = NoVCPU /\ vcpu' = [vcpu EXCEPT ![t] = next_ident]
    BY DEF Create, TypeOK, VCPUs
<1>2. Free' = Free
    BY Zenon, <1>1 DEF Free
<1>3. next_ident /= NoVCPU /\ next_ident \notin Free \cup Held
    BY <1>1 DEF Conservation, VCPUs, NoVCPU
<1>4. Held' = Held \cup {next_ident}
    BY Zenon, <1>1, <1>3 DEF Held, TypeOK
<1>5. 0..(next_ident' - 1) = (0..(next_ident - 1)) \cup {next_ident}
    BY <1>1 DEF TypeOK
<1>6. \A a, b \in Threads : vcpu'[a] = vcpu'[b] /\ vcpu'[a] /= NoVCPU => a = b
  <2>1. \A a \in Threads : a /= t => vcpu'[a] = vcpu[a]
      BY Zenon, <1>1 DEF TypeOK
  <2>2. \A a \in Threads : vcpu[a] /= next_ident
      BY Zenon, <1>3 DEF Held
  <2> QED BY Zenon, <1>1, <2>1, <2>2 DEF TypeOK, Conservation
<1> QED BY <1>1, <1>2, <1>3, <1>4, <1>5, <1>6 DEF Conservation

\* A VCPU that is given back was held, hence not in the list yet.
LEMMA YieldConserves ==
    ASSUME TypeOK, Conservation, NEW t \in Threads, vcpu[t] /= NoVCPU,
           yield_kvm_vcpu(t), next_ident' = next_ident
    PROVE  Conservation'
<1> DEFINE v == vcpu[t]
<1>1. free_list' = <<v>> \o free_list /\ vcpu' = [vcpu EXCEPT ![t] = NoVCPU]
    BY Zenon DEF yield_kvm_vcpu
<1>2. v \in VCPUs /\ v \in Held /\ v \notin Free /\ free_list \in Seq(VCPUs)
    BY Zenon DEF TypeOK, Conservation, Held
<1>3. /\ DOMAIN free_list = 1..Len(free_list) /\ DOMAIN free_list' = 1..(Len(free_list) + 1)
      /\ Len(free_list) \in Nat
    BY <1>1, <1>2
<1>4. free_list'[1] = v
    BY <1>1, <1>2
<1>5. \A i \in DOMAIN free_list' : i /= 1 => i - 1 \in DOMAIN free_list /\ free_list'[i] = free_list[i - 1]
    BY <1>1, <1>2, <1>3
<1>6. \A i \in DOMAIN free_list : i + 1 \in DOMAIN free_list' /\ free_list'[i + 1] = free_list[i]
    BY <1>1, <1>2, <1>3
<1>7. Free' = Free \cup {v}
  <2>1. ASSUME NEW x \in Free' PROVE x \in Free \cup {v}
    <3>1. PICK i \in DOMAIN free_list' : x = free_list'[i]
        BY Zenon, <2>1 DEF Free
    <3> QED BY Zenon, <1>4, <1>5, <3>1 DEF Free
  <2>2. Free \subseteq Free'
      BY Zenon, <1>6 DEF Free
  <2>3. v \in Free'
      BY <1>3, <1>4 DEF Free
  <2> QED BY Zenon, <2>1, <2>2, <2>3
<1>8. \A a \in Threads : vcpu'[a] = IF a = t THEN NoVCPU ELSE vcpu[a]
    BY Zenon, <1>1 DEF TypeOK
<1>9. Held' = Held \ {v}
    BY <1>8 DEF Held, Conservation
<1>10. \A i, j \in DOMAIN free_list' : free_list'[i] = free_list'[j] => i = j
  <2> SUFFICES ASSUME NEW i \in DOMAIN free_list', NEW j \in DOMAIN free_list',
                      free_list'[i] = free_list'[j]
               PROVE  i = j
      BY Zenon
  <2>1. CASE i = 1 \/ j = 1
      BY <1>2, <1>4, <1>5, <2>1 DEF Free
  <2>2. CASE i /= 1 /\ j /= 1
    <3>1. i - 1 = j - 1
        BY <1>5, <2>2 DEF Conservation
    <3> QED BY <1>3, <3>1
  <2> QED BY Zenon, <2>1, <2>2
<1>11. \A a, b \in Threads : vcpu'[a] = vcpu'[b] /\ vcpu'[a] /= NoVCPU => a = b
    BY Zenon, <1>8 DEF Conservation
<1> QED BY <1>2, <1>7, <1>9, <1>10, <1>11 DEF Conservation

\* A thread holds a VCPU exactly where it should, step by step.
LEMMA HeldStep == TypeOK /\ HeldWhenNeeded /\ [Next]_vars => HeldWhenNeeded'
<1> SUFFICES ASSUME TypeOK, HeldWhenNeeded, [Next]_vars PROVE HeldWhenNeeded'
    BY Zenon
<1> USE DEF TypeOK, HeldWhenNeeded, Goto
<1>1. CASE UNCHANGED vars
    BY Zenon, <1>1 DEF vars
<1>2. ASSUME NEW t \in Threads, Quiet(t) PROVE HeldWhenNeeded'
  <2>1. CASE AwaitFree(t) \/ EventWait(t) \/ SpuriousWake(t)
      BY Zenon, <2>1 DEF AwaitFree, EventWait, SpuriousWake
  <2>2. CASE KeepVCPU(t) \/ Exit(t) \/ ShortCall(t) \/ Block(t) \/ Unblock(t)
      BY ZenonT(40), <2>2 DEF KeepVCPU, Exit, ShortCall, Block, Unblock
  <2>3. CASE \E u \in Threads : thread_create(t, u)
      BY Zenon, <2>3 DEF thread_create
  <2> QED BY Zenon, <1>2, <2>1, <2>2, <2>3 DEF Quiet
<1>3. ASSUME NEW t \in Threads, Recycle(t) PROVE HeldWhenNeeded'
  <2>1. Head(free_list) \in VCPUs
      BY <1>3 DEF Recycle
  <2> QED BY <1>3, <2>1 DEF Recycle, VCPUs, NoVCPU
<1>4. ASSUME NEW t \in Threads, Create(t) PROVE HeldWhenNeeded'
    BY <1>4 DEF Create, NoVCPU
<1>5. ASSUME NEW t \in Threads, Yield(t) \/ thread_exit(t) PROVE HeldWhenNeeded'
    BY Zenon, <1>5 DEF Yield, thread_exit, yield_kvm_vcpu
<1> QED BY Zenon, <1>1, <1>2, <1>3, <1>4, <1>5 DEF Next, Quiet

\* The event is reset only while no VCPU is free, and set by the free that
\* ends that.
LEMMA AnnouncedStep == FreeIsAnnounced /\ [Next]_vars => FreeIsAnnounced'
<1> SUFFICES ASSUME FreeIsAnnounced, [Next]_vars PROVE FreeIsAnnounced'
    BY Zenon
<1> USE DEF FreeIsAnnounced
<1>1. CASE UNCHANGED vars
    BY Zenon, <1>1 DEF vars
<1>2. ASSUME NEW t \in Threads, Quiet(t) PROVE FreeIsAnnounced'
  <2>1. CASE AwaitFree(t)
      BY Zenon, <2>1 DEF AwaitFree
  <2>2. CASE ~AwaitFree(t)
      BY Zenon, <1>2, <2>2 DEF Quiet, KeepVCPU, EventWait, SpuriousWake, Exit,
         ShortCall,
                        Block, Unblock, thread_create
  <2> QED BY Zenon, <2>1, <2>2
<1>3. ASSUME NEW t \in Threads, Recycle(t) \/ Create(t) PROVE FreeIsAnnounced'
    BY Zenon, <1>3 DEF Recycle, Create
<1>4. ASSUME NEW t \in Threads, Yield(t) \/ thread_exit(t) PROVE FreeIsAnnounced'
    BY Zenon, <1>4 DEF Yield, thread_exit, yield_kvm_vcpu
<1> QED BY Zenon, <1>1, <1>2, <1>3, <1>4 DEF Next, Quiet

\* The invariant is inductive.
LEMMA NextIInv == IInv /\ [Next]_vars => IInv'
<1> SUFFICES ASSUME IInv, [Next]_vars PROVE IInv'
    BY Zenon
<1>1. TypeOK' /\ HeldWhenNeeded' /\ FreeIsAnnounced'
    BY Zenon, TypeStep, HeldStep, AnnouncedStep DEF IInv
<1>2. Conservation'
  <2>1. CASE UNCHANGED vars
      BY Zenon, <2>1, QuietConserves DEF IInv, vars
  <2>2. ASSUME NEW t \in Threads, Quiet(t) PROVE Conservation'
    <3>1. UNCHANGED <<free_list, next_ident, vcpu>>
        BY Zenon, <2>2 DEF Quiet, KeepVCPU, AwaitFree, EventWait, SpuriousWake,
           Exit, ShortCall,
                    Block, Unblock, thread_create
    <3> QED BY Zenon, <3>1, QuietConserves DEF IInv
  <2>3. ASSUME NEW t \in Threads, Recycle(t) PROVE Conservation'
      BY Zenon, <2>3, RecycleConserves DEF IInv
  <2>4. ASSUME NEW t \in Threads, Create(t) PROVE Conservation'
      BY Zenon, <2>4, CreateConserves DEF IInv
  <2>5. ASSUME NEW t \in Threads, Yield(t) \/ thread_exit(t) PROVE Conservation'
    <3>1. vcpu[t] /= NoVCPU /\ yield_kvm_vcpu(t) /\ next_ident' = next_ident
        BY Zenon, <2>5 DEF Yield, thread_exit, IInv, HeldWhenNeeded
    <3> QED BY Zenon, <3>1, YieldConserves DEF IInv
  <2> QED BY Zenon, <2>1, <2>2, <2>3, <2>4, <2>5 DEF Next, Quiet
<1> QED BY Zenon, <1>1, <1>2 DEF IInv

\* For any set of threads and any limit of the kernel, every VCPU created is
\* in the free list once or allocated to exactly one thread, threads run the
\* guest on their own VCPU, threads asleep without a bound hold none, and a
\* free VCPU is announced (VCPUPool.cpp:111-163, ZoogVCPU.cpp:300-347, ZutexWaiter.cpp:11-24).
THEOREM VCPUPoolSafe == Spec => [](TypeOK /\ Conservation /\ HeldWhenNeeded /\ FreeIsAnnounced)
<1>1. IInv => TypeOK /\ Conservation /\ HeldWhenNeeded /\ FreeIsAnnounced
    BY Zenon DEF IInv
<1> QED BY InitIInv, NextIInv, <1>1, PTL DEF Spec

\* In particular, for any threads and VCPUs: while a VCPU is free and none can
\* be created, a thread that comes to wait is let through by the event
\* (VCPUPool.cpp:126-163).
THEOREM VCPUPoolAnnounces == Spec => []FreeIsAnnounced
<1> QED BY VCPUPoolSafe, PTL

-----------------------------------------------------------------------------
(* VCPUPause *)

PausePlaces == {"unborn", "run", "test", "park", "before_wait", "parked", "go", "enter", "guest",
           "exited", "dying", "handler", "dead"}

\* The main thread is at a VCPU of the list while it tests or signals it; the
\* threads that do not exist yet are those behind the list.
PauseTypeOK ==
    /\ count \in 1..MaxVCPUs /\ cur \in Nat \ {0}
    /\ ppc \in {"test", "before_wait", "waiting", "signal"} => cur \in Pause!Listed
    /\ vpc \in [Pause!VCPU -> PausePlaces]
    /\ is_paused_flag \in [Pause!VCPU -> BOOLEAN]
    /\ pause_control_flag \in [Pause!VCPU -> BOOLEAN]
    /\ \A v \in Pause!VCPU : v > count => vpc[v] = "unborn"

\* The flag is clear from before the thread enters the guest until after it
\* has left it.
FlagIsClear == \A v \in Pause!VCPU :
                  vpc[v] \in {"enter", "guest", "exited"} => ~is_paused_flag[v]

PauseIInv == PauseTypeOK /\ FlagIsClear

\* At first no thread is asked to pause, and none has begun.
LEMMA PauseInit == Pause!Init => PauseIInv
  BY MaxVCPUsAssumption DEF Pause!Init, PauseIInv, PauseTypeOK, FlagIsClear, PausePlaces,
     Pause!VCPU, Pause!Listed

\* What a step may not do.
Holding == /\ ppc = "test" /\ ppc' = "pause" => vpc[cur] # "guest"
           /\ \A v \in Pause!VCPU : pause_control_flag[v] /\ Pause!Held(v) => Pause!Held(v)'

\* The steps of a thread (ZoogVCPU.cpp:345-420).
LEMMA VCPUKeeps ==
    ASSUME PauseIInv, NEW v \in Pause!VCPU, Pause!VCPUStep(v)
    PROVE  PauseIInv' /\ Holding
<1> USE MaxVCPUsAssumption DEF PauseIInv, PauseTypeOK, FlagIsClear, Holding, Pause!Held,
        Pause!Parking, PausePlaces, Pause!VCPU, Pause!Listed, Pause!Move, Pause!SetPausedFlag
<1>1. CASE Pause!Start(v)
  BY Zenon, <1>1 DEF Pause!Start
<1>2. CASE Pause!TestControl(v)
  BY Zenon, <1>2 DEF Pause!TestControl
<1>3. CASE Pause!Park(v)
  BY Zenon, <1>3 DEF Pause!Park, Pause!SignalHasPaused
<1>4. CASE Pause!WaitDone(v)
  BY Zenon, <1>4 DEF Pause!WaitDone
<1>5. CASE Pause!ClearPaused(v)
  BY Zenon, <1>5 DEF Pause!ClearPaused
<1>6. CASE Pause!Enter(v)
  BY Zenon, <1>6 DEF Pause!Enter
<1>7. CASE Pause!Exit(v)
  BY Zenon, <1>7 DEF Pause!Exit
<1>8. CASE Pause!SetPaused(v)
  BY ZenonT(40), <1>8 DEF Pause!SetPaused
<1>9. CASE Pause!HandlerDone(v)
  BY Zenon, <1>9 DEF Pause!HandlerDone
<1>10. CASE Pause!thread_create(v)
  BY <1>10 DEF Pause!thread_create
<1>11. CASE Pause!kablooey(v)
  BY Zenon, <1>11 DEF Pause!kablooey, Pause!SignalHasPaused
<1> QED
  BY Zenon, <1>1, <1>2, <1>3, <1>4, <1>5, <1>6, <1>7, <1>8, <1>9, <1>10,
     <1>11 DEF Pause!VCPUStep

\* The steps of the main thread (ZoogVCPU.cpp:270-343).
LEMMA MainKeeps ==
    ASSUME PauseIInv, Pause!MainStep
    PROVE  PauseIInv' /\ Holding
<1> USE MaxVCPUsAssumption DEF PauseIInv, PauseTypeOK, FlagIsClear, Holding, Pause!Held,
        Pause!Parking, PausePlaces, Pause!VCPU, Pause!Listed
<1>1. CASE Pause!emit_corefile
  BY <1>1 DEF Pause!emit_corefile
<1>2. CASE Pause!pause
  BY Zenon, <1>2 DEF Pause!pause
<1>3. CASE Pause!TestPaused
  BY <1>3 DEF Pause!TestPaused
<1>4. CASE Pause!WaitHasPaused
  BY Zenon, <1>4 DEF Pause!WaitHasPaused
<1>5. CASE Pause!DumpDone
  BY <1>5 DEF Pause!DumpDone
<1>6. CASE Pause!resume
  <2>1. CASE cur \in Pause!Listed
    BY Zenon, <1>6, <2>1 DEF Pause!resume
  <2>2. CASE cur \notin Pause!Listed
    BY <1>6, <2>2 DEF Pause!resume
  <2> QED
    BY Zenon, <2>1, <2>2
<1>7. CASE Pause!SignalDone
  BY <1>7 DEF Pause!SignalDone
<1> QED
  BY Zenon, <1>1, <1>2, <1>3, <1>4, <1>5, <1>6, <1>7 DEF Pause!MainStep

\* For any number of threads: pause returns only at a moment when the thread is
\* out of the guest, and a thread that has set out to park does not enter the
\* guest before pause_control_flag is cleared (ZoogVCPU.cpp:279-363).
THEOREM VCPUPauseHolds == Pause!Spec => PauseHolds
<1>1. PauseIInv /\ [Pause!Next]_(Pause!vars) => PauseIInv'
  <2>1. PauseIInv /\ UNCHANGED Pause!vars => PauseIInv'
    BY Zenon DEF Pause!vars, PauseIInv, PauseTypeOK, FlagIsClear, PausePlaces,
       Pause!VCPU, Pause!Listed
  <2> QED
    BY Zenon, <2>1, VCPUKeeps, MainKeeps DEF Pause!Next
<1>2. PauseIInv /\ [Pause!Next]_(Pause!vars) => [Holding]_(Pause!vars)
  BY Zenon, VCPUKeeps, MainKeeps DEF Pause!Next
<1> QED
  BY <1>1, <1>2, PauseInit, PTL DEF Pause!Spec, PauseHolds, Pause!PauseHolds, Holding

-----------------------------------------------------------------------------
(* ZClock *)

\* A set of numbers that is not empty has a least one (for the order of the
\* timers).
LEMMA LeastNumber == \A T \in SUBSET Nat : T # {} => \E x \in T : \A y \in T : x <= y
<1> DEFINE R == {ss \in Nat \X Nat : ss[1] < ss[2]}
<1> SUFFICES ASSUME NEW T \in SUBSET Nat, T # {} PROVE \E x \in T : \A y \in T : x <= y
  BY Zenon
<1>1. IsWellFoundedOn(R, Nat)
  BY Zenon, NatLessThanWellFounded DEF OpToRel
<1>2. \E x \in T : \A y \in T : ~ (<<y, x>> \in R)
  <2> HIDE DEF R
  <2> QED BY Zenon, <1>1, WFMin
<1>3. PICK x \in T : \A y \in T : ~ (<<y, x>> \in R)
  BY Zenon, <1>2
<1>4. ASSUME NEW y \in T PROVE x <= y
  <2>1. ~ (<<y, x>> \in R)
    BY Zenon, <1>3
  <2>2. <<y, x>> \in Nat \X Nat
    BY Zenon
  <2>3. ~ (y < x)
    BY Zenon, <2>1, <2>2
  <2> QED
    BY <2>3
<1> QED
  BY Zenon, <1>4

ClockPlaces == {"idle", "activate", "set_in_activate", "work", "check", "set_in_check", "test",
                "wait", "asleep", "deactivate"}

Setting(t) == cpc[t] \in {"set_in_activate", "set_in_check"}

SpecType == [on : {"alarm", "private"}, changed : BOOLEAN]

\* The timers in the tree are those of the threads that have activated one, and
\* the mutex is held only across _reset_host_alarm.
ClockTypeOK ==
    /\ now \in Nat /\ host_alarm \in Nat
    /\ cpc \in [Some -> ClockPlaces]
    /\ timer_tree = {t \in Some : cpc[t] \notin {"idle", "activate"}}
    /\ alarm_time \in [Some -> Nat]
    /\ spec \in [Some -> SpecType]
    /\ \A t \in Some : Setting(t) <=> clock_mutex = t

\* A thread with a timer has a tiebreaker.
Ranked == /\ tiebreakers \in Seq(Some)
          /\ \A t \in Some : cpc[t] # "idle" => \E i \in DOMAIN tiebreakers : tiebreakers[i] = t

\* The thread looks at its duties before it sleeps again.
Duty(t) == \/ cpc[t] \in {"work", "check", "deactivate"}
           \/ cpc[t] \in {"test", "wait"} /\ spec[t].changed

\* The master has a timer, and it alone is to wait on the alarm.
OneMaster == /\ master = None \/ master \in timer_tree
             /\ \A t \in Some : spec[t].on = "alarm" <=> master = t

\* Where there is no master, somebody is going to become it or to find one.
Sought == master = None /\ timer_tree # {} => \E t \in timer_tree : Duty(t)

\* Who is about to set the alarm has the earliest timer.
Earliest == \A t \in Some : Setting(t) => \A u \in timer_tree : alarm_time[t] <= alarm_time[u]

\* The alarm rings before any timer is due, or somebody is about to set it, or
\* it has rung and the master has not slept since.
Covered == master # None => \/ \A u \in timer_tree : host_alarm <= alarm_time[u]
                            \/ \E t \in Some : Setting(t)
                            \/ Duty(master)

ClockOK == ClockTypeOK /\ OneMaster /\ Sought /\ Earliest /\ Covered

\* The inductive invariant of the clock.
ClockIInv == ClockOK /\ Ranked

\* A timer of the tree is the first in the order of _cmp (ZClock.h:36-43).
LEMMA FirstTimer ==
    ASSUME ClockTypeOK, Ranked, timer_tree # {}
    PROVE  \E t \in timer_tree : Clock!IsMin(t, timer_tree)
<1> DEFINE P(t) == Clock!Place(t)
<1>1. timer_tree \subseteq Some /\ \A t \in timer_tree : alarm_time[t] \in Nat
  BY Zenon DEF ClockTypeOK
<1>2. \A t \in timer_tree : P(t) \in Nat
  BY DEF ClockTypeOK, Ranked, Clock!Place
<1> HIDE DEF P
<1>3. PICK t \in timer_tree : \A u \in timer_tree : alarm_time[t] <= alarm_time[u]
  <2> DEFINE T == {alarm_time[u] : u \in timer_tree}
  <2>1. T \in SUBSET Nat /\ T # {}
    BY Zenon, <1>1
  <2>2. PICK x \in T : \A y \in T : x <= y
    BY Zenon, <2>1, LeastNumber
  <2> QED BY Zenon, <2>2
<1>4. PICK v \in timer_tree : /\ alarm_time[v] = alarm_time[t]
                              /\ \A u \in timer_tree : alarm_time[u] = alarm_time[t] => P(v) <= P(u)
  <2> DEFINE T == {P(u) : u \in {w \in timer_tree : alarm_time[w] = alarm_time[t]}}
  <2>1. T \in SUBSET Nat /\ T # {}
    BY Zenon, <1>2
  <2>2. PICK x \in T : \A y \in T : x <= y
    BY Zenon, <2>1, LeastNumber
  <2> QED BY Zenon, <2>2
<1>5. \A u \in timer_tree : \/ alarm_time[v] < alarm_time[u]
                            \/ alarm_time[v] = alarm_time[u] /\ P(v) <= P(u)
  BY <1>1, <1>3, <1>4
<1> QED BY Zenon, <1>5 DEF P, Clock!IsMin, Clock!Before

\* The clock begins with no timer, and its mutex free.
LEMMA ClockInit == Clock!Init => ClockIInv
  BY TimerAssumption DEF Clock!Init, ClockIInv, ClockOK, ClockTypeOK, Ranked, SpecType,
     OneMaster, Sought, Earliest, Covered,
     ClockPlaces, Setting, Some, Clock!Never, Clock!Private


\* A deleted timer takes no other timer out of the order (ZClock.cpp:35-46).
LEMMA Deletes ==
    ASSUME NEW t \in Some, tiebreakers \in Seq(Some),
           \E i \in DOMAIN tiebreakers : tiebreakers[i] = t,
           Clock!Delete(t)
    PROVE  /\ tiebreakers' \in Seq(Some)
           /\ \A u \in Some \ {t} : (\E i \in DOMAIN tiebreakers : tiebreakers[i] = u)
                                       => \E i \in DOMAIN tiebreakers' : tiebreakers'[i] = u
<1> DEFINE p == Clock!Place(t)  n == Len(tiebreakers)
<1>1. p \in 1..n /\ tiebreakers[p] = t /\ n \in Nat /\ DOMAIN tiebreakers = 1..n
  BY DEF Clock!Place
<1>2. tiebreakers' = [i \in 1..(n - 1) |-> tiebreakers[IF i < p THEN i ELSE i + 1]]
  BY Zenon DEF Clock!Delete
<1> HIDE DEF p, n
<1>3. tiebreakers' \in Seq(Some) /\ DOMAIN tiebreakers' = 1..(n - 1)
  <2>1. \A i \in 1..(n - 1) : (IF i < p THEN i ELSE i + 1) \in 1..n
    BY <1>1
  <2>2. \A i \in 1..n : tiebreakers[i] \in Some
    BY <1>1 DEF n
  <2>3. tiebreakers' \in [1..(n - 1) -> Some]
    BY Zenon, <1>2, <2>1, <2>2
  <2>4. n - 1 \in Nat
    BY <1>1
  <2> QED BY <2>3, <2>4
<1>4. ASSUME NEW u \in Some \ {t}, NEW i \in 1..n, tiebreakers[i] = u
      PROVE  \E j \in 1..(n - 1) : tiebreakers'[j] = u
  <2>1. i # p
    BY Zenon, <1>1, <1>4
  <2>2. CASE i < p
    BY <1>1, <1>2, <1>4, <2>2
  <2>3. CASE i > p
    <3>1. i - 1 \in 1..(n - 1) /\ ~(i - 1 < p) /\ (i - 1) + 1 = i
      BY <1>1, <2>3
    <3>2. tiebreakers'[i - 1] = tiebreakers[i]
      BY Zenon, <1>2, <3>1
    <3> QED BY Zenon, <3>1, <3>2, <1>4
  <2> QED BY <1>1, <2>1, <2>2, <2>3
<1> QED BY Zenon, <1>1, <1>3, <1>4

\* In a section of the clock's mutex, t activates its timer, checks it or
\* deactivates it, and changes no other timer; where it goes from there.
Section(t) ==
    /\ clock_mutex = None /\ cpc[t] \in {"activate", "check", "deactivate"}
    /\ timer_tree' = IF cpc[t] = "deactivate" THEN timer_tree \ {t} ELSE timer_tree \cup {t}
    /\ now' = now /\ host_alarm' = host_alarm
    /\ alarm_time' \in [Some -> Nat] /\ \A u \in timer_tree' : alarm_time'[u] = alarm_time[u]

After(t) == CASE cpc[t] = "activate" -> "work" [] cpc[t] = "check" -> "test" [] OTHER -> "idle"
\* Nobody has a timer because of the section who had none before.
NoneMade(t) == /\ \A u \in Some \ {t} : cpc'[u] # "idle" => cpc[u] # "idle"
               /\ cpc[t] = "deactivate" => cpc'[t] = "idle"
Set(t) == IF cpc[t] = "activate" THEN "set_in_activate" ELSE "set_in_check"

\* The facts about a section that its outcomes share.
LEMMA InSection ==
    ASSUME ClockOK, NEW t \in Some, Section(t)
    PROVE  /\ cpc \in [Some -> ClockPlaces] /\ spec \in [Some -> SpecType]
           /\ alarm_time \in [Some -> Nat] /\ host_alarm \in Nat
           /\ timer_tree \subseteq Some /\ timer_tree' \subseteq Some
           /\ \A u \in Some : ~Setting(u) /\ (u \in timer_tree <=> cpc[u] \notin {"idle", "activate"})
           /\ \A u \in Some \ {t} : u \in timer_tree' <=> u \in timer_tree
           /\ t \in timer_tree' <=> cpc[t] # "deactivate"
           /\ None \notin Some
           /\ After(t) \in ClockPlaces /\ (After(t) \in {"idle", "activate"} <=> t \notin timer_tree')
           /\ After(t) \notin {"set_in_activate", "set_in_check"}
  BY Zenon, TimerAssumption DEF ClockOK, ClockTypeOK, Section, Setting, Some,
     After, ClockPlaces

\* A type-correct end of a section.
LEMMA SectionTypes ==
    ASSUME ClockOK, NEW t \in Some, Section(t), NEW h \in {None, t},
           cpc' \in [Some -> ClockPlaces], spec' \in [Some -> SpecType],
           clock_mutex' = h, cpc'[t] = (IF h = t THEN Set(t) ELSE After(t)),
           h = t => t \in timer_tree',
           \A u \in Some \ {t} : /\ ~Setting(u)'
                                 /\ cpc'[u] \in {"idle", "activate"} <=> cpc[u] \in {"idle", "activate"}
    PROVE  ClockTypeOK'
<1>1. now' \in Nat /\ host_alarm' \in Nat /\ alarm_time' \in [Some -> Nat]
  BY Zenon DEF ClockOK, ClockTypeOK, Section
<1>2. timer_tree' = {u \in Some : cpc'[u] \notin {"idle", "activate"}}
  BY Zenon, InSection DEF Set
<1>3. \A u \in Some : Setting(u)' <=> clock_mutex' = u
  BY Zenon, InSection DEF Set, Setting
<1> QED BY Zenon, <1>1, <1>2, <1>3 DEF ClockTypeOK

\* Another timer is the master, and the new timer is not the earliest.
LEMMA StandsBy ==
    ASSUME ClockOK, NEW t \in Some, Section(t), Clock!Others(t), Clock!StandBy(t),
           Clock!Goto(t, After(t)), clock_mutex' = clock_mutex,
           t \in timer_tree' => \E u \in timer_tree : alarm_time[u] <= alarm_time[t]
    PROVE  ClockOK' /\ NoneMade(t)
<1> USE InSection
<1>1. /\ cpc' \in [Some -> ClockPlaces] /\ cpc'[t] = After(t)
      /\ spec' \in [Some -> SpecType] /\ spec'[t] = Clock!Private
      /\ \A u \in Some \ {t} : cpc'[u] = cpc[u] /\ spec'[u] = spec[u]
  BY Zenon DEF Clock!Goto, Clock!StandBy, Clock!Private, SpecType
<1>2. /\ master' = master /\ master \in timer_tree \ {t} /\ master \in Some
      /\ \A u \in Some : spec[u].on = "alarm" <=> master = u
  BY Zenon DEF Clock!StandBy, Clock!Others, ClockOK, OneMaster
<1>3. ClockTypeOK'
  BY Zenon, <1>1, SectionTypes DEF Setting, Section
<1>4. OneMaster'
  BY <1>1, <1>2 DEF OneMaster, Clock!Private
<1>5. Sought' /\ Earliest'
  BY Zenon, <1>1, <1>2 DEF Sought, Earliest, Setting
<1>6. Covered'
  <2>1. CASE Duty(master)
    BY Zenon, <2>1, <1>1, <1>2 DEF Covered, Duty
  <2>2. CASE \A u \in timer_tree : host_alarm <= alarm_time[u]
    <3>1. \A u \in timer_tree' : host_alarm <= alarm_time[u]
      BY <2>2
    <3> QED BY Zenon, <3>1 DEF Covered, Section
  <2> QED BY Zenon, <2>1, <2>2, <1>2 DEF ClockOK, Covered
<1> QED BY Zenon, <1>1, <1>3, <1>4, <1>5, <1>6 DEF ClockOK, NoneMade, After

\* The earliest timer sets the alarm, as the master or for it.
LEMMA Resets ==
    ASSUME ClockOK, NEW t \in Some, Section(t), Clock!IsMin(t, timer_tree'),
           Clock!_reset_host_alarm(t, Set(t)),
           \/ ~Clock!Others(t) /\ master' = t /\ spec' = [spec EXCEPT ![t] = Clock!Alarm]
           \/ Clock!Others(t) /\ Clock!StandBy(t)
    PROVE  ClockOK' /\ NoneMade(t)
<1> USE InSection
<1>0. /\ cpc' \in [Some -> ClockPlaces] /\ cpc'[t] = Set(t) /\ clock_mutex' = t
      /\ \A u \in Some \ {t} : cpc'[u] = cpc[u]
  BY Zenon DEF Clock!_reset_host_alarm, Clock!Goto, Set, ClockPlaces
<1>1. /\ spec' \in [Some -> SpecType] /\ spec'[t].on = IF Clock!Others(t) THEN "private" ELSE "alarm"
      /\ \A u \in Some \ {t} : spec'[u] = spec[u]
  <2>1. PICK a \in SpecType : /\ spec' = [spec EXCEPT ![t] = a]
                              /\ a.on = IF Clock!Others(t) THEN "private" ELSE "alarm"
    <3>1. /\ Clock!Alarm \in SpecType /\ Clock!Alarm.on = "alarm"
          /\ Clock!Private \in SpecType /\ Clock!Private.on = "private"
      BY Zenon DEF Clock!Private, Clock!Alarm, SpecType
    <3> QED BY Zenon, <3>1 DEF Clock!StandBy
  <2> QED BY Zenon, <2>1
<1>2. /\ t \in timer_tree' /\ Setting(t)'
      /\ \A u \in timer_tree' : alarm_time[t] <= alarm_time[u]
  BY <1>0 DEF Clock!IsMin, Clock!Before, Setting, Set
<1>3. ClockTypeOK'
  BY Zenon, <1>0, <1>1, <1>2, SectionTypes DEF Setting
<1>4. OneMaster'
  BY <1>0, <1>1, <1>2 DEF OneMaster, ClockOK, Clock!Others, Clock!StandBy
<1>5. Sought'
  <2>1. master' # None
    BY DEF Clock!Others, Clock!StandBy
  <2> QED BY Zenon, <2>1 DEF Sought
<1>6. Earliest'
  BY ZenonT(40), <1>0, <1>1, <1>2 DEF Earliest, Setting, Section
<1>7. Covered'
  BY Zenon, <1>2 DEF Covered
<1> QED BY Zenon, <1>0, <1>2, <1>3, <1>4, <1>5, <1>6, <1>7 DEF ClockOK, NoneMade

\* There is no master, or there is none any more: the earliest timer hears of it.
LEMMA Wakes ==
    ASSUME ClockOK, NEW t \in Some, Section(t), ~Clock!Others(t), ~Clock!IsMin(t, timer_tree'),
           Clock!WakeMin(t, timer_tree', After(t))
    PROVE  ClockOK' /\ NoneMade(t)
<1> USE InSection
<1>0. master' = None /\ clock_mutex' = None /\ \A u \in Some \ {t} : spec[u].on = "private" /\ u # master
  BY SMTT(30) DEF Clock!WakeMin, Section, ClockOK, OneMaster, Clock!Others, SpecType
<1>1. CASE timer_tree' = {}
  <2>0. spec' = [spec EXCEPT ![t] = Clock!Private] /\ cpc' = [cpc EXCEPT ![t] = After(t)]
    BY Zenon, <1>1 DEF Clock!WakeMin, Clock!Goto
  <2>1. /\ cpc' \in [Some -> ClockPlaces] /\ cpc'[t] = After(t)
        /\ spec' \in [Some -> SpecType] /\ spec'[t] = Clock!Private
        /\ \A u \in Some \ {t} : cpc'[u] = cpc[u] /\ spec'[u] = spec[u]
    BY Zenon, <2>0 DEF Clock!Private, SpecType
  <2>2. ClockTypeOK'
    BY Zenon, <2>1, <1>0, SectionTypes DEF Setting
  <2>3. OneMaster' /\ Sought' /\ Earliest' /\ Covered'
    BY <1>0, <1>1, <2>1 DEF OneMaster, Sought, Earliest, Covered, Clock!Private
  <2> QED BY Zenon, <2>1, <2>2, <2>3 DEF ClockOK, NoneMade, After
<1>2. CASE timer_tree' # {}
  <2>1. PICK min \in timer_tree' : Clock!IsMin(min, timer_tree') /\ Clock!Poke(t, min, After(t))
    BY Zenon, <1>2 DEF Clock!WakeMin
  <2>2. min # t /\ min \in Some /\ min \in timer_tree /\ spec[min].on = "private"
    BY Zenon, <2>1, <1>0
  <2>3. /\ spec' \in [Some -> SpecType] /\ spec'[t] = Clock!Private
        /\ spec'[min].on = "private" /\ spec'[min].changed = TRUE
        /\ \A u \in Some \ {t, min} : spec'[u] = spec[u]
    BY ZenonT(40), <2>1, <2>2 DEF Clock!Poke, SpecType, Clock!Private
  <2>4. /\ cpc' \in [Some -> ClockPlaces] /\ cpc'[t] = After(t)
        /\ cpc'[min] = IF cpc[min] = "asleep" THEN "check" ELSE cpc[min]
        /\ \A u \in Some \ {t, min} : cpc'[u] = cpc[u]
    BY Zenon, <2>1, <2>2 DEF Clock!Poke, ClockPlaces
  <2>5. Duty(min)'
    BY Zenon, <2>2, <2>3, <2>4 DEF Duty, Setting, ClockPlaces
  <2>6. ClockTypeOK'
    BY <2>2, <2>3, <2>4, <1>0, SectionTypes DEF Setting
  <2>7. OneMaster'
    BY <1>0, <2>3 DEF OneMaster, Clock!Private
  <2>8. Sought' /\ Covered'
    BY Zenon, <1>0, <2>1, <2>5 DEF Sought, Covered
  <2>9. Earliest'
    BY Zenon, <2>2, <2>4 DEF Earliest, Setting
  <2> QED BY Zenon, <2>4, <2>6, <2>7, <2>8, <2>9 DEF ClockOK, NoneMade, After
<1> QED BY Zenon, <1>1, <1>2

-----------------------------------------------------------------------------
\* A thread makes a timer (ZClock.cpp:8-26).
LEMMA NewTimerKeeps ==
    ASSUME ClockIInv, NEW t \in Some, Clock!NewTimer(t)
    PROVE  ClockIInv'
<1> USE DEF Clock!NewTimer, Clock!Goto, Clock!host
<1>1. Ranked'
  <2>1. tiebreakers \in Seq(Some) /\ tiebreakers' = Append(tiebreakers, t)
    BY Zenon DEF ClockIInv, Ranked
  <2>2. /\ tiebreakers' \in Seq(Some)
        /\ Len(tiebreakers') = Len(tiebreakers) + 1
        /\ tiebreakers'[Len(tiebreakers) + 1] = t
        /\ \A i \in 1..Len(tiebreakers) : tiebreakers'[i] = tiebreakers[i]
    BY <2>1
  <2>3. ASSUME NEW u \in Some, u # t, cpc'[u] # "idle"
        PROVE  \E i \in DOMAIN tiebreakers' : tiebreakers'[i] = u
    <3>1. PICK i \in DOMAIN tiebreakers : tiebreakers[i] = u
      BY Zenon, <2>3 DEF ClockIInv, Ranked, ClockOK, ClockTypeOK
    <3> QED BY <3>1, <2>1, <2>2
  <2> QED BY <2>1, <2>2, <2>3 DEF Ranked
<1>2. PICK time \in now..MaxTime : alarm_time' = [alarm_time EXCEPT ![t] = time]
  BY Zenon
<1>3. ClockTypeOK'
  BY <1>2, TimerAssumption DEF ClockIInv, ClockOK, ClockTypeOK, ClockPlaces, Setting
<1>4. OneMaster' /\ Sought' /\ Earliest' /\ Covered'
  BY Zenon, <1>2, TimerAssumption DEF ClockIInv, ClockOK, ClockTypeOK,
     ClockPlaces, Setting, OneMaster, Sought, Earliest,
     Covered, Duty, Some
<1> QED BY Zenon, <1>1, <1>3, <1>4 DEF ClockIInv, ClockOK

\* The sections of the mutex: activate, discharge_duties and deactivate
\* (ZClock.cpp:154-264).
LEMMA SectionKeeps ==
    ASSUME ClockIInv, NEW t \in Some,
           Clock!activate(t) \/ Clock!check(t) \/ Clock!deactivate(t)
    PROVE  ClockIInv'
<1>1. Section(t)
  BY DEF ClockIInv, ClockOK, ClockTypeOK, Section, Clock!host, Clock!activate, Clock!check,
         Clock!deactivate, Clock!Delete
<1>2. t \in timer_tree' <=> cpc[t] # "deactivate"
  BY Zenon, <1>1, InSection DEF ClockIInv
<1> DEFINE Stands == /\ Clock!Others(t) /\ Clock!StandBy(t) /\ Clock!Goto(t, After(t))
                     /\ clock_mutex' = clock_mutex
                     /\ ~(cpc[t] = "activate" /\ Clock!IsMin(t, timer_tree'))
           Sets == /\ Clock!IsMin(t, timer_tree') /\ Clock!_reset_host_alarm(t, Set(t))
                   /\ \/ ~Clock!Others(t) /\ master' = t /\ spec' = [spec EXCEPT ![t] = Clock!Alarm]
                      \/ Clock!Others(t) /\ Clock!StandBy(t)
           Calls == /\ ~Clock!Others(t) /\ ~Clock!IsMin(t, timer_tree')
                    /\ Clock!WakeMin(t, timer_tree', After(t))
<1>3. Stands \/ Sets \/ Calls
  <2> USE DEF Clock!_discharge_duties_nolock, Clock!BecomeMaster, After, Set
  <2>1. CASE Clock!activate(t)
    BY Zenon, <2>1 DEF Clock!activate
  <2>2. CASE Clock!check(t)
    <3>1. timer_tree' = timer_tree /\ cpc[t] = "check"
      BY Zenon, <2>2 DEF Clock!check
    <3> QED BY Zenon, <2>2, <3>1 DEF Clock!check
  <2>3. CASE Clock!deactivate(t)
    <3>1. t \notin timer_tree' /\ cpc[t] = "deactivate"
      BY Zenon, <2>3 DEF Clock!deactivate
    <3>2. ~Clock!IsMin(t, timer_tree')
      BY Zenon, <3>1 DEF Clock!IsMin
    <3> QED BY Zenon, <2>3, <3>1, <3>2 DEF Clock!deactivate
  <2> QED BY Zenon, <2>1, <2>2, <2>3
<1>4. ASSUME Stands PROVE ClockOK' /\ NoneMade(t)
  <2>1. t \in timer_tree' => \E u \in timer_tree : alarm_time[u] <= alarm_time[t]
    <3> HAVE t \in timer_tree'
    <3>1. CASE cpc[t] = "check"
      BY <3>1, <1>1, InSection DEF ClockIInv
    <3>2. CASE cpc[t] = "activate"
      <4>1. PICK u \in timer_tree' : ~Clock!Before(t, u)
        BY Zenon, <1>4, <3>2 DEF Clock!IsMin
      <4>2. Clock!Place(t) \in Nat
        BY <3>2 DEF Clock!Place, ClockIInv, Ranked
      <4>3. u # t
        BY <4>1, <4>2 DEF Clock!Before
      <4> QED BY <1>1, <4>1, <4>3, InSection DEF Clock!Before, ClockIInv
    <3> QED BY Zenon, <1>1, <1>2, <3>1, <3>2 DEF Section
  <2> QED BY Zenon, <1>1, <1>4, <2>1, StandsBy DEF ClockIInv
<1>5. ASSUME Sets PROVE ClockOK' /\ NoneMade(t)
  BY Zenon, <1>1, <1>5, Resets DEF ClockIInv
<1>6. ASSUME Calls PROVE ClockOK' /\ NoneMade(t)
  BY Zenon, <1>1, <1>6, Wakes DEF ClockIInv
<1>7. ClockOK' /\ NoneMade(t)
  <2> HIDE DEF Stands, Sets, Calls
  <2> QED BY Zenon, <1>3, <1>4, <1>5, <1>6
<1>8. Ranked'
  <2>1. CASE cpc[t] = "deactivate"
    <3>1. Clock!Delete(t)
      BY Zenon, <2>1 DEF Clock!activate, Clock!check, Clock!deactivate
    <3> QED BY Zenon, <1>7, <2>1, <3>1, Deletes DEF NoneMade, ClockIInv, Ranked
  <2>2. CASE cpc[t] # "deactivate"
    <3>1. tiebreakers' = tiebreakers
      BY Zenon, <2>2 DEF Clock!activate, Clock!check, Clock!deactivate
    <3> QED BY Zenon, <1>1, <1>7, <3>1 DEF NoneMade, ClockIInv, Ranked, Section
  <2> QED BY Zenon, <2>1, <2>2
<1> QED BY Zenon, <1>7, <1>8 DEF ClockIInv

\* The steps of a thread that need no section of the mutex.
LEMMA ThreadKeeps ==
    ASSUME ClockIInv, NEW t \in Some,
           \/ Clock!SetClockAlarm(t) \/ Clock!WaitAny(t) \/ Clock!CheckTime(t)
           \/ Clock!zutex_wait(t) \/ Clock!OtherReady(t)
    PROVE  ClockIInv'
<1> USE TimerAssumption DEF ClockIInv, ClockOK, ClockTypeOK, ClockPlaces, Setting, Some,
        Clock!Goto,
        Clock!host, Clock!clock, Clock!timers
<1>1. CASE Clock!SetClockAlarm(t)
  <2> USE <1>1 DEF Clock!SetClockAlarm
  <2>1. ClockTypeOK'
    BY Zenon
  <2>2. OneMaster' /\ Ranked'
    BY Zenon DEF OneMaster, Ranked
  <2>3. Sought'
    BY Zenon DEF Sought, Duty
  <2>4. Earliest' /\ Covered'
    BY Zenon DEF Earliest, Covered
  <2> QED BY Zenon, <2>1, <2>2, <2>3, <2>4
<1>2. CASE Clock!WaitAny(t) \/ Clock!CheckTime(t) \/ Clock!zutex_wait(t) \/ Clock!OtherReady(t)
  <2>1. PICK p \in {"check", "deactivate", "wait", "asleep", "work"} :
           /\ Clock!Goto(t, p)
           /\ UNCHANGED <<now, host_alarm, timer_tree, master, clock_mutex, tiebreakers,
                          alarm_time, spec>>
           /\ cpc[t] \in {"work", "test", "wait", "asleep"}
           /\ Duty(t) => Duty(t)'
    BY Zenon, <1>2 DEF Clock!WaitAny, Clock!CheckTime, Clock!zutex_wait,
       Clock!OtherReady, Duty
  <2> HIDE <1>2
  <2>2. ClockTypeOK'
    BY Zenon, <2>1
  <2>3. OneMaster' /\ Ranked'
    BY Zenon, <2>1 DEF OneMaster, Ranked
  <2>4. Sought'
    BY Zenon, <2>1 DEF Sought, Duty
  <2>5. Earliest' /\ Covered'
    BY <2>1 DEF Earliest, Covered, Duty
  <2> QED BY Zenon, <2>2, <2>3, <2>4, <2>5
<1> QED BY Zenon, <1>1, <1>2

\* The host: time passes, and the alarm rings whoever holds the mutex.
LEMMA HostKeeps ==
    ASSUME ClockIInv, Clock!Tick \/ Clock!Ring
    PROVE  ClockIInv'
<1> USE TimerAssumption DEF ClockIInv, ClockOK
<1>1. CASE Clock!Tick
  BY <1>1 DEF Clock!Tick, Clock!clock, Clock!timers, ClockTypeOK, Ranked, OneMaster, Sought,
     Earliest, Covered, Duty, Setting
<1>2. CASE Clock!Ring
  <2>1. /\ host_alarm' \in Nat
        /\ UNCHANGED <<now, timer_tree, master, clock_mutex, tiebreakers, alarm_time>>
        /\ cpc' \in [Some -> ClockPlaces] /\ spec' \in [Some -> SpecType]
        /\ \A u \in Some : /\ cpc'[u] = IF cpc[u] = "asleep" /\ spec[u].on = "alarm"
                                        THEN "check" ELSE cpc[u]
                           /\ spec'[u].on = spec[u].on
                           /\ spec'[u].changed = (spec[u].on = "alarm" \/ spec[u].changed)
    <3>1. /\ host_alarm' \in Nat
          /\ UNCHANGED <<now, timer_tree, master, clock_mutex, tiebreakers, alarm_time>>
          /\ cpc' = [u \in Some |-> IF cpc[u] = "asleep" /\ spec[u].on = "alarm"
                                    THEN "check" ELSE cpc[u]]
          /\ spec' = [u \in Some |-> IF spec[u].on = "alarm"
                                     THEN [Clock!Alarm EXCEPT !.changed = TRUE] ELSE spec[u]]
      BY <1>2 DEF Clock!Ring, Clock!clock, Clock!Never
    <3>2. /\ [Clock!Alarm EXCEPT !.changed = TRUE] \in SpecType
          /\ [Clock!Alarm EXCEPT !.changed = TRUE].on = "alarm"
          /\ [Clock!Alarm EXCEPT !.changed = TRUE].changed = TRUE
      BY Zenon DEF Clock!Alarm, SpecType
    <3>3. cpc \in [Some -> ClockPlaces] /\ spec \in [Some -> SpecType] /\ "check" \in ClockPlaces
      BY Zenon DEF ClockTypeOK, ClockPlaces
    <3>4. \A u \in Some : spec[u].changed \in BOOLEAN
      BY Zenon, <3>3 DEF SpecType
    <3> HIDE DEF SpecType, ClockPlaces
    <3> QED BY Zenon, <3>1, <3>2, <3>3, <3>4
  <2>2. ClockTypeOK'
    BY Zenon, <2>1 DEF ClockTypeOK, Setting
  <2>3. OneMaster' /\ Ranked'
    BY Zenon, <2>1 DEF OneMaster, Ranked, ClockTypeOK
  <2>4. Sought'
    BY Zenon, <2>1 DEF Sought, Duty, ClockTypeOK
  <2>5. Earliest'
    BY Zenon, <2>1 DEF Earliest, Setting, ClockTypeOK
  <2>6. Covered'
    <3>1. CASE master \in timer_tree /\ ~\E u \in Some : Setting(u)
      <4>1. /\ spec[master].on = "alarm" /\ master \in Some
            /\ cpc[master] \in {"work", "check", "deactivate", "test", "wait", "asleep"}
        BY Zenon, <3>1 DEF OneMaster, ClockTypeOK, ClockPlaces, Setting
      <4>2. Duty(master)'
        BY Zenon, <4>1, <2>1 DEF Duty
      <4> QED BY Zenon, <4>2, <2>1 DEF Covered
    <3>2. CASE \E u \in Some : Setting(u)
      BY Zenon, <2>1, <3>2 DEF Setting, Covered
    <3> QED BY Zenon, <3>1, <3>2, <2>1 DEF OneMaster, Covered
  <2> QED BY Zenon, <2>2, <2>3, <2>4, <2>5, <2>6
<1> QED BY Zenon, <1>1, <1>2

\* Whichever timers come and go, and however the alarm's ringing falls between
\* the two halves of _reset_host_alarm, no timer is forgotten while every thread
\* that has one sleeps (ZClock.cpp:154-264).
THEOREM ZClockCovers == Clock!Spec => []AlarmCovers
<1>1. ASSUME ClockIInv, [Clock!Next]_(Clock!vars) PROVE ClockIInv'
  <2>1. CASE UNCHANGED Clock!vars
    BY Zenon, <1>1, <2>1 DEF Clock!vars, ClockIInv, ClockOK, ClockTypeOK,
       Ranked, OneMaster, Sought, Earliest, Covered,
       Duty, Setting
  <2>2. CASE Clock!Next
    BY Zenon, <1>1, <2>2, NewTimerKeeps, SectionKeeps, ThreadKeeps,
       HostKeeps DEF Clock!Next, Clock!ThreadStep
  <2> QED BY Zenon, <1>1, <2>1, <2>2
<1>2. ClockIInv => AlarmCovers
  <2> SUFFICES ASSUME ClockIInv, timer_tree # {}, \A t \in timer_tree : cpc[t] = "asleep"
               PROVE  /\ master \in timer_tree /\ spec[master].on = "alarm"
                      /\ \E t \in timer_tree : Clock!IsMin(t, timer_tree) /\ host_alarm <= alarm_time[t]
    BY Zenon DEF AlarmCovers, Clock!AlarmCovers
  <2>1. \A t \in timer_tree : ~Duty(t)
    BY Zenon DEF Duty
  <2>2. \A t \in Some : ~Setting(t)
    BY Zenon DEF ClockIInv, ClockOK, ClockTypeOK, Setting
  <2>3. master \in timer_tree /\ spec[master].on = "alarm"
    BY Zenon, <2>1 DEF ClockIInv, ClockOK, Sought, OneMaster, ClockTypeOK
  <2>4. \A t \in timer_tree : host_alarm <= alarm_time[t]
    BY Zenon, <2>1, <2>2, <2>3, TimerAssumption DEF ClockIInv, ClockOK,
       Covered, ClockTypeOK, Some
  <2> QED BY Zenon, <2>3, <2>4, FirstTimer DEF ClockIInv, ClockOK
<1> QED BY <1>1, <1>2, ClockInit, PTL DEF Clock!Spec
=============================================================================
