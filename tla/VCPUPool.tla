------------------------------ MODULE VCPUPool ------------------------------
(***************************************************************************)
(* The KVM monitor multiplexes the few VCPUs the kernel grants a VM among  *)
(* the app's threads (monitors/linux_kvm/monitor/VCPUPool.cpp, and the     *)
(* callers in ZoogVCPU.cpp and ZutexWaiter.cpp).  A thread claims a VCPU   *)
(* before it runs the guest, keeps it over short zoogcalls, and gives it   *)
(* back when a zutex_wait lasts longer than 50 ms or when it exits.  The   *)
(* pool mutex makes allocate's passes and free atomic; the wait for        *)
(* vcpu_freed_event, an event over a pthread condition variable, is not    *)
(* under it.                                                               *)
(***************************************************************************)
EXTENDS Naturals, Sequences

CONSTANTS Threads,   \* the app's threads, running or yet to be created
          Root,      \* the first of them
          MaxVCPUs   \* how many VCPUs the kernel creates for a VM

ASSUME RootAssumption == Root \in Threads
ASSUME MaxVCPUsAssumption == MaxVCPUs \in Nat \ {0}

VARIABLES free_list,      \* the VCPUs nobody uses, last freed first
          next_ident,     \* next_free_vcpu_ident: how many were created
          all_vcpus_used, \* the kernel has refused to create another
          event_is_set,   \* of vcpu_freed_event
          cond,           \* threads in pthread_cond_wait on that event
          vcpu,           \* each thread's vcpu_allocation, or NoVCPU
          pc

vars == <<free_list, next_ident, all_vcpus_used, event_is_set, cond, vcpu, pc>>

VCPUs == 0..(MaxVCPUs - 1)
NoVCPU == MaxVCPUs

Places == {"unborn", "loop", "event_wait", "guest", "host", "zutex_wait",
           "zutex_sleep", "receive", "exited"}

TypeOK == /\ free_list \in Seq(VCPUs)
          /\ next_ident \in 0..MaxVCPUs
          /\ all_vcpus_used \in BOOLEAN
          /\ event_is_set \in BOOLEAN
          /\ cond \subseteq {t \in Threads : pc[t] = "event_wait"}
          /\ vcpu \in [Threads -> VCPUs \cup {NoVCPU}]
          /\ pc \in [Threads -> Places]

Init == /\ free_list = <<>>
        /\ next_ident = 0
        /\ all_vcpus_used = FALSE
        /\ event_is_set = FALSE
        /\ cond = {}
        /\ vcpu = [t \in Threads |-> NoVCPU]
        /\ pc = [t \in Threads |-> IF t = Root THEN "loop" ELSE "unborn"]

Goto(t, p) == pc' = [pc EXCEPT ![t] = p]

\* pthread_cond_signal: one of the threads in cond_wait, if any, goes on.
CondSignal == cond' \in IF cond = {} THEN {{}} ELSE {cond \ {u} : u \in cond}

-----------------------------------------------------------------------------
\* service_loop: a thread that kept its VCPU runs the guest at once.
KeepVCPU(t) == /\ pc[t] = "loop" /\ vcpu[t] /= NoVCPU
               /\ Goto(t, "guest")
               /\ UNCHANGED <<free_list, next_ident, all_vcpus_used, event_is_set, cond, vcpu>>

\* Mutant of Recycle: the VCPU is read from the list but not removed.
Recycle_peek(t) == /\ pc[t] = "loop" /\ vcpu[t] = NoVCPU
                   /\ free_list /= <<>>
                   /\ vcpu' = [vcpu EXCEPT ![t] = Head(free_list)]
                   /\ Goto(t, "guest")
                   /\ UNCHANGED <<free_list, next_ident, all_vcpus_used, event_is_set, cond>>

\* allocate: take a free VCPU ...
Recycle(t) == /\ pc[t] = "loop" /\ vcpu[t] = NoVCPU
              /\ free_list /= <<>>
              /\ vcpu' = [vcpu EXCEPT ![t] = Head(free_list)]
              /\ free_list' = Tail(free_list)
              /\ Goto(t, "guest")
              /\ UNCHANGED <<next_ident, all_vcpus_used, event_is_set, cond>>

\* ... or create one ...
Create(t) == /\ pc[t] = "loop" /\ vcpu[t] = NoVCPU
             /\ free_list = <<>> /\ ~all_vcpus_used
             /\ next_ident < MaxVCPUs
             /\ vcpu' = [vcpu EXCEPT ![t] = next_ident]
             /\ next_ident' = next_ident + 1
             /\ Goto(t, "guest")
             /\ UNCHANGED <<free_list, all_vcpus_used, event_is_set, cond>>

\* ... or, once the kernel has refused, reset the event and wait for it.
\* (reset also signals the condition variable.)
AwaitFree(t) == /\ pc[t] = "loop" /\ vcpu[t] = NoVCPU
                /\ free_list = <<>>
                /\ all_vcpus_used \/ next_ident = MaxVCPUs
                /\ all_vcpus_used' = TRUE
                /\ event_is_set' = FALSE
                /\ CondSignal
                /\ Goto(t, "event_wait")
                /\ UNCHANGED <<free_list, next_ident, vcpu>>

\* event->wait(): go on if the event is set, else pthread_cond_wait; the
\* mutex is taken and the flag tested again after each wake-up.
EventWait(t) == /\ pc[t] = "event_wait" /\ t \notin cond
                /\ \/ event_is_set /\ Goto(t, "loop") /\ cond' = cond
                   \/ ~event_is_set /\ pc' = pc /\ cond' = cond \cup {t}
                /\ UNCHANGED <<free_list, next_ident, all_vcpus_used, event_is_set, vcpu>>

\* pthread_cond_wait may return without a signal.
SpuriousWake(t) == /\ t \in cond
                   /\ cond' = cond \ {t}
                   /\ UNCHANGED <<free_list, next_ident, all_vcpus_used, event_is_set, vcpu, pc>>

\* KVM_RUN exits: the guest has made a zoogcall.
Exit(t) == /\ pc[t] = "guest"
           /\ Goto(t, "host")
           /\ UNCHANGED <<free_list, next_ident, all_vcpus_used, event_is_set, cond, vcpu>>

\* A zoogcall that does not block returns to service_loop ...
ShortCall(t) == /\ pc[t] = "host"
                /\ Goto(t, "loop")
                /\ UNCHANGED <<free_list, next_ident, all_vcpus_used, event_is_set, cond, vcpu>>

\* ... thread_create also starts another thread ...
thread_create(t, u) == /\ pc[t] = "host" /\ pc[u] = "unborn"
                       /\ pc' = [pc EXCEPT ![t] = "loop", ![u] = "loop"]
                       /\ UNCHANGED <<free_list, next_ident, all_vcpus_used, event_is_set, cond, vcpu>>

\* ... and zutex_wait and receive_net_buffer may block, with the VCPU.
Block(t) == /\ pc[t] = "host"
            /\ \/ Goto(t, "zutex_wait")
               \/ Goto(t, "receive")
            /\ UNCHANGED <<free_list, next_ident, all_vcpus_used, event_is_set, cond, vcpu>>

\* The bounded wait of ZutexWaiter::wait finishes, a zutex_wake ends the
\* unbounded one, or a packet arrives.
Unblock(t) == /\ pc[t] \in {"zutex_wait", "zutex_sleep", "receive"}
              /\ Goto(t, "loop")
              /\ UNCHANGED <<free_list, next_ident, all_vcpus_used, event_is_set, cond, vcpu>>

\* Mutant of yield_kvm_vcpu: whether the list is empty is tested after the
\* insertion.
yield_kvm_vcpu_late(t) == /\ free_list' = <<vcpu[t]>> \o free_list
                          /\ vcpu' = [vcpu EXCEPT ![t] = NoVCPU]
                          /\ IF free_list' = <<>>
                             THEN event_is_set' = TRUE /\ CondSignal
                             ELSE UNCHANGED <<event_is_set, cond>>

\* yield_kvm_vcpu, and free under the pool mutex: the event is signalled
\* only when the list was empty.
yield_kvm_vcpu(t) == /\ free_list' = <<vcpu[t]>> \o free_list
                     /\ vcpu' = [vcpu EXCEPT ![t] = NoVCPU]
                     /\ IF free_list = <<>>
                        THEN event_is_set' = TRUE /\ CondSignal
                        ELSE UNCHANGED <<event_is_set, cond>>

\* The bounded wait times out: yield, then wait without a bound.
Yield(t) == /\ pc[t] = "zutex_wait"
            /\ yield_kvm_vcpu(t)
            /\ Goto(t, "zutex_sleep")
            /\ UNCHANGED <<next_ident, all_vcpus_used>>

\* thread_exit: service_loop ends and ~ZoogVCPU yields.
thread_exit(t) == /\ pc[t] = "host"
                  /\ yield_kvm_vcpu(t)
                  /\ Goto(t, "exited")
                  /\ UNCHANGED <<next_ident, all_vcpus_used>>

Next == \E t \in Threads :
           \/ KeepVCPU(t) \/ Recycle(t) \/ Create(t) \/ AwaitFree(t) \/ EventWait(t)
           \/ SpuriousWake(t)
           \/ Exit(t) \/ ShortCall(t) \/ Block(t) \/ Unblock(t) \/ Yield(t) \/ thread_exit(t)
           \/ \E u \in Threads : thread_create(t, u)

Spec == Init /\ [][Next]_vars
-----------------------------------------------------------------------------
Free == {free_list[i] : i \in DOMAIN free_list}
Held == {vcpu[t] : t \in Threads} \ {NoVCPU}

\* Every VCPU ever created is either in the free list, once, or allocated to
\* one thread: claim and yield lose none and share none (VCPUPool.cpp:111-163,
\* ZoogVCPU.cpp:300-347).
Conservation ==
    /\ Free \cap Held = {}
    /\ Free \cup Held = 0..(next_ident - 1)
    /\ \A i, j \in DOMAIN free_list : free_list[i] = free_list[j] => i = j
    /\ \A t, u \in Threads : vcpu[t] = vcpu[u] /\ vcpu[t] /= NoVCPU => t = u

\* A thread runs guest code only on a VCPU of its own, and gives it back
\* before it sleeps without a bound (ZutexWaiter.cpp:11-24, "zutex_wait
\* should be bounded" in VCPUYieldControlIfc.h).
HeldWhenNeeded ==
    \A t \in Threads :
        /\ pc[t] \in {"guest", "host", "zutex_wait", "receive"} => vcpu[t] /= NoVCPU
        /\ pc[t] \in {"unborn", "event_wait", "zutex_sleep", "exited"} => vcpu[t] = NoVCPU

\* While a VCPU is free the event is set: the reset of allocate never wipes
\* out the signal of a free, so a thread that comes to wait beside a free
\* VCPU does not fall asleep (VCPUPool.cpp:139-163).  Of the threads asleep
\* already the signal wakes one, however many VCPUs are freed after it.
FreeIsAnnounced == free_list /= <<>> => event_is_set
=============================================================================
