----------------------------- MODULE VCPUPause -----------------------------
(***************************************************************************)
(* How the KVM monitor stops an app's threads to dump core: _pause_all and *)
(* _resume_all, run by the main thread from emit_corefile, against the     *)
(* service_loop of every thread (monitors/linux_kvm/monitor/ZoogVCPU.cpp,  *)
(* ZoogVM.cpp).  A thread's two flags are plain bools, and its condition   *)
(* variables are signalled without the mutexes their waiters hold, so      *)
(* every access is a step of its own.                                      *)
(***************************************************************************)
EXTENDS Naturals

CONSTANT MaxVCPUs          \* bound on the threads the app creates

VARIABLES count,              \* length of the VM's list vcpus: threads 1..count
          pause_control_flag, \* the main thread wants the thread stopped
          is_paused_flag,     \* the thread is not in KVM_RUN
          vpc,                \* where each thread is, in run and service_loop
          cur,                \* how far the main thread is in the list
          ppc                 \* where the main thread is

vars == <<count, pause_control_flag, is_paused_flag, vpc, cur, ppc>>

VCPU == 1..MaxVCPUs
Listed == 1..count
Parking == {"park", "before_wait", "parked"}

Init == /\ count = 1
        /\ pause_control_flag = [v \in VCPU |-> FALSE]
        /\ is_paused_flag = [v \in VCPU |-> FALSE]
        /\ vpc = [v \in VCPU |-> IF v = 1 THEN "run" ELSE "unborn"]
        /\ cur = 1
        /\ ppc = "idle"

-----------------------------------------------------------------------------
(* The thread of VCPU v. *)

Move(v, from, to) == vpc[v] = from /\ vpc' = [vpc EXCEPT ![v] = to]
SetPausedFlag(v, b) == is_paused_flag' = [is_paused_flag EXCEPT ![v] = b]

\* run: my_thread_id is set, then service_loop starts.
Start(v) == /\ Move(v, "run", "test")
            /\ UNCHANGED <<count, pause_control_flag, is_paused_flag, cur, ppc>>

\* while (pause_control_flag)
TestControl(v) == /\ Move(v, "test", IF pause_control_flag[v] THEN "park" ELSE "go")
                  /\ UNCHANGED <<count, pause_control_flag, is_paused_flag, cur, ppc>>

\* pthread_cond_signal(&has_paused_cond)
SignalHasPaused(v) == ppc' = IF ppc = "waiting" /\ cur = v THEN "test" ELSE ppc

Park(v) == /\ Move(v, "park", "before_wait")
           /\ SetPausedFlag(v, TRUE)
           /\ SignalHasPaused(v)
           /\ UNCHANGED <<count, pause_control_flag, cur>>

\* pthread_cond_wait(&done_pause_cond, &pause_mutex), which may return
\* without a signal.
WaitDone(v) == /\ \/ Move(v, "before_wait", "parked")
                  \/ Move(v, "parked", "test")
               /\ UNCHANGED <<count, pause_control_flag, is_paused_flag, cur, ppc>>

\* Mutant of ClearPaused: the flag of the last zoogcall is left set.
ClearPaused_forget(v) == /\ Move(v, "go", "enter")
                         /\ UNCHANGED <<count, pause_control_flag, is_paused_flag, cur, ppc>>

\* is_paused_flag = false, then claim_kvm_vcpu
ClearPaused(v) == /\ Move(v, "go", "enter")
                  /\ SetPausedFlag(v, FALSE)
                  /\ UNCHANGED <<count, pause_control_flag, cur, ppc>>

\* ioctl(KVM_RUN)
Enter(v) == /\ Move(v, "enter", "guest")
            /\ UNCHANGED <<count, pause_control_flag, is_paused_flag, cur, ppc>>

\* KVM_RUN returns, or fails with EFAULT.
Exit(v) == /\ Move(v, "guest", "exited") \/ Move(v, "guest", "dying")
           /\ UNCHANGED <<count, pause_control_flag, is_paused_flag, cur, ppc>>

\* is_paused_flag = true, then handle_zoogcall, or an exit_reason that the
\* monitor cannot handle
SetPaused(v) == /\ Move(v, "exited", "handler") \/ Move(v, "exited", "dying")
                /\ SetPausedFlag(v, TRUE)
                /\ UNCHANGED <<count, pause_control_flag, cur, ppc>>

HandlerDone(v) == /\ Move(v, "handler", "test")
                  /\ UNCHANGED <<count, pause_control_flag, is_paused_flag, cur, ppc>>

\* thread_create: the new ZoogVCPU enters the list, then its thread starts.
thread_create(v) == /\ vpc[v] = "handler" /\ count < MaxVCPUs
                    /\ count' = count + 1
                    /\ vpc' = [vpc EXCEPT ![v] = "test", ![count + 1] = "run"]
                    /\ UNCHANGED <<pause_control_flag, is_paused_flag, cur, ppc>>

\* kablooey(true): the thread never runs again, and sets the flag.
kablooey(v) == /\ Move(v, "dying", "dead")
               /\ SetPausedFlag(v, TRUE)
               /\ SignalHasPaused(v)
               /\ UNCHANGED <<count, pause_control_flag, cur>>

-----------------------------------------------------------------------------
(* The main thread. *)

\* start sees a core dump requested, by a dying thread or from a debugger.
emit_corefile == /\ ppc = "idle"
                 /\ ppc' = "pause" /\ cur' = 1
                 /\ UNCHANGED <<count, pause_control_flag, is_paused_flag, vpc>>

\* pause of the next VCPU of the list, or the end of _pause_all; pause
\* asserts that the thread has set my_thread_id.
pause == /\ ppc = "pause"
         /\ \/ /\ cur \in Listed
               /\ pause_control_flag' = [pause_control_flag EXCEPT ![cur] = TRUE]
               /\ ppc' = IF vpc[cur] = "run" THEN "assert" ELSE "test"
            \/ /\ cur \notin Listed
               /\ ppc' = "dump"
               /\ UNCHANGED pause_control_flag
         /\ UNCHANGED <<count, is_paused_flag, vpc, cur>>

\* while (!is_paused_flag) kill(SIGUSR1): the signal makes KVM_RUN return
\* EINTR, and is absorbed anywhere else.
TestPaused == /\ ppc = "test"
              /\ \/ /\ is_paused_flag[cur]
                    /\ ppc' = "pause" /\ cur' = cur + 1
                    /\ vpc' = vpc
                 \/ /\ ~is_paused_flag[cur]
                    /\ ppc' = "before_wait" /\ cur' = cur
                    /\ vpc' = [vpc EXCEPT ![cur] = IF @ = "guest" THEN "test" ELSE @]
              /\ UNCHANGED <<count, pause_control_flag, is_paused_flag>>

\* pthread_cond_wait(&has_paused_cond, &has_paused_mutex)
WaitHasPaused == /\ \/ ppc = "before_wait" /\ ppc' = "waiting"
                    \/ ppc = "waiting" /\ ppc' = "test"
                 /\ UNCHANGED <<count, pause_control_flag, is_paused_flag, vpc, cur>>

\* The core is written; _resume_all starts.
DumpDone == /\ ppc = "dump"
            /\ ppc' = "resume" /\ cur' = 1
            /\ UNCHANGED <<count, pause_control_flag, is_paused_flag, vpc>>

\* resume: clear the flag ...
resume == /\ ppc = "resume"
          /\ \/ /\ cur \in Listed
                /\ pause_control_flag' = [pause_control_flag EXCEPT ![cur] = FALSE]
                /\ ppc' = "signal" /\ cur' = cur
             \/ /\ cur \notin Listed
                /\ ppc' = "idle" /\ cur' = 1
                /\ UNCHANGED pause_control_flag
          /\ UNCHANGED <<count, is_paused_flag, vpc>>

\* ... and pthread_cond_signal(&done_pause_cond).
SignalDone == /\ ppc = "signal"
              /\ vpc' = [vpc EXCEPT ![cur] = IF @ = "parked" THEN "test" ELSE @]
              /\ ppc' = "resume" /\ cur' = cur + 1
              /\ UNCHANGED <<count, pause_control_flag, is_paused_flag>>

VCPUStep(v) == \/ Start(v) \/ TestControl(v) \/ Park(v) \/ WaitDone(v) \/ ClearPaused(v)
               \/ Enter(v) \/ Exit(v) \/ SetPaused(v) \/ HandlerDone(v)
               \/ thread_create(v) \/ kablooey(v)
MainStep == \/ emit_corefile \/ pause \/ TestPaused \/ WaitHasPaused \/ DumpDone
            \/ resume \/ SignalDone

Next == (\E v \in VCPU : VCPUStep(v)) \/ MainStep

Spec == Init /\ [][Next]_vars
-----------------------------------------------------------------------------
Held(v) == vpc[v] \in Parking \cup {"test"}

\* pause returns only at a moment when the thread is not in the guest: a set
\* is_paused_flag is never left over from before the thread entered it
\* (ZoogVCPU.cpp:284-292, 363, 389).  And once a thread has set out to park it
\* does not enter the guest before the main thread clears pause_control_flag,
\* however often it is woken up (ZoogVCPU.cpp:354-361).
PauseHolds ==
    [][/\ ppc = "test" /\ ppc' = "pause" => vpc[cur] /= "guest"
       /\ \A v \in VCPU : pause_control_flag[v] /\ Held(v) => Held(v)']_vars

\* The comment in pause (ZoogVCPU.cpp:279-283): a thread that was found
\* paused does not resume the VCPU while the core is written.
PausedStaysOut == ppc = "dump" => \A v \in Listed : pause_control_flag[v] => vpc[v] /= "guest"
=============================================================================
