------------------------------- MODULE ZQueue -------------------------------
(***************************************************************************)
(* The client's message queue (toolchains/linux_elf/common/ZQueue.cpp;     *)
(* packetfilter.cpp has an older copy of it): a linked list with a tail    *)
(* pointer under a zmutex, whose seq_zutex word consumers sleep on.  An    *)
(* insertion into an empty queue wakes one waiter, and whoever leaves      *)
(* something behind wakes the next.  A poller waits for the queue or       *)
(* something else with zas_wait_any (select, poll) and takes nothing.      *)
(***************************************************************************)
EXTENDS Naturals

CONSTANTS Threads,
          Pollers,    \* the threads that consume and also wait in select or poll
          MaxItems    \* bound: how many messages are inserted

HEAD == 0             \* the entry zq->head; messages are numbered from 1
NULL == MaxItems + 1
Entries == HEAD..MaxItems

VARIABLES next,       \* [Entries -> Entries \cup {NULL}]
          tailp,
          seq,        \* zq->seq_zutex
          inserter,   \* the set of threads inside zq_insert: it holds the mutex
          pc,
          match_val,  \* what a waiter's check saw
          inserted,   \* history: how many messages came
          consumed    \* history: how many were taken

vars == <<next, tailp, seq, inserter, pc, match_val, inserted, consumed>>
listvars == <<next, tailp, inserted, consumed>>

\* "look", "take": zq_consume; "check", "wait", "asleep": its zas_wait_any;
\* "pcheck", "pwait", "pasleep": a poller's; "left": it returned from that
PCs == {"idle", "left", "look", "take", "check", "wait", "asleep", "pcheck", "pwait", "pasleep", "insert"}

TypeOK == /\ next \in [Entries -> Entries \cup {NULL}]
          /\ tailp \in Entries
          /\ seq \in 0..MaxItems
          /\ \A t \in inserter : inserter = {t} /\ pc[t] = "insert"
          /\ pc \in [Threads -> PCs]
          /\ match_val \in [Threads -> 0..MaxItems]
          /\ inserted \in 0..MaxItems
          /\ consumed \in 0..inserted

Init == /\ next = [e \in Entries |-> NULL]
        /\ tailp = HEAD
        /\ seq = 0
        /\ inserter = {}
        /\ pc = [t \in Threads |-> "idle"]
        /\ match_val = [t \in Threads |-> 0]
        /\ inserted = 0
        /\ consumed = 0

zq_is_empty == next[HEAD] = NULL
asleep == {t \in Threads : pc[t] \in {"asleep", "pasleep"}}

Outside(t) == pc[t] \in {"idle", "left"}

Goto(t, label) == pc' = [pc EXCEPT ![t] = label]

\* Thread t goes to label; if b, zutex_simple_wake wakes one of the sleepers.
GotoAndWake(t, label, b) ==
    \/ /\ b => asleep = {}
       /\ Goto(t, label)
    \/ /\ b
       /\ \E u \in asleep :
             pc' = [pc EXCEPT ![t] = label,
                              ![u] = IF @ = "asleep" THEN "check" ELSE "pcheck"]

-----------------------------------------------------------------------------
\* zq_insert, under the mutex: the word changes ...
zq_insert(t) ==
    /\ t \notin Pollers /\ Outside(t)
    /\ inserter = {}
    /\ seq < MaxItems
    /\ inserter' = {t}
    /\ seq' = seq + 1
    /\ Goto(t, "insert")
    /\ UNCHANGED <<listvars, match_val>>

\* ... a waiter is woken if the queue was empty, and the entry is linked
InsertLink(t) ==
    /\ pc[t] = "insert"
    /\ GotoAndWake(t, "idle", zq_is_empty)
    /\ next' = [next EXCEPT ![tailp] = inserted + 1]
    /\ tailp' = inserted + 1
    /\ inserted' = inserted + 1
    /\ inserter' = {}
    /\ UNCHANGED <<seq, match_val, consumed>>

zq_consume(t) ==
    /\ Outside(t)
    /\ Goto(t, "look")
    /\ UNCHANGED <<listvars, seq, inserter, match_val>>

\* zas_check: is there something?
Look(t) ==
    /\ pc[t] = "look"
    /\ inserter = {}
    /\ Goto(t, IF zq_is_empty THEN "check" ELSE "take")
    /\ UNCHANGED <<listvars, seq, inserter, match_val>>

\* Someone grabbed it after the check: loop around
Grabbed(t) ==
    /\ pc[t] = "take"
    /\ inserter = {}
    /\ zq_is_empty
    /\ Goto(t, "look")
    /\ UNCHANGED <<listvars, seq, inserter, match_val>>

\* Mutant of Take: whatever is left is left for the next insertion.
Take_quiet(t, whole) ==
    /\ pc[t] = "take"
    /\ inserter = {}
    /\ ~zq_is_empty
    /\ LET zqe == next[HEAD] IN
       /\ next' = [next EXCEPT ![HEAD] = IF whole THEN next[zqe] ELSE zqe]
       /\ tailp' = IF next'[HEAD] = NULL THEN HEAD ELSE tailp
       /\ consumed' = IF whole THEN consumed + 1 ELSE consumed
    /\ Goto(t, "idle")
    /\ UNCHANGED <<seq, inserter, match_val, inserted>>

\* Mutant of Take: the tail pointer is not reset when the queue gets empty.
Take_keep_tail(t, whole) ==
    /\ pc[t] = "take"
    /\ inserter = {}
    /\ ~zq_is_empty
    /\ LET zqe == next[HEAD] IN
       /\ next' = [next EXCEPT ![HEAD] = IF whole THEN next[zqe] ELSE zqe]
       /\ consumed' = IF whole THEN consumed + 1 ELSE consumed
    /\ GotoAndWake(t, "idle", next'[HEAD] /= NULL)
    /\ UNCHANGED <<tailp, seq, inserter, match_val, inserted>>

\* consume_method takes the whole of the first message or a part of it; if
\* anything is left, another waiter is woken
Take(t, whole) ==
    /\ pc[t] = "take"
    /\ inserter = {}
    /\ ~zq_is_empty
    /\ LET zqe == next[HEAD] IN
       /\ next' = [next EXCEPT ![HEAD] = IF whole THEN next[zqe] ELSE zqe]
       /\ tailp' = IF next'[HEAD] = NULL THEN HEAD ELSE tailp
       /\ consumed' = IF whole THEN consumed + 1 ELSE consumed
    /\ GotoAndWake(t, "idle", next'[HEAD] /= NULL)
    /\ UNCHANGED <<seq, inserter, match_val, inserted>>

\* zas_wait_any's _zq_check: a queue that is not empty ends the wait, else
\* the word is noted
_zq_check(t) ==
    /\ pc[t] \in {"check", "pcheck"}
    /\ inserter = {}
    /\ \/ /\ ~zq_is_empty
          /\ Goto(t, IF pc[t] = "check" THEN "look" ELSE "left")
          /\ match_val' = match_val
       \/ /\ zq_is_empty
          /\ Goto(t, IF pc[t] = "check" THEN "wait" ELSE "pwait")
          /\ match_val' = [match_val EXCEPT ![t] = seq]
    /\ UNCHANGED <<listvars, seq, inserter>>

\* zoog_zutex_wait
zutex_wait(t) ==
    /\ pc[t] \in {"wait", "pwait"}
    /\ Goto(t, IF seq = match_val[t]
                 THEN IF pc[t] = "wait" THEN "asleep" ELSE "pasleep"
                 ELSE IF pc[t] = "wait" THEN "check" ELSE "pcheck")
    /\ UNCHANGED <<listvars, seq, inserter, match_val>>

\* zas_wait_any with the queue's ZAS among others (zq_get_zas)
Poll(t) ==
    /\ t \in Pollers /\ Outside(t)
    /\ Goto(t, "pcheck")
    /\ UNCHANGED <<listvars, seq, inserter, match_val>>

\* Another ZAS of the poller's list is ready: it is woken, or it finds that
\* one before it looks at the queue and returns.
OtherReady(t) ==
    /\ pc[t] \in {"pasleep", "pcheck"}
    /\ Goto(t, IF pc[t] = "pasleep" THEN "pcheck" ELSE "left")
    /\ UNCHANGED <<listvars, seq, inserter, match_val>>

Next == \E t \in Threads :
           \/ zq_insert(t) \/ InsertLink(t)
           \/ zq_consume(t) \/ Look(t) \/ Grabbed(t)
           \/ \E whole \in BOOLEAN : Take(t, whole)
           \/ _zq_check(t) \/ zutex_wait(t)
           \/ Poll(t) \/ OtherReady(t)

Spec == Init /\ [][Next]_vars
-----------------------------------------------------------------------------
\* The list holds exactly the messages that came and were not taken, in the
\* order they came, and the tail pointer is at its end: nothing is lost,
\* duplicated or overtaken (ZQueue.cpp:72-84, 112-113).
InOrder ==
    /\ TypeOK
    /\ next[HEAD] = IF consumed = inserted THEN NULL ELSE consumed + 1
    /\ \A e \in (consumed + 1)..inserted : next[e] = IF e = inserted THEN NULL ELSE e + 1
    /\ tailp = IF consumed = inserted THEN HEAD ELSE inserted

\* A thread that is about to look into the queue.
Coming(t) == \/ pc[t] \in {"look", "take", "check", "pcheck"}
             \/ pc[t] \in {"wait", "pwait"} /\ match_val[t] /= seq

\* While messages are left and consumers sleep, somebody is on the way who
\* will take one or wake the next (packetfilter.cpp:55-57, 119-127;
\* ZQueue.cpp:86-91, 108-111), unless a poller that has returned from its
\* wait is still to come back: the one wake may have been spent on it.
NoLostWake == ~zq_is_empty /\ asleep /= {}
                 => \E t \in Threads : Coming(t) \/ pc[t] = "left"
=============================================================================
