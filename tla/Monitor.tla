-------------------------------- MODULE Monitor --------------------------------
(***************************************************************************)
(* Condition variables (threads/synch.c): threads that share a lock and    *)
(* one condition.  cond_wait queues a semaphore of its own, gives the lock *)
(* up, sleeps and takes the lock again; between these steps anybody runs.  *)
(*                                                                         *)
(* The list of waiters is ordered by sema_priority_cmp, which reads the    *)
(* priority of the first thread asleep on each semaphore.  As long as its  *)
(* owner is not asleep yet there is none, and the comparison reads some    *)
(* other part of memory: `Misread`.  Priorities do not change here.        *)
(***************************************************************************)
EXTENDS KernelList

CONSTANTS
  Thread, NULL,
  Priority,   \* the priority of each thread
  Misread     \* what a comparison may take for a priority

VARIABLES
  holder,     \* of the lock
  waiters,    \* cond->waiters: the threads whose semaphore_elem is linked
  value,      \* of each thread's own semaphore
  pc

vars == <<holder, waiters, value, pc>>

Init ==
  /\ holder = NULL /\ waiters = <<>>
  /\ value = [t \in Thread |-> 0]
  /\ pc = [t \in Thread |-> "out"]

Goto(t, l) == pc' = [pc EXCEPT ![t] = l]

(* What sema_priority_cmp may see of each thread. *)
Keys == { [u \in Thread |-> IF pc[u] = "asleep" THEN Priority[u] ELSE g[u]] :
            g \in [Thread -> Misread] }

-------------------------------------------------------------------------------
LockAcquire(t) ==
  /\ pc[t] \in {"out", "again"} /\ holder = NULL
  /\ holder' = t /\ Goto(t, "in")
  /\ UNCHANGED <<waiters, value>>

LockRelease(t) ==
  /\ pc[t] = "in"
  /\ holder' = NULL /\ Goto(t, "out")
  /\ UNCHANGED <<waiters, value>>

CondWait(t) ==
  /\ pc[t] = "in"
  /\ \E k \in Keys : waiters' = InsertDescending(waiters, t, k)
  /\ value' = [value EXCEPT ![t] = 0]
  /\ Goto(t, "release")
  /\ UNCHANGED holder

CondWaitRelease(t) ==
  /\ pc[t] = "release"
  /\ holder' = NULL /\ Goto(t, "down")
  /\ UNCHANGED <<waiters, value>>

(* A sema_down that sleeps without looking at the value. *)
CondWaitDownBlind(t) ==
  /\ pc[t] = "down" /\ Goto(t, "asleep")
  /\ UNCHANGED <<holder, waiters, value>>

CondWaitDown(t) ==
  /\ pc[t] = "down"
  /\ IF value[t] = 0
       THEN Goto(t, "asleep") /\ UNCHANGED value
       ELSE Goto(t, "again") /\ value' = [value EXCEPT ![t] = @ - 1]
  /\ UNCHANGED <<holder, waiters>>

(* cond_signal without list_sort. *)
InsertedOrder(s) == {s}
Sorted(s) == UNION { SortsDescending(s, k) : k \in Keys }
PopFront(s) == Tail(s)

(* cond_signal: sort, pop the first, up its semaphore.  The signaller goes *)
(* on in L.                                                                *)
CondSignal(t, l) ==
  \E s \in Sorted(waiters) :
    LET u == Head(s) IN
    /\ waiters' = PopFront(s)
    /\ value' = [value EXCEPT ![u] = @ + 1]
    /\ pc' = [pc EXCEPT ![t] = l, ![u] = IF @ = "asleep" THEN "down" ELSE @]
    /\ UNCHANGED holder

Signal(t) == pc[t] = "in" /\ waiters # <<>> /\ CondSignal(t, "in")

CondBroadcast(t) ==
  /\ pc[t] = "in" /\ waiters # <<>>
  /\ Goto(t, "broadcast")
  /\ UNCHANGED <<holder, waiters, value>>

BroadcastStep(t) ==
  /\ pc[t] = "broadcast"
  /\ IF waiters # <<>> THEN CondSignal(t, "broadcast")
                       ELSE Goto(t, "in") /\ UNCHANGED <<holder, waiters, value>>

(* What a thread does inside the routines, not what its user decides. *)
InsideStep(t) == CondWaitRelease(t) \/ CondWaitDown(t) \/ BroadcastStep(t)
UserStep(t) == LockAcquire(t) \/ LockRelease(t) \/ CondWait(t) \/ Signal(t) \/ CondBroadcast(t)

Next == \E t \in Thread : InsideStep(t) \/ UserStep(t)

Spec == Init /\ [][Next]_vars

-------------------------------------------------------------------------------
TypeOK ==
  /\ holder \in Thread \cup {NULL}
  /\ waiters \in Seq(Thread) /\ value \in [Thread -> 0..1]
  /\ pc \in [Thread -> {"out", "in", "release", "down", "asleep", "again", "broadcast"}]

Waiting(t) == pc[t] \in {"release", "down", "asleep"}
Listed(t) == \E i \in 1..Len(waiters) : waiters[i] = t

(* A thread in cond_wait is either on the list, once, or has been given    *)
(* its one wakeup; a thread that sleeps is on the list.  No signal is      *)
(* lost in the gap between lock_release and sema_down, none wakes two      *)
(* threads, and none wakes a thread that has left.                         *)
OneWakeupEach ==
  /\ NoDuplicates(waiters)
  /\ \A t \in Thread :
       /\ Listed(t) => Waiting(t) /\ value[t] = 0
       /\ value[t] = 1 => pc[t] \in {"release", "down"}
       /\ Waiting(t) /\ value[t] = 0 => Listed(t)

(* A signal that finds every waiter asleep wakes one of the highest        *)
(* priority, however the list was ordered before.                          *)
PicksHighest ==
  \A u \in Thread :
    (value'[u] > value[u] /\ \A v \in Thread : Listed(v) => pc[v] = "asleep") =>
      \A v \in Thread : Listed(v) => Priority[u] >= Priority[v]
===============================================================================
