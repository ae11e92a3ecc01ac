------------------------------- MODULE LockService -------------------------------
(***************************************************************************)
(* What a lock of threads/synch.h promises its clients, with no word of    *)
(* semaphores, priorities or scheduling: a lock has at most one owner, a   *)
(* thread gets one only after asking for it and only while it is free, and *)
(* only the owner gives it back.                                           *)
(***************************************************************************)
CONSTANTS Thread, Lock, NULL

VARIABLES
  owner,     \* the thread each lock belongs to, or NULL
  asking     \* the threads inside lock_acquire, for each lock

vars == << owner, asking >>

Init ==
  /\ owner = [l \in Lock |-> NULL]
  /\ asking = [l \in Lock |-> {}]

Ask(t, l) ==
  /\ owner[l] # t /\ t \notin asking[l]
  /\ asking' = [asking EXCEPT ![l] = @ \cup {t}]
  /\ UNCHANGED owner

Grant(t, l) ==
  /\ owner[l] = NULL /\ t \in asking[l]
  /\ owner' = [owner EXCEPT ![l] = t]
  /\ asking' = [asking EXCEPT ![l] = @ \ {t}]

TryAcquire(t, l) ==
  /\ owner[l] = NULL
  /\ owner' = [owner EXCEPT ![l] = t]
  /\ UNCHANGED asking

Release(t, l) ==
  /\ owner[l] = t
  /\ owner' = [owner EXCEPT ![l] = NULL]
  /\ UNCHANGED asking

Next ==
  \E t \in Thread, l \in Lock :
     Ask(t, l) \/ Grant(t, l) \/ TryAcquire(t, l) \/ Release(t, l)

Spec == Init /\ [][Next]_vars
==================================================================================
