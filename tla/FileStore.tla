--------------------------------- MODULE FileStore ---------------------------------
(***************************************************************************)
(* What the disk promises about the files of the root directory, whatever  *)
(* happens to the memory of the system: a file is a name and some sectors  *)
(* of its own, it comes and goes at once, and a reboot changes nothing.    *)
(***************************************************************************)
CONSTANTS Name, Sector

VARIABLE store    \* the sectors of each file: none when there is no such file

Init == store \in [Name -> SUBSET Sector]

Create(n, S) ==
  /\ store[n] = {} /\ S # {}
  /\ \A m \in Name : store[m] \cap S = {}
  /\ store' = [store EXCEPT ![n] = S]

Remove(n) ==
  /\ store[n] # {}
  /\ store' = [store EXCEPT ![n] = {}]

Next == \E n \in Name : Remove(n) \/ \E S \in SUBSET Sector : Create(n, S)

Spec == Init /\ [][Next]_store
==================================================================================
