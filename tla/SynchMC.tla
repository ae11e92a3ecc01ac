-------------------------------- MODULE SynchMC --------------------------------
(* Small instances of Synch: main, idle and one or two more threads. *)
EXTENDS Synch

CONSTANTS main, idle, a, b, s1

MCThread3 == {main, idle, a}
MCThread4 == {main, idle, a, b}

(* a and b start alike where every client may use every lock. *)
Symmetry == Permutations({a, b})

UsesAll == [t \in Thread |-> Lock]
UsesNested ==
  [t \in Thread |-> CASE t = main -> {1} [] t = a -> {1, 2} [] OTHER -> {2}]

Zero == [s \in Sema |-> 0]

(* Bound: of the three clients of two nested locks, b alone starts with    *)
(* the lower priority: main and a take turns, and donate to b.             *)
NestedInit == Init /\ priority[a] = 1 /\ priority[b] = 0
===============================================================================
