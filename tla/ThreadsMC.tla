------------------------------- MODULE ThreadsMC -------------------------------
(* Small instances of Threads: main, idle and two more threads. *)
EXTENDS Threads

CONSTANTS main, idle, a, b

MCThread == {main, idle, a, b}

(* a and b are only ever told apart by the pages they live in. *)
Symmetry == Permutations({a, b})
===============================================================================
