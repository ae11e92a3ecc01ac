---------------------------------- MODULE FilesMC ----------------------------------
(* Two processes, two names, three sectors. *)
EXTENDS Files, TLC

CONSTANTS p, q, a, b, i1, i2

MCProc == {p, q}
MCName == {a, b}
MCSector == 2 .. 4
MCEntry == {1, 2}
MCFd == {2}
MCInode == {i1, i2}
MCLength == {0, 1}
Symmetry == Permutations(MCProc) \cup Permutations(MCName) \cup Permutations(MCInode)
==================================================================================
