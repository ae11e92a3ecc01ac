----------------------------------- MODULE VMMC -----------------------------------
(* Two processes with a page of a program, of a stack and of a mapped file. *)
EXTENDS VM

CONSTANTS p, q, text, top, map, f1, f2, f3, f4

MCProc == {p, q}
MCSegment == {text}
MCStack == {top}
MCMap == {map}
MCFrame == {f1, f2, f3, f4}
MCKva == 0 .. 3
MCSlot == 0 .. 1
MCSize == { << 2, 2 >>, << 3, 1 >>, << 4, 0 >> }
==================================================================================
