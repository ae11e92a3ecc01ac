------------------------------ MODULE KernelList ------------------------------
(***************************************************************************)
(* The intrusive lists of lib/kernel/list.c, as sequences of their         *)
(* elements.  A comparison function of the kernel always compares one      *)
(* integer field of the two elements, so the ordered operations take that  *)
(* field as a function `key` instead of a comparison operator.             *)
(***************************************************************************)
EXTENDS Integers, Sequences, SequencesExt

(***************************************************************************)
(* list_insert walks to the first position of `before` and links the       *)
(* element there; with no such position it goes to the end of the list.    *)
(***************************************************************************)
InsertBefore(s, before, e) ==
  InsertAt(s, IF before = {} THEN Len(s) + 1 ELSE Min(before), e)

(* Mutant of InsertDescending: before the elements of equal key as well. *)
InsertDescendingLifo(s, e, key) ==
  InsertBefore(s, {i \in 1..Len(s) : key[e] >= key[s[i]]}, e)

(* list_insert_ordered with a comparison "larger key first": e goes before *)
(* the first element whose key is strictly smaller (FIFO among equals).    *)
InsertDescending(s, e, key) ==
  InsertBefore(s, {i \in 1..Len(s) : key[e] > key[s[i]]}, e)

(* list_insert_ordered with "smaller key first" (thread_wakeup_tick_cmp). *)
InsertAscending(s, e, key) ==
  InsertBefore(s, {i \in 1..Len(s) : key[e] < key[s[i]]}, e)

(***************************************************************************)
(* A walk from list_begin to list_end that takes out, with list_remove,    *)
(* the elements that are not in keep: what is left after i of them.        *)
(***************************************************************************)
Kept(s, keep) ==
  LET F[i \in 0..Len(s)] ==
        IF i = 0 THEN << >>
        ELSE IF s[i] \in keep THEN Append(F[i - 1], s[i]) ELSE F[i - 1]
  IN  F[Len(s)]

IsDescending(s, key) ==
  \A i, j \in 1..Len(s) : i < j => key[s[i]] >= key[s[j]]

IsAscending(s, key) ==
  \A i, j \in 1..Len(s) : i < j => key[s[i]] =< key[s[j]]

(* A list of elements that are linked at most once. *)
NoDuplicates(s) == \A i, j \in 1..Len(s) : s[i] = s[j] => i = j

(***************************************************************************)
(* list_sort (natural merge sort) with "larger key first" permutes the     *)
(* elements into descending order and keeps the order of equal keys.       *)
(* SortsDescending is the set of its possible results: one list.           *)
(***************************************************************************)
Rearrangement(s, p) == [i \in 1..Len(s) |-> s[p[i]]]

IsStableSort(s, p, key) ==
  \A i, j \in 1..Len(s) : i < j =>
     \/ key[s[p[i]]] > key[s[p[j]]]
     \/ key[s[p[i]]] = key[s[p[j]]] /\ p[i] < p[j]

SortsDescending(s, key) ==
  { Rearrangement(s, p) :
      p \in { q \in Bijection(1..Len(s), 1..Len(s)) : IsStableSort(s, q, key) } }
===============================================================================
