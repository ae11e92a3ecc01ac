---------------------------- MODULE ProcessProofs ----------------------------
(***************************************************************************)
(* The invariants of module Process, for every number of processes.        *)
(*                                                                         *)
(* FamilyInv relates where a parent and a child stand to the list that     *)
(* links them and to the values of the child's semaphores: that is how     *)
(* process.c keeps a struct thread from being freed while its parent uses  *)
(* it, without any lock.                                                   *)
(***************************************************************************)
EXTENDS Process, SequenceTheorems, TLAPS

InFork == {"fork_find", "fork_load", "fork_check"}

(* In process_wait, before its child is unlinked, and once it is told.     *)
Waiting == {"wait_down", "wait_read", "wait_remove"}
Told == {"wait_read", "wait_remove", "wait_up"}

Listed(c) == \E q \in Proc : c \in Range(child_list[q])

(* No parent will ever look at c again. *)
LetGo(c) == ~ Listed(c) /\ \A q \in Proc : child[q] # c

(* A process works on a child exactly in fork and wait, and alone; ...     *)
ChildInCall ==
  /\ \A p \in Proc : child[p] # NULL <=> pc[p] \in InFork \cup Waiting \cup {"wait_up"}
  /\ \A p, q \in Proc : child[p] # NULL /\ child[p] = child[q] => p = q

(* ... it is in its list, until process_wait unlinks it.                   *)
ChildIsLinked ==
  \A p \in Proc :
    /\ pc[p] \in InFork \cup Waiting => child[p] \in Range(child_list[p])
    /\ pc[p] = "wait_up" => ~ Listed(child[p])

ListsAreDisjoint ==
  /\ \A p, q \in Proc : p # q => Range(child_list[p]) \cap Range(child_list[q]) = {}
  /\ \A p \in Proc : IsInjective(child_list[p])

NewIsUnknown ==
  \A c \in Proc : pc[c] = "none" =>
    /\ load_sema[c] = 0 /\ wait_sema[c] = 0 /\ exit_sema[c] = 0
    /\ forked[c] = "no"
    /\ LetGo(c)

(* load_sema: the child signals once, and its parent is there until then.  *)
CopyIsAwaited ==
  /\ \A c \in Proc : pc[c] = "copy" => load_sema[c] = 0
  /\ \A p \in Proc : pc[p] \in InFork => forked[child[p]] = "no"
  /\ ForkerStandsStill

(* wait_sema: who has signalled waits to be let go, and whoever took the   *)
(* signal finds it so, unless fork had let the child go before.            *)
ExitIsSignalled ==
  /\ \A c \in Proc : wait_sema[c] > 0 => pc[c] \in {"exit_down", "dead"}
  /\ \A p \in Proc : pc[p] \in Told /\ forked[child[p]] # "error" => pc[child[p]] = "exit_down"

(* exit_sema: only who is let go dies. *)
DeadIsLetGo ==
  \A c \in Proc :
    /\ exit_sema[c] > 0 \/ Freed(c) => forked[c] = "error" \/ LetGo(c)
    /\ exit_sema[c] > 1 => LetGo(c)

FamilyInv ==
  /\ TypeOK
  /\ ChildInCall /\ ChildIsLinked /\ ListsAreDisjoint /\ NewIsUnknown
  /\ CopyIsAwaited /\ ExitIsSignalled /\ DeadIsLetGo

-------------------------------------------------------------------------------
(* list_remove, of an element that is linked once.                         *)
LEMMA RemoveFirstProperties ==
  ASSUME NEW T, NEW s \in Seq(T), IsInjective(s), NEW e \in Range(s)
  PROVE  /\ RemoveFirst(s, e) \in Seq(T)
         /\ Range(RemoveFirst(s, e)) = Range(s) \ {e}
         /\ IsInjective(RemoveFirst(s, e))
<1>1. PICK k \in 1 .. Len(s) : s[k] = e
  BY DEF Range
<1>2. \A j \in 1 .. Len(s) : s[j] = e <=> j = k
  BY <1>1 DEF IsInjective
<1>3. SelectInSeq(s, LAMBDA v : v = e) = k
  <2>1. {i \in 1 .. Len(s) : s[i] = e} = {k}
    BY <1>1, <1>2
  <2>2. Min({k}) = k
    BY DEF Min
  <2> QED BY <2>1, <2>2 DEF SelectInSeq
<1> DEFINE l == SubSeq(s, 1, k - 1)
           r == SubSeq(s, k + 1, Len(s))
<1>4. RemoveFirst(s, e) = l \o r
  BY <1>1, <1>3 DEF RemoveFirst, RemoveAt
<1>5. /\ l \in Seq(T) /\ Len(l) = k - 1
      /\ \A i \in 1 .. k - 1 : l[i] = s[i]
  BY SubSeqProperties
<1>6. /\ r \in Seq(T) /\ Len(r) = Len(s) - k
      /\ \A i \in 1 .. Len(s) - k : r[i] = s[k + i]
  BY SubSeqProperties
<1> HIDE DEF l, r
<1> DEFINE q == l \o r
<1>7. /\ q \in Seq(T) /\ Len(q) = Len(s) - 1
      /\ \A i \in 1 .. Len(s) - 1 : q[i] = IF i =< k - 1 THEN l[i] ELSE r[i - (k - 1)]
  BY <1>5, <1>6, LenProperties
<1> HIDE DEF q
<1>8. \A i \in 1 .. Len(s) - 1 : q[i] = IF i < k THEN s[i] ELSE s[i + 1]
  <2> SUFFICES ASSUME NEW i \in 1 .. Len(s) - 1
               PROVE  q[i] = IF i < k THEN s[i] ELSE s[i + 1]
    OBVIOUS
  <2>1. CASE i < k
    BY <2>1, <1>5, <1>7
  <2>2. CASE i >= k
    <3>1. i - (k - 1) \in 1 .. Len(s) - k /\ k + (i - (k - 1)) = i + 1
      BY <2>2, LenProperties
    <3> QED BY <3>1, <2>2, <1>6, <1>7
  <2> QED BY <2>1, <2>2, LenProperties
<1>9. DOMAIN q = 1 .. Len(s) - 1 /\ DOMAIN s = 1 .. Len(s) /\ Len(s) \in Nat
  BY <1>7, LenProperties
<1>10. Range(q) = Range(s) \ {e}
  <2>1. ASSUME NEW x \in Range(q) PROVE x \in Range(s) \ {e}
    <3>1. PICK i \in 1 .. Len(s) - 1 : x = q[i]
      BY <1>9 DEF Range
    <3>2. PICK j \in 1 .. Len(s) : x = s[j] /\ j # k
      BY <3>1, <1>8, <1>9
    <3> QED BY <3>2, <1>2, <1>9 DEF Range
  <2>2. ASSUME NEW x \in Range(s) \ {e} PROVE x \in Range(q)
    <3>1. PICK j \in 1 .. Len(s) : x = s[j]
      BY <1>9 DEF Range
    <3>2. CASE j < k
      <4>1. j \in 1 .. Len(s) - 1 /\ q[j] = x
        BY <3>1, <3>2, <1>8, <1>9
      <4> QED BY <4>1, <1>9 DEF Range
    <3>3. CASE j > k
      <4>1. j - 1 \in 1 .. Len(s) - 1 /\ q[j - 1] = x
        BY <3>1, <3>3, <1>8, <1>9
      <4> QED BY <4>1, <1>9 DEF Range
    <3> QED BY <3>1, <3>2, <3>3, <1>1
  <2> QED BY <2>1, <2>2
<1>11. IsInjective(q)
  <2> SUFFICES ASSUME NEW i \in 1 .. Len(s) - 1, NEW j \in 1 .. Len(s) - 1, q[i] = q[j]
               PROVE  i = j
    BY <1>9 DEF IsInjective
  <2> DEFINE at(n) == IF n < k THEN n ELSE n + 1
  <2>1. /\ at(i) \in 1 .. Len(s) /\ at(j) \in 1 .. Len(s)
        /\ q[i] = s[at(i)] /\ q[j] = s[at(j)]
    BY <1>8, <1>9
  <2>2. at(i) = at(j)
    <3> HIDE DEF at
    <3> QED BY <2>1, <1>9 DEF IsInjective
  <2> QED BY <2>2, <1>9
<1> QED
  BY <1>4, <1>7, <1>10, <1>11 DEF q

(* list_push_back, of an element that is not linked.                       *)
LEMMA AppendNew ==
  ASSUME NEW T, NEW s \in Seq(T), IsInjective(s), NEW e \in T, e \notin Range(s)
  PROVE  /\ Append(s, e) \in Seq(T)
         /\ Range(Append(s, e)) = Range(s) \cup {e}
         /\ IsInjective(Append(s, e))
<1> DEFINE q == Append(s, e)
<1>1. /\ q \in Seq(T) /\ Len(q) = Len(s) + 1 /\ Len(s) \in Nat
      /\ DOMAIN q = 1 .. Len(s) + 1 /\ DOMAIN s = 1 .. Len(s)
      /\ \A i \in 1 .. Len(s) : q[i] = s[i]
      /\ q[Len(s) + 1] = e
  BY AppendProperties, LenProperties
<1> HIDE DEF q
<1>2. Range(q) = Range(s) \cup {e}
  <2>1. \A i \in 1 .. Len(s) + 1 : i \in 1 .. Len(s) \/ i = Len(s) + 1
    BY <1>1
  <2>2. 1 .. Len(s) \subseteq 1 .. Len(s) + 1 /\ Len(s) + 1 \in 1 .. Len(s) + 1
    BY <1>1
  <2> QED BY <1>1, <2>1, <2>2 DEF Range
<1>3. IsInjective(q)
  <2> SUFFICES ASSUME NEW i \in 1 .. Len(s) + 1, NEW j \in 1 .. Len(s) + 1, q[i] = q[j]
               PROVE  i = j
    BY <1>1 DEF IsInjective
  <2>1. \A n \in 1 .. Len(s) : s[n] # e
    BY <1>1 DEF Range
  <2>2. CASE i \in 1 .. Len(s) /\ j \in 1 .. Len(s)
    BY <2>2, <1>1 DEF IsInjective
  <2>3. CASE i = Len(s) + 1 \/ j = Len(s) + 1
    BY <2>1, <2>3, <1>1
  <2> QED BY <2>2, <2>3, <1>1
<1> QED
  BY <1>1, <1>2, <1>3 DEF q

-------------------------------------------------------------------------------
(* initd's only relative is main, which waits for it. *)
LEMMA InitFamily ==
  ASSUME ProcessAssumption, Init
  PROVE  FamilyInv
<1>1. Range(<< Initd >>) = {Initd} /\ Range(<< >>) = {} /\ IsInjective(<< Initd >>)
      /\ IsInjective(<< >>)
  BY DEF Range, IsInjective
<1>2. TypeOK
  BY DEF ProcessAssumption, Init, TypeOK, PC
<1>3. \A p \in Proc : Range(child_list[p]) = IF p = Main THEN {Initd} ELSE {}
  BY <1>1 DEF ProcessAssumption, Init
<1>4. ListsAreDisjoint
  BY <1>1, <1>3 DEF ProcessAssumption, Init, ListsAreDisjoint
<1>5. ChildInCall /\ ChildIsLinked
  BY <1>3 DEF ProcessAssumption, Init, ChildInCall, ChildIsLinked, InFork, Waiting
<1>6. NewIsUnknown
  BY <1>3 DEF ProcessAssumption, Init, NewIsUnknown, LetGo, Listed
<1>7. CopyIsAwaited /\ ExitIsSignalled /\ DeadIsLetGo
  BY DEF ProcessAssumption, Init, CopyIsAwaited, ExitIsSignalled, DeadIsLetGo, InFork, Told,
         Freed, ForkerStandsStill
<1> QED
  BY <1>2, <1>4, <1>5, <1>6, <1>7 DEF FamilyInv

-------------------------------------------------------------------------------
(* The places where a process has no child in hand and owes no signal. *)
Quiet == PC \ (InFork \cup Waiting \cup Told \cup {"none", "copy", "exit_down", "dead"})

(* A process that goes on without touching what a parent and a child share. *)
LEMMA QuietStep ==
  ASSUME FamilyInv, TypeOK',
         NEW p \in Proc, NEW l \in Quiet, pc[p] \in Quiet,
         pc' = [pc EXCEPT ![p] = l],
         UNCHANGED << child_list, semas, child, forked >>
  PROVE  FamilyInv'
<1> USE DEF FamilyInv, TypeOK, semas
<1>0. /\ pc \in [Proc -> PC] /\ pc' \in [Proc -> PC]
      /\ \A q \in Proc : q # p => pc'[q] = pc[q]
      /\ pc[p] \in Quiet /\ pc'[p] \in Quiet
  OBVIOUS
<1>1. \A c : (Listed(c)' <=> Listed(c)) /\ (LetGo(c)' <=> LetGo(c))
  BY DEF Listed, LetGo
<1>2. ChildInCall'
  BY <1>0 DEF ChildInCall, Quiet, InFork, Waiting, Told
<1>3. ChildIsLinked'
  BY <1>0, <1>1 DEF ChildIsLinked, Quiet, InFork, Waiting, Told
<1>4. ListsAreDisjoint'
  BY DEF ListsAreDisjoint
<1>5. NewIsUnknown'
  BY <1>0, <1>1 DEF NewIsUnknown, Quiet
<1>6. CopyIsAwaited'
  BY <1>0 DEF CopyIsAwaited, ForkerStandsStill, Quiet, InFork
<1>7. ExitIsSignalled'
  BY <1>0 DEF ExitIsSignalled, Quiet, Told
<1>8. DeadIsLetGo'
  BY <1>0, <1>1 DEF DeadIsLetGo, Freed, Quiet
<1> QED
  BY <1>2, <1>3, <1>4, <1>5, <1>6, <1>7, <1>8

(* A panic changes nothing but the flag. *)
LEMMA PanicStep ==
  ASSUME FamilyInv, TypeOK', UNCHANGED << pc, child_list, semas, child, forked >>
  PROVE  FamilyInv'
<1>1. \A c : (Listed(c)' <=> Listed(c)) /\ (LetGo(c)' <=> LetGo(c)) /\ (Freed(c)' <=> Freed(c))
  BY DEF Listed, LetGo, Freed
<1>2. ChildInCall' /\ ChildIsLinked' /\ ListsAreDisjoint'
  BY <1>1 DEF FamilyInv, ChildInCall, ChildIsLinked, ListsAreDisjoint
<1>3. NewIsUnknown' /\ CopyIsAwaited' /\ ExitIsSignalled' /\ DeadIsLetGo'
  BY <1>1 DEF FamilyInv, semas, NewIsUnknown, CopyIsAwaited, ForkerStandsStill,
              ExitIsSignalled, DeadIsLetGo
<1> QED
  BY <1>2, <1>3 DEF FamilyInv

(* The child a process has in hand is a process. *)
LEMMA CallHasChild ==
  ASSUME TypeOK, ChildInCall
  PROVE  \A p \in Proc : pc[p] \in InFork \cup Waiting \cup Told => child[p] \in Proc
  BY DEF TypeOK, ChildInCall, Waiting, Told

(***************************************************************************)
(* fork, on the parent's side.                                             *)
(***************************************************************************)

(* thread_create: from nothing to a child in the list of its parent. *)
LEMMA ForkKeeps ==
  ASSUME ProcessAssumption, FamilyInv, NEW p \in Proc, NEW c \in Proc, Fork(p, c)
  PROVE  FamilyInv'
<1>1. /\ pc[p] = "user" /\ pc[c] = "none" /\ p # c
      /\ UNCHANGED << load_sema, wait_sema, exit_sema, exit_status, fs_holder, status, forked >>
  BY DEF Fork, At, semas
<1>2. CASE UNCHANGED << pc, child_list, child >> /\ panic' = "child_list"
  <2>1. TypeOK'
    BY <1>1, <1>2 DEF FamilyInv, TypeOK
  <2> QED BY <2>1, <1>1, <1>2, PanicStep DEF semas
<1>3. CASE child_list' = [child_list EXCEPT ![p] = Append(@, c)] /\ UNCHANGED panic
  <2> DEFINE kids == child_list[p]
  <2>1. /\ child_list \in [Proc -> Seq(Proc)] /\ kids \in Seq(Proc)
        /\ IsInjective(kids) /\ c \notin Range(kids)
        /\ \A q \in Proc : c \notin Range(child_list[q])
        /\ \A q \in Proc : child[q] # c
    BY <1>1 DEF FamilyInv, TypeOK, ListsAreDisjoint, NewIsUnknown, LetGo, Listed
  <2>2. /\ Append(kids, c) \in Seq(Proc) /\ IsInjective(Append(kids, c))
        /\ Range(Append(kids, c)) = Range(kids) \cup {c}
    BY <2>1, AppendNew
  <2>3. /\ child_list' \in [Proc -> Seq(Proc)]
        /\ child_list'[p] = Append(kids, c)
        /\ \A q \in Proc : q # p => child_list'[q] = child_list[q]
    BY <1>3, <2>1, <2>2
  <2>4. /\ \A q \in Proc : Range(child_list'[q]) =
                              IF q = p THEN Range(child_list[p]) \cup {c} ELSE Range(child_list[q])
        /\ \A q \in Proc : IsInjective(child_list'[q])
    BY <2>2, <2>3 DEF FamilyInv, ListsAreDisjoint
  <2> HIDE DEF kids
  <2>5. \/ /\ pc' = [pc EXCEPT ![p] = "fork_find", ![c] = "copy"]
           /\ child' = [child EXCEPT ![p] = c]
        \/ /\ pc' = [pc EXCEPT ![c] = "stillborn"]
           /\ child' = child
    BY <1>1, <1>3, <2>3, <2>1, <2>2 DEF Fork
  <2>6. /\ pc \in [Proc -> PC] /\ pc' \in [Proc -> PC] /\ child \in [Proc -> Proc \cup {NULL}]
        /\ child' \in [Proc -> Proc \cup {NULL}]
        /\ \A q \in Proc \ {p, c} : pc'[q] = pc[q] /\ child'[q] = child[q]
        /\ child'[c] = child[c]
        /\ \/ pc'[p] = "fork_find" /\ pc'[c] = "copy" /\ child'[p] = c
           \/ pc'[p] = "user" /\ pc'[c] = "stillborn" /\ child'[p] = child[p]
    <3>1. /\ pc \in [Proc -> PC] /\ child \in [Proc -> Proc \cup {NULL}]
          /\ {"fork_find", "copy", "stillborn"} \subseteq PC
      BY DEF FamilyInv, TypeOK, PC
    <3>2. CASE pc' = [pc EXCEPT ![p] = "fork_find", ![c] = "copy"]
               /\ child' = [child EXCEPT ![p] = c]
      BY <1>1, <3>1, <3>2
    <3>3. CASE pc' = [pc EXCEPT ![c] = "stillborn"] /\ child' = child
      BY <1>1, <3>1, <3>3
    <3> QED BY <2>5, <3>2, <3>3
  <2>7. TypeOK'
    BY <1>1, <1>3, <2>3, <2>6 DEF FamilyInv, TypeOK
  <2>8. \A d \in Proc : d # c => (Listed(d)' <=> Listed(d)) /\ (LetGo(d)' <=> LetGo(d))
    <3>1. \A d \in Proc : d # c => (Listed(d)' <=> Listed(d))
      BY <2>4 DEF Listed
    <3>2. \A d \in Proc : d # c =>
            ((\A q \in Proc : child'[q] # d) <=> (\A q \in Proc : child[q] # d))
      <4>1. child[p] = NULL
        BY <1>1 DEF FamilyInv, ChildInCall, InFork, Waiting, TypeOK
      <4> QED BY <2>6, <4>1 DEF ProcessAssumption
    <3> QED BY <3>1, <3>2 DEF LetGo
  <2>9. ChildInCall'
    <3>1. child[p] = NULL /\ child[c] = NULL /\ c # NULL
      BY <1>1, <2>6 DEF FamilyInv, ChildInCall, InFork, Waiting, ProcessAssumption
    <3>2. ASSUME NEW q \in Proc
          PROVE  child'[q] # NULL <=> pc'[q] \in InFork \cup Waiting \cup {"wait_up"}
      <4>1. CASE q = p \/ q = c
        BY <3>1, <4>1, <1>1, <2>6 DEF InFork, Waiting
      <4>2. CASE q # p /\ q # c
        BY <4>2, <2>6 DEF FamilyInv, ChildInCall
      <4> QED BY <4>1, <4>2
    <3>3. \A q, r \in Proc : child'[q] # NULL /\ child'[q] = child'[r] => q = r
      <4>1. /\ \A q \in Proc : q # p => child'[q] = child[q]
            /\ child'[p] = c \/ child'[p] = child[p]
        BY <2>6
      <4>2. \A q, r \in Proc : child[q] # NULL /\ child[q] = child[r] => q = r
        BY DEF FamilyInv, ChildInCall
      <4> SUFFICES ASSUME NEW q \in Proc, NEW r \in Proc, q # r,
                          child'[q] # NULL, child'[q] = child'[r]
                   PROVE  FALSE
        OBVIOUS
      <4>3. CASE q # p /\ r # p
        BY <4>1, <4>2, <4>3
      <4>4. CASE q = p
        BY <4>1, <4>2, <4>4, <3>1, <2>1
      <4>5. CASE r = p
        BY <4>1, <4>2, <4>5, <3>1, <2>1
      <4> QED BY <4>3, <4>4, <4>5
    <3> QED BY <3>2, <3>3 DEF ChildInCall
  <2>10. ChildIsLinked'
    <3>1. \A q \in Proc : pc[q] = "wait_up" => child[q] \in Proc /\ child[q] # c
      BY <2>1, <2>6 DEF FamilyInv, ChildInCall
    <3>2. \A q \in Proc : q # p /\ q # c => child'[q] = child[q] /\ pc'[q] = pc[q]
      BY <2>6
    <3> QED BY <3>1, <3>2, <1>1, <2>4, <2>6, <2>8 DEF FamilyInv, ChildIsLinked, InFork, Waiting
  <2>11. ListsAreDisjoint'
    <3>1. \A q, r \in Proc : q # r => Range(child_list[q]) \cap Range(child_list[r]) = {}
      BY DEF FamilyInv, ListsAreDisjoint
    <3>2. \A q, r \in Proc : q # r => Range(child_list'[q]) \cap Range(child_list'[r]) = {}
      <4> SUFFICES ASSUME NEW q \in Proc, NEW r \in Proc, q # r,
                          NEW x \in Range(child_list'[q]), x \in Range(child_list'[r])
                   PROVE  FALSE
        OBVIOUS
      <4>1. CASE q = p
        BY <4>1, <3>1, <2>1, <2>4
      <4>2. CASE r = p
        BY <4>2, <3>1, <2>1, <2>4
      <4>3. CASE q # p /\ r # p
        BY <4>3, <3>1, <2>4
      <4> QED BY <4>1, <4>2, <4>3
    <3> QED BY <3>2, <2>4 DEF ListsAreDisjoint
  <2>12. NewIsUnknown'
    BY <1>1, <2>6, <2>8 DEF FamilyInv, NewIsUnknown
  <2>13. CopyIsAwaited'
    BY <1>1, <2>6 DEF FamilyInv, CopyIsAwaited, ForkerStandsStill, InFork, NewIsUnknown
  <2>14. ExitIsSignalled'
    BY <1>1, <2>6 DEF FamilyInv, ExitIsSignalled, Told, NewIsUnknown, ChildInCall, InFork, Waiting
  <2>15. DeadIsLetGo'
    BY <1>1, <2>6, <2>8 DEF FamilyInv, DeadIsLetGo, Freed, NewIsUnknown
  <2> QED
    BY <2>7, <2>9, <2>10, <2>11, <2>12, <2>13, <2>14, <2>15 DEF FamilyInv
<1> QED
  BY <1>2, <1>3 DEF Fork

(* process_get_child: only the parent's place changes. *)
LEMMA ForkFindChildKeeps ==
  ASSUME FamilyInv, NEW p \in Proc, ForkFindChild(p)
  PROVE  FamilyInv'
<1>1. /\ pc[p] = "fork_find"
      /\ UNCHANGED << child_list, load_sema, wait_sema, exit_sema, exit_status, fs_holder, child,
                      status, forked >>
  BY DEF ForkFindChild, At, semas
<1>2. CASE UNCHANGED pc /\ panic' = "child_list"
  <2>1. TypeOK'
    BY <1>1, <1>2 DEF FamilyInv, TypeOK
  <2> QED BY <2>1, <1>1, <1>2, PanicStep DEF semas
<1>3. CASE pc' = [pc EXCEPT ![p] = "fork_load"] /\ UNCHANGED panic
  <2>1. TypeOK'
    BY <1>1, <1>3 DEF FamilyInv, TypeOK, PC
  <2>2. /\ \A q \in Proc : q # p => pc'[q] = pc[q]
        /\ pc'[p] = "fork_load"
    BY <1>3 DEF FamilyInv, TypeOK
  <2>3. \A c : (Listed(c)' <=> Listed(c)) /\ (LetGo(c)' <=> LetGo(c))
    BY <1>1 DEF Listed, LetGo
  <2>4. ChildInCall' /\ ListsAreDisjoint' /\ NewIsUnknown'
    BY <1>1, <2>2, <2>3 DEF FamilyInv, ChildInCall, ListsAreDisjoint, NewIsUnknown, InFork, Waiting
  <2>5. ChildIsLinked'
    BY <1>1, <2>2, <2>3 DEF FamilyInv, ChildIsLinked, InFork, Waiting
  <2>6. CopyIsAwaited'
    <3>1. ForkerStandsStill'
      BY <1>1, <2>2 DEF FamilyInv, CopyIsAwaited, ForkerStandsStill
    <3> QED BY <3>1, <1>1, <2>2 DEF FamilyInv, CopyIsAwaited, InFork
  <2>8. ExitIsSignalled'
    BY <1>1, <2>2, CallHasChild DEF FamilyInv, ExitIsSignalled, Told
  <2>7. DeadIsLetGo'
    BY <1>1, <2>2, <2>3 DEF FamilyInv, DeadIsLetGo, Freed
  <2> QED BY <2>1, <2>4, <2>5, <2>6, <2>7, <2>8 DEF FamilyInv
<1> QED
  BY <1>2, <1>3 DEF ForkFindChild, Goto

(* Steps that change no list and no child in hand. *)
LEMMA SameFamily ==
  ASSUME UNCHANGED << child_list, child >>
  PROVE  /\ \A c : (Listed(c)' <=> Listed(c)) /\ (LetGo(c)' <=> LetGo(c))
         /\ ListsAreDisjoint' <=> ListsAreDisjoint
  BY DEF Listed, LetGo, ListsAreDisjoint

(* sema_down of load_sema: the child is past its copy. *)
LEMMA ForkAwaitLoadKeeps ==
  ASSUME ProcessAssumption, FamilyInv, NEW p \in Proc, ForkAwaitLoad(p)
  PROVE  FamilyInv'
<1>0. PICK c : c = child[p]
  OBVIOUS
<1>1. /\ pc[p] = "fork_load" /\ load_sema[c] > 0
      /\ load_sema' = [load_sema EXCEPT ![c] = @ - 1]
      /\ pc' = [pc EXCEPT ![p] = "fork_check"]
      /\ UNCHANGED << child_list, wait_sema, exit_sema, exit_status, fs_holder, child, status,
                      forked, panic >>
  BY <1>0 DEF ForkAwaitLoad, At, Down, Goto
<1>2. c \in Proc
  BY <1>0, <1>1, CallHasChild DEF FamilyInv, InFork
<1>3. /\ load_sema \in [Proc -> 0 .. 1] /\ load_sema[c] = 1 /\ load_sema'[c] = 0
      /\ \A q \in Proc : q # c => load_sema'[q] = load_sema[q]
  BY <1>1, <1>2 DEF FamilyInv, TypeOK
<1>4. /\ pc'[p] = "fork_check" /\ pc' \in [Proc -> PC]
      /\ \A q \in Proc : q # p => pc'[q] = pc[q]
  BY <1>1 DEF FamilyInv, TypeOK, PC
<1>5. TypeOK'
  BY <1>1, <1>2, <1>3, <1>4 DEF FamilyInv, TypeOK
<1>6. ChildInCall' /\ ChildIsLinked' /\ ListsAreDisjoint'
  BY <1>1, <1>4, SameFamily DEF FamilyInv, ChildInCall, ChildIsLinked, InFork, Waiting
<1>7. NewIsUnknown' /\ DeadIsLetGo'
  BY <1>1, <1>3, <1>4, SameFamily DEF FamilyInv, NewIsUnknown, DeadIsLetGo, Freed
<1>8. CopyIsAwaited'
  <2>1. pc[c] # "copy"
    BY <1>2, <1>3 DEF FamilyInv, CopyIsAwaited
  <2>2. ForkerStandsStill'
    BY <1>0, <1>1, <1>4, <2>1 DEF FamilyInv, CopyIsAwaited, ForkerStandsStill
  <2> QED BY <2>2, <1>1, <1>3, <1>4 DEF FamilyInv, CopyIsAwaited, InFork
<1>9. ExitIsSignalled'
  BY <1>1, <1>4, CallHasChild DEF FamilyInv, ExitIsSignalled, Told
<1> QED
  BY <1>5, <1>6, <1>7, <1>8, <1>9 DEF FamilyInv

(* A child that could not be loaded is let go, and stays listed. *)
LEMMA ForkCheckKeeps ==
  ASSUME ProcessAssumption, FamilyInv, NEW p \in Proc, ForkCheck(p)
  PROVE  FamilyInv'
<1>0. PICK c : c = child[p]
  OBVIOUS
<1>1. /\ pc[p] = "fork_check" /\ pc' = [pc EXCEPT ![p] = "user"]
      /\ child' = [child EXCEPT ![p] = NULL]
      /\ \/ /\ exit_sema' = [exit_sema EXCEPT ![c] = @ + 1]
            /\ forked' = [forked EXCEPT ![c] = "error"]
         \/ /\ exit_sema' = exit_sema
            /\ forked' = [forked EXCEPT ![c] = "tid"]
      /\ UNCHANGED << child_list, load_sema, wait_sema, exit_status, fs_holder, status, panic >>
  BY <1>0 DEF ForkCheck, At, Up, Goto
<1>2. /\ c \in Proc /\ c \in Range(child_list[p]) /\ forked[c] = "no"
      /\ \A q \in Proc : q # p => child[q] # c
  BY <1>0, <1>1, CallHasChild DEF FamilyInv, InFork, ChildIsLinked, CopyIsAwaited, ChildInCall
<1>3. ~ LetGo(c) /\ ~ LetGo(c)' /\ pc[c] \notin {"none", "dead", "copy"}
  <2>1. ~ LetGo(c) /\ ~ LetGo(c)'
    BY <1>0, <1>1, <1>2 DEF LetGo, Listed
  <2>2. pc[c] # "copy"
    BY <1>0, <1>1, <1>2 DEF FamilyInv, CopyIsAwaited, ForkerStandsStill
  <2> QED BY <2>1, <2>2, <1>2 DEF FamilyInv, NewIsUnknown, DeadIsLetGo, Freed
<1>4. exit_sema[c] = 0
  <2>1. exit_sema \in [Proc -> 0 .. 2]
    BY DEF FamilyInv, TypeOK
  <2>2. ~ (exit_sema[c] > 0)
    BY <1>2, <1>3 DEF FamilyInv, DeadIsLetGo
  <2> QED BY <1>2, <2>1, <2>2
<1>5. /\ exit_sema' \in [Proc -> 0 .. 2]
      /\ forked' \in [Proc -> {"no", "tid", "error"}]
      /\ \A q \in Proc : q # c => exit_sema'[q] = exit_sema[q] /\ forked'[q] = forked[q]
      /\ \/ exit_sema'[c] = 1 /\ forked'[c] = "error"
         \/ exit_sema'[c] = 0 /\ forked'[c] = "tid"
  <2>1. exit_sema \in [Proc -> 0 .. 2] /\ forked \in [Proc -> {"no", "tid", "error"}]
    BY DEF FamilyInv, TypeOK
  <2> QED BY <2>1, <1>1, <1>2, <1>4
<1>6. /\ pc'[p] = "user" /\ pc' \in [Proc -> PC]
      /\ \A q \in Proc : q # p => pc'[q] = pc[q] /\ child'[q] = child[q]
      /\ child'[p] = NULL /\ child' \in [Proc -> Proc \cup {NULL}]
  BY <1>1 DEF FamilyInv, TypeOK, PC
<1>7. TypeOK'
  BY <1>1, <1>5, <1>6 DEF FamilyInv, TypeOK
<1>8. \A d \in Proc : (Listed(d)' <=> Listed(d)) /\ (LetGo(d) => LetGo(d)')
  BY <1>1, <1>6 DEF Listed, LetGo, ProcessAssumption
<1>9. ChildInCall'
  BY <1>6 DEF FamilyInv, ChildInCall, InFork, Waiting
<1>10. ChildIsLinked'
  <2>1. \A q \in Proc : pc[q] = "wait_up" => child[q] \in Proc
    BY CallHasChild DEF FamilyInv, Told
  <2> QED BY <2>1, <1>1, <1>6, <1>8 DEF FamilyInv, ChildIsLinked, InFork, Waiting
<1>11. ListsAreDisjoint'
  BY <1>1 DEF FamilyInv, ListsAreDisjoint
<1>12. NewIsUnknown'
  BY <1>1, <1>3, <1>5, <1>6, <1>8 DEF FamilyInv, NewIsUnknown
<1>13. CopyIsAwaited'
  <2>1. ForkerStandsStill'
    <3>1. SUFFICES ASSUME NEW d \in Proc, pc'[d] = "copy"
                   PROVE  \E q \in Proc : child'[q] = d /\ pc'[q] \in {"fork_find", "fork_load"}
      BY DEF ForkerStandsStill
    <3>2. PICK q \in Proc : child[q] = d /\ pc[q] \in {"fork_find", "fork_load"}
      BY <3>1, <1>6 DEF FamilyInv, CopyIsAwaited, ForkerStandsStill
    <3> QED BY <3>2, <1>1, <1>6
  <2>2. \A q \in Proc : pc'[q] \in InFork => forked'[child'[q]] = "no"
    BY <1>2, <1>5, <1>6, CallHasChild DEF FamilyInv, CopyIsAwaited, InFork
  <2>3. \A d \in Proc : pc'[d] = "copy" => load_sema'[d] = 0
    BY <1>1, <1>6 DEF FamilyInv, CopyIsAwaited
  <2> QED BY <2>1, <2>2, <2>3 DEF CopyIsAwaited
<1>14. ExitIsSignalled'
  <2>1. \A d \in Proc : wait_sema'[d] > 0 => pc'[d] \in {"exit_down", "dead"}
    BY <1>1, <1>6 DEF FamilyInv, ExitIsSignalled
  <2>2. ASSUME NEW q \in Proc, pc'[q] \in Told, forked'[child'[q]] # "error"
        PROVE  pc'[child'[q]] = "exit_down"
    <3>1. q # p /\ child'[q] = child[q] /\ pc[q] \in Told
      BY <2>2, <1>6 DEF Told
    <3>2. child[q] \in Proc /\ child[q] # c
      BY <3>1, <1>2, CallHasChild DEF FamilyInv
    <3>3. pc[child[q]] = "exit_down"
      BY <2>2, <3>1, <3>2, <1>5 DEF FamilyInv, ExitIsSignalled
    <3> QED BY <3>1, <3>2, <3>3, <1>1, <1>6
  <2> QED BY <2>1, <2>2 DEF ExitIsSignalled
<1>15. DeadIsLetGo'
  BY <1>1, <1>3, <1>5, <1>6, <1>8 DEF FamilyInv, DeadIsLetGo, Freed
<1> QED
  BY <1>7, <1>9, <1>10, <1>11, <1>12, <1>13, <1>14, <1>15 DEF FamilyInv

(***************************************************************************)
(* fork's child, and exit.                                                 *)
(***************************************************************************)

(* sema_up of load_sema, once the copy is made. *)
LEMMA CopyKeeps ==
  ASSUME ProcessAssumption, FamilyInv, NEW c \in Proc, Copy(c)
  PROVE  FamilyInv'
<1>1. PICK l \in {"user", "copy_failed"} :
        /\ pc[c] = "copy" /\ pc' = [pc EXCEPT ![c] = l]
        /\ load_sema' = [load_sema EXCEPT ![c] = @ + 1]
        /\ UNCHANGED << child_list, wait_sema, exit_sema, exit_status, fs_holder, child, status,
                        forked, panic >>
  BY DEF Copy, At, Up, Goto
<1>2. /\ load_sema'[c] = 1 /\ load_sema' \in [Proc -> 0 .. 1]
      /\ \A q \in Proc : q # c => load_sema'[q] = load_sema[q]
  BY <1>1 DEF FamilyInv, TypeOK, CopyIsAwaited
<1>3. /\ pc'[c] = l /\ pc' \in [Proc -> PC]
      /\ \A q \in Proc : q # c => pc'[q] = pc[q]
  BY <1>1 DEF FamilyInv, TypeOK, PC
<1>4. TypeOK'
  BY <1>1, <1>2, <1>3 DEF FamilyInv, TypeOK
<1>5. ChildInCall' /\ ChildIsLinked' /\ ListsAreDisjoint'
  BY <1>1, <1>3, SameFamily DEF FamilyInv, ChildInCall, ChildIsLinked, InFork, Waiting
<1>6. NewIsUnknown' /\ DeadIsLetGo'
  BY <1>1, <1>2, <1>3, SameFamily DEF FamilyInv, NewIsUnknown, DeadIsLetGo, Freed
<1>7. ForkerStandsStill'
  BY <1>1, <1>3 DEF FamilyInv, CopyIsAwaited, ForkerStandsStill
<1>8. CopyIsAwaited'
  BY <1>7, <1>1, <1>2, <1>3 DEF FamilyInv, CopyIsAwaited, InFork
<1>9. ExitIsSignalled'
  BY <1>1, <1>3, CallHasChild DEF FamilyInv, ExitIsSignalled, Told
<1> QED
  BY <1>4, <1>5, <1>6, <1>8, <1>9 DEF FamilyInv

(* sema_up of wait_sema: it was 0 until then. *)
LEMMA ExitWakesParentKeeps ==
  ASSUME ProcessAssumption, FamilyInv, NEW p \in Proc, ExitWakesParent(p)
  PROVE  FamilyInv'
<1>1. /\ pc[p] = "exit_up" /\ pc' = [pc EXCEPT ![p] = "exit_down"]
      /\ wait_sema' = [wait_sema EXCEPT ![p] = @ + 1]
      /\ UNCHANGED << child_list, load_sema, exit_sema, exit_status, fs_holder, child, status,
                      forked, panic >>
  BY DEF ExitWakesParent, At, Up, Goto
<1>2. wait_sema \in [Proc -> 0 .. 1] /\ wait_sema[p] = 0
  <2>1. wait_sema \in [Proc -> 0 .. 1]
    BY DEF FamilyInv, TypeOK
  <2>2. ~ (wait_sema[p] > 0)
    BY <1>1 DEF FamilyInv, ExitIsSignalled
  <2> QED BY <2>1, <2>2
<1>3. /\ wait_sema'[p] = 1 /\ wait_sema' \in [Proc -> 0 .. 1]
      /\ \A q \in Proc : q # p => wait_sema'[q] = wait_sema[q]
  BY <1>1, <1>2
<1>4. /\ pc'[p] = "exit_down" /\ pc' \in [Proc -> PC]
      /\ \A q \in Proc : q # p => pc'[q] = pc[q]
  BY <1>1 DEF FamilyInv, TypeOK, PC
<1>5. TypeOK'
  BY <1>1, <1>3, <1>4 DEF FamilyInv, TypeOK
<1>6. ChildInCall' /\ ChildIsLinked' /\ ListsAreDisjoint'
  BY <1>1, <1>4, SameFamily DEF FamilyInv, ChildInCall, ChildIsLinked, InFork, Waiting
<1>7. NewIsUnknown' /\ DeadIsLetGo'
  BY <1>1, <1>3, <1>4, SameFamily DEF FamilyInv, NewIsUnknown, DeadIsLetGo, Freed
<1>8. ForkerStandsStill'
  BY <1>1, <1>4 DEF FamilyInv, CopyIsAwaited, ForkerStandsStill
<1>9. CopyIsAwaited'
  BY <1>8, <1>1, <1>4 DEF FamilyInv, CopyIsAwaited, InFork
<1>10. ExitIsSignalled'
  BY <1>1, <1>3, <1>4, CallHasChild DEF FamilyInv, ExitIsSignalled, Told
<1> QED
  BY <1>5, <1>6, <1>7, <1>9, <1>10 DEF FamilyInv

(* sema_down of exit_sema: whoever dies has been let go. *)
LEMMA ExitDiesKeeps ==
  ASSUME ProcessAssumption, FamilyInv, NEW p \in Proc, ExitDies(p)
  PROVE  FamilyInv'
<1>1. /\ pc[p] = "exit_down" /\ pc' = [pc EXCEPT ![p] = "dead"] /\ exit_sema[p] > 0
      /\ exit_sema' = [exit_sema EXCEPT ![p] = @ - 1]
      /\ UNCHANGED << child_list, load_sema, wait_sema, exit_status, fs_holder, child, status,
                      forked, panic >>
  BY DEF ExitDies, At, Down, Goto
<1>2. exit_sema \in [Proc -> 0 .. 2]
  BY DEF FamilyInv, TypeOK
<1>3. /\ exit_sema'[p] = exit_sema[p] - 1 /\ exit_sema' \in [Proc -> 0 .. 2]
      /\ \A q \in Proc : q # p => exit_sema'[q] = exit_sema[q]
  BY <1>1, <1>2
<1>4. /\ pc'[p] = "dead" /\ pc' \in [Proc -> PC]
      /\ \A q \in Proc : q # p => pc'[q] = pc[q]
  BY <1>1 DEF FamilyInv, TypeOK, PC
<1>5. TypeOK'
  BY <1>1, <1>3, <1>4 DEF FamilyInv, TypeOK
<1>6. ChildInCall' /\ ChildIsLinked' /\ ListsAreDisjoint'
  BY <1>1, <1>4, SameFamily DEF FamilyInv, ChildInCall, ChildIsLinked, InFork, Waiting
<1>7. NewIsUnknown'
  BY <1>1, <1>3, <1>4, SameFamily DEF FamilyInv, NewIsUnknown
<1>8. ForkerStandsStill'
  BY <1>1, <1>4 DEF FamilyInv, CopyIsAwaited, ForkerStandsStill
<1>9. CopyIsAwaited'
  BY <1>8, <1>1, <1>4 DEF FamilyInv, CopyIsAwaited, InFork
<1>10. forked[p] = "error" \/ LetGo(p)
  BY <1>1 DEF FamilyInv, DeadIsLetGo
<1>11. ExitIsSignalled'
  <2>1. \A q \in Proc : wait_sema'[q] > 0 => pc'[q] \in {"exit_down", "dead"}
    BY <1>1, <1>4 DEF FamilyInv, ExitIsSignalled
  <2>2. ASSUME NEW q \in Proc, pc'[q] \in Told, forked'[child'[q]] # "error"
        PROVE  pc'[child'[q]] = "exit_down"
    <3>1. q # p /\ pc[q] \in Told /\ child[q] \in Proc /\ child[q] # p
      BY <2>2, <1>1, <1>4, <1>10, CallHasChild DEF FamilyInv, Told, LetGo
    <3> QED BY <3>1, <2>2, <1>1, <1>4 DEF FamilyInv, ExitIsSignalled
  <2> QED BY <2>1, <2>2 DEF ExitIsSignalled
<1>12. DeadIsLetGo'
  <2>1. ASSUME NEW c \in Proc
        PROVE  /\ exit_sema'[c] > 0 \/ Freed(c)' => forked'[c] = "error" \/ LetGo(c)'
               /\ exit_sema'[c] > 1 => LetGo(c)'
    <3>1. CASE c = p
      <4>1. exit_sema'[p] > 1 => exit_sema[p] > 1
        BY <1>2, <1>3
      <4> QED BY <4>1, <3>1, <1>1, <1>10, SameFamily DEF FamilyInv, DeadIsLetGo
    <3>2. CASE c # p
      BY <3>2, <1>1, <1>3, <1>4, SameFamily DEF FamilyInv, DeadIsLetGo, Freed
    <3> QED BY <3>1, <3>2
  <2> QED BY <2>1 DEF DeadIsLetGo
<1> QED
  BY <1>5, <1>6, <1>7, <1>9, <1>11, <1>12 DEF FamilyInv

(***************************************************************************)
(* process_wait.                                                           *)
(***************************************************************************)

(* A child in the list is in nobody's hand yet. *)
LEMMA WaitKeeps ==
  ASSUME ProcessAssumption, FamilyInv, NEW p \in Proc, NEW c \in Proc, Wait(p, c)
  PROVE  FamilyInv'
<1>1. /\ pc[p] = "user"
      /\ UNCHANGED << child_list, load_sema, wait_sema, exit_sema, exit_status, fs_holder, status,
                      forked >>
  BY DEF Wait, At, semas
<1>2. CASE UNCHANGED << pc, child >> /\ panic' = "child_list"
  <2>1. TypeOK'
    BY <1>1, <1>2 DEF FamilyInv, TypeOK
  <2> QED BY <2>1, <1>1, <1>2, PanicStep DEF semas
<1>3. CASE /\ c \in Range(child_list[p]) /\ UNCHANGED panic
           /\ child' = [child EXCEPT ![p] = c] /\ pc' = [pc EXCEPT ![p] = "wait_down"]
  <2>1. child[p] = NULL
    BY <1>1 DEF FamilyInv, TypeOK, ChildInCall, InFork, Waiting
  <2>2. \A q \in Proc : child[q] # c
    <3> SUFFICES ASSUME NEW q \in Proc, child[q] = c PROVE FALSE
      OBVIOUS
    <3>1. q # p /\ pc[q] \in InFork \cup Waiting \cup {"wait_up"}
      BY <2>1 DEF FamilyInv, ChildInCall, ProcessAssumption
    <3>2. c \in Range(child_list[q])
      BY <3>1, <1>3 DEF FamilyInv, ChildIsLinked, Listed
    <3> QED BY <3>1, <3>2, <1>3 DEF FamilyInv, ListsAreDisjoint
  <2>3. /\ pc'[p] = "wait_down" /\ pc' \in [Proc -> PC]
        /\ \A q \in Proc : q # p => pc'[q] = pc[q] /\ child'[q] = child[q]
        /\ child'[p] = c /\ child' \in [Proc -> Proc \cup {NULL}]
    BY <1>3 DEF FamilyInv, TypeOK, PC
  <2>4. TypeOK'
    BY <1>1, <1>3, <2>3 DEF FamilyInv, TypeOK
  <2>5. /\ \A d : Listed(d)' <=> Listed(d)
        /\ \A d \in Proc : LetGo(d)' <=> LetGo(d)
    <3>1. \A d : Listed(d)' <=> Listed(d)
      BY <1>1 DEF Listed
    <3>2. Listed(c)
      BY <1>3 DEF Listed
    <3>3. \A d \in Proc : d # c =>
            ((\A q \in Proc : child'[q] # d) <=> (\A q \in Proc : child[q] # d))
      BY <2>1, <2>3 DEF ProcessAssumption
    <3> QED BY <3>1, <3>2, <3>3 DEF LetGo
  <2>6. ChildInCall'
    <3>1. ASSUME NEW q \in Proc
          PROVE  child'[q] # NULL <=> pc'[q] \in InFork \cup Waiting \cup {"wait_up"}
      BY <2>3 DEF FamilyInv, ChildInCall, Waiting, ProcessAssumption
    <3>2. ASSUME NEW q \in Proc, NEW r \in Proc, child'[q] # NULL, child'[q] = child'[r]
          PROVE  q = r
      <4>1. \A x, y \in Proc : child[x] # NULL /\ child[x] = child[y] => x = y
        BY DEF FamilyInv, ChildInCall
      <4>2. CASE q # p /\ r # p
        BY <4>1, <4>2, <3>2, <2>3
      <4>3. CASE q = p \/ r = p
        BY <4>3, <3>2, <2>2, <2>3
      <4> QED BY <4>2, <4>3
    <3> QED BY <3>1, <3>2 DEF ChildInCall
  <2>7. ChildIsLinked'
    BY <1>1, <1>3, <2>3, <2>5 DEF FamilyInv, ChildIsLinked, InFork, Waiting
  <2>8. ListsAreDisjoint'
    BY <1>1 DEF FamilyInv, ListsAreDisjoint
  <2>9. NewIsUnknown'
    BY <1>1, <2>3, <2>5 DEF FamilyInv, NewIsUnknown
  <2>10. CopyIsAwaited'
    <3>1. ForkerStandsStill'
      BY <1>1, <2>3 DEF FamilyInv, CopyIsAwaited, ForkerStandsStill
    <3> QED BY <3>1, <1>1, <2>3 DEF FamilyInv, CopyIsAwaited, InFork
  <2>11. ExitIsSignalled'
    BY <1>1, <2>3, CallHasChild DEF FamilyInv, ExitIsSignalled, Told
  <2>12. DeadIsLetGo'
    BY <1>1, <2>3, <2>5 DEF FamilyInv, DeadIsLetGo, Freed
  <2> QED
    BY <2>4, <2>6, <2>7, <2>8, <2>9, <2>10, <2>11, <2>12 DEF FamilyInv
<1> QED
  BY <1>2, <1>3 DEF Wait, Goto

(* sema_down of wait_sema: the child has signalled, and has not died. *)
LEMMA WaitDownKeeps ==
  ASSUME ProcessAssumption, FamilyInv, NEW p \in Proc, WaitDown(p)
  PROVE  FamilyInv'
<1>0. PICK c : c = child[p]
  OBVIOUS
<1>1. /\ pc[p] = "wait_down" /\ pc[c] # "dead" /\ wait_sema[c] > 0
      /\ wait_sema' = [wait_sema EXCEPT ![c] = @ - 1]
      /\ pc' = [pc EXCEPT ![p] = "wait_read"]
      /\ UNCHANGED << child_list, load_sema, exit_sema, exit_status, fs_holder, child, status,
                      forked, panic >>
  BY <1>0 DEF WaitDown, At, Down, Goto, Freed
<1>2. c \in Proc
  BY <1>0, <1>1, CallHasChild DEF FamilyInv, Waiting
<1>3. pc[c] = "exit_down" /\ c # p
  BY <1>1, <1>2 DEF FamilyInv, ExitIsSignalled
<1>4. /\ wait_sema \in [Proc -> 0 .. 1] /\ wait_sema[c] = 1 /\ wait_sema'[c] = 0
      /\ \A q \in Proc : q # c => wait_sema'[q] = wait_sema[q]
  BY <1>1, <1>2 DEF FamilyInv, TypeOK
<1>5. /\ pc'[p] = "wait_read" /\ pc' \in [Proc -> PC]
      /\ \A q \in Proc : q # p => pc'[q] = pc[q]
  BY <1>1 DEF FamilyInv, TypeOK, PC
<1>6. TypeOK'
  BY <1>1, <1>2, <1>4, <1>5 DEF FamilyInv, TypeOK
<1>7. ChildInCall' /\ ChildIsLinked' /\ ListsAreDisjoint'
  BY <1>1, <1>5, SameFamily DEF FamilyInv, ChildInCall, ChildIsLinked, InFork, Waiting
<1>8. NewIsUnknown' /\ DeadIsLetGo'
  BY <1>1, <1>3, <1>4, <1>5, SameFamily DEF FamilyInv, NewIsUnknown, DeadIsLetGo, Freed
<1>9. ForkerStandsStill'
  BY <1>1, <1>5 DEF FamilyInv, CopyIsAwaited, ForkerStandsStill
<1>10. CopyIsAwaited'
  BY <1>9, <1>1, <1>5 DEF FamilyInv, CopyIsAwaited, InFork
<1>11. ExitIsSignalled'
  <2>1. \A d \in Proc : wait_sema'[d] > 0 => pc'[d] \in {"exit_down", "dead"}
    BY <1>1, <1>4, <1>5 DEF FamilyInv, ExitIsSignalled
  <2>2. ASSUME NEW q \in Proc, pc'[q] \in Told, forked'[child'[q]] # "error"
        PROVE  pc'[child'[q]] = "exit_down"
    <3>1. CASE q = p
      BY <3>1, <1>0, <1>1, <1>3, <1>5
    <3>2. CASE q # p
      <4>1. pc[q] \in Told /\ child[q] \in Proc
        BY <3>2, <2>2, <1>5, CallHasChild DEF FamilyInv
      <4> QED BY <4>1, <2>2, <1>1, <1>5 DEF FamilyInv, ExitIsSignalled
    <3> QED BY <3>1, <3>2
  <2> QED BY <2>1, <2>2 DEF ExitIsSignalled
<1> QED
  BY <1>6, <1>7, <1>8, <1>10, <1>11 DEF FamilyInv

LEMMA WaitReadKeeps ==
  ASSUME ProcessAssumption, FamilyInv, NEW p \in Proc, WaitRead(p)
  PROVE  FamilyInv'
<1>1. /\ pc[p] = "wait_read" /\ pc' = [pc EXCEPT ![p] = "wait_remove"]
      /\ status' = [status EXCEPT ![p] = exit_status[child[p]]]
      /\ UNCHANGED << child_list, load_sema, wait_sema, exit_sema, exit_status, fs_holder, child,
                      forked, panic >>
  BY DEF WaitRead, At, Goto, semas
<1>2. child[p] \in Proc
  BY <1>1, CallHasChild DEF FamilyInv, Told
<1>3. /\ pc'[p] = "wait_remove" /\ pc' \in [Proc -> PC]
      /\ \A q \in Proc : q # p => pc'[q] = pc[q]
  BY <1>1 DEF FamilyInv, TypeOK, PC
<1>4. TypeOK'
  BY <1>1, <1>2, <1>3 DEF FamilyInv, TypeOK
<1>5. ChildInCall' /\ ChildIsLinked' /\ ListsAreDisjoint'
  BY <1>1, <1>3, SameFamily DEF FamilyInv, ChildInCall, ChildIsLinked, InFork, Waiting
<1>6. NewIsUnknown' /\ DeadIsLetGo'
  BY <1>1, <1>3, SameFamily DEF FamilyInv, NewIsUnknown, DeadIsLetGo, Freed
<1>7. ForkerStandsStill'
  BY <1>1, <1>3 DEF FamilyInv, CopyIsAwaited, ForkerStandsStill
<1>8. CopyIsAwaited'
  BY <1>7, <1>1, <1>3 DEF FamilyInv, CopyIsAwaited, InFork
<1>9. ExitIsSignalled'
  BY <1>1, <1>3, CallHasChild DEF FamilyInv, ExitIsSignalled, Told
<1> QED
  BY <1>4, <1>5, <1>6, <1>8, <1>9 DEF FamilyInv

(* list_remove: the child is in no list any more. *)
LEMMA WaitRemoveKeeps ==
  ASSUME ProcessAssumption, FamilyInv, NEW p \in Proc, WaitRemove(p)
  PROVE  FamilyInv'
<1>0. PICK c : c = child[p]
  OBVIOUS
<1> DEFINE kids == child_list[p]
<1>1. /\ pc[p] = "wait_remove"
      /\ UNCHANGED << load_sema, wait_sema, exit_sema, exit_status, fs_holder, child, status,
                      forked >>
  BY DEF WaitRemove, At, semas
<1>2. CASE UNCHANGED << pc, child_list >> /\ panic' = "child_list"
  <2>1. TypeOK'
    BY <1>1, <1>2 DEF FamilyInv, TypeOK
  <2> QED BY <2>1, <1>1, <1>2, PanicStep DEF semas
<1>3. CASE /\ child_list' = [child_list EXCEPT ![p] = RemoveFirst(@, c)]
           /\ pc' = [pc EXCEPT ![p] = "wait_up"] /\ UNCHANGED panic
  <2>1. /\ child_list \in [Proc -> Seq(Proc)] /\ kids \in Seq(Proc) /\ IsInjective(kids)
        /\ c \in Proc /\ c \in Range(kids)
        /\ \A q \in Proc : q # p => c \notin Range(child_list[q])
    <3>1. c \in Proc /\ c \in Range(kids)
      BY <1>0, <1>1, CallHasChild DEF FamilyInv, Waiting, ChildIsLinked
    <3> QED BY <3>1 DEF FamilyInv, TypeOK, ListsAreDisjoint
  <2>2. /\ RemoveFirst(kids, c) \in Seq(Proc) /\ IsInjective(RemoveFirst(kids, c))
        /\ Range(RemoveFirst(kids, c)) = Range(kids) \ {c}
    <3> HIDE DEF kids
    <3> QED BY <2>1, RemoveFirstProperties
  <2>3. /\ child_list' \in [Proc -> Seq(Proc)]
        /\ child_list'[p] = RemoveFirst(kids, c)
        /\ \A q \in Proc : q # p => child_list'[q] = child_list[q]
    BY <1>3, <2>1, <2>2
  <2>4. \A q \in Proc : /\ IsInjective(child_list'[q])
                        /\ Range(child_list'[q]) = Range(child_list[q]) \ {c}
    BY <2>1, <2>2, <2>3 DEF FamilyInv, ListsAreDisjoint
  <2>5. /\ \A d : d # c => (Listed(d)' <=> Listed(d))
        /\ ~ Listed(c)'
    BY <2>4 DEF Listed
  <2>6. \A d \in Proc : (d # c => (LetGo(d)' <=> LetGo(d))) /\ (LetGo(d) => LetGo(d)')
    BY <1>1, <2>5 DEF LetGo
  <2>7. pc[c] # "none"
    BY <2>1 DEF FamilyInv, NewIsUnknown, LetGo, Listed
  <2> HIDE DEF kids
  <2>8. /\ pc'[p] = "wait_up" /\ pc' \in [Proc -> PC]
        /\ \A q \in Proc : q # p => pc'[q] = pc[q]
    BY <1>3 DEF FamilyInv, TypeOK, PC
  <2>9. TypeOK'
    BY <1>1, <1>3, <2>3, <2>8 DEF FamilyInv, TypeOK
  <2>10. ChildInCall'
    BY <1>1, <2>8 DEF FamilyInv, ChildInCall, InFork, Waiting
  <2>11. ChildIsLinked'
    <3> SUFFICES ASSUME NEW q \in Proc
                 PROVE  /\ pc'[q] \in InFork \cup Waiting => child'[q] \in Range(child_list'[q])
                        /\ pc'[q] = "wait_up" => ~ Listed(child[q])'
      BY <1>1 DEF ChildIsLinked, Listed
    <3>1. CASE q = p
      BY <1>0, <3>1, <1>1, <2>5, <2>8 DEF InFork, Waiting
    <3>2. CASE q # p
      <4>1. pc[q] \in InFork \cup Waiting \cup {"wait_up"} => child[q] # c
        BY <1>0, <3>2, CallHasChild, <2>1 DEF FamilyInv, ChildInCall, ProcessAssumption
      <4> QED BY <4>1, <3>2, <1>1, <2>4, <2>5, <2>8 DEF FamilyInv, ChildIsLinked
    <3> QED BY <3>1, <3>2
  <2>12. ListsAreDisjoint'
    <3>1. \A q, r \in Proc : q # r => Range(child_list[q]) \cap Range(child_list[r]) = {}
      BY DEF FamilyInv, ListsAreDisjoint
    <3>2. \A q, r \in Proc : q # r => Range(child_list'[q]) \cap Range(child_list'[r]) = {}
      BY <3>1, <2>4
    <3> QED BY <3>2, <2>4 DEF ListsAreDisjoint
  <2>13. NewIsUnknown'
    BY <1>1, <2>6, <2>8 DEF FamilyInv, NewIsUnknown
  <2>14. CopyIsAwaited'
    <3>1. ForkerStandsStill'
      BY <1>1, <2>8 DEF FamilyInv, CopyIsAwaited, ForkerStandsStill
    <3> QED BY <3>1, <1>1, <2>8 DEF FamilyInv, CopyIsAwaited, InFork
  <2>15. ExitIsSignalled'
    BY <1>1, <2>8, CallHasChild DEF FamilyInv, ExitIsSignalled, Told
  <2>16. DeadIsLetGo'
    BY <1>1, <2>6, <2>8 DEF FamilyInv, DeadIsLetGo, Freed
  <2> QED
    BY <2>9, <2>10, <2>11, <2>12, <2>13, <2>14, <2>15, <2>16 DEF FamilyInv
<1> QED
  BY <1>0, <1>2, <1>3 DEF WaitRemove, Goto

(* sema_up of exit_sema: from here on nobody knows the child. *)
LEMMA WaitUpKeeps ==
  ASSUME ProcessAssumption, FamilyInv, NEW p \in Proc, WaitUp(p)
  PROVE  FamilyInv'
<1>0. PICK c : c = child[p]
  OBVIOUS
<1>1. PICK l \in {"user", "done"} :
        /\ pc[p] = "wait_up" /\ pc' = [pc EXCEPT ![p] = l]
        /\ exit_sema' = [exit_sema EXCEPT ![c] = @ + 1]
        /\ child' = [child EXCEPT ![p] = NULL]
        /\ UNCHANGED << child_list, load_sema, wait_sema, exit_status, fs_holder, status, forked,
                        panic >>
  BY <1>0 DEF WaitUp, At, Up, Return, Goto
<1>2. /\ c \in Proc /\ ~ Listed(c)
      /\ \A q \in Proc : q # p => child[q] # c
  <2>1. c \in Proc
    BY <1>0, <1>1, CallHasChild DEF FamilyInv, Told
  <2>2. ~ Listed(c)
    BY <1>0, <1>1 DEF FamilyInv, ChildIsLinked
  <2>3. \A q \in Proc : q # p => child[q] # c
    BY <1>0, <2>1 DEF FamilyInv, ChildInCall, ProcessAssumption
  <2> QED BY <2>1, <2>2, <2>3
<1>3. ~ LetGo(c)
  BY <1>0 DEF LetGo
<1>4. pc[c] # "none" /\ exit_sema[c] \in 0 .. 1
  <2>1. exit_sema \in [Proc -> 0 .. 2]
    BY DEF FamilyInv, TypeOK
  <2>2. ~ (exit_sema[c] > 1)
    BY <1>2, <1>3 DEF FamilyInv, DeadIsLetGo
  <2> QED BY <1>2, <1>3, <2>1, <2>2 DEF FamilyInv, NewIsUnknown
<1>5. /\ exit_sema' \in [Proc -> 0 .. 2]
      /\ \A q \in Proc : q # c => exit_sema'[q] = exit_sema[q]
  <2>1. exit_sema \in [Proc -> 0 .. 2]
    BY DEF FamilyInv, TypeOK
  <2> QED BY <2>1, <1>1, <1>2, <1>4
<1>6. /\ pc'[p] = l /\ pc' \in [Proc -> PC]
      /\ \A q \in Proc : q # p => pc'[q] = pc[q] /\ child'[q] = child[q]
      /\ child'[p] = NULL /\ child' \in [Proc -> Proc \cup {NULL}]
  BY <1>1 DEF FamilyInv, TypeOK, PC
<1>7. TypeOK'
  BY <1>1, <1>5, <1>6 DEF FamilyInv, TypeOK
<1>8. /\ \A d : Listed(d)' <=> Listed(d)
      /\ \A d \in Proc : LetGo(d) => LetGo(d)'
      /\ LetGo(c)'
  BY <1>1, <1>2, <1>6 DEF Listed, LetGo, ProcessAssumption
<1>9. ChildInCall'
  BY <1>6 DEF FamilyInv, ChildInCall, InFork, Waiting
<1>10. ChildIsLinked'
  BY <1>1, <1>6, <1>8 DEF FamilyInv, ChildIsLinked, InFork, Waiting
<1>11. ListsAreDisjoint'
  BY <1>1 DEF FamilyInv, ListsAreDisjoint
<1>12. NewIsUnknown'
  BY <1>1, <1>4, <1>5, <1>6, <1>8 DEF FamilyInv, NewIsUnknown
<1>13. CopyIsAwaited'
  <2>1. ForkerStandsStill'
    BY <1>1, <1>6 DEF FamilyInv, CopyIsAwaited, ForkerStandsStill
  <2> QED BY <2>1, <1>1, <1>6 DEF FamilyInv, CopyIsAwaited, InFork
<1>14. ExitIsSignalled'
  BY <1>1, <1>6, CallHasChild DEF FamilyInv, ExitIsSignalled, Told
<1>15. DeadIsLetGo'
  BY <1>1, <1>5, <1>6, <1>8 DEF FamilyInv, DeadIsLetGo, Freed
<1> QED
  BY <1>7, <1>9, <1>10, <1>11, <1>12, <1>13, <1>14, <1>15 DEF FamilyInv

(***************************************************************************)
(* The steps that touch nothing a parent and a child share.                *)
(***************************************************************************)
LEMMA ProgramStepKeeps ==
  ASSUME ProcessAssumption, FamilyInv, NEW p \in Proc,
         \/ CopyFailed(p) \/ \E s \in UserStatus : Exit(p, s)
         \/ PageFault(p) \/ Kill(p) \/ FileCall(p) \/ Exec(p)
  PROVE  FamilyInv'
<1>1. PICK l \in {"exit_up", "fs_acquire", "load_open"},
           v \in UserStatus \cup {0, FAULT, NOT_FORKED} :
        /\ pc[p] \in {"copy_failed", "user"} /\ pc' = [pc EXCEPT ![p] = l]
        /\ exit_status' = [exit_status EXCEPT ![p] = v]
        /\ UNCHANGED << child_list, load_sema, wait_sema, exit_sema, fs_holder, child, status,
                        forked, panic >>
  <2>1. exit_status \in [Proc -> UserStatus \cup {0, FAULT, NOT_FORKED}]
    BY DEF FamilyInv, TypeOK
  <2>2. exit_status = [exit_status EXCEPT ![p] = exit_status[p]]
    BY <2>1
  <2>3. CASE CopyFailed(p) \/ (\E s \in UserStatus : Exit(p, s)) \/ PageFault(p)
    BY <2>3 DEF CopyFailed, Exit, PageFault, Exiting, At, Goto, semas
  <2>4. CASE Kill(p) \/ FileCall(p) \/ Exec(p)
    BY <2>1, <2>2, <2>4 DEF Kill, FileCall, Exec, At, Goto, semas
  <2> QED BY <2>3, <2>4
<1>2. TypeOK'
  BY <1>1 DEF FamilyInv, TypeOK, PC
<1>3. pc[p] \in Quiet /\ l \in Quiet
  BY <1>1 DEF Quiet, PC, InFork, Waiting, Told
<1> QED
  BY <1>1, <1>2, <1>3, QuietStep DEF semas

LEMMA FileStepKeeps ==
  ASSUME ProcessAssumption, FamilyInv, NEW p \in Proc,
         \/ FileCallAcquires(p) \/ FileCallReturns(p) \/ FileCallFaults(p)
         \/ LoadOpens(p) \/ LoadOpened(p) \/ LoadReads(p) \/ LoadReadDone(p)
         \/ LoadBadHeader(p) \/ LoadEnds(p)
  PROVE  FamilyInv'
<1> DEFINE FilePC == {"fs_acquire", "fs", "load_open", "load_opening", "load_header",
                      "load_reading", "load_rest"}
<1>1. /\ pc[p] \in FilePC
      /\ UNCHANGED << child_list, load_sema, wait_sema, exit_sema, child, status, forked >>
      /\ fs_holder' \in {fs_holder, p, NULL}
      /\ exit_status' \in {exit_status, [exit_status EXCEPT ![p] = FAULT]}
  BY DEF FileCallAcquires, FileCallReturns, FileCallFaults, LoadOpens, LoadOpened, LoadReads,
         LoadReadDone, LoadBadHeader, LoadEnds, Acquire, Release, Exiting, At, semas
<1>2. \/ \E l \in FilePC \cup {"user", "exit_up"} : pc' = [pc EXCEPT ![p] = l] /\ panic' = panic
      \/ pc' = pc /\ panic' = "lock_holder"
  BY DEF FileCallAcquires, FileCallReturns, FileCallFaults, LoadOpens, LoadOpened, LoadReads,
         LoadReadDone, LoadBadHeader, LoadEnds, Acquire, Release, Exiting, Goto
<1>3. TypeOK'
  <2>1. TypeOK
    BY DEF FamilyInv
  <2>2. pc' \in [Proc -> PC] /\ panic' \in {"none", "child", "child_list", "lock_holder"}
    BY <2>1, <1>2 DEF TypeOK, PC
  <2>3. /\ fs_holder' \in Proc \cup {NULL}
        /\ exit_status' \in [Proc -> UserStatus \cup {0, FAULT, NOT_FORKED}]
    BY <2>1, <1>1 DEF TypeOK
  <2> QED BY <2>1, <2>2, <2>3, <1>1 DEF TypeOK
<1>4. FilePC \cup {"user", "exit_up"} \subseteq Quiet
  BY DEF Quiet, PC, InFork, Waiting, Told
<1>5. CASE pc' = pc
  BY <1>1, <1>3, <1>5, PanicStep DEF semas
<1>6. CASE \E l \in FilePC \cup {"user", "exit_up"} : pc' = [pc EXCEPT ![p] = l]
  BY <1>1, <1>3, <1>4, <1>6, QuietStep DEF semas
<1> QED
  BY <1>2, <1>5, <1>6

LEMMA UseAfterFreeKeeps ==
  ASSUME FamilyInv, NEW p \in Proc, UseAfterFree(p)
  PROVE  FamilyInv'
<1>1. UNCHANGED << pc, child_list, semas, exit_status, fs_holder, child, status, forked >>
      /\ panic' = "child"
  BY DEF UseAfterFree
<1>2. TypeOK'
  BY <1>1 DEF FamilyInv, TypeOK, semas
<1> QED
  BY <1>1, <1>2, PanicStep

-------------------------------------------------------------------------------
(* Every step of parents and children keeps FamilyInv: the invariant is    *)
(* inductive.                                                              *)
THEOREM FamilyInvariance == Spec => []FamilyInv
<1> USE ProcessAssumption
<1>1. Init => FamilyInv
  BY InitFamily
<1>2. FamilyInv /\ [Next]_vars => FamilyInv'
  <2> SUFFICES ASSUME FamilyInv, [Next]_vars PROVE FamilyInv'
    OBVIOUS
  <2>1. CASE UNCHANGED vars
    <3>1. TypeOK'
      BY <2>1 DEF FamilyInv, TypeOK, vars, semas
    <3> QED BY <2>1, <3>1, PanicStep DEF vars
  <2>2. ASSUME NEW p \in Proc, KernelStep(p) PROVE FamilyInv'
    BY <2>2, ForkFindChildKeeps, ForkAwaitLoadKeeps, ForkCheckKeeps, CopyKeeps,
       ExitWakesParentKeeps, ExitDiesKeeps, WaitDownKeeps, WaitReadKeeps, WaitRemoveKeeps,
       WaitUpKeeps, ProgramStepKeeps, FileStepKeeps, UseAfterFreeKeeps DEF KernelStep
  <2>3. ASSUME NEW p \in Proc, UserStep(p) PROVE FamilyInv'
    BY <2>3, ForkKeeps, WaitKeeps, ProgramStepKeeps DEF UserStep
  <2> QED BY <2>1, <2>2, <2>3 DEF Next
<1> QED
  BY <1>1, <1>2, PTL DEF Spec

(* Parents and children agree on who is alive: nobody's struct thread is   *)
(* freed while its parent works on it, whatever the order of fork, exit    *)
(* and wait, and no semaphore is upped more often than it is waited for.   *)
THEOREM FamilyCorrect == Spec => []FamilyIsSound
<1>1. ASSUME FamilyInv PROVE FamilyIsSound
  <2> USE <1>1
  <2>1. ChildOutlivesItsUse
    <3> SUFFICES ASSUME NEW p \in Proc, child[p] # NULL, forked[child[p]] # "error"
                 PROVE  /\ ~ Freed(child[p])
                        /\ pc[p] \in {"wait_read", "wait_remove", "wait_up"}
                             => pc[child[p]] = "exit_down"
      BY DEF ChildOutlivesItsUse
    <3>1. child[p] \in Proc /\ ~ LetGo(child[p])
      BY DEF FamilyInv, TypeOK, LetGo
    <3> QED BY <3>1 DEF FamilyInv, DeadIsLetGo, ExitIsSignalled, Told
  <2>2. ChildrenAreListed
    <3>1. \A p \in Proc : \A c \in Range(child_list[p]) : c \in Proc /\ ~ LetGo(c)
      BY DEF FamilyInv, TypeOK, LetGo, Listed, Range
    <3> QED BY <3>1 DEF FamilyInv, ListsAreDisjoint, ChildrenAreListed, DeadIsLetGo
  <2> QED BY <2>1, <2>2 DEF FamilyInv, FamilyIsSound
<1> QED
  BY <1>1, FamilyInvariance, PTL

(* A child copies its parent's memory and descriptors only while the       *)
(* parent stands in process_fork (the hint in __do_fork).                  *)
THEOREM CopyIsUndisturbed == Spec => []ForkerStandsStill
<1>1. FamilyInv => ForkerStandsStill
  BY DEF FamilyInv, CopyIsAwaited
<1> QED
  BY <1>1, FamilyInvariance, PTL
=============================================================================
