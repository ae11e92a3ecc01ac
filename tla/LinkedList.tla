------------------------------ MODULE LinkedList ------------------------------
(***************************************************************************)
(* The doubly linked lists of lib/kernel/list.c at the level of their      *)
(* pointers: a list is a head and a tail, and the elements between them    *)
(* carry `next` and `prev`.  The routines that loop take a step for each   *)
(* round of the loop; `was` is the list before the call.  KernelList, used *)
(* by the other modules, says what the routines promise.                   *)
(*                                                                         *)
(* The comparison is the kernel's: `less (a, b)` holds when a has the      *)
(* larger key.                                                             *)
(***************************************************************************)
EXTENDS KernelList, FiniteSets

CONSTANTS
  Elem, Key, NULL,
  head, tail,    \* of the list
  dhead, dtail,  \* of the list that list_unique moves duplicates to
  MaxCalls

VARIABLES
  link,   \* the pointers: [next |-> ..., prev |-> ...]
  key,
  job,    \* the running routine and its local variables
  was,
  calls

listVars == <<link, key, job, was, calls>>

Node == Elem \cup {head, tail, dhead, dtail}

(* The elements on the way from node h to node t. *)
Step(l, n) == IF n \in Elem THEN l.next[n] ELSE n
Way(l, h) ==
  FoldLeft(LAMBDA w, i : Append(w, Step(l, w[i])), <<l.next[h]>>,
           [i \in 1..Cardinality(Elem) |-> i])

Reaches(l, h, t) == Way(l, h)[Cardinality(Elem) + 1] = t

Contents(l, h, t) == SelectSeq(Way(l, h), LAMBDA n : n # t)

Less(a, b) == key[a] > key[b]

-------------------------------------------------------------------------------
(* list_insert, list_remove, list_splice *)

Inserted(l, before, e) ==
  [next |-> [l.next EXCEPT ![e] = before, ![l.prev[before]] = e],
   prev |-> [l.prev EXCEPT ![e] = l.prev[before], ![before] = e]]

Unlinked(l, e) ==
  [l EXCEPT !.next[l.prev[e]] = l.next[e], !.prev[l.next[e]] = l.prev[e]]

Spliced(l, before, first, end) ==
  LET last == l.prev[end]
      cut  == [l EXCEPT !.next[l.prev[first]] = l.next[last],
                        !.prev[l.next[last]] = l.prev[first]]
  IN  IF first = end THEN l ELSE
      [next |-> [cut.next EXCEPT ![last] = before, ![cut.prev[before]] = first],
       prev |-> [cut.prev EXCEPT ![first] = cut.prev[before], ![before] = last]]

Empty(l) == l.next[head] = tail

Linked(l, s) == FoldLeft(LAMBDA m, e : Inserted(m, tail, e), l, s)

(* list_init of both lists, and a list that earlier calls have left: which *)
(* of the elements are on it does not matter, their keys are arbitrary.    *)
ListInit ==
  LET nothing == [next |-> [n \in Node |-> CASE n = head -> tail [] n = dhead -> dtail
                                             [] OTHER -> NULL],
                  prev |-> [n \in Node |-> CASE n = tail -> head [] n = dtail -> dhead
                                             [] OTHER -> NULL]]
  IN
  /\ key \in [Elem -> Key]
  /\ \E n \in 0..Cardinality(Elem) : link = Linked(nothing, SubSeq(SetToSeq(Elem), 1, n))
  /\ job = NULL /\ was = <<>> /\ calls = 0

-------------------------------------------------------------------------------
(* The routines.  A job has the fields of all of them.                     *)
Job(op) == [op |-> op, at |-> "loop", e |-> NULL, a |-> NULL, b |-> NULL, end |-> NULL, n |-> 0]

List == Contents(link, head, tail)
Listed(e) == \E i \in 1..Len(List) : List[i] = e
Spare(e) == ~Listed(e) /\ ~\E i \in 1..Len(Contents(link, dhead, dtail)) :
                               Contents(link, dhead, dtail)[i] = e

Call(j) ==
  /\ job = NULL /\ calls < MaxCalls
  /\ job' = j /\ was' = List /\ calls' = calls + 1
  /\ UNCHANGED key

Goto(j) == job' = j /\ UNCHANGED <<key, was, calls>>
Done(j) == Goto([j EXCEPT !.at = "done"])

Return == job # NULL /\ job.at = "done" /\ Goto(NULL) /\ UNCHANGED link

PushFront(e) == Spare(e) /\ Call([Job("push_front") EXCEPT !.at = "done", !.e = e])
                /\ link' = Inserted(link, link.next[head], e)
PushBack(e) == Spare(e) /\ Call([Job("push_back") EXCEPT !.at = "done", !.e = e])
               /\ link' = Inserted(link, tail, e)

(* list_remove, and with it list_pop_front and list_pop_back. *)
RemoveElem(e) == Listed(e) /\ Call([Job("remove") EXCEPT !.at = "done", !.e = e])
                 /\ link' = Unlinked(link, e)

StartInsertOrdered(e) ==
  Spare(e) /\ Call([Job("insert_ordered") EXCEPT !.e = e, !.a = link.next[head]])
  /\ UNCHANGED link

InsertOrderedLoop ==
  /\ job # NULL /\ job.op = "insert_ordered" /\ job.at = "loop"
  /\ IF job.a = tail \/ Less(job.e, job.a)
       THEN link' = Inserted(link, job.a, job.e) /\ Done(job)
       ELSE Goto([job EXCEPT !.a = link.next[job.a]]) /\ UNCHANGED link

(* list_reverse *)
Swapped(l, e) == [next |-> [l.next EXCEPT ![e] = l.prev[e]],
                  prev |-> [l.prev EXCEPT ![e] = l.next[e]]]
EndsSwapped(l) ==
  LET m == [next |-> [l.next EXCEPT ![head] = l.prev[tail]],
            prev |-> [l.prev EXCEPT ![tail] = l.next[head]]]
      first == m.next[head]
      last  == m.prev[tail]
  IN  [next |-> [m.next EXCEPT ![last] = m.prev[first]],
       prev |-> [m.prev EXCEPT ![first] = m.next[last]]]

StartReverse ==
  Call([Job("reverse") EXCEPT !.at = IF Empty(link) THEN "done" ELSE "loop",
                              !.a = link.next[head]])
  /\ UNCHANGED link

ReverseLoop ==
  /\ job # NULL /\ job.op = "reverse" /\ job.at = "loop"
  /\ IF job.a = tail
       THEN link' = EndsSwapped(link) /\ Done(job)
       ELSE link' = Swapped(link, job.a) /\ Goto([job EXCEPT !.a = link.next[job.a]])

(* find_end_of_run *)
EndOfRun(a) ==
  LET e[n \in 0..Cardinality(Elem)] ==
        IF n = 0 THEN link.next[a]
        ELSE LET f == e[n - 1] IN
             IF f = tail \/ Less(f, link.prev[f]) THEN f ELSE link.next[f]
  IN  e[Cardinality(Elem)]

StartSort ==
  Call([Job("sort") EXCEPT !.a = link.next[head]]) /\ UNCHANGED link

(* One round of the inner loop of list_sort up to the merge, or the end of *)
(* a pass.                                                                 *)
SortLoop ==
  /\ job # NULL /\ job.op = "sort" /\ job.at = "loop"
  /\ UNCHANGED link
  /\ IF job.a # tail /\ EndOfRun(job.a) # tail
       THEN LET b == EndOfRun(job.a) IN
            Goto([job EXCEPT !.at = "merge", !.b = b, !.end = EndOfRun(b), !.n = @ + 1])
       ELSE LET runs == IF job.a = tail THEN job.n ELSE job.n + 1 IN
            IF runs > 1 THEN Goto([job EXCEPT !.a = link.next[head], !.n = 0])
                        ELSE Done(job)

(* inplace_merge that takes the second of two equal elements first, and    *)
(* one that merges nothing.                                                *)
TakesFirstUnstable(a, b) == Less(a, b)
TakesFirst(a, b) == ~Less(b, a)

(* One round of inplace_merge. *)
MergeLoop ==
  /\ job # NULL /\ job.op = "sort" /\ job.at = "merge"
  /\ IF job.a = job.b \/ job.b = job.end
       THEN Goto([job EXCEPT !.at = "loop", !.a = job.end]) /\ UNCHANGED link
       ELSE IF TakesFirst(job.a, job.b)
              THEN Goto([job EXCEPT !.a = link.next[job.a]]) /\ UNCHANGED link
              ELSE /\ Goto([job EXCEPT !.b = link.next[job.b]])
                   /\ link' = Spliced(link, job.a, job.b, link.next[job.b])

StartUnique ==
  Call([Job("unique") EXCEPT !.at = IF Empty(link) THEN "done" ELSE "loop",
                             !.a = link.next[head]])
  /\ UNCHANGED link

UniqueLoop ==
  /\ job # NULL /\ job.op = "unique" /\ job.at = "loop"
  /\ LET b == link.next[job.a] IN
     IF b = tail THEN Done(job) /\ UNCHANGED link
     ELSE IF ~Less(job.a, b) /\ ~Less(b, job.a)
            THEN link' = Inserted(Unlinked(link, b), dtail, b) /\ Goto(job)
            ELSE Goto([job EXCEPT !.a = b]) /\ UNCHANGED link

(* list_max and list_min: the element that is better so far is in e. *)
StartBest(op) ==
  /\ op \in {"max", "min"} /\ ~Empty(link)
  /\ Call([Job(op) EXCEPT !.e = link.next[head], !.a = link.next[link.next[head]]])
  /\ UNCHANGED link

BestLoop ==
  /\ job # NULL /\ job.op \in {"max", "min"} /\ job.at = "loop"
  /\ UNCHANGED link
  /\ IF job.a = tail THEN Done(job)
     ELSE LET better == IF job.op = "max" THEN Less(job.e, job.a) ELSE Less(job.a, job.e) IN
          Goto([job EXCEPT !.e = IF better THEN job.a ELSE @, !.a = link.next[@]])

CallRoutine ==
  \/ \E e \in Elem : PushFront(e) \/ PushBack(e) \/ RemoveElem(e) \/ StartInsertOrdered(e)
  \/ StartReverse \/ StartSort \/ StartUnique
  \/ \E op \in {"max", "min"} : StartBest(op)

ListNext ==
  \/ CallRoutine \/ InsertOrderedLoop \/ ReverseLoop \/ SortLoop \/ MergeLoop
  \/ UniqueLoop \/ BestLoop \/ Return

ListSpec == ListInit /\ [][ListNext]_listVars

-------------------------------------------------------------------------------
Mirrored(h, t) ==
  /\ Reaches(link, h, t)
  /\ link.prev[h] = NULL /\ link.next[t] = NULL
  /\ LET s == <<h>> \o Contents(link, h, t) \o <<t>> IN
     \A i \in 1..(Len(s) - 1) : link.next[s[i]] = s[i + 1] /\ link.prev[s[i + 1]] = s[i]

(* Between any two rounds of any routine but list_reverse both lists are   *)
(* whole in both directions, and no element is on both.                    *)
ListsAreWhole ==
  (job = NULL \/ job.op # "reverse" \/ job.at = "done") =>
     /\ Mirrored(head, tail) /\ Mirrored(dhead, dtail)
     /\ NoDuplicates(List \o Contents(link, dhead, dtail))

Uniques(s) ==
  [i \in 1..Len(s) |-> i = 1 \/ key[s[i]] # key[s[i - 1]]]
FirstOfEquals(s) ==
  LET keep == { i \in 1..Len(s) : Uniques(s)[i] } IN
  [i \in 1..Cardinality(keep) |->
     s[CHOOSE j \in keep : Cardinality({ k \in keep : k =< j }) = i]]

IndexOf(s, e) == CHOOSE i \in 1..Len(s) : s[i] = e

(* What a routine returns is what KernelList says of it: list_sort is      *)
(* stable, list_insert_ordered goes behind its equals, list_max and        *)
(* list_min return the first of several.                                   *)
RoutinesKeepPromises ==
  (job # NULL /\ job.at = "done") =>
    LET e == job.e IN
    CASE job.op = "push_front" -> List = <<e>> \o was
      [] job.op = "push_back" -> List = was \o <<e>>
      [] job.op = "remove" -> List = SelectSeq(was, LAMBDA x : x # e)
      [] job.op = "insert_ordered" -> IsDescending(was, key) => List = InsertDescending(was, e, key)
      [] job.op = "sort" -> List \in SortsDescending(was, key)
      [] job.op = "reverse" -> List = Reverse(was)
      [] job.op = "unique" -> List = FirstOfEquals(was)
      [] OTHER ->
           \A i \in 1..Len(was) :
             LET better == IF job.op = "max" THEN Less(e, was[i]) ELSE Less(was[i], e) IN
             ~better /\ (key[was[i]] = key[e] => IndexOf(was, e) =< i)

(* The runs that inplace_merge is given are not empty and sorted, as it    *)
(* asserts.                                                                *)
Between(a, b) == SubSeq(List, IndexOf(List, a),
                        IF b = tail THEN Len(List) ELSE IndexOf(List, b) - 1)
MergesSortedRuns ==
  (job # NULL /\ job.op = "sort" /\ job.at = "merge") =>
    /\ job.a = job.b \/ IsDescending(Between(job.a, job.b), key)
    /\ job.b = job.end \/ IsDescending(Between(job.b, job.end), key)

Runs(s) == Cardinality({ i \in 1..Len(s) : i = 1 \/ Less(s[i], s[i - 1]) })

(* A pass of list_sort leaves at most half of the runs, rounded up: that   *)
(* is why it ends.                                                         *)
PassHalvesRuns ==
  (job # NULL /\ job.op = "sort" /\ job.at = "loop" /\ job.a = tail) =>
    2 * Runs(List) =< Runs(was) + 1
================================================================================
