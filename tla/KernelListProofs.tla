--------------------------- MODULE KernelListProofs ---------------------------
(***************************************************************************)
(* What the list operations of KernelList do to an element: the lemmas the *)
(* proofs about the run queue and the sleep queue rest on.                 *)
(***************************************************************************)
EXTENDS KernelList, WellFoundedInduction, SequenceTheorems, FiniteSetTheorems, TLAPS

(* A nonempty set of naturals has a least element, and Min is it. *)
LEMMA MinIsLeast ==
  ASSUME NEW S, S \subseteq Nat, S # {}
  PROVE  Min(S) \in S /\ \A y \in S : Min(S) =< y
<1> DEFINE R == {p \in Nat \X Nat : p[1] < p[2]}
<1>1. IsWellFoundedOn(R, Nat)
  <2>1. R = OpToRel(<, Nat)
    BY DEF OpToRel
  <2> QED BY <2>1, NatLessThanWellFounded, Zenon
<1>2. PICK x \in S : \A y \in S : ~ (<< y, x >> \in R)
  <2> HIDE DEF R
  <2> QED BY <1>1, WFMin, Zenon
<1>3. \A y \in S : x =< y
  <2> SUFFICES ASSUME NEW y \in S PROVE ~ (y < x)
    OBVIOUS
  <2>1. << y, x >> \in Nat \X Nat /\ << y, x >>[1] = y /\ << y, x >>[2] = x
    OBVIOUS
  <2> QED BY <1>2, <2>1
<1> QED
  BY <1>3 DEF Min

(* list_insert: an element is linked between the two halves of the list.   *)
LEMMA InsertAtPointwise ==
  ASSUME NEW T, NEW s \in Seq(T), NEW e \in T, NEW k \in 1 .. Len(s) + 1
  PROVE  /\ InsertAt(s, k, e) \in Seq(T)
         /\ Len(InsertAt(s, k, e)) = Len(s) + 1
         /\ \A i \in 1 .. Len(s) + 1 :
              /\ i < k => InsertAt(s, k, e)[i] = s[i]
              /\ i = k => InsertAt(s, k, e)[i] = e
              /\ i > k => InsertAt(s, k, e)[i] = s[i - 1]
<1> DEFINE l == SubSeq(s, 1, k - 1)
           r == SubSeq(s, k, Len(s))
<1>1. /\ l \in Seq(T) /\ Len(l) = k - 1
      /\ \A i \in 1 .. k - 1 : l[i] = s[i]
  BY SubSeqProperties
<1>2. /\ r \in Seq(T) /\ Len(r) = Len(s) - k + 1
      /\ \A i \in 1 .. Len(s) - k + 1 : r[i] = s[k + i - 1]
  BY SubSeqProperties
<1>3. /\ << e >> \in Seq(T) /\ Len(<< e >>) = 1 /\ << e >>[1] = e
  OBVIOUS
<1>. HIDE DEF l, r
<1>4. /\ l \o << e >> \in Seq(T) /\ Len(l \o << e >>) = k
      /\ \A i \in 1 .. k : (l \o << e >>)[i] = IF i < k THEN s[i] ELSE e
  BY <1>1, <1>3
<1>5. /\ (l \o << e >>) \o r \in Seq(T)
      /\ Len((l \o << e >>) \o r) = Len(s) + 1
      /\ \A i \in 1 .. Len(s) + 1 :
           ((l \o << e >>) \o r)[i] = IF i =< k THEN (l \o << e >>)[i] ELSE r[i - k]
  BY <1>2, <1>4, LenProperties
<1>6. InsertAt(s, k, e) = (l \o << e >>) \o r
  BY DEF InsertAt, l, r
<1>7. \A i \in 1 .. Len(s) + 1 : i > k => r[i - k] = s[i - 1]
  BY <1>2, LenProperties
<1> QED
  BY <1>4, <1>5, <1>6, <1>7

(* list_insert adds one element to those of the list ... *)
LEMMA InsertAtRange ==
  ASSUME NEW T, NEW s \in Seq(T), NEW e \in T, NEW k \in 1 .. Len(s) + 1
  PROVE  Range(InsertAt(s, k, e)) = Range(s) \cup {e}
<1> DEFINE q == InsertAt(s, k, e)
<1>1. /\ q \in Seq(T) /\ Len(q) = Len(s) + 1
      /\ \A i \in 1 .. Len(s) + 1 :
           /\ i < k => q[i] = s[i]
           /\ i = k => q[i] = e
           /\ i > k => q[i] = s[i - 1]
  BY InsertAtPointwise
<1> HIDE DEF q
<1>2. DOMAIN q = 1 .. Len(s) + 1 /\ DOMAIN s = 1 .. Len(s) /\ Len(s) \in Nat
  BY <1>1
<1>3. ASSUME NEW x \in Range(q) PROVE x \in Range(s) \cup {e}
  BY <1>1, <1>2 DEF Range
<1>4. e \in Range(q)
  <2>1. q[k] = e BY <1>1
  <2> QED BY <2>1, <1>2 DEF Range
<1>5. ASSUME NEW x \in Range(s) PROVE x \in Range(q)
  <2>1. PICK j \in 1 .. Len(s) : x = s[j] BY <1>2 DEF Range
  <2>2. CASE j < k
    <3>1. q[j] = x BY <2>1, <2>2, <1>1, <1>2
    <3> QED BY <3>1, <1>2 DEF Range
  <2>3. CASE j >= k
    <3>1. q[j + 1] = x /\ j + 1 \in 1 .. Len(s) + 1 BY <2>1, <2>3, <1>1, <1>2
    <3> QED BY <3>1, <1>2 DEF Range
  <2> QED BY <2>2, <2>3, <1>2
<1> QED
  BY <1>3, <1>4, <1>5 DEF q

(* ... and links nobody twice, if it was not in the list. *)
LEMMA InsertAtNoDuplicates ==
  ASSUME NEW T, NEW s \in Seq(T), NEW e \in T, NEW k \in 1 .. Len(s) + 1,
         NoDuplicates(s), e \notin Range(s)
  PROVE  NoDuplicates(InsertAt(s, k, e))
<1> DEFINE q == InsertAt(s, k, e)
<1>1. /\ Len(q) = Len(s) + 1
      /\ \A i \in 1 .. Len(s) + 1 :
           /\ i < k => q[i] = s[i]
           /\ i = k => q[i] = e
           /\ i > k => q[i] = s[i - 1]
  BY InsertAtPointwise
<1>2. Len(s) \in Nat /\ \A i \in 1 .. Len(s) : s[i] # e
  BY DEF Range
<1> HIDE DEF q
<1>3. ASSUME NEW i \in 1 .. Len(q), NEW j \in 1 .. Len(q), q[i] = q[j]
      PROVE  i = j
  <2>1. CASE i < k /\ j < k
    <3>1. q[i] = s[i] /\ q[j] = s[j] /\ i \in 1 .. Len(s) /\ j \in 1 .. Len(s)
      BY <2>1, <1>1, <1>2
    <3> QED BY <3>1, <1>3 DEF NoDuplicates
  <2>2. CASE i < k /\ j = k
    <3>1. q[i] = s[i] /\ q[j] = e /\ i \in 1 .. Len(s)
      BY <2>2, <1>1, <1>2
    <3> QED BY <3>1, <1>2, <1>3
  <2>3. CASE i < k /\ j > k
    <3>1. q[i] = s[i] /\ q[j] = s[j - 1] /\ i \in 1 .. Len(s) /\ j - 1 \in 1 .. Len(s)
      BY <2>3, <1>1, <1>2
    <3>2. i = j - 1
      BY <3>1, <1>3 DEF NoDuplicates
    <3> QED BY <3>2, <2>3, <1>2
  <2>4. CASE i = k /\ j < k
    <3>1. q[i] = e /\ q[j] = s[j] /\ j \in 1 .. Len(s)
      BY <2>4, <1>1, <1>2
    <3> QED BY <3>1, <1>2, <1>3
  <2>5. CASE i = k /\ j > k
    <3>1. q[i] = e /\ q[j] = s[j - 1] /\ j - 1 \in 1 .. Len(s)
      BY <2>5, <1>1, <1>2
    <3> QED BY <3>1, <1>2, <1>3
  <2>6. CASE i > k /\ j < k
    <3>1. q[i] = s[i - 1] /\ q[j] = s[j] /\ i - 1 \in 1 .. Len(s) /\ j \in 1 .. Len(s)
      BY <2>6, <1>1, <1>2
    <3>2. i - 1 = j
      BY <3>1, <1>3 DEF NoDuplicates
    <3> QED BY <3>2, <2>6, <1>2
  <2>7. CASE i > k /\ j = k
    <3>1. q[i] = s[i - 1] /\ q[j] = e /\ i - 1 \in 1 .. Len(s)
      BY <2>7, <1>1, <1>2
    <3> QED BY <3>1, <1>2, <1>3
  <2>8. CASE i > k /\ j > k
    <3>1. q[i] = s[i - 1] /\ q[j] = s[j - 1] /\ i - 1 \in 1 .. Len(s) /\ j - 1 \in 1 .. Len(s)
      BY <2>8, <1>1, <1>2
    <3>2. i - 1 = j - 1
      BY <3>1, <1>3 DEF NoDuplicates
    <3> QED BY <3>2, <1>1, <1>2
  <2>9. CASE i = k /\ j = k
    BY <2>9
  <2> QED
    BY <2>1, <2>2, <2>3, <2>4, <2>5, <2>6, <2>7, <2>8, <2>9, <1>1, <1>2
<1> QED
  BY <1>3 DEF NoDuplicates, q

(* InsertBefore is such an insertion, at a position of the list. *)
LEMMA InsertBeforePosition ==
  ASSUME NEW T, NEW s \in Seq(T), NEW e \in T, NEW before, before \subseteq 1 .. Len(s)
  PROVE  \E k \in 1 .. Len(s) + 1 :
           /\ InsertBefore(s, before, e) = InsertAt(s, k, e)
           /\ \A i \in before : k =< i
           /\ k # Len(s) + 1 => k \in before
<1>1. Len(s) \in Nat
  OBVIOUS
<1>2. CASE before = {}
  BY <1>1, <1>2 DEF InsertBefore
<1>3. CASE before # {}
  <2>0. before \subseteq Nat
    BY <1>1
  <2>1. Min(before) \in before /\ \A i \in before : Min(before) =< i
    BY <2>0, <1>3, MinIsLeast, Zenon
  <2>2. InsertBefore(s, before, e) = InsertAt(s, Min(before), e)
    BY <1>3 DEF InsertBefore
  <2>3. Min(before) \in 1 .. Len(s)
    BY <2>1, Zenon
  <2>4. 1 .. Len(s) \subseteq 1 .. Len(s) + 1
    BY <1>1
  <2> QED BY <2>1, <2>2, <2>3, <2>4, Zenon
<1> QED
  BY <1>2, <1>3

(* list_insert_ordered, whatever the comparison. *)
LEMMA InsertBeforeProperties ==
  ASSUME NEW T, NEW s \in Seq(T), NEW e \in T, NEW before, before \subseteq 1 .. Len(s)
  PROVE  /\ InsertBefore(s, before, e) \in Seq(T)
         /\ Range(InsertBefore(s, before, e)) = Range(s) \cup {e}
         /\ NoDuplicates(s) /\ e \notin Range(s) => NoDuplicates(InsertBefore(s, before, e))
<1>1. PICK k \in 1 .. Len(s) + 1 : InsertBefore(s, before, e) = InsertAt(s, k, e)
  BY InsertBeforePosition
<1> QED
  BY <1>1, InsertAtPointwise, InsertAtRange, InsertAtNoDuplicates

(* list_insert_ordered on the run queue and the wait lists ... *)
LEMMA InsertDescendingProperties ==
  ASSUME NEW T, NEW s \in Seq(T), NEW e \in T, NEW key
  PROVE  /\ InsertDescending(s, e, key) \in Seq(T)
         /\ Range(InsertDescending(s, e, key)) = Range(s) \cup {e}
         /\ NoDuplicates(s) /\ e \notin Range(s) => NoDuplicates(InsertDescending(s, e, key))
  BY InsertBeforeProperties, {i \in 1 .. Len(s) : key[e] > key[s[i]]} \subseteq 1 .. Len(s)
     DEF InsertDescending

(* ... and on the sleep queue. *)
LEMMA InsertAscendingProperties ==
  ASSUME NEW T, NEW s \in Seq(T), NEW e \in T, NEW key
  PROVE  /\ InsertAscending(s, e, key) \in Seq(T)
         /\ Range(InsertAscending(s, e, key)) = Range(s) \cup {e}
         /\ NoDuplicates(s) /\ e \notin Range(s) => NoDuplicates(InsertAscending(s, e, key))
  BY InsertBeforeProperties, {i \in 1 .. Len(s) : key[e] < key[s[i]]} \subseteq 1 .. Len(s)
     DEF InsertAscending

(* Inserting into an ascending list keeps it ascending. *)
LEMMA InsertAscendingSorted ==
  ASSUME NEW T, NEW s \in Seq(T), NEW e \in T, NEW key \in [T -> Int], IsAscending(s, key)
  PROVE  IsAscending(InsertAscending(s, e, key), key)
<1> DEFINE before == {i \in 1 .. Len(s) : key[e] < key[s[i]]}
<1>0. Len(s) \in Nat /\ \A i \in 1 .. Len(s) : s[i] \in T
  OBVIOUS
<1>1. PICK k \in 1 .. Len(s) + 1 :
        /\ InsertBefore(s, before, e) = InsertAt(s, k, e)
        /\ \A i \in before : k =< i
        /\ k # Len(s) + 1 => k \in before
  BY InsertBeforePosition, before \subseteq 1 .. Len(s)
<1> DEFINE q == InsertAt(s, k, e)
<1>2. /\ q \in Seq(T) /\ Len(q) = Len(s) + 1
      /\ \A i \in 1 .. Len(s) + 1 :
           /\ i < k => q[i] = s[i]
           /\ i = k => q[i] = e
           /\ i > k => q[i] = s[i - 1]
  BY InsertAtPointwise
<1>3. \A i \in 1 .. Len(s) : i < k => key[s[i]] =< key[e]
  BY <1>0, <1>1
<1>4. \A i \in 1 .. Len(s) : i >= k => key[e] =< key[s[i]]
  <2> SUFFICES ASSUME NEW i \in 1 .. Len(s), i >= k PROVE key[e] =< key[s[i]]
    OBVIOUS
  <2>1. k \in 1 .. Len(s) /\ key[e] < key[s[k]]
    BY <1>0, <1>1
  <2>2. key[s[k]] =< key[s[i]]
    BY <2>1, <1>0 DEF IsAscending
  <2> QED BY <2>1, <2>2, <1>0
<1> HIDE DEF q, before
<1>5. ASSUME NEW i \in 1 .. Len(q), NEW j \in 1 .. Len(q), i < j
      PROVE  key[q[i]] =< key[q[j]]
  <2>1. CASE j < k
    <3>1. q[i] = s[i] /\ q[j] = s[j] /\ i \in 1 .. Len(s) /\ j \in 1 .. Len(s)
      BY <2>1, <1>0, <1>2, <1>5
    <3> QED BY <3>1, <1>5 DEF IsAscending
  <2>2. CASE j = k
    <3>1. q[i] = s[i] /\ q[j] = e /\ i \in 1 .. Len(s) /\ i < k
      BY <2>2, <1>0, <1>2, <1>5
    <3> QED BY <3>1, <1>3
  <2>3. CASE j > k /\ i = k
    <3>1. q[i] = e /\ q[j] = s[j - 1] /\ j - 1 \in 1 .. Len(s) /\ j - 1 >= k
      BY <2>3, <1>0, <1>2, <1>5
    <3> QED BY <3>1, <1>4
  <2>4. CASE j > k /\ i < k
    <3>1. q[i] = s[i] /\ q[j] = s[j - 1] /\ i \in 1 .. Len(s) /\ j - 1 \in 1 .. Len(s)
      BY <2>4, <1>0, <1>2, <1>5
    <3>2. i < j - 1 \/ i = j - 1
      BY <2>4, <1>0
    <3> QED BY <3>1, <3>2, <1>0 DEF IsAscending
  <2>5. CASE j > k /\ i > k
    <3>1. q[i] = s[i - 1] /\ q[j] = s[j - 1] /\ i - 1 \in 1 .. Len(s) /\ j - 1 \in 1 .. Len(s)
      BY <2>5, <1>0, <1>2, <1>5
    <3>2. i - 1 < j - 1
      BY <1>0, <1>2, <1>5
    <3> QED BY <3>1, <3>2 DEF IsAscending
  <2> QED BY <2>1, <2>2, <2>3, <2>4, <2>5, <1>0
<1> QED
  BY <1>1, <1>5 DEF IsAscending, InsertAscending, q, before

(* list_pop_front: the first element leaves, the others keep their order.  *)
LEMMA TailProperties ==
  ASSUME NEW T, NEW s \in Seq(T), s # << >>
  PROVE  /\ Tail(s) \in Seq(T) /\ Head(s) \in T /\ Head(s) \in Range(s)
         /\ Len(Tail(s)) = Len(s) - 1 /\ Len(s) \in Nat \ {0}
         /\ \A i \in 1 .. Len(s) - 1 : Tail(s)[i] = s[i + 1]
         /\ Head(s) = s[1]
         /\ Range(s) = Range(Tail(s)) \cup {Head(s)}
         /\ NoDuplicates(s) => /\ NoDuplicates(Tail(s))
                               /\ Head(s) \notin Range(Tail(s))
<1>1. /\ Tail(s) \in Seq(T) /\ Head(s) \in T
      /\ Len(Tail(s)) = Len(s) - 1 /\ Len(s) \in Nat \ {0} /\ Head(s) = s[1]
      /\ \A i \in 1 .. Len(s) - 1 : Tail(s)[i] = s[i + 1]
  BY HeadTailProperties, EmptySeq, LenProperties
<1> DEFINE q == Tail(s)
<1>2. DOMAIN s = 1 .. Len(s) /\ DOMAIN q = 1 .. Len(s) - 1
  BY <1>1
<1>3. Head(s) \in Range(s)
  BY <1>1, <1>2 DEF Range
<1>4. Range(q) \subseteq Range(s)
  <2> SUFFICES ASSUME NEW i \in 1 .. Len(s) - 1 PROVE q[i] \in Range(s)
    BY <1>2 DEF Range
  <2>1. q[i] = s[i + 1] /\ i + 1 \in 1 .. Len(s) BY <1>1
  <2> QED BY <2>1, <1>2 DEF Range
<1>5. ASSUME NEW x \in Range(s), x # Head(s) PROVE x \in Range(q)
  <2>1. PICK j \in 1 .. Len(s) : x = s[j] BY <1>2 DEF Range
  <2>2. j # 1 BY <2>1, <1>1, <1>5
  <2>3. j - 1 \in 1 .. Len(s) - 1 /\ q[j - 1] = x BY <2>1, <2>2, <1>1
  <2> QED BY <2>3, <1>2 DEF Range
<1>6. ASSUME NoDuplicates(s) PROVE NoDuplicates(q) /\ Head(s) \notin Range(q)
  <2>1. ASSUME NEW i \in 1 .. Len(q), NEW j \in 1 .. Len(q), q[i] = q[j] PROVE i = j
    BY <2>1, <1>1, <1>6 DEF NoDuplicates
  <2>2. ASSUME NEW i \in 1 .. Len(s) - 1 PROVE q[i] # s[1]
    <3>1. q[i] = s[i + 1] /\ i + 1 \in 1 .. Len(s) /\ 1 \in 1 .. Len(s) /\ i + 1 # 1
      BY <1>1
    <3> QED BY <3>1, <1>6 DEF NoDuplicates
  <2> QED BY <2>1, <2>2, <1>1, <1>2 DEF NoDuplicates, Range
<1> QED
  BY <1>1, <1>3, <1>4, <1>5, <1>6

(* A list in ascending order stays so when its front is taken. *)
LEMMA TailAscending ==
  ASSUME NEW T, NEW s \in Seq(T), s # << >>, NEW key, IsAscending(s, key)
  PROVE  IsAscending(Tail(s), key)
<1>1. /\ Len(Tail(s)) = Len(s) - 1 /\ Len(s) \in Nat
      /\ \A i \in 1 .. Len(s) - 1 : Tail(s)[i] = s[i + 1]
  BY TailProperties
<1>2. ASSUME NEW i \in 1 .. Len(s) - 1, NEW j \in 1 .. Len(s) - 1, i < j
      PROVE  key[Tail(s)[i]] =< key[Tail(s)[j]]
  <2>1. i + 1 \in 1 .. Len(s) /\ j + 1 \in 1 .. Len(s) /\ i + 1 < j + 1
    BY <1>1, <1>2
  <2> QED BY <2>1, <1>1 DEF IsAscending
<1> QED
  BY <1>1, <1>2 DEF IsAscending

(* list_push_back. *)
LEMMA AppendRange ==
  ASSUME NEW T, NEW s \in Seq(T), NEW e \in T
  PROVE  /\ Append(s, e) \in Seq(T)
         /\ Range(Append(s, e)) = Range(s) \cup {e}
         /\ NoDuplicates(s) /\ e \notin Range(s) => NoDuplicates(Append(s, e))
<1> DEFINE q == Append(s, e)
<1>1. /\ q \in Seq(T) /\ Len(q) = Len(s) + 1 /\ Len(s) \in Nat
      /\ q[Len(s) + 1] = e /\ \A i \in 1 .. Len(s) : q[i] = s[i]
  BY AppendProperties
<1>2. DOMAIN s = 1 .. Len(s) /\ DOMAIN q = 1 .. Len(s) + 1
  BY <1>1
<1> HIDE DEF q
<1>3. Range(q) \subseteq Range(s) \cup {e}
  <2> SUFFICES ASSUME NEW i \in 1 .. Len(s) + 1 PROVE q[i] \in Range(s) \cup {e}
    BY <1>2 DEF Range
  <2>1. CASE i = Len(s) + 1 BY <2>1, <1>1
  <2>2. CASE i \in 1 .. Len(s)
    <3>1. q[i] = s[i] BY <2>2, <1>1
    <3> QED BY <3>1, <2>2, <1>2 DEF Range
  <2> QED BY <2>1, <2>2, <1>1
<1>4. Range(s) \cup {e} \subseteq Range(q)
  <2>1. e \in Range(q) BY <1>1, <1>2 DEF Range
  <2>2. ASSUME NEW i \in 1 .. Len(s) PROVE s[i] \in Range(q)
    <3>1. i \in 1 .. Len(s) + 1 /\ q[i] = s[i] BY <1>1
    <3> QED BY <3>1, <1>2 DEF Range
  <2> QED BY <2>1, <2>2, <1>2 DEF Range
<1>5. ASSUME NoDuplicates(s), e \notin Range(s) PROVE NoDuplicates(q)
  <2>1. \A i \in 1 .. Len(s) : s[i] # e
    BY <1>2, <1>5 DEF Range
  <2> QED BY <2>1, <1>1, <1>5 DEF NoDuplicates
<1> QED
  BY <1>1, <1>3, <1>4, <1>5 DEF q

(***************************************************************************)
(* A walk that takes elements out leaves the others, each linked as often  *)
(* as it was.  The recursive function exists and is typed because the      *)
(* least number of elements for which it were not can be excluded.         *)
(***************************************************************************)
LEMMA KeptProperties ==
  ASSUME NEW T, NEW s \in Seq(T), NEW keep
  PROVE  /\ Kept(s, keep) \in Seq(T)
         /\ Range(Kept(s, keep)) = Range(s) \cap keep
         /\ NoDuplicates(s) => NoDuplicates(Kept(s, keep))
<1> DEFINE n == Len(s)
           Rest(i, before) == IF s[i] \in keep THEN Append(before, s[i]) ELSE before
           Walk(f, k) == \A i \in 0 .. k : f[i] = IF i = 0 THEN << >> ELSE Rest(i, f[i - 1])
           Good == {k \in 0 .. n : \E f \in [0 .. k -> Seq(T)] : Walk(f, k)}
<1>0. n \in Nat /\ \A i \in 1 .. n : s[i] \in T
  OBVIOUS
<1>1. \A i \in 1 .. n, before \in Seq(T) : Rest(i, before) \in Seq(T)
  BY <1>0
<1> HIDE DEF n, Rest
<1>2. Good = 0 .. n
  <2> SUFFICES ASSUME (0 .. n) \ Good # {} PROVE FALSE
    OBVIOUS
  <2>1. PICK m \in (0 .. n) \ Good : \A k \in (0 .. n) \ Good : m =< k
    BY MinIsLeast, (0 .. n) \ Good \subseteq Nat, Zenon
  <2>2. m # 0
    <3>1. [i \in 0 .. 0 |-> << >>] \in [0 .. 0 -> Seq(T)] /\ Walk([i \in 0 .. 0 |-> << >>], 0)
      OBVIOUS
    <3> QED BY <3>1, <1>0, <2>1
  <2>3. m - 1 \in 0 .. n /\ m - 1 \in Good /\ m \in 1 .. n
    <3>1. m - 1 \in 0 .. n /\ m \in 1 .. n /\ ~ (m =< m - 1)
      BY <1>0, <2>1, <2>2
    <3> HIDE DEF Good
    <3> QED BY <2>1, <3>1
  <2>4. PICK f \in [0 .. m - 1 -> Seq(T)] : Walk(f, m - 1)
    BY <2>3
  <2> DEFINE g == [i \in 0 .. m |-> IF i = m THEN Rest(m, f[m - 1]) ELSE f[i]]
  <2>5. f[m - 1] \in Seq(T)
    BY <2>3
  <2>6. g \in [0 .. m -> Seq(T)]
    BY <1>1, <2>3, <2>5
  <2>7. ASSUME NEW i \in 0 .. m
        PROVE  g[i] = IF i = 0 THEN << >> ELSE Rest(i, g[i - 1])
    <3>1. CASE i = m
      BY <3>1, <2>3
    <3>2. CASE i # m
      <4>1. i \in 0 .. m - 1 /\ (i # 0 => i - 1 \in 0 .. m - 1 /\ i - 1 # m)
        BY <3>2, <2>3
      <4>2. g[i] = f[i] /\ (i # 0 => g[i - 1] = f[i - 1])
        BY <3>2, <4>1
      <4> QED BY <2>4, <4>1, <4>2
    <3> QED BY <3>1, <3>2
  <2> QED BY <2>1, <2>6, <2>7
<1>3. PICK h \in [0 .. n -> Seq(T)] : Walk(h, n)
  <2>1. n \in Good
    <3>1. n \in 0 .. n
      BY <1>0
    <3> HIDE DEF Good
    <3> QED BY <3>1, <1>2
  <2> QED BY <2>1
<1> DEFINE Walked(f) ==
      f = [i \in 0 .. n |-> IF i = 0 THEN << >> ELSE Rest(i, f[i - 1])]
           w == CHOOSE f : Walked(f)
<1>4. Walked(h)
  BY <1>3
<1>5. Walked(w)
  BY <1>4
<1>6. Kept(s, keep) = w[n]
  BY DEF Kept, n, Rest
<1> HIDE DEF w
<1>7. /\ w[0] = << >>
      /\ \A i \in 1 .. n : w[i] = Rest(i, w[i - 1])
  BY <1>0, <1>5
<1> DEFINE Sound(i) ==
      /\ w[i] \in Seq(T)
      /\ Range(w[i]) = {s[j] : j \in 1 .. i} \cap keep
      /\ NoDuplicates(s) => NoDuplicates(w[i])
<1>8. Sound(0)
  <2>1. Range(<< >>) = {} /\ NoDuplicates(<< >>)
    BY DEF Range, NoDuplicates
  <2> QED BY <2>1, <1>7
<1>9. ASSUME NEW i \in 1 .. n, Sound(i - 1) PROVE Sound(i)
  <2>1. /\ w[i - 1] \in Seq(T) /\ s[i] \in T /\ w[i] = Rest(i, w[i - 1])
        /\ {s[j] : j \in 1 .. i} = {s[j] : j \in 1 .. i - 1} \cup {s[i]}
    BY <1>0, <1>7, <1>9
  <2>2. CASE s[i] \notin keep
    BY <2>1, <2>2, <1>9 DEF Rest
  <2>3. CASE s[i] \in keep
    <3>1. w[i] = Append(w[i - 1], s[i])
      BY <2>1, <2>3 DEF Rest
    <3>2. /\ w[i] \in Seq(T) /\ Range(w[i]) = Range(w[i - 1]) \cup {s[i]}
          /\ NoDuplicates(w[i - 1]) /\ s[i] \notin Range(w[i - 1]) => NoDuplicates(w[i])
      BY <2>1, <3>1, AppendRange
    <3>3. NoDuplicates(s) => s[i] \notin Range(w[i - 1])
      <4> SUFFICES ASSUME NoDuplicates(s), s[i] \in Range(w[i - 1]) PROVE FALSE
        OBVIOUS
      <4>1. PICK j \in 1 .. i - 1 : s[i] = s[j]
        BY <1>9
      <4>2. j \in 1 .. n /\ i \in 1 .. n /\ i # j
        BY <1>0
      <4> QED BY <4>1, <4>2 DEF NoDuplicates, n
    <3> QED BY <3>2, <3>3, <2>1, <2>3, <1>9
  <2> QED BY <2>2, <2>3
<1> HIDE DEF Sound
<1>10. \A i \in 0 .. n : Sound(i)
  <2> SUFFICES ASSUME {i \in 0 .. n : ~ Sound(i)} # {} PROVE FALSE
    OBVIOUS
  <2>1. PICK m \in 0 .. n : ~ Sound(m) /\ \A k \in {i \in 0 .. n : ~ Sound(i)} : m =< k
    <3>1. {i \in 0 .. n : ~ Sound(i)} \subseteq Nat
      OBVIOUS
    <3> QED BY <3>1, MinIsLeast, Zenon
  <2>2. m \in 1 .. n /\ m - 1 \in 0 .. n
    BY <1>0, <1>8, <2>1
  <2>3. Sound(m - 1)
    BY <1>0, <2>1, <2>2
  <2> QED BY <1>9, <2>1, <2>2, <2>3
<1>11. Range(s) = {s[j] : j \in 1 .. n}
  BY <1>0 DEF Range, n
<1>12. Sound(n)
  BY <1>0, <1>10
<1> QED
  BY <1>6, <1>11, <1>12 DEF Sound

(***************************************************************************)
(* list_sort permutes: nothing is lost from the list, nothing is added and *)
(* nothing is linked twice.                                                *)
(***************************************************************************)
LEMMA SortsDescendingProperties ==
  ASSUME NEW T, NEW s \in Seq(T), NEW key, NEW q \in SortsDescending(s, key)
  PROVE  /\ q \in Seq(T) /\ Len(q) = Len(s) /\ Range(q) = Range(s)
         /\ NoDuplicates(s) => NoDuplicates(q)
<1> DEFINE D == 1 .. Len(s)
<1>0. Len(s) \in Nat /\ DOMAIN s = D /\ \A i \in D : s[i] \in T
  OBVIOUS
<1>1. PICK p \in Bijection(D, D) : q = Rearrangement(s, p)
  BY DEF SortsDescending
<1>2. /\ p \in [D -> D] /\ \A i, j \in D : p[i] = p[j] => i = j
      /\ \A k \in D : \E i \in D : p[i] = k
  BY <1>1 DEF Bijection, Injection, Surjection, IsInjective
<1>3. q = [i \in D |-> s[p[i]]]
  BY <1>1 DEF Rearrangement
<1>4. q \in [D -> T]
  BY <1>0, <1>2, <1>3
<1>5. q \in Seq(T) /\ Len(q) = Len(s) /\ DOMAIN q = D
  BY <1>0, <1>4
<1>6. Range(q) = Range(s)
  <2>1. ASSUME NEW x \in Range(q) PROVE x \in Range(s)
    <3>1. PICK i \in D : x = q[i]
      BY <2>1, <1>5 DEF Range
    <3> QED BY <3>1, <1>0, <1>2, <1>3 DEF Range
  <2>2. ASSUME NEW x \in Range(s) PROVE x \in Range(q)
    <3>1. PICK k \in D : x = s[k]
      BY <2>2, <1>0 DEF Range
    <3>2. PICK i \in D : p[i] = k
      BY <1>2
    <3> QED BY <3>1, <3>2, <1>3, <1>5 DEF Range
  <2> QED BY <2>1, <2>2
<1>7. ASSUME NoDuplicates(s) PROVE NoDuplicates(q)
  <2> SUFFICES ASSUME NEW i \in D, NEW j \in D, q[i] = q[j] PROVE i = j
    BY <1>5 DEF NoDuplicates
  <2>1. s[p[i]] = s[p[j]] /\ p[i] \in D /\ p[j] \in D
    BY <1>2, <1>3
  <2>2. p[i] = p[j]
    BY <2>1, <1>7 DEF NoDuplicates
  <2> QED BY <2>2, <1>2
<1> QED
  BY <1>5, <1>6, <1>7

(* Initial lists that link each element of a finite set once. *)
LEMMA SetToSeqsProperties ==
  ASSUME NEW S, IsFiniteSet(S), NEW s \in SetToSeqs(S)
  PROVE  s \in Seq(S) /\ Range(s) = S /\ NoDuplicates(s)
<1> DEFINE n == Cardinality(S)
<1>1. n \in Nat
  BY FS_CardinalityType
<1>2. s \in [1 .. n -> S] /\ \A i, j \in 1 .. n : i # j => s[i] # s[j]
  BY DEF SetToSeqs
<1>3. s \in Seq(S) /\ Len(s) = n /\ DOMAIN s = 1 .. n
  BY <1>1, <1>2
<1>4. s \in Injection(1 .. n, S)
  BY <1>2 DEF Injection, IsInjective
<1>5. Cardinality(1 .. n) = n
  BY <1>1, FS_Interval
<1>6. s \in Surjection(1 .. n, S)
  BY <1>4, <1>5, FS_Injection
<1>7. Range(s) = S
  BY <1>3, <1>2, <1>6 DEF Range, Surjection
<1> QED
  BY <1>2, <1>3, <1>7 DEF NoDuplicates
===============================================================================
