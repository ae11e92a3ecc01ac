------------------------------- MODULE HashTable -------------------------------
(***************************************************************************)
(* The chained hash tables of lib/kernel/hash.c, which hold the pages of a *)
(* supplemental page table.  A table belongs to one process and is used by *)
(* one thread at a time: the operations are steps, except for the loops    *)
(* that call back their user (hash_clear) or run in it (hash_first and     *)
(* hash_next), during which the table must not change.                     *)
(*                                                                         *)
(* `content` is what a user believes the table holds.                      *)
(***************************************************************************)
EXTENDS Integers, Sequences, SequencesExt, FiniteSetsExt

CONSTANTS
  Item,         \* the elements, of which several may be equal
  Keys,         \* the classes of equal elements
  KeyOf,        \* the class of each element
  Hashes,       \* the hash functions: Keys -> Nat
  NULL,
  MinBuckets,   \* 4 in the code
  BestElems     \* BEST_ELEMS_PER_BUCKET, 2 in the code

VARIABLES
  buckets,      \* the chains, from 1
  elem_cnt,
  hash,
  content,
  visit         \* a loop over the table: where it stands, whom it has seen

hashVars == <<buckets, elem_cnt, hash, content, visit>>

(* hash_init *)
HashInit ==
  /\ buckets = [i \in 1..MinBuckets |-> <<>>] /\ elem_cnt = 0
  /\ hash \in Hashes
  /\ content = [k \in Keys |-> NULL] /\ visit = NULL

(* find_bucket: the number of buckets is a power of two. *)
FindBucket(k, n) == (hash[k] % n) + 1

(* find_elem *)
FindElem(b, k) ==
  LET same == { i \in 1..Len(b) : KeyOf[b[i]] = k } IN
  IF same = {} THEN NULL ELSE b[Min(same)]
Find(k) == FindElem(buckets[FindBucket(k, Len(buckets))], k)

WithFront(bs, i, e) == [bs EXCEPT ![i] = <<e>> \o @]
Without(bs, i, e) == [bs EXCEPT ![i] = SelectSeq(@, LAMBDA x : x # e)]

IdealBuckets(cnt) ==
  LET want == Max({cnt \div BestElems, MinBuckets}) IN
  Max({ p \in { 2 ^ i : i \in 0..want } : p =< want })

(* A rehash that looks for the new bucket with the old number of buckets. *)
MoveAllStale(bs, n) ==
  FoldLeft(LAMBDA new, e : WithFront(new, ((FindBucket(KeyOf[e], Len(bs)) - 1) % n) + 1, e),
           [i \in 1..n |-> <<>>], FlattenSeq(bs))

MoveAll(bs, n) ==
  FoldLeft(LAMBDA new, e : WithFront(new, FindBucket(KeyOf[e], n), e),
           [i \in 1..n |-> <<>>], FlattenSeq(bs))

(* rehash after the table has become bs with cnt elements: the allocation  *)
(* of the new buckets may fail, then the old ones stay.                    *)
Rehash(bs, cnt) ==
  /\ elem_cnt' = cnt
  /\ \/ IdealBuckets(cnt) # Len(bs) /\ buckets' = MoveAll(bs, IdealBuckets(cnt))
     \/ buckets' = bs

Quiet == visit = NULL
InTable(e) == \E i \in 1..Len(buckets) : Contains(buckets[i], e)

HashInsert(e) ==
  LET k == KeyOf[e]
      i == FindBucket(k, Len(buckets))
  IN
  /\ Quiet /\ ~InTable(e)
  /\ IF FindElem(buckets[i], k) = NULL
       THEN /\ Rehash(WithFront(buckets, i, e), elem_cnt + 1)
            /\ content' = [content EXCEPT ![k] = e]
       ELSE Rehash(buckets, elem_cnt) /\ UNCHANGED content
  /\ UNCHANGED <<hash, visit>>

Replaced(bs, i, old, e) == WithFront(IF old = NULL THEN bs ELSE Without(bs, i, old), i, e)

HashReplace(e) ==
  LET k   == KeyOf[e]
      i   == FindBucket(k, Len(buckets))
      old == FindElem(buckets[i], k)
  IN
  /\ Quiet /\ ~InTable(e)
  /\ Rehash(Replaced(buckets, i, old, e), IF old = NULL THEN elem_cnt + 1 ELSE elem_cnt)
  /\ content' = [content EXCEPT ![k] = e]
  /\ UNCHANGED <<hash, visit>>

HashDelete(k) ==
  LET i   == FindBucket(k, Len(buckets))
      old == FindElem(buckets[i], k)
  IN
  /\ Quiet /\ old # NULL
  /\ Rehash(Without(buckets, i, old), elem_cnt - 1)
  /\ content' = [content EXCEPT ![k] = NULL]
  /\ UNCHANGED <<hash, visit>>

(* hash_first; hash_next stands before the head of the first bucket. *)
HashFirst ==
  /\ Quiet
  /\ visit' = [op |-> "iterate", bucket |-> 1, pos |-> 0, seen |-> <<>>]
  /\ UNCHANGED <<buckets, elem_cnt, hash, content>>

NextPlace(b, p) ==
  LET later == { c \in (b + 1)..Len(buckets) : buckets[c] # <<>> } IN
  IF p < Len(buckets[b]) THEN <<b, p + 1>>
  ELSE IF later # {} THEN <<Min(later), 1>> ELSE <<>>

HashNext ==
  /\ visit # NULL /\ visit.op = "iterate"
  /\ LET to == NextPlace(visit.bucket, visit.pos) IN
     visit' = IF to = <<>> THEN [visit EXCEPT !.op = "end"]
              ELSE [visit EXCEPT !.bucket = to[1], !.pos = to[2],
                                 !.seen = Append(@, buckets[to[1]][to[2]])]
  /\ UNCHANGED <<buckets, elem_cnt, hash, content>>

StartHashClear ==
  /\ Quiet
  /\ visit' = [op |-> "clear", bucket |-> 1, pos |-> 0, seen |-> <<>>]
  /\ UNCHANGED <<buckets, elem_cnt, hash, content>>

(* One call of the destructor, or the next bucket, or the end. *)
HashClear ==
  /\ visit # NULL /\ visit.op = "clear"
  /\ LET b == visit.bucket IN
     IF b > Len(buckets)
       THEN /\ elem_cnt' = 0 /\ content' = [k \in Keys |-> NULL]
            /\ visit' = [visit EXCEPT !.op = "cleared"]
            /\ UNCHANGED buckets
     ELSE IF buckets[b] = <<>>
       THEN visit' = [visit EXCEPT !.bucket = b + 1] /\ UNCHANGED <<buckets, elem_cnt, content>>
     ELSE /\ visit' = [visit EXCEPT !.seen = Append(@, Head(buckets[b]))]
          /\ buckets' = [buckets EXCEPT ![b] = Tail(@)]
          /\ UNCHANGED <<elem_cnt, content>>
  /\ UNCHANGED hash

EndVisit ==
  /\ visit # NULL /\ visit.op \in {"end", "cleared"}
  /\ visit' = NULL
  /\ UNCHANGED <<buckets, elem_cnt, hash, content>>

HashTableNext ==
  \/ \E e \in Item : HashInsert(e) \/ HashReplace(e)
  \/ \E k \in Keys : HashDelete(k)
  \/ HashFirst \/ HashNext \/ StartHashClear \/ HashClear \/ EndVisit

HashSpec == HashInit /\ [][HashTableNext]_hashVars

-------------------------------------------------------------------------------
(* Outside hash_clear a search finds the element that was put in last, if  *)
(* any, in a table of any number of buckets, with allocations that fail.   *)
FindsContent ==
  (Quiet \/ visit.op # "clear") => \A k \in Keys : Find(k) = content[k]

(* Every element stands in the chain of its hash, once, and elem_cnt       *)
(* counts them: a rehash loses none, and rounds to a power of two.         *)
ChainsAreExact ==
  (Quiet \/ visit.op # "clear") =>
    /\ \A i \in 1..Len(buckets) : \A j \in 1..Len(buckets[i]) :
         FindBucket(KeyOf[buckets[i][j]], Len(buckets)) = i
    /\ IsInjective(FlattenSeq(buckets)) /\ Len(FlattenSeq(buckets)) = elem_cnt
    /\ \E n \in 0..Len(buckets) : Len(buckets) = 2 ^ n

(* A loop with hash_next visits every element once; so does the destructor *)
(* in hash_clear, while the table is emptied under it.                     *)
VisitsEachOnce ==
  visit # NULL =>
    /\ IsInjective(visit.seen)
    /\ visit.op = "end" => Range(visit.seen) = { content[k] : k \in Keys } \ {NULL}
    /\ visit.op = "clear" =>
         { content[k] : k \in Keys } \ {NULL} =
           Range(visit.seen) \cup UNION { Range(buckets[i]) : i \in 1..Len(buckets) }
    /\ visit.op = "cleared" => \A i \in 1..Len(buckets) : buckets[i] = <<>>
================================================================================
