--------------------------------- MODULE Memory ---------------------------------
(***************************************************************************)
(* The kernel's memory: the pages of a pool (threads/palloc.c with its     *)
(* bitmap) and the blocks that malloc cuts them into (threads/malloc.c).   *)
(* palloc_get_multiple looks for free pages and marks them bit by bit      *)
(* under the pool's lock; palloc_free_multiple clears the bits without it. *)
(* One descriptor stands for all the block sizes: they share nothing but   *)
(* the pool.  A big block is one of more than half a page.                 *)
(***************************************************************************)
EXTENDS Integers, Sequences, SequencesExt, FiniteSetsExt

CONSTANTS
  User,            \* the threads that allocate and free
  NULL,
  Pages,           \* of the pool: 0..Pages - 1
  BlocksPerArena,
  BigPages,        \* of a big block, with its arena header
  MaxOwned         \* objects a thread has at a time

VARIABLES
  bits,       \* pool->used_map: the pages marked in use
  pool_lock,
  free_list,  \* of the descriptor: blocks <<page, index>>
  desc_lock,
  free_cnt,   \* of the arena in each page, NULL where there is none
  own,        \* what each thread has been given and not given back
  call        \* the call each thread is in

memVars == <<bits, pool_lock, free_list, desc_lock, free_cnt, own, call>>

Pool == 0..(Pages - 1)
Run(p, cnt) == p..(p + cnt - 1)
Object(kind, p, n) == [kind |-> kind, page |-> p, n |-> n]
Objects == { Object("block", p, n) : p \in Pool, n \in 0..(BlocksPerArena - 1) }
           \cup { Object("pages", p, n) : p \in Pool, n \in {1} }
           \cup { Object("big", p, BigPages) : p \in Pool }

NoCall == [at |-> "out", kind |-> NULL, cnt |-> 0, i |-> 0, j |-> 0, sure |-> FALSE]

MemInit ==
  /\ bits = {} /\ pool_lock = NULL
  /\ free_list = <<>> /\ desc_lock = NULL
  /\ free_cnt = [p \in Pool |-> NULL]
  /\ own = [u \in User |-> {}] /\ call = [u \in User |-> NoCall]

At(u, l) == call[u].at = l
Set(u, c) == call' = [call EXCEPT ![u] = c]
Go(u, l) == Set(u, [call[u] EXCEPT !.at = l])
Leave(u) == Set(u, NoCall)

-------------------------------------------------------------------------------
(* palloc_get_multiple: called with at = "get". *)

PallocGet(u, kind) ==
  /\ At(u, "out") /\ Cardinality(own[u]) < MaxOwned
  /\ Set(u, [NoCall EXCEPT !.at = "get", !.kind = kind,
                           !.cnt = IF kind = "big" THEN BigPages ELSE 1])
  /\ UNCHANGED <<bits, pool_lock, free_list, desc_lock, free_cnt, own>>

FreeRun(cnt) == \E p \in Pool : Run(p, cnt) \subseteq Pool \ bits

(* Without lock_acquire (&pool->lock). *)
LockNothing(u) ==
  /\ At(u, "get")
  /\ Set(u, [call[u] EXCEPT !.at = "scan", !.i = 0, !.j = 0, !.sure = FreeRun(call[u].cnt)])
  /\ UNCHANGED <<bits, pool_lock, free_list, desc_lock, free_cnt, own>>

LockPool(u) ==
  /\ At(u, "get") /\ pool_lock = NULL
  /\ pool_lock' = u
  /\ Set(u, [call[u] EXCEPT !.at = "scan", !.i = 0, !.j = 0, !.sure = FreeRun(call[u].cnt)])
  /\ UNCHANGED <<bits, free_list, desc_lock, free_cnt, own>>

(* bitmap_scan: whether the bit is in the run that starts at i. *)
ScanFrom(u) == call[u].i + call[u].cnt =< Pages

NextRun(c) == [c EXCEPT !.i = @ + 1, !.j = 0]

Scan(u) ==
  /\ At(u, "scan")
  /\ LET c == call[u] IN
     Set(u, IF ~ScanFrom(u) THEN [c EXCEPT !.at = "none"]
            ELSE IF c.i + c.j \in bits THEN NextRun(c)
            ELSE IF c.j + 1 < c.cnt THEN [c EXCEPT !.j = @ + 1]
            ELSE [c EXCEPT !.at = "mark", !.j = 0])
  /\ UNCHANGED <<bits, pool_lock, free_list, desc_lock, free_cnt, own>>

(* bitmap_set_multiple *)
Mark(u) ==
  /\ At(u, "mark")
  /\ bits' = bits \cup {call[u].i + call[u].j}
  /\ Set(u, IF call[u].j + 1 < call[u].cnt THEN [call[u] EXCEPT !.j = @ + 1]
            ELSE [call[u] EXCEPT !.at = "got"])
  /\ UNCHANGED <<pool_lock, free_list, desc_lock, free_cnt, own>>

UnlockPool(u) ==
  /\ call[u].at \in {"got", "none"}
  /\ pool_lock' = NULL
  /\ Go(u, IF At(u, "got") THEN "use" ELSE "fail")
  /\ UNCHANGED <<bits, free_list, desc_lock, free_cnt, own>>

(* The pages become the caller's, or a big block, or the caller gets NULL. *)
TakePages(u) ==
  /\ call[u].kind \in {"pages", "big"} /\ call[u].at \in {"use", "fail"}
  /\ own' = IF At(u, "use")
              THEN [own EXCEPT ![u] = @ \cup {Object(call[u].kind, call[u].i, call[u].cnt)}]
              ELSE own
  /\ Leave(u)
  /\ UNCHANGED <<bits, pool_lock, free_list, desc_lock, free_cnt>>

-------------------------------------------------------------------------------
(* palloc_free_multiple: called with at = "clear"; the memset has wiped    *)
(* out the arena.                                                          *)
ClearFrom(u, p, cnt) ==
  /\ Set(u, [call[u] EXCEPT !.at = "clear", !.i = p, !.j = 0, !.cnt = cnt])
  /\ free_cnt' = [q \in Pool |-> IF q \in Run(p, cnt) THEN NULL ELSE free_cnt[q]]

FreePages(u, o) ==
  /\ At(u, "out") /\ o \in own[u] /\ o.kind \in {"pages", "big"}
  /\ own' = [own EXCEPT ![u] = @ \ {o}]
  /\ ClearFrom(u, o.page, o.n)
  /\ UNCHANGED <<bits, pool_lock, free_list, desc_lock>>

Clear(u) ==
  /\ At(u, "clear")
  /\ bits' = bits \ {call[u].i + call[u].j}
  /\ IF call[u].j + 1 < call[u].cnt THEN Set(u, [call[u] EXCEPT !.j = @ + 1])
     ELSE IF call[u].kind = "block" THEN Go(u, "release") ELSE Leave(u)
  /\ UNCHANGED <<pool_lock, free_list, desc_lock, free_cnt, own>>

-------------------------------------------------------------------------------
(* malloc of a block *)

Malloc(u) ==
  /\ At(u, "out") /\ Cardinality(own[u]) < MaxOwned
  /\ Set(u, [NoCall EXCEPT !.at = "malloc", !.kind = "block", !.cnt = 1])
  /\ UNCHANGED <<bits, pool_lock, free_list, desc_lock, free_cnt, own>>

MallocLock(u) ==
  /\ At(u, "malloc") /\ desc_lock = NULL
  /\ desc_lock' = u
  /\ Go(u, IF free_list = <<>> THEN "get" ELSE "pop")
  /\ UNCHANGED <<bits, pool_lock, free_list, free_cnt, own>>

BlocksOf(p) == [n \in 1..BlocksPerArena |-> <<p, n - 1>>]

NewArena(u) ==
  /\ call[u].kind = "block" /\ call[u].at \in {"use", "fail"}
  /\ IF At(u, "use")
       THEN /\ free_cnt' = [free_cnt EXCEPT ![call[u].i] = BlocksPerArena]
            /\ free_list' = free_list \o BlocksOf(call[u].i)
            /\ Go(u, "pop")
       ELSE Go(u, "release") /\ UNCHANGED <<free_cnt, free_list>>
  /\ UNCHANGED <<bits, pool_lock, desc_lock, own>>

Pop(u) ==
  /\ At(u, "pop")
  /\ LET b == Head(free_list) IN
     /\ free_list' = Tail(free_list)
     /\ free_cnt' = [free_cnt EXCEPT ![b[1]] = @ - 1]
     /\ own' = [own EXCEPT ![u] = @ \cup {Object("block", b[1], b[2])}]
  /\ Go(u, "release")
  /\ UNCHANGED <<bits, pool_lock, desc_lock>>

Release(u) ==
  /\ At(u, "release")
  /\ desc_lock' = NULL /\ Leave(u)
  /\ UNCHANGED <<bits, pool_lock, free_list, free_cnt, own>>

(* free of a block: its arena cannot go away while it is in use. *)
Free(u, o) ==
  /\ At(u, "out") /\ o \in own[u] /\ o.kind = "block"
  /\ own' = [own EXCEPT ![u] = @ \ {o}]
  /\ Set(u, [NoCall EXCEPT !.at = "free", !.kind = "block", !.i = o.page, !.j = o.n])
  /\ UNCHANGED <<bits, pool_lock, free_list, desc_lock, free_cnt>>

FreeLock(u) ==
  /\ At(u, "free") /\ desc_lock = NULL
  /\ desc_lock' = u /\ Go(u, "push")
  /\ UNCHANGED <<bits, pool_lock, free_list, free_cnt, own>>

Unlist(list, p) == SelectSeq(list, LAMBDA b : b[1] # p)

Push(u) ==
  /\ At(u, "push")
  /\ LET p    == call[u].i
         list == <<<<p, call[u].j>>>> \o free_list
     IN
     IF free_cnt[p] + 1 >= BlocksPerArena
       THEN free_list' = Unlist(list, p) /\ ClearFrom(u, p, 1)
       ELSE /\ free_list' = list
            /\ free_cnt' = [free_cnt EXCEPT ![p] = @ + 1]
            /\ Go(u, "release")
  /\ UNCHANGED <<bits, pool_lock, desc_lock, own>>

UserStep(u) ==
  \/ \E kind \in {"pages", "big"} : PallocGet(u, kind)
  \/ LockPool(u) \/ Scan(u) \/ Mark(u) \/ UnlockPool(u) \/ TakePages(u) \/ Clear(u)
  \/ Malloc(u) \/ MallocLock(u) \/ NewArena(u) \/ Pop(u) \/ Release(u)
  \/ \E o \in Objects : FreePages(u, o) \/ Free(u, o)
  \/ FreeLock(u) \/ Push(u)

MemNext == \E u \in User : UserStep(u)

MemSpec == MemInit /\ [][MemNext]_memVars

-------------------------------------------------------------------------------
(* Who counts on a page: the threads that have it, the arena in it, a call *)
(* that has found it free and one that has not yet given it back.          *)
OwnPages(o) == Run(o.page, o.n)
Found(u) ==
  IF call[u].at \in {"mark", "got", "use"} THEN Run(call[u].i, call[u].cnt) ELSE {}
NotYetMarked(u) == IF At(u, "mark") THEN Run(call[u].i + call[u].j, call[u].cnt - call[u].j)
                                    ELSE {}
NotYetCleared(u) == IF At(u, "clear") THEN Run(call[u].i + call[u].j, call[u].cnt - call[u].j)
                                      ELSE {}
Arenas == { p \in Pool : free_cnt[p] # NULL }
Owners(p) ==
  { <<u, o>> \in User \X Objects : o \in own[u] /\ o.kind # "block" /\ p \in OwnPages(o) }
CountOn(p) ==
  Cardinality(Owners(p)) + (IF p \in Arenas THEN 1 ELSE 0)
  + Cardinality({ u \in User : p \in Found(u) })
  + Cardinality({ u \in User : p \in NotYetCleared(u) })

(* A page is never given to two, though the bits change under the scan of  *)
(* another thread; it is marked as long as somebody counts on it, and      *)
(* marked no longer: none is leaked by a call that fails.                  *)
PagesAreExclusive ==
  /\ \A p \in Pool : CountOn(p) =< 1
  /\ bits = { p \in Pool : CountOn(p) = 1 } \ UNION { NotYetMarked(u) : u \in User }

OnList(b) == \E i \in 1..Len(free_list) : free_list[i] = b
InUse(b) == \E u \in User : \/ Object("block", b[1], b[2]) \in own[u]
                            \/ call[u].at \in {"free", "push"} /\ <<call[u].i, call[u].j>> = b

(* A block is on the free list or in use, and in use once; the arena       *)
(* counts its free blocks; while nobody is in malloc or free, an arena     *)
(* with no block in use has gone back to the pool.                         *)
BlocksAreExclusive ==
  /\ IsInjective(free_list)
  /\ \A i \in 1..Len(free_list) : free_list[i][1] \in Arenas
  /\ \A p \in Pool : \A n \in 0..(BlocksPerArena - 1) :
       p \in Arenas => (OnList(<<p, n>>) <=> ~InUse(<<p, n>>))
  /\ \A u, v \in User : u # v => { o \in own[u] : o.kind = "block" } \cap own[v] = {}
  /\ \A p \in Arenas :
       /\ free_cnt[p] = Cardinality({ n \in 0..(BlocksPerArena - 1) : OnList(<<p, n>>) })
       /\ desc_lock = NULL => free_cnt[p] < BlocksPerArena

(* A request fails only if there was no run of free pages long enough when *)
(* it began to look: what others free meanwhile can only help.             *)
FailsOnlyWhenFull == \A u \in User : call[u].sure => call[u].at \notin {"none", "fail"}
===============================================================================
