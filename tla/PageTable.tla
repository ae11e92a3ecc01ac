------------------------------- MODULE PageTable -------------------------------
(***************************************************************************)
(* The four-level page tables of threads/mmu.c.  A walk goes down from the *)
(* pml4 (level 4) to the page table (level 1), one level a step, and may   *)
(* allocate a table at each; when an allocation fails it goes back up and  *)
(* takes away what it has put in.  The kernel's half of the pml4, the bits *)
(* U and W and the TLB are left out.                                       *)
(*                                                                         *)
(* `mapped` is what the owner of the page table believes it maps.          *)
(***************************************************************************)
EXTENDS Integers, Sequences, SequencesExt, FiniteSetsExt

CONSTANTS
  Page,     \* the pages of the kernel pool, numbers
  Frame,    \* the pages of the user pool
  Index,    \* of an entry in a table
  Va,       \* user pages: their indexes at levels 1 to 4
  NULL

VARIABLES
  used,     \* pages in use: tables of this process
  entry,    \* the entries of each page
  pml4,
  walk,     \* a call that walks the tables
  frames,   \* the frames that its owner has
  mapped,
  destroyed \* what pml4_destroy gave back, in its order, and what it had to

ptVars == <<used, entry, pml4, walk, frames, mapped, destroyed>>

Zero == [to |-> NULL, p |-> FALSE, d |-> FALSE]
ZeroPage == [i \in Index |-> Zero]
(* palloc_free_page fills the page with 0xcc: D is set, P is not. *)
FreedPage == [i \in Index |-> [Zero EXCEPT !.d = TRUE]]

PtInit ==
  /\ used = {} /\ entry = [g \in Page |-> FreedPage]
  /\ pml4 = NULL /\ walk = NULL /\ frames = {}
  /\ mapped = [va \in Va |-> Zero] /\ destroyed = NULL

Idle == pml4 # NULL /\ walk = NULL

Pml4Create ==
  /\ pml4 = NULL
  /\ pml4' = Min(Page \ used) /\ used' = used \cup {pml4'}
  /\ entry' = [entry EXCEPT ![pml4'] = ZeroPage] /\ destroyed' = NULL
  /\ UNCHANGED <<walk, frames, mapped>>

-------------------------------------------------------------------------------
(* A walk: the table it stands in at each level from `level` to 4, and the *)
(* levels where it has put in a table.  `was` is the tree before it.       *)
StartWalk(op, va, create, frame) ==
  /\ Idle
  /\ walk' = [op |-> op, va |-> va, create |-> create, frame |-> frame, at |-> "down",
              level |-> 4, table |-> [l \in 1..4 |-> IF l = 4 THEN pml4 ELSE NULL],
              fresh |-> {}, was |-> [used |-> used, entry |-> entry]]
  /\ UNCHANGED <<used, entry, pml4, mapped, destroyed>>

Pte == entry[walk.table[walk.level]][walk.va[walk.level]]

WalkDown ==
  /\ walk # NULL /\ walk.at = "down" /\ walk.level > 1 /\ Pte.p
  /\ walk' = [walk EXCEPT !.level = @ - 1, !.table[walk.level - 1] = Pte.to]
  /\ UNCHANGED <<used, entry, pml4, frames, mapped, destroyed>>

WalkAllocates ==
  /\ walk # NULL /\ walk.at = "down" /\ walk.level > 1 /\ ~Pte.p /\ walk.create
  /\ Page \ used # {}
  /\ LET new == Min(Page \ used) IN
     /\ used' = used \cup {new}
     /\ entry' = [entry EXCEPT ![new] = ZeroPage,
                    ![walk.table[walk.level]][walk.va[walk.level]] =
                      [Zero EXCEPT !.to = new, !.p = TRUE]]
     /\ walk' = [walk EXCEPT !.level = @ - 1, !.table[walk.level - 1] = new,
                             !.fresh = @ \cup {walk.level}]
  /\ UNCHANGED <<pml4, frames, mapped, destroyed>>

(* No table and none wanted, or none to be had. *)
WalkFails ==
  /\ walk # NULL /\ walk.at = "down" /\ walk.level > 1 /\ ~Pte.p
  /\ walk' = [walk EXCEPT !.at = "up"]
  /\ UNCHANGED <<used, entry, pml4, frames, mapped, destroyed>>

(* The return through a level with allocated set frees the page and zeroes *)
(* the entry.  This one forgets the entry.                                 *)
WithdrawPageOnly(l) ==
  /\ used' = used \ {entry[walk.table[l]][walk.va[l]].to}
  /\ entry' = [entry EXCEPT ![entry[walk.table[l]][walk.va[l]].to] = FreedPage]

Withdraw(l) ==
  /\ used' = used \ {entry[walk.table[l]][walk.va[l]].to}
  /\ entry' = [entry EXCEPT ![entry[walk.table[l]][walk.va[l]].to] = FreedPage,
                            ![walk.table[l]][walk.va[l]] = Zero]

WalkUp ==
  /\ walk # NULL /\ walk.at = "up" /\ walk.level < 4
  /\ LET l == walk.level + 1 IN
     /\ walk' = [walk EXCEPT !.level = l]
     /\ IF l \in walk.fresh THEN Withdraw(l) ELSE UNCHANGED <<used, entry>>
  /\ UNCHANGED <<pml4, frames, mapped, destroyed>>

Failed == walk.at = "up" /\ walk.level = 4
WalkReturnsNull ==
  /\ walk # NULL /\ Failed
  /\ walk' = NULL
  /\ UNCHANGED <<used, entry, pml4, frames, mapped, destroyed>>

Found == walk # NULL /\ walk.at = "down" /\ walk.level = 1
Apply(pte) ==
  /\ entry' = [entry EXCEPT ![walk.table[1]][walk.va[1]] = pte]
  /\ mapped' = [mapped EXCEPT ![walk.va] = pte]
  /\ walk' = NULL
  /\ UNCHANGED <<used, pml4, frames, destroyed>>

-------------------------------------------------------------------------------
(* pml4_set_page with a frame of its own; its caller knows that the page   *)
(* is not mapped.                                                          *)
SetPage(va, f) ==
  /\ ~mapped[va].p /\ f \notin frames
  /\ StartWalk("set", va, TRUE, f)
  /\ frames' = frames \cup {f}
SetPageDone == Found /\ walk.op = "set" /\ Apply([Zero EXCEPT !.to = walk.frame, !.p = TRUE])

(* pml4_clear_page keeps the address and the dirty bit. *)
ClearPage(va) == StartWalk("clear", va, FALSE, NULL) /\ UNCHANGED frames
ClearPageDone ==
  Found /\ walk.op = "clear" /\ Apply(IF Pte.p THEN [Pte EXCEPT !.p = FALSE] ELSE Pte)

(* pml4_set_dirty (..., false), whether the entry is present or not. *)
SetClean(va) == StartWalk("clean", va, FALSE, NULL) /\ UNCHANGED frames
SetCleanDone == Found /\ walk.op = "clean" /\ Apply([Pte EXCEPT !.d = FALSE])

(* pml4_get_page, pml4_is_dirty and pml4_for_each read. *)
Child(t, i) == IF t # NULL /\ entry[t][i].p THEN entry[t][i].to ELSE NULL
TableOf(va) == Child(Child(Child(pml4, va[4]), va[3]), va[2])
Lookup(va) == IF pml4 = NULL \/ TableOf(va) = NULL THEN Zero ELSE entry[TableOf(va)][va[1]]
GetPage(va) == IF Lookup(va).p THEN Lookup(va).to ELSE NULL

Entries(t) == IF t = NULL THEN {} ELSE { i \in Index : entry[t][i].p }
ForEach ==
  UNION { UNION { UNION { { <<i1, i2, i3, i4>> :
    i1 \in Entries(Child(Child(Child(pml4, i4), i3), i2)) } :
    i2 \in Entries(Child(Child(pml4, i4), i3)) } :
    i3 \in Entries(Child(pml4, i4)) } : i4 \in Entries(pml4) }

(* The processor stores through a present entry. *)
Store(va) ==
  /\ Idle /\ GetPage(va) # NULL
  /\ entry' = [entry EXCEPT ![TableOf(va)][va[1]].d = TRUE]
  /\ mapped' = [mapped EXCEPT ![va].d = TRUE]
  /\ UNCHANGED <<used, pml4, walk, frames, destroyed>>

(* The owner gives back a frame that it does not map (any more). *)
FreeFrame(f) ==
  /\ Idle /\ f \in frames
  /\ \A va \in Va : mapped[va].p => mapped[va].to # f
  /\ frames' = frames \ {f}
  /\ UNCHANGED <<used, entry, pml4, walk, mapped, destroyed>>

-------------------------------------------------------------------------------
(* pml4_destroy: pt_destroy, pgdir_destroy and pdpe_destroy free what each *)
(* present entry leads to, then the table itself; entry 0 of the pml4 is   *)
(* the user's half.                                                        *)
Targets(t) ==
  LET is == SetToSortSeq(Entries(t), <) IN [n \in 1..Len(is) |-> entry[t][is[n]].to]

DestroyPt(t) == Targets(t) \o <<t>>
DestroyPgdir(t) ==
  FlattenSeq([n \in 1..Len(Targets(t)) |-> DestroyPt(Targets(t)[n])]) \o <<t>>
DestroyPdpe(t) ==
  FlattenSeq([n \in 1..Len(Targets(t)) |-> DestroyPgdir(Targets(t)[n])]) \o <<t>>

Destroy(t) == (IF Child(t, 0) # NULL THEN DestroyPdpe(Child(t, 0)) ELSE <<>>) \o <<t>>
MappedFrames == { mapped[va].to : va \in { v \in Va : mapped[v].p } }

Pml4Destroy ==
  /\ Idle
  /\ destroyed' = [order |-> Destroy(pml4), due |-> used \cup MappedFrames]
  /\ used' = used \ Range(Destroy(pml4)) /\ frames' = frames \ Range(Destroy(pml4))
  /\ pml4' = NULL /\ mapped' = [va \in Va |-> Zero]
  /\ entry' = [g \in Page |-> IF g \in used' THEN entry[g] ELSE FreedPage]
  /\ UNCHANGED walk

PageTableNext ==
  \/ Pml4Create \/ Pml4Destroy
  \/ WalkDown \/ WalkAllocates \/ WalkFails \/ WalkUp \/ WalkReturnsNull
  \/ SetPageDone \/ ClearPageDone \/ SetCleanDone
  \/ \E va \in Va : \/ \E f \in Frame : SetPage(va, f)
                     \/ ClearPage(va) \/ SetClean(va) \/ Store(va)
  \/ \E f \in Frame : FreeFrame(f)

PageTableSpec == PtInit /\ [][PageTableNext]_ptVars

-------------------------------------------------------------------------------

(* Between calls the pages in use are the pml4 and the tables below it,    *)
(* each with one entry that points to it: nothing is leaked by a walk that *)
(* runs out of memory on its way, and nothing is shared.                   *)
Level(l) ==
  LET below(ts) == UNION { { entry[t][i].to : i \in Entries(t) } : t \in ts }
  IN  CASE l = 4 -> {pml4} [] l = 3 -> below({pml4})
        [] l = 2 -> below(below({pml4})) [] OTHER -> below(below(below({pml4})))
Links == { <<t, i>> \in (Level(4) \cup Level(3) \cup Level(2)) \X Index : entry[t][i].p }
TreeIsExact ==
  Idle => /\ used = UNION { Level(l) : l \in 1..4 }
          /\ \A x, y \in Links : entry[x[1]][x[2]].to = entry[y[1]][y[2]].to => x = y
          /\ pml4 \notin { entry[x[1]][x[2]].to : x \in Links }

(* A walk that returns a null pointer has left the tree as it was.         *)
FailedWalkLeavesNoTrace ==
  (walk # NULL /\ Failed) =>
    used = walk.was.used /\ \A t \in used : entry[t] = walk.was.entry[t]

(* What pml4_get_page, pml4_is_dirty and pml4_for_each see of each page is *)
(* what was set for it, whatever was done to the pages that share tables   *)
(* with it and to the pages the tables were made of.                       *)
MappingsAgree ==
  /\ \A va \in Va : Lookup(va) = mapped[va]
  /\ pml4 # NULL => ForEach = { va \in Va : mapped[va].p }

(* pml4_destroy frees every table and every mapped frame, each once.       *)
DestroyFreesAll ==
  destroyed # NULL =>
    /\ used = {} /\ IsInjective(destroyed.order)
    /\ Range(destroyed.order) = destroyed.due
===============================================================================
