------------------------------- MODULE VMProofs -------------------------------
(***************************************************************************)
(* The properties of module VM, for any number of processes, pages, frames *)
(* and swap slots.                                                         *)
(*                                                                         *)
(* The inductive invariant VMInv has ten parts beside the types, that hold *)
(* as long as no two processes were in the frame list or the swap table at *)
(* once and no process evicted another's page (Sound).  They say who has a *)
(* frame at each point of a claim (ClaimOf, HeldOf), that frames and page  *)
(* table entries are exclusive (FrameInv, MapOf), what a page that is not  *)
(* in the table lacks (EmptyOf), whose the slots are (SwapOf, SlotOf, and  *)
(* VictimOf for the time between the copy to a slot and the note of it),   *)
(* where the content of a page is (ContentOf), and that a parent stands    *)
(* still while its child copies (ForkOf).                                  *)
(*                                                                         *)
(* There is a lemma for each action that it keeps the types and another    *)
(* that it keeps the ten parts.                                            *)
(***************************************************************************)
EXTENDS VM, WellFoundedInduction, SequenceTheorems, FiniteSetTheorems, TLAPS

Claiming == {"get_frame", "victim", "scan", "flip", "swap_out", "write_back", "unlink",
             "append", "link", "swap_in"}
Evicting == {"scan", "flip", "swap_out", "write_back", "unlink"}
Holding == Evicting \cup {"append"}

(* A page of the pool that a frame in use has: not that of a dead process. *)
Live(f) == fkva[f] # NULL /\ fpage[f] # DANGLING

(* A page is claimed for its own process, and mapped only by Link. *)
ClaimOf(p) ==
    /\ pc[p] \in Claiming \cup {"memcpy"} =>
         claim[p] \in Page /\ claim[p][1] = p /\ ops[claim[p]] # "none"
    /\ pc[p] \in Claiming \ {"swap_in"} => pml4[claim[p]] = NULL
    /\ pc[p] = "swap_in" =>
         /\ got[p] \in Frame /\ frame[claim[p]] = got[p] /\ pml4[claim[p]] # NULL
         /\ ops[claim[p]] = "anon" => swap_index[claim[p]] # NULL
    /\ pc[p] \in {"swap_in", "memcpy"} => ~ dirty[claim[p]]
    /\ pc[p] = "memcpy" => swap_index[claim[p]] = NULL

(* A frame that a process has taken is its own, and not in the list; and   *)
(* one that is not allocated is nowhere.                                   *)
HeldOf(p) ==
       /\ pc[p] \in Holding \cup {"link"} => got[p] \in Frame /\ fkva[got[p]] # NULL
       /\ pc[p] \in Holding => \A i \in 1 .. Len(frame_list) : frame_list[i] # got[p]
       /\ pc[p] \in {"append", "link"} => fpage[got[p]] = NULL
       /\ \A q \in Proc : q # p /\ pc[p] \in Holding \cup {"link"}
              /\ pc[q] \in Holding \cup {"link"} =>
            got[p] # got[q]

Unallocated ==
  \A f \in Frame : fkva[f] = NULL =>
       fpage[f] = NULL /\ \A i \in 1 .. Len(frame_list) : frame_list[i] # f

(* Pages and frames name each other, and no two frames share their page of *)
(* the pool.                                                               *)
FrameInv ==
  /\ \A pg \in Page : frame[pg] # NULL => fpage[frame[pg]] = pg
  /\ \A f \in Frame : fpage[f] \in Page => ops[fpage[f]] # "none"
  /\ \A f \in Frame : Live(f) => fkva[f] \in used
  /\ \A f, g \in Frame : Live(f) /\ Live(g) /\ fkva[f] = fkva[g] => f = g

(* A page table entry is the only one for its page of the pool, and the    *)
(* frame's; while an address space is destroyed, no frame has it any more. *)
MapOf(pg) ==
  pml4[pg] # NULL =>
    /\ pml4[pg] \in used
    /\ \A other \in Page : pml4[other] = pml4[pg] => other = pg
    /\ ops[pg] # "none" => frame[pg] # NULL /\ fkva[frame[pg]] = pml4[pg]
    /\ ops[pg] = "none" =>
         pc[pg[1]] = "destroy" /\ \A f \in Frame : Live(f) => fkva[f] # pml4[pg]

EmptyOf(pg) ==
    /\ pc[pg[1]] \in {"none", "load", "dead", "destroy"} => ops[pg] = "none"
    /\ ops[pg] = "none" => frame[pg] = NULL /\ swap_index[pg] = NULL

SwapOf(pg) ==
    /\ swap_index[pg] # NULL =>
         /\ ops[pg] = "anon" /\ swap_index[pg] \in swap_table
         /\ \A other \in Page : swap_index[other] = swap_index[pg] => other = pg
         /\ pml4[pg] = NULL \/ (pc[pg[1]] = "swap_in" /\ claim[pg[1]] = pg)
    /\ ops[pg] = "anon" /\ swap_index[pg] = NULL => pml4[pg] # NULL

SlotOf(p) ==
    /\ slot[p] # NULL => pc[p] \in {"flip", "swap_out", "unlink"}
    /\ pc[p] \in {"flip", "swap_out"} => slot[p] # NULL
    /\ pc[p] \in {"swap_out", "unlink"} /\ slot[p] # NULL =>
         /\ slot[p] \in swap_table
         /\ \A pg \in Page : swap_index[pg] # slot[p]
         /\ \A q \in Proc : q # p /\ pc[q] \in {"swap_out", "unlink"} => slot[q] # slot[p]

VictimOf(p, pg) ==
    pc[p] \in Evicting /\ fpage[got[p]] = pg /\ pg[1] = p =>
      /\ pc[p] \in {"scan", "flip", "swap_out"} => ops[pg] = "anon" /\ swap_index[pg] = NULL
      /\ pc[p] = "write_back" => ops[pg] = "file"
      /\ pc[p] = "unlink" /\ slot[p] # NULL =>
           /\ ops[pg] = "anon" /\ swap_index[pg] = NULL
           /\ expect[pg] # "any" => swap[slot[p]] = expect[pg]
      /\ pc[p] = "unlink" /\ slot[p] = NULL =>
           \/ ops[pg] = "file" /\ expect[pg] = "any"
           \/ ops[pg] = "anon" /\ swap_index[pg] # NULL

ContentOf(pg) ==
    /\ ops[pg] = "anon" /\ expect[pg] # "any" =>
         IF swap_index[pg] # NULL THEN swap[swap_index[pg]] = expect[pg]
         ELSE mem[pml4[pg]] = expect[pg]
    /\ dirty[pg] => pml4[pg] # NULL /\ mem[pml4[pg]] = "stored"
    /\ init[pg] = "file" => pg[2] \in Map

Copying(c) == pc[c] \in {"copy", "memcpy"} \/ (pc[c] \in Claiming /\ cause[c] = "copy")
ForkOf(c) ==
  Copying(c) =>
    /\ parent[c] \in Proc /\ pc[parent[c]] = "forking"
    /\ \A d \in Proc : d # c /\ Copying(d) => parent[d] # parent[c]

ClaimInv == \A p \in Proc : ClaimOf(p)
HeldInv == (\A p \in Proc : HeldOf(p)) /\ Unallocated
MapInv == \A pg \in Page : MapOf(pg)
EmptyInv == \A pg \in Page : EmptyOf(pg)
SwapInv == \A pg \in Page : SwapOf(pg)
SlotInv == \A p \in Proc : SlotOf(p)
VictimInv == \A p \in Proc : \A pg \in Page : VictimOf(p, pg)
ContentInv == \A pg \in Page : ContentOf(pg)
ForkInv == \A c \in Proc : ForkOf(c)

Strong ==
  /\ ClaimInv /\ HeldInv /\ FrameInv /\ MapInv /\ EmptyInv
  /\ SwapInv /\ SlotInv /\ VictimInv /\ ContentInv /\ ForkInv

(* A step that does not end an address space keeps a store, in its page or *)
(* in the file.                                                            *)
StoresKept ==
  \A pg \in Page : Pending(pg) =>
    \/ Pending(pg)' \/ file' = "stored"
    \/ pc[pg[1]] = "kill" /\ (deny_write # {} \/ file' = "any")

VMInv == TypeOK /\ (Sound => Strong)

-------------------------------------------------------------------------------
(* What the actions look for and change. *)

(* A nonempty set of naturals has a least element, and Min is it. *)
LEMMA MinIsThere ==
  ASSUME NEW S, S \subseteq Nat, S # {}
  PROVE  Min(S) \in S
<1> DEFINE R == {p \in Nat \X Nat : p[1] < p[2]}
<1>1. IsWellFoundedOn(R, Nat)
  <2>1. R = OpToRel(<, Nat)
    BY DEF OpToRel
  <2> QED BY <2>1, NatLessThanWellFounded, Zenon
<1>2. PICK x \in S : \A y \in S : ~ (<< y, x >> \in R)
  <2> HIDE DEF R
  <2> QED BY <1>1, WFMin, Zenon
<1>3. \A y \in S : x =< y
  <2> SUFFICES ASSUME NEW y \in S PROVE ~ (y < x)
    OBVIOUS
  <2>1. << y, x >> \in Nat \X Nat /\ << y, x >>[1] = y /\ << y, x >>[2] = x
    OBVIOUS
  <2> QED BY <1>2, <2>1
<1> QED
  BY <1>3 DEF Min

(* A page is its process and its number. *)
LEMMA Pages ==
  /\ \A pg \in Page : pg[1] \in Proc /\ pg[2] \in Va /\ pg = << pg[1], pg[2] >>
  /\ \A p \in Proc, v \in Va : << p, v >> \in Page /\ << p, v >>[1] = p /\ << p, v >>[2] = v
BY DEF Page

(* The process of a page. *)
LEMMA Owners == \A pg \in Page : pg[1] \in Proc
BY DEF Page

(* The null pointers are not what they point to. *)
LEMMA Nulls ==
  /\ NULL \notin Page /\ DANGLING \notin Page /\ DANGLING # NULL
  /\ NULL \notin Frame /\ NULL \notin Kva /\ NULL \notin Slot /\ NULL \notin Proc
BY VMAssumption DEF Page

(* The variables that are functions. *)
LEMMA Types ==
  TypeOK => /\ pc \in [Proc -> PC] /\ claim \in [Proc -> Page \cup {NULL}]
            /\ got \in [Proc -> Frame \cup {NULL}] /\ slot \in [Proc -> Slot \cup {NULL}]
            /\ parent \in [Proc -> Proc \cup {NULL}]
            /\ frame \in [Page -> Frame \cup {NULL}]
            /\ swap_index \in [Page -> Slot \cup {NULL}]
            /\ fkva \in [Frame -> Kva \cup {NULL}]
            /\ fpage \in [Frame -> Page \cup {NULL, DANGLING}]
            /\ pml4 \in [Page -> Kva \cup {NULL}]
BY DEF TypeOK

(* palloc_get_page finds a page of the pool when there is one. *)
LEMMA FreePage == TypeOK /\ used # Kva => Min(Kva \ used) \in Kva \ used
<1> SUFFICES ASSUME TypeOK, used # Kva PROVE Min(Kva \ used) \in Kva \ used
  OBVIOUS
<1>1. used \subseteq Kva
  BY DEF TypeOK
<1>2. Kva \ used # {} /\ Kva \ used \subseteq Nat
  BY <1>1, VMAssumption
<1> QED BY <1>2, MinIsThere

(* bitmap_scan finds a slot when there is one. *)
LEMMA FreeSlot == TypeOK /\ Slot \ swap_table # {} => Min(Slot \ swap_table) \in Slot \ swap_table
<1> SUFFICES ASSUME TypeOK, Slot \ swap_table # {}
             PROVE Min(Slot \ swap_table) \in Slot \ swap_table
  OBVIOUS
<1>1. Slot \ swap_table \subseteq Nat
  BY VMAssumption
<1> QED BY <1>1, MinIsThere

(* The frame list without its head has every frame once. *)
LEMMA TailKept ==
  ASSUME frame_list \in Seq(Frame), IsInjective(frame_list), frame_list # << >>
  PROVE  Tail(frame_list) \in Seq(Frame) /\ IsInjective(Tail(frame_list))
<1>1. /\ Tail(frame_list) \in Seq(Frame) /\ Len(frame_list) \in Nat
      /\ Len(Tail(frame_list)) = Len(frame_list) - 1
      /\ DOMAIN Tail(frame_list) = 1 .. Len(frame_list) - 1
      /\ \A i \in 1 .. Len(frame_list) - 1 :
           Tail(frame_list)[i] = frame_list[i + 1] /\ i + 1 \in DOMAIN frame_list
  OBVIOUS
<1> QED BY <1>1 DEF IsInjective

(* The frame list with one frame more has every frame once. *)
LEMMA AppendKept ==
  ASSUME frame_list \in Seq(Frame), IsInjective(frame_list), NEW f \in Frame,
         \A i \in 1 .. Len(frame_list) : frame_list[i] # f
  PROVE  Append(frame_list, f) \in Seq(Frame) /\ IsInjective(Append(frame_list, f))
<1>1. /\ Append(frame_list, f) \in Seq(Frame) /\ Len(frame_list) \in Nat
      /\ DOMAIN Append(frame_list, f) = 1 .. Len(frame_list) + 1
      /\ DOMAIN frame_list = 1 .. Len(frame_list)
      /\ Append(frame_list, f)[Len(frame_list) + 1] = f
      /\ \A i \in 1 .. Len(frame_list) : Append(frame_list, f)[i] = frame_list[i]
  OBVIOUS
<1>2. \A i \in 1 .. Len(frame_list) + 1 : i \in 1 .. Len(frame_list) \/ i = Len(frame_list) + 1
  BY <1>1
<1> QED BY <1>1, <1>2 DEF IsInjective

(* The frame of a page has a page of the pool. *)
LEMMA LoadedFrame ==
  ASSUME TypeOK, Strong, NEW pg \in Page, frame[pg] # NULL
  PROVE  frame[pg] \in Frame /\ fkva[frame[pg]] \in Kva /\ mem[fkva[frame[pg]]] \in Content
<1>1. frame[pg] \in Frame /\ fpage[frame[pg]] = pg
  BY DEF TypeOK, Strong, FrameInv
<1>2. fkva[frame[pg]] # NULL
  BY <1>1, Nulls DEF Strong, HeldInv, Unallocated
<1>3. fkva[frame[pg]] \in Kva
  BY <1>1, <1>2 DEF TypeOK
<1> QED BY <1>1, <1>3 DEF TypeOK

-------------------------------------------------------------------------------
(* The variables stay in their types. *)

(* The content stored to is that of a page of the pool. *)
LEMMA StoreTypes ==
  ASSUME TypeOK, Strong, NEW p \in Proc, NEW v \in Va, Store(p, v)
  PROVE  TypeOK'
<1>1. /\ pc' = pc /\ cause' = cause /\ claim' = claim /\ got' = got /\ slot' = slot
      /\ parent' = parent /\ ops' = ops /\ init' = init /\ frame' = frame
      /\ swap_index' = swap_index /\ fkva' = fkva /\ fpage' = fpage
      /\ frame_list' = frame_list /\ pml4' = pml4 /\ used' = used /\ swap_table' = swap_table
      /\ swap' = swap /\ file' = file /\ broken' = broken /\ panic' = panic
      /\ deny_write' = deny_write
  BY DEF Store, At, procs, locals, pages, frames
<1>2. << p, v >> \in Page /\ v \in Va
    BY Pages
<1>3. mem' \in [Kva -> Content]
  BY <1>2 DEF Store, Content, TypeOK, procs, locals, pages, frames
<1>4. dirty' \in [Page -> BOOLEAN]
  BY <1>2 DEF Store, Content, TypeOK, procs, locals, pages, frames
<1>5. expect' \in [Page -> Content]
  BY <1>2 DEF Store, Content, TypeOK, procs, locals, pages, frames
<1> QED BY <1>1, <1>3, <1>4, <1>5 DEF TypeOK

(* The page touched is a page, entered or not. *)
LEMMA FaultTypes ==
  ASSUME TypeOK, Strong, NEW p \in Proc, NEW v \in Va, Fault(p, v)
  PROVE  TypeOK'
<1>1. /\ got' = got /\ slot' = slot /\ parent' = parent /\ swap_index' = swap_index
      /\ fkva' = fkva /\ fpage' = fpage /\ frame_list' = frame_list /\ pml4' = pml4
      /\ dirty' = dirty /\ used' = used /\ mem' = mem /\ swap_table' = swap_table
      /\ swap' = swap /\ file' = file /\ expect' = expect /\ broken' = broken
      /\ panic' = panic
      /\ deny_write' = deny_write
  BY DEF Fault, At, Alloc, StartClaim, Goto, pages, frames, memory, tables, store, health
<1>2. << p, v >> \in Page /\ v \in Va
    BY Pages
<1>3. ops' \in [Page -> {"none", "uninit", "anon", "file"}]
  <2> DEFINE mine == << p, v >>
  <2>1. mine \in Page
    BY <1>2
  <2> HIDE DEF mine
  <2>2. ops' = IF ops[mine] = "none" THEN [ops EXCEPT ![mine] = "uninit"] ELSE ops
    BY DEF Fault, Alloc, pages, mine
  <2> QED BY <2>1, <2>2 DEF TypeOK
<1>4. init' \in [Page -> {"segment", "null", "file", "copy"}]
  <2> DEFINE mine == << p, v >>
  <2>1. mine \in Page
    BY <1>2
  <2> HIDE DEF mine
  <2>2. init' = IF ops[mine] = "none" THEN [init EXCEPT ![mine] = "null"] ELSE init
    BY DEF Fault, Alloc, pages, mine
  <2> QED BY <2>1, <2>2 DEF TypeOK
<1>5. frame' \in [Page -> Frame \cup {NULL}]
  <2> DEFINE mine == << p, v >>
  <2>1. mine \in Page
    BY <1>2
  <2> HIDE DEF mine
  <2>2. frame' = IF ops[mine] = "none" THEN [frame EXCEPT ![mine] = NULL] ELSE frame
    BY DEF Fault, Alloc, pages, mine
  <2> QED BY <2>1, <2>2 DEF TypeOK
<1>6. pc' \in [Proc -> PC]
  <2>1. pc' = [pc EXCEPT ![p] = "get_frame"]
    BY DEF Fault, StartClaim, Goto
  <2> QED BY <2>1 DEF TypeOK, PC
<1>7. claim' \in [Proc -> Page \cup {NULL}]
  BY <1>2
     DEF Fault, Alloc, StartClaim, Goto, PC, TypeOK, pages, frames, memory, tables, store,
         health
<1>8. cause' \in [Proc -> {"exec", "exit", "grow", "fault", "copy"}]
  BY <1>2
     DEF Fault, Alloc, StartClaim, Goto, PC, TypeOK, pages, frames, memory, tables, store,
         health
<1> QED BY <1>1, <1>3, <1>4, <1>5, <1>6, <1>7, <1>8 DEF TypeOK

(* Only the counter and the cause change. *)
LEMMA LeaveTypes ==
  ASSUME TypeOK, Strong, NEW p \in Proc, NEW c \in {"exit", "exec"}, Leave(p, c)
  PROVE  TypeOK'
<1>1. /\ claim' = claim /\ got' = got /\ slot' = slot /\ parent' = parent /\ ops' = ops
      /\ init' = init /\ frame' = frame /\ swap_index' = swap_index /\ fkva' = fkva
      /\ fpage' = fpage /\ frame_list' = frame_list /\ pml4' = pml4 /\ dirty' = dirty
      /\ used' = used /\ mem' = mem /\ swap_table' = swap_table /\ swap' = swap
      /\ file' = file /\ expect' = expect /\ broken' = broken /\ panic' = panic
      /\ deny_write' = deny_write
  BY DEF Leave, At, Goto, pages, frames, memory, tables, store, health
<1>2. pc' \in [Proc -> PC]
  BY DEF Leave, Goto, PC, TypeOK, pages, frames, memory, tables, store, health
<1>3. cause' \in [Proc -> {"exec", "exit", "grow", "fault", "copy"}]
  BY DEF Leave, Goto, PC, TypeOK, pages, frames, memory, tables, store, health
<1> QED BY <1>1, <1>2, <1>3 DEF TypeOK

(* A page is entered. *)
LEMMA MmapTypes ==
  ASSUME TypeOK, Strong, NEW p \in Proc, NEW v \in Va, Mmap(p, v)
  PROVE  TypeOK'
<1>1. /\ pc' = pc /\ cause' = cause /\ claim' = claim /\ got' = got /\ slot' = slot
      /\ parent' = parent /\ swap_index' = swap_index /\ fkva' = fkva /\ fpage' = fpage
      /\ frame_list' = frame_list /\ pml4' = pml4 /\ dirty' = dirty /\ used' = used
      /\ mem' = mem /\ swap_table' = swap_table /\ swap' = swap /\ file' = file
      /\ expect' = expect /\ broken' = broken /\ panic' = panic
      /\ deny_write' = deny_write
  BY DEF Mmap, At, Alloc, procs, locals, frames, memory, tables, store, health
<1>2. << p, v >> \in Page /\ v \in Va
    BY Pages
<1>3. ops' \in [Page -> {"none", "uninit", "anon", "file"}]
  BY <1>2 DEF Mmap, Alloc, TypeOK, procs, locals, frames, memory, tables, store, health
<1>4. init' \in [Page -> {"segment", "null", "file", "copy"}]
  BY <1>2 DEF Mmap, Alloc, TypeOK, procs, locals, frames, memory, tables, store, health
<1>5. frame' \in [Page -> Frame \cup {NULL}]
  BY <1>2 DEF Mmap, Alloc, TypeOK, procs, locals, frames, memory, tables, store, health
<1> QED BY <1>1, <1>3, <1>4, <1>5 DEF TypeOK

(* What goes to the file is in memory: a dirty page is mapped. *)
LEMMA MunmapTypes ==
  ASSUME TypeOK, Strong, NEW p \in Proc, NEW v \in Va, Munmap(p, v)
  PROVE  TypeOK'
<1>1. /\ pc' = pc /\ cause' = cause /\ claim' = claim /\ got' = got /\ slot' = slot
      /\ parent' = parent /\ ops' = ops /\ init' = init /\ frame' = frame
      /\ swap_index' = swap_index /\ fkva' = fkva /\ fpage' = fpage
      /\ frame_list' = frame_list /\ pml4' = pml4 /\ dirty' = dirty /\ used' = used
      /\ mem' = mem /\ swap_table' = swap_table /\ swap' = swap /\ expect' = expect
      /\ broken' = broken /\ panic' = panic
      /\ deny_write' = deny_write
  BY DEF Munmap, At, procs, locals, pages, frames, tables, health
<1>2. file' \in Content
  <2> DEFINE mine == << p, v >>
  <2>1. mine \in Page
    BY Pages
  <2> HIDE DEF mine
  <2>2. file' \in {file, "any"} \/ (WritesBack(mine) /\ file' = mem[pml4[mine]])
    BY DEF Munmap, FileAfter, mine
  <2>3. WritesBack(mine) => pml4[mine] \in Kva
    BY <2>1 DEF WritesBack, Strong, ContentInv, ContentOf, TypeOK
  <2> QED BY <2>1, <2>2, <2>3 DEF TypeOK, Content
<1> QED BY <1>1, <1>2 DEF TypeOK

(* The parent of a process is a process. *)
LEMMA ForkTypes ==
  ASSUME TypeOK, Strong, NEW p \in Proc, NEW c \in Proc, Fork(p, c)
  PROVE  TypeOK'
<1>1. /\ cause' = cause /\ claim' = claim /\ got' = got /\ slot' = slot /\ ops' = ops
      /\ init' = init /\ frame' = frame /\ swap_index' = swap_index /\ fkva' = fkva
      /\ fpage' = fpage /\ frame_list' = frame_list /\ pml4' = pml4 /\ dirty' = dirty
      /\ used' = used /\ mem' = mem /\ swap_table' = swap_table /\ swap' = swap
      /\ file' = file /\ expect' = expect /\ broken' = broken /\ panic' = panic
      /\ deny_write' = deny_write
  BY DEF Fork, At, pages, frames, memory, tables, store, health
<1>2. pc' \in [Proc -> PC]
  BY DEF Fork, PC, TypeOK, pages, frames, memory, tables, store, health
<1>3. parent' \in [Proc -> Proc \cup {NULL}]
  BY DEF Fork, PC, TypeOK, pages, frames, memory, tables, store, health
<1> QED BY <1>1, <1>2, <1>3 DEF TypeOK

(* What is free in the pool is a page of it. *)
LEMMA GetFrameTypes ==
  ASSUME TypeOK, Strong, NEW p \in Proc, GetFrame(p)
  PROVE  TypeOK'
<1>1. /\ cause' = cause /\ claim' = claim /\ slot' = slot /\ parent' = parent /\ ops' = ops
      /\ init' = init /\ frame' = frame /\ swap_index' = swap_index
      /\ frame_list' = frame_list /\ pml4' = pml4 /\ dirty' = dirty /\ mem' = mem
      /\ swap_table' = swap_table /\ swap' = swap /\ file' = file /\ expect' = expect
      /\ broken' = broken /\ panic' = panic
      /\ deny_write' = deny_write
  BY DEF GetFrame, At, Goto, pages, tables, store, health
<1>2. fkva' \in [Frame -> Kva \cup {NULL}]
  <2> DEFINE k == Min(Kva \ used)
  <2>1. CASE pc'[p] # "append"
    BY <2>1 DEF GetFrame, Goto, TypeOK
  <2>2. CASE pc'[p] = "append"
    <3>1. used # Kva /\ \E f : fkva' = [fkva EXCEPT ![f] = k]
      BY <2>2 DEF GetFrame, Goto, TypeOK
    <3>2. k \in Kva
      BY <3>1, FreePage
    <3> HIDE DEF k
    <3> QED BY <3>1, <3>2 DEF TypeOK
  <2> QED BY <2>1, <2>2
<1>3. fpage' \in [Frame -> Page \cup {NULL, DANGLING}]
  BY DEF GetFrame, TypeOK
<1>4. used' \subseteq Kva
  <2> DEFINE k == Min(Kva \ used)
  <2>1. CASE pc'[p] # "append"
    BY <2>1 DEF GetFrame, Goto, TypeOK
  <2>2. CASE pc'[p] = "append"
    <3>1. used # Kva /\ used' = used \cup {k}
      BY <2>2 DEF GetFrame, Goto, TypeOK
    <3>2. k \in Kva
      BY <3>1, FreePage
    <3> HIDE DEF k
    <3> QED BY <3>1, <3>2 DEF TypeOK
  <2> QED BY <2>1, <2>2
<1>5. got' \in [Proc -> Frame \cup {NULL}]
  BY FreePage DEF GetFrame, Goto, PC, TypeOK, pages, tables, store, health
<1>6. pc' \in [Proc -> PC]
  BY FreePage DEF GetFrame, Goto, PC, TypeOK, pages, tables, store, health
<1> QED BY <1>1, <1>2, <1>3, <1>4, <1>5, <1>6 DEF TypeOK

(* The list without its head. *)
LEMMA PopVictimTypes ==
  ASSUME TypeOK, Strong, NEW p \in Proc, PopVictim(p)
  PROVE  TypeOK'
<1>1. /\ cause' = cause /\ claim' = claim /\ slot' = slot /\ parent' = parent /\ ops' = ops
      /\ init' = init /\ frame' = frame /\ swap_index' = swap_index /\ fkva' = fkva
      /\ fpage' = fpage /\ pml4' = pml4 /\ dirty' = dirty /\ used' = used /\ mem' = mem
      /\ swap_table' = swap_table /\ swap' = swap /\ file' = file /\ expect' = expect
      /\ deny_write' = deny_write
  BY DEF PopVictim, At, Panic, Goto, procs, locals, pages, frames, memory, tables, store
<1>2. frame_list' \in Seq(Frame) /\ IsInjective(frame_list')
  <2>1. frame_list' = frame_list \/ (frame_list # << >> /\ frame_list' = Tail(frame_list))
    BY DEF PopVictim, Panic, frames
  <2> QED BY <2>1, TailKept DEF TypeOK
<1>3. got' \in [Proc -> Frame \cup {NULL}]
  BY DEF PopVictim, Goto, PC, Panic, MaybeTorn, At, TypeOK, procs, locals, pages, frames,
         memory, tables, store
<1>4. pc' \in [Proc -> PC]
  <2>1. pc' = pc \/ \E x \in {"write_back", "unlink", "scan"} : pc' = [pc EXCEPT ![p] = x]
    BY DEF PopVictim, Panic, procs, Goto
  <2> QED BY <2>1 DEF TypeOK, PC
<1>5. broken' \subseteq {"foreign", "slot", "list"}
  BY DEF PopVictim, Goto, PC, Panic, MaybeTorn, At, TypeOK, procs, locals, pages, frames,
         memory, tables, store
<1>6. panic' \in {"none", "no_victim", "unlinked_victim", "stale_victim", "uninit_victim",
                      "lost_victim", "swap_full", "swap_out_failed", "bad_file", "null_frame",
                      "unmapped_write_back"}
  BY DEF PopVictim, Goto, PC, Panic, MaybeTorn, At, TypeOK, procs, locals, pages, frames,
         memory, tables, store
<1> QED BY <1>1, <1>2, <1>3, <1>4, <1>5, <1>6 DEF TypeOK

(* What is free in the swap table is a slot. *)
LEMMA SwapScanTypes ==
  ASSUME TypeOK, Strong, NEW p \in Proc, SwapScan(p)
  PROVE  TypeOK'
<1>1. /\ cause' = cause /\ claim' = claim /\ got' = got /\ parent' = parent /\ ops' = ops
      /\ init' = init /\ frame' = frame /\ swap_index' = swap_index /\ fkva' = fkva
      /\ fpage' = fpage /\ frame_list' = frame_list /\ pml4' = pml4 /\ dirty' = dirty
      /\ used' = used /\ mem' = mem /\ swap_table' = swap_table /\ swap' = swap
      /\ file' = file /\ expect' = expect /\ broken' = broken
      /\ deny_write' = deny_write
  BY DEF SwapScan, At, Panic, Goto, procs, locals, pages, frames, memory, tables, store, health
<1>2. slot' \in [Proc -> Slot \cup {NULL}]
  BY FreeSlot
     DEF SwapScan, Goto, PC, Panic, At, TypeOK, procs, locals, pages, frames, memory, tables,
         store, health
<1>3. pc' \in [Proc -> PC]
  BY FreeSlot
     DEF SwapScan, Goto, PC, Panic, At, TypeOK, procs, locals, pages, frames, memory, tables,
         store, health
<1>4. panic' \in {"none", "no_victim", "unlinked_victim", "stale_victim", "uninit_victim",
                      "lost_victim", "swap_full", "swap_out_failed", "bad_file", "null_frame",
                      "unmapped_write_back"}
  BY FreeSlot
     DEF SwapScan, Goto, PC, Panic, At, TypeOK, procs, locals, pages, frames, memory, tables,
         store, health
<1> QED BY <1>1, <1>2, <1>3, <1>4 DEF TypeOK

(* The slot found is a slot. *)
LEMMA SwapFlipTypes ==
  ASSUME TypeOK, Strong, NEW p \in Proc, SwapFlip(p)
  PROVE  TypeOK'
<1>1. /\ cause' = cause /\ claim' = claim /\ got' = got /\ slot' = slot /\ parent' = parent
      /\ ops' = ops /\ init' = init /\ frame' = frame /\ swap_index' = swap_index
      /\ fkva' = fkva /\ fpage' = fpage /\ frame_list' = frame_list /\ pml4' = pml4
      /\ dirty' = dirty /\ used' = used /\ mem' = mem /\ swap' = swap /\ file' = file
      /\ expect' = expect /\ panic' = panic
      /\ deny_write' = deny_write
  BY DEF SwapFlip, At, Goto, locals, pages, frames, tables
<1>2. swap_table' \subseteq Slot
  BY DEF SwapFlip, Goto, PC, Strong, SlotInv, SlotOf, At, TypeOK, locals, pages, frames, tables
<1>3. broken' \subseteq {"foreign", "slot", "list"}
  BY DEF SwapFlip, Goto, PC, Strong, SlotInv, SlotOf, At, TypeOK, locals, pages, frames, tables
<1>4. pc' \in [Proc -> PC]
  BY DEF SwapFlip, Goto, PC, Strong, SlotInv, SlotOf, At, TypeOK, locals, pages, frames, tables
<1> QED BY <1>1, <1>2, <1>3, <1>4 DEF TypeOK

(* A panic. *)
LEMMA VictimLostTypes ==
  ASSUME TypeOK, Strong, NEW p \in Proc, VictimLost(p)
  PROVE  TypeOK'
<1>1. /\ pc' = pc /\ cause' = cause /\ claim' = claim /\ got' = got /\ slot' = slot
      /\ parent' = parent /\ ops' = ops /\ init' = init /\ frame' = frame
      /\ swap_index' = swap_index /\ fkva' = fkva /\ fpage' = fpage
      /\ frame_list' = frame_list /\ pml4' = pml4 /\ dirty' = dirty /\ used' = used
      /\ mem' = mem /\ swap_table' = swap_table /\ swap' = swap /\ file' = file
      /\ expect' = expect /\ broken' = broken
      /\ deny_write' = deny_write
  BY DEF VictimLost, At, Panic, procs, locals, pages, frames, memory, tables, store
<1>2. panic' \in {"none", "no_victim", "unlinked_victim", "stale_victim", "uninit_victim",
                      "lost_victim", "swap_full", "swap_out_failed", "bad_file", "null_frame",
                      "unmapped_write_back"}
  BY DEF VictimLost, Panic, TypeOK, procs, locals, pages, frames, memory, tables, store
<1> QED BY <1>1, <1>2 DEF TypeOK

(* What goes to the slot is in memory: the victim has a frame, which has a *)
(* page of the pool.                                                       *)
LEMMA SwapOutTypes ==
  ASSUME TypeOK, Strong, NEW p \in Proc, SwapOut(p)
  PROVE  TypeOK'
<1>1. /\ cause' = cause /\ claim' = claim /\ got' = got /\ slot' = slot /\ parent' = parent
      /\ ops' = ops /\ init' = init /\ frame' = frame /\ swap_index' = swap_index
      /\ fkva' = fkva /\ fpage' = fpage /\ frame_list' = frame_list /\ pml4' = pml4
      /\ dirty' = dirty /\ used' = used /\ mem' = mem /\ swap_table' = swap_table
      /\ file' = file /\ expect' = expect /\ broken' = broken /\ panic' = panic
      /\ deny_write' = deny_write
  BY DEF SwapOut, At, Goto, locals, pages, frames, tables, health
<1>2. swap' \in [Slot -> Content]
  <2>1. fpage[got[p]] \in Page /\ frame[fpage[got[p]]] # NULL
    BY DEF SwapOut, VictimIsLoaded, Victim
  <2>2. swap' = [swap EXCEPT ![slot[p]] = mem[fkva[frame[fpage[got[p]]]]]]
    BY DEF SwapOut, Victim
  <2> QED BY <2>1, <2>2, LoadedFrame DEF TypeOK
<1>3. pc' \in [Proc -> PC]
  BY DEF SwapOut, Goto, PC, VictimIsLoaded, Victim, TypeOK, locals, pages, frames, tables, health
<1> QED BY <1>1, <1>2, <1>3 DEF TypeOK

(* What goes to the file is in memory. *)
LEMMA WriteBackTypes ==
  ASSUME TypeOK, Strong, NEW p \in Proc, WriteBack(p)
  PROVE  TypeOK'
<1>1. /\ cause' = cause /\ claim' = claim /\ got' = got /\ slot' = slot /\ parent' = parent
      /\ ops' = ops /\ init' = init /\ frame' = frame /\ swap_index' = swap_index
      /\ fkva' = fkva /\ fpage' = fpage /\ frame_list' = frame_list /\ pml4' = pml4
      /\ dirty' = dirty /\ used' = used /\ mem' = mem /\ swap_table' = swap_table
      /\ swap' = swap /\ broken' = broken
      /\ deny_write' = deny_write
  BY DEF WriteBack, At, Panic, Goto, procs, locals, pages, frames, memory, tables, store
<1>2. file' \in Content
  <2>1. file' = file \/ (VictimIsLoaded(p) /\ file' = mem[fkva[frame[fpage[got[p]]]]])
    BY DEF WriteBack, Panic, Victim, memory, store
  <2> QED BY <2>1, LoadedFrame DEF TypeOK, VictimIsLoaded, Victim
<1>3. expect' \in [Page -> Content]
  <2>1. expect' = expect \/ expect' = [expect EXCEPT ![Victim(p)] = "any"]
    BY DEF WriteBack, Panic
  <2> QED BY <2>1 DEF TypeOK, Content
<1>4. pc' \in [Proc -> PC]
  BY DEF WriteBack, Goto, PC, VictimIsLoaded, Victim, Panic, At, TypeOK, procs, locals, pages,
         frames, memory, tables, store
<1>5. panic' \in {"none", "no_victim", "unlinked_victim", "stale_victim", "uninit_victim",
                      "lost_victim", "swap_full", "swap_out_failed", "bad_file", "null_frame",
                      "unmapped_write_back"}
  BY DEF WriteBack, Goto, PC, VictimIsLoaded, Victim, Panic, At, TypeOK, procs, locals, pages,
         frames, memory, tables, store
<1> QED BY <1>1, <1>2, <1>3, <1>4, <1>5 DEF TypeOK

(* The page gets the slot, or none. *)
LEMMA UnlinkTypes ==
  ASSUME TypeOK, Strong, NEW p \in Proc, Unlink(p)
  PROVE  TypeOK'
<1>1. /\ cause' = cause /\ claim' = claim /\ got' = got /\ parent' = parent /\ ops' = ops
      /\ init' = init /\ fkva' = fkva /\ frame_list' = frame_list /\ used' = used
      /\ mem' = mem /\ swap_table' = swap_table /\ swap' = swap /\ file' = file
      /\ expect' = expect /\ panic' = panic
      /\ deny_write' = deny_write
  BY DEF Unlink, At, Goto, store
<1>2. swap_index' \in [Page -> Slot \cup {NULL}]
  BY DEF Unlink, Goto, PC, TypeOK, store
<1>3. pml4' \in [Page -> Kva \cup {NULL}]
  BY DEF Unlink, Goto, PC, TypeOK, store
<1>4. dirty' \in [Page -> BOOLEAN]
  BY DEF Unlink, Goto, PC, TypeOK, store
<1>5. fpage' \in [Frame -> Page \cup {NULL, DANGLING}]
  BY DEF Unlink, Goto, PC, TypeOK, store
<1>6. frame' \in [Page -> Frame \cup {NULL}]
  BY DEF Unlink, Goto, PC, TypeOK, store
<1>7. broken' \subseteq {"foreign", "slot", "list"}
  BY DEF Unlink, Goto, PC, TypeOK, store
<1>8. pc' \in [Proc -> PC]
  BY DEF Unlink, Goto, PC, TypeOK, store
<1>9. slot' \in [Proc -> Slot \cup {NULL}]
  BY DEF Unlink, Goto, PC, TypeOK, store
<1> QED BY <1>1, <1>2, <1>3, <1>4, <1>5, <1>6, <1>7, <1>8, <1>9 DEF TypeOK

(* The list with a frame that it did not have. *)
LEMMA AppendFrameTypes ==
  ASSUME TypeOK, Strong, NEW p \in Proc, AppendFrame(p)
  PROVE  TypeOK'
<1>1. /\ cause' = cause /\ claim' = claim /\ got' = got /\ slot' = slot /\ parent' = parent
      /\ ops' = ops /\ init' = init /\ frame' = frame /\ swap_index' = swap_index
      /\ fkva' = fkva /\ fpage' = fpage /\ pml4' = pml4 /\ dirty' = dirty /\ used' = used
      /\ mem' = mem /\ swap_table' = swap_table /\ swap' = swap /\ file' = file
      /\ expect' = expect /\ panic' = panic
      /\ deny_write' = deny_write
  BY DEF AppendFrame, At, Goto, locals, pages, memory, tables, store
<1>2. frame_list' \in Seq(Frame) /\ IsInjective(frame_list')
  <2>1. got[p] \in Frame /\ \A i \in 1 .. Len(frame_list) : frame_list[i] # got[p]
    BY DEF AppendFrame, At, Strong, HeldInv, HeldOf, Holding
  <2> QED BY <2>1, AppendKept DEF AppendFrame, TypeOK
<1>3. broken' \subseteq {"foreign", "slot", "list"}
  BY DEF AppendFrame, Goto, PC, MaybeTorn, TypeOK, locals, pages, memory, tables, store
<1>4. pc' \in [Proc -> PC]
  BY DEF AppendFrame, Goto, PC, MaybeTorn, TypeOK, locals, pages, memory, tables, store
<1> QED BY <1>1, <1>2, <1>3, <1>4 DEF TypeOK

(* The entry gets the frame's page of the pool. *)
LEMMA LinkTypes ==
  ASSUME TypeOK, Strong, NEW p \in Proc, Link(p)
  PROVE  TypeOK'
<1>1. /\ slot' = slot /\ parent' = parent /\ ops' = ops /\ init' = init
      /\ swap_index' = swap_index /\ fkva' = fkva /\ frame_list' = frame_list /\ used' = used
      /\ mem' = mem /\ swap_table' = swap_table /\ swap' = swap /\ file' = file
      /\ expect' = expect /\ broken' = broken /\ panic' = panic
      /\ deny_write' = deny_write
  BY DEF Link, At, Goto, ClaimFails, tables, store, health
<1>2. fpage' \in [Frame -> Page \cup {NULL, DANGLING}]
  BY DEF Link, Goto, PC, ClaimFails, TypeOK, tables, store, health
<1>3. frame' \in [Page -> Frame \cup {NULL}]
  BY DEF Link, Goto, PC, ClaimFails, TypeOK, tables, store, health
<1>4. pml4' \in [Page -> Kva \cup {NULL}]
  <2>1. got[p] \in Frame
    BY DEF Link, At, Strong, HeldInv, HeldOf
  <2>2. pml4' = pml4 \/ pml4' = [pml4 EXCEPT ![claim[p]] = fkva[got[p]]]
    BY DEF Link, tables
  <2> QED BY <2>1, <2>2 DEF TypeOK
<1>5. dirty' \in [Page -> BOOLEAN]
  BY DEF Link, Goto, PC, ClaimFails, TypeOK, tables, store, health
<1>6. pc' \in [Proc -> PC]
  BY DEF Link, Goto, PC, ClaimFails, TypeOK, tables, store, health
<1>7. cause' \in [Proc -> {"exec", "exit", "grow", "fault", "copy"}]
  BY DEF Link, Goto, PC, ClaimFails, TypeOK, tables, store, health
<1>8. claim' \in [Proc -> Page \cup {NULL}]
  BY DEF Link, Goto, PC, ClaimFails, TypeOK, tables, store, health
<1>9. got' \in [Proc -> Frame \cup {NULL}]
  BY DEF Link, Goto, PC, ClaimFails, TypeOK, tables, store, health
<1> QED BY <1>1, <1>2, <1>3, <1>4, <1>5, <1>6, <1>7, <1>8, <1>9 DEF TypeOK

(* The first content is one. *)
LEMMA SwapInUninitTypes ==
  ASSUME TypeOK, Strong, NEW p \in Proc, SwapInUninit(p)
  PROVE  TypeOK'
<1>1. /\ slot' = slot /\ parent' = parent /\ init' = init /\ frame' = frame /\ fkva' = fkva
      /\ fpage' = fpage /\ frame_list' = frame_list /\ pml4' = pml4 /\ dirty' = dirty
      /\ used' = used /\ swap_table' = swap_table /\ swap' = swap /\ file' = file
      /\ broken' = broken /\ panic' = panic
      /\ deny_write' = deny_write
  BY DEF SwapInUninit, At, Goto, Returns, ClaimFails, frames, tables
<1>2. ops' \in [Page -> {"none", "uninit", "anon", "file"}]
  BY DEF SwapInUninit, Goto, PC, Returns, ClaimFails, Content, TypeOK, frames, tables
<1>3. swap_index' \in [Page -> Slot \cup {NULL}]
  BY DEF SwapInUninit, Goto, PC, Returns, ClaimFails, Content, TypeOK, frames, tables
<1>4. mem' \in [Kva -> Content]
  <2>1. claim[p] \in Page
    BY DEF SwapInUninit, At, Strong, ClaimInv, ClaimOf, Claiming
  <2>2. FirstContent(claim[p]) \in Content
    BY <2>1 DEF FirstContent, TypeOK, Content
  <2> QED BY <2>2 DEF SwapInUninit, TypeOK, Content
<1>5. expect' \in [Page -> Content]
  BY DEF SwapInUninit, Goto, PC, Returns, ClaimFails, Content, TypeOK, frames, tables
<1>6. pc' \in [Proc -> PC]
  BY DEF SwapInUninit, Goto, PC, Returns, ClaimFails, Content, TypeOK, frames, tables
<1>7. got' \in [Proc -> Frame \cup {NULL}]
  BY DEF SwapInUninit, Goto, PC, Returns, ClaimFails, Content, TypeOK, frames, tables
<1>8. cause' \in [Proc -> {"exec", "exit", "grow", "fault", "copy"}]
  BY DEF SwapInUninit, Goto, PC, Returns, ClaimFails, Content, TypeOK, frames, tables
<1>9. claim' \in [Proc -> Page \cup {NULL}]
  BY DEF SwapInUninit, Goto, PC, Returns, ClaimFails, Content, TypeOK, frames, tables
<1> QED BY <1>1, <1>2, <1>3, <1>4, <1>5, <1>6, <1>7, <1>8, <1>9 DEF TypeOK

(* What comes from a slot is a content. *)
LEMMA SwapInAnonTypes ==
  ASSUME TypeOK, Strong, NEW p \in Proc, SwapInAnon(p)
  PROVE  TypeOK'
<1>1. /\ slot' = slot /\ parent' = parent /\ ops' = ops /\ init' = init /\ frame' = frame
      /\ fkva' = fkva /\ fpage' = fpage /\ frame_list' = frame_list /\ pml4' = pml4
      /\ dirty' = dirty /\ used' = used /\ file' = file /\ expect' = expect
      /\ broken' = broken /\ panic' = panic
      /\ deny_write' = deny_write
  BY DEF SwapInAnon, At, Goto, Returns, frames, tables, health
<1>2. mem' \in [Kva -> Content]
  <2>1. claim[p] \in Page
    BY DEF SwapInAnon, At, Strong, ClaimInv, ClaimOf, Claiming
  <2>2. (IF swap_index[claim[p]] = NULL THEN "zero" ELSE swap[swap_index[claim[p]]]) \in Content
    BY <2>1 DEF TypeOK, Content
  <2> QED BY <2>2 DEF SwapInAnon, TypeOK
<1>3. swap_table' \subseteq Slot
  BY DEF SwapInAnon, Goto, PC, Returns, TypeOK, frames, tables, health
<1>4. swap' \in [Slot -> Content]
  BY DEF SwapInAnon, TypeOK, Content
<1>5. swap_index' \in [Page -> Slot \cup {NULL}]
  BY DEF SwapInAnon, Goto, PC, Returns, TypeOK, frames, tables, health
<1>6. pc' \in [Proc -> PC]
  BY DEF SwapInAnon, Goto, PC, Returns, TypeOK, frames, tables, health
<1>7. got' \in [Proc -> Frame \cup {NULL}]
  BY DEF SwapInAnon, Goto, PC, Returns, TypeOK, frames, tables, health
<1>8. cause' \in [Proc -> {"exec", "exit", "grow", "fault", "copy"}]
  BY DEF SwapInAnon, Goto, PC, Returns, TypeOK, frames, tables, health
<1>9. claim' \in [Proc -> Page \cup {NULL}]
  BY DEF SwapInAnon, Goto, PC, Returns, TypeOK, frames, tables, health
<1> QED BY <1>1, <1>2, <1>3, <1>4, <1>5, <1>6, <1>7, <1>8, <1>9 DEF TypeOK

(* What comes from the file is a content. *)
LEMMA SwapInFileTypes ==
  ASSUME TypeOK, Strong, NEW p \in Proc, SwapInFile(p)
  PROVE  TypeOK'
<1>1. /\ slot' = slot /\ parent' = parent /\ ops' = ops /\ init' = init /\ frame' = frame
      /\ swap_index' = swap_index /\ fkva' = fkva /\ fpage' = fpage
      /\ frame_list' = frame_list /\ pml4' = pml4 /\ dirty' = dirty /\ used' = used
      /\ swap_table' = swap_table /\ swap' = swap /\ file' = file /\ expect' = expect
      /\ broken' = broken /\ panic' = panic
      /\ deny_write' = deny_write
  BY DEF SwapInFile, At, Goto, Returns, ClaimFails, pages, frames, tables, health
<1>2. mem' \in [Kva -> Content]
  BY DEF SwapInFile, Goto, PC, Returns, ClaimFails, Content, TypeOK, pages, frames, tables, health
<1>3. pc' \in [Proc -> PC]
  BY DEF SwapInFile, Goto, PC, Returns, ClaimFails, Content, TypeOK, pages, frames, tables, health
<1>4. got' \in [Proc -> Frame \cup {NULL}]
  BY DEF SwapInFile, Goto, PC, Returns, ClaimFails, Content, TypeOK, pages, frames, tables, health
<1>5. cause' \in [Proc -> {"exec", "exit", "grow", "fault", "copy"}]
  BY DEF SwapInFile, Goto, PC, Returns, ClaimFails, Content, TypeOK, pages, frames, tables, health
<1>6. claim' \in [Proc -> Page \cup {NULL}]
  BY DEF SwapInFile, Goto, PC, Returns, ClaimFails, Content, TypeOK, pages, frames, tables, health
<1> QED BY <1>1, <1>2, <1>3, <1>4, <1>5, <1>6 DEF TypeOK

(* The child's page is a page. *)
LEMMA CopyPageTypes ==
  ASSUME TypeOK, Strong, NEW p \in Proc, NEW v \in Va, CopyPage(p, v)
  PROVE  TypeOK'
<1>1. /\ got' = got /\ slot' = slot /\ parent' = parent /\ swap_index' = swap_index
      /\ fkva' = fkva /\ fpage' = fpage /\ frame_list' = frame_list /\ pml4' = pml4
      /\ dirty' = dirty /\ used' = used /\ mem' = mem /\ swap_table' = swap_table
      /\ swap' = swap /\ file' = file /\ expect' = expect /\ broken' = broken
      /\ deny_write' = deny_write
  BY DEF CopyPage, At, Panic, Alloc, StartClaim, Goto, procs, locals, pages, frames, memory,
         tables, store, health
<1>2. << p, v >> \in Page /\ v \in Va
    BY Pages
<1>3. ops' \in [Page -> {"none", "uninit", "anon", "file"}]
  <2>1. ops' = ops \/ ops' = [ops EXCEPT ![<< p, v >>] = "uninit"]
    BY DEF CopyPage, Alloc, Panic, pages
  <2> QED BY <1>2, <2>1 DEF TypeOK
<1>4. init' \in [Page -> {"segment", "null", "file", "copy"}]
  BY <1>2
     DEF CopyPage, Alloc, StartClaim, Goto, PC, CopyInit, Panic, At, TypeOK, procs, locals,
         pages, frames, memory, tables, store, health
<1>5. frame' \in [Page -> Frame \cup {NULL}]
  BY <1>2
     DEF CopyPage, Alloc, StartClaim, Goto, PC, CopyInit, Panic, At, TypeOK, procs, locals,
         pages, frames, memory, tables, store, health
<1>6. pc' \in [Proc -> PC]
  BY <1>2
     DEF CopyPage, Alloc, StartClaim, Goto, PC, CopyInit, Panic, At, TypeOK, procs, locals,
         pages, frames, memory, tables, store, health
<1>7. claim' \in [Proc -> Page \cup {NULL}]
  BY <1>2
     DEF CopyPage, Alloc, StartClaim, Goto, PC, CopyInit, Panic, At, TypeOK, procs, locals,
         pages, frames, memory, tables, store, health
<1>8. cause' \in [Proc -> {"exec", "exit", "grow", "fault", "copy"}]
  BY <1>2
     DEF CopyPage, Alloc, StartClaim, Goto, PC, CopyInit, Panic, At, TypeOK, procs, locals,
         pages, frames, memory, tables, store, health
<1>9. panic' \in {"none", "no_victim", "unlinked_victim", "stale_victim", "uninit_victim",
                      "lost_victim", "swap_full", "swap_out_failed", "bad_file", "null_frame",
                      "unmapped_write_back"}
  BY <1>2
     DEF CopyPage, Alloc, StartClaim, Goto, PC, CopyInit, Panic, At, TypeOK, procs, locals,
         pages, frames, memory, tables, store, health
<1> QED BY <1>1, <1>3, <1>4, <1>5, <1>6, <1>7, <1>8, <1>9 DEF TypeOK

(* The parent's page is a page, and its frame has a page of the pool. *)
LEMMA MemCpyTypes ==
  ASSUME TypeOK, Strong, NEW p \in Proc, MemCpy(p)
  PROVE  TypeOK'
<1>1. /\ cause' = cause /\ claim' = claim /\ got' = got /\ slot' = slot /\ parent' = parent
      /\ ops' = ops /\ init' = init /\ frame' = frame /\ swap_index' = swap_index
      /\ fkva' = fkva /\ fpage' = fpage /\ frame_list' = frame_list /\ pml4' = pml4
      /\ dirty' = dirty /\ used' = used /\ swap_table' = swap_table /\ swap' = swap
      /\ file' = file /\ broken' = broken
      /\ deny_write' = deny_write
  BY DEF MemCpy, At, Panic, Goto, procs, locals, pages, frames, memory, tables, store
<1>2. mem' \in [Kva -> Content]
  <2> DEFINE c == claim[p]
             src == << parent[p], c[2] >>
  <2>1. mem' = mem \/ (frame[src] # NULL
            /\ mem' = [mem EXCEPT ![fkva[frame[c]]] = mem[fkva[frame[src]]]])
    BY DEF MemCpy, Panic, memory, store
  <2>2. pc[p] = "memcpy"
    BY DEF MemCpy, At
  <2>3. c \in Page /\ parent[p] \in Proc
    BY <2>2 DEF Strong, ClaimInv, ClaimOf, ForkInv, ForkOf, Copying
  <2>4. src \in Page
    BY <2>3, Pages
  <2> HIDE DEF src, c
  <2> QED BY <2>1, <2>4, LoadedFrame DEF TypeOK, Content
<1>3. expect' \in [Page -> Content]
  <2> DEFINE c == claim[p]
             src == << parent[p], c[2] >>
  <2>1. expect' = expect \/ (\E x \in {expect[src], "any"} : expect' = [expect EXCEPT ![c] = x])
    BY DEF MemCpy, Panic, memory, store
  <2>2. pc[p] = "memcpy"
    BY DEF MemCpy, At
  <2>3. c \in Page /\ parent[p] \in Proc
    BY <2>2 DEF Strong, ClaimInv, ClaimOf, ForkInv, ForkOf, Copying
  <2>4. src \in Page
    BY <2>3, Pages
  <2> HIDE DEF src, c
  <2> QED BY <2>1, <2>4, LoadedFrame DEF TypeOK, Content
<1>4. pc' \in [Proc -> PC]
  BY DEF MemCpy, Goto, PC, Panic, At, TypeOK, procs, locals, pages, frames, memory, tables, store
<1>5. panic' \in {"none", "no_victim", "unlinked_victim", "stale_victim", "uninit_victim",
                      "lost_victim", "swap_full", "swap_out_failed", "bad_file", "null_frame",
                      "unmapped_write_back"}
  BY DEF MemCpy, Goto, PC, Panic, At, TypeOK, procs, locals, pages, frames, memory, tables, store
<1> QED BY <1>1, <1>2, <1>3, <1>4, <1>5 DEF TypeOK

(* Both run on. *)
LEMMA CopyDoneTypes ==
  ASSUME TypeOK, Strong, NEW p \in Proc, CopyDone(p)
  PROVE  TypeOK'
<1>1. /\ got' = got /\ slot' = slot /\ parent' = parent /\ ops' = ops /\ init' = init
      /\ frame' = frame /\ swap_index' = swap_index /\ fkva' = fkva /\ fpage' = fpage
      /\ frame_list' = frame_list /\ pml4' = pml4 /\ dirty' = dirty /\ used' = used
      /\ mem' = mem /\ swap_table' = swap_table /\ swap' = swap /\ file' = file
      /\ expect' = expect /\ broken' = broken /\ panic' = panic
      /\ deny_write' = deny_write
  BY DEF CopyDone, At, pages, frames, memory, tables, store, health
<1>2. pc' \in [Proc -> PC]
  BY DEF CopyDone, PC, TypeOK, pages, frames, memory, tables, store, health
<1>3. cause' \in [Proc -> {"exec", "exit", "grow", "fault", "copy"}]
  BY DEF CopyDone, PC, TypeOK, pages, frames, memory, tables, store, health
<1>4. claim' \in [Proc -> Page \cup {NULL}]
  BY DEF CopyDone, PC, TypeOK, pages, frames, memory, tables, store, health
<1> QED BY <1>1, <1>2, <1>3, <1>4 DEF TypeOK

(* The pages are forgotten. *)
LEMMA KillPagesTypes ==
  ASSUME TypeOK, Strong, NEW p \in Proc, KillPages(p)
  PROVE  TypeOK'
<1>1. /\ cause' = cause /\ claim' = claim /\ got' = got /\ slot' = slot /\ parent' = parent
      /\ fkva' = fkva /\ frame_list' = frame_list /\ pml4' = pml4 /\ dirty' = dirty
      /\ used' = used /\ mem' = mem /\ swap_table' = swap_table /\ swap' = swap
      /\ broken' = broken
      /\ deny_write' = deny_write
  BY DEF KillPages, At, Panic, Goto, procs, locals, pages, frames, memory, tables, store
<1>2. file' \in Content
  <2> DEFINE written == { pg \in Own(p) : WritesBack(pg) }
  <2>1. \/ file' \in {file, "any"}
        \/ \E pg \in written : pml4[pg] # NULL /\ file' = mem[pml4[pg]]
    BY DEF KillPages, FileAfter, Panic, memory, store
  <2>2. written \subseteq Page
    BY DEF Own
  <2> HIDE DEF written
  <2> QED BY <2>1, <2>2 DEF TypeOK, Content
<1>3. ops' \in [Page -> {"none", "uninit", "anon", "file"}]
  BY DEF KillPages, Goto, PC, Forget, Panic, At, TypeOK, procs, locals, pages, frames, memory,
         tables, store
<1>4. init' \in [Page -> {"segment", "null", "file", "copy"}]
  BY DEF KillPages, Goto, PC, Forget, Panic, At, TypeOK, procs, locals, pages, frames, memory,
         tables, store
<1>5. frame' \in [Page -> Frame \cup {NULL}]
  BY DEF KillPages, Goto, PC, Forget, Panic, At, TypeOK, procs, locals, pages, frames, memory,
         tables, store
<1>6. swap_index' \in [Page -> Slot \cup {NULL}]
  BY DEF KillPages, Goto, PC, Forget, Panic, At, TypeOK, procs, locals, pages, frames, memory,
         tables, store
<1>7. expect' \in [Page -> Content]
  BY DEF KillPages, Forget, Panic, TypeOK, Content
<1>8. fpage' \in [Frame -> Page \cup {NULL, DANGLING}]
  BY DEF KillPages, Goto, PC, Forget, Panic, At, TypeOK, procs, locals, pages, frames, memory,
         tables, store
<1>9. pc' \in [Proc -> PC]
  BY DEF KillPages, Goto, PC, Forget, Panic, At, TypeOK, procs, locals, pages, frames, memory,
         tables, store
<1>10. panic' \in {"none", "no_victim", "unlinked_victim", "stale_victim", "uninit_victim",
                      "lost_victim", "swap_full", "swap_out_failed", "bad_file", "null_frame",
                      "unmapped_write_back"}
  BY DEF KillPages, Goto, PC, Forget, Panic, At, TypeOK, procs, locals, pages, frames, memory,
         tables, store
<1> QED BY <1>1, <1>2, <1>3, <1>4, <1>5, <1>6, <1>7, <1>8, <1>9, <1>10 DEF TypeOK

(* The pool gets back what was mapped. *)
LEMMA DestroyPml4Types ==
  ASSUME TypeOK, Strong, NEW p \in Proc, DestroyPml4(p)
  PROVE  TypeOK'
<1>1. /\ cause' = cause /\ claim' = claim /\ got' = got /\ slot' = slot /\ parent' = parent
      /\ ops' = ops /\ init' = init /\ frame' = frame /\ swap_index' = swap_index
      /\ fkva' = fkva /\ fpage' = fpage /\ frame_list' = frame_list
      /\ swap_table' = swap_table /\ swap' = swap /\ file' = file /\ expect' = expect
      /\ broken' = broken /\ panic' = panic
      /\ deny_write' = deny_write
  BY DEF DestroyPml4, At, Goto, locals, pages, frames, health
<1>2. used' \subseteq Kva
  BY DEF DestroyPml4, Goto, PC, Forget, Content, TypeOK, locals, pages, frames, health
<1>3. pml4' \in [Page -> Kva \cup {NULL}]
  BY DEF DestroyPml4, Goto, PC, Forget, Content, TypeOK, locals, pages, frames, health
<1>4. dirty' \in [Page -> BOOLEAN]
  BY DEF DestroyPml4, Goto, PC, Forget, Content, TypeOK, locals, pages, frames, health
<1>5. mem' \in [Kva -> Content]
  BY DEF DestroyPml4, Goto, PC, Forget, Content, TypeOK, locals, pages, frames, health
<1>6. pc' \in [Proc -> PC]
  BY DEF DestroyPml4, Goto, PC, Forget, Content, TypeOK, locals, pages, frames, health
<1> QED BY <1>1, <1>2, <1>3, <1>4, <1>5, <1>6 DEF TypeOK

(* The top of the stack is a page. *)
LEMMA LoadTypes ==
  ASSUME TypeOK, Strong, NEW p \in Proc, Load(p)
  PROVE  TypeOK'
<1>1. /\ got' = got /\ slot' = slot /\ parent' = parent /\ frame' = frame
      /\ swap_index' = swap_index /\ fkva' = fkva /\ fpage' = fpage
      /\ frame_list' = frame_list /\ pml4' = pml4 /\ dirty' = dirty /\ used' = used
      /\ mem' = mem /\ swap_table' = swap_table /\ swap' = swap /\ file' = file
      /\ expect' = expect /\ broken' = broken /\ panic' = panic
  BY DEF Load, At, StartClaim, Goto, frames, memory, tables, store, health
<1>2. ops' \in [Page -> {"none", "uninit", "anon", "file"}]
  BY DEF Load, Goto, PC, StartClaim, FreshOps, FreshInit, TypeOK, frames, memory, tables, store,
         health
<1>3. init' \in [Page -> {"segment", "null", "file", "copy"}]
  BY DEF Load, Goto, PC, StartClaim, FreshOps, FreshInit, TypeOK, frames, memory, tables, store,
         health
<1>4. pc' \in [Proc -> PC]
  BY DEF Load, Goto, PC, StartClaim, FreshOps, FreshInit, TypeOK, frames, memory, tables, store,
         health
<1>5. claim' \in [Proc -> Page \cup {NULL}]
  <2>1. << p, Top >> \in Page
    BY VMAssumption, Pages DEF Va
  <2> QED BY <2>1 DEF Load, StartClaim, TypeOK
<1>6. cause' \in [Proc -> {"exec", "exit", "grow", "fault", "copy"}]
  BY DEF Load, Goto, PC, StartClaim, FreshOps, FreshInit, TypeOK, frames, memory, tables, store,
         health
<1>7. deny_write' \subseteq Proc \cup {NULL}
  BY DEF Load, DenyWrite, TypeOK
<1> QED BY <1>1, <1>2, <1>3, <1>4, <1>5, <1>6, <1>7 DEF TypeOK

(* Only the counter and the cause change. *)
LEMMA LoadFailsTypes ==
  ASSUME TypeOK, Strong, NEW p \in Proc, LoadFails(p)
  PROVE  TypeOK'
<1>1. /\ claim' = claim /\ got' = got /\ slot' = slot /\ parent' = parent /\ ops' = ops
      /\ init' = init /\ frame' = frame /\ swap_index' = swap_index /\ fkva' = fkva
      /\ fpage' = fpage /\ frame_list' = frame_list /\ pml4' = pml4 /\ dirty' = dirty
      /\ used' = used /\ mem' = mem /\ swap_table' = swap_table /\ swap' = swap
      /\ file' = file /\ expect' = expect /\ broken' = broken /\ panic' = panic
      /\ deny_write' = deny_write
  BY DEF LoadFails, At, Goto, pages, frames, memory, tables, store, health
<1>2. pc' \in [Proc -> PC]
  BY DEF LoadFails, Goto, PC, TypeOK, pages, frames, memory, tables, store, health
<1>3. cause' \in [Proc -> {"exec", "exit", "grow", "fault", "copy"}]
  BY DEF LoadFails, Goto, PC, TypeOK, pages, frames, memory, tables, store, health
<1> QED BY <1>1, <1>2, <1>3 DEF TypeOK

(* One process less denies writing. *)
LEMMA CloseRunningTypes ==
  ASSUME TypeOK, Strong, NEW p \in Proc, CloseRunning(p)
  PROVE  TypeOK'
<1>1. /\ cause' = cause /\ claim' = claim /\ got' = got /\ slot' = slot /\ parent' = parent
      /\ ops' = ops /\ init' = init /\ frame' = frame /\ swap_index' = swap_index
      /\ fkva' = fkva /\ fpage' = fpage /\ frame_list' = frame_list /\ pml4' = pml4
      /\ dirty' = dirty /\ used' = used /\ mem' = mem /\ swap_table' = swap_table
      /\ swap' = swap /\ file' = file /\ expect' = expect /\ broken' = broken
      /\ panic' = panic
  BY DEF CloseRunning, At, Goto, locals, pages, frames, tables, health
<1>2. pc' \in [Proc -> PC]
  BY DEF CloseRunning, Goto, PC, TypeOK
<1>3. deny_write' \subseteq Proc \cup {NULL}
  BY DEF CloseRunning, TypeOK
<1> QED BY <1>1, <1>2, <1>3 DEF TypeOK

-------------------------------------------------------------------------------
(* The invariant, action by action. *)

(* A store goes to the page of the pool that the entry names; by MapOf no  *)
(* other page has that one.                                                *)
LEMMA StoreKeeps ==
  ASSUME TypeOK, Strong, NEW p \in Proc, NEW v \in Va, Store(p, v), panic' = panic, broken' = {}
  PROVE  Strong' /\ StoresKept
<1> DEFINE mine == << p, v >>
<1>1. /\ pc' = pc /\ cause' = cause /\ claim' = claim /\ got' = got /\ slot' = slot
      /\ parent' = parent /\ ops' = ops /\ init' = init /\ frame' = frame
      /\ swap_index' = swap_index /\ fkva' = fkva /\ fpage' = fpage
      /\ frame_list' = frame_list /\ pml4' = pml4 /\ used' = used /\ swap_table' = swap_table
      /\ swap' = swap /\ file' = file
  BY DEF Store, At, procs, locals, pages, frames
<1>2. /\ mine \in Page
      /\ mine[1] = p
      /\ pc[p] = "user"
      /\ pml4[mine] # NULL
  BY DEF Store, At, Page
<1>3. /\ swap_index[mine] = NULL
      /\ \A pg \in Page : pg # mine => pml4[pg] # pml4[mine]
      /\ mine[2] = v
  BY <1>2 DEF Strong, SwapInv, SwapOf, MapInv, MapOf, Live
<1>4. /\ \A k \in Kva : mem'[k] = IF k = pml4[mine] THEN "stored" ELSE mem[k]
      /\ \A pg \in Page : dirty'[pg] = IF pg = mine THEN v \in Map ELSE dirty[pg]
      /\ \A pg \in Page : expect'[pg] = IF pg = mine THEN "stored" ELSE expect[pg]
  BY <1>2, Pages DEF Store, TypeOK
<1> HIDE DEF mine
<1>5. ClaimInv'
  BY <1>1, <1>2, <1>4 DEF Strong, ClaimInv, ClaimOf, Claiming
<1>6. HeldInv'
  BY <1>1 DEF Strong, HeldInv, HeldOf, Unallocated, Holding, Evicting
<1>7. FrameInv'
  BY <1>1 DEF Strong, FrameInv, Live
<1>8. MapInv'
  BY <1>1 DEF Strong, MapInv, MapOf, Live
<1>9. EmptyInv'
  BY <1>1 DEF Strong, EmptyInv, EmptyOf
<1>10. SwapInv'
  BY <1>1 DEF Strong, SwapInv, SwapOf
<1>11. SlotInv'
  BY <1>1 DEF Strong, SlotInv, SlotOf
<1>12. VictimInv'
  BY <1>1, <1>2, <1>4 DEF Strong, VictimInv, VictimOf, Evicting
<1>13. ContentInv'
  <2> SUFFICES ASSUME NEW pg \in Page PROVE ContentOf(pg)'
    BY DEF ContentInv
  <2>1. ContentOf(pg)
    BY DEF Strong, ContentInv
  <2>2. CASE pg = mine
    BY <1>1, <1>2, <1>4, Types, <2>1, <2>2 DEF Strong, ContentOf, SwapInv, SwapOf
  <2>3. CASE pg # mine
    BY <1>1, <1>4, Types, <1>3, <2>1, <2>3 DEF Strong, ContentOf, SwapInv, SwapOf
  <2> QED BY <2>2, <2>3
<1>14. ForkInv'
  BY <1>1 DEF Strong, ForkInv, ForkOf, Copying, Claiming
<1>15. StoresKept
  <2> SUFFICES ASSUME NEW pg \in Page, Pending(pg) PROVE Pending(pg)' \/ file' = "stored"
    BY DEF StoresKept
  <2>1. ContentOf(pg) /\ pml4[pg] \in Kva /\ pml4[mine] \in Kva
    BY <1>2, Types DEF Strong, ContentInv, Pending
  <2>2. CASE pg = mine
    BY <1>1, <1>4, <1>3, <2>1, <2>2 DEF Pending, ContentOf
  <2>3. CASE pg # mine
    BY <1>1, <1>4, <2>1, <2>3 DEF Pending
  <2> QED BY <2>2, <2>3
<1> QED BY <1>5, <1>6, <1>7, <1>8, <1>9, <1>10, <1>11, <1>12, <1>13, <1>14, <1>15 DEF Strong

(* A claim begins: the page is not mapped, and it is in the table or just  *)
(* entered.                                                                *)
LEMMA FaultKeeps ==
  ASSUME TypeOK, Strong, NEW p \in Proc, NEW v \in Va, Fault(p, v), panic' = panic, broken' = {}
  PROVE  Strong' /\ StoresKept
<1> DEFINE mine == << p, v >>
<1>1. /\ got' = got /\ slot' = slot /\ parent' = parent /\ swap_index' = swap_index
      /\ fkva' = fkva /\ fpage' = fpage /\ frame_list' = frame_list /\ pml4' = pml4
      /\ dirty' = dirty /\ used' = used /\ mem' = mem /\ swap_table' = swap_table
      /\ swap' = swap /\ file' = file /\ expect' = expect
  BY DEF Fault, At, Alloc, StartClaim, Goto, pages, frames, memory, tables, store, health
<1>2. /\ mine \in Page
      /\ mine[1] = p
      /\ pc[p] = "user"
      /\ pml4[mine] = NULL
      /\ cause'[p] # "copy"
  BY DEF Fault, At, StartClaim, TypeOK, Page
<1>3. /\ \A pg \in Page : ops'[pg] =
             IF pg = mine THEN IF ops[mine] = "none" THEN "uninit" ELSE ops[mine] ELSE ops[pg]
      /\ \A pg \in Page : init'[pg] =
             IF pg = mine THEN IF ops[mine] = "none" THEN "null" ELSE init[mine] ELSE init[pg]
      /\ \A pg \in Page : frame'[pg] =
             IF pg = mine THEN IF ops[mine] = "none" THEN NULL ELSE frame[mine] ELSE frame[pg]
      /\ \A q \in Proc : pc'[q] = IF q = p THEN "get_frame" ELSE pc[q]
      /\ \A q \in Proc : claim'[q] = IF q = p THEN mine ELSE claim[q]
      /\ \A q \in Proc : cause'[q] = IF q = p THEN cause'[p] ELSE cause[q]
  <2> HIDE DEF mine
  <2>1. /\ ops' = IF ops[mine] = "none" THEN [ops EXCEPT ![mine] = "uninit"] ELSE ops
        /\ init' = IF ops[mine] = "none" THEN [init EXCEPT ![mine] = "null"] ELSE init
        /\ frame' = IF ops[mine] = "none" THEN [frame EXCEPT ![mine] = NULL] ELSE frame
    BY DEF Fault, Alloc, pages, mine
  <2>2. /\ pc' = [pc EXCEPT ![p] = "get_frame"] /\ claim' = [claim EXCEPT ![p] = mine]
        /\ cause' \in {[cause EXCEPT ![p] = "grow"], [cause EXCEPT ![p] = "fault"]}
    BY DEF Fault, StartClaim, Goto, mine
  <2>3. \A q \in Proc : cause'[q] = IF q = p THEN cause'[p] ELSE cause[q]
    BY <2>2 DEF TypeOK
  <2> QED BY <2>1, <2>2, <2>3 DEF TypeOK
<1> HIDE DEF mine
<1>4. ClaimInv'
  BY <1>1, <1>2, <1>3 DEF Strong, ClaimInv, ClaimOf, Claiming
<1>5. HeldInv'
  BY <1>1, <1>3 DEF Strong, HeldInv, HeldOf, Unallocated, Holding, Evicting
<1>6. FrameInv'
  BY <1>1, <1>3 DEF Strong, FrameInv, Live, EmptyInv, EmptyOf
<1>7. MapInv'
  BY <1>1, <1>2, <1>3, Owners DEF Strong, MapInv, MapOf, Live
<1>8. EmptyInv'
  BY <1>1, <1>2, <1>3, Owners DEF Strong, EmptyInv, EmptyOf
<1>9. SwapInv'
  BY <1>1, <1>2, <1>3, Owners DEF Strong, SwapInv, SwapOf
<1>10. SlotInv'
  BY <1>1, <1>2, <1>3 DEF Strong, SlotInv, SlotOf
<1>11. VictimInv'
  BY <1>1, <1>3 DEF Strong, VictimInv, VictimOf, Evicting
<1>12. ContentInv'
  BY <1>1, <1>3 DEF Strong, ContentInv, ContentOf
<1>13. ForkInv'
  BY <1>1, <1>2, <1>3 DEF Strong, ForkInv, ForkOf, Copying, Claiming
<1>14. StoresKept
  <2> SUFFICES ASSUME NEW pg \in Page, Pending(pg) PROVE Pending(pg)' \/ file' = "stored"
    BY DEF StoresKept
  <2> QED BY <1>1, <1>3 DEF Strong, Pending
<1> QED BY <1>4, <1>5, <1>6, <1>7, <1>8, <1>9, <1>10, <1>11, <1>12, <1>13, <1>14 DEF Strong

(* A process on its way out has nothing claimed, held or mapped that it    *)
(* had not before.                                                         *)
LEMMA LeaveKeeps ==
  ASSUME TypeOK, Strong, NEW p \in Proc, NEW c \in {"exit", "exec"}, Leave(p, c),
         panic' = panic, broken' = {}
  PROVE  Strong' /\ StoresKept
<1>1. /\ claim' = claim /\ got' = got /\ slot' = slot /\ parent' = parent /\ ops' = ops
      /\ init' = init /\ frame' = frame /\ swap_index' = swap_index /\ fkva' = fkva
      /\ fpage' = fpage /\ frame_list' = frame_list /\ pml4' = pml4 /\ dirty' = dirty
      /\ used' = used /\ mem' = mem /\ swap_table' = swap_table /\ swap' = swap
      /\ file' = file /\ expect' = expect
  BY DEF Leave, At, pages, frames, memory, tables, store, health
<1>2. pc[p] = "user"
  BY DEF Leave, At, Page
<1>3. /\ \A q \in Proc : pc'[q] = IF q = p THEN pc'[p] ELSE pc[q]
      /\ \A q \in Proc : cause'[q] = IF q = p THEN c ELSE cause[q]
      /\ pc'[p] \in {"close", "kill"}
  BY <1>2, Pages DEF Leave, Goto, TypeOK
<1>4. ClaimInv'
  BY <1>1, <1>3 DEF Strong, ClaimInv, ClaimOf, Claiming
<1>5. HeldInv'
  BY <1>1, <1>3 DEF Strong, HeldInv, HeldOf, Unallocated, Holding, Evicting
<1>6. FrameInv'
  BY <1>1 DEF Strong, FrameInv, Live
<1>7. MapInv'
  BY <1>1, <1>2, <1>3, Owners DEF Strong, MapInv, MapOf, Live
<1>8. EmptyInv'
  BY <1>1, <1>3, Owners DEF Strong, EmptyInv, EmptyOf
<1>9. SwapInv'
  BY <1>1, <1>2, <1>3, Owners DEF Strong, SwapInv, SwapOf
<1>10. SlotInv'
  BY <1>1, <1>2, <1>3 DEF Strong, SlotInv, SlotOf
<1>11. VictimInv'
  BY <1>1, <1>3 DEF Strong, VictimInv, VictimOf, Evicting
<1>12. ContentInv'
  BY <1>1 DEF Strong, ContentInv, ContentOf
<1>13. ForkInv'
  BY <1>1, <1>2, <1>3 DEF Strong, ForkInv, ForkOf, Copying, Claiming
<1>14. StoresKept
  BY <1>1 DEF StoresKept, Pending
<1> QED BY <1>4, <1>5, <1>6, <1>7, <1>8, <1>9, <1>10, <1>11, <1>12, <1>13, <1>14 DEF Strong

(* A new page of a mapping has neither frame, slot nor entry, or EmptyOf   *)
(* would not hold.                                                         *)
LEMMA MmapKeeps ==
  ASSUME TypeOK, Strong, NEW p \in Proc, NEW v \in Va, Mmap(p, v), panic' = panic, broken' = {}
  PROVE  Strong' /\ StoresKept
<1> DEFINE mine == << p, v >>
<1>1. /\ pc' = pc /\ cause' = cause /\ claim' = claim /\ got' = got /\ slot' = slot
      /\ parent' = parent /\ swap_index' = swap_index /\ fkva' = fkva /\ fpage' = fpage
      /\ frame_list' = frame_list /\ pml4' = pml4 /\ dirty' = dirty /\ used' = used
      /\ mem' = mem /\ swap_table' = swap_table /\ swap' = swap /\ file' = file
      /\ expect' = expect
  BY DEF Mmap, At, Alloc, procs, locals, frames, memory, tables, store, health
<1>2. /\ mine \in Page
      /\ mine[1] = p
      /\ pc[p] = "user"
      /\ v \in Map
      /\ ops[mine] = "none"
  BY DEF Mmap, At, Page
<1>3. /\ mine[2] = v
      /\ pml4[mine] = NULL
      /\ frame[mine] = NULL
      /\ swap_index[mine] = NULL
  BY <1>2 DEF Strong, MapInv, MapOf, Live, EmptyInv, EmptyOf
<1>4. /\ \A pg \in Page : ops'[pg] = IF pg = mine THEN "uninit" ELSE ops[pg]
      /\ \A pg \in Page : init'[pg] = IF pg = mine THEN "file" ELSE init[pg]
      /\ \A pg \in Page : frame'[pg] = IF pg = mine THEN NULL ELSE frame[pg]
  BY <1>2, Pages DEF Mmap, Alloc, TypeOK
<1> HIDE DEF mine
<1>5. ClaimInv'
  BY <1>1, <1>2, <1>4 DEF Strong, ClaimInv, ClaimOf, Claiming
<1>6. HeldInv'
  BY <1>1 DEF Strong, HeldInv, HeldOf, Unallocated, Holding, Evicting
<1>7. FrameInv'
  BY <1>1, <1>4 DEF Strong, FrameInv, Live
<1>8. MapInv'
  BY <1>1, <1>2, <1>4 DEF Strong, MapInv, MapOf, Live
<1>9. EmptyInv'
  BY <1>1, <1>2, <1>4 DEF Strong, EmptyInv, EmptyOf
<1>10. SwapInv'
  BY <1>1, <1>2, <1>4 DEF Strong, SwapInv, SwapOf
<1>11. SlotInv'
  BY <1>1 DEF Strong, SlotInv, SlotOf
<1>12. VictimInv'
  BY <1>1, <1>2, <1>4 DEF Strong, VictimInv, VictimOf, Evicting
<1>13. ContentInv'
  BY <1>1, <1>2, <1>4, <1>3 DEF Strong, ContentInv, ContentOf
<1>14. ForkInv'
  BY <1>1 DEF Strong, ForkInv, ForkOf, Copying, Claiming
<1>15. StoresKept
  <2> SUFFICES ASSUME NEW pg \in Page, Pending(pg) PROVE Pending(pg)' \/ file' = "stored"
    BY DEF StoresKept
  <2> QED BY <1>1, <1>2, <1>4 DEF Strong, Pending
<1> QED BY <1>5, <1>6, <1>7, <1>8, <1>9, <1>10, <1>11, <1>12, <1>13, <1>14, <1>15 DEF Strong

(* munmap leaves the page as it is, whatever has become of its write.      *)
LEMMA MunmapKeeps ==
  ASSUME TypeOK, Strong, NEW p \in Proc, NEW v \in Va, Munmap(p, v), panic' = panic, broken' = {}
  PROVE  Strong' /\ StoresKept
<1> DEFINE mine == << p, v >>
<1>1. /\ pc' = pc /\ cause' = cause /\ claim' = claim /\ got' = got /\ slot' = slot
      /\ parent' = parent /\ ops' = ops /\ init' = init /\ frame' = frame
      /\ swap_index' = swap_index /\ fkva' = fkva /\ fpage' = fpage
      /\ frame_list' = frame_list /\ pml4' = pml4 /\ dirty' = dirty /\ used' = used
      /\ mem' = mem /\ swap_table' = swap_table /\ swap' = swap /\ expect' = expect
  BY DEF Munmap, At, procs, locals, pages, frames, tables, health
<1>2. pc[p] = "user"
  BY DEF Munmap, At, Page
<1>3. ClaimInv'
  BY <1>1 DEF Strong, ClaimInv, ClaimOf, Claiming
<1>4. HeldInv'
  BY <1>1 DEF Strong, HeldInv, HeldOf, Unallocated, Holding, Evicting
<1>5. FrameInv'
  BY <1>1 DEF Strong, FrameInv, Live
<1>6. MapInv'
  BY <1>1 DEF Strong, MapInv, MapOf, Live
<1>7. EmptyInv'
  BY <1>1 DEF Strong, EmptyInv, EmptyOf
<1>8. SwapInv'
  BY <1>1 DEF Strong, SwapInv, SwapOf
<1>9. SlotInv'
  BY <1>1 DEF Strong, SlotInv, SlotOf
<1>10. VictimInv'
  BY <1>1 DEF Strong, VictimInv, VictimOf, Evicting
<1>11. ContentInv'
  BY <1>1 DEF Strong, ContentInv, ContentOf
<1>12. ForkInv'
  BY <1>1 DEF Strong, ForkInv, ForkOf, Copying, Claiming
<1>13. StoresKept
  BY <1>1 DEF StoresKept, Pending
<1> QED BY <1>3, <1>4, <1>5, <1>6, <1>7, <1>8, <1>9, <1>10, <1>11, <1>12, <1>13 DEF Strong

(* A child starts to copy; its parent was running, so nobody copies from   *)
(* it yet.                                                                 *)
LEMMA ForkKeeps ==
  ASSUME TypeOK, Strong, NEW p \in Proc, NEW c \in Proc, Fork(p, c), panic' = panic, broken' = {}
  PROVE  Strong' /\ StoresKept
<1>1. /\ cause' = cause /\ claim' = claim /\ got' = got /\ slot' = slot /\ ops' = ops
      /\ init' = init /\ frame' = frame /\ swap_index' = swap_index /\ fkva' = fkva
      /\ fpage' = fpage /\ frame_list' = frame_list /\ pml4' = pml4 /\ dirty' = dirty
      /\ used' = used /\ mem' = mem /\ swap_table' = swap_table /\ swap' = swap
      /\ file' = file /\ expect' = expect
  BY DEF Fork, At, pages, frames, memory, tables, store, health
<1>2. /\ pc[p] = "user"
      /\ pc[c] = "none"
      /\ p # c
  BY DEF Fork, At, Page
<1>3. /\ slot[c] = NULL
      /\ slot[p] = NULL
  BY <1>2 DEF Strong, SlotInv, SlotOf
<1>4. /\ \A q \in Proc : pc'[q] = IF q = p THEN "forking" ELSE IF q = c THEN "copy" ELSE pc[q]
      /\ \A q \in Proc : parent'[q] = IF q = c THEN p ELSE parent[q]
  BY <1>2, Pages DEF Fork, TypeOK
<1>5. ClaimInv'
  BY <1>1, <1>4 DEF Strong, ClaimInv, ClaimOf, Claiming
<1>6. HeldInv'
  BY <1>1, <1>4 DEF Strong, HeldInv, HeldOf, Unallocated, Holding, Evicting
<1>7. FrameInv'
  BY <1>1 DEF Strong, FrameInv, Live
<1>8. MapInv'
  BY <1>1, <1>2, <1>4, Owners DEF Strong, MapInv, MapOf, Live
<1>9. EmptyInv'
  BY <1>1, <1>4, Owners DEF Strong, EmptyInv, EmptyOf
<1>10. SwapInv'
  BY <1>1, <1>2, <1>4, Owners DEF Strong, SwapInv, SwapOf
<1>11. SlotInv'
  BY <1>1, <1>2, <1>4 DEF Strong, SlotInv, SlotOf
<1>12. VictimInv'
  BY <1>1, <1>4 DEF Strong, VictimInv, VictimOf, Evicting
<1>13. ContentInv'
  BY <1>1 DEF Strong, ContentInv, ContentOf
<1>14. ForkInv'
  <2> SUFFICES ASSUME NEW q \in Proc PROVE ForkOf(q)'
    BY DEF ForkInv
  <2>1. ForkOf(q)
    BY DEF Strong, ForkInv
  <2>2. CASE q = c
    <3>1. \A d \in Proc : d # c /\ Copying(d)' => Copying(d) /\ parent'[d] # p
      BY <1>1, <1>2, <1>4 DEF Strong, ForkInv, ForkOf, Copying, Claiming
    <3> QED BY <3>1, <2>2, <1>4 DEF ForkOf
  <2>3. CASE q # c /\ Copying(q)'
    <3>1. Copying(q) /\ parent'[q] = parent[q] /\ parent[q] # p /\ parent[q] # c
      BY <1>1, <1>2, <1>4, <2>1, <2>3 DEF ForkOf, Copying, Claiming
    <3>2. \A d \in Proc : d # q /\ Copying(d)' => d = c \/ (Copying(d) /\ parent'[d] = parent[d])
      BY <1>1, <1>4 DEF Copying, Claiming
    <3> QED BY <3>1, <3>2, <2>1, <2>3, <1>4 DEF ForkOf
  <2> QED BY <2>2, <2>3 DEF ForkOf
<1>15. StoresKept
  BY <1>1 DEF StoresKept, Pending
<1> QED BY <1>5, <1>6, <1>7, <1>8, <1>9, <1>10, <1>11, <1>12, <1>13, <1>14, <1>15 DEF Strong

(* A frame from the pool: the page of the pool and the struct were both    *)
(* free, hence named by nobody.                                            *)
LEMMA GetFrameKeeps ==
  ASSUME TypeOK, Strong, NEW p \in Proc, GetFrame(p), pc'[p] = "append",
         panic' = panic, broken' = {}
  PROVE  Strong' /\ StoresKept
<1>1. /\ cause' = cause /\ claim' = claim /\ slot' = slot /\ parent' = parent /\ ops' = ops
      /\ init' = init /\ frame' = frame /\ swap_index' = swap_index
      /\ frame_list' = frame_list /\ pml4' = pml4 /\ dirty' = dirty /\ mem' = mem
      /\ swap_table' = swap_table /\ swap' = swap /\ file' = file /\ expect' = expect
  BY DEF GetFrame, At, Goto, TypeOK, pages, tables, store, health
<1>2. /\ pc[p] = "get_frame"
      /\ got'[p] \in Frame
      /\ fkva[got'[p]] = NULL
      /\ fkva'[got'[p]] \in Kva \ used
  <2> DEFINE free == { f \in Frame : fkva[f] = NULL }
             f == CHOOSE f \in free : TRUE
             k == Min(Kva \ used)
  <2>1. free # {} /\ used # Kva /\ pc[p] = "get_frame"
    BY DEF GetFrame, At, Goto, TypeOK
  <2>2. f \in free /\ k \in Kva \ used
    BY <2>1, FreePage
  <2>3. got' = [got EXCEPT ![p] = f] /\ fkva' = [fkva EXCEPT ![f] = k]
    BY <2>1 DEF GetFrame
  <2> HIDE DEF f, k
  <2> QED BY <2>1, <2>2, <2>3 DEF TypeOK
<1>3. /\ fpage[got'[p]] = NULL
      /\ \A i \in 1 .. Len(frame_list) : frame_list[i] # got'[p]
      /\ slot[p] = NULL
  BY <1>2 DEF Strong, HeldInv, HeldOf, Unallocated, Holding, Evicting, SlotInv, SlotOf
<1>4. /\ \A f \in Frame : fkva'[f] = IF f = got'[p] THEN fkva'[got'[p]] ELSE fkva[f]
      /\ \A f \in Frame : fpage'[f] = IF f = got'[p] THEN NULL ELSE fpage[f]
      /\ \A q \in Proc : got'[q] = IF q = p THEN got'[p] ELSE got[q]
      /\ \A q \in Proc : pc'[q] = IF q = p THEN "append" ELSE pc[q]
      /\ used' = used \cup {fkva'[got'[p]]}
  <2> DEFINE free == { f \in Frame : fkva[f] = NULL }
             g == CHOOSE f \in free : TRUE
             n == Min(Kva \ used)
  <2>1. free # {} /\ used # Kva
    BY DEF GetFrame, At, Goto, TypeOK
  <2>2. g \in free /\ n \in Kva \ used
    BY <2>1, FreePage
  <2>3. /\ got' = [got EXCEPT ![p] = g] /\ fkva' = [fkva EXCEPT ![g] = n]
        /\ fpage' = [fpage EXCEPT ![g] = NULL] /\ used' = used \cup {n}
        /\ pc' = [pc EXCEPT ![p] = "append"]
    BY <2>1 DEF GetFrame, Goto
  <2> HIDE DEF g, n
  <2>4. got'[p] = g /\ g \in Frame /\ fkva'[g] = n
    BY <2>2, <2>3 DEF TypeOK
  <2> QED BY <2>2, <2>3, <2>4 DEF TypeOK
<1>5. ClaimInv'
  BY <1>1, <1>2, <1>4 DEF Strong, ClaimInv, ClaimOf, Claiming
<1>6. HeldInv'
  BY <1>1, <1>2, <1>4, Nulls DEF Strong, HeldInv, HeldOf, Unallocated, Holding, Evicting
<1>7. FrameInv'
  BY <1>1, <1>2, <1>4, Types, <1>3 DEF Strong, FrameInv, Live
<1>8. MapInv'
  BY <1>1, <1>2, <1>4, Types, Owners DEF Strong, MapInv, MapOf, Live, FrameInv
<1>9. EmptyInv'
  BY <1>1, <1>4, Owners DEF Strong, EmptyInv, EmptyOf
<1>10. SwapInv'
  BY <1>1, <1>2, <1>4, Owners DEF Strong, SwapInv, SwapOf
<1>11. SlotInv'
  BY <1>1, <1>2, <1>4 DEF Strong, SlotInv, SlotOf
<1>12. VictimInv'
  BY <1>1, <1>2, <1>4
     DEF Strong, VictimInv, VictimOf, Evicting, HeldInv, HeldOf, Unallocated, Holding
<1>13. ContentInv'
  BY <1>1 DEF Strong, ContentInv, ContentOf
<1>14. ForkInv'
  BY <1>1, <1>2, <1>4 DEF Strong, ForkInv, ForkOf, Copying, Claiming
<1>15. StoresKept
  BY <1>1 DEF StoresKept, Pending
<1> QED BY <1>5, <1>6, <1>7, <1>8, <1>9, <1>10, <1>11, <1>12, <1>13, <1>14, <1>15 DEF Strong

(* The pool is empty: a victim is looked for. *)
LEMMA GetVictimKeeps ==
  ASSUME TypeOK, Strong, NEW p \in Proc, GetFrame(p), pc'[p] # "append",
         panic' = panic, broken' = {}
  PROVE  Strong' /\ StoresKept
<1>1. /\ cause' = cause /\ claim' = claim /\ got' = got /\ slot' = slot /\ parent' = parent
      /\ ops' = ops /\ init' = init /\ frame' = frame /\ swap_index' = swap_index
      /\ fkva' = fkva /\ fpage' = fpage /\ frame_list' = frame_list /\ pml4' = pml4
      /\ dirty' = dirty /\ used' = used /\ mem' = mem /\ swap_table' = swap_table
      /\ swap' = swap /\ file' = file /\ expect' = expect
  BY DEF GetFrame, At, Goto, TypeOK, pages, tables, store, health
<1>2. pc[p] = "get_frame"
  BY DEF GetFrame, At, Page
<1>3. \A q \in Proc : pc'[q] = IF q = p THEN "victim" ELSE pc[q]
  BY <1>2, Pages DEF GetFrame, Goto, TypeOK
<1>4. ClaimInv'
  BY <1>1, <1>2, <1>3 DEF Strong, ClaimInv, ClaimOf, Claiming
<1>5. HeldInv'
  BY <1>1, <1>3 DEF Strong, HeldInv, HeldOf, Unallocated, Holding, Evicting
<1>6. FrameInv'
  BY <1>1 DEF Strong, FrameInv, Live
<1>7. MapInv'
  BY <1>1, <1>2, <1>3, Owners DEF Strong, MapInv, MapOf, Live
<1>8. EmptyInv'
  BY <1>1, <1>3, Owners DEF Strong, EmptyInv, EmptyOf
<1>9. SwapInv'
  BY <1>1, <1>2, <1>3, Owners DEF Strong, SwapInv, SwapOf
<1>10. SlotInv'
  BY <1>1, <1>2, <1>3 DEF Strong, SlotInv, SlotOf
<1>11. VictimInv'
  BY <1>1, <1>3 DEF Strong, VictimInv, VictimOf, Evicting
<1>12. ContentInv'
  BY <1>1 DEF Strong, ContentInv, ContentOf
<1>13. ForkInv'
  BY <1>1, <1>2, <1>3 DEF Strong, ForkInv, ForkOf, Copying, Claiming
<1>14. StoresKept
  BY <1>1 DEF StoresKept, Pending
<1> QED BY <1>4, <1>5, <1>6, <1>7, <1>8, <1>9, <1>10, <1>11, <1>12, <1>13, <1>14 DEF Strong

(* The oldest frame leaves the list: the list names it once, so only its   *)
(* new holder has it, and what kind of page it has decides where the       *)
(* eviction goes on.                                                       *)
LEMMA PopVictimKeeps ==
  ASSUME TypeOK, Strong, NEW p \in Proc, PopVictim(p), panic' = panic, broken' = {}
  PROVE  Strong' /\ StoresKept
<1> DEFINE v == fpage[Head(frame_list)]
<1>1. /\ cause' = cause /\ claim' = claim /\ slot' = slot /\ parent' = parent /\ ops' = ops
      /\ init' = init /\ frame' = frame /\ swap_index' = swap_index /\ fkva' = fkva
      /\ fpage' = fpage /\ pml4' = pml4 /\ dirty' = dirty /\ used' = used /\ mem' = mem
      /\ swap_table' = swap_table /\ swap' = swap /\ file' = file /\ expect' = expect
  BY DEF PopVictim, At, Panic, procs, locals, pages, frames, memory, tables, store
<1>2. /\ pc[p] = "victim"
      /\ frame_list # << >>
      /\ v = fpage[Head(frame_list)]
      /\ v \in Page
      /\ ops[v] # "uninit"
  BY DEF PopVictim, At, Panic, Page
<1>3. /\ slot[p] = NULL
      /\ ops[v] \in {"anon", "file"}
      /\ Head(frame_list) \in Frame
      /\ fkva[Head(frame_list)] # NULL
      /\ Len(frame_list) \in Nat
      /\ Len(frame_list) > 0
      /\ Len(Tail(frame_list)) = Len(frame_list) - 1
      /\ Head(frame_list) = frame_list[1]
      /\ \A i \in 1 .. Len(Tail(frame_list)) : Tail(frame_list)[i] = frame_list[i + 1]
             /\ frame_list[i + 1] # frame_list[1]
  <2>1. frame_list \in Seq(Frame) /\ frame_list # << >> /\ IsInjective(frame_list)
            /\ DOMAIN frame_list = 1 .. Len(frame_list)
    BY <1>2 DEF TypeOK
  <2>2. /\ Head(frame_list) \in Frame /\ Len(frame_list) \in Nat /\ Len(frame_list) > 0
        /\ Len(Tail(frame_list)) = Len(frame_list) - 1 /\ Head(frame_list) = frame_list[1]
    BY <2>1
  <2>3. \A i \in 1 .. Len(Tail(frame_list)) : Tail(frame_list)[i] = frame_list[i + 1]
            /\ frame_list[i + 1] # frame_list[1]
    BY <2>1, <2>2 DEF IsInjective
  <2>4. slot[p] = NULL
    BY <1>2 DEF Strong, SlotInv, SlotOf
  <2>5. ops[v] # "none" /\ ops[v] \in {"none", "uninit", "anon", "file"}
    BY <1>2, <2>2 DEF Strong, FrameInv, TypeOK
  <2>6. fkva[Head(frame_list)] # NULL
    BY <2>2 DEF Strong, HeldInv, Unallocated
  <2> QED BY <1>2, <2>2, <2>3, <2>4, <2>5, <2>6
<1>4. /\ frame_list' = Tail(frame_list)
      /\ \A q \in Proc : got'[q] = IF q = p THEN Head(frame_list) ELSE got[q]
      /\ \A q \in Proc : pc'[q] = IF q = p THEN IF ops[v] = "file" THEN "write_back"
                                              ELSE IF swap_index[v] # NULL THEN "unlink"
                                                  ELSE "scan" ELSE pc[q]
  <2>1. frame_list' = Tail(frame_list)
    BY <1>2, Pages DEF PopVictim, Goto, Panic, At, TypeOK
  <2>2. \A q \in Proc : got'[q] = IF q = p THEN Head(frame_list) ELSE got[q]
    BY <1>2, Pages DEF PopVictim, Goto, Panic, At, TypeOK
  <2>3. \A q \in Proc : pc'[q] = IF q = p THEN IF ops[v] = "file" THEN "write_back"
                                              ELSE IF swap_index[v] # NULL THEN "unlink"
                                                  ELSE "scan" ELSE pc[q]
    BY <1>2, Pages DEF PopVictim, Goto, Panic, At, TypeOK
  <2> QED BY <2>1, <2>2, <2>3
<1> HIDE DEF v
<1>5. ClaimInv'
  BY <1>1, <1>2, <1>4 DEF Strong, ClaimInv, ClaimOf, Claiming
<1>6. HeldInv'
  BY <1>1, <1>2, <1>4, <1>3, Nulls DEF Strong, HeldInv, HeldOf, Unallocated, Holding, Evicting
<1>7. FrameInv'
  BY <1>1 DEF Strong, FrameInv, Live
<1>8. MapInv'
  BY <1>1, <1>2, <1>4, Owners DEF Strong, MapInv, MapOf, Live
<1>9. EmptyInv'
  BY <1>1, <1>4, Owners DEF Strong, EmptyInv, EmptyOf
<1>10. SwapInv'
  BY <1>1, <1>2, <1>4, Owners DEF Strong, SwapInv, SwapOf
<1>11. SlotInv'
  <2> SUFFICES ASSUME NEW q \in Proc PROVE SlotOf(q)'
    BY DEF SlotInv
  <2>1. SlotOf(q)
    BY DEF Strong, SlotInv
  <2>2. CASE q = p
    BY <1>1, <1>2, <1>4, <2>1, <2>2 DEF Strong, SlotOf
  <2>3. CASE q # p
    BY <1>1, <1>4, <1>3, <2>1, <2>3 DEF Strong, SlotOf
  <2> QED BY <2>2, <2>3
<1>12. VictimInv'
  <2> SUFFICES ASSUME NEW q \in Proc, NEW pg \in Page PROVE VictimOf(q, pg)'
    BY DEF VictimInv
  <2>1. VictimOf(q, pg)
    BY DEF Strong, VictimInv
  <2>2. CASE q = p
    BY <1>1, <1>2, <1>4, <1>3, <2>1, <2>2 DEF Strong, VictimOf, Evicting
  <2>3. CASE q # p
    BY <1>1, <1>4, <2>1, <2>3 DEF Strong, VictimOf, Evicting
  <2> QED BY <2>2, <2>3
<1>13. ContentInv'
  BY <1>1 DEF Strong, ContentInv, ContentOf
<1>14. ForkInv'
  BY <1>1, <1>2, <1>4 DEF Strong, ForkInv, ForkOf, Copying, Claiming
<1>15. StoresKept
  BY <1>1 DEF StoresKept, Pending
<1> QED BY <1>5, <1>6, <1>7, <1>8, <1>9, <1>10, <1>11, <1>12, <1>13, <1>14, <1>15 DEF Strong

(* A slot is found, which is not yet taken. *)
LEMMA SwapScanKeeps ==
  ASSUME TypeOK, Strong, NEW p \in Proc, SwapScan(p), panic' = panic, broken' = {}
  PROVE  Strong' /\ StoresKept
<1>1. /\ cause' = cause /\ claim' = claim /\ got' = got /\ parent' = parent /\ ops' = ops
      /\ init' = init /\ frame' = frame /\ swap_index' = swap_index /\ fkva' = fkva
      /\ fpage' = fpage /\ frame_list' = frame_list /\ pml4' = pml4 /\ dirty' = dirty
      /\ used' = used /\ mem' = mem /\ swap_table' = swap_table /\ swap' = swap
      /\ file' = file /\ expect' = expect
  BY DEF SwapScan, At, Panic, procs, locals, pages, frames, memory, tables, store, health
<1>2. /\ pc[p] = "scan"
      /\ Slot \ swap_table # {}
  BY DEF SwapScan, At, Panic, TypeOK, Page
<1>3. Min(Slot \ swap_table) \in Slot
  BY <1>2, FreeSlot DEF Strong, At
<1>4. /\ \A q \in Proc : slot'[q] = IF q = p THEN Min(Slot \ swap_table) ELSE slot[q]
      /\ \A q \in Proc : pc'[q] = IF q = p THEN "flip" ELSE pc[q]
  <2>1. \A q \in Proc : slot'[q] = IF q = p THEN Min(Slot \ swap_table) ELSE slot[q]
    BY <1>2, Pages DEF SwapScan, Goto, Panic, TypeOK
  <2>2. \A q \in Proc : pc'[q] = IF q = p THEN "flip" ELSE pc[q]
    BY <1>2, Pages DEF SwapScan, Goto, Panic, TypeOK
  <2> QED BY <2>1, <2>2
<1>5. ClaimInv'
  BY <1>1, <1>2, <1>4 DEF Strong, ClaimInv, ClaimOf, Claiming
<1>6. HeldInv'
  BY <1>1, <1>2, <1>4 DEF Strong, HeldInv, HeldOf, Unallocated, Holding, Evicting
<1>7. FrameInv'
  BY <1>1 DEF Strong, FrameInv, Live
<1>8. MapInv'
  BY <1>1, <1>2, <1>4, Owners DEF Strong, MapInv, MapOf, Live
<1>9. EmptyInv'
  BY <1>1, <1>4, Owners DEF Strong, EmptyInv, EmptyOf
<1>10. SwapInv'
  BY <1>1, <1>2, <1>4, Owners DEF Strong, SwapInv, SwapOf
<1>11. SlotInv'
  <2> SUFFICES ASSUME NEW q \in Proc PROVE SlotOf(q)'
    BY DEF SlotInv
  <2>1. SlotOf(q)
    BY DEF Strong, SlotInv
  <2>2. CASE q = p
    BY <1>4, <1>3, Nulls, <2>1, <2>2 DEF Strong, SlotOf
  <2>3. CASE q # p
    BY <1>1, <1>4, <2>1, <2>3 DEF Strong, SlotOf
  <2> QED BY <2>2, <2>3
<1>12. VictimInv'
  BY <1>1, <1>2, <1>4 DEF Strong, VictimInv, VictimOf, Evicting
<1>13. ContentInv'
  BY <1>1 DEF Strong, ContentInv, ContentOf
<1>14. ForkInv'
  BY <1>1, <1>2, <1>4 DEF Strong, ForkInv, ForkOf, Copying, Claiming
<1>15. StoresKept
  BY <1>1 DEF StoresKept, Pending
<1> QED BY <1>5, <1>6, <1>7, <1>8, <1>9, <1>10, <1>11, <1>12, <1>13, <1>14, <1>15 DEF Strong

(* The slot is taken.  Two processes that found the same one would make    *)
(* `broken' true.                                                          *)
LEMMA SwapFlipKeeps ==
  ASSUME TypeOK, Strong, NEW p \in Proc, SwapFlip(p), panic' = panic, broken' = {}
  PROVE  Strong' /\ StoresKept
<1>1. /\ cause' = cause /\ claim' = claim /\ got' = got /\ slot' = slot /\ parent' = parent
      /\ ops' = ops /\ init' = init /\ frame' = frame /\ swap_index' = swap_index
      /\ fkva' = fkva /\ fpage' = fpage /\ frame_list' = frame_list /\ pml4' = pml4
      /\ dirty' = dirty /\ used' = used /\ mem' = mem /\ swap' = swap /\ file' = file
      /\ expect' = expect
  BY DEF SwapFlip, At, locals, pages, frames, tables
<1>2. /\ pc[p] = "flip"
      /\ slot[p] \notin swap_table
  BY DEF SwapFlip, At, Page
<1>3. /\ slot[p] # NULL
      /\ \A pg \in Page : swap_index[pg] # slot[p]
      /\ \A r \in Proc : r # p /\ pc[r] \in {"swap_out", "unlink"} => slot[r] # slot[p]
  BY <1>2 DEF Strong, SlotInv, SlotOf, SwapInv, SwapOf
<1>4. /\ swap_table' = swap_table \cup {slot[p]}
      /\ \A q \in Proc : pc'[q] = IF q = p THEN "swap_out" ELSE pc[q]
  BY <1>2, Pages DEF SwapFlip, Goto, TypeOK
<1>5. ClaimInv'
  BY <1>1, <1>2, <1>4 DEF Strong, ClaimInv, ClaimOf, Claiming
<1>6. HeldInv'
  BY <1>1, <1>2, <1>4 DEF Strong, HeldInv, HeldOf, Unallocated, Holding, Evicting
<1>7. FrameInv'
  BY <1>1 DEF Strong, FrameInv, Live
<1>8. MapInv'
  BY <1>1, <1>2, <1>4, Owners DEF Strong, MapInv, MapOf, Live
<1>9. EmptyInv'
  BY <1>1, <1>4, Owners DEF Strong, EmptyInv, EmptyOf
<1>10. SwapInv'
  BY <1>1, <1>2, <1>4, Owners DEF Strong, SwapInv, SwapOf
<1>11. SlotInv'
  <2> SUFFICES ASSUME NEW q \in Proc PROVE SlotOf(q)'
    BY DEF SlotInv
  <2>1. SlotOf(q)
    BY DEF Strong, SlotInv
  <2>2. CASE q = p
    BY <1>1, <1>4, <1>3, <2>1, <2>2 DEF Strong, SlotOf
  <2>3. CASE q # p
    BY <1>1, <1>2, <1>4, <2>1, <2>3 DEF Strong, SlotOf
  <2> QED BY <2>2, <2>3
<1>12. VictimInv'
  BY <1>1, <1>2, <1>4 DEF Strong, VictimInv, VictimOf, Evicting
<1>13. ContentInv'
  BY <1>1 DEF Strong, ContentInv, ContentOf
<1>14. ForkInv'
  BY <1>1, <1>2, <1>4 DEF Strong, ForkInv, ForkOf, Copying, Claiming
<1>15. StoresKept
  BY <1>1 DEF StoresKept, Pending
<1> QED BY <1>5, <1>6, <1>7, <1>8, <1>9, <1>10, <1>11, <1>12, <1>13, <1>14, <1>15 DEF Strong

(* The content goes to the slot, which is this process's alone. *)
LEMMA SwapOutKeeps ==
  ASSUME TypeOK, Strong, NEW p \in Proc, SwapOut(p), panic' = panic, broken' = {}
  PROVE  Strong' /\ StoresKept
<1> DEFINE v == Victim(p)
<1>1. /\ cause' = cause /\ claim' = claim /\ got' = got /\ slot' = slot /\ parent' = parent
      /\ ops' = ops /\ init' = init /\ frame' = frame /\ swap_index' = swap_index
      /\ fkva' = fkva /\ fpage' = fpage /\ frame_list' = frame_list /\ pml4' = pml4
      /\ dirty' = dirty /\ used' = used /\ mem' = mem /\ swap_table' = swap_table
      /\ file' = file /\ expect' = expect
  BY DEF SwapOut, At, locals, pages, frames, tables, health
<1>2. /\ pc[p] = "swap_out"
      /\ v \in Page
      /\ frame[v] # NULL
      /\ v = fpage[got[p]]
  BY DEF SwapOut, At, VictimIsLoaded, Victim, Page
<1>3. /\ slot[p] \in Slot
      /\ \A pg \in Page : swap_index[pg] # slot[p]
  BY <1>2, Types DEF Strong, SlotInv, SlotOf
<1>4. /\ \A s \in Slot : swap'[s] = IF s = slot[p] THEN mem[fkva[frame[v]]] ELSE swap[s]
      /\ \A q \in Proc : pc'[q] = IF q = p THEN "unlink" ELSE pc[q]
  BY <1>2, Pages DEF SwapOut, Goto, TypeOK
<1> HIDE DEF v
<1>5. ClaimInv'
  BY <1>1, <1>2, <1>4 DEF Strong, ClaimInv, ClaimOf, Claiming
<1>6. HeldInv'
  BY <1>1, <1>2, <1>4 DEF Strong, HeldInv, HeldOf, Unallocated, Holding, Evicting
<1>7. FrameInv'
  BY <1>1 DEF Strong, FrameInv, Live
<1>8. MapInv'
  BY <1>1, <1>2, <1>4, Owners DEF Strong, MapInv, MapOf, Live
<1>9. EmptyInv'
  BY <1>1, <1>4, Owners DEF Strong, EmptyInv, EmptyOf
<1>10. SwapInv'
  BY <1>1, <1>2, <1>4, Owners DEF Strong, SwapInv, SwapOf
<1>11. SlotInv'
  BY <1>1, <1>2, <1>4 DEF Strong, SlotInv, SlotOf
<1>12. VictimInv'
  BY <1>1, <1>2, <1>4, Types
     DEF Strong, VictimInv, VictimOf, Evicting, SlotInv, SlotOf, MapInv, MapOf, Live,
         ContentInv, ContentOf, SwapInv, SwapOf
<1>13. ContentInv'
  BY <1>1, <1>4, Types, <1>3 DEF Strong, ContentInv, ContentOf
<1>14. ForkInv'
  BY <1>1, <1>2, <1>4 DEF Strong, ForkInv, ForkOf, Copying, Claiming
<1>15. StoresKept
  BY <1>1 DEF StoresKept, Pending
<1> QED BY <1>5, <1>6, <1>7, <1>8, <1>9, <1>10, <1>11, <1>12, <1>13, <1>14, <1>15 DEF Strong

(* The content of a mapped page goes to its file; if it was stored to, the *)
(* store is in the file.                                                   *)
LEMMA WriteBackKeeps ==
  ASSUME TypeOK, Strong, NEW p \in Proc, WriteBack(p), panic' = panic, broken' = {}
  PROVE  Strong' /\ StoresKept
<1> DEFINE v == Victim(p)
<1>1. /\ cause' = cause /\ claim' = claim /\ got' = got /\ slot' = slot /\ parent' = parent
      /\ ops' = ops /\ init' = init /\ frame' = frame /\ swap_index' = swap_index
      /\ fkva' = fkva /\ fpage' = fpage /\ frame_list' = frame_list /\ pml4' = pml4
      /\ dirty' = dirty /\ used' = used /\ mem' = mem /\ swap_table' = swap_table
      /\ swap' = swap
  BY DEF WriteBack, At, Panic, procs, locals, pages, frames, memory, tables, store
<1>2. /\ pc[p] = "write_back"
      /\ v \in Page
      /\ v = fpage[got[p]]
  BY DEF WriteBack, At, VictimIsLoaded, Victim, Page
<1>3. slot[p] = NULL
  BY <1>2 DEF Strong, SlotInv, SlotOf
<1>4. /\ \A pg \in Page : expect'[pg] = IF pg = v THEN "any" ELSE expect[pg]
      /\ \A q \in Proc : pc'[q] = IF q = p THEN "unlink" ELSE pc[q]
  <2>1. \A pg \in Page : expect'[pg] = IF pg = v THEN "any" ELSE expect[pg]
    BY <1>2, Pages DEF WriteBack, Goto, Panic, At, TypeOK
  <2>2. \A q \in Proc : pc'[q] = IF q = p THEN "unlink" ELSE pc[q]
    BY <1>2, Pages DEF WriteBack, Goto, Panic, At, TypeOK
  <2> QED BY <2>1, <2>2
<1> HIDE DEF v
<1>5. ClaimInv'
  BY <1>1, <1>2, <1>4 DEF Strong, ClaimInv, ClaimOf, Claiming
<1>6. HeldInv'
  BY <1>1, <1>2, <1>4 DEF Strong, HeldInv, HeldOf, Unallocated, Holding, Evicting
<1>7. FrameInv'
  BY <1>1 DEF Strong, FrameInv, Live
<1>8. MapInv'
  BY <1>1, <1>2, <1>4, Owners DEF Strong, MapInv, MapOf, Live
<1>9. EmptyInv'
  BY <1>1, <1>4, Owners DEF Strong, EmptyInv, EmptyOf
<1>10. SwapInv'
  BY <1>1, <1>2, <1>4, Owners DEF Strong, SwapInv, SwapOf
<1>11. SlotInv'
  BY <1>1, <1>2, <1>4 DEF Strong, SlotInv, SlotOf
<1>12. VictimInv'
  BY <1>1, <1>2, <1>4, <1>3 DEF Strong, VictimInv, VictimOf, Evicting
<1>13. ContentInv'
  BY <1>1, <1>4 DEF Strong, ContentInv, ContentOf
<1>14. ForkInv'
  BY <1>1, <1>2, <1>4 DEF Strong, ForkInv, ForkOf, Copying, Claiming
<1>15. StoresKept
  <2> SUFFICES ASSUME NEW pg \in Page, Pending(pg) PROVE Pending(pg)' \/ file' = "stored"
    BY DEF StoresKept
  <2>1. CASE pg = v
    <3>1. MapOf(v) /\ init[v] = "file"
      BY <1>2, <2>1 DEF Strong, MapInv, Pending
    <3>2. file' = mem[fkva[frame[v]]]
      BY <3>1 DEF WriteBack, At, Panic, v
    <3> QED BY <3>1, <3>2, <2>1 DEF MapOf, Pending
  <2>2. CASE pg # v
    BY <1>1, <1>4, <2>2 DEF Pending
  <2> QED BY <2>1, <2>2
<1> QED BY <1>5, <1>6, <1>7, <1>8, <1>9, <1>10, <1>11, <1>12, <1>13, <1>14, <1>15 DEF Strong

(* The frame goes back to the list, which did not have it. *)
LEMMA AppendFrameKeeps ==
  ASSUME TypeOK, Strong, NEW p \in Proc, AppendFrame(p), panic' = panic, broken' = {}
  PROVE  Strong' /\ StoresKept
<1>1. /\ cause' = cause /\ claim' = claim /\ got' = got /\ slot' = slot /\ parent' = parent
      /\ ops' = ops /\ init' = init /\ frame' = frame /\ swap_index' = swap_index
      /\ fkva' = fkva /\ fpage' = fpage /\ pml4' = pml4 /\ dirty' = dirty /\ used' = used
      /\ mem' = mem /\ swap_table' = swap_table /\ swap' = swap /\ file' = file
      /\ expect' = expect
  BY DEF AppendFrame, At, locals, pages, memory, tables, store
<1>2. pc[p] = "append"
  BY DEF AppendFrame, At, Page
<1>3. /\ frame_list' = Append(frame_list, got[p])
      /\ \A q \in Proc : pc'[q] = IF q = p THEN "link" ELSE pc[q]
  BY <1>2, Pages DEF AppendFrame, Goto, TypeOK
<1>4. ClaimInv'
  BY <1>1, <1>2, <1>3 DEF Strong, ClaimInv, ClaimOf, Claiming
<1>5. HeldInv'
  BY <1>1, <1>2, <1>3 DEF Strong, HeldInv, HeldOf, Unallocated, Holding, Evicting
<1>6. FrameInv'
  BY <1>1 DEF Strong, FrameInv, Live
<1>7. MapInv'
  BY <1>1, <1>2, <1>3, Owners DEF Strong, MapInv, MapOf, Live
<1>8. EmptyInv'
  BY <1>1, <1>3, Owners DEF Strong, EmptyInv, EmptyOf
<1>9. SwapInv'
  BY <1>1, <1>2, <1>3, Owners DEF Strong, SwapInv, SwapOf
<1>10. SlotInv'
  BY <1>1, <1>2, <1>3 DEF Strong, SlotInv, SlotOf
<1>11. VictimInv'
  BY <1>1, <1>3 DEF Strong, VictimInv, VictimOf, Evicting
<1>12. ContentInv'
  BY <1>1 DEF Strong, ContentInv, ContentOf
<1>13. ForkInv'
  BY <1>1, <1>2, <1>3 DEF Strong, ForkInv, ForkOf, Copying, Claiming
<1>14. StoresKept
  BY <1>1 DEF StoresKept, Pending
<1> QED BY <1>4, <1>5, <1>6, <1>7, <1>8, <1>9, <1>10, <1>11, <1>12, <1>13, <1>14 DEF Strong

(* A claim that gets its page table entry: the frame's page of the pool is *)
(* in no other entry, since the frame was held by the process alone        *)
(* (HeldOf), and the page was mapped nowhere (ClaimOf).                    *)
LEMMA LinkMapsKeeps ==
  ASSUME TypeOK, Strong, NEW p \in Proc, Link(p), pc'[p] = "swap_in", panic' = panic, broken' = {}
  PROVE  Strong' /\ StoresKept
<1>1. /\ cause' = cause /\ claim' = claim /\ got' = got /\ slot' = slot /\ parent' = parent
      /\ ops' = ops /\ init' = init /\ swap_index' = swap_index /\ fkva' = fkva
      /\ frame_list' = frame_list /\ used' = used /\ mem' = mem /\ swap_table' = swap_table
      /\ swap' = swap /\ file' = file /\ expect' = expect
  BY DEF Link, At, ClaimFails, Goto, TypeOK, tables, store, health
<1>2. /\ pc[p] = "link"
      /\ pml4[claim[p]] = NULL
      /\ claim[p] \in Page
      /\ got[p] \in Frame
  BY DEF Link, At, Strong, ClaimInv, ClaimOf, HeldInv, HeldOf, Claiming, Holding, Page
<1>3. /\ claim[p][1] = p
      /\ fpage[got[p]] = NULL
      /\ fkva[got[p]] # NULL
      /\ ops[claim[p]] # "none"
      /\ ops[claim[p]] = "anon" => swap_index[claim[p]] # NULL
      /\ Live(got[p])
      /\ \A pg \in Page : pml4[pg] # NULL => pml4[pg] # fkva[got[p]]
  BY <1>2, Types, Nulls, Owners
     DEF Strong, ClaimInv, ClaimOf, Claiming, HeldInv, HeldOf, Unallocated, Holding, Evicting,
         SwapInv, SwapOf, MapInv, MapOf, Live, FrameInv
<1>4. /\ \A f \in Frame : fpage'[f] = IF f = got[p] THEN claim[p] ELSE fpage[f]
      /\ \A pg \in Page : frame'[pg] = IF pg = claim[p] THEN got[p] ELSE frame[pg]
      /\ \A pg \in Page : pml4'[pg] = IF pg = claim[p] THEN fkva[got[p]] ELSE pml4[pg]
      /\ \A pg \in Page : dirty'[pg] = IF pg = claim[p] THEN FALSE ELSE dirty[pg]
      /\ \A q \in Proc : pc'[q] = IF q = p THEN "swap_in" ELSE pc[q]
  <2>1. \A f \in Frame : fpage'[f] = IF f = got[p] THEN claim[p] ELSE fpage[f]
    BY <1>2 DEF Link, Goto, ClaimFails, TypeOK
  <2>2. \A pg \in Page : frame'[pg] = IF pg = claim[p] THEN got[p] ELSE frame[pg]
    BY <1>2 DEF Link, Goto, ClaimFails, TypeOK
  <2>3. \A pg \in Page : pml4'[pg] = IF pg = claim[p] THEN fkva[got[p]] ELSE pml4[pg]
    BY <1>2 DEF Link, Goto, ClaimFails, TypeOK
  <2>4. \A pg \in Page : dirty'[pg] = IF pg = claim[p] THEN FALSE ELSE dirty[pg]
    <3>1. dirty' = [dirty EXCEPT ![claim[p]] = FALSE]
      BY <1>2 DEF Link, ClaimFails, TypeOK
    <3> QED BY <3>1 DEF TypeOK
  <2>5. \A q \in Proc : pc'[q] = IF q = p THEN "swap_in" ELSE pc[q]
    BY <1>2 DEF Link, Goto, ClaimFails, TypeOK
  <2> QED BY <2>1, <2>2, <2>3, <2>4, <2>5
<1>5. ClaimInv'
  <2> SUFFICES ASSUME NEW q \in Proc PROVE ClaimOf(q)'
    BY DEF ClaimInv
  <2>1. ClaimOf(q)
    BY DEF Strong, ClaimInv
  <2>2. CASE q = p
    BY <1>1, <1>2, <1>4, <1>3, <2>1, <2>2 DEF Strong, ClaimOf, Claiming
  <2>3. CASE q # p
    BY <1>1, <1>4, <1>3, <2>1, <2>3 DEF Strong, ClaimOf, Claiming
  <2> QED BY <2>2, <2>3
<1>6. HeldInv'
  BY <1>1, <1>2, <1>4 DEF Strong, HeldInv, HeldOf, Unallocated, Holding, Evicting
<1>7. FrameInv'
  BY <1>1, <1>4, Types, <1>3, Nulls DEF Strong, FrameInv, Live
<1>8. MapInv'
  BY <1>1, <1>2, <1>4, <1>3, Nulls, Owners DEF Strong, MapInv, MapOf, Live, FrameInv
<1>9. EmptyInv'
  BY <1>1, <1>4, <1>3, Owners DEF Strong, EmptyInv, EmptyOf
<1>10. SwapInv'
  BY <1>1, <1>4, <1>3, Owners DEF Strong, SwapInv, SwapOf
<1>11. SlotInv'
  BY <1>1, <1>2, <1>4 DEF Strong, SlotInv, SlotOf
<1>12. VictimInv'
  BY <1>1, <1>2, <1>4
     DEF Strong, VictimInv, VictimOf, Evicting, HeldInv, HeldOf, Unallocated, Holding
<1>13. ContentInv'
  <2> SUFFICES ASSUME NEW pg \in Page PROVE ContentOf(pg)'
    BY DEF ContentInv
  <2>1. ContentOf(pg)
    BY DEF Strong, ContentInv
  <2> QED BY <1>1, <1>4, <1>3, <2>1 DEF Strong, ContentOf
<1>14. ForkInv'
  BY <1>1, <1>2, <1>4 DEF Strong, ForkInv, ForkOf, Copying, Claiming
<1>15. StoresKept
  <2> SUFFICES ASSUME NEW pg \in Page, Pending(pg) PROVE Pending(pg)' \/ file' = "stored"
    BY DEF StoresKept
  <2> QED BY <1>1, <1>2, <1>4 DEF Strong, Pending
<1> QED BY <1>5, <1>6, <1>7, <1>8, <1>9, <1>10, <1>11, <1>12, <1>13, <1>14, <1>15 DEF Strong

(* A claim that fails when it is to be mapped: page and frame name each    *)
(* other all the same, and the page keeps its slot, so that nothing is     *)
(* lost.                                                                   *)
LEMMA LinkFailsKeeps ==
  ASSUME TypeOK, Strong, NEW p \in Proc, Link(p), pc'[p] # "swap_in", panic' = panic, broken' = {}
  PROVE  Strong' /\ StoresKept
<1>1. /\ slot' = slot /\ parent' = parent /\ ops' = ops /\ init' = init
      /\ swap_index' = swap_index /\ fkva' = fkva /\ frame_list' = frame_list /\ pml4' = pml4
      /\ dirty' = dirty /\ used' = used /\ mem' = mem /\ swap_table' = swap_table
      /\ swap' = swap /\ file' = file /\ expect' = expect
  BY DEF Link, At, ClaimFails, Goto, TypeOK, tables, store, health
<1>2. /\ pc[p] = "link"
      /\ claim[p] \in Page
      /\ got[p] \in Frame
  BY DEF Link, At, Strong, ClaimInv, ClaimOf, HeldInv, HeldOf, Claiming, Holding, Page
<1>3. /\ claim[p][1] = p
      /\ fpage[got[p]] = NULL
      /\ fkva[got[p]] # NULL
      /\ ops[claim[p]] # "none"
      /\ pml4[claim[p]] = NULL
      /\ slot[p] = NULL
      /\ Live(got[p])
      /\ cause[p] = "copy" => parent[p] \in Proc /\ parent[p] # p /\ pc[parent[p]] = "forking"
  BY <1>2, Nulls
     DEF Strong, ClaimInv, ClaimOf, Claiming, HeldInv, HeldOf, Unallocated, Holding, Evicting,
         SwapInv, SwapOf, MapInv, MapOf, Live, FrameInv, SlotInv, SlotOf, ForkInv, ForkOf,
         Copying
<1>4. /\ \A f \in Frame : fpage'[f] = IF f = got[p] THEN claim[p] ELSE fpage[f]
      /\ \A pg \in Page : frame'[pg] = IF pg = claim[p] THEN got[p] ELSE frame[pg]
      /\ \A q \in Proc : cause'[q] = IF q = p THEN "exit" ELSE cause[q]
      /\ \A q \in Proc : claim'[q] = IF q = p THEN NULL ELSE claim[q]
      /\ \A q \in Proc : got'[q] = IF q = p THEN NULL ELSE got[q]
      /\ \A q \in Proc : pc'[q] = IF q = p THEN IF cause[p] = "grow" THEN "user" ELSE "close"
                                   ELSE IF cause[p] = "copy" /\ q = parent[p] THEN "user"
                                       ELSE pc[q]
  <2>1. \A f \in Frame : fpage'[f] = IF f = got[p] THEN claim[p] ELSE fpage[f]
    BY <1>2, Pages DEF Link, Goto, ClaimFails, TypeOK
  <2>2. \A pg \in Page : frame'[pg] = IF pg = claim[p] THEN got[p] ELSE frame[pg]
    BY <1>2, Pages DEF Link, Goto, ClaimFails, TypeOK
  <2>3. \A q \in Proc : cause'[q] = IF q = p THEN "exit" ELSE cause[q]
    BY <1>2, Pages DEF Link, Goto, ClaimFails, TypeOK
  <2>4. \A q \in Proc : claim'[q] = IF q = p THEN NULL ELSE claim[q]
    BY <1>2, Pages DEF Link, Goto, ClaimFails, TypeOK
  <2>5. \A q \in Proc : got'[q] = IF q = p THEN NULL ELSE got[q]
    BY <1>2, Pages DEF Link, Goto, ClaimFails, TypeOK
  <2>6. \A q \in Proc : pc'[q] = IF q = p THEN IF cause[p] = "grow" THEN "user" ELSE "close"
                                   ELSE IF cause[p] = "copy" /\ q = parent[p] THEN "user"
                                       ELSE pc[q]
    BY <1>2, Pages DEF Link, Goto, ClaimFails, TypeOK
  <2> QED BY <2>1, <2>2, <2>3, <2>4, <2>5, <2>6
<1>5. ClaimInv'
  BY <1>1, <1>2, <1>4 DEF Strong, ClaimInv, ClaimOf, Claiming
<1>6. HeldInv'
  BY <1>1, <1>2, <1>4 DEF Strong, HeldInv, HeldOf, Unallocated, Holding, Evicting
<1>7. FrameInv'
  BY <1>1, <1>4, Types, <1>3, Nulls DEF Strong, FrameInv, Live
<1>8. MapInv'
  BY <1>1, <1>2, <1>4, <1>3, Owners DEF Strong, MapInv, MapOf, Live, FrameInv
<1>9. EmptyInv'
  BY <1>1, <1>4, <1>3, Owners DEF Strong, EmptyInv, EmptyOf
<1>10. SwapInv'
  BY <1>1, <1>4, <1>3, Owners DEF Strong, SwapInv, SwapOf
<1>11. SlotInv'
  BY <1>1, <1>4, <1>3 DEF Strong, SlotInv, SlotOf
<1>12. VictimInv'
  BY <1>1, <1>2, <1>4
     DEF Strong, VictimInv, VictimOf, Evicting, HeldInv, HeldOf, Unallocated, Holding
<1>13. ContentInv'
  BY <1>1 DEF Strong, ContentInv, ContentOf
<1>14. ForkInv'
  BY <1>1, <1>2, <1>4 DEF Strong, ForkInv, ForkOf, Copying, Claiming
<1>15. StoresKept
  BY <1>1 DEF StoresKept, Pending
<1> QED BY <1>5, <1>6, <1>7, <1>8, <1>9, <1>10, <1>11, <1>12, <1>13, <1>14, <1>15 DEF Strong

(* The end of an eviction by the page's own process: the slot that it took *)
(* gets the page's number (VictimOf says that the content is in it), the   *)
(* entry goes and page and frame are parted.                               *)
LEMMA UnlinkKeeps ==
  ASSUME TypeOK, Strong, NEW p \in Proc, Unlink(p), panic' = panic, broken' = {}
  PROVE  Strong' /\ StoresKept
<1> DEFINE v == Victim(p)
           evicted == ops[v] = "file" \/ swap_index[v] = NULL
<1>1. /\ cause' = cause /\ claim' = claim /\ got' = got /\ parent' = parent /\ ops' = ops
      /\ init' = init /\ fkva' = fkva /\ frame_list' = frame_list /\ used' = used
      /\ mem' = mem /\ swap_table' = swap_table /\ swap' = swap /\ file' = file
      /\ expect' = expect
  BY DEF Unlink, At, store
<1>2. /\ pc[p] = "unlink"
      /\ v \in Page
      /\ v = << p, v[2] >>
      /\ v[1] = p
      /\ got[p] \in Frame
      /\ v = fpage[got[p]]
  <2>1. pc[p] = "unlink" /\ v \in Page /\ v = << p, v[2] >> /\ v = fpage[got[p]]
    BY DEF Unlink, At, Victim
  <2>2. v[1] = p
    BY <2>1
  <2>3. got[p] \in Frame
    BY <2>1 DEF Strong, HeldInv, HeldOf, Holding, Evicting
  <2> QED BY <2>1, <2>2, <2>3
<1>3. /\ \A pg \in Page : swap_index'[pg] =
             IF pg = v THEN IF ops[v] = "anon" /\ evicted THEN slot[p] ELSE swap_index[v]
                 ELSE swap_index[pg]
      /\ \A pg \in Page : pml4'[pg] = IF pg = v THEN NULL ELSE pml4[pg]
      /\ \A pg \in Page : dirty'[pg] = IF pg = v THEN FALSE ELSE dirty[pg]
      /\ \A f \in Frame : fpage'[f] =
             IF f = got[p] \/ (evicted /\ f = frame[v]) THEN NULL ELSE fpage[f]
      /\ \A pg \in Page : frame'[pg] = IF pg = v THEN NULL ELSE frame[pg]
      /\ \A q \in Proc : pc'[q] = IF q = p THEN "append" ELSE pc[q]
      /\ \A q \in Proc : slot'[q] = IF q = p THEN NULL ELSE slot[q]
  <2>1. \A pg \in Page : swap_index'[pg] =
            IF pg = v THEN IF ops[v] = "anon" /\ evicted THEN slot[p] ELSE swap_index[v]
                ELSE swap_index[pg]
    BY <1>2 DEF Unlink, Goto, TypeOK
  <2>2. \A pg \in Page : pml4'[pg] = IF pg = v THEN NULL ELSE pml4[pg]
    BY <1>2 DEF Unlink, Goto, TypeOK
  <2>3. \A pg \in Page : dirty'[pg] = IF pg = v THEN FALSE ELSE dirty[pg]
    BY <1>2 DEF Unlink, Goto, TypeOK
  <2>4. \A f \in Frame : fpage'[f] =
            IF f = got[p] \/ (evicted /\ f = frame[v]) THEN NULL ELSE fpage[f]
    BY <1>2 DEF Unlink, Goto, TypeOK
  <2>5. \A pg \in Page : frame'[pg] = IF pg = v THEN NULL ELSE frame[pg]
    BY <1>2 DEF Unlink, Goto, TypeOK
  <2>6. \A q \in Proc : pc'[q] = IF q = p THEN "append" ELSE pc[q]
    BY <1>2 DEF Unlink, Goto, TypeOK
  <2>7. \A q \in Proc : slot'[q] = IF q = p THEN NULL ELSE slot[q]
    BY <1>2 DEF Unlink, Goto, TypeOK
  <2> QED BY <2>1, <2>2, <2>3, <2>4, <2>5, <2>6, <2>7
<1> HIDE DEF v
<1>4. ClaimInv'
  <2> SUFFICES ASSUME NEW q \in Proc PROVE ClaimOf(q)'
    BY DEF ClaimInv
  <2>1. ClaimOf(q)
    BY DEF Strong, ClaimInv
  <2> QED BY <1>1, <1>2, <1>3, Types, Nulls, Owners, <2>1
             DEF Strong, ClaimOf, Claiming, HeldInv, HeldOf, Unallocated, Holding, Evicting
<1>5. HeldInv'
  BY <1>1, <1>2, <1>3 DEF Strong, HeldInv, HeldOf, Unallocated, Holding, Evicting
<1>6. FrameInv'
  BY <1>1, <1>2, <1>3, Types, Nulls, Owners
     DEF Strong, FrameInv, Live, HeldInv, HeldOf, Unallocated, Holding, Evicting
<1>7. MapInv'
  BY <1>1, <1>2, <1>3, Nulls, Owners DEF Strong, MapInv, MapOf, Live, FrameInv
<1>8. EmptyInv'
  BY <1>1, <1>3, Owners
     DEF Strong, EmptyInv, EmptyOf, VictimInv, VictimOf, Evicting, SlotInv, SlotOf, FrameInv,
         Live
<1>9. SwapInv'
  BY <1>1, <1>2, <1>3, Owners
     DEF Strong, SwapInv, SwapOf, SlotInv, SlotOf, VictimInv, VictimOf, Evicting
<1>10. SlotInv'
  BY <1>1, <1>2, <1>3 DEF Strong, SlotInv, SlotOf, VictimInv, VictimOf, Evicting
<1>11. VictimInv'
  BY <1>1, <1>2, <1>3, Nulls
     DEF Strong, VictimInv, VictimOf, Evicting, FrameInv, Live, HeldInv, HeldOf, Unallocated,
         Holding
<1>12. ContentInv'
  <2> SUFFICES ASSUME NEW pg \in Page PROVE ContentOf(pg)'
    BY DEF ContentInv
  <2>1. ContentOf(pg)
    BY DEF Strong, ContentInv
  <2>2. CASE pg = v
    <3>1. VictimOf(p, v)
      BY <1>2 DEF Strong, VictimInv
    <3> QED BY <1>1, <1>2, <1>3, <3>1, <2>1, <2>2 DEF ContentOf, VictimOf, Evicting
  <2>3. CASE pg # v
    BY <1>1, <1>3, <2>1, <2>3 DEF ContentOf
  <2> QED BY <2>2, <2>3
<1>13. ForkInv'
  BY <1>1, <1>2, <1>3 DEF Strong, ForkInv, ForkOf, Copying, Claiming
<1>14. StoresKept
  <2> SUFFICES ASSUME NEW pg \in Page, Pending(pg) PROVE Pending(pg)' \/ file' = "stored"
    BY DEF StoresKept
  <2>1. VictimOf(p, v)
    BY <1>2 DEF Strong, VictimInv
  <2>2. pg # v
    BY <1>2, <2>1 DEF Pending, VictimOf, Evicting
  <2> QED BY <1>1, <1>3, <2>2 DEF Pending
<1> QED BY <1>4, <1>5, <1>6, <1>7, <1>8, <1>9, <1>10, <1>11, <1>12, <1>13, <1>14 DEF Strong

(* A page that was never loaded gets its first content in its own frame. *)
LEMMA SwapInUninitKeeps ==
  ASSUME TypeOK, Strong, NEW p \in Proc, SwapInUninit(p), Returns(p), panic' = panic, broken' = {}
  PROVE  Strong' /\ StoresKept
<1> DEFINE c == claim[p]
<1>1. /\ slot' = slot /\ parent' = parent /\ init' = init /\ frame' = frame /\ fkva' = fkva
      /\ fpage' = fpage /\ frame_list' = frame_list /\ pml4' = pml4 /\ dirty' = dirty
      /\ used' = used /\ swap_table' = swap_table /\ swap' = swap /\ file' = file
  BY DEF SwapInUninit, At, Returns, ClaimFails, Goto, frames, tables
<1>2. /\ pc[p] = "swap_in"
      /\ c = claim[p]
      /\ ops[c] = "uninit"
  BY DEF SwapInUninit, At, Page
<1>3. /\ c \in Page
      /\ c[1] = p
      /\ pml4[c] # NULL
      /\ ~ dirty[c]
      /\ fkva[got[p]] = pml4[c]
      /\ \A pg \in Page : pg # c => pml4[pg] # pml4[c]
      /\ pml4[c] \in Kva
      /\ slot[p] = NULL
      /\ ops[c] # "none"
      /\ init[c] \in {"segment", "null", "file", "copy"}
  BY <1>2, Types, Nulls, Owners
     DEF Strong, ClaimInv, ClaimOf, Claiming, MapInv, MapOf, Live, SlotInv, SlotOf, FrameInv,
         SwapInv, SwapOf, TypeOK
<1>4. /\ \A pg \in Page : ops'[pg] =
             IF pg = c THEN IF init[c] \in {"file", "copy"} THEN "file" ELSE "anon" ELSE ops[pg]
      /\ \A pg \in Page : swap_index'[pg] = IF pg = c THEN NULL ELSE swap_index[pg]
      /\ \A k \in Kva : mem'[k] = IF k = pml4[c] THEN mem'[pml4[c]] ELSE mem[k]
      /\ \A pg \in Page : expect'[pg] = IF pg = c THEN expect'[c] ELSE expect[pg]
      /\ expect'[c] = "any" \/ (expect'[c] = "file" /\ mem'[pml4[c]] = "file")
      /\ \A q \in Proc : got'[q] = IF q = p THEN NULL ELSE got[q]
      /\ \A q \in Proc : pc'[q] =
             IF q = p THEN IF cause[p] = "copy" THEN "memcpy" ELSE "user" ELSE pc[q]
      /\ \A q \in Proc : claim'[q] =
             IF q = p THEN IF cause[p] = "copy" THEN claim[p] ELSE NULL ELSE claim[q]
      /\ \A q \in Proc : cause'[q] =
             IF q = p THEN IF cause[p] = "copy" THEN "copy" ELSE "exit" ELSE cause[q]
  <2>1. \A pg \in Page : ops'[pg] =
            IF pg = c THEN IF init[c] \in {"file", "copy"} THEN "file" ELSE "anon" ELSE ops[pg]
    BY <1>2, <1>3 DEF SwapInUninit, Goto, Returns, ClaimFails, TypeOK
  <2>2. \A pg \in Page : swap_index'[pg] = IF pg = c THEN NULL ELSE swap_index[pg]
    BY <1>2, <1>3 DEF SwapInUninit, Goto, Returns, ClaimFails, TypeOK
  <2>3. \A k \in Kva : mem'[k] = IF k = pml4[c] THEN mem'[pml4[c]] ELSE mem[k]
    BY <1>2, <1>3 DEF SwapInUninit, Goto, Returns, ClaimFails, TypeOK
  <2>4. \A pg \in Page : expect'[pg] = IF pg = c THEN expect'[c] ELSE expect[pg]
    BY <1>2, <1>3 DEF SwapInUninit, Goto, Returns, ClaimFails, TypeOK
  <2>5. \A q \in Proc : got'[q] = IF q = p THEN NULL ELSE got[q]
    BY <1>2, <1>3 DEF SwapInUninit, Goto, Returns, ClaimFails, TypeOK
  <2>6. \A q \in Proc : pc'[q] =
            IF q = p THEN IF cause[p] = "copy" THEN "memcpy" ELSE "user" ELSE pc[q]
    BY <1>2, <1>3 DEF SwapInUninit, Goto, Returns, ClaimFails, TypeOK
  <2>7. \A q \in Proc : claim'[q] =
            IF q = p THEN IF cause[p] = "copy" THEN claim[p] ELSE NULL ELSE claim[q]
    BY <1>2, <1>3 DEF SwapInUninit, Goto, Returns, ClaimFails, TypeOK
  <2>8. \A q \in Proc : cause'[q] =
            IF q = p THEN IF cause[p] = "copy" THEN "copy" ELSE "exit" ELSE cause[q]
    BY <1>2, <1>3 DEF SwapInUninit, Goto, Returns, ClaimFails, TypeOK
  <2>9. expect'[c] = "any" \/ (expect'[c] = "file" /\ mem'[pml4[c]] = "file")
    BY <1>3 DEF SwapInUninit, FirstContent, TypeOK
  <2> QED BY <2>1, <2>2, <2>3, <2>4, <2>5, <2>6, <2>7, <2>8, <2>9
<1> HIDE DEF c
<1>5. ClaimInv'
  BY <1>1, <1>2, <1>4 DEF Strong, ClaimInv, ClaimOf, Claiming
<1>6. HeldInv'
  BY <1>1, <1>4 DEF Strong, HeldInv, HeldOf, Unallocated, Holding, Evicting
<1>7. FrameInv'
  BY <1>1, <1>4 DEF Strong, FrameInv, Live
<1>8. MapInv'
  BY <1>1, <1>2, <1>4, Owners DEF Strong, MapInv, MapOf, Live
<1>9. EmptyInv'
  BY <1>1, <1>2, <1>4, Owners DEF Strong, EmptyInv, EmptyOf
<1>10. SwapInv'
  BY <1>1, <1>2, <1>4, <1>3, Owners DEF Strong, SwapInv, SwapOf
<1>11. SlotInv'
  BY <1>1, <1>2, <1>4 DEF Strong, SlotInv, SlotOf
<1>12. VictimInv'
  BY <1>1, <1>2, <1>4 DEF Strong, VictimInv, VictimOf, Evicting
<1>13. ContentInv'
  <2> SUFFICES ASSUME NEW pg \in Page PROVE ContentOf(pg)'
    BY DEF ContentInv
  <2>1. ContentOf(pg)
    BY DEF Strong, ContentInv
  <2>2. CASE pg = c
    BY <1>1, <1>4, <1>3, <2>1, <2>2 DEF Strong, ContentOf, SwapInv, SwapOf
  <2>3. CASE pg # c
    BY <1>1, <1>4, Types, <1>3, <2>1, <2>3 DEF Strong, ContentOf, SwapInv, SwapOf
  <2> QED BY <2>2, <2>3
<1>14. ForkInv'
  BY <1>1, <1>2, <1>4 DEF Strong, ForkInv, ForkOf, Copying, Claiming
<1>15. StoresKept
  <2> SUFFICES ASSUME NEW pg \in Page, Pending(pg) PROVE Pending(pg)' \/ file' = "stored"
    BY DEF StoresKept
  <2> QED BY <1>1, <1>4, Types, <1>3 DEF Strong, Pending
<1> QED BY <1>5, <1>6, <1>7, <1>8, <1>9, <1>10, <1>11, <1>12, <1>13, <1>14, <1>15 DEF Strong

(* A page that cannot be loaded stays in its frame, and nothing is expected *)
(* of it; a child gives up and its parent goes on.                         *)
LEMMA SwapInUninitFailsKeeps ==
  ASSUME TypeOK, Strong, NEW p \in Proc, SwapInUninit(p), ClaimFails(p), panic' = panic,
         broken' = {}
  PROVE  Strong' /\ StoresKept
<1> DEFINE c == claim[p]
<1>1. /\ slot' = slot /\ parent' = parent /\ init' = init /\ frame' = frame /\ fkva' = fkva
      /\ fpage' = fpage /\ frame_list' = frame_list /\ pml4' = pml4 /\ dirty' = dirty
      /\ used' = used /\ swap_table' = swap_table /\ swap' = swap /\ file' = file
  BY DEF SwapInUninit, At, Returns, ClaimFails, Goto, frames, tables
<1>2. /\ pc[p] = "swap_in"
      /\ c = claim[p]
      /\ ops[c] = "uninit"
  BY DEF SwapInUninit, At, Page
<1>3. /\ c \in Page
      /\ c[1] = p
      /\ pml4[c] # NULL
      /\ ~ dirty[c]
      /\ fkva[got[p]] = pml4[c]
      /\ \A pg \in Page : pg # c => pml4[pg] # pml4[c]
      /\ pml4[c] \in Kva
      /\ slot[p] = NULL
      /\ ops[c] # "none"
      /\ init[c] \in {"segment", "null", "file", "copy"}
  BY <1>2, Types, Nulls, Owners
     DEF Strong, ClaimInv, ClaimOf, Claiming, MapInv, MapOf, Live, SlotInv, SlotOf, FrameInv,
         SwapInv, SwapOf, TypeOK
<1>0. cause[p] = "copy" => parent[p] \in Proc /\ parent[p] # p /\ pc[parent[p]] = "forking"
  BY <1>2 DEF Strong, ForkInv, ForkOf, Copying, Claiming
<1>4. /\ \A pg \in Page : ops'[pg] =
             IF pg = c THEN IF init[c] \in {"file", "copy"} THEN "file" ELSE "anon" ELSE ops[pg]
      /\ \A pg \in Page : swap_index'[pg] = IF pg = c THEN NULL ELSE swap_index[pg]
      /\ \A k \in Kva : mem'[k] = IF k = pml4[c] THEN mem'[pml4[c]] ELSE mem[k]
      /\ \A pg \in Page : expect'[pg] = IF pg = c THEN expect'[c] ELSE expect[pg]
      /\ expect'[c] = "any" \/ (expect'[c] = "file" /\ mem'[pml4[c]] = "file")
      /\ \A q \in Proc : got'[q] = IF q = p THEN NULL ELSE got[q]
      /\ \A q \in Proc : pc'[q] = IF q = p THEN IF cause[p] = "grow" THEN "user" ELSE "close"
                                   ELSE IF cause[p] = "copy" /\ q = parent[p] THEN "user"
                                       ELSE pc[q]
      /\ \A q \in Proc : claim'[q] = IF q = p THEN NULL ELSE claim[q]
      /\ \A q \in Proc : cause'[q] = IF q = p THEN "exit" ELSE cause[q]
  <2>1. \A pg \in Page : ops'[pg] =
            IF pg = c THEN IF init[c] \in {"file", "copy"} THEN "file" ELSE "anon" ELSE ops[pg]
    BY <1>2, <1>3, <1>0 DEF SwapInUninit, Goto, Returns, ClaimFails, TypeOK
  <2>2. \A pg \in Page : swap_index'[pg] = IF pg = c THEN NULL ELSE swap_index[pg]
    BY <1>2, <1>3, <1>0 DEF SwapInUninit, Goto, Returns, ClaimFails, TypeOK
  <2>3. \A k \in Kva : mem'[k] = IF k = pml4[c] THEN mem'[pml4[c]] ELSE mem[k]
    BY <1>2, <1>3, <1>0 DEF SwapInUninit, Goto, Returns, ClaimFails, TypeOK
  <2>4. \A pg \in Page : expect'[pg] = IF pg = c THEN expect'[c] ELSE expect[pg]
    BY <1>2, <1>3, <1>0 DEF SwapInUninit, Goto, Returns, ClaimFails, TypeOK
  <2>5. \A q \in Proc : got'[q] = IF q = p THEN NULL ELSE got[q]
    BY <1>2, <1>3, <1>0 DEF SwapInUninit, Goto, Returns, ClaimFails, TypeOK
  <2>6. \A q \in Proc : pc'[q] = IF q = p THEN IF cause[p] = "grow" THEN "user" ELSE "close"
                                   ELSE IF cause[p] = "copy" /\ q = parent[p] THEN "user"
                                       ELSE pc[q]
    BY <1>2, <1>3, <1>0 DEF SwapInUninit, Goto, Returns, ClaimFails, TypeOK
  <2>7. \A q \in Proc : claim'[q] = IF q = p THEN NULL ELSE claim[q]
    BY <1>2, <1>3, <1>0 DEF SwapInUninit, Goto, Returns, ClaimFails, TypeOK
  <2>8. \A q \in Proc : cause'[q] = IF q = p THEN "exit" ELSE cause[q]
    BY <1>2, <1>3, <1>0 DEF SwapInUninit, Goto, Returns, ClaimFails, TypeOK
  <2>9. expect'[c] = "any" \/ (expect'[c] = "file" /\ mem'[pml4[c]] = "file")
    BY <1>3, <1>0 DEF SwapInUninit, FirstContent, TypeOK
  <2> QED BY <2>1, <2>2, <2>3, <2>4, <2>5, <2>6, <2>7, <2>8, <2>9
<1> HIDE DEF c
<1>5. ClaimInv'
  BY <1>1, <1>2, <1>4 DEF Strong, ClaimInv, ClaimOf, Claiming
<1>6. HeldInv'
  BY <1>1, <1>4 DEF Strong, HeldInv, HeldOf, Unallocated, Holding, Evicting
<1>7. FrameInv'
  BY <1>1, <1>4 DEF Strong, FrameInv, Live
<1>8. MapInv'
  BY <1>1, <1>2, <1>4, <1>3, <1>0, Owners DEF Strong, MapInv, MapOf, Live
<1>9. EmptyInv'
  BY <1>1, <1>2, <1>4, Owners DEF Strong, EmptyInv, EmptyOf
<1>10. SwapInv'
  BY <1>1, <1>2, <1>4, <1>3, <1>0, Owners DEF Strong, SwapInv, SwapOf
<1>11. SlotInv'
  BY <1>1, <1>2, <1>4, <1>3, <1>0 DEF Strong, SlotInv, SlotOf
<1>12. VictimInv'
  BY <1>1, <1>2, <1>4 DEF Strong, VictimInv, VictimOf, Evicting
<1>13. ContentInv'
  <2> SUFFICES ASSUME NEW pg \in Page PROVE ContentOf(pg)'
    BY DEF ContentInv
  <2>1. ContentOf(pg)
    BY DEF Strong, ContentInv
  <2>2. CASE pg = c
    BY <1>1, <1>4, <1>3, <1>0, <2>1, <2>2 DEF Strong, ContentOf, SwapInv, SwapOf
  <2>3. CASE pg # c
    BY <1>1, <1>4, Types, <1>3, <1>0, <2>1, <2>3 DEF Strong, ContentOf, SwapInv, SwapOf
  <2> QED BY <2>2, <2>3
<1>14. ForkInv'
  BY <1>1, <1>2, <1>4 DEF Strong, ForkInv, ForkOf, Copying, Claiming
<1>15. StoresKept
  <2> SUFFICES ASSUME NEW pg \in Page, Pending(pg) PROVE Pending(pg)' \/ file' = "stored"
    BY DEF StoresKept
  <2> QED BY <1>1, <1>4, Types, <1>3, <1>0 DEF Strong, Pending
<1> QED BY <1>5, <1>6, <1>7, <1>8, <1>9, <1>10, <1>11, <1>12, <1>13, <1>14, <1>15 DEF Strong

(* A page comes back from its slot: what was expected in the slot is now   *)
(* in its frame, and the slot, given up, was no other page's.              *)
LEMMA SwapInAnonKeeps ==
  ASSUME TypeOK, Strong, NEW p \in Proc, SwapInAnon(p), panic' = panic, broken' = {}
  PROVE  Strong' /\ StoresKept
<1> DEFINE c == claim[p]
<1>1. /\ slot' = slot /\ parent' = parent /\ ops' = ops /\ init' = init /\ frame' = frame
      /\ fkva' = fkva /\ fpage' = fpage /\ frame_list' = frame_list /\ pml4' = pml4
      /\ dirty' = dirty /\ used' = used /\ file' = file /\ expect' = expect
  BY DEF SwapInAnon, At, Returns, Goto, frames, tables, health
<1>2. /\ pc[p] = "swap_in"
      /\ c = claim[p]
      /\ ops[c] = "anon"
  BY DEF SwapInAnon, At, Page
<1>3. /\ c \in Page
      /\ c[1] = p
      /\ pml4[c] # NULL
      /\ ~ dirty[c]
      /\ fkva[got[p]] = pml4[c]
      /\ \A pg \in Page : pg # c => pml4[pg] # pml4[c]
      /\ pml4[c] \in Kva
      /\ slot[p] = NULL
      /\ swap_index[c] # NULL
      /\ \A pg \in Page : pg # c => swap_index[pg] # swap_index[c]
  BY <1>2, Types
     DEF Strong, ClaimInv, ClaimOf, Claiming, MapInv, MapOf, Live, SlotInv, SlotOf, FrameInv,
         SwapInv, SwapOf
<1>4. /\ \A pg \in Page : swap_index'[pg] = IF pg = c THEN NULL ELSE swap_index[pg]
      /\ swap_table' = swap_table \ {swap_index[c]}
      /\ \A s \in Slot : swap'[s] = IF s = swap_index[c] THEN "any" ELSE swap[s]
      /\ \A k \in Kva : mem'[k] = IF k = pml4[c] THEN swap[swap_index[c]] ELSE mem[k]
      /\ \A q \in Proc : got'[q] = IF q = p THEN NULL ELSE got[q]
      /\ \A q \in Proc : pc'[q] =
             IF q = p THEN IF cause[p] = "copy" THEN "memcpy" ELSE "user" ELSE pc[q]
      /\ \A q \in Proc : claim'[q] =
             IF q = p THEN IF cause[p] = "copy" THEN claim[p] ELSE NULL ELSE claim[q]
      /\ \A q \in Proc : cause'[q] =
             IF q = p THEN IF cause[p] = "copy" THEN "copy" ELSE "exit" ELSE cause[q]
  <2>1. \A pg \in Page : swap_index'[pg] = IF pg = c THEN NULL ELSE swap_index[pg]
    BY <1>2, <1>3 DEF SwapInAnon, Goto, Returns, TypeOK
  <2>2. swap_table' = swap_table \ {swap_index[c]}
    BY <1>2, <1>3 DEF SwapInAnon, Goto, Returns, TypeOK
  <2>3. \A s \in Slot : swap'[s] = IF s = swap_index[c] THEN "any" ELSE swap[s]
    BY <1>2, <1>3 DEF SwapInAnon, Goto, Returns, TypeOK
  <2>4. \A k \in Kva : mem'[k] = IF k = pml4[c] THEN swap[swap_index[c]] ELSE mem[k]
    BY <1>2, <1>3 DEF SwapInAnon, Goto, Returns, TypeOK
  <2>5. \A q \in Proc : got'[q] = IF q = p THEN NULL ELSE got[q]
    BY <1>2, <1>3 DEF SwapInAnon, Goto, Returns, TypeOK
  <2>6. \A q \in Proc : pc'[q] =
            IF q = p THEN IF cause[p] = "copy" THEN "memcpy" ELSE "user" ELSE pc[q]
    BY <1>2, <1>3 DEF SwapInAnon, Goto, Returns, TypeOK
  <2>7. \A q \in Proc : claim'[q] =
            IF q = p THEN IF cause[p] = "copy" THEN claim[p] ELSE NULL ELSE claim[q]
    BY <1>2, <1>3 DEF SwapInAnon, Goto, Returns, TypeOK
  <2>8. \A q \in Proc : cause'[q] =
            IF q = p THEN IF cause[p] = "copy" THEN "copy" ELSE "exit" ELSE cause[q]
    BY <1>2, <1>3 DEF SwapInAnon, Goto, Returns, TypeOK
  <2> QED BY <2>1, <2>2, <2>3, <2>4, <2>5, <2>6, <2>7, <2>8
<1> HIDE DEF c
<1>5. ClaimInv'
  BY <1>1, <1>2, <1>4 DEF Strong, ClaimInv, ClaimOf, Claiming
<1>6. HeldInv'
  BY <1>1, <1>4 DEF Strong, HeldInv, HeldOf, Unallocated, Holding, Evicting
<1>7. FrameInv'
  BY <1>1 DEF Strong, FrameInv, Live
<1>8. MapInv'
  BY <1>1, <1>2, <1>4, Owners DEF Strong, MapInv, MapOf, Live
<1>9. EmptyInv'
  BY <1>1, <1>4, Owners DEF Strong, EmptyInv, EmptyOf
<1>10. SwapInv'
  BY <1>1, <1>4, <1>3, Owners DEF Strong, SwapInv, SwapOf
<1>11. SlotInv'
  BY <1>1, <1>4, <1>3 DEF Strong, SlotInv, SlotOf
<1>12. VictimInv'
  BY <1>1, <1>4, Types, <1>3 DEF Strong, VictimInv, VictimOf, Evicting, SlotInv, SlotOf
<1>13. ContentInv'
  BY <1>1, <1>4, Types, <1>3 DEF Strong, ContentInv, ContentOf, SwapInv, SwapOf
<1>14. ForkInv'
  BY <1>1, <1>2, <1>4 DEF Strong, ForkInv, ForkOf, Copying, Claiming
<1>15. StoresKept
  <2> SUFFICES ASSUME NEW pg \in Page, Pending(pg) PROVE Pending(pg)' \/ file' = "stored"
    BY DEF StoresKept
  <2> QED BY <1>1, <1>4, Types, <1>3 DEF Strong, Pending
<1> QED BY <1>5, <1>6, <1>7, <1>8, <1>9, <1>10, <1>11, <1>12, <1>13, <1>14, <1>15 DEF Strong

(* A page of a mapping is read from the file. *)
LEMMA SwapInFileKeeps ==
  ASSUME TypeOK, Strong, NEW p \in Proc, SwapInFile(p), Returns(p), panic' = panic, broken' = {}
  PROVE  Strong' /\ StoresKept
<1> DEFINE c == claim[p]
<1>1. /\ slot' = slot /\ parent' = parent /\ ops' = ops /\ init' = init /\ frame' = frame
      /\ swap_index' = swap_index /\ fkva' = fkva /\ fpage' = fpage
      /\ frame_list' = frame_list /\ pml4' = pml4 /\ dirty' = dirty /\ used' = used
      /\ swap_table' = swap_table /\ swap' = swap /\ file' = file /\ expect' = expect
  BY DEF SwapInFile, At, Returns, ClaimFails, Goto, pages, frames, tables, health
<1>2. /\ pc[p] = "swap_in"
      /\ c = claim[p]
      /\ ops[c] = "file"
  BY DEF SwapInFile, At, Page
<1>3. /\ c \in Page
      /\ c[1] = p
      /\ pml4[c] # NULL
      /\ ~ dirty[c]
      /\ fkva[got[p]] = pml4[c]
      /\ \A pg \in Page : pg # c => pml4[pg] # pml4[c]
      /\ pml4[c] \in Kva
      /\ slot[p] = NULL
      /\ swap_index[c] = NULL
  BY <1>2, Types
     DEF Strong, ClaimInv, ClaimOf, Claiming, MapInv, MapOf, Live, SlotInv, SlotOf, FrameInv,
         SwapInv, SwapOf
<1>4. /\ \A k \in Kva : mem'[k] = IF k = pml4[c] THEN mem'[pml4[c]] ELSE mem[k]
      /\ \A q \in Proc : got'[q] = IF q = p THEN NULL ELSE got[q]
      /\ \A q \in Proc : pc'[q] =
             IF q = p THEN IF cause[p] = "copy" THEN "memcpy" ELSE "user" ELSE pc[q]
      /\ \A q \in Proc : claim'[q] =
             IF q = p THEN IF cause[p] = "copy" THEN claim[p] ELSE NULL ELSE claim[q]
      /\ \A q \in Proc : cause'[q] =
             IF q = p THEN IF cause[p] = "copy" THEN "copy" ELSE "exit" ELSE cause[q]
  <2>1. \A k \in Kva : mem'[k] = IF k = pml4[c] THEN mem'[pml4[c]] ELSE mem[k]
    BY <1>2, <1>3 DEF SwapInFile, Goto, Returns, ClaimFails, TypeOK
  <2>2. \A q \in Proc : got'[q] = IF q = p THEN NULL ELSE got[q]
    BY <1>2, <1>3 DEF SwapInFile, Goto, Returns, ClaimFails, TypeOK
  <2>3. \A q \in Proc : pc'[q] =
            IF q = p THEN IF cause[p] = "copy" THEN "memcpy" ELSE "user" ELSE pc[q]
    BY <1>2, <1>3 DEF SwapInFile, Goto, Returns, ClaimFails, TypeOK
  <2>4. \A q \in Proc : claim'[q] =
            IF q = p THEN IF cause[p] = "copy" THEN claim[p] ELSE NULL ELSE claim[q]
    BY <1>2, <1>3 DEF SwapInFile, Goto, Returns, ClaimFails, TypeOK
  <2>5. \A q \in Proc : cause'[q] =
            IF q = p THEN IF cause[p] = "copy" THEN "copy" ELSE "exit" ELSE cause[q]
    BY <1>2, <1>3 DEF SwapInFile, Goto, Returns, ClaimFails, TypeOK
  <2> QED BY <2>1, <2>2, <2>3, <2>4, <2>5
<1> HIDE DEF c
<1>5. ClaimInv'
  BY <1>1, <1>2, <1>4, <1>3 DEF Strong, ClaimInv, ClaimOf, Claiming
<1>6. HeldInv'
  BY <1>1, <1>4 DEF Strong, HeldInv, HeldOf, Unallocated, Holding, Evicting
<1>7. FrameInv'
  BY <1>1 DEF Strong, FrameInv, Live
<1>8. MapInv'
  BY <1>1, <1>2, <1>4, Owners DEF Strong, MapInv, MapOf, Live
<1>9. EmptyInv'
  BY <1>1, <1>4, Owners DEF Strong, EmptyInv, EmptyOf
<1>10. SwapInv'
  BY <1>1, <1>2, <1>4, Owners DEF Strong, SwapInv, SwapOf
<1>11. SlotInv'
  BY <1>1, <1>2, <1>4 DEF Strong, SlotInv, SlotOf
<1>12. VictimInv'
  BY <1>1, <1>4 DEF Strong, VictimInv, VictimOf, Evicting
<1>13. ContentInv'
  BY <1>1, <1>2, <1>4, Types, <1>3 DEF Strong, ContentInv, ContentOf, SwapInv, SwapOf
<1>14. ForkInv'
  BY <1>1, <1>2, <1>4 DEF Strong, ForkInv, ForkOf, Copying, Claiming
<1>15. StoresKept
  <2> SUFFICES ASSUME NEW pg \in Page, Pending(pg) PROVE Pending(pg)' \/ file' = "stored"
    BY DEF StoresKept
  <2> QED BY <1>1, <1>4, Types, <1>3 DEF Strong, Pending
<1> QED BY <1>5, <1>6, <1>7, <1>8, <1>9, <1>10, <1>11, <1>12, <1>13, <1>14, <1>15 DEF Strong

(* A page of a mapping that cannot be read stays in its frame.              *)
LEMMA SwapInFileFailsKeeps ==
  ASSUME TypeOK, Strong, NEW p \in Proc, SwapInFile(p), ClaimFails(p), panic' = panic,
         broken' = {}
  PROVE  Strong' /\ StoresKept
<1> DEFINE c == claim[p]
<1>1. /\ slot' = slot /\ parent' = parent /\ ops' = ops /\ init' = init /\ frame' = frame
      /\ swap_index' = swap_index /\ fkva' = fkva /\ fpage' = fpage
      /\ frame_list' = frame_list /\ pml4' = pml4 /\ dirty' = dirty /\ used' = used
      /\ swap_table' = swap_table /\ swap' = swap /\ file' = file /\ expect' = expect
  BY DEF SwapInFile, At, Returns, ClaimFails, Goto, pages, frames, tables, health
<1>2. /\ pc[p] = "swap_in"
      /\ c = claim[p]
      /\ ops[c] = "file"
  BY DEF SwapInFile, At, Page
<1>3. /\ c \in Page
      /\ c[1] = p
      /\ pml4[c] # NULL
      /\ ~ dirty[c]
      /\ fkva[got[p]] = pml4[c]
      /\ \A pg \in Page : pg # c => pml4[pg] # pml4[c]
      /\ pml4[c] \in Kva
      /\ slot[p] = NULL
      /\ cause[p] = "copy" => parent[p] \in Proc /\ parent[p] # p /\ pc[parent[p]] = "forking"
      /\ swap_index[c] = NULL
  BY <1>2, Types
     DEF Strong, ClaimInv, ClaimOf, Claiming, MapInv, MapOf, Live, SlotInv, SlotOf, FrameInv,
         SwapInv, SwapOf, ForkInv, ForkOf, Copying
<1>4. /\ \A k \in Kva : mem'[k] = IF k = pml4[c] THEN mem'[pml4[c]] ELSE mem[k]
      /\ \A q \in Proc : got'[q] = IF q = p THEN NULL ELSE got[q]
      /\ \A q \in Proc : pc'[q] = IF q = p THEN IF cause[p] = "grow" THEN "user" ELSE "close"
                                   ELSE IF cause[p] = "copy" /\ q = parent[p] THEN "user"
                                       ELSE pc[q]
      /\ \A q \in Proc : claim'[q] = IF q = p THEN NULL ELSE claim[q]
      /\ \A q \in Proc : cause'[q] = IF q = p THEN "exit" ELSE cause[q]
  <2>1. \A k \in Kva : mem'[k] = IF k = pml4[c] THEN mem'[pml4[c]] ELSE mem[k]
    BY <1>2, <1>3 DEF SwapInFile, Goto, Returns, ClaimFails, TypeOK
  <2>2. \A q \in Proc : got'[q] = IF q = p THEN NULL ELSE got[q]
    BY <1>2, <1>3 DEF SwapInFile, Goto, Returns, ClaimFails, TypeOK
  <2>3. \A q \in Proc : pc'[q] = IF q = p THEN IF cause[p] = "grow" THEN "user" ELSE "close"
                                   ELSE IF cause[p] = "copy" /\ q = parent[p] THEN "user"
                                       ELSE pc[q]
    BY <1>2, <1>3 DEF SwapInFile, Goto, Returns, ClaimFails, TypeOK
  <2>4. \A q \in Proc : claim'[q] = IF q = p THEN NULL ELSE claim[q]
    BY <1>2, <1>3 DEF SwapInFile, Goto, Returns, ClaimFails, TypeOK
  <2>5. \A q \in Proc : cause'[q] = IF q = p THEN "exit" ELSE cause[q]
    BY <1>2, <1>3 DEF SwapInFile, Goto, Returns, ClaimFails, TypeOK
  <2> QED BY <2>1, <2>2, <2>3, <2>4, <2>5
<1> HIDE DEF c
<1>5. ClaimInv'
  BY <1>1, <1>2, <1>4, <1>3 DEF Strong, ClaimInv, ClaimOf, Claiming
<1>6. HeldInv'
  BY <1>1, <1>4 DEF Strong, HeldInv, HeldOf, Unallocated, Holding, Evicting
<1>7. FrameInv'
  BY <1>1 DEF Strong, FrameInv, Live
<1>8. MapInv'
  BY <1>1, <1>2, <1>4, <1>3, Owners DEF Strong, MapInv, MapOf, Live
<1>9. EmptyInv'
  BY <1>1, <1>4, Owners DEF Strong, EmptyInv, EmptyOf
<1>10. SwapInv'
  BY <1>1, <1>2, <1>4, <1>3, Owners DEF Strong, SwapInv, SwapOf
<1>11. SlotInv'
  BY <1>1, <1>2, <1>4, <1>3 DEF Strong, SlotInv, SlotOf
<1>12. VictimInv'
  BY <1>1, <1>4 DEF Strong, VictimInv, VictimOf, Evicting
<1>13. ContentInv'
  BY <1>1, <1>2, <1>4, Types, <1>3 DEF Strong, ContentInv, ContentOf, SwapInv, SwapOf
<1>14. ForkInv'
  BY <1>1, <1>2, <1>4 DEF Strong, ForkInv, ForkOf, Copying, Claiming
<1>15. StoresKept
  <2> SUFFICES ASSUME NEW pg \in Page, Pending(pg) PROVE Pending(pg)' \/ file' = "stored"
    BY DEF StoresKept
  <2> QED BY <1>1, <1>4, Types, <1>3 DEF Strong, Pending
<1> QED BY <1>5, <1>6, <1>7, <1>8, <1>9, <1>10, <1>11, <1>12, <1>13, <1>14, <1>15 DEF Strong

(* The child enters the next page in its table and claims it; its parent   *)
(* stands still.                                                           *)
LEMMA CopyPageKeeps ==
  ASSUME TypeOK, Strong, NEW p \in Proc, NEW v \in Va, CopyPage(p, v),
         panic' = panic, broken' = {}
  PROVE  Strong' /\ StoresKept
<1> DEFINE mine == << p, v >>
<1>1. /\ got' = got /\ slot' = slot /\ parent' = parent /\ swap_index' = swap_index
      /\ fkva' = fkva /\ fpage' = fpage /\ frame_list' = frame_list /\ pml4' = pml4
      /\ dirty' = dirty /\ used' = used /\ mem' = mem /\ swap_table' = swap_table
      /\ swap' = swap /\ file' = file /\ expect' = expect
  BY DEF CopyPage, At, Panic, Alloc, StartClaim, Goto, procs, locals, pages, frames, memory,
         tables, store, health
<1>2. /\ mine \in Page
      /\ mine[1] = p
      /\ pc[p] = "copy"
      /\ ops[mine] = "none"
      /\ init'[mine] \in {"copy", "null"}
  BY DEF CopyPage, At, StartClaim, TypeOK, Alloc, CopyInit, Panic, Page
<1>3. /\ pml4[mine] = NULL
      /\ frame[mine] = NULL
      /\ swap_index[mine] = NULL
      /\ slot[p] = NULL
  BY <1>2 DEF Strong, MapInv, MapOf, Live, EmptyInv, EmptyOf, SlotInv, SlotOf
<1>4. /\ \A pg \in Page : ops'[pg] = IF pg = mine THEN "uninit" ELSE ops[pg]
      /\ \A pg \in Page : init'[pg] = IF pg = mine THEN init'[mine] ELSE init[pg]
      /\ \A pg \in Page : frame'[pg] = IF pg = mine THEN NULL ELSE frame[pg]
      /\ \A q \in Proc : pc'[q] = IF q = p THEN "get_frame" ELSE pc[q]
      /\ \A q \in Proc : claim'[q] = IF q = p THEN mine ELSE claim[q]
      /\ \A q \in Proc : cause'[q] = IF q = p THEN "copy" ELSE cause[q]
  <2> HIDE DEF mine
  <2>1. /\ ops' = [ops EXCEPT ![mine] = "uninit"] /\ frame' = [frame EXCEPT ![mine] = NULL]
        /\ init' = [init EXCEPT ![mine] = CopyInit(<< parent[p], v >>)]
    BY DEF CopyPage, Alloc, mine, Panic, At
  <2>2. /\ pc' = [pc EXCEPT ![p] = "get_frame"] /\ claim' = [claim EXCEPT ![p] = mine]
        /\ cause' = [cause EXCEPT ![p] = "copy"]
    BY DEF CopyPage, StartClaim, Goto, mine, Panic, At
  <2> QED BY <2>1, <2>2 DEF TypeOK
<1> HIDE DEF mine
<1>5. ClaimInv'
  BY <1>1, <1>2, <1>4, <1>3 DEF Strong, ClaimInv, ClaimOf, Claiming
<1>6. HeldInv'
  BY <1>1, <1>4 DEF Strong, HeldInv, HeldOf, Unallocated, Holding, Evicting
<1>7. FrameInv'
  BY <1>1, <1>4 DEF Strong, FrameInv, Live, EmptyInv, EmptyOf
<1>8. MapInv'
  BY <1>1, <1>2, <1>4, Owners DEF Strong, MapInv, MapOf, Live
<1>9. EmptyInv'
  BY <1>1, <1>2, <1>4, Owners DEF Strong, EmptyInv, EmptyOf
<1>10. SwapInv'
  BY <1>1, <1>2, <1>4, Owners DEF Strong, SwapInv, SwapOf
<1>11. SlotInv'
  BY <1>1, <1>2, <1>4 DEF Strong, SlotInv, SlotOf
<1>12. VictimInv'
  BY <1>1, <1>2, <1>4 DEF Strong, VictimInv, VictimOf, Evicting
<1>13. ContentInv'
  BY <1>1, <1>2, <1>4 DEF Strong, ContentInv, ContentOf
<1>14. ForkInv'
  BY <1>1, <1>2, <1>4 DEF Strong, ForkInv, ForkOf, Copying, Claiming
<1>15. StoresKept
  <2> SUFFICES ASSUME NEW pg \in Page, Pending(pg) PROVE Pending(pg)' \/ file' = "stored"
    BY DEF StoresKept
  <2> QED BY <1>1, <1>2, <1>4 DEF Strong, Pending
<1> QED BY <1>5, <1>6, <1>7, <1>8, <1>9, <1>10, <1>11, <1>12, <1>13, <1>14, <1>15 DEF Strong

(* Child and parent run on; the child has nothing claimed any more. *)
LEMMA CopyDoneKeeps ==
  ASSUME TypeOK, Strong, NEW p \in Proc, CopyDone(p), panic' = panic, broken' = {}
  PROVE  Strong' /\ StoresKept
<1>1. /\ got' = got /\ slot' = slot /\ parent' = parent /\ ops' = ops /\ init' = init
      /\ frame' = frame /\ swap_index' = swap_index /\ fkva' = fkva /\ fpage' = fpage
      /\ frame_list' = frame_list /\ pml4' = pml4 /\ dirty' = dirty /\ used' = used
      /\ mem' = mem /\ swap_table' = swap_table /\ swap' = swap /\ file' = file
      /\ expect' = expect
  BY DEF CopyDone, At, pages, frames, memory, tables, store, health
<1>2. pc[p] = "copy"
  BY DEF CopyDone, At, Page
<1>3. /\ slot[p] = NULL
      /\ parent[p] \in Proc
      /\ parent[p] # p
      /\ pc[parent[p]] = "forking"
  BY <1>2 DEF Strong, SlotInv, SlotOf, ForkInv, ForkOf, Copying, Claiming
<1>4. /\ \A q \in Proc : pc'[q] = IF q = p \/ q = parent[p] THEN "user" ELSE pc[q]
      /\ \A q \in Proc : cause'[q] = IF q = p THEN "exit" ELSE cause[q]
      /\ \A q \in Proc : claim'[q] = IF q = p THEN NULL ELSE claim[q]
  BY <1>2, <1>3 DEF CopyDone, TypeOK
<1>5. ClaimInv'
  BY <1>1, <1>4 DEF Strong, ClaimInv, ClaimOf, Claiming
<1>6. HeldInv'
  BY <1>1, <1>4 DEF Strong, HeldInv, HeldOf, Unallocated, Holding, Evicting
<1>7. FrameInv'
  BY <1>1 DEF Strong, FrameInv, Live
<1>8. MapInv'
  BY <1>1, <1>2, <1>4, <1>3, Owners DEF Strong, MapInv, MapOf, Live
<1>9. EmptyInv'
  BY <1>1, <1>4, Owners DEF Strong, EmptyInv, EmptyOf
<1>10. SwapInv'
  BY <1>1, <1>2, <1>4, <1>3, Owners DEF Strong, SwapInv, SwapOf
<1>11. SlotInv'
  BY <1>1, <1>4, <1>3 DEF Strong, SlotInv, SlotOf
<1>12. VictimInv'
  BY <1>1, <1>4 DEF Strong, VictimInv, VictimOf, Evicting
<1>13. ContentInv'
  BY <1>1 DEF Strong, ContentInv, ContentOf
<1>14. ForkInv'
  BY <1>1, <1>2, <1>4 DEF Strong, ForkInv, ForkOf, Copying, Claiming
<1>15. StoresKept
  BY <1>1 DEF StoresKept, Pending
<1> QED BY <1>5, <1>6, <1>7, <1>8, <1>9, <1>10, <1>11, <1>12, <1>13, <1>14, <1>15 DEF Strong

(* All pages of a process are forgotten: the frames that had them are      *)
(* dangling, hence no longer live, and their pages of the pool are in      *)
(* entries of no page of the table.  A dirty page was stored to, and the   *)
(* file is then its content, if it may be written and all of it is.        *)
LEMMA KillPagesKeeps ==
  ASSUME TypeOK, Strong, NEW p \in Proc, KillPages(p), panic' = panic, broken' = {}
  PROVE  Strong' /\ StoresKept
<1>1. /\ cause' = cause /\ claim' = claim /\ got' = got /\ slot' = slot /\ parent' = parent
      /\ fkva' = fkva /\ frame_list' = frame_list /\ pml4' = pml4 /\ dirty' = dirty
      /\ used' = used /\ mem' = mem /\ swap_table' = swap_table /\ swap' = swap
  BY DEF KillPages, At, Panic, procs, locals, pages, frames, memory, tables, store
<1>2. pc[p] = "kill"
  BY DEF KillPages, At, Page
<1>3. slot[p] = NULL
  BY <1>2 DEF Strong, SlotInv, SlotOf
<1>4. /\ \A pg \in Page : ops'[pg] = IF pg[1] = p THEN "none" ELSE ops[pg]
      /\ \A pg \in Page : init'[pg] = IF pg[1] = p THEN "null" ELSE init[pg]
      /\ \A pg \in Page : frame'[pg] = IF pg[1] = p THEN NULL ELSE frame[pg]
      /\ \A pg \in Page : swap_index'[pg] = IF pg[1] = p THEN NULL ELSE swap_index[pg]
      /\ \A pg \in Page : expect'[pg] = IF pg[1] = p THEN "any" ELSE expect[pg]
      /\ \A f \in Frame : fpage'[f] =
             IF fpage[f] \in Page /\ fpage[f][1] = p THEN DANGLING ELSE fpage[f]
      /\ \A q \in Proc : pc'[q] = IF q = p THEN "destroy" ELSE pc[q]
  <2>1. \A pg \in Page : ops'[pg] = IF pg[1] = p THEN "none" ELSE ops[pg]
    BY <1>2 DEF KillPages, Own, Goto, Forget, At, Panic, TypeOK
  <2>2. \A pg \in Page : init'[pg] = IF pg[1] = p THEN "null" ELSE init[pg]
    BY <1>2 DEF KillPages, Own, Goto, Forget, At, Panic, TypeOK
  <2>3. \A pg \in Page : frame'[pg] = IF pg[1] = p THEN NULL ELSE frame[pg]
    BY <1>2 DEF KillPages, Own, Goto, Forget, At, Panic, TypeOK
  <2>4. \A pg \in Page : swap_index'[pg] = IF pg[1] = p THEN NULL ELSE swap_index[pg]
    BY <1>2 DEF KillPages, Own, Goto, Forget, At, Panic, TypeOK
  <2>5. \A pg \in Page : expect'[pg] = IF pg[1] = p THEN "any" ELSE expect[pg]
    BY <1>2 DEF KillPages, Own, Goto, Forget, At, Panic, TypeOK
  <2>6. \A f \in Frame : fpage'[f] =
            IF fpage[f] \in Page /\ fpage[f][1] = p THEN DANGLING ELSE fpage[f]
    BY <1>2 DEF KillPages, Own, Goto, Forget, At, Panic, TypeOK
  <2>7. \A q \in Proc : pc'[q] = IF q = p THEN "destroy" ELSE pc[q]
    BY <1>2 DEF KillPages, Own, Goto, Forget, At, Panic, TypeOK
  <2> QED BY <2>1, <2>2, <2>3, <2>4, <2>5, <2>6, <2>7
<1>5. ClaimInv'
  BY <1>1, <1>4 DEF Strong, ClaimInv, ClaimOf, Claiming
<1>6. HeldInv'
  BY <1>1, <1>4, Nulls DEF Strong, HeldInv, HeldOf, Unallocated, Holding, Evicting
<1>7. FrameInv'
  BY <1>1, <1>4, Types, Nulls DEF Strong, FrameInv, Live
<1>8. MapInv'
  BY <1>1, <1>2, <1>4, Types, <1>3, Nulls, Owners DEF Strong, MapInv, MapOf, Live, FrameInv
<1>9. EmptyInv'
  BY <1>4, Owners DEF Strong, EmptyInv, EmptyOf
<1>10. SwapInv'
  BY <1>1, <1>4, Owners DEF Strong, SwapInv, SwapOf
<1>11. SlotInv'
  BY <1>1, <1>2, <1>4 DEF Strong, SlotInv, SlotOf
<1>12. VictimInv'
  <2> SUFFICES ASSUME NEW q \in Proc, NEW pg \in Page PROVE VictimOf(q, pg)'
    BY DEF VictimInv
  <2>1. VictimOf(q, pg)
    BY DEF Strong, VictimInv
  <2>2. CASE q = p
    BY <1>4, <2>1, <2>2 DEF Strong, VictimOf, Evicting, HeldInv, HeldOf, Unallocated, Holding
  <2>3. CASE q # p
    BY <1>1, <1>4, Nulls, <2>1, <2>3
       DEF Strong, VictimOf, Evicting, HeldInv, HeldOf, Unallocated, Holding
  <2> QED BY <2>2, <2>3
<1>13. ContentInv'
  BY <1>1, <1>4 DEF Strong, ContentInv, ContentOf
<1>14. ForkInv'
  BY <1>1, <1>2, <1>4 DEF Strong, ForkInv, ForkOf, Copying, Claiming
<1>15. StoresKept
  <2> SUFFICES ASSUME NEW pg \in Page, Pending(pg), ~ (deny_write # {} \/ file' = "any")
               PROVE  Pending(pg)' \/ file' = "stored" \/ pg[1] # p
    BY <1>1, <1>2, <1>4 DEF StoresKept, Pending
  <2> DEFINE written == { x \in Own(p) : WritesBack(x) }
  <2> SUFFICES ASSUME pg[1] = p PROVE file' = "stored"
    OBVIOUS
  <2>1. pg \in written
    BY DEF Own, WritesBack, Pending
  <2>2. file' \in { mem[pml4[w]] : w \in written }
    BY <2>1 DEF KillPages, FileAfter, Panic, At
  <2>3. \A w \in written : mem[pml4[w]] = "stored"
    BY DEF Strong, Own, WritesBack, ContentInv, ContentOf
  <2> HIDE DEF written
  <2> QED BY <2>2, <2>3
<1> QED BY <1>5, <1>6, <1>7, <1>8, <1>9, <1>10, <1>11, <1>12, <1>13, <1>14, <1>15 DEF Strong

(* The mapped pages of the pool are given back; no live frame has any of   *)
(* them (MapOf), and no other process maps them.                           *)
LEMMA DestroyPml4Keeps ==
  ASSUME TypeOK, Strong, NEW p \in Proc, DestroyPml4(p), panic' = panic, broken' = {}
  PROVE  Strong' /\ StoresKept
<1>1. /\ cause' = cause /\ claim' = claim /\ got' = got /\ slot' = slot /\ parent' = parent
      /\ ops' = ops /\ init' = init /\ frame' = frame /\ swap_index' = swap_index
      /\ fkva' = fkva /\ fpage' = fpage /\ frame_list' = frame_list
      /\ swap_table' = swap_table /\ swap' = swap /\ file' = file /\ expect' = expect
  BY DEF DestroyPml4, At, locals, pages, frames, health
<1>2. /\ pc[p] = "destroy"
      /\ used \subseteq Kva
  BY DEF DestroyPml4, At, TypeOK, Page
<1>3. /\ slot[p] = NULL
      /\ \A pg \in Page : pg[1] = p => ops[pg] = "none"
      /\ \A x, y \in Page : x[1] = p /\ pml4[y] # NULL /\ pml4[x] = pml4[y] => y[1] = p
  BY <1>2 DEF Strong, SlotInv, SlotOf, EmptyInv, EmptyOf, MapInv, MapOf, Live
<1>4. /\ \A pg \in Page : pml4'[pg] = IF pg[1] = p THEN NULL ELSE pml4[pg]
      /\ \A pg \in Page : dirty'[pg] = IF pg[1] = p THEN FALSE ELSE dirty[pg]
      /\ \A k \in Kva : mem'[k] =
             IF \E pg \in Page : pg[1] = p /\ pml4[pg] = k THEN "any" ELSE mem[k]
      /\ \A k \in Kva : k \in used' <=> k \in used /\ \A pg \in Page : pg[1] = p => pml4[pg] # k
      /\ \A q \in Proc : pc'[q] =
             IF q = p THEN IF cause[p] = "exec" THEN "load" ELSE "dead" ELSE pc[q]
  <2>1. \A pg \in Page : pml4'[pg] = IF pg[1] = p THEN NULL ELSE pml4[pg]
    BY <1>2 DEF DestroyPml4, Own, Goto, Forget, TypeOK
  <2>2. \A pg \in Page : dirty'[pg] = IF pg[1] = p THEN FALSE ELSE dirty[pg]
    BY <1>2 DEF DestroyPml4, Own, Goto, Forget, TypeOK
  <2>3. \A k \in Kva : mem'[k] =
            IF \E pg \in Page : pg[1] = p /\ pml4[pg] = k THEN "any" ELSE mem[k]
    BY <1>2 DEF DestroyPml4, Own, Goto, Forget, TypeOK
  <2>4. \A k \in Kva : k \in used' <=> k \in used /\ \A pg \in Page : pg[1] = p => pml4[pg] # k
    BY <1>2 DEF DestroyPml4, Own, Goto, Forget, TypeOK
  <2>5. \A q \in Proc : pc'[q] =
            IF q = p THEN IF cause[p] = "exec" THEN "load" ELSE "dead" ELSE pc[q]
    BY <1>2 DEF DestroyPml4, Own, Goto, Forget, TypeOK
  <2> QED BY <2>1, <2>2, <2>3, <2>4, <2>5
<1>5. ClaimInv'
  <2> SUFFICES ASSUME NEW q \in Proc PROVE ClaimOf(q)'
    BY DEF ClaimInv
  <2>1. ClaimOf(q)
    BY DEF Strong, ClaimInv
  <2> QED BY <1>1, <1>4, <2>1 DEF Strong, ClaimOf, Claiming
<1>6. HeldInv'
  BY <1>1, <1>4 DEF Strong, HeldInv, HeldOf, Unallocated, Holding, Evicting
<1>7. FrameInv'
  BY <1>1, <1>2, <1>4, <1>3 DEF Strong, FrameInv, Live, MapInv, MapOf
<1>8. MapInv'
  BY <1>1, <1>2, <1>4, Owners DEF Strong, MapInv, MapOf, Live, FrameInv
<1>9. EmptyInv'
  BY <1>1, <1>2, <1>4, Owners DEF Strong, EmptyInv, EmptyOf
<1>10. SwapInv'
  BY <1>1, <1>4, <1>3, Owners DEF Strong, SwapInv, SwapOf
<1>11. SlotInv'
  BY <1>1, <1>2, <1>4 DEF Strong, SlotInv, SlotOf
<1>12. VictimInv'
  BY <1>1, <1>4 DEF Strong, VictimInv, VictimOf, Evicting
<1>13. ContentInv'
  <2> SUFFICES ASSUME NEW pg \in Page PROVE ContentOf(pg)'
    BY DEF ContentInv
  <2>1. ContentOf(pg)
    BY DEF Strong, ContentInv
  <2>2. CASE pg[1] = p
    BY <1>1, <1>4, <1>3, <2>1, <2>2 DEF ContentOf
  <2>3. CASE pg[1] # p
    <3>1. SwapOf(pg)
      BY DEF Strong, SwapInv
    <3>2. pml4[pg] # NULL => pml4'[pg] = pml4[pg] /\ mem'[pml4[pg]] = mem[pml4[pg]]
      BY <1>4, Types, <1>3, <2>3
    <3> QED BY <1>1, <1>4, <3>1, <3>2, <2>1, <2>3 DEF ContentOf, SwapOf
  <2> QED BY <2>2, <2>3
<1>14. ForkInv'
  BY <1>1, <1>2, <1>4 DEF Strong, ForkInv, ForkOf, Copying, Claiming
<1>15. StoresKept
  <2> SUFFICES ASSUME NEW pg \in Page, Pending(pg) PROVE Pending(pg)' \/ file' = "stored"
    BY DEF StoresKept
  <2>1. pg[1] # p
    BY <1>3 DEF Pending
  <2>2. pml4'[pg] = pml4[pg] /\ dirty'[pg] = dirty[pg] /\ pml4[pg] \in Kva
    BY <1>4, Types, <2>1 DEF Pending
  <2>3. mem'[pml4[pg]] = mem[pml4[pg]]
    BY <1>4, <1>3, <2>1, <2>2 DEF Pending
  <2> QED BY <1>1, <2>2, <2>3 DEF Pending
<1> QED BY <1>5, <1>6, <1>7, <1>8, <1>9, <1>10, <1>11, <1>12, <1>13, <1>14, <1>15 DEF Strong

(* exec fills the table anew. *)
LEMMA LoadKeeps ==
  ASSUME TypeOK, Strong, NEW p \in Proc, Load(p), panic' = panic, broken' = {}
  PROVE  Strong' /\ StoresKept
<1> DEFINE mine == << p, Top >>
<1>1. /\ got' = got /\ slot' = slot /\ parent' = parent /\ frame' = frame
      /\ swap_index' = swap_index /\ fkva' = fkva /\ fpage' = fpage
      /\ frame_list' = frame_list /\ pml4' = pml4 /\ dirty' = dirty /\ used' = used
      /\ mem' = mem /\ swap_table' = swap_table /\ swap' = swap /\ file' = file
      /\ expect' = expect
  BY DEF Load, At, StartClaim, Goto, frames, memory, tables, store, health
<1>2. /\ mine \in Page
      /\ mine[1] = p
      /\ pc[p] = "load"
  <2>1. Top \in Va
    BY VMAssumption DEF Va
  <2> QED BY <2>1, Pages DEF Load, At
<1>3. /\ mine[2] = Top
      /\ slot[p] = NULL
  <2>1. mine[2] = Top
    OBVIOUS
  <2>2. slot[p] = NULL
    BY <1>2 DEF Strong, SlotInv, SlotOf
  <2> QED BY <2>1, <2>2
<1>4. /\ \A pg \in Page : ops'[pg] = IF pg[1] # p THEN ops[pg]
                                     ELSE IF pg[2] \in Segment \cup {Top} THEN "uninit"
                                         ELSE "none"
      /\ \A pg \in Page : init'[pg] =
             IF pg[1] # p THEN init[pg] ELSE IF pg[2] \in Segment THEN "segment" ELSE "null"
      /\ \A q \in Proc : pc'[q] = IF q = p THEN "get_frame" ELSE pc[q]
      /\ \A q \in Proc : claim'[q] = IF q = p THEN mine ELSE claim[q]
      /\ \A q \in Proc : cause'[q] = IF q = p THEN "exec" ELSE cause[q]
  <2>1. \A pg \in Page : ops'[pg] = IF pg[1] # p THEN ops[pg]
                                     ELSE IF pg[2] \in Segment \cup {Top} THEN "uninit"
                                         ELSE "none"
    BY <1>2 DEF Load, Goto, StartClaim, FreshOps, FreshInit, TypeOK
  <2>2. \A pg \in Page : init'[pg] =
            IF pg[1] # p THEN init[pg] ELSE IF pg[2] \in Segment THEN "segment" ELSE "null"
    BY <1>2 DEF Load, Goto, StartClaim, FreshOps, FreshInit, TypeOK
  <2>3. \A q \in Proc : pc'[q] = IF q = p THEN "get_frame" ELSE pc[q]
    BY <1>2 DEF Load, Goto, StartClaim, FreshOps, FreshInit, TypeOK
  <2>4. \A q \in Proc : claim'[q] = IF q = p THEN mine ELSE claim[q]
    BY <1>2 DEF Load, Goto, StartClaim, FreshOps, FreshInit, TypeOK
  <2>5. \A q \in Proc : cause'[q] = IF q = p THEN "exec" ELSE cause[q]
    BY <1>2 DEF Load, Goto, StartClaim, FreshOps, FreshInit, TypeOK
  <2> QED BY <2>1, <2>2, <2>3, <2>4, <2>5
<1> HIDE DEF mine
<1>5. ClaimInv'
  BY <1>1, <1>2, <1>4, <1>3
     DEF Strong, ClaimInv, ClaimOf, Claiming, EmptyInv, EmptyOf, MapInv, MapOf, Live
<1>6. HeldInv'
  BY <1>1, <1>4 DEF Strong, HeldInv, HeldOf, Unallocated, Holding, Evicting
<1>7. FrameInv'
  BY <1>1, <1>2, <1>4 DEF Strong, FrameInv, Live, EmptyInv, EmptyOf
<1>8. MapInv'
  BY <1>1, <1>2, <1>4, Owners DEF Strong, MapInv, MapOf, Live, EmptyInv, EmptyOf
<1>9. EmptyInv'
  BY <1>1, <1>2, <1>4, Owners DEF Strong, EmptyInv, EmptyOf
<1>10. SwapInv'
  BY <1>1, <1>2, <1>4, Owners DEF Strong, SwapInv, SwapOf, EmptyInv, EmptyOf
<1>11. SlotInv'
  BY <1>1, <1>2, <1>4 DEF Strong, SlotInv, SlotOf
<1>12. VictimInv'
  BY <1>1, <1>4 DEF Strong, VictimInv, VictimOf, Evicting
<1>13. ContentInv'
  BY <1>1, <1>4 DEF Strong, ContentInv, ContentOf
<1>14. ForkInv'
  BY <1>1, <1>2, <1>4 DEF Strong, ForkInv, ForkOf, Copying, Claiming
<1>15. StoresKept
  <2> SUFFICES ASSUME NEW pg \in Page, Pending(pg) PROVE Pending(pg)' \/ file' = "stored"
    BY DEF StoresKept
  <2>1. EmptyOf(pg)
    BY DEF Strong, EmptyInv
  <2> QED BY <1>1, <1>2, <1>4, <2>1 DEF Pending, EmptyOf
<1> QED BY <1>5, <1>6, <1>7, <1>8, <1>9, <1>10, <1>11, <1>12, <1>13, <1>14, <1>15 DEF Strong

(* exec of a file that is not there leaves everything but the process alone. *)
LEMMA LoadFailsKeeps ==
  ASSUME TypeOK, Strong, NEW p \in Proc, LoadFails(p), panic' = panic, broken' = {}
  PROVE  Strong' /\ StoresKept
<1>1. /\ claim' = claim /\ got' = got /\ slot' = slot /\ parent' = parent /\ ops' = ops
      /\ init' = init /\ frame' = frame /\ swap_index' = swap_index /\ fkva' = fkva
      /\ fpage' = fpage /\ frame_list' = frame_list /\ pml4' = pml4 /\ dirty' = dirty
      /\ used' = used /\ mem' = mem /\ swap_table' = swap_table /\ swap' = swap
      /\ file' = file /\ expect' = expect
  BY DEF LoadFails, At, pages, frames, memory, tables, store, health
<1>2. pc[p] = "load"
  BY DEF LoadFails, At, Page
<1>3. /\ \A q \in Proc : pc'[q] = IF q = p THEN "close" ELSE pc[q]
      /\ \A q \in Proc : cause'[q] = IF q = p THEN "exit" ELSE cause[q]
  BY <1>2, Pages DEF LoadFails, Goto, TypeOK
<1>4. ClaimInv'
  BY <1>1, <1>3 DEF Strong, ClaimInv, ClaimOf, Claiming
<1>5. HeldInv'
  BY <1>1, <1>3 DEF Strong, HeldInv, HeldOf, Unallocated, Holding, Evicting
<1>6. FrameInv'
  BY <1>1 DEF Strong, FrameInv, Live
<1>7. MapInv'
  BY <1>1, <1>2, <1>3, Owners DEF Strong, MapInv, MapOf, Live
<1>8. EmptyInv'
  BY <1>1, <1>3, Owners DEF Strong, EmptyInv, EmptyOf
<1>9. SwapInv'
  BY <1>1, <1>2, <1>3, Owners DEF Strong, SwapInv, SwapOf
<1>10. SlotInv'
  BY <1>1, <1>2, <1>3 DEF Strong, SlotInv, SlotOf
<1>11. VictimInv'
  BY <1>1, <1>3 DEF Strong, VictimInv, VictimOf, Evicting
<1>12. ContentInv'
  BY <1>1 DEF Strong, ContentInv, ContentOf
<1>13. ForkInv'
  BY <1>1, <1>2, <1>3 DEF Strong, ForkInv, ForkOf, Copying, Claiming
<1>14. StoresKept
  BY <1>1 DEF StoresKept, Pending
<1> QED BY <1>4, <1>5, <1>6, <1>7, <1>8, <1>9, <1>10, <1>11, <1>12, <1>13, <1>14 DEF Strong

(* The program is closed; nothing else changes. *)
LEMMA CloseRunningKeeps ==
  ASSUME TypeOK, Strong, NEW p \in Proc, CloseRunning(p), panic' = panic, broken' = {}
  PROVE  Strong' /\ StoresKept
<1>1. /\ cause' = cause /\ claim' = claim /\ got' = got /\ slot' = slot
      /\ parent' = parent /\ ops' = ops
      /\ init' = init /\ frame' = frame /\ swap_index' = swap_index /\ fkva' = fkva
      /\ fpage' = fpage /\ frame_list' = frame_list /\ pml4' = pml4 /\ dirty' = dirty
      /\ used' = used /\ mem' = mem /\ swap_table' = swap_table /\ swap' = swap
      /\ file' = file /\ expect' = expect
  BY DEF CloseRunning, At, locals, pages, frames, tables, health
<1>2. pc[p] = "close"
  BY DEF CloseRunning, At, Page
<1>3. \A q \in Proc : pc'[q] = IF q = p THEN "kill" ELSE pc[q]
  BY <1>2 DEF CloseRunning, Goto, TypeOK
<1>4. ClaimInv'
  BY <1>1, <1>3 DEF Strong, ClaimInv, ClaimOf, Claiming
<1>5. HeldInv'
  BY <1>1, <1>3 DEF Strong, HeldInv, HeldOf, Unallocated, Holding, Evicting
<1>6. FrameInv'
  BY <1>1 DEF Strong, FrameInv, Live
<1>7. MapInv'
  BY <1>1, <1>2, <1>3, Owners DEF Strong, MapInv, MapOf, Live
<1>8. EmptyInv'
  BY <1>1, <1>3, Owners DEF Strong, EmptyInv, EmptyOf
<1>9. SwapInv'
  BY <1>1, <1>2, <1>3, Owners DEF Strong, SwapInv, SwapOf
<1>10. SlotInv'
  BY <1>1, <1>2, <1>3 DEF Strong, SlotInv, SlotOf
<1>11. VictimInv'
  BY <1>1, <1>3 DEF Strong, VictimInv, VictimOf, Evicting
<1>12. ContentInv'
  BY <1>1 DEF Strong, ContentInv, ContentOf
<1>13. ForkInv'
  BY <1>1, <1>2, <1>3 DEF Strong, ForkInv, ForkOf, Copying, Claiming
<1>14. StoresKept
  BY <1>1 DEF StoresKept, Pending
<1> QED BY <1>4, <1>5, <1>6, <1>7, <1>8, <1>9, <1>10, <1>11, <1>12, <1>13, <1>14 DEF Strong

(* A page of the parent that has no frame is not copied: nothing is        *)
(* expected of the child's page.                                           *)
LEMMA MemCpySkipsKeeps ==
  ASSUME TypeOK, Strong, NEW p \in Proc, MemCpy(p), frame[<< parent[p],
         claim[p][2] >>] = NULL, panic' = panic, broken' = {}
  PROVE  Strong' /\ StoresKept
<1> DEFINE c == claim[p]
           src == << parent[p], c[2] >>
<1>1. /\ cause' = cause /\ claim' = claim /\ got' = got /\ slot' = slot /\ parent' = parent
      /\ ops' = ops /\ init' = init /\ frame' = frame /\ swap_index' = swap_index
      /\ fkva' = fkva /\ fpage' = fpage /\ frame_list' = frame_list /\ pml4' = pml4
      /\ dirty' = dirty /\ used' = used /\ mem' = mem /\ swap_table' = swap_table
      /\ swap' = swap /\ file' = file
  BY DEF MemCpy, At, Panic, procs, locals, pages, frames, memory, tables, store
<1>2. /\ pc[p] = "memcpy"
      /\ c \in Page
      /\ c[1] = p
      /\ parent[p] \in Proc
      /\ parent[p] # p
  <2>1. pc[p] = "memcpy"
    BY DEF MemCpy, At, Panic
  <2>2. c \in Page /\ c[1] = p /\ parent[p] \in Proc /\ parent[p] # p
    BY <2>1 DEF Strong, ClaimInv, ClaimOf, ForkInv, ForkOf, Copying, Claiming
  <2>3. c[2] \in Va
    BY <2>2, Pages
  <2>4. src \in Page /\ src[1] = parent[p]
    BY <2>2, <2>3, Pages
  <2> QED BY <2>1, <2>2, <2>4
<1>3. /\ slot[p] = NULL
      /\ ~ dirty[c]
  BY <1>2 DEF Strong, SlotInv, SlotOf, ClaimInv, ClaimOf, Claiming
<1>4. /\ \A pg \in Page : expect'[pg] = IF pg = c THEN "any" ELSE expect[pg]
      /\ \A q \in Proc : pc'[q] = IF q = p THEN "copy" ELSE pc[q]
  <2>1. \A pg \in Page : expect'[pg] = IF pg = c THEN "any" ELSE expect[pg]
    BY <1>2 DEF MemCpy, Goto, At, Panic, TypeOK
  <2>2. \A q \in Proc : pc'[q] = IF q = p THEN "copy" ELSE pc[q]
    BY <1>2 DEF MemCpy, Goto, At, Panic, TypeOK
  <2> QED BY <2>1, <2>2
<1> HIDE DEF c, src
<1>5. ClaimInv'
  BY <1>1, <1>4 DEF Strong, ClaimInv, ClaimOf, Claiming
<1>6. HeldInv'
  BY <1>1, <1>4 DEF Strong, HeldInv, HeldOf, Unallocated, Holding, Evicting
<1>7. FrameInv'
  BY <1>1 DEF Strong, FrameInv, Live
<1>8. MapInv'
  BY <1>1, <1>2, <1>4, Owners DEF Strong, MapInv, MapOf, Live
<1>9. EmptyInv'
  BY <1>1, <1>4, Owners DEF Strong, EmptyInv, EmptyOf
<1>10. SwapInv'
  BY <1>1, <1>2, <1>4, Owners DEF Strong, SwapInv, SwapOf
<1>11. SlotInv'
  BY <1>1, <1>2, <1>4 DEF Strong, SlotInv, SlotOf
<1>12. VictimInv'
  BY <1>1, <1>4 DEF Strong, VictimInv, VictimOf, Evicting
<1>13. ContentInv'
  BY <1>1, <1>4 DEF Strong, ContentInv, ContentOf
<1>14. ForkInv'
  BY <1>1, <1>2, <1>4 DEF Strong, ForkInv, ForkOf, Copying, Claiming
<1>15. StoresKept
  <2> SUFFICES ASSUME NEW pg \in Page, Pending(pg) PROVE Pending(pg)' \/ file' = "stored"
    BY DEF StoresKept
  <2> QED BY <1>1, <1>4, <1>3 DEF Strong, Pending
<1> QED BY <1>5, <1>6, <1>7, <1>8, <1>9, <1>10, <1>11, <1>12, <1>13, <1>14, <1>15 DEF Strong

(* A page of the parent with a frame is copied to the child's frame, which *)
(* is another one; if the parent's page is in memory, what is expected of  *)
(* it is now expected of the child's.                                      *)
LEMMA MemCpyCopiesKeeps ==
  ASSUME TypeOK, Strong, NEW p \in Proc, MemCpy(p), frame[<< parent[p],
         claim[p][2] >>] # NULL, panic' = panic, broken' = {}
  PROVE  Strong' /\ StoresKept
<1> DEFINE c == claim[p]
           src == << parent[p], c[2] >>
<1>1. /\ cause' = cause /\ claim' = claim /\ got' = got /\ slot' = slot /\ parent' = parent
      /\ ops' = ops /\ init' = init /\ frame' = frame /\ swap_index' = swap_index
      /\ fkva' = fkva /\ fpage' = fpage /\ frame_list' = frame_list /\ pml4' = pml4
      /\ dirty' = dirty /\ used' = used /\ swap_table' = swap_table /\ swap' = swap
      /\ file' = file
  BY DEF MemCpy, At, Panic, procs, locals, pages, frames, memory, tables, store
<1>2. /\ pc[p] = "memcpy"
      /\ frame[c] # NULL
      /\ c \in Page
      /\ c[1] = p
      /\ src \in Page
      /\ src # c
  <2>1. pc[p] = "memcpy" /\ frame[c] # NULL
    BY DEF MemCpy, At, Panic
  <2>2. c \in Page /\ c[1] = p /\ parent[p] \in Proc /\ parent[p] # p
    BY <2>1 DEF Strong, ClaimInv, ClaimOf, ForkInv, ForkOf, Copying, Claiming
  <2>3. c[2] \in Va
    BY <2>2, Pages
  <2>4. src \in Page /\ src[1] = parent[p]
    BY <2>2, <2>3, Pages
  <2> QED BY <2>1, <2>2, <2>4
<1>3. /\ slot[p] = NULL
      /\ ~ dirty[c]
      /\ ops[c] # "none"
      /\ swap_index[c] = NULL
      /\ fkva[frame[c]] \in Kva
      /\ pml4[c] # NULL => pml4[c] = fkva[frame[c]]
      /\ \A pg \in Page : pg # c /\ pml4[pg] # NULL => pml4[pg] # fkva[frame[c]]
      /\ ops[src] = "anon" /\ swap_index[src] = NULL /\ expect[src] # "any" =>
           mem[fkva[frame[src]]] = expect[src]
  <2>1. slot[p] = NULL /\ ~ dirty[c] /\ ops[c] # "none" /\ swap_index[c] = NULL
    BY <1>2 DEF Strong, SlotInv, SlotOf, ClaimInv, ClaimOf, Claiming
  <2>2. frame[c] \in Frame /\ fpage[frame[c]] = c /\ fkva[frame[c]] # NULL /\ Live(frame[c])
    BY <1>2, Types, Nulls DEF Strong, FrameInv, HeldInv, Unallocated, Live
  <2>3. fkva[frame[c]] \in Kva
    BY <2>2, Types
  <2>4. pml4[c] # NULL => pml4[c] = fkva[frame[c]]
    BY <2>1, <1>2 DEF Strong, MapInv, MapOf
  <2>5. \A pg \in Page : pg # c /\ pml4[pg] # NULL => pml4[pg] # fkva[frame[c]]
    <3> SUFFICES ASSUME NEW pg \in Page, pg # c, pml4[pg] = fkva[frame[c]], pml4[pg] # NULL
                 PROVE FALSE
      BY <2>2
    <3>1. MapOf(pg)
      BY DEF Strong, MapInv
    <3>2. frame[pg] \in Frame /\ fkva[frame[pg]] = pml4[pg] /\ fpage[frame[pg]] = pg
      BY <3>1, <2>2, Types DEF Strong, MapOf, FrameInv
    <3>3. frame[pg] = frame[c]
      BY <3>2, <2>2, Nulls DEF Strong, FrameInv, Live
    <3> QED BY <3>2, <3>3, <2>2
  <2>6. ops[src] = "anon" /\ swap_index[src] = NULL /\ expect[src] # "any" =>
            mem[fkva[frame[src]]] = expect[src]
    <3>1. ContentOf(src) /\ MapOf(src) /\ SwapOf(src)
      BY <1>2 DEF Strong, ContentInv, MapInv, SwapInv
    <3> QED BY <3>1 DEF ContentOf, MapOf, SwapOf
  <2> QED BY <2>1, <2>3, <2>4, <2>5, <2>6
<1>4. /\ \A k \in Kva : mem'[k] = IF k = fkva[frame[c]] THEN mem[fkva[frame[src]]] ELSE mem[k]
      /\ \A pg \in Page : expect'[pg] =
             IF pg = c THEN IF ops[src] = "anon" /\ swap_index[src] = NULL
                                                  THEN expect[src] ELSE "any" ELSE expect[pg]
      /\ \A q \in Proc : pc'[q] = IF q = p THEN "copy" ELSE pc[q]
  <2>1. \A k \in Kva : mem'[k] = IF k = fkva[frame[c]] THEN mem[fkva[frame[src]]] ELSE mem[k]
    BY <1>2 DEF MemCpy, Goto, At, Panic, TypeOK
  <2>2. \A pg \in Page : expect'[pg] =
            IF pg = c THEN IF ops[src] = "anon" /\ swap_index[src] = NULL
                                                  THEN expect[src] ELSE "any" ELSE expect[pg]
    BY <1>2 DEF MemCpy, Goto, At, Panic, TypeOK
  <2>3. \A q \in Proc : pc'[q] = IF q = p THEN "copy" ELSE pc[q]
    BY <1>2 DEF MemCpy, Goto, At, Panic, TypeOK
  <2> QED BY <2>1, <2>2, <2>3
<1> HIDE DEF c, src
<1>5. ClaimInv'
  BY <1>1, <1>4 DEF Strong, ClaimInv, ClaimOf, Claiming
<1>6. HeldInv'
  BY <1>1, <1>4 DEF Strong, HeldInv, HeldOf, Unallocated, Holding, Evicting
<1>7. FrameInv'
  BY <1>1 DEF Strong, FrameInv, Live
<1>8. MapInv'
  BY <1>1, <1>2, <1>4, Owners DEF Strong, MapInv, MapOf, Live
<1>9. EmptyInv'
  BY <1>1, <1>4, Owners DEF Strong, EmptyInv, EmptyOf
<1>10. SwapInv'
  BY <1>1, <1>2, <1>4, Owners DEF Strong, SwapInv, SwapOf
<1>11. SlotInv'
  BY <1>1, <1>2, <1>4 DEF Strong, SlotInv, SlotOf
<1>12. VictimInv'
  BY <1>1, <1>2, <1>4 DEF Strong, VictimInv, VictimOf, Evicting
<1>13. ContentInv'
  BY <1>1, <1>4, Types, <1>3 DEF Strong, ContentInv, ContentOf, SwapInv, SwapOf
<1>14. ForkInv'
  BY <1>1, <1>2, <1>4 DEF Strong, ForkInv, ForkOf, Copying, Claiming
<1>15. StoresKept
  <2> SUFFICES ASSUME NEW pg \in Page, Pending(pg) PROVE Pending(pg)' \/ file' = "stored"
    BY DEF StoresKept
  <2> QED BY <1>1, <1>4, Types, <1>3 DEF Strong, Pending
<1> QED BY <1>5, <1>6, <1>7, <1>8, <1>9, <1>10, <1>11, <1>12, <1>13, <1>14, <1>15 DEF Strong

-------------------------------------------------------------------------------
(* All steps together. *)

(* After a panic nothing has changed. *)
LEMMA PanicKeeps ==
  ASSUME Strong, UNCHANGED << procs, pages, frames, memory, expect, broken >>
  PROVE  Strong'
<1>1. /\ pc' = pc /\ cause' = cause /\ claim' = claim /\ got' = got /\ slot' = slot
      /\ parent' = parent /\ ops' = ops /\ init' = init /\ frame' = frame
      /\ swap_index' = swap_index /\ fkva' = fkva /\ fpage' = fpage
      /\ frame_list' = frame_list /\ pml4' = pml4 /\ dirty' = dirty /\ used' = used
      /\ mem' = mem /\ swap_table' = swap_table /\ swap' = swap /\ expect' = expect
  BY DEF procs, locals, pages, frames, memory, tables, store
<1>2. ClaimInv' /\ HeldInv'
  BY <1>1 DEF Strong, ClaimInv, ClaimOf, HeldInv, HeldOf, Unallocated
<1>3. FrameInv' /\ MapInv'
  BY <1>1 DEF Strong, FrameInv, MapInv, MapOf, Live
<1>4. EmptyInv' /\ SwapInv' /\ SlotInv'
  BY <1>1 DEF Strong, EmptyInv, EmptyOf, SwapInv, SwapOf, SlotInv, SlotOf
<1>5. VictimInv'
  BY <1>1 DEF Strong, VictimInv, VictimOf
<1>6. ContentInv' /\ ForkInv'
  BY <1>1 DEF Strong, ContentInv, ContentOf, ForkInv, ForkOf, Copying
<1> QED BY <1>2, <1>3, <1>4, <1>5, <1>6 DEF Strong

(* A step panics, and then changes nothing else, or does not. *)
LEMMA PanicOrGoesOn ==
  ASSUME NEW p \in Proc, KernelStep(p) \/ UserStep(p)
  PROVE  \/ panic' = panic
         \/ UNCHANGED << procs, pages, frames, memory, expect, broken >>
BY DEF KernelStep, UserStep, GetFrame, PopVictim, SwapScan, SwapFlip, VictimLost, SwapOut,
       WriteBack, Unlink, AppendFrame, Link, SwapInUninit, SwapInAnon, SwapInFile, CopyPage,
       MemCpy, CopyDone, CloseRunning, KillPages, DestroyPml4, Load, LoadFails, Store, Fault,
       Leave, Mmap, Munmap, Fork, Panic, health

(* The variables stay in their types at every step. *)
LEMMA StepTypes ==
  ASSUME TypeOK, Strong, NEW p \in Proc, KernelStep(p) \/ UserStep(p)
  PROVE  TypeOK'
BY StoreTypes, FaultTypes, LeaveTypes, MmapTypes, MunmapTypes, ForkTypes, GetFrameTypes,
   PopVictimTypes, SwapScanTypes, SwapFlipTypes, VictimLostTypes, SwapOutTypes, WriteBackTypes,
   UnlinkTypes, AppendFrameTypes, LinkTypes, SwapInUninitTypes, SwapInAnonTypes, SwapInFileTypes,
   CopyPageTypes, MemCpyTypes, CopyDoneTypes, KillPagesTypes, DestroyPml4Types, LoadTypes,
   LoadFailsTypes, CloseRunningTypes
   DEF KernelStep, UserStep

(* No step that goes on, and breaks neither list nor table, breaks the     *)
(* invariant or forgets a store.                                           *)
LEMMA StepKeeps ==
  ASSUME TypeOK, Strong, NEW p \in Proc, KernelStep(p) \/ UserStep(p), panic' = panic,
         broken' = {}
  PROVE  Strong' /\ StoresKept
<1>1. CASE GetFrame(p)
  BY <1>1, GetFrameKeeps, GetVictimKeeps
<1>2. CASE PopVictim(p)
  BY <1>2, PopVictimKeeps
<1>3. CASE SwapScan(p)
  BY <1>3, SwapScanKeeps
<1>4. CASE SwapFlip(p)
  BY <1>4, SwapFlipKeeps
<1>5. CASE VictimLost(p)
  BY <1>5 DEF VictimLost, At, Panic
<1>6. CASE SwapOut(p)
  BY <1>6, SwapOutKeeps
<1>7. CASE WriteBack(p)
  BY <1>7, WriteBackKeeps
<1>8. CASE Unlink(p)
  BY <1>8, UnlinkKeeps
<1>9. CASE AppendFrame(p)
  BY <1>9, AppendFrameKeeps
<1>10. CASE Link(p)
  BY <1>10, LinkMapsKeeps, LinkFailsKeeps
<1>11. CASE SwapInUninit(p)
  BY <1>11, SwapInUninitKeeps, SwapInUninitFailsKeeps DEF SwapInUninit
<1>12. CASE SwapInAnon(p)
  BY <1>12, SwapInAnonKeeps
<1>13. CASE SwapInFile(p)
  BY <1>13, SwapInFileKeeps, SwapInFileFailsKeeps DEF SwapInFile
<1>14. CASE \E v \in Va : CopyPage(p, v)
  BY <1>14, CopyPageKeeps
<1>15. CASE MemCpy(p)
  BY <1>15, MemCpySkipsKeeps, MemCpyCopiesKeeps
<1>16. CASE CopyDone(p)
  BY <1>16, CopyDoneKeeps
<1>17. CASE KillPages(p)
  BY <1>17, KillPagesKeeps
<1>18. CASE DestroyPml4(p)
  BY <1>18, DestroyPml4Keeps
<1>19. CASE Load(p)
  BY <1>19, LoadKeeps
<1>20. CASE LoadFails(p)
  BY <1>20, LoadFailsKeeps
<1>21. CASE \E v \in Va : Store(p, v)
  BY <1>21, StoreKeeps
<1>22. CASE \E v \in Va : Fault(p, v)
  BY <1>22, FaultKeeps
<1>23. CASE \E v \in Va : Mmap(p, v)
  BY <1>23, MmapKeeps
<1>24. CASE \E v \in Va : Munmap(p, v)
  BY <1>24, MunmapKeeps
<1>25. CASE \E c \in {"exit", "exec"} : Leave(p, c)
  BY <1>25, LeaveKeeps
<1>26. CASE \E c \in Proc : Fork(p, c)
  BY <1>26, ForkKeeps
<1>27. CASE CloseRunning(p)
  BY <1>27, CloseRunningKeeps
<1> QED BY <1>1, <1>2, <1>3, <1>4, <1>5, <1>6, <1>7, <1>8, <1>9, <1>10, <1>11, <1>12, <1>13,
           <1>14, <1>15, <1>16, <1>17, <1>18, <1>19, <1>20, <1>21, <1>22, <1>23, <1>24, <1>25,
           <1>26, <1>27
           DEF KernelStep, UserStep

(* The first program starts with its pages in the table and nothing in     *)
(* memory.                                                                 *)
LEMMA Initially == Init => VMInv
<1> SUFFICES ASSUME Init PROVE TypeOK /\ Strong
  BY DEF VMInv
<1>1. TypeOK
  <2>1. << >> \in Seq(Frame) /\ IsInjective(<< >>)
    BY DEF IsInjective
  <2> QED BY <2>1, VMAssumption DEF Init, TypeOK, PC, Content
<1>2. ClaimInv /\ HeldInv /\ FrameInv
  BY Nulls
     DEF Init, ClaimInv, ClaimOf, Claiming, HeldInv, HeldOf, Holding, Evicting, Unallocated,
         FrameInv, Live
<1>3. MapInv /\ EmptyInv /\ SwapInv
  BY DEF Init, MapInv, MapOf, EmptyInv, EmptyOf, SwapInv, SwapOf
<1>4. SlotInv /\ VictimInv
  BY DEF Init, SlotInv, SlotOf, VictimInv, VictimOf, Evicting
<1>5. ContentInv /\ ForkInv
  BY DEF Init, ContentInv, ContentOf, ForkInv, ForkOf, Copying, Claiming
<1> QED BY <1>1, <1>2, <1>3, <1>4, <1>5 DEF Strong

(* The same for the next-state relation: it needs the list and the table   *)
(* whole before the step, and a step that panics changes nothing of        *)
(* theirs.                                                                 *)
LEMMA NextKeeps ==
  ASSUME VMInv, Next
  PROVE  TypeOK' /\ (Sound' => Strong' /\ StoresKept)
<1>1. PICK p \in Proc : KernelStep(p) \/ UserStep(p)
  BY DEF Next
<1>2. broken = {}
  BY <1>1 DEF KernelStep, UserStep, GetFrame, PopVictim, SwapScan, SwapFlip, VictimLost, SwapOut,
     WriteBack, Unlink, AppendFrame, Link, SwapInUninit, SwapInAnon, SwapInFile, CopyPage,
     MemCpy, CopyDone, CloseRunning, KillPages, DestroyPml4, Load, LoadFails, Store, Fault,
     Leave, Mmap, Munmap, Fork, At
<1>3. TypeOK /\ Strong
  BY <1>2 DEF VMInv, Sound
<1>4. TypeOK'
  BY <1>1, <1>3, StepTypes
<1>5. CASE panic' = panic
  BY <1>1, <1>3, <1>4, <1>5, StepKeeps DEF Sound
<1>6. CASE UNCHANGED << procs, pages, frames, memory, expect, broken >>
  <2>1. StoresKept
    BY <1>6 DEF StoresKept, Pending, pages, memory, tables, store
  <2> QED BY <1>3, <1>4, <1>6, <2>1, PanicKeeps
<1> QED BY <1>1, <1>5, <1>6, PanicOrGoesOn

(* The inductive step, and the action property with it. *)
LEMMA Inductive == VMInv /\ [Next]_vars => VMInv' /\ [Sound' => StoresKept]_vars
<1> SUFFICES ASSUME VMInv, [Next]_vars PROVE VMInv' /\ [Sound' => StoresKept]_vars
  OBVIOUS
<1>1. CASE UNCHANGED vars
  <2>1. Strong => Strong'
    BY <1>1, PanicKeeps DEF vars, health
  <2>2. TypeOK'
    BY <1>1 DEF VMInv, TypeOK, vars, procs, locals, pages, frames, memory, tables, store, health
  <2>3. broken' = broken
    BY <1>1 DEF vars, health
  <2> QED BY <1>1, <2>1, <2>2, <2>3 DEF VMInv, Sound
<1>2. CASE Next
  BY <1>2, NextKeeps DEF VMInv
<1> QED BY <1>1, <1>2

(* The inductive invariant holds in every state, whatever the processes,   *)
(* their memory, the pool and the swap disk.                               *)
THEOREM VMInvariance == Spec => []VMInv
BY Initially, Inductive, PTL DEF Spec

(* MapOf and FrameInv give the private frames, SwapOf the slots. *)
LEMMA InvImpliesMemoryIsSound == VMInv => MemoryIsSound
<1> SUFFICES ASSUME VMInv PROVE MemoryIsSound
  OBVIOUS
<1>1. PrivateFrames
  <2> SUFFICES ASSUME Strong, TypeOK, NEW pg \in Page, pml4[pg] # NULL
               PROVE  /\ pml4[pg] \in used
                      /\ \A other \in Page \ {pg} : pml4[other] # pml4[pg]
                      /\ ops[pg] # "none" =>
                           frame[pg] # NULL /\ fpage[frame[pg]] = pg /\ fkva[frame[pg]] = pml4[pg]
    BY DEF VMInv, PrivateFrames
  <2> QED BY DEF Strong, MapInv, MapOf, FrameInv
<1>2. SlotsExclusive
  <2> SUFFICES ASSUME Strong, NEW pg \in Page, swap_index[pg] # NULL
               PROVE  /\ swap_index[pg] \in swap_table
                      /\ \A other \in Page \ {pg} : swap_index[other] # swap_index[pg]
                      /\ pml4[pg] = NULL \/ \E p \in Proc : pc[p] = "swap_in" /\ claim[p] = pg
    BY DEF VMInv, SlotsExclusive
  <2>1. SwapOf(pg) /\ pg[1] \in Proc
    BY Owners DEF Strong, SwapInv
  <2> QED BY <2>1 DEF SwapOf
<1> QED BY <1>1, <1>2 DEF MemoryIsSound, VMInv

(* Pages, frames, pages of the pool and swap slots are tied to each other  *)
(* one to one (vm_get_frame, vm_do_claim_page, vm_evict_frame,             *)
(* anon_swap_in and _out, pml4_destroy).                                   *)
THEOREM MemoryCorrect == Spec => []MemoryIsSound
BY VMInvariance, InvImpliesMemoryIsSound, PTL

(* ContentOf, with SwapOf for the page that is in memory. *)
LEMMA InvImpliesContentKept == VMInv => ContentKept
<1> SUFFICES ASSUME Strong, NEW pg \in Page, ops[pg] = "anon" /\ expect[pg] # "any"
    PROVE IF swap_index[pg] # NULL THEN swap[swap_index[pg]] = expect[pg]
    ELSE pml4[pg] # NULL /\ mem[pml4[pg]] = expect[pg]
  BY DEF VMInv, ContentKept
<1>1. SwapOf(pg) /\ ContentOf(pg)
  BY DEF Strong, SwapInv, ContentInv
<1> QED BY <1>1 DEF SwapOf, ContentOf

(* What a process has in an anonymous page stays there over evictions,     *)
(* swaps, forks and exits.                                                 *)
THEOREM ContentCorrect == Spec => []ContentKept
BY VMInvariance, InvImpliesContentKept, PTL

(* A store to a mapped page is not forgotten before it is in the file,     *)
(* unless its address space ends when the file cannot be written.          *)
THEOREM StoresCorrect == Spec => StoresReachFile
<1>1. VMInv /\ [Next]_vars =>
        [Sound' => \A pg \in Page : Pending(pg) =>
           \/ Pending(pg)' \/ file' = "stored"
           \/ pc[pg[1]] = "kill" /\ (deny_write # {} \/ file' = "any")]_vars
  BY Inductive DEF StoresKept
<1> QED BY <1>1, VMInvariance, PTL DEF Spec, StoresReachFile
===============================================================================
