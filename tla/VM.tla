------------------------------------ MODULE VM ------------------------------------
(***************************************************************************)
(* Virtual memory: the supplemental page tables, the list of frames and    *)
(* its eviction (vm/vm.c), anonymous pages and the swap table (vm/anon.c), *)
(* mapped files (vm/file.c), pages that have not been touched yet          *)
(* (vm/uninit.c), and what fork, exec and exit do to an address space      *)
(* (userprog/process.c).                                                   *)
(*                                                                         *)
(* Everything runs with interrupts on, so that any process may run between *)
(* two accesses to the list of frames, the swap table or the pool of user  *)
(* pages.  What a page holds is abstracted to where its content came from: *)
(* zeros, the program's or mapped file, the last store, or anything.       *)
(***************************************************************************)
EXTENDS Integers, Sequences, FiniteSets, FiniteSetsExt, SequencesExt

CONSTANTS
  Proc, First,  \* processes, and the one that runs at first
  Segment,      \* user pages of the program ...
  Stack, Top,   \* ... of the stack, and the one the stack starts on
  Map,          \* addresses where one page of a file is mapped
  Frame,        \* the structs frame there is memory for
  Kva, Slot,    \* the pages a user pool and the slots a swap disk may have
  Size,         \* the sizes a pool and a disk do have: pairs of numbers
  NULL,
  DANGLING      \* frame->page when the page's memory has been freed

Va == Segment \cup Stack \cup Map
Page == Proc \X Va
Content == {"zero", "file", "stored", "any"}

ASSUME VMAssumption ==
  /\ First \in Proc /\ Top \in Stack
  /\ NULL \notin Frame \cup Kva \cup Slot \cup Proc \cup Page
  /\ DANGLING \notin Page \cup {NULL}
  /\ Segment \cap Stack = {} /\ Segment \cap Map = {} /\ Stack \cap Map = {}
  /\ Kva \subseteq Nat /\ Slot \subseteq Nat /\ Size \subseteq Nat \X Nat
  /\ IsFiniteSet(Kva) /\ IsFiniteSet(Slot)

VARIABLES
  pc, cause,    \* where each process stands, and what made it go there
  claim, got, slot,             \* locals: the page claimed, the frame, the slot
  parent,
  ops, init,    \* page->operations, and the initializer of a page not loaded yet
  frame, swap_index,            \* the rest of struct page
  fkva, fpage, frame_list,      \* struct frame and the list
  pml4, dirty,  \* page tables: present entries, and dirty bits of mapped files
  used,         \* user_pool
  mem, swap_table, swap, file,  \* contents of memory, swap and the mapped file
  deny_write,   \* the processes that run the mapped file, and NULL: see DenyWrite
  expect,       \* history: what the program may rely on finding in a page
  broken, panic \* what has lost its meaning; why the kernel has stopped

locals == << cause, claim, got, slot, parent >>
procs == << pc, locals >>
pages == << ops, init, frame, swap_index >>
frames == << fkva, fpage, frame_list >>
tables == << pml4, dirty >>
store == << mem, swap_table, swap, file, deny_write >>
memory == << tables, used, store >>
health == << expect, broken, panic >>
vars == << procs, pages, frames, memory, health >>

-------------------------------------------------------------------------------
(* load leaves the program's pages untouched and claims the stack's first. *)
FreshOps(p) == [pg \in Page |-> IF pg[1] # p THEN ops[pg]
                                ELSE IF pg[2] \in Segment \cup {Top} THEN "uninit" ELSE "none"]
FreshInit(p) == [pg \in Page |-> IF pg[1] # p THEN init[pg]
                                 ELSE IF pg[2] \in Segment THEN "segment" ELSE "null"]

(* What is beyond the size of the pool (user_page_limit) or of the disk is *)
(* never free.                                                             *)
Init ==
  /\ pc = [p \in Proc |-> IF p = First THEN "load" ELSE "none"]
  /\ cause = [p \in Proc |-> "exec"]
  /\ claim = [p \in Proc |-> NULL] /\ got = [p \in Proc |-> NULL]
  /\ slot = [p \in Proc |-> NULL] /\ parent = [p \in Proc |-> NULL]
  /\ ops = [pg \in Page |-> "none"] /\ init = [pg \in Page |-> "null"]
  /\ frame = [pg \in Page |-> NULL] /\ swap_index = [pg \in Page |-> NULL]
  /\ fkva = [f \in Frame |-> NULL] /\ fpage = [f \in Frame |-> NULL]
  /\ frame_list = << >>
  /\ pml4 = [pg \in Page |-> NULL] /\ dirty = [pg \in Page |-> FALSE]
  /\ \E size \in Size : /\ used = { k \in Kva : k >= size[1] }
                       /\ swap_table = { s \in Slot : s >= size[2] }
  /\ mem = [k \in Kva |-> "any"]
  /\ swap = [s \in Slot |-> "any"] /\ file = "file" /\ deny_write = {}
  /\ expect = [pg \in Page |-> "any"]
  /\ broken = {} /\ panic = "none"

(* The model stops with the kernel, and where the list, the swap table or  *)
(* a page table has lost its meaning.                                      *)
At(p, l) == pc[p] = l /\ panic = "none" /\ broken = {}
Goto(p, l) == pc' = [pc EXCEPT ![p] = l]

Panic(why) ==
  /\ panic' = why
  /\ UNCHANGED << procs, pages, frames, memory, expect, broken >>

StartClaim(p, pg, c) ==
  /\ Goto(p, "get_frame")
  /\ claim' = [claim EXCEPT ![p] = pg]
  /\ cause' = [cause EXCEPT ![p] = c]

(* vm_alloc_page_with_initializer, when the page is not in the table. *)
Alloc(pg, how) ==
  /\ ops' = [ops EXCEPT ![pg] = "uninit"]
  /\ init' = [init EXCEPT ![pg] = how]
  /\ frame' = [frame EXCEPT ![pg] = NULL]
  /\ UNCHANGED swap_index

-------------------------------------------------------------------------------
(* What a program does: it stores to a page that is there ... *)
Store(p, v) ==
  LET pg == << p, v >>
  IN  /\ At(p, "user") /\ pml4[pg] # NULL
      /\ mem' = [mem EXCEPT ![pml4[pg]] = "stored"]
      /\ dirty' = [dirty EXCEPT ![pg] = v \in Map]
      /\ expect' = [expect EXCEPT ![pg] = "stored"]
      /\ UNCHANGED << procs, pages, frames, pml4, used, swap_table, swap, file,
                      deny_write, broken, panic >>

(* ... or touches one that is not.  The stack grows; elsewhere the page    *)
(* must be in the table, or the process ends with exit(-1).                *)
Fault(p, v) ==
  LET pg == << p, v >>
  IN  /\ At(p, "user") /\ pml4[pg] = NULL
      /\ \/ /\ v \in Stack
            /\ IF ops[pg] = "none" THEN Alloc(pg, "null") ELSE UNCHANGED pages
            /\ StartClaim(p, pg, "grow")
         \/ /\ v \notin Stack /\ ops[pg] # "none"
            /\ StartClaim(p, pg, "fault")
            /\ UNCHANGED pages
      /\ UNCHANGED << got, slot, parent, frames, memory, health >>

(* exit, a fault on a page that does not exist, or exec, which does not    *)
(* close the program it leaves.                                            *)
Leave(p, c) ==
  /\ At(p, "user")
  /\ Goto(p, IF c = "exit" THEN "close" ELSE "kill") /\ cause' = [cause EXCEPT ![p] = c]
  /\ UNCHANGED << claim, got, slot, parent, pages, frames, memory, health >>

(* mmap refuses an address that has a page. *)
Mmap(p, v) ==
  LET pg == << p, v >>
  IN  /\ At(p, "user") /\ v \in Map /\ ops[pg] = "none"
      /\ Alloc(pg, "file")
      /\ UNCHANGED << procs, frames, memory, health >>

(* Does file_backed_destroy, at munmap and at exit, write the page back?   *)
WritesBack(pg) == ops[pg] = "file" /\ init[pg] = "file" /\ dirty[pg]

(* What is in the file after file_write_at for the pages S, whose result   *)
(* is ignored: what was there, when writing is denied; or else a page, or  *)
(* a part of one when there is no memory for the last sector's buffer.     *)
FileAfter(S) ==
  IF S = {} \/ deny_write # {} THEN {file}
  ELSE {"any"} \cup { mem[pml4[pg]] : pg \in S }

(* munmap writes back the page; it stays in the table and mapped.  A page  *)
(* that was never touched ends the process (Leave).                        *)
Munmap(p, v) ==
  LET pg == << p, v >>
  IN  /\ At(p, "user") /\ v \in Map /\ ops[pg] = "file"
      /\ file' \in FileAfter({ x \in {pg} : WritesBack(x) })
      /\ UNCHANGED << procs, pages, frames, tables, used, mem, swap_table, swap, deny_write,
                      health >>

Fork(p, c) ==
  /\ At(p, "user") /\ pc[c] = "none"
  /\ pc' = [pc EXCEPT ![p] = "forking", ![c] = "copy"]
  /\ parent' = [parent EXCEPT ![c] = p]
  /\ UNCHANGED << cause, claim, got, slot, pages, frames, memory, health >>

-------------------------------------------------------------------------------
(* vm_get_frame *)

(* A page of the pool and a struct for it, or a victim.  Neither is        *)
(* cleared.                                                                *)
GetFrame(p) ==
  LET free == { f \in Frame : fkva[f] = NULL }
  IN  /\ At(p, "get_frame")
      /\ IF free # {} /\ used # Kva
         THEN LET f == CHOOSE f \in free : TRUE
                  k == Min(Kva \ used)
              IN  /\ fkva' = [fkva EXCEPT ![f] = k]
                  /\ fpage' = [fpage EXCEPT ![f] = NULL]
                  /\ used' = used \cup {k}
                  /\ got' = [got EXCEPT ![p] = f]
                  /\ Goto(p, "append")
         ELSE Goto(p, "victim") /\ UNCHANGED << fkva, fpage, used, got >>
      /\ UNCHANGED << cause, claim, slot, parent, pages, frame_list, tables, store, health >>

(* list_push_back without frame_lock (vm.c:282) may tear another's access. *)
Torn(p) == \E q \in Proc \ {p} : pc[q] = "append"
MaybeTorn(p) == IF Torn(p) THEN {{}, {"list"}} ELSE {{}}

(***************************************************************************)
(* vm_get_victim pops the oldest frame, and vm_evict_frame swaps its page  *)
(* out.  There may be none, and victim is not initialized; or the frame    *)
(* has no page yet, one that is freed, or one that is not initialized and  *)
(* cannot be swapped out.                                                  *)
(***************************************************************************)
PopVictim(p) ==
  /\ At(p, "victim")
  /\ \/ frame_list = << >> /\ Panic("no_victim")
     \/ LET f == Head(frame_list)
            pg == fpage[f]
        IN  /\ frame_list # << >>
            /\ \/ pg = NULL /\ Panic("unlinked_victim")
               \/ pg = DANGLING /\ Panic("stale_victim")
               \/ pg \in Page /\ ops[pg] = "uninit" /\ Panic("uninit_victim")
               \/ /\ pg \in Page /\ ops[pg] # "uninit"
                  /\ frame_list' = Tail(frame_list)
                  /\ got' = [got EXCEPT ![p] = f]
                  /\ Goto(p, IF ops[pg] = "file" THEN "write_back"
                             ELSE IF swap_index[pg] # NULL THEN "unlink" ELSE "scan")
                  /\ broken' \in MaybeTorn(p)
                  /\ UNCHANGED << cause, claim, slot, parent, pages, fkva, fpage, memory,
                                  expect, panic >>

(* anon_swap_out: bitmap_scan_and_flip looks for a slot and then takes it. *)
SwapScan(p) ==
  /\ At(p, "scan")
  /\ \/ swap_table = Slot /\ Panic("swap_full")
     \/ /\ swap_table # Slot
        /\ slot' = [slot EXCEPT ![p] = Min(Slot \ swap_table)]
        /\ Goto(p, "flip")
        /\ UNCHANGED << cause, claim, got, parent, pages, frames, memory, health >>

SwapFlip(p) ==
  /\ At(p, "flip")
  /\ swap_table' = swap_table \cup {slot[p]}
  /\ broken' = IF slot[p] \in swap_table THEN {"slot"} ELSE {}
  /\ Goto(p, "swap_out")
  /\ UNCHANGED << locals, pages, frames, tables, used, mem, swap, file, deny_write, expect,
                  panic >>

(* The page the victim was popped with; its frame need not be the victim.  *)
Victim(p) == fpage[got[p]]
VictimIsLoaded(p) == Victim(p) \in Page /\ frame[Victim(p)] # NULL

(* It has none, or is gone: swap_out fails, or follows a null pointer.      *)
VictimLost(p) ==
  /\ \/ (At(p, "swap_out") \/ At(p, "write_back")) /\ ~ VictimIsLoaded(p)
     \/ At(p, "unlink") /\ Victim(p) \notin Page
  /\ Panic("lost_victim")

SwapOut(p) ==
  /\ At(p, "swap_out") /\ VictimIsLoaded(p)
  /\ swap' = [swap EXCEPT ![slot[p]] = mem[fkva[frame[Victim(p)]]]]
  /\ Goto(p, "unlink")
  /\ UNCHANGED << locals, pages, frames, tables, used, mem, swap_table, file, deny_write,
                  health >>

(* Mutant of WriteBack: the page is taken for a clean one. *)
WriteBackNothing(p) ==
  /\ At(p, "write_back") /\ VictimIsLoaded(p)
  /\ Goto(p, "unlink")
  /\ UNCHANGED << locals, pages, frames, memory, health >>

(***************************************************************************)
(* file_backed_swap_out.  The kernel's own alias of the frame is dirty     *)
(* since the page was loaded, so the page is always written.  The write    *)
(* fails while the file is denied, and when there is no memory for it.     *)
(***************************************************************************)
WriteBack(p) ==
  LET pg == Victim(p)
  IN  /\ At(p, "write_back") /\ VictimIsLoaded(p)
      /\ \/ /\ init[pg] = "file" => deny_write = {}
            /\ file' = IF init[pg] = "file" THEN mem[fkva[frame[pg]]] ELSE file
            /\ expect' = [expect EXCEPT ![pg] = "any"]
            /\ Goto(p, "unlink")
            /\ UNCHANGED << locals, pages, frames, tables, used, mem, swap_table, swap,
                            deny_write, broken, panic >>
         \/ init[pg] = "file" /\ Panic("swap_out_failed")

(* Mutant of Unlink: the mapping stays. *)
UnlinkMapped(p) ==
  LET pg == Victim(p)
  IN  /\ At(p, "unlink") /\ pg \in Page
      /\ swap_index' = [swap_index EXCEPT ![pg] = IF ops[pg] = "anon" THEN slot[p] ELSE @]
      /\ fpage' = [fpage EXCEPT ![got[p]] = NULL]
      /\ frame' = [frame EXCEPT ![pg] = NULL]
      /\ Goto(p, "append")
      /\ UNCHANGED << locals, ops, init, fkva, frame_list, memory, health >>

(***************************************************************************)
(* The end of swap_out and of vm_evict_frame: the slot is noted, the entry *)
(* for the page's address cleared in the page table of the process that    *)
(* runs, whoever the page belongs to, and page and frame parted.  A page   *)
(* that is in a slot already keeps it, and so does its other frame.        *)
(***************************************************************************)
Unlink(p) ==
  LET pg == Victim(p)
      mine == << p, pg[2] >>
      evicted == ops[pg] = "file" \/ swap_index[pg] = NULL
  IN  /\ At(p, "unlink") /\ pg \in Page
      /\ swap_index' = [swap_index EXCEPT ![pg] = IF ops[pg] = "anon" /\ evicted THEN slot[p]
                                                  ELSE @]
      /\ pml4' = [pml4 EXCEPT ![mine] = NULL]
      /\ dirty' = [dirty EXCEPT ![mine] = FALSE]
      /\ fpage' = [f \in Frame |-> IF f = got[p] \/ (evicted /\ f = frame[pg]) THEN NULL
                                   ELSE fpage[f]]
      /\ frame' = [frame EXCEPT ![pg] = NULL]
      /\ broken' = IF pg = mine THEN {} ELSE {"foreign"}
      /\ Goto(p, "append")
      /\ slot' = [slot EXCEPT ![p] = NULL]
      /\ UNCHANGED << cause, claim, got, parent, ops, init, fkva, frame_list, used, store,
                      expect, panic >>

AppendFrame(p) ==
  /\ At(p, "append")
  /\ frame_list' = Append(frame_list, got[p])
  /\ broken' \in MaybeTorn(p)
  /\ Goto(p, "link")
  /\ UNCHANGED << locals, pages, fkva, fpage, memory, expect, panic >>

-------------------------------------------------------------------------------
(* vm_do_claim_page with its frame, and swap_in *)

(* What becomes of a claim that fails: the process ends, unless its stack  *)
(* was to grow, when it will fault again; a child's parent goes on.        *)
ClaimFails(p) ==
  /\ pc' = [q \in Proc |-> IF q = p THEN IF cause[p] = "grow" THEN "user" ELSE "close"
                           ELSE IF cause[p] = "copy" /\ q = parent[p] THEN "user" ELSE pc[q]]
  /\ cause' = [cause EXCEPT ![p] = "exit"]
  /\ claim' = [claim EXCEPT ![p] = NULL] /\ got' = [got EXCEPT ![p] = NULL]

Link(p) ==
  LET pg == claim[p]
      f == got[p]
  IN  /\ At(p, "link")
      /\ fpage' = [fpage EXCEPT ![f] = pg]
      /\ frame' = [frame EXCEPT ![pg] = f]
      /\ \/ /\ pml4[pg] = NULL
            /\ pml4' = [pml4 EXCEPT ![pg] = fkva[f]]
            /\ dirty' = [dirty EXCEPT ![pg] = FALSE]
            /\ Goto(p, "swap_in")
            /\ UNCHANGED << cause, claim, got >>
         \/ ClaimFails(p) /\ UNCHANGED tables  \* mapped, or no memory for a table
      /\ UNCHANGED << slot, parent, ops, init, swap_index, fkva, frame_list, used, store,
                      health >>

(* A page's first content: its file's, what was in the frame, or zeros. *)
FirstContent(pg) ==
  CASE init[pg] = "segment" -> "file"
    [] init[pg] = "null" -> "any"
    [] init[pg] = "file" -> file
    [] init[pg] = "copy" -> "zero"

(* A local that will not be read again is forgotten. *)
Returns(p) ==
  /\ Goto(p, IF cause[p] = "copy" THEN "memcpy" ELSE "user")
  /\ got' = [got EXCEPT ![p] = NULL]
  /\ IF cause[p] = "copy" THEN UNCHANGED << cause, claim >>
     ELSE cause' = [cause EXCEPT ![p] = "exit"] /\ claim' = [claim EXCEPT ![p] = NULL]

(* The file a page is read from may have less, or no memory be left for it. *)
ReadFails(pg) == init[pg] \in {"segment", "file"}

(* swap_in of a page that was never loaded: it becomes what it is to be,   *)
(* and is mapped, even when it cannot be read and the claim fails.         *)
SwapInUninit(p) ==
  LET pg == claim[p]
      k == fkva[got[p]]
  IN  /\ At(p, "swap_in") /\ ops[pg] = "uninit"
      /\ ops' = [ops EXCEPT ![pg] = IF init[pg] \in {"file", "copy"} THEN "file" ELSE "anon"]
      /\ swap_index' = [swap_index EXCEPT ![pg] = NULL]
      /\ \/ /\ mem' = [mem EXCEPT ![k] = FirstContent(pg)]
            /\ expect' = [expect EXCEPT ![pg] = IF init[pg] = "segment" THEN "file" ELSE "any"]
            /\ Returns(p)
         \/ /\ ReadFails(pg)
            /\ mem' = [mem EXCEPT ![k] = "any"]
            /\ expect' = [expect EXCEPT ![pg] = "any"]
            /\ ClaimFails(p)
      /\ UNCHANGED << slot, parent, init, frame, frames, tables, used, swap_table, swap, file,
                      deny_write, broken, panic >>

(* Mutant of SwapInAnon: a page in a slot is taken for one never loaded. *)
SwapInAnonZero(p) ==
  LET pg == claim[p]
  IN  /\ At(p, "swap_in") /\ ops[pg] = "anon"
      /\ mem' = [mem EXCEPT ![fkva[got[p]]] = "zero"]
      /\ swap_table' = swap_table \ {swap_index[pg]}
      /\ swap_index' = [swap_index EXCEPT ![pg] = NULL]
      /\ Returns(p)
      /\ UNCHANGED << slot, parent, ops, init, frame, frames, tables, used, swap, file,
                      deny_write, health >>

(* anon_swap_in: from the slot, which is given up, or zeros. *)
SwapInAnon(p) ==
  LET pg == claim[p]
      s == swap_index[pg]
  IN  /\ At(p, "swap_in") /\ ops[pg] = "anon"
      /\ mem' = [mem EXCEPT ![fkva[got[p]]] = IF s = NULL THEN "zero" ELSE swap[s]]
      /\ swap_table' = swap_table \ {s}
      /\ swap' = [x \in Slot |-> IF x = s THEN "any" ELSE swap[x]]
      /\ swap_index' = [swap_index EXCEPT ![pg] = NULL]
      /\ Returns(p)
      /\ UNCHANGED << slot, parent, ops, init, frame, frames, tables, used, file, deny_write,
                      health >>

(* file_backed_swap_in: as many bytes of the file as the page is long. *)
SwapInFile(p) ==
  LET pg == claim[p]
      k == fkva[got[p]]
  IN  /\ At(p, "swap_in") /\ ops[pg] = "file"
      /\ \/ /\ mem' = [mem EXCEPT ![k] = IF init[pg] = "file" THEN file ELSE "zero"]
            /\ Returns(p)
         \/ ReadFails(pg) /\ mem' = [mem EXCEPT ![k] = "any"] /\ ClaimFails(p)
      /\ UNCHANGED << slot, parent, pages, frames, tables, used, swap_table, swap, file,
                      deny_write, health >>

-------------------------------------------------------------------------------
(* supplemental_page_table_copy, run by the child while its parent waits *)

(* The initializer the copy of page pg gets.  A copied mapping is as long  *)
(* as its index in the mapping, which is 0.                                *)
CopyInit(pg) == IF ops[pg] = "file" THEN "copy" ELSE "null"

(***************************************************************************)
(* The next page is entered in the child's table and claimed.  page_get_-  *)
(* type tells what an untouched page is to become, so one of a mapping is  *)
(* taken for a loaded one: its file is read from the initializer's field.  *)
(***************************************************************************)
CopyPage(c, v) ==
  LET src == << parent[c], v >>
      dst == << c, v >>
  IN  /\ At(c, "copy") /\ ops[src] # "none" /\ ops[dst] = "none"
      /\ \/ ops[src] = "uninit" /\ init[src] \in {"file", "copy"} /\ Panic("bad_file")
         \/ /\ ops[src] \in {"anon", "file"} \/ init[src] \in {"segment", "null"}
            /\ Alloc(dst, CopyInit(src))
            /\ StartClaim(c, dst, "copy")
            /\ UNCHANGED << got, slot, parent, frames, memory, health >>

(***************************************************************************)
(* The claimed page gets what is in the frame of the parent's page, if it  *)
(* has one.  That is the parent's content only while the parent's page is  *)
(* in memory: a claim that failed has left it a frame with anything in it. *)
(***************************************************************************)
MemCpy(c) ==
  LET dst == claim[c]
      src == << parent[c], dst[2] >>
  IN  /\ At(c, "memcpy")
      /\ \/ /\ frame[src] = NULL
            /\ expect' = [expect EXCEPT ![dst] = "any"]
            /\ UNCHANGED mem /\ Goto(c, "copy")
            /\ UNCHANGED << locals, pages, frames, tables, used, swap_table, swap, file,
                            deny_write, broken, panic >>
         \/ frame[src] # NULL /\ frame[dst] = NULL /\ Panic("null_frame")
         \/ /\ frame[src] # NULL /\ frame[dst] # NULL
            /\ mem' = [mem EXCEPT ![fkva[frame[dst]]] = mem[fkva[frame[src]]]]
            /\ expect' = [expect EXCEPT ![dst] = IF ops[src] = "anon" /\ swap_index[src] = NULL
                                                 THEN expect[src] ELSE "any"]
            /\ Goto(c, "copy")
            /\ UNCHANGED << locals, pages, frames, tables, used, swap_table, swap, file,
                            deny_write, broken, panic >>

CopyDone(c) ==
  /\ At(c, "copy")
  /\ \A v \in Va : ops[<< parent[c], v >>] # "none" => ops[<< c, v >>] # "none"
  /\ pc' = [pc EXCEPT ![c] = "user", ![parent[c]] = "user"]
  /\ cause' = [cause EXCEPT ![c] = "exit"] /\ claim' = [claim EXCEPT ![c] = NULL]
  /\ UNCHANGED << got, slot, parent, pages, frames, memory, health >>

-------------------------------------------------------------------------------
(* process_exit and process_exec *)

(* process_exit closes the program the process runs, which may be written  *)
(* again unless somebody else runs it too, before it writes its own pages. *)
CloseRunning(p) ==
  /\ At(p, "close")
  /\ deny_write' = deny_write \ {p}
  /\ Goto(p, "kill")
  /\ UNCHANGED << locals, pages, frames, tables, used, mem, swap_table, swap, file, health >>

Own(p) == { pg \in Page : pg[1] = p }
Forget(f, p, x) == [pg \in Page |-> IF pg[1] = p THEN x ELSE f[pg]]

(***************************************************************************)
(* supplemental_page_table_kill: dirty pages of mapped files are written   *)
(* back through their user addresses, and every struct page is freed.      *)
(* Their slots stay taken and their frames stay in the list.               *)
(***************************************************************************)
KillPages(p) ==
  LET written == { pg \in Own(p) : WritesBack(pg) }
  IN  /\ At(p, "kill")
      /\ \/ (\E pg \in written : pml4[pg] = NULL) /\ Panic("unmapped_write_back")
         \/ /\ \A pg \in written : pml4[pg] # NULL
            /\ file' \in FileAfter(written)
            /\ ops' = Forget(ops, p, "none") /\ init' = Forget(init, p, "null")
            /\ frame' = Forget(frame, p, NULL) /\ swap_index' = Forget(swap_index, p, NULL)
            /\ expect' = Forget(expect, p, "any")
            /\ fpage' = [f \in Frame |-> IF fpage[f] \in Own(p) THEN DANGLING ELSE fpage[f]]
            /\ Goto(p, "destroy")
            /\ UNCHANGED << locals, fkva, frame_list, tables, used, mem, swap_table, swap,
                            deny_write, broken, panic >>

(* pml4_destroy frees the pages that are mapped, and the page table. *)
DestroyPml4(p) ==
  /\ At(p, "destroy")
  /\ used' = used \ { pml4[pg] : pg \in Own(p) }
  /\ pml4' = Forget(pml4, p, NULL)
  /\ dirty' = Forget(dirty, p, FALSE)
  /\ mem' = [k \in Kva |-> IF \E pg \in Own(p) : pml4[pg] = k THEN "any" ELSE mem[k]]
  /\ Goto(p, IF cause[p] = "exec" THEN "load" ELSE "dead")
  /\ UNCHANGED << locals, pages, frames, swap_table, swap, file, deny_write, health >>

(***************************************************************************)
(* load denies writing to the program p is to run, which may (own) be the  *)
(* file that is mapped.  exec does not close the program that ran before:  *)
(* nobody will, and if it is the mapped file it stays denied, for NULL.    *)
(* A child of fork denies nothing.                                         *)
(***************************************************************************)
DenyWrite(p, own) ==
  deny_write' = { IF q = p THEN NULL ELSE q : q \in deny_write }
                  \cup (IF own THEN {p} ELSE {})

(* load, in process_exec: the segments and the first page of the stack.    *)
Load(p) ==
  /\ At(p, "load")
  /\ ops' = FreshOps(p) /\ init' = FreshInit(p)
  /\ StartClaim(p, << p, Top >>, "exec")
  /\ \E own \in BOOLEAN : DenyWrite(p, own)
  /\ UNCHANGED << got, slot, parent, frame, swap_index, frames, tables, used, mem, swap_table,
                  swap, file, health >>

(* ... or there is no such file: exec ends with exit(-1). *)
LoadFails(p) ==
  /\ At(p, "load")
  /\ Goto(p, "close") /\ cause' = [cause EXCEPT ![p] = "exit"]
  /\ UNCHANGED << claim, got, slot, parent, pages, frames, memory, health >>

-------------------------------------------------------------------------------
KernelStep(p) ==
  \/ GetFrame(p) \/ PopVictim(p) \/ SwapScan(p) \/ SwapFlip(p) \/ VictimLost(p)
  \/ SwapOut(p) \/ WriteBack(p) \/ Unlink(p) \/ AppendFrame(p) \/ Link(p)
  \/ SwapInUninit(p) \/ SwapInAnon(p) \/ SwapInFile(p)
  \/ (\E v \in Va : CopyPage(p, v)) \/ MemCpy(p) \/ CopyDone(p)
  \/ CloseRunning(p) \/ KillPages(p) \/ DestroyPml4(p) \/ Load(p) \/ LoadFails(p)

UserStep(p) ==
  \/ \E v \in Va : Store(p, v) \/ Fault(p, v) \/ Mmap(p, v) \/ Munmap(p, v)
  \/ \E c \in {"exit", "exec"} : Leave(p, c)
  \/ \E c \in Proc : Fork(p, c)

Next == \E p \in Proc : KernelStep(p) \/ UserStep(p)

Spec == Init /\ [][Next]_vars

-------------------------------------------------------------------------------
PC == {"none", "user", "forking", "dead", "get_frame", "victim", "scan", "flip", "swap_out",
       "write_back", "unlink", "append", "link", "swap_in", "copy", "memcpy", "close", "kill",
       "destroy", "load"}

TypeOK ==
  /\ pc \in [Proc -> PC]
  /\ cause \in [Proc -> {"exec", "exit", "grow", "fault", "copy"}]
  /\ claim \in [Proc -> Page \cup {NULL}]
  /\ got \in [Proc -> Frame \cup {NULL}] /\ slot \in [Proc -> Slot \cup {NULL}]
  /\ parent \in [Proc -> Proc \cup {NULL}]
  /\ ops \in [Page -> {"none", "uninit", "anon", "file"}]
  /\ init \in [Page -> {"segment", "null", "file", "copy"}]
  /\ frame \in [Page -> Frame \cup {NULL}] /\ swap_index \in [Page -> Slot \cup {NULL}]
  /\ fkva \in [Frame -> Kva \cup {NULL}]
  /\ fpage \in [Frame -> Page \cup {NULL, DANGLING}]
  /\ frame_list \in Seq(Frame) /\ IsInjective(frame_list)
  /\ pml4 \in [Page -> Kva \cup {NULL}] /\ dirty \in [Page -> BOOLEAN]
  /\ used \subseteq Kva /\ swap_table \subseteq Slot
  /\ mem \in [Kva -> Content] /\ swap \in [Slot -> Content] /\ file \in Content
  /\ deny_write \subseteq Proc \cup {NULL}
  /\ expect \in [Page -> Content]
  /\ broken \subseteq {"foreign", "slot", "list"}
  /\ panic \in {"none", "no_victim", "unlinked_victim", "stale_victim", "uninit_victim",
                "lost_victim", "swap_full", "swap_out_failed", "bad_file", "null_frame",
                "unmapped_write_back"}

(* The promises of a frame list and a swap table that were never used by   *)
(* two processes at a time, and of a process that evicts its own pages.    *)
Sound == broken = {}

(* A physical page that a process sees at some address is in use, is seen  *)
(* nowhere else, and is the one of the page's frame, which knows the page: *)
(* whatever faults, evictions, forks and exits went before.                *)
PrivateFrames ==
  Sound => \A pg \in Page : pml4[pg] # NULL =>
    /\ pml4[pg] \in used
    /\ \A other \in Page \ {pg} : pml4[other] # pml4[pg]
    /\ ops[pg] # "none" =>
         frame[pg] # NULL /\ fpage[frame[pg]] = pg /\ fkva[frame[pg]] = pml4[pg]

(* The slot of a page that is swapped out is taken, and by no other page;  *)
(* and the page cannot be reached in memory until it is swapped in.        *)
SlotsExclusive ==
  Sound => \A pg \in Page : swap_index[pg] # NULL /\ ops[pg] = "anon" =>
    /\ swap_index[pg] \in swap_table
    /\ \A other \in Page \ {pg} : swap_index[other] # swap_index[pg]
    /\ pml4[pg] = NULL \/ \E p \in Proc : pc[p] = "swap_in" /\ claim[p] = pg

(* Pages, frames, physical pages and swap slots are tied to each other one *)
(* to one, at every step of a fault, an eviction, a fork or an exit.       *)
MemoryIsSound ==
  /\ TypeOK
  /\ PrivateFrames
  /\ SlotsExclusive

(* What a process has in an anonymous page stays there: in its frame, or   *)
(* in its slot while it is swapped out, however often it goes to and fro.  *)
ContentKept ==
  Sound => \A pg \in Page : ops[pg] = "anon" /\ expect[pg] # "any" =>
    IF swap_index[pg] # NULL THEN swap[swap_index[pg]] = expect[pg]
    ELSE pml4[pg] # NULL /\ mem[pml4[pg]] = expect[pg]

(* What is stored into a mapped file is not forgotten before it is in the  *)
(* file: the page stays mapped and dirty until eviction, munmap or the end *)
(* of the process has written it.  Only the end of an address space may    *)
(* lose it, when the file is the program somebody runs, or for want of     *)
(* memory: an eviction that cannot write stops the kernel instead.         *)
Pending(pg) ==
  /\ ops[pg] = "file" /\ init[pg] = "file" /\ expect[pg] = "stored"
  /\ pml4[pg] # NULL /\ dirty[pg] /\ mem[pml4[pg]] = "stored"

StoresReachFile ==
  [][Sound' => \A pg \in Page : Pending(pg) =>
       \/ Pending(pg)' \/ file' = "stored"
       \/ pc[pg[1]] = "kill" /\ (deny_write # {} \/ file' = "any")]_vars
==================================================================================
