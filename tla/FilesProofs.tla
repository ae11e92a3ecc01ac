------------------------------ MODULE FilesProofs ------------------------------
(***************************************************************************)
(* The properties of module Files, for any number of processes, names,     *)
(* sectors, descriptors and inodes.                                        *)
(*                                                                         *)
(* The inductive invariant, SoundInv, is about the time before two         *)
(* processes race on an inode or on the free map.  It says who has the     *)
(* lock (LockInv), where each call can be and what it has in hand          *)
(* (CallInv, FileInv, ForkInv), that an inode's counters count what refers *)
(* to it (CountInv, CounterInv), when an inode leaves the list of open     *)
(* ones (ListInv), that a name has one file (NameInv), that a sector has   *)
(* one owner (OwnerInv), that headers in use stay what they are            *)
(* (ContentInv), and what the free map on the disk lacks (MapInv).         *)
(*                                                                         *)
(* There is a lemma for each action, or each outcome of one, that it keeps *)
(* the invariant.                                                          *)
(***************************************************************************)
EXTENDS Files, WellFoundedInduction, FiniteSetTheorems, TLAPS

Opens == {"open", "load", "remove"}
Opening == {"get_open", "put_open", "read_inode", "opened"}
Releasing == {"release_inode", "release_data", "free", "write_map"}
Closing == {"get_close", "put_close", "test", "unlist", "closed",
            "release_inode", "release_data", "free"}

(* Who is in the lock, and who is not. *)
Holds(p) ==
  \/ at[p].op \in {"create", "remove"} \/ pc[p] = "unlock"
  \/ at[p].op \in {"open", "load"} /\ pc[p] \in Opening
  \/ at[p].op = "open" /\ pc[p] # "reject"
Without(p) ==
  \/ pc[p] \in {"user", "forking", "reject", "header", "get_deny", "put_deny", "denied",
       "duplicate"}
  \/ at[p].op \in {"close", "mmap", "fork"}
LockInv ==
  \A p \in Proc : /\ Holds(p) => filesys_lock = p
                  /\ Without(p) => filesys_lock # p

(* Where each call can be, and what it has in its locals. *)
CallOf(p) ==
  /\ pc[p] \in {"user", "exit", "dead", "forking"} => at[p] = Idle
  /\ at[p].op = "none" => pc[p] \in {"user", "exit", "dead", "forking", "unlock"} /\ at[p] = Idle
  /\ pc[p] = "unlock" => at[p].op \in {"none", "create"}
  /\ pc[p] \in {"create_inode", "write_header", "zero_data", "add_entry", "undo_create"} =>
       at[p].op = "create"
  /\ at[p].op = "create" => pc[p] \in {"create_inode", "write_header", "zero_data", "add_entry",
                                       "undo_create", "write_map", "unlock"}
  /\ pc[p] = "write_map" =>
       \/ at[p].op = "create" /\ at[p].next \in {"create_inode", "write_header", "unlock"}
       \/ at[p].op \in {"open", "remove", "close", "exit"} /\
            at[p].next \in {"release_data", "free"}
  /\ pc[p] \in {"get_open", "put_open", "opened"} => at[p].op \in Opens \cup {"mmap", "fork"}
  /\ pc[p] = "read_inode" => at[p].op \in Opens
  /\ pc[p] = "reject" => at[p].op = "open"
  /\ pc[p] \in {"header", "get_deny", "put_deny", "denied"} => at[p].op = "load"
  /\ pc[p] = "duplicate" => at[p].op = "fork" /\ at[p].i = NULL
  /\ pc[p] \in Closing => at[p].op \in {"open", "remove", "close", "exit"}
  /\ pc[p] \in {"get_allow", "put_allow"} => at[p].op = "exit" /\ at[p].fd = 0
  /\ at[p].op \in {"none", "create"} => at[p].i = NULL
  /\ at[p].op \notin {"none", "create"} /\ pc[p] # "duplicate" => at[p].i \in Inode
  /\ at[p].op = "close" => at[p].fd \in Fd
  /\ at[p].op = "exit" => at[p].fd \in Fd \cup {0}
  /\ at[p].op \in {"open", "remove"} => at[p].fd = 0
  /\ at[p].op \in {"create"} \cup Opens => at[p].sector \in Sector
  /\ at[p].op = "create" => at[p].name \in Name /\ at[p].num \in Length
CallInv == \A p \in Proc : CallOf(p)

(* A child copies from one parent, which stands still; a dead process has  *)
(* no files.                                                               *)
ForkOf(q) ==
  /\ at[q].op = "fork" =>
       /\ at[q].name \in Proc /\ pc[at[q].name] = "forking" /\ running[q] = NULL
       /\ \A r \in Proc : r # q /\ at[r].op = "fork" => at[r].name # at[q].name
       /\ \A k \in Fd : fd_table[q][k] # NULL => k =< at[q].fd
       /\ at[q].fd \in Fd \cup {0}
       /\ pc[q] # "duplicate" =>
            /\ at[q].fd \in Fd /\ fd_table[q][at[q].fd] = NULL
            /\ fd_table[at[q].name][at[q].fd] # NULL
            /\ fd_table[at[q].name][at[q].fd].inode = at[q].i
  /\ pc[q] = "dead" => running[q] = NULL /\ \A k \in Fd : fd_table[q][k] = NULL
ForkInv == \A q \in Proc : ForkOf(q)

(* The file that a call works on is one that its process has; every        *)
(* descriptor is without a deny, the running program's file has one.       *)
FileOf(p) ==
  /\ at[p].op \in {"close", "exit"} /\ at[p].fd # 0 =>
       fd_table[p][at[p].fd] # NULL /\ fd_table[p][at[p].fd].inode = at[p].i
  /\ at[p].op = "exit" /\ at[p].fd = 0 =>
       /\ running[p] # NULL /\ running[p].inode = at[p].i
       /\ \A k \in Fd : fd_table[p][k] = NULL
  /\ pc[p] \in {"get_deny", "put_deny", "denied"} =>
       running[p] # NULL /\ running[p].inode = at[p].i
  /\ at[p].op = "mmap" => \E k \in Fd : fd_table[p][k] # NULL /\ fd_table[p][k].inode = at[p].i
  /\ \A k \in Fd : fd_table[p][k] # NULL => ~ fd_table[p][k].deny
  /\ running[p] # NULL => running[p].deny
FileInv == \A p \in Proc : FileOf(p)

(* What refers to an inode: a file of a descriptor (until the close of it  *)
(* has counted down), the file of the running program, and a call that has *)
(* opened the inode and has no file for it yet.  Its counters count these. *)
CountedDown(p) ==
  pc[p] \in {"test", "unlist", "closed"} \cup Releasing /\ at[p].op \in {"close", "exit"}
Transit(p) ==
  \/ pc[p] \in {"read_inode", "opened", "reject", "header"}
  \/ pc[p] \in {"get_close", "put_close"} /\ at[p].op \in {"open", "remove"}
Refers(p, k, i) ==
  \/ k \in Fd /\ fd_table[p][k] # NULL /\ fd_table[p][k].inode = i
     /\ ~ (CountedDown(p) /\ at[p].fd = k)
  \/ k = 0 /\ running[p] # NULL /\ running[p].inode = i
     /\ ~ (CountedDown(p) /\ at[p].fd = 0)
  \/ k = 1 /\ Transit(p) /\ at[p].i = i
Refs(i) == { x \in Proc \X (Fd \cup {0, 1}) : Refers(x[1], x[2], i) }
Denies(p, i) ==
  /\ running[p] # NULL /\ running[p].inode = i
  /\ pc[p] \notin {"get_deny", "put_deny"}
  /\ at[p].op = "exit" /\ at[p].fd = 0 => pc[p] \in {"get_allow", "put_allow"}
Deniers(i) == { p \in Proc : Denies(p, i) }
OpenCount(i) == IF inode[i] = NULL THEN 0 ELSE inode[i].count.open
DenyCount(i) == IF inode[i] = NULL THEN 0 ELSE inode[i].count.deny
CountOf(i) ==
  /\ OpenCount(i) = Cardinality(Refs(i)) + lost[i].refs
  /\ DenyCount(i) = Cardinality(Deniers(i)) + lost[i].denies
  /\ lost[i].denies =< lost[i].refs
CountInv == \A i \in Inode : CountOf(i)

(* A counter's value that a process has read is still the counter's value. *)
CounterOf(p) ==
  /\ pc[p] \in {"put_open", "put_close"} => at[p].num = inode[at[p].i].count.open
  /\ pc[p] \in {"put_deny", "put_allow"} => at[p].num = inode[at[p].i].count.deny
  /\ \A q \in Proc : q # p /\ Counting(p, at[p].i) => ~ Counting(q, at[p].i)
CounterInv == \A p \in Proc : CounterOf(p)

(* An inode leaves the list when it is closed for the last time. *)
Ends(p, i) == at[p].i = i /\ pc[p] \in Releasing
ListOf(i) ==
  /\ i \in open_inodes => inode[i] # NULL
  /\ i \in open_inodes /\ inode[i].count.open = 0 =>
       \E p \in Proc : at[p].i = i /\ pc[p] \in {"test", "unlist"}
  /\ inode[i] # NULL /\ i \notin open_inodes =>
       inode[i].count.open = 0 /\ \E p \in Proc : Ends(p, i)
  /\ \A p \in Proc : Ends(p, i) =>
       /\ inode[i] # NULL /\ i \notin open_inodes
       /\ pc[p] # "free" => inode[i].removed
       /\ \A q \in Proc : q # p => ~ Ends(q, i)
  /\ \A p \in Proc : at[p].i = i /\ pc[p] = "unlist" =>
       i \in open_inodes /\ inode[i].count.open = 0
  /\ \A p \in Proc : at[p].i = i /\ pc[p] = "test" => i \in open_inodes
  /\ \A p \in Proc : at[p].i = i /\ at[p].op \in Opens /\ pc[p] \in Opening =>
       i \in open_inodes
  /\ inode[i] # NULL =>
       (inode[i].data = NULL <=> \E p \in Proc : at[p].i = i /\ pc[p] = "read_inode")
ListInv == /\ \A i \in Inode : ListOf(i)
           /\ \A i, j \in open_inodes : inode[i].sector = inode[j].sector => i = j

(* What has been looked up is what is opened, and a name is used once.     *)
OpenedOf(p) ==
  at[p].op \in Opens /\ pc[p] \in Opening =>
    /\ \E e \in Lookup(at[p].name) : dir[e].sector = at[p].sector
    /\ inode[at[p].i].sector = at[p].sector /\ ~ inode[at[p].i].removed
NameInv ==
  /\ \A p \in Proc : OpenedOf(p)
  /\ \A e, f \in Entry : dir[e] # NULL /\ dir[f] # NULL /\ dir[e].name = dir[f].name => e = f
  /\ \A i \in open_inodes : ~ inode[i].removed =>
       \E e \in Entry : dir[e] # NULL /\ dir[e].sector = inode[i].sector

(* Who has a sector: an entry of the directory, a removed inode that is    *)
(* not yet closed, or a create that is under way.  There is one owner.     *)
EntryHas(e, s) == dir[e] # NULL /\ s \in Storage(dir[e].sector)
SectorGone(p, i) == at[p].i = i /\ pc[p] \in {"write_map", "release_data", "free"}
DataGone(p, i) ==
  at[p].i = i /\ (pc[p] = "free" \/ (pc[p] = "write_map" /\ at[p].next = "free"))
InodeHas(i, s) ==
  /\ inode[i] # NULL /\ inode[i].removed
  /\ \/ s = inode[i].sector /\ ~ \E p \in Proc : SectorGone(p, i)
     \/ s \in Data(inode[i].data) /\ ~ \E p \in Proc : DataGone(p, i)
WithData(p) ==
  /\ at[p].op = "create"
  /\ \/ pc[p] \in {"write_header", "zero_data", "add_entry"}
     \/ pc[p] = "write_map" /\ at[p].next = "write_header"
New(p) == at[p].fd .. at[p].fd + at[p].num - 1
CreateHas(p, s) ==
  /\ at[p].op = "create" /\ pc[p] # "unlock" /\ ~ (pc[p] = "write_map" /\ at[p].next = "unlock")
  /\ s = at[p].sector \/ (WithData(p) /\ s \in New(p))
OwnerOf(s) ==
  /\ \A e \in Entry : EntryHas(e, s) =>
       /\ s \in free_map
       /\ \A f \in Entry : f # e => ~ EntryHas(f, s)
       /\ \A i \in Inode : ~ InodeHas(i, s)
       /\ \A p \in Proc : ~ CreateHas(p, s)
  /\ \A i \in Inode : InodeHas(i, s) =>
       /\ s \in free_map
       /\ \A j \in Inode : j # i => ~ InodeHas(j, s)
       /\ \A p \in Proc : ~ CreateHas(p, s)
  /\ \A p \in Proc : CreateHas(p, s) => s \in free_map
OwnerInv == \A s \in Sector : OwnerOf(s)

(* A header in use stays on the disk, and is not inside its own data.      *)
HeaderAt(s) == content[s] \in Header /\ s \notin Data(content[s]) /\
  Data(content[s]) \subseteq Sector
ContentInv ==
  /\ \A e \in Entry : dir[e] # NULL => HeaderAt(dir[e].sector)
  /\ \A i \in open_inodes : inode[i].data # NULL =>
       content[inode[i].sector] = inode[i].data /\ HeaderAt(inode[i].sector)
  /\ \A i \in Inode : inode[i] # NULL /\ inode[i].data # NULL =>
       /\ inode[i].data \in Header /\ inode[i].sector \notin Data(inode[i].data)
       /\ Data(inode[i].data) \subseteq Sector
  /\ \A p \in Proc :
       /\ pc[p] \in {"zero_data", "add_entry"} =>
            content[at[p].sector] = [start |-> at[p].fd, length |-> at[p].num]
       /\ WithData(p) => /\ at[p].sector \notin New(p) /\ New(p) \subseteq Sector
                         /\ at[p].fd \in Sector \cup {0}

(* A sector is in the free map on the disk, or in the one being written.   *)
MapInv ==
  /\ \A s \in free_map : \/ s \in disk_map
                         \/ \E p \in Proc : pc[p] = "write_map" /\ s \in at[p].new
  /\ \A p \in Proc : pc[p] = "write_map" =>
       /\ at[p].next = "create_inode" => at[p].new = {at[p].sector}
       /\ at[p].next = "write_header" => at[p].new = New(p)
       /\ at[p].next \notin {"create_inode", "write_header"} => at[p].new = {}

(* What is true as long as no two processes have raced.                    *)
Strong == /\ ForkInv /\ FileInv /\ CountInv /\ CounterInv /\ ListInv
          /\ NameInv /\ OwnerInv /\ ContentInv /\ MapInv
(* The invariant where no step follows a race. *)
FilesInv == TypeOK /\ LockInv /\ CallInv /\ ListedInUse /\ (~ raced => Strong)
(* A step of p moves no other process. *)
OthersStay(p) == \A q \in Proc : q # p => pc'[q] = pc[q] /\ at'[q] = at[q]

(* NULL is no value of any kind, a header is no sector of zeros, and no    *)
(* sector or descriptor has the number 0 or 1.                             *)
LEMMA Nulls ==
  /\ NULL \notin Proc /\ NULL \notin Inode /\ NULL \notin Header /\ NULL \notin DirEntry
  /\ NULL \notin Struct /\ NULL \notin File /\ ZERO \notin Header /\ ANY \notin Header
  /\ Sector \subseteq Nat /\ 0 \notin Sector /\ 1 \notin Sector /\ Fd \subseteq Nat /\
       0 \notin Fd /\ 1 \notin Fd
  /\ Entry \subseteq Nat /\ Length \subseteq Nat
BY FilesAssumption

(* A nonempty set of numbers has a least one: what bitmap_scan and the     *)
(* searches for a free entry or descriptor find.                           *)
LEMMA MinIsLeast ==
  ASSUME NEW S, S \subseteq Nat, S # {}
  PROVE  Min(S) \in S /\ \A y \in S : Min(S) =< y
<1> DEFINE R == { x \in Nat \X Nat : x[1] < x[2] }
<1>1. IsWellFoundedOn(R, Nat)
  <2>1. R = OpToRel(<, Nat)
    BY DEF OpToRel
  <2> QED BY <2>1, NatLessThanWellFounded, Zenon
<1>2. PICK x \in S : \A y \in S : ~ (<< y, x >> \in R)
  <2> HIDE DEF R
  <2> QED BY <1>1, WFMin, Zenon
<1>3. \A y \in S : x =< y
  <2> SUFFICES ASSUME NEW y \in S PROVE ~ (y < x)
    OBVIOUS
  <2>1. << y, x >> \in Nat \X Nat /\ << y, x >>[1] = y /\ << y, x >>[2] = x
    OBVIOUS
  <2> QED BY <1>2, <2>1
<1> QED
  BY <1>3 DEF Min

(* bitmap_scan_and_flip takes sectors of the disk that were free. *)
LEMMA FirstFitIsFree ==
  ASSUME TypeOK, NEW k \in Length, Fits(k)
  PROVE  /\ FirstFit(k) .. FirstFit(k) + k - 1 \subseteq Sector \ free_map
         /\ FirstFit(k) \in Sector \cup {0}
<1>1. CASE k = 0
  BY <1>1 DEF FirstFit
<1>2. CASE k # 0
  <2>1. FreeRuns(k) # {} /\ FreeRuns(k) \subseteq Nat
    BY <1>2, Nulls DEF Fits, FreeRuns
  <2>2. FirstFit(k) \in FreeRuns(k)
    BY <1>2, <2>1, MinIsLeast DEF FirstFit
  <2> QED BY <2>2 DEF FreeRuns
<1> QED BY <1>1, <1>2

(* For one sector it takes one free sector. *)
LEMMA FirstFree ==
  ASSUME TypeOK, Fits(1)
  PROVE  /\ FirstFit(1) \in Sector \ free_map
         /\ FirstFit(1) .. FirstFit(1) + 1 - 1 = {FirstFit(1)}
<1>1. FreeRuns(1) # {} /\ FreeRuns(1) \subseteq Nat
  <2>1. FreeRuns(1) # {}
    BY DEF Fits
  <2> QED BY <2>1, Nulls DEF FreeRuns
<1>2. FirstFit(1) \in FreeRuns(1)
  BY <1>1, MinIsLeast DEF FirstFit
<1>3. FirstFit(1) \in Nat
  BY <1>2, <1>1
<1>4. FirstFit(1) .. FirstFit(1) + 1 - 1 = {FirstFit(1)}
  BY <1>3
<1> QED BY <1>2, <1>4 DEF FreeRuns

(* dir_add writes to an entry that was not in use. *)
LEMMA FreeEntry == FreeEntries # {} => Min(FreeEntries) \in Entry /\ dir[Min(FreeEntries)] = NULL
<1> SUFFICES ASSUME FreeEntries # {} PROVE Min(FreeEntries) \in FreeEntries
  BY DEF FreeEntries
<1> QED BY MinIsLeast, Nulls DEF FreeEntries

(* process_add_file uses a descriptor that was not in use. *)
LEMMA FreeFd ==
  ASSUME NEW p \in Proc, FreeFds(p) # {}
  PROVE  Min(FreeFds(p)) \in Fd /\ fd_table[p][Min(FreeFds(p))] = NULL
<1>1. Min(FreeFds(p)) \in FreeFds(p)
  BY MinIsLeast, Nulls DEF FreeFds
<1> QED BY <1>1 DEF FreeFds

(* process_exit and process_duplicate find the first of the descriptors    *)
(* that are left.                                                          *)
LEMMA FirstOpen ==
  ASSUME NEW p \in Proc, NEW S \in SUBSET OpenFds(p), S # {}
  PROVE  /\ Min(S) \in S /\ Min(S) \in Fd /\ fd_table[p][Min(S)] # NULL
         /\ \A k \in S : Min(S) =< k
<1>1. S \subseteq Nat
  BY Nulls DEF OpenFds
<1> QED BY <1>1, MinIsLeast DEF OpenFds

(* A process starts with a descriptor that there is. *)
LEMMA FirstFdIsFd == Min(Fd) \in Fd
BY MinIsLeast, Nulls, FilesAssumption

-------------------------------------------------------------------------------
(* There are finitely many places that refer to an inode. *)
LEMMA FiniteRefs ==
  ASSUME NEW i
  PROVE  /\ IsFiniteSet(Refs(i)) /\ IsFiniteSet(Deniers(i))
         /\ Cardinality(Refs(i)) \in Nat /\ Cardinality(Deniers(i)) \in Nat
<1>1. IsFiniteSet((Fd \cup {0}) \cup {1})
  BY FilesAssumption, FS_AddElement
<1>2. (Fd \cup {0}) \cup {1} = Fd \cup {0, 1}
  OBVIOUS
<1>3. IsFiniteSet(Proc \X (Fd \cup {0, 1}))
  BY FilesAssumption, <1>1, <1>2, FS_Product
<1>4. Refs(i) \in SUBSET (Proc \X (Fd \cup {0, 1})) /\ Deniers(i) \in SUBSET Proc
  BY DEF Refs, Deniers
<1> QED BY <1>3, <1>4, FS_Subset, FS_CardinalityType, FilesAssumption

Place == Fd \cup {0, 1}

(* A step that makes and drops no reference keeps their number. *)
LEMMA RefsKept ==
  ASSUME NEW i, \A x \in Proc, k \in Place : Refers(x, k, i)' <=> Refers(x, k, i)
  PROVE  Cardinality(Refs(i)') = Cardinality(Refs(i))
<1>1. Refs(i)' = Refs(i)
  BY DEF Refs, Place
<1> QED BY <1>1

(* One reference more: inode_open, inode_reopen. *)
LEMMA RefsGrow ==
  ASSUME NEW i, NEW p \in Proc, NEW k \in Place, ~ Refers(p, k, i), Refers(p, k, i)',
         \A x \in Proc, l \in Place : << x, l >> # << p, k >> => (Refers(x, l, i)' <=>
           Refers(x, l, i))
  PROVE  Cardinality(Refs(i)') = Cardinality(Refs(i)) + 1
<1>1. Refs(i)' = Refs(i) \cup {<< p, k >>} /\ << p, k >> \notin Refs(i)
  BY DEF Refs, Place
<1> QED BY <1>1, FiniteRefs, FS_AddElement

(* One reference less: inode_close, or a file that nobody will close. *)
LEMMA RefsShrink ==
  ASSUME NEW i, NEW p \in Proc, NEW k \in Place, Refers(p, k, i), ~ Refers(p, k, i)',
         \A x \in Proc, l \in Place : << x, l >> # << p, k >> => (Refers(x, l, i)' <=>
           Refers(x, l, i))
  PROVE  Cardinality(Refs(i)') = Cardinality(Refs(i)) - 1
<1>1. Refs(i)' = Refs(i) \ {<< p, k >>} /\ << p, k >> \in Refs(i)
  BY DEF Refs, Place
<1> QED BY <1>1, FiniteRefs, FS_RemoveElement

(* A reference that goes from a call to a descriptor or to the running     *)
(* program.                                                                *)
LEMMA RefsMove ==
  ASSUME NEW i, NEW p \in Proc, NEW k \in Place, NEW m \in Place, k # m,
         Refers(p, k, i), ~ Refers(p, k, i)', ~ Refers(p, m, i), Refers(p, m, i)',
         \A x \in Proc, l \in Place : << x, l >> \notin {<< p, k >>, << p, m >>} =>
           (Refers(x, l, i)' <=> Refers(x, l, i))
  PROVE  Cardinality(Refs(i)') = Cardinality(Refs(i))
<1>1. Refs(i)' = (Refs(i) \ {<< p, k >>}) \cup {<< p, m >>} /\ << p, k >> \in Refs(i)
      /\ << p, m >> \notin Refs(i) \ {<< p, k >>}
  BY DEF Refs, Place
<1>2. IsFiniteSet(Refs(i) \ {<< p, k >>}) /\
        Cardinality(Refs(i) \ {<< p, k >>}) = Cardinality(Refs(i)) - 1
  BY <1>1, FiniteRefs, FS_RemoveElement
<1>3. Cardinality((Refs(i) \ {<< p, k >>}) \cup {<< p, m >>}) = Cardinality(Refs(i) \ {<< p,
        k >>}) + 1
  BY <1>1, <1>2, FS_AddElement
<1> QED BY <1>1, <1>2, <1>3, FiniteRefs

(* A step that denies and allows no writes keeps the number of deniers. *)
LEMMA DeniersKept ==
  ASSUME NEW i, \A x \in Proc : Denies(x, i)' <=> Denies(x, i)
  PROVE  Cardinality(Deniers(i)') = Cardinality(Deniers(i))
<1>1. Deniers(i)' = Deniers(i)
  BY DEF Deniers
<1> QED BY <1>1

(* One denier more: inode_deny_write. *)
LEMMA DeniersGrow ==
  ASSUME NEW i, NEW p \in Proc, ~ Denies(p, i), Denies(p, i)',
         \A x \in Proc : x # p => (Denies(x, i)' <=> Denies(x, i))
  PROVE  Cardinality(Deniers(i)') = Cardinality(Deniers(i)) + 1
<1>1. Deniers(i)' = Deniers(i) \cup {p} /\ p \notin Deniers(i)
  BY DEF Deniers
<1> QED BY <1>1, FiniteRefs, FS_AddElement

(* One denier less: inode_allow_write, or a program that is forgotten. *)
LEMMA DeniersShrink ==
  ASSUME NEW i, NEW p \in Proc, Denies(p, i), ~ Denies(p, i)',
         \A x \in Proc : x # p => (Denies(x, i)' <=> Denies(x, i))
  PROVE  Cardinality(Deniers(i)') = Cardinality(Deniers(i)) - 1
<1>1. Deniers(i)' = Deniers(i) \ {p} /\ p \in Deniers(i)
  BY DEF Deniers
<1> QED BY <1>1, FiniteRefs, FS_RemoveElement

(* An inode that something refers to is open and on the list of open inodes. *)
LEMMA ReferredIsOpen ==
  ASSUME TypeOK, CountInv, ListInv, NEW i \in Inode, NEW p \in Proc, NEW k \in Place,
         Refers(p, k, i)
  PROVE  inode[i] \in Struct /\ inode[i].count.open >= 1 /\ i \in open_inodes
<1>1. << p, k >> \in Refs(i)
  BY DEF Refs, Place
<1>2. Cardinality(Refs(i)) # 0
  BY <1>1, FiniteRefs, FS_EmptySet
<1>3. Cardinality(Refs(i)) \in Nat /\ lost[i].refs \in Nat
  BY FiniteRefs DEF TypeOK
<1>4. OpenCount(i) = Cardinality(Refs(i)) + lost[i].refs
  BY DEF CountInv, CountOf
<1>5. OpenCount(i) >= 1
  BY <1>2, <1>3, <1>4
<1> QED BY <1>5 DEF OpenCount, ListInv, ListOf, TypeOK, Struct

(* The inode of a running program has its writes denied. *)
LEMMA DeniedIsDenied ==
  ASSUME TypeOK, CountInv, NEW i \in Inode, NEW p \in Proc, Denies(p, i)
  PROVE  inode[i] \in Struct /\ inode[i].count.deny >= 1
<1>1. p \in Deniers(i)
  BY DEF Deniers
<1>2. Cardinality(Deniers(i)) # 0
  BY <1>1, FiniteRefs, FS_EmptySet
<1>3. Cardinality(Deniers(i)) \in Nat /\ lost[i].denies \in Nat
  BY FiniteRefs DEF TypeOK
<1>4. DenyCount(i) = Cardinality(Deniers(i)) + lost[i].denies
  BY DEF CountInv, CountOf
<1>5. DenyCount(i) >= 1
  BY <1>2, <1>3, <1>4
<1> QED BY <1>5 DEF DenyCount, TypeOK, Struct

(* A step of one process disturbs no child that is copying, since a parent *)
(* stands still in process_fork, and leaves a dead process with nothing.   *)
LEMMA ForkKept ==
  ASSUME TypeOK, TypeOK', ForkInv, NEW p \in Proc, OthersStay(p), pc[p] # "forking",
         pc'[p] = "dead" => running'[p] = NULL /\ \A k \in Fd : fd_table'[p][k] = NULL,
         \/ at[p].op # "fork" /\ at'[p].op # "fork"
         \/ /\ at'[p].op = "fork" /\ at[p].op = "fork" /\ pc[p] # "duplicate" /\
                 pc'[p] # "duplicate"
            /\ at'[p].name = at[p].name /\ at'[p].fd = at[p].fd /\ at'[p].i = at[p].i
            /\ fd_table'[p] = fd_table[p] /\ running'[p] = running[p],
         \A q \in Proc : q # p => fd_table'[q] = fd_table[q] /\ running'[q] = running[q]
  PROVE  ForkInv'
<1> SUFFICES ASSUME NEW q \in Proc PROVE ForkOf(q)'
  BY DEF ForkInv
<1>1. ForkOf(q)
  BY DEF ForkInv
<1>2. CASE at[q].op = "fork"
  <2>1. at[q].name # p /\ at[q].name \in Proc
    BY <1>1, <1>2 DEF ForkOf
  <2>2. at'[q].op = "fork" =>
          at'[q].name = at[q].name /\ at'[q].fd = at[q].fd /\ at'[q].i = at[q].i /\
            fd_table'[q] = fd_table[q] /\ running'[q] = running[q]
     /\ (pc'[q] = "duplicate" <=> pc[q] = "duplicate")
    BY <1>2 DEF OthersStay
  <2>3. \A r \in Proc : at'[r].op = "fork" => at[r].op = "fork" /\ at'[r].name = at[r].name
    BY DEF OthersStay
  <2>4. pc'[at[q].name] = pc[at[q].name] /\ fd_table'[at[q].name] = fd_table[at[q].name]
    BY <2>1 DEF OthersStay
  <2> QED BY <1>1, <1>2, <2>1, <2>2, <2>3, <2>4 DEF ForkOf, OthersStay
<1>3. CASE at[q].op # "fork"
  BY <1>1, <1>3 DEF ForkOf, OthersStay
<1> QED BY <1>2, <1>3

-------------------------------------------------------------------------------
(* What steps keep.                                                        *)

SameFile(i) ==
  /\ inode'[i] = NULL <=> inode[i] = NULL
  /\ inode[i] # NULL => /\ inode'[i].sector = inode[i].sector
                        /\ inode'[i].removed = inode[i].removed
                        /\ inode'[i].data = inode[i].data
InodesStay == open_inodes' = open_inodes /\ \A i \in Inode : SameFile(i)
FilesStay == dir' = dir /\ content' = content /\ InodesStay
Freeing(p) == pc[p] \in {"write_map", "release_data", "free"}

(* The owners stay exclusive when nobody gets a sector. *)
LEMMA OwnerShrinks ==
  ASSUME OwnerInv,
         \A s \in Sector :
           /\ \A e \in Entry : EntryHas(e, s)' => EntryHas(e, s)
           /\ \A i \in Inode : InodeHas(i, s)' => InodeHas(i, s)
           /\ \A q \in Proc : CreateHas(q, s)' => CreateHas(q, s)
           /\ s \in free_map => s \in free_map'
  PROVE  OwnerInv'
<1> SUFFICES ASSUME NEW s \in Sector PROVE OwnerOf(s)'
  BY DEF OwnerInv
<1>1. OwnerOf(s)
  BY DEF OwnerInv
<1> QED BY <1>1 DEF OwnerOf

(* With the directory and the headers the same, an entry has the sectors   *)
(* that it had.                                                            *)
LEMMA EntriesKept ==
  ASSUME dir' = dir, content' = content, NEW e, NEW s
  PROVE  EntryHas(e, s)' <=> EntryHas(e, s)
BY DEF EntryHas, Storage, Data

(* A step of a process that is not in filesys_create gives no creator a    *)
(* sector.                                                                 *)
LEMMA CreatesKept ==
  ASSUME NEW p \in Proc, OthersStay(p), at[p].op # "create", at'[p].op # "create",
         NEW q \in Proc, NEW s
  PROVE  CreateHas(q, s)' <=> CreateHas(q, s)
BY DEF OthersStay, CreateHas, WithData, New

(* A removed inode has the sectors it had when no release of them advances. *)
LEMMA RemovedSame ==
  ASSUME NEW i \in Inode, SameFile(i), NEW s,
         \A q \in Proc : SectorGone(q, i)' <=> SectorGone(q, i),
         \A q \in Proc : DataGone(q, i)' <=> DataGone(q, i)
  PROVE  InodeHas(i, s)' <=> InodeHas(i, s)
<1>1. CASE inode[i] = NULL
  BY <1>1 DEF SameFile, InodeHas
<1>2. CASE inode[i] # NULL
  BY <1>2 DEF SameFile, InodeHas, Data
<1> QED BY <1>1, <1>2

(* The same, for a step of one process that is not releasing. *)
LEMMA RemovedKept ==
  ASSUME NEW p \in Proc, OthersStay(p), NEW i \in Inode, SameFile(i),
         ~ (at[p].i = i /\ Freeing(p)), ~ (at[p].i = i /\ Freeing(p))', NEW s
  PROVE  InodeHas(i, s)' <=> InodeHas(i, s)
<1>1. \A q \in Proc : SectorGone(q, i)' <=> SectorGone(q, i)
  BY DEF OthersStay, Freeing, SectorGone
<1>2. \A q \in Proc : DataGone(q, i)' <=> DataGone(q, i)
  BY DEF OthersStay, Freeing, DataGone
<1> QED BY <1>1, <1>2, RemovedSame

(* A step without disk, free map, creation or release keeps the owners. *)
LEMMA OwnerKept ==
  ASSUME NEW p \in Proc, OthersStay(p), FilesStay, free_map' = free_map, OwnerInv,
         at[p].op # "create", at'[p].op # "create",
         at[p].i \in Inode => ~ Freeing(p), at'[p].i \in Inode => ~ Freeing(p)'
  PROVE  OwnerInv'
<1>1. ASSUME NEW s \in Sector
      PROVE  /\ \A e \in Entry : EntryHas(e, s)' => EntryHas(e, s)
             /\ \A i \in Inode : InodeHas(i, s)' => InodeHas(i, s)
             /\ \A q \in Proc : CreateHas(q, s)' => CreateHas(q, s)
  BY EntriesKept, CreatesKept, RemovedKept DEF FilesStay, InodesStay
<1> QED BY <1>1, OwnerShrinks

(* A step that leaves disk and inodes alone keeps what headers there are. *)
LEMMA ContentKept ==
  ASSUME NEW p \in Proc, OthersStay(p), FilesStay, TypeOK, ContentInv, ListedInUse,
         at[p].op # "create", at'[p].op # "create", CallInv, CallInv'
  PROVE  ContentInv'
<1>1. \A q \in Proc : WithData(q)' => WithData(q) /\ q # p
  BY DEF WithData, OthersStay
<1>2. \A q \in Proc : pc'[q] \in {"zero_data", "add_entry"} => q # p
  BY DEF CallInv, CallOf
<1>3. \A q \in Proc : q # p => pc'[q] = pc[q] /\ at'[q] = at[q]
  BY DEF OthersStay
<1>4. \A i \in open_inodes : i \in Inode /\ inode[i] # NULL
  BY DEF TypeOK, ListedInUse
<1>5. \A s : HeaderAt(s)' <=> HeaderAt(s)
  BY DEF FilesStay, InodesStay, HeaderAt, Data
<1>6. (\A e \in Entry : dir[e] # NULL => HeaderAt(dir[e].sector))'
  BY <1>5 DEF FilesStay, InodesStay, ContentInv, HeaderAt, Data
<1>7. (\A i \in open_inodes : inode[i].data # NULL =>
       content[inode[i].sector] = inode[i].data /\ HeaderAt(inode[i].sector))'
  BY <1>4 DEF FilesStay, InodesStay, ContentInv, HeaderAt, Data, SameFile
<1>8. (\A i \in Inode : inode[i] # NULL /\ inode[i].data # NULL =>
       /\ inode[i].data \in Header /\ inode[i].sector \notin Data(inode[i].data)
       /\ Data(inode[i].data) \subseteq Sector)'
  BY DEF FilesStay, InodesStay, ContentInv, Data, SameFile
<1>9. ASSUME NEW q \in Proc PROVE
      (/\ pc[q] \in {"zero_data", "add_entry"} =>
             content[at[q].sector] = [start |-> at[q].fd, length |-> at[q].num]
       /\ WithData(q) => /\ at[q].sector \notin New(q) /\ New(q) \subseteq Sector
                         /\ at[q].fd \in Sector \cup {0})'
  BY <1>1, <1>2, <1>3 DEF FilesStay, InodesStay, ContentInv, New
<1> QED BY <1>6, <1>7, <1>8, <1>9 DEF ContentInv

(* A step that leaves the directory and the inodes alone keeps the names. *)
LEMMA NameKept ==
  ASSUME NEW p \in Proc, OthersStay(p), InodesStay, dir' = dir, TypeOK, NameInv, ListInv, CallInv,
         at'[p].op \in Opens /\ pc'[p] \in Opening =>
            /\ at[p].op \in Opens /\ pc[p] \in Opening
            /\ at'[p].i = at[p].i /\ at'[p].sector = at[p].sector /\ at'[p].name = at[p].name
  PROVE  NameInv'
<1>1. ASSUME NEW q \in Proc, at'[q].op \in Opens, pc'[q] \in Opening PROVE OpenedOf(q)'
  <2>1. at[q].op \in Opens /\ pc[q] \in Opening
            /\ at'[q].i = at[q].i /\ at'[q].sector = at[q].sector /\ at'[q].name = at[q].name
    BY <1>1 DEF OthersStay
  <2>2. at[q].i \in Inode
    BY <2>1 DEF CallInv, CallOf, Opens, Opening
  <2>3. inode[at[q].i] # NULL
    BY <2>1, <2>2 DEF ListInv, ListOf
  <2>4. OpenedOf(q)
    BY DEF NameInv
  <2>5. inode'[at[q].i].sector = inode[at[q].i].sector /\
          inode'[at[q].i].removed = inode[at[q].i].removed
    BY <2>2, <2>3 DEF InodesStay, SameFile
  <2> QED BY <2>1, <2>2, <2>4, <2>5 DEF OpenedOf, InodesStay, Lookup
<1>2. \A i \in open_inodes : inode[i] # NULL /\ i \in Inode
  BY DEF ListInv, ListOf, TypeOK
<1>3. \A q \in Proc : OpenedOf(q)'
  BY <1>1 DEF OpenedOf
<1>4. (\A e, f \in Entry : dir[e] # NULL /\ dir[f] # NULL /\ dir[e].name = dir[f].name => e = f)'
  BY DEF NameInv, InodesStay
<1>5. (\A i \in open_inodes : ~ inode[i].removed =>
       \E e \in Entry : dir[e] # NULL /\ dir[e].sector = inode[i].sector)'
  BY <1>2 DEF NameInv, InodesStay, SameFile
<1> QED BY <1>3, <1>4, <1>5 DEF NameInv

(* A call that is about to read or write a counter of an inode has it      *)
(* open: no call uses an inode that another one has freed.                 *)
LEMMA WorksOnOpen ==
  ASSUME TypeOK, CallInv, Strong, NEW p \in Proc,
         pc[p] \in {"get_open", "put_open", "get_close", "put_close", "get_deny", "put_deny",
           "denied",
                    "get_allow", "put_allow"}
  PROVE  /\ at[p].i \in Inode /\ at[p].i \in open_inodes /\ inode[at[p].i] \in Struct
         /\ inode[at[p].i].count.open \in Int /\ inode[at[p].i].count.open >= 0
<1>1. at[p].i \in Inode
  BY DEF CallInv, CallOf, Opens
<1>2. at[p].i \in open_inodes
  <2>1. CASE at[p].op \in Opens /\ pc[p] \in {"get_open", "put_open"}
    BY <1>1, <2>1 DEF Strong, ListInv, ListOf, Opening
  <2>2. CASE at[p].op \in {"open", "remove"} /\ pc[p] \in {"get_close", "put_close"}
    <3>1. Refers(p, 1, at[p].i) /\ 1 \in Place
      BY <2>2 DEF Refers, Transit, Place
    <3> QED BY <1>1, <3>1, ReferredIsOpen DEF Strong
  <2>3. CASE at[p].op \in {"close", "exit"} /\ at[p].fd # 0
    <3>1. Refers(p, at[p].fd, at[p].i) /\ at[p].fd \in Place
      BY <2>3 DEF Refers, CountedDown, Releasing, CallInv, CallOf, Strong, FileInv, FileOf, Place
    <3> QED BY <1>1, <3>1, ReferredIsOpen DEF Strong
  <2>4. CASE \/ at[p].op = "exit" /\ at[p].fd = 0
             \/ at[p].op = "load" /\ pc[p] \notin {"get_open", "put_open"}
    <3>1. Refers(p, 0, at[p].i) /\ 0 \in Place
      BY <2>4, Nulls
         DEF Refers, CountedDown, Releasing, CallInv, CallOf, Closing, Strong, FileInv, FileOf,
             Place
    <3> QED BY <1>1, <3>1, ReferredIsOpen DEF Strong
  <2>5. CASE at[p].op = "mmap"
    <3>1. PICK k \in Fd : fd_table[p][k] # NULL /\ fd_table[p][k].inode = at[p].i
      BY <2>5 DEF Strong, FileInv, FileOf
    <3>2. Refers(p, k, at[p].i) /\ k \in Place
      BY <2>5, <3>1 DEF Refers, CountedDown, Place
    <3> QED BY <1>1, <3>2, ReferredIsOpen DEF Strong
  <2>6. CASE at[p].op = "fork"
    <3>1. /\ at[p].name \in Proc /\ at[p].fd \in Fd /\ pc[at[p].name] = "forking"
          /\ fd_table[at[p].name][at[p].fd] # NULL
          /\ fd_table[at[p].name][at[p].fd].inode = at[p].i
      BY <2>6 DEF Strong, ForkInv, ForkOf
    <3>2. Refers(at[p].name, at[p].fd, at[p].i) /\ at[p].fd \in Place
      BY <3>1 DEF Refers, CountedDown, Releasing, Place
    <3> QED BY <1>1, <3>1, <3>2, ReferredIsOpen DEF Strong
  <2> QED BY <2>1, <2>2, <2>3, <2>4, <2>5, <2>6, Nulls DEF CallInv, CallOf, Opens, Closing
<1>3. inode[at[p].i] \in Struct
  BY <1>1, <1>2 DEF Strong, ListInv, ListOf, TypeOK
<1>4. inode[at[p].i].count.open >= 0
  <2>1. Cardinality(Refs(at[p].i)) \in Nat /\ lost[at[p].i].refs \in Nat
    BY <1>1, FiniteRefs DEF TypeOK
  <2>2. OpenCount(at[p].i) = Cardinality(Refs(at[p].i)) + lost[at[p].i].refs
    BY <1>1 DEF Strong, CountInv, CountOf
  <2> QED BY <1>3, <2>1, <2>2, Nulls DEF OpenCount
<1> QED BY <1>1, <1>2, <1>3, <1>4 DEF Struct

(* The list stays sound in a step that takes no inode off it; a counter    *)
(* that falls to 0 does so at the close that tests it next.                *)
LEMMA ListKept ==
  ASSUME TypeOK, ListInv, NEW p \in Proc, OthersStay(p), InodesStay, at'[p].i = at[p].i,
         pc[p] \notin Releasing \cup {"test", "unlist", "read_inode"},
         pc'[p] \notin Releasing \cup {"unlist", "read_inode"},
         pc'[p] = "test" => at[p].i \in open_inodes,
         at'[p].op \in Opens /\ pc'[p] \in Opening => at[p].op \in Opens /\ pc[p] \in Opening,
         \A i \in Inode : inode[i] # NULL =>
            \/ inode'[i].count.open = inode[i].count.open
            \/ /\ i = at[p].i /\ i \in open_inodes
               /\ \A q \in Proc : at[q].i = i => pc[q] # "unlist"
               /\ inode'[i].count.open = 0 => pc'[p] = "test"
  PROVE  ListInv'
<1>1. \A q \in Proc : q # p => pc'[q] = pc[q] /\ at'[q] = at[q]
  BY DEF OthersStay
<1>2. ASSUME NEW i \in Inode PROVE ListOf(i)'
  <2>0. ListOf(i)
    BY DEF ListInv
  <2>1. (\A q \in Proc : Ends(q, i)' <=> Ends(q, i)) /\ ~ Ends(p, i)
    BY <1>1 DEF Ends
  <2>2. inode'[i] = NULL <=> inode[i] = NULL
    BY DEF InodesStay, SameFile
  <2>3. open_inodes' = open_inodes
    BY DEF InodesStay
  <2>4. (i \in open_inodes => inode[i] # NULL)'
    BY <2>0, <2>2, <2>3 DEF ListOf
  <2>5. (i \in open_inodes /\ inode[i].count.open = 0 =>
           \E q \in Proc : at[q].i = i /\ pc[q] \in {"test", "unlist"})'
    BY <2>0, <2>3, <1>1 DEF ListOf
  <2>6. (inode[i] # NULL /\ i \notin open_inodes =>
           inode[i].count.open = 0 /\ \E q \in Proc : Ends(q, i))'
    BY <2>0, <2>1, <2>2, <2>3 DEF ListOf
  <2>7. (\A q \in Proc : Ends(q, i) =>
           /\ inode[i] # NULL /\ i \notin open_inodes
           /\ pc[q] # "free" => inode[i].removed
           /\ \A r \in Proc : r # q => ~ Ends(r, i))'
    BY <1>1, <2>0, <2>1, <2>2, <2>3 DEF ListOf, Ends, InodesStay, SameFile
  <2>8. (\A q \in Proc : at[q].i = i /\ pc[q] = "unlist" =>
           i \in open_inodes /\ inode[i].count.open = 0)'
    BY <2>0, <2>2, <2>3, <1>1 DEF ListOf
  <2>9. (\A q \in Proc : at[q].i = i /\ pc[q] = "test" => i \in open_inodes)'
    BY <2>0, <2>3, <1>1 DEF ListOf
  <2>10. (\A q \in Proc : at[q].i = i /\ at[q].op \in Opens /\ pc[q] \in Opening =>
           i \in open_inodes)'
    BY <2>0, <2>3, <1>1 DEF ListOf
  <2>11. (inode[i] # NULL =>
       (inode[i].data = NULL <=> \E q \in Proc : at[q].i = i /\ pc[q] = "read_inode"))'
    BY <2>0, <2>2, <1>1 DEF ListOf, InodesStay, SameFile
  <2> QED BY <2>4, <2>5, <2>6, <2>7, <2>8, <2>9, <2>10, <2>11 DEF ListOf
<1>3. \A i \in open_inodes : inode[i] # NULL /\ i \in Inode
  BY DEF ListInv, ListOf, TypeOK
<1>4. (\A i, j \in open_inodes : inode[i].sector = inode[j].sector => i = j)'
  BY <1>3 DEF ListInv, InodesStay, SameFile
<1> QED BY <1>2, <1>4 DEF ListInv

(* Between calls the locals are locals. *)
LEMMA IdleIsLocal == Idle \in Locals
BY Nulls DEF Idle, Locals, Label, Op

NoOwner(s) == /\ \A e \in Entry : ~ EntryHas(e, s)
              /\ \A i \in Inode : ~ InodeHas(i, s)
              /\ \A p \in Proc : ~ CreateHas(p, s)

(* filesys_create holds the lock, so that one process at most is in it. *)
LEMMA OnlyCreator ==
  ASSUME LockInv, NEW p \in Proc, NEW q \in Proc, at[p].op = "create", at[q].op = "create"
  PROVE  p = q
BY DEF LockInv, Holds

(* A sector that is free in the free map belongs to nothing. *)
LEMMA FreeIsNobodys ==
  ASSUME OwnerInv, NEW s \in Sector, s \notin free_map
  PROVE  NoOwner(s)
BY DEF OwnerInv, OwnerOf, NoOwner

(* A step of one process leaves the sectors of the others' creations alone. *)
LEMMA OtherCreatesKept ==
  ASSUME NEW p \in Proc, OthersStay(p), NEW q \in Proc, q # p, NEW s
  PROVE  CreateHas(q, s)' <=> CreateHas(q, s)
BY DEF OthersStay, CreateHas, WithData, New

(* The owners stay exclusive when each sector either has no owner after    *)
(* the step or no new one but the process that steps, to which it was      *)
(* free.                                                                   *)
LEMMA OwnerStep ==
  ASSUME OwnerInv, NEW p \in Proc, OthersStay(p),
         \A s \in Sector :
           \/ NoOwner(s)'
           \/ /\ \A e \in Entry : EntryHas(e, s)' => EntryHas(e, s)
              /\ \A i \in Inode : InodeHas(i, s)' => InodeHas(i, s)
              /\ \/ CreateHas(p, s)' => CreateHas(p, s)
                 \/ NoOwner(s)
              /\ CreateHas(p, s)' \/ s \in free_map => s \in free_map'
  PROVE  OwnerInv'
<1> SUFFICES ASSUME NEW s \in Sector PROVE OwnerOf(s)'
  BY DEF OwnerInv
<1>1. OwnerOf(s)
  BY DEF OwnerInv
<1>2. \A q \in Proc : q # p => (CreateHas(q, s)' <=> CreateHas(q, s))
  BY OtherCreatesKept
<1> QED BY <1>1, <1>2 DEF OwnerOf, NoOwner

(* A sector of an open inode belongs to its entry or, once the file is     *)
(* removed, to the inode.                                                  *)
LEMMA OpenIsOwned ==
  ASSUME TypeOK, Strong, NEW i \in open_inodes, NEW s,
         s = inode[i].sector \/ s \in Data(inode[i].data), inode[i].data # NULL
  PROVE  /\ i \in Inode
         /\ \/ InodeHas(i, s)
            \/ \E e \in Entry : dir[e] # NULL /\ dir[e].sector = inode[i].sector /\ EntryHas(e, s)
<1>1. i \in Inode /\ inode[i] # NULL
  BY DEF TypeOK, Strong, ListInv, ListOf
<1>2. CASE inode[i].removed
  <2>1. \A p \in Proc : at[p].i = i => pc[p] \notin {"write_map", "release_data", "free"}
    BY <1>1 DEF Strong, ListInv, ListOf, Ends, Releasing
  <2> QED BY <1>1, <1>2, <2>1 DEF InodeHas, SectorGone, DataGone
<1>3. CASE ~ inode[i].removed
  <2>1. PICK e \in Entry : dir[e] # NULL /\ dir[e].sector = inode[i].sector
    BY <1>3 DEF Strong, NameInv
  <2>2. content[inode[i].sector] = inode[i].data
    BY DEF Strong, ContentInv
  <2> QED BY <1>1, <2>1, <2>2 DEF EntryHas, Storage
<1> QED BY <1>2, <1>3

(* The same of the sector of its header, while it is being read too. *)
LEMMA SectorOwned ==
  ASSUME TypeOK, Strong, NEW i \in open_inodes
  PROVE  /\ i \in Inode /\ inode[i] \in Struct
         /\ \/ InodeHas(i, inode[i].sector)
            \/ \E e \in Entry : dir[e] # NULL /\ dir[e].sector = inode[i].sector /\
                 EntryHas(e, inode[i].sector)
<1>1. i \in Inode /\ inode[i] # NULL /\ inode[i] \in Struct
  BY DEF TypeOK, Strong, ListInv, ListOf
<1>2. CASE inode[i].removed
  <2>1. \A p \in Proc : at[p].i = i => pc[p] \notin {"write_map", "release_data", "free"}
    BY <1>1 DEF Strong, ListInv, ListOf, Ends, Releasing
  <2> QED BY <1>1, <1>2, <2>1 DEF InodeHas, SectorGone, DataGone
<1>3. CASE ~ inode[i].removed
  <2>1. PICK e \in Entry : dir[e] # NULL /\ dir[e].sector = inode[i].sector
    BY <1>3 DEF Strong, NameInv
  <2> QED BY <1>1, <2>1 DEF EntryHas, Storage
<1> QED BY <1>2, <1>3

(* A write to a sector that is no header in use keeps the headers, if the  *)
(* writer's own is sound.                                                  *)
LEMMA ContentStep ==
  ASSUME TypeOK, TypeOK', Strong, NEW p \in Proc, OthersStay(p), inode' = inode,
         open_inodes' = open_inodes,
         dir' = dir,
         \A s \in Sector : content'[s] # content[s] =>
            /\ \A e \in Entry : dir[e] # NULL => dir[e].sector # s
            /\ \A i \in open_inodes : inode[i].sector # s
            /\ \A q \in Proc : q # p /\ at[q].op = "create" => FALSE,
         CallInv,
         pc'[p] \in {"zero_data", "add_entry"} =>
            content'[at'[p].sector] = [start |-> at'[p].fd, length |-> at'[p].num],
         WithData(p)' => /\ at'[p].sector \notin New(p)' /\ New(p)' \subseteq Sector
                         /\ at'[p].fd \in Sector \cup {0}
  PROVE  ContentInv'
<1>1. \A q \in Proc : q # p => pc'[q] = pc[q] /\ at'[q] = at[q]
  BY DEF OthersStay
<1>2. \A e \in Entry : dir[e] # NULL =>
        dir[e].sector \in Sector /\ content'[dir[e].sector] = content[dir[e].sector]
  BY DEF TypeOK, DirEntry
<1>3. \A i \in open_inodes : i \in Inode /\ inode[i] \in Struct
  BY DEF Strong, ListInv, ListOf, TypeOK
<1>4. \A i \in open_inodes :
        inode[i].sector \in Sector /\ content'[inode[i].sector] = content[inode[i].sector]
  BY <1>3 DEF Struct
<1>5. (\A e \in Entry : dir[e] # NULL => HeaderAt(dir[e].sector))'
  BY <1>2 DEF Strong, ContentInv, HeaderAt, Data
<1>6. (\A i \in open_inodes : inode[i].data # NULL =>
       content[inode[i].sector] = inode[i].data /\ HeaderAt(inode[i].sector))'
  BY <1>4 DEF Strong, ContentInv, HeaderAt, Data
<1>7. (\A i \in Inode : inode[i] # NULL /\ inode[i].data # NULL =>
       /\ inode[i].data \in Header /\ inode[i].sector \notin Data(inode[i].data)
       /\ Data(inode[i].data) \subseteq Sector)'
  BY DEF Strong, ContentInv, Data
<1>8. ASSUME NEW q \in Proc PROVE
      (/\ pc[q] \in {"zero_data", "add_entry"} =>
             content[at[q].sector] = [start |-> at[q].fd, length |-> at[q].num]
       /\ WithData(q) => /\ at[q].sector \notin New(q) /\ New(q) \subseteq Sector
                         /\ at[q].fd \in Sector \cup {0})'
  <2>1. CASE q = p
    BY <2>1 DEF New
  <2>2. CASE q # p
    <3>1. WithData(q)' <=> WithData(q)
      BY <1>1, <2>2 DEF WithData
    <3>2. pc[q] \in {"zero_data", "add_entry"} => at[q].op = "create" /\ at[q].sector \in Sector
      BY DEF CallInv, CallOf
    <3>3. pc[q] \in {"zero_data", "add_entry"} => content'[at[q].sector] = content[at[q].sector]
      BY <2>2, <3>2
    <3> QED BY <1>1, <2>2, <3>1, <3>2, <3>3 DEF Strong, ContentInv, New
  <2> QED BY <2>1, <2>2
<1> QED BY <1>5, <1>6, <1>7, <1>8 DEF ContentInv

(* The sectors of a creation are no file's yet. *)
LEMMA CreatedIsNotThere ==
  ASSUME TypeOK, Strong, NEW p \in Proc, NEW s \in Sector, CreateHas(p, s)
  PROVE  /\ \A e \in Entry : dir[e] # NULL => dir[e].sector # s
         /\ \A i \in open_inodes : inode[i].sector # s
<1>1. ASSUME NEW e \in Entry, dir[e] # NULL PROVE dir[e].sector # s
  <2>1. EntryHas(e, dir[e].sector)
    BY <1>1 DEF EntryHas, Storage
  <2> QED BY <2>1 DEF Strong, OwnerInv, OwnerOf
<1>2. ASSUME NEW i \in open_inodes PROVE inode[i].sector # s
  BY SectorOwned DEF Strong, OwnerInv, OwnerOf
<1> QED BY <1>1, <1>2

(* A step that changes no file and begins no close keeps what the calls    *)
(* work on.                                                                *)
LEMMA FileKept ==
  ASSUME FileInv, NEW p \in Proc, OthersStay(p), fd_table' = fd_table, running' = running,
         \/ at'[p].op \notin {"close", "exit", "mmap"}
         \/ at'[p].op = at[p].op /\ at'[p].fd = at[p].fd /\ at'[p].i = at[p].i,
         pc'[p] \in {"get_deny", "put_deny", "denied"} =>
            pc[p] \in {"get_deny", "put_deny", "denied"} /\ at'[p].i = at[p].i
  PROVE  FileInv'
<1> SUFFICES ASSUME NEW q \in Proc PROVE FileOf(q)'
  BY DEF FileInv
<1>1. FileOf(q)
  BY DEF FileInv
<1>2. CASE q = p
  BY <1>1, <1>2 DEF FileOf
<1>3. CASE q # p
  BY <1>1, <1>3 DEF FileOf, OthersStay
<1> QED BY <1>2, <1>3

(* What dir_lookup finds for a name is the entry of that name. *)
LEMMA NamedByEntry ==
  ASSUME NEW n, Lookup(n) # {}
  PROVE  \E e \in Entry : /\ dir[e] # NULL /\ dir[e].name = n
                          /\ (CHOOSE d \in { dir[x] : x \in Lookup(n) } :
                               TRUE).sector = dir[e].sector
<1> DEFINE D == { dir[x] : x \in Lookup(n) }
           d == CHOOSE x \in D : TRUE
<1>1. D # {}
  OBVIOUS
<1>2. d \in D
  BY <1>1, Zenon
<1>3. PICK e \in Lookup(n) : d = dir[e]
  BY <1>2
<1> QED BY <1>3 DEF Lookup

OpenAs(p, n, op, e, i) ==
  /\ Begin(p) /\ filesys_lock = NULL /\ filesys_lock' = p
  /\ dir[e] # NULL /\ dir[e].name = n
  /\ Local(p, [Idle EXCEPT !.op = op, !.name = n, !.sector = dir[e].sector, !.i = i])
  /\ UNCHANGED << disk, free_map, tables, faults, panic >>
OpenFound(p, n, op, e, i) ==
  /\ OpenAs(p, n, op, e, i)
  /\ inode[i].sector = dir[e].sector
  /\ Goto(p, "get_open")
  /\ raced' = (raced \/ Meets(p, i))
  /\ UNCHANGED inodes
OpenNew(p, n, op, e, i) ==
  /\ OpenAs(p, n, op, e, i)
  /\ \A j \in open_inodes : inode[j].sector # dir[e].sector
  /\ inode[i] = NULL
  /\ inode' = [inode EXCEPT ![i] = [sector |-> dir[e].sector, removed |-> FALSE, data |-> NULL,
                                    count |-> [open |-> 1, deny |-> 0]]]
  /\ open_inodes' = open_inodes \cup {i}
  /\ Goto(p, "read_inode")
  /\ UNCHANGED raced

(* inode_open finds the inode on the list or makes a new one. *)
LEMMA OpenIsFoundOrNew ==
  ASSUME NEW p \in Proc, NEW n \in Name, NEW op, OpenInode(p, n, op)
  PROVE  \E e \in Entry : \/ \E i \in open_inodes : OpenFound(p, n, op, e, i)
                          \/ \E i \in Inode : OpenNew(p, n, op, e, i)
<1> DEFINE s == (CHOOSE d \in { dir[x] : x \in Lookup(n) } : TRUE).sector
           i == CHOOSE j \in open_inodes : inode[j].sector = s
<1>1. Lookup(n) # {}
  BY DEF OpenInode
<1>2. PICK e \in Entry : dir[e] # NULL /\ dir[e].name = n /\ s = dir[e].sector
  BY <1>1, NamedByEntry
<1>3. (\E j \in open_inodes : inode[j].sector = s) => i \in open_inodes /\ inode[i].sector = s
  BY Zenon
<1>4. /\ Begin(p) /\ filesys_lock = NULL /\ filesys_lock' = p
      /\ UNCHANGED << disk, free_map, tables, faults, panic >>
      /\ \/ /\ \E j \in open_inodes : inode[j].sector = s
            /\ inode[i].count.open < MaxOpen
            /\ Goto(p, "get_open") /\ Local(p, [Idle EXCEPT !.op = op, !.name = n, !.sector = s,
                 !.i = i])
            /\ raced' = (raced \/ Meets(p, i))
            /\ UNCHANGED inodes
         \/ /\ ~ \E j \in open_inodes : inode[j].sector = s
            /\ \E j \in Inode :
                 /\ inode[j] = NULL
                 /\ inode' = [inode EXCEPT ![j] = [sector |-> s, removed |-> FALSE, data |-> NULL,
                                                   count |-> [open |-> 1, deny |-> 0]]]
                 /\ open_inodes' = open_inodes \cup {j}
                 /\ Local(p, [Idle EXCEPT !.op = op, !.name = n, !.sector = s, !.i = j])
            /\ Goto(p, "read_inode")
            /\ UNCHANGED raced
  BY Zenon DEF OpenInode
<1> HIDE DEF i, s
<1>5. CASE \E j \in open_inodes : inode[j].sector = s
  BY <1>2, <1>3, <1>4, <1>5 DEF Local, OpenAs, OpenFound
<1>6. CASE ~ \E j \in open_inodes : inode[j].sector = s
  BY <1>2, <1>4, <1>6 DEF Local, OpenAs, OpenNew
<1> QED BY <1>5, <1>6

(* An inode whose counter of openers is 0 has no references, no deniers    *)
(* and was never lost: freeing it leaves no dangling file.                 *)
LEMMA NobodyReferred ==
  ASSUME TypeOK, CallInv, Strong, NEW i \in Inode, OpenCount(i) = 0
  PROVE  /\ \A x \in Proc, k \in Place : ~ Refers(x, k, i)
         /\ \A x \in Proc : ~ Denies(x, i)
         /\ lost[i].refs = 0 /\ lost[i].denies = 0 /\ DenyCount(i) = 0
         /\ Cardinality(Refs(i)) = 0 /\ Cardinality(Deniers(i)) = 0
<1>1. Cardinality(Refs(i)) \in Nat /\ lost[i].refs \in Nat /\ lost[i].denies \in Nat
  BY FiniteRefs DEF TypeOK
<1>2. OpenCount(i) = Cardinality(Refs(i)) + lost[i].refs /\ lost[i].denies =< lost[i].refs
      /\ DenyCount(i) = Cardinality(Deniers(i)) + lost[i].denies
  BY DEF Strong, CountInv, CountOf
<1>3. Cardinality(Refs(i)) = 0 /\ lost[i].refs = 0 /\ lost[i].denies = 0
  BY <1>1, <1>2
<1>4. Refs(i) = {}
  BY <1>3, FiniteRefs, FS_EmptySet
<1>5. ASSUME NEW x \in Proc, NEW k \in Place, Refers(x, k, i) PROVE FALSE
  <2>1. << x, k >> \in Refs(i)
    BY <1>5 DEF Refs, Place
  <2> QED BY <1>4, <2>1
<1>6. ASSUME NEW x \in Proc, Denies(x, i) PROVE FALSE
  <2>1. Refers(x, 0, i)
    BY <1>6, Nulls DEF Denies, Refers, CountedDown, Releasing, CallInv, CallOf
  <2> QED BY <1>5, <2>1 DEF Place
<1>7. Deniers(i) = {}
  BY <1>6 DEF Deniers
<1> QED BY <1>2, <1>3, <1>5, <1>6, <1>7, FS_EmptySet

CopyNext(q, n, k, j) ==
  /\ At(q, "duplicate") /\ at[q].name = n
  /\ k > at[q].fd /\ fd_table[n][k] # NULL /\ fd_table[n][k].inode = j
  /\ Goto(q, "get_open")
  /\ Local(q, [Me(q) EXCEPT !.fd = k, !.i = j])
  /\ UNCHANGED << disk, free_map, inodes, tables, filesys_lock, health >>
CopyDone(q, n) ==
  /\ At(q, "duplicate") /\ at[q].name = n
  /\ next_fd' = [next_fd EXCEPT ![q] = next_fd[n]]
  /\ pc' = [pc EXCEPT ![q] = "user", ![n] = "user"]
  /\ Local(q, Idle)
  /\ UNCHANGED << disk, free_map, inodes, fd_table, running, lost, filesys_lock, health >>

(* duplicate_fd copies the next file or is done. *)
LEMMA CopyIsNextOrDone ==
  ASSUME TypeOK, ForkInv, CallInv, NEW q \in Proc, Duplicate(q)
  PROVE  /\ at[q].op = "fork" /\ at[q].name \in Proc /\ at[q].name # q
         /\ \/ \E k \in Fd, j \in Inode : CopyNext(q, at[q].name, k, j)
            \/ CopyDone(q, at[q].name)
<1>1. pc[q] = "duplicate" /\ at[q].op = "fork"
  BY DEF Duplicate, At, CallInv, CallOf
<1>2. PICK n \in Proc : n = at[q].name /\ n # q
  BY <1>1 DEF ForkInv, ForkOf
<1> DEFINE left == { k \in OpenFds(n) : k > at[q].fd }
<1>3. CASE left # {}
  <2>1. left \in SUBSET OpenFds(n)
    OBVIOUS
  <2>2. Min(left) \in left /\ Min(left) \in Fd /\ fd_table[n][Min(left)] # NULL
    BY <1>3, <2>1, FirstOpen
  <2>3. fd_table[n][Min(left)].inode \in Inode
    BY <2>2 DEF TypeOK, File
  <2>4. CopyNext(q, n, Min(left), fd_table[n][Min(left)].inode)
    BY <1>2, <1>3, <2>2 DEF Duplicate, CopyNext, Me, tables
  <2> QED BY <1>1, <1>2, <2>2, <2>3, <2>4
<1>4. CASE left = {}
  BY <1>1, <1>2, <1>4 DEF Duplicate, CopyDone, Me
<1> QED BY <1>3, <1>4

(* The sectors of a file that the directory names are marked in the free   *)
(* map on the disk: whoever has sectors not yet written there is still in  *)
(* filesys_create.                                                         *)
LEMMA EntryMarked ==
  ASSUME CallInv, Strong, NEW e \in Entry, NEW s \in Sector, EntryHas(e, s)
  PROVE  s \in disk_map
<1>1. s \in free_map /\ \A q \in Proc : ~ CreateHas(q, s)
  BY DEF Strong, OwnerInv, OwnerOf
<1>2. ASSUME NEW q \in Proc, pc[q] = "write_map", s \in at[q].new PROVE FALSE
  <2>1. CASE at[q].next = "create_inode"
    BY <1>1, <1>2, <2>1 DEF Strong, MapInv, CreateHas, CallInv, CallOf
  <2>2. CASE at[q].next = "write_header"
    BY <1>1, <1>2, <2>2 DEF Strong, MapInv, CreateHas, WithData, CallInv, CallOf
  <2>3. CASE at[q].next \notin {"create_inode", "write_header"}
    BY <1>2, <2>3 DEF Strong, MapInv
  <2> QED BY <2>1, <2>2, <2>3
<1> QED BY <1>1, <1>2 DEF Strong, MapInv

(* The data of an open inode is no header of a file, named or open. *)
LEMMA WritesMissHeaders ==
  ASSUME TypeOK, Strong, NEW j \in open_inodes, inode[j].data # NULL
  PROVE  /\ \A e \in Entry : dir[e] # NULL => dir[e].sector \notin Data(inode[j].data)
         /\ \A h \in open_inodes : inode[h].sector \notin Data(inode[j].data)
<1>1. inode[j].sector \notin Data(inode[j].data)
  BY DEF Strong, ContentInv, ListInv, ListOf, TypeOK
<1>2. ASSUME NEW e \in Entry, dir[e] # NULL, dir[e].sector \in Data(inode[j].data) PROVE FALSE
  <2>1. dir[e].sector \in Sector /\ EntryHas(e, dir[e].sector)
    BY <1>2 DEF EntryHas, Storage, TypeOK, DirEntry
  <2>2. j \in Inode /\ (InodeHas(j, dir[e].sector) \/ \E f \in Entry :
          dir[f].sector = inode[j].sector /\ EntryHas(f, dir[e].sector))
    BY <1>2, OpenIsOwned
  <2> QED BY <1>1, <1>2, <2>1, <2>2 DEF Strong, OwnerInv, OwnerOf
<1>3. ASSUME NEW h \in open_inodes, inode[h].sector \in Data(inode[j].data) PROVE FALSE
  <2>1. h \in Inode /\ inode[h].sector \in Sector
    BY SectorOwned DEF Struct
  <2>2. InodeHas(h, inode[h].sector)
    BY <1>2, <1>3, SectorOwned
  <2>3. j \in Inode /\ (InodeHas(j, inode[h].sector) \/ \E f \in Entry :
          dir[f].sector = inode[j].sector /\ EntryHas(f, inode[h].sector))
    BY <1>3, OpenIsOwned
  <2> QED BY <1>1, <1>3, <2>1, <2>2, <2>3 DEF Strong, OwnerInv, OwnerOf
<1> QED BY <1>2, <1>3

-------------------------------------------------------------------------------
(* The invariant, action by action.                                        *)

(* filesys_create takes a free sector, which was nobody's, for the inode. *)
LEMMA CreateKeeps ==
  ASSUME TypeOK, LockInv, CallInv, ~ raced, Strong,
         NEW p \in Proc, NEW n \in Name, NEW h \in Length, Create(p, n, h), panic' = panic
  PROVE  TypeOK' /\ LockInv' /\ CallInv' /\ (~ raced' => Strong')
<1>1. /\ disk_map' = disk_map /\ dir' = dir /\ content' = content /\ inode' = inode
      /\ open_inodes' = open_inodes /\ fd_table' = fd_table /\ next_fd' = next_fd
      /\ running' = running /\ lost' = lost
  BY DEF Create, disk, inodes, tables
<1>2. /\ pc[p] = "user" /\ pc' = [pc EXCEPT ![p] = "write_map"]
      /\ at' = [at EXCEPT ![p] = [[Idle EXCEPT !.op = "create", !.name = n, !.num = h,
           !.sector = FirstFit(1)]
           EXCEPT !.snap = free_map \cup (FirstFit(1) .. FirstFit(1) + 1 - 1),
                  !.new = FirstFit(1) .. FirstFit(1) + 1 - 1,
                  !.next = "create_inode"]]
      /\ filesys_lock = NULL /\ filesys_lock' = p
      /\ free_map' = free_map \cup (FirstFit(1) .. FirstFit(1) + 1 - 1) /\ Fits(1)
  BY DEF Create, Begin, Goto, Local, Allocate
<1>3. /\ free_map \subseteq Sector /\ h \in Int /\ at[p] = Idle /\ at[p].op = "none"
      /\ at[p].i = NULL /\ FirstFit(1) \in Sector \ free_map
      /\ (FirstFit(1) .. FirstFit(1) + 1 - 1) = {FirstFit(1)}
  BY <1>2, FirstFree, Nulls DEF TypeOK, CallInv, CallOf, Idle
<1>4. at[p] \in Locals
  BY DEF TypeOK
<1>5. [[Idle EXCEPT !.op = "create", !.name = n, !.num = h, !.sector = FirstFit(1)]
        EXCEPT !.snap = free_map \cup (FirstFit(1) .. FirstFit(1) + 1 - 1),
               !.new = FirstFit(1) .. FirstFit(1) + 1 - 1,
               !.next = "create_inode"] \in Locals
  BY <1>2, <1>3, <1>4, IdleIsLocal, Nulls DEF Locals, Op, Label
<1>6. /\ pc'[p] = "write_map" /\ at'[p].op = "create" /\ at'[p].name = n
      /\ at'[p].sector = FirstFit(1) /\ at'[p].i = NULL /\ at'[p].num = h
      /\ at'[p].snap = free_map \cup (FirstFit(1) .. FirstFit(1) + 1 - 1)
      /\ at'[p].new = FirstFit(1) .. FirstFit(1) + 1 - 1 /\ at'[p].fd = 0
      /\ at'[p].next = "create_inode" /\ OthersStay(p)
  BY <1>2, <1>4, <1>5 DEF TypeOK, Locals, OthersStay, Idle
<1>7. \A q \in Proc : at[q].op # "create"
  BY <1>2, Nulls DEF LockInv, Holds
<1>8. FilesStay
  BY <1>1 DEF FilesStay, InodesStay, SameFile
<1>9. TypeOK'
  <2>1. pc' \in [Proc -> Label]
    BY <1>2, <1>3 DEF TypeOK, Label
  <2>2. at' \in [Proc -> Locals]
    BY <1>2, <1>5 DEF TypeOK
  <2>3. free_map' \subseteq Sector
    BY <1>3 DEF Create, Allocate
  <2>4. filesys_lock' \in Proc \cup {NULL}
    BY DEF Create
  <2> QED BY <2>1, <2>2, <2>3, FilesAssumption
             DEF TypeOK, Create, Begin, disk, inodes, tables, health
<1>10. LockInv'
  BY <1>2, Nulls DEF LockInv, Holds, Without, TypeOK
<1>11. CallInv'
  <2> SUFFICES ASSUME NEW q \in Proc PROVE CallOf(q)'
    BY DEF CallInv
  <2>1. CASE q = p
    BY <1>2, <1>3 DEF CallInv, CallOf, Closing, TypeOK
  <2>2. CASE q # p
    BY <1>6, <2>2 DEF OthersStay, CallInv, CallOf
  <2> QED BY <2>1, <2>2
<1> SUFFICES ASSUME ~ raced' PROVE Strong'
  BY <1>9, <1>10, <1>11
<1>12. ForkInv'
  BY <1>1, <1>2, <1>3, <1>6, <1>9, ForkKept DEF Strong, Opens
<1>13. FileInv'
  BY <1>1, <1>6, FileKept DEF Strong, Opens
<1>14. CountInv'
  <2> SUFFICES ASSUME NEW i \in Inode PROVE CountOf(i)'
    BY DEF CountInv
  <2>1. \A x \in Proc, k \in Place : Refers(x, k, i)' <=> Refers(x, k, i)
    BY <1>1, <1>2, <1>3 DEF Refers, CountedDown, Transit
  <2>2. \A x \in Proc : Denies(x, i)' <=> Denies(x, i)
    BY <1>1, <1>2, <1>3 DEF OthersStay, Denies, CallInv, CallOf, Opens
  <2>3. CountOf(i)
    BY DEF Strong, CountInv
  <2> QED BY <1>1, <2>1, <2>2, <2>3, RefsKept, DeniersKept DEF CountOf, OpenCount, DenyCount
<1>15. CounterInv'
  BY <1>1, <1>2 DEF OthersStay, Strong, CounterInv, CounterOf, Counting
<1>16. ListInv'
  BY <1>1, <1>2, <1>3, Nulls DEF Strong, ListInv, ListOf, Ends
<1>17. NameInv'
  BY <1>6, <1>8, NameKept DEF Strong, Opens, Opening, FilesStay
<1>18. OwnerInv'
  <2> SUFFICES ASSUME NEW s \in Sector
               PROVE  \/ NoOwner(s)'
                      \/ /\ \A x \in Entry : EntryHas(x, s)' => EntryHas(x, s)
                         /\ \A y \in Inode : InodeHas(y, s)' => InodeHas(y, s)
                         /\ (CreateHas(p, s)' => CreateHas(p, s)) \/ NoOwner(s)
                         /\ CreateHas(p, s)' \/ s \in free_map => s \in free_map'
    BY <1>6, OwnerStep DEF Strong
  <2>1. \A i \in Inode : InodeHas(i, s)' <=> InodeHas(i, s)
    BY <1>1, <1>3, <1>6, Nulls, RemovedKept DEF SameFile
  <2>2. \A x \in Entry : EntryHas(x, s)' <=> EntryHas(x, s)
    BY <1>1, EntriesKept
  <2>3. CreateHas(p, s)' <=> s = FirstFit(1)
    BY <1>6 DEF CreateHas, WithData
  <2>4. s = FirstFit(1) => NoOwner(s)
    BY <1>3, FreeIsNobodys DEF Strong
  <2> QED BY <1>2, <1>3, <2>1, <2>2, <2>3, <2>4
<1>19. ContentInv'
  <2>1. ~ WithData(p)'
    BY <1>2, <1>3 DEF WithData
  <2> QED BY <1>1, <1>2, <1>3, <1>4, <1>5, <1>6, <1>7, <1>8, Nulls, <2>1, ContentStep, <1>9
<1>20. MapInv'
  BY <1>1, <1>2, <1>3, <1>6 DEF OthersStay, Strong, MapInv, New
<1> QED BY <1>12, <1>13, <1>14, <1>15, <1>16, <1>17, <1>18, <1>19, <1>20 DEF Strong

(* inode_create takes free sectors for the data; they are nobody's and the *)
(* inode's sector is not among them.                                       *)
LEMMA CreateInodeFoundKeeps ==
  ASSUME TypeOK, LockInv, CallInv, ~ raced, Strong,
         NEW p \in Proc, CreateInode(p), panic' = panic, pc'[p] = "write_map"
  PROVE  TypeOK' /\ LockInv' /\ CallInv' /\ (~ raced' => Strong')
<1>1. /\ disk_map' = disk_map /\ dir' = dir /\ content' = content /\ inode' = inode
      /\ open_inodes' = open_inodes /\ fd_table' = fd_table /\ next_fd' = next_fd
      /\ running' = running /\ lost' = lost /\ filesys_lock' = filesys_lock
  BY Nulls DEF CreateInode, disk, inodes, tables
<1>2. /\ pc[p] = "create_inode" /\ pc' = [pc EXCEPT ![p] = "write_map"]
      /\ at' = [at EXCEPT ![p] = [[at[p] EXCEPT !.fd = FirstFit(at[p].num)]
           EXCEPT !.snap = free_map
                           \cup (FirstFit(at[p].num) .. FirstFit(at[p].num) + at[p].num - 1),
                  !.new = (FirstFit(at[p].num) .. FirstFit(at[p].num) + at[p].num - 1),
                  !.next = "write_header"]]
      /\ Fits(at[p].num)
      /\ free_map' = free_map \cup (FirstFit(at[p].num) .. FirstFit(at[p].num) + at[p].num - 1)
  BY Nulls DEF CreateInode, At, Goto, Local, Me, Allocate, TypeOK
<1>3. /\ free_map \subseteq Sector /\ at[p].num \in Length /\ at[p].op = "create"
      /\ at[p].i = NULL /\ at[p].sector \in Sector /\ FirstFit(at[p].num) \in Sector \cup {0}
      /\ FirstFit(at[p].num) \in Nat
      /\ (FirstFit(at[p].num) .. FirstFit(at[p].num) + at[p].num - 1) \subseteq Sector \ free_map
  BY <1>2, FirstFitIsFree, Nulls DEF TypeOK, CallInv, CallOf
<1>4. at[p] \in Locals
  BY DEF TypeOK
<1>5. [[at[p] EXCEPT !.fd = FirstFit(at[p].num)]
        EXCEPT !.snap = free_map
                        \cup (FirstFit(at[p].num) .. FirstFit(at[p].num) + at[p].num - 1),
               !.new = (FirstFit(at[p].num) .. FirstFit(at[p].num) + at[p].num - 1),
               !.next = "write_header"] \in Locals
  BY <1>2, <1>3, <1>4, Nulls DEF Locals, Label
<1>6. /\ pc'[p] = "write_map" /\ at'[p].op = at[p].op /\ at'[p].name = at[p].name
      /\ at'[p].sector = at[p].sector /\ at'[p].i = at[p].i /\ at'[p].num = at[p].num
      /\ at'[p].snap = free_map \cup (FirstFit(at[p].num) .. FirstFit(at[p].num) + at[p].num - 1)
      /\ at'[p].new = (FirstFit(at[p].num) .. FirstFit(at[p].num) + at[p].num - 1)
      /\ at'[p].fd = FirstFit(at[p].num) /\ at'[p].next = "write_header" /\ OthersStay(p)
  BY <1>2, <1>4, <1>5 DEF TypeOK, Locals, OthersStay, Idle
<1>7. \A q \in Proc : q # p => at[q].op # "create"
  BY <1>3, OnlyCreator
<1>8. FirstFit(at[p].num) \in Nat /\ at[p].num \in Nat
  BY <1>2, <1>3, Nulls
<1>9. FilesStay
  BY <1>1 DEF FilesStay, InodesStay, SameFile
<1>10. TypeOK'
  <2>1. pc' \in [Proc -> Label]
    BY <1>2, <1>3 DEF TypeOK, Label
  <2>2. at' \in [Proc -> Locals]
    BY <1>2, <1>5 DEF TypeOK
  <2>3. free_map' \subseteq Sector
    BY <1>3 DEF CreateInode, Me, Allocate
  <2> QED BY <2>1, <2>2, <2>3 DEF TypeOK, CreateInode, At, Goto, disk, inodes, tables
<1>11. LockInv'
  BY <1>1, <1>2 DEF LockInv, Holds, Without, CallInv, CallOf
<1>12. CallInv'
  <2> SUFFICES ASSUME NEW q \in Proc PROVE CallOf(q)'
    BY DEF CallInv
  <2>1. CASE q = p
    BY <1>2, <2>1 DEF CallInv, CallOf, Closing, TypeOK
  <2>2. CASE q # p
    BY <1>6, <2>2 DEF OthersStay, CallInv, CallOf
  <2> QED BY <2>1, <2>2
<1> SUFFICES ASSUME ~ raced' PROVE Strong'
  BY <1>10, <1>11, <1>12
<1>13. ForkInv'
  BY <1>1, <1>2, <1>3, <1>6, <1>10, ForkKept DEF Strong, Opens
<1>14. FileInv'
  BY <1>1, <1>3, <1>6, FileKept DEF Strong, Opens
<1>15. CountInv'
  <2> SUFFICES ASSUME NEW i \in Inode PROVE CountOf(i)'
    BY DEF CountInv
  <2>1. \A x \in Proc, k \in Place : Refers(x, k, i)' <=> Refers(x, k, i)
    BY <1>1, <1>2 DEF Refers, CountedDown, Transit, CallInv, CallOf
  <2>2. \A x \in Proc : Denies(x, i)' <=> Denies(x, i)
    BY <1>1, <1>2 DEF OthersStay, Denies, CallInv, CallOf, Opens
  <2>3. CountOf(i)
    BY DEF Strong, CountInv
  <2> QED BY <1>1, <2>1, <2>2, <2>3, RefsKept, DeniersKept DEF CountOf, OpenCount, DenyCount
<1>16. CounterInv'
  BY <1>1, <1>2 DEF OthersStay, Strong, CounterInv, CounterOf, Counting
<1>17. ListInv'
  BY <1>1, <1>2, <1>3, Nulls DEF Strong, ListInv, ListOf, Ends
<1>18. NameInv'
  BY <1>6, <1>9, NameKept DEF Strong, Opens, Opening, FilesStay
<1>19. OwnerInv'
  <2> SUFFICES ASSUME NEW s \in Sector
               PROVE  \/ NoOwner(s)'
                      \/ /\ \A x \in Entry : EntryHas(x, s)' => EntryHas(x, s)
                         /\ \A y \in Inode : InodeHas(y, s)' => InodeHas(y, s)
                         /\ (CreateHas(p, s)' => CreateHas(p, s)) \/ NoOwner(s)
                         /\ CreateHas(p, s)' \/ s \in free_map => s \in free_map'
    BY <1>6, OwnerStep DEF Strong
  <2>1. \A i \in Inode : InodeHas(i, s)' <=> InodeHas(i, s)
    BY <1>1, <1>3, <1>6, Nulls, RemovedKept DEF SameFile
  <2>2. \A x \in Entry : EntryHas(x, s)' <=> EntryHas(x, s)
    BY <1>1, EntriesKept
  <2>3. CreateHas(p, s)' <=>
          (s = at[p].sector \/ s \in (FirstFit(at[p].num) .. FirstFit(at[p].num) + at[p].num - 1))
    BY <1>3, <1>6 DEF CreateHas, WithData, New
  <2>4. CreateHas(p, s) <=> s = at[p].sector
    BY <1>2, <1>3 DEF CreateHas, WithData
  <2>5. s \in (FirstFit(at[p].num) .. FirstFit(at[p].num) + at[p].num - 1) => NoOwner(s)
    BY <1>3, FreeIsNobodys DEF Strong
  <2>6. CreateHas(p, s) => s \in free_map
    BY DEF Strong, OwnerInv, OwnerOf
  <2> QED BY <1>2, <2>1, <2>2, <2>3, <2>4, <2>5, <2>6
<1>20. ContentInv'
  <2>1. CreateHas(p, at[p].sector)
    BY <1>2, <1>3 DEF CreateHas
  <2>2. at[p].sector \in free_map
    BY <1>3, <2>1 DEF Strong, OwnerInv, OwnerOf
  <2>3. New(p)' = (FirstFit(at[p].num) .. FirstFit(at[p].num) + at[p].num - 1)
    BY <1>6 DEF New
  <2>4. at'[p].sector \notin New(p)' /\ New(p)' \subseteq Sector /\ at'[p].fd \in Sector \cup {0}
    BY <1>3, <1>6, <2>2, <2>3
  <2> QED BY <1>1, <1>2, <1>3, <1>4, <1>5, <1>6, <1>7, <1>8, <1>9, Nulls, <2>4, ContentStep, <1>10
<1>21. MapInv'
  BY <1>1, <1>2, <1>3, <1>6, Nulls DEF OthersStay, Strong, MapInv, New
<1> QED BY <1>13, <1>14, <1>15, <1>16, <1>17, <1>18, <1>19, <1>20, <1>21 DEF Strong

(* No room or no memory for the data: the inode's sector stays the         *)
(* creator's until it is given back.                                       *)
LEMMA CreateInodeFailedKeeps ==
  ASSUME TypeOK, LockInv, CallInv, ~ raced, Strong,
         NEW p \in Proc, CreateInode(p), panic' = panic, pc'[p] # "write_map"
  PROVE  TypeOK' /\ LockInv' /\ CallInv' /\ (~ raced' => Strong')
<1>1. /\ disk_map' = disk_map /\ dir' = dir /\ content' = content /\ free_map' = free_map
      /\ inode' = inode /\ open_inodes' = open_inodes /\ fd_table' = fd_table
      /\ next_fd' = next_fd /\ running' = running /\ lost' = lost
      /\ filesys_lock' = filesys_lock
  BY Nulls DEF CreateInode, Goto, disk, inodes, tables, Allocate, TypeOK
<1>2. /\ pc[p] = "create_inode" /\ pc' = [pc EXCEPT ![p] = "undo_create"] /\ at' = at
  BY Nulls DEF CreateInode, At, Goto, Allocate, TypeOK
<1>3. /\ at[p].op = "create" /\ at[p].i = NULL
  BY <1>2, Nulls DEF CallInv, CallOf
<1>4. /\ pc'[p] = "undo_create" /\ OthersStay(p)
  BY <1>2 DEF TypeOK, OthersStay
<1>5. \A q \in Proc : q # p => at[q].op # "create"
  BY <1>3, OnlyCreator
<1>6. FilesStay
  BY <1>1 DEF FilesStay, InodesStay, SameFile
<1>7. TypeOK'
  <2>1. pc' \in [Proc -> Label]
    BY <1>2, <1>3 DEF TypeOK, Label
  <2>2. at' \in [Proc -> Locals]
    BY <1>2 DEF TypeOK
  <2> QED BY <2>1, FilesAssumption
             DEF TypeOK, CreateInode, At, Goto, disk, inodes, tables, Allocate, NoMemory
<1>8. LockInv'
  BY <1>1, <1>2 DEF LockInv, Holds, Without, CallInv, CallOf
<1>9. CallInv'
  <2> SUFFICES ASSUME NEW q \in Proc PROVE CallOf(q)'
    BY DEF CallInv
  <2>1. CASE q = p
    BY <1>2 DEF CallInv, CallOf, Closing
  <2>2. CASE q # p
    BY <1>4, <2>2 DEF OthersStay, CallInv, CallOf
  <2> QED BY <2>1, <2>2
<1> SUFFICES ASSUME ~ raced' PROVE Strong'
  BY <1>7, <1>8, <1>9
<1>10. ForkInv'
  BY <1>1, <1>2, <1>4, <1>7, ForkKept DEF Strong, Opens
<1>11. FileInv'
  BY <1>1, <1>2, <1>4, FileKept DEF Strong, Opens
<1>12. CountInv'
  <2> SUFFICES ASSUME NEW i \in Inode PROVE CountOf(i)'
    BY DEF CountInv
  <2>1. \A x \in Proc, k \in Place : Refers(x, k, i)' <=> Refers(x, k, i)
    BY <1>1, <1>2 DEF Refers, CountedDown, Transit, CallInv, CallOf
  <2>2. \A x \in Proc : Denies(x, i)' <=> Denies(x, i)
    BY <1>1, <1>2 DEF OthersStay, Denies, CallInv, CallOf, Opens
  <2>3. CountOf(i)
    BY DEF Strong, CountInv
  <2> QED BY <1>1, <2>1, <2>2, <2>3, RefsKept, DeniersKept DEF CountOf, OpenCount, DenyCount
<1>13. CounterInv'
  BY <1>1, <1>2 DEF OthersStay, Strong, CounterInv, CounterOf, Counting
<1>14. ListInv'
  BY <1>1, <1>2 DEF Strong, ListInv, ListOf, Ends, Releasing, Opening
<1>15. NameInv'
  BY <1>4, <1>6, NameKept DEF Strong, Opens, Opening, FilesStay
<1>16. OwnerInv'
  <2> SUFFICES ASSUME NEW s \in Sector
               PROVE  \/ NoOwner(s)'
                      \/ /\ \A x \in Entry : EntryHas(x, s)' => EntryHas(x, s)
                         /\ \A y \in Inode : InodeHas(y, s)' => InodeHas(y, s)
                         /\ (CreateHas(p, s)' => CreateHas(p, s)) \/ NoOwner(s)
                         /\ CreateHas(p, s)' \/ s \in free_map => s \in free_map'
    BY <1>4, OwnerStep DEF Strong
  <2>1. \A i \in Inode : InodeHas(i, s)' <=> InodeHas(i, s)
    BY <1>1, <1>2, <1>3, <1>4, Nulls, RemovedKept DEF SameFile
  <2>2. \A x \in Entry : EntryHas(x, s)' <=> EntryHas(x, s)
    BY <1>1, EntriesKept
  <2>3. (CreateHas(p, s)' => CreateHas(p, s)) /\ (s \in free_map => s \in free_map')
    BY <1>1, <1>2 DEF CreateHas, WithData, New
  <2>4. CreateHas(p, s) => s \in free_map
    BY DEF Strong, OwnerInv, OwnerOf
  <2> QED BY <2>1, <2>2, <2>3, <2>4
<1>17. ContentInv'
  <2>1. ~ WithData(p)'
    BY <1>2 DEF WithData
  <2> QED BY <1>1, <1>2, <1>3, <1>4, <1>5, <1>6, Nulls, <2>1, ContentStep, <1>7
<1>18. MapInv'
  BY <1>1, <1>2 DEF OthersStay, Strong, MapInv, New
<1> QED BY <1>10, <1>11, <1>12, <1>13, <1>14, <1>15, <1>16, <1>17, <1>18 DEF Strong

(* The header goes to a sector that only the creator has. *)
LEMMA WriteHeaderKeeps ==
  ASSUME TypeOK, LockInv, CallInv, ~ raced, Strong, NEW p \in Proc, WriteHeader(p), panic' = panic
  PROVE  TypeOK' /\ LockInv' /\ CallInv' /\ (~ raced' => Strong')
<1>1. /\ disk_map' = disk_map /\ dir' = dir /\ free_map' = free_map /\ inode' = inode
      /\ open_inodes' = open_inodes /\ fd_table' = fd_table /\ next_fd' = next_fd
      /\ running' = running /\ lost' = lost /\ filesys_lock' = filesys_lock
  BY DEF WriteHeader, inodes, tables
<1>2. /\ pc[p] = "write_header" /\ pc' = [pc EXCEPT ![p] = "zero_data"] /\ at' = at
      /\ content' = [content EXCEPT ![at[p].sector] = [start |-> at[p].fd, length |-> at[p].num]]
  BY DEF WriteHeader, At, Goto, Me
<1>3. /\ at[p].op = "create" /\ at[p].i = NULL /\ at[p].sector \in Sector
      /\ at[p].num \in Length /\ WithData(p) /\ at[p].fd \in Sector \cup {0}
  BY <1>2, Nulls
     DEF TypeOK, CallInv, CallOf, LockInv, Holds, Without, Opens, Opening, Closing, Strong,
         WithData, ContentInv
<1>4. /\ pc'[p] = "zero_data" /\ OthersStay(p)
  BY <1>2 DEF TypeOK, OthersStay
<1>5. \A q \in Proc : q # p => at[q].op # "create"
  BY <1>3, OnlyCreator
<1>6. content'[at[p].sector] = [start |-> at[p].fd, length |-> at[p].num]
  BY <1>2, <1>3 DEF TypeOK
<1>7. \A s \in Sector : content'[s] # content[s] => CreateHas(p, s)
  <2>1. CreateHas(p, at[p].sector)
    BY <1>2, <1>3 DEF CreateHas
  <2> QED BY <1>2, <2>1 DEF TypeOK
<1>8. \A s \in Sector : content'[s] # content[s] => (\A e \in Entry : dir[e] # NULL =>
        dir[e].sector # s) /\ (\A i \in open_inodes : inode[i].sector # s)
  BY <1>7, CreatedIsNotThere DEF Strong
<1>9. \A e \in Entry : dir[e] # NULL =>
        dir[e].sector \in Sector /\ content'[dir[e].sector] = content[dir[e].sector]
  BY <1>1, <1>2, <1>3, <1>4, <1>5, <1>6, <1>7, <1>8, Nulls DEF TypeOK, DirEntry
<1>10. InodesStay
  BY <1>1 DEF FilesStay, InodesStay, SameFile
<1>11. TypeOK'
  <2>1. pc' \in [Proc -> Label]
    BY <1>2, <1>3 DEF TypeOK, Label
  <2>2. at' \in [Proc -> Locals]
    BY <1>2 DEF TypeOK
  <2>3. content' \in [Sector -> Header \cup {ZERO, ANY}]
    BY <1>2, <1>3 DEF TypeOK, Header
  <2> QED BY <2>1, <2>3 DEF TypeOK, WriteHeader, At, inodes, tables, health
<1>12. LockInv'
  BY <1>1, <1>2 DEF LockInv, Holds, Without, CallInv, CallOf
<1>13. CallInv'
  <2> SUFFICES ASSUME NEW q \in Proc PROVE CallOf(q)'
    BY DEF CallInv
  <2>1. CASE q = p
    BY <1>2 DEF CallInv, CallOf, Closing
  <2>2. CASE q # p
    BY <1>4, <2>2 DEF OthersStay, CallInv, CallOf
  <2> QED BY <2>1, <2>2
<1> SUFFICES ASSUME ~ raced' PROVE Strong'
  BY <1>11, <1>12, <1>13
<1>14. ForkInv'
  BY <1>1, <1>2, <1>4, <1>11, ForkKept DEF Strong, Opens
<1>15. FileInv'
  BY <1>1, <1>2, <1>4, FileKept DEF Strong, Opens
<1>16. CountInv'
  <2> SUFFICES ASSUME NEW i \in Inode PROVE CountOf(i)'
    BY DEF CountInv
  <2>1. \A x \in Proc, k \in Place : Refers(x, k, i)' <=> Refers(x, k, i)
    BY <1>1, <1>2 DEF Refers, CountedDown, Transit, CallInv, CallOf
  <2>2. \A x \in Proc : Denies(x, i)' <=> Denies(x, i)
    BY <1>1, <1>2 DEF OthersStay, Denies, CallInv, CallOf, Opens
  <2>3. CountOf(i)
    BY DEF Strong, CountInv
  <2> QED BY <1>1, <2>1, <2>2, <2>3, RefsKept, DeniersKept DEF CountOf, OpenCount, DenyCount
<1>17. CounterInv'
  BY <1>1, <1>2 DEF OthersStay, Strong, CounterInv, CounterOf, Counting
<1>18. ListInv'
  BY <1>1, <1>2 DEF Strong, ListInv, ListOf, Ends, Releasing, Opening
<1>19. NameInv'
  BY <1>1, <1>4, <1>10, NameKept DEF Strong, Opens, Opening, FilesStay
<1>20. OwnerInv'
  <2> SUFFICES ASSUME NEW s \in Sector
               PROVE  \/ NoOwner(s)'
                      \/ /\ \A x \in Entry : EntryHas(x, s)' => EntryHas(x, s)
                         /\ \A y \in Inode : InodeHas(y, s)' => InodeHas(y, s)
                         /\ (CreateHas(p, s)' => CreateHas(p, s)) \/ NoOwner(s)
                         /\ CreateHas(p, s)' \/ s \in free_map => s \in free_map'
    BY <1>4, OwnerStep DEF Strong
  <2>1. \A i \in Inode : InodeHas(i, s)' <=> InodeHas(i, s)
    BY <1>1, <1>2, <1>3, <1>4, Nulls, RemovedKept DEF SameFile
  <2>2. \A x \in Entry : EntryHas(x, s)' <=> EntryHas(x, s)
    BY <1>1, <1>2, <1>3, <1>8 DEF EntryHas, Storage, Data
  <2>3. (CreateHas(p, s)' => CreateHas(p, s)) /\ (s \in free_map => s \in free_map')
    BY <1>1, <1>2 DEF CreateHas, WithData, New
  <2>4. CreateHas(p, s) => s \in free_map
    BY DEF Strong, OwnerInv, OwnerOf
  <2> QED BY <2>1, <2>2, <2>3, <2>4
<1>21. ContentInv'
  <2>1. at'[p].sector \notin New(p)' /\ New(p)' \subseteq Sector /\ at'[p].fd \in Sector \cup {0}
    BY <1>2, <1>3 DEF Strong, ContentInv, New
  <2> QED BY <1>1, <1>2, <1>4, <1>5, <1>6, <1>8, <2>1, ContentStep, <1>11
<1>22. MapInv'
  BY <1>1, <1>2 DEF OthersStay, Strong, MapInv, New
<1> QED BY <1>14, <1>15, <1>16, <1>17, <1>18, <1>19, <1>20, <1>21, <1>22 DEF Strong

(* The zeros go to sectors that only the creator has. *)
LEMMA ZeroDataKeeps ==
  ASSUME TypeOK, LockInv, CallInv, ~ raced, Strong, NEW p \in Proc, ZeroData(p), panic' = panic
  PROVE  TypeOK' /\ LockInv' /\ CallInv' /\ (~ raced' => Strong')
<1>1. /\ disk_map' = disk_map /\ dir' = dir /\ free_map' = free_map /\ inode' = inode
      /\ open_inodes' = open_inodes /\ fd_table' = fd_table /\ next_fd' = next_fd
      /\ running' = running /\ lost' = lost /\ filesys_lock' = filesys_lock
  BY DEF ZeroData, inodes, tables
<1>2. /\ pc[p] = "zero_data" /\ pc' = [pc EXCEPT ![p] = "add_entry"] /\ at' = at
      /\ content' = [s \in Sector |-> IF s \in Data(content[at[p].sector]) THEN ZERO
           ELSE content[s]]
  BY DEF ZeroData, At, Goto, Me
<1>3. /\ at[p].op = "create" /\ at[p].i = NULL /\ at[p].sector \in Sector
      /\ at[p].num \in Length /\ WithData(p) /\ at[p].fd \in Sector \cup {0}
      /\ content[at[p].sector] = [start |-> at[p].fd, length |-> at[p].num]
      /\ at[p].sector \notin New(p) /\ New(p) \subseteq Sector
  BY <1>2, Nulls
     DEF TypeOK, CallInv, CallOf, LockInv, Holds, Without, Opens, Opening, Closing, Strong,
         WithData, ContentInv
<1>4. /\ pc'[p] = "add_entry" /\ OthersStay(p)
  BY <1>2 DEF TypeOK, OthersStay
<1>5. \A q \in Proc : q # p => at[q].op # "create"
  BY <1>3, OnlyCreator
<1>6. Data(content[at[p].sector]) = New(p)
  BY <1>3 DEF Data, New
<1>7. content'[at[p].sector] = [start |-> at[p].fd, length |-> at[p].num]
  BY <1>2, <1>3, <1>6
<1>8. \A s \in Sector : content'[s] # content[s] => CreateHas(p, s)
  BY <1>2, <1>3, <1>6 DEF CreateHas
<1>9. \A s \in Sector : content'[s] # content[s] => (\A e \in Entry : dir[e] # NULL =>
        dir[e].sector # s) /\ (\A i \in open_inodes : inode[i].sector # s)
  BY <1>8, CreatedIsNotThere DEF Strong
<1>10. \A e \in Entry : dir[e] # NULL =>
         dir[e].sector \in Sector /\ content'[dir[e].sector] = content[dir[e].sector]
  BY <1>1, <1>2, <1>3, <1>4, <1>5, <1>6, <1>7, <1>8, <1>9, Nulls DEF TypeOK, DirEntry
<1>11. InodesStay
  BY <1>1 DEF FilesStay, InodesStay, SameFile
<1>12. TypeOK'
  <2>1. pc' \in [Proc -> Label]
    BY <1>2, <1>3 DEF TypeOK, Label
  <2>2. at' \in [Proc -> Locals]
    BY <1>2 DEF TypeOK
  <2>3. content' \in [Sector -> Header \cup {ZERO, ANY}]
    BY <1>2 DEF TypeOK
  <2> QED BY <2>1 DEF TypeOK, ZeroData, At, inodes, tables, health
<1>13. LockInv'
  BY <1>1, <1>2 DEF LockInv, Holds, Without, CallInv, CallOf
<1>14. CallInv'
  <2> SUFFICES ASSUME NEW q \in Proc PROVE CallOf(q)'
    BY DEF CallInv
  <2>1. CASE q = p
    BY <1>2 DEF CallInv, CallOf, Closing
  <2>2. CASE q # p
    BY <1>4, <2>2 DEF OthersStay, CallInv, CallOf
  <2> QED BY <2>1, <2>2
<1> SUFFICES ASSUME ~ raced' PROVE Strong'
  BY <1>12, <1>13, <1>14
<1>15. ForkInv'
  BY <1>1, <1>2, <1>4, <1>12, ForkKept DEF Strong, Opens
<1>16. FileInv'
  BY <1>1, <1>2, <1>4, FileKept DEF Strong, Opens
<1>17. CountInv'
  <2> SUFFICES ASSUME NEW i \in Inode PROVE CountOf(i)'
    BY DEF CountInv
  <2>1. \A x \in Proc, k \in Place : Refers(x, k, i)' <=> Refers(x, k, i)
    BY <1>1, <1>2 DEF Refers, CountedDown, Transit, CallInv, CallOf
  <2>2. \A x \in Proc : Denies(x, i)' <=> Denies(x, i)
    BY <1>1, <1>2 DEF OthersStay, Denies, CallInv, CallOf, Opens
  <2>3. CountOf(i)
    BY DEF Strong, CountInv
  <2> QED BY <1>1, <2>1, <2>2, <2>3, RefsKept, DeniersKept DEF CountOf, OpenCount, DenyCount
<1>18. CounterInv'
  BY <1>1, <1>2 DEF OthersStay, Strong, CounterInv, CounterOf, Counting
<1>19. ListInv'
  BY <1>1, <1>2 DEF Strong, ListInv, ListOf, Ends, Releasing, Opening
<1>20. NameInv'
  BY <1>1, <1>4, <1>11, NameKept DEF Strong, Opens, Opening, FilesStay
<1>21. OwnerInv'
  <2> SUFFICES ASSUME NEW s \in Sector
               PROVE  \/ NoOwner(s)'
                      \/ /\ \A x \in Entry : EntryHas(x, s)' => EntryHas(x, s)
                         /\ \A y \in Inode : InodeHas(y, s)' => InodeHas(y, s)
                         /\ (CreateHas(p, s)' => CreateHas(p, s)) \/ NoOwner(s)
                         /\ CreateHas(p, s)' \/ s \in free_map => s \in free_map'
    BY <1>4, OwnerStep DEF Strong
  <2>1. \A i \in Inode : InodeHas(i, s)' <=> InodeHas(i, s)
    BY <1>1, <1>2, <1>3, <1>4, Nulls, RemovedKept DEF SameFile
  <2>2. \A x \in Entry : EntryHas(x, s)' <=> EntryHas(x, s)
    BY <1>1, <1>10 DEF EntryHas, Storage, Data
  <2>3. (CreateHas(p, s)' => CreateHas(p, s)) /\ (s \in free_map => s \in free_map')
    BY <1>1, <1>2 DEF CreateHas, WithData, New
  <2>4. CreateHas(p, s) => s \in free_map
    BY DEF Strong, OwnerInv, OwnerOf
  <2> QED BY <2>1, <2>2, <2>3, <2>4
<1>22. ContentInv'
  <2>1. New(p)' = New(p)
    BY <1>2 DEF New
  <2> QED BY <1>1, <1>2, <1>3, <1>4, <1>5, <1>6, <1>9, <2>1, ContentStep, <1>12
<1>23. MapInv'
  BY <1>1, <1>2 DEF OthersStay, Strong, MapInv, New
<1> QED BY <1>15, <1>16, <1>17, <1>18, <1>19, <1>20, <1>21, <1>22, <1>23 DEF Strong

(* inode_reopen reads the counter of openers, which nobody else is counting. *)
LEMMA GetOpenKeeps ==
  ASSUME TypeOK, LockInv, CallInv, ~ raced, Strong, NEW p \in Proc, GetOpen(p), panic' = panic
  PROVE  TypeOK' /\ LockInv' /\ CallInv' /\ (~ raced' => Strong')
<1>1. /\ disk_map' = disk_map /\ dir' = dir /\ content' = content /\ free_map' = free_map
      /\ inode' = inode /\ open_inodes' = open_inodes /\ fd_table' = fd_table
      /\ next_fd' = next_fd /\ running' = running /\ lost' = lost
      /\ filesys_lock' = filesys_lock
  BY DEF GetOpen, disk, inodes, tables, Get, Panic
<1>2. /\ pc[p] = "get_open" /\ pc' = [pc EXCEPT ![p] = "put_open"]
      /\ at' = [at EXCEPT ![p] = [at[p] EXCEPT !.num = inode[at[p].i].count["open"]]]
      /\ inode[at[p].i] # NULL
  BY DEF GetOpen, At, Runs, Goto, Local, Me, Get, Panic
<1>3. /\ at[p].op \in Opens \cup {"mmap", "fork"} /\ at[p].i \in Inode
      /\ inode[at[p].i] \in Struct /\ inode[at[p].i].count["open"] \in Int
  BY <1>2, Nulls DEF TypeOK, CallInv, CallOf, Opens, Struct
<1>4. at[p] \in Locals
  BY DEF TypeOK
<1>5. [at[p] EXCEPT !.num = inode[at[p].i].count["open"]] \in Locals
  BY <1>3, <1>4 DEF Locals
<1>6. /\ pc'[p] = "put_open" /\ at'[p].op = at[p].op /\ at'[p].name = at[p].name
      /\ at'[p].sector = at[p].sector /\ at'[p].i = at[p].i
      /\ at'[p].num = inode[at[p].i].count["open"] /\ at'[p].snap = at[p].snap
      /\ at'[p].new = at[p].new /\ at'[p].fd = at[p].fd /\ at'[p].next = at[p].next
      /\ OthersStay(p)
  BY <1>2, <1>4, <1>5 DEF TypeOK, Locals, OthersStay, Idle
<1>7. FilesStay
  BY <1>1 DEF FilesStay, InodesStay, SameFile
<1>8. TypeOK'
  <2>1. pc' \in [Proc -> Label]
    BY <1>2, <1>3 DEF TypeOK, Label
  <2>2. at' \in [Proc -> Locals]
    BY <1>2, <1>5 DEF TypeOK
  <2> QED BY <1>1, <2>1, <2>2, FilesAssumption
             DEF TypeOK, GetOpen, At, Runs, Goto, Local, Me, disk, inodes, tables, Get, Panic
<1>9. LockInv'
  BY <1>1, <1>2 DEF LockInv, Holds, Without, Opening
<1>10. CallInv'
  <2> SUFFICES ASSUME NEW q \in Proc PROVE CallOf(q)'
    BY DEF CallInv
  <2>1. CASE q = p
    BY <1>2, <2>1 DEF CallInv, CallOf, Closing, Idle
  <2>2. CASE q # p
    BY <1>6, <2>2 DEF OthersStay, CallInv, CallOf
  <2> QED BY <2>1, <2>2
<1> SUFFICES ASSUME ~ raced' PROVE Strong'
  BY <1>8, <1>9, <1>10
<1>11. \A q \in Proc : q # p => ~ Counting(q, at[p].i)
  BY <1>1, <1>2, <1>3, <1>4, <1>5, <1>6, <1>7, Nulls DEF GetOpen, Get, Panic, Meets, Me, At, Runs
<1>12. ForkInv'
  BY <1>1, <1>2, <1>6, <1>8, ForkKept DEF Strong, Opens
<1>13. FileInv'
  BY <1>1, <1>6, FileKept DEF Strong, Opens
<1>14. CountInv'
  <2> SUFFICES ASSUME NEW i \in Inode PROVE CountOf(i)'
    BY DEF CountInv
  <2>1. \A x \in Proc, k \in Place : Refers(x, k, i)' <=> Refers(x, k, i)
    BY <1>1, <1>2 DEF Refers, CountedDown, Transit, Releasing
  <2>2. \A x \in Proc : Denies(x, i)' <=> Denies(x, i)
    BY <1>1, <1>2 DEF OthersStay, Denies, CallInv, CallOf, Opens
  <2>3. CountOf(i)
    BY DEF Strong, CountInv
  <2> QED BY <1>1, <2>1, <2>2, <2>3, RefsKept, DeniersKept DEF CountOf, OpenCount, DenyCount
<1>15. CounterInv'
  BY <1>1, <1>6, <1>11 DEF OthersStay, Strong, CounterInv, CounterOf, Counting
<1>16. ListInv'
  BY <1>1, <1>2 DEF Strong, ListInv, ListOf, Ends, Releasing, Opening
<1>17. NameInv'
  BY <1>2, <1>6, <1>7, NameKept DEF Strong, Opens, Opening, FilesStay
<1>18. OwnerInv'
  BY <1>1, <1>2, <1>3, <1>6, <1>7, OwnerKept DEF Strong, Freeing, Opens, Idle
<1>19. ContentInv'
  BY <1>1, <1>2, <1>3, <1>4, <1>5, <1>6, <1>7, <1>11, Nulls, <1>10, ContentKept
     DEF Strong, ListedInUse, ListInv, ListOf, TypeOK, Opens, Idle
<1>20. MapInv'
  BY <1>1, <1>2 DEF OthersStay, Strong, MapInv, New
<1> QED BY <1>12, <1>13, <1>14, <1>15, <1>16, <1>17, <1>18, <1>19, <1>20 DEF Strong

(* inode_close reads the counter of openers, which nobody else is counting. *)
LEMMA GetCloseKeeps ==
  ASSUME TypeOK, LockInv, CallInv, ~ raced, Strong, NEW p \in Proc, GetClose(p), panic' = panic
  PROVE  TypeOK' /\ LockInv' /\ CallInv' /\ (~ raced' => Strong')
<1>1. /\ disk_map' = disk_map /\ dir' = dir /\ content' = content /\ free_map' = free_map
      /\ inode' = inode /\ open_inodes' = open_inodes /\ fd_table' = fd_table
      /\ next_fd' = next_fd /\ running' = running /\ lost' = lost
      /\ filesys_lock' = filesys_lock
  BY DEF GetClose, disk, inodes, tables, Get, Panic
<1>2. /\ pc[p] = "get_close" /\ pc' = [pc EXCEPT ![p] = "put_close"]
      /\ at' = [at EXCEPT ![p] = [at[p] EXCEPT !.num = inode[at[p].i].count["open"]]]
      /\ inode[at[p].i] # NULL
  BY DEF GetClose, At, Runs, Goto, Local, Me, Get, Panic
<1>3. /\ at[p].op \in {"open", "remove", "close", "exit"} /\ at[p].i \in Inode
      /\ inode[at[p].i] \in Struct /\ inode[at[p].i].count["open"] \in Int
  BY <1>2, Nulls DEF TypeOK, CallInv, CallOf, Closing, Struct
<1>4. at[p] \in Locals
  BY DEF TypeOK
<1>5. [at[p] EXCEPT !.num = inode[at[p].i].count["open"]] \in Locals
  BY <1>3, <1>4 DEF Locals
<1>6. /\ pc'[p] = "put_close" /\ at'[p].op = at[p].op /\ at'[p].name = at[p].name
      /\ at'[p].sector = at[p].sector /\ at'[p].i = at[p].i
      /\ at'[p].num = inode[at[p].i].count["open"] /\ at'[p].snap = at[p].snap
      /\ at'[p].new = at[p].new /\ at'[p].fd = at[p].fd /\ at'[p].next = at[p].next
      /\ OthersStay(p)
  BY <1>2, <1>4, <1>5 DEF TypeOK, Locals, OthersStay, Idle
<1>7. FilesStay
  BY <1>1 DEF FilesStay, InodesStay, SameFile
<1>8. TypeOK'
  <2>1. pc' \in [Proc -> Label]
    BY <1>2, <1>3 DEF TypeOK, Label
  <2>2. at' \in [Proc -> Locals]
    BY <1>2, <1>5 DEF TypeOK
  <2> QED BY <1>1, <2>1, <2>2, FilesAssumption
             DEF TypeOK, GetClose, At, Runs, Goto, Local, Me, disk, inodes, tables, Get, Panic
<1>9. LockInv'
  BY <1>1, <1>2 DEF LockInv, Holds, Without, Opening
<1>10. CallInv'
  <2> SUFFICES ASSUME NEW q \in Proc PROVE CallOf(q)'
    BY DEF CallInv
  <2>1. CASE q = p
    BY <1>2, <2>1 DEF CallInv, CallOf, Closing
  <2>2. CASE q # p
    BY <1>6, <2>2 DEF OthersStay, CallInv, CallOf
  <2> QED BY <2>1, <2>2
<1> SUFFICES ASSUME ~ raced' PROVE Strong'
  BY <1>8, <1>9, <1>10
<1>11. \A q \in Proc : q # p => ~ Counting(q, at[p].i)
  BY <1>1, <1>2, <1>3, <1>4, <1>5, <1>6, <1>7, Nulls DEF GetClose, Get, Panic, Meets, Me, At, Runs
<1>12. ForkInv'
  BY <1>1, <1>2, <1>6, <1>8, ForkKept DEF Strong, Opens
<1>13. FileInv'
  BY <1>1, <1>6, FileKept DEF Strong, Opens
<1>14. CountInv'
  <2> SUFFICES ASSUME NEW i \in Inode PROVE CountOf(i)'
    BY DEF CountInv
  <2>1. \A x \in Proc, k \in Place : Refers(x, k, i)' <=> Refers(x, k, i)
    BY <1>1, <1>2 DEF Refers, CountedDown, Transit, Releasing
  <2>2. \A x \in Proc : Denies(x, i)' <=> Denies(x, i)
    BY <1>1, <1>2 DEF OthersStay, Denies, CallInv, CallOf, Opens
  <2>3. CountOf(i)
    BY DEF Strong, CountInv
  <2> QED BY <1>1, <2>1, <2>2, <2>3, RefsKept, DeniersKept DEF CountOf, OpenCount, DenyCount
<1>15. CounterInv'
  BY <1>1, <1>6, <1>11 DEF OthersStay, Strong, CounterInv, CounterOf, Counting
<1>16. ListInv'
  BY <1>1, <1>2 DEF Strong, ListInv, ListOf, Ends, Releasing, Opening
<1>17. NameInv'
  BY <1>6, <1>7, NameKept DEF Strong, Opens, Opening, FilesStay
<1>18. OwnerInv'
  BY <1>1, <1>2, <1>3, <1>6, <1>7, OwnerKept DEF Strong, Freeing, Opens, Idle
<1>19. ContentInv'
  BY <1>1, <1>2, <1>3, <1>4, <1>5, <1>6, <1>7, <1>11, Nulls, <1>10, ContentKept
     DEF Strong, ListedInUse, ListInv, ListOf, TypeOK, Opens, Idle
<1>20. MapInv'
  BY <1>1, <1>2 DEF OthersStay, Strong, MapInv, New
<1> QED BY <1>12, <1>13, <1>14, <1>15, <1>16, <1>17, <1>18, <1>19, <1>20 DEF Strong

(* inode_deny_write reads the counter of deniers, which nobody else is     *)
(* counting.                                                               *)
LEMMA GetDenyKeeps ==
  ASSUME TypeOK, LockInv, CallInv, ~ raced, Strong, NEW p \in Proc, GetDeny(p), panic' = panic
  PROVE  TypeOK' /\ LockInv' /\ CallInv' /\ (~ raced' => Strong')
<1>1. /\ disk_map' = disk_map /\ dir' = dir /\ content' = content /\ free_map' = free_map
      /\ inode' = inode /\ open_inodes' = open_inodes /\ fd_table' = fd_table
      /\ next_fd' = next_fd /\ running' = running /\ lost' = lost
      /\ filesys_lock' = filesys_lock
  BY DEF GetDeny, disk, inodes, tables, Get, Panic
<1>2. /\ pc[p] = "get_deny" /\ pc' = [pc EXCEPT ![p] = "put_deny"]
      /\ at' = [at EXCEPT ![p] = [at[p] EXCEPT !.num = inode[at[p].i].count["deny"]]]
      /\ inode[at[p].i] # NULL
  BY DEF GetDeny, At, Runs, Goto, Local, Me, Get, Panic
<1>3. /\ at[p].op \in {"load"} /\ at[p].i \in Inode /\ inode[at[p].i] \in Struct
      /\ inode[at[p].i].count["deny"] \in Int
  BY <1>2, Nulls DEF TypeOK, CallInv, CallOf, Struct
<1>4. at[p] \in Locals
  BY DEF TypeOK
<1>5. [at[p] EXCEPT !.num = inode[at[p].i].count["deny"]] \in Locals
  BY <1>3, <1>4 DEF Locals
<1>6. /\ pc'[p] = "put_deny" /\ at'[p].op = at[p].op /\ at'[p].name = at[p].name
      /\ at'[p].sector = at[p].sector /\ at'[p].i = at[p].i
      /\ at'[p].num = inode[at[p].i].count["deny"] /\ at'[p].snap = at[p].snap
      /\ at'[p].new = at[p].new /\ at'[p].fd = at[p].fd /\ at'[p].next = at[p].next
      /\ OthersStay(p)
  BY <1>2, <1>4, <1>5 DEF TypeOK, Locals, OthersStay, Idle
<1>7. FilesStay
  BY <1>1 DEF FilesStay, InodesStay, SameFile
<1>8. TypeOK'
  <2>1. pc' \in [Proc -> Label]
    BY <1>2, <1>3 DEF TypeOK, Label
  <2>2. at' \in [Proc -> Locals]
    BY <1>2, <1>5 DEF TypeOK
  <2> QED BY <1>1, <2>1, <2>2, FilesAssumption
             DEF TypeOK, GetDeny, At, Runs, Goto, Local, Me, disk, inodes, tables, Get, Panic
<1>9. LockInv'
  BY <1>1, <1>2 DEF LockInv, Holds, Without, Opening
<1>10. CallInv'
  <2> SUFFICES ASSUME NEW q \in Proc PROVE CallOf(q)'
    BY DEF CallInv
  <2>1. CASE q = p
    BY <1>2, <2>1 DEF CallInv, CallOf, Closing
  <2>2. CASE q # p
    BY <1>6, <2>2 DEF OthersStay, CallInv, CallOf
  <2> QED BY <2>1, <2>2
<1> SUFFICES ASSUME ~ raced' PROVE Strong'
  BY <1>8, <1>9, <1>10
<1>11. \A q \in Proc : q # p => ~ Counting(q, at[p].i)
  BY <1>1, <1>2, <1>3, <1>4, <1>5, <1>6, <1>7, Nulls DEF GetDeny, Get, Panic, Meets, Me, At, Runs
<1>12. ForkInv'
  BY <1>1, <1>2, <1>6, <1>8, ForkKept DEF Strong, Opens
<1>13. FileInv'
  BY <1>1, <1>2, <1>6, FileKept DEF Strong, Opens
<1>14. CountInv'
  <2> SUFFICES ASSUME NEW i \in Inode PROVE CountOf(i)'
    BY DEF CountInv
  <2>1. \A x \in Proc, k \in Place : Refers(x, k, i)' <=> Refers(x, k, i)
    BY <1>1, <1>2 DEF Refers, CountedDown, Transit, CallInv, CallOf
  <2>2. \A x \in Proc : Denies(x, i)' <=> Denies(x, i)
    BY <1>1, <1>2 DEF OthersStay, Denies, CallInv, CallOf, Opens
  <2>3. CountOf(i)
    BY DEF Strong, CountInv
  <2> QED BY <1>1, <2>1, <2>2, <2>3, RefsKept, DeniersKept DEF CountOf, OpenCount, DenyCount
<1>15. CounterInv'
  BY <1>1, <1>6, <1>11 DEF OthersStay, Strong, CounterInv, CounterOf, Counting
<1>16. ListInv'
  BY <1>1, <1>2 DEF Strong, ListInv, ListOf, Ends, Releasing, Opening
<1>17. NameInv'
  BY <1>6, <1>7, NameKept DEF Strong, Opens, Opening, FilesStay
<1>18. OwnerInv'
  BY <1>1, <1>2, <1>3, <1>6, <1>7, OwnerKept DEF Strong, Freeing, Opens, Idle
<1>19. ContentInv'
  BY <1>1, <1>2, <1>3, <1>4, <1>5, <1>6, <1>7, <1>11, Nulls, <1>10, ContentKept
     DEF Strong, ListedInUse, ListInv, ListOf, TypeOK, Opens, Idle
<1>20. MapInv'
  BY <1>1, <1>2 DEF OthersStay, Strong, MapInv, New
<1> QED BY <1>12, <1>13, <1>14, <1>15, <1>16, <1>17, <1>18, <1>19, <1>20 DEF Strong

(* inode_allow_write reads the counter of deniers, which nobody else is    *)
(* counting.                                                               *)
LEMMA GetAllowKeeps ==
  ASSUME TypeOK, LockInv, CallInv, ~ raced, Strong, NEW p \in Proc, GetAllow(p), panic' = panic
  PROVE  TypeOK' /\ LockInv' /\ CallInv' /\ (~ raced' => Strong')
<1>1. /\ disk_map' = disk_map /\ dir' = dir /\ content' = content /\ free_map' = free_map
      /\ inode' = inode /\ open_inodes' = open_inodes /\ fd_table' = fd_table
      /\ next_fd' = next_fd /\ running' = running /\ lost' = lost
      /\ filesys_lock' = filesys_lock
  BY DEF GetAllow, disk, inodes, tables, Get, Panic, GetAllow
<1>2. /\ pc[p] = "get_allow" /\ pc' = [pc EXCEPT ![p] = "put_allow"]
      /\ at' = [at EXCEPT ![p] = [at[p] EXCEPT !.num = inode[at[p].i].count["deny"]]]
      /\ inode[at[p].i] # NULL
  BY DEF GetAllow, At, Runs, Goto, Local, Me, Get, Panic, GetAllow
<1>3. /\ at[p].op \in {"exit"} /\ at[p].i \in Inode /\ inode[at[p].i] \in Struct
      /\ inode[at[p].i].count["deny"] \in Int
  BY <1>2, Nulls
     DEF TypeOK, CallInv, CallOf, LockInv, Holds, Without, Opens, Opening, Closing, Strong,
         Struct
<1>4. at[p] \in Locals
  BY DEF TypeOK
<1>5. [at[p] EXCEPT !.num = inode[at[p].i].count["deny"]] \in Locals
  BY <1>3, <1>4 DEF Locals
<1>6. /\ pc'[p] = "put_allow" /\ at'[p].op = at[p].op /\ at'[p].name = at[p].name
      /\ at'[p].sector = at[p].sector /\ at'[p].i = at[p].i
      /\ at'[p].num = inode[at[p].i].count["deny"] /\ at'[p].snap = at[p].snap
      /\ at'[p].new = at[p].new /\ at'[p].fd = at[p].fd /\ at'[p].next = at[p].next
      /\ OthersStay(p)
  BY <1>2, <1>4, <1>5 DEF TypeOK, Locals, OthersStay, Idle
<1>7. FilesStay
  BY <1>1 DEF FilesStay, InodesStay, SameFile
<1>8. TypeOK'
  <2>1. pc' \in [Proc -> Label]
    BY <1>2, <1>3 DEF TypeOK, Label
  <2>2. at' \in [Proc -> Locals]
    BY <1>2, <1>5 DEF TypeOK
  <2> QED BY <1>1, <2>1, <2>2, FilesAssumption
             DEF TypeOK, GetAllow, At, Runs, Goto, Local, Me, disk, inodes, tables, Get, Panic,
                 GetAllow
<1>9. LockInv'
  BY <1>1, <1>2 DEF LockInv, Holds, Without, CallInv, CallOf
<1>10. CallInv'
  <2> SUFFICES ASSUME NEW q \in Proc PROVE CallOf(q)'
    BY DEF CallInv
  <2>1. CASE q = p
    BY <1>2, <2>1 DEF CallInv, CallOf
  <2>2. CASE q # p
    BY <1>6, <2>2 DEF OthersStay, CallInv, CallOf
  <2> QED BY <2>1, <2>2
<1> SUFFICES ASSUME ~ raced' PROVE Strong'
  BY <1>8, <1>9, <1>10
<1>11. \A q \in Proc : q # p => ~ Counting(q, at[p].i)
  BY <1>1, <1>2, <1>3, <1>4, <1>5, <1>6, <1>7, Nulls DEF GetAllow, Get, Panic, Meets, Me, At, Runs
<1>12. ForkInv'
  BY <1>1, <1>2, <1>6, <1>8, ForkKept DEF Strong, Opens
<1>13. FileInv'
  BY <1>1, <1>6, FileKept DEF Strong, Opens
<1>14. CountInv'
  <2> SUFFICES ASSUME NEW i \in Inode PROVE CountOf(i)'
    BY DEF CountInv
  <2>1. \A x \in Proc, k \in Place : Refers(x, k, i)' <=> Refers(x, k, i)
    BY <1>1, <1>2 DEF Refers, CountedDown, Transit, Releasing
  <2>2. \A x \in Proc : Denies(x, i)' <=> Denies(x, i)
    BY <1>1, <1>2 DEF OthersStay, Denies, CallInv, CallOf, Opens
  <2>3. CountOf(i)
    BY DEF Strong, CountInv
  <2> QED BY <1>1, <2>1, <2>2, <2>3, RefsKept, DeniersKept DEF CountOf, OpenCount, DenyCount
<1>15. CounterInv'
  BY <1>1, <1>6, <1>11 DEF OthersStay, Strong, CounterInv, CounterOf, Counting
<1>16. ListInv'
  BY <1>1, <1>2 DEF Strong, ListInv, ListOf, Ends, Releasing, Opening
<1>17. NameInv'
  BY <1>6, <1>7, NameKept DEF Strong, Opens, Opening, FilesStay
<1>18. OwnerInv'
  BY <1>1, <1>2, <1>3, <1>6, <1>7, OwnerKept DEF Strong, Freeing, Opens, Idle
<1>19. ContentInv'
  BY <1>1, <1>2, <1>3, <1>4, <1>5, <1>6, <1>7, <1>11, Nulls, <1>10, ContentKept
     DEF Strong, ListedInUse, ListInv, ListOf, TypeOK, Opens, Idle
<1>20. MapInv'
  BY <1>1, <1>2 DEF OthersStay, Strong, MapInv, New
<1> QED BY <1>12, <1>13, <1>14, <1>15, <1>16, <1>17, <1>18, <1>19, <1>20 DEF Strong

(* inode_reopen writes what it read plus one: there is one reference more, *)
(* the call's own.                                                         *)
LEMMA PutOpenKeeps ==
  ASSUME TypeOK, LockInv, CallInv, ~ raced, Strong, NEW p \in Proc, PutOpen(p), panic' = panic
  PROVE  TypeOK' /\ LockInv' /\ CallInv' /\ (~ raced' => Strong')
<1>1. /\ disk_map' = disk_map /\ dir' = dir /\ content' = content /\ free_map' = free_map
      /\ open_inodes' = open_inodes /\ fd_table' = fd_table /\ next_fd' = next_fd
      /\ running' = running /\ lost' = lost /\ filesys_lock' = filesys_lock
  BY DEF PutOpen, disk, inodes, tables, Put, Panic
<1>2. /\ pc[p] = "put_open" /\ pc' = [pc EXCEPT ![p] = "opened"]
      /\ at' = [at EXCEPT ![p] = [at[p] EXCEPT !.num = 0]] /\ inode[at[p].i] # NULL
      /\ inode' = [inode EXCEPT ![at[p].i].count["open"] = at[p].num + 1]
  BY DEF PutOpen, At, Runs, Goto, Local, Me, Put, Panic
<1>3. /\ at[p].op \in Opens \cup {"mmap", "fork"} /\ at[p].i \in Inode
      /\ inode[at[p].i] \in Struct /\ at[p].num = inode[at[p].i].count.open
      /\ inode[at[p].i].count.open \in Int /\ inode[at[p].i].count.deny \in Int
  BY <1>2, Nulls
     DEF TypeOK, CallInv, CallOf, LockInv, Holds, Opens, Strong, Struct, CounterInv, CounterOf
<1>4. at[p] \in Locals
  BY DEF TypeOK
<1>5. [at[p] EXCEPT !.num = 0] \in Locals
  BY <1>4 DEF Locals
<1>6. /\ pc'[p] = "opened" /\ at'[p].op = at[p].op /\ at'[p].name = at[p].name
      /\ at'[p].sector = at[p].sector /\ at'[p].i = at[p].i /\ at'[p].num = 0
      /\ at'[p].snap = at[p].snap /\ at'[p].new = at[p].new /\ at'[p].fd = at[p].fd
      /\ at'[p].next = at[p].next /\ OthersStay(p)
  BY <1>2, <1>4, <1>5 DEF TypeOK, Locals, OthersStay, Idle
<1>7. /\ at[p].i \in open_inodes /\ inode[at[p].i].count.open >= 0
  BY <1>2, WorksOnOpen
<1>8. /\ inode'[at[p].i] \in Struct
      /\ inode'[at[p].i] = [inode[at[p].i] EXCEPT !.count = [inode[at[p].i].count
           EXCEPT !["open"] = at[p].num + 1]]
  <2>1. inode'[at[p].i] = [inode[at[p].i] EXCEPT !.count["open"] = at[p].num + 1]
    BY <1>1, <1>2, <1>3, <1>4, <1>5, <1>6, <1>7, Nulls DEF TypeOK
  <2>2. [inode[at[p].i] EXCEPT !.count["open"] = at[p].num + 1] \in Struct
    BY <1>3 DEF Struct
  <2>3. inode'[at[p].i] = [inode[at[p].i] EXCEPT !.count = [inode[at[p].i].count
          EXCEPT !["open"] = at[p].num + 1]]
    BY <2>1 DEF Struct
  <2> QED BY <2>1, <2>2, <2>3
<1>9. /\ inode'[at[p].i].sector = inode[at[p].i].sector
      /\ inode'[at[p].i].removed = inode[at[p].i].removed
      /\ inode'[at[p].i].data = inode[at[p].i].data
  BY <1>2 DEF Struct
<1>10. inode'[at[p].i].count.open = inode[at[p].i].count.open + 1
  BY <1>3, <1>8 DEF Struct
<1>11. inode'[at[p].i].count.deny = inode[at[p].i].count.deny
  BY <1>2 DEF Struct
<1>12. \A j \in Inode : j # at[p].i => inode'[j] = inode[j]
  BY <1>2 DEF TypeOK
<1>13. FilesStay
  BY <1>1, <1>2, <1>3, <1>4, <1>5, <1>6, <1>7, <1>8, <1>9, <1>10, <1>11, <1>12, Nulls
     DEF FilesStay, InodesStay, SameFile
<1>14. TypeOK'
  <2>1. pc' \in [Proc -> Label]
    BY <1>2, <1>3 DEF TypeOK, Label
  <2>2. at' \in [Proc -> Locals]
    BY <1>2, <1>5 DEF TypeOK
  <2>3. inode' \in [Inode -> Struct \cup {NULL}]
    BY <1>2, <1>3, <1>8 DEF TypeOK
  <2> QED BY <2>1, <2>2, <2>3 DEF TypeOK, PutOpen, At, disk, inodes, tables, health, Put, Panic
<1>15. LockInv'
  BY <1>1, <1>2 DEF LockInv, Holds, Without, Opening
<1>16. CallInv'
  <2> SUFFICES ASSUME NEW q \in Proc PROVE CallOf(q)'
    BY DEF CallInv
  <2>1. CASE q = p
    BY <1>2, <2>1 DEF CallInv, CallOf, Closing, Idle
  <2>2. CASE q # p
    BY <1>6, <2>2 DEF OthersStay, CallInv, CallOf
  <2> QED BY <2>1, <2>2
<1> SUFFICES ASSUME ~ raced' PROVE Strong'
  BY <1>14, <1>15, <1>16
<1>17. ForkInv'
  BY <1>1, <1>2, <1>6, <1>14, ForkKept DEF Strong, Opens
<1>18. FileInv'
  BY <1>1, <1>6, FileKept DEF Strong, Opens
<1>19. CountInv'
  <2> SUFFICES ASSUME NEW i \in Inode PROVE CountOf(i)'
    BY DEF CountInv
  <2>1. CountOf(i)
    BY DEF Strong, CountInv
  <2>2. CASE i # at[p].i
    <3>1. \A x \in Proc, k \in Place : Refers(x, k, i)' <=> Refers(x, k, i)
      BY <1>1, <1>2, <2>2 DEF Refers, CountedDown, Transit, Releasing
    <3>2. \A x \in Proc : Denies(x, i)' <=> Denies(x, i)
      BY <1>1, <1>2 DEF Denies
    <3>3. OpenCount(i)' = OpenCount(i) /\ DenyCount(i)' = DenyCount(i)
      BY <1>2, <2>2 DEF OpenCount, DenyCount
    <3> QED BY <1>1, <2>1, <3>1, <3>2, <3>3, RefsKept, DeniersKept DEF CountOf
  <2>3. CASE i = at[p].i
    <3>2. Cardinality(Refs(i)') = Cardinality(Refs(i)) + 1
        <4>1. /\ ~ Refers(p, 1, i) /\ Refers(p, 1, i)' /\ 1 \in Place
          BY <1>2, <1>6, Nulls, <2>3 DEF Refers, Transit, Place
        <4>2. \A x \in Proc, l \in Place : << x, l >> # << p, 1 >> => (Refers(x, l, i)' <=>
                Refers(x, l, i))
          BY <1>1, <1>2 DEF Refers, CountedDown, Transit, CallInv, CallOf, Opens
        <4> QED BY <4>1, <4>2, RefsGrow
    <3>3. \A x \in Proc : Denies(x, i)' <=> Denies(x, i)
      BY <1>1, <1>2 DEF Denies
    <3>4. Cardinality(Deniers(i)') = Cardinality(Deniers(i))
      BY <3>3, DeniersKept
    <3>5. inode[i].count.open \in Int /\ inode[i].count.deny \in Int /\ lost[i].refs \in Nat /\
            lost[i].denies \in Nat
      BY <1>2, <2>3 DEF TypeOK, Struct
    <3>6. /\ OpenCount(i) = inode[i].count.open /\ DenyCount(i) = inode[i].count.deny
          /\ OpenCount(i)' = inode'[i].count.open /\ DenyCount(i)' = inode'[i].count.deny
      BY <1>2, <1>8, Nulls, <2>3 DEF OpenCount, DenyCount
    <3> QED BY <1>1, <1>2, <1>10, <2>1, <2>3, <3>2, <3>4, <3>5, <3>6, FiniteRefs DEF CountOf
  <2> QED BY <2>2, <2>3
<1>20. CounterInv'
  BY <1>2, <1>6 DEF OthersStay, Strong, CounterInv, CounterOf, Counting
<1>21. ListInv'
  <2>1. \A i \in Inode : inode[i] # NULL => \/ inode'[i].count.open = inode[i].count.open
                                              \/ /\ i = at[p].i /\ i \in open_inodes
                                                 /\ \A q \in Proc : at[q].i = i =>
                                                      pc[q] # "unlist"
                                                 /\ inode'[i].count.open = 0 => pc'[p] = "test"
    BY <1>2, <1>3, <1>7 DEF Strong, CounterInv, CounterOf, Counting
  <2> QED BY <1>1, <1>2, <1>3, <1>4, <1>5, <1>6, <1>7, <1>8, <1>9, <1>10, <1>11, <1>12, <1>13,
             Nulls, <2>1, ListKept
             DEF Strong, FilesStay, Releasing, Opens, Opening
<1>22. NameInv'
  BY <1>2, <1>6, <1>13, NameKept DEF Strong, Opens, Opening, FilesStay
<1>23. OwnerInv'
  BY <1>1, <1>2, <1>3, <1>6, <1>13, OwnerKept DEF Strong, Freeing, Opens, Idle
<1>24. ContentInv'
  BY <1>1, <1>2, <1>3, <1>4, <1>5, <1>6, <1>7, <1>8, <1>9, <1>10, <1>11, <1>12, <1>13, Nulls,
     <1>16, ContentKept
     DEF Strong, ListedInUse, ListInv, ListOf, TypeOK, Opens, Idle
<1>25. MapInv'
  BY <1>1, <1>2 DEF OthersStay, Strong, MapInv, New
<1> QED BY <1>17, <1>18, <1>19, <1>20, <1>21, <1>22, <1>23, <1>24, <1>25 DEF Strong

(* inode_close writes what it read minus one: the reference it came from   *)
(* is dropped.                                                             *)
LEMMA PutCloseKeeps ==
  ASSUME TypeOK, LockInv, CallInv, ~ raced, Strong, NEW p \in Proc, PutClose(p), panic' = panic
  PROVE  TypeOK' /\ LockInv' /\ CallInv' /\ (~ raced' => Strong')
<1>1. /\ disk_map' = disk_map /\ dir' = dir /\ content' = content /\ free_map' = free_map
      /\ open_inodes' = open_inodes /\ fd_table' = fd_table /\ next_fd' = next_fd
      /\ running' = running /\ lost' = lost /\ filesys_lock' = filesys_lock
  BY DEF PutClose, disk, inodes, tables, Put, Panic
<1>2. /\ pc[p] = "put_close" /\ pc' = [pc EXCEPT ![p] = "test"]
      /\ at' = [at EXCEPT ![p] = [at[p] EXCEPT !.num = 0]] /\ inode[at[p].i] # NULL
      /\ inode' = [inode EXCEPT ![at[p].i].count["open"] = at[p].num + -1]
  BY DEF PutClose, At, Runs, Goto, Local, Me, Put, Panic
<1>3. /\ at[p].op \in {"open", "remove", "close", "exit"} /\ at[p].i \in Inode
      /\ inode[at[p].i] \in Struct /\ at[p].num = inode[at[p].i].count.open
      /\ inode[at[p].i].count.open \in Int /\ inode[at[p].i].count.deny \in Int
  BY <1>2, Nulls DEF TypeOK, CallInv, CallOf, Closing, Strong, Struct, CounterInv, CounterOf
<1>4. at[p] \in Locals
  BY DEF TypeOK
<1>5. [at[p] EXCEPT !.num = 0] \in Locals
  BY <1>4 DEF Locals
<1>6. /\ pc'[p] = "test" /\ at'[p].op = at[p].op /\ at'[p].name = at[p].name
      /\ at'[p].sector = at[p].sector /\ at'[p].i = at[p].i /\ at'[p].num = 0
      /\ at'[p].snap = at[p].snap /\ at'[p].new = at[p].new /\ at'[p].fd = at[p].fd
      /\ at'[p].next = at[p].next /\ OthersStay(p)
  BY <1>2, <1>4, <1>5 DEF TypeOK, Locals, OthersStay, Idle
<1>7. /\ at[p].i \in open_inodes /\ inode[at[p].i].count.open >= 0
  BY <1>2, WorksOnOpen
<1>8. /\ inode'[at[p].i] \in Struct
      /\ inode'[at[p].i] = [inode[at[p].i] EXCEPT !.count = [inode[at[p].i].count
           EXCEPT !["open"] = at[p].num + -1]]
  <2>1. inode'[at[p].i] = [inode[at[p].i] EXCEPT !.count["open"] = at[p].num + -1]
    BY <1>1, <1>2, <1>3, <1>4, <1>5, <1>6, <1>7, Nulls DEF TypeOK
  <2>2. [inode[at[p].i] EXCEPT !.count["open"] = at[p].num + -1] \in Struct
    BY <1>3 DEF Struct
  <2>3. inode'[at[p].i] = [inode[at[p].i] EXCEPT !.count = [inode[at[p].i].count
          EXCEPT !["open"] = at[p].num + -1]]
    BY <2>1 DEF Struct
  <2> QED BY <2>1, <2>2, <2>3
<1>9. /\ inode'[at[p].i].sector = inode[at[p].i].sector
      /\ inode'[at[p].i].removed = inode[at[p].i].removed
      /\ inode'[at[p].i].data = inode[at[p].i].data
  BY <1>2 DEF Struct
<1>10. inode'[at[p].i].count.open = inode[at[p].i].count.open - 1
  BY <1>3, <1>8 DEF Struct
<1>11. inode'[at[p].i].count.deny = inode[at[p].i].count.deny
  BY <1>2 DEF Struct
<1>12. \A j \in Inode : j # at[p].i => inode'[j] = inode[j]
  BY <1>2 DEF TypeOK
<1>13. FilesStay
  BY <1>1, <1>2, <1>3, <1>4, <1>5, <1>6, <1>7, <1>8, <1>9, <1>10, <1>11, <1>12, Nulls
     DEF FilesStay, InodesStay, SameFile
<1>14. TypeOK'
  <2>1. pc' \in [Proc -> Label]
    BY <1>2, <1>3 DEF TypeOK, Label
  <2>2. at' \in [Proc -> Locals]
    BY <1>2, <1>5 DEF TypeOK
  <2>3. inode' \in [Inode -> Struct \cup {NULL}]
    BY <1>2, <1>3, <1>8 DEF TypeOK
  <2> QED BY <2>1, <2>2, <2>3 DEF TypeOK, PutClose, At, disk, inodes, tables, health, Put, Panic
<1>15. LockInv'
  BY <1>1, <1>2 DEF LockInv, Holds, Without, Opening
<1>16. CallInv'
  <2> SUFFICES ASSUME NEW q \in Proc PROVE CallOf(q)'
    BY DEF CallInv
  <2>1. CASE q = p
    BY <1>2, <2>1 DEF CallInv, CallOf, Closing
  <2>2. CASE q # p
    BY <1>6, <2>2 DEF OthersStay, CallInv, CallOf
  <2> QED BY <2>1, <2>2
<1> SUFFICES ASSUME ~ raced' PROVE Strong'
  BY <1>14, <1>15, <1>16
<1>17. ForkInv'
  BY <1>1, <1>2, <1>6, <1>14, ForkKept DEF Strong, Opens
<1>18. FileInv'
  BY <1>1, <1>6, FileKept DEF Strong, Opens
<1>19. CountInv'
  <2> SUFFICES ASSUME NEW i \in Inode PROVE CountOf(i)'
    BY DEF CountInv
  <2>1. CountOf(i)
    BY DEF Strong, CountInv
  <2>2. CASE i # at[p].i
    <3>1. \A x \in Proc, k \in Place : Refers(x, k, i)' <=> Refers(x, k, i)
      BY <1>1, <1>2, Nulls, <2>2
         DEF Refers, CountedDown, Transit, CallInv, CallOf, Strong, FileInv, FileOf
    <3>2. \A x \in Proc : Denies(x, i)' <=> Denies(x, i)
      BY <1>1, <1>2 DEF Denies
    <3>3. OpenCount(i)' = OpenCount(i) /\ DenyCount(i)' = DenyCount(i)
      BY <1>2, <2>2 DEF OpenCount, DenyCount
    <3> QED BY <1>1, <2>1, <3>1, <3>2, <3>3, RefsKept, DeniersKept DEF CountOf
  <2>3. CASE i = at[p].i
    <3>2. Cardinality(Refs(i)') = Cardinality(Refs(i)) - 1
      <4>1. CASE at[p].op \in {"close", "exit"}
          <5>0. PICK k \in Place : k = at[p].fd
            BY <1>3 DEF Place, CallInv, CallOf
          <5>1. /\ Refers(p, k, i) /\ ~ Refers(p, k, i)' /\ k \in Place
            BY <1>2, <1>6, Nulls, <2>3, <4>1, <5>0
               DEF Refers, CountedDown, Releasing, CallInv, CallOf, Strong, FileInv, FileOf
          <5>2. \A x \in Proc, l \in Place : << x, l >> # << p, k >> => (Refers(x, l, i)' <=>
                  Refers(x, l, i))
            BY <1>1, <1>2, <4>1, <5>0 DEF Refers, CountedDown, Transit
          <5> QED BY <5>1, <5>2, RefsShrink
      <4>2. CASE at[p].op \in {"open", "remove"}
          <5>1. /\ Refers(p, 1, i) /\ ~ Refers(p, 1, i)' /\ 1 \in Place
            BY <1>2, <1>6, Nulls, <2>3, <4>2 DEF Refers, Transit, Place
          <5>2. \A x \in Proc, l \in Place : << x, l >> # << p, 1 >> => (Refers(x, l, i)' <=>
                  Refers(x, l, i))
            BY <1>1, <1>2, <4>2 DEF Refers, CountedDown, Transit
          <5> QED BY <5>1, <5>2, RefsShrink
      <4> QED BY <1>3, <4>1, <4>2
    <3>3. \A x \in Proc : Denies(x, i)' <=> Denies(x, i)
      BY <1>1, <1>2 DEF Denies
    <3>4. Cardinality(Deniers(i)') = Cardinality(Deniers(i))
      BY <3>3, DeniersKept
    <3>5. inode[i].count.open \in Int /\ inode[i].count.deny \in Int /\ lost[i].refs \in Nat /\
            lost[i].denies \in Nat
      BY <1>2, <2>3 DEF TypeOK, Struct
    <3>6. /\ OpenCount(i) = inode[i].count.open /\ DenyCount(i) = inode[i].count.deny
          /\ OpenCount(i)' = inode'[i].count.open /\ DenyCount(i)' = inode'[i].count.deny
      BY <1>2, <1>8, Nulls, <2>3 DEF OpenCount, DenyCount
    <3> QED BY <1>1, <1>10, <1>11, <2>1, <2>3, <3>2, <3>4, <3>5, <3>6, FiniteRefs DEF CountOf
  <2> QED BY <2>2, <2>3
<1>20. CounterInv'
  BY <1>2, <1>6 DEF OthersStay, Strong, CounterInv, CounterOf, Counting
<1>21. ListInv'
  <2>1. \A i \in Inode : inode[i] # NULL => \/ inode'[i].count.open = inode[i].count.open
                                              \/ /\ i = at[p].i /\ i \in open_inodes
                                                 /\ \A q \in Proc : at[q].i = i =>
                                                      pc[q] # "unlist"
                                                 /\ inode'[i].count.open = 0 => pc'[p] = "test"
    BY <1>2, <1>6, <1>7 DEF Strong, CounterInv, CounterOf, Counting
  <2> QED BY <1>1, <1>2, <1>3, <1>4, <1>5, <1>6, <1>7, <1>8, <1>9, <1>10, <1>11, <1>12, <1>13,
             Nulls, <2>1, ListKept
             DEF Strong, FilesStay, Releasing, Opens, Opening
<1>22. NameInv'
  BY <1>6, <1>13, NameKept DEF Strong, Opens, Opening, FilesStay
<1>23. OwnerInv'
  BY <1>1, <1>2, <1>3, <1>6, <1>13, OwnerKept DEF Strong, Freeing, Opens, Idle
<1>24. ContentInv'
  BY <1>1, <1>2, <1>3, <1>4, <1>5, <1>6, <1>7, <1>8, <1>9, <1>10, <1>11, <1>12, <1>13, Nulls,
     <1>16, ContentKept
     DEF Strong, ListedInUse, ListInv, ListOf, TypeOK, Opens, Idle
<1>25. MapInv'
  BY <1>1, <1>2 DEF OthersStay, Strong, MapInv, New
<1> QED BY <1>17, <1>18, <1>19, <1>20, <1>21, <1>22, <1>23, <1>24, <1>25 DEF Strong

(* inode_deny_write writes what it read plus one: there is one denier more. *)
LEMMA PutDenyKeeps ==
  ASSUME TypeOK, LockInv, CallInv, ~ raced, Strong, NEW p \in Proc, PutDeny(p), panic' = panic
  PROVE  TypeOK' /\ LockInv' /\ CallInv' /\ (~ raced' => Strong')
<1>1. /\ disk_map' = disk_map /\ dir' = dir /\ content' = content /\ free_map' = free_map
      /\ open_inodes' = open_inodes /\ fd_table' = fd_table /\ next_fd' = next_fd
      /\ running' = running /\ lost' = lost /\ filesys_lock' = filesys_lock
  BY DEF PutDeny, disk, inodes, tables, Put, Panic
<1>2. /\ pc[p] = "put_deny" /\ pc' = [pc EXCEPT ![p] = "denied"]
      /\ at' = [at EXCEPT ![p] = [at[p] EXCEPT !.num = 0]] /\ inode[at[p].i] # NULL
      /\ inode' = [inode EXCEPT ![at[p].i].count["deny"] = at[p].num + 1]
  BY DEF PutDeny, At, Runs, Goto, Local, Me, Put, Panic
<1>3. /\ at[p].op \in {"load"} /\ at[p].i \in Inode /\ inode[at[p].i] \in Struct
      /\ at[p].num = inode[at[p].i].count.deny /\ inode[at[p].i].count.open \in Int
      /\ inode[at[p].i].count.deny \in Int
  BY <1>2, Nulls DEF TypeOK, CallInv, CallOf, Strong, Struct, CounterInv, CounterOf
<1>4. at[p] \in Locals
  BY DEF TypeOK
<1>5. [at[p] EXCEPT !.num = 0] \in Locals
  BY <1>4 DEF Locals
<1>6. /\ pc'[p] = "denied" /\ at'[p].op = at[p].op /\ at'[p].name = at[p].name
      /\ at'[p].sector = at[p].sector /\ at'[p].i = at[p].i /\ at'[p].num = 0
      /\ at'[p].snap = at[p].snap /\ at'[p].new = at[p].new /\ at'[p].fd = at[p].fd
      /\ at'[p].next = at[p].next /\ OthersStay(p)
  BY <1>2, <1>4, <1>5 DEF TypeOK, Locals, OthersStay, Idle
<1>7. /\ at[p].i \in open_inodes /\ inode[at[p].i].count.open >= 0
  BY <1>2, WorksOnOpen
<1>8. /\ inode'[at[p].i] \in Struct
      /\ inode'[at[p].i] = [inode[at[p].i] EXCEPT !.count = [inode[at[p].i].count
           EXCEPT !["deny"] = at[p].num + 1]]
  <2>1. inode'[at[p].i] = [inode[at[p].i] EXCEPT !.count["deny"] = at[p].num + 1]
    BY <1>1, <1>2, <1>3, <1>4, <1>5, <1>6, <1>7, Nulls DEF TypeOK
  <2>2. [inode[at[p].i] EXCEPT !.count["deny"] = at[p].num + 1] \in Struct
    BY <1>3 DEF Struct
  <2>3. inode'[at[p].i] = [inode[at[p].i] EXCEPT !.count = [inode[at[p].i].count
          EXCEPT !["deny"] = at[p].num + 1]]
    BY <2>1 DEF Struct
  <2> QED BY <2>1, <2>2, <2>3
<1>9. /\ inode'[at[p].i].sector = inode[at[p].i].sector
      /\ inode'[at[p].i].removed = inode[at[p].i].removed
      /\ inode'[at[p].i].data = inode[at[p].i].data
  BY <1>2 DEF Struct
<1>10. inode'[at[p].i].count.deny = inode[at[p].i].count.deny + 1
  BY <1>3, <1>8 DEF Struct
<1>11. inode'[at[p].i].count.open = inode[at[p].i].count.open
  BY <1>2 DEF Struct
<1>12. \A j \in Inode : j # at[p].i => inode'[j] = inode[j]
  BY <1>2 DEF TypeOK
<1>13. FilesStay
  BY <1>1, <1>2, <1>3, <1>4, <1>5, <1>6, <1>7, <1>8, <1>9, <1>10, <1>11, <1>12, Nulls
     DEF FilesStay, InodesStay, SameFile
<1>14. TypeOK'
  <2>1. pc' \in [Proc -> Label]
    BY <1>2, <1>3 DEF TypeOK, Label
  <2>2. at' \in [Proc -> Locals]
    BY <1>2, <1>5 DEF TypeOK
  <2>3. inode' \in [Inode -> Struct \cup {NULL}]
    BY <1>2, <1>3, <1>8 DEF TypeOK
  <2> QED BY <2>1, <2>2, <2>3 DEF TypeOK, PutDeny, At, disk, inodes, tables, health, Put, Panic
<1>15. LockInv'
  BY <1>1, <1>2 DEF LockInv, Holds, Without, Opening
<1>16. CallInv'
  <2> SUFFICES ASSUME NEW q \in Proc PROVE CallOf(q)'
    BY DEF CallInv
  <2>1. CASE q = p
    BY <1>2, <2>1 DEF CallInv, CallOf, Closing
  <2>2. CASE q # p
    BY <1>6, <2>2 DEF OthersStay, CallInv, CallOf
  <2> QED BY <2>1, <2>2
<1> SUFFICES ASSUME ~ raced' PROVE Strong'
  BY <1>14, <1>15, <1>16
<1>17. ForkInv'
  BY <1>1, <1>2, <1>6, <1>14, ForkKept DEF Strong, Opens
<1>18. FileInv'
  BY <1>1, <1>2, <1>6, FileKept DEF Strong, Opens
<1>19. CountInv'
  <2> SUFFICES ASSUME NEW i \in Inode PROVE CountOf(i)'
    BY DEF CountInv
  <2>1. CountOf(i)
    BY DEF Strong, CountInv
  <2>2. CASE i # at[p].i
    <3>1. \A x \in Proc, k \in Place : Refers(x, k, i)' <=> Refers(x, k, i)
      BY <1>1, <1>2 DEF Refers, CountedDown, Transit, CallInv, CallOf
    <3>2. \A x \in Proc : Denies(x, i)' <=> Denies(x, i)
      BY <1>1, <1>2, <2>2 DEF Denies, Strong, FileInv, FileOf
    <3>3. OpenCount(i)' = OpenCount(i) /\ DenyCount(i)' = DenyCount(i)
      BY <1>2, <2>2 DEF OpenCount, DenyCount
    <3> QED BY <1>1, <2>1, <3>1, <3>2, <3>3, RefsKept, DeniersKept DEF CountOf
  <2>3. CASE i = at[p].i
    <3>1. \A x \in Proc, k \in Place : Refers(x, k, i)' <=> Refers(x, k, i)
      BY <1>1, <1>2 DEF Refers, CountedDown, Transit, CallInv, CallOf
    <3>2. Cardinality(Refs(i)') = Cardinality(Refs(i))
      BY <3>1, RefsKept
    <3>3. /\ ~ Denies(p, i) /\ Denies(p, i)'
          /\ \A x \in Proc : x # p => (Denies(x, i)' <=> Denies(x, i))
      BY <1>1, <1>2, <1>6, <2>3 DEF Denies, CallInv, CallOf, Strong, FileInv, FileOf
    <3>4. Cardinality(Deniers(i)') = Cardinality(Deniers(i)) + 1
      BY <3>3, DeniersGrow
    <3>5. inode[i].count.open \in Int /\ inode[i].count.deny \in Int /\ lost[i].refs \in Nat /\
            lost[i].denies \in Nat
      BY <1>2, <2>3 DEF TypeOK, Struct
    <3>6. /\ OpenCount(i) = inode[i].count.open /\ DenyCount(i) = inode[i].count.deny
          /\ OpenCount(i)' = inode'[i].count.open /\ DenyCount(i)' = inode'[i].count.deny
      BY <1>2, <1>8, Nulls, <2>3 DEF OpenCount, DenyCount
    <3> QED BY <1>1, <1>2, <1>10, <2>1, <2>3, <3>2, <3>4, <3>5, <3>6, FiniteRefs DEF CountOf
  <2> QED BY <2>2, <2>3
<1>20. CounterInv'
  BY <1>2, <1>6 DEF OthersStay, Strong, CounterInv, CounterOf, Counting
<1>21. ListInv'
  <2>1. \A i \in Inode : inode[i] # NULL => \/ inode'[i].count.open = inode[i].count.open
                                              \/ /\ i = at[p].i /\ i \in open_inodes
                                                 /\ \A q \in Proc : at[q].i = i =>
                                                      pc[q] # "unlist"
                                                 /\ inode'[i].count.open = 0 => pc'[p] = "test"
    BY <1>2 DEF Strong, CounterInv, CounterOf, Counting
  <2> QED BY <1>1, <1>2, <1>3, <1>4, <1>5, <1>6, <1>7, <1>8, <1>9, <1>10, <1>11, <1>12, <1>13,
             Nulls, <2>1, ListKept
             DEF Strong, FilesStay, Releasing, Opens, Opening
<1>22. NameInv'
  BY <1>6, <1>13, NameKept DEF Strong, Opens, Opening, FilesStay
<1>23. OwnerInv'
  BY <1>1, <1>2, <1>3, <1>6, <1>13, OwnerKept DEF Strong, Freeing, Opens, Idle
<1>24. ContentInv'
  BY <1>1, <1>2, <1>3, <1>4, <1>5, <1>6, <1>7, <1>8, <1>9, <1>10, <1>11, <1>12, <1>13, Nulls,
     <1>16, ContentKept
     DEF Strong, ListedInUse, ListInv, ListOf, TypeOK, Opens, Idle
<1>25. MapInv'
  BY <1>1, <1>2 DEF OthersStay, Strong, MapInv, New
<1> QED BY <1>17, <1>18, <1>19, <1>20, <1>21, <1>22, <1>23, <1>24, <1>25 DEF Strong

(* inode_allow_write writes what it read minus one: the program denies no  *)
(* longer.                                                                 *)
LEMMA PutAllowKeeps ==
  ASSUME TypeOK, LockInv, CallInv, ~ raced, Strong, NEW p \in Proc, PutAllow(p), panic' = panic
  PROVE  TypeOK' /\ LockInv' /\ CallInv' /\ (~ raced' => Strong')
<1>1. /\ disk_map' = disk_map /\ dir' = dir /\ content' = content /\ free_map' = free_map
      /\ open_inodes' = open_inodes /\ fd_table' = fd_table /\ next_fd' = next_fd
      /\ running' = running /\ lost' = lost /\ filesys_lock' = filesys_lock
  BY DEF PutAllow, disk, inodes, tables, Put, Panic
<1>2. /\ pc[p] = "put_allow" /\ pc' = [pc EXCEPT ![p] = "get_close"]
      /\ at' = [at EXCEPT ![p] = [at[p] EXCEPT !.num = 0]] /\ inode[at[p].i] # NULL
      /\ inode' = [inode EXCEPT ![at[p].i].count["deny"] = at[p].num + -1]
  BY DEF PutAllow, At, Runs, Goto, Local, Me, Put, Panic
<1>3. /\ at[p].op \in {"exit"} /\ at[p].i \in Inode /\ inode[at[p].i] \in Struct
      /\ at[p].num = inode[at[p].i].count.deny /\ inode[at[p].i].count.open \in Int
      /\ inode[at[p].i].count.deny \in Int
  BY <1>2, Nulls DEF TypeOK, CallInv, CallOf, Strong, Struct, CounterInv, CounterOf
<1>4. at[p] \in Locals
  BY DEF TypeOK
<1>5. [at[p] EXCEPT !.num = 0] \in Locals
  BY <1>4 DEF Locals
<1>6. /\ pc'[p] = "get_close" /\ at'[p].op = at[p].op /\ at'[p].name = at[p].name
      /\ at'[p].sector = at[p].sector /\ at'[p].i = at[p].i /\ at'[p].num = 0
      /\ at'[p].snap = at[p].snap /\ at'[p].new = at[p].new /\ at'[p].fd = at[p].fd
      /\ at'[p].next = at[p].next /\ OthersStay(p)
  BY <1>2, <1>4, <1>5 DEF TypeOK, Locals, OthersStay, Idle
<1>7. /\ at[p].i \in open_inodes /\ inode[at[p].i].count.open >= 0
  BY <1>2, WorksOnOpen
<1>8. /\ inode'[at[p].i] \in Struct
      /\ inode'[at[p].i] = [inode[at[p].i] EXCEPT !.count = [inode[at[p].i].count
           EXCEPT !["deny"] = at[p].num + -1]]
  <2>1. inode'[at[p].i] = [inode[at[p].i] EXCEPT !.count["deny"] = at[p].num + -1]
    BY <1>1, <1>2, <1>3, <1>4, <1>5, <1>6, <1>7, Nulls DEF TypeOK
  <2>2. [inode[at[p].i] EXCEPT !.count["deny"] = at[p].num + -1] \in Struct
    BY <1>3 DEF Struct
  <2>3. inode'[at[p].i] = [inode[at[p].i] EXCEPT !.count = [inode[at[p].i].count
          EXCEPT !["deny"] = at[p].num + -1]]
    BY <2>1 DEF Struct
  <2> QED BY <2>1, <2>2, <2>3
<1>9. /\ inode'[at[p].i].sector = inode[at[p].i].sector
      /\ inode'[at[p].i].removed = inode[at[p].i].removed
      /\ inode'[at[p].i].data = inode[at[p].i].data
  BY <1>2 DEF Struct
<1>10. inode'[at[p].i].count.deny = inode[at[p].i].count.deny - 1
  BY <1>3, <1>8 DEF Struct
<1>11. inode'[at[p].i].count.open = inode[at[p].i].count.open
  BY <1>2 DEF Struct
<1>12. \A j \in Inode : j # at[p].i => inode'[j] = inode[j]
  BY <1>2 DEF TypeOK
<1>13. FilesStay
  BY <1>1, <1>2, <1>3, <1>4, <1>5, <1>6, <1>7, <1>8, <1>9, <1>10, <1>11, <1>12, Nulls
     DEF FilesStay, InodesStay, SameFile
<1>14. TypeOK'
  <2>1. pc' \in [Proc -> Label]
    BY <1>2, <1>3 DEF TypeOK, Label
  <2>2. at' \in [Proc -> Locals]
    BY <1>2, <1>5 DEF TypeOK
  <2>3. inode' \in [Inode -> Struct \cup {NULL}]
    BY <1>2, <1>3, <1>8 DEF TypeOK
  <2> QED BY <2>1, <2>2, <2>3 DEF TypeOK, PutAllow, At, disk, inodes, tables, health, Put, Panic
<1>15. LockInv'
  BY <1>1, <1>2 DEF LockInv, Holds, Without, CallInv, CallOf
<1>16. CallInv'
  <2> SUFFICES ASSUME NEW q \in Proc PROVE CallOf(q)'
    BY DEF CallInv
  <2>1. CASE q = p
    BY <1>2, <2>1 DEF CallInv, CallOf
  <2>2. CASE q # p
    BY <1>6, <2>2 DEF OthersStay, CallInv, CallOf
  <2> QED BY <2>1, <2>2
<1> SUFFICES ASSUME ~ raced' PROVE Strong'
  BY <1>14, <1>15, <1>16
<1>17. ForkInv'
  BY <1>1, <1>2, <1>6, <1>14, ForkKept DEF Strong, Opens
<1>18. FileInv'
  BY <1>1, <1>6, FileKept DEF Strong, Opens
<1>19. CountInv'
  <2> SUFFICES ASSUME NEW i \in Inode PROVE CountOf(i)'
    BY DEF CountInv
  <2>1. CountOf(i)
    BY DEF Strong, CountInv
  <2>2. CASE i # at[p].i
    <3>1. \A x \in Proc, k \in Place : Refers(x, k, i)' <=> Refers(x, k, i)
      BY <1>1, <1>2 DEF Refers, CountedDown, Transit, Releasing, CallInv, CallOf
    <3>2. \A x \in Proc : Denies(x, i)' <=> Denies(x, i)
      BY <1>1, <1>2, <2>2 DEF Denies, Strong, FileInv, FileOf
    <3>3. OpenCount(i)' = OpenCount(i) /\ DenyCount(i)' = DenyCount(i)
      BY <1>2, <2>2 DEF OpenCount, DenyCount
    <3> QED BY <1>1, <2>1, <3>1, <3>2, <3>3, RefsKept, DeniersKept DEF CountOf
  <2>3. CASE i = at[p].i
    <3>1. \A x \in Proc, k \in Place : Refers(x, k, i)' <=> Refers(x, k, i)
      BY <1>1, <1>2 DEF Refers, CountedDown, Transit, Releasing, CallInv, CallOf
    <3>2. Cardinality(Refs(i)') = Cardinality(Refs(i))
      BY <3>1, RefsKept
    <3>3. /\ Denies(p, i) /\ ~ Denies(p, i)'
          /\ \A x \in Proc : x # p => (Denies(x, i)' <=> Denies(x, i))
      BY <1>1, <1>2, <1>6, <2>3 DEF Denies, CallInv, CallOf, Strong, FileInv, FileOf
    <3>4. Cardinality(Deniers(i)') = Cardinality(Deniers(i)) - 1
      BY <3>3, DeniersShrink
    <3>5. inode[i].count.open \in Int /\ inode[i].count.deny \in Int /\ lost[i].refs \in Nat /\
            lost[i].denies \in Nat
      BY <1>2, <2>3 DEF TypeOK, Struct
    <3>6. /\ OpenCount(i) = inode[i].count.open /\ DenyCount(i) = inode[i].count.deny
          /\ OpenCount(i)' = inode'[i].count.open /\ DenyCount(i)' = inode'[i].count.deny
      BY <1>2, <1>8, Nulls, <2>3 DEF OpenCount, DenyCount
    <3> QED BY <1>1, <1>10, <1>11, <2>1, <2>3, <3>2, <3>4, <3>5, <3>6, FiniteRefs DEF CountOf
  <2> QED BY <2>2, <2>3
<1>20. CounterInv'
  BY <1>2, <1>6 DEF OthersStay, Strong, CounterInv, CounterOf, Counting
<1>21. ListInv'
  <2>1. \A i \in Inode : inode[i] # NULL => \/ inode'[i].count.open = inode[i].count.open
                                              \/ /\ i = at[p].i /\ i \in open_inodes
                                                 /\ \A q \in Proc : at[q].i = i =>
                                                      pc[q] # "unlist"
                                                 /\ inode'[i].count.open = 0 => pc'[p] = "test"
    BY <1>2 DEF Strong, CounterInv, CounterOf, Counting
  <2> QED BY <1>1, <1>2, <1>3, <1>4, <1>5, <1>6, <1>7, <1>8, <1>9, <1>10, <1>11, <1>12, <1>13,
             Nulls, <2>1, ListKept
             DEF Strong, FilesStay, Releasing, Opens, Opening
<1>22. NameInv'
  BY <1>6, <1>13, NameKept DEF Strong, Opens, Opening, FilesStay
<1>23. OwnerInv'
  BY <1>1, <1>2, <1>3, <1>6, <1>13, OwnerKept DEF Strong, Freeing, Opens, Idle
<1>24. ContentInv'
  BY <1>1, <1>2, <1>3, <1>4, <1>5, <1>6, <1>7, <1>8, <1>9, <1>10, <1>11, <1>12, <1>13, Nulls,
     <1>16, ContentKept
     DEF Strong, ListedInUse, ListInv, ListOf, TypeOK, Opens, Idle
<1>25. MapInv'
  BY <1>1, <1>2 DEF OthersStay, Strong, MapInv, New
<1> QED BY <1>17, <1>18, <1>19, <1>20, <1>21, <1>22, <1>23, <1>24, <1>25 DEF Strong

(* inode_close tests the counter: at 0 the inode is on the list and nobody *)
(* else counts it.                                                         *)
LEMMA TestKeeps ==
  ASSUME TypeOK, LockInv, CallInv, ~ raced, Strong, NEW p \in Proc, Test(p), panic' = panic
  PROVE  TypeOK' /\ LockInv' /\ CallInv' /\ (~ raced' => Strong')
<1>1. /\ disk_map' = disk_map /\ dir' = dir /\ content' = content /\ free_map' = free_map
      /\ inode' = inode /\ open_inodes' = open_inodes /\ fd_table' = fd_table
      /\ next_fd' = next_fd /\ running' = running /\ lost' = lost
      /\ filesys_lock' = filesys_lock
  BY DEF Test, disk, inodes, tables, Panic
<1>2. /\ pc[p] = "test"
      /\ pc' = [pc EXCEPT ![p] = (IF inode[at[p].i].count.open = 0 THEN "unlist" ELSE "closed")]
      /\ at' = at /\ inode[at[p].i] # NULL
  BY DEF Test, At, Runs, Goto, Me, Panic
<1>3. /\ at[p].i \in Inode /\ at[p].op \in {"open", "remove", "close", "exit"}
  BY <1>2, Nulls DEF CallInv, CallOf, Closing
<1>4. /\ pc'[p] = (IF inode[at[p].i].count.open = 0 THEN "unlist" ELSE "closed")
      /\ OthersStay(p)
  BY <1>2 DEF TypeOK, OthersStay
<1>5. FilesStay
  BY <1>1 DEF FilesStay, InodesStay, SameFile
<1>6. TypeOK'
  <2>1. pc' \in [Proc -> Label]
    BY <1>2, <1>3 DEF TypeOK, Label
  <2>2. at' \in [Proc -> Locals]
    BY <1>2 DEF TypeOK
  <2> QED BY <2>1 DEF TypeOK, Test, At, disk, inodes, tables, health, Panic
<1>7. LockInv'
  BY <1>1, <1>2 DEF LockInv, Holds, Without, Opening
<1>8. CallInv'
  <2> SUFFICES ASSUME NEW q \in Proc PROVE CallOf(q)'
    BY DEF CallInv
  <2>1. CASE q = p
    BY <1>2 DEF CallInv, CallOf, Closing
  <2>2. CASE q # p
    BY <1>4, <2>2 DEF OthersStay, CallInv, CallOf
  <2> QED BY <2>1, <2>2
<1> SUFFICES ASSUME ~ raced' PROVE Strong'
  BY <1>6, <1>7, <1>8
<1>9. ForkInv'
  BY <1>1, <1>2, <1>4, <1>6, ForkKept DEF Strong, Opens
<1>10. FileInv'
  BY <1>1, <1>2, <1>4, FileKept DEF Strong, Opens
<1>11. CountInv'
  <2> SUFFICES ASSUME NEW i \in Inode PROVE CountOf(i)'
    BY DEF CountInv
  <2>1. \A x \in Proc, k \in Place : Refers(x, k, i)' <=> Refers(x, k, i)
    BY <1>1, <1>2 DEF Refers, CountedDown, Transit
  <2>2. \A x \in Proc : Denies(x, i)' <=> Denies(x, i)
    BY <1>1, <1>2 DEF OthersStay, Denies, CallInv, CallOf, Opens
  <2>3. CountOf(i)
    BY DEF Strong, CountInv
  <2> QED BY <1>1, <2>1, <2>2, <2>3, RefsKept, DeniersKept DEF CountOf, OpenCount, DenyCount
<1>12. CounterInv'
  BY <1>1, <1>2 DEF OthersStay, Strong, CounterInv, CounterOf, Counting
<1>13. ListInv'
  BY <1>1, <1>2 DEF Strong, ListInv, ListOf, Ends, Releasing
<1>14. NameInv'
  BY <1>4, <1>5, NameKept DEF Strong, Opens, Opening, FilesStay
<1>15. OwnerInv'
  BY <1>1, <1>2, <1>3, <1>4, <1>5, OwnerKept DEF Strong, Freeing, Opens, Idle
<1>16. ContentInv'
  BY <1>1, <1>2, <1>3, <1>4, <1>5, Nulls, <1>8, ContentKept
     DEF Strong, ListedInUse, ListInv, ListOf, TypeOK, Opens
<1>17. MapInv'
  BY <1>1, <1>2 DEF OthersStay, Strong, MapInv, New
<1> QED BY <1>9, <1>10, <1>11, <1>12, <1>13, <1>14, <1>15, <1>16, <1>17 DEF Strong

(* open takes the lock anew to close a file that found no descriptor. *)
LEMMA RejectKeeps ==
  ASSUME TypeOK, LockInv, CallInv, ~ raced, Strong, NEW p \in Proc, Reject(p), panic' = panic
  PROVE  TypeOK' /\ LockInv' /\ CallInv' /\ (~ raced' => Strong')
<1>1. /\ disk_map' = disk_map /\ dir' = dir /\ content' = content /\ free_map' = free_map
      /\ inode' = inode /\ open_inodes' = open_inodes /\ fd_table' = fd_table
      /\ next_fd' = next_fd /\ running' = running /\ lost' = lost
  BY DEF Reject, disk, inodes, tables
<1>2. /\ pc[p] = "reject" /\ pc' = [pc EXCEPT ![p] = "get_close"] /\ at' = at
      /\ filesys_lock = NULL /\ filesys_lock' = p
  BY DEF Reject, At, Goto
<1>3. /\ at[p].op = "open"
  BY <1>2, Nulls DEF CallInv, CallOf
<1>4. /\ pc'[p] = "get_close" /\ OthersStay(p)
  BY <1>2 DEF TypeOK, OthersStay
<1>5. FilesStay
  BY <1>1 DEF FilesStay, InodesStay, SameFile
<1>6. TypeOK'
  <2>1. pc' \in [Proc -> Label]
    BY <1>2, <1>3 DEF TypeOK, Label
  <2>2. at' \in [Proc -> Locals]
    BY <1>2 DEF TypeOK
  <2>3. filesys_lock' \in Proc \cup {NULL}
    BY DEF Reject
  <2> QED BY <2>1 DEF TypeOK, Reject, At, disk, inodes, tables, health
<1>7. LockInv'
  BY <1>2, Nulls DEF LockInv, Holds, Without, CallInv, CallOf, TypeOK
<1>8. CallInv'
  <2> SUFFICES ASSUME NEW q \in Proc PROVE CallOf(q)'
    BY DEF CallInv
  <2>1. CASE q = p
    BY <1>2 DEF CallInv, CallOf
  <2>2. CASE q # p
    BY <1>4, <2>2 DEF OthersStay, CallInv, CallOf
  <2> QED BY <2>1, <2>2
<1> SUFFICES ASSUME ~ raced' PROVE Strong'
  BY <1>6, <1>7, <1>8
<1>9. ForkInv'
  BY <1>1, <1>2, <1>4, <1>6, ForkKept DEF Strong, Opens
<1>10. FileInv'
  BY <1>1, <1>2, <1>4, FileKept DEF Strong, Opens
<1>11. CountInv'
  <2> SUFFICES ASSUME NEW i \in Inode PROVE CountOf(i)'
    BY DEF CountInv
  <2>1. \A x \in Proc, k \in Place : Refers(x, k, i)' <=> Refers(x, k, i)
    BY <1>1, <1>2 DEF Refers, CountedDown, Transit, CallInv, CallOf
  <2>2. \A x \in Proc : Denies(x, i)' <=> Denies(x, i)
    BY <1>1, <1>2 DEF OthersStay, Denies, CallInv, CallOf, Opens
  <2>3. CountOf(i)
    BY DEF Strong, CountInv
  <2> QED BY <1>1, <2>1, <2>2, <2>3, RefsKept, DeniersKept DEF CountOf, OpenCount, DenyCount
<1>12. CounterInv'
  BY <1>1, <1>2 DEF OthersStay, Strong, CounterInv, CounterOf, Counting
<1>13. ListInv'
  BY <1>1, <1>2 DEF Strong, ListInv, ListOf, Ends, Releasing, Opening
<1>14. NameInv'
  BY <1>4, <1>5, NameKept DEF Strong, Opens, Opening, FilesStay
<1>15. OwnerInv'
  BY <1>1, <1>2, <1>3, <1>4, <1>5, OwnerKept DEF Strong, Freeing, Opens, Idle
<1>16. ContentInv'
  BY <1>1, <1>2, <1>3, <1>4, <1>5, Nulls, <1>8, ContentKept
     DEF Strong, ListedInUse, ListInv, ListOf, TypeOK, Opens
<1>17. MapInv'
  BY <1>1, <1>2 DEF OthersStay, Strong, MapInv, New
<1> QED BY <1>9, <1>10, <1>11, <1>12, <1>13, <1>14, <1>15, <1>16, <1>17 DEF Strong

(* exit begins with nothing in hand. *)
LEMMA ExitKeeps ==
  ASSUME TypeOK, LockInv, CallInv, ~ raced, Strong, NEW p \in Proc, Exit(p), panic' = panic
  PROVE  TypeOK' /\ LockInv' /\ CallInv' /\ (~ raced' => Strong')
<1>1. /\ disk_map' = disk_map /\ dir' = dir /\ content' = content /\ free_map' = free_map
      /\ inode' = inode /\ open_inodes' = open_inodes /\ fd_table' = fd_table
      /\ next_fd' = next_fd /\ running' = running /\ lost' = lost
      /\ filesys_lock' = filesys_lock
  BY DEF Exit, disk, inodes, tables
<1>2. /\ pc[p] = "user" /\ pc' = [pc EXCEPT ![p] = "exit"] /\ at' = at
  BY DEF Exit, Begin, Goto
<1>3. /\ at[p] = Idle /\ at[p].op = "none"
  BY <1>2, Nulls DEF TypeOK, CallInv, CallOf, Idle
<1>4. /\ pc'[p] = "exit" /\ OthersStay(p)
  BY <1>2 DEF TypeOK, OthersStay
<1>5. FilesStay
  BY <1>1 DEF FilesStay, InodesStay, SameFile
<1>6. TypeOK'
  <2>1. pc' \in [Proc -> Label]
    BY <1>2, <1>3 DEF TypeOK, Label
  <2>2. at' \in [Proc -> Locals]
    BY <1>2 DEF TypeOK
  <2> QED BY <2>1, FilesAssumption DEF TypeOK, Exit, Begin, disk, inodes, tables, health
<1>7. LockInv'
  BY <1>1, <1>2 DEF LockInv, Holds, Without, Opening
<1>8. CallInv'
  <2> SUFFICES ASSUME NEW q \in Proc PROVE CallOf(q)'
    BY DEF CallInv
  <2>1. CASE q = p
    BY <1>2 DEF CallInv, CallOf, Closing
  <2>2. CASE q # p
    BY <1>4, <2>2 DEF OthersStay, CallInv, CallOf
  <2> QED BY <2>1, <2>2
<1> SUFFICES ASSUME ~ raced' PROVE Strong'
  BY <1>6, <1>7, <1>8
<1>9. ForkInv'
  BY <1>1, <1>2, <1>4, <1>6, ForkKept DEF Strong, Opens
<1>10. FileInv'
  BY <1>1, <1>2, <1>4, FileKept DEF Strong, Opens
<1>11. CountInv'
  <2> SUFFICES ASSUME NEW i \in Inode PROVE CountOf(i)'
    BY DEF CountInv
  <2>1. \A x \in Proc, k \in Place : Refers(x, k, i)' <=> Refers(x, k, i)
    BY <1>1, <1>2 DEF Refers, CountedDown, Transit, Releasing
  <2>2. \A x \in Proc : Denies(x, i)' <=> Denies(x, i)
    BY <1>1, <1>2 DEF OthersStay, Denies, CallInv, CallOf, Opens
  <2>3. CountOf(i)
    BY DEF Strong, CountInv
  <2> QED BY <1>1, <2>1, <2>2, <2>3, RefsKept, DeniersKept DEF CountOf, OpenCount, DenyCount
<1>12. CounterInv'
  BY <1>1, <1>2 DEF OthersStay, Strong, CounterInv, CounterOf, Counting
<1>13. ListInv'
  BY <1>1, <1>2 DEF Strong, ListInv, ListOf, Ends, Releasing, Opening
<1>14. NameInv'
  BY <1>4, <1>5, NameKept DEF Strong, Opens, Opening, FilesStay
<1>15. OwnerInv'
  BY <1>1, <1>2, <1>3, <1>4, <1>5, OwnerKept DEF Strong, Freeing, Opens, Idle
<1>16. ContentInv'
  BY <1>1, <1>2, <1>3, <1>4, <1>5, Nulls, <1>8, ContentKept
     DEF Strong, ListedInUse, ListInv, ListOf, TypeOK, Opens, Idle
<1>17. MapInv'
  BY <1>1, <1>2 DEF OthersStay, Strong, MapInv, New
<1> QED BY <1>9, <1>10, <1>11, <1>12, <1>13, <1>14, <1>15, <1>16, <1>17 DEF Strong

(* A load of a name that is not there ends the process. *)
LEMMA LoadNothingKeeps ==
  ASSUME TypeOK, LockInv, CallInv, ~ raced, Strong,
         NEW p \in Proc, NEW n \in Name, LoadNothing(p, n), panic' = panic
  PROVE  TypeOK' /\ LockInv' /\ CallInv' /\ (~ raced' => Strong')
<1>1. /\ disk_map' = disk_map /\ dir' = dir /\ content' = content /\ free_map' = free_map
      /\ inode' = inode /\ open_inodes' = open_inodes /\ fd_table' = fd_table
      /\ next_fd' = next_fd /\ running' = running /\ lost' = lost
      /\ filesys_lock' = filesys_lock
  BY DEF LoadNothing, disk, inodes, tables
<1>2. /\ pc[p] = "user" /\ pc' = [pc EXCEPT ![p] = "exit"] /\ at' = at
  BY DEF LoadNothing, Begin, Goto
<1>3. /\ at[p] = Idle /\ at[p].op = "none"
  BY <1>2, Nulls DEF TypeOK, CallInv, CallOf, Idle
<1>4. /\ pc'[p] = "exit" /\ OthersStay(p)
  BY <1>2 DEF TypeOK, OthersStay
<1>5. FilesStay
  BY <1>1 DEF FilesStay, InodesStay, SameFile
<1>6. TypeOK'
  <2>1. pc' \in [Proc -> Label]
    BY <1>2, <1>3 DEF TypeOK, Label
  <2>2. at' \in [Proc -> Locals]
    BY <1>2 DEF TypeOK
  <2> QED BY <2>1, FilesAssumption DEF TypeOK, LoadNothing, Begin, disk, inodes, tables, health
<1>7. LockInv'
  BY <1>1, <1>2 DEF LockInv, Holds, Without, Opening
<1>8. CallInv'
  <2> SUFFICES ASSUME NEW q \in Proc PROVE CallOf(q)'
    BY DEF CallInv
  <2>1. CASE q = p
    BY <1>2 DEF CallInv, CallOf, Closing
  <2>2. CASE q # p
    BY <1>4, <2>2 DEF OthersStay, CallInv, CallOf
  <2> QED BY <2>1, <2>2
<1> SUFFICES ASSUME ~ raced' PROVE Strong'
  BY <1>6, <1>7, <1>8
<1>9. ForkInv'
  BY <1>1, <1>2, <1>4, <1>6, ForkKept DEF Strong, Opens
<1>10. FileInv'
  BY <1>1, <1>2, <1>4, FileKept DEF Strong, Opens
<1>11. CountInv'
  <2> SUFFICES ASSUME NEW i \in Inode PROVE CountOf(i)'
    BY DEF CountInv
  <2>1. \A x \in Proc, k \in Place : Refers(x, k, i)' <=> Refers(x, k, i)
    BY <1>1, <1>2 DEF Refers, CountedDown, Transit, Releasing
  <2>2. \A x \in Proc : Denies(x, i)' <=> Denies(x, i)
    BY <1>1, <1>2 DEF OthersStay, Denies, CallInv, CallOf, Opens
  <2>3. CountOf(i)
    BY DEF Strong, CountInv
  <2> QED BY <1>1, <2>1, <2>2, <2>3, RefsKept, DeniersKept DEF CountOf, OpenCount, DenyCount
<1>12. CounterInv'
  BY <1>1, <1>2 DEF OthersStay, Strong, CounterInv, CounterOf, Counting
<1>13. ListInv'
  BY <1>1, <1>2 DEF Strong, ListInv, ListOf, Ends, Releasing, Opening
<1>14. NameInv'
  BY <1>4, <1>5, NameKept DEF Strong, Opens, Opening, FilesStay
<1>15. OwnerInv'
  BY <1>1, <1>2, <1>3, <1>4, <1>5, OwnerKept DEF Strong, Freeing, Opens, Idle
<1>16. ContentInv'
  BY <1>1, <1>2, <1>3, <1>4, <1>5, Nulls, <1>8, ContentKept
     DEF Strong, ListedInUse, ListInv, ListOf, TypeOK, Opens, Idle
<1>17. MapInv'
  BY <1>1, <1>2 DEF OthersStay, Strong, MapInv, New
<1> QED BY <1>9, <1>10, <1>11, <1>12, <1>13, <1>14, <1>15, <1>16, <1>17 DEF Strong

(* load lets go of the lock with the file in hand. *)
LEMMA LoadOpenedKeeps ==
  ASSUME TypeOK, LockInv, CallInv, ~ raced, Strong, NEW p \in Proc, LoadOpened(p), panic' = panic
  PROVE  TypeOK' /\ LockInv' /\ CallInv' /\ (~ raced' => Strong')
<1>1. /\ disk_map' = disk_map /\ dir' = dir /\ content' = content /\ free_map' = free_map
      /\ inode' = inode /\ open_inodes' = open_inodes /\ fd_table' = fd_table
      /\ next_fd' = next_fd /\ running' = running /\ lost' = lost
  BY DEF LoadOpened, disk, inodes, tables
<1>2. /\ pc[p] = "opened" /\ pc' = [pc EXCEPT ![p] = "header"] /\ at' = at
      /\ at[p].op = "load" /\ filesys_lock' = NULL
  BY DEF LoadOpened, At, Goto, Me
<1>3. /\ filesys_lock = p
  BY <1>2, Nulls DEF LockInv, Holds, Opening
<1>4. /\ pc'[p] = "header" /\ OthersStay(p)
  BY <1>2 DEF TypeOK, OthersStay
<1>5. FilesStay
  BY <1>1 DEF FilesStay, InodesStay, SameFile
<1>6. TypeOK'
  <2>1. pc' \in [Proc -> Label]
    BY <1>2, <1>3 DEF TypeOK, Label
  <2>2. at' \in [Proc -> Locals]
    BY <1>2 DEF TypeOK
  <2>3. filesys_lock' \in Proc \cup {NULL}
    BY DEF LoadOpened
  <2> QED BY <2>1 DEF TypeOK, LoadOpened, At, disk, inodes, tables, health
<1>7. LockInv'
  BY <1>2, Nulls DEF LockInv, Holds, Opening, TypeOK
<1>8. CallInv'
  <2> SUFFICES ASSUME NEW q \in Proc PROVE CallOf(q)'
    BY DEF CallInv
  <2>1. CASE q = p
    BY <1>2 DEF CallInv, CallOf, Closing
  <2>2. CASE q # p
    BY <1>4, <2>2 DEF OthersStay, CallInv, CallOf
  <2> QED BY <2>1, <2>2
<1> SUFFICES ASSUME ~ raced' PROVE Strong'
  BY <1>6, <1>7, <1>8
<1>9. ForkInv'
  BY <1>1, <1>2, <1>4, <1>6, ForkKept DEF Strong, Opens
<1>10. FileInv'
  BY <1>1, <1>2, <1>4, FileKept DEF Strong, Opens
<1>11. CountInv'
  <2> SUFFICES ASSUME NEW i \in Inode PROVE CountOf(i)'
    BY DEF CountInv
  <2>1. \A x \in Proc, k \in Place : Refers(x, k, i)' <=> Refers(x, k, i)
    BY <1>1, <1>2 DEF Refers, CountedDown, Transit
  <2>2. \A x \in Proc : Denies(x, i)' <=> Denies(x, i)
    BY <1>1, <1>2 DEF OthersStay, Denies, CallInv, CallOf, Opens
  <2>3. CountOf(i)
    BY DEF Strong, CountInv
  <2> QED BY <1>1, <2>1, <2>2, <2>3, RefsKept, DeniersKept DEF CountOf, OpenCount, DenyCount
<1>12. CounterInv'
  BY <1>1, <1>2 DEF OthersStay, Strong, CounterInv, CounterOf, Counting
<1>13. ListInv'
  BY <1>1, <1>2 DEF Strong, ListInv, ListOf, Ends, Releasing, Opening
<1>14. NameInv'
  BY <1>4, <1>5, NameKept DEF Strong, Opens, Opening, FilesStay
<1>15. OwnerInv'
  BY <1>1, <1>2, <1>4, <1>5, OwnerKept DEF Strong, Freeing, Opens, Idle
<1>16. ContentInv'
  BY <1>1, <1>2, <1>4, <1>5, Nulls, <1>8, ContentKept
     DEF Strong, ListedInUse, ListInv, ListOf, TypeOK, Opens
<1>17. MapInv'
  BY <1>1, <1>2 DEF OthersStay, Strong, MapInv, New
<1> QED BY <1>9, <1>10, <1>11, <1>12, <1>13, <1>14, <1>15, <1>16, <1>17 DEF Strong

(* The lock is given back at the end of a call. *)
LEMMA UnlockKeeps ==
  ASSUME TypeOK, LockInv, CallInv, ~ raced, Strong, NEW p \in Proc, Unlock(p), panic' = panic
  PROVE  TypeOK' /\ LockInv' /\ CallInv' /\ (~ raced' => Strong')
<1>1. /\ disk_map' = disk_map /\ dir' = dir /\ content' = content /\ free_map' = free_map
      /\ inode' = inode /\ open_inodes' = open_inodes /\ fd_table' = fd_table
      /\ next_fd' = next_fd /\ running' = running /\ lost' = lost
  BY DEF Unlock, disk, inodes, tables
<1>2. /\ pc[p] = "unlock" /\ pc' = [pc EXCEPT ![p] = "user"] /\ at' = [at EXCEPT ![p] = Idle]
      /\ filesys_lock' = NULL
  BY DEF Unlock, At, Goto, Local, Leave
<1>3. /\ at[p].op \in {"none", "create"} /\ at[p].i = NULL /\ filesys_lock = p
  BY <1>2, Nulls DEF CallInv, CallOf, LockInv, Holds
<1>4. at[p] \in Locals
  BY DEF TypeOK
<1>5. Idle \in Locals
  BY IdleIsLocal DEF Locals
<1>6. /\ pc'[p] = "user" /\ at'[p] = Idle /\ at'[p].op = "none" /\ at'[p].name = NULL
      /\ at'[p].sector = 0 /\ at'[p].i = NULL /\ at'[p].num = 0 /\ at'[p].snap = {}
      /\ at'[p].new = {} /\ at'[p].fd = 0 /\ at'[p].next = "user" /\ OthersStay(p)
  BY <1>2, <1>4, <1>5 DEF TypeOK, Locals, OthersStay, Idle
<1>7. FilesStay
  BY <1>1 DEF FilesStay, InodesStay, SameFile
<1>8. TypeOK'
  <2>1. pc' \in [Proc -> Label]
    BY <1>2, <1>3 DEF TypeOK, Label
  <2>2. at' \in [Proc -> Locals]
    BY <1>2, <1>5 DEF TypeOK
  <2>3. filesys_lock' \in Proc \cup {NULL}
    BY DEF Unlock
  <2> QED BY <2>1, <2>2 DEF TypeOK, Unlock, At, disk, inodes, tables, health
<1>9. LockInv'
  BY <1>2, <1>6, Nulls DEF LockInv, Holds
<1>10. CallInv'
  <2> SUFFICES ASSUME NEW q \in Proc PROVE CallOf(q)'
    BY DEF CallInv
  <2>1. CASE q = p
    BY <1>2 DEF CallInv, CallOf, Opens, Closing, Idle, TypeOK
  <2>2. CASE q # p
    BY <1>6, <2>2 DEF OthersStay, CallInv, CallOf
  <2> QED BY <2>1, <2>2
<1> SUFFICES ASSUME ~ raced' PROVE Strong'
  BY <1>8, <1>9, <1>10
<1>11. ForkInv'
  BY <1>1, <1>2, <1>3, <1>6, <1>8, ForkKept DEF Strong, Opens
<1>12. FileInv'
  BY <1>1, <1>6, FileKept DEF Strong, Opens
<1>13. CountInv'
  <2> SUFFICES ASSUME NEW i \in Inode PROVE CountOf(i)'
    BY DEF CountInv
  <2>1. \A x \in Proc, k \in Place : Refers(x, k, i)' <=> Refers(x, k, i)
    BY <1>1, <1>2 DEF Refers, CountedDown, Transit, Releasing
  <2>2. \A x \in Proc : Denies(x, i)' <=> Denies(x, i)
    BY <1>1, <1>2, <1>6 DEF OthersStay, Denies, CallInv, CallOf, Opens
  <2>3. CountOf(i)
    BY DEF Strong, CountInv
  <2> QED BY <1>1, <2>1, <2>2, <2>3, RefsKept, DeniersKept DEF CountOf, OpenCount, DenyCount
<1>14. CounterInv'
  BY <1>1, <1>2 DEF OthersStay, Strong, CounterInv, CounterOf, Counting
<1>15. ListInv'
  BY <1>1, <1>2 DEF Strong, ListInv, ListOf, Ends, Releasing, Opening
<1>16. NameInv'
  BY <1>6, <1>7, NameKept DEF Strong, Opens, Opening, FilesStay
<1>17. OwnerInv'
  BY <1>1, <1>2, <1>6
     DEF Strong, OwnerInv, OwnerOf, EntryHas, InodeHas, SectorGone, DataGone, CreateHas,
         WithData, New, Storage
<1>18. ContentInv'
  BY <1>1, <1>2 DEF Strong, ContentInv, HeaderAt, WithData, New
<1>19. MapInv'
  BY <1>1, <1>2 DEF OthersStay, Strong, MapInv, New
<1> QED BY <1>11, <1>12, <1>13, <1>14, <1>15, <1>16, <1>17, <1>18, <1>19 DEF Strong

(* inode_open finds the inode on the list; being named, it is not removed. *)
LEMMA OpenFoundKeeps ==
  ASSUME TypeOK, LockInv, CallInv, ~ raced, Strong,
         NEW p \in Proc, NEW n \in Name, NEW op \in Opens, NEW e \in Entry,
         NEW j \in open_inodes, OpenFound(p, n, op, e, j), panic' = panic
  PROVE  TypeOK' /\ LockInv' /\ CallInv' /\ (~ raced' => Strong')
<1>1. /\ disk_map' = disk_map /\ dir' = dir /\ content' = content /\ free_map' = free_map
      /\ inode' = inode /\ open_inodes' = open_inodes /\ fd_table' = fd_table
      /\ next_fd' = next_fd /\ running' = running /\ lost' = lost
  BY DEF OpenFound, disk, inodes, tables, OpenAs
<1>2. /\ pc[p] = "user" /\ pc' = [pc EXCEPT ![p] = "get_open"]
      /\ at' = [at EXCEPT ![p] = [Idle EXCEPT !.op = op, !.name = n, !.sector = dir[e].sector,
           !.i = j]]
      /\ filesys_lock = NULL /\ filesys_lock' = p /\ dir[e] # NULL /\ dir[e].name = n
      /\ inode[j].sector = dir[e].sector
  BY DEF OpenFound, Begin, Goto, Local, OpenAs
<1>3. /\ at[p] = Idle /\ at[p].op = "none" /\ at[p].i = NULL /\ op \in Op
      /\ dir[e].sector \in Sector /\ j \in Inode /\ inode[j] \in Struct
  BY <1>2, Nulls DEF TypeOK, CallInv, CallOf, Opens, Strong, DirEntry, Op, ListInv, ListOf, Idle
<1>4. at[p] \in Locals
  BY DEF TypeOK
<1>5. [Idle EXCEPT !.op = op, !.name = n, !.sector = dir[e].sector, !.i = j] \in Locals
  BY <1>2, <1>3, <1>4, IdleIsLocal, Nulls DEF Locals
<1>6. /\ pc'[p] = "get_open" /\ at'[p].op = op /\ at'[p].name = n
      /\ at'[p].sector = dir[e].sector /\ at'[p].i = j /\ at'[p].num = 0 /\ at'[p].snap = {}
      /\ at'[p].new = {} /\ at'[p].fd = 0 /\ at'[p].next = "user" /\ OthersStay(p)
  BY <1>2, <1>4, <1>5 DEF TypeOK, Locals, OthersStay, Idle
<1>7. \A q \in Proc : q # p => at[q].op # "create" /\ ~ (at[q].op \in Opens /\ pc[q] \in Opening)
  BY <1>2, Nulls DEF LockInv, Holds, Opens
<1>8. ~ inode[j].removed
  <2>1. EntryHas(e, inode[j].sector)
    BY <1>2 DEF EntryHas, Storage
  <2>2. inode[j].removed => InodeHas(j, inode[j].sector)
    BY <1>3 DEF InodeHas, SectorGone, Strong, ListInv, ListOf, Ends, Releasing
  <2> QED BY <1>3, <2>1, <2>2 DEF Strong, OwnerInv, OwnerOf, Struct
<1>9. FilesStay
  BY <1>1 DEF FilesStay, InodesStay, SameFile
<1>10. TypeOK'
  <2>1. pc' \in [Proc -> Label]
    BY <1>2, <1>3 DEF TypeOK, Label
  <2>2. at' \in [Proc -> Locals]
    BY <1>2, <1>5 DEF TypeOK
  <2>3. filesys_lock' \in Proc \cup {NULL}
    BY DEF OpenFound, OpenAs
  <2> QED BY <2>1, <2>2, FilesAssumption
             DEF TypeOK, OpenFound, Begin, disk, inodes, tables, OpenAs
<1>11. LockInv'
  BY <1>2, Nulls DEF LockInv, Holds, Without, Opens, TypeOK
<1>12. CallInv'
  <2> SUFFICES ASSUME NEW q \in Proc PROVE CallOf(q)'
    BY DEF CallInv
  <2>1. CASE q = p
    BY <1>2, <1>3, <2>1 DEF CallOf, Opens, Closing, Idle, TypeOK
  <2>2. CASE q # p
    BY <1>6, <2>2 DEF OthersStay, CallInv, CallOf
  <2> QED BY <2>1, <2>2
<1> SUFFICES ASSUME ~ raced' PROVE Strong'
  BY <1>10, <1>11, <1>12
<1>13. \A q \in Proc : q # p => ~ Counting(q, j)
  BY <1>1, <1>2, <1>3, <1>4, <1>5, <1>6, <1>7, <1>8, <1>9, Nulls DEF OpenFound, Meets
<1>14. ForkInv'
  BY <1>1, <1>2, <1>3, <1>6, <1>10, ForkKept DEF Strong, Opens
<1>15. FileInv'
  BY <1>1, <1>6, FileKept DEF Strong, Opens
<1>16. CountInv'
  <2> SUFFICES ASSUME NEW i \in Inode PROVE CountOf(i)'
    BY DEF CountInv
  <2>1. \A x \in Proc, k \in Place : Refers(x, k, i)' <=> Refers(x, k, i)
    BY <1>1, <1>2 DEF Refers, CountedDown, Transit, Releasing
  <2>2. \A x \in Proc : Denies(x, i)' <=> Denies(x, i)
    BY <1>1, <1>2, <1>3 DEF OthersStay, Denies, CallInv, CallOf, Opens
  <2>3. CountOf(i)
    BY DEF Strong, CountInv
  <2> QED BY <1>1, <2>1, <2>2, <2>3, RefsKept, DeniersKept DEF CountOf, OpenCount, DenyCount
<1>17. CounterInv'
  BY <1>1, <1>2, <1>3, <1>13 DEF OthersStay, Strong, CounterInv, CounterOf, Counting
<1>18. ListInv'
  BY <1>1, <1>2, <1>3 DEF Strong, ListInv, ListOf, Ends, Releasing, Opens
<1>19. NameInv'
  <2>1. OpenedOf(p)'
    BY <1>1, <1>2, <1>6, <1>8 DEF OpenedOf, Lookup
  <2>2. \A q \in Proc : q # p => OpenedOf(q)'
    BY <1>2, <1>7 DEF OpenedOf, OthersStay
  <2> QED BY <1>1, <2>1, <2>2 DEF Strong, NameInv
<1>20. OwnerInv'
  BY <1>1, <1>2, <1>3, <1>6, <1>9, OwnerKept DEF Strong, Freeing, Opens, Idle
<1>21. ContentInv'
  BY <1>1, <1>2, <1>3, <1>4, <1>5, <1>6, <1>7, <1>8, <1>9, <1>13, Nulls, <1>12, ContentKept
     DEF Strong, ListedInUse, ListInv, ListOf, TypeOK, Opens, Idle
<1>22. MapInv'
  BY <1>1, <1>2 DEF OthersStay, Strong, MapInv, New
<1> QED BY <1>14, <1>15, <1>16, <1>17, <1>18, <1>19, <1>20, <1>21, <1>22 DEF Strong

(* inode_open puts a new inode on the list, the only one with its sector. *)
LEMMA OpenNewKeeps ==
  ASSUME TypeOK, LockInv, CallInv, ~ raced, Strong,
         NEW p \in Proc, NEW n \in Name, NEW op \in Opens, NEW e \in Entry, NEW i \in Inode,
         OpenNew(p, n, op, e, i), panic' = panic
  PROVE  TypeOK' /\ LockInv' /\ CallInv' /\ (~ raced' => Strong')
<1>1. /\ disk_map' = disk_map /\ dir' = dir /\ content' = content /\ free_map' = free_map
      /\ fd_table' = fd_table /\ next_fd' = next_fd /\ running' = running /\ lost' = lost
  BY DEF OpenNew, disk, tables, OpenAs
<1>2. /\ pc[p] = "user" /\ pc' = [pc EXCEPT ![p] = "read_inode"]
      /\ at' = [at EXCEPT ![p] = [Idle EXCEPT !.op = op, !.name = n, !.sector = dir[e].sector,
           !.i = i]]
      /\ filesys_lock = NULL /\ filesys_lock' = p /\ dir[e] # NULL /\ dir[e].name = n
      /\ \A j \in open_inodes : inode[j].sector # dir[e].sector
      /\ inode[i] = NULL
      /\ inode' = [inode EXCEPT ![i] = [sector |-> dir[e].sector, removed |-> FALSE,
           data |-> NULL, count |-> [open |-> 1, deny |-> 0]]]
      /\ open_inodes' = open_inodes \cup {i}
  BY DEF OpenNew, Begin, Goto, Local, OpenAs
<1>3. /\ at[p] = Idle /\ at[p].op = "none" /\ at[p].i = NULL /\ op \in Op
      /\ dir[e].sector \in Sector /\ i \notin open_inodes
  BY <1>2, Nulls DEF TypeOK, CallInv, CallOf, Opens, Strong, DirEntry, Op, ListInv, ListOf, Idle
<1>4. at[p] \in Locals
  BY DEF TypeOK
<1>5. [Idle EXCEPT !.op = op, !.name = n, !.sector = dir[e].sector, !.i = i] \in Locals
  BY <1>2, <1>3, <1>4, IdleIsLocal, Nulls DEF Locals
<1>6. /\ pc'[p] = "read_inode" /\ at'[p].op = op /\ at'[p].name = n
      /\ at'[p].sector = dir[e].sector /\ at'[p].i = i /\ at'[p].num = 0 /\ at'[p].snap = {}
      /\ at'[p].new = {} /\ at'[p].fd = 0 /\ at'[p].next = "user" /\ OthersStay(p)
  BY <1>2, <1>4, <1>5 DEF TypeOK, Locals, OthersStay, Idle
<1>7. \A q \in Proc : q # p => at[q].op # "create" /\ ~ (at[q].op \in Opens /\ pc[q] \in Opening)
  BY <1>2, Nulls DEF LockInv, Holds, Opens
<1>8. inode'[i] = [sector |-> dir[e].sector, removed |-> FALSE, data |-> NULL,
        count |-> [open |-> 1, deny |-> 0]]
  BY <1>2 DEF TypeOK
<1>9. inode'[i] \in Struct /\ inode'[i] # NULL
  <2>1. [open |-> 1, deny |-> 0] \in [{"open", "deny"} -> Int]
    OBVIOUS
  <2>2. inode'[i] \in Struct
    BY <1>3, <1>8, <2>1 DEF Struct
  <2> QED BY <2>2, Nulls
<1>10. \A j \in Inode : j # i => inode'[j] = inode[j]
  BY <1>2 DEF TypeOK
<1>11. \A q \in Proc : at[q].i = i => pc[q] \notin Releasing \cup {"test", "unlist"}
  BY <1>2 DEF Strong, ListInv, ListOf, Ends
<1>12. \A q \in Proc : at[q].i = i =>
         pc[q] \notin {"get_open", "put_open", "get_close", "put_close", "get_deny", "put_deny",
           "get_allow", "put_allow"}
  BY <1>3, WorksOnOpen
<1>13. OpenCount(i) = 0
  BY <1>2 DEF OpenCount
<1>14. TypeOK'
  <2>1. pc' \in [Proc -> Label]
    BY <1>2, <1>3 DEF TypeOK, Label
  <2>2. at' \in [Proc -> Locals]
    BY <1>2, <1>5 DEF TypeOK
  <2>3. filesys_lock' \in Proc \cup {NULL}
    BY DEF OpenNew, OpenAs
  <2>4. inode' \in [Inode -> Struct \cup {NULL}]
    BY <1>2, <1>9 DEF TypeOK
  <2>5. open_inodes' \subseteq Inode
    BY <1>2 DEF TypeOK
  <2> QED BY <2>1, <2>2, <2>4, FilesAssumption DEF TypeOK, OpenNew, Begin, disk, tables, OpenAs
<1>15. LockInv'
  BY <1>2, Nulls DEF LockInv, Holds, Without, Opens, TypeOK
<1>16. CallInv'
  <2> SUFFICES ASSUME NEW q \in Proc PROVE CallOf(q)'
    BY DEF CallInv
  <2>1. CASE q = p
    BY <1>2, <1>3, <2>1 DEF CallOf, Opens, Closing, Idle, TypeOK
  <2>2. CASE q # p
    BY <1>6, <2>2 DEF OthersStay, CallInv, CallOf
  <2> QED BY <2>1, <2>2
<1> SUFFICES ASSUME ~ raced' PROVE Strong'
  BY <1>14, <1>15, <1>16
<1>17. ForkInv'
  BY <1>1, <1>2, <1>3, <1>6, <1>14, ForkKept DEF Strong, Opens
<1>18. FileInv'
  BY <1>1, <1>6, FileKept DEF Strong, Opens
<1>19. CountInv'
  <2> SUFFICES ASSUME NEW j \in Inode PROVE CountOf(j)'
    BY DEF CountInv
  <2>1. CountOf(j)
    BY DEF Strong, CountInv
  <2>2. \A x \in Proc : Denies(x, j)' <=> Denies(x, j)
    BY <1>1, <1>2, <1>3 DEF OthersStay, Denies, Opens
  <2>3. Cardinality(Deniers(j)') = Cardinality(Deniers(j))
    BY <2>2, DeniersKept
  <2>4. CASE j = i
    <3>1. \A x \in Proc, k \in Place : ~ Refers(x, k, i)
      BY <1>13, NobodyReferred
    <3>2. Refers(p, 1, i)' /\ 1 \in Place
      BY <1>6 DEF Refers, Transit, Place
    <3>3. \A x \in Proc, l \in Place : << x, l >> # << p, 1 >> => (Refers(x, l, i)' <=>
            Refers(x, l, i))
      BY <1>1, <1>2 DEF Refers, CountedDown, Transit, Releasing
    <3>4. Cardinality(Refs(i)') = Cardinality(Refs(i)) + 1
      BY <3>1, <3>2, <3>3, RefsGrow
    <3>5. OpenCount(i)' = 1 /\ DenyCount(i)' = 0
      BY <1>2, <1>9 DEF OpenCount, DenyCount
    <3>6. Cardinality(Refs(i)) = 0 /\ Cardinality(Deniers(i)) = 0 /\ lost[i].refs = 0 /\
            lost[i].denies = 0
      BY <1>13, NobodyReferred
    <3> QED BY <1>1, <2>3, <2>4, <3>4, <3>5, <3>6 DEF CountOf
  <2>5. CASE j # i
    <3>1. \A x \in Proc, k \in Place : Refers(x, k, j)' <=> Refers(x, k, j)
      BY <1>1, <1>2, <1>6, <2>5 DEF Refers, CountedDown, Transit, Releasing
    <3>2. OpenCount(j)' = OpenCount(j) /\ DenyCount(j)' = DenyCount(j)
      BY <1>2, <2>5 DEF OpenCount, DenyCount
    <3> QED BY <1>1, <2>1, <2>3, <3>1, <3>2, RefsKept DEF CountOf
  <2> QED BY <2>4, <2>5
<1>20. CounterInv'
  BY <1>2, <1>12 DEF OthersStay, Strong, CounterInv, CounterOf, Counting
<1>21. ListInv'
  BY <1>2, <1>6, <1>9 DEF Strong, ListInv, ListOf, Ends, Releasing
<1>22. NameInv'
  <2>1. OpenedOf(p)'
    BY <1>1, <1>2, <1>6, <1>8 DEF OpenedOf, Lookup
  <2>2. \A q \in Proc : q # p => OpenedOf(q)'
    BY <1>2, <1>7 DEF OpenedOf, OthersStay
  <2>3. (\A j \in open_inodes : ~ inode[j].removed =>
          \E f \in Entry : dir[f] # NULL /\ dir[f].sector = inode[j].sector)'
    BY <1>1, <1>2 DEF Strong, NameInv, TypeOK
  <2> QED BY <1>1, <1>2, <1>8, <2>1, <2>2 DEF Strong, NameInv
<1>23. OwnerInv'
  <2> SUFFICES ASSUME NEW s \in Sector
               PROVE  \/ NoOwner(s)'
                      \/ /\ \A x \in Entry : EntryHas(x, s)' => EntryHas(x, s)
                         /\ \A y \in Inode : InodeHas(y, s)' => InodeHas(y, s)
                         /\ (CreateHas(p, s)' => CreateHas(p, s)) \/ NoOwner(s)
                         /\ CreateHas(p, s)' \/ s \in free_map => s \in free_map'
    BY <1>6, OwnerStep DEF Strong
  <2>2. \A x \in Entry : EntryHas(x, s)' <=> EntryHas(x, s)
    BY <1>1, EntriesKept
  <2>1. \A j \in Inode : j # i => (InodeHas(j, s)' <=> InodeHas(j, s))
    BY <1>1, <1>2, <1>3, <1>4, <1>5, <1>6, <1>7, <1>8, <1>9, <1>10, <1>11, <1>12, <1>13, Nulls,
       RemovedKept
       DEF SameFile, Freeing
  <2>3. ~ InodeHas(i, s)'
    BY <1>2 DEF InodeHas
  <2>4. CreateHas(p, s)' <=> CreateHas(p, s)
    BY <1>3, <1>6, CreatesKept DEF Opens
  <2>6. CreateHas(p, s) => s \in free_map
    BY DEF Strong, OwnerInv, OwnerOf
  <2> QED BY <1>1, <2>1, <2>2, <2>3, <2>4, <2>6
<1>24. ContentInv'
  <2>1. \A q \in Proc : WithData(q)' <=> WithData(q)
    BY <1>2 DEF WithData, OthersStay, Opens
  <2>2. \A q \in Proc : q = p \/ (pc'[q] = pc[q] /\ at'[q] = at[q])
    BY <1>2 DEF OthersStay
  <2>3. (\A j \in open_inodes : inode[j].data # NULL =>
          content[inode[j].sector] = inode[j].data /\ HeaderAt(inode[j].sector))'
    BY <1>1, <1>2, <1>3, <1>4, <1>9, <1>11, <1>12, Nulls
       DEF Strong, ContentInv, HeaderAt, Data, TypeOK
  <2>4. (\A j \in Inode : inode[j] # NULL /\ inode[j].data # NULL =>
          /\ inode[j].data \in Header /\ inode[j].sector \notin Data(inode[j].data) /\
               Data(inode[j].data) \subseteq Sector)'
    BY <1>2 DEF Strong, ContentInv, Data
  <2>5. (\A f \in Entry : dir[f] # NULL => HeaderAt(dir[f].sector))'
    BY <1>1 DEF Strong, ContentInv, HeaderAt, Data
  <2> QED BY <1>1, <1>2, <2>3, <2>5 DEF Strong, ContentInv, WithData, New
<1>25. MapInv'
  BY <1>1, <1>2 DEF OthersStay, Strong, MapInv, New
<1> QED BY <1>17, <1>18, <1>19, <1>20, <1>21, <1>22, <1>23, <1>24, <1>25 DEF Strong

(* The free map is written to the disk as it is, since nobody changed it   *)
(* meanwhile.                                                              *)
LEMMA MapWrittenKeeps ==
  ASSUME TypeOK, LockInv, CallInv, ~ raced, Strong,
         NEW p \in Proc, WriteMap(p), panic' = panic, faults' = faults
  PROVE  TypeOK' /\ LockInv' /\ CallInv' /\ (~ raced' => Strong')
<1>1. /\ dir' = dir /\ content' = content /\ free_map' = free_map /\ inode' = inode
      /\ open_inodes' = open_inodes /\ fd_table' = fd_table /\ next_fd' = next_fd
      /\ running' = running /\ lost' = lost /\ filesys_lock' = filesys_lock
  BY Nulls DEF WriteMap, inodes, tables, NoMemory, TypeOK
<1>2. /\ pc[p] = "write_map" /\ pc' = [pc EXCEPT ![p] = at[p].next]
      /\ at' = [at EXCEPT ![p] = [at[p] EXCEPT !.snap = {}, !.next = "user"]]
      /\ disk_map' \in {at[p].snap, free_map}
  BY Nulls DEF WriteMap, At, Goto, Local, Me, NoMemory, TypeOK
<1>3. /\ at[p].next \in {"create_inode", "write_header", "unlock", "release_data", "free"}
      /\ at[p].op \in {"create", "open", "remove", "close", "exit"}
      /\ at[p].op = "create" <=> at[p].next \in {"create_inode", "write_header", "unlock"}
      /\ free_map \subseteq Sector
  BY <1>2, Nulls DEF TypeOK, CallInv, CallOf
<1>4. at[p] \in Locals
  BY DEF TypeOK
<1>5. [at[p] EXCEPT !.snap = {}, !.next = "user"] \in Locals
  BY <1>2, <1>3, <1>4, Nulls DEF Locals, Label
<1>6. /\ pc'[p] = at[p].next /\ at'[p].op = at[p].op /\ at'[p].name = at[p].name
      /\ at'[p].sector = at[p].sector /\ at'[p].i = at[p].i /\ at'[p].num = at[p].num
      /\ at'[p].snap = {} /\ at'[p].new = at[p].new /\ at'[p].fd = at[p].fd
      /\ at'[p].next = "user" /\ OthersStay(p)
  BY <1>2, <1>4, <1>5 DEF TypeOK, Locals, OthersStay, Idle
<1>7. at[p].op # "create" => at[p].i \in Inode
  BY <1>2 DEF CallInv, CallOf
<1>8. at[p].op = "create" => at[p].i = NULL
  BY DEF CallInv, CallOf
<1>9. FilesStay
  BY <1>1 DEF FilesStay, InodesStay, SameFile
<1>10. TypeOK'
  <2>1. pc' \in [Proc -> Label]
    BY <1>2, <1>3 DEF TypeOK, Label
  <2>2. at' \in [Proc -> Locals]
    BY <1>2, <1>5 DEF TypeOK
  <2>3. disk_map' \subseteq Sector
    BY <1>2 DEF TypeOK, Locals
  <2> QED BY <2>1, <2>2, <2>3 DEF TypeOK, WriteMap, At, inodes, tables
<1>11. LockInv'
  BY <1>1, <1>2 DEF LockInv, Holds, Without, CallInv, CallOf
<1>12. CallInv'
  <2> SUFFICES ASSUME NEW q \in Proc PROVE CallOf(q)'
    BY DEF CallInv
  <2>1. CASE q = p
    BY <1>2, <2>1 DEF CallInv, CallOf, Closing, TypeOK
  <2>2. CASE q # p
    BY <1>6, <2>2 DEF OthersStay, CallInv, CallOf
  <2> QED BY <2>1, <2>2
<1> SUFFICES ASSUME ~ raced' PROVE Strong'
  BY <1>10, <1>11, <1>12
<1>13. disk_map' = free_map
  BY <1>1, <1>2, <1>3, <1>4, <1>5, <1>6, <1>7, <1>8, <1>9, Nulls DEF WriteMap, Me
<1>14. ForkInv'
  BY <1>1, <1>2, <1>3, <1>6, <1>10, ForkKept DEF Strong, Opens
<1>15. FileInv'
  BY <1>1, <1>3, <1>6, FileKept DEF Strong, Opens
<1>16. CountInv'
  <2> SUFFICES ASSUME NEW i \in Inode PROVE CountOf(i)'
    BY DEF CountInv
  <2>1. \A x \in Proc, k \in Place : Refers(x, k, i)' <=> Refers(x, k, i)
    BY <1>1, <1>2 DEF Refers, CountedDown, Transit, Releasing, CallInv, CallOf
  <2>2. \A x \in Proc : Denies(x, i)' <=> Denies(x, i)
    BY <1>1, <1>2 DEF OthersStay, Denies, CallInv, CallOf, Opens
  <2>3. CountOf(i)
    BY DEF Strong, CountInv
  <2> QED BY <1>1, <2>1, <2>2, <2>3, RefsKept, DeniersKept DEF CountOf, OpenCount, DenyCount
<1>17. CounterInv'
  BY <1>1, <1>2, <1>3 DEF OthersStay, Strong, CounterInv, CounterOf, Counting
<1>18. ListInv'
  BY <1>1, <1>2, <1>3, <1>8, Nulls DEF Strong, ListInv, ListOf, Ends, Releasing, Opening
<1>19. NameInv'
  BY <1>3, <1>6, <1>9, NameKept DEF Strong, Opens, Opening, FilesStay
<1>20. OwnerInv'
  <2> SUFFICES ASSUME NEW s \in Sector
               PROVE  \/ NoOwner(s)'
                      \/ /\ \A x \in Entry : EntryHas(x, s)' => EntryHas(x, s)
                         /\ \A y \in Inode : InodeHas(y, s)' => InodeHas(y, s)
                         /\ (CreateHas(p, s)' => CreateHas(p, s)) \/ NoOwner(s)
                         /\ CreateHas(p, s)' \/ s \in free_map => s \in free_map'
    BY <1>6, OwnerStep DEF Strong
  <2>1. \A i \in Inode : InodeHas(i, s)' <=> InodeHas(i, s)
    <3> SUFFICES ASSUME NEW i \in Inode PROVE InodeHas(i, s)' <=> InodeHas(i, s)
      OBVIOUS
    <3>1. \A q \in Proc : SectorGone(q, i)' <=> SectorGone(q, i)
      BY <1>2, <1>3, <1>8, Nulls DEF SectorGone, OthersStay
    <3>2. \A q \in Proc : DataGone(q, i)' <=> DataGone(q, i)
      BY <1>2, <1>6 DEF DataGone, OthersStay
    <3> QED BY <1>1, <3>1, <3>2, RemovedSame DEF SameFile
  <2>2. \A x \in Entry : EntryHas(x, s)' <=> EntryHas(x, s)
    BY <1>1, EntriesKept
  <2>3. CreateHas(p, s)' => CreateHas(p, s)
    BY <1>2, <1>3, <1>6 DEF CreateHas, WithData, New
  <2>4. CreateHas(p, s) => s \in free_map
    BY DEF Strong, OwnerInv, OwnerOf
  <2> QED BY <1>1, <2>1, <2>2, <2>3, <2>4
<1>21. ContentInv'
  <2>1. WithData(p)' => WithData(p) /\ New(p)' = New(p)
    BY <1>2, <1>3 DEF WithData, New
  <2>2. WithData(p)' => /\ at'[p].sector \notin New(p)' /\ New(p)' \subseteq Sector
                       /\ at'[p].fd \in Sector \cup {0}
    BY <1>1, <1>2, <1>3, <1>4, <1>5, <1>6, <1>7, <1>8, <1>9, <1>13, Nulls, <2>1
       DEF Strong, ContentInv
  <2> QED BY <1>1, <1>2, <1>3, <1>4, <1>5, <1>6, <1>7, <1>8, <1>9, <1>13, Nulls, <2>2,
             ContentStep, <1>10
<1>22. MapInv'
  BY <1>1, <1>2, <1>6, <1>13 DEF OthersStay, Strong, MapInv, New
<1> QED BY <1>14, <1>15, <1>16, <1>17, <1>18, <1>19, <1>20, <1>21, <1>22 DEF Strong

(* The free map could not be written: what was allocated is free again. *)
LEMMA MapUnwrittenKeeps ==
  ASSUME TypeOK, LockInv, CallInv, ~ raced, Strong,
         NEW p \in Proc, WriteMap(p), panic' = panic, faults' # faults
  PROVE  TypeOK' /\ LockInv' /\ CallInv' /\ (~ raced' => Strong')
<1>1. /\ disk_map' = disk_map /\ dir' = dir /\ content' = content /\ inode' = inode
      /\ open_inodes' = open_inodes /\ fd_table' = fd_table /\ next_fd' = next_fd
      /\ running' = running /\ lost' = lost /\ filesys_lock' = filesys_lock
  BY Nulls DEF WriteMap, inodes, tables
<1>2. /\ pc[p] = "write_map"
      /\ pc' = [pc EXCEPT ![p] = (CASE at[p].next = "create_inode" -> "unlock" []
           at[p].next = "write_header" -> "undo_create" [] OTHER -> at[p].next)]
      /\ at' = [at EXCEPT ![p] = [at[p] EXCEPT !.snap = {}, !.next = "user"]]
      /\ free_map' = free_map \ at[p].new
  BY Nulls DEF WriteMap, At, Goto, Local, Me
<1>3. /\ at[p].next \in {"create_inode", "write_header", "unlock", "release_data", "free"}
      /\ at[p].op \in {"create", "open", "remove", "close", "exit"}
      /\ at[p].op = "create" <=> at[p].next \in {"create_inode", "write_header", "unlock"}
      /\ free_map \subseteq Sector
      /\ at[p].next = "create_inode" => at[p].new = {at[p].sector}
      /\ at[p].next = "write_header" => at[p].new = New(p)
      /\ at[p].next \notin {"create_inode", "write_header"} => at[p].new = {}
  BY <1>2, Nulls DEF TypeOK, CallInv, CallOf, Strong, MapInv
<1>4. at[p] \in Locals
  BY DEF TypeOK
<1>5. [at[p] EXCEPT !.snap = {}, !.next = "user"] \in Locals
  BY <1>2, <1>3, <1>4, Nulls DEF Locals, Label
<1>6. /\ pc'[p] = (CASE at[p].next = "create_inode" -> "unlock" []
           at[p].next = "write_header" -> "undo_create" [] OTHER -> at[p].next)
      /\ at'[p].op = at[p].op /\ at'[p].name = at[p].name /\ at'[p].sector = at[p].sector
      /\ at'[p].i = at[p].i /\ at'[p].num = at[p].num /\ at'[p].snap = {}
      /\ at'[p].new = at[p].new /\ at'[p].fd = at[p].fd /\ at'[p].next = "user"
      /\ OthersStay(p)
  BY <1>2, <1>4, <1>5 DEF TypeOK, Locals, OthersStay, Idle
<1>7. at[p].op # "create" => at[p].i \in Inode
  BY <1>2 DEF CallInv, CallOf
<1>8. at[p].op = "create" => at[p].i = NULL
  BY DEF CallInv, CallOf
<1>9. WithData(p) => at[p].sector \notin New(p)
  BY DEF Strong, ContentInv
<1>10. /\ pc'[p] \in {"unlock", "undo_create", "release_data", "free"}
      /\ at[p].op = "create" => pc'[p] \in {"unlock", "undo_create"}
  BY <1>2, <1>3
<1>11. FilesStay
  BY <1>1 DEF FilesStay, InodesStay, SameFile
<1>12. TypeOK'
  <2>1. pc' \in [Proc -> Label]
    BY <1>2, <1>3 DEF TypeOK, Label
  <2>2. at' \in [Proc -> Locals]
    BY <1>2, <1>5 DEF TypeOK
  <2>3. free_map' \subseteq Sector
    BY DEF TypeOK, WriteMap
  <2> QED BY <2>1, <2>2, FilesAssumption DEF TypeOK, WriteMap, At, inodes, tables, NoMemory
<1>13. LockInv'
  BY <1>1, <1>2 DEF LockInv, Holds, Without, Opening, CallInv, CallOf
<1>14. CallInv'
  <2> SUFFICES ASSUME NEW q \in Proc PROVE CallOf(q)'
    BY DEF CallInv
  <2>1. CASE q = p
    BY <1>2, <2>1 DEF CallInv, CallOf, Closing, TypeOK
  <2>2. CASE q # p
    BY <1>6, <2>2 DEF OthersStay, CallInv, CallOf
  <2> QED BY <2>1, <2>2
<1> SUFFICES ASSUME ~ raced' PROVE Strong'
  BY <1>12, <1>13, <1>14
<1>15. ForkInv'
  BY <1>1, <1>2, <1>3, <1>6, <1>12, ForkKept DEF Strong, Opens
<1>16. FileInv'
  BY <1>1, <1>3, <1>6, FileKept DEF Strong, Opens
<1>17. CountInv'
  <2> SUFFICES ASSUME NEW i \in Inode PROVE CountOf(i)'
    BY DEF CountInv
  <2>1. \A x \in Proc, k \in Place : Refers(x, k, i)' <=> Refers(x, k, i)
    BY <1>1, <1>2 DEF Refers, CountedDown, Transit, Releasing, CallInv, CallOf
  <2>2. \A x \in Proc : Denies(x, i)' <=> Denies(x, i)
    BY <1>1, <1>2 DEF OthersStay, Denies, CallInv, CallOf, Opens
  <2>3. CountOf(i)
    BY DEF Strong, CountInv
  <2> QED BY <1>1, <2>1, <2>2, <2>3, RefsKept, DeniersKept DEF CountOf, OpenCount, DenyCount
<1>18. CounterInv'
  BY <1>1, <1>2, <1>3 DEF OthersStay, Strong, CounterInv, CounterOf, Counting
<1>19. ListInv'
  BY <1>1, <1>2, <1>3, <1>8, Nulls DEF Strong, ListInv, ListOf, Ends, Releasing, Opening
<1>20. NameInv'
  BY <1>3, <1>6, <1>11, NameKept DEF Strong, Opens, Opening, FilesStay
<1>21. OwnerInv'
  <2> SUFFICES ASSUME NEW s \in Sector
               PROVE  \/ NoOwner(s)'
                      \/ /\ \A x \in Entry : EntryHas(x, s)' => EntryHas(x, s)
                         /\ \A y \in Inode : InodeHas(y, s)' => InodeHas(y, s)
                         /\ (CreateHas(p, s)' => CreateHas(p, s)) \/ NoOwner(s)
                         /\ CreateHas(p, s)' \/ s \in free_map => s \in free_map'
    BY <1>6, OwnerStep DEF Strong
  <2>1. \A i \in Inode : InodeHas(i, s)' <=> InodeHas(i, s)
    <3> SUFFICES ASSUME NEW i \in Inode PROVE InodeHas(i, s)' <=> InodeHas(i, s)
      OBVIOUS
    <3>1. \A q \in Proc : SectorGone(q, i)' <=> SectorGone(q, i)
      BY <1>2, <1>3, <1>8, Nulls DEF SectorGone, OthersStay
    <3>2. \A q \in Proc : DataGone(q, i)' <=> DataGone(q, i)
      BY <1>2, <1>6 DEF DataGone, OthersStay
    <3> QED BY <1>1, <3>1, <3>2, RemovedSame DEF SameFile
  <2>2. \A x \in Entry : EntryHas(x, s)' <=> EntryHas(x, s)
    BY <1>1, EntriesKept
  <2>3. CreateHas(p, s)' => CreateHas(p, s) /\ s \notin at[p].new
    BY <1>1, <1>2, <1>3, <1>4, <1>5, <1>6, <1>7, <1>8, <1>9, <1>10, <1>11, Nulls
       DEF CreateHas, WithData, New
  <2>4. CreateHas(p, s) => s \in free_map
    BY DEF Strong, OwnerInv, OwnerOf
  <2>5. CASE s \in at[p].new
    <3>1. CreateHas(p, s)
      BY <1>2, <1>3, <2>5 DEF CreateHas, WithData
    <3>2. \A q \in Proc : q # p => ~ CreateHas(q, s)'
      BY <1>2, OnlyCreator, <3>1 DEF CreateHas, OthersStay
    <3> QED BY <1>2, <2>1, <2>2, <2>3, <3>1, <3>2 DEF Strong, OwnerInv, OwnerOf, NoOwner
  <2>6. CASE s \notin at[p].new
    BY <1>2, <2>1, <2>2, <2>3, <2>4, <2>6
  <2> QED BY <2>5, <2>6
<1>22. ContentInv'
  <2>1. ~ WithData(p)'
    BY <1>3, <1>6 DEF WithData
  <2> QED BY <1>1, <1>2, <1>3, <1>4, <1>5, <1>6, <1>7, <1>8, <1>9, <1>10, <1>11, Nulls, <2>1,
             ContentStep, <1>12
<1>23. MapInv'
  BY <1>1, <1>2, <1>6 DEF OthersStay, Strong, MapInv, New
<1> QED BY <1>15, <1>16, <1>17, <1>18, <1>19, <1>20, <1>21, <1>22, <1>23 DEF Strong

(* inode_close of a removed file gives back the sector of the header,      *)
(* which was the inode's alone.                                            *)
LEMMA ReleaseInodeKeeps ==
  ASSUME TypeOK, LockInv, CallInv, ~ raced, Strong,
         NEW p \in Proc, ReleaseInode(p), panic' = panic
  PROVE  TypeOK' /\ LockInv' /\ CallInv' /\ (~ raced' => Strong')
<1>1. /\ disk_map' = disk_map /\ dir' = dir /\ content' = content /\ inode' = inode
      /\ open_inodes' = open_inodes /\ fd_table' = fd_table /\ next_fd' = next_fd
      /\ running' = running /\ lost' = lost /\ filesys_lock' = filesys_lock
  BY DEF ReleaseInode, disk, inodes, tables, Release, Panic
<1>2. /\ pc[p] = "release_inode" /\ pc' = [pc EXCEPT ![p] = "write_map"]
      /\ at' = [at EXCEPT ![p] = [at[p]
           EXCEPT !.snap = free_map \ {inode[at[p].i].sector},
                  !.new = {},
                  !.next = "release_data"]]
      /\ free_map' = free_map \ {inode[at[p].i].sector}
  BY DEF ReleaseInode, At, Runs, Goto, Local, Me, Release, Panic
<1>3. /\ free_map \subseteq Sector /\ at[p].op \in {"open", "remove", "close", "exit"}
      /\ at[p].i \in Inode
  BY <1>2, Nulls DEF TypeOK, CallInv, CallOf, Closing
<1>4. at[p] \in Locals
  BY DEF TypeOK
<1>5. [at[p] EXCEPT !.snap = free_map \ {inode[at[p].i].sector}, !.new = {},
        !.next = "release_data"] \in Locals
  BY <1>2, <1>3, <1>4, Nulls DEF Locals, Label
<1>6. /\ pc'[p] = "write_map" /\ at'[p].op = at[p].op /\ at'[p].name = at[p].name
      /\ at'[p].sector = at[p].sector /\ at'[p].i = at[p].i /\ at'[p].num = at[p].num
      /\ at'[p].snap = free_map \ {inode[at[p].i].sector} /\ at'[p].new = {}
      /\ at'[p].fd = at[p].fd /\ at'[p].next = "release_data" /\ OthersStay(p)
  BY <1>2, <1>4, <1>5 DEF TypeOK, Locals, OthersStay, Idle
<1>7. /\ inode[at[p].i] \in Struct /\ inode[at[p].i].removed /\ at[p].i \notin open_inodes
  BY <1>2, <1>3 DEF Strong, ListInv, ListOf, Ends, Releasing, TypeOK
<1>8. inode[at[p].i].data # NULL
  BY <1>2, <1>7, Nulls DEF Strong, ListInv, ListOf, Opening, CallInv, CallOf
<1>9. inode[at[p].i].sector \notin Data(inode[at[p].i].data)
  BY <1>3, <1>7, <1>8, Nulls DEF Strong, ContentInv
<1>10. FilesStay
  BY <1>1 DEF FilesStay, InodesStay, SameFile
<1>11. TypeOK'
  <2>1. pc' \in [Proc -> Label]
    BY <1>2, <1>3 DEF TypeOK, Label
  <2>2. at' \in [Proc -> Locals]
    BY <1>2, <1>5 DEF TypeOK
  <2>3. free_map' \subseteq Sector
    BY DEF TypeOK, ReleaseInode, Release, Panic
  <2> QED BY <2>1, <2>2 DEF TypeOK, ReleaseInode, At, disk, inodes, tables, health, Release, Panic
<1>12. LockInv'
  BY <1>1, <1>2 DEF LockInv, Holds, Without, Opening
<1>13. CallInv'
  <2> SUFFICES ASSUME NEW q \in Proc PROVE CallOf(q)'
    BY DEF CallInv
  <2>1. CASE q = p
    BY <1>2, <2>1 DEF CallInv, CallOf, Closing, TypeOK
  <2>2. CASE q # p
    BY <1>6, <2>2 DEF OthersStay, CallInv, CallOf
  <2> QED BY <2>1, <2>2
<1> SUFFICES ASSUME ~ raced' PROVE Strong'
  BY <1>11, <1>12, <1>13
<1>14. ForkInv'
  BY <1>1, <1>2, <1>6, <1>11, ForkKept DEF Strong, Opens
<1>15. FileInv'
  BY <1>1, <1>6, FileKept DEF Strong, Opens
<1>16. CountInv'
  <2> SUFFICES ASSUME NEW i \in Inode PROVE CountOf(i)'
    BY DEF CountInv
  <2>1. \A x \in Proc, k \in Place : Refers(x, k, i)' <=> Refers(x, k, i)
    BY <1>1, <1>2 DEF Refers, CountedDown, Transit, Releasing
  <2>2. \A x \in Proc : Denies(x, i)' <=> Denies(x, i)
    BY <1>1, <1>2 DEF OthersStay, Denies, CallInv, CallOf, Opens
  <2>3. CountOf(i)
    BY DEF Strong, CountInv
  <2> QED BY <1>1, <2>1, <2>2, <2>3, RefsKept, DeniersKept DEF CountOf, OpenCount, DenyCount
<1>17. CounterInv'
  BY <1>1, <1>2 DEF OthersStay, Strong, CounterInv, CounterOf, Counting
<1>18. ListInv'
  BY <1>1, <1>2 DEF Strong, ListInv, ListOf, Ends, Releasing, Opening
<1>19. NameInv'
  BY <1>6, <1>10, NameKept DEF Strong, Opens, Opening, FilesStay
<1>20. OwnerInv'
  <2> SUFFICES ASSUME NEW s \in Sector
               PROVE  \/ NoOwner(s)'
                      \/ /\ \A x \in Entry : EntryHas(x, s)' => EntryHas(x, s)
                         /\ \A y \in Inode : InodeHas(y, s)' => InodeHas(y, s)
                         /\ (CreateHas(p, s)' => CreateHas(p, s)) \/ NoOwner(s)
                         /\ CreateHas(p, s)' \/ s \in free_map => s \in free_map'
    BY <1>6, OwnerStep DEF Strong
  <2>2. \A x \in Entry : EntryHas(x, s)' <=> EntryHas(x, s)
    BY <1>1, EntriesKept
  <2>1. CreateHas(p, s)' => CreateHas(p, s)
    BY <1>2, <1>3 DEF CreateHas
  <2>3. \A i \in Inode : i # at[p].i => (InodeHas(i, s)' <=> InodeHas(i, s))
    BY <1>1, <1>6, RemovedKept DEF SameFile
  <2>4. InodeHas(at[p].i, s) <=> (s = inode[at[p].i].sector \/ s \in Data(inode[at[p].i].data))
    <3>1. \A q \in Proc : ~ SectorGone(q, at[p].i) /\ ~ DataGone(q, at[p].i)
      BY <1>2, <1>3 DEF Strong, ListInv, ListOf, Ends, Releasing, SectorGone, DataGone
    <3> QED BY <1>7, Nulls, <3>1 DEF InodeHas, Struct
  <2>5. InodeHas(at[p].i, s)' => s \in Data(inode[at[p].i].data)
    BY <1>1, <1>6 DEF InodeHas, SectorGone, Data
  <2>6. CASE s = inode[at[p].i].sector
    BY <1>2, <1>3, <1>6, <1>9, <2>1, <2>2, <2>3, <2>4, <2>5, OtherCreatesKept
       DEF Strong, OwnerInv, OwnerOf, NoOwner
  <2>7. CASE s # inode[at[p].i].sector
    BY <1>2, <2>1, <2>2, <2>3, <2>4, <2>5, <2>7 DEF Strong, OwnerInv, OwnerOf
  <2> QED BY <2>6, <2>7
<1>21. ContentInv'
  BY <1>1, <1>2, <1>3, <1>4, <1>5, <1>6, <1>7, <1>8, <1>9, <1>10, Nulls, <1>13, ContentKept
     DEF Strong, ListedInUse, ListInv, ListOf, TypeOK, Opens, Idle
<1>22. MapInv'
  BY <1>1, <1>2, <1>6 DEF OthersStay, Strong, MapInv, New
<1> QED BY <1>14, <1>15, <1>16, <1>17, <1>18, <1>19, <1>20, <1>21, <1>22 DEF Strong

(* inode_close of a removed file gives back the data, which was the        *)
(* inode's alone.                                                          *)
LEMMA ReleaseDataKeeps ==
  ASSUME TypeOK, LockInv, CallInv, ~ raced, Strong, NEW p \in Proc, ReleaseData(p), panic' = panic
  PROVE  TypeOK' /\ LockInv' /\ CallInv' /\ (~ raced' => Strong')
<1>1. /\ disk_map' = disk_map /\ dir' = dir /\ content' = content /\ inode' = inode
      /\ open_inodes' = open_inodes /\ fd_table' = fd_table /\ next_fd' = next_fd
      /\ running' = running /\ lost' = lost /\ filesys_lock' = filesys_lock
  BY DEF ReleaseData, disk, inodes, tables, Release, Panic
<1>2. /\ pc[p] = "release_data" /\ pc' = [pc EXCEPT ![p] = "write_map"]
      /\ at' = [at EXCEPT ![p] = [at[p]
           EXCEPT !.snap = free_map \ Data(inode[at[p].i].data),
                  !.new = {},
                  !.next = "free"]]
      /\ free_map' = free_map \ Data(inode[at[p].i].data)
  BY DEF ReleaseData, At, Runs, Goto, Local, Me, Release, Panic
<1>3. /\ free_map \subseteq Sector /\ at[p].op \in {"open", "remove", "close", "exit"}
      /\ at[p].i \in Inode
  BY <1>2, Nulls DEF TypeOK, CallInv, CallOf, Closing
<1>4. at[p] \in Locals
  BY DEF TypeOK
<1>5. [at[p] EXCEPT !.snap = free_map \ Data(inode[at[p].i].data), !.new = {},
        !.next = "free"] \in Locals
  BY <1>2, <1>3, <1>4, Nulls DEF Locals, Label
<1>6. /\ pc'[p] = "write_map" /\ at'[p].op = at[p].op /\ at'[p].name = at[p].name
      /\ at'[p].sector = at[p].sector /\ at'[p].i = at[p].i /\ at'[p].num = at[p].num
      /\ at'[p].snap = free_map \ Data(inode[at[p].i].data) /\ at'[p].new = {}
      /\ at'[p].fd = at[p].fd /\ at'[p].next = "free" /\ OthersStay(p)
  BY <1>2, <1>4, <1>5 DEF TypeOK, Locals, OthersStay, Idle
<1>7. /\ inode[at[p].i] \in Struct /\ inode[at[p].i].removed /\ at[p].i \notin open_inodes
  BY <1>2, <1>3 DEF Strong, ListInv, ListOf, Ends, Releasing, TypeOK
<1>8. inode[at[p].i].data # NULL
  BY <1>2, <1>7, Nulls DEF Strong, ListInv, ListOf, Opening, CallInv, CallOf
<1>9. FilesStay
  BY <1>1 DEF FilesStay, InodesStay, SameFile
<1>10. TypeOK'
  <2>1. pc' \in [Proc -> Label]
    BY <1>2, <1>3 DEF TypeOK, Label
  <2>2. at' \in [Proc -> Locals]
    BY <1>2, <1>5 DEF TypeOK
  <2>3. free_map' \subseteq Sector
    BY DEF TypeOK, ReleaseData, Release, Panic
  <2> QED BY <2>1, <2>2 DEF TypeOK, ReleaseData, At, disk, inodes, tables, health, Release, Panic
<1>11. LockInv'
  BY <1>1, <1>2 DEF LockInv, Holds, Without, Opening
<1>12. CallInv'
  <2> SUFFICES ASSUME NEW q \in Proc PROVE CallOf(q)'
    BY DEF CallInv
  <2>1. CASE q = p
    BY <1>2, <2>1 DEF CallInv, CallOf, Closing, TypeOK
  <2>2. CASE q # p
    BY <1>6, <2>2 DEF OthersStay, CallInv, CallOf
  <2> QED BY <2>1, <2>2
<1> SUFFICES ASSUME ~ raced' PROVE Strong'
  BY <1>10, <1>11, <1>12
<1>13. ForkInv'
  BY <1>1, <1>2, <1>6, <1>10, ForkKept DEF Strong, Opens
<1>14. FileInv'
  BY <1>1, <1>6, FileKept DEF Strong, Opens
<1>15. CountInv'
  <2> SUFFICES ASSUME NEW i \in Inode PROVE CountOf(i)'
    BY DEF CountInv
  <2>1. \A x \in Proc, k \in Place : Refers(x, k, i)' <=> Refers(x, k, i)
    BY <1>1, <1>2 DEF Refers, CountedDown, Transit, Releasing
  <2>2. \A x \in Proc : Denies(x, i)' <=> Denies(x, i)
    BY <1>1, <1>2 DEF OthersStay, Denies, CallInv, CallOf, Opens
  <2>3. CountOf(i)
    BY DEF Strong, CountInv
  <2> QED BY <1>1, <2>1, <2>2, <2>3, RefsKept, DeniersKept DEF CountOf, OpenCount, DenyCount
<1>16. CounterInv'
  BY <1>1, <1>2 DEF OthersStay, Strong, CounterInv, CounterOf, Counting
<1>17. ListInv'
  BY <1>1, <1>2 DEF Strong, ListInv, ListOf, Ends, Releasing, Opening
<1>18. NameInv'
  BY <1>6, <1>9, NameKept DEF Strong, Opens, Opening, FilesStay
<1>19. OwnerInv'
  <2> SUFFICES ASSUME NEW s \in Sector
               PROVE  \/ NoOwner(s)'
                      \/ /\ \A x \in Entry : EntryHas(x, s)' => EntryHas(x, s)
                         /\ \A y \in Inode : InodeHas(y, s)' => InodeHas(y, s)
                         /\ (CreateHas(p, s)' => CreateHas(p, s)) \/ NoOwner(s)
                         /\ CreateHas(p, s)' \/ s \in free_map => s \in free_map'
    BY <1>6, OwnerStep DEF Strong
  <2>2. \A x \in Entry : EntryHas(x, s)' <=> EntryHas(x, s)
    BY <1>1, EntriesKept
  <2>1. CreateHas(p, s)' => CreateHas(p, s)
    BY <1>2, <1>3 DEF CreateHas
  <2>3. \A i \in Inode : i # at[p].i => (InodeHas(i, s)' <=> InodeHas(i, s))
    BY <1>1, <1>6, RemovedKept DEF SameFile
  <2>4. s \in Data(inode[at[p].i].data) => InodeHas(at[p].i, s)
    <3>1. \A q \in Proc : ~ DataGone(q, at[p].i)
      BY <1>2, <1>3 DEF Strong, ListInv, ListOf, Ends, Releasing, DataGone
    <3> QED BY <1>7, Nulls, <3>1 DEF InodeHas, Struct
  <2>5. ~ InodeHas(at[p].i, s)'
    BY <1>6 DEF InodeHas, SectorGone, DataGone
  <2>6. CASE s \in Data(inode[at[p].i].data)
    BY <1>2, <1>3, <1>6, <2>1, <2>2, <2>3, <2>4, <2>5, OtherCreatesKept
       DEF Strong, OwnerInv, OwnerOf, NoOwner
  <2>7. CASE s \notin Data(inode[at[p].i].data)
    BY <1>2, <2>1, <2>2, <2>3, <2>5, <2>7 DEF Strong, OwnerInv, OwnerOf
  <2> QED BY <2>6, <2>7
<1>20. ContentInv'
  BY <1>1, <1>2, <1>3, <1>4, <1>5, <1>6, <1>7, <1>8, <1>9, Nulls, <1>12, ContentKept
     DEF Strong, ListedInUse, ListInv, ListOf, TypeOK, Opens, Idle
<1>21. MapInv'
  BY <1>1, <1>2, <1>6 DEF OthersStay, Strong, MapInv, New
<1> QED BY <1>13, <1>14, <1>15, <1>16, <1>17, <1>18, <1>19, <1>20, <1>21 DEF Strong

(* dir_add names the new inode: its sectors go from the creator to the     *)
(* entry, and no other entry has the name.                                 *)
LEMMA AddEntryFoundKeeps ==
  ASSUME TypeOK, LockInv, CallInv, ~ raced, Strong,
         NEW p \in Proc, AddEntry(p), panic' = panic, pc'[p] = "unlock"
  PROVE  TypeOK' /\ LockInv' /\ CallInv' /\ (~ raced' => Strong')
<1>1. /\ disk_map' = disk_map /\ content' = content /\ free_map' = free_map /\ inode' = inode
      /\ open_inodes' = open_inodes /\ fd_table' = fd_table /\ next_fd' = next_fd
      /\ running' = running /\ lost' = lost /\ filesys_lock' = filesys_lock
  BY Nulls DEF AddEntry, inodes, tables
<1>2. /\ pc[p] = "add_entry" /\ pc' = [pc EXCEPT ![p] = "unlock"] /\ at' = at
      /\ Lookup(at[p].name) = {} /\ FreeEntries # {}
      /\ dir' = [dir EXCEPT ![Min(FreeEntries)] = [name |-> at[p].name, sector |-> at[p].sector]]
  BY Nulls DEF AddEntry, At, Goto, Me, TypeOK
<1>3. /\ at[p].op = "create" /\ at[p].i = NULL /\ at[p].name \in Name
      /\ at[p].sector \in Sector /\ at[p].num \in Length /\ at[p].fd \in Sector \cup {0}
      /\ WithData(p) /\ content[at[p].sector] = [start |-> at[p].fd, length |-> at[p].num]
      /\ at[p].sector \notin New(p) /\ New(p) \subseteq Sector
  BY <1>2, Nulls
     DEF TypeOK, CallInv, CallOf, LockInv, Holds, Without, Opens, Opening, Closing, Strong,
         WithData, ContentInv
<1>4. /\ pc'[p] = "unlock" /\ OthersStay(p)
  BY <1>2 DEF TypeOK, OthersStay
<1>5. PICK f \in Entry :
        dir[f] = NULL /\ dir' = [dir EXCEPT ![f] = [name |-> at[p].name, sector |-> at[p].sector]]
  BY <1>1, <1>2, <1>3, <1>4, Nulls, FreeEntry
<1>6. /\ dir'[f] = [name |-> at[p].name, sector |-> at[p].sector]
      /\ \A e \in Entry : e # f => dir'[e] = dir[e]
  BY <1>5 DEF TypeOK
<1>7. \A e \in Entry : dir[e] # NULL => dir[e].name # at[p].name
  BY <1>2 DEF Lookup
<1>8. \A q \in Proc : q # p => ~ (at[q].op \in Opens /\ pc[q] \in Opening)
  BY <1>3 DEF LockInv, Holds, Opens
<1>9. \A q \in Proc : q # p => at[q].op # "create"
  BY <1>3, OnlyCreator
<1>10. TypeOK'
  <2>1. pc' \in [Proc -> Label]
    BY <1>2, <1>3 DEF TypeOK, Label
  <2>2. at' \in [Proc -> Locals]
    BY <1>2 DEF TypeOK
  <2>3. dir' \in [Entry -> DirEntry \cup {NULL}]
    BY <1>3, <1>5, Nulls DEF TypeOK, DirEntry
  <2> QED BY <2>1, <2>3 DEF TypeOK, AddEntry, At, Goto, inodes, tables
<1>11. LockInv'
  BY <1>1, <1>2 DEF LockInv, Holds, Without, CallInv, CallOf
<1>12. CallInv'
  <2> SUFFICES ASSUME NEW q \in Proc PROVE CallOf(q)'
    BY DEF CallInv
  <2>1. CASE q = p
    BY <1>2 DEF CallInv, CallOf, Closing
  <2>2. CASE q # p
    BY <1>4, <2>2 DEF OthersStay, CallInv, CallOf
  <2> QED BY <2>1, <2>2
<1> SUFFICES ASSUME ~ raced' PROVE Strong'
  BY <1>10, <1>11, <1>12
<1>13. ForkInv'
  BY <1>1, <1>2, <1>4, <1>10, ForkKept DEF Strong, Opens
<1>14. FileInv'
  BY <1>1, <1>2, <1>4, FileKept DEF Strong, Opens
<1>15. CountInv'
  <2> SUFFICES ASSUME NEW i \in Inode PROVE CountOf(i)'
    BY DEF CountInv
  <2>1. \A x \in Proc, k \in Place : Refers(x, k, i)' <=> Refers(x, k, i)
    BY <1>1, <1>2 DEF Refers, CountedDown, Transit, CallInv, CallOf
  <2>2. \A x \in Proc : Denies(x, i)' <=> Denies(x, i)
    BY <1>1, <1>2 DEF OthersStay, Denies, CallInv, CallOf, Opens
  <2>3. CountOf(i)
    BY DEF Strong, CountInv
  <2> QED BY <1>1, <2>1, <2>2, <2>3, RefsKept, DeniersKept DEF CountOf, OpenCount, DenyCount
<1>16. CounterInv'
  BY <1>1, <1>2 DEF OthersStay, Strong, CounterInv, CounterOf, Counting
<1>17. ListInv'
  BY <1>1, <1>2 DEF Strong, ListInv, ListOf, Ends, Releasing, Opening
<1>18. NameInv'
  <2>1. \A q \in Proc : OpenedOf(q)'
    BY <1>2, <1>3, <1>8 DEF OpenedOf, Opens, OthersStay
  <2>2. (\A e, g \in Entry : dir[e] # NULL /\ dir[g] # NULL /\ dir[e].name = dir[g].name =>
          e = g)'
    BY <1>2, <1>7 DEF Strong, NameInv
  <2>3. (\A i \in open_inodes : ~ inode[i].removed =>
          \E e \in Entry : dir[e] # NULL /\ dir[e].sector = inode[i].sector)'
    BY <1>1, <1>5 DEF Strong, NameInv
  <2> QED BY <2>1, <2>2, <2>3 DEF NameInv
<1>19. OwnerInv'
  <2> SUFFICES ASSUME NEW s \in Sector PROVE OwnerOf(s)'
    BY DEF OwnerInv
  <2>1. OwnerOf(s)
    BY DEF Strong, OwnerInv
  <2>2. \A i \in Inode : InodeHas(i, s)' <=> InodeHas(i, s)
    BY <1>1, <1>2, <1>3, <1>4, Nulls, RemovedKept DEF SameFile
  <2>3. \A e \in Entry : e # f => (EntryHas(e, s)' <=> EntryHas(e, s))
    BY <1>1, <1>5 DEF EntryHas, Storage, Data
  <2>4. EntryHas(f, s)' <=> CreateHas(p, s)
    <3>1. dir'[f] # NULL /\ dir'[f].sector = at[p].sector
      BY <1>3, <1>6, Nulls DEF DirEntry
    <3>2. Data(content[at[p].sector]) = New(p)
      BY <1>3 DEF Data, New
    <3>3. EntryHas(f, s)' <=> (s = at[p].sector \/ s \in Data(content[at[p].sector]))
      BY <1>1, <3>1 DEF EntryHas, Storage, Data
    <3>4. CreateHas(p, s) <=> (s = at[p].sector \/ s \in New(p))
      BY <1>2, <1>3 DEF CreateHas
    <3> QED BY <3>2, <3>3, <3>4
  <2>5. ~ CreateHas(p, s)' /\ ~ EntryHas(f, s)
    BY <1>5 DEF CreateHas, EntryHas
  <2>6. \A q \in Proc : q # p => ~ CreateHas(q, s)'
    BY <1>2, <1>9 DEF CreateHas, OthersStay
  <2> QED BY <1>1, <2>1, <2>2, <2>3, <2>4, <2>5, <2>6 DEF OwnerOf
<1>20. ContentInv'
  <2>1. HeaderAt(at[p].sector)
    BY <1>3 DEF HeaderAt, Data, New, Header
  <2>2. (\A e \in Entry : dir[e] # NULL => HeaderAt(dir[e].sector))'
    BY <1>1, <1>2, <1>3, <1>4, <1>5, <1>6, <1>7, <1>8, <1>9, Nulls, <2>1
       DEF Strong, ContentInv, HeaderAt, Data
  <2>3. \A q \in Proc : ~ WithData(q)'
    BY <1>2, <1>9 DEF WithData, OthersStay
  <2>4. \A q \in Proc : pc'[q] \notin {"zero_data", "add_entry"}
    BY <1>2, <1>9 DEF OthersStay, CallInv, CallOf
  <2> QED BY <1>1, <1>2, <1>8, Nulls, <2>2, <2>3 DEF Strong, ContentInv, HeaderAt, Data
<1>21. MapInv'
  BY <1>1, <1>2 DEF OthersStay, Strong, MapInv, New
<1> QED BY <1>13, <1>14, <1>15, <1>16, <1>17, <1>18, <1>19, <1>20, <1>21 DEF Strong

(* dir_add fails: the data sectors are left to nobody and stay allocated. *)
LEMMA AddEntryFailedKeeps ==
  ASSUME TypeOK, LockInv, CallInv, ~ raced, Strong,
         NEW p \in Proc, AddEntry(p), panic' = panic, pc'[p] # "unlock"
  PROVE  TypeOK' /\ LockInv' /\ CallInv' /\ (~ raced' => Strong')
<1>1. /\ disk_map' = disk_map /\ dir' = dir /\ content' = content /\ free_map' = free_map
      /\ inode' = inode /\ open_inodes' = open_inodes /\ fd_table' = fd_table
      /\ next_fd' = next_fd /\ running' = running /\ lost' = lost
      /\ filesys_lock' = filesys_lock
  BY Nulls DEF AddEntry, Goto, inodes, tables, TypeOK
<1>2. /\ pc[p] = "add_entry" /\ pc' = [pc EXCEPT ![p] = "undo_create"] /\ at' = at
  BY Nulls DEF AddEntry, At, Goto
<1>3. /\ at[p].op = "create" /\ at[p].i = NULL
  BY <1>2, Nulls DEF CallInv, CallOf
<1>4. /\ pc'[p] = "undo_create" /\ OthersStay(p)
  BY <1>2 DEF TypeOK, OthersStay
<1>5. \A q \in Proc : q # p => at[q].op # "create"
  BY <1>3, OnlyCreator
<1>6. FilesStay
  BY <1>1 DEF FilesStay, InodesStay, SameFile
<1>7. TypeOK'
  <2>1. pc' \in [Proc -> Label]
    BY <1>2, <1>3 DEF TypeOK, Label
  <2>2. at' \in [Proc -> Locals]
    BY <1>2 DEF TypeOK
  <2> QED BY <2>1, FilesAssumption DEF TypeOK, AddEntry, At, Goto, inodes, tables, NoMemory
<1>8. LockInv'
  BY <1>1, <1>2 DEF LockInv, Holds, Without, CallInv, CallOf
<1>9. CallInv'
  <2> SUFFICES ASSUME NEW q \in Proc PROVE CallOf(q)'
    BY DEF CallInv
  <2>1. CASE q = p
    BY <1>2 DEF CallInv, CallOf, Closing
  <2>2. CASE q # p
    BY <1>4, <2>2 DEF OthersStay, CallInv, CallOf
  <2> QED BY <2>1, <2>2
<1> SUFFICES ASSUME ~ raced' PROVE Strong'
  BY <1>7, <1>8, <1>9
<1>10. ForkInv'
  BY <1>1, <1>2, <1>4, <1>7, ForkKept DEF Strong, Opens
<1>11. FileInv'
  BY <1>1, <1>2, <1>4, FileKept DEF Strong, Opens
<1>12. CountInv'
  <2> SUFFICES ASSUME NEW i \in Inode PROVE CountOf(i)'
    BY DEF CountInv
  <2>1. \A x \in Proc, k \in Place : Refers(x, k, i)' <=> Refers(x, k, i)
    BY <1>1, <1>2 DEF Refers, CountedDown, Transit, CallInv, CallOf
  <2>2. \A x \in Proc : Denies(x, i)' <=> Denies(x, i)
    BY <1>1, <1>2 DEF OthersStay, Denies, CallInv, CallOf, Opens
  <2>3. CountOf(i)
    BY DEF Strong, CountInv
  <2> QED BY <1>1, <2>1, <2>2, <2>3, RefsKept, DeniersKept DEF CountOf, OpenCount, DenyCount
<1>13. CounterInv'
  BY <1>1, <1>2 DEF OthersStay, Strong, CounterInv, CounterOf, Counting
<1>14. ListInv'
  BY <1>1, <1>2 DEF Strong, ListInv, ListOf, Ends, Releasing, Opening
<1>15. NameInv'
  BY <1>4, <1>6, NameKept DEF Strong, Opens, Opening, FilesStay
<1>16. OwnerInv'
  <2> SUFFICES ASSUME NEW s \in Sector
               PROVE  \/ NoOwner(s)'
                      \/ /\ \A x \in Entry : EntryHas(x, s)' => EntryHas(x, s)
                         /\ \A y \in Inode : InodeHas(y, s)' => InodeHas(y, s)
                         /\ (CreateHas(p, s)' => CreateHas(p, s)) \/ NoOwner(s)
                         /\ CreateHas(p, s)' \/ s \in free_map => s \in free_map'
    BY <1>4, OwnerStep DEF Strong
  <2>1. \A i \in Inode : InodeHas(i, s)' <=> InodeHas(i, s)
    BY <1>1, <1>2, <1>3, <1>4, Nulls, RemovedKept DEF SameFile
  <2>2. \A x \in Entry : EntryHas(x, s)' <=> EntryHas(x, s)
    BY <1>1, EntriesKept
  <2>3. (CreateHas(p, s)' => CreateHas(p, s)) /\ (s \in free_map => s \in free_map')
    BY <1>1, <1>2 DEF CreateHas, WithData, New
  <2>4. CreateHas(p, s) => s \in free_map
    BY DEF Strong, OwnerInv, OwnerOf
  <2> QED BY <2>1, <2>2, <2>3, <2>4
<1>17. ContentInv'
  <2>1. ~ WithData(p)'
    BY <1>4 DEF WithData
  <2> QED BY <1>1, <1>2, <1>3, <1>4, <1>5, <1>6, Nulls, <2>1, ContentStep, <1>7
<1>18. MapInv'
  BY <1>1, <1>2 DEF OthersStay, Strong, MapInv, New
<1> QED BY <1>10, <1>11, <1>12, <1>13, <1>14, <1>15, <1>16, <1>17, <1>18 DEF Strong

(* The creator gives back the inode's sector, which nobody else has. *)
LEMMA UndoCreateKeeps ==
  ASSUME TypeOK, LockInv, CallInv, ~ raced, Strong, NEW p \in Proc, UndoCreate(p), panic' = panic
  PROVE  TypeOK' /\ LockInv' /\ CallInv' /\ (~ raced' => Strong')
<1>1. /\ disk_map' = disk_map /\ dir' = dir /\ content' = content /\ inode' = inode
      /\ open_inodes' = open_inodes /\ fd_table' = fd_table /\ next_fd' = next_fd
      /\ running' = running /\ lost' = lost /\ filesys_lock' = filesys_lock
  BY DEF UndoCreate, disk, inodes, tables, Release, Panic
<1>2. /\ pc[p] = "undo_create" /\ pc' = [pc EXCEPT ![p] = "write_map"]
      /\ at' = [at EXCEPT ![p] = [at[p]
           EXCEPT !.snap = free_map \ {at[p].sector},
                  !.new = {},
                  !.next = "unlock"]]
      /\ free_map' = free_map \ {at[p].sector}
  BY DEF UndoCreate, At, Runs, Goto, Local, Me, Release, Panic
<1>3. /\ free_map \subseteq Sector /\ at[p].op = "create" /\ at[p].i = NULL
      /\ at[p].sector \in Sector /\ CreateHas(p, at[p].sector)
  BY <1>2, Nulls DEF TypeOK, CallInv, CallOf, CreateHas
<1>4. at[p] \in Locals
  BY DEF TypeOK
<1>5. [at[p] EXCEPT !.snap = free_map \ {at[p].sector}, !.new = {}, !.next = "unlock"] \in Locals
  BY <1>2, <1>3, <1>4, Nulls DEF Locals, Label
<1>6. /\ pc'[p] = "write_map" /\ at'[p].op = at[p].op /\ at'[p].name = at[p].name
      /\ at'[p].sector = at[p].sector /\ at'[p].i = at[p].i /\ at'[p].num = at[p].num
      /\ at'[p].snap = free_map \ {at[p].sector} /\ at'[p].new = {} /\ at'[p].fd = at[p].fd
      /\ at'[p].next = "unlock" /\ OthersStay(p)
  BY <1>2, <1>4, <1>5 DEF TypeOK, Locals, OthersStay, Idle
<1>7. \A q \in Proc : q # p => at[q].op # "create"
  BY <1>3, OnlyCreator
<1>8. FilesStay
  BY <1>1 DEF FilesStay, InodesStay, SameFile
<1>9. TypeOK'
  <2>1. pc' \in [Proc -> Label]
    BY <1>2, <1>3 DEF TypeOK, Label
  <2>2. at' \in [Proc -> Locals]
    BY <1>2, <1>5 DEF TypeOK
  <2>3. free_map' \subseteq Sector
    BY DEF TypeOK, UndoCreate, Release, Panic
  <2> QED BY <2>1, <2>2 DEF TypeOK, UndoCreate, At, disk, inodes, tables, health, Release, Panic
<1>10. LockInv'
  BY <1>1, <1>2 DEF LockInv, Holds, Without, CallInv, CallOf
<1>11. CallInv'
  <2> SUFFICES ASSUME NEW q \in Proc PROVE CallOf(q)'
    BY DEF CallInv
  <2>1. CASE q = p
    BY <1>2, <2>1 DEF CallInv, CallOf, Closing, TypeOK
  <2>2. CASE q # p
    BY <1>6, <2>2 DEF OthersStay, CallInv, CallOf
  <2> QED BY <2>1, <2>2
<1> SUFFICES ASSUME ~ raced' PROVE Strong'
  BY <1>9, <1>10, <1>11
<1>12. ForkInv'
  BY <1>1, <1>2, <1>6, <1>9, ForkKept DEF Strong, Opens
<1>13. FileInv'
  BY <1>1, <1>6, FileKept DEF Strong, Opens
<1>14. CountInv'
  <2> SUFFICES ASSUME NEW i \in Inode PROVE CountOf(i)'
    BY DEF CountInv
  <2>1. \A x \in Proc, k \in Place : Refers(x, k, i)' <=> Refers(x, k, i)
    BY <1>1, <1>2 DEF Refers, CountedDown, Transit, CallInv, CallOf
  <2>2. \A x \in Proc : Denies(x, i)' <=> Denies(x, i)
    BY <1>1, <1>2 DEF OthersStay, Denies, CallInv, CallOf, Opens
  <2>3. CountOf(i)
    BY DEF Strong, CountInv
  <2> QED BY <1>1, <2>1, <2>2, <2>3, RefsKept, DeniersKept DEF CountOf, OpenCount, DenyCount
<1>15. CounterInv'
  BY <1>1, <1>2 DEF OthersStay, Strong, CounterInv, CounterOf, Counting
<1>16. ListInv'
  BY <1>1, <1>2, <1>3, Nulls DEF Strong, ListInv, ListOf, Ends
<1>17. NameInv'
  BY <1>6, <1>8, NameKept DEF Strong, Opens, Opening, FilesStay
<1>18. OwnerInv'
  <2> SUFFICES ASSUME NEW s \in Sector
               PROVE  \/ NoOwner(s)'
                      \/ /\ \A x \in Entry : EntryHas(x, s)' => EntryHas(x, s)
                         /\ \A y \in Inode : InodeHas(y, s)' => InodeHas(y, s)
                         /\ (CreateHas(p, s)' => CreateHas(p, s)) \/ NoOwner(s)
                         /\ CreateHas(p, s)' \/ s \in free_map => s \in free_map'
    BY <1>6, OwnerStep DEF Strong
  <2>1. \A i \in Inode : InodeHas(i, s)' <=> InodeHas(i, s)
    BY <1>1, <1>3, <1>6, Nulls, RemovedKept DEF SameFile
  <2>2. \A x \in Entry : EntryHas(x, s)' <=> EntryHas(x, s)
    BY <1>1, EntriesKept
  <2>3. ~ CreateHas(p, s)'
    BY <1>6 DEF CreateHas
  <2>4. CASE s = at[p].sector
    <3>1. \A q \in Proc : q # p => ~ CreateHas(q, s)'
      BY <1>2, <1>7 DEF CreateHas, OthersStay
    <3> QED BY <1>2, <1>3, <2>1, <2>2, <2>3, <3>1 DEF Strong, OwnerInv, OwnerOf, NoOwner
  <2>5. CASE s # at[p].sector
    BY <1>2, <2>1, <2>2, <2>3, <2>5
  <2> QED BY <2>4, <2>5
<1>19. ContentInv'
  <2>1. ~ WithData(p)'
    BY <1>6 DEF WithData
  <2> QED BY <1>1, <1>2, <1>3, <1>4, <1>5, <1>6, <1>7, <1>8, Nulls, <2>1, ContentStep, <1>9
<1>20. MapInv'
  BY <1>1, <1>2, <1>6 DEF OthersStay, Strong, MapInv, New
<1> QED BY <1>12, <1>13, <1>14, <1>15, <1>16, <1>17, <1>18, <1>19, <1>20 DEF Strong

(* inode_open reads the header that the sector holds. *)
LEMMA ReadInodeKeeps ==
  ASSUME TypeOK, LockInv, CallInv, ~ raced, Strong, NEW p \in Proc, ReadInode(p), panic' = panic
  PROVE  TypeOK' /\ LockInv' /\ CallInv' /\ (~ raced' => Strong')
<1>1. /\ disk_map' = disk_map /\ dir' = dir /\ content' = content /\ free_map' = free_map
      /\ open_inodes' = open_inodes /\ fd_table' = fd_table /\ next_fd' = next_fd
      /\ running' = running /\ lost' = lost /\ filesys_lock' = filesys_lock
  BY DEF ReadInode, disk, tables
<1>2. /\ pc[p] = "read_inode" /\ pc' = [pc EXCEPT ![p] = "opened"] /\ at' = at
      /\ inode' = [inode EXCEPT ![at[p].i].data = content[at[p].sector]]
  BY DEF ReadInode, At, Goto, Me
<1>3. /\ at[p].op \in Opens /\ at[p].i \in Inode /\ at[p].sector \in Sector
      /\ filesys_lock = p
  BY <1>2, Nulls DEF CallInv, CallOf, LockInv, Holds, Opens, Opening
<1>4. /\ pc'[p] = "opened" /\ OthersStay(p)
  BY <1>2 DEF TypeOK, OthersStay
<1>5. /\ at[p].i \in open_inodes /\ inode[at[p].i] \in Struct
      /\ inode[at[p].i].sector = at[p].sector /\ ~ inode[at[p].i].removed
  BY <1>2, <1>3 DEF Strong, ListInv, ListOf, NameInv, OpenedOf, Opening, TypeOK
<1>6. /\ HeaderAt(at[p].sector) /\ content[at[p].sector] \in Header
  <2>1. \E e \in Lookup(at[p].name) : dir[e].sector = at[p].sector
    BY <1>2, <1>3 DEF Strong, NameInv, OpenedOf, Opening
  <2> QED BY <2>1 DEF Strong, ContentInv, HeaderAt, Lookup
<1>7. inode'[at[p].i] = [inode[at[p].i] EXCEPT !.data = content[at[p].sector]]
  BY <1>2, <1>3, <1>4 DEF TypeOK
<1>8. /\ inode'[at[p].i] \in Struct /\ inode'[at[p].i] # NULL
      /\ inode'[at[p].i].sector = at[p].sector /\ ~ inode'[at[p].i].removed
      /\ inode'[at[p].i].data = content[at[p].sector]
      /\ inode'[at[p].i].count = inode[at[p].i].count
  <2>1. [inode[at[p].i] EXCEPT !.data = content[at[p].sector]] \in Struct
    BY <1>5, <1>6 DEF Struct
  <2> QED BY <1>5, <1>6, <1>7, Nulls DEF Struct
<1>9. \A j \in Inode : j # at[p].i => inode'[j] = inode[j]
  BY <1>2 DEF TypeOK
<1>10. \A q \in Proc : q # p => at[q].op # "create" /\ ~ (at[q].op \in Opens /\ pc[q] \in Opening)
  BY <1>3 DEF LockInv, Holds, Opens
<1>11. TypeOK'
  <2>1. pc' \in [Proc -> Label]
    BY <1>2, <1>3 DEF TypeOK, Label
  <2>2. at' \in [Proc -> Locals]
    BY <1>2 DEF TypeOK
  <2>3. inode' \in [Inode -> Struct \cup {NULL}]
    BY <1>2, <1>3, <1>7, <1>8 DEF TypeOK
  <2> QED BY <2>1, <2>3 DEF TypeOK, ReadInode, At, disk, tables, health
<1>12. LockInv'
  BY <1>1, <1>2 DEF LockInv, Holds, Without, Opening
<1>13. CallInv'
  <2> SUFFICES ASSUME NEW q \in Proc PROVE CallOf(q)'
    BY DEF CallInv
  <2>1. CASE q = p
    BY <1>2 DEF CallInv, CallOf, Closing
  <2>2. CASE q # p
    BY <1>4, <2>2 DEF OthersStay, CallInv, CallOf
  <2> QED BY <2>1, <2>2
<1> SUFFICES ASSUME ~ raced' PROVE Strong'
  BY <1>11, <1>12, <1>13
<1>14. ForkInv'
  BY <1>1, <1>2, <1>4, <1>11, ForkKept DEF Strong, Opens
<1>15. FileInv'
  BY <1>1, <1>2, <1>4, FileKept DEF Strong, Opens
<1>16. CountInv'
  <2> SUFFICES ASSUME NEW i \in Inode PROVE CountOf(i)'
    BY DEF CountInv
  <2>1. CountOf(i)
    BY DEF Strong, CountInv
  <2>2. \A x \in Proc, k \in Place : Refers(x, k, i)' <=> Refers(x, k, i)
    BY <1>1, <1>2 DEF Refers, CountedDown, Transit, Releasing
  <2>3. \A x \in Proc : Denies(x, i)' <=> Denies(x, i)
    BY <1>1, <1>2 DEF OthersStay, Denies, CallInv, CallOf, Opens
  <2>4. OpenCount(i)' = OpenCount(i) /\ DenyCount(i)' = DenyCount(i)
    BY <1>2, <1>5, <1>8, Nulls DEF OpenCount, DenyCount
  <2> QED BY <1>1, <2>1, <2>2, <2>3, <2>4, RefsKept, DeniersKept DEF CountOf
<1>17. CounterInv'
  BY <1>2 DEF OthersStay, Strong, CounterInv, CounterOf, Counting
<1>18. ListInv'
  <2>1. ASSUME NEW i \in Inode PROVE ListOf(i)'
    <3>1. ListOf(i)
      BY DEF Strong, ListInv
    <3>2. CASE i = at[p].i
      BY <1>1, <1>2, <1>4, <1>6, <1>8, <1>10, Nulls, <3>1
         DEF ListOf, Ends, Releasing, Opening, CallInv, CallOf
    <3>3. CASE i # at[p].i
      BY <1>1, <1>2, <3>1, <3>3 DEF ListOf, Ends
    <3> QED BY <3>2, <3>3
  <2>2. (\A i, j \in open_inodes : inode[i].sector = inode[j].sector => i = j)'
    BY <1>1, <1>2 DEF Strong, ListInv, TypeOK
  <2> QED BY <2>1, <2>2 DEF ListInv
<1>19. NameInv'
  <2>1. \A q \in Proc : q # p => OpenedOf(q)'
    BY <1>2, <1>10 DEF OpenedOf, OthersStay
  <2>2. OpenedOf(p)'
    BY <1>1, <1>2 DEF Strong, NameInv, OpenedOf, Lookup, Opening
  <2>3. (\A j \in open_inodes : ~ inode[j].removed =>
          \E f \in Entry : dir[f] # NULL /\ dir[f].sector = inode[j].sector)'
    BY <1>1, <1>2 DEF Strong, NameInv, TypeOK
  <2> QED BY <1>1, <1>2, <2>1, <2>2 DEF Strong, NameInv
<1>20. OwnerInv'
  <2> SUFFICES ASSUME NEW s \in Sector
               PROVE  \/ NoOwner(s)'
                      \/ /\ \A x \in Entry : EntryHas(x, s)' => EntryHas(x, s)
                         /\ \A y \in Inode : InodeHas(y, s)' => InodeHas(y, s)
                         /\ (CreateHas(p, s)' => CreateHas(p, s)) \/ NoOwner(s)
                         /\ CreateHas(p, s)' \/ s \in free_map => s \in free_map'
    BY <1>4, OwnerStep DEF Strong
  <2>2. \A x \in Entry : EntryHas(x, s)' <=> EntryHas(x, s)
    BY <1>1, EntriesKept
  <2>1. \A j \in Inode : j # at[p].i => (InodeHas(j, s)' <=> InodeHas(j, s))
    BY <1>2, <1>4, RemovedKept DEF SameFile, Freeing
  <2>3. ~ InodeHas(at[p].i, s)'
    BY <1>2, <1>5 DEF InodeHas
  <2>4. CreateHas(p, s)' <=> CreateHas(p, s)
    BY <1>2, <1>3, <1>4, CreatesKept DEF Opens
  <2>8. CreateHas(p, s) => s \in free_map
    BY DEF Strong, OwnerInv, OwnerOf
  <2> QED BY <1>1, <1>2, <2>1, <2>2, <2>3, <2>4, <2>8
<1>21. ContentInv'
  <2>1. \A q \in Proc : ~ WithData(q)'
    BY <1>2, <1>10 DEF WithData, OthersStay, Opens
  <2>2. \A q \in Proc : pc'[q] \notin {"zero_data", "add_entry"}
    BY <1>2, <1>10 DEF OthersStay, CallInv, CallOf
  <2>3. (\A j \in open_inodes : inode[j].data # NULL =>
          content[inode[j].sector] = inode[j].data /\ HeaderAt(inode[j].sector))'
    <3>1. \A s : HeaderAt(s)' <=> HeaderAt(s)
      BY <1>1 DEF HeaderAt, Data
    <3>2. \A j \in open_inodes : j # at[p].i => inode'[j] = inode[j]
      BY <1>2 DEF TypeOK
    <3> QED BY <1>1, <1>2, <1>5, <1>6, <3>1 DEF Strong, ContentInv
  <2>4. (\A j \in Inode : inode[j] # NULL /\ inode[j].data # NULL =>
          /\ inode[j].data \in Header /\ inode[j].sector \notin Data(inode[j].data) /\
               Data(inode[j].data) \subseteq Sector)'
    BY <1>2, <1>5, <1>6 DEF Strong, ContentInv, Data, HeaderAt
  <2>5. (\A f \in Entry : dir[f] # NULL => HeaderAt(dir[f].sector))'
    BY <1>1 DEF Strong, ContentInv, HeaderAt, Data
  <2> QED BY <2>1, <2>2, <2>3, <2>4, <2>5 DEF ContentInv
<1>22. MapInv'
  BY <1>1, <1>2 DEF OthersStay, Strong, MapInv, New
<1> QED BY <1>14, <1>15, <1>16, <1>17, <1>18, <1>19, <1>20, <1>21, <1>22 DEF Strong

(* inode_close takes an inode off the list that has no references; a       *)
(* removed one keeps its sectors for now.                                  *)
LEMMA UnlistKeeps ==
  ASSUME TypeOK, LockInv, CallInv, ~ raced, Strong, NEW p \in Proc, Unlist(p), panic' = panic
  PROVE  TypeOK' /\ LockInv' /\ CallInv' /\ (~ raced' => Strong')
<1>1. /\ disk_map' = disk_map /\ dir' = dir /\ content' = content /\ free_map' = free_map
      /\ inode' = inode /\ fd_table' = fd_table /\ next_fd' = next_fd /\ running' = running
      /\ lost' = lost /\ filesys_lock' = filesys_lock
  BY DEF Unlist, disk, inodes, tables, Panic
<1>2. /\ pc[p] = "unlist"
      /\ pc' = [pc EXCEPT ![p] = (IF inode[at[p].i].removed THEN "release_inode" ELSE "free")]
      /\ at' = at /\ open_inodes' = open_inodes \ {at[p].i}
  BY DEF Unlist, At, Runs, Goto, Me, Panic
<1>3. /\ at[p].i \in Inode /\ at[p].op \in {"open", "remove", "close", "exit"}
  BY <1>2, Nulls DEF CallInv, CallOf, Closing
<1>4. /\ pc'[p] = (IF inode[at[p].i].removed THEN "release_inode" ELSE "free")
      /\ OthersStay(p)
  BY <1>2 DEF TypeOK, OthersStay
<1>5. /\ at[p].i \in open_inodes /\ inode[at[p].i] \in Struct /\ inode[at[p].i].count.open = 0
  BY <1>2, <1>3 DEF Strong, ListInv, ListOf, TypeOK
<1>6. OpenCount(at[p].i) = 0
  BY <1>5 DEF OpenCount
<1>7. \A q \in Proc : q # p /\ at[q].i = at[p].i => pc[q] \notin Releasing \cup {"test", "unlist"}
  BY <1>2, <1>3 DEF Strong, ListInv, ListOf, Ends, CounterInv, CounterOf, Counting
<1>8. \A q \in Proc : q # p /\ at[q].i = at[p].i => ~ (at[q].op \in Opens /\ pc[q] \in Opening)
  <2> SUFFICES ASSUME NEW q \in Proc, q # p, at[q].i = at[p].i, at[q].op \in Opens,
                        pc[q] \in Opening PROVE FALSE
    OBVIOUS
  <2>1. CASE pc[q] \in {"get_open", "put_open"}
    BY <1>2, <2>1 DEF Strong, CounterInv, CounterOf, Counting, Opens
  <2>2. CASE pc[q] \in {"read_inode", "opened"}
    <3>1. Refers(q, 1, at[p].i) /\ 1 \in Place
      BY <2>2 DEF Refers, Transit, Place
    <3> QED BY <1>3, <1>6, <3>1, NobodyReferred
  <2> QED BY <2>1, <2>2 DEF Opening
<1>9. TypeOK'
  <2>1. pc' \in [Proc -> Label]
    BY <1>2, <1>3 DEF TypeOK, Label
  <2>2. at' \in [Proc -> Locals]
    BY <1>2 DEF TypeOK
  <2>3. open_inodes' \subseteq Inode
    BY <1>2 DEF TypeOK
  <2> QED BY <2>1 DEF TypeOK, Unlist, At, disk, inodes, tables, health, Panic
<1>10. LockInv'
  BY <1>1, <1>2 DEF LockInv, Holds, Without, Opening
<1>11. CallInv'
  <2> SUFFICES ASSUME NEW q \in Proc PROVE CallOf(q)'
    BY DEF CallInv
  <2>1. CASE q = p
    BY <1>2 DEF CallInv, CallOf, Closing
  <2>2. CASE q # p
    BY <1>4, <2>2 DEF OthersStay, CallInv, CallOf
  <2> QED BY <2>1, <2>2
<1> SUFFICES ASSUME ~ raced' PROVE Strong'
  BY <1>9, <1>10, <1>11
<1>12. ForkInv'
  BY <1>1, <1>2, <1>4, <1>9, ForkKept DEF Strong, Opens
<1>13. FileInv'
  BY <1>1, <1>2, <1>4, FileKept DEF Strong, Opens
<1>14. CountInv'
  <2> SUFFICES ASSUME NEW i \in Inode PROVE CountOf(i)'
    BY DEF CountInv
  <2>1. \A x \in Proc, k \in Place : Refers(x, k, i)' <=> Refers(x, k, i)
    BY <1>1, <1>2 DEF Refers, CountedDown, Transit, Releasing
  <2>2. \A x \in Proc : Denies(x, i)' <=> Denies(x, i)
    BY <1>1, <1>2 DEF OthersStay, Denies, CallInv, CallOf, Opens
  <2>3. CountOf(i)
    BY DEF Strong, CountInv
  <2> QED BY <1>1, <2>1, <2>2, <2>3, RefsKept, DeniersKept DEF CountOf, OpenCount, DenyCount
<1>15. CounterInv'
  BY <1>1, <1>2 DEF OthersStay, Strong, CounterInv, CounterOf, Counting
<1>16. ListInv'
  <2>1. ASSUME NEW i \in Inode PROVE ListOf(i)'
    <3>1. ListOf(i)
      BY DEF Strong, ListInv
    <3>2. CASE i = at[p].i
      BY <1>1, <1>2, <1>4, <1>7, <1>8, <3>1 DEF ListOf, OthersStay, Ends, Releasing, Opening
    <3>3. CASE i # at[p].i
      BY <1>1, <1>2, <1>4, <1>7, <1>8, <3>1 DEF ListOf, Ends, Releasing, Opening
    <3> QED BY <3>2, <3>3
  <2>2. (\A i, j \in open_inodes : inode[i].sector = inode[j].sector => i = j)'
    BY <1>1, <1>2 DEF Strong, ListInv
  <2> QED BY <2>1, <2>2 DEF ListInv
<1>17. NameInv'
  <2>1. \A q \in Proc : OpenedOf(q)'
    BY <1>1, <1>2 DEF OpenedOf, Strong, NameInv, Lookup, Opening
  <2> QED BY <1>1, <1>2, <2>1 DEF Strong, NameInv
<1>18. OwnerInv'
  <2> SUFFICES ASSUME NEW s \in Sector
               PROVE  \/ NoOwner(s)'
                      \/ /\ \A x \in Entry : EntryHas(x, s)' => EntryHas(x, s)
                         /\ \A y \in Inode : InodeHas(y, s)' => InodeHas(y, s)
                         /\ (CreateHas(p, s)' => CreateHas(p, s)) \/ NoOwner(s)
                         /\ CreateHas(p, s)' \/ s \in free_map => s \in free_map'
    BY <1>4, OwnerStep DEF Strong
  <2>2. \A x \in Entry : EntryHas(x, s)' <=> EntryHas(x, s)
    BY <1>1, EntriesKept
  <2>1. \A j \in Inode : j # at[p].i => (InodeHas(j, s)' <=> InodeHas(j, s))
    BY <1>1, <1>2, <1>4, RemovedKept DEF SameFile, Freeing
  <2>3. InodeHas(at[p].i, s)' => InodeHas(at[p].i, s)
    <3>1. CASE inode[at[p].i].removed
      BY <1>1, <1>2, <1>3, <1>4, <3>1, RemovedKept DEF SameFile, Freeing
    <3>2. CASE ~ inode[at[p].i].removed
      BY <1>1, <1>2, <3>2 DEF InodeHas
    <3> QED BY <3>1, <3>2
  <2>4. CreateHas(p, s)' <=> CreateHas(p, s)
    BY <1>2, <1>3, <1>4, CreatesKept DEF Opens
  <2>8. CreateHas(p, s) => s \in free_map
    BY DEF Strong, OwnerInv, OwnerOf
  <2> QED BY <1>1, <1>2, <1>3, <1>4, <1>5, <1>6, <1>7, <1>8, Nulls, <2>1, <2>2, <2>3, <2>4, <2>8
<1>19. ContentInv'
  <2>1. \A q \in Proc : WithData(q)' <=> WithData(q)
    BY <1>2 DEF WithData, OthersStay
  <2>2. \A q \in Proc : q = p \/ (pc'[q] = pc[q] /\ at'[q] = at[q])
    BY <1>2 DEF OthersStay
  <2> QED BY <1>1, <1>2 DEF Strong, ContentInv, HeaderAt, WithData, New
<1>20. MapInv'
  BY <1>1, <1>2 DEF OthersStay, Strong, MapInv, New
<1> QED BY <1>12, <1>13, <1>14, <1>15, <1>16, <1>17, <1>18, <1>19, <1>20 DEF Strong

(* The inode is freed: nothing refers to it. *)
LEMMA FreeInodeKeeps ==
  ASSUME TypeOK, LockInv, CallInv, ~ raced, Strong, NEW p \in Proc, FreeInode(p), panic' = panic
  PROVE  TypeOK' /\ LockInv' /\ CallInv' /\ (~ raced' => Strong')
<1>1. /\ disk_map' = disk_map /\ dir' = dir /\ content' = content /\ free_map' = free_map
      /\ open_inodes' = open_inodes /\ fd_table' = fd_table /\ next_fd' = next_fd
      /\ running' = running /\ lost' = lost /\ filesys_lock' = filesys_lock
  BY DEF FreeInode, disk, tables
<1>2. /\ pc[p] = "free" /\ pc' = [pc EXCEPT ![p] = "closed"] /\ at' = at
      /\ inode' = [inode EXCEPT ![at[p].i] = NULL]
  BY DEF FreeInode, At, Goto, Me
<1>3. /\ at[p].i \in Inode /\ at[p].op \in {"open", "remove", "close", "exit"}
  BY <1>2, Nulls DEF CallInv, CallOf, Closing
<1>4. /\ pc'[p] = "closed" /\ OthersStay(p)
  BY <1>2 DEF TypeOK, OthersStay
<1>5. /\ at[p].i \notin open_inodes /\ inode[at[p].i] \in Struct
      /\ inode[at[p].i].count.open = 0
  BY <1>2, <1>3 DEF Strong, ListInv, ListOf, Ends, Releasing, TypeOK
<1>6. inode'[at[p].i] = NULL
  BY <1>2, <1>3 DEF TypeOK
<1>7. \A j \in Inode : j # at[p].i => inode'[j] = inode[j]
  BY <1>2 DEF TypeOK
<1>8. OpenCount(at[p].i) = 0
  BY <1>5 DEF OpenCount
<1>9. \A q \in Proc : q # p /\ at[q].i = at[p].i => pc[q] \notin Releasing \cup {"test", "unlist"}
  BY <1>2, <1>3 DEF Strong, ListInv, ListOf, Ends, Releasing
<1>10. \A q \in Proc : at[q].i = at[p].i =>
         pc[q] \notin {"get_open", "put_open", "get_close", "put_close", "get_deny", "put_deny",
           "get_allow", "put_allow"}
  BY <1>5, WorksOnOpen
<1>11. \A q \in Proc : q # p /\ at[q].i = at[p].i => ~ (at[q].op \in Opens /\ pc[q] \in Opening)
  BY <1>3, <1>5 DEF Strong, ListInv, ListOf
<1>12. TypeOK'
  <2>1. pc' \in [Proc -> Label]
    BY <1>2, <1>3 DEF TypeOK, Label
  <2>2. at' \in [Proc -> Locals]
    BY <1>2 DEF TypeOK
  <2>3. inode' \in [Inode -> Struct \cup {NULL}]
    BY <1>2, <1>3 DEF TypeOK
  <2> QED BY <2>1, <2>3 DEF TypeOK, FreeInode, At, disk, tables, health
<1>13. LockInv'
  BY <1>1, <1>2 DEF LockInv, Holds, Without, Opening
<1>14. CallInv'
  <2> SUFFICES ASSUME NEW q \in Proc PROVE CallOf(q)'
    BY DEF CallInv
  <2>1. CASE q = p
    BY <1>2 DEF CallInv, CallOf, Closing
  <2>2. CASE q # p
    BY <1>4, <2>2 DEF OthersStay, CallInv, CallOf
  <2> QED BY <2>1, <2>2
<1> SUFFICES ASSUME ~ raced' PROVE Strong'
  BY <1>12, <1>13, <1>14
<1>15. ForkInv'
  BY <1>1, <1>2, <1>4, <1>12, ForkKept DEF Strong, Opens
<1>16. FileInv'
  BY <1>1, <1>2, <1>4, FileKept DEF Strong, Opens
<1>17. CountInv'
  <2> SUFFICES ASSUME NEW i \in Inode PROVE CountOf(i)'
    BY DEF CountInv
  <2>1. CountOf(i)
    BY DEF Strong, CountInv
  <2>2. \A x \in Proc, k \in Place : Refers(x, k, i)' <=> Refers(x, k, i)
    BY <1>1, <1>2 DEF Refers, CountedDown, Transit, Releasing
  <2>3. \A x \in Proc : Denies(x, i)' <=> Denies(x, i)
    BY <1>1, <1>2 DEF OthersStay, Denies, CallInv, CallOf, Opens
  <2>4. OpenCount(i)' = OpenCount(i) /\ DenyCount(i)' = DenyCount(i)
    <3>1. CASE i = at[p].i
      BY <1>2, <1>5, NobodyReferred DEF OpenCount, DenyCount
    <3>2. CASE i # at[p].i
      BY <1>2, <3>2 DEF OpenCount, DenyCount
    <3> QED BY <3>1, <3>2
  <2> QED BY <1>1, <2>1, <2>2, <2>3, <2>4, RefsKept, DeniersKept DEF CountOf
<1>18. CounterInv'
  BY <1>2, <1>10 DEF OthersStay, Strong, CounterInv, CounterOf, Counting
<1>19. ListInv'
  <2>1. ASSUME NEW i \in Inode PROVE ListOf(i)'
    <3>1. ListOf(i)
      BY DEF Strong, ListInv
    <3>2. CASE i = at[p].i
      BY <1>1, <1>2, <1>4, <1>6, <3>1 DEF ListOf, Ends, Releasing, Opening
    <3>3. CASE i # at[p].i
      BY <1>1, <1>2, <1>4, <1>6, <3>1 DEF ListOf, Ends, Releasing, Opening
    <3> QED BY <3>2, <3>3
  <2>2. (\A i, j \in open_inodes : inode[i].sector = inode[j].sector => i = j)'
    BY <1>1, <1>2, <1>5 DEF Strong, ListInv, TypeOK
  <2> QED BY <2>1, <2>2 DEF ListInv
<1>20. NameInv'
  <2>1. \A q \in Proc : OpenedOf(q)'
    BY <1>1, <1>2, <1>11 DEF OpenedOf, Strong, NameInv, Lookup, Opening
  <2>2. \A j \in open_inodes : inode'[j] = inode[j]
    BY <1>2, <1>5 DEF TypeOK
  <2> QED BY <1>1, <2>1, <2>2 DEF Strong, NameInv
<1>21. OwnerInv'
  <2> SUFFICES ASSUME NEW s \in Sector
               PROVE  \/ NoOwner(s)'
                      \/ /\ \A x \in Entry : EntryHas(x, s)' => EntryHas(x, s)
                         /\ \A y \in Inode : InodeHas(y, s)' => InodeHas(y, s)
                         /\ (CreateHas(p, s)' => CreateHas(p, s)) \/ NoOwner(s)
                         /\ CreateHas(p, s)' \/ s \in free_map => s \in free_map'
    BY <1>4, OwnerStep DEF Strong
  <2>2. \A x \in Entry : EntryHas(x, s)' <=> EntryHas(x, s)
    BY <1>1, EntriesKept
  <2>1. \A j \in Inode : j # at[p].i => (InodeHas(j, s)' <=> InodeHas(j, s))
    BY <1>2, <1>4, RemovedKept DEF SameFile, Freeing
  <2>3. ~ InodeHas(at[p].i, s)'
    BY <1>2, <1>6 DEF InodeHas
  <2>4. CreateHas(p, s)' <=> CreateHas(p, s)
    BY <1>2, <1>3, <1>4, CreatesKept
  <2>8. CreateHas(p, s) => s \in free_map
    BY DEF Strong, OwnerInv, OwnerOf
  <2> QED BY <1>1, <1>2, <1>3, <1>4, <1>5, <1>6, <1>7, <1>8, <1>9, <1>10, <1>11, Nulls, <2>1,
             <2>2, <2>3, <2>4, <2>8
<1>22. ContentInv'
  <2>1. \A q \in Proc : WithData(q)' <=> WithData(q)
    BY <1>2 DEF WithData, OthersStay
  <2>2. \A q \in Proc : q = p \/ (pc'[q] = pc[q] /\ at'[q] = at[q])
    BY <1>2 DEF OthersStay
  <2> QED BY <1>1, <1>2, <1>5, <1>6, <1>8, <1>9, <1>10, <2>1, <2>2
             DEF Strong, ContentInv, HeaderAt, New
<1>23. MapInv'
  BY <1>1, <1>2 DEF OthersStay, Strong, MapInv, New
<1> QED BY <1>15, <1>16, <1>17, <1>18, <1>19, <1>20, <1>21, <1>22, <1>23 DEF Strong

(* dir_remove erases the entry and marks the inode: the sectors go from    *)
(* the entry to the inode.                                                 *)
LEMMA EraseDoneKeeps ==
  ASSUME TypeOK, LockInv, CallInv, ~ raced, Strong,
         NEW p \in Proc, Erase(p), panic' = panic, faults' = faults
  PROVE  TypeOK' /\ LockInv' /\ CallInv' /\ (~ raced' => Strong')
<1>1. /\ disk_map' = disk_map /\ content' = content /\ free_map' = free_map
      /\ open_inodes' = open_inodes /\ fd_table' = fd_table /\ next_fd' = next_fd
      /\ running' = running /\ lost' = lost /\ filesys_lock' = filesys_lock
  BY Nulls DEF Erase, tables
<1>2. /\ pc[p] = "opened" /\ pc' = [pc EXCEPT ![p] = "get_close"] /\ at' = at
      /\ at[p].op = "remove"
      /\ dir' = [x \in Entry |-> IF x \in Lookup(at[p].name) THEN NULL ELSE dir[x]]
      /\ inode' = [inode EXCEPT ![at[p].i].removed = TRUE]
  BY Nulls DEF Erase, At, Goto, Me, NoMemory, TypeOK
<1>3. /\ at[p].i \in Inode /\ at[p].sector \in Sector /\ filesys_lock = p
  BY <1>2, Nulls
     DEF TypeOK, CallInv, CallOf, LockInv, Holds, Without, Opens, Opening, Closing, Strong
<1>4. /\ pc'[p] = "get_close" /\ OthersStay(p)
  BY <1>2 DEF TypeOK, OthersStay
<1>5. /\ at[p].i \in open_inodes /\ inode[at[p].i] \in Struct
      /\ inode[at[p].i].sector = at[p].sector /\ ~ inode[at[p].i].removed
  BY <1>2, <1>3 DEF Strong, ListInv, ListOf, NameInv, OpenedOf, Opens, Opening, TypeOK
<1>6. PICK e \in Entry : dir[e] # NULL /\ dir[e].name = at[p].name /\ dir[e].sector = at[p].sector
  BY <1>2 DEF Strong, NameInv, OpenedOf, Opens, Opening, Lookup
<1>7. /\ \A x \in Entry : x # e => dir'[x] = dir[x]
      /\ dir'[e] = NULL
  <2>1. \A x \in Entry : x \in Lookup(at[p].name) <=> x = e
    BY <1>6 DEF Strong, NameInv, Lookup
  <2> QED BY <1>2, <2>1
<1>8. inode[at[p].i].data # NULL
  <2>1. \A q \in Proc : pc[q] = "read_inode" => q = p
    BY <1>2 DEF CallInv, CallOf, LockInv, Holds, Opens, Opening
  <2> QED BY <1>2, <1>3, <1>5, <2>1 DEF Strong, ListInv, ListOf
<1>9. content[at[p].sector] = inode[at[p].i].data
  BY <1>5, <1>8 DEF Strong, ContentInv
<1>10. inode'[at[p].i] = [inode[at[p].i] EXCEPT !.removed = TRUE]
  BY <1>1, <1>2, <1>3, <1>4, <1>5, <1>6, <1>7, <1>8, <1>9, Nulls DEF TypeOK
<1>11. /\ inode'[at[p].i] \in Struct /\ inode'[at[p].i] # NULL
      /\ inode'[at[p].i].sector = at[p].sector /\ inode'[at[p].i].removed
      /\ inode'[at[p].i].data = inode[at[p].i].data
      /\ inode'[at[p].i].count = inode[at[p].i].count
  <2>1. [inode[at[p].i] EXCEPT !.removed = TRUE] \in Struct
    BY <1>1, <1>2, <1>3, <1>4, <1>5, <1>6, <1>7, <1>8, <1>9, <1>10, Nulls DEF Struct
  <2> QED BY <1>5, <1>10, <2>1, Nulls DEF Struct
<1>12. \A j \in Inode : j # at[p].i => inode'[j] = inode[j]
  BY <1>2 DEF TypeOK
<1>13. \A q \in Proc : q # p => at[q].op # "create" /\ ~ (at[q].op \in Opens /\ pc[q] \in Opening)
  BY <1>2 DEF LockInv, Holds, Opens
<1>14. TypeOK'
  <2>1. pc' \in [Proc -> Label]
    BY <1>2, <1>3 DEF TypeOK, Label
  <2>2. at' \in [Proc -> Locals]
    BY <1>2 DEF TypeOK
  <2>3. dir' \in [Entry -> DirEntry \cup {NULL}]
    BY <1>2 DEF TypeOK
  <2>4. inode' \in [Inode -> Struct \cup {NULL}]
    BY <1>2, <1>3, <1>10, <1>11 DEF TypeOK
  <2> QED BY <2>1, <2>4 DEF TypeOK, Erase, At, tables
<1>15. LockInv'
  BY <1>1, <1>2 DEF LockInv, Holds, Without
<1>16. CallInv'
  <2> SUFFICES ASSUME NEW q \in Proc PROVE CallOf(q)'
    BY DEF CallInv
  <2>1. CASE q = p
    BY <1>2 DEF CallInv, CallOf
  <2>2. CASE q # p
    BY <1>4, <2>2 DEF OthersStay, CallInv, CallOf
  <2> QED BY <2>1, <2>2
<1> SUFFICES ASSUME ~ raced' PROVE Strong'
  BY <1>14, <1>15, <1>16
<1>17. ForkInv'
  BY <1>1, <1>2, <1>4, <1>14, ForkKept DEF Strong, Opens
<1>18. FileInv'
  BY <1>1, <1>2, <1>4, FileKept DEF Strong, Opens
<1>19. CountInv'
  <2> SUFFICES ASSUME NEW i \in Inode PROVE CountOf(i)'
    BY DEF CountInv
  <2>1. CountOf(i)
    BY DEF Strong, CountInv
  <2>2. \A x \in Proc, k \in Place : Refers(x, k, i)' <=> Refers(x, k, i)
    BY <1>1, <1>2 DEF Refers, CountedDown, Transit
  <2>3. \A x \in Proc : Denies(x, i)' <=> Denies(x, i)
    BY <1>1, <1>2 DEF OthersStay, Denies, CallInv, CallOf, Opens
  <2>4. OpenCount(i)' = OpenCount(i) /\ DenyCount(i)' = DenyCount(i)
    BY <1>2, <1>5, <1>11, Nulls DEF OpenCount, DenyCount
  <2> QED BY <1>1, <2>1, <2>2, <2>3, <2>4, RefsKept, DeniersKept DEF CountOf
<1>20. CounterInv'
  BY <1>2 DEF OthersStay, Strong, CounterInv, CounterOf, Counting
<1>21. ListInv'
  <2>1. ASSUME NEW i \in Inode PROVE ListOf(i)'
    <3>1. ListOf(i)
      BY DEF Strong, ListInv
    <3>2. CASE i = at[p].i
      BY <1>1, <1>2, <1>11, <3>1 DEF ListOf, Ends, Releasing, Opens, Opening
    <3>3. CASE i # at[p].i
      BY <1>1, <1>2, <1>11, <3>1 DEF ListOf, Ends, Releasing, Opens, Opening
    <3> QED BY <3>2, <3>3
  <2>2. (\A i, j \in open_inodes : inode[i].sector = inode[j].sector => i = j)'
    BY <1>1, <1>2 DEF Strong, ListInv, TypeOK
  <2> QED BY <2>1, <2>2 DEF ListInv
<1>22. NameInv'
  <2>1. \A q \in Proc : ~ (at[q].op \in Opens /\ pc[q] \in Opening)'
    BY <1>4, <1>13 DEF OthersStay, Opening
  <2>2. (\A x, y \in Entry : dir[x] # NULL /\ dir[y] # NULL /\ dir[x].name = dir[y].name =>
          x = y)'
    BY <1>2 DEF Strong, NameInv
  <2>3. (\A j \in open_inodes : ~ inode[j].removed =>
          \E f \in Entry : dir[f] # NULL /\ dir[f].sector = inode[j].sector)'
    <3> SUFFICES ASSUME NEW j \in open_inodes, ~ inode'[j].removed
                 PROVE \E f \in Entry : dir'[f] # NULL /\ dir'[f].sector = inode'[j].sector
      BY <1>1
    <3>1. j # at[p].i /\ j \in Inode
      BY <1>2 DEF TypeOK
    <3>2. inode'[j] = inode[j] /\ inode[j].sector # at[p].sector
      BY <1>2, <1>5, <1>11 DEF Strong, ListInv
    <3> QED BY <1>6, <1>7, <3>2 DEF Strong, NameInv
  <2> QED BY <2>1, <2>2, <2>3 DEF NameInv, OpenedOf
<1>23. OwnerInv'
  <2> SUFFICES ASSUME NEW s \in Sector PROVE OwnerOf(s)'
    BY DEF OwnerInv
  <2>1. OwnerOf(s)
    BY DEF Strong, OwnerInv
  <2>2. \A x \in Entry : x # e => (EntryHas(x, s)' <=> EntryHas(x, s))
    BY <1>1, <1>7 DEF EntryHas, Storage, Data
  <2>3. ~ EntryHas(e, s)'
    BY <1>7 DEF EntryHas
  <2>4. \A j \in Inode : j # at[p].i => (InodeHas(j, s)' <=> InodeHas(j, s))
    BY <1>1, <1>2, <1>3, <1>4, <1>5, <1>6, <1>7, <1>8, <1>9, <1>10, <1>11, <1>12, <1>13, Nulls,
       RemovedKept
       DEF SameFile, Freeing
  <2>5. InodeHas(at[p].i, s)' => EntryHas(e, s)
    BY <1>2, <1>5, <1>6, <1>9 DEF InodeHas, EntryHas, Storage, Data
  <2>6. \A q \in Proc : CreateHas(q, s)' <=> CreateHas(q, s)
    BY <1>2, <1>4, CreatesKept
  <2> QED BY <1>1, <1>2, <2>1, <2>2, <2>3, <2>4, <2>5, <2>6 DEF OwnerOf
<1>24. ContentInv'
  <2>1. \A q \in Proc : ~ WithData(q)'
    BY <1>2, <1>13 DEF WithData, OthersStay
  <2>2. \A q \in Proc : pc'[q] \notin {"zero_data", "add_entry"}
    BY <1>2, <1>13 DEF OthersStay, CallInv, CallOf
  <2>3. \A s : HeaderAt(s)' <=> HeaderAt(s)
    BY <1>1 DEF HeaderAt, Data
  <2>4. \A j \in Inode : (inode'[j] = NULL <=>
          inode[j] = NULL) /\ (inode[j] # NULL =>
            inode'[j].sector = inode[j].sector /\ inode'[j].data = inode[j].data)
    BY <1>2, <1>5, <1>11, Nulls
  <2>5. (\A f \in Entry : dir[f] # NULL => HeaderAt(dir[f].sector))'
    BY <1>2, <2>3 DEF Strong, ContentInv
  <2>6. (\A j \in open_inodes : inode[j].data # NULL =>
          content[inode[j].sector] = inode[j].data /\ HeaderAt(inode[j].sector))'
    BY <1>1, <1>2, <2>3 DEF Strong, ContentInv, TypeOK, ListInv, ListOf
  <2>7. (\A j \in Inode : inode[j] # NULL /\ inode[j].data # NULL =>
          /\ inode[j].data \in Header /\ inode[j].sector \notin Data(inode[j].data) /\
               Data(inode[j].data) \subseteq Sector)'
    BY <1>2, <1>5, Nulls DEF Strong, ContentInv, Data
  <2> QED BY <2>1, <2>2, <2>5, <2>6, <2>7 DEF ContentInv
<1>25. MapInv'
  BY <1>1, <1>2 DEF OthersStay, Strong, MapInv, New
<1> QED BY <1>17, <1>18, <1>19, <1>20, <1>21, <1>22, <1>23, <1>24, <1>25 DEF Strong

(* dir_remove without memory changes nothing. *)
LEMMA EraseFailedKeeps ==
  ASSUME TypeOK, LockInv, CallInv, ~ raced, Strong,
         NEW p \in Proc, Erase(p), panic' = panic, faults' # faults
  PROVE  TypeOK' /\ LockInv' /\ CallInv' /\ (~ raced' => Strong')
<1>1. /\ disk_map' = disk_map /\ dir' = dir /\ content' = content /\ free_map' = free_map
      /\ inode' = inode /\ open_inodes' = open_inodes /\ fd_table' = fd_table
      /\ next_fd' = next_fd /\ running' = running /\ lost' = lost
      /\ filesys_lock' = filesys_lock
  BY Nulls DEF Erase, tables
<1>2. /\ pc[p] = "opened" /\ pc' = [pc EXCEPT ![p] = "get_close"] /\ at' = at
      /\ at[p].op = "remove"
  BY Nulls DEF Erase, At, Goto, Me
<1>3. /\ at[p].i \in Inode
  BY <1>2, Nulls DEF CallInv, CallOf
<1>4. /\ pc'[p] = "get_close" /\ OthersStay(p)
  BY <1>2 DEF TypeOK, OthersStay
<1>5. FilesStay
  BY <1>1 DEF FilesStay, InodesStay, SameFile
<1>6. TypeOK'
  <2>1. pc' \in [Proc -> Label]
    BY <1>2, <1>3 DEF TypeOK, Label
  <2>2. at' \in [Proc -> Locals]
    BY <1>2 DEF TypeOK
  <2> QED BY <2>1, FilesAssumption DEF TypeOK, Erase, At, tables, NoMemory
<1>7. LockInv'
  BY <1>1, <1>2 DEF LockInv, Holds, Without
<1>8. CallInv'
  <2> SUFFICES ASSUME NEW q \in Proc PROVE CallOf(q)'
    BY DEF CallInv
  <2>1. CASE q = p
    BY <1>2 DEF CallInv, CallOf
  <2>2. CASE q # p
    BY <1>4, <2>2 DEF OthersStay, CallInv, CallOf
  <2> QED BY <2>1, <2>2
<1> SUFFICES ASSUME ~ raced' PROVE Strong'
  BY <1>6, <1>7, <1>8
<1>9. ForkInv'
  BY <1>1, <1>2, <1>4, <1>6, ForkKept DEF Strong, Opens
<1>10. FileInv'
  BY <1>1, <1>2, <1>4, FileKept DEF Strong, Opens
<1>11. CountInv'
  <2> SUFFICES ASSUME NEW i \in Inode PROVE CountOf(i)'
    BY DEF CountInv
  <2>1. \A x \in Proc, k \in Place : Refers(x, k, i)' <=> Refers(x, k, i)
    BY <1>1, <1>2 DEF Refers, CountedDown, Transit
  <2>2. \A x \in Proc : Denies(x, i)' <=> Denies(x, i)
    BY <1>1, <1>2 DEF OthersStay, Denies, CallInv, CallOf, Opens
  <2>3. CountOf(i)
    BY DEF Strong, CountInv
  <2> QED BY <1>1, <2>1, <2>2, <2>3, RefsKept, DeniersKept DEF CountOf, OpenCount, DenyCount
<1>12. CounterInv'
  BY <1>1, <1>2 DEF OthersStay, Strong, CounterInv, CounterOf, Counting
<1>13. ListInv'
  BY <1>1, <1>2 DEF Strong, ListInv, ListOf, Ends, Releasing, Opening
<1>14. NameInv'
  BY <1>4, <1>5, NameKept DEF Strong, Opens, Opening, FilesStay
<1>15. OwnerInv'
  BY <1>1, <1>2, <1>4, <1>5, OwnerKept DEF Strong, Freeing, Opens, Idle
<1>16. ContentInv'
  BY <1>1, <1>2, <1>3, <1>4, <1>5, Nulls, <1>8, ContentKept
     DEF Strong, ListedInUse, ListInv, ListOf, TypeOK, Opens, Idle
<1>17. MapInv'
  BY <1>1, <1>2 DEF OthersStay, Strong, MapInv, New
<1> QED BY <1>9, <1>10, <1>11, <1>12, <1>13, <1>14, <1>15, <1>16, <1>17 DEF Strong

(* mmap begins to reopen the file of a descriptor. *)
LEMMA MmapKeeps ==
  ASSUME TypeOK, LockInv, CallInv, ~ raced, Strong,
         NEW p \in Proc, NEW d \in Fd, Mmap(p, d), panic' = panic
  PROVE  TypeOK' /\ LockInv' /\ CallInv' /\ (~ raced' => Strong')
<1>1. /\ disk_map' = disk_map /\ dir' = dir /\ content' = content /\ free_map' = free_map
      /\ inode' = inode /\ open_inodes' = open_inodes /\ fd_table' = fd_table
      /\ next_fd' = next_fd /\ running' = running /\ lost' = lost
      /\ filesys_lock' = filesys_lock
  BY DEF Mmap, disk, inodes, tables
<1>2. /\ pc[p] = "user" /\ pc' = [pc EXCEPT ![p] = "get_open"]
      /\ at' = [at EXCEPT ![p] = [Idle EXCEPT !.op = "mmap", !.i = fd_table[p][d].inode]]
      /\ fd_table[p][d] # NULL
  BY DEF Mmap, Begin, Goto, Local
<1>3. /\ at[p] = Idle /\ fd_table[p][d].inode \in Inode /\ at[p].op = "none"
  BY <1>2, Nulls DEF TypeOK, CallInv, CallOf, File, Idle
<1>4. at[p] \in Locals
  BY DEF TypeOK
<1>5. [Idle EXCEPT !.op = "mmap", !.i = fd_table[p][d].inode] \in Locals
  BY <1>2, <1>3, <1>4, IdleIsLocal, Nulls DEF Locals, Op
<1>6. /\ pc'[p] = "get_open" /\ at'[p].op = "mmap" /\ at'[p].name = NULL /\ at'[p].sector = 0
      /\ at'[p].i = fd_table[p][d].inode /\ at'[p].num = 0 /\ at'[p].snap = {}
      /\ at'[p].new = {} /\ at'[p].fd = 0 /\ at'[p].next = "user" /\ OthersStay(p)
  BY <1>2, <1>4, <1>5 DEF TypeOK, Locals, OthersStay, Idle
<1>7. FilesStay
  BY <1>1 DEF FilesStay, InodesStay, SameFile
<1>8. TypeOK'
  <2>1. pc' \in [Proc -> Label]
    BY <1>2, <1>3 DEF TypeOK, Label
  <2>2. at' \in [Proc -> Locals]
    BY <1>2, <1>5 DEF TypeOK
  <2> QED BY <2>1, <2>2, FilesAssumption DEF TypeOK, Mmap, Begin, disk, inodes, tables, health
<1>9. LockInv'
  BY <1>1, <1>2 DEF LockInv, Holds, Without, TypeOK
<1>10. CallInv'
  <2> SUFFICES ASSUME NEW q \in Proc PROVE CallOf(q)'
    BY DEF CallInv
  <2>1. CASE q = p
    BY <1>2, <1>3 DEF CallInv, CallOf, Opens, Closing, TypeOK
  <2>2. CASE q # p
    BY <1>6, <2>2 DEF OthersStay, CallInv, CallOf
  <2> QED BY <2>1, <2>2
<1> SUFFICES ASSUME ~ raced' PROVE Strong'
  BY <1>8, <1>9, <1>10
<1>11. ForkInv'
  BY <1>1, <1>2, <1>3, <1>6, <1>8, ForkKept DEF Strong, Opens
<1>12. FileInv'
  BY <1>1, <1>2 DEF OthersStay, Strong, FileInv, FileOf
<1>13. CountInv'
  <2> SUFFICES ASSUME NEW i \in Inode PROVE CountOf(i)'
    BY DEF CountInv
  <2>1. \A x \in Proc, k \in Place : Refers(x, k, i)' <=> Refers(x, k, i)
    BY <1>1, <1>2 DEF Refers, CountedDown, Transit, Releasing
  <2>2. \A x \in Proc : Denies(x, i)' <=> Denies(x, i)
    BY <1>1, <1>2, <1>3 DEF OthersStay, Denies, CallInv, CallOf, Opens
  <2>3. CountOf(i)
    BY DEF Strong, CountInv
  <2> QED BY <1>1, <2>1, <2>2, <2>3, RefsKept, DeniersKept DEF CountOf, OpenCount, DenyCount
<1>14. CounterInv'
  BY <1>1, <1>2, <1>3 DEF OthersStay, Strong, CounterInv, CounterOf, Counting
<1>15. ListInv'
  BY <1>1, <1>2, <1>3 DEF Strong, ListInv, ListOf, Ends, Releasing, Opens
<1>16. NameInv'
  BY <1>6, <1>7, NameKept DEF Strong, Opens, Opening, FilesStay
<1>17. OwnerInv'
  BY <1>1, <1>2, <1>3, <1>6, <1>7, OwnerKept DEF Strong, Freeing, Opens, Idle
<1>18. ContentInv'
  BY <1>1, <1>2, <1>3, <1>4, <1>5, <1>6, <1>7, Nulls, <1>10, ContentKept
     DEF Strong, ListedInUse, ListInv, ListOf, TypeOK, Opens, Idle
<1>19. MapInv'
  BY <1>1, <1>2 DEF OthersStay, Strong, MapInv, New
<1> QED BY <1>11, <1>12, <1>13, <1>14, <1>15, <1>16, <1>17, <1>18, <1>19 DEF Strong

(* close begins with the file of a descriptor. *)
LEMMA CloseKeeps ==
  ASSUME TypeOK, LockInv, CallInv, ~ raced, Strong,
         NEW p \in Proc, NEW d \in Fd, Close(p, d), panic' = panic
  PROVE  TypeOK' /\ LockInv' /\ CallInv' /\ (~ raced' => Strong')
<1>1. /\ disk_map' = disk_map /\ dir' = dir /\ content' = content /\ free_map' = free_map
      /\ inode' = inode /\ open_inodes' = open_inodes /\ fd_table' = fd_table
      /\ next_fd' = next_fd /\ running' = running /\ lost' = lost
      /\ filesys_lock' = filesys_lock
  BY DEF Close, disk, inodes, tables, CloseFile
<1>2. /\ pc[p] = "user" /\ pc' = [pc EXCEPT ![p] = "get_close"]
      /\ at' = [at EXCEPT ![p] = [Idle EXCEPT !.op = "close", !.i = fd_table[p][d].inode,
           !.fd = d]]
      /\ fd_table[p][d] # NULL
  BY DEF Close, Runs, Begin, Goto, Local, disk, inodes, tables, health, CloseFile, Strong,
         FileInv, FileOf
<1>3. /\ at[p] = Idle /\ fd_table[p][d].inode \in Inode /\ at[p].op = "none"
  BY <1>2, Nulls DEF TypeOK, CallInv, CallOf, File, Idle
<1>4. at[p] \in Locals
  BY DEF TypeOK
<1>5. [Idle EXCEPT !.op = "close", !.i = fd_table[p][d].inode, !.fd = d] \in Locals
  BY <1>2, <1>3, <1>4, IdleIsLocal, Nulls DEF Locals, Op
<1>6. /\ pc'[p] = "get_close" /\ at'[p].op = "close" /\ at'[p].name = NULL
      /\ at'[p].sector = 0 /\ at'[p].i = fd_table[p][d].inode /\ at'[p].num = 0
      /\ at'[p].snap = {} /\ at'[p].new = {} /\ at'[p].fd = d /\ at'[p].next = "user"
      /\ OthersStay(p)
  BY <1>2, <1>4, <1>5 DEF TypeOK, Locals, OthersStay, Idle
<1>7. FilesStay
  BY <1>1 DEF FilesStay, InodesStay, SameFile
<1>8. TypeOK'
  <2>1. pc' \in [Proc -> Label]
    BY <1>2, <1>3 DEF TypeOK, Label
  <2>2. at' \in [Proc -> Locals]
    BY <1>2, <1>5 DEF TypeOK
  <2> QED BY <2>1, <2>2, FilesAssumption
             DEF TypeOK, Close, Begin, disk, inodes, tables, health, CloseFile
<1>9. LockInv'
  BY <1>1, <1>2 DEF LockInv, Holds, Without, TypeOK
<1>10. CallInv'
  <2> SUFFICES ASSUME NEW q \in Proc PROVE CallOf(q)'
    BY DEF CallInv
  <2>1. CASE q = p
    BY <1>2, <1>3 DEF CallInv, CallOf, Opens, TypeOK
  <2>2. CASE q # p
    BY <1>6, <2>2 DEF OthersStay, CallInv, CallOf
  <2> QED BY <2>1, <2>2
<1> SUFFICES ASSUME ~ raced' PROVE Strong'
  BY <1>8, <1>9, <1>10
<1>11. ForkInv'
  BY <1>1, <1>2, <1>3, <1>6, <1>8, ForkKept DEF Strong, Opens
<1>12. FileInv'
  BY <1>1, <1>2 DEF OthersStay, Strong, FileInv, FileOf
<1>13. CountInv'
  <2> SUFFICES ASSUME NEW i \in Inode PROVE CountOf(i)'
    BY DEF CountInv
  <2>1. \A x \in Proc, k \in Place : Refers(x, k, i)' <=> Refers(x, k, i)
    BY <1>1, <1>2, <1>3 DEF Refers, CountedDown, Transit, Releasing
  <2>2. \A x \in Proc : Denies(x, i)' <=> Denies(x, i)
    BY <1>1, <1>2, <1>3 DEF OthersStay, Denies, CallInv, CallOf, Opens
  <2>3. CountOf(i)
    BY DEF Strong, CountInv
  <2> QED BY <1>1, <2>1, <2>2, <2>3, RefsKept, DeniersKept DEF CountOf, OpenCount, DenyCount
<1>14. CounterInv'
  BY <1>1, <1>2 DEF OthersStay, Strong, CounterInv, CounterOf, Counting
<1>15. ListInv'
  BY <1>1, <1>2 DEF Strong, ListInv, ListOf, Ends, Releasing, Opening
<1>16. NameInv'
  BY <1>6, <1>7, NameKept DEF Strong, Opens, Opening, FilesStay
<1>17. OwnerInv'
  BY <1>1, <1>2, <1>3, <1>6, <1>7, OwnerKept DEF Strong, Freeing, Opens, Idle
<1>18. ContentInv'
  BY <1>1, <1>2, <1>3, <1>4, <1>5, <1>6, <1>7, Nulls, <1>10, ContentKept
     DEF Strong, ListedInUse, ListInv, ListOf, TypeOK, Opens, Idle
<1>19. MapInv'
  BY <1>1, <1>2 DEF OthersStay, Strong, MapInv, New
<1> QED BY <1>11, <1>12, <1>13, <1>14, <1>15, <1>16, <1>17, <1>18, <1>19 DEF Strong

(* load ends after the writes were denied. *)
LEMMA DeniedEndsKeeps ==
  ASSUME TypeOK, LockInv, CallInv, ~ raced, Strong,
         NEW p \in Proc, NEW l \in {"user", "exit"}, Denied(p), panic' = panic, pc'[p] = l
  PROVE  TypeOK' /\ LockInv' /\ CallInv' /\ (~ raced' => Strong')
<1>1. /\ disk_map' = disk_map /\ dir' = dir /\ content' = content /\ free_map' = free_map
      /\ inode' = inode /\ open_inodes' = open_inodes /\ fd_table' = fd_table
      /\ next_fd' = next_fd /\ running' = running /\ lost' = lost
      /\ filesys_lock' = filesys_lock
  BY Nulls DEF Denied, disk, inodes, tables, Panic
<1>2. /\ pc[p] = "denied" /\ pc' = [pc EXCEPT ![p] = l] /\ at' = [at EXCEPT ![p] = Idle]
  BY Nulls DEF Denied, At, Goto, Local, Leave, Panic
<1>3. /\ at[p].op = "load"
  BY <1>2, Nulls DEF CallInv, CallOf
<1>4. at[p] \in Locals
  BY DEF TypeOK
<1>5. Idle \in Locals
  BY IdleIsLocal DEF Locals
<1>6. /\ pc'[p] = l /\ at'[p] = Idle /\ at'[p].op = "none" /\ at'[p].name = NULL
      /\ at'[p].sector = 0 /\ at'[p].i = NULL /\ at'[p].num = 0 /\ at'[p].snap = {}
      /\ at'[p].new = {} /\ at'[p].fd = 0 /\ at'[p].next = "user" /\ OthersStay(p)
  BY <1>2, <1>4, <1>5 DEF TypeOK, Locals, OthersStay, Idle
<1>7. FilesStay
  BY <1>1 DEF FilesStay, InodesStay, SameFile
<1>8. TypeOK'
  <2>1. pc' \in [Proc -> Label]
    BY <1>2, <1>3 DEF TypeOK, Label
  <2>2. at' \in [Proc -> Locals]
    BY <1>2, <1>5 DEF TypeOK
  <2> QED BY <2>1, <2>2 DEF TypeOK, Denied, At, disk, inodes, tables, health, Panic
<1>9. LockInv'
  BY <1>1, <1>2, <1>6 DEF LockInv, Holds, Without
<1>10. CallInv'
  <2> SUFFICES ASSUME NEW q \in Proc PROVE CallOf(q)'
    BY DEF CallInv
  <2>1. CASE q = p
    BY <1>2, <2>1 DEF CallOf, Opens, Closing, Idle, TypeOK
  <2>2. CASE q # p
    BY <1>6, <2>2 DEF OthersStay, CallInv, CallOf
  <2> QED BY <2>1, <2>2
<1> SUFFICES ASSUME ~ raced' PROVE Strong'
  BY <1>8, <1>9, <1>10
<1>11. ForkInv'
  BY <1>1, <1>2, <1>3, <1>6, <1>8, ForkKept DEF Strong, Opens
<1>12. FileInv'
  BY <1>1, <1>6, FileKept DEF Strong, Opens
<1>13. CountInv'
  <2> SUFFICES ASSUME NEW i \in Inode PROVE CountOf(i)'
    BY DEF CountInv
  <2>1. \A x \in Proc, k \in Place : Refers(x, k, i)' <=> Refers(x, k, i)
    BY <1>1, <1>2 DEF Refers, CountedDown, Transit, Releasing
  <2>2. \A x \in Proc : Denies(x, i)' <=> Denies(x, i)
    BY <1>1, <1>2, <1>6 DEF OthersStay, Denies, CallInv, CallOf, Opens
  <2>3. CountOf(i)
    BY DEF Strong, CountInv
  <2> QED BY <1>1, <2>1, <2>2, <2>3, RefsKept, DeniersKept DEF CountOf, OpenCount, DenyCount
<1>14. CounterInv'
  BY <1>1, <1>2 DEF OthersStay, Strong, CounterInv, CounterOf, Counting
<1>15. ListInv'
  BY <1>1, <1>2 DEF Strong, ListInv, ListOf, Ends, Releasing, Opening
<1>16. NameInv'
  BY <1>6, <1>7, NameKept DEF Strong, Opens, Opening, FilesStay
<1>17. OwnerInv'
  BY <1>1, <1>2, <1>3, <1>6, <1>7, OwnerKept DEF Strong, Freeing, Opens, Idle
<1>18. ContentInv'
  BY <1>1, <1>2, <1>3, <1>4, <1>5, <1>6, <1>7, Nulls, <1>10, ContentKept
     DEF Strong, ListedInUse, ListInv, ListOf, TypeOK, Opens, Idle
<1>19. MapInv'
  BY <1>1, <1>2 DEF OthersStay, Strong, MapInv, New
<1> QED BY <1>11, <1>12, <1>13, <1>14, <1>15, <1>16, <1>17, <1>18, <1>19 DEF Strong

(* A write goes to the data of an open inode, which is no header. *)
LEMMA WriteKeeps ==
  ASSUME TypeOK, LockInv, CallInv, ~ raced, Strong,
         NEW p \in Proc, NEW d \in Fd, Write(p, d), panic' = panic
  PROVE  TypeOK' /\ LockInv' /\ CallInv' /\ (~ raced' => Strong')
<1>1. /\ disk_map' = disk_map /\ dir' = dir /\ free_map' = free_map /\ inode' = inode
      /\ open_inodes' = open_inodes /\ fd_table' = fd_table /\ next_fd' = next_fd
      /\ running' = running /\ lost' = lost /\ filesys_lock' = filesys_lock
  BY Nulls DEF Write, inodes, tables
<1>2. /\ pc[p] = "user" /\ pc' = pc /\ at' = at /\ fd_table[p][d] # NULL
      /\ filesys_lock = NULL
      /\ \A s \in Sector : s \notin Data(inode[fd_table[p][d].inode].data) =>
           content'[s] = content[s]
      /\ \E v \in {ZERO, ANY} : content' = [s \in Sector |->
           IF s \in Data(inode[fd_table[p][d].inode].data) THEN v ELSE content[s]]
  BY Nulls DEF Write, Begin
<1>3. /\ at[p] = Idle /\ at[p].op = "none" /\ at[p].i = NULL /\ fd_table[p][d].inode \in Inode
  BY <1>2, Nulls DEF TypeOK, CallInv, CallOf, File, Idle
<1>4. /\ OthersStay(p)
  BY <1>2 DEF TypeOK, OthersStay
<1>5. Refers(p, d, fd_table[p][d].inode) /\ d \in Place
  BY <1>2 DEF Refers, CountedDown, Releasing, Place
<1>6. /\ fd_table[p][d].inode \in open_inodes /\ inode[fd_table[p][d].inode] \in Struct
  BY <1>3, <1>5, ReferredIsOpen DEF Strong
<1>7. PICK j \in open_inodes : j = fd_table[p][d].inode
  BY <1>6
<1>8. \A q \in Proc : at[q].op # "create" /\ pc[q] # "read_inode"
  BY <1>2, Nulls DEF LockInv, Holds, Opening, Opens, CallInv, CallOf
<1>9. /\ inode[j].data # NULL /\ j \in Inode /\ inode[j] # NULL
  BY <1>3, <1>7, <1>8 DEF Strong, ListInv, ListOf
<1>10. inode[j].sector \notin Data(inode[j].data)
  BY <1>9 DEF Strong, ContentInv
<1>11. /\ \A e \in Entry : dir[e] # NULL => dir[e].sector \notin Data(inode[j].data)
      /\ \A h \in open_inodes : inode[h].sector \notin Data(inode[j].data)
  BY <1>9, WritesMissHeaders
<1>12. InodesStay
  BY <1>1 DEF FilesStay, InodesStay, SameFile
<1>13. TypeOK'
  <2>1. pc' \in [Proc -> Label]
    BY <1>2, <1>3 DEF TypeOK, Label
  <2>2. at' \in [Proc -> Locals]
    BY <1>2 DEF TypeOK
  <2>3. content' \in [Sector -> Header \cup {ZERO, ANY}]
    BY <1>2 DEF TypeOK
  <2> QED BY FilesAssumption DEF TypeOK, Write, Begin, inodes, tables, health
<1>14. LockInv'
  BY <1>1, <1>2 DEF LockInv, Holds, Without
<1>15. CallInv'
  BY <1>2 DEF CallInv, CallOf
<1> SUFFICES ASSUME ~ raced' PROVE Strong'
  BY <1>13, <1>14, <1>15
<1>16. ForkInv'
  BY <1>1, <1>2, <1>4, <1>13, ForkKept DEF Strong, Opens
<1>17. FileInv'
  BY <1>1, <1>2 DEF Strong, FileInv, FileOf
<1>18. CountInv'
  <2> SUFFICES ASSUME NEW i \in Inode PROVE CountOf(i)'
    BY DEF CountInv
  <2>1. \A x \in Proc, k \in Place : Refers(x, k, i)' <=> Refers(x, k, i)
    BY <1>1, <1>2 DEF Refers, CountedDown, Transit
  <2>2. \A x \in Proc : Denies(x, i)' <=> Denies(x, i)
    BY <1>1, <1>2 DEF OthersStay, Denies, CallInv, CallOf, Opens
  <2>3. CountOf(i)
    BY DEF Strong, CountInv
  <2> QED BY <1>1, <2>1, <2>2, <2>3, RefsKept, DeniersKept DEF CountOf, OpenCount, DenyCount
<1>19. CounterInv'
  BY <1>1, <1>2 DEF OthersStay, Strong, CounterInv, CounterOf, Counting
<1>20. ListInv'
  BY <1>1, <1>2 DEF Strong, ListInv, ListOf, Ends
<1>21. NameInv'
  BY <1>1, <1>2, <1>4, <1>12, NameKept DEF Strong, Opens, Opening, FilesStay
<1>22. OwnerInv'
  <2> SUFFICES ASSUME NEW s \in Sector
               PROVE  \/ NoOwner(s)'
                      \/ /\ \A x \in Entry : EntryHas(x, s)' => EntryHas(x, s)
                         /\ \A y \in Inode : InodeHas(y, s)' => InodeHas(y, s)
                         /\ (CreateHas(p, s)' => CreateHas(p, s)) \/ NoOwner(s)
                         /\ CreateHas(p, s)' \/ s \in free_map => s \in free_map'
    BY <1>4, OwnerStep DEF Strong
  <2>1. \A i \in Inode : InodeHas(i, s)' <=> InodeHas(i, s)
    BY <1>1, <1>2, <1>3, <1>4, Nulls, RemovedKept DEF SameFile
  <2>2. \A x \in Entry : EntryHas(x, s)' <=> EntryHas(x, s)
    BY <1>1, <1>2, <1>3, <1>4, <1>5, <1>6, <1>7, <1>8, <1>9, <1>10, <1>11, <1>12, Nulls
       DEF EntryHas, Storage, Data, TypeOK, DirEntry
  <2>3. CreateHas(p, s)' <=> CreateHas(p, s)
    BY <1>2, <1>3, <1>4, CreatesKept
  <2>4. CreateHas(p, s) => s \in free_map
    BY DEF Strong, OwnerInv, OwnerOf
  <2> QED BY <1>1, <2>1, <2>2, <2>3, <2>4
<1>23. ContentInv'
  <2>1. ~ WithData(p)'
    BY <1>2 DEF WithData
  <2> QED BY <1>1, <1>2, <1>3, <1>4, <1>5, <1>6, <1>7, <1>8, <1>9, <1>10, <1>11, <1>12, Nulls,
             <2>1, ContentStep, <1>13
<1>24. MapInv'
  BY <1>1, <1>2 DEF OthersStay, Strong, MapInv, New
<1> QED BY <1>16, <1>17, <1>18, <1>19, <1>20, <1>21, <1>22, <1>23, <1>24 DEF Strong

(* mmap's reference becomes one that nobody will drop. *)
LEMMA MmapDoneKeeps ==
  ASSUME TypeOK, LockInv, CallInv, ~ raced, Strong, NEW p \in Proc, MmapDone(p), panic' = panic
  PROVE  TypeOK' /\ LockInv' /\ CallInv' /\ (~ raced' => Strong')
<1>1. /\ disk_map' = disk_map /\ dir' = dir /\ content' = content /\ free_map' = free_map
      /\ inode' = inode /\ open_inodes' = open_inodes /\ fd_table' = fd_table
      /\ next_fd' = next_fd /\ running' = running /\ filesys_lock' = filesys_lock
  BY DEF MmapDone, disk, inodes
<1>2. /\ pc[p] = "opened" /\ pc' = [pc EXCEPT ![p] = "user"] /\ at' = [at EXCEPT ![p] = Idle]
      /\ at[p].op = "mmap" /\ lost' = [lost EXCEPT ![at[p].i].refs = @ + 1]
  BY DEF MmapDone, At, Goto, Local, Leave, Me
<1>3. /\ at[p].i \in Inode
  BY <1>2, Nulls DEF CallInv, CallOf
<1>4. at[p] \in Locals
  BY DEF TypeOK
<1>5. Idle \in Locals
  BY IdleIsLocal DEF Locals
<1>6. /\ pc'[p] = "user" /\ at'[p] = Idle /\ at'[p].op = "none" /\ at'[p].name = NULL
      /\ at'[p].sector = 0 /\ at'[p].i = NULL /\ at'[p].num = 0 /\ at'[p].snap = {}
      /\ at'[p].new = {} /\ at'[p].fd = 0 /\ at'[p].next = "user" /\ OthersStay(p)
  BY <1>2, <1>4, <1>5 DEF TypeOK, Locals, OthersStay, Idle
<1>7. /\ lost'[at[p].i] = [lost[at[p].i] EXCEPT !.refs = lost[at[p].i].refs + 1]
      /\ lost[at[p].i] \in [refs : Nat, denies : Nat]
  BY <1>1, <1>2, <1>3, <1>4, <1>5, <1>6, Nulls DEF TypeOK
<1>8. /\ lost'[at[p].i].refs = lost[at[p].i].refs + 1
      /\ lost'[at[p].i].denies = lost[at[p].i].denies
      /\ lost'[at[p].i] \in [refs : Nat, denies : Nat]
  BY <1>7
<1>9. \A j \in Inode : j # at[p].i => lost'[j] = lost[j]
  BY <1>2 DEF TypeOK
<1>10. FilesStay
  BY <1>1 DEF FilesStay, InodesStay, SameFile
<1>11. TypeOK'
  <2>1. pc' \in [Proc -> Label]
    BY <1>2, <1>3 DEF TypeOK, Label
  <2>2. at' \in [Proc -> Locals]
    BY <1>2, <1>5 DEF TypeOK
  <2>3. lost' \in [Inode -> [refs : Nat, denies : Nat]]
    BY <1>2, <1>7, <1>8 DEF TypeOK
  <2> QED BY <2>1, <2>2, <2>3 DEF TypeOK, MmapDone, At, disk, inodes, health
<1>12. LockInv'
  BY <1>1, <1>2, <1>6 DEF LockInv, Holds, Without
<1>13. CallInv'
  <2> SUFFICES ASSUME NEW q \in Proc PROVE CallOf(q)'
    BY DEF CallInv
  <2>1. CASE q = p
    BY <1>2 DEF CallInv, CallOf, Opens, Closing, Idle, TypeOK
  <2>2. CASE q # p
    BY <1>6, <2>2 DEF OthersStay, CallInv, CallOf
  <2> QED BY <2>1, <2>2
<1> SUFFICES ASSUME ~ raced' PROVE Strong'
  BY <1>11, <1>12, <1>13
<1>14. ForkInv'
  BY <1>1, <1>2, <1>6, <1>11, ForkKept DEF Strong, Opens
<1>15. FileInv'
  BY <1>1, <1>6, FileKept DEF Strong, Opens
<1>16. CountInv'
  <2> SUFFICES ASSUME NEW i \in Inode PROVE CountOf(i)'
    BY DEF CountInv
  <2>1. CountOf(i)
    BY DEF Strong, CountInv
  <2>2. OpenCount(i)' = OpenCount(i) /\ DenyCount(i)' = DenyCount(i)
    BY <1>1 DEF OpenCount, DenyCount
  <2>3. \A x \in Proc : Denies(x, i)' <=> Denies(x, i)
    BY <1>1, <1>2, <1>6 DEF Denies
  <2>4. Cardinality(Deniers(i)') = Cardinality(Deniers(i))
    BY <2>3, DeniersKept
  <2>5. CASE i # at[p].i
    <3>1. \A x \in Proc, k \in Place : Refers(x, k, i)' <=> Refers(x, k, i)
      BY <1>1, <1>2, <1>6, <2>5 DEF Refers, CountedDown, Transit
    <3> QED BY <1>2, <2>1, <2>2, <2>4, <2>5, <3>1, RefsKept DEF CountOf
  <2>6. CASE i = at[p].i
    <3>1. Refers(p, 1, i) /\ ~ Refers(p, 1, i)' /\ 1 \in Place
      BY <1>2, <1>6, Nulls, <2>6 DEF Refers, Transit, Place
    <3>2. \A x \in Proc, l \in Place : << x, l >> # << p, 1 >> => (Refers(x, l, i)' <=>
            Refers(x, l, i))
      BY <1>1, <1>2 DEF Refers, CountedDown, Transit, Releasing
    <3>3. Cardinality(Refs(i)') = Cardinality(Refs(i)) - 1
      BY <3>1, <3>2, RefsShrink
    <3> QED BY <1>7, <2>1, <2>2, <2>4, <2>6, <3>3, FiniteRefs DEF CountOf
  <2> QED BY <2>5, <2>6
<1>17. CounterInv'
  BY <1>1, <1>2 DEF OthersStay, Strong, CounterInv, CounterOf, Counting
<1>18. ListInv'
  BY <1>1, <1>2, <1>6 DEF Strong, ListInv, ListOf, Ends, Releasing, Opening
<1>19. NameInv'
  BY <1>6, <1>10, NameKept DEF Strong, Opens, Opening, FilesStay
<1>20. OwnerInv'
  BY <1>1, <1>2, <1>6, <1>10, OwnerKept DEF Strong, Freeing, Opens, Idle
<1>21. ContentInv'
  BY <1>1, <1>2, <1>3, <1>4, <1>5, <1>6, <1>7, <1>8, <1>9, <1>10, Nulls, <1>13, ContentKept
     DEF Strong, ListedInUse, ListInv, ListOf, TypeOK, Opens, Idle
<1>22. MapInv'
  BY <1>1, <1>2 DEF OthersStay, Strong, MapInv, New
<1> QED BY <1>14, <1>15, <1>16, <1>17, <1>18, <1>19, <1>20, <1>21, <1>22 DEF Strong

(* open's reference becomes that of a descriptor. *)
LEMMA AddFileFoundKeeps ==
  ASSUME TypeOK, LockInv, CallInv, ~ raced, Strong,
         NEW p \in Proc, AddFile(p), panic' = panic, FreeFds(p) # {}
  PROVE  TypeOK' /\ LockInv' /\ CallInv' /\ (~ raced' => Strong')
<1>1. /\ disk_map' = disk_map /\ dir' = dir /\ content' = content /\ free_map' = free_map
      /\ inode' = inode /\ open_inodes' = open_inodes /\ running' = running /\ lost' = lost
  BY Nulls DEF AddFile, disk, inodes
<1>2. /\ pc[p] = "opened" /\ pc' = [pc EXCEPT ![p] = "user"] /\ at' = [at EXCEPT ![p] = Idle]
      /\ at[p].op = "open" /\ filesys_lock' = NULL
      /\ next_fd' = [next_fd EXCEPT ![p] = Min(FreeFds(p))]
      /\ fd_table' = [fd_table EXCEPT ![p][Min(FreeFds(p))] = [inode |-> at[p].i, deny |-> FALSE]]
  BY Nulls DEF AddFile, At, Goto, Local, Leave, Me
<1>3. /\ at[p].i \in Inode /\ filesys_lock = p
  BY <1>2, Nulls DEF CallInv, CallOf, LockInv, Holds
<1>4. at[p] \in Locals
  BY DEF TypeOK
<1>5. Idle \in Locals
  BY IdleIsLocal DEF Locals
<1>6. /\ pc'[p] = "user" /\ at'[p] = Idle /\ at'[p].op = "none" /\ at'[p].name = NULL
      /\ at'[p].sector = 0 /\ at'[p].i = NULL /\ at'[p].num = 0 /\ at'[p].snap = {}
      /\ at'[p].new = {} /\ at'[p].fd = 0 /\ at'[p].next = "user" /\ OthersStay(p)
  BY <1>2, <1>4, <1>5 DEF TypeOK, Locals, OthersStay, Idle
<1>7. PICK f \in Fd : f = Min(FreeFds(p)) /\ fd_table[p][f] = NULL
  BY FreeFd
<1>8. /\ [inode |-> at[p].i, deny |-> FALSE] \in File
      /\ [inode |-> at[p].i, deny |-> FALSE] # NULL
  <2>1. [inode |-> at[p].i, deny |-> FALSE] \in File
    BY <1>3 DEF File
  <2> QED BY <2>1, Nulls
<1>9. /\ fd_table'[p] = [fd_table[p] EXCEPT ![f] = [inode |-> at[p].i, deny |-> FALSE]]
      /\ \A q \in Proc : q # p => fd_table'[q] = fd_table[q]
  BY <1>2, <1>7 DEF TypeOK
<1>10. /\ fd_table'[p][f] = [inode |-> at[p].i, deny |-> FALSE]
      /\ fd_table'[p][f].inode = at[p].i /\ ~ fd_table'[p][f].deny
      /\ \A h \in Fd : h # f => fd_table'[p][h] = fd_table[p][h]
  BY <1>2, <1>7 DEF TypeOK
<1>11. \A q \in Proc : at'[q].op = "fork" => at[q].op = "fork" /\ q # p /\ at[q].name # p
  BY <1>2, <1>6 DEF OthersStay, Strong, ForkInv, ForkOf
<1>12. FilesStay
  BY <1>1 DEF FilesStay, InodesStay, SameFile
<1>13. TypeOK'
  <2>1. pc' \in [Proc -> Label]
    BY <1>2, <1>3 DEF TypeOK, Label
  <2>2. at' \in [Proc -> Locals]
    BY <1>2, <1>5 DEF TypeOK
  <2>3. fd_table' \in [Proc -> [Fd -> File \cup {NULL}]]
    BY <1>2, <1>7, <1>8 DEF TypeOK
  <2>4. next_fd' \in [Proc -> Fd]
    BY <1>2, <1>7 DEF TypeOK
  <2>5. filesys_lock' \in Proc \cup {NULL}
    BY DEF AddFile
  <2> QED BY <2>1, <2>2, <2>3, <2>4 DEF TypeOK, AddFile, At, disk, inodes, health
<1>14. LockInv'
  BY <1>2, <1>6, Nulls DEF LockInv, Holds
<1>15. CallInv'
  <2> SUFFICES ASSUME NEW q \in Proc PROVE CallOf(q)'
    BY DEF CallInv
  <2>1. CASE q = p
    BY <1>2 DEF CallInv, CallOf, Opens, Closing, Idle, TypeOK
  <2>2. CASE q # p
    BY <1>6, <2>2 DEF OthersStay, CallInv, CallOf
  <2> QED BY <2>1, <2>2
<1> SUFFICES ASSUME ~ raced' PROVE Strong'
  BY <1>13, <1>14, <1>15
<1>16. ForkInv'
  BY <1>1, <1>2, <1>6, ForkKept, <1>13 DEF Strong, Opens
<1>17. FileInv'
  <2> SUFFICES ASSUME NEW q \in Proc PROVE FileOf(q)'
    BY DEF FileInv
  <2>1. FileOf(q)
    BY DEF Strong, FileInv
  <2>2. CASE q = p
    BY <1>1, <1>2, <1>6, <2>1 DEF FileOf
  <2>3. CASE q # p
    BY <1>1, <1>2, <1>6, <2>1 DEF FileOf, OthersStay
  <2> QED BY <2>2, <2>3
<1>18. CountInv'
  <2> SUFFICES ASSUME NEW i \in Inode PROVE CountOf(i)'
    BY DEF CountInv
  <2>1. CountOf(i)
    BY DEF Strong, CountInv
  <2>2. OpenCount(i)' = OpenCount(i) /\ DenyCount(i)' = DenyCount(i)
    BY <1>1 DEF OpenCount, DenyCount
  <2>3. \A x \in Proc : Denies(x, i)' <=> Denies(x, i)
    BY <1>1, <1>2, <1>6 DEF Denies
  <2>4. Cardinality(Deniers(i)') = Cardinality(Deniers(i))
    BY <2>3, DeniersKept
  <2>5. CASE i # at[p].i
    <3>1. \A x \in Proc, k \in Place : Refers(x, k, i)' <=> Refers(x, k, i)
      BY <1>1, <1>2, <1>6, <1>7, <2>5 DEF Refers, CountedDown, Transit
    <3> QED BY <1>1, <2>1, <2>2, <2>4, <3>1, RefsKept DEF CountOf
  <2>6. CASE i = at[p].i
    <3>1. /\ Refers(p, 1, i) /\ ~ Refers(p, 1, i)' /\ 1 \in Place
          /\ ~ Refers(p, f, i) /\ Refers(p, f, i)' /\ f \in Place /\ 1 # f
      BY <1>2, <1>6, <1>7, <1>8, <1>10, Nulls, <2>6 DEF Refers, Transit, Place
    <3>2. \A x \in Proc, l \in Place : << x, l >> \notin {<< p, 1 >>, << p, f >>} =>
            (Refers(x, l, i)' <=> Refers(x, l, i))
      BY <1>1, <1>2, <1>7 DEF Refers, CountedDown, Transit, Releasing
    <3>3. Cardinality(Refs(i)') = Cardinality(Refs(i))
      BY <3>1, <3>2, RefsMove
    <3> QED BY <1>1, <2>1, <2>2, <2>4, <3>3 DEF CountOf
  <2> QED BY <2>5, <2>6
<1>19. CounterInv'
  BY <1>1, <1>2 DEF OthersStay, Strong, CounterInv, CounterOf, Counting
<1>20. ListInv'
  BY <1>1, <1>2, <1>6 DEF Strong, ListInv, ListOf, Ends, Releasing, Opening
<1>21. NameInv'
  BY <1>6, <1>12, NameKept DEF Strong, Opens, Opening, FilesStay
<1>22. OwnerInv'
  BY <1>1, <1>2, <1>6, <1>12, OwnerKept DEF Strong, Freeing, Opens, Idle
<1>23. ContentInv'
  BY <1>1, <1>2, <1>3, <1>4, <1>5, <1>6, <1>7, <1>8, <1>9, <1>10, <1>11, <1>12, Nulls, <1>15,
     ContentKept
     DEF Strong, ListedInUse, ListInv, ListOf, TypeOK, Opens, Idle
<1>24. MapInv'
  BY <1>1, <1>2 DEF OthersStay, Strong, MapInv, New
<1> QED BY <1>16, <1>17, <1>18, <1>19, <1>20, <1>21, <1>22, <1>23, <1>24 DEF Strong

(* open finds no descriptor and keeps its reference in hand. *)
LEMMA AddFileFullKeeps ==
  ASSUME TypeOK, LockInv, CallInv, ~ raced, Strong,
         NEW p \in Proc, AddFile(p), panic' = panic, FreeFds(p) = {}
  PROVE  TypeOK' /\ LockInv' /\ CallInv' /\ (~ raced' => Strong')
<1>1. /\ disk_map' = disk_map /\ dir' = dir /\ content' = content /\ free_map' = free_map
      /\ inode' = inode /\ open_inodes' = open_inodes /\ fd_table' = fd_table
      /\ next_fd' = next_fd /\ running' = running /\ lost' = lost
  BY DEF AddFile, disk, inodes
<1>2. /\ pc[p] = "opened" /\ pc' = [pc EXCEPT ![p] = "reject"] /\ at' = at
      /\ at[p].op = "open" /\ filesys_lock' = NULL
  BY DEF AddFile, At, Goto, Me
<1>3. /\ at[p].i \in Inode /\ filesys_lock = p
  BY <1>2, Nulls DEF CallInv, CallOf, LockInv, Holds
<1>4. /\ pc'[p] = "reject" /\ OthersStay(p)
  BY <1>2 DEF TypeOK, OthersStay
<1>5. FilesStay
  BY <1>1 DEF FilesStay, InodesStay, SameFile
<1>6. TypeOK'
  <2>1. pc' \in [Proc -> Label]
    BY <1>2, <1>3 DEF TypeOK, Label
  <2>2. at' \in [Proc -> Locals]
    BY <1>2 DEF TypeOK
  <2>3. filesys_lock' \in Proc \cup {NULL}
    BY DEF AddFile
  <2> QED BY <2>1 DEF TypeOK, AddFile, At, disk, inodes, health
<1>7. LockInv'
  BY <1>2, Nulls DEF LockInv, Holds, Opening, TypeOK
<1>8. CallInv'
  <2> SUFFICES ASSUME NEW q \in Proc PROVE CallOf(q)'
    BY DEF CallInv
  <2>1. CASE q = p
    BY <1>2 DEF CallInv, CallOf
  <2>2. CASE q # p
    BY <1>4, <2>2 DEF OthersStay, CallInv, CallOf
  <2> QED BY <2>1, <2>2
<1> SUFFICES ASSUME ~ raced' PROVE Strong'
  BY <1>6, <1>7, <1>8
<1>9. ForkInv'
  BY <1>1, <1>2, <1>4, <1>6, ForkKept DEF Strong, Opens
<1>10. FileInv'
  BY <1>1, <1>2, <1>4, FileKept DEF Strong, Opens
<1>11. CountInv'
  <2> SUFFICES ASSUME NEW i \in Inode PROVE CountOf(i)'
    BY DEF CountInv
  <2>1. \A x \in Proc, k \in Place : Refers(x, k, i)' <=> Refers(x, k, i)
    BY <1>1, <1>2 DEF Refers, CountedDown, Transit
  <2>2. \A x \in Proc : Denies(x, i)' <=> Denies(x, i)
    BY <1>1, <1>2 DEF OthersStay, Denies, CallInv, CallOf, Opens
  <2>3. CountOf(i)
    BY DEF Strong, CountInv
  <2> QED BY <1>1, <2>1, <2>2, <2>3, RefsKept, DeniersKept DEF CountOf, OpenCount, DenyCount
<1>12. CounterInv'
  BY <1>1, <1>2 DEF OthersStay, Strong, CounterInv, CounterOf, Counting
<1>13. ListInv'
  BY <1>1, <1>2 DEF Strong, ListInv, ListOf, Ends, Releasing, Opening
<1>14. NameInv'
  BY <1>4, <1>5, NameKept DEF Strong, Opens, Opening, FilesStay
<1>15. OwnerInv'
  BY <1>1, <1>2, <1>4, <1>5, OwnerKept DEF Strong, Freeing, Opens, Idle
<1>16. ContentInv'
  BY <1>1, <1>2, <1>3, <1>4, <1>5, Nulls, <1>8, ContentKept
     DEF Strong, ListedInUse, ListInv, ListOf, TypeOK, Opens, Idle
<1>17. MapInv'
  BY <1>1, <1>2 DEF OthersStay, Strong, MapInv, New
<1> QED BY <1>9, <1>10, <1>11, <1>12, <1>13, <1>14, <1>15, <1>16, <1>17 DEF Strong

(* The child's reference becomes that of its descriptor. *)
LEMMA DuplicatedKeeps ==
  ASSUME TypeOK, LockInv, CallInv, ~ raced, Strong, NEW p \in Proc, Duplicated(p), panic' = panic
  PROVE  TypeOK' /\ LockInv' /\ CallInv' /\ (~ raced' => Strong')
<1>1. /\ disk_map' = disk_map /\ dir' = dir /\ content' = content /\ free_map' = free_map
      /\ inode' = inode /\ open_inodes' = open_inodes /\ next_fd' = next_fd
      /\ running' = running /\ lost' = lost /\ filesys_lock' = filesys_lock
  BY DEF Duplicated, disk, inodes
<1>2. /\ pc[p] = "opened" /\ pc' = [pc EXCEPT ![p] = "duplicate"]
      /\ at' = [at EXCEPT ![p] = [at[p] EXCEPT !.i = NULL]] /\ at[p].op = "fork"
      /\ fd_table' = [fd_table EXCEPT ![p][at[p].fd] = [inode |-> at[p].i, deny |-> FALSE]]
  BY DEF Duplicated, At, Goto, Local, Me
<1>3. /\ at[p].i \in Inode /\ at[p].fd \in Fd /\ fd_table[p][at[p].fd] = NULL
      /\ running[p] = NULL
  BY <1>2, Nulls DEF CallInv, CallOf, Strong, ForkInv, ForkOf
<1>4. at[p] \in Locals
  BY DEF TypeOK
<1>5. [at[p] EXCEPT !.i = NULL] \in Locals
  BY <1>4 DEF Locals
<1>6. /\ pc'[p] = "duplicate" /\ at'[p].op = at[p].op /\ at'[p].name = at[p].name
      /\ at'[p].sector = at[p].sector /\ at'[p].i = NULL /\ at'[p].num = at[p].num
      /\ at'[p].snap = at[p].snap /\ at'[p].new = at[p].new /\ at'[p].fd = at[p].fd
      /\ at'[p].next = at[p].next /\ OthersStay(p)
  BY <1>2, <1>4, <1>5 DEF TypeOK, Locals, OthersStay, Idle
<1>7. PICK f \in Fd : f = at[p].fd
  BY <1>3
<1>8. /\ [inode |-> at[p].i, deny |-> FALSE] \in File
      /\ [inode |-> at[p].i, deny |-> FALSE] # NULL
  <2>1. [inode |-> at[p].i, deny |-> FALSE] \in File
    BY <1>3 DEF File
  <2> QED BY <2>1, Nulls
<1>9. /\ fd_table'[p] = [fd_table[p] EXCEPT ![f] = [inode |-> at[p].i, deny |-> FALSE]]
      /\ \A q \in Proc : q # p => fd_table'[q] = fd_table[q]
  BY <1>2, <1>7 DEF TypeOK
<1>10. /\ fd_table'[p][f] = [inode |-> at[p].i, deny |-> FALSE]
      /\ fd_table'[p][f].inode = at[p].i /\ ~ fd_table'[p][f].deny
      /\ \A h \in Fd : h # f => fd_table'[p][h] = fd_table[p][h]
  BY <1>2, <1>7 DEF TypeOK
<1>11. FilesStay
  BY <1>1 DEF FilesStay, InodesStay, SameFile
<1>12. TypeOK'
  <2>1. pc' \in [Proc -> Label]
    BY <1>2, <1>3 DEF TypeOK, Label
  <2>2. at' \in [Proc -> Locals]
    BY <1>2, <1>5 DEF TypeOK
  <2>3. fd_table' \in [Proc -> [Fd -> File \cup {NULL}]]
    BY <1>2, <1>3, <1>8 DEF TypeOK
  <2> QED BY <2>1, <2>2, <2>3 DEF TypeOK, Duplicated, At, disk, inodes, health
<1>13. LockInv'
  BY <1>1, <1>2 DEF LockInv, Holds, Without
<1>14. CallInv'
  <2> SUFFICES ASSUME NEW q \in Proc PROVE CallOf(q)'
    BY DEF CallInv
  <2>1. CASE q = p
    BY <1>2, <2>1 DEF CallOf, Opens, Closing, TypeOK
  <2>2. CASE q # p
    BY <1>6, <2>2 DEF OthersStay, CallInv, CallOf
  <2> QED BY <2>1, <2>2
<1> SUFFICES ASSUME ~ raced' PROVE Strong'
  BY <1>12, <1>13, <1>14
<1>15. ForkInv'
  <2> SUFFICES ASSUME NEW q \in Proc PROVE ForkOf(q)'
    BY DEF ForkInv
  <2>1. ForkOf(q)
    BY DEF Strong, ForkInv
  <2>2. CASE q = p
    <3>1. at[p].name # p
      BY <1>2, <2>1, <2>2 DEF ForkOf
    <3> QED BY <1>1, <1>2, <1>6, Nulls, <2>1 DEF ForkOf, OthersStay
  <2>3. CASE q # p
    <3>1. at[q].op = "fork" => at[q].name # p
      BY <1>2, <2>1 DEF ForkOf
    <3> QED BY <1>1, <1>2, <1>6, Nulls, <2>1 DEF ForkOf, OthersStay
  <2> QED BY <2>2, <2>3
<1>16. FileInv'
  <2> SUFFICES ASSUME NEW q \in Proc PROVE FileOf(q)'
    BY DEF FileInv
  <2>1. FileOf(q)
    BY DEF Strong, FileInv
  <2>2. CASE q = p
    BY <1>1, <1>2, <2>1 DEF FileOf
  <2>3. CASE q # p
    BY <1>1, <1>2, <2>1 DEF FileOf, OthersStay
  <2> QED BY <2>2, <2>3
<1>17. CountInv'
  <2> SUFFICES ASSUME NEW i \in Inode PROVE CountOf(i)'
    BY DEF CountInv
  <2>1. CountOf(i)
    BY DEF Strong, CountInv
  <2>2. OpenCount(i)' = OpenCount(i) /\ DenyCount(i)' = DenyCount(i)
    BY <1>1 DEF OpenCount, DenyCount
  <2>3. \A x \in Proc : Denies(x, i)' <=> Denies(x, i)
    BY <1>1, <1>2 DEF Denies
  <2>4. Cardinality(Deniers(i)') = Cardinality(Deniers(i))
    BY <2>3, DeniersKept
  <2>5. CASE i # at[p].i
    <3>1. \A x \in Proc, k \in Place : Refers(x, k, i)' <=> Refers(x, k, i)
      BY <1>1, <1>2, <1>3, <1>6, <2>5 DEF Refers, CountedDown, Transit
    <3> QED BY <1>1, <2>1, <2>2, <2>4, <3>1, RefsKept DEF CountOf
  <2>6. CASE i = at[p].i
    <3>1. /\ Refers(p, 1, i) /\ ~ Refers(p, 1, i)' /\ 1 \in Place
          /\ ~ Refers(p, f, i) /\ Refers(p, f, i)' /\ f \in Place /\ 1 # f
      BY <1>2, <1>3, <1>6, <1>7, <1>8, <1>10, Nulls, <2>6 DEF Refers, CountedDown, Transit, Place
    <3>2. \A x \in Proc, l \in Place : << x, l >> \notin {<< p, 1 >>, << p, f >>} =>
            (Refers(x, l, i)' <=> Refers(x, l, i))
      BY <1>1, <1>2, <1>7 DEF Refers, CountedDown, Transit
    <3>3. Cardinality(Refs(i)') = Cardinality(Refs(i))
      BY <3>1, <3>2, RefsMove
    <3> QED BY <1>1, <2>1, <2>2, <2>4, <3>3 DEF CountOf
  <2> QED BY <2>5, <2>6
<1>18. CounterInv'
  BY <1>1, <1>2 DEF OthersStay, Strong, CounterInv, CounterOf, Counting
<1>19. ListInv'
  BY <1>1, <1>2 DEF Strong, ListInv, ListOf, Ends, Releasing, Opens
<1>20. NameInv'
  BY <1>6, <1>11, NameKept DEF Strong, Opens, Opening, FilesStay
<1>21. OwnerInv'
  BY <1>1, <1>2, <1>6, <1>11, OwnerKept DEF Strong, Freeing, Opens, Idle
<1>22. ContentInv'
  BY <1>1, <1>2, <1>3, <1>4, <1>5, <1>6, <1>7, <1>8, <1>9, <1>10, <1>11, Nulls, <1>14,
     ContentKept
     DEF Strong, ListedInUse, ListInv, ListOf, TypeOK, Opens, Idle
<1>23. MapInv'
  BY <1>1, <1>2 DEF OthersStay, Strong, MapInv, New
<1> QED BY <1>15, <1>16, <1>17, <1>18, <1>19, <1>20, <1>21, <1>22, <1>23 DEF Strong

(* load fails: its reference is one that nobody will drop. *)
LEMMA ReadHeaderFailedKeeps ==
  ASSUME TypeOK, LockInv, CallInv, ~ raced, Strong,
         NEW p \in Proc, ReadHeader(p), panic' = panic, pc'[p] # "get_deny"
  PROVE  TypeOK' /\ LockInv' /\ CallInv' /\ (~ raced' => Strong')
<1>1. /\ disk_map' = disk_map /\ dir' = dir /\ content' = content /\ free_map' = free_map
      /\ inode' = inode /\ open_inodes' = open_inodes /\ fd_table' = fd_table
      /\ next_fd' = next_fd /\ running' = running
  BY Nulls DEF ReadHeader, Goto, disk, inodes, TypeOK
<1>2. /\ pc[p] = "header" /\ pc' = [pc EXCEPT ![p] = "exit"] /\ at' = [at EXCEPT ![p] = Idle]
      /\ filesys_lock = NULL /\ filesys_lock' \in {NULL, p}
      /\ lost' = [lost EXCEPT ![at[p].i] = [refs |-> lost[at[p].i].refs + 1,
           denies |-> lost[at[p].i].denies + 0]]
  BY Nulls DEF ReadHeader, At, Goto, Local, Leave, Me, TypeOK, LoseFile
<1>3. /\ at[p].i \in Inode /\ at[p].op = "load"
  BY <1>2, Nulls DEF CallInv, CallOf
<1>4. at[p] \in Locals
  BY DEF TypeOK
<1>5. Idle \in Locals
  BY IdleIsLocal DEF Locals
<1>6. /\ pc'[p] = "exit" /\ at'[p] = Idle /\ at'[p].op = "none" /\ at'[p].name = NULL
      /\ at'[p].sector = 0 /\ at'[p].i = NULL /\ at'[p].num = 0 /\ at'[p].snap = {}
      /\ at'[p].new = {} /\ at'[p].fd = 0 /\ at'[p].next = "user" /\ OthersStay(p)
  BY <1>2, <1>4, <1>5 DEF TypeOK, Locals, OthersStay, Idle
<1>7. /\ lost'[at[p].i] = [refs |-> lost[at[p].i].refs + 1, denies |-> lost[at[p].i].denies + 0]
      /\ lost[at[p].i] \in [refs : Nat, denies : Nat]
  BY <1>2, <1>3 DEF TypeOK
<1>8. /\ lost'[at[p].i].refs = lost[at[p].i].refs + 1
      /\ lost'[at[p].i].denies = lost[at[p].i].denies + 0
      /\ lost'[at[p].i] \in [refs : Nat, denies : Nat]
  BY <1>7
<1>9. \A x \in Inode : x # at[p].i => lost'[x] = lost[x]
  BY <1>2 DEF TypeOK
<1>10. FilesStay
  BY <1>1 DEF FilesStay, InodesStay, SameFile
<1>11. TypeOK'
  <2>1. pc' \in [Proc -> Label]
    BY <1>2, <1>3 DEF TypeOK, Label
  <2>2. at' \in [Proc -> Locals]
    BY <1>2, <1>5 DEF TypeOK
  <2>3. lost' \in [Inode -> [refs : Nat, denies : Nat]]
    BY <1>2, <1>3 DEF TypeOK
  <2>4. filesys_lock' \in Proc \cup {NULL}
    BY DEF ReadHeader
  <2> QED BY <2>1, <2>2, <2>3 DEF TypeOK, ReadHeader, At, Goto, disk, inodes, health
<1>12. LockInv'
  BY <1>2, <1>6, Nulls DEF LockInv, Holds, Without
<1>13. CallInv'
  <2> SUFFICES ASSUME NEW q \in Proc PROVE CallOf(q)'
    BY DEF CallInv
  <2>1. CASE q = p
    BY <1>2 DEF CallInv, CallOf, Opens, Closing, Idle, TypeOK
  <2>2. CASE q # p
    BY <1>6, <2>2 DEF OthersStay, CallInv, CallOf
  <2> QED BY <2>1, <2>2
<1> SUFFICES ASSUME ~ raced' PROVE Strong'
  BY <1>11, <1>12, <1>13
<1>14. ForkInv'
  BY <1>1, <1>2, <1>3, <1>6, <1>11, ForkKept DEF Strong, Opens
<1>15. FileInv'
  BY <1>1, <1>6, FileKept DEF Strong, Opens
<1>16. CountInv'
  <2> SUFFICES ASSUME NEW i \in Inode PROVE CountOf(i)'
    BY DEF CountInv
  <2>1. CountOf(i)
    BY DEF Strong, CountInv
  <2>2. OpenCount(i)' = OpenCount(i) /\ DenyCount(i)' = DenyCount(i)
    BY <1>1 DEF OpenCount, DenyCount
  <2>3. \A x \in Proc : Denies(x, i)' <=> Denies(x, i)
    BY <1>1, <1>2, <1>6 DEF Denies, CallInv, CallOf
  <2>4. Cardinality(Deniers(i)') = Cardinality(Deniers(i))
    BY <2>3, DeniersKept
  <2>5. CASE i # at[p].i
    <3>1. \A x \in Proc, k \in Place : Refers(x, k, i)' <=> Refers(x, k, i)
      BY <1>1, <1>2, <1>6, <2>5 DEF Refers, CountedDown, Transit, CallInv, CallOf
    <3> QED BY <1>2, <2>1, <2>2, <2>4, <2>5, <3>1, RefsKept DEF CountOf
  <2>6. CASE i = at[p].i
    <3>1. Refers(p, 1, i) /\ ~ Refers(p, 1, i)' /\ 1 \in Place
      BY <1>2, <1>6, Nulls, <2>6 DEF Refers, Transit, Place
    <3>2. \A x \in Proc, l \in Place : << x, l >> # << p, 1 >> => (Refers(x, l, i)' <=>
            Refers(x, l, i))
      BY <1>1, <1>2 DEF Refers, CountedDown, Transit, Releasing
    <3>3. Cardinality(Refs(i)') = Cardinality(Refs(i)) - 1
      BY <3>1, <3>2, RefsShrink
    <3> QED BY <1>7, <2>1, <2>2, <2>4, <2>6, <3>3, FiniteRefs DEF CountOf
  <2> QED BY <2>5, <2>6
<1>17. CounterInv'
  BY <1>1, <1>2 DEF OthersStay, Strong, CounterInv, CounterOf, Counting
<1>18. ListInv'
  BY <1>1, <1>2 DEF Strong, ListInv, ListOf, Ends, Releasing, Opening
<1>19. NameInv'
  BY <1>6, <1>10, NameKept DEF Strong, Opens, Opening, FilesStay
<1>20. OwnerInv'
  BY <1>1, <1>2, <1>3, <1>6, <1>10, OwnerKept DEF Strong, Freeing, Opens, Idle
<1>21. ContentInv'
  BY <1>1, <1>2, <1>3, <1>4, <1>5, <1>6, <1>7, <1>8, <1>9, <1>10, Nulls, <1>13, ContentKept
     DEF Strong, ListedInUse, ListInv, ListOf, TypeOK, Opens, Idle
<1>22. MapInv'
  BY <1>1, <1>2 DEF OthersStay, Strong, MapInv, New
<1> QED BY <1>14, <1>15, <1>16, <1>17, <1>18, <1>19, <1>20, <1>21, <1>22 DEF Strong

(* load succeeds in a process that ran no program of its own: its          *)
(* reference becomes that of the running program.                          *)
LEMMA ReadHeaderFirstKeeps ==
  ASSUME TypeOK, LockInv, CallInv, ~ raced, Strong,
         NEW p \in Proc, ReadHeader(p), panic' = panic, pc'[p] = "get_deny", running[p] = NULL
  PROVE  TypeOK' /\ LockInv' /\ CallInv' /\ (~ raced' => Strong')
<1>1. /\ disk_map' = disk_map /\ dir' = dir /\ content' = content /\ free_map' = free_map
      /\ inode' = inode /\ open_inodes' = open_inodes /\ fd_table' = fd_table
      /\ next_fd' = next_fd /\ lost' = lost /\ filesys_lock' = filesys_lock
  BY Nulls DEF ReadHeader, Goto, Leave, disk, inodes, TypeOK
<1>2. /\ pc[p] = "header" /\ pc' = [pc EXCEPT ![p] = "get_deny"] /\ at' = at
      /\ filesys_lock = NULL
      /\ running' = [running EXCEPT ![p] = [inode |-> at[p].i, deny |-> TRUE]]
  BY Nulls DEF ReadHeader, At, Goto, Leave, Me, TypeOK
<1>3. /\ at[p].i \in Inode /\ at[p].op = "load"
  BY <1>2, Nulls DEF CallInv, CallOf
<1>4. /\ pc'[p] = "get_deny" /\ OthersStay(p)
  BY <1>2 DEF TypeOK, OthersStay
<1>5. /\ [inode |-> at[p].i, deny |-> TRUE] \in File
      /\ [inode |-> at[p].i, deny |-> TRUE] # NULL
  <2>1. [inode |-> at[p].i, deny |-> TRUE] \in File
    BY <1>3 DEF File
  <2> QED BY <2>1, Nulls
<1>6. /\ running'[p] = [inode |-> at[p].i, deny |-> TRUE] /\ running'[p].inode = at[p].i
      /\ running'[p].deny
      /\ \A q \in Proc : q # p => running'[q] = running[q]
  BY <1>2 DEF TypeOK
<1>7. FilesStay
  BY <1>1 DEF FilesStay, InodesStay, SameFile
<1>8. TypeOK'
  <2>1. pc' \in [Proc -> Label]
    BY <1>2, <1>3 DEF TypeOK, Label
  <2>2. at' \in [Proc -> Locals]
    BY <1>2 DEF TypeOK
  <2>3. running' \in [Proc -> File \cup {NULL}]
    BY <1>2, <1>5 DEF TypeOK
  <2> QED BY <2>1, <2>3 DEF TypeOK, ReadHeader, At, Goto, Leave, disk, inodes, health
<1>9. LockInv'
  BY <1>1, <1>2 DEF LockInv, Holds, Without, Opening
<1>10. CallInv'
  <2> SUFFICES ASSUME NEW q \in Proc PROVE CallOf(q)'
    BY DEF CallInv
  <2>1. CASE q = p
    BY <1>2 DEF CallInv, CallOf, Closing
  <2>2. CASE q # p
    BY <1>4, <2>2 DEF OthersStay, CallInv, CallOf
  <2> QED BY <2>1, <2>2
<1> SUFFICES ASSUME ~ raced' PROVE Strong'
  BY <1>8, <1>9, <1>10
<1>11. ForkInv'
  BY <1>1, <1>2, <1>3, <1>4, <1>8, ForkKept DEF Strong, Opens
<1>12. FileInv'
  <2> SUFFICES ASSUME NEW q \in Proc PROVE FileOf(q)'
    BY DEF FileInv
  <2>1. FileOf(q)
    BY DEF Strong, FileInv
  <2>2. CASE q = p
    BY <1>1, <1>2, <1>5, <1>6, <2>1 DEF FileOf
  <2>3. CASE q # p
    BY <1>1, <1>2, <1>5, <1>6, <2>1 DEF FileOf, OthersStay
  <2> QED BY <2>2, <2>3
<1>13. CountInv'
  <2> SUFFICES ASSUME NEW i \in Inode PROVE CountOf(i)'
    BY DEF CountInv
  <2>1. CountOf(i)
    BY DEF Strong, CountInv
  <2>2. OpenCount(i)' = OpenCount(i) /\ DenyCount(i)' = DenyCount(i)
    BY <1>1 DEF OpenCount, DenyCount
  <2>3. \A x \in Proc : Denies(x, i)' <=> Denies(x, i)
    BY <1>2 DEF Denies
  <2>4. Cardinality(Deniers(i)') = Cardinality(Deniers(i))
    BY <2>3, DeniersKept
  <2>5. CASE i # at[p].i
    <3>1. \A x \in Proc, k \in Place : Refers(x, k, i)' <=> Refers(x, k, i)
      BY <1>1, <1>2, <2>5 DEF Refers, CountedDown, Transit, CallInv, CallOf
    <3> QED BY <1>1, <2>1, <2>2, <2>4, <3>1, RefsKept DEF CountOf
  <2>6. CASE i = at[p].i
    <3>1. /\ Refers(p, 1, i) /\ ~ Refers(p, 1, i)' /\ 1 \in Place
          /\ ~ Refers(p, 0, i) /\ Refers(p, 0, i)' /\ 0 \in Place /\ 1 # 0
      BY <1>2, <1>5, <1>6, Nulls, <2>6 DEF Refers, CountedDown, Transit, CallInv, CallOf, Place
    <3>2. \A x \in Proc, l \in Place : << x, l >> \notin {<< p, 1 >>, << p, 0 >>} =>
            (Refers(x, l, i)' <=> Refers(x, l, i))
      BY <1>1, <1>2 DEF Refers, CountedDown, Transit, CallInv, CallOf
    <3>3. Cardinality(Refs(i)') = Cardinality(Refs(i))
      BY <3>1, <3>2, RefsMove
    <3> QED BY <1>1, <2>1, <2>2, <2>4, <3>3 DEF CountOf
  <2> QED BY <2>5, <2>6
<1>14. CounterInv'
  BY <1>1, <1>2 DEF OthersStay, Strong, CounterInv, CounterOf, Counting
<1>15. ListInv'
  BY <1>1, <1>2 DEF Strong, ListInv, ListOf, Ends, Releasing, Opening
<1>16. NameInv'
  BY <1>4, <1>7, NameKept DEF Strong, Opens, Opening, FilesStay
<1>17. OwnerInv'
  BY <1>1, <1>2, <1>3, <1>4, <1>7, OwnerKept DEF Strong, Freeing, Opens, Idle
<1>18. ContentInv'
  BY <1>1, <1>2, <1>3, <1>4, <1>5, <1>6, <1>7, Nulls, <1>10, ContentKept
     DEF Strong, ListedInUse, ListInv, ListOf, TypeOK, Opens, Idle
<1>19. MapInv'
  BY <1>1, <1>2 DEF OthersStay, Strong, MapInv, New
<1> QED BY <1>11, <1>12, <1>13, <1>14, <1>15, <1>16, <1>17, <1>18, <1>19 DEF Strong

(* load succeeds: the file of the program that ran before is lost, with    *)
(* its denial.                                                             *)
LEMMA ReadHeaderAgainKeeps ==
  ASSUME TypeOK, LockInv, CallInv, ~ raced, Strong,
         NEW p \in Proc, NEW j \in Inode, ReadHeader(p), panic' = panic, pc'[p] = "get_deny",
         running[p] # NULL, running[p].inode = j
  PROVE  TypeOK' /\ LockInv' /\ CallInv' /\ (~ raced' => Strong')
<1>1. /\ disk_map' = disk_map /\ dir' = dir /\ content' = content /\ free_map' = free_map
      /\ inode' = inode /\ open_inodes' = open_inodes /\ fd_table' = fd_table
      /\ next_fd' = next_fd /\ filesys_lock' = filesys_lock
  BY Nulls DEF ReadHeader, Goto, Leave, disk, inodes, TypeOK
<1>2. /\ pc[p] = "header" /\ pc' = [pc EXCEPT ![p] = "get_deny"] /\ at' = at
      /\ filesys_lock = NULL
      /\ running' = [running EXCEPT ![p] = [inode |-> at[p].i, deny |-> TRUE]]
      /\ lost' = [lost EXCEPT ![j] = [refs |-> lost[j].refs + 1, denies |-> lost[j].denies + 1]]
  BY Nulls DEF ReadHeader, At, Goto, Leave, Me, TypeOK, LoseFile
<1>3. /\ at[p].i \in Inode /\ at[p].op = "load"
  BY <1>2, Nulls DEF CallInv, CallOf
<1>4. /\ pc'[p] = "get_deny" /\ OthersStay(p)
  BY <1>2 DEF TypeOK, OthersStay
<1>5. /\ [inode |-> at[p].i, deny |-> TRUE] \in File
      /\ [inode |-> at[p].i, deny |-> TRUE] # NULL
  <2>1. [inode |-> at[p].i, deny |-> TRUE] \in File
    BY <1>3 DEF File
  <2> QED BY <2>1, Nulls
<1>6. /\ running'[p] = [inode |-> at[p].i, deny |-> TRUE] /\ running'[p].inode = at[p].i
      /\ running'[p].deny
      /\ \A q \in Proc : q # p => running'[q] = running[q]
  BY <1>2 DEF TypeOK
<1>7. /\ lost'[j] = [refs |-> lost[j].refs + 1, denies |-> lost[j].denies + 1]
      /\ lost[j] \in [refs : Nat, denies : Nat]
  BY <1>2 DEF TypeOK
<1>8. /\ lost'[j].refs = lost[j].refs + 1 /\ lost'[j].denies = lost[j].denies + 1
      /\ lost'[j] \in [refs : Nat, denies : Nat]
  BY <1>7
<1>9. \A x \in Inode : x # j => lost'[x] = lost[x]
  BY <1>2 DEF TypeOK
<1>10. FilesStay
  BY <1>1 DEF FilesStay, InodesStay, SameFile
<1>11. TypeOK'
  <2>1. pc' \in [Proc -> Label]
    BY <1>2, <1>3 DEF TypeOK, Label
  <2>2. at' \in [Proc -> Locals]
    BY <1>2 DEF TypeOK
  <2>3. running' \in [Proc -> File \cup {NULL}]
    BY <1>2, <1>5 DEF TypeOK
  <2>4. lost' \in [Inode -> [refs : Nat, denies : Nat]]
    BY <1>2 DEF TypeOK
  <2> QED BY <2>1, <2>3, <2>4 DEF TypeOK, ReadHeader, At, Goto, Leave, disk, inodes, health
<1>12. LockInv'
  BY <1>1, <1>2 DEF LockInv, Holds, Without, Opening
<1>13. CallInv'
  <2> SUFFICES ASSUME NEW q \in Proc PROVE CallOf(q)'
    BY DEF CallInv
  <2>1. CASE q = p
    BY <1>2 DEF CallInv, CallOf, Closing
  <2>2. CASE q # p
    BY <1>4, <2>2 DEF OthersStay, CallInv, CallOf
  <2> QED BY <2>1, <2>2
<1> SUFFICES ASSUME ~ raced' PROVE Strong'
  BY <1>11, <1>12, <1>13
<1>14. ForkInv'
  BY <1>1, <1>2, <1>3, <1>4, <1>11, ForkKept DEF Strong, Opens
<1>15. FileInv'
  <2> SUFFICES ASSUME NEW q \in Proc PROVE FileOf(q)'
    BY DEF FileInv
  <2>1. FileOf(q)
    BY DEF Strong, FileInv
  <2>2. CASE q = p
    BY <1>1, <1>2, <1>5, <1>6, <2>1 DEF FileOf
  <2>3. CASE q # p
    BY <1>1, <1>2, <1>5, <1>6, <2>1 DEF FileOf, OthersStay
  <2> QED BY <2>2, <2>3
<1>16. CountInv'
  <2> SUFFICES ASSUME NEW i \in Inode PROVE CountOf(i)'
    BY DEF CountInv
  <2>1. CountOf(i)
    BY DEF Strong, CountInv
  <2>2. OpenCount(i)' = OpenCount(i) /\ DenyCount(i)' = DenyCount(i)
    BY <1>1 DEF OpenCount, DenyCount
  <2>3. CASE i # j
    <3>1. \A x \in Proc : Denies(x, i)' <=> Denies(x, i)
      BY <1>2, <2>3 DEF Denies
    <3>2. Cardinality(Deniers(i)') = Cardinality(Deniers(i))
      BY <3>1, DeniersKept
    <3>3. Cardinality(Refs(i)') = Cardinality(Refs(i))
      <4>1. CASE i # at[p].i
        <5>1. \A x \in Proc, k \in Place : Refers(x, k, i)' <=> Refers(x, k, i)
          BY <1>1, <1>2, <2>3, <4>1 DEF Refers, CountedDown, Transit, CallInv, CallOf
        <5> QED BY <5>1, RefsKept
      <4>2. CASE i = at[p].i
        <5>1. /\ Refers(p, 1, i) /\ ~ Refers(p, 1, i)' /\ 1 \in Place
              /\ ~ Refers(p, 0, i) /\ Refers(p, 0, i)' /\ 0 \in Place /\ 1 # 0
          BY <1>2, <1>5, <1>6, Nulls, <2>3, <4>2
             DEF Refers, CountedDown, Transit, CallInv, CallOf, Place
        <5>2. \A x \in Proc, l \in Place : << x, l >> \notin {<< p, 1 >>, << p, 0 >>} =>
                (Refers(x, l, i)' <=> Refers(x, l, i))
          BY <1>1, <1>2 DEF Refers, CountedDown, Transit, CallInv, CallOf
        <5> QED BY <5>1, <5>2, RefsMove
      <4> QED BY <4>1, <4>2
    <3> QED BY <1>2, <2>1, <2>2, <2>3, <3>2, <3>3 DEF CountOf
  <2>4. CASE i = j
    <3>1. Denies(p, i) /\ ~ Denies(p, i)' /\ \A x \in Proc : x # p => (Denies(x, i)' <=>
            Denies(x, i))
      BY <1>2, <2>4 DEF Denies, CallInv, CallOf
    <3>2. Cardinality(Deniers(i)') = Cardinality(Deniers(i)) - 1
      BY <3>1, DeniersShrink
    <3>3. Cardinality(Refs(i)') = Cardinality(Refs(i)) - 1
      <4>1. CASE i # at[p].i
        <5>1. /\ Refers(p, 0, i) /\ ~ Refers(p, 0, i)' /\ 0 \in Place
          BY <1>6, Nulls, <2>4, <4>1
             DEF Refers, CountedDown, CallInv, CallOf, Place, Strong, FileInv, FileOf
        <5>2. \A x \in Proc, l \in Place : << x, l >> # << p, 0 >> => (Refers(x, l, i)' <=>
                Refers(x, l, i))
          BY <1>1, <1>2, <4>1 DEF Refers, CountedDown, Transit, Strong, FileInv, FileOf
        <5> QED BY <5>1, <5>2, RefsShrink
      <4>2. CASE i = at[p].i
        <5>1. /\ Refers(p, 1, i) /\ ~ Refers(p, 1, i)' /\ 1 \in Place
          BY <1>2, Nulls, <4>2 DEF Refers, Transit, Place
        <5>2. \A x \in Proc, l \in Place : << x, l >> # << p, 1 >> => (Refers(x, l, i)' <=>
                Refers(x, l, i))
          BY <1>1, <1>2, <1>5, <2>4, <4>2 DEF Refers, CountedDown, Transit, CallInv, CallOf
        <5> QED BY <5>1, <5>2, RefsShrink
      <4> QED BY <4>1, <4>2
    <3> QED BY <1>7, <2>1, <2>2, <2>4, <3>2, <3>3, FiniteRefs DEF CountOf
  <2> QED BY <2>3, <2>4
<1>17. CounterInv'
  BY <1>1, <1>2 DEF OthersStay, Strong, CounterInv, CounterOf, Counting
<1>18. ListInv'
  BY <1>1, <1>2 DEF Strong, ListInv, ListOf, Ends, Releasing, Opening
<1>19. NameInv'
  BY <1>4, <1>10, NameKept DEF Strong, Opens, Opening, FilesStay
<1>20. OwnerInv'
  BY <1>1, <1>2, <1>3, <1>4, <1>10, OwnerKept DEF Strong, Freeing, Opens, Idle
<1>21. ContentInv'
  BY <1>1, <1>2, <1>3, <1>4, <1>5, <1>6, <1>7, <1>8, <1>9, <1>10, Nulls, <1>13, ContentKept
     DEF Strong, ListedInUse, ListInv, ListOf, TypeOK, Opens, Idle
<1>22. MapInv'
  BY <1>1, <1>2 DEF OthersStay, Strong, MapInv, New
<1> QED BY <1>14, <1>15, <1>16, <1>17, <1>18, <1>19, <1>20, <1>21, <1>22 DEF Strong

(* A descriptor is empty after its file was closed. *)
LEMMA ClosedFdKeeps ==
  ASSUME TypeOK, LockInv, CallInv, ~ raced, Strong,
         NEW p \in Proc, Closed(p), panic' = panic, at[p].fd \in Fd
  PROVE  TypeOK' /\ LockInv' /\ CallInv' /\ (~ raced' => Strong')
<1>1. /\ disk_map' = disk_map /\ dir' = dir /\ content' = content /\ free_map' = free_map
      /\ inode' = inode /\ open_inodes' = open_inodes /\ next_fd' = next_fd
      /\ running' = running /\ lost' = lost /\ filesys_lock' = filesys_lock
  BY Nulls DEF Closed, Me, disk, inodes
<1>2. /\ pc[p] = "closed"
      /\ pc' = [pc EXCEPT ![p] = (IF at[p].op = "exit" THEN "exit" ELSE "user")]
      /\ at' = [at EXCEPT ![p] = Idle] /\ at[p].op \in {"close", "exit"}
      /\ fd_table' = [fd_table EXCEPT ![p][at[p].fd] = NULL]
  BY Nulls
     DEF Closed, At, Runs, Goto, Local, Leave, Me, disk, inodes, health, CallInv, CallOf,
         Closing
<1>3. /\ at[p].i \in Inode
  BY <1>2, Nulls DEF CallInv, CallOf
<1>4. at[p] \in Locals
  BY DEF TypeOK
<1>5. Idle \in Locals
  BY IdleIsLocal DEF Locals
<1>6. /\ pc'[p] = (IF at[p].op = "exit" THEN "exit" ELSE "user") /\ at'[p] = Idle
      /\ at'[p].op = "none" /\ at'[p].name = NULL /\ at'[p].sector = 0 /\ at'[p].i = NULL
      /\ at'[p].num = 0 /\ at'[p].snap = {} /\ at'[p].new = {} /\ at'[p].fd = 0
      /\ at'[p].next = "user" /\ OthersStay(p)
  BY <1>2, <1>4, <1>5 DEF TypeOK, Locals, OthersStay, Idle
<1>7. PICK f \in Fd : f = at[p].fd
  OBVIOUS
<1>8. /\ fd_table'[p] = [fd_table[p] EXCEPT ![f] = NULL]
      /\ \A q \in Proc : q # p => fd_table'[q] = fd_table[q]
  BY <1>2, <1>7 DEF TypeOK
<1>9. /\ fd_table'[p][f] = NULL
      /\ \A h \in Fd : h # f => fd_table'[p][h] = fd_table[p][h]
  BY <1>2, <1>7 DEF TypeOK
<1>10. FilesStay
  BY <1>1 DEF FilesStay, InodesStay, SameFile
<1>11. TypeOK'
  <2>1. pc' \in [Proc -> Label]
    BY <1>2, <1>3 DEF TypeOK, Label
  <2>2. at' \in [Proc -> Locals]
    BY <1>2, <1>5 DEF TypeOK
  <2>3. fd_table' \in [Proc -> [Fd -> File \cup {NULL}]]
    BY <1>2 DEF TypeOK
  <2> QED BY <1>1, <2>1, <2>2, <2>3 DEF TypeOK, Closed, At, health
<1>12. LockInv'
  BY <1>1, <1>2, <1>6 DEF LockInv, Holds, Without
<1>13. CallInv'
  <2> SUFFICES ASSUME NEW q \in Proc PROVE CallOf(q)'
    BY DEF CallInv
  <2>1. CASE q = p
    BY <1>2 DEF CallInv, CallOf, Opens, Closing, Idle, TypeOK
  <2>2. CASE q # p
    BY <1>6, <2>2 DEF OthersStay, CallInv, CallOf
  <2> QED BY <2>1, <2>2
<1> SUFFICES ASSUME ~ raced' PROVE Strong'
  BY <1>11, <1>12, <1>13
<1>14. ForkInv'
  BY <1>1, <1>2, <1>6, ForkKept, <1>11 DEF Strong, Opens
<1>15. FileInv'
  <2> SUFFICES ASSUME NEW q \in Proc PROVE FileOf(q)'
    BY DEF FileInv
  <2>1. FileOf(q)
    BY DEF Strong, FileInv
  <2>2. CASE q = p
    BY <1>1, <1>2, <1>6, <2>1 DEF FileOf
  <2>3. CASE q # p
    BY <1>1, <1>2, <1>6, <2>1 DEF FileOf, OthersStay
  <2> QED BY <2>2, <2>3
<1>16. CountInv'
  <2> SUFFICES ASSUME NEW i \in Inode PROVE CountOf(i)'
    BY DEF CountInv
  <2>1. \A x \in Proc, k \in Place : Refers(x, k, i)' <=> Refers(x, k, i)
    BY <1>1, <1>2, <1>6, <1>7, <1>9, Nulls DEF Refers, CountedDown, Transit
  <2>2. \A x \in Proc : Denies(x, i)' <=> Denies(x, i)
    BY <1>1, <1>2, <1>6, Nulls DEF OthersStay, Denies, CallInv, CallOf, Opens
  <2>3. CountOf(i)
    BY DEF Strong, CountInv
  <2> QED BY <1>1, <2>1, <2>2, <2>3, RefsKept, DeniersKept DEF CountOf, OpenCount, DenyCount
<1>17. CounterInv'
  BY <1>1, <1>2 DEF OthersStay, Strong, CounterInv, CounterOf, Counting
<1>18. ListInv'
  BY <1>1, <1>2 DEF Strong, ListInv, ListOf, Ends, Releasing, Opening
<1>19. NameInv'
  BY <1>6, <1>10, NameKept DEF Strong, Opens, Opening, FilesStay
<1>20. OwnerInv'
  BY <1>1, <1>2, <1>6, <1>10, OwnerKept DEF Strong, Freeing, Opens, Idle
<1>21. ContentInv'
  BY <1>1, <1>2, <1>3, <1>4, <1>5, <1>6, <1>7, <1>8, <1>9, <1>10, Nulls, <1>13, ContentKept
     DEF Strong, ListedInUse, ListInv, ListOf, TypeOK, Opens, Idle
<1>22. MapInv'
  BY <1>1, <1>2 DEF OthersStay, Strong, MapInv, New
<1> QED BY <1>14, <1>15, <1>16, <1>17, <1>18, <1>19, <1>20, <1>21, <1>22 DEF Strong

(* A process has no program after its file was closed; it is dead. *)
LEMMA ClosedProgramKeeps ==
  ASSUME TypeOK, LockInv, CallInv, ~ raced, Strong,
         NEW p \in Proc, Closed(p), panic' = panic, at[p].op = "exit", at[p].fd = 0
  PROVE  TypeOK' /\ LockInv' /\ CallInv' /\ (~ raced' => Strong')
<1>1. /\ disk_map' = disk_map /\ dir' = dir /\ content' = content /\ free_map' = free_map
      /\ inode' = inode /\ open_inodes' = open_inodes /\ fd_table' = fd_table
      /\ next_fd' = next_fd /\ lost' = lost /\ filesys_lock' = filesys_lock
  BY Nulls DEF Closed, Me, disk, inodes
<1>2. /\ pc[p] = "closed" /\ pc' = [pc EXCEPT ![p] = "dead"] /\ at' = [at EXCEPT ![p] = Idle]
      /\ running' = [running EXCEPT ![p] = NULL]
  BY Nulls DEF Closed, At, Goto, Local, Leave, Me
<1>3. /\ at[p].i \in Inode
      /\ \A h \in Fd : fd_table[p][h] = NULL
  BY <1>2, Nulls
     DEF TypeOK, CallInv, CallOf, LockInv, Holds, Without, Opens, Opening, Closing, Strong,
         FileInv, FileOf
<1>4. at[p] \in Locals
  BY DEF TypeOK
<1>5. Idle \in Locals
  BY IdleIsLocal DEF Locals
<1>6. /\ pc'[p] = "dead" /\ at'[p] = Idle /\ at'[p].op = "none" /\ at'[p].name = NULL
      /\ at'[p].sector = 0 /\ at'[p].i = NULL /\ at'[p].num = 0 /\ at'[p].snap = {}
      /\ at'[p].new = {} /\ at'[p].fd = 0 /\ at'[p].next = "user" /\ OthersStay(p)
  BY <1>2, <1>4, <1>5 DEF TypeOK, Locals, OthersStay, Idle
<1>7. /\ running'[p] = NULL
      /\ \A q \in Proc : q # p => running'[q] = running[q]
  BY <1>2 DEF TypeOK
<1>8. FilesStay
  BY <1>1 DEF FilesStay, InodesStay, SameFile
<1>9. TypeOK'
  <2>1. pc' \in [Proc -> Label]
    BY <1>2, <1>3 DEF TypeOK, Label
  <2>2. at' \in [Proc -> Locals]
    BY <1>2, <1>5 DEF TypeOK
  <2>3. running' \in [Proc -> File \cup {NULL}]
    BY <1>2 DEF TypeOK
  <2> QED BY <1>1, <2>1, <2>2 DEF TypeOK, Closed, At, Local, Leave, Me, health
<1>10. LockInv'
  BY <1>1, <1>6 DEF OthersStay, LockInv, Holds, Without
<1>11. CallInv'
  <2> SUFFICES ASSUME NEW q \in Proc PROVE CallOf(q)'
    BY DEF CallInv
  <2>1. CASE q = p
    BY <1>2 DEF CallInv, CallOf, Opens, Closing, Idle, TypeOK
  <2>2. CASE q # p
    BY <1>6, <2>2 DEF OthersStay, CallInv, CallOf
  <2> QED BY <2>1, <2>2
<1> SUFFICES ASSUME ~ raced' PROVE Strong'
  BY <1>9, <1>10, <1>11
<1>12. ForkInv'
  BY <1>1, <1>2, <1>3, <1>6, <1>7, <1>9, ForkKept DEF Strong, Opens
<1>13. FileInv'
  <2> SUFFICES ASSUME NEW q \in Proc PROVE FileOf(q)'
    BY DEF FileInv
  <2>1. FileOf(q)
    BY DEF Strong, FileInv
  <2>2. CASE q = p
    BY <1>1, <1>3, <1>6, <1>7, <2>2 DEF FileOf
  <2>3. CASE q # p
    BY <1>1, <1>2, <1>6, <2>1 DEF FileOf, OthersStay
  <2> QED BY <2>2, <2>3
<1>14. CountInv'
  <2> SUFFICES ASSUME NEW i \in Inode PROVE CountOf(i)'
    BY DEF CountInv
  <2>1. \A x \in Proc, k \in Place : Refers(x, k, i)' <=> Refers(x, k, i)
    BY <1>1, <1>2, <1>3, <1>7 DEF Refers, CountedDown, Transit
  <2>2. \A x \in Proc : Denies(x, i)' <=> Denies(x, i)
    BY <1>2, <1>7 DEF OthersStay, Denies, CallInv, CallOf, Opens
  <2>3. CountOf(i)
    BY DEF Strong, CountInv
  <2> QED BY <1>1, <2>1, <2>2, <2>3, RefsKept, DeniersKept DEF CountOf, OpenCount, DenyCount
<1>15. CounterInv'
  BY <1>1, <1>2 DEF OthersStay, Strong, CounterInv, CounterOf, Counting
<1>16. ListInv'
  BY <1>1, <1>2 DEF Strong, ListInv, ListOf, Ends, Releasing, Opening
<1>17. NameInv'
  BY <1>6, <1>8, NameKept DEF Strong, Opens, Opening, FilesStay
<1>18. OwnerInv'
  BY <1>1, <1>2, <1>6, <1>8, OwnerKept DEF Strong, Freeing, Opens, Idle
<1>19. ContentInv'
  BY <1>1, <1>2, <1>3, <1>4, <1>5, <1>6, <1>7, <1>8, Nulls, <1>11, ContentKept
     DEF Strong, ListedInUse, ListInv, ListOf, TypeOK, Opens, Idle
<1>20. MapInv'
  BY <1>1, <1>2 DEF OthersStay, Strong, MapInv, New
<1> QED BY <1>12, <1>13, <1>14, <1>15, <1>16, <1>17, <1>18, <1>19, <1>20 DEF Strong

(* open and remove go on to give back the lock after they closed the file. *)
LEMMA ClosedInLockKeeps ==
  ASSUME TypeOK, LockInv, CallInv, ~ raced, Strong,
         NEW p \in Proc, Closed(p), panic' = panic, at[p].op \in {"open", "remove"}
  PROVE  TypeOK' /\ LockInv' /\ CallInv' /\ (~ raced' => Strong')
<1>1. /\ disk_map' = disk_map /\ dir' = dir /\ content' = content /\ free_map' = free_map
      /\ inode' = inode /\ open_inodes' = open_inodes /\ fd_table' = fd_table
      /\ next_fd' = next_fd /\ running' = running /\ lost' = lost
      /\ filesys_lock' = filesys_lock
  BY Nulls DEF Closed, Me, disk, inodes, CallInv, CallOf
<1>2. /\ pc[p] = "closed" /\ pc' = [pc EXCEPT ![p] = "unlock"]
      /\ at' = [at EXCEPT ![p] = Idle] /\ at[p].fd = 0
  BY Nulls
     DEF Closed, At, Runs, Goto, Local, Leave, Me, disk, inodes, health, CallInv, CallOf,
         Closing
<1>3. /\ at[p].i \in Inode /\ filesys_lock = p
  BY <1>2, Nulls DEF CallInv, CallOf, LockInv, Holds
<1>4. at[p] \in Locals
  BY DEF TypeOK
<1>5. Idle \in Locals
  BY IdleIsLocal DEF Locals
<1>6. /\ pc'[p] = "unlock" /\ at'[p] = Idle /\ at'[p].op = "none" /\ at'[p].name = NULL
      /\ at'[p].sector = 0 /\ at'[p].i = NULL /\ at'[p].num = 0 /\ at'[p].snap = {}
      /\ at'[p].new = {} /\ at'[p].fd = 0 /\ at'[p].next = "user" /\ OthersStay(p)
  BY <1>2, <1>4, <1>5 DEF TypeOK, Locals, OthersStay, Idle
<1>7. FilesStay
  BY <1>1 DEF FilesStay, InodesStay, SameFile
<1>8. TypeOK'
  <2>1. pc' \in [Proc -> Label]
    BY <1>2, <1>3 DEF TypeOK, Label
  <2>2. at' \in [Proc -> Locals]
    BY <1>2, <1>5 DEF TypeOK
  <2> QED BY <1>1, <2>1, <2>2 DEF TypeOK, Closed, At, health
<1>9. LockInv'
  BY <1>1, <1>2, <1>6 DEF LockInv, Holds, Without
<1>10. CallInv'
  <2> SUFFICES ASSUME NEW q \in Proc PROVE CallOf(q)'
    BY DEF CallInv
  <2>1. CASE q = p
    BY <1>2 DEF CallInv, CallOf, Opens, Closing, Idle, TypeOK
  <2>2. CASE q # p
    BY <1>6, <2>2 DEF OthersStay, CallInv, CallOf
  <2> QED BY <2>1, <2>2
<1> SUFFICES ASSUME ~ raced' PROVE Strong'
  BY <1>8, <1>9, <1>10
<1>11. ForkInv'
  BY <1>1, <1>2, <1>6, <1>8, ForkKept DEF Strong, Opens
<1>12. FileInv'
  BY <1>1, <1>6, FileKept DEF Strong, Opens
<1>13. CountInv'
  <2> SUFFICES ASSUME NEW i \in Inode PROVE CountOf(i)'
    BY DEF CountInv
  <2>1. \A x \in Proc, k \in Place : Refers(x, k, i)' <=> Refers(x, k, i)
    BY <1>1, <1>2, <1>6 DEF Refers, CountedDown, Transit
  <2>2. \A x \in Proc : Denies(x, i)' <=> Denies(x, i)
    BY <1>1, <1>6 DEF OthersStay, Denies, CallInv, CallOf, Opens
  <2>3. CountOf(i)
    BY DEF Strong, CountInv
  <2> QED BY <1>1, <2>1, <2>2, <2>3, RefsKept, DeniersKept DEF CountOf, OpenCount, DenyCount
<1>14. CounterInv'
  BY <1>1, <1>2 DEF OthersStay, Strong, CounterInv, CounterOf, Counting
<1>15. ListInv'
  BY <1>1, <1>2 DEF Strong, ListInv, ListOf, Ends, Releasing, Opening
<1>16. NameInv'
  BY <1>6, <1>7, NameKept DEF Strong, Opens, Opening, FilesStay
<1>17. OwnerInv'
  BY <1>1, <1>2, <1>6, <1>7, OwnerKept DEF Strong, Freeing, Opens, Idle
<1>18. ContentInv'
  BY <1>1, <1>2, <1>3, <1>4, <1>5, <1>6, <1>7, Nulls, <1>10, ContentKept
     DEF Strong, ListedInUse, ListInv, ListOf, TypeOK, Opens, Idle
<1>19. MapInv'
  BY <1>1, <1>2 DEF OthersStay, Strong, MapInv, New
<1> QED BY <1>11, <1>12, <1>13, <1>14, <1>15, <1>16, <1>17, <1>18, <1>19 DEF Strong

(* process_exit begins to close the first descriptor that is left. *)
LEMMA ExitFileKeeps ==
  ASSUME TypeOK, LockInv, CallInv, ~ raced, Strong,
         NEW p \in Proc, NEW d \in Fd, ExitStep(p), panic' = panic, OpenFds(p) # {},
         d = Min(OpenFds(p)), fd_table[p][d] # NULL
  PROVE  TypeOK' /\ LockInv' /\ CallInv' /\ (~ raced' => Strong')
<1>1. /\ disk_map' = disk_map /\ dir' = dir /\ content' = content /\ free_map' = free_map
      /\ inode' = inode /\ open_inodes' = open_inodes /\ fd_table' = fd_table
      /\ next_fd' = next_fd /\ running' = running /\ lost' = lost
      /\ filesys_lock' = filesys_lock
  BY DEF ExitStep, disk, inodes, tables, CloseFile
<1>2. /\ pc[p] = "exit" /\ pc' = [pc EXCEPT ![p] = "get_close"]
      /\ at' = [at EXCEPT ![p] = [Idle EXCEPT !.op = "exit", !.i = fd_table[p][d].inode,
           !.fd = d]]
  BY DEF ExitStep, At, Goto, Local, CloseFile, Strong, FileInv, FileOf
<1>3. /\ at[p] = Idle /\ fd_table[p][d].inode \in Inode /\ at[p].op = "none"
  BY <1>2, Nulls DEF TypeOK, CallInv, CallOf, File, Idle
<1>4. at[p] \in Locals
  BY DEF TypeOK
<1>5. [Idle EXCEPT !.op = "exit", !.i = fd_table[p][d].inode, !.fd = d] \in Locals
  BY <1>2, <1>3, <1>4, IdleIsLocal, Nulls DEF Locals, Op
<1>6. /\ pc'[p] = "get_close" /\ at'[p].op = "exit" /\ at'[p].name = NULL /\ at'[p].sector = 0
      /\ at'[p].i = fd_table[p][d].inode /\ at'[p].num = 0 /\ at'[p].snap = {}
      /\ at'[p].new = {} /\ at'[p].fd = d /\ at'[p].next = "user" /\ OthersStay(p)
  BY <1>2, <1>4, <1>5 DEF TypeOK, Locals, OthersStay, Idle
<1>7. FilesStay
  BY <1>1 DEF FilesStay, InodesStay, SameFile
<1>8. TypeOK'
  <2>1. pc' \in [Proc -> Label]
    BY <1>2, <1>3 DEF TypeOK, Label
  <2>2. at' \in [Proc -> Locals]
    BY <1>2, <1>5 DEF TypeOK
  <2> QED BY <2>1, <2>2 DEF TypeOK, ExitStep, At, disk, inodes, tables, health, CloseFile
<1>9. LockInv'
  BY <1>1, <1>2 DEF LockInv, Holds, Without, TypeOK
<1>10. CallInv'
  <2> SUFFICES ASSUME NEW q \in Proc PROVE CallOf(q)'
    BY DEF CallInv
  <2>1. CASE q = p
    BY <1>2, <1>3 DEF CallInv, CallOf, Opens, TypeOK
  <2>2. CASE q # p
    BY <1>6, <2>2 DEF OthersStay, CallInv, CallOf
  <2> QED BY <2>1, <2>2
<1> SUFFICES ASSUME ~ raced' PROVE Strong'
  BY <1>8, <1>9, <1>10
<1>11. ForkInv'
  BY <1>1, <1>2, <1>3, <1>6, <1>8, ForkKept DEF Strong, Opens
<1>12. FileInv'
  BY <1>1, <1>2, Nulls DEF OthersStay, Strong, FileInv, FileOf
<1>13. CountInv'
  <2> SUFFICES ASSUME NEW i \in Inode PROVE CountOf(i)'
    BY DEF CountInv
  <2>1. \A x \in Proc, k \in Place : Refers(x, k, i)' <=> Refers(x, k, i)
    BY <1>1, <1>2, <1>3 DEF Refers, CountedDown, Transit, Releasing
  <2>2. \A x \in Proc : Denies(x, i)' <=> Denies(x, i)
    BY <1>1, <1>2, <1>3, Nulls DEF OthersStay, Denies, CallInv, CallOf, Opens
  <2>3. CountOf(i)
    BY DEF Strong, CountInv
  <2> QED BY <1>1, <2>1, <2>2, <2>3, RefsKept, DeniersKept DEF CountOf, OpenCount, DenyCount
<1>14. CounterInv'
  BY <1>1, <1>2 DEF OthersStay, Strong, CounterInv, CounterOf, Counting
<1>15. ListInv'
  BY <1>1, <1>2 DEF Strong, ListInv, ListOf, Ends, Releasing, Opening
<1>16. NameInv'
  BY <1>6, <1>7, NameKept DEF Strong, Opens, Opening, FilesStay
<1>17. OwnerInv'
  BY <1>1, <1>2, <1>3, <1>6, <1>7, OwnerKept DEF Strong, Freeing, Opens, Idle
<1>18. ContentInv'
  BY <1>1, <1>2, <1>3, <1>4, <1>5, <1>6, <1>7, Nulls, <1>10, ContentKept
     DEF Strong, ListedInUse, ListInv, ListOf, TypeOK, Opens, Idle
<1>19. MapInv'
  BY <1>1, <1>2 DEF OthersStay, Strong, MapInv, New
<1> QED BY <1>11, <1>12, <1>13, <1>14, <1>15, <1>16, <1>17, <1>18, <1>19 DEF Strong

(* With no descriptor left, process_exit begins to close the program. *)
LEMMA ExitProgramKeeps ==
  ASSUME TypeOK, LockInv, CallInv, ~ raced, Strong,
         NEW p \in Proc, ExitStep(p), panic' = panic, OpenFds(p) = {}, running[p] # NULL
  PROVE  TypeOK' /\ LockInv' /\ CallInv' /\ (~ raced' => Strong')
<1>1. /\ disk_map' = disk_map /\ dir' = dir /\ content' = content /\ free_map' = free_map
      /\ inode' = inode /\ open_inodes' = open_inodes /\ fd_table' = fd_table
      /\ next_fd' = next_fd /\ running' = running /\ lost' = lost
      /\ filesys_lock' = filesys_lock
  BY DEF ExitStep, disk, inodes, tables, CloseFile
<1>2. /\ pc[p] = "exit" /\ pc' = [pc EXCEPT ![p] = "get_allow"]
      /\ at' = [at EXCEPT ![p] = [Idle EXCEPT !.op = "exit", !.i = running[p].inode, !.fd = 0]]
  BY DEF ExitStep, At, Goto, Local, CloseFile, Strong, FileInv, FileOf
<1>3. /\ at[p] = Idle /\ running[p].inode \in Inode /\ at[p].op = "none"
      /\ \A h \in Fd : fd_table[p][h] = NULL
  BY <1>2, Nulls DEF TypeOK, CallInv, CallOf, File, Idle, OpenFds
<1>4. at[p] \in Locals
  BY DEF TypeOK
<1>5. [Idle EXCEPT !.op = "exit", !.i = running[p].inode, !.fd = 0] \in Locals
  BY <1>2, <1>3, <1>4, IdleIsLocal, Nulls DEF Locals, Op
<1>6. /\ pc'[p] = "get_allow" /\ at'[p].op = "exit" /\ at'[p].name = NULL /\ at'[p].sector = 0
      /\ at'[p].i = running[p].inode /\ at'[p].num = 0 /\ at'[p].snap = {} /\ at'[p].new = {}
      /\ at'[p].fd = 0 /\ at'[p].next = "user" /\ OthersStay(p)
  BY <1>2, <1>4, <1>5 DEF TypeOK, Locals, OthersStay, Idle
<1>7. FilesStay
  BY <1>1 DEF FilesStay, InodesStay, SameFile
<1>8. TypeOK'
  <2>1. pc' \in [Proc -> Label]
    BY <1>2, <1>3 DEF TypeOK, Label
  <2>2. at' \in [Proc -> Locals]
    BY <1>2, <1>5 DEF TypeOK
  <2> QED BY <2>1, <2>2 DEF TypeOK, ExitStep, At, disk, inodes, tables, health, CloseFile
<1>9. LockInv'
  BY <1>1, <1>2 DEF LockInv, Holds, Without, TypeOK
<1>10. CallInv'
  <2> SUFFICES ASSUME NEW q \in Proc PROVE CallOf(q)'
    BY DEF CallInv
  <2>1. CASE q = p
    BY <1>2, <1>3 DEF CallInv, CallOf, Opens, TypeOK
  <2>2. CASE q # p
    BY <1>6, <2>2 DEF OthersStay, CallInv, CallOf
  <2> QED BY <2>1, <2>2
<1> SUFFICES ASSUME ~ raced' PROVE Strong'
  BY <1>8, <1>9, <1>10
<1>11. ForkInv'
  BY <1>1, <1>2, <1>3, <1>6, <1>8, ForkKept DEF Strong, Opens
<1>12. FileInv'
  BY <1>1, <1>2, <1>3 DEF OthersStay, Strong, FileInv, FileOf
<1>13. CountInv'
  <2> SUFFICES ASSUME NEW i \in Inode PROVE CountOf(i)'
    BY DEF CountInv
  <2>1. \A x \in Proc, k \in Place : Refers(x, k, i)' <=> Refers(x, k, i)
    BY <1>1, <1>2 DEF Refers, CountedDown, Transit, Releasing
  <2>2. \A x \in Proc : Denies(x, i)' <=> Denies(x, i)
    BY <1>1, <1>3, <1>6 DEF OthersStay, Denies, CallInv, CallOf, Opens
  <2>3. CountOf(i)
    BY DEF Strong, CountInv
  <2> QED BY <1>1, <2>1, <2>2, <2>3, RefsKept, DeniersKept DEF CountOf, OpenCount, DenyCount
<1>14. CounterInv'
  BY <1>1, <1>2 DEF OthersStay, Strong, CounterInv, CounterOf, Counting
<1>15. ListInv'
  BY <1>1, <1>2 DEF Strong, ListInv, ListOf, Ends, Releasing, Opening
<1>16. NameInv'
  BY <1>6, <1>7, NameKept DEF Strong, Opens, Opening, FilesStay
<1>17. OwnerInv'
  BY <1>1, <1>2, <1>3, <1>6, <1>7, OwnerKept DEF Strong, Freeing, Opens, Idle
<1>18. ContentInv'
  BY <1>1, <1>2, <1>3, <1>4, <1>5, <1>6, <1>7, Nulls, <1>10, ContentKept
     DEF Strong, ListedInUse, ListInv, ListOf, TypeOK, Opens, Idle
<1>19. MapInv'
  BY <1>1, <1>2 DEF OthersStay, Strong, MapInv, New
<1> QED BY <1>11, <1>12, <1>13, <1>14, <1>15, <1>16, <1>17, <1>18, <1>19 DEF Strong

(* With nothing left the process is dead. *)
LEMMA ExitDeadKeeps ==
  ASSUME TypeOK, LockInv, CallInv, ~ raced, Strong,
         NEW p \in Proc, ExitStep(p), panic' = panic, OpenFds(p) = {}, running[p] = NULL
  PROVE  TypeOK' /\ LockInv' /\ CallInv' /\ (~ raced' => Strong')
<1>1. /\ disk_map' = disk_map /\ dir' = dir /\ content' = content /\ free_map' = free_map
      /\ inode' = inode /\ open_inodes' = open_inodes /\ fd_table' = fd_table
      /\ next_fd' = next_fd /\ running' = running /\ lost' = lost
      /\ filesys_lock' = filesys_lock
  BY DEF ExitStep, disk, inodes, tables
<1>2. /\ pc[p] = "exit" /\ pc' = [pc EXCEPT ![p] = "dead"] /\ at' = [at EXCEPT ![p] = Idle]
  BY DEF ExitStep, At, Goto, Local, Leave
<1>3. /\ at[p] = Idle /\ at[p].op = "none"
      /\ \A h \in Fd : fd_table[p][h] = NULL
  BY <1>2, Nulls DEF TypeOK, CallInv, CallOf, Idle, OpenFds
<1>4. at[p] \in Locals
  BY DEF TypeOK
<1>5. Idle \in Locals
  BY <1>3, <1>4 DEF Locals
<1>6. /\ pc'[p] = "dead" /\ at'[p] = Idle /\ at'[p].op = "none" /\ at'[p].name = NULL
      /\ at'[p].sector = 0 /\ at'[p].i = NULL /\ at'[p].num = 0 /\ at'[p].snap = {}
      /\ at'[p].new = {} /\ at'[p].fd = 0 /\ at'[p].next = "user" /\ OthersStay(p)
  BY <1>2, <1>4, <1>5 DEF TypeOK, Locals, OthersStay, Idle
<1>7. FilesStay
  BY <1>1 DEF FilesStay, InodesStay, SameFile
<1>8. TypeOK'
  <2>1. pc' \in [Proc -> Label]
    BY <1>2, <1>3 DEF TypeOK, Label
  <2>2. at' \in [Proc -> Locals]
    BY <1>2, <1>5 DEF TypeOK
  <2> QED BY <2>1, <2>2 DEF TypeOK, ExitStep, At, disk, inodes, tables, health
<1>9. LockInv'
  BY <1>1, <1>2 DEF LockInv, Holds, Without, Opening, CallInv, CallOf
<1>10. CallInv'
  <2> SUFFICES ASSUME NEW q \in Proc PROVE CallOf(q)'
    BY DEF CallInv
  <2>1. CASE q = p
    BY <1>2 DEF CallInv, CallOf, Closing
  <2>2. CASE q # p
    BY <1>6, <2>2 DEF OthersStay, CallInv, CallOf
  <2> QED BY <2>1, <2>2
<1> SUFFICES ASSUME ~ raced' PROVE Strong'
  BY <1>8, <1>9, <1>10
<1>11. ForkInv'
  BY <1>1, <1>2, <1>3, <1>6, <1>8, ForkKept DEF Strong, Opens
<1>12. FileInv'
  BY <1>1, <1>6, FileKept DEF Strong, Opens
<1>13. CountInv'
  <2> SUFFICES ASSUME NEW i \in Inode PROVE CountOf(i)'
    BY DEF CountInv
  <2>1. \A x \in Proc, k \in Place : Refers(x, k, i)' <=> Refers(x, k, i)
    BY <1>1, <1>2 DEF Refers, CountedDown, Transit, Releasing
  <2>2. \A x \in Proc : Denies(x, i)' <=> Denies(x, i)
    BY <1>1, <1>2 DEF OthersStay, Denies, CallInv, CallOf, Opens
  <2>3. CountOf(i)
    BY DEF Strong, CountInv
  <2> QED BY <1>1, <2>1, <2>2, <2>3, RefsKept, DeniersKept DEF CountOf, OpenCount, DenyCount
<1>14. CounterInv'
  BY <1>1, <1>2 DEF OthersStay, Strong, CounterInv, CounterOf, Counting
<1>15. ListInv'
  BY <1>1, <1>2 DEF Strong, ListInv, ListOf, Ends, Releasing, Opening
<1>16. NameInv'
  BY <1>6, <1>7, NameKept DEF Strong, Opens, Opening, FilesStay
<1>17. OwnerInv'
  BY <1>1, <1>2, <1>3, <1>6, <1>7, OwnerKept DEF Strong, Freeing, Opens, Idle
<1>18. ContentInv'
  BY <1>1, <1>2, <1>3, <1>4, <1>5, <1>6, <1>7, Nulls, <1>10, ContentKept
     DEF Strong, ListedInUse, ListInv, ListOf, TypeOK, Opens, Idle
<1>19. MapInv'
  BY <1>1, <1>2 DEF OthersStay, Strong, MapInv, New
<1> QED BY <1>11, <1>12, <1>13, <1>14, <1>15, <1>16, <1>17, <1>18, <1>19 DEF Strong

(* duplicate_fd begins to reopen the parent's next file; the parent has it *)
(* open and stands still.                                                  *)
LEMMA CopyNextKeeps ==
  ASSUME TypeOK, LockInv, CallInv, ~ raced, Strong,
         NEW p \in Proc, NEW n \in Proc, NEW d \in Fd, NEW j \in Inode, CopyNext(p, n, d, j),
         panic' = panic
  PROVE  TypeOK' /\ LockInv' /\ CallInv' /\ (~ raced' => Strong')
<1>1. /\ disk_map' = disk_map /\ dir' = dir /\ content' = content /\ free_map' = free_map
      /\ inode' = inode /\ open_inodes' = open_inodes /\ fd_table' = fd_table
      /\ next_fd' = next_fd /\ running' = running /\ lost' = lost
      /\ filesys_lock' = filesys_lock
  BY DEF CopyNext, disk, inodes, tables
<1>2. /\ pc[p] = "duplicate" /\ pc' = [pc EXCEPT ![p] = "get_open"]
      /\ at' = [at EXCEPT ![p] = [at[p] EXCEPT !.fd = d, !.i = j]] /\ at[p].name = n
      /\ d > at[p].fd /\ fd_table[n][d] # NULL /\ fd_table[n][d].inode = j
  BY DEF CopyNext, At, Goto, Local, Me
<1>3. /\ at[p].op = "fork" /\ at[p].i = NULL /\ n # p /\ at[p].fd \in Nat /\ d \in Nat
  BY <1>2, Nulls DEF CallInv, CallOf, Strong, ForkInv, ForkOf
<1>4. at[p] \in Locals
  BY DEF TypeOK
<1>5. [at[p] EXCEPT !.fd = d, !.i = j] \in Locals
  BY <1>2, <1>3, <1>4, Nulls DEF Locals
<1>6. /\ pc'[p] = "get_open" /\ at'[p].op = at[p].op /\ at'[p].name = at[p].name
      /\ at'[p].sector = at[p].sector /\ at'[p].i = j /\ at'[p].num = at[p].num
      /\ at'[p].snap = at[p].snap /\ at'[p].new = at[p].new /\ at'[p].fd = d
      /\ at'[p].next = at[p].next /\ OthersStay(p)
  BY <1>2, <1>4, <1>5 DEF TypeOK, Locals, OthersStay, Idle
<1>7. fd_table[p][d] = NULL
  BY <1>2, <1>3 DEF Strong, ForkInv, ForkOf
<1>8. \A k \in Fd : fd_table[p][k] # NULL => k =< d
  <2>1. \A k \in Fd : fd_table[p][k] # NULL => k =< at[p].fd
    BY <1>3 DEF Strong, ForkInv, ForkOf
  <2> QED BY <1>2, <1>3, Nulls, <2>1
<1>9. FilesStay
  BY <1>1 DEF FilesStay, InodesStay, SameFile
<1>10. TypeOK'
  <2>1. pc' \in [Proc -> Label]
    BY <1>2, <1>3 DEF TypeOK, Label
  <2>2. at' \in [Proc -> Locals]
    BY <1>2, <1>5 DEF TypeOK
  <2> QED BY <2>1, <2>2 DEF TypeOK, CopyNext, At, disk, inodes, tables, health
<1>11. LockInv'
  BY <1>1, <1>2 DEF LockInv, Holds, Without, CallInv, CallOf
<1>12. CallInv'
  <2> SUFFICES ASSUME NEW q \in Proc PROVE CallOf(q)'
    BY DEF CallInv
  <2>1. CASE q = p
    BY <1>2, <2>1 DEF CallInv, CallOf, Closing, TypeOK
  <2>2. CASE q # p
    BY <1>6, <2>2 DEF OthersStay, CallInv, CallOf
  <2> QED BY <2>1, <2>2
<1> SUFFICES ASSUME ~ raced' PROVE Strong'
  BY <1>10, <1>11, <1>12
<1>13. ForkInv'
  <2> SUFFICES ASSUME NEW q \in Proc PROVE ForkOf(q)'
    BY DEF ForkInv
  <2>1. ForkOf(q)
    BY DEF Strong, ForkInv
  <2>2. CASE q = p
    BY <1>1, <1>2, <1>3, <1>6, <1>8, <2>1 DEF ForkOf, OthersStay
  <2>3. CASE q # p
    <3>1. at[q].op = "fork" => at[q].name # p
      BY <1>2, <2>1 DEF ForkOf
    <3> QED BY <1>1, <1>2, <1>3, <1>6, <1>8, <2>1 DEF ForkOf, OthersStay
  <2> QED BY <2>2, <2>3
<1>14. FileInv'
  BY <1>1, <1>3, <1>6, FileKept DEF Strong, Opens
<1>15. CountInv'
  <2> SUFFICES ASSUME NEW i \in Inode PROVE CountOf(i)'
    BY DEF CountInv
  <2>1. \A x \in Proc, k \in Place : Refers(x, k, i)' <=> Refers(x, k, i)
    BY <1>1, <1>2 DEF Refers, CountedDown, Transit, CallInv, CallOf
  <2>2. \A x \in Proc : Denies(x, i)' <=> Denies(x, i)
    BY <1>1, <1>2 DEF OthersStay, Denies, CallInv, CallOf, Opens
  <2>3. CountOf(i)
    BY DEF Strong, CountInv
  <2> QED BY <1>1, <2>1, <2>2, <2>3, RefsKept, DeniersKept DEF CountOf, OpenCount, DenyCount
<1>16. CounterInv'
  BY <1>1, <1>2, <1>3 DEF OthersStay, Strong, CounterInv, CounterOf, Counting
<1>17. ListInv'
  BY <1>1, <1>2, <1>3 DEF Strong, ListInv, ListOf, Ends, Releasing, Opens
<1>18. NameInv'
  BY <1>3, <1>6, <1>9, NameKept DEF Strong, Opens, Opening, FilesStay
<1>19. OwnerInv'
  BY <1>1, <1>2, <1>3, <1>6, <1>9, OwnerKept DEF Strong, Freeing, Opens, Idle
<1>20. ContentInv'
  BY <1>1, <1>2, <1>3, <1>4, <1>5, <1>6, <1>7, <1>8, <1>9, Nulls, <1>12, ContentKept
     DEF Strong, ListedInUse, ListInv, ListOf, TypeOK, Opens, Idle
<1>21. MapInv'
  BY <1>1, <1>2 DEF OthersStay, Strong, MapInv, New
<1> QED BY <1>13, <1>14, <1>15, <1>16, <1>17, <1>18, <1>19, <1>20, <1>21 DEF Strong

AllStay ==
  /\ disk_map' = disk_map /\ dir' = dir /\ content' = content /\ free_map' = free_map
  /\ inode' = inode /\ open_inodes' = open_inodes /\ fd_table' = fd_table /\ running' = running
  /\ lost' = lost /\ filesys_lock' = filesys_lock /\ faults' = faults /\ raced' = raced

(* Steps that move a parent and its child only, from one point without     *)
(* files in hand to another, keep the invariant.                           *)
LEMMA ChildMoves ==
  ASSUME TypeOK, TypeOK', LockInv, CallInv, Strong, NEW p \in Proc, NEW q \in Proc, p # q,
         AllStay,
         pc[p] \in {"user", "forking"}, pc'[p] \in {"user", "forking"}, at[p] = Idle,
         pc[q] \in {"dead", "duplicate"}, pc'[q] \in {"duplicate", "user"},
         at[q].op \in {"none", "fork"}, at'[q].op \in {"none", "fork"}, at[q].i = NULL,
           at'[q].i = NULL,
         \A x \in Proc : x # q => at'[x] = at[x],
         \A x \in Proc : x # p /\ x # q => pc'[x] = pc[x],
         filesys_lock # q, CallOf(q)', ForkInv'
  PROVE  LockInv' /\ CallInv' /\ Strong'
<1>1. LockInv'
  BY DEF LockInv, Holds, Without, AllStay, Idle
<1>2. CallInv'
  <2> SUFFICES ASSUME NEW x \in Proc, x # q PROVE CallOf(x)'
    BY DEF CallInv
  <2>1. CASE x = p
    BY <2>1 DEF CallInv, CallOf, Idle, Opens, Closing
  <2>2. CASE x # p
    BY <2>2 DEF CallInv, CallOf
  <2> QED BY <2>1, <2>2
<1>3. FileInv'
  <2> SUFFICES ASSUME NEW x \in Proc PROVE FileOf(x)'
    BY DEF FileInv
  <2>1. FileOf(x)
    BY DEF Strong, FileInv
  <2>2. CASE x = q
    BY <2>1, <2>2 DEF FileOf, AllStay
  <2>3. CASE x = p
    BY <2>1, <2>3 DEF FileOf, AllStay, Idle
  <2>4. CASE x # p /\ x # q
    BY <2>1, <2>4 DEF FileOf, AllStay
  <2> QED BY <2>2, <2>3, <2>4
<1>4. CountInv'
  <2> SUFFICES ASSUME NEW i \in Inode PROVE CountOf(i)'
    BY DEF CountInv
  <2>1. \A x \in Proc, k \in Place : Refers(x, k, i)' <=> Refers(x, k, i)
    <3> SUFFICES ASSUME NEW x \in Proc, NEW k \in Place PROVE Refers(x, k, i)' <=> Refers(x, k, i)
      OBVIOUS
    <3>1. CountedDown(x)' <=> CountedDown(x)
      BY DEF CountedDown, Releasing, Idle
    <3>2. CountedDown(x) => at'[x] = at[x]
      BY DEF CountedDown
    <3>3. (Transit(x) /\ at[x].i = i)' <=> (Transit(x) /\ at[x].i = i)
      BY DEF Transit
    <3> QED BY <3>1, <3>2, <3>3 DEF Refers, AllStay
  <2>2. \A x \in Proc : Denies(x, i)' <=> Denies(x, i)
    BY DEF Denies, AllStay, Idle
  <2>3. CountOf(i)
    BY DEF Strong, CountInv
  <2> QED BY <2>1, <2>2, <2>3, RefsKept, DeniersKept DEF CountOf, OpenCount, DenyCount, AllStay
<1>5. CounterInv'
  <2> SUFFICES ASSUME NEW x \in Proc PROVE CounterOf(x)'
    BY DEF CounterInv
  <2>2. ASSUME NEW y \in Proc, NEW i PROVE Counting(y, i)' <=> Counting(y, i)
    BY DEF Counting
  <2>3. CASE x \in {p, q}
    BY <2>3 DEF CounterOf, Counting
  <2>4. CASE x \notin {p, q}
    BY <2>2, <2>4 DEF Strong, CounterInv, CounterOf, AllStay
  <2> QED BY <2>3, <2>4
<1>6. ListInv'
  <2>1. \A i \in Inode, x \in Proc : Ends(x, i)' <=> Ends(x, i)
    BY DEF Ends, Releasing
  <2>2. ASSUME NEW i \in Inode PROVE ListOf(i)'
    <3>1. ListOf(i)
      BY DEF Strong, ListInv
    <3>2. \A x \in Proc : (at'[x].i = i /\ pc'[x] \in {"test", "unlist", "read_inode"}) =>
            x # p /\ x # q
      OBVIOUS
    <3>3. \A x \in Proc : (at'[x].op \in Opens /\ pc'[x] \in Opening) => x # p /\ x # q
      BY DEF Opens, Opening
    <3>4. \A x \in Proc : pc[x] \in {"test", "unlist", "read_inode", "free"} \cup Releasing =>
            x # p /\ x # q
      BY DEF Releasing
    <3> QED BY <2>1, <3>1, <3>3 DEF ListOf, AllStay
  <2> QED BY <2>2 DEF Strong, ListInv, AllStay
<1>7. NameInv'
  <2>1. \A x \in Proc : OpenedOf(x)'
    <3> SUFFICES ASSUME NEW x \in Proc, at'[x].op \in Opens, pc'[x] \in Opening PROVE OpenedOf(x)'
      BY DEF OpenedOf
    <3>1. x # p /\ x # q
      BY DEF Opening
    <3> QED BY <3>1 DEF Strong, NameInv, OpenedOf, Lookup, AllStay
  <2> QED BY <2>1 DEF Strong, NameInv, AllStay
<1>8. OwnerInv'
  <2> SUFFICES ASSUME NEW s \in Sector PROVE OwnerOf(s)'
    BY DEF OwnerInv
  <2>1. \A e \in Entry : EntryHas(e, s)' <=> EntryHas(e, s)
    BY EntriesKept DEF AllStay
  <2>2. \A x \in Proc, i \in Inode : (SectorGone(x, i)' <=> SectorGone(x, i)) /\ (DataGone(x, i)' <=>
          DataGone(x, i))
    BY DEF SectorGone, DataGone
  <2>3. \A i \in Inode : InodeHas(i, s)' <=> InodeHas(i, s)
    BY <2>2, RemovedSame DEF SameFile, AllStay
  <2>4. \A x \in Proc : CreateHas(x, s)' <=> CreateHas(x, s)
    <3> SUFFICES ASSUME NEW x \in Proc PROVE CreateHas(x, s)' <=> CreateHas(x, s)
      OBVIOUS
    <3>1. CASE x \in {p, q}
      BY <3>1 DEF CreateHas, Idle
    <3>2. CASE x \notin {p, q}
      BY <3>2 DEF CreateHas, WithData, New
    <3> QED BY <3>1, <3>2
  <2> QED BY <2>1, <2>3, <2>4 DEF Strong, OwnerInv, OwnerOf, AllStay
<1>9. ContentInv'
  <2>1. \A x \in Proc : (WithData(x)' => WithData(x) /\ x # p /\ x # q)
    BY DEF WithData, Idle
  <2>2. \A x \in Proc : pc'[x] \in {"zero_data", "add_entry"} => x # p /\ x # q
    OBVIOUS
  <2> QED BY <2>1, <2>2 DEF Strong, ContentInv, HeaderAt, New, AllStay
<1>10. MapInv'
  BY DEF Strong, MapInv, New, AllStay
<1> QED BY <1>1, <1>2, <1>3, <1>4, <1>5, <1>6, <1>7, <1>8, <1>9, <1>10 DEF Strong

(* fork starts a child that copies from a parent standing still. *)
LEMMA ForkKeeps ==
  ASSUME TypeOK, LockInv, CallInv, ~ raced, Strong,
         NEW p \in Proc, NEW q \in Proc \ {p}, Fork(p, q)
  PROVE  TypeOK' /\ LockInv' /\ CallInv' /\ (~ raced' => Strong')
<1> DEFINE r == [Idle EXCEPT !.op = "fork", !.name = p]
<1>1. AllStay /\ calls' \in 0 .. MaxCalls /\ pc[p] = "user" /\ pc[q] = "dead" /\ filesys_lock # q
  BY FilesAssumption DEF Fork, AllStay, Begin, disk, inodes, health, TypeOK
<1>2. pc' = [pc EXCEPT ![p] = "forking", ![q] = "duplicate"] /\ at' = [at EXCEPT ![q] = r]
      /\ next_fd' = [next_fd EXCEPT ![q] = Min(Fd)]
  BY DEF Fork
<1>3. at[p] = Idle /\ at[q] = Idle /\ at[q].op = "none" /\ at[q].i = NULL
  BY <1>1 DEF CallInv, CallOf, Idle
<1>4. r \in Locals
  BY IdleIsLocal, Nulls DEF Locals, Op
<1>5. r.op = "fork" /\ r.name = p /\ r.i = NULL /\ r.fd = 0
  BY DEF Idle
<1>6. /\ pc'[p] = "forking" /\ pc'[q] = "duplicate" /\ at'[q] = r
      /\ \A x \in Proc : x # q => at'[x] = at[x]
      /\ \A x \in Proc : x # p /\ x # q => pc'[x] = pc[x]
  BY <1>2 DEF TypeOK
<1> HIDE DEF r
<1>7. TypeOK'
  <2>1. pc' \in [Proc -> Label] /\ at' \in [Proc -> Locals] /\ next_fd' \in [Proc -> Fd]
    BY <1>2, <1>4, FirstFdIsFd DEF TypeOK, Label
  <2> QED BY <1>1, <2>1 DEF TypeOK, AllStay
<1>8. CallOf(q)'
  BY <1>5, <1>6 DEF CallOf, Opens, Opening, Closing
<1>9. ForkInv'
  <2> SUFFICES ASSUME NEW x \in Proc PROVE ForkOf(x)'
    BY DEF ForkInv
  <2>1. ForkOf(x) /\ ForkOf(q)
    BY DEF Strong, ForkInv
  <2>2. \A y \in Proc : at[y].op = "fork" => at[y].name # p
    BY <1>1 DEF Strong, ForkInv, ForkOf
  <2>3. CASE x = q
    <3>1. running[q] = NULL /\ \A k \in Fd : fd_table[q][k] = NULL
      BY <1>1, <2>1 DEF ForkOf
    <3> QED BY <1>1, <1>5, <1>6, <2>2, <2>3, <3>1 DEF ForkOf, AllStay
  <2>4. CASE x # q
    <3>1. at[x].op = "fork" => at[x].name # q /\ at[x].name # p /\ x # p
      BY <1>1, <1>3, <2>1 DEF ForkOf
    <3>2. CASE at[x].op = "fork"
      BY <1>1, <1>5, <1>6, <2>1, <2>2 DEF ForkOf, AllStay
    <3>3. CASE at[x].op # "fork"
      BY <1>1, <1>6, <2>1, <2>4, <3>3 DEF ForkOf, AllStay
    <3> QED BY <3>2, <3>3
  <2> QED BY <2>3, <2>4
<1> QED BY <1>1, <1>3, <1>5, <1>6, <1>7, <1>8, <1>9, ChildMoves

(* After the last file, parent and child go on. *)
LEMMA CopyDoneKeeps ==
  ASSUME TypeOK, LockInv, CallInv, ~ raced, Strong,
         NEW q \in Proc, NEW p \in Proc \ {q}, at[q].op = "fork", CopyDone(q, p)
  PROVE  TypeOK' /\ LockInv' /\ CallInv' /\ (~ raced' => Strong')
<1>1. AllStay /\ calls' = calls /\ pc[q] = "duplicate" /\ at[q].name = p
  BY DEF CopyDone, AllStay, At, disk, inodes, health
<1>2. pc' = [pc EXCEPT ![q] = "user", ![p] = "user"] /\ at' = [at EXCEPT ![q] = Idle]
      /\ next_fd' = [next_fd EXCEPT ![q] = next_fd[p]]
  BY DEF CopyDone, Local
<1>3. pc[p] = "forking" /\ at[p] = Idle /\ at[q].i = NULL /\ filesys_lock # q
  BY <1>1 DEF Strong, ForkInv, ForkOf, CallInv, CallOf, LockInv, Without
<1>4. /\ pc'[p] = "user" /\ pc'[q] = "user" /\ at'[q] = Idle
      /\ \A x \in Proc : x # q => at'[x] = at[x]
      /\ \A x \in Proc : x # p /\ x # q => pc'[x] = pc[x]
  BY <1>2 DEF TypeOK
<1>5. Idle.op = "none" /\ Idle.i = NULL
  BY DEF Idle
<1>6. TypeOK'
  <2>1. pc' \in [Proc -> Label] /\ at' \in [Proc -> Locals] /\ next_fd' \in [Proc -> Fd]
    BY <1>2, IdleIsLocal DEF TypeOK, Label
  <2> QED BY <1>1, <2>1 DEF TypeOK, AllStay
<1>7. CallOf(q)'
  BY <1>4, <1>5 DEF CallOf, Opens, Opening, Closing
<1>8. ForkInv'
  <2> SUFFICES ASSUME NEW x \in Proc PROVE ForkOf(x)'
    BY DEF ForkInv
  <2>1. ForkOf(x)
    BY DEF Strong, ForkInv
  <2>2. CASE x = q
    BY <1>4, <1>5, <2>2 DEF ForkOf
  <2>3. CASE x # q
    <3>1. at[x].op = "fork" => at[x].name # q /\ at[x].name # p /\ x # p
      BY <1>1, <1>3, <1>5, <2>1, <2>3 DEF ForkOf
    <3>2. CASE at[x].op = "fork"
      BY <1>1, <1>4, <1>5, <2>1, <3>1 DEF ForkOf, AllStay
    <3>3. CASE at[x].op # "fork"
      BY <1>1, <1>4, <2>1, <3>3 DEF ForkOf, AllStay
    <3> QED BY <3>2, <3>3
  <2> QED BY <2>2, <2>3
<1> QED BY <1>1, <1>3, <1>4, <1>5, <1>6, <1>7, <1>8, ChildMoves

-------------------------------------------------------------------------------
(* Booting.                                                                *)

(* What a boot finds on the disk, and what it leaves in memory. *)
Booted ==
  /\ free_map = disk_map
  /\ inode = [i \in Inode |-> NULL] /\ open_inodes = {}
  /\ fd_table = [p \in Proc |-> [k \in Fd |-> NULL]]
  /\ running = [p \in Proc |-> NULL]
  /\ lost = [i \in Inode |-> [refs |-> 0, denies |-> 0]]
  /\ pc = [p \in Proc |-> "user"] /\ at = [p \in Proc |-> Idle]
  /\ filesys_lock = NULL
OnDisk ==
  /\ \A e, f \in Entry : dir[e] # NULL /\ dir[f] # NULL /\ dir[e].name = dir[f].name => e = f
  /\ \A e \in Entry : dir[e] # NULL => HeaderAt(dir[e].sector)
  /\ \A e \in Entry, s \in Sector : EntryHas(e, s) =>
        s \in disk_map /\ \A f \in Entry : f # e => ~ EntryHas(f, s)

(* What a boot makes of a disk on which the files are apart is sound. *)
LEMMA BootIsSound == Booted /\ OnDisk => LockInv /\ CallInv /\ Strong
<1> SUFFICES ASSUME Booted, OnDisk PROVE LockInv /\ CallInv /\ Strong
  OBVIOUS
<1>1. \A p \in Proc : pc[p] = "user" /\ at[p] = Idle /\ at[p].op = "none" /\ at[p].i = NULL
                      /\ running[p] = NULL /\ \A k \in Fd : fd_table[p][k] = NULL
  BY DEF Booted, Idle
<1>2. \A i \in Inode : inode[i] = NULL /\ lost[i] = [refs |-> 0, denies |-> 0]
  BY DEF Booted
<1>3. LockInv
  BY <1>1, Nulls DEF LockInv, Holds, Booted
<1>4. CallInv
  BY <1>1 DEF CallInv, CallOf, Opens, Opening, Closing
<1>5. ForkInv /\ FileInv
  BY <1>1 DEF ForkInv, ForkOf, FileInv, FileOf
<1>6. CountInv
  <2> SUFFICES ASSUME NEW i \in Inode PROVE CountOf(i)
    BY DEF CountInv
  <2>1. Refs(i) = {} /\ Deniers(i) = {}
    BY <1>1 DEF Refs, Refers, Transit, Deniers, Denies
  <2>2. Cardinality(Refs(i)) = 0 /\ Cardinality(Deniers(i)) = 0
    BY <2>1, FS_EmptySet
  <2> QED BY <1>2, <2>2 DEF CountOf, OpenCount, DenyCount
<1>7. CounterInv
  BY <1>1 DEF CounterInv, CounterOf, Counting
<1>8. ListInv
  BY <1>1, <1>2 DEF ListInv, ListOf, Ends, Releasing, Opening, Booted
<1>9. NameInv
  BY <1>1 DEF NameInv, OpenedOf, Opening, Booted, OnDisk
<1>10. OwnerInv
  <2>1. \A p \in Proc, s \in Sector : ~ CreateHas(p, s)
    BY <1>1 DEF CreateHas
  <2>2. \A i \in Inode, s \in Sector : ~ InodeHas(i, s)
    BY <1>2 DEF InodeHas
  <2> QED BY <2>1, <2>2 DEF OwnerInv, OwnerOf, OnDisk, Booted
<1>11. ContentInv
  BY <1>1, <1>2 DEF ContentInv, WithData, OnDisk, Booted
<1>12. MapInv
  BY <1>1 DEF MapInv, Booted
<1> QED BY <1>3, <1>4, <1>5, <1>6, <1>7, <1>8, <1>9, <1>10, <1>11, <1>12 DEF Strong

(* What a boot leaves in memory is of the right types. *)
LEMMA BootTyped ==
  /\ [i \in Inode |-> NULL] \in [Inode -> Struct \cup {NULL}]
  /\ [p \in Proc |-> [k \in Fd |-> NULL]] \in [Proc -> [Fd -> File \cup {NULL}]]
  /\ [p \in Proc |-> Min(Fd)] \in [Proc -> Fd]
  /\ [p \in Proc |-> NULL] \in [Proc -> File \cup {NULL}]
  /\ [i \in Inode |-> [refs |-> 0, denies |-> 0]] \in [Inode -> [refs : Nat, denies : Nat]]
  /\ [p \in Proc |-> "user"] \in [Proc -> Label]
  /\ [p \in Proc |-> Idle] \in [Proc -> Locals]
<1>1. Min(Fd) \in Fd /\ "user" \in Label /\ Idle \in Locals
  BY FirstFdIsFd, IdleIsLocal DEF Label
<1>2. [refs |-> 0, denies |-> 0] \in [refs : Nat, denies : Nat]
  OBVIOUS
<1> HIDE DEF Idle
<1> QED BY <1>1, <1>2

(* A disk just formatted is sound. *)
LEMMA InitHolds == Init => FilesInv
<1> SUFFICES ASSUME Init PROVE FilesInv
  OBVIOUS
<1>1. Booted
  BY DEF Init, Booted
<1>2. OnDisk
  BY DEF Init, OnDisk, EntryHas
<1>3. TypeOK
  <2>1. /\ disk_map = {} /\ free_map = {} /\ open_inodes = {} /\ filesys_lock = NULL
        /\ raced = FALSE /\ calls = 0 /\ faults = 0
    BY DEF Init
  <2>4. /\ calls \in 0 .. MaxCalls /\ faults \in 0 .. MaxFaults
    BY <2>1, FilesAssumption
  <2>2. /\ dir \in [Entry -> DirEntry \cup {NULL}]
        /\ content \in [Sector -> Header \cup {ZERO, ANY}]
    BY DEF Init
  <2>3. /\ inode \in [Inode -> Struct \cup {NULL}] /\ running \in [Proc -> File \cup {NULL}]
        /\ fd_table \in [Proc -> [Fd -> File \cup {NULL}]] /\ next_fd \in [Proc -> Fd]
        /\ lost \in [Inode -> [refs : Nat, denies : Nat]]
        /\ pc \in [Proc -> Label] /\ at \in [Proc -> Locals]
    BY BootTyped, Zenon DEF Init
  <2> QED BY <2>1, <2>2, <2>3, <2>4 DEF TypeOK
<1>4. ListedInUse
  BY DEF Init, ListedInUse
<1> QED BY <1>1, <1>2, <1>3, <1>4, BootIsSound DEF FilesInv

(* Wherever the others are when the machine is halted, the disk that is    *)
(* left is one that the next boot makes a sound state of: no entry names   *)
(* sectors that are not marked.                                            *)
LEMMA HaltKeeps ==
  ASSUME TypeOK, LockInv, CallInv, ~ raced, Strong, NEW p \in Proc, Halt(p)
  PROVE  TypeOK' /\ LockInv' /\ CallInv' /\ (~ raced' => Strong')
<1>1. Booted'
  BY DEF Halt, Boot, Booted, disk
<1>2. disk_map' = disk_map /\ dir' = dir /\ content' = content /\ raced' = raced
      /\ calls' \in 0 .. MaxCalls /\ faults' \in 0 .. MaxFaults
  BY FilesAssumption DEF Halt, Begin, disk, TypeOK
<1>3. TypeOK'
  BY <1>2, BootTyped, FilesAssumption DEF TypeOK, Halt, Boot
<1>4. \A e \in Entry, s \in Sector : EntryHas(e, s) => s \in disk_map
  BY EntryMarked
<1>5. OnDisk
  BY <1>4 DEF OnDisk, Strong, NameInv, ContentInv, OwnerInv, OwnerOf
<1>6. OnDisk'
  BY <1>2, <1>5 DEF OnDisk, HeaderAt, EntryHas, Storage, Data
<1>7. (Booted /\ OnDisk)' => (LockInv /\ CallInv /\ Strong)'
  BY BootIsSound, PTL
<1> QED BY <1>1, <1>3, <1>6, <1>7

(* Nothing happens when nothing changes, or panic does. *)
LEMMA StandStill ==
  ASSUME TypeOK, LockInv, CallInv,
         UNCHANGED << disk, free_map, inodes, tables, pc, at, filesys_lock, calls, faults,
           raced >>
  PROVE  TypeOK' /\ LockInv' /\ CallInv' /\ (Strong => Strong')
<1> USE DEF disk, inodes, tables
<1>1. TypeOK' /\ LockInv' /\ CallInv'
  BY DEF TypeOK, LockInv, Holds, Without, CallInv, CallOf
<1>2. Strong => Strong'
  <2> SUFFICES ASSUME Strong PROVE Strong'
    OBVIOUS
  <2>1. ForkInv' /\ FileInv' /\ CounterInv' /\ MapInv'
    BY DEF Strong, ForkInv, ForkOf, FileInv, FileOf, CounterInv, CounterOf, Counting, MapInv, New
  <2>2. CountInv'
    <3>1. \A i : Refs(i)' = Refs(i) /\ Deniers(i)' = Deniers(i)
      BY DEF Refs, Refers, CountedDown, Transit, Deniers, Denies
    <3> QED BY <3>1 DEF Strong, CountInv, CountOf, OpenCount, DenyCount
  <2>3. ListInv' /\ NameInv'
    BY DEF Strong, ListInv, ListOf, Ends, NameInv, OpenedOf, Lookup
  <2>4. OwnerInv'
    BY DEF Strong, OwnerInv, OwnerOf, EntryHas, InodeHas, CreateHas, SectorGone, DataGone,
           Storage, WithData, New
  <2>5. ContentInv'
    BY DEF Strong, ContentInv, HeaderAt, WithData, New
  <2> QED BY <2>1, <2>2, <2>3, <2>4, <2>5 DEF Strong
<1> QED BY <1>1, <1>2

-------------------------------------------------------------------------------
(* All steps together.                                                     *)

(* The beginning of a call keeps the invariant. *)
LEMMA CallKeeps ==
  ASSUME TypeOK, LockInv, CallInv, ~ raced, Strong, NEW p \in Proc, Call(p)
  PROVE  TypeOK' /\ LockInv' /\ CallInv' /\ (~ raced' => Strong')
<1>1. ASSUME NEW n \in Name, NEW k \in Length, Create(p, n, k)
      PROVE  TypeOK' /\ LockInv' /\ CallInv' /\ (~ raced' => Strong')
  <2>1. panic' = panic
    BY <1>1 DEF Create, health
  <2> QED BY <1>1, <2>1, CreateKeeps
<1>2. ASSUME NEW n \in Name, NEW op \in Opens, OpenInode(p, n, op)
      PROVE  TypeOK' /\ LockInv' /\ CallInv' /\ (~ raced' => Strong')
  <2>1. PICK e \in Entry : \/ \E i \in open_inodes : OpenFound(p, n, op, e, i)
                           \/ \E i \in Inode : OpenNew(p, n, op, e, i)
    BY <1>2, OpenIsFoundOrNew
  <2>2. ASSUME NEW i \in open_inodes, OpenFound(p, n, op, e, i)
        PROVE  TypeOK' /\ LockInv' /\ CallInv' /\ (~ raced' => Strong')
    <3>1. panic' = panic
      BY <2>2 DEF OpenFound, OpenAs
    <3> QED BY <2>2, <3>1, OpenFoundKeeps
  <2>3. ASSUME NEW i \in Inode, OpenNew(p, n, op, e, i)
        PROVE  TypeOK' /\ LockInv' /\ CallInv' /\ (~ raced' => Strong')
    <3>1. panic' = panic
      BY <2>3 DEF OpenNew, OpenAs
    <3> QED BY <2>3, <3>1, OpenNewKeeps
  <2> QED BY <2>1, <2>2, <2>3
<1>3. ASSUME NEW n \in Name, Open(p, n) \/ Load(p, n) \/ Remove(p, n)
      PROVE  TypeOK' /\ LockInv' /\ CallInv' /\ (~ raced' => Strong')
  <2>1. \E op \in Opens : OpenInode(p, n, op)
    BY <1>3, Zenon DEF Open, Load, Remove, Opens
  <2> QED BY <1>2, <2>1
<1>4. ASSUME NEW n \in Name, LoadNothing(p, n)
      PROVE  TypeOK' /\ LockInv' /\ CallInv' /\ (~ raced' => Strong')
  <2>1. panic' = panic
    BY <1>4 DEF LoadNothing, health
  <2> QED BY <1>4, <2>1, LoadNothingKeeps
<1>5. ASSUME NEW k \in Fd, Mmap(p, k)
      PROVE  TypeOK' /\ LockInv' /\ CallInv' /\ (~ raced' => Strong')
  <2>1. panic' = panic
    BY <1>5 DEF Mmap, health
  <2> QED BY <1>5, <2>1, MmapKeeps
<1>6. ASSUME NEW k \in Fd, Write(p, k)
      PROVE  TypeOK' /\ LockInv' /\ CallInv' /\ (~ raced' => Strong')
  <2>1. panic' = panic
    BY <1>6 DEF Write, health
  <2> QED BY <1>6, <2>1, WriteKeeps
<1>7. ASSUME NEW k \in Fd, Close(p, k)
      PROVE  TypeOK' /\ LockInv' /\ CallInv' /\ (~ raced' => Strong')
  <2>1. panic' = panic
    BY <1>7 DEF Close, CloseFile, health
  <2> QED BY <1>7, <2>1, CloseKeeps
<1>8. ASSUME Exit(p)
      PROVE  TypeOK' /\ LockInv' /\ CallInv' /\ (~ raced' => Strong')
  <2>1. panic' = panic
    BY <1>8 DEF Exit, health
  <2> QED BY <1>8, <2>1, ExitKeeps
<1>9. ASSUME NEW q \in Proc \ {p}, Fork(p, q)
      PROVE  TypeOK' /\ LockInv' /\ CallInv' /\ (~ raced' => Strong')
  BY <1>9, ForkKeeps
<1>10. ASSUME Halt(p)
      PROVE  TypeOK' /\ LockInv' /\ CallInv' /\ (~ raced' => Strong')
  BY <1>10, HaltKeeps
<1> QED BY <1>1, <1>3, <1>4, <1>5, <1>6, <1>7, <1>8, <1>9, <1>10 DEF Call

(* A failing assertion changes nothing but panic. *)
LEMMA PanicChangesNothing ==
  ASSUME NEW p \in Proc, Step(p), panic' # panic
  PROVE  UNCHANGED << disk, free_map, inodes, tables, pc, at, filesys_lock, calls, faults,
    raced >>
<1> USE DEF At, Panic, health
<1>1. CASE UndoCreate(p) \/ ReleaseInode(p) \/ ReleaseData(p)
  BY <1>1 DEF UndoCreate, ReleaseInode, ReleaseData, Release
<1>2. CASE GetOpen(p) \/ GetClose(p) \/ GetDeny(p) \/ GetAllow(p)
  BY <1>2 DEF GetOpen, GetClose, GetDeny, GetAllow, Get
<1>3. CASE PutOpen(p) \/ PutClose(p) \/ PutDeny(p) \/ PutAllow(p)
  BY <1>3 DEF PutOpen, PutClose, PutDeny, PutAllow, Put
<1>4. CASE Test(p) \/ Unlist(p) \/ Denied(p)
  BY <1>4 DEF Test, Unlist, Denied
<1>5. CASE WriteMap(p) \/ CreateInode(p) \/ WriteHeader(p) \/ ZeroData(p) \/ AddEntry(p) \/
        Unlock(p)
  BY <1>5 DEF WriteMap, CreateInode, WriteHeader, ZeroData, AddEntry, Unlock
<1>6. CASE ReadInode(p) \/ FreeInode(p) \/ AddFile(p) \/ Reject(p) \/ Erase(p) \/ MmapDone(p)
  BY <1>6 DEF ReadInode, FreeInode, AddFile, Reject, Erase, MmapDone
<1>7. CASE LoadOpened(p) \/ ReadHeader(p) \/ Closed(p) \/ ExitStep(p) \/ Duplicate(p) \/
        Duplicated(p)
  BY <1>7 DEF LoadOpened, ReadHeader, Closed, ExitStep, CloseFile, Duplicate, Duplicated
<1> QED BY <1>1, <1>2, <1>3, <1>4, <1>5, <1>6, <1>7 DEF Step

(* A step within a call keeps the invariant. *)
LEMMA StepKeeps ==
  ASSUME TypeOK, LockInv, CallInv, ~ raced, Strong, NEW p \in Proc, Step(p), panic' = panic
  PROVE  TypeOK' /\ LockInv' /\ CallInv' /\ (~ raced' => Strong')
<1>1. CASE WriteHeader(p) \/ ZeroData(p) \/ UndoCreate(p) \/ Unlock(p) \/ ReadInode(p)
  BY <1>1, WriteHeaderKeeps, ZeroDataKeeps, UndoCreateKeeps, UnlockKeeps, ReadInodeKeeps
<1>2. CASE GetOpen(p) \/ PutOpen(p) \/ GetClose(p) \/ PutClose(p)
  BY <1>2, GetOpenKeeps, PutOpenKeeps, GetCloseKeeps, PutCloseKeeps
<1>3. CASE GetDeny(p) \/ PutDeny(p) \/ GetAllow(p) \/ PutAllow(p)
  BY <1>3, GetDenyKeeps, PutDenyKeeps, GetAllowKeeps, PutAllowKeeps
<1>4. CASE Test(p) \/ Unlist(p) \/ ReleaseInode(p) \/ ReleaseData(p) \/ FreeInode(p)
  BY <1>4, TestKeeps, UnlistKeeps, ReleaseInodeKeeps, ReleaseDataKeeps, FreeInodeKeeps
<1>5. CASE Reject(p) \/ MmapDone(p) \/ LoadOpened(p) \/ Duplicated(p)
  BY <1>5, RejectKeeps, MmapDoneKeeps, LoadOpenedKeeps, DuplicatedKeeps
<1>6. CASE WriteMap(p)
  BY <1>6, MapWrittenKeeps, MapUnwrittenKeeps
<1>7. CASE CreateInode(p)
  BY <1>7, CreateInodeFoundKeeps, CreateInodeFailedKeeps
<1>8. CASE AddEntry(p)
  BY <1>8, AddEntryFoundKeeps, AddEntryFailedKeeps
<1>9. CASE AddFile(p)
  BY <1>9, AddFileFoundKeeps, AddFileFullKeeps
<1>10. CASE Erase(p)
  BY <1>10, EraseDoneKeeps, EraseFailedKeeps
<1>11. CASE ReadHeader(p)
  <2>1. CASE running[p] = NULL
    BY <1>11, <2>1, ReadHeaderFailedKeeps, ReadHeaderFirstKeeps
  <2>2. CASE running[p] # NULL
    <3>1. running[p].inode \in Inode
      BY <2>2 DEF TypeOK, File
    <3> QED BY <1>11, <2>2, <3>1, ReadHeaderFailedKeeps, ReadHeaderAgainKeeps
  <2> QED BY <2>1, <2>2
<1>12. CASE Denied(p)
  <2>1. \E l \in {"user", "exit"} : pc'[p] = l
    BY <1>12 DEF Denied, At, Runs, Leave, Goto, Panic, TypeOK, Label
  <2> QED BY <1>12, <2>1, DeniedEndsKeeps
<1>13. CASE Closed(p)
  <2>1. \/ at[p].fd \in Fd \/ at[p].op \in {"open", "remove"}
        \/ at[p].op = "exit" /\ at[p].fd = 0
    BY <1>13 DEF Closed, At, CallInv, CallOf, Closing
  <2> QED BY <1>13, <2>1, ClosedFdKeeps, ClosedProgramKeeps, ClosedInLockKeeps
<1>14. CASE ExitStep(p)
  <2>1. CASE OpenFds(p) # {}
    <3>1. Min(OpenFds(p)) \in Fd /\ fd_table[p][Min(OpenFds(p))] # NULL
      BY <2>1, FirstOpen
    <3> QED BY <1>14, <2>1, <3>1, ExitFileKeeps
  <2>2. CASE OpenFds(p) = {}
    BY <1>14, <2>2, ExitProgramKeeps, ExitDeadKeeps
  <2> QED BY <2>1, <2>2
<1>15. CASE Duplicate(p)
  <2>1. /\ at[p].op = "fork" /\ at[p].name \in Proc /\ at[p].name # p
        /\ \/ \E k \in Fd, j \in Inode : CopyNext(p, at[p].name, k, j)
           \/ CopyDone(p, at[p].name)
    BY <1>15, CopyIsNextOrDone DEF Strong
  <2> QED BY <2>1, CopyNextKeeps, CopyDoneKeeps
<1> QED BY <1>1, <1>2, <1>3, <1>4, <1>5, <1>6, <1>7, <1>8, <1>9, <1>10, <1>11, <1>12, <1>13,
           <1>14, <1>15
           DEF Step

(* What was disturbed by a race stays so marked. *)
LEMMA RacesAreForEver == Next => (raced => raced')
<1> SUFFICES ASSUME NEW p \in Proc, Call(p) \/ Step(p), raced PROVE raced'
  BY DEF Next
<1>1. CASE Call(p)
  BY <1>1
     DEF Call, Create, Open, Load, Remove, OpenInode, LoadNothing, Mmap, Write, Close,
         CloseFile, Fork, Exit, Halt, health
<1>2. CASE Step(p) /\ panic' # panic
  BY <1>2, PanicChangesNothing
<1>3. CASE Step(p) /\ panic' = panic
  <2> USE DEF health
  <2>1. CASE WriteMap(p) \/ CreateInode(p) \/ WriteHeader(p) \/ ZeroData(p) \/ AddEntry(p) \/
          Unlock(p)
    BY <2>1 DEF WriteMap, CreateInode, WriteHeader, ZeroData, AddEntry, Unlock
  <2>2. CASE ReadInode(p) \/ FreeInode(p) \/ AddFile(p) \/ Reject(p) \/ Erase(p) \/ MmapDone(p)
    BY <2>2 DEF ReadInode, FreeInode, AddFile, Reject, Erase, MmapDone
  <2>3. CASE LoadOpened(p) \/ ReadHeader(p) \/ Closed(p) \/ ExitStep(p) \/ Duplicate(p) \/
          Duplicated(p)
    BY <2>3 DEF LoadOpened, ReadHeader, Closed, ExitStep, CloseFile, Duplicate, Duplicated
  <2>4. CASE UndoCreate(p) \/ ReleaseInode(p) \/ ReleaseData(p)
    BY <2>4 DEF UndoCreate, ReleaseInode, ReleaseData, Release, Panic
  <2>5. CASE GetOpen(p) \/ GetClose(p) \/ GetDeny(p) \/ GetAllow(p)
    BY <2>5 DEF GetOpen, GetClose, GetDeny, GetAllow, Get, Panic
  <2>6. CASE PutOpen(p) \/ PutClose(p) \/ PutDeny(p) \/ PutAllow(p)
    BY <2>6 DEF PutOpen, PutClose, PutDeny, PutAllow, Put, Panic
  <2>7. CASE Test(p) \/ Unlist(p) \/ Denied(p)
    BY <2>7 DEF Test, Unlist, Denied, Panic
  <2> QED BY <1>3, <2>1, <2>2, <2>3, <2>4, <2>5, <2>6, <2>7 DEF Step
<1> QED BY <1>1, <1>2, <1>3

(* The step in which two processes meet changes no inode itself. *)
LEMMA RacingKeepsInodes ==
  ASSUME Next, ~ raced, raced'
  PROVE  inode' = inode /\ open_inodes' = open_inodes
<1> PICK p \in Proc : Call(p) \/ Step(p)
  BY DEF Next
<1>1. CASE Call(p)
  <2>1. ASSUME NEW n \in Name, NEW op, OpenInode(p, n, op)
                 PROVE inode' = inode /\ open_inodes' = open_inodes
    BY <2>1 DEF OpenInode, inodes
  <2>2. CASE \E n \in Name : Open(p, n) \/ Load(p, n) \/ Remove(p, n)
    BY <2>1, <2>2 DEF Open, Load, Remove
  <2>3. CASE ~ \E n \in Name : Open(p, n) \/ Load(p, n) \/ Remove(p, n)
    BY <1>1, <2>3
       DEF Call, Create, LoadNothing, Mmap, Write, Close, CloseFile, Fork, Exit, Halt, health
  <2> QED BY <2>2, <2>3
<1>2. CASE Step(p) /\ panic' # panic
  BY <1>2, PanicChangesNothing
<1>3. CASE Step(p) /\ panic' = panic
  <2> USE DEF health, inodes
  <2>1. CASE WriteMap(p) \/ CreateInode(p) \/ WriteHeader(p) \/ ZeroData(p) \/ AddEntry(p) \/
          Unlock(p)
    BY <2>1 DEF WriteMap, CreateInode, WriteHeader, ZeroData, AddEntry, Unlock
  <2>2. CASE ReadInode(p) \/ FreeInode(p) \/ AddFile(p) \/ Reject(p) \/ Erase(p) \/ MmapDone(p)
    BY <2>2 DEF ReadInode, FreeInode, AddFile, Reject, Erase, MmapDone
  <2>3. CASE LoadOpened(p) \/ ReadHeader(p) \/ Closed(p) \/ ExitStep(p) \/ Duplicate(p) \/
          Duplicated(p)
    BY <2>3 DEF LoadOpened, ReadHeader, Closed, ExitStep, CloseFile, Duplicate, Duplicated
  <2>4. CASE UndoCreate(p) \/ ReleaseInode(p) \/ ReleaseData(p)
    BY <2>4 DEF UndoCreate, ReleaseInode, ReleaseData, Release, Panic
  <2>5. CASE GetOpen(p) \/ GetClose(p) \/ GetDeny(p) \/ GetAllow(p)
    BY <2>5 DEF GetOpen, GetClose, GetDeny, GetAllow, Get, Panic
  <2>6. CASE PutOpen(p) \/ PutClose(p) \/ PutDeny(p) \/ PutAllow(p)
    BY <2>6 DEF PutOpen, PutClose, PutDeny, PutAllow, Put, Panic
  <2>7. CASE Test(p) \/ Unlist(p) \/ Denied(p)
    BY <2>7 DEF Test, Unlist, Denied, Panic
  <2> QED BY <1>3, <2>1, <2>2, <2>3, <2>4, <2>5, <2>6, <2>7 DEF Step
<1> QED BY <1>1, <1>2, <1>3

(* All steps keep the invariant, up to the first race. *)
LEMMA NextKeeps ==
  ASSUME TypeOK, LockInv, CallInv, ~ raced, Strong, Next
  PROVE  TypeOK' /\ LockInv' /\ CallInv' /\ (~ raced' => Strong')
<1> PICK p \in Proc : Call(p) \/ Step(p)
  BY DEF Next
<1>1. CASE Call(p)
  BY <1>1, CallKeeps
<1>2. CASE Step(p) /\ panic' = panic
  BY <1>2, StepKeeps
<1>3. CASE Step(p) /\ panic' # panic
  <2>1. UNCHANGED << disk, free_map, inodes, tables, pc, at, filesys_lock, calls, faults, raced >>
    BY <1>3, PanicChangesNothing
  <2> QED BY <2>1, StandStill
<1> QED BY <1>1, <1>2, <1>3

(* Unless runs are followed through races, a race is the end. *)
LEMMA OnlyBeforeRaces == ~ FollowRaces /\ Next => ~ raced
<1> SUFFICES ASSUME ~ FollowRaces, NEW p \in Proc, Call(p) \/ Step(p) PROVE Runs
  BY DEF Next, Runs
<1>1. CASE Call(p)
  BY <1>1
     DEF Call, Create, Open, Load, Remove, OpenInode, LoadNothing, Mmap, Write, Close, Fork,
         Exit, Halt, Begin
<1>2. CASE Step(p)
  <2>1. CASE WriteMap(p) \/ CreateInode(p) \/ WriteHeader(p) \/ ZeroData(p) \/ AddEntry(p) \/
          Unlock(p)
    BY <2>1 DEF WriteMap, CreateInode, WriteHeader, ZeroData, AddEntry, Unlock, At
  <2>2. CASE ReadInode(p) \/ FreeInode(p) \/ AddFile(p) \/ Reject(p) \/ Erase(p) \/ MmapDone(p)
    BY <2>2 DEF ReadInode, FreeInode, AddFile, Reject, Erase, MmapDone, At
  <2>3. CASE LoadOpened(p) \/ ReadHeader(p) \/ Closed(p) \/ ExitStep(p) \/ Duplicate(p) \/
          Duplicated(p)
    BY <2>3 DEF LoadOpened, ReadHeader, Closed, ExitStep, Duplicate, Duplicated, At
  <2>4. CASE UndoCreate(p) \/ ReleaseInode(p) \/ ReleaseData(p)
    BY <2>4 DEF UndoCreate, ReleaseInode, ReleaseData, At
  <2>5. CASE GetOpen(p) \/ GetClose(p) \/ GetDeny(p) \/ GetAllow(p)
    BY <2>5 DEF GetOpen, GetClose, GetDeny, GetAllow, Get, At
  <2>6. CASE PutOpen(p) \/ PutClose(p) \/ PutDeny(p) \/ PutAllow(p)
    BY <2>6 DEF PutOpen, PutClose, PutDeny, PutAllow, Put, At
  <2>7. CASE Test(p) \/ Unlist(p) \/ Denied(p)
    BY <2>7 DEF Test, Unlist, Denied, At
  <2> QED BY <1>2, <2>1, <2>2, <2>3, <2>4, <2>5, <2>6, <2>7 DEF Step
<1> QED BY <1>1, <1>2

-------------------------------------------------------------------------------
(* The properties.                                                         *)

(* The invariant where steps may follow a race. *)
SoundInv == ~ raced => TypeOK /\ LockInv /\ CallInv /\ Strong

(* SoundInv is inductive. *)
LEMMA SoundStep == SoundInv /\ [Next]_vars => SoundInv'
<1> SUFFICES ASSUME SoundInv, [Next]_vars, ~ raced'
             PROVE (TypeOK /\ LockInv /\ CallInv /\ Strong)'
  BY DEF SoundInv
<1>1. CASE Next
  BY <1>1, RacesAreForEver, NextKeeps DEF SoundInv
<1>2. CASE UNCHANGED vars
  BY <1>2, StandStill DEF SoundInv, vars, health
<1> QED BY <1>1, <1>2

(* The invariant holds up to the first race of two processes on an inode   *)
(* or the free map, for any number of processes, files, sectors and        *)
(* inodes.                                                                 *)
THEOREM FilesInvariance == Spec => []SoundInv
<1>1. Init => SoundInv
  BY InitHolds DEF FilesInv, SoundInv
<1> QED BY <1>1, SoundStep, PTL DEF Spec

(* FilesInv is inductive for runs that end with the first race. *)
LEMMA FilesStep == ~ FollowRaces /\ FilesInv /\ [Next]_vars => FilesInv'
<1> SUFFICES ASSUME ~ FollowRaces, FilesInv, [Next]_vars PROVE FilesInv'
  OBVIOUS
<1>1. CASE Next
  <2>1. ~ raced
    BY <1>1, OnlyBeforeRaces
  <2>2. TypeOK' /\ LockInv' /\ CallInv' /\ (~ raced' => Strong')
    BY <1>1, <2>1, NextKeeps DEF FilesInv
  <2>3. ListedInUse'
    <3>1. CASE raced'
      BY <1>1, <2>1, <3>1, RacingKeepsInodes DEF FilesInv, ListedInUse
    <3>2. CASE ~ raced'
      BY <2>2, <3>2 DEF Strong, ListInv, ListOf, ListedInUse, TypeOK
    <3> QED BY <3>1, <3>2
  <2> QED BY <2>2, <2>3 DEF FilesInv
<1>2. CASE UNCHANGED vars
  BY <1>2, StandStill DEF FilesInv, ListedInUse, vars, health, inodes
<1> QED BY <1>1, <1>2

(* The references to an inode that no call is at work on are the           *)
(* descriptors and running programs that have it, and its deniers those    *)
(* programs.                                                               *)
LEMMA QuietCounts ==
  ASSUME TypeOK, CallInv, Strong, NEW i \in Inode, \A p \in Proc : at[p].i # i
  PROVE  /\ Cardinality(Refs(i)) = Cardinality(Files(i)) + Cardinality(Runners(i))
         /\ Deniers(i) = Runners(i)
<1>1. \A p \in Proc : FileOf(p) /\ (CountedDown(p) => at[p].op \in {"close", "exit"})
  BY DEF Strong, FileInv, CountedDown
<1>2. \A p \in Proc, k \in Place :
        Refers(p, k, i) <=> \/ k \in Fd /\ fd_table[p][k] # NULL /\ fd_table[p][k].inode = i
                            \/ k = 0 /\ running[p] # NULL /\ running[p].inode = i
  <2> SUFFICES ASSUME NEW p \in Proc, NEW k \in Place
               PROVE  Refers(p, k, i) <=>
                        \/ k \in Fd /\ fd_table[p][k] # NULL /\ fd_table[p][k].inode = i
                        \/ k = 0 /\ running[p] # NULL /\ running[p].inode = i
    OBVIOUS
  <2>1. k \in Fd /\ fd_table[p][k].inode = i => ~ (CountedDown(p) /\ at[p].fd = k)
    BY <1>1, Nulls DEF FileOf
  <2>2. running[p].inode = i => ~ (CountedDown(p) /\ at[p].fd = 0)
    BY <1>1, Nulls DEF FileOf, CallInv, CallOf
  <2> QED BY <2>1, <2>2, Nulls DEF Refers, Place
<1>3. Files(i) \cup (Runners(i) \X {0}) = Refs(i)
  <2>1. \A x : x \in Refs(i) <=> \E p \in Proc, k \in Place : x = << p, k >> /\ Refers(p, k, i)
    BY DEF Refs, Place
  <2>2. \A x : x \in Files(i) <=>
          \E p \in Proc, k \in Fd :
            x = << p, k >> /\ fd_table[p][k] # NULL /\ fd_table[p][k].inode = i
    BY DEF Files
  <2>3. \A x : x \in Runners(i) \X {0} <=>
          \E p \in Proc : x = << p, 0 >> /\ running[p] # NULL /\ running[p].inode = i
    BY DEF Runners
  <2> QED BY <1>2, <2>1, <2>2, <2>3 DEF Place
<1>4. Files(i) \cap (Runners(i) \X {0}) = {}
  BY Nulls DEF Files
<1>5. IsFiniteSet(Files(i)) /\ IsFiniteSet(Runners(i) \X {0}) /\ IsFiniteSet(Runners(i))
  <2>1. Files(i) \in SUBSET Refs(i) /\ (Runners(i) \X {0}) \in SUBSET Refs(i)
    BY <1>3
  <2>2. Runners(i) \in SUBSET Proc
    BY DEF Runners
  <2> QED BY <2>1, <2>2, FiniteRefs, FilesAssumption, FS_Subset
<1>6. Cardinality(Runners(i) \X {0}) = Cardinality(Runners(i))
  <2>1. IsFiniteSet({0}) /\ Cardinality({0}) = 1
    BY FS_Singleton
  <2>2. Cardinality(Runners(i) \X {0}) = Cardinality(Runners(i)) * Cardinality({0})
    BY <1>5, <2>1, FS_Product
  <2>3. Cardinality(Runners(i)) \in Nat
    BY <1>5, FS_CardinalityType
  <2> QED BY <2>1, <2>2, <2>3
<1>7. Cardinality(Refs(i)) = Cardinality(Files(i)) + Cardinality(Runners(i))
  <2>1. Cardinality(Files(i) \cup (Runners(i) \X {0}))
          = Cardinality(Files(i)) + Cardinality(Runners(i) \X {0}) -
            Cardinality(Files(i) \cap (Runners(i) \X {0}))
    BY <1>5, FS_Union
  <2>2. Cardinality(Files(i)) \in Nat /\ Cardinality(Runners(i)) \in Nat
    BY <1>5, FS_CardinalityType
  <2>3. Cardinality({}) = 0
    BY FS_EmptySet
  <2>4. Cardinality(Files(i) \cap (Runners(i) \X {0})) = 0
    BY <1>4, <2>3
  <2>5. Cardinality(Refs(i))
          = Cardinality(Files(i)) + Cardinality(Runners(i) \X {0}) -
            Cardinality(Files(i) \cap (Runners(i) \X {0}))
    BY <1>3, <2>1
  <2> QED BY <1>6, <2>2, <2>4, <2>5
<1>8. Deniers(i) = Runners(i)
  BY <1>1 DEF Deniers, Denies, Runners, FileOf
<1> QED BY <1>7, <1>8

(* Up to the first race the counters of an inode are the files that refer  *)
(* to it and those that deny writing to it, the list has no freed inode,   *)
(* and no call returns with the file system's lock.  The hypothesis        *)
(* excludes the states after a race, where an inode may be freed twice.    *)
THEOREM InodesCorrect == ASSUME ~ FollowRaces PROVE Spec => []InodesAreSound
<1>1. FilesInv => CountsExact
  <2> SUFFICES ASSUME TypeOK, CallInv, Strong, NEW i \in Inode, inode[i] # NULL, \A p \in Proc :
                        at[p].i # i
      PROVE /\ inode[i].count.open = Cardinality(Files(i)) + Cardinality(Runners(i)) + lost[i].refs
            /\ inode[i].count.deny = Cardinality(Runners(i)) + lost[i].denies
    BY DEF FilesInv, CountsExact
  <2>1. CountOf(i)
    BY DEF Strong, CountInv
  <2> QED BY <2>1, QuietCounts DEF CountOf, OpenCount, DenyCount
<1>2. FilesInv => LockNotKept
  BY DEF FilesInv, TypeOK, LockInv, Without, LockNotKept
<1>3. FilesInv => InodesAreSound
  BY <1>1, <1>2 DEF FilesInv, InodesAreSound
<1> QED BY <1>3, InitHolds, FilesStep, PTL DEF Spec

(* An open inode is what its sector holds, and its sectors are allocated   *)
(* and no other open inode's.                                              *)
LEMMA StorageIsItsOwn ==
  ASSUME TypeOK, Strong, NEW i \in open_inodes, inode[i].data # NULL
  PROVE  /\ content[inode[i].sector] = inode[i].data
         /\ Storage(inode[i].sector) = {inode[i].sector} \cup Data(inode[i].data)
         /\ Storage(inode[i].sector) \subseteq Sector \cap free_map
         /\ \A j \in open_inodes : j # i /\ inode[j].data # NULL =>
               Storage(inode[i].sector) \cap Storage(inode[j].sector) = {}
<1>1. ASSUME NEW j \in open_inodes, inode[j].data # NULL
      PROVE  /\ content[inode[j].sector] = inode[j].data
             /\ Storage(inode[j].sector) = {inode[j].sector} \cup Data(inode[j].data)
             /\ Storage(inode[j].sector) \subseteq Sector
  <2>1. content[inode[j].sector] = inode[j].data /\ HeaderAt(inode[j].sector)
    BY <1>1 DEF Strong, ContentInv
  <2>2. inode[j].sector \in Sector
    BY SectorOwned DEF Struct
  <2> QED BY <2>1, <2>2 DEF HeaderAt, Storage
<1>2. ASSUME NEW j \in open_inodes, inode[j].data # NULL, NEW s \in Storage(inode[j].sector)
      PROVE  /\ j \in Inode
             /\ \/ InodeHas(j, s)
                \/ \E e \in Entry : dir[e] # NULL /\ dir[e].sector = inode[j].sector /\
                     EntryHas(e, s)
  BY <1>1, <1>2, OpenIsOwned
<1>3. ASSUME NEW s \in Storage(inode[i].sector) PROVE s \in free_map
  <2>1. s \in Sector
    BY <1>1
  <2> QED BY <1>2, <2>1 DEF Strong, OwnerInv, OwnerOf
<1>4. ASSUME NEW j \in open_inodes, j # i, inode[j].data # NULL,
             NEW s \in Storage(inode[i].sector) \cap Storage(inode[j].sector)
      PROVE  FALSE
  <2>1. s \in Sector /\ OwnerOf(s)
    BY <1>1 DEF Strong, OwnerInv
  <2>2. inode[i].sector # inode[j].sector
    BY <1>4 DEF Strong, ListInv
  <2>3. i \in Inode /\ (InodeHas(i, s) \/ \E e \in Entry :
          dir[e].sector = inode[i].sector /\ EntryHas(e, s))
    BY <1>2
  <2>4. j \in Inode /\ (InodeHas(j, s) \/ \E e \in Entry :
          dir[e].sector = inode[j].sector /\ EntryHas(e, s))
    BY <1>2, <1>4
  <2> QED BY <1>4, <2>1, <2>2, <2>3, <2>4 DEF OwnerOf
<1> QED BY <1>1, <1>3, <1>4

(* No two open inodes share a sector, removed or not, and all their        *)
(* sectors are allocated: what remove and close give back to the free map  *)
(* is nobody's any more.                                                   *)
THEOREM StorageCorrect == Spec => []OpenStorageKept
<1>1. SoundInv => OpenStorageKept
  BY StorageIsItsOwn DEF SoundInv, OpenStorageKept
<1> QED BY <1>1, FilesInvariance, PTL

(* Wherever the machine is halted, what the directory on the disk names is *)
(* there, in sectors that the free map on the disk has marked.             *)
THEOREM EntriesCorrect == Spec => []EntriesOnDisk
<1>1. SoundInv => EntriesOnDisk
  <2> SUFFICES ASSUME TypeOK, CallInv, Strong, NEW e \in Entry, dir[e] # NULL
               PROVE  content[dir[e].sector] \in Header /\
                 Storage(dir[e].sector) \subseteq disk_map
    BY DEF SoundInv, EntriesOnDisk
  <2>1. HeaderAt(dir[e].sector) /\ dir[e].sector \in Sector
    BY DEF Strong, ContentInv, TypeOK, DirEntry
  <2>2. ASSUME NEW s \in Storage(dir[e].sector) PROVE s \in disk_map
    <3>1. s \in Sector /\ EntryHas(e, s)
      BY <2>1 DEF HeaderAt, Storage, EntryHas
    <3> QED BY <3>1, EntryMarked
  <2> QED BY <2>1, <2>2 DEF HeaderAt
<1> QED BY <1>1, FilesInvariance, PTL

(* The disk's sectors change by the header and the zeros of a new file and *)
(* by write.                                                               *)
LEMMA WhoWrites ==
  ASSUME TypeOK, Next, content' # content
  PROVE  \E p \in Proc : WriteHeader(p) \/ ZeroData(p) \/ \E k \in Fd : Write(p, k)
<1> PICK p \in Proc : Call(p) \/ Step(p)
  BY DEF Next
<1>1. CASE Call(p)
  <2> USE DEF disk
  <2>1. CASE \E k \in Fd : Write(p, k)
    BY <2>1
  <2>2. CASE ~ \E k \in Fd : Write(p, k)
    BY <1>1, <2>2
       DEF Call, Create, Open, Load, Remove, OpenInode, LoadNothing, Mmap, Close, CloseFile,
           Fork, Exit, Halt
  <2> QED BY <2>1, <2>2
<1>2. CASE Step(p) /\ panic' # panic
  BY <1>2, PanicChangesNothing DEF disk
<1>3. CASE Step(p) /\ panic' = panic
  <2> USE DEF disk
  <2>1. CASE WriteHeader(p) \/ ZeroData(p)
    BY <2>1
  <2>2. CASE WriteMap(p) \/ CreateInode(p) \/ AddEntry(p) \/ Unlock(p)
    BY <2>2 DEF WriteMap, CreateInode, AddEntry, Unlock
  <2>3. CASE ReadInode(p) \/ FreeInode(p) \/ AddFile(p) \/ Reject(p) \/ Erase(p) \/ MmapDone(p)
    BY <2>3 DEF ReadInode, FreeInode, AddFile, Reject, Erase, MmapDone
  <2>4. CASE LoadOpened(p) \/ ReadHeader(p) \/ Closed(p) \/ ExitStep(p) \/ Duplicate(p) \/
          Duplicated(p)
    BY <2>4 DEF LoadOpened, ReadHeader, Closed, ExitStep, CloseFile, Duplicate, Duplicated
  <2>5. CASE UndoCreate(p) \/ ReleaseInode(p) \/ ReleaseData(p)
    BY <2>5 DEF UndoCreate, ReleaseInode, ReleaseData, Release, Panic
  <2>6. CASE GetOpen(p) \/ GetClose(p) \/ GetDeny(p) \/ GetAllow(p)
    BY <2>6 DEF GetOpen, GetClose, GetDeny, GetAllow, Get, Panic
  <2>7. CASE PutOpen(p) \/ PutClose(p) \/ PutDeny(p) \/ PutAllow(p)
    BY <2>7 DEF PutOpen, PutClose, PutDeny, PutAllow, Put, Panic
  <2>8. CASE Test(p) \/ Unlist(p) \/ Denied(p)
    BY <2>8 DEF Test, Unlist, Denied, Panic
  <2> QED BY <1>3, <2>1, <2>2, <2>3, <2>4, <2>5, <2>6, <2>7, <2>8 DEF Step
<1> QED BY <1>1, <1>2, <1>3

(* What filesys_create writes to is the creator's. *)
LEMMA CreatorWrites ==
  ASSUME TypeOK, LockInv, CallInv, Strong, NEW p \in Proc, WriteHeader(p) \/ ZeroData(p),
         NEW s \in Sector, content'[s] # content[s]
  PROVE  CreateHas(p, s)
<1>1. at[p].op = "create" /\ pc[p] \in {"write_header", "zero_data"}
  BY DEF WriteHeader, ZeroData, At, CallInv, CallOf
<1>2. CASE WriteHeader(p)
  BY <1>1, <1>2 DEF WriteHeader, Me, TypeOK, CreateHas
<1>3. CASE ZeroData(p)
  <2>1. pc[p] = "zero_data" /\ content[at[p].sector] = [start |-> at[p].fd, length |-> at[p].num]
    BY <1>3 DEF ZeroData, At, Strong, ContentInv
  <2>2. Data(content[at[p].sector]) = New(p)
    BY <2>1 DEF Data, New
  <2>3. s \in Data(content[at[p].sector])
    BY <1>3 DEF ZeroData, Me
  <2> QED BY <1>1, <2>1, <2>2, <2>3 DEF CreateHas, WithData
<1> QED BY <1>2, <1>3

(* What write writes to is data of an open inode whose writes nobody denies. *)
LEMMA WriterWrites ==
  ASSUME TypeOK, LockInv, CallInv, Strong, NEW p \in Proc, NEW k \in Fd, Write(p, k)
  PROVE  /\ \A q \in Proc : pc[q] # "read_inode"
         /\ \E j \in open_inodes : /\ inode[j].data # NULL /\ inode[j].count.deny = 0
                                   /\ \A s \in Sector : content'[s] # content[s] =>
                                        s \in Data(inode[j].data)
<1> DEFINE j == fd_table[p][k].inode
<1>1. pc[p] = "user" /\ fd_table[p][k] # NULL /\ filesys_lock = NULL /\ inode[j].count.deny = 0
      /\ \A s \in Sector : content'[s] # content[s] => s \in Data(inode[j].data)
  BY DEF Write, Begin
<1>2. j \in Inode
  BY <1>1 DEF TypeOK, File
<1>3. Refers(p, k, j) /\ k \in Place
  BY <1>1 DEF Refers, CountedDown, Releasing, Place
<1>4. j \in open_inodes
  BY <1>2, <1>3, ReferredIsOpen DEF Strong
<1>5. \A q \in Proc : pc[q] # "read_inode"
  BY <1>1, Nulls DEF LockInv, Holds, CallInv, CallOf, Opens, Opening
<1>6. inode[j].data # NULL
  BY <1>2, <1>4, <1>5 DEF Strong, ListInv, ListOf
<1> QED BY <1>1, <1>4, <1>5, <1>6

(* No step writes to the header of a file that the directory names. *)
LEMMA EntriesNotWritten ==
  ASSUME TypeOK, LockInv, CallInv, Strong, Next, NEW e \in Entry, dir[e] # NULL
  PROVE  dir[e].sector \in Sector /\ content'[dir[e].sector] = content[dir[e].sector]
<1>1. dir[e].sector \in Sector
  BY DEF TypeOK, DirEntry
<1> SUFFICES ASSUME content'[dir[e].sector] # content[dir[e].sector] PROVE FALSE
  BY <1>1
<1>2. PICK p \in Proc : WriteHeader(p) \/ ZeroData(p) \/ \E k \in Fd : Write(p, k)
  BY WhoWrites
<1>3. CASE WriteHeader(p) \/ ZeroData(p)
  BY <1>1, <1>3, CreatorWrites, CreatedIsNotThere
<1>4. CASE \E k \in Fd : Write(p, k)
  BY <1>1, <1>4, WriterWrites, WritesMissHeaders
<1> QED BY <1>2, <1>3, <1>4

(* No step changes a sector of the file that a program runs from, between  *)
(* load and exit.                                                          *)
THEOREM RunningFileCorrect == Spec => RunningFileKept
<1>1. ASSUME SoundInv, Next, NEW p \in Proc, ~ raced, running[p] # NULL, pc[p] \in {"user",
               "forking"},
             NEW s \in Storage(inode[running[p].inode].sector)
      PROVE  content'[s] = content[s]
  <2>1. TypeOK /\ LockInv /\ CallInv /\ Strong
    BY <1>1 DEF SoundInv
  <2>2. PICK i \in Inode : i = running[p].inode
    BY <1>1, <2>1 DEF TypeOK, File
  <2>3. Refers(p, 0, i) /\ Denies(p, i) /\ 0 \in Place
    BY <1>1, <2>1, <2>2 DEF Refers, Denies, CountedDown, Releasing, Place, CallInv, CallOf, Idle
  <2>4. i \in open_inodes /\ inode[i].count.deny # 0
    BY <2>1, <2>3, ReferredIsOpen, DeniedIsDenied DEF Strong, Struct
  <2> SUFFICES ASSUME content'[s] # content[s] PROVE FALSE
    OBVIOUS
  <2>5. PICK q \in Proc : WriteHeader(q) \/ ZeroData(q) \/ \E k \in Fd : Write(q, k)
    BY <1>1, <2>1, WhoWrites
  <2>6. \A x \in Proc : pc[x] # "read_inode"
    <3>1. CASE \E k \in Fd : Write(q, k)
      BY <2>1, <3>1, WriterWrites
    <3>2. CASE WriteHeader(q) \/ ZeroData(q)
      BY <2>1, <3>2 DEF WriteHeader, ZeroData, At, LockInv, Holds, CallInv, CallOf, Opens, Opening
    <3> QED BY <2>5, <3>1, <3>2
  <2>7. inode[i].data # NULL
    BY <2>1, <2>4, <2>6 DEF Strong, ListInv, ListOf
  <2>8. s \in Sector /\ (s = inode[i].sector \/ s \in Data(inode[i].data))
    BY <1>1, <2>1, <2>2, <2>4, <2>7, StorageIsItsOwn
  <2>9. CASE WriteHeader(q) \/ ZeroData(q)
    <3>1. CreateHas(q, s)
      BY <2>1, <2>8, <2>9, CreatorWrites
    <3>2. InodeHas(i, s) \/ \E e \in Entry : EntryHas(e, s)
      BY <2>1, <2>4, <2>7, <2>8, OpenIsOwned
    <3> QED BY <2>1, <2>8, <3>1, <3>2 DEF Strong, OwnerInv, OwnerOf
  <2>10. CASE \E k \in Fd : Write(q, k)
    <3>1. PICK j \in open_inodes :
            inode[j].data # NULL /\ inode[j].count.deny = 0 /\ s \in Data(inode[j].data)
      BY <2>1, <2>8, <2>10, WriterWrites
    <3>2. j # i /\ s \in Storage(inode[j].sector)
      BY <2>1, <2>4, <3>1, StorageIsItsOwn
    <3> QED BY <1>1, <2>1, <2>2, <2>4, <2>7, <3>1, <3>2, StorageIsItsOwn
  <2> QED BY <2>5, <2>9, <2>10
<1>2. SoundInv /\ [Next]_vars =>
        [ \A p \in Proc :
          (~ raced /\ running[p] # NULL /\ pc[p] \in {"user", "forking"} /\
            running'[p] = running[p])
            => \A s \in Storage(inode[running[p].inode].sector) : content'[s] = content[s] ]_vars
  BY <1>1
<1> QED BY <1>2, FilesInvariance, PTL DEF Spec, RunningFileKept

(* The directory changes by dir_add and dir_remove. *)
LEMMA WhoNames ==
  ASSUME Next, dir' # dir
  PROVE  \E p \in Proc : AddEntry(p) \/ Erase(p)
<1> PICK p \in Proc : Call(p) \/ Step(p)
  BY DEF Next
<1>1. CASE Call(p)
  BY <1>1
     DEF Call, Create, Open, Load, Remove, OpenInode, LoadNothing, Mmap, Write, Close,
         CloseFile, Fork, Exit, Halt, disk
<1>2. CASE Step(p) /\ panic' # panic
  BY <1>2, PanicChangesNothing DEF disk
<1>3. CASE Step(p) /\ panic' = panic
  <2> USE DEF disk
  <2>1. CASE AddEntry(p) \/ Erase(p)
    BY <2>1
  <2>2. CASE WriteMap(p) \/ CreateInode(p) \/ WriteHeader(p) \/ ZeroData(p) \/ Unlock(p)
    BY <2>2 DEF WriteMap, CreateInode, WriteHeader, ZeroData, Unlock
  <2>3. CASE ReadInode(p) \/ FreeInode(p) \/ AddFile(p) \/ Reject(p) \/ MmapDone(p)
    BY <2>3 DEF ReadInode, FreeInode, AddFile, Reject, MmapDone
  <2>4. CASE LoadOpened(p) \/ ReadHeader(p) \/ Closed(p) \/ ExitStep(p) \/ Duplicate(p) \/
          Duplicated(p)
    BY <2>4 DEF LoadOpened, ReadHeader, Closed, ExitStep, CloseFile, Duplicate, Duplicated
  <2>5. CASE UndoCreate(p) \/ ReleaseInode(p) \/ ReleaseData(p)
    BY <2>5 DEF UndoCreate, ReleaseInode, ReleaseData, Release, Panic
  <2>6. CASE GetOpen(p) \/ GetClose(p) \/ GetDeny(p) \/ GetAllow(p)
    BY <2>6 DEF GetOpen, GetClose, GetDeny, GetAllow, Get, Panic
  <2>7. CASE PutOpen(p) \/ PutClose(p) \/ PutDeny(p) \/ PutAllow(p)
    BY <2>7 DEF PutOpen, PutClose, PutDeny, PutAllow, Put, Panic
  <2>8. CASE Test(p) \/ Unlist(p) \/ Denied(p)
    BY <2>8 DEF Test, Unlist, Denied, Panic
  <2> QED BY <1>3, <2>1, <2>2, <2>3, <2>4, <2>5, <2>6, <2>7, <2>8 DEF Step
<1> QED BY <1>1, <1>2, <1>3

StoredByEntry ==
  /\ Stored = [n \in Name |-> Stored[n]]
  /\ \A n \in Name : \A s : s \in Stored[n] <=> \E e \in Entry : dir[e].name = n /\ EntryHas(e, s)

(* A sector is stored under a name if the entry of that name has it. *)
LEMMA StoredIs == StoredByEntry
BY DEF StoredByEntry, Stored, EntryHas, Lookup

(* dir_add is the creation of a file in the abstract store: its sectors    *)
(* are new to the store and the name had none.                             *)
LEMMA StoreOfAdd ==
  ASSUME TypeOK, LockInv, CallInv, Strong, NEW p \in Proc, AddEntry(p), dir' # dir,
         StoredByEntry, StoredByEntry'
  PROVE  Disk!Next
<1> DEFINE rec == [name |-> at[p].name, sector |-> at[p].sector]
           n == at[p].name
           S == Storage(at[p].sector)
<1>1. /\ pc[p] = "add_entry" /\ Lookup(n) = {} /\ FreeEntries # {} /\ content' = content
      /\ dir' = [dir EXCEPT ![Min(FreeEntries)] = rec]
  BY DEF AddEntry, At, Me
<1>2. PICK f \in Entry : dir[f] = NULL /\ dir' = [dir EXCEPT ![f] = rec]
  BY <1>1, FreeEntry
<1>3. n \in Name /\ at[p].sector \in Sector /\ at[p].op = "create"
  BY <1>1 DEF CallInv, CallOf
<1>4. rec # NULL /\ rec.name = n /\ rec.sector = at[p].sector
  BY <1>3, Nulls DEF DirEntry
<1>5. dir'[f] = rec /\ \A e \in Entry : e # f => dir'[e] = dir[e]
  BY <1>2 DEF TypeOK
<1> HIDE DEF rec
<1>6. \A e \in Entry : \A s : e # f => (EntryHas(e, s)' <=> EntryHas(e, s))
  BY <1>1, <1>5 DEF EntryHas, Storage, Data
<1>7. \A s : EntryHas(f, s)' <=> s \in S
  BY <1>1, <1>4, <1>5 DEF EntryHas, Storage, Data
<1>8. \A e \in Entry : dir[e] # NULL => dir[e].name # n
  BY <1>1 DEF Lookup
<1>9. \A s \in S : s \in Sector /\ CreateHas(p, s)
  <2>1. WithData(p) /\ content[at[p].sector] = [start |-> at[p].fd, length |-> at[p].num] /\
          New(p) \subseteq Sector
    BY <1>1, <1>3 DEF WithData, Strong, ContentInv
  <2>2. Data(content[at[p].sector]) = New(p)
    BY <2>1 DEF Data, New
  <2> QED BY <1>1, <1>3, <2>1, <2>2 DEF Storage, CreateHas
<1>10. \A e \in Entry, s \in S : ~ EntryHas(e, s)
  BY <1>9 DEF Strong, OwnerInv, OwnerOf
<1>11. at[p].sector \in S
  BY DEF Storage
<1> HIDE DEF n, S
<1>12. \A s : EntryHas(f, s) <=> FALSE
  BY <1>2 DEF EntryHas
<1>13. \A m \in Name : Stored'[m] = IF m = n THEN S ELSE Stored[m]
  <2> SUFFICES ASSUME NEW m \in Name
               PROVE \A s : s \in Stored'[m] <=> s \in (IF m = n THEN S ELSE Stored[m])
    OBVIOUS
  <2>1. \A s : s \in Stored'[m] <=> \E e \in Entry : dir'[e].name = m /\ EntryHas(e, s)'
    BY DEF StoredByEntry
  <2>2. \A s : s \in Stored[m] <=> \E e \in Entry : dir[e].name = m /\ EntryHas(e, s)
    BY DEF StoredByEntry
  <2>3. \A e \in Entry : \A s : EntryHas(e, s) => dir[e] # NULL
    BY DEF EntryHas
  <2> QED BY <1>4, <1>5, <1>6, <1>7, <1>8, <1>12, <2>1, <2>2, <2>3
<1>14. Stored[n] = {}
  BY <1>3, <1>8 DEF StoredByEntry, EntryHas
<1>15. \A m \in Name : Stored[m] \cap S = {}
  BY <1>10 DEF StoredByEntry
<1>16. Stored' = [Stored EXCEPT ![n] = S]
  BY <1>3, <1>13 DEF StoredByEntry
<1>17. S \in SUBSET Sector /\ S # {}
  BY <1>9, <1>11
<1> QED BY <1>3, <1>14, <1>15, <1>16, <1>17 DEF Disk!Next, Disk!Create

(* dir_remove is the removal of a file from the abstract store. *)
LEMMA StoreOfErase ==
  ASSUME TypeOK, NEW p \in Proc, Erase(p), dir' # dir, StoredByEntry, StoredByEntry'
  PROVE  Disk!Next
<1> DEFINE n == at[p].name
<1>1. dir' = [x \in Entry |-> IF x \in Lookup(n) THEN NULL ELSE dir[x]] /\ content' = content
  BY DEF Erase, Me
<1>2. PICK e \in Entry : dir[e] # NULL /\ dir[e].name = n
  BY <1>1 DEF TypeOK, Lookup
<1>3. n \in Name
  BY <1>2 DEF TypeOK, DirEntry
<1>4. \A x \in Entry : dir'[x] = IF dir[x] # NULL /\ dir[x].name = n THEN NULL ELSE dir[x]
  BY <1>1 DEF Lookup
<1>5. \A x \in Entry : \A s : EntryHas(x, s)' <=> EntryHas(x, s) /\ dir[x].name # n
  BY <1>1, <1>4 DEF EntryHas, Storage, Data
<1>6. EntryHas(e, dir[e].sector)
  BY <1>2 DEF EntryHas, Storage
<1> HIDE DEF n
<1>7. \A m \in Name : Stored'[m] = IF m = n THEN {} ELSE Stored[m]
  <2> SUFFICES ASSUME NEW m \in Name
               PROVE \A s : s \in Stored'[m] <=> s \in (IF m = n THEN {} ELSE Stored[m])
    OBVIOUS
  <2>1. \A s : s \in Stored'[m] <=> \E x \in Entry : dir'[x].name = m /\ EntryHas(x, s)'
    BY DEF StoredByEntry
  <2>2. \A s : s \in Stored[m] <=> \E x \in Entry : dir[x].name = m /\ EntryHas(x, s)
    BY DEF StoredByEntry
  <2>3. \A x \in Entry : \A s : EntryHas(x, s) => dir[x] # NULL
    BY DEF EntryHas
  <2> QED BY <1>4, <1>5, <2>1, <2>2, <2>3
<1>8. Stored[n] # {}
  BY <1>2, <1>3, <1>6 DEF StoredByEntry
<1>9. Stored' = [Stored EXCEPT ![n] = {}]
  BY <1>3, <1>7 DEF StoredByEntry
<1> QED BY <1>3, <1>8, <1>9 DEF Disk!Next, Disk!Remove

(* Up to the first race, inodes and directory implement a store of files   *)
(* that come and go at once and share no sector, over calls, failures and  *)
(* reboots.                                                                *)
THEOREM StoreImplemented == Spec => ImplementsStore
<1>1. StoredByEntry
  BY StoredIs
<1>2. StoredByEntry'
  BY StoredIs, PTL
<1>3. Init => Disk!Init
  <2> SUFFICES ASSUME Init PROVE \A m \in Name : Stored[m] = {}
    BY <1>1 DEF Disk!Init, StoredByEntry
  <2> QED BY <1>1 DEF Init, StoredByEntry, EntryHas
<1>4. ASSUME SoundInv, Next, ~ raced' PROVE Disk!Next \/ Stored' = Stored
  <2>1. TypeOK /\ LockInv /\ CallInv /\ Strong
    BY <1>4, RacesAreForEver DEF SoundInv
  <2>2. CASE dir' # dir
    BY <1>1, <1>2, <1>4, <2>1, <2>2, WhoNames, StoreOfAdd, StoreOfErase
  <2>3. CASE dir' = dir
    <3>1. \A e \in Entry : \A s : EntryHas(e, s)' <=> EntryHas(e, s)
      BY <1>4, <2>1, <2>3, EntriesNotWritten DEF EntryHas, Storage, Data
    <3>2. \A m \in Name : Stored'[m] = Stored[m]
      <4> SUFFICES ASSUME NEW m \in Name PROVE \A s : s \in Stored'[m] <=> s \in Stored[m]
        OBVIOUS
      <4>1. \A s : s \in Stored'[m] <=> \E e \in Entry : dir'[e].name = m /\ EntryHas(e, s)'
        BY <1>2 DEF StoredByEntry
      <4>2. \A s : s \in Stored[m] <=> \E e \in Entry : dir[e].name = m /\ EntryHas(e, s)
        BY <1>1 DEF StoredByEntry
      <4> QED BY <2>3, <3>1, <4>1, <4>2
    <3> QED BY <1>1, <1>2, <3>2 DEF StoredByEntry
  <2> QED BY <2>2, <2>3
<1>5. UNCHANGED vars => Stored' = Stored
  BY DEF vars, disk, Stored, Lookup, Storage, Data
<1>6. SoundInv /\ [Next]_vars => [raced' \/ Disk!Next]_Stored
  BY <1>4, <1>5
<1> QED BY <1>3, <1>6, FilesInvariance, PTL DEF Spec, ImplementsStore
================================================================================
