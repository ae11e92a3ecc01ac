----------------------------------- MODULE Files -----------------------------------
(***************************************************************************)
(* The file system: the free map, the root directory and the inodes on the *)
(* disk (filesys/*.c), the open inodes and files in memory, the processes' *)
(* descriptors (userprog/process.c) and the system calls that use them     *)
(* (userprog/syscall.c), with the halt call and the next boot.             *)
(*                                                                         *)
(* filesys_lock is held by create, remove, open, write and part of load;   *)
(* close, exit, fork, mmap and the denying of writes go without it.  A     *)
(* counter of an inode is read and written in two steps, as the code is    *)
(* compiled (-O0).  What a sector holds is an inode's header, zeros or     *)
(* something else; the root directory's own inode and sectors, which only  *)
(* the owner of the lock uses, and the free map's are left out.            *)
(***************************************************************************)
EXTENDS Integers, FiniteSets, FiniteSetsExt

CONSTANTS
  Proc,         \* processes
  Name,         \* file names
  Sector,       \* the sectors of the disk that files can use
  Entry,        \* entries of the root directory
  Fd,           \* descriptors: 2 .. FDCOUNT_LIMIT - 1
  Inode,        \* the structs inode there is memory for
  Length,       \* lengths a file may be created with, in sectors
  MaxOpen,      \* bound on the openers of an inode
  MaxCalls,     \* bound on the number of system calls
  MaxFaults,    \* bound on halts and failures of malloc, together
  FollowRaces,  \* whether a run goes on after two processes raced on an inode
  NULL, ZERO, ANY   \* the last two: what a sector with no header holds

Header == [start : Sector \cup {0}, length : Length]
DirEntry == [name : Name, sector : Sector]
Struct == [sector : Sector, removed : BOOLEAN, data : Header \cup {NULL, ZERO, ANY},
           count : [{"open", "deny"} -> Int]]
File == [inode : Inode, deny : BOOLEAN]

ASSUME FilesAssumption ==
  /\ IsFiniteSet(Sector) /\ Sector \subseteq Nat \ {0, 1}
  /\ IsFiniteSet(Fd) /\ Fd \subseteq Nat \ {0, 1} /\ Fd # {}
  /\ IsFiniteSet(Entry) /\ Entry \subseteq Nat /\ IsFiniteSet(Proc)
  /\ Length \subseteq Nat /\ FollowRaces \in BOOLEAN
  /\ MaxCalls \in Nat /\ MaxFaults \in Nat
  /\ NULL \notin Proc \cup Inode \cup Name \cup {ZERO, ANY}
  /\ NULL \notin Header \cup DirEntry \cup Struct \cup File
  /\ {ZERO, ANY} \cap Header = {}

VARIABLES
  disk_map, dir, content,       \* the disk: free map, directory, every sector
  free_map,                     \* the free map in memory
  inode, open_inodes,           \* struct inode, and the list
  fd_table, next_fd, running,   \* the files of a process
  lost,                         \* per inode: files that nobody will ever close
  pc, at,                       \* where a process stands, and its locals
  filesys_lock,
  calls,                        \* how many there have been
  faults, raced, panic          \* raced: two processes met on an inode or the map

disk == << disk_map, dir, content >>
inodes == << inode, open_inodes >>
tables == << fd_table, next_fd, running, lost >>
health == << faults, raced, panic >>
vars == << disk, free_map, inodes, tables, pc, at, filesys_lock, calls, health >>

Idle == [op |-> "none", name |-> NULL, sector |-> 0, i |-> NULL, num |-> 0,
         snap |-> {}, new |-> {}, fd |-> 0, next |-> "user"]

Data(h) == h.start .. h.start + h.length - 1
Storage(s) == {s} \cup Data(content[s])

-------------------------------------------------------------------------------
(* A boot: what the disk holds and nothing else. *)
Boot ==
  /\ free_map' = disk_map
  /\ inode' = [i \in Inode |-> NULL] /\ open_inodes' = {}
  /\ fd_table' = [p \in Proc |-> [k \in Fd |-> NULL]]
  /\ next_fd' = [p \in Proc |-> Min(Fd)]
  /\ running' = [p \in Proc |-> NULL]
  /\ lost' = [i \in Inode |-> [refs |-> 0, denies |-> 0]]
  /\ pc' = [p \in Proc |-> "user"] /\ at' = [p \in Proc |-> Idle]
  /\ filesys_lock' = NULL

(* A disk just formatted. *)
Init ==
  /\ disk_map = {} /\ dir = [e \in Entry |-> NULL]
  /\ content = [s \in Sector |-> ANY]
  /\ free_map = {}
  /\ inode = [i \in Inode |-> NULL] /\ open_inodes = {}
  /\ fd_table = [p \in Proc |-> [k \in Fd |-> NULL]]
  /\ next_fd = [p \in Proc |-> Min(Fd)]
  /\ running = [p \in Proc |-> NULL]
  /\ lost = [i \in Inode |-> [refs |-> 0, denies |-> 0]]
  /\ pc = [p \in Proc |-> "user"] /\ at = [p \in Proc |-> Idle]
  /\ filesys_lock = NULL
  /\ calls = 0 /\ faults = 0 /\ raced = FALSE /\ panic = "none"

(* A call begins; what goes on inside begins with At. *)
Runs == panic = "none" /\ (raced => FollowRaces)
Begin(p) == pc[p] = "user" /\ Runs /\ calls < MaxCalls /\ calls' = calls + 1
At(p, l) == pc[p] = l /\ Runs /\ UNCHANGED calls
Goto(p, l) == pc' = [pc EXCEPT ![p] = l]
Local(p, r) == at' = [at EXCEPT ![p] = r]
Leave(p, l) == Goto(p, l) /\ Local(p, Idle)
Me(p) == at[p]

(* malloc and calloc may find no memory. *)
NoMemory == faults < MaxFaults /\ faults' = faults + 1

Panic(why) == panic' = why /\ UNCHANGED << disk, free_map, inodes, tables, pc, at,
                                           filesys_lock, faults, raced >>

(* Processes that count an inode's openers, from the search of the list or *)
(* the reading of the counter to the writing or the end of the inode.      *)
Counting(q, i) ==
  /\ at[q].i = i
  /\ \/ pc[q] \in {"put_open", "put_close", "put_deny", "put_allow", "test", "unlist"}
     \/ pc[q] = "get_open" /\ at[q].op \in {"open", "load", "remove"}
Meets(p, i) == \E q \in Proc \ {p} : Counting(q, i)

-------------------------------------------------------------------------------
(* The free map.  bitmap_scan_and_flip takes the first run of free sectors *)
(* and bitmap_write copies the map to the disk: its last part through a    *)
(* buffer, filled some time before it is written.                          *)
FreeRuns(k) == { s \in Sector : s .. s + k - 1 \subseteq Sector \ free_map }
Fits(k) == k = 0 \/ FreeRuns(k) # {}
FirstFit(k) == IF k = 0 THEN 0 ELSE Min(FreeRuns(k))

(* Without the writing of the map.  A deviation for the mutants. *)
AllocateUnwritten(p, k, loc, next) ==
  LET S == FirstFit(k) .. FirstFit(k) + k - 1
  IN  /\ free_map' = free_map \cup S
      /\ Local(p, loc)
      /\ Goto(p, next)

(* free_map_allocate, up to the writing; next is where it returns to.      *)
Allocate(p, k, loc, next) ==
  LET S == FirstFit(k) .. FirstFit(k) + k - 1
  IN  /\ free_map' = free_map \cup S
      /\ Local(p, [loc EXCEPT !.snap = free_map \cup S, !.new = S, !.next = next])
      /\ Goto(p, "write_map")

(* free_map_release asserts that the sectors are allocated. *)
Release(p, S, next) ==
  IF S \subseteq free_map
  THEN /\ free_map' = free_map \ S
       /\ Local(p, [Me(p) EXCEPT !.snap = free_map \ S, !.new = {}, !.next = next])
       /\ Goto(p, "write_map")
       /\ UNCHANGED << disk, inodes, tables, filesys_lock, health >>
  ELSE Panic("bitmap_all")

(* No memory for the buffer undoes an allocation; after a release nobody   *)
(* looks.                                                                  *)
WriteMap(p) ==
  /\ At(p, "write_map")
  /\ \/ /\ disk_map' \in {Me(p).snap, free_map}
        /\ Goto(p, Me(p).next)
        /\ UNCHANGED << free_map, faults >>
     \/ /\ NoMemory
        /\ free_map' = free_map \ Me(p).new
        /\ Goto(p, CASE Me(p).next = "create_inode" -> "unlock"
                     [] Me(p).next = "write_header" -> "undo_create"
                     [] OTHER -> Me(p).next)
        /\ UNCHANGED disk_map
  /\ raced' = (raced \/ Me(p).snap # free_map)
  /\ Local(p, [Me(p) EXCEPT !.snap = {}, !.next = "user"])
  /\ UNCHANGED << dir, content, inodes, tables, filesys_lock, panic >>

-------------------------------------------------------------------------------
(* filesys_create: the inode's sector, its data, its header, the zeros,    *)
(* and the entry; what fails gives back the inode's sector only.           *)
Create(p, n, k) ==
  /\ Begin(p) /\ filesys_lock = NULL /\ Fits(1)
  /\ filesys_lock' = p
  /\ Allocate(p, 1, [Idle EXCEPT !.op = "create", !.name = n, !.num = k,
                                 !.sector = FirstFit(1)], "create_inode")
  /\ UNCHANGED << disk, inodes, tables, health >>

CreateInode(p) ==
  /\ At(p, "create_inode")
  /\ \/ /\ Fits(Me(p).num)
        /\ Allocate(p, Me(p).num, [Me(p) EXCEPT !.fd = FirstFit(Me(p).num)], "write_header")
        /\ UNCHANGED faults
     \/ /\ NoMemory \/ (~ Fits(Me(p).num) /\ UNCHANGED faults)
        /\ Goto(p, "undo_create")
        /\ UNCHANGED << free_map, at >>
  /\ UNCHANGED << disk, inodes, tables, filesys_lock, raced, panic >>

WriteHeader(p) ==
  /\ At(p, "write_header")
  /\ content' = [content EXCEPT ![Me(p).sector] = [start |-> Me(p).fd, length |-> Me(p).num]]
  /\ Goto(p, "zero_data")
  /\ UNCHANGED << disk_map, dir, free_map, inodes, tables, at, filesys_lock, health >>

ZeroData(p) ==
  /\ At(p, "zero_data")
  /\ content' = [s \in Sector |-> IF s \in Data(content[Me(p).sector])
                                  THEN ZERO ELSE content[s]]
  /\ Goto(p, "add_entry")
  /\ UNCHANGED << disk_map, dir, free_map, inodes, tables, at, filesys_lock, health >>

Lookup(n) == { e \in Entry : dir[e] # NULL /\ dir[e].name = n }
FreeEntries == { e \in Entry : dir[e] = NULL }

(* Without the search for the name.  A deviation for the mutants. *)
AddEntryTwice(p) ==
  /\ At(p, "add_entry") /\ FreeEntries # {}
  /\ dir' = [dir EXCEPT ![Min(FreeEntries)] = [name |-> Me(p).name, sector |-> Me(p).sector]]
  /\ Goto(p, "unlock")
  /\ UNCHANGED << disk_map, content, free_map, inodes, tables, at, filesys_lock, health >>

(* dir_add fails when the name is there, the directory full, or there is   *)
(* no memory to write with.                                                *)
AddEntry(p) ==
  /\ At(p, "add_entry")
  /\ \/ /\ Lookup(Me(p).name) = {}
        /\ FreeEntries # {}
        /\ dir' = [dir EXCEPT ![Min(FreeEntries)] = [name |-> Me(p).name, sector |-> Me(p).sector]]
        /\ Goto(p, "unlock")
        /\ UNCHANGED faults
     \/ /\ \/ NoMemory
           \/ (Lookup(Me(p).name) # {} \/ FreeEntries = {}) /\ UNCHANGED faults
        /\ Goto(p, "undo_create")
        /\ UNCHANGED dir
  /\ UNCHANGED << disk_map, content, free_map, inodes, tables, at, filesys_lock, raced, panic >>

UndoCreate(p) == At(p, "undo_create") /\ Release(p, {Me(p).sector}, "unlock")

Unlock(p) ==
  /\ At(p, "unlock")
  /\ filesys_lock' = NULL
  /\ Leave(p, "user")
  /\ UNCHANGED << disk, free_map, inodes, tables, health >>

-------------------------------------------------------------------------------
(* inode_open: the list of open inodes first. *)
OpenInode(p, n, op) ==
  LET s == (CHOOSE d \in { dir[e] : e \in Lookup(n) } : TRUE).sector
      i == CHOOSE j \in open_inodes : inode[j].sector = s
      me == [Idle EXCEPT !.op = op, !.name = n, !.sector = s]
  IN  /\ Begin(p) /\ filesys_lock = NULL /\ Lookup(n) # {}
      /\ filesys_lock' = p
      /\ \/ /\ \E j \in open_inodes : inode[j].sector = s
            /\ inode[i].count.open < MaxOpen
            /\ Goto(p, "get_open") /\ Local(p, [me EXCEPT !.i = i])
            /\ raced' = (raced \/ Meets(p, i))
            /\ UNCHANGED inodes
         \/ /\ ~ \E j \in open_inodes : inode[j].sector = s
            /\ \E j \in Inode :
                 /\ inode[j] = NULL
                 /\ inode' = [inode EXCEPT ![j] = [sector |-> s, removed |-> FALSE, data |-> NULL,
                                                   count |-> [open |-> 1, deny |-> 0]]]
                 /\ open_inodes' = open_inodes \cup {j}
                 /\ Local(p, [me EXCEPT !.i = j])
            /\ Goto(p, "read_inode")
            /\ UNCHANGED raced
      /\ UNCHANGED << disk, free_map, tables, faults, panic >>

ReadInode(p) ==
  /\ At(p, "read_inode")
  /\ inode' = [inode EXCEPT ![Me(p).i].data = content[Me(p).sector]]
  /\ Goto(p, "opened")
  /\ UNCHANGED << disk, free_map, open_inodes, tables, at, filesys_lock, health >>

(* open, load and remove name a file. *)
Open(p, n) == OpenInode(p, n, "open")
Load(p, n) == OpenInode(p, n, "load")
Remove(p, n) == OpenInode(p, n, "remove")

(* exec of a name that is not there ends the process. *)
LoadNothing(p, n) ==
  /\ Begin(p) /\ filesys_lock = NULL /\ Lookup(n) = {}
  /\ Goto(p, "exit")
  /\ UNCHANGED << disk, free_map, inodes, tables, at, filesys_lock, health >>

-------------------------------------------------------------------------------
(* The counters of an inode: a load, then a store. *)
Get(p, l, c, to) ==
  /\ At(p, l)
  /\ IF inode[Me(p).i] # NULL
     THEN /\ Goto(p, to)
          /\ Local(p, [Me(p) EXCEPT !.num = inode[Me(p).i].count[c]])
          /\ raced' = (raced \/ Meets(p, Me(p).i))
          /\ UNCHANGED << disk, free_map, inodes, tables, filesys_lock, faults, panic >>
     ELSE Panic("freed_inode")

Put(p, l, c, d, to) ==
  /\ At(p, l)
  /\ IF inode[Me(p).i] # NULL
     THEN /\ inode' = [inode EXCEPT ![Me(p).i].count[c] = Me(p).num + d]
          /\ Goto(p, to)
          /\ Local(p, [Me(p) EXCEPT !.num = 0])
          /\ UNCHANGED << disk, free_map, open_inodes, tables, filesys_lock, health >>
     ELSE Panic("freed_inode")

GetOpen(p) == Get(p, "get_open", "open", "put_open")        \* inode_reopen
PutOpen(p) == Put(p, "put_open", "open", 1, "opened")
GetClose(p) == Get(p, "get_close", "open", "put_close")     \* inode_close
PutClose(p) == Put(p, "put_close", "open", -1, "test")
GetDeny(p) == Get(p, "get_deny", "deny", "put_deny")        \* inode_deny_write
PutDeny(p) == Put(p, "put_deny", "deny", 1, "denied")
PutAllow(p) == Put(p, "put_allow", "deny", -1, "get_close") \* inode_allow_write

GetAllow(p) ==
  LET c == inode[Me(p).i].count
  IN  /\ At(p, "get_allow")
      /\ IF inode[Me(p).i] # NULL /\ c.deny \notin 1 .. c.open
         THEN Panic("allow_write")
         ELSE Get(p, "get_allow", "deny", "put_allow")

(* inode_close reads the counter again, and takes an inode nobody has open *)
(* off the list.  The blocks of a removed file go with it.                 *)
Test(p) ==
  /\ At(p, "test")
  /\ IF inode[Me(p).i] # NULL
     THEN /\ Goto(p, IF inode[Me(p).i].count.open = 0 THEN "unlist" ELSE "closed")
          /\ UNCHANGED << disk, free_map, inodes, tables, at, filesys_lock, health >>
     ELSE Panic("freed_inode")

Unlist(p) ==
  /\ At(p, "unlist")
  /\ IF Me(p).i \in open_inodes
     THEN /\ open_inodes' = open_inodes \ {Me(p).i}
          /\ Goto(p, IF inode[Me(p).i].removed THEN "release_inode" ELSE "free")
          /\ UNCHANGED << disk, free_map, inode, tables, at, filesys_lock, health >>
     ELSE Panic("freed_inode")

ReleaseInode(p) ==
  At(p, "release_inode") /\ Release(p, {inode[Me(p).i].sector}, "release_data")
ReleaseData(p) ==
  At(p, "release_data") /\ Release(p, Data(inode[Me(p).i].data), "free")

FreeInode(p) ==
  /\ At(p, "free")
  /\ inode' = [inode EXCEPT ![Me(p).i] = NULL]
  /\ Goto(p, "closed")
  /\ UNCHANGED << disk, free_map, open_inodes, tables, at, filesys_lock, health >>

-------------------------------------------------------------------------------
FreeFds(p) == { k \in Fd : k >= next_fd[p] /\ fd_table[p][k] = NULL }

(* open puts the file in the first free descriptor from next_fd on; a file *)
(* that finds none is closed under the lock, taken anew.                   *)
AddFile(p) ==
  /\ At(p, "opened") /\ Me(p).op = "open"
  /\ filesys_lock' = NULL
  /\ \/ /\ FreeFds(p) # {}
        /\ fd_table' = [fd_table EXCEPT ![p][Min(FreeFds(p))] =
                                            [inode |-> Me(p).i, deny |-> FALSE]]
        /\ next_fd' = [next_fd EXCEPT ![p] = Min(FreeFds(p))]
        /\ Leave(p, "user")
     \/ /\ FreeFds(p) = {}
        /\ Goto(p, "reject")
        /\ UNCHANGED << fd_table, next_fd, at >>
  /\ UNCHANGED << disk, free_map, inodes, running, lost, health >>

Reject(p) ==
  /\ At(p, "reject") /\ filesys_lock = NULL
  /\ filesys_lock' = p
  /\ Goto(p, "get_close")
  /\ UNCHANGED << disk, free_map, inodes, tables, at, health >>

(* The blocks go at once, whoever has the file open. *)
EraseNow(p) ==
  /\ At(p, "opened") /\ Me(p).op = "remove"
  /\ dir' = [e \in Entry |-> IF e \in Lookup(Me(p).name) THEN NULL ELSE dir[e]]
  /\ Goto(p, "release_inode")
  /\ UNCHANGED << disk_map, content, free_map, inodes, tables, at, filesys_lock, health >>

(* dir_remove erases the entry and marks the inode; with no memory to      *)
(* write with it does neither.                                             *)
Erase(p) ==
  /\ At(p, "opened") /\ Me(p).op = "remove"
  /\ \/ /\ dir' = [e \in Entry |-> IF e \in Lookup(Me(p).name) THEN NULL ELSE dir[e]]
        /\ inode' = [inode EXCEPT ![Me(p).i].removed = TRUE]
        /\ UNCHANGED faults
     \/ NoMemory /\ UNCHANGED << dir, inode >>
  /\ Goto(p, "get_close")
  /\ UNCHANGED << disk_map, content, free_map, open_inodes, tables, at, filesys_lock,
                  raced, panic >>

(* mmap reopens the file of a descriptor; nobody closes what it opens. *)
Mmap(p, k) ==
  /\ Begin(p) /\ fd_table[p][k] # NULL
  /\ inode[fd_table[p][k].inode] # NULL => inode[fd_table[p][k].inode].count.open < MaxOpen
  /\ Local(p, [Idle EXCEPT !.op = "mmap", !.i = fd_table[p][k].inode])
  /\ Goto(p, "get_open")
  /\ UNCHANGED << disk, free_map, inodes, tables, filesys_lock, health >>

MmapDone(p) ==
  /\ At(p, "opened") /\ Me(p).op = "mmap"
  /\ lost' = [lost EXCEPT ![Me(p).i].refs = @ + 1]
  /\ Leave(p, "user")
  /\ UNCHANGED << disk, free_map, inodes, fd_table, next_fd, running, filesys_lock, health >>

(* Whoever denies it. *)
WriteDenied(p, k) ==
  LET i == fd_table[p][k].inode
  IN  /\ Begin(p) /\ fd_table[p][k] # NULL /\ filesys_lock = NULL
      /\ \E v \in {ZERO, ANY} :
           content' = [s \in Sector |-> IF s \in Data(inode[i].data) THEN v ELSE content[s]]
      /\ UNCHANGED << disk_map, dir, free_map, inodes, tables, pc, at, filesys_lock, health >>

(* write of zeros or of anything, under the lock, when nobody denies it. *)
Write(p, k) ==
  LET i == fd_table[p][k].inode
  IN  /\ Begin(p) /\ fd_table[p][k] # NULL /\ filesys_lock = NULL
      /\ inode[i] # NULL /\ inode[i].count.deny = 0
      /\ \E v \in {ZERO, ANY} :
           content' = [s \in Sector |-> IF s \in Data(inode[i].data) THEN v ELSE content[s]]
      /\ UNCHANGED << disk_map, dir, free_map, inodes, tables, pc, at, filesys_lock, health >>

-------------------------------------------------------------------------------
(* load opens the program, lets go of the lock, takes it for the header    *)
(* and, when the header is bad, keeps it.  Failing closes nothing; success *)
(* forgets the program that ran before.                                    *)
LoadOpened(p) ==
  /\ At(p, "opened") /\ Me(p).op = "load"
  /\ filesys_lock' = NULL
  /\ Goto(p, "header")
  /\ UNCHANGED << disk, free_map, inodes, tables, at, health >>

Readable(i) == inode[i].data.length > 0 /\ content[inode[i].data.start] = ANY
LoseFile(i, denies) == [lost EXCEPT ![i] = [refs |-> @.refs + 1, denies |-> @.denies + denies]]

ReadHeader(p) ==
  LET old == running[p]
  IN  /\ At(p, "header") /\ filesys_lock = NULL
      /\ \/ /\ Readable(Me(p).i)
            /\ running' = [running EXCEPT ![p] = [inode |-> Me(p).i, deny |-> TRUE]]
            /\ lost' = IF old = NULL THEN lost ELSE LoseFile(old.inode, 1)
            /\ Goto(p, "get_deny")
            /\ UNCHANGED << at, filesys_lock >>
         \/ /\ lost' = LoseFile(Me(p).i, 0)
            /\ filesys_lock' \in IF Readable(Me(p).i) THEN {NULL, p} ELSE {p}
            /\ Leave(p, "exit")
            /\ UNCHANGED running
      /\ UNCHANGED << disk, free_map, inodes, fd_table, next_fd, health >>

(* file_deny_write, then the stack and the user program, or the end. *)
Denied(p) ==
  /\ At(p, "denied")
  /\ IF inode[Me(p).i].count.deny <= inode[Me(p).i].count.open
     THEN /\ \E l \in {"user", "exit"} : Leave(p, l)
          /\ UNCHANGED << disk, free_map, inodes, tables, filesys_lock, health >>
     ELSE Panic("deny_write")

-------------------------------------------------------------------------------
(* The writes stay denied. *)
CloseFileDenied(p, f, op, k) ==
  /\ Goto(p, "get_close")
  /\ Local(p, [Idle EXCEPT !.op = op, !.i = f.inode, !.fd = k])
  /\ UNCHANGED << disk, free_map, inodes, tables, filesys_lock, health >>

(* file_close: writes allowed again, then the inode; descriptor 0 stands   *)
(* for the running program.                                                *)
CloseFile(p, f, op, k) ==
  /\ Goto(p, IF f.deny THEN "get_allow" ELSE "get_close")
  /\ Local(p, [Idle EXCEPT !.op = op, !.i = f.inode, !.fd = k])
  /\ UNCHANGED << disk, free_map, inodes, tables, filesys_lock, health >>

Close(p, k) ==
  /\ Begin(p) /\ fd_table[p][k] # NULL
  /\ CloseFile(p, fd_table[p][k], "close", k)

(* Where inode_close returns to. *)
Closed(p) ==
  LET me == Me(p)
  IN  /\ At(p, "closed")
      /\ IF me.fd \in Fd THEN fd_table' = [fd_table EXCEPT ![p][me.fd] = NULL]
                         ELSE UNCHANGED fd_table
      /\ IF me.op = "exit" /\ me.fd = 0 THEN running' = [running EXCEPT ![p] = NULL]
                                        ELSE UNCHANGED running
      /\ Leave(p, CASE me.op \in {"open", "remove"} -> "unlock"
                    [] me.op = "exit" -> IF me.fd = 0 THEN "dead" ELSE "exit"
                    [] OTHER -> "user")
      /\ UNCHANGED << disk, free_map, inodes, next_fd, lost, filesys_lock, health >>

Exit(p) ==
  /\ Begin(p)
  /\ Goto(p, "exit")
  /\ UNCHANGED << disk, free_map, inodes, tables, at, filesys_lock, health >>

(* process_exit closes the descriptors in order and the program last. *)
OpenFds(p) == { k \in Fd : fd_table[p][k] # NULL }

ExitStep(p) ==
  /\ At(p, "exit")
  /\ \/ /\ OpenFds(p) # {}
        /\ CloseFile(p, fd_table[p][Min(OpenFds(p))], "exit", Min(OpenFds(p)))
     \/ /\ OpenFds(p) = {} /\ running[p] # NULL
        /\ CloseFile(p, running[p], "exit", 0)
     \/ /\ OpenFds(p) = {} /\ running[p] = NULL
        /\ Leave(p, "dead")
        /\ UNCHANGED << disk, free_map, inodes, tables, filesys_lock, health >>

(* fork: the child duplicates the parent's files, without the lock; it     *)
(* runs the same program but its `running' is null.  One that died with    *)
(* the lock stays its holder for ever.                                     *)
Fork(p, q) ==
  /\ Begin(p) /\ pc[q] = "dead" /\ filesys_lock # q
  /\ \A k \in Fd : fd_table[p][k] # NULL =>
        inode[fd_table[p][k].inode] # NULL /\ inode[fd_table[p][k].inode].count.open < MaxOpen
  /\ pc' = [pc EXCEPT ![p] = "forking", ![q] = "duplicate"]
  /\ at' = [at EXCEPT ![q] = [Idle EXCEPT !.op = "fork", !.name = p]]
  /\ next_fd' = [next_fd EXCEPT ![q] = Min(Fd)]
  /\ UNCHANGED << disk, free_map, inodes, fd_table, running, lost, filesys_lock, health >>

Duplicate(q) ==
  LET parent == Me(q).name
      left == { k \in OpenFds(parent) : k > Me(q).fd }
  IN  /\ At(q, "duplicate")
      /\ \/ /\ left # {}
            /\ Goto(q, "get_open")
            /\ Local(q, [Me(q) EXCEPT !.fd = Min(left), !.i = fd_table[parent][Min(left)].inode])
            /\ UNCHANGED next_fd
         \/ /\ left = {}
            /\ next_fd' = [next_fd EXCEPT ![q] = next_fd[parent]]
            /\ pc' = [pc EXCEPT ![q] = "user", ![parent] = "user"]
            /\ Local(q, Idle)
      /\ UNCHANGED << disk, free_map, inodes, fd_table, running, lost, filesys_lock, health >>

Duplicated(q) ==
  /\ At(q, "opened") /\ Me(q).op = "fork"
  /\ fd_table' = [fd_table EXCEPT ![q][Me(q).fd] = [inode |-> Me(q).i, deny |-> FALSE]]
  /\ Goto(q, "duplicate") /\ Local(q, [Me(q) EXCEPT !.i = NULL])
  /\ UNCHANGED << disk, free_map, inodes, next_fd, running, lost, filesys_lock, health >>

-------------------------------------------------------------------------------
(* halt powers the machine off, whatever the others are doing; the system  *)
(* comes up from what the disk holds.                                      *)
Halt(p) ==
  /\ Begin(p) /\ faults < MaxFaults
  /\ Boot
  /\ faults' = faults + 1
  /\ UNCHANGED << disk, raced, panic >>

Call(p) ==
  \/ \E n \in Name : \/ \E k \in Length : Create(p, n, k)
                     \/ Open(p, n) \/ Load(p, n) \/ Remove(p, n) \/ LoadNothing(p, n)
  \/ \E k \in Fd : Mmap(p, k) \/ Write(p, k) \/ Close(p, k)
  \/ \E q \in Proc \ {p} : Fork(p, q)
  \/ Exit(p) \/ Halt(p)

(* What goes on once a call has begun. *)
Step(p) ==
  \/ WriteMap(p) \/ CreateInode(p) \/ WriteHeader(p) \/ ZeroData(p) \/ AddEntry(p)
  \/ UndoCreate(p) \/ Unlock(p) \/ ReadInode(p)
  \/ GetOpen(p) \/ PutOpen(p) \/ GetClose(p) \/ PutClose(p) \/ GetDeny(p) \/ PutDeny(p)
  \/ GetAllow(p) \/ PutAllow(p) \/ Test(p) \/ Unlist(p) \/ ReleaseInode(p)
  \/ ReleaseData(p) \/ FreeInode(p) \/ AddFile(p) \/ Reject(p) \/ Erase(p)
  \/ MmapDone(p) \/ LoadOpened(p) \/ ReadHeader(p) \/ Denied(p) \/ Closed(p)
  \/ ExitStep(p) \/ Duplicate(p) \/ Duplicated(p)

Next == \E p \in Proc : Call(p) \/ Step(p)

Spec == Init /\ [][Next]_vars

-------------------------------------------------------------------------------
(* Where a call can be, what it does, and its locals. *)
Label ==
  {"user", "write_map", "create_inode", "write_header", "zero_data", "add_entry", "undo_create",
   "unlock", "get_open", "put_open", "read_inode", "opened", "reject", "header", "get_deny",
   "put_deny", "denied", "get_allow", "put_allow", "get_close", "put_close", "test", "unlist",
   "release_inode", "release_data", "free", "closed", "forking", "duplicate", "exit", "dead"}
Op == {"none", "create", "open", "load", "remove", "mmap", "fork", "close", "exit"}

Locals == [op : Op, name : Name \cup Proc \cup {NULL}, sector : Sector \cup {0},
           i : Inode \cup {NULL}, num : Int, snap : SUBSET Sector, new : SUBSET Sector,
           fd : Nat, next : Label]

TypeOK ==
  /\ disk_map \subseteq Sector /\ free_map \subseteq Sector
  /\ dir \in [Entry -> DirEntry \cup {NULL}]
  /\ content \in [Sector -> Header \cup {ZERO, ANY}]
  /\ inode \in [Inode -> Struct \cup {NULL}] /\ open_inodes \subseteq Inode
  /\ fd_table \in [Proc -> [Fd -> File \cup {NULL}]] /\ next_fd \in [Proc -> Fd]
  /\ running \in [Proc -> File \cup {NULL}]
  /\ lost \in [Inode -> [refs : Nat, denies : Nat]]
  /\ pc \in [Proc -> Label]
  /\ at \in [Proc -> Locals]
  /\ filesys_lock \in Proc \cup {NULL}
  /\ calls \in 0 .. MaxCalls /\ faults \in 0 .. MaxFaults /\ raced \in BOOLEAN

(* An inode's counters are the files that refer to it and those that deny  *)
(* writing, while no call is at work on it: inode_reopen, inode_close and  *)
(* the deny and allow calls balance, over fork, exec, exit and mmap, up to *)
(* the first time two processes update one inode at once.                  *)
Files(i) == { x \in Proc \X Fd : fd_table[x[1]][x[2]] # NULL /\ fd_table[x[1]][x[2]].inode = i }
Runners(i) == { p \in Proc : running[p] # NULL /\ running[p].inode = i }

CountsExact ==
  \A i \in Inode :
    (~ raced /\ inode[i] # NULL /\ \A p \in Proc : at[p].i # i) =>
      /\ inode[i].count.open = Cardinality(Files(i)) + Cardinality(Runners(i)) + lost[i].refs
      /\ inode[i].count.deny = Cardinality(Runners(i)) + lost[i].denies

(* An open inode, removed or not, is what its sector holds, its sectors    *)
(* are allocated, and no other open inode has any of them: what remove and *)
(* close give back to free_map_release is nobody's any more.               *)
OpenStorageKept ==
  ~ raced =>
    \A i \in { j \in open_inodes : inode[j].data # NULL } :
      /\ content[inode[i].sector] = inode[i].data
      /\ Storage(inode[i].sector) \subseteq free_map
      /\ \A j \in { k \in open_inodes \ {i} : inode[k].data # NULL } :
            Storage(inode[i].sector) \cap Storage(inode[j].sector) = {}

(* Whenever the machine is halted, the directory on the disk names inodes  *)
(* that are there, with sectors that the free map on the disk has marked:  *)
(* free_map_allocate writes the map first and dir_add the entry last.      *)
EntriesOnDisk ==
  ~ raced => \A e \in Entry : dir[e] # NULL => /\ content[dir[e].sector] \in Header
                                             /\ Storage(dir[e].sector) \subseteq disk_map

(* The lock of the file system is not taken back to the user program: a    *)
(* holder is in a call, or has failed in load and never comes back.        *)
LockNotKept == filesys_lock # NULL => pc[filesys_lock] # "user"

(* The list has no freed inode. *)
ListedInUse == \A i \in open_inodes : inode[i] # NULL

(* Inodes, counters, descriptors and the lock over them agree, whatever    *)
(* calls are under way and whatever has failed.                            *)
InodesAreSound ==
  /\ TypeOK
  /\ ListedInUse
  /\ CountsExact
  /\ LockNotKept

(* The file a program runs from does not change under it: writes are       *)
(* denied from load to exit, and a removed file keeps its sectors.         *)
RunningFileKept ==
  [][ \A p \in Proc :
        (~ raced /\ running[p] # NULL /\ pc[p] \in {"user", "forking"} /\ running'[p] = running[p])
          => \A s \in Storage(inode[running[p].inode].sector) : content'[s] = content[s] ]_vars

(* The inodes and the directory are a store of files that come and go at   *)
(* once and share no sector, over calls, failures and reboots, as long as  *)
(* no two processes raced.                                                 *)
Stored == [n \in Name |-> UNION { Storage(dir[e].sector) : e \in Lookup(n) }]
Disk == INSTANCE FileStore WITH store <- Stored
ImplementsStore == Disk!Init /\ [][raced' \/ Disk!Next]_Stored
==================================================================================
