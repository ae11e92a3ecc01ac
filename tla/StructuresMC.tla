------------------------------ MODULE StructuresMC ------------------------------
(***************************************************************************)
(* The small modules of the kernel's data structures and allocators, each  *)
(* checked by itself: `part` says which of them a behaviour is about, and  *)
(* the variables of the others stay NULL.                                  *)
(***************************************************************************)
EXTENDS Integers, Sequences

CONSTANTS
  NULL,
  Elem, head, tail, dhead, dtail,  \* of LinkedList
  User                             \* of Memory

VARIABLES
  part,
  holder, waiters, value, pc,  \* Monitor
  bits, pool_lock, free_list, desc_lock, free_cnt, own, call,  \* Memory
  buckets, elem_cnt, hash, content, visit,  \* HashTable
  used, entry, pml4, walk, frames, mapped, destroyed,  \* PageTable
  link, key, job, was, calls,  \* LinkedList
  disk, length, pos, denied, request,  \* FileData
  phdrs, next_phdr, segment, spt, loaded, stage,  \* Loader
  lens, argv, rsp, stack, push,  \* Arguments
  conv, digits, todo, aux, sent  \* Format

Hdr(type, ofs, va, filesz, memsz) ==
  [type |-> type, offset |-> ofs, vaddr |-> va, filesz |-> filesz, memsz |-> memsz]
OneSegment ==
  { <<Hdr("load", o, v, f, m)>> :
      o \in {0, 1, 2, 5, 6}, v \in 0..15, f \in {0, 1, 3, 9}, m \in {0, 1, 2, 3, 5, 9, 12, 15} }
SmallSegments ==
  { Hdr("load", o, v, f, m) : o \in {0, 1}, v \in 2..5, f \in 0..2, m \in 1..3 }
OtherHeaders == { Hdr(type, 0, 0, 0, 0) : type \in {"ignored", "rejected"} }
TwoHeaders == { <<a, b>> : a \in SmallSegments, b \in SmallSegments \cup OtherHeaders }

Conversion(spec, values, flags) ==
  { [spec |-> spec, type |-> v[1], value |-> v[2], str |-> << >>,
     flags |-> f, width |-> w, precision |-> p] :
      v \in values, f \in SUBSET flags, w \in {-9, 0, 9}, p \in {-1, 0, 3, 12} }
Strings ==
  { [spec |-> "s", type |-> "int", value |-> 0, str |-> s,
     flags |-> f, width |-> w, precision |-> p] :
      s \in {<< >>, <<"a", "b", "c">>}, f \in SUBSET {"minus"}, w \in {-5, 0, 2, 5},
      p \in {-1, 0, 2} }
Conversions ==
  Conversion("d", {<<"int", -1000>>, <<"int", 0>>, <<"char", 200>>, <<"short", 40000>>},
             {"minus", "plus", "space", "zero", "group"})
  \cup Conversion("u", {<<"char", 300>>, <<"int", 1234567>>}, {"minus", "zero", "group"})
  \cup Conversion("o", {<<"int", 0>>, <<"int", 8>>, <<"short", 70000>>},
                  {"minus", "pound", "zero", "group"})
  \cup Conversion("x", {<<"int", 0>>, <<"int", 439041101>>}, {"minus", "pound", "zero", "group"})
  \cup Strings

M == INSTANCE Monitor WITH
       Thread <- 1..4, Priority <- <<0, 1, 1, 2>>, Misread <- {0, 3}
P == INSTANCE Memory WITH
       Pages <- 3, BlocksPerArena <- 2, BigPages <- 2, MaxOwned <- 2
H == INSTANCE HashTable WITH
       Item <- 1..5, Keys <- 1..4, KeyOf <- <<1, 2, 3, 4, 1>>,
       Hashes <- {<<0, 1, 2, 3>>, <<2, 2, 2, 2>>, <<0, 2, 3, 0>>},
       MinBuckets <- 1, BestElems <- 1
T == INSTANCE PageTable WITH
       Page <- 1..6, Frame <- 11..12, Index <- 0..1,
       Va <- {<<0, 0, 0, 0>>, <<1, 0, 0, 0>>, <<1, 1, 0, 0>>, <<0, 1, 1, 0>>}
L == INSTANCE LinkedList WITH Key <- 0..2, MaxCalls <- 1
D == INSTANCE FileData WITH
       SectorSize <- 3, Sectors <- 4, Start <- 1, MaxLength <- 6, MaxSize <- 7
B == INSTANCE Loader WITH
       PgSize <- 2, Space <- 16, Uint32 <- 8, KernBase <- 12, StackPage <- 4, FileLength <- 5,
       Programs <- OneSegment \cup TwoHeaders
A == INSTANCE Arguments WITH
       UserStack <- 96, ArgLengths <- UNION { [1..n -> {1, 3, 6, 8}] : n \in 1..3 }
F == INSTANCE Format WITH BufSizes <- {0, 1, 8}, DigitBuf <- 11

NoMonitor ==
  /\ holder = NULL /\ waiters = NULL /\ value = NULL /\ pc = NULL
SameMonitor == UNCHANGED <<holder, waiters, value, pc>>
NoMemory ==
  /\ bits = NULL /\ pool_lock = NULL /\ free_list = NULL /\ desc_lock = NULL
  /\ free_cnt = NULL /\ own = NULL /\ call = NULL
SameMemory == UNCHANGED <<bits, pool_lock, free_list, desc_lock, free_cnt, own, call>>
NoHashTable ==
  /\ buckets = NULL /\ elem_cnt = NULL /\ hash = NULL /\ content = NULL /\ visit = NULL
SameHashTable == UNCHANGED <<buckets, elem_cnt, hash, content, visit>>
NoPageTable ==
  /\ used = NULL /\ entry = NULL /\ pml4 = NULL /\ walk = NULL /\ frames = NULL
  /\ mapped = NULL /\ destroyed = NULL
SamePageTable == UNCHANGED <<used, entry, pml4, walk, frames, mapped, destroyed>>
NoLinkedList ==
  /\ link = NULL /\ key = NULL /\ job = NULL /\ was = NULL /\ calls = NULL
SameLinkedList == UNCHANGED <<link, key, job, was, calls>>
NoFileData ==
  /\ disk = NULL /\ length = NULL /\ pos = NULL /\ denied = NULL /\ request = NULL
SameFileData == UNCHANGED <<disk, length, pos, denied, request>>
NoLoader ==
  /\ phdrs = NULL /\ next_phdr = NULL /\ segment = NULL /\ spt = NULL /\ loaded = NULL
  /\ stage = NULL
SameLoader == UNCHANGED <<phdrs, next_phdr, segment, spt, loaded, stage>>
NoArguments ==
  /\ lens = NULL /\ argv = NULL /\ rsp = NULL /\ stack = NULL /\ push = NULL
SameArguments == UNCHANGED <<lens, argv, rsp, stack, push>>
NoFormat ==
  /\ conv = NULL /\ digits = NULL /\ todo = NULL /\ aux = NULL /\ sent = NULL
SameFormat == UNCHANGED <<conv, digits, todo, aux, sent>>

Init ==
  \/ part = "monitor" /\ M!Init
     /\ NoMemory /\ NoHashTable /\ NoPageTable /\ NoLinkedList
     /\ NoFileData /\ NoLoader /\ NoArguments /\ NoFormat
  \/ part = "memory" /\ P!MemInit
     /\ NoMonitor /\ NoHashTable /\ NoPageTable /\ NoLinkedList
     /\ NoFileData /\ NoLoader /\ NoArguments /\ NoFormat
  \/ part = "hash" /\ H!HashInit
     /\ NoMonitor /\ NoMemory /\ NoPageTable /\ NoLinkedList
     /\ NoFileData /\ NoLoader /\ NoArguments /\ NoFormat
  \/ part = "pages" /\ T!PtInit
     /\ NoMonitor /\ NoMemory /\ NoHashTable /\ NoLinkedList
     /\ NoFileData /\ NoLoader /\ NoArguments /\ NoFormat
  \/ part = "list" /\ L!ListInit
     /\ NoMonitor /\ NoMemory /\ NoHashTable /\ NoPageTable
     /\ NoFileData /\ NoLoader /\ NoArguments /\ NoFormat
  \/ part = "data" /\ D!FdInit
     /\ NoMonitor /\ NoMemory /\ NoHashTable /\ NoPageTable
     /\ NoLinkedList /\ NoLoader /\ NoArguments /\ NoFormat
  \/ part = "loader" /\ B!LoadInit
     /\ NoMonitor /\ NoMemory /\ NoHashTable /\ NoPageTable
     /\ NoLinkedList /\ NoFileData /\ NoArguments /\ NoFormat
  \/ part = "args" /\ A!ArgsInit
     /\ NoMonitor /\ NoMemory /\ NoHashTable /\ NoPageTable
     /\ NoLinkedList /\ NoFileData /\ NoLoader /\ NoFormat
  \/ part = "format" /\ F!FormatInit
     /\ NoMonitor /\ NoMemory /\ NoHashTable /\ NoPageTable
     /\ NoLinkedList /\ NoFileData /\ NoLoader /\ NoArguments

Next ==
  \/ part = "monitor" /\ M!Next /\ UNCHANGED part
     /\ SameMemory /\ SameHashTable /\ SamePageTable /\ SameLinkedList
     /\ SameFileData /\ SameLoader /\ SameArguments /\ SameFormat
  \/ part = "memory" /\ P!MemNext /\ UNCHANGED part
     /\ SameMonitor /\ SameHashTable /\ SamePageTable /\ SameLinkedList
     /\ SameFileData /\ SameLoader /\ SameArguments /\ SameFormat
  \/ part = "hash" /\ H!HashTableNext /\ UNCHANGED part
     /\ SameMonitor /\ SameMemory /\ SamePageTable /\ SameLinkedList
     /\ SameFileData /\ SameLoader /\ SameArguments /\ SameFormat
  \/ part = "pages" /\ T!PageTableNext /\ UNCHANGED part
     /\ SameMonitor /\ SameMemory /\ SameHashTable /\ SameLinkedList
     /\ SameFileData /\ SameLoader /\ SameArguments /\ SameFormat
  \/ part = "list" /\ L!ListNext /\ UNCHANGED part
     /\ SameMonitor /\ SameMemory /\ SameHashTable /\ SamePageTable
     /\ SameFileData /\ SameLoader /\ SameArguments /\ SameFormat
  \/ part = "data" /\ D!FileDataNext /\ UNCHANGED part
     /\ SameMonitor /\ SameMemory /\ SameHashTable /\ SamePageTable
     /\ SameLinkedList /\ SameLoader /\ SameArguments /\ SameFormat
  \/ part = "loader" /\ B!LoaderNext /\ UNCHANGED part
     /\ SameMonitor /\ SameMemory /\ SameHashTable /\ SamePageTable
     /\ SameLinkedList /\ SameFileData /\ SameArguments /\ SameFormat
  \/ part = "args" /\ A!ArgumentsNext /\ UNCHANGED part
     /\ SameMonitor /\ SameMemory /\ SameHashTable /\ SamePageTable
     /\ SameLinkedList /\ SameFileData /\ SameLoader /\ SameFormat
  \/ part = "format" /\ F!FormatNext /\ UNCHANGED part
     /\ SameMonitor /\ SameMemory /\ SameHashTable /\ SamePageTable
     /\ SameLinkedList /\ SameFileData /\ SameLoader /\ SameArguments

-------------------------------------------------------------------------------
(* Condition variables: a thread in cond_wait is on the list or has its    *)
(* one wakeup, never neither and never both.                               *)
WakeupsAreExact == part = "monitor" => M!TypeOK /\ M!OneWakeupEach
(* cond_signal wakes a waiter of the highest priority, when all are asleep. *)
HighestIsSignalled ==
  [][part = "monitor" => M!PicksHighest]_<<holder, waiters, value, pc>>
(* Allocators: a page or a block is given to one at a time and is free or  *)
(* in use, none is leaked, and a call fails only if there was no room.     *)
AllocationIsSound ==
  part = "memory" => P!PagesAreExclusive /\ P!BlocksAreExclusive /\ P!FailsOnlyWhenFull
(* Hash tables: what was put in is found and visited once, in the chain of *)
(* its hash, through rehashes that succeed or fail.                        *)
TableIsSound == part = "hash" => H!FindsContent /\ H!ChainsAreExact /\ H!VisitsEachOnce
(* Page tables: each page is seen mapped as it was mapped, no table is     *)
(* leaked or shared, a walk that fails undoes what it did, and             *)
(* pml4_destroy frees everything once.                                     *)
TreeIsSound ==
  part = "pages" => /\ T!MappingsAgree /\ T!TreeIsExact
                    /\ T!FailedWalkLeavesNoTrace /\ T!DestroyFreesAll
(* Lists: the pointers mirror each other in the middle of a routine, which *)
(* does what KernelList says; a pass of list_sort merges sorted runs only  *)
(* and halves their number.                                                *)
ListsAreSound ==
  part = "list" => /\ L!ListsAreWhole /\ L!RoutinesKeepPromises
                   /\ L!MergesSortedRuns /\ L!PassHalvesRuns
(* File data: a request goes as far as it and the file go, touches its own *)
(* bytes only and gets them right.                                         *)
TransferIsSound == part = "data" => D!TransfersAll /\ D!TransfersExactly
(* Programs: a program reserves the user pages it needs and no others, and *)
(* each byte of a segment is the file's or zero, if 32 bits are enough to  *)
(* count the segment's bytes to read and to zero; the new stack holds argv *)
(* as the program expects it.                                              *)
ProgramIsInPlace ==
  /\ part = "loader" => B!ImageIsRight /\ B!ReservesUserPages
  /\ part = "args" => A!ProgramFindsArguments
(* printf: the digits of a number stay in the buffer they are put together *)
(* in, the field has its value, its sign and its width, and vsnprintf      *)
(* leaves room for the terminator and returns the whole length.            *)
OutputIsSound == part = "format" => F!DigitsFit /\ F!FieldIsRight /\ F!OutputIsCut
================================================================================
