--------------------------------- MODULE Loader ---------------------------------
(***************************************************************************)
(* load (userprog/process.c) from the program headers to the stack: which  *)
(* segments it accepts, which pages load_segment reserves for them, and    *)
(* what lazy_load_segment puts into a page when it is first touched.       *)
(* Addresses are numbers modulo 2^w, and a page is named by its number.    *)
(* The bytes to read and to zero are counted in fewer bits than an address *)
(* has (uint32_t), and a segment of the user's part of the address space   *)
(* may be longer than such a count.                                        *)
(* Locks, descriptors and failures of the file are in Process and Files.   *)
(***************************************************************************)
EXTENDS Integers, Sequences, FiniteSets

CONSTANTS
  PgSize,
  Space,       \* 2^w
  Uint32,      \* 2^v, of read_bytes and zero_bytes; v < w
  KernBase,    \* the first kernel address, a page's
  StackPage,   \* the page under USER_STACK
  FileLength,
  Programs,    \* the sequences of headers to try
  NULL

VARIABLES
  phdrs,       \* the program's headers
  next_phdr,
  segment,     \* the loop of load_segment, or NULL
  spt,         \* pages reserved: what to fill them with
  loaded,      \* the segments that are in
  stage

loadVars == <<phdrs, next_phdr, segment, spt, loaded, stage>>

PageNumbers == 0..(Space \div PgSize - 1)
PgOfs(a) == a % PgSize
RoundUp(n) == ((n + PgSize - 1) \div PgSize) * PgSize
IsUser(a) == a < KernBase

LoadInit ==
  /\ phdrs \in Programs /\ next_phdr = 1
  /\ segment = NULL /\ spt = [p \in PageNumbers |-> NULL]
  /\ loaded = {} /\ stage = "headers"

SegmentEnd(h) == (h.vaddr + h.memsz) % Space

ValidateSegment(h) ==
  /\ PgOfs(h.offset) = PgOfs(h.vaddr) /\ h.offset =< FileLength
  /\ h.memsz >= h.filesz /\ h.memsz # 0
  /\ IsUser(h.vaddr) /\ IsUser(SegmentEnd(h))
  /\ SegmentEnd(h) >= h.vaddr \* the region does not wrap around
  /\ h.vaddr >= PgSize

(* A load that counts the bytes to read from p_vaddr, not from its page. *)
ReadBytesFromVaddr(h) == h.filesz % Uint32

ReadBytes(h) == IF h.filesz > 0 THEN (PgOfs(h.vaddr) + h.filesz) % Uint32 ELSE 0
ZeroBytes(h) == (RoundUp(PgOfs(h.vaddr) + h.memsz) - ReadBytes(h)) % Uint32

LoadHeader ==
  /\ stage = "headers" /\ segment = NULL /\ next_phdr =< Len(phdrs)
  /\ LET h == phdrs[next_phdr] IN
     IF h.type = "ignored"
       THEN next_phdr' = next_phdr + 1 /\ UNCHANGED <<segment, stage>>
     ELSE IF h.type = "load" /\ ValidateSegment(h)
       THEN /\ segment' = [upage |-> h.vaddr \div PgSize, ofs |-> h.offset - PgOfs(h.offset),
                           read |-> ReadBytes(h), zero |-> ZeroBytes(h)]
            /\ UNCHANGED <<next_phdr, stage>>
     ELSE stage' = "failed" /\ UNCHANGED <<next_phdr, segment>>
  /\ UNCHANGED <<phdrs, spt, loaded>>

PageRead == IF segment.read < PgSize THEN segment.read ELSE PgSize

(* One round of load_segment: a page is reserved, unless there is one.     *)
LoadPage ==
  /\ stage = "headers" /\ segment # NULL /\ (segment.read > 0 \/ segment.zero > 0)
  /\ IF spt[segment.upage] = NULL
       THEN /\ spt' = [spt EXCEPT ![segment.upage] = [ofs |-> segment.ofs, read |-> PageRead]]
            /\ segment' = [upage |-> segment.upage + 1, ofs |-> segment.ofs + PageRead,
                           read |-> segment.read - PageRead,
                           zero |-> segment.zero - (PgSize - PageRead)]
            /\ UNCHANGED stage
       ELSE stage' = "failed" /\ UNCHANGED <<spt, segment>>
  /\ UNCHANGED <<phdrs, next_phdr, loaded>>

SegmentDone ==
  /\ stage = "headers" /\ segment # NULL /\ segment.read = 0 /\ segment.zero = 0
  /\ segment' = NULL /\ next_phdr' = next_phdr + 1
  /\ loaded' = loaded \cup {phdrs[next_phdr]}
  /\ UNCHANGED <<phdrs, spt, stage>>

(* setup_stack; its page is claimed at once. *)
SetupStack ==
  /\ stage = "headers" /\ segment = NULL /\ next_phdr > Len(phdrs)
  /\ IF spt[StackPage] = NULL
       THEN spt' = [spt EXCEPT ![StackPage] = [ofs |-> 0, read |-> 0]] /\ stage' = "loaded"
       ELSE stage' = "failed" /\ UNCHANGED spt
  /\ UNCHANGED <<phdrs, next_phdr, segment, loaded>>

LoaderNext == LoadHeader \/ LoadPage \/ SegmentDone \/ SetupStack

LoaderSpec == LoadInit /\ [][LoaderNext]_loadVars

-------------------------------------------------------------------------------
(* lazy_load_segment: byte k of a page is a byte of the file or zero; a    *)
(* page whose part of the file is short cannot be loaded at all.           *)
Loadable(p) == spt[p].ofs + spt[p].read =< FileLength
PageByte(p, k) == IF k < spt[p].read THEN [file |-> spt[p].ofs + k] ELSE [file |-> -1]

(* The segment's two counts are what they are meant to be: none was too    *)
(* long for the variable it is kept in.                                    *)
CountsFit(h) ==
  LET read == IF h.filesz > 0 THEN PgOfs(h.vaddr) + h.filesz ELSE 0
  IN  read < Uint32 /\ RoundUp(PgOfs(h.vaddr) + h.memsz) - read < Uint32

(* Every byte of a loaded segment whose counts fit is the file's, zero     *)
(* behind p_filesz, and it can be touched if the file has all of it.       *)
ImageIsRight ==
  \A h \in loaded : CountsFit(h) => \A i \in 0..(h.memsz - 1) :
    LET a == h.vaddr + i
        p == a \div PgSize
    IN  /\ spt[p] # NULL
        /\ PageByte(p, PgOfs(a)) = IF i < h.filesz THEN [file |-> h.offset + i] ELSE [file |-> -1]
        /\ h.offset + h.filesz =< FileLength => Loadable(p)

SegmentPages(h) == (h.vaddr \div PgSize)..((h.vaddr + h.memsz - 1) \div PgSize)
PagesOf(segments) == UNION { SegmentPages(h) : h \in segments }
Reserved == { p \in PageNumbers : spt[p] # NULL }

(* Whatever the headers say, also while a load that will fail is on its    *)
(* way, no page is reserved outside the user's part of the address space   *)
(* or at address 0; a program that is in has no page its segments do not   *)
(* name, and all the pages of those whose counts fit.                      *)
ReservesUserPages ==
  /\ \A p \in Reserved : p > 0 /\ IsUser(p * PgSize)
  /\ stage = "loaded" =>
       /\ Reserved \subseteq PagesOf(loaded) \cup {StackPage}
       /\ PagesOf({ h \in loaded : CountsFit(h) }) \cup {StackPage} \subseteq Reserved
================================================================================
