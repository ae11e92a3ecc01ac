-------------------------------- MODULE FileData --------------------------------
(***************************************************************************)
(* The data of a file: inode_read_at and inode_write_at (filesys/inode.c), *)
(* which go through it sector by sector with a bounce buffer for a part of *)
(* a sector, and the calls of filesys/file.c on them: one request at a     *)
(* time, as under the filesys_lock of the system calls.  (The write-backs  *)
(* of mapped pages take no lock; Files has what is open, VM the pages.)    *)
(* A byte is named by where it comes from: byte i of the disk is i at the  *)
(* start, byte k of the caller's buffer is Written + k.                    *)
(***************************************************************************)
EXTENDS Integers, Sequences, FiniteSets, FiniteSetsExt

CONSTANTS
  SectorSize,
  Sectors,     \* of the disk, more than the file has
  Start,       \* the file's first sector
  MaxLength,
  MaxSize,     \* of a request
  NULL

VARIABLES
  disk,        \* its bytes
  length,      \* of the file
  pos,         \* of the struct file
  denied,      \* whether deny_write_cnt is positive
  request      \* the call under way

fdVars == <<disk, length, pos, denied, request>>

Written == 100
DiskBytes == 0..(Sectors * SectorSize - 1)

FdInit ==
  /\ disk = [a \in DiskBytes |-> a]
  /\ length \in 0..MaxLength /\ pos \in 0..(MaxLength + 1)
  /\ denied \in BOOLEAN /\ request = NULL

(* file_read, file_write, and the two with _at. *)
Request(op, size, ofs, moves) ==
  /\ request = NULL
  /\ request' = [op |-> op, size |-> size, ofs |-> ofs, first |-> ofs, done |-> 0,
                 moves |-> moves, bounce |-> FALSE, buf |-> <<>>, was_disk |-> disk,
                 at |-> IF op = "write" /\ denied THEN "return" ELSE "loop"]
  /\ UNCHANGED <<disk, length, pos, denied>>

FileSeek(to) ==
  /\ request = NULL /\ pos' = to
  /\ UNCHANGED <<disk, length, denied, request>>

Least(a, b) == IF a < b THEN a ELSE b

SectorOfs == request.ofs % SectorSize
SectorIdx == Start + request.ofs \div SectorSize   \* byte_to_sector
SectorLeft == SectorSize - SectorOfs
ChunkSize == Least(request.size, Least(length - request.ofs, SectorLeft))
IsWhole == SectorOfs = 0 /\ ChunkSize = SectorSize
Byte(sector, i) == sector * SectorSize + i

Advance(r) == [r EXCEPT !.size = @ - ChunkSize, !.ofs = @ + ChunkSize, !.done = @ + ChunkSize]

AtEnd == request.size =< 0 \/ ChunkSize =< 0

Reading == request # NULL /\ request.op = "read" /\ request.at = "loop"
Writing == request # NULL /\ request.op = "write" /\ request.at = "loop"

LoopEnds ==
  /\ Reading \/ Writing
  /\ AtEnd
  /\ request' = [request EXCEPT !.at = "return"]
  /\ UNCHANGED <<disk, length, pos, denied>>

NoBounce ==
  /\ Reading \/ Writing
  /\ ~AtEnd /\ ~IsWhole /\ ~request.bounce
  /\ request' = [request EXCEPT !.at = "no_memory"]
  /\ UNCHANGED <<disk, length, pos, denied>>

ReadChunk ==
  /\ Reading /\ ~AtEnd
  /\ LET chunk == [i \in 1..ChunkSize |-> disk[Byte(SectorIdx, SectorOfs + i - 1)]] IN
     request' = [Advance(request) EXCEPT !.buf = @ \o chunk, !.bounce = @ \/ ~IsWhole]
  /\ UNCHANGED <<disk, length, pos, denied>>

(* A bounce buffer that starts with zeros whenever the chunk starts a      *)
(* sector, also when the sector goes on behind it.                         *)
BounceBehind == [i \in 0..(SectorSize - 1) |->
                   IF SectorOfs > 0 THEN disk[Byte(SectorIdx, i)] ELSE 0]

Bounce == [i \in 0..(SectorSize - 1) |->
             IF SectorOfs > 0 \/ ChunkSize < SectorLeft THEN disk[Byte(SectorIdx, i)] ELSE 0]

WriteChunk ==
  /\ Writing /\ ~AtEnd
  /\ LET bytes == [i \in 0..(SectorSize - 1) |->
                     IF i \in SectorOfs..(SectorOfs + ChunkSize - 1)
                       THEN Written + request.done + (i - SectorOfs) ELSE Bounce[i]]
     IN  disk' = [a \in DiskBytes |-> IF a \div SectorSize = SectorIdx
                                        THEN bytes[a % SectorSize] ELSE disk[a]]
  /\ request' = [Advance(request) EXCEPT !.bounce = @ \/ ~IsWhole]
  /\ UNCHANGED <<length, pos, denied>>

Return ==
  /\ request # NULL /\ request.at \in {"return", "no_memory"}
  /\ pos' = IF request.moves THEN pos + request.done ELSE pos
  /\ request' = [request EXCEPT !.at = "done"]
  /\ UNCHANGED <<disk, length, denied>>

FileDataNext ==
  \/ \E op \in {"read", "write"}, size \in 0..MaxSize :
       \/ Request(op, size, pos, TRUE)
       \/ \E ofs \in 0..(MaxLength + 1) : Request(op, size, ofs, FALSE)
  \/ \E to \in 0..(MaxLength + 1) : FileSeek(to)
  \/ LoopEnds \/ NoBounce \/ ReadChunk \/ WriteChunk \/ Return

FileDataSpec == FdInit /\ [][FileDataNext]_fdVars

-------------------------------------------------------------------------------
Finished == request # NULL /\ request.at \in {"return", "no_memory", "done"}
Asked == request.size + request.done
Available == Least(Asked, Max({length - request.first, 0}))

(* The bytes of the file on the disk, and where the caller's should be.    *)
FileByte(i) == Start * SectorSize + i
Covered == { FileByte(request.first + k) : k \in 0..(request.done - 1) }

(* A finished call has gone as far as the file and the request go, less    *)
(* only when it had no memory; a write of a denied file nowhere.           *)
TransfersAll ==
  Finished =>
    /\ request.done =< Available
    /\ request.at = "return" =>
         request.done = IF request.op = "write" /\ denied THEN 0 ELSE Available

(* At every moment the bytes gone through are right, in the buffer or on   *)
(* the disk, and no other byte of the disk has changed: not those before   *)
(* and behind the request in its first and last sector, not the rest of    *)
(* the file's last sector, not another file's.                             *)
TransfersExactly ==
  request # NULL =>
    /\ request.op = "read" =>
         /\ disk = request.was_disk
         /\ request.buf = [k \in 1..request.done |-> disk[FileByte(request.first + k - 1)]]
    /\ request.op = "write" =>
         \A a \in DiskBytes :
           disk[a] = IF a \in Covered THEN Written + (a - FileByte(request.first))
                                      ELSE request.was_disk[a]
===============================================================================
