\* Two processes, two names, three sectors, six calls and one halt or lack of memory.
CONSTANTS
  p = p
  q = q
  a = a
  b = b
  i1 = i1
  i2 = i2
  NULL = NULL
  ZERO = ZERO
  ANY = ANY
  Proc <- MCProc
  Name <- MCName
  Sector <- MCSector
  Entry <- MCEntry
  Fd <- MCFd
  Inode <- MCInode
  Length <- MCLength
  MaxOpen = 2
  MaxCalls = 6
  MaxFaults = 1
  FollowRaces = FALSE
SYMMETRY Symmetry
SPECIFICATION Spec
INVARIANTS
  InodesAreSound
  OpenStorageKept
  EntriesOnDisk
PROPERTIES
  RunningFileKept
  ImplementsStore
CHECK_DEADLOCK FALSE
