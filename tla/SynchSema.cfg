\* A semaphore upped by threads and by interrupts, three clients that change their priorities.
CONSTANTS
  main = main
  idle = idle
  a = a
  b = b
  s1 = s1
  Main = main
  Idle = idle
  NULL = NULL
  Thread <- MCThread4
  PRI_MAX = 1
  PRI_DEFAULT = 1
  TIME_SLICE = 1
  MaxTick = 0
  Lock = {}
  Sema = {s1}
  IntrSema = {s1}
  InitValue <- Zero
  MaxValue = 2
  MaxDepth = 8
  Uses <- UsesAll
  SetPriority = {0, 1}
  Sleeper = {main}
SPECIFICATION Spec
INVARIANTS
  WaitListsAreSound
SYMMETRY Symmetry
CHECK_DEADLOCK FALSE
