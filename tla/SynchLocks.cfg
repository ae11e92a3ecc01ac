\* Two locks, two clients that change their priorities; a nests the locks.
CONSTANTS
  main = main
  idle = idle
  a = a
  b = b
  s1 = s1
  Main = main
  Idle = idle
  NULL = NULL
  Thread <- MCThread3
  PRI_MAX = 1
  PRI_DEFAULT = 1
  TIME_SLICE = 1
  MaxTick = 0
  Lock = {1, 2}
  Sema = {}
  IntrSema = {}
  InitValue <- Zero
  MaxValue = 1
  MaxDepth = 8
  Uses <- UsesNested
  SetPriority = {0, 1}
  Sleeper = {main}
SPECIFICATION Spec
INVARIANTS
  TypeOK
  NoLockStall
PROPERTIES
  ImplementsLocks
  SchedulerSteps
CHECK_DEADLOCK FALSE
