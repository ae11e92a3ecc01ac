\* lock_acquire reads lock->holder twice.
CONSTANTS
  main = main
  idle = idle
  a = a
  b = b
  s1 = s1
  Main = main
  Idle = idle
  NULL = NULL
  Thread <- MCThread4
  PRI_MAX = 1
  PRI_DEFAULT = 1
  TIME_SLICE = 1
  MaxTick = 0
  Lock = {1}
  Sema = {}
  IntrSema = {}
  InitValue <- Zero
  MaxValue = 1
  MaxDepth = 8
  Uses <- UsesAll
  SetPriority = {}
  Sleeper = {main}
SPECIFICATION Spec
INVARIANT AcquireSleepsOrSucceeds
CHECK_DEADLOCK FALSE
