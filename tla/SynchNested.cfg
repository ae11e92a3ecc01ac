\* Two nested locks, three clients, two priorities; main also sleeps.
CONSTANTS
  main = main
  idle = idle
  a = a
  b = b
  s1 = s1
  Main = main
  Idle = idle
  NULL = NULL
  Thread <- MCThread4
  PRI_MAX = 1
  PRI_DEFAULT = 1
  TIME_SLICE = 1
  MaxTick = 0
  Lock = {1, 2}
  Sema = {}
  IntrSema = {}
  InitValue <- Zero
  MaxValue = 1
  MaxDepth = 8
  Uses <- UsesNested
  SetPriority = {}
  Sleeper = {main}
INIT NestedInit
NEXT Next
INVARIANTS
  LockingIsSound
CHECK_DEADLOCK FALSE
