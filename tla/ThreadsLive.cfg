\* One priority level: round robin by time slices, and the alarm clock.
CONSTANTS
  main = main
  idle = idle
  a = a
  b = b
  Main = main
  Idle = idle
  Thread <- MCThread
  PRI_MAX = 0
  PRI_DEFAULT = 0
  TIME_SLICE = 2
  MaxTick = 1
SPECIFICATION FairSpec
PROPERTIES
  SleeperWakes
  ReadyThreadRuns
CHECK_DEADLOCK FALSE
