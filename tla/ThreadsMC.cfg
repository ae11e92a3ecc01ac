\* Scheduler and alarm clock: two priorities, time slices of two ticks.
CONSTANTS
  main = main
  idle = idle
  a = a
  b = b
  Main = main
  Idle = idle
  Thread <- MCThread
  PRI_MAX = 1
  PRI_DEFAULT = 1
  TIME_SLICE = 2
  MaxTick = 2
SPECIFICATION Spec
INVARIANTS
  TypeOK
  QueuesMatchStates
PROPERTIES
  NobodyOversleeps
  NobodyWakesEarly
SYMMETRY Symmetry
CHECK_DEADLOCK FALSE
