\* main, initd and two more processes.
CONSTANTS
  main = main
  initd = initd
  a = a
  b = b
  Main = main
  Initd = initd
  NULL = NULL
  Proc <- MCProc
  UserStatus <- MCUserStatus
SPECIFICATION FairSpec
INVARIANTS
  FamilyIsSound
  ForkerStandsStill
PROPERTIES
  CallsReturn
CHECK_DEADLOCK FALSE
