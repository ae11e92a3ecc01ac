CONSTANTS
  NULL = NULL
  Elem = {e1, e2, e3, e4}
  head = head
  tail = tail
  dhead = dhead
  dtail = dtail
  User = {u1, u2}
INIT Init
NEXT Next
INVARIANTS
  WakeupsAreExact
  AllocationIsSound
  TableIsSound
  TreeIsSound
  ListsAreSound
  TransferIsSound
  ProgramIsInPlace
  OutputIsSound
PROPERTIES
  HighestIsSignalled
CHECK_DEADLOCK FALSE
