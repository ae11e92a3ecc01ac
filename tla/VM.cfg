\* Two processes, three pages each; two to four physical pages, and slots.
CONSTANTS
  p = p
  q = q
  text = text
  top = top
  map = map
  f1 = f1
  f2 = f2
  f3 = f3
  f4 = f4
  NULL = NULL
  DANGLING = DANGLING
  First = p
  Top = top
  Proc <- MCProc
  Segment <- MCSegment
  Stack <- MCStack
  Map <- MCMap
  Frame <- MCFrame
  Kva <- MCKva
  Slot <- MCSlot
  Size <- MCSize
SPECIFICATION Spec
INVARIANTS
  MemoryIsSound
  ContentKept
PROPERTIES
  StoresReachFile
CHECK_DEADLOCK FALSE
