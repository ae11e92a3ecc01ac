\* Two readers, two printers of a line of two characters, queues of two bytes.
CONSTANTS
  Reader = {r1, r2}
  Writer = {w1, w2}
  BufSize = 3
  LineLen = 2
  MaxKeys = 3
  MaxIntr = 1
  NULL = NULL
SPECIFICATION FairSpec
INVARIANTS
  BytesInOrder
  WaitersAndInterruptsAgree
PROPERTIES
  QueuesDrain
CHECK_DEADLOCK FALSE
