\* Two threads, two devices of one sector, three transfers.
CONSTANTS
  Thread = {t1, t2}
  Boot = t1
  Sector = {s1}
  Value = {0, 1}
  NULL = NULL
  MaxOps = 3
SPECIFICATION FairSpec
INVARIANTS
  ChannelIsOrderly
  TransferDone
PROPERTIES
  TransferEnds
CHECK_DEADLOCK FALSE
