\* Two clients and a walk through the pages, three rows, two names.
CONSTANTS
  a = a
  b = b
  Requests = {r1, r2}
  Lister = TRUE
  Rows = {1, 2, 3}
  Names = {a, b}
  NoName = noName
  PageSize = 1
  InitialRows <- TwoItems
  MaxVersion = 3
  MaxRequests = 3
  MaxDrops = 1
SPECIFICATION FairSpec
INVARIANTS
  UniqueNames
  AtMostOnce
  NoWaitCycle
  WalkComplete
PROPERTIES
  Answered
  ImplementsItemLedger
CHECK_DEADLOCK FALSE
