\* Does the node only ever run with settings written whole, when a power
\* loss in the middle of an erase may leave weakly erased bits?
CONSTANTS
  dflt = dflt
  user1 = user1
  user2 = user2
  None = None
  Mixed = Mixed
  Versions <- MCVersions
  Defaults = dflt
  RecordLen = 7
  SegmentSize = 4
  TornKeepsFlag = TRUE
  MaxDowns = 3
SPECIFICATION Spec
INVARIANTS
  RunsWithWrittenSettings


