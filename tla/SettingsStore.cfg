\* The settings record across boots, saves and power losses, when a torn
\* erase or program never leaves a flag word readable.
CONSTANTS
  dflt = dflt
  user1 = user1
  user2 = user2
  None = None
  Mixed = Mixed
  Versions <- MCVersions
  Defaults = dflt
  RecordLen = 7
  SegmentSize = 4
  TornKeepsFlag = FALSE
  MaxDowns = 3
SPECIFICATION Spec
INVARIANTS
  TypeOK
  RunsWithWrittenSettings
PROPERTIES
  RefinesAtomicSettings
