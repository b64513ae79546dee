\* Does every published message get freed, even granting lwIP calls pending publishes back on close?
CONSTANTS
  water = water
  light = light
  Topics <- MCTopics
  NPub = 2
  MaxInFlight = 3
  CloseCallsBack = TRUE
  MaxPubs = 3
  MaxCloses = 2
  MaxRetries = 1
SPECIFICATION Spec
SYMMETRY MCSymmetry
CHECK_DEADLOCK FALSE
INVARIANT PublishNoLeak
