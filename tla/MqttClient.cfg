\* Connection, subscription and publish lifecycle, with lwIP dropping the
\* pending requests silently on close (lwIP's mqtt_close).
CONSTANTS
  water = water
  light = light
  Topics <- MCTopics
  NPub = 2
  MaxInFlight = 3
  CloseCallsBack = FALSE
  MaxPubs = 3
  MaxCloses = 2
  MaxRetries = 1
SPECIFICATION Spec
SYMMETRY MCSymmetry
CHECK_DEADLOCK FALSE
INVARIANTS
  TypeOK
  ConnectedFlagSound
  NoUseAfterFree
  SubRequestMatchesFlag
