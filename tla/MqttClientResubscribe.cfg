\* Is a set is_subscribed flag true of the broker session after a reconnect?
CONSTANTS
  water = water
  light = light
  Topics <- MCTopics
  NPub = 2
  MaxInFlight = 3
  CloseCallsBack = FALSE
  MaxPubs = 3
  MaxCloses = 2
  MaxRetries = 1
SPECIFICATION Spec
SYMMETRY MCSymmetry
CHECK_DEADLOCK FALSE
INVARIANT SubscribedFlagTruthful
