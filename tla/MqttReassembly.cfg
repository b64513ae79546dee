CONSTANTS
  water = water
  light = light
  other = other
  NoTopic = NoTopic
  Topics <- MCTopics
  Unknown <- MCUnknown
  BufSize = 3
  MaxLen = 3
  MaxMsgs = 3

SPECIFICATION Spec
SYMMETRY MCSymmetry

INVARIANTS
  TypeOK
  NoMemoryFault

PROPERTIES
  HandlerGetsWholeMessage
