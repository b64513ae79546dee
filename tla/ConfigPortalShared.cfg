\* Are the fields applied at the end of a POST that POST's own?
CONSTANTS
  MaxLen = 3
  MaxPosts = 2
  Background = FALSE
SPECIFICATION Spec
CHECK_DEADLOCK FALSE
INVARIANTS
  ParsesOnlyOwnPost
