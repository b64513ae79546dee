\* The background build: can a POST that changes a setting be lost?
CONSTANTS
  MaxLen = 3
  MaxPosts = 2
  Background = TRUE
SPECIFICATION Spec
CHECK_DEADLOCK FALSE
PROPERTIES
  PostedChangeSaved
