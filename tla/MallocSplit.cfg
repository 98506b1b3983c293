SPECIFICATION Spec
CONSTANTS
  PageWords = 10
  WordSpace = 64
  MaxPages = 2
  Requests <- SmallObjects
  ClientWords = {}
PROPERTIES SplitFits
CHECK_DEADLOCK FALSE
