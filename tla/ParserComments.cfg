SPECIFICATION Spec
CONSTANTS
  Dialects <- Commented
INVARIANT CommentsFollowed
CHECK_DEADLOCK FALSE
