CONSTANTS
  Unset <- MCUnset
  Starts <- MCComments
SPECIFICATION Spec
INVARIANTS CommentIsNoValue
CHECK_DEADLOCK FALSE
