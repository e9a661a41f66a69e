\* Replies of up to four bytes; messages of up to six bytes.  Both loops end.
SPECIFICATION Spec
CONSTANTS
  Replies <- AllReplies
  Limits = {1, 2, 3, 8}
  Lengths = {0, 1, 4, 6, 7}
  FrameSizes = {1, 2, 3, 4, 7, 8}
CHECK_DEADLOCK FALSE
INVARIANT JudgedRight
INVARIANT Bounded
INVARIANT FramesTile
