SPECIFICATION Spec
CONSTANTS
  b1 = b1
  Speakers <- EachMode
  MaxQueues = 2
  Chunks = 2
  QueueCap = 1
  JitterCap = 2
  Bargers = {b1}
  MayFail = TRUE
INVARIANTS
  QueueReadByOne
  TokenHasReleaser
  NothingPlaysAfterCall
PROPERTIES
  RepliesPlayed
CHECK_DEADLOCK FALSE
