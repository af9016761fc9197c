SPECIFICATION Spec
CONSTANTS
  Sessions = {"call", "client"}
  Plans <- OnlySharing
  Modes = {"full"}
  Texts = {"yes"}
  MaxTimers <- TimersOf
INVARIANTS
  OneInference
CHECK_DEADLOCK FALSE
