SPECIFICATION Spec
CONSTANTS
  Sessions = {"call", "client"}
  Plans <- OnlyPausing
  Modes = {"full"}
  Texts = {"yes"}
  MaxTimers <- TimersOf
PROPERTIES
  IdleAfterSilence
CHECK_DEADLOCK FALSE
