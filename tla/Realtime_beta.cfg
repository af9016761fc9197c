SPECIFICATION Spec
CONSTANTS
  Apis = {"beta"}
  MaxSockets = 2
  MaxResponses = 3
  Attempts = 2
  Faults = {"drop", "refuse", "tool"}
INVARIANTS BurstsClosed
CHECK_DEADLOCK FALSE
