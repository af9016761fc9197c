SPECIFICATION Spec
CONSTANTS
  Screening = {TRUE, FALSE}
  Helper = {TRUE}
  MaxLegs = 2
INVARIANTS
  CallerResumed
  AgentReleased
PROPERTIES
  GivenUpHarmless
  TransferDecided
CONSTRAINT Timely
CHECK_DEADLOCK FALSE
