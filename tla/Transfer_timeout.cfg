SPECIFICATION Safety
CONSTANTS
  Screening = {FALSE}
  Helper = {FALSE}
  MaxLegs = 1
PROPERTIES
  TimeoutResumesCaller
CHECK_DEADLOCK FALSE
