SPECIFICATION MCSpec
CONSTANTS
  Apis = {"ga"}
  MaxSockets = 2
  MaxResponses = 3
  Attempts = 1
  Faults = {"drop", "refuse", "tool"}
  Gateways = {TRUE, FALSE}
  Auths = {TRUE, FALSE}
  Modes = {"tts", "asterisk"}
  LocalAttempts = 1
  Rounds = 1
  Scenarios <- LinksAndTalk
  Markers = {TRUE, FALSE}
INVARIANTS BurstsClosed ResultOnce
PROPERTIES FarewellEnds Recovers GoodbyeHangsUp GoodbyeEnds CallerSpared
CHECK_DEADLOCK FALSE
