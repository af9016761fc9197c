SPECIFICATION MCSpec
CONSTANTS
  Streaming = {TRUE, FALSE}
  Tools = {"hangup", "transfer"}
  Guarded = TRUE
  QueueCap = 2
  MinWords = 3
  MaxHeard = 3
  MaxTurns = 2
  Sessions = {"call", "client"}
  Plans <- AllPlans
  Modes = {"full", "stt"}
  Texts = {"bye", "yes"}
  MaxTimers <- TimersOf
INVARIANTS
  AnsweredOnce
  OneJob
PROPERTIES
  SpeechAnswered
  TurnsAnswered
  HandlerFree
CHECK_DEADLOCK FALSE
