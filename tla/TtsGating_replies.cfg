CONSTANTS
  c1 = c1
  c2 = c2
  p1 = p1
  p2 = p2
  p3 = p3
  b1 = b1
  b2 = b2
  Calls <- OneCall
  Playbacks = {p1, p2}
  CallOf <- AllOnC1
  Bargers = {b1}
  NoCall = NoCall
SPECIFICATION Spec
CHECK_DEADLOCK FALSE
INVARIANTS
  GateFollowsTokens
  TokenHasReleaser
PROPERTIES
  TokensWithdrawnByOwner
  GateSafety
  GateReopens
