SPECIFICATION MCSpec
CONSTANTS
  Calls = {c1, c2}
  Ports = {1, 2}
  Endpoints = {e1, e2}
  Ssrcs = {s1}
  SeqMod = 2
  Lock = FALSE
  SocketCalls = {c1}
  Conns = {k1, k2}
  NoConn = NoConn
  NoCall = NoCall
  None = None
INVARIANTS
  LoopsHoldPorts
  OutboundContinuous
  ConnectionsAgree
PROPERTIES
  EndedCallDisconnected

CHECK_DEADLOCK FALSE
