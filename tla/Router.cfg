CONSTANTS
  Req = {r1, r2}
  NoReq = NoReq
  tok = tok
  Prompts = {p1, p2}
  MaxChunks = 2
  Instances = 2
  MaxRequests = 2
  MaxTime = 4
SPECIFICATION Spec
INVARIANTS Delivered ConfiguredIsUsable ActiveTimeExact
PROPERTIES CancelledIsCleared StreamsEnd NothingLeftRunning
CHECK_DEADLOCK FALSE
