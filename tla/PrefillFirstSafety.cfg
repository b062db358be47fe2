SPECIFICATION EitherSpec
CONSTANTS
  r1 = r1
  r2 = r2
  r3 = r3
  tok = tok
  NoReq = NoReq
  Req = {r1, r2, r3}
  NumEngines = 2
  Token = {tok}
  Output <- OneToken
  MaxTokens = 1
SYMMETRY Symmetry
INVARIANTS
  StreamEndsOnce
  LoopExclusion
  NoRequestLost
  DecodeHasDriver
  StopEventFresh
  LiveIsTracked
PROPERTY LifecycleSpec
CHECK_DEADLOCK FALSE
