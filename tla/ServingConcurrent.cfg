SPECIFICATION Spec
CONSTANTS
  r1 = r1
  r2 = r2
  r3 = r3
  t1 = t1
  t2 = t2
  t3 = t3
  NoReq = NoReq
  NoThread = NoThread
  Req = {r1, r2}
  Greedy = {r1}
  Thread = {t1, t2}
  MaxNewTokens = 2
  Faults = {}
  Network = {"timeout"}
SYMMETRY Symmetry
INVARIANT SingleThreaded
CHECK_DEADLOCK FALSE
