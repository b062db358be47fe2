SPECIFICATION Spec
CONSTANTS
  r1 = r1
  r2 = r2
  r3 = r3
  t1 = t1
  t2 = t2
  t3 = t3
  NoReq = NoReq
  NoThread = NoThread
  Req = {r1, r2, r3}
  Greedy = {r1}
  Thread = {t1, t2}
  MaxNewTokens = 2
  Faults = {"config", "model", "layers", "sample"}
  Network = {}
SYMMETRY Symmetry
INVARIANTS
  SingleThreaded
  QueuesAgree
  NoOrphanContext
  TokensInOrder
  GreedyBatch
PROPERTY RouterSpec
CHECK_DEADLOCK FALSE
