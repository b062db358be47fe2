CONSTANTS
  Ctx = {c1, c2}
  NumLayers = 2
  BlockSize = 2
  Zero = zero
  Blocks = {b1, b2, b3}
  Engine = engine
  PoolTokens = 5
  MaxManagers = 3
  MaxLen = 4
  SegmentColumns = 3
  Draft = 1
  BrgemmMin = 3
  MtdMaxQ = 2
  QTile = 2
  MaxSplits = 2
  Budget = 10
  Vocab = {1, 2, 3}
  EosToken = 1
SPECIFICATION Spec
SYMMETRY Symmetry
INVARIANTS AttendsExactly
CHECK_DEADLOCK FALSE
