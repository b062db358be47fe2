SPECIFICATION Spec
CONSTANTS
  s1 = s1
  s2 = s2
  t1 = t1
  t2 = t2
  x = x
  y = y
  None = None
  Zero = Zero
  NoThread = NoThread
  Seqs = {s1, s2}
  Value = {x, y}
  Thread = {t1, t2}
  NumBlocks = 3
  BlockSize = 2
  MaxSeqLen = {3}
  Batch <- Batches
  Entries <- NoneOrBlock
SYMMETRY Symmetry
INVARIANTS
  BlockExclusive
  BlocksAccounted
  TokensHaveBlocks
PROPERTY StoreSpec
