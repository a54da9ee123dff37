SPECIFICATION FairSpec
CONSTANTS
  None = None
  t1 = t1
  t2 = t2
  t3 = t3
  Threads = {t1, t2}
  MinBlocks = 2
  GrowthNum = 3
  GrowthDen = 2
  MaxSegments = 2
  MayDelete = FALSE
  MayCrash = TRUE
INVARIANT Reopens
PROPERTY ImplementsBlockStore
PROPERTY EveryCallReturns
CHECK_DEADLOCK FALSE
