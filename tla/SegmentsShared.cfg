SPECIFICATION Spec
CONSTANTS
  None = None
  t1 = t1
  t2 = t2
  t3 = t3
  Threads = {t1, t2}
  MinBlocks = 2
  GrowthNum = 1
  GrowthDen = 1
  MaxSegments = 2
  MayDelete = TRUE
  MayCrash = FALSE
INVARIANT TypeOK
INVARIANT FreeSegmentsExact
INVARIANT ReadsInitialized
INVARIANT BlocksAccounted
INVARIANT Reopens
PROPERTY ImplementsBlockStore
CHECK_DEADLOCK FALSE
