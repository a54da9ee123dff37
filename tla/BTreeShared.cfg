SPECIFICATION FairSpec
CONSTANTS
  None = None
  t1 = t1
  t2 = t2
  Threads = {t1, t2}
  LeafN = 2
  InnerN = 3
  MaxPages = 20
  Evictions = FALSE
  Keys <- GrowKeys
  Preload <- GrowPreload
  Operations <- GrowOperations
INVARIANT TypeOK
INVARIANT SearchTree
INVARIANT KeysUnique
INVARIANT SeesItsKey
INVARIANT RoomForPivot
INVARIANT RootLeafExclusive
PROPERTY ImplementsMap
PROPERTY EveryCallAnswered
CHECK_DEADLOCK FALSE
