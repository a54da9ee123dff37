SPECIFICATION Spec
CONSTANTS
  None = None
  t1 = t1
  t2 = t2
  Threads = {t1, t2}
  LeafN = 2
  InnerN = 3
  MaxPages = 12
  Evictions = FALSE
  Keys <- TwiceKeys
  Preload <- TwicePreload
  Operations <- TwiceOperations
INVARIANT KeysUnique
CHECK_DEADLOCK FALSE
