SPECIFICATION Spec
CONSTANTS
  None = None
  t1 = t1
  t2 = t2
  Threads = {t1, t2}
  LeafN = 3
  InnerN = 3
  InnerBN = 2
  RootN = 3
  MaxPages = 24
  Evictions = TRUE
  Leftovers = {}
  Keys <- GrowKeys
  Preload <- GrowPreload
  Starts <- MissingStarts
  Operations <- MissingOperations
INVARIANT FindsNeverFail
CHECK_DEADLOCK FALSE
