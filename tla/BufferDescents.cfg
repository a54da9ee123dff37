SPECIFICATION Spec
CONSTANTS
  None = None
  t1 = t1
  t2 = t2
  t3 = t3
  f1 = f1
  f2 = f2
  f3 = f3
  Threads = {t1, t2}
  Frames = {f1, f2}
  Pages = {1, 2, 3}
  OnDisk = {1, 2}
  LeafPages = {2, 3}
  Kinds = {"mode", "create"}
  MaxHeld = 2
  MaxPins = 2
  MaxVersion = 2
  MaxRestarts = 1
SYMMETRY ThreadFrameSymmetry
INVARIANT TableConsistent
INVARIANT HoldersSeeNewest
INVARIANT FlushedSurvives
PROPERTY ImplementsStore
CHECK_DEADLOCK FALSE
