SPECIFICATION Spec
CONSTANTS
  None = None
  t1 = t1
  t2 = t2
  t3 = t3
  f1 = f1
  f2 = f2
  f3 = f3
  Threads = {t1, t2}
  Frames = {f1}
  Pages = {1, 2}
  OnDisk = {1, 2}
  LeafPages = {2}
  Kinds = {"mode"}
  MaxHeld = 1
  MaxPins = 1
  MaxVersion = 2
  MaxRestarts = 0
INVARIANT LeafPinnedUniquely
CHECK_DEADLOCK FALSE
