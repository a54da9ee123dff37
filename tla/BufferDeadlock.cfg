SPECIFICATION FairSpec
CONSTANTS
  None = None
  t1 = t1
  t2 = t2
  t3 = t3
  f1 = f1
  f2 = f2
  f3 = f3
  Threads = {t1, t2}
  Frames = {f1, f2}
  Pages = {1, 2, 3}
  OnDisk = {1, 2, 3}
  LeafPages = {3}
  Kinds = {"exclusive"}
  MaxHeld = 2
  MaxPins = 3
  MaxVersion = 1
  MaxRestarts = 0
PROPERTY EveryPinReturns
CHECK_DEADLOCK FALSE
