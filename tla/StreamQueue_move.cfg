\* Two listeners and another thread that moves them.
CONSTANTS
  c1 = c1
  c2 = c2
  Clients = {c1, c2}
  MaxBuf = 3
  Lens = {1, 2}
  QueueLimits = {1}
  BurstSizes = {0, 1}
  IntroLen = 1
  MaxLoop = 10
  ListenerLimits = {}
  OnDemand = FALSE
  ConcurrentMoves = TRUE
SPECIFICATION Spec
SYMMETRY Symmetry
INVARIANTS QueueSound NothingFreedInUse
