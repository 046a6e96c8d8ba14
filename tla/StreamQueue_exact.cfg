\* One on-demand relay; its settings change, the limit to a single listener too.
CONSTANTS
  c1 = c1
  c2 = c2
  Clients = {c1, c2}
  MaxBuf = 3
  Lens = {1}
  QueueLimits = {1, 2}
  BurstSizes = {1}
  IntroLen = 0
  MaxLoop = 10
  ListenerLimits = {1}
  OnDemand = TRUE
  ConcurrentMoves = FALSE
SPECIFICATION FairSpec
INVARIANT CountIsReferences
PROPERTIES ListenersCounted LaggardsLetGo
