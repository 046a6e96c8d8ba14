\* A mount, its fallback with a file and room for one listener, two listeners.
SPECIFICATION FairSpec
CONSTANTS
  live = live
  jingle = jingle
  NoMount = NoMount
  Mounts <- MCMounts
  Fallback <- MCFallback
  MaxListeners <- MCMax
  Files = {jingle}
  Override = {live}
  WhenFull = {live}
  Listeners = {l1, l2}
  Limits = {1, 2}
  MAX_FALLBACK_DEPTH = 10
  ConError = TRUE
  MayAbort = TRUE
  MaxSources = 2
INVARIANTS
  SourcesCounted
  PlacedOnce
  ListenersExact
PROPERTIES
  SourceEnds
  HaltEnds
CHECK_DEADLOCK FALSE
