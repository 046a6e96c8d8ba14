\* Two clients, one of which misses lines; values set, counted and removed, mounts
\* hidden and cleared, and the shutdown.
SPECIFICATION FairSpec
CONSTANTS
  c1 = c1
  c2 = c2
  m1 = m1
  Global = Global
  None = None
  Clients = {c1, c2}
  Lossy = {c2}
  Mounts = {m1}
  Actions = {"set", "inc", "remove", "hidden"}
  MaxArrivals = 3
\* After the shutdown nothing happens.
CHECK_DEADLOCK FALSE
INVARIANT MirrorExact
INVARIANT ClientsAccounted
 
PROPERTY ShutdownEnds
