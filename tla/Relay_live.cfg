\* Two relays whose upstream connections succeed.
CONSTANTS
  r1 = r1
  r2 = r2
  Relays = {r1, r2}
  Settings <- OneSetting
  Master = {}
  OnDemand = {r2}
  Contended = {}
  MayFail = FALSE
  EndsByItself = TRUE
  Interval = 2
  StartDelay = 1
  EndDelay = 2
  Changes = 0
SPECIFICATION FairSpec
PROPERTIES RequestServed SlaveJoined RetriedForEver
