\* Two relays whose upstream connections may fail.
CONSTANTS
  r1 = r1
  r2 = r2
  Relays = {r1, r2}
  Settings <- OneSetting
  Master = {}
  OnDemand = {}
  Contended = {}
  MayFail = TRUE
  EndsByItself = TRUE
  Interval = 2
  StartDelay = 1
  EndDelay = 2
  Changes = 0
SPECIFICATION FairSpec
PROPERTY RequestServed
CHECK_DEADLOCK FALSE
