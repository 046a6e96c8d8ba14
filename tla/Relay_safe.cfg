\* Two relays, one of a master server, and all that can go wrong.
CONSTANTS
  r1 = r1
  r2 = r2
  Relays = {r1, r2}
  Settings <- ThreeSettings
  Master = {r2}
  OnDemand = {}
  Contended = {r2}
  MayFail = TRUE
  EndsByItself = TRUE
  Interval = 1
  StartDelay = 1
  EndDelay = 1
  Changes = 1
SPECIFICATION Spec
INVARIANTS ThreadsOwnTheirRelay SettingsApplied
CHECK_DEADLOCK FALSE
