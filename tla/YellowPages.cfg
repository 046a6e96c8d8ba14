\* Sources, the YP thread and reloads interleave freely, or begin one at a time.
CONSTANTS
  m1 = m1
  y1 = y1
  y2 = y2
  Mounts = {m1}
  Servers = {y1, y2}
  MaxEntries = 2
  Backoff = 1
  Settings <- MCSettings
SPECIFICATION FairSpec
INVARIANTS RequestHasSession ListedAsPublic
PROPERTIES WithdrawnBeforeGone ReleasedGoes ConfiguredInUse
