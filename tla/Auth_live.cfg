\* A threaded authenticator before an immediate one.
SPECIFICATION FairSpec
CONSTANTS
  c1 = c1
  NoClient = NoClient
  c2 = c2
  Clients = {c1, c2}
  N = 2
  Heads = {1}
  Immediate = {2}
  Hooked = {1}
  Limit = 2
  Altering <- RedirectsLeaving
  Serial = TRUE
  Crowd = 2
CHECK_DEADLOCK FALSE
INVARIANT CountsHolders
INVARIANT OnlyOwnThread
PROPERTY Answered
PROPERTY ToldOnce
PROPERTY FreedInTheEnd
