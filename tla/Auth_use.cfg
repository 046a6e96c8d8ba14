\* A mount's stack and the server's own, of one threaded authenticator each.
SPECIFICATION Spec
CONSTANTS
  c1 = c1
  c2 = c2
  c3 = c3
  NoClient = NoClient
  Clients = {c1, c2, c3}
  N = 2
  Heads = {1, 2}
  Immediate = {}
  Hooked = {1}
  Limit = 0
  Altering <- RedirectsNew
  Serial = TRUE
  Crowd = 0
SYMMETRY Symmetry
INVARIANTS
  PendingBounded
  AdmittedByLast
CHECK_DEADLOCK FALSE
