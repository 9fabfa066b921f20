CONSTANTS
  Clients = {c1}
  Locks = {l1}
  LockSurfaces = {s1}
  Windows = {w1}
  Floating = {}
  Outputs = {o1}
  Sizes = {1}
  MaxPending = 2
  None = None
  c1 = c1
  l1 = l1
  o1 = o1
  s1 = s1
  w1 = w1
SPECIFICATION Spec
INVARIANTS LockedMeansHidden
CHECK_DEADLOCK FALSE
