CONSTANTS
  Clients = {c1, c2}
  Locks = {l1, l2}
  LockSurfaces = {s1}
  Windows = {w1}
  Floating = {w1}
  Outputs = {o1, o2}
  Sizes = {1, 2}
  MaxPending = 1
  None = None
  c1 = c1
  c2 = c2
  l1 = l1
  l2 = l2
  o1 = o1
  o2 = o2
  s1 = s1
  w1 = w1
SPECIFICATION MCSpec
INVARIANTS TypeOK SceneFollowsLock FocusAlive
PROPERTIES NoNewNormalFrame OnlyHolderUnlocks SentOnceCovered
CHECK_DEADLOCK FALSE
