CONSTANTS
  None = None
  w1 = w1
  s1 = s1
  s2 = s2
  ls = ls
  Windows = {w1, w2}
  OneWindow = {w1}
  OneButton = {b1}
  Buttons = {b1, b2}
  LeftButton = b1
  RightButton = b2
  PanButtons = {b2}
  Constrainable = {w1}
  Clients = {c1, c2}
  Virtuals = {x1}
  Keys = {k1, k2}
  EscKey = k1
  FocusKeys = {k2}
  ExternalKeys = {k1}
  Timeout = 1
  Touched = {s1, ls}
  LockTouched = {ls}
  TouchObjects = {o1, o2, o3}
  Fingers = {1, 2}
  OfSecond = {ls, o2}
  TouchOwner <- MCTouchOwner
SPECIFICATION MCSpec
INVARIANTS TypesOK SurfacesSound InputSound
CHECK_DEADLOCK FALSE
