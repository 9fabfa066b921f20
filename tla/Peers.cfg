CONSTANTS
  None = None
  Screen = Screen
  Other = Other
  w1 = w1
  w2 = w2
  w3 = w3
  s1 = s1
  s2 = s2
  c1 = c1
  c2 = c2
  m = m
  x1 = x1
  x2 = x2
  h1 = h1
  o1 = o1
  Sessions = {c1, c2}
  LastDisplay = 1
  CaptureWindows = {w1, w2}
  CaptureFrames = {f1}
  MaxQueue = 3
  Handles = {h1, h2}
  Paths = {x1}
  Screens = {o1}
  Toplevels = {}
  Buffers = {b1, b2}
  MaxPosted = 3
  Managers = {c1, c2}
  Kinds = {"window", "tag"}
  MaxSerial = 3
  MaxInFlight = 2
SPECIFICATION MCSpec
INVARIANTS TypesOK ExchangesSound PortalSound
PROPERTIES PlacesSound
CHECK_DEADLOCK FALSE
