CONSTANTS
  Connectors = {1, 2}
  Possible <- MCPossible
  Crtcs = {0}
  Modes = {1, 2}
  Objects = {1, 2}
  MaxUdev = 1
  Window = win
  Parts = {sub}
  None = None
  ClientSurfaces = {s1, s2}
  RoleSurfaces = {s2}
  ClientBuffers = {b1, b2}
  Pools = {x1}
  Params = {x2}
  Fds = {4}
  MaxSize = 1
SPECIFICATION MCSpec
INVARIANTS TypesOK SearchIsMaximum OutputsAccounted ChangesAreDrawn HoldingsAccounted
PROPERTY RetiredGo
