CONSTANTS
  Header = 2
  MaxFdsPerSend = 1
  RecvChunk = 2
  MaxBuffered = 5
  SocketSpace = 3
  MaxMessages = 3
  Shapes <- MCShapes
  Windows = {w1, w2}
  None = None
  Tags = {1, 2}
  Infos = {x, y}
  Blank = x
  Settled = {w2}
  Areas = {1, 2}
  MaxSerial = 3
  w1 = w1
  w2 = w2
  x = x
  y = y
SPECIFICATION MCSpec
INVARIANTS TypeOK FdsComplete
PROPERTIES ImplementsChannel EventuallyHandled LayoutsCurrent LayoutSettles
CHECK_DEADLOCK FALSE
