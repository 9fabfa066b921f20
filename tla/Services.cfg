CONSTANTS
  Fds = {4, 5}
  MaxSources = 2
  MaxHandles = 2
  ClientIds = {2, 3}
  ServerIds = {90}
  MaxObjects = 3
  MaxInFlight = 2
SPECIFICATION MCSpec
INVARIANTS TypesOK CallbacksAreDue MessagesReachTheirObject
PROPERTIES CallbacksKept IdsComeBack
CHECK_DEADLOCK FALSE
