CONSTANTS
  u1 = u1
  u2 = u2
  p1 = p1
  p2 = p2
  file = file
  socket = socket
  client = client
  c1 = c1
  c2 = c2
  c3 = c3
  wakeup = wakeup
  None = None
  Users <- MCUsers
  Pollers <- MCPollers
  Transports <- MCTransports
  Files <- MCFiles
  UserTransports <- MCUserTransports
  Contexts <- MCContexts
  UserContexts <- MCUserContexts
  Listeners <- MCListeners
  Server = socket
  Client = client
  Main = p1
  Wakeup = wakeup
  WakeupContext = c3
  BatchSize = 2
  MessageLimit <- MCMessageLimit
  TaskLimit = 2
SYMMETRY MCSymmetry
SPECIFICATION Spec
CHECK_DEADLOCK FALSE
INVARIANTS LoopAlwaysWoken
