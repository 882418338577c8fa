CONSTANTS
  Transports <- MCTransports
  Borrowed = {}
  EdgeSupported = FALSE
  None = None
  Backends = {"poll", "select", "kqueue", "devpoll", "port"}
  Conditions <- MCConditions
  UsedModes <- MCUsedModes
  UsedEvents <- MCUsedEvents
  SetSize = 2
SPECIFICATION Spec
CHECK_DEADLOCK FALSE
INVARIANTS TypeOK TableSound EntriesCurrent InterestAgrees
PROPERTIES ImplementsDispatcher
