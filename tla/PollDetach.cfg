CONSTANTS
  Transports <- MCTransports
  Borrowed = {}
  EdgeSupported = FALSE
  None = None
  Backends = {"poll"}
  Conditions <- MCConditions
  UsedModes <- MCUsedModes
  UsedEvents <- MCUsedEvents
  SetSize = 2
SPECIFICATION Spec
CHECK_DEADLOCK FALSE
INVARIANT NoUndefined
