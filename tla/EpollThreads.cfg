CONSTANTS
  a = a  b = b
  Transports <- MCTransports
  Borrowed <- MCBorrowed
  EdgeSupported = TRUE
  NoTransport = NoTransport
  NoCall = NoCall
  ThreadSafe = TRUE
  Conditions <- MCConditions
  UsedModes <- MCUsedModes
  UsedEvents <- MCUsedEvents
  Reattached <- MCReattached
  MaxSlots = 1
  InitialEvents = 2
  FixedBuffer = TRUE
  MaxBuffer = 2
SPECIFICATION Spec
CHECK_DEADLOCK FALSE
INVARIANT NoCrash
