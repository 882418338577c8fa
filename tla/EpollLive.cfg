CONSTANTS
  a = a  b = b
  Transports <- MCTransports
  Borrowed <- MCBorrowed
  EdgeSupported = TRUE
  NoTransport = NoTransport
  NoCall = NoCall
  ThreadSafe = FALSE
  Conditions <- LiveConditions
  UsedModes <- MCUsedModes
  UsedEvents <- LiveUsedEvents
  Reattached = {}
  MaxSlots = 0
  InitialEvents = 1
  FixedBuffer = FALSE
  MaxBuffer = 2
SPECIFICATION FairSpec
CHECK_DEADLOCK FALSE
PROPERTIES EventsDelivered
