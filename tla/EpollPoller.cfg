CONSTANTS
  a = a  b = b
  Transports <- MCTransports
  Borrowed <- MCBorrowed
  EdgeSupported = TRUE
  NoTransport = NoTransport
  NoCall = NoCall
  ThreadSafe = FALSE
  Conditions <- MCConditions
  UsedModes <- MCUsedModes
  UsedEvents <- MCUsedEvents
  Reattached <- MCReattached
  MaxSlots = 1
  InitialEvents = 2
  FixedBuffer = TRUE
  MaxBuffer = 2
SPECIFICATION Spec
CHECK_DEADLOCK FALSE
INVARIANTS TypeOK SlotTable EntriesLive NoCrashAlone InterestAgrees BorrowedKept
PROPERTIES ImplementsDispatcher
