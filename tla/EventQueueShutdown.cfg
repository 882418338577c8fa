CONSTANTS
  Transports = {a, b}
  Attachments = 2
  None = None
  UsedEvents <- MCUsedEvents
SPECIFICATION FairSpec
CHECK_DEADLOCK FALSE
PROPERTIES ShutdownEnds
