CONSTANTS
  Transports = {a, b}
  Attachments = 2
  None = None
  UsedEvents <- MCUsedEvents
SPECIFICATION FairSpec
CHECK_DEADLOCK FALSE
INVARIANTS TypeOK QueuedOnce ListSound NoNullCall NewsKept
PROPERTIES DetachSilences HangupDelivered
