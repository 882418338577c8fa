CONSTANTS
  Tasks = {t1, t2, t3}
  Main = Main
  Posters = {p}
  Transports = {lt, et}
  Edge = {et}
  PipeCapacity = 2
  Nobody = Nobody
SPECIFICATION FairSpec
CHECK_DEADLOCK FALSE
INVARIANTS TypeOK NoLostWakeup
PROPERTIES TasksRun QuitObeyed LevelServed
