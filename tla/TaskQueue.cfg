CONSTANTS
  t1 = t1  t2 = t2  t3 = t3
  main = main  p1 = p1
  NoTask = NoTask
  Tasks <- MCTasks
  Main = main
  Posters <- MCPosters
  Limits <- MCLimits
  Calls = {"next", "tasks", "timed"}
  Delegate = TRUE
  Timers = {TRUE, FALSE}
  OutOfMemory = TRUE
SPECIFICATION Spec
CHECK_DEADLOCK FALSE
INVARIANTS TypeOK OwnedOnce ReturnTellsProcessed LimitRespected
PROPERTIES ImplementsFifo StopsHeeded
