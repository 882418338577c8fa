----------------------------- MODULE MCTaskQueue -----------------------------
(* Model values and symmetry for TaskQueue.                                 *)
EXTENDS TaskQueue, TLC

CONSTANTS t1, t2, t3, main, p1

MCTasks == {t1, t2, t3}
MCPosters == {p1}
MCLimits == {0, 1, 2}
==============================================================================
