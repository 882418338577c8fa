------------------------------ MODULE FifoTasks ------------------------------
(***************************************************************************)
(* What a task queue promises, whatever it is made of: tasks are taken in  *)
(* the order in which they were posted, one at a time, and the queue,      *)
(* which owns every task it was given, deletes each of them once -- after  *)
(* running it, or unrun, when it could not be stored or when the queue     *)
(* itself is deleted.                                                      *)
(***************************************************************************)
EXTENDS Naturals, Sequences

CONSTANTS
  Tasks,    \* the tasks ever posted; a task posted twice counts as two
  NoTask    \* no task is being run; not one of Tasks

VARIABLES
  queue,    \* tasks waiting, oldest first
  active,   \* the task being run, or NoTask
  freed     \* how many times each task was deleted

vars == <<queue, active, freed>>

Waiting == {queue[i] : i \in DOMAIN queue}

\* A task nobody has handed to the queue yet.
Fresh(t) == t \notin Waiting /\ t # active /\ freed[t] = 0

Init ==
  /\ queue = <<>>
  /\ active = NoTask
  /\ freed = [t \in Tasks |-> 0]

Put(t) ==
  /\ Fresh(t)
  /\ queue' = Append(queue, t)
  /\ UNCHANGED <<active, freed>>

\* The queue takes ownership but has no room, so it deletes the task at once.
Refuse(t) ==
  /\ Fresh(t)
  /\ freed' = [freed EXCEPT ![t] = @ + 1]
  /\ UNCHANGED <<queue, active>>

Take ==
  /\ active = NoTask
  /\ queue # <<>>
  /\ active' = Head(queue)
  /\ queue' = Tail(queue)
  /\ UNCHANGED freed

Finish ==
  /\ active # NoTask
  /\ freed' = [freed EXCEPT ![active] = @ + 1]
  /\ active' = NoTask
  /\ UNCHANGED queue

\* Deletion of the queue: everything still waiting is deleted unrun.
Drain ==
  /\ active = NoTask
  /\ freed' = [t \in Tasks |-> IF t \in Waiting THEN freed[t] + 1 ELSE freed[t]]
  /\ queue' = <<>>
  /\ UNCHANGED active

Next ==
  \/ \E t \in Tasks : Put(t) \/ Refuse(t)
  \/ Take
  \/ Finish
  \/ Drain

Spec == Init /\ [][Next]_vars
==============================================================================
