------------------------------ MODULE TaskQueue ------------------------------
(***************************************************************************)
(* TaskQueueImpl (shared/shared-task-queue.{h,cc}).                        *)
(*                                                                         *)
(* Any thread posts; one thread, Main, drains.  A post appends to          *)
(* incoming_ under queue_lock_ and calls the delegate after the lock is    *)
(* released, so posting is two steps.  Main runs tasks from work_, which   *)
(* only it touches, and swaps the two deques under the lock when work_ is  *)
(* empty.  Tasks run on Main with no lock held: any other thread may act   *)
(* meanwhile, and the task itself may post, break or quit.                 *)
(***************************************************************************)
EXTENDS Naturals, Sequences

CONSTANTS
  Tasks,        \* one value per posting: a task is owned from PostTask on
  NoTask,
  Main,         \* the thread that processes tasks
  Posters,      \* the other threads, which only post, break and quit
  Delegate,     \* BOOLEAN: was the queue created with a delegate (and a lock)?
  Timers,       \* what HighResolutionTimer::Resolution() # 0 may be
  Limits,       \* values of nlimit; 0 is "no limit"
  Calls,        \* which processing functions Main uses
  OutOfMemory   \* BOOLEAN: may Deque::append fail?

AllCalls == {"next", "tasks", "timed"}

ASSUME NoTaskAssumption  == NoTask \notin Tasks
ASSUME ThreadAssumption  == Main \notin Posters /\ (~Delegate => Posters = {})
ASSUME BooleanAssumption == Delegate \in BOOLEAN /\ Timers \subseteq BOOLEAN
                              /\ OutOfMemory \in BOOLEAN
ASSUME LimitAssumption   == Limits \subseteq Nat
ASSUME CallAssumption    == Calls \subseteq AllCalls

Threads == Posters \cup {Main}

VARIABLES
  incoming,   \* incoming_
  work,       \* work_
  timerRes,   \* timer_res_ # 0
  gotBreak,   \* got_break_
  gotQuit,    \* got_quit_
  alive,      \* FALSE once the destructor has run
  notifying,  \* [Threads -> "no" | "task" | "quit"]: delegate call still due
  stage,      \* Main is "out" of any call, about to "check" for a task, or in Run
  call,       \* the processing function Main is in (or returned from last)
  limit,      \* its nlimit
  count,      \* its local count
  running,    \* the task on Main's stack
  returned,   \* the value the last call returned
  ranInCall,  \* history: tasks run by this call
  freed,      \* history: DeleteMe() calls per task
  stopBy      \* history: what a break or a quit asked of the current call

queueVars == <<incoming, work>>
callVars  == <<stage, call, limit, count, running, returned, ranInCall>>
vars == <<timerRes, queueVars, gotBreak, gotQuit, alive, notifying, callVars, freed, stopBy>>

Waiting == {work[i] : i \in DOMAIN work} \cup {incoming[i] : i \in DOMAIN incoming}
Fresh(t) == t \notin Waiting /\ t # running /\ freed[t] = 0

Init ==
  /\ incoming = <<>> /\ work = <<>> /\ timerRes \in Timers
  /\ gotBreak = FALSE /\ gotQuit = FALSE
  /\ alive = TRUE
  /\ notifying = [th \in Threads |-> "no"]
  /\ stage = "out" /\ call = "next" /\ limit = 0 /\ count = 0
  /\ running = NoTask /\ returned = FALSE /\ ranInCall = 0
  /\ freed = [t \in Tasks |-> 0]
  /\ stopBy = [why \in {"break", "quit"} |-> "no"]

\* Where a thread can call into the queue: any time, except that Main can do
\* so only outside a call or inside a task, and that nobody may once the
\* destructor has started.
CanCall(th) ==
  /\ alive
  /\ notifying[th] = "no"
  /\ th = Main => stage # "check"

\* A stop asked while a task runs must keep the next one from starting; one
\* asked when the flags have just been tested may be one task late.
Ask(why) ==
  stopBy' = IF stage = "out" \/ stopBy[why] \in {"next", "now"} THEN stopBy
            ELSE [stopBy EXCEPT ![why] = IF stage = "run" THEN "now" ELSE "next"]

----------------------------------------------------------------------------
(* Operations of any thread.                                               *)

PostTask(th, t) ==
  /\ CanCall(th) /\ Fresh(t)
  /\ incoming' = Append(incoming, t)
  /\ notifying' = [notifying EXCEPT ![th] = IF Delegate THEN "task" ELSE "no"]
  /\ UNCHANGED <<timerRes, work, gotBreak, gotQuit, alive, callVars, freed, stopBy>>

PostTaskFails(th, t) ==
  /\ OutOfMemory /\ CanCall(th) /\ Fresh(t)
  /\ freed' = [freed EXCEPT ![t] = @ + 1]
  /\ notifying' = [notifying EXCEPT ![th] = IF Delegate THEN "task" ELSE "no"]
  /\ UNCHANGED <<timerRes, queueVars, gotBreak, gotQuit, alive, callVars, stopBy>>

PostQuit(th) ==
  /\ CanCall(th) /\ Delegate
  /\ gotQuit' = TRUE
  /\ notifying' = [notifying EXCEPT ![th] = "quit"]
  /\ Ask("quit")
  /\ UNCHANGED <<timerRes, queueVars, gotBreak, alive, callVars, freed>>

\* delegate_->NotifyTask() or NotifyQuit(), outside the lock.
Notify(th) ==
  /\ notifying[th] # "no"
  /\ notifying' = [notifying EXCEPT ![th] = "no"]
  /\ UNCHANGED <<timerRes, queueVars, gotBreak, gotQuit, alive, callVars, freed, stopBy>>

Break(th) ==
  /\ CanCall(th)
  /\ gotBreak' = TRUE
  /\ Ask("break")
  /\ UNCHANGED <<timerRes, queueVars, gotQuit, alive, notifying, callVars, freed>>

----------------------------------------------------------------------------
(* Main.                                                                   *)

Enter(kind, n) ==
  /\ CanCall(Main) /\ stage = "out" /\ kind \in Calls
  /\ stage' = "check" /\ call' = kind /\ limit' = n /\ count' = 0 /\ ranInCall' = 0
  /\ stopBy' = [why \in {"break", "quit"} |-> "no"]
  /\ UNCHANGED <<timerRes, queueVars, gotQuit, alive, notifying, running, returned, freed>>

CallProcessNextTask == Enter("next", 0) /\ UNCHANGED gotBreak

CallProcessTasks(n) == Enter("tasks", n) /\ UNCHANGED gotBreak

\* Without a usable timer this is ProcessNextTask().
CallProcessTasksForTime(n) ==
  \/ timerRes /\ Enter("timed", n) /\ gotBreak' = FALSE
  \/ ~timerRes /\ "timed" \in Calls /\ CallProcessNextTask

\* RefillWorkQueue() swaps the deques only when work_ is empty.
RefillsAlways == incoming # <<>>                  \* fault: no test of work_
RefillsFromIncoming == work = <<>>

SwapKeeps == incoming                             \* fault: a copy, not a swap
IncomingAfterRefill == IF RefillsFromIncoming THEN <<>> ELSE incoming

\* ProcessNextTask up to Run(): only the swap needs the lock, and nobody else
\* sees work_.
RunNext ==
  /\ stage = "check" /\ work \o incoming # <<>>
  /\ LET source == IF RefillsFromIncoming THEN incoming ELSE work IN
       running' = Head(source) /\ work' = Tail(source)
  /\ incoming' = IncomingAfterRefill
  /\ stage' = "run"
  /\ ranInCall' = ranInCall + 1
  /\ stopBy' = [why \in DOMAIN stopBy |->
                  IF stopBy[why] = "next" THEN "now" ELSE stopBy[why]]
  /\ UNCHANGED <<timerRes, gotBreak, gotQuit, alive, notifying, call, limit, count,
                 returned, freed>>

Return(value) == stage' = "out" /\ returned' = value

\* ProcessNextTask() found nothing.  ProcessTasksForTime() returns true anyway.
LastAnswer == call = "timed"                      \* fault: what the last check said
ReturnsOnEmpty == call = "timed" \/ ranInCall > 0

NothingToRun ==
  /\ stage = "check" /\ work \o incoming = <<>>
  /\ Return(ReturnsOnEmpty)
  /\ UNCHANGED <<timerRes, queueVars, gotBreak, gotQuit, alive, notifying, call, limit, count,
                 running, ranInCall, freed, stopBy>>

\* Run() returns and the task is deleted.
TaskDone ==
  /\ stage = "run" /\ notifying[Main] = "no"
  /\ running' = NoTask
  /\ freed' = [freed EXCEPT ![running] = @ + 1]

FinishNext ==
  /\ call = "next" /\ TaskDone
  /\ Return(TRUE)
  /\ UNCHANGED <<timerRes, queueVars, gotBreak, gotQuit, alive, notifying, call, limit, count,
                 ranInCall, stopBy>>

CountedAfter == limit # 0 /\ count >= limit       \* fault: count++ for ++count
LimitHit == limit # 0 /\ count + 1 >= limit

ResetsEachTime == TRUE                            \* fault: the reset inside the loop
ResetsBreak == ranInCall = 1

IgnoresQuit(brk) == brk                           \* fault: got_quit_ not tested
StopAsked(brk) == gotQuit \/ brk

\* ProcessTasks(limit): got_break_ is reset after the first task has run.
FinishInTasks ==
  /\ call = "tasks" /\ TaskDone
  /\ gotBreak' = (IF ResetsBreak THEN FALSE ELSE gotBreak)
  /\ stopBy' = [stopBy EXCEPT !["break"] =
                  IF ranInCall = 1 /\ @ = "now" THEN "lost" ELSE @]
  /\ count' = IF limit # 0 THEN count + 1 ELSE count
  /\ IF LimitHit \/ StopAsked(gotBreak')
       THEN Return(TRUE)
       ELSE stage' = "check" /\ UNCHANGED returned
  /\ UNCHANGED <<timerRes, queueVars, gotQuit, alive, notifying, call, limit, ranInCall>>

\* ProcessTasksForTime(): timeUp stands for the two clock tests.
FinishInTimed(timeUp) ==
  /\ call = "timed" /\ TaskDone
  /\ IF timeUp \/ StopAsked(gotBreak)
       THEN Return(TRUE) /\ UNCHANGED count
       ELSE /\ count' = IF limit # 0 THEN count + 1 ELSE count
            /\ IF LimitHit THEN Return(TRUE) ELSE stage' = "check" /\ UNCHANGED returned
  /\ UNCHANGED <<timerRes, queueVars, gotBreak, gotQuit, alive, notifying, call, limit, ranInCall,
                 stopBy>>

\* The destructor zaps both deques.  Its caller makes sure nobody is inside.
Destroy ==
  /\ alive /\ stage = "out" /\ \A th \in Threads : notifying[th] = "no"
  /\ alive' = FALSE
  /\ freed' = [t \in Tasks |-> IF t \in Waiting THEN freed[t] + 1 ELSE freed[t]]
  /\ incoming' = <<>> /\ work' = <<>>
  /\ UNCHANGED <<timerRes, gotBreak, gotQuit, notifying, callVars, stopBy>>

Process ==
  \/ CallProcessNextTask
  \/ \E n \in Limits : CallProcessTasks(n) \/ CallProcessTasksForTime(n)
  \/ RunNext
  \/ NothingToRun
  \/ FinishNext
  \/ FinishInTasks
  \/ \E timeUp \in BOOLEAN : FinishInTimed(timeUp)

Next ==
  \/ \E th \in Threads : PostQuit(th) \/ Notify(th) \/ Break(th)
  \/ \E th \in Threads, t \in Tasks : PostTask(th, t) \/ PostTaskFails(th, t)
  \/ Process
  \/ Destroy

Spec == Init /\ [][Next]_vars

----------------------------------------------------------------------------
(* Properties.                                                             *)

\* Every variable has the type its C++ counterpart has; a count of tasks stays
\* within the limit it is compared with, and at zero without one.
TypeOK ==
  /\ incoming \in Seq(Tasks) /\ work \in Seq(Tasks)
  /\ timerRes \in BOOLEAN /\ gotBreak \in BOOLEAN /\ gotQuit \in BOOLEAN /\ alive \in BOOLEAN
  /\ notifying \in [Threads -> {"no", "task", "quit"}]
  /\ stage \in {"out", "check", "run"}
  /\ call \in AllCalls
  /\ limit \in Nat /\ count \in Nat /\ count <= limit /\ ranInCall \in Nat
  /\ running \in Tasks \cup {NoTask}
  /\ returned \in BOOLEAN
  /\ freed \in [Tasks -> Nat]
  /\ stopBy \in [{"break", "quit"} -> {"no", "next", "now", "lost"}]

\* The queue owns what it was given: a task waits in one place only, a task
\* waiting or running has not been deleted, and no task is deleted twice
\* (popFrontCopy/Run/DeleteMe, the swap of the deques, and ZapQueue together).
OwnedOnce ==
  /\ \A i \in DOMAIN work, j \in DOMAIN incoming : work[i] # incoming[j]
  /\ \A i, j \in DOMAIN work : work[i] = work[j] => i = j
  /\ \A i, j \in DOMAIN incoming : incoming[i] = incoming[j] => i = j
  /\ \A t \in Waiting \cup {running} : t # NoTask => freed[t] = 0
  /\ running \notin Waiting
  /\ \A t \in Tasks : freed[t] <= 1

\* The two deques and the lock-free hand-over amount to one first-in
\* first-out queue: no task is lost, duplicated or overtaken by the swap.
Fifo == INSTANCE FifoTasks WITH queue <- work \o incoming, active <- running
ImplementsFifo == Fifo!Spec

StartsTask == stage = "check" /\ stage' = "run"

\* Once PostQuit() or Break() is called during ProcessTasks(), no task is started
\* but the one that Main may already be committed to.  A Break() during the first
\* task of a call without a time limit is "lost": amio-eventloop.h:94, "If
\* ProcessTasks() is running, it is stopped as soon as possible", does not hold
\* for it.
StopsHeeded == [][StartsTask => "now" \notin {stopBy["quit"], stopBy["break"]}]_vars

\* amio-eventloop.h:86: "Returns whether any tasks were processed", of the calls
\* without a time limit: the loop relies on it to tell when to poll.
ReturnTellsProcessed ==
  stage = "out" /\ call # "timed" => (returned <=> ranInCall > 0)

\* A call given a task limit never runs more tasks than that.
LimitRespected == stage # "out" /\ limit # 0 => ranInCall <= limit
==============================================================================
