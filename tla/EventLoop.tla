------------------------------ MODULE EventLoop ------------------------------
(***************************************************************************)
(* PosixEventLoopForIO (posix/posix-event-loop.{h,cc}): Loop() on the main *)
(* thread, PostTask() and PostQuit() on any thread, and the pipe by which  *)
(* NotifyTask() gets the loop out of Poll().                               *)
(*                                                                         *)
(* tasks_ is a first-in first-out queue (TaskQueue implements FifoTasks).  *)
(* event_queue_ is the sequence of transports whose delegates wait to run  *)
(* (EventQueue); DispatchEvents() is TaskQueueImpl::ProcessTasks() on it,  *)
(* with its got_break_.  Poll() reports every transport that has something *)
(* to report: a level-triggered one whenever it is ready, an edge-         *)
(* triggered one once per change.                                          *)
(***************************************************************************)
EXTENDS Naturals, FiniteSets, SequencesExt

CONSTANTS
  Tasks,          \* bound: the tasks ever posted
  Main,           \* the thread of Loop()
  Posters,        \* the other threads that post
  Transports,     \* attached through the event loop
  Edge,           \* those among them attached edge-triggered
  PipeCapacity,   \* bytes that the pipe holds
  Nobody          \* nothing runs

ASSUME MainAssumption == Main \notin Posters
ASSUME TransportAssumption == IsFiniteSet(Transports) /\ Edge \subseteq Transports
ASSUME CapacityAssumption == PipeCapacity \in Nat \ {0}
ASSUME NobodyAssumption == Nobody \notin Tasks \cup Transports

Threads == Posters \cup {Main}

VARIABLES
  queue,      \* tasks_
  posted,     \* tasks posted so far
  ran,        \* tasks that ran
  quit,       \* got_quit_ of tasks_
  notifying,  \* how far each thread is in NotifyTask()
  pipe,       \* bytes in the pipe
  writeNews,  \* the write end has become writable since last reported
  ready,      \* transports with an event, until their listener handles it
  news,       \* edge-triggered ones not yet reported
  queued,     \* event_queue_: transports whose delegates wait to run
  gotBreak,   \* got_break_ of the event queue
  wakeup,     \* received_wakeup_
  pc,         \* where Loop() is
  running     \* the task or the transport whose code runs

taskVars   == <<queue, posted, ran, quit>>
notifyVars == <<notifying, pipe, writeNews>>
eventVars  == <<ready, news, queued>>
vars == <<taskVars, notifyVars, eventVars, gotBreak, wakeup, pc, running>>

\* Loop(): the test of ShouldQuit(), ProcessNextTask() and its task, Poll(), the
\* test of received_wakeup_, and DispatchEvents() before its first listener,
\* in it, and after.
Places == {"check", "task", "run", "poll", "polled", "dispatch", "first", "more", "next", "out"}

\* Initialize(): the write end is writable, which ETS mode reports once.
Init ==
  /\ queue = <<>> /\ posted = {} /\ ran = {} /\ quit = FALSE
  /\ notifying = [th \in Threads |-> "no"]
  /\ pipe = 0 /\ writeNews = TRUE
  /\ ready = {} /\ news = {} /\ queued = <<>>
  /\ gotBreak = FALSE /\ wakeup = FALSE
  /\ pc = "check" /\ running = Nobody

----------------------------------------------------------------------------
(* Any thread.  Main posts in a task or a listener.                        *)

InUserCode == pc \in {"run", "first", "more"}
CanPost(th) == notifying[th] = "no" /\ (th = Main => InUserCode)

BreaksOnly == "break"                              \* fault: no byte is written
FirstNotice == "write"

PostTask(th, t) ==
  /\ CanPost(th) /\ t \notin posted
  /\ queue' = Append(queue, t) /\ posted' = posted \cup {t}
  /\ notifying' = [notifying EXCEPT ![th] = FirstNotice]
  /\ UNCHANGED <<ran, quit, pipe, writeNews, eventVars, gotBreak, wakeup, pc, running>>

PostQuit(th) ==
  /\ CanPost(th) /\ ~quit
  /\ quit' = TRUE
  /\ notifying' = [notifying EXCEPT ![th] = FirstNotice]
  /\ UNCHANGED <<queue, posted, ran, pipe, writeNews, eventVars, gotBreak, wakeup, pc, running>>

NeverFull == pipe + 1                              \* fault: no byte is refused
PipeAfterWrite == IF pipe < PipeCapacity THEN pipe + 1 ELSE pipe

\* NotifyTask(): a byte, unless the pipe is full, and then the Break().
WriteByte(th) ==
  /\ notifying[th] = "write"
  /\ notifying' = [notifying EXCEPT ![th] = "break"]
  /\ pipe' = PipeAfterWrite
  /\ UNCHANGED <<taskVars, writeNews, eventVars, gotBreak, wakeup, pc, running>>

BreakDispatch(th) ==
  /\ notifying[th] = "break"
  /\ notifying' = [notifying EXCEPT ![th] = "no"]
  /\ gotBreak' = TRUE
  /\ UNCHANGED <<taskVars, pipe, writeNews, eventVars, wakeup, pc, running>>

Notify(th) == WriteByte(th) \/ BreakDispatch(th)

\* Something happens on a transport.
Arrive(t) ==
  /\ t \notin ready
  /\ ready' = ready \cup {t}
  /\ news' = IF t \in Edge THEN news \cup {t} ELSE news
  /\ UNCHANGED <<taskVars, notifyVars, queued, gotBreak, wakeup, pc, running>>

----------------------------------------------------------------------------
(* Loop().                                                                 *)

CheckQuit ==
  /\ pc = "check"
  /\ pc' = IF quit THEN "out" ELSE "task"
  /\ UNCHANGED <<taskVars, notifyVars, eventVars, gotBreak, wakeup, running>>

\* tasks_->ProcessNextTask(); without a task, received_wakeup_ is reset.
ProcessNextTask ==
  /\ pc = "task"
  /\ IF queue = <<>>
       THEN pc' = "poll" /\ wakeup' = FALSE /\ UNCHANGED <<queue, running>>
       ELSE pc' = "run" /\ running' = Head(queue) /\ queue' = Tail(queue) /\ UNCHANGED wakeup
  /\ UNCHANGED <<posted, ran, quit, notifyVars, eventVars, gotBreak>>

TaskReturns ==
  /\ pc = "run" /\ notifying[Main] = "no"
  /\ ran' = ran \cup {running} /\ running' = Nobody
  /\ pc' = "check"
  /\ UNCHANGED <<queue, posted, quit, notifyVars, eventVars, gotBreak, wakeup>>

\* What Poll() reports of the transports, and what it leaves in the pipe.
Reportable == (ready \ Edge) \cup news

PipeAfterWakeup == IF pipe > 0 THEN pipe - 1 ELSE 0

WakesOnAnything == TRUE                            \* fault: OnWriteReady() sets the flag too
Wakes == pipe > 0

\* Poll() blocks until there is something to report.  OnWakeup() reads one byte;
\* delegates that do not wait already are posted to the event queue.
Poll ==
  /\ pc = "poll"
  /\ pipe > 0 \/ writeNews \/ Reportable # {}
  /\ wakeup' = Wakes
  /\ pipe' = PipeAfterWakeup
  /\ writeNews' = (pipe = PipeCapacity)
  /\ \E order \in SetToSeqs(Reportable \ Range(queued)) : queued' = queued \o order
  /\ news' = {}
  /\ pc' = "polled"
  /\ UNCHANGED <<taskVars, notifying, ready, gotBreak, running>>

\* A signal makes Poll() return with nothing, a failure starts the loop again.
PollInterrupted ==
  /\ pc = "poll"
  /\ pc' \in {"polled", "check"}
  /\ UNCHANGED <<taskVars, notifyVars, eventVars, gotBreak, wakeup, running>>

TestWakeup ==
  /\ pc = "polled"
  /\ pc' = IF wakeup THEN "check" ELSE "dispatch"
  /\ UNCHANGED <<taskVars, notifyVars, eventVars, gotBreak, wakeup, running>>

\* DispatchEvents(): the next listener, if any.
Dispatch(from, to) ==
  /\ pc = from
  /\ IF queued = <<>>
       THEN pc' = "check" /\ UNCHANGED <<queued, running>>
       ELSE pc' = to /\ running' = Head(queued) /\ queued' = Tail(queued)
  /\ UNCHANGED <<taskVars, notifyVars, ready, news, gotBreak, wakeup>>

DispatchFirst == Dispatch("dispatch", "first")
DispatchNext  == Dispatch("next", "more")

\* A listener handles all there is: edge-triggered ones must.  The first one's
\* return resets got_break_, and the test comes after that.
BreakAfterListener == IF pc = "first" THEN FALSE ELSE gotBreak

ListenerReturns ==
  /\ pc \in {"first", "more"} /\ notifying[Main] = "no"
  /\ ready' = ready \ {running} /\ news' = news \ {running}
  /\ running' = Nobody
  /\ gotBreak' = BreakAfterListener
  /\ pc' = IF gotBreak' THEN "check" ELSE "next"
  /\ UNCHANGED <<taskVars, notifyVars, queued, wakeup>>

Loop ==
  \/ CheckQuit \/ ProcessNextTask \/ TaskReturns
  \/ Poll \/ TestWakeup
  \/ DispatchFirst \/ DispatchNext \/ ListenerReturns

Next ==
  \/ \E th \in Threads : \/ \E t \in Tasks : PostTask(th, t)
                         \/ PostQuit(th)
                         \/ Notify(th)
  \/ \E t \in Transports : Arrive(t)
  \/ Loop
  \/ PollInterrupted

Spec == Init /\ [][Next]_vars

\* Threads run, tasks and listeners return, and Poll() does not block when it has
\* something to report, nor is it interrupted or does it fail every time.
Fairness == WF_vars(Loop) /\ SF_vars(Poll) /\ \A th \in Threads : WF_vars(Notify(th))
FairSpec == Spec /\ Fairness

----------------------------------------------------------------------------
(* Properties.                                                             *)

TypeOK ==
  /\ queue \in Seq(Tasks) /\ posted \subseteq Tasks /\ ran \subseteq Tasks
  /\ quit \in BOOLEAN
  /\ notifying \in [Threads -> {"no", "write", "break"}]
  /\ pipe \in 0 .. PipeCapacity /\ writeNews \in BOOLEAN
  /\ ready \subseteq Transports /\ news \subseteq Edge /\ queued \in Seq(Transports)
  /\ gotBreak \in BOOLEAN /\ wakeup \in BOOLEAN
  /\ pc \in Places /\ running \in Tasks \cup Transports \cup {Nobody}

\* No lost wakeup: when the loop is about to block while there is a task to run
\* or a quit to obey, there is a byte in the pipe or a thread on its way to
\* write one.  One byte is read per wakeup, several tasks may share a byte when
\* the pipe is full, and tasks run before their byte is read.
WriteComing == \E th \in Threads : notifying[th] = "write"
NoLostWakeup ==
  pc = "poll" /\ (queue # <<>> \/ quit) => pipe > 0 \/ WriteComing

\* Every task that was posted runs, unless the loop is told to quit.
TasksRun == \A t \in Tasks : t \in posted ~> t \in ran \/ quit

\* PostQuit() stops the loop, whatever it is doing.
QuitObeyed == quit ~> pc = "out"

\* Tasks come before events, but the last wakeup is followed by a dispatch of
\* what is ready: the listener of a level-triggered transport is called.
LevelServed ==
  \A t \in Transports \ Edge : t \in Range(queued) ~> (running = t \/ quit)
==============================================================================
