----------------------------- MODULE WinEventLoop -----------------------------
(***************************************************************************)
(* WindowsEventLoopForIO (windows/windows-event-loop.cc): Loop() on one    *)
(* thread, PostTask() and PostQuit() on any, and the Wakeup that gets the  *)
(* loop out of PollOne() with a message.                                   *)
(*                                                                         *)
(* Wakeup has one context and keeps it in context_ while the message is    *)
(* not in the port.  Signal() reads context_, posts it and clears it, with *)
(* no lock, while OnCompleted() puts it back on the loop's thread: each is *)
(* a step here.  tasks_ is a queue (TaskQueue), of which only the length   *)
(* matters.                                                                *)
(***************************************************************************)
EXTENDS CompletionPort

CONSTANTS
  Main,           \* the thread of Loop(), which polls
  Wakeup,         \* the listener
  WakeupContext,
  TaskLimit       \* bound: tasks posted

ASSUME MainAssumption == Main \in Pollers
ASSUME LimitAssumption == TaskLimit \in Nat
ASSUME WakeupAssumption == Wakeup \in Listeners /\ WakeupContext \in Contexts

VARIABLES
  context,        \* context_ of the Wakeup
  signal,         \* where a thread is in Signal()
  queued, posted, \* tasks
  quit,           \* got_quit_
  pc,             \* of Loop()
  missed          \* history: "cleared", context_ when the message was not in the port;
                  \*   "unsent", a message that could not be posted

loopVars == <<context, signal, queued, posted, quit, pc, missed>>

LoopInit ==
  /\ context = WakeupContext /\ signal = [th \in Threads |-> "out"]
  /\ queued = 0 /\ posted = 0 /\ quit = FALSE
  /\ pc = "check" /\ missed = {}

----------------------------------------------------------------------------
(* Any thread; Loop()'s own in a task.                                     *)

MayPost(th) == signal[th] = "out" /\ pc # "shut" /\ (th \in Pollers => th = Main /\ pc = "run")

NeverSignals == "out"                              \* fault: no delegate is told
FirstNotice == "check"

PostTask(th) ==
  /\ MayPost(th) /\ posted < TaskLimit
  /\ posted' = posted + 1 /\ queued' = queued + 1
  /\ signal' = [signal EXCEPT ![th] = FirstNotice]
  /\ UNCHANGED <<portVars, context, quit, pc, missed>>

PostQuit(th) ==
  /\ MayPost(th) /\ ~quit
  /\ quit' = TRUE
  /\ signal' = [signal EXCEPT ![th] = FirstNotice]
  /\ UNCHANGED <<portVars, context, queued, posted, pc, missed>>

\* Signal(): "if (!context_) return".
SignalChecks(th) ==
  /\ signal[th] = "check"
  /\ signal' = [signal EXCEPT ![th] = IF context = None THEN "out" ELSE "post"]
  /\ UNCHANGED <<portVars, context, queued, posted, quit, pc, missed>>

\* Post(context_, this) reads it again: another thread may have cleared it.
SignalPosts(th) ==
  /\ signal[th] = "post" /\ ~aborted
  /\ IF context = None
       THEN aborted' = TRUE /\ UNCHANGED <<contextVars, transportVars, busy, port, pollVars, doing>>
       ELSE Post(th, context, Wakeup)
  /\ signal' = [signal EXCEPT ![th] = "posting"]
  /\ UNCHANGED <<context, queued, posted, quit, pc, missed>>

\* The rest of Post(): an error is printed.
SignalPosted(th) ==
  /\ signal[th] = "posting"
  /\ \/ (LinkMessage(th) \/ SendFails(th)) /\ UNCHANGED <<signal, missed>>
     \/ Send(th) /\ signal' = [signal EXCEPT ![th] = "clear"] /\ UNCHANGED missed
     \/ /\ Undo(th) /\ signal' = [signal EXCEPT ![th] = "out"]
        /\ missed' = missed \cup {"unsent"}
  /\ UNCHANGED <<context, queued, posted, quit, pc>>

\* context_ = nullptr.
SignalClears(th) ==
  /\ signal[th] = "clear"
  /\ context' = None
  /\ missed' = IF InFlight(WakeupContext) = 0 THEN missed \cup {"cleared"} ELSE missed
  /\ signal' = [signal EXCEPT ![th] = "out"]
  /\ UNCHANGED <<portVars, queued, posted, quit, pc>>

----------------------------------------------------------------------------
(* Loop().                                                                 *)

\* ShouldQuit(), then a task or PollOne().
CheckQuit ==
  /\ pc = "check"
  /\ pc' = IF quit THEN "out" ELSE IF queued > 0 THEN "run" ELSE "poll"
  /\ queued' = IF ~quit /\ queued > 0 THEN queued - 1 ELSE queued
  /\ UNCHANGED <<portVars, context, signal, posted, quit, missed>>

TaskReturns ==
  /\ pc = "run" /\ signal[Main] = "out"
  /\ pc' = "check"
  /\ UNCHANGED <<portVars, context, signal, queued, posted, quit, missed>>

LoopPolls ==
  /\ pc = "poll"
  /\ PollOne(Main) \/ Dispatch(Main, "done")
  /\ UNCHANGED loopVars

\* Wakeup::OnCompleted(), and PollOne() returns.
OnWakeup ==
  /\ pc = "poll" /\ call[Main] # None
  /\ context' = call[Main].ctx
  /\ call' = [call EXCEPT ![Main] = None]
  /\ pc' = "check"
  /\ UNCHANGED <<contextVars, transportVars, busy, port, entries, doing, aborted, signal,
                 queued, posted, quit, missed>>

\* Shutdown(), with no other thread in the loop.
Shutdown ==
  /\ pc = "out" /\ \A th \in Threads : signal[th] = "out"
  /\ pc' = "shut"
  /\ UNCHANGED <<portVars, context, signal, queued, posted, quit, missed>>

LoopNext ==
  \/ \E th \in Threads :
       PostTask(th) \/ PostQuit(th) \/ SignalChecks(th) \/ SignalPosts(th) \/ SignalPosted(th)
         \/ SignalClears(th)
  \/ CheckQuit \/ TaskReturns \/ LoopPolls \/ OnWakeup
  \/ Shutdown

LoopTypeOK ==
  /\ context \in {None, WakeupContext}
  /\ signal \in [Threads -> {"out", "check", "post", "posting", "clear"}]
  /\ queued \in 0 .. TaskLimit /\ posted \in queued .. TaskLimit
  /\ quit \in BOOLEAN
  /\ missed \subseteq {"cleared", "unsent"}
  /\ pc \in {"check", "run", "poll", "out", "shut"}
==============================================================================
