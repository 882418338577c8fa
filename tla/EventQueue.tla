------------------------------ MODULE EventQueue ------------------------------
(***************************************************************************)
(* EventQueueImpl (posix/posix-event-queue.{h,cc}): a delegate per         *)
(* attachment listens to the poller in proxy mode, collects what the       *)
(* poller reports and posts itself as a task; dispatching runs it and it   *)
(* calls the user's listener.                                              *)
(*                                                                         *)
(* Everything happens on one thread: the user's calls, the poller's        *)
(* callbacks during Poll() and the dispatch.  User operations also happen  *)
(* inside a listener call.  The poller is the base poller's contract: one  *)
(* listener per transport, reports only of events asked for, a hangup      *)
(* detaches first, and proxies are told of detaches and changes (the bits  *)
(* that a re-attached transport keeps are EpollPoller's subject).  tasks_  *)
(* is a first-in first-out queue (TaskQueueProofs shows that it is one).   *)
(* DispatchEvents() is a repeated DispatchNextEvent().                     *)
(*                                                                         *)
(* A delegate's parent_, transport_ and forward_ are set together by its   *)
(* constructor and cleared together by remove_delegate() (Detach() clears  *)
(* parent_ a little earlier), so transportOf stands for all three.         *)
(***************************************************************************)
EXTENDS Naturals, Sequences, SequencesExt, FiniteSets

CONSTANTS
  Transports,
  Attachments,   \* bound: how many attachments are ever made
  None,          \* a null pointer
  UsedEvents     \* the sets of events users ask for

IOEvents == {"Read", "Write"}
Delegates == 1 .. Attachments                    \* one each, in order

ASSUME AttachmentsAssumption == Attachments \in Nat
ASSUME NoneAssumption == None \notin Transports \cup Delegates
ASSUME UseAssumption == UsedEvents \subseteq SUBSET IOEvents

VARIABLES
  open,          \* poller_ and tasks_ are set
  closed,        \* transports whose descriptor is closed
  listener,      \* poller: the delegate listening to each transport, or None
  interest,      \* poller: events asked for
  delegates,     \* delegates_: each is appended when it is made, so its order is
                 \*   that of the numbers
  transportOf,   \* transport_ of each delegate, None once it is removed
  events,        \* events_ of each delegate
  tasks,         \* tasks_: delegates waiting to run, oldest first
  used,          \* how many delegates were created so far
  pc,            \* where the thread is
  run,           \* the delegate in Run(), or None
  news,          \* history: reports not yet passed on, withdrawn or overtaken
  dismissed      \* history: delegates whose transport was given to Detach()

pollerVars == <<closed, listener, interest>>
queueVars  == <<delegates, transportOf, events, tasks, used>>
vars == <<open, pollerVars, queueVars, pc, run, news, dismissed>>

Flags  == IOEvents \cup {"Hangup", "Queued", "Detached"}
Calls  == {"inRead", "inWrite", "inHangup"}     \* in forward_'s code
Stages == {"read", "write", "finish"} \cup Calls

Init ==
  /\ open = TRUE /\ closed = {}
  /\ listener = [t \in Transports |-> None]
  /\ interest = [t \in Transports |-> {}]
  /\ delegates = {} /\ tasks = <<>> /\ used = 0
  /\ transportOf = [d \in Delegates |-> None]
  /\ events = [d \in Delegates |-> {}]
  /\ pc = "idle" /\ run = None
  /\ news = [d \in Delegates |-> {}] /\ dismissed = {}

Attached(t) == listener[t] # None

----------------------------------------------------------------------------
(* Delegate callbacks.                                                     *)

\* MaybeEnqueue(), with the event that caused it added to events_.
PostsAlways(d) == Append(tasks, d)                 \* fault: no test of Queued
Enqueued(d) == IF "Queued" \in events[d] THEN tasks ELSE Append(tasks, d)

OnReport(d, event) ==
  /\ events' = [events EXCEPT ![d] = @ \cup {event, "Queued"}]
  /\ tasks' = Enqueued(d)
  /\ news' = [news EXCEPT ![d] = @ \cup {event}]

\* remove_delegate(), of a delegate whose events_ were last set to ev.
StaysMarked(d) == {"Removed"}                      \* fault: a bit nobody knows
KeepsEvents(d) == events[d]                        \* fault: events_ is not cleared
EventsAfterRemove(d) == {}

IsFirst(d) == d \in delegates /\ \A other \in delegates : d <= other
UnlinksFirst(d) == {x \in delegates : ~IsFirst(x)}  \* fault: the wrong node
Unlinked(d) == delegates \ {d}

RemoveDelegate(d, ev) ==
  /\ delegates' = Unlinked(d)
  /\ transportOf' = [transportOf EXCEPT ![d] = None]
  /\ events' = [ev EXCEPT ![d] = EventsAfterRemove(d)]
  /\ news' = [news EXCEPT ![d] = {}]

\* OnProxyDetach(), called by the poller for a detach of its own.
WaitsAlways(ev) == TRUE                            \* fault: no test of Queued
WaitsForRun(ev) == "Queued" \in ev

OnProxyDetach(d, ev) ==
  IF WaitsForRun(ev[d])
    THEN /\ events' = [ev EXCEPT ![d] = {"Detached", "Queued"}]
         /\ news' = [news EXCEPT ![d] = {}]
         /\ UNCHANGED <<delegates, transportOf>>
    ELSE RemoveDelegate(d, ev)

\* OnChangeEvents().
OnChangeEvents(d, wanted) ==
  /\ events' = [events EXCEPT ![d] = @ \ (wanted \cap IOEvents)]
  /\ news' = [news EXCEPT ![d] = @ \cap {"Hangup"}]

----------------------------------------------------------------------------
(* User operations, outside of Run() or in a listener.                     *)

UserMay == open /\ pc \in {"idle"} \cup Calls

Attach(t, wanted) ==
  LET d == used + 1 IN
    /\ UserMay /\ ~Attached(t) /\ t \notin closed /\ d \in Delegates
    /\ listener' = [listener EXCEPT ![t] = d]
    /\ interest' = [interest EXCEPT ![t] = wanted]
    /\ delegates' = delegates \cup {d}
    /\ transportOf' = [transportOf EXCEPT ![d] = t]
    /\ used' = d
    /\ UNCHANGED <<open, closed, events, tasks, pc, run, news, dismissed>>

\* The poller lets go of a transport.
PollerDetach(t) ==
  /\ listener' = [listener EXCEPT ![t] = None]
  /\ interest' = [interest EXCEPT ![t] = {}]

\* The end of Detach().
ForgetsToZap(d) ==                                 \* fault: only the poller is told
  UNCHANGED <<delegates, transportOf, events, news>>
ZapDelegate(d) == RemoveDelegate(d, events)

\* Detach(): the delegate has no parent when the poller tells it, so only
\* remove_delegate() matters.  A transport that the poller has let go of, as
\* when it hung up, has no listener any more: then nothing is done, also for a
\* delegate of it that is queued.
Detach(t) ==
  /\ UserMay
  /\ dismissed' = dismissed \cup {d \in Delegates : transportOf[d] = t}
  /\ IF Attached(t)
       THEN PollerDetach(t) /\ ZapDelegate(listener[t])
       ELSE UNCHANGED <<listener, interest, delegates, transportOf, events, news>>
  /\ UNCHANGED <<open, closed, tasks, used, pc, run>>

\* The transport is closed, or detached from the poller behind our back.
DetachFromPoller(t) ==
  /\ UserMay /\ Attached(t)
  /\ PollerDetach(t)
  /\ OnProxyDetach(listener[t], events)
  /\ closed' \in {closed, closed \cup {t}}
  /\ UNCHANGED <<open, tasks, used, pc, run, dismissed>>

CloseDetached(t) ==
  /\ UserMay /\ ~Attached(t) /\ t \notin closed
  /\ closed' = closed \cup {t}
  /\ UNCHANGED <<open, listener, interest, queueVars, pc, run, news, dismissed>>

\* The proxy is told the new set.  AddEvents() and RemoveEvents() return early
\* when nothing changes; ChangeEvents() compares its argument with all of
\* flags_, the mode bits too, so it always goes on.
ChangeTo(t, wanted) ==
  /\ UserMay /\ Attached(t)
  /\ interest' = [interest EXCEPT ![t] = wanted]
  /\ OnChangeEvents(listener[t], wanted)
  /\ UNCHANGED <<open, closed, listener, delegates, transportOf, tasks, used, pc, run, dismissed>>

ChangeEvents(t, wanted) == ChangeTo(t, wanted)
AddEvents(t, wanted)    == ~(wanted \subseteq interest[t]) /\ ChangeTo(t, interest[t] \cup wanted)
RemoveEvents(t, wanted) == wanted \cap interest[t] # {} /\ ChangeTo(t, interest[t] \ wanted)

\* Shutdown() detaches the first delegate until there is none, then drops
\* poller_ and tasks_, which releases the delegates still in it.
BeginShutdown ==
  /\ open /\ pc = "idle"
  /\ pc' = "shutdown"
  /\ UNCHANGED <<open, pollerVars, queueVars, run, news, dismissed>>

\* detach_unlocked() of a transport that the poller no longer has returns at
\* once: then only the Queued bit of the first delegate is changed.  The
\* transport may also have been attached again, with another delegate.
ShutdownStep ==
  /\ pc = "shutdown"
  /\ \E d \in delegates :
       LET t == transportOf[d]
           dequeued == [events EXCEPT ![d] = @ \ {"Queued"}] IN
         /\ IsFirst(d)
         /\ \/ /\ ~Attached(t)
               /\ events' = dequeued
               /\ UNCHANGED <<listener, interest, delegates, transportOf, news>>
            \/ /\ Attached(t)
               /\ PollerDetach(t)
               /\ OnProxyDetach(listener[t], dequeued)
  /\ UNCHANGED <<open, closed, tasks, used, pc, run, dismissed>>

EndShutdown ==
  /\ pc = "shutdown" /\ delegates = {}
  /\ open' = FALSE /\ tasks' = <<>> /\ pc' = "idle"
  /\ UNCHANGED <<pollerVars, delegates, transportOf, events, used, run, news, dismissed>>

User ==
  \/ \E t \in Transports, wanted \in UsedEvents :
       Attach(t, wanted) \/ ChangeEvents(t, wanted) \/ AddEvents(t, wanted) \/ RemoveEvents(t, wanted)
  \/ \E t \in Transports : Detach(t) \/ DetachFromPoller(t) \/ CloseDetached(t)
  \/ BeginShutdown

----------------------------------------------------------------------------
(* Poll(), between dispatches.                                             *)

PollReports(t, event) ==
  /\ open /\ pc = "idle" /\ Attached(t) /\ event \in interest[t]
  /\ OnReport(listener[t], event)
  /\ UNCHANGED <<open, pollerVars, delegates, transportOf, used, pc, run, dismissed>>

PollReportsHangup(t) ==
  /\ open /\ pc = "idle" /\ Attached(t)
  /\ PollerDetach(t)
  /\ OnReport(listener[t], "Hangup")
  /\ UNCHANGED <<open, closed, delegates, transportOf, used, pc, run, dismissed>>

----------------------------------------------------------------------------
(* The dispatch: Delegate::Run().                                          *)

LeavesQueued(d) == events[d]                       \* fault: Queued is not removed
EventsInRun(d) == events[d] \ {"Queued"}

DispatchNextEvent ==
  /\ open /\ pc = "idle" /\ tasks # <<>>
  /\ LET d == Head(tasks) IN
       /\ events' = [events EXCEPT ![d] = EventsInRun(d)]
       /\ IF transportOf[d] = None
            THEN UNCHANGED <<pc, run>>
            ELSE pc' = "read" /\ run' = d
  /\ tasks' = Tail(tasks)
  /\ UNCHANGED <<open, pollerVars, delegates, transportOf, used, news, dismissed>>

\* forward_->OnReadReady() or OnWriteReady(), or on to the next test.
Forward(stage, event, callPc, next) ==
  /\ pc = stage
  /\ IF event \in events[run]
       THEN /\ pc' = IF transportOf[run] = None THEN "crashed" ELSE callPc
            /\ news' = [news EXCEPT ![run] = @ \ {event}]
       ELSE pc' = next /\ UNCHANGED news
  /\ UNCHANGED <<open, pollerVars, queueVars, run, dismissed>>

ForwardRead  == Forward("read", "Read", "inRead", "write")
ForwardWrite == Forward("write", "Write", "inWrite", "finish")

ListenerReturns ==
  /\ pc \in {"inRead", "inWrite"}
  /\ pc' = IF pc = "inRead" THEN "write" ELSE "finish"
  /\ UNCHANGED <<open, pollerVars, queueVars, run, news, dismissed>>

\* Hangup is forwarded, then the delegate goes; Detached makes it go at once.
ForwardHangup ==
  /\ pc = "finish" /\ "Hangup" \in events[run]
  /\ pc' = IF transportOf[run] = None THEN "crashed" ELSE "inHangup"
  /\ news' = [news EXCEPT ![run] = {}]
  /\ UNCHANGED <<open, pollerVars, queueVars, run, dismissed>>

RunEnds ==
  /\ \/ pc = "inHangup"
     \/ pc = "finish" /\ "Detached" \in events[run] /\ "Hangup" \notin events[run]
  /\ IF transportOf[run] = None
       THEN pc' = "crashed" /\ UNCHANGED <<delegates, transportOf, events, news, run>>
       ELSE pc' = "idle" /\ run' = None /\ RemoveDelegate(run, events)
  /\ UNCHANGED <<open, pollerVars, tasks, used, dismissed>>

RunEndsAttached ==
  /\ pc = "finish" /\ events[run] \cap {"Detached", "Hangup"} = {}
  /\ pc' = "idle" /\ run' = None
  /\ UNCHANGED <<open, pollerVars, queueVars, news, dismissed>>

Dispatch ==
  \/ DispatchNextEvent
  \/ ForwardRead \/ ForwardWrite \/ ListenerReturns \/ ForwardHangup
  \/ RunEnds \/ RunEndsAttached

Shutdown == ShutdownStep \/ EndShutdown

Next ==
  \/ User
  \/ \E t \in Transports : \/ \E event \in IOEvents : PollReports(t, event)
                           \/ PollReportsHangup(t)
  \/ Dispatch
  \/ Shutdown

Spec == Init /\ [][Next]_vars

\* A user who polls also dispatches, and calls return.
Fairness == WF_vars(Dispatch) /\ WF_vars(Shutdown)
FairSpec == Spec /\ Fairness

----------------------------------------------------------------------------
(* Properties.                                                             *)

TypeOK ==
  /\ open \in BOOLEAN /\ closed \subseteq Transports
  /\ listener \in [Transports -> Delegates \cup {None}]
  /\ interest \in [Transports -> SUBSET IOEvents]
  /\ delegates \subseteq Delegates /\ tasks \in Seq(Delegates)
  /\ transportOf \in [Delegates -> Transports \cup {None}]
  /\ events \in [Delegates -> SUBSET Flags]
  /\ used \in 0 .. Attachments /\ dismissed \subseteq Delegates
  /\ pc \in {"idle", "shutdown", "crashed"} \cup Stages
  /\ run \in Delegates \cup {None}
  /\ news \in [Delegates -> SUBSET {"Read", "Write", "Hangup"}]

\* A delegate waits in tasks_ at most once (its single manual reference pays
\* for one run), and one that is still ours is there when its bit says so.
QueuedOnce ==
  /\ \A i, j \in DOMAIN tasks : tasks[i] = tasks[j] => i = j
  /\ pc # "shutdown" =>
       \A d \in Delegates : transportOf[d] # None => ("Queued" \in events[d] <=> d \in Range(tasks))

\* delegates_ holds plain pointers: each is to a delegate that the poller, the
\* task queue or the running dispatch still holds a reference to.  And what the
\* poller calls back is a delegate in the list, for its transport.
ListedAlive ==
  open => \A d \in delegates :
            \/ \E t \in Transports : listener[t] = d
            \/ d \in Range(tasks)
            \/ d = run

ListenersListed ==
  \A t \in Transports :
    Attached(t) => listener[t] \in delegates /\ transportOf[listener[t]] = t

ListSound == ListedAlive /\ ListenersListed

\* Run() never calls through a forward_ or parent_ that a listener it called
\* has cleared.
NoNullCall == pc # "crashed"

\* What was reported stays in events_ of a delegate that will run, until it is
\* passed on, the transport is detached or the events asked for change (any
\* change: of what OnChangeEvents() keeps and clears, nothing is said).
NewsKept ==
  pc # "shutdown" =>
    \A d \in Delegates :
      news[d] # {} => /\ news[d] \subseteq events[d]
                      /\ d \in Range(tasks) \/ d = run

\* A listener whose transport was given to Detach() is not called again, not even
\* for what was queued, unless the transport had hung up before.  Then Detach()
\* returns early (posix-event-queue.cc:72), and what is queued with the hangup,
\* and the hangup, are still passed on.
StartsCall == pc \notin Calls /\ pc' \in Calls
DetachSilences ==
  [][StartsCall /\ run \in dismissed => "Hangup" \in events[run]]_vars

\* "Shutdown the event queue, removing any pending events"
\* (amio-eventloop.h:158): it comes to an end.
ShutdownEnds == pc = "shutdown" ~> pc # "shutdown"

\* A hangup reaches the listener, unless it is told to stop first.
HangupDelivered ==
  \A d \in Delegates :
    "Hangup" \in news[d] ~> (pc = "inHangup" /\ run = d) \/ pc = "shutdown" \/ ~open
==============================================================================
