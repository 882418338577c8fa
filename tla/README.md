# AMIO in TLA+

Specifications of AMIO (`src/`), a C++ library for asynchronous I/O: task queues,
six pollers, event queues, event loops, networking, and the completion port of
Windows with what is built on it. The models
are translated from the code; `PROJECT.json` gives, for each definition, the lines
it stands for, and lists the runs, the mutants that show each property can fail,
the hazards the properties are for, and the theorems.

## The system

    user code (tasks, StatusListeners)
        |  PostTask, PostQuit (any thread)         |  Attach, Detach, ChangeEvents, ...
        v                                          v
    PosixEventLoopForIO::Loop --- DispatchEvents --> EventQueueImpl
        | ProcessNextTask                            | Poll: proxy listeners
        v                                            v
    TaskQueueImpl <-- one for tasks, one inside --- PosixPoller (epoll, poll, select,
        the event queue, holding delegates            kqueue, event ports, /dev/poll)
                                                      |
                                                    PosixTransport (one descriptor)

On Windows the poller is an I/O completion port and there is no event queue.
Networking (`ConnectOp`, `PosixServer`; `WinServer` on Windows) is a set of listeners
on these.

| component | state | operations | hard behaviour | what makes it correct |
|---|---|---|---|---|
| Task queue (`shared/shared-task-queue`) | two deques, `got_break_`, `got_quit_` | PostTask, PostQuit, Break (any thread); ProcessNextTask, ProcessTasks (one thread) | swap of the deques under posts; flags set while a task runs; limits | FIFO, each task owned once and deleted once, breaks and quits obeyed, limits exact |
| Transport and base poller (`posix/posix-transport`, `posix-base-poller`) | descriptor, `flags_`, `poller_`, `listener_` | Attach, Detach, Change/Add/RemoveEvents, Close, Read, Write | `flags_` survive a detach; Close is not atomic | `flags_` agree with what the kernel was asked; borrowed descriptors stay open |
| Epoll poller (`linux/linux-epoll`) | slot table, free slots, generation, event buffer | the above, Poll, Shutdown, EnableThreadSafety | listeners change the table in the middle of a batch; other threads do so between `epoll_wait()` and the dispatch | no call for a transport that is gone, no slot lost or shared, every event delivered |
| Poll, select, kqueue (`posix/`, `bsd/`) | tables by descriptor or by slot, interest sets, watermark, marks of what changed | same | descriptor numbers that come back; a table that a listener shrinks or moves under the loop; emulated edge triggering | same contract; no act on another registration's entry |
| Solaris ports, /dev/poll (`solaris/`) | slots, `Armed` bit; writes to the device | same | an association ends with each event and must be renewed, and renewing may fail | same contract; the system is asked for what `flags_` says |
| Event queue (`posix/posix-event-queue`) | delegates, their `events_`, a task queue | Attach, Detach, Change..., DispatchEvents, Shutdown; callbacks from the poller | detach by the poller while queued, by the user in the delegate's own run | queued once, no dangling delegate, silence after Detach but for what was queued with an earlier hangup, what is reported is kept until passed on, detached or withdrawn |
| POSIX event loop (`posix/posix-event-loop`) | task queue, event queue, poller, pipe, `received_wakeup_` | Loop, PostTask, PostQuit | post between the last look at the tasks and the poll; full pipe; break races | no lost wakeup; tasks run; quits obeyed; events served |
| Networking (`posix/posix-net.cc`) | connect operations, servers, the backlog | Create, ConnectTo, CreateSocket, Cancel, accept, Close | every order of completion, cancel, hangup, close, on a poller or a queue that keeps reports | one outcome each, none for what was cancelled in progress, no descriptor left, every connection got to |
| Addresses (`shared/shared-net.cc`) | none | Resolve, ToString, choice of socket | brackets and ports in text | what is printed is read back |
| Completion port (`windows/windows-iocp`, `windows-context`) | a context's request, count and references; packets; links | link, unlink, Post, Poll, PollOne, Dispatch | packets that arrive before the call returns, after Cancel() or Close() | nothing the kernel or the port has is released |
| Windows transports (`windows-transport`, `-file`, `-socket`) | attached, closed, immediate delivery | Attach, Read, Write, Cancel, Close | which outcomes of a system call bring a packet | same |
| Windows networking (`windows-net.cc`) | the server's pool and request, a client's operation | accept loop on any thread, Create, Cancel | a new request before the last is handed over | one accept under way, one outcome |
| Windows event loop (`windows-event-loop`) | tasks, the Wakeup's `context_` | Loop, PostTask, PostQuit, Shutdown | `context_` is tested and cleared without a lock | no task waits while the loop sleeps |
| Utilities | none | | | |

## Modules

| module | models | kind |
|---|---|---|
| `FifoTasks` | what a task queue promises | abstract |
| `TaskQueue` | `TaskQueueImpl` | detailed, implements `FifoTasks` |
| `TaskQueueProofs` | | proofs |
| `IODispatcher` | what a dispatcher promises its listeners | abstract |
| `PosixTransport` | `PosixTransport`, and the tests of `PosixPoller` that come before a backend | shared by backends |
| `EpollPoller` | `EpollImpl`, composed with `PosixTransport` | detailed, implements `IODispatcher` |
| `EpollPollerProofs` | | proofs, with the one that `EpollPoller` implements `IODispatcher` |
| `EventQueue` | `EventQueueImpl` and its delegates, on a poller's contract and a FIFO of tasks | detailed |
| `EventQueueProofs` | | proofs |
| `EventLoop` | `PosixEventLoopForIO`, on a FIFO of tasks, a queue of delegates and a poller | detailed |
| `EventLoopProofs` | | proofs |
| `DescriptorPoller` | what the five other pollers share: tables, `PosixPoller`'s operations over a backend's three, the phases of `Poll()`, the properties | shared by backends |
| `PollPoller`, `SelectPoller`, `KqueuePoller`, `DevPoller`, `PortPoller` | `PollImpl`, `SelectImpl`, `KqueueImpl`, `DevPollImpl`, `PortImpl`; `MCPollers` composes them | detailed, implement `IODispatcher` |
| `PollerTableProofs`, `PollerProofs` | | proofs; the first what the five have in common, the second backend by backend, up to the one that they implement `IODispatcher` |
| `NetAddress` | `Address`, its `Resolve()` and `ToString()` | functions on tokens |
| `Networking` | `posix-net.cc` on a dispatcher's contract, with or without an event queue | detailed |
| `NetworkingProofs` | | proofs, of `Networking` and `NetAddress` |
| `CompletionPort` | `WinBasePoller`, `CompletionPort`, `WinContext` | detailed |
| `WinTransport` | `FileTransport`, `SocketTransport` on the port | detailed |
| `WinNetworking` | `WinServer` and the client's `ConnectOp` on the port | detailed |
| `WinEventLoop` | `WindowsEventLoopForIO` on the port | detailed |
| `Windows` | the port under each of these programs, and their properties | composition |
| `WindowsProofs` | | proofs, of `Windows` and the modules under it |
| `MC...` | the instances that TLC checks | |

The layers meet at abstractions: `EventQueue` and `EventLoop` take their task
queues to be sequences, which `TaskQueueProofs` justifies for one queue; they take
the poller to report what `IODispatcher` lets it report, which `EpollPoller`
and the five backends of `DescriptorPoller` implement on one thread. `Networking`
takes both from there: with `viaQueue` reports are kept and passed on later, as
`EventQueue` does it. On Windows the programs share the module of the port itself.

Operators marked `fault:` are not used by the specifications. Each is a plausible
error in the code, kept beside the definition it would replace, and
`PROJECT.json` ("mutants") names the property that catches it.

### State and steps

*TaskQueue.* `incoming` and `work` are the deques as sequences, `stage` where the
draining thread is: outside, about to look for a task, or in `Run()`. `timerRes`
says whether the system has a usable timer, which never changes. Posting is
two steps because the delegate is notified after `queue_lock_` is released. The
swap and the pop are one step: nobody else sees `work_`, and only the swap needs
the lock. `stopBy` is history: whether a break or quit was asked for while a task
ran (then the next may not start) or while the flags may already have been tested
(then one more may), or that a break was lost; one asked for after a lost one counts again. A deadline that passes, and the two clock tests, are the
nondeterministic `timeUp`.

*PosixTransport and EpollPoller.* `flags` is a set of bits; `slots`, `free`,
`slotOf` are `listeners_`, `free_slots_` and the transport's user data.
`changed` stands for the generation: the set of slots with
`modified == generation_`, so `generation_++` empties it (the counter itself, 64
bits wide, is not modelled). `interest` and `edge` are what the kernel was asked
for and what it still has to say about edge-triggered descriptors, `holds` is the
true state of each descriptor. `Poll()` is a step for `epoll_wait()`, one for
taking `lock_`, and one per entry and condition; while a listener runs (`pc =
"call"`) every user operation is possible, as `lock_` is released. With thread
safety operations also happen between `epoll_wait()` and the lock; while the
dispatch holds the lock they cannot. The entries of a batch are handled in any
order. EPOLLERR, EPOLLIN, EPOLLHUP/RDHUP and EPOLLOUT of one entry are taken in
the code's order, and `isFdChanged()` is tested again after input.

*EventQueue.* One step per callback, operation or listener call; `transportOf`
stands for the three pointers of a delegate that are set and cleared together.
Delegates are numbered as they are made and `Attach` appends, so `delegates_` is the
set of its members, its first element the least (`IsFirst`).
`news` is the history that says which reports a delegate has not passed on.

*EventLoop.* `pc` follows the statements of `Loop()`; `NotifyTask()` is two steps
of the posting thread, the byte and the break. The main thread posts only in a
task or a listener.

*DescriptorPoller and its backends.* A transport is a descriptor number; `Create`
brings a closed number back with a new transport. `UserSteps` has the operations
of `PosixPoller` for a backend's `attach_locked()`, `detach_locked()` and
`change_events_locked()`. `batch` holds the entries one system call reported, of any
size, and `cur` the rest of the entry being handled. `changed` is the set of slots or
descriptors marked in this generation. `pc = "undefined"` is a read outside of a
table, `"crashed"` a null listener. `since` is history: what was attached during this
dispatch, which no entry can be about.

*Networking.* `fd` is the state of each descriptor, `op` of each `ConnectOp`,
`backlog` what the kernel has completed and the server not accepted. The handlers of
`posix-net.cc` are actions; a call of the user's listener returns before or after
anything the user may do in it. `told` is history: the outcomes told. `NetAddress` has
addresses as records of a family, a host and a port, and texts as sequences of tokens,
so that `ToString()` and `Resolve()` are the joining and cutting at colons and brackets
that the code does. Hosts are those that `inet_ntop()` prints.

*CompletionPort.* `request`, `count` and `refs` are a context's `request_`, `count_`
and the references that `link()` took, `held` the same of a transport. `busy` is what
the kernel works on, `port` the packets, and each thread has the entries it dequeued,
the call it is in and the request it is about, since `Poll()` runs on many.

*WinTransport, WinNetworking, WinEventLoop.* Users' threads make a request in three
steps, link, system call, return, and a packet may be dispatched between any two.
`Signal()` is three steps: the test, the post and the clearing of `context_`.

## Runs

| run | instance | what it shows |
|---|---|---|
| `taskqueue` | 3 tasks, main and one poster, limits 0, 1, 2, all calls, with and without a usable timer, memory may run out | type, ownership, limits, return value, breaks and quits that are heeded, implements `FifoTasks` |
| `epoll` | 2 descriptors: one borrowed, level-triggered, that may hang up; one edge-triggered for input and output | slot table, live entries, no crash on one thread, `flags_` and kernel agree before a re-attach, borrowed descriptors, implements `IODispatcher` |
| `epoll_live` | 2 descriptors, buffer of one entry that may grow to 2 | every event asked for is delivered |
| `epoll_threads` | as `epoll`, with thread safety | a detach between `epoll_wait()` and `generation_++` makes the dispatch use a null transport (violation) |
| `event_queue` | 2 transports, 2 attachments in all | delegates: queued once, listed soundly, no null call, reports kept until passed on, detached or withdrawn, silence after Detach() but for what was queued with an earlier hangup, hangups delivered |
| `event_queue_shutdown` | same | Shutdown() does not end (violation) |
| `event_loop` | 3 tasks, one posting thread, pipe of 2 bytes, one level- and one edge-triggered transport | no lost wakeup, tasks run, quits obeyed, level-triggered transports served |
| `pollers` | each of the five backends with 2 descriptors: 1 for input, level-triggered or not from one registration to the next, that may hang up; 0 edge-triggered, asked for both ways, that may fail (749,460 states) | tables sound, entries acted on are current, kernel asked for what `flags_` says, implement `IODispatcher` |
| `poll_detach` | the poll backend | a detach in a listener makes the loop index its table with -1 (violation) |
| `networking` | one client by `Client::Create()`, one by `ConnectTo()` or `CreateSocket()`, one server, on a poller and on a queue (75,454 states) | descriptors owned and closed, one outcome, none if cancelled in progress, no late call, addresses read back, every operation and connection served |
| `windows` | 2 user threads, 2 polling threads, a file, a socket, a server and a client, 3 contexts, 2 messages, batches of 2, 2 tasks (845,297 states) | what is outstanding is held, one accept under way, one outcome, none if cancelled in progress, the loop sleeps on work only in the two known ways |
| `windows_wakeup` | same | the wakeup of a later task is lost (violation, 16 states) |

**Bounds.** Three tasks are enough to have one running, one in each deque, or two
in one deque. Two descriptors are enough for one listener to disturb the other's
entry and to reuse its slot; `MaxSlots` bounds only the slots that failed attaches
leave, and `MaxBuffer` the doubling of the event buffer. Two attachments let a
transport be attached again while its first delegate is queued. A pipe of two
bytes fills up with three posts. `Reattached` names the transports that may be
attached more than once. In `pollers` closing a number and creating it again is
unbounded. Two clients share a backlog; `FailureLimit` stands for the ten
soft errors of `accept()` that the code tolerates in one event. `MessageLimit` bounds
the packets that wait; two threads polling and two making requests are enough for a
packet of one request to be dispatched while another thread is between two steps
of the same request, and `BatchSize` 2 for one batch to hold two packets of one
context. `TaskLimit` of two lets a task be posted while the wakeup of the first
comes back. Symmetry is over the users' threads and their contexts, which no
property or constant tells apart.

**Deadlock.** Every system here ends, so the runs do not ask for deadlock: a task
queue is deleted, a poller or an event queue is shut down, `Loop()` returns. Those
are the only ends: with `NoStuck == ENABLED Next \/ end`, where `end` is `~alive`,
`~open` and `pc = "out"`, as an invariant, TLC finds no other in the instances of
`taskqueue`, `epoll`, `event_queue` and `event_loop`. The other programs end when
everything is closed, or where the model stops at a failure it names (`crashed`,
`undefined`, `aborted`, `misreported`).

**Fairness.** `EpollPoller`: the polling thread goes on and polls again, listeners
return, and the kernel's ready list is a queue, so a descriptor that is ready
again and again is in a batch eventually (strong fairness per descriptor).
`EventQueue`: who polls also dispatches, calls return. `EventLoop`: threads run,
user code returns, and `Poll()` is not interrupted by a signal, nor fails, every
single time it is entered (strong fairness of `Poll`). `Networking`: the handlers run
to their end and listeners return (weak fairness), a connection attempt is completed
or refused (weak), and the poller gets round to every descriptor that is ready again
and again, the queue to every report it keeps, and `accept()` to every connection in
the backlog (strong fairness, since others may be served in between). Users and the outside world
have no fairness: they need not do anything.

## What the violations say

Each is quoted with its document line in `PROJECT.json` ("findings").

1. `epoll_threads`: `EpollImpl::Poll()` starts the generation after `epoll_wait()`
   returned. On one thread nothing can happen in between, and the theorem
   `NeverCrashesAlone` holds. With thread safety a detach in between is marked with
   the old generation.
2. `event_queue_shutdown`: `EventQueueImpl::Shutdown()` loops for ever on a delegate
   whose transport the poller has already let go.
3. `poll_detach`: `PollImpl::Poll()` tests `isFdChanged()` with the descriptor of an
   element of `poll_events_` that a listener's detach has set to -1.
4. `windows_wakeup`: `Signal()` clears `context_` after the message was posted; if
   the loop has handled it by then and put the context back, the next task finds no
   context and the loop sleeps on.

## What else the models show of the code

Behaviour that a reader of the headers may not expect. The models have it; where a
property would be false for it, the property says so.

*Task queue.* `ProcessTasks(limit)` resets `got_break_` after its first task, so a
break during that task is lost (`shared-task-queue.cc:156`; `StopsHeeded` is about
later ones). The event loop relies on breaks to get from a long dispatch to a new
task; `TasksRun` shows that no task waits for ever because of it.

*POSIX transports and pollers.* `detach()` keeps `Reading` and `Writing` in `flags_`
(`posix-transport.cc:194`), so `BorrowedKept` and `InterestAgrees` of `EpollPoller`
hold only for transports that were never detached (kqueue's `detach_locked()` does
clear them). Event ports take no event out of `flags_` in a change
(`solaris-port.cc:121`), and a detach leaves the association of a transport that is
not armed, so an event may arrive for an empty slot: `EntriesCurrent` leaves ports
out and `InterestAgrees` asks of them only that a transport is associated. A listener
of the poll poller that attaches may also move `poll_events_` under the loop.
/dev/poll looks at `events` where it should look at `revents`, and
resizes its table to the descriptor's number and not to one more, which the bound on
descriptors keeps out. The mode stays in `flags_` too: /dev/poll and ports test for ET
there (`solaris-devpoll.cc:154`, `solaris-port.cc:135`), so a transport that was once
attached edge-triggered is so for ever, whatever mode it is attached with again; poll
and select test for LT (`posix-poll.cc:147`, `posix-select.cc:121`), and there one once
level-triggered stays that. `Level` in the mapping to `IODispatcher` says which.
`Shutdown()` in a listener, which nothing forbids, leaves slots filled and unmarked,
and the rest of the batch would call null listeners.

*Event queue and loop.* When the poller reports a hangup it has detached the
transport already. `Detach()` of that transport then finds no listener and returns
early (`posix-event-queue.cc:72`), although its delegate is still queued: what was
queued, `OnReadReady()` and `OnHangup()` among it, still reaches the listener after
`Detach()` returned. "It is safe to deregister a transport multiple times"
(`amio-posix.h:207`) is true in that nothing breaks. `DetachSilences` asks for silence
after `Detach()` of every delegate but one whose hangup was queued before.
`OnChangeEvents()` clears the events that are still wanted
and keeps the others (`posix-event-queue.cc:202`), so an event no longer asked for
may be delivered. `NewsKept` therefore says nothing of reports that any change of the
events overtakes: it is about detaches, attachments and listeners, not about that mask.
The same comment of `amio-posix.h` says that a `Read()` that returns `Ended` detaches;
no code does, and no property is about it. `Loop()` polls again after a wakeup without
having dispatched what the same poll reported (`posix-event-loop.cc:100`): a level-triggered transport is
reported again (`LevelServed`), an edge-triggered one waits until something else
ends a poll.

*Networking.* On an event queue a `ConnectOp` may be called after it has finished,
with a null `conn_`: `CallsSound` allows `crashed` only there. `Cancel()` of a
finished operation uses the null connection as well. `connect()`'s error is never
examined: a refused connection is told as a hangup whose own error is dropped.
A fatal error of the server leaves it open. `Operation::Cancel()` promises "If the
operation has already completed, it will still fire an OnConnect event. Otherwise, no
callbacks will fire" (`amio-net.h:337-339`). The code keeps only the second sentence:
`Cancel()` (`posix-net.cc:214`) closes the transport whether or not the connection was
made, and the detach drops the report that is to come or that the queue keeps, so that
nobody is ever told. `tooLate` has the operations cancelled like that, `CallsSound` asks
for silence of the others only, and the theorem `CancelSilences` states what the code
does for all. With `c \in tooLate ~> told[c] = <<"OnConnect">> \/ Stopped` as a property
of `networking`, TLC shows the difference in a few steps.

*Windows.* `Cancel()` breaks the same promise of `amio-net.h:337-339` here: when the
kernel has completed the connection and its packet is in the port or in a batch,
`cancel_locked()` still marks the context, `Dispatch()` discards the packet
(`windows-iocp.cc:168`) and nobody is told. `cancelled` is set only when the kernel still
had the request, and `ToldOnce` asks for silence only then.
`link()` and `unlink()` outside of `Post()` take no lock: the models rely, as
the code does, on nobody using one context in two requests at a time.
`SocketTransport` takes success for failure (`windows-socket.cc:132`,
`:171`); the model ends there. The early return of `Dispatch()` for a closed or
cancelled transport keeps the context's reference (contrary to
`windows-iocp.cc:140`), as do a file's end without immediate delivery and a failed
socket call: `OutstandingHeld` asks that references do not go too early, not that
all go. With immediate delivery the kernel may skip the packet of an `AcceptEx()` or
`ConnectEx()` (contrary to `windows-net.cc:394`), and accepting ends.
`RequireImmediateDelivery()` after `EnableImmediateDelivery()` changes nothing. Two
posting threads in `Signal()` may post a null context (`aborted`), and a message
that cannot be posted loses the wakeup (`"unsent"`).

## Proofs

TLAPS checks all of the following for every value of the constants that satisfies
the named assumptions (no bound on tasks, threads, transports, slots or buffers).

*TaskQueueProofs.* `TypeCorrect`, whose `count <= limit` is not inductive, and
`LimitKept`: both rest on `LimitInv`, that a call with a limit that goes on has
room for the task it runs, and that its count is of the tasks that have run;
`TasksOwnedOnce`, inductive together with type correctness; `RefinesFifo`, a step
simulation from `TaskQueue` to `FifoTasks` with `work \o incoming` for the queue,
which needs that a task is on the stack exactly in `Run()` (`RunningOnStack`), and
lemmas on `\o`, `Head` and `Tail`. `StopsAreHeeded` and `ReturnsTell` rest on
`StopInv`: a stop that was asked for and not lost is in its flag for as long as the
call goes on, is not due when the next task may start, and a call in `Run()` has
counted a task.

*EpollPollerProofs.* `EpollTypeCorrect`, `SlotTableSound`, `EntriesStayLive`,
`NeverCrashesAlone`. Neither `SlotTable` nor `EntriesLive` is inductive. The
inductive invariant is

    TypeOK /\ TableInv /\ DispatchInv

`TableInv` adds to `SlotTable` that every slot in use is remembered by its
transport: without it a detach could empty another's slot. `DispatchInv` says that
an entry is *good*, for the transport that has the slot, or its slot is marked:
between `epoll_wait()` and the dispatch all entries are good, since on one thread
nothing intervenes; each later step either leaves an attached transport's slot
alone or marks it (`MarksWhatItChanges`), so good entries stay good or become
marked. The argument fails with thread safety exactly where `epoll_threads` finds
its counterexample: marks made before `BeginDispatch` are wiped.
`FlagsTellInterest` and `BorrowedStayOpen` rest on `FlagsInv`: `attach_locked()` adds
to `flags_`, so a transport never used must have no event there, and a borrowed one
keeps the bit it was made with until a detach drops it.

`EpollRefinesDispatcher`, in the same module: on one thread each step of
`EpollPoller` is a step of `IODispatcher` or a stutter. What the abstract dispatcher
has still to pass on is the *live* entries: all of them until the lock is taken,
then those whose slot is unmarked. Invariant:

    TypeOK /\ TableInv /\ DispatchInv /\ ReportInv

`ReportInv` adds that there is one entry for a transport, so that no condition is
told twice, that at most one entry is in hand, that no entry is empty, and that what a live entry
reports is still asked for unless `flags_` and the kernel agree (`EntryAsked`). The
last is what makes the test of `flags_` in `handleEvent()` enough also for a transport
that was attached again, where `flags_` may hold events that nobody asked for. A detach
kills exactly the live entries of its transport and an attach none, because live entries
own their slots.

*PollerTableProofs, PollerProofs.* `TypesHold`, `TablesAreSound` and
`EntriesAreCurrent`, of the specification of `MCPollers`, so of each of the five
backends, for any descriptors, conditions, modes and events. What a step of any of
them does to the table is one of six effects (`TableStep`: a slot taken, given back,
or taken and given back at once by an attach that fails; a descriptor entering or
leaving a table that it is the index of, with the watermark of select; nothing). The
first module shows once that these effects keep

    TableInv /\ Types /\ EntriesInv /\ InterestInv

and the second that every step of every backend has one of them. `TableInv` adds to
`SlotsSound` the same as for epoll, and says without a cardinality that no slot is
free twice; that the next watermark is the highest descriptor left needs that a
finite set of numbers has a greatest. `EntriesInv` says that each entry is marked or
still about its registration, that nothing is reported while no poll goes on, and,
of the entry at hand, which poll() knows by its transport and ports by their slot,
that it too is marked or in place: else the detach that precedes a hangup might be of
a transport that is not attached. `InterestInv` is what makes the reports themselves
sound: select() is asked for nothing of a descriptor that is not attached, and a port
keeps associations only of transports that once had a slot.

`InterestsAgree` needs one part more, `AgreeInv`, which is about what the table proofs
leave out: the bits of `flags_` and of the kernel. For poll, select, kqueue and
/dev/poll they are equal from step to step for a transport that was never detached
(for kqueue any), and a transport that is not attached has no event bit, since
`attach_locked()` adds to `flags_`. For a port that is false in the middle of a
dispatch, as an event ends the association. Then the transport is *returning*, its
event in hand and not armed, so that `Poll()` will have it associated again before it
takes the next entry, or *queued*, with an entry to come that asks for nothing
`flags_` does not know of. It takes the transport's slot to be unmarked, else the
entry would be passed over and the association never renewed.

`PollersRefineDispatcher`, on one thread: each step of each of the five is a step of
`IODispatcher` or a stutter. Again the work is divided. The first module names what a
step may tell (`Acts`): users alter, begin or finish a registration; a system call
brings entries; an entry is passed over, announced to a listener, whole or in part, or
ends in a hangup; a call returns, a dispatch ends. It shows once that acts keep

    ReportInv: a call is under way only within a dispatch; at most one entry is at hand;
               no condition of a transport is in two entries; an entry has only what its
               backend reports; what is attached is open

and that each act is a step of `IODispatcher` (`ActsSimulated`); the second module, that
every step of every backend is an act. What the dispatcher has still to pass on is what
the entries about *dispatched* transports say, those attached and not since this
dispatch began, with a hangup where the backend may find one by itself (`MayFail`). So
an attach takes nothing from what is left and adds nothing, and a detach takes just its
transport's. `AgreeInv` is used for one thing: that what the system call reports of an
attached transport is in `flags_`. The proof found the mapping wrong as it stood, for a
transport attached again in another mode (see above); the run now does that.

*EventQueueProofs.* `QueueTypeCorrect`, `DelegatesQueuedOnce`, `DelegateListSound`,
`NeverCallsNull`, `ReportsKept`, `SilentAfterDetach`. None is inductive, and they rest
on one another, so one invariant has them all:

    TypeOK /\ ThreadInv /\ ListInv /\ PollerInv /\ FreshInv /\ QueueInv /\ NewsInv

A delegate is in the list exactly while its pointers are set (`ListInv`); the poller
calls it until it is removed or its `events_` say farewell, and no longer
(`PollerInv`); one the poller has let go of is queued or running (`QueueInv`), which
is why it is removed in the end and its transport's next delegate can be told apart;
one whose transport was given to `Detach()` is removed or has such a farewell in
`events_` (`ListInv`), a hangup or a detach, and the latter is passed on to nobody, so
that `SilentAfterDetach` leaves only what was queued with a hangup;
what was reported is in `events_` of a delegate that will run, or of the one running
that has not come to it (`NewsInv`).

*EventLoopProofs.* `LoopTypeCorrect`, where type correctness needs that `running`
is a task while tasks run, and `NoWakeupIsLost`. The invariant `WakeupInv` accounts
for every quit: a byte, a thread about to write one, a wakeup just received and not
yet tested, or a loop that is about to test; and for tasks posted after
`ProcessNextTask()` found none. It rests on `CapacityAssumption`: with room for no
byte at all a full pipe would say nothing.

*NetworkingProofs.* `NetworkingTypes`, `DescriptorsAreOwned`, `CallsAreSound`,
`CancelSilences`, for any number of clients, over a poller and over an event queue. One invariant has them all:

    TypeOK /\ SocketInv /\ ClientInv /\ CallInv /\ ServerInv /\ PollerInv

`SocketInv`: a descriptor that was never made is known to nobody, a hangup is kept
only for a transport that was detached for it, and only a queue keeps reports.
`ClientInv`: an operation that an attached transport holds is pending, and a pending
one has told nothing, unless it is within that very call; so there is one outcome, and
none after a cancellation, in time or not (`CancelSilences`; `CallsSound` asks less). `CallInv`: what the thread is in the middle of. `ServerInv`:
after a fatal error the server is detached and nothing is kept for it, so its listener
is not called again. `PollerInv`: a poller calls about one event at a time, so nobody
detaches between report and call; this is what an event queue does not give, and why
`CallsSound` allows `crashed` there. `NamesReadBack` shows `AddressesReadBack` for any
hosts and ports: that a port never has brackets or colons, nor an IPv4 host a colon
(`PortsAssumption`, `NamesAssumption`, `HostsAssumption`), makes the first colon, or
the first bracket that closes, the place that `ToString()` joined.

*WindowsProofs.* `WindowsTypes`, `OutstandingIsHeld`, `NetworkingIsSound`,
`LoopIsWoken`, for any number of threads that poll and that make requests, any
contexts, transports and batch size. What is outstanding is a number, `Outstanding(S)`:
of the packets in the set `S`, how many the kernel, the port, the polling threads and
the requesting ones have, four cardinalities in all. The proofs start from what each
step of the port does to that number for *every* `S`: it keeps it, or a packet is
gained (a link) or lost (an unlink, a dispatch). In particular a dequeue of many
packets keeps it, as they only change hands. Then

    PortInv: a context without a request is nowhere and not referenced; a posted one is
             in as many places as its count and its references say; any other in one at
             most, with one reference; a transport has a reference for each of its
             packets; messages are for listeners and all else for transports

is kept by every step of the port, whichever program makes it, until a socket
misreports. `OutstandingHeld` alone is not inductive: that `Unlink()` and `Take()` drop
the last reference only of what is nowhere else needs the exact counts, and that a
packet at the head of a batch finds its request needs that messages and requests are
never mixed in one context. On it rest the invariants of the programs. *Users*: what a
user waits for of a context is in flight or about to be linked (`UsersInv`), so that a
context given back is free. *Event loop*: only the Wakeup's context is ever used, and a
null `context_`, or a loop that polls with something to do, means that a message is in
flight, about to be told, or was missed (`Wakes`). *Server and client* (`NetInv`): every
packet is of the server or of the client's one context; an open server has as many
requests under way as it should, where a thread from the dispatch of a connection until
`AcceptEx()` counts as one about to be made (`Accepting`), and a server not created yet
has none; a context in the pool, or in hand in `OnCompleted()`, has no request and is
in no second place, so `getContext()` never gives one out twice; and a connection that
was told of, or whose creation failed, has no packet to come. That `Cancel()`
silences the operation needs that a cancelled request keeps its context until its packet
is discarded.

Assumptions are those named in the modules: distinct sentinels, a null transport that
is no transport (`NullAssumption`), sets that are subsets of others, finite sets of
transports and of threads, a pipe with room for a byte, users' threads that do not poll
(`ThreadsAssumption`), and those about the text of addresses.

*Only model-checked:* everything temporal beyond safety (`EventsDelivered`,
`HangupDelivered`, `TasksRun`, `QuitObeyed`, `LevelServed`, `Served`), since liveness
under fairness and `ENABLED` are beyond the prover. Every other property of a passing
run is a theorem. No module that is proved about uses a `RECURSIVE` operator.

## Plan

1. *Done:* task queue, epoll and the five other pollers, event queue, event loop,
   networking, completion port and what is built on it; the proofs above.
2. Thread safety of the other pollers: the copied buffer of poll, the watermark of
   select, with the gap that `epoll_threads` shows for epoll; then `Close()` in two
   steps.
3. `Shutdown()` in a listener, of the pollers and of the event queue; `Shutdown()` of
   the POSIX event loop against a `PostTask()` that is under way.
4. Composition: the POSIX event loop over `EventQueue` and the dispatcher's contract
   rather than over sequences.
5. Proofs for what 2 to 4 add, on the invariants above.

## Not modelled

- *More than one thread in the pollers other than epoll*, and with it the copies of
  their interest sets and tables; /dev/poll's descriptors beyond its first table.
- *Sizes*: the growth of poll buffers (`shared-pollbuf.h`) decides how many events a
  batch has, not which; a batch may have any here.
- *Allocation failures* other than in `Deque::append`.
- `Shutdown()` or a nested dispatch inside a listener; `Shutdown()` of the POSIX event
  loop; `WaitAndDiscardPendingEvents()`, which finds nothing to wait for; transports
  moved from one poller to another, which the header calls illegal; `OnChangeProxy()`.
- *Of addresses*: `AnyAddress()`, copies, casts, byte order (`Port()` returns network
  order), and the addresses a connection reports, which no control depends on.
- *No state*: creation of pipes and sockets, wording of errors, clocks and the length
  of timeouts, contents of buffers, the choice of a default poller, the probe for
  service providers of Windows.
- Tests, build files and vendored code.
