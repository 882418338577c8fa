------------------------------- MODULE Windows --------------------------------
(***************************************************************************)
(* The completion port under the programs that the repository writes for   *)
(* it: users of a transport and of messages, a server and a client, and    *)
(* the event loop.  Each program runs over a port of its own.              *)
(***************************************************************************)
EXTENDS WinNetworking, WinEventLoop

CONSTANTS
  UserContexts,       \* of the users' requests
  UserTransports,     \* each with a program of its own
  MessageLimit        \* bound: messages of a context at a time, in each such program

ASSUME MessageAssumption == MessageLimit \in [UserTransports -> Nat]
ASSUME UsersAssumption ==
  /\ UserTransports \subseteq Transports \ {"networking", "event loop"}
  /\ UserContexts \subseteq Contexts

VARIABLE program

vars == <<program, portVars, deliveryVars, userVars, netVars, loopVars>>

Programs == UserTransports \cup {"networking", "event loop"}

Init ==
  /\ PortInit /\ TransportInit /\ NetInit /\ LoopInit
  /\ program \in Programs

TransportsNext(t) ==
  \/ Attach(t) \/ CloseHandle(t) \/ ClearListener(t)
  \/ \E mode \in {"enabled", "required"} : EnableImmediateDelivery(mode)
  \/ \E u \in Users, c \in UserContexts, type \in {"Read", "Write"} : Start(u, c, t, type)
  \/ \E u \in Users, outcome \in {"pending", "done", "failed", "eof", "truncated"} :
       Issue(u, outcome)
  \/ \E u \in Users : Returns(u)
  \/ \E c \in UserContexts : Cancel(t, c)
  \/ \E u \in Users, c \in UserContexts, l \in Listeners :
       given[c] < MessageLimit[t] /\ UserPosts(u, c, l)
  \/ \E p \in Pollers : ListenerReturns(p) \/ Notified(p, "done")
  \/ /\ \/ \E u \in Users : LinkMessage(u) \/ Send(u) \/ SendFails(u)
        \/ \E p \in Pollers : PollOne(p) \/ Poll(p)
        \/ \E b \in busy : Completes(b)
     /\ UNCHANGED <<deliveryVars, userVars>>

RunsTransports ==
  program \in UserTransports /\ TransportsNext(program) /\ UNCHANGED <<program, netVars, loopVars>>
RunsNetworking == program = "networking" /\ NetNext /\ UNCHANGED <<program, loopVars>>
RunsEventLoop ==
  program = "event loop" /\ LoopNext /\ UNCHANGED <<program, deliveryVars, userVars, netVars>>

Next ==
  /\ ~aborted /\ ~misreported
  /\ RunsTransports \/ RunsNetworking \/ RunsEventLoop

Spec == Init /\ [][Next]_vars

----------------------------------------------------------------------------
(* Properties.                                                             *)

TypeOK ==
  /\ PortTypeOK /\ NetTypeOK /\ LoopTypeOK
  /\ program \in Programs
  /\ immediate \in {"off", "enabled", "required"}
  /\ flagged \subseteq skips /\ skips \subseteq Transports
  /\ given \in [Contexts -> Nat] /\ misreported \in BOOLEAN

\* A context and its transport are referenced for as long as the kernel, the
\* port or a poll has them, whoever unlinks, cancels or closes meanwhile (link()
\* before the system call, windows-file.cc:58); a context in the port for
\* messages is in it as often as its count says; one given back to the user has
\* no request and can be used again.  Of a socket, all that until it misreports.
\* The assertion of Dispatch() never fails before that.
Held(c) ==
  /\ refs[c] >= InFlight(c)
  /\ request[c] = "Message" => count[c] = InFlight(c) /\ refs[c] = count[c]
  /\ request[c] = "None" => InFlight(c) = 0 /\ refs[c] = 0
  /\ program \in UserTransports /\ given[c] = 0 => request[c] = "None"

OutstandingHeld ==
  ~misreported =>
    /\ \A c \in Contexts : Held(c)
    /\ \A t \in Transports : held[t] >= InFlightOn(t)
    /\ aborted => program = "event loop"

\* As long as the server is open, and has not told of a fatal error, exactly one
\* request of AcceptEx() is under way, or about to be, on whatever threads
\* OnCompleted() runs: "immediately enqueue another request"
\* (windows-net.cc:297).  Its pool has each context once, and none in use.
\* With immediate delivery the kernel may skip the packet, and accepting ends.
Replacing(th) ==
  \/ step[th] \in {"start", "failed"}
  \/ th \in Pollers /\ step[th] = "out" /\ InServer(th)

Serving == listener[Server] = "server" /\ Server \notin closed \cup skips /\ ~fatal

AcceptUnderWay ==
  /\ Serving =>
       InFlightOn(Server) + Cardinality({th \in Threads : Replacing(th)}) = 1
  /\ IsInjective(pool)
  /\ \A c \in ToSet(pool) : request[c] = "None" /\ refs[c] = 0 /\ InFlight(c) = 0

\* The operation of a client is told of once, and not at all when Cancel() found its
\* request with the kernel.  amio-net.h:337-339: "If the operation has already
\* completed, it will still fire an OnConnect event.  Otherwise, no callbacks will
\* fire."  Only the second sentence is asked for here.  The first is not what the
\* code does: when the packet is in the port or a batch, Dispatch() discards it
\* (windows-iocp.cc:168), and nobody is told (see README.md).
ToldOnce == Len(told) <= 1 /\ (cancelled => told = <<>>)

NetworkingSound == AcceptUnderWay /\ ToldOnce

\* Loop() does not sit in PollOne() with a task or a quit to see to, unless a
\* Signal() is under way, a message is in the port or could not be posted, or
\* Signal() has cleared the context that OnCompleted() had just put back.
Asleep == program = "event loop" /\ pc = "poll" /\ call[Main] = None /\ InFlight(WakeupContext) = 0

Neglected == Asleep /\ (queued > 0 \/ quit) /\ \A th \in Threads : signal[th] = "out"

LoopWoken == Neglected => missed # {}

\* "If the context is already in the completion port, then we'll always be able
\* to dequeue something" (windows-event-loop.cc:58), and it is when context_ is
\* null: unless Post() fails, the loop is never neglected.
LoopAlwaysWoken == Neglected => "unsent" \in missed
==============================================================================
