------------------------------ MODULE Networking ------------------------------
(***************************************************************************)
(* Clients and a server (posix/posix-net.cc): Client::Create() and its     *)
(* ConnectOp, ConnectTo(), CreateSocket(), and PosixServer with its accept *)
(* loop, on one thread, over a dispatcher.                                 *)
(*                                                                         *)
(* The dispatcher is what IODispatcher promises, cut down to what these    *)
(* listeners see of it.  A poller calls at once what it reports; an event  *)
(* queue (viaQueue) keeps reports and calls later, and between the two the *)
(* user may do anything.  The queue keeps to EventQueue: a detach drops    *)
(* what is kept, unless a hangup has detached the transport already.       *)
(*                                                                         *)
(* The kernel is external: connections it completes wait in the backlog,   *)
(* or are refused.  A client not meant for this server is one of them that *)
(* the server accepts early or that is refused.                            *)
(***************************************************************************)
EXTENDS NetAddress, FiniteSets

CONSTANTS
  Clients,        \* client sockets
  Server,         \* the listening socket
  None,
  Ways,           \* [Clients -> what users call to make the socket]
  FailureLimit    \* soft errors of accept() in one event; 10 in the code

Sockets == Clients \cup {Server}

ASSUME ServerAssumption == Server \notin Clients /\ None \notin Sockets \cup {"op", "user", "server"}
ASSUME WaysAssumption == Ways \in [Clients -> SUBSET {"Create", "ConnectTo", "CreateSocket"}]
ASSUME LimitAssumption == FailureLimit \in Nat \ {0}

VARIABLES
  viaQueue,       \* the dispatcher is an event queue
  fd,             \* descriptor of each socket
  attached,       \* transports whose poller_ is set
  listener,       \* listener_ or forward_: "op", "user", "server"
  pending,        \* events_ of each delegate of the queue
  pc, cur, todo,  \* where the thread is: the socket it is called about, the
                  \*   events that this is still to be done for
  \* clients
  op,             \* the ConnectOp: "none", "pending", or "done" once conn_ is null
  held,           \* clients that keep a reference to result.operation
  told,           \* history: what the user was given or told, in order
  cancelled,      \* history: cancelled before anything was told
  tooLate,        \* history: those of them that were connected by then
  \* the server
  closing,        \* closing_
  failures,       \* of the accept loop
  fatal,          \* history: OnError(Fatal) was called
  lateCall,       \* history: the listener was called when it must not be
  \* the kernel
  sock,           \* state of each client's connection
  backlog,        \* connections waiting to be accepted
  arrived         \* edge-triggered: one came since the last report

clientVars == <<op, held, told, cancelled, tooLate>>
serverVars == <<closing, failures, fatal, lateCall>>
kernelVars == <<sock, backlog, arrived>>
transportVars == <<fd, attached, listener, pending>>
callVars   == <<pc, cur, todo>>
vars == <<viaQueue, transportVars, callVars, clientVars, serverVars, kernelVars>>

Init ==
  /\ viaQueue \in BOOLEAN
  /\ fd = [s \in Sockets |-> "none"]
  /\ attached = {} /\ listener = [s \in Sockets |-> None]
  /\ pending = [s \in Sockets |-> {}] /\ pc = "idle" /\ cur = None /\ todo = {}
  /\ op = [c \in Clients |-> "none"] /\ held = {}
  /\ told = [c \in Clients |-> <<>>] /\ cancelled = {} /\ tooLate = {}
  /\ closing = FALSE /\ failures = 0
  /\ fatal = FALSE /\ lateCall = FALSE
  /\ sock = [c \in Clients |-> "new"] /\ backlog = {} /\ arrived = FALSE

InListener == {"inConnect", "inAccept", "inSoftError", "inError"}
UserMay == pc \in {"idle"} \cup InListener

Stopped == pc \in {"crashed", "misused"}

Listening == fd[Server] = "open"

----------------------------------------------------------------------------
(* Pieces of the operations.                                               *)

\* PosixTransport::Close(): a detach first, if there is a poller.
ClosesFirst(s) ==                                  \* fault: no detach
  fd' = [fd EXCEPT ![s] = "closed"] /\ UNCHANGED <<attached, listener, pending>>
CloseTransport(s) ==
  /\ fd' = [fd EXCEPT ![s] = "closed"]
  /\ attached' = attached \ {s}
  /\ IF s \in attached
       THEN /\ listener' = [listener EXCEPT ![s] = None]
            /\ pending' = [pending EXCEPT ![s] = {}]
       ELSE UNCHANGED <<listener, pending>>

\* Attach() of a socket just made.
AttachNew(s, who) ==
  /\ attached' = attached \cup {s}
  /\ listener' = [listener EXCEPT ![s] = who]
  /\ fd' = [fd EXCEPT ![s] = "open"]

Tell(c, what) == told' = [told EXCEPT ![c] = Append(@, what)]

\* The mode that a server is attached with.
EdgeMode == "Edge"                                 \* fault: as clients may be
ServerMode == "Level"

\* The kernel completes a connection.
Arrives(c) == backlog' = backlog \cup {c} /\ arrived' = (ServerMode = "Edge")

----------------------------------------------------------------------------
(* Client::Create(), ConnectTo(), CreateSocket().                          *)

\* connect() succeeds at once, is in progress, or fails, which Create() takes
\* for being in progress.
AtOnce(c) ==
  /\ Listening /\ sock' = [sock EXCEPT ![c] = "connected"] /\ Arrives(c)
  /\ AttachNew(c, "user")
  /\ Tell(c, "connection")
  /\ UNCHANGED <<op, held>>

Started(c, state) ==
  /\ sock' = [sock EXCEPT ![c] = state]
  /\ AttachNew(c, "op")
  /\ op' = [op EXCEPT ![c] = "pending"]
  /\ held' \in {held, held \cup {c}}
  /\ UNCHANGED <<told, backlog, arrived>>

Create(c, family, protocol) ==
  /\ UserMay /\ "Create" \in Ways[c] /\ fd[c] = "none" /\ SocketSupported(family, protocol)
  /\ AtOnce(c) \/ Started(c, "connecting") \/ Started(c, "unconnected")
  /\ UNCHANGED <<viaQueue, pending, callVars, cancelled, tooLate, serverVars>>

\* Setup() or Attach() fails, or connect() in ConnectTo(), or bind(): the last
\* reference goes with the function, and the socket with it.
CreateFails(c, family, protocol) ==
  /\ UserMay /\ fd[c] = "none" /\ SocketSupported(family, protocol)
  /\ fd' = [fd EXCEPT ![c] = "closed"]
  /\ UNCHANGED <<viaQueue, attached, listener, pending, callVars, clientVars, serverVars,
                 kernelVars>>

ConnectTo(c, family, protocol) ==
  /\ UserMay /\ "ConnectTo" \in Ways[c] /\ fd[c] = "none" /\ SocketSupported(family, protocol)
  /\ Listening /\ sock' = [sock EXCEPT ![c] = "connected"] /\ Arrives(c)
  /\ fd' = [fd EXCEPT ![c] = "open"]
  /\ Tell(c, "connection")
  /\ UNCHANGED <<viaQueue, attached, listener, pending, callVars, op, held, cancelled,
                 tooLate, serverVars>>

\* Bound or not.
CreateSocket(c, family, protocol) ==
  /\ UserMay /\ "CreateSocket" \in Ways[c] /\ fd[c] = "none" /\ SocketSupported(family, protocol)
  /\ fd' = [fd EXCEPT ![c] = "open"]
  /\ Tell(c, "socket")
  /\ UNCHANGED <<viaQueue, attached, listener, pending, callVars, op, held, cancelled,
                 tooLate, serverVars, kernelVars>>

\* The user closes what was given.
CloseConnection(c) ==
  /\ UserMay /\ fd[c] = "open" /\ told[c] # <<>>
  /\ CloseTransport(c)
  /\ UNCHANGED <<viaQueue, callVars, clientVars, serverVars, kernelVars>>

----------------------------------------------------------------------------
(* ConnectOp.                                                              *)

Finish(c) == op' = [op EXCEPT ![c] = "done"]

\* Called through a null pointer, or on an object that is gone.
Crash == pc' = "crashed" /\ UNCHANGED <<transportVars, clientVars>>

\* A poller holds the listener it calls; a delegate does not, so that the
\* operation goes with forward_, unless the user has kept it.
SurvivesDetach(c) == ~viaQueue \/ c \in held

\* The kernel has made the connection, whether or not anybody was told.
Established(c) == sock[c] \in {"connected", "reset"}

\* Cancel(): Close(), Finish().  Neither looks whether Finish() was here before,
\* nor whether the connection was made: the report that is to come, or is kept in
\* the queue, goes with the detach.
Cancel(c) ==
  /\ UserMay /\ c \in held
  /\ IF op[c] = "done"
       THEN pc' = "misused" /\ UNCHANGED <<transportVars, clientVars>>
       ELSE /\ CloseTransport(c)
            /\ Finish(c)
            /\ cancelled' = cancelled \cup {d \in {c} : told[d] = <<>>}
            /\ tooLate' = tooLate \cup {d \in {c} : told[d] = <<>> /\ Established(d)}
            /\ UNCHANGED <<pc, held, told>>
  /\ UNCHANGED <<viaQueue, cur, todo, serverVars, kernelVars>>

\* reportError(), up to the call of the user.
KeepsConnection(c) ==                              \* fault: no Close()
  /\ UNCHANGED <<transportVars, op, held, cancelled, tooLate>>
  /\ Tell(c, "OnConnectFailed") /\ pc' = "inConnect"
ReportError(c) ==
  IF c \in attached /\ ~SurvivesDetach(c)
    THEN Crash
    ELSE /\ CloseTransport(c)
         /\ Tell(c, "OnConnectFailed") /\ pc' = "inConnect"
         /\ UNCHANGED <<op, held, cancelled, tooLate>>

\* ChangeEvents() on the poller, changeListener(), and the user is called.
Succeed(c) ==
  IF c \notin attached \/ ~SurvivesDetach(c)
    THEN Crash
    ELSE /\ listener' = [listener EXCEPT ![c] = "user"]
         /\ Tell(c, "OnConnect") /\ pc' = "inConnect"
         /\ UNCHANGED <<fd, attached, pending, op, held, cancelled, tooLate>>

\* The call of who's listener for the event; a hangup comes last.
Calling(who, event) ==
  /\ pc = "run" /\ cur \in DOMAIN listener /\ listener[cur] = who /\ event \in todo
  /\ event = "hangup" => todo = {"hangup"}
  /\ todo' = todo \ {event}

HasError(c) == sock[c] \in {"refused", "reset"}    \* SO_ERROR

OnWriteReady ==
  /\ Calling("op", "ready")
  /\ IF op[cur] = "done" THEN Crash
     ELSE \/ HasError(cur) /\ ReportError(cur)
          \/ ~HasError(cur) /\ Succeed(cur)
          \/ ~HasError(cur) /\ cur \in attached /\ ReportError(cur)  \* ChangeEvents() failed
  /\ UNCHANGED <<viaQueue, cur, serverVars, kernelVars>>

OnHangup ==
  /\ Calling("op", "hangup")
  /\ IF op[cur] = "done" THEN Crash ELSE ReportError(cur)
  /\ UNCHANGED <<viaQueue, cur, serverVars, kernelVars>>

\* OnConnect() or OnConnectFailed() returns.
ConnectTold ==
  /\ pc = "inConnect"
  /\ Finish(cur)
  /\ pc' = "run"
  /\ UNCHANGED <<viaQueue, transportVars, cur, todo, held, told, cancelled, tooLate,
                 serverVars, kernelVars>>

----------------------------------------------------------------------------
(* PosixServer.                                                            *)

\* Server::Create(), which gives up the socket when a step fails.
CreateServer(family, protocol) ==
  /\ UserMay /\ fd[Server] = "none"
  /\ protocol \in {"TCP", "Stream"} /\ SocketSupported(family, protocol)
  /\ AttachNew(Server, "server")
  /\ UNCHANGED <<viaQueue, pending, callVars, clientVars, serverVars, kernelVars>>

\* Close(), and the connections that nobody accepted are reset.
Close ==
  IF closing THEN UNCHANGED <<transportVars, closing, sock, backlog>>
  ELSE /\ CloseTransport(Server)
       /\ closing' = TRUE
       /\ sock' = [c \in Clients |-> IF c \in backlog THEN "reset" ELSE sock[c]]
       /\ backlog' = {}

UserCloses ==
  /\ UserMay /\ fd[Server] = "open"
  /\ Close
  /\ UNCHANGED <<viaQueue, callVars, clientVars, failures, fatal, lateCall, arrived>>

OnReadReady ==
  /\ Calling("server", "ready")
  /\ pc' = "accepting" /\ failures' = 0
  /\ UNCHANGED <<viaQueue, transportVars, cur, clientVars, closing, fatal, lateCall,
                 kernelVars>>

\* The listener is called: never again once it was told of a fatal error.
Calls(where) == pc' = where /\ lateCall' = (lateCall \/ fatal)

\* accept() gives a connection, which is handed over or, when it cannot be set
\* up, dropped with a warning.
AcceptOne(c) ==
  /\ pc = "accepting" /\ failures < FailureLimit /\ Listening /\ c \in backlog
  /\ backlog' = backlog \ {c}
  /\ \/ /\ pc' = "inAccept"
        /\ lateCall' = (lateCall \/ fatal \/ closing) /\ UNCHANGED sock
     \/ Calls("inError") /\ sock' = [sock EXCEPT ![c] = "reset"]
  /\ UNCHANGED <<viaQueue, transportVars, cur, todo, clientVars, closing, failures, fatal,
                 arrived>>

\* ENETDOWN and its like.
AcceptSoftError ==
  /\ pc = "accepting" /\ failures < FailureLimit /\ Listening
  /\ failures' = failures + 1
  /\ Calls("inSoftError")
  /\ UNCHANGED <<viaQueue, transportVars, cur, todo, clientVars, closing, fatal, kernelVars>>

\* EMFILE and its like, or an unknown error; the listener is told how severe it is.
AcceptError ==
  /\ pc = "accepting" /\ failures < FailureLimit /\ Listening
  /\ Calls("inError")
  /\ UNCHANGED <<viaQueue, transportVars, cur, todo, clientVars, closing, failures, fatal,
                 kernelVars>>

\* EINVAL, or EBADF of a server that its listener has closed.
JustReports ==                                     \* fault: no Close()
  UNCHANGED <<transportVars, closing, sock, backlog>>
CloseForGood == Close

AcceptFatal ==
  /\ pc = "accepting" /\ failures < FailureLimit
  /\ CloseForGood
  /\ Calls("inError") /\ fatal' = TRUE
  /\ UNCHANGED <<viaQueue, cur, todo, clientVars, failures, arrived>>

\* EAGAIN, or enough soft errors.
AcceptNothing ==
  /\ pc = "accepting"
  /\ (failures < FailureLimit => Listening /\ backlog = {})
  /\ pc' = "run"
  /\ UNCHANGED <<viaQueue, transportVars, cur, todo, clientVars, serverVars, kernelVars>>

\* Accept() returns Again or DeferNext; after OnError() it depends on the error.
ListenerReturns ==
  /\ \/ pc = "inAccept" /\ pc' \in {"accepting", "run"}
     \/ pc = "inSoftError" /\ pc' = "accepting"
     \/ pc = "inError" /\ pc' = "run"
  /\ UNCHANGED <<viaQueue, transportVars, cur, todo, clientVars, serverVars, kernelVars>>

\* PosixServer::OnHangup().
ServerHangup ==
  /\ Calling("server", "hangup")
  /\ IF closing THEN pc' = "run" /\ UNCHANGED <<fatal, lateCall>>
                ELSE Calls("inError") /\ fatal' = TRUE
  /\ UNCHANGED <<viaQueue, transportVars, cur, clientVars, closing, failures, kernelVars>>

----------------------------------------------------------------------------
(* The dispatcher.                                                         *)

HangsUp(s) == IF s = Server THEN TRUE ELSE sock[s] \in {"refused", "unconnected", "reset"}
IsReady(s) ==
  IF s = Server THEN backlog # {} /\ (ServerMode = "Level" \/ arrived)
                ELSE sock[s] \notin {"new", "connecting"}

\* The poller reports; a hangup detaches.
Report(s, event) ==
  /\ pc = "idle" /\ s \in attached /\ listener[s] # "user"
  /\ IF event = "ready" THEN IsReady(s) ELSE HangsUp(s)
  /\ attached' = IF event = "hangup" THEN attached \ {s} ELSE attached
  /\ arrived' = IF s = Server THEN FALSE ELSE arrived
  /\ IF viaQueue
       THEN /\ pending' = [pending EXCEPT ![s] = @ \cup {event}]
            /\ UNCHANGED <<callVars>>
       ELSE pc' = "run" /\ cur' = s /\ todo' = {event} /\ UNCHANGED pending
  /\ UNCHANGED <<viaQueue, fd, listener, clientVars, serverVars, sock, backlog>>

ReportReady(s)  == Report(s, "ready")
ReportHangup(s) == Report(s, "hangup")

\* The queue dispatches.
DispatchNextEvent(s) ==
  /\ pc = "idle" /\ pending[s] # {}
  /\ pc' = "run" /\ cur' = s
  /\ todo' = pending[s] /\ pending' = [pending EXCEPT ![s] = {}]
  /\ UNCHANGED <<viaQueue, fd, attached, listener, clientVars, serverVars, kernelVars>>

\* Nothing is left to do, or whom to tell: who hung up is forgotten.
EndCall ==
  /\ pc = "run"
  /\ todo = {} \/ listener[cur] \in {None, "user"}
  /\ pc' = "idle" /\ cur' = None /\ todo' = {} /\ failures' = 0
  /\ listener' = IF cur \in attached THEN listener ELSE [listener EXCEPT ![cur] = None]
  /\ UNCHANGED <<viaQueue, fd, attached, pending, clientVars, closing, fatal, lateCall,
                 kernelVars>>

----------------------------------------------------------------------------
(* The kernel.                                                             *)

Completes(c) ==
  /\ ~Stopped /\ sock[c] = "connecting" /\ op[c] = "pending"
  /\ \/ Listening /\ sock' = [sock EXCEPT ![c] = "connected"] /\ Arrives(c)
     \/ sock' = [sock EXCEPT ![c] = "refused"] /\ UNCHANGED <<backlog, arrived>>
  /\ UNCHANGED <<viaQueue, transportVars, callVars, clientVars, serverVars>>

PeerResets(c) ==
  /\ ~Stopped /\ sock[c] = "connected" /\ op[c] = "pending"
  /\ sock' = [sock EXCEPT ![c] = "reset"]
  /\ UNCHANGED <<viaQueue, transportVars, callVars, clientVars, serverVars, backlog,
                 arrived>>

----------------------------------------------------------------------------

User ==
  \/ \E c \in Clients, family \in Families, protocol \in Protocols :
       \/ Create(c, family, protocol) \/ CreateFails(c, family, protocol)
       \/ ConnectTo(c, family, protocol) \/ CreateSocket(c, family, protocol)
  \/ \E c \in Clients : CloseConnection(c) \/ Cancel(c)
  \/ \E family \in Families, protocol \in Protocols : CreateServer(family, protocol)
  \/ UserCloses

Handlers ==
  \/ OnWriteReady \/ OnHangup \/ ConnectTold
  \/ OnReadReady \/ AcceptSoftError \/ AcceptError \/ AcceptFatal \/ AcceptNothing
  \/ \E c \in Clients : AcceptOne(c)
  \/ ListenerReturns \/ ServerHangup
  \/ EndCall

Next ==
  \/ User
  \/ Handlers
  \/ \E s \in Sockets : ReportReady(s) \/ ReportHangup(s) \/ DispatchNextEvent(s)
  \/ \E c \in Clients : Completes(c) \/ PeerResets(c)

Spec == Init /\ [][Next]_vars

Connectors == {c \in Clients : "Create" \in Ways[c]}

\* The user keeps polling, and dispatching if there is a queue; listeners return;
\* a poller gets round to every descriptor; connections are completed or refused,
\* and accept() does not fail for ever on one that waits.
Fairness ==
  /\ WF_vars(Handlers)
  /\ \A c \in Connectors : WF_vars(Completes(c))
  /\ \A s \in Connectors \cup {Server} : SF_vars(ReportReady(s)) /\ SF_vars(DispatchNextEvent(s))
  /\ \A c \in Clients : SF_vars(AcceptOne(c))
FairSpec == Spec /\ Fairness

----------------------------------------------------------------------------
(* Properties.                                                             *)

TypeOK ==
  /\ viaQueue \in BOOLEAN
  /\ fd \in [Sockets -> {"none", "open", "closed"}]
  /\ attached \subseteq {s \in Sockets : fd[s] = "open"}
  /\ listener \in [Sockets -> {None, "op", "user", "server"}]
  /\ pending \in [Sockets -> SUBSET {"ready", "hangup"}] /\ todo \subseteq {"ready", "hangup"}
  /\ pc \in {"idle", "run", "accepting", "crashed", "misused"} \cup InListener
  /\ cur \in Sockets \cup {None}
  /\ op \in [Clients -> {"none", "pending", "done"}]
  /\ held \subseteq Clients /\ cancelled \subseteq Clients /\ tooLate \subseteq cancelled
  /\ told \in [Clients -> Seq({"connection", "socket", "OnConnect", "OnConnectFailed"})]
  /\ closing \in BOOLEAN /\ fatal \in BOOLEAN /\ lateCall \in BOOLEAN /\ arrived \in BOOLEAN
  /\ failures \in 0 .. FailureLimit
  /\ sock \in [Clients -> {"new", "connecting", "connected", "unconnected", "refused", "reset"}]
  /\ backlog \subseteq Clients

\* No descriptor and no operation is left behind: a client's socket is open only
\* while its operation is under way or after it was given to the user, and a
\* poller that still holds an operation holds one that will finish, so that the
\* cycle of conn_ and listener_ is broken.  A server that closes is detached.
Latest(seq) == seq[Len(seq)]
Given(c) == told[c] # <<>> /\ Latest(told[c]) # "OnConnectFailed"

DescriptorsOwned ==
  pc = "idle" =>
    /\ \A c \in Clients : fd[c] = "open" => op[c] = "pending" \/ Given(c)
    /\ \A c \in attached \cap Clients : listener[c] = "op" => op[c] = "pending"
    /\ closing => fd[Server] = "closed" /\ Server \notin attached

\* amio-net.h:371, "unless cancelled, OnConnect or OnConnectFailed will fire":
\* one of them and once, or neither after a Cancel() that comes before the
\* connection is made.  amio-net.h:337-339: "If the operation has already
\* completed, it will still fire an OnConnect event.  Otherwise, no callbacks will
\* fire."  Only the second sentence is asked for here.  The first is not what the
\* code does: who is tooLate is never told either (see README.md, and
\* CancelSilences in NetworkingProofs).  A listener told of a fatal error, "no more
\* connections will be received" (amio-net.h:283), is not called again, nor
\* Accept() after Close().  Over a poller, no call goes through conn_ or listener_
\* after Finish(); over an event queue it may.
OneOutcome(c) ==
  /\ Len(told[c]) <= 1
  /\ c \in cancelled \ tooLate => told[c] = <<>>
CallsSound ==
  /\ \A c \in Clients : OneOutcome(c)
  /\ ~lateCall
  /\ pc = "crashed" => viaQueue

\* Each connect operation comes to its end, and each connection in the backlog
\* is accepted, also when the listener defers the rest to the next Poll(), unless
\* the server is closed or broken.
Served ==
  /\ \A c \in Connectors : op[c] = "pending" ~> told[c] # <<>> \/ c \in cancelled \/ Stopped
  /\ \A c \in Clients : c \in backlog ~> c \notin backlog \/ fatal \/ Stopped

\* What ListenAddress() of a server prints resolves to that very address, for
\* every family and with or without a port.
AddressesReadBack ==
  Listening => \A a \in Addresses : Resolve(a.family, ToString(a)) = a
==============================================================================
