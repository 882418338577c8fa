---------------------------- MODULE WinNetworking -----------------------------
(***************************************************************************)
(* A server and a client of Windows (windows/windows-net.cc) over a        *)
(* completion port.                                                        *)
(*                                                                         *)
(* WinServer keeps one AcceptEx() request in the port: OnCompleted() makes *)
(* the next one before it hands over the connection of the last, with a    *)
(* context from its pool, to which the last one's is added after that.     *)
(* Several threads may be in OnCompleted() at once.  The client's          *)
(* ConnectOp has one ConnectEx() request, which may be cancelled.          *)
(*                                                                         *)
(* Both promise to be told of requests that succeed at once, which is so   *)
(* unless immediate delivery made the kernel skip the port.                *)
(***************************************************************************)
EXTENDS WinTransport

CONSTANTS Server, Client   \* their sockets

ASSUME SocketAssumption == Server # Client /\ {Server, Client} \subseteq Transports \ Files

VARIABLES
  pool,           \* contexts_
  step,           \* where a thread is in Setup() or OnCompleted() of the server
  fatal,          \* history: Create() failed or OnError(Fatal) was called
  connecting,     \* context_ of the ConnectOp
  told,           \* history: what the user was told of it
  cancelled       \* history: cancelled while the kernel still had the request

netVars == <<pool, step, fatal, connecting, told, cancelled>>
serverUnchanged == UNCHANGED <<pool, step, fatal>>
clientUnchanged == UNCHANGED <<connecting, told, cancelled>>

NetInit ==
  /\ pool = <<>> /\ step = [th \in Threads |-> "out"] /\ fatal = FALSE
  /\ connecting = None /\ told = <<>> /\ cancelled = FALSE

\* SocketForAddress() of this platform knows no Unix addresses.
WinSocketSupported(family, protocol) ==
  family \in {"IPv4", "IPv6"} /\ protocol \in {"TCP", "UDP", "Stream", "Datagram"}
WinAddresses == {"IPv4", "IPv6", "Unix"} \X {"TCP", "UDP", "Stream", "Datagram"}

\* IOContext::New(): a context that nobody has.
New(c) ==
  /\ c \notin ToSet(pool) \cup {connecting} /\ InFlight(c) = 0
  /\ \A p \in Pollers : call[p] # None => call[p].ctx # c

----------------------------------------------------------------------------
(* WinServer.                                                              *)

\* Server::Create() up to Setup(); what fails before leaves nothing behind.
CreateServer(u, family, protocol) ==
  /\ step[u] = "out" /\ doing[u] = None
  /\ protocol \in {"TCP", "Stream"} /\ WinSocketSupported(family, protocol)
  /\ AttachTo(Server, "server")
  /\ step' = [step EXCEPT ![u] = "start"]
  /\ UNCHANGED <<contextVars, busy, port, pollVars, doing, aborted, userVars, pool, fatal>>
  /\ clientUnchanged

InServer(p) == call[p] # None /\ call[p].to = "server"

\* OnCompleted() begins.
OnAccept(p) ==
  /\ InServer(p) /\ step[p] = "out"
  /\ step' = [step EXCEPT ![p] = "start"]
  /\ UNCHANGED <<portVars, deliveryVars, userVars, pool, fatal>>
  /\ clientUnchanged

\* getContext(), and what it leaves of the pool.
FromPool(c) == IF pool = <<>> THEN New(c) ELSE c = Last(pool)
LeavesIt == pool                                   \* fault: back() for popCopy()
PoolAfter == IF pool = <<>> THEN pool ELSE Front(pool)

\* StartRequest() up to AcceptEx(): a new socket, a context, and the link, which
\* there is none of if the server has been closed.
StartRequest(th, c) ==
  /\ step[th] = "start" /\ FromPool(c)
  /\ pool' = PoolAfter
  /\ IF Server \in attached /\ request[c] = "None"
       THEN /\ Link(c, Server, "Other")
            /\ Doing(th, c, Server, "Other", "issue")
            /\ step' = [step EXCEPT ![th] = "issue"]
       ELSE /\ step' = [step EXCEPT ![th] = "failed"]
            /\ UNCHANGED <<contextVars, doing>>
  /\ UNCHANGED <<transportVars, busy, port, pollVars, aborted, deliveryVars, userVars, fatal>>
  /\ clientUnchanged

NoSocket(th) ==
  /\ step[th] = "start"
  /\ step' = [step EXCEPT ![th] = "failed"]
  /\ UNCHANGED <<portVars, deliveryVars, userVars, pool, fatal>>
  /\ clientUnchanged

\* A system call with the request's OVERLAPPED: AcceptEx() or ConnectEx().
Calls(th, outcome) ==
  LET c == doing[th].ctx
      t == doing[th].on IN
  /\ At(th, "issue") /\ doing[th].type = "Other"
  /\ outcome \in Outcomes(t, "Other")
  /\ busy' = IF outcome = "pending" THEN busy \cup {<<c, t>>} ELSE busy
  /\ port' = IF Queues(t, outcome) THEN Append(port, <<c, t>>) ELSE port
  /\ doing' = IF outcome = "failed" THEN [doing EXCEPT ![th].step = "undo"]
                                    ELSE [doing EXCEPT ![th] = None]

AcceptEx(th, outcome) ==
  /\ step[th] = "issue"
  /\ Calls(th, outcome)
  /\ step' = [step EXCEPT ![th] = IF outcome = "failed" THEN "undo"
                                  ELSE IF th \in Users THEN "out" ELSE "rest"]
  /\ UNCHANGED <<contextVars, transportVars, pollVars, aborted, deliveryVars, userVars, pool,
                 fatal>>
  /\ clientUnchanged

CancelAccept(th) ==
  /\ step[th] = "undo" /\ Undo(th)
  /\ step' = [step EXCEPT ![th] = "failed"]
  /\ UNCHANGED <<deliveryVars, userVars, pool, fatal>>
  /\ clientUnchanged

\* Create() closes the server and fails; OnCompleted() reports a fatal error.
RequestFailed(th) ==
  /\ step[th] = "failed"
  /\ fatal' = TRUE
  /\ step' = [step EXCEPT ![th] = "out"]
  /\ call' = IF th \in Pollers THEN [call EXCEPT ![th] = None] ELSE call
  /\ closed' = IF th \in Users THEN closed \cup {Server} ELSE closed
  /\ UNCHANGED <<contextVars, attached, listener, busy, port, entries, doing, aborted,
                 deliveryVars, userVars, pool>>
  /\ clientUnchanged

\* OnCompleted() with a request made: putContext(), and a warning, for the
\* error of the last or of setsockopt(), or Accept().  What they do is the user's.
AcceptTold(p) ==
  /\ step[p] = "rest"
  /\ pool' = Append(pool, call[p].ctx)
  /\ step' = [step EXCEPT ![p] = "out"]
  /\ call' = [call EXCEPT ![p] = None]
  /\ UNCHANGED <<contextVars, transportVars, busy, port, entries, doing, aborted,
                 deliveryVars, userVars, fatal>>
  /\ clientUnchanged

\* Close() "must not be called if any calls to Poll() are in progress on another
\* thread" (amio-net.h:328).
CloseServer(th) ==
  /\ \A p \in Pollers \ {th} : call[p] = None /\ entries[p] = <<>>
  /\ step[th] \in {"out", "rest"} /\ listener[Server] = "server"
  /\ CloseHandle(Server)
  /\ UNCHANGED netVars

----------------------------------------------------------------------------
(* Client::Create() and ConnectOp.                                         *)

CreateClient(u, c, family, protocol) ==
  /\ doing[u] = None /\ step[u] = "out" /\ New(c) /\ request[c] = "None"
  /\ WinSocketSupported(family, protocol)
  /\ AttachTo(Client, "op")
  /\ connecting' = c
  /\ Link(c, Client, "Other") /\ Doing(u, c, Client, "Other", "issue")
  /\ UNCHANGED <<busy, port, pollVars, aborted, userVars, told, cancelled>>
  /\ serverUnchanged

\* The result is an operation; with an error the request is taken back.  A
\* connection is never returned, since a socket is never flagged.
ConnectEx(u, outcome) ==
  /\ step[u] = "out"
  /\ Calls(u, outcome)
  /\ told' = IF outcome = "failed" THEN Append(told, "error") ELSE told
  /\ UNCHANGED <<contextVars, transportVars, pollVars, aborted, deliveryVars, userVars,
                 connecting, cancelled>>
  /\ serverUnchanged

CancelRequest(u) ==
  /\ step[u] = "out" /\ Undo(u)
  /\ UNCHANGED <<deliveryVars, userVars, netVars>>

\* ConnectOp::OnCompleted(): an error of the request or of
\* EnableConnectedSocket(), or success.  ConnectOp is left to itself after that.
OnConnected(p) ==
  /\ call[p] # None /\ call[p].to = "op"
  /\ call' = [call EXCEPT ![p] = None]
  /\ \/ told' = Append(told, "OnConnectFailed") /\ UNCHANGED listener
     \/ /\ call[p].result # "error"
        /\ listener' = [listener EXCEPT ![Client] = "user"]
        /\ told' = Append(told, "OnConnect")
  /\ UNCHANGED <<contextVars, closed, attached, busy, port, entries, doing, aborted,
                 deliveryVars, userVars, connecting, cancelled>>
  /\ serverUnchanged

\* ConnectOp::Cancel(), by whom Create() returned it to, has no effect on what is
\* finished.  What the kernel has completed it cancels as well: the packet is in the
\* port or a batch, and Dispatch() leaves early.
Creating == \E u \in Users : doing[u] # None /\ doing[u].on = Client

CancelConnect ==
  /\ connecting # None /\ ~Creating
  /\ Cancel(Client, connecting)
  /\ cancelled' = (cancelled \/ <<connecting, Client>> \in busy)
  /\ UNCHANGED <<connecting, told>>
  /\ serverUnchanged

----------------------------------------------------------------------------

NetUsers(u) ==
  \/ \E a \in WinAddresses :
       \/ CreateServer(u, a[1], a[2])
       \/ \E c \in Contexts : CreateClient(u, c, a[1], a[2])
  \/ \E outcome \in {"pending", "done", "failed"} : ConnectEx(u, outcome)
  \/ CancelRequest(u)
  \/ CancelConnect

NetServer(th) ==
  \/ NoSocket(th) \/ CancelAccept(th) \/ RequestFailed(th) \/ CloseServer(th)
  \/ \E c \in Contexts : StartRequest(th, c)
  \/ \E outcome \in {"pending", "done", "failed"} : AcceptEx(th, outcome)

NetPoller(p) ==
  \/ /\ \/ PollOne(p) \/ Poll(p)
        \/ \E result \in {"done", "error"} : Dispatch(p, result)
     /\ UNCHANGED <<deliveryVars, userVars, netVars>>
  \/ OnAccept(p) \/ AcceptTold(p) \/ OnConnected(p)

NetNext ==
  \/ \E u \in Users : NetUsers(u)
  \/ \E th \in Threads : NetServer(th)
  \/ \E p \in Pollers : NetPoller(p)
  \/ \E b \in busy : Completes(b) /\ UNCHANGED <<deliveryVars, userVars, netVars>>
  \/ ClearListener(Server) /\ UNCHANGED netVars
  \/ \E mode \in {"enabled", "required"} : EnableImmediateDelivery(mode) /\ UNCHANGED netVars

NetTypeOK ==
  /\ pool \in Seq(Contexts)
  /\ step \in [Threads -> {"out", "start", "issue", "undo", "failed", "rest"}]
  /\ fatal \in BOOLEAN /\ cancelled \in BOOLEAN
  /\ connecting \in Contexts \cup {None}
  /\ told \in Seq({"error", "OnConnect", "OnConnectFailed"})
==============================================================================
