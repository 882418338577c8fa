--------------------------- MODULE NetworkingProofs ---------------------------
(***************************************************************************)
(* Clients and the server are type-correct, own their descriptors, and     *)
(* keep what amio-net.h promises their listeners; addresses read back as   *)
(* they were printed.  For any number of clients, made in any of the ways, *)
(* over a poller and over an event queue.                                  *)
(***************************************************************************)
EXTENDS Networking, SequenceTheorems, TLAPS

Outcomes   == {"connection", "socket", "OnConnect", "OnConnectFailed"}
AcceptLoop == {"accepting", "inAccept", "inSoftError"}

\* Nobody is called about a socket before it is made, and nothing is kept for a
\* transport that a hangup has detached but that hangup, and what came before it.
SocketInv ==
  \A s \in Sockets :
    /\ fd[s] = "none" => listener[s] = None /\ pending[s] = {} /\ cur # s
    /\ "hangup" \in pending[s] => s \notin attached
    /\ pending[s] # {} => viaQueue

\* A connect operation that an attached transport holds is under way, and tells
\* its first and only outcome within the call that finishes it.
ClientInv ==
  \A c \in Clients :
    /\ listener[c] \in {None, "op", "user"}
    /\ told[c] = <<>> \/ \E what \in Outcomes : told[c] = <<what>>
    /\ fd[c] = "none" => op[c] = "none" /\ told[c] = <<>>
    /\ fd[c] = "open" => op[c] = "pending" \/ Given(c)
    /\ listener[c] = "op" => op[c] # "none"
    /\ c \in attached /\ listener[c] = "op" => op[c] = "pending"
    /\ op[c] = "pending" => told[c] = <<>> \/ (pc \in {"inConnect", "misused"} /\ cur = c)
    /\ c \in cancelled => op[c] = "done" /\ told[c] = <<>>

\* The socket that the thread is called about: its events were taken from the
\* queue, and a hangup has detached it before it is called.
CallInv ==
  /\ pc = "idle" => cur = None /\ todo = {}
  /\ pc \notin {"idle", "misused"} => cur # None
  /\ cur # None => pending[cur] = {}
  /\ "hangup" \in todo => cur \notin attached
  /\ pc = "inConnect" =>
       /\ cur \in Clients /\ told[cur] # <<>>
       /\ fd[cur] = "open" => Given(cur)
       /\ cur \in attached => listener[cur] = "user"
  /\ pc \in AcceptLoop \cup {"inError"} => cur = Server /\ "ready" \notin todo

\* After a fatal error nothing is left that could reach the listener again: the
\* server is detached, no event of it is kept, and of the call that told the error
\* there is at most a hangup to come, which a closed server swallows.
ServerInv ==
  /\ listener[Server] \in {None, "server"}
  /\ closing => fd[Server] = "closed"
  /\ pc \in AcceptLoop => ~fatal
  /\ fatal =>
       /\ fd[Server] # "none" /\ Server \notin attached /\ pending[Server] = {}
       /\ cur = Server => "ready" \notin todo /\ ("hangup" \in todo => closing)
  /\ ~lateCall

\* A poller calls about one event at once, so that nobody can detach or cancel
\* between its report and the call.
PollerInv ==
  ~viaQueue =>
    /\ pc # "crashed"
    /\ todo \in {{}, {"ready"}, {"hangup"}}
    /\ todo # {} =>
         /\ pc = "run"
         /\ "ready" \in todo => cur \in attached
         /\ listener[cur] = "op" => op[cur] = "pending"

Soundness == SocketInv /\ ClientInv /\ CallInv /\ ServerInv /\ PollerInv
Inv == TypeOK /\ Soundness

----------------------------------------------------------------------------
(* What the pieces of the operations do to the types.                      *)

TransportTypes ==
  /\ fd \in [Sockets -> {"none", "open", "closed"}]
  /\ attached \subseteq {s \in Sockets : fd[s] = "open"}
  /\ listener \in [Sockets -> {None, "op", "user", "server"}]
  /\ pending \in [Sockets -> SUBSET {"ready", "hangup"}]

\* PosixTransport::Close() keeps the tables of transports well formed.
LEMMA CloseKeepsTypes ==
  ASSUME TransportTypes, NEW s \in Sockets, CloseTransport(s)
  PROVE  TransportTypes'
<1>1. CASE s \in attached
  BY <1>1 DEF TransportTypes, CloseTransport
<1>2. CASE s \notin attached
  BY <1>2 DEF TransportTypes, CloseTransport
<1>3. QED
  BY <1>1, <1>2

\* The first thing told to a user is the only one that it was told.
LEMMA TellFirst ==
  ASSUME TypeOK, NEW c \in Clients, NEW what \in Outcomes, told[c] = <<>>, Tell(c, what)
  PROVE  /\ told' \in [Clients -> Seq(Outcomes)]
         /\ told' = [told EXCEPT ![c] = <<what>>]
<1>1. Append(<<>>, what) = <<what>> /\ <<what>> \in Seq(Outcomes)
  OBVIOUS
<1>2. told' = [told EXCEPT ![c] = <<what>>]
  BY Zenon, <1>1 DEF Tell
<1>3. told \in [Clients -> Seq(Outcomes)]
  BY DEF TypeOK, Outcomes
<1>4. QED
  BY <1>1, <1>2, <1>3

----------------------------------------------------------------------------
(* The user's operations.                                                  *)

\* Create() attaches a socket that was never called about.
LEMMA CreateKeepsInv ==
  ASSUME Inv, NEW c \in Clients, NEW family \in Families, NEW protocol \in Protocols,
         Create(c, family, protocol)
  PROVE  Inv'
<1>1. told[c] = <<>> /\ fd[c] = "none"
  BY DEF Create, Inv, Soundness, ClientInv
<1>2. CASE AtOnce(c)
  <2>1. told' = [told EXCEPT ![c] = <<"connection">>] /\ told' \in [Clients -> Seq(Outcomes)]
    BY <1>1, <1>2, TellFirst DEF AtOnce, Inv, Outcomes
  <2>2. Given(c)'
    BY <2>1 DEF Given, Latest, Inv, TypeOK
  <2>3. TypeOK'
    <3>1. arrived' \in BOOLEAN
      BY Zenon, <1>2 DEF AtOnce, Arrives
    <3>2. QED
      BY <1>2, <2>1, <3>1 DEF Create, AtOnce, AttachNew, Arrives, Sockets, Outcomes, Inv,
                              TypeOK, callVars, serverVars
  <2>4. ClientInv'
    BY <1>1, <1>2, <2>1, <2>2, ServerAssumption
       DEF Create, AtOnce, AttachNew, UserMay, InListener, Sockets, Outcomes, Given, Latest,
           Inv, TypeOK, Soundness, ClientInv, callVars
  <2>5. (SocketInv /\ CallInv /\ ServerInv /\ PollerInv)'
    BY <1>1, <1>2, <2>1, ServerAssumption, SMTT(30)
       DEF Create, AtOnce, AttachNew, Sockets, AcceptLoop, Given, Latest, Inv, TypeOK,
           Soundness, SocketInv, ClientInv, CallInv, ServerInv, PollerInv, callVars, serverVars
  <2>6. QED
    BY <2>3, <2>4, <2>5 DEF Inv, Soundness
<1>3. ASSUME NEW state \in {"connecting", "unconnected"}, Started(c, state) PROVE Inv'
  <2>1. TypeOK'
    BY <1>3 DEF Create, Started, AttachNew, Sockets, Inv, TypeOK, callVars, serverVars
  <2>2. Soundness'
    BY <1>1, <1>3, ServerAssumption, SMTT(30)
       DEF Create, Started, AttachNew, Sockets, AcceptLoop, Given, Latest, Inv, TypeOK,
           Soundness, SocketInv, ClientInv, CallInv, ServerInv, PollerInv, callVars, serverVars
  <2>3. QED
    BY <2>1, <2>2 DEF Inv
<1>4. QED
  BY <1>2, <1>3 DEF Create

\* A socket that could not be made is closed.
LEMMA CreateFailsKeepsInv ==
  ASSUME Inv, NEW c \in Clients, NEW family \in Families, NEW protocol \in Protocols,
         CreateFails(c, family, protocol)
  PROVE  Inv'
<1>1. TypeOK'
  BY SMT DEF CreateFails, Sockets, InListener, Inv, TypeOK, callVars, clientVars,
             serverVars, kernelVars
<1>2. Soundness'
  BY ServerAssumption, SMTT(30) DEF CreateFails, UserMay, InListener, Sockets,
                                    Outcomes, AcceptLoop, Given, Latest, Inv, TypeOK,
                                    Soundness, SocketInv, ClientInv, CallInv,
                                    ServerInv, PollerInv, callVars, clientVars,
                                    serverVars, kernelVars
<1>3. QED
  BY <1>1, <1>2 DEF Inv

\* ConnectTo() gives a connection that has no listener yet.
LEMMA ConnectToKeepsInv ==
  ASSUME Inv, NEW c \in Clients, NEW family \in Families, NEW protocol \in Protocols,
         ConnectTo(c, family, protocol)
  PROVE  Inv'
<1>1. told[c] = <<>>
  BY DEF ConnectTo, Inv, Soundness, ClientInv
<1>2. told' = [told EXCEPT ![c] = <<"connection">>] /\ told' \in [Clients -> Seq(Outcomes)]
  BY <1>1, TellFirst DEF ConnectTo, Inv, Outcomes
<1>3. TypeOK'
  <2>1. arrived' \in BOOLEAN
    BY Zenon DEF ConnectTo, Arrives, Inv, TypeOK
  <2>2. QED
    BY <1>2, <2>1 DEF ConnectTo, Arrives, Sockets, Outcomes, Inv, TypeOK, callVars, serverVars
<1>4. Given(c)'
  BY <1>2 DEF Given, Latest, Inv, TypeOK
<1>5. Soundness'
  <2>1. ClientInv'
    BY <1>1, <1>2, <1>4, ServerAssumption
       DEF ConnectTo, UserMay, InListener, Sockets, Outcomes, Given, Latest, Inv, TypeOK,
           Soundness, ClientInv, CallInv, callVars
  <2>2. (SocketInv /\ CallInv /\ ServerInv /\ PollerInv)'
    BY <1>1, <1>2, ServerAssumption, SMTT(30)
       DEF ConnectTo, UserMay, InListener, Sockets, AcceptLoop, Given, Latest, Inv, TypeOK,
           Soundness, SocketInv, ClientInv, CallInv, ServerInv, PollerInv, callVars,
           serverVars
  <2>3. QED
    BY <2>1, <2>2 DEF Soundness
<1>6. QED
  BY <1>3, <1>5 DEF Inv

\* CreateSocket() gives a socket that has no listener yet.
LEMMA CreateSocketKeepsInv ==
  ASSUME Inv, NEW c \in Clients, NEW family \in Families, NEW protocol \in Protocols,
         CreateSocket(c, family, protocol)
  PROVE  Inv'
<1>1. told[c] = <<>>
  BY DEF CreateSocket, Inv, Soundness, ClientInv
<1>2. told' = [told EXCEPT ![c] = <<"socket">>] /\ told' \in [Clients -> Seq(Outcomes)]
  BY <1>1, TellFirst DEF CreateSocket, Inv, Outcomes
<1>3. TypeOK'
  <2>1. arrived' \in BOOLEAN
    BY Zenon DEF CreateSocket, Inv, TypeOK, kernelVars
  <2>2. QED
    BY <1>2, <2>1 DEF CreateSocket, Sockets, Outcomes, Inv, TypeOK, callVars, serverVars, kernelVars
<1>4. Given(c)'
  BY <1>2 DEF Given, Latest, Inv, TypeOK
<1>5. Soundness'
  <2>1. ClientInv'
    BY <1>1, <1>2, <1>4, ServerAssumption
       DEF CreateSocket, UserMay, InListener, Sockets, Outcomes, Given, Latest, Inv, TypeOK,
           Soundness, ClientInv, CallInv, callVars
  <2>2. (SocketInv /\ CallInv /\ ServerInv /\ PollerInv)'
    BY <1>1, <1>2, ServerAssumption, SMTT(30)
       DEF CreateSocket, UserMay, InListener, Sockets, AcceptLoop, Given, Latest, Inv, TypeOK,
           Soundness, SocketInv, ClientInv, CallInv, ServerInv, PollerInv, callVars,
           serverVars
  <2>3. QED
    BY <2>1, <2>2 DEF Soundness
<1>6. QED
  BY <1>3, <1>5 DEF Inv

\* The user closes what was given.
LEMMA CloseConnectionKeepsInv ==
  ASSUME Inv, NEW c \in Clients, CloseConnection(c)
  PROVE  Inv'
<1>1. TypeOK'
  <2>1. TransportTypes'
    BY CloseKeepsTypes DEF CloseConnection, TransportTypes, Sockets, Inv, TypeOK,
                           transportVars
  <2>2. QED
    BY <2>1 DEF CloseConnection, TransportTypes, InListener, Inv, TypeOK, callVars,
                clientVars, serverVars, kernelVars
<1>2. Soundness'
  <2>1. CallInv'
    BY SMTT(30) DEF CloseConnection, CloseTransport, Sockets, AcceptLoop, Given, Inv,
                    TypeOK, Soundness, CallInv, callVars, clientVars
  <2>2. (SocketInv /\ ClientInv)'
    BY ServerAssumption, SMTT(30)
       DEF CloseConnection, CloseTransport, Sockets, Outcomes, Given, Latest, Inv, TypeOK,
           Soundness, SocketInv, ClientInv, callVars, clientVars
  <2>3. (ServerInv /\ PollerInv)'
    BY ServerAssumption, SMTT(30)
       DEF CloseConnection, CloseTransport, UserMay, InListener, Sockets, AcceptLoop, Inv,
           TypeOK, Soundness, ClientInv, CallInv, ServerInv, PollerInv, callVars,
           clientVars, serverVars
  <2>4. QED
    BY <2>1, <2>2, <2>3 DEF Soundness
<1>3. QED
  BY <1>1, <1>2 DEF Inv

\* Cancel() detaches before it marks the operation done.
LEMMA CancelKeepsInv ==
  ASSUME Inv, NEW c \in Clients, Cancel(c)
  PROVE  Inv'
<1>1. TypeOK'
  <2>1. TransportTypes'
    BY CloseKeepsTypes DEF Cancel, Finish, TransportTypes, Sockets, Inv, TypeOK,
                           transportVars
  <2>2. op' \in [Clients -> {"none", "pending", "done"}] /\ cancelled' \subseteq Clients
      /\ tooLate' \subseteq cancelled'
    <3>1. CASE op[c] = "done"
      BY <3>1 DEF Cancel, Inv, TypeOK, clientVars
    <3>2. CASE op[c] # "done"
      <4>1. op' = [op EXCEPT ![c] = "done"]
        BY Zenon, <3>2 DEF Cancel, Finish
      <4>2. /\ cancelled' = cancelled \cup {d \in {c} : told[d] = <<>>}
            /\ tooLate' = tooLate \cup {d \in {c} : told[d] = <<>> /\ Established(d)}
        BY Zenon, <3>2 DEF Cancel
      <4>3. cancelled \subseteq Clients /\ tooLate \subseteq cancelled
        BY Zenon DEF Inv, TypeOK
      <4>4. cancelled' \subseteq Clients /\ tooLate' \subseteq cancelled'
        BY Zenon, <4>2, <4>3
      <4>5. QED
        BY <4>1, <4>4 DEF Inv, TypeOK
    <3>3. QED
      BY <3>1, <3>2
  <2>3. QED
    BY <2>1, <2>2 DEF Cancel, Finish, TransportTypes, InListener, Inv, TypeOK,
                transportVars, clientVars, serverVars, kernelVars
<1>2. Soundness'
  <2>1. SocketInv'
    <3>1. CASE op[c] = "done"
      BY <3>1 DEF Cancel, Inv, Soundness, SocketInv, transportVars
    <3>2. CASE op[c] # "done"
      <4>1. /\ fd' = [fd EXCEPT ![c] = "closed"] /\ attached' = attached \ {c}
            /\ cur' = cur /\ viaQueue' = viaQueue
        BY <3>2 DEF Cancel, CloseTransport
      <4>2. \/ /\ listener' = [listener EXCEPT ![c] = None]
               /\ pending' = [pending EXCEPT ![c] = {}]
            \/ listener' = listener /\ pending' = pending
        BY Zenon, <3>2 DEF Cancel, CloseTransport
      <4>3. QED
        BY <4>1, <4>2 DEF Sockets, Inv, TypeOK, Soundness, SocketInv
    <3>3. QED
      BY <3>1, <3>2
  <2>2. (ClientInv /\ CallInv)'
    BY ServerAssumption, SMTT(30)
       DEF Cancel, CloseTransport, Finish, UserMay, InListener, Sockets, Outcomes,
           AcceptLoop, Given, Latest, Inv, TypeOK, Soundness, SocketInv, ClientInv,
           CallInv, transportVars, clientVars
  <2>3. (ServerInv /\ PollerInv)'
    BY ServerAssumption, SMTT(30)
       DEF Cancel, CloseTransport, Finish, UserMay, InListener, Sockets, AcceptLoop, Inv,
           TypeOK, Soundness, ClientInv, CallInv, ServerInv, PollerInv, transportVars,
           clientVars, serverVars
  <2>4. QED
    BY <2>1, <2>2, <2>3 DEF Soundness
<1>3. QED
  BY <1>1, <1>2 DEF Inv

\* A server is attached once.
LEMMA CreateServerKeepsInv ==
  ASSUME Inv, NEW family \in Families, NEW protocol \in Protocols, CreateServer(family, protocol)
  PROVE  Inv'
<1>1. TypeOK'
  BY SMT DEF CreateServer, AttachNew, Sockets, InListener, Inv, TypeOK, callVars,
             clientVars, serverVars, kernelVars
<1>2. Soundness'
  BY ServerAssumption, SMTT(30) DEF CreateServer, AttachNew, UserMay, InListener,
                                    Sockets, Outcomes, AcceptLoop, Given, Latest, Inv,
                                    TypeOK, Soundness, SocketInv, ClientInv, CallInv,
                                    ServerInv, PollerInv, callVars, clientVars,
                                    serverVars, kernelVars
<1>3. QED
  BY <1>1, <1>2 DEF Inv

\* Close() of the server detaches it.
LEMMA UserClosesKeepsInv ==
  ASSUME Inv, UserCloses
  PROVE  Inv'
<1>1. TypeOK'
  <2>1. TransportTypes' /\ closing' \in BOOLEAN
    BY CloseKeepsTypes DEF UserCloses, Close, TransportTypes, Sockets, Inv, TypeOK,
                           transportVars
  <2>2. QED
    BY <2>1 DEF UserCloses, Close, TransportTypes, InListener, Inv, TypeOK,
                transportVars, callVars, clientVars
<1>2. ~closing
  BY DEF UserCloses, Inv, Soundness, ServerInv
<1>3. Soundness'
  <2>1. (SocketInv /\ ClientInv /\ CallInv)'
    BY <1>2, ServerAssumption, SMTT(30)
       DEF UserCloses, Close, CloseTransport, UserMay, InListener, Sockets, Outcomes,
           AcceptLoop, Given, Latest, Inv, TypeOK, Soundness, SocketInv, ClientInv,
           CallInv, transportVars, callVars, clientVars
  <2>2. (ServerInv /\ PollerInv)'
    BY <1>2, ServerAssumption, SMTT(30)
       DEF UserCloses, Close, CloseTransport, UserMay, InListener, Sockets, AcceptLoop, Inv,
           TypeOK, Soundness, SocketInv, ClientInv, CallInv, ServerInv, PollerInv,
           transportVars, callVars, clientVars
  <2>3. QED
    BY <2>1, <2>2 DEF Soundness
<1>4. QED
  BY <1>1, <1>3 DEF Inv

----------------------------------------------------------------------------
(* ConnectOp.                                                              *)

\* A pending operation has told nothing yet when the socket becomes writable.
LEMMA OnWriteReadyKeepsInv ==
  ASSUME Inv, OnWriteReady
  PROVE  Inv'
<1>1. TypeOK'
  <2>1. CASE pc' = "crashed"
    BY <2>1 DEF OnWriteReady, Calling, Crash, ReportError, Succeed, Inv, TypeOK,
                transportVars, clientVars, serverVars, kernelVars
  <2>2. CASE pc' # "crashed"
    <3>1. cur \in Clients /\ told[cur] = <<>>
      BY <2>2, ServerAssumption, SMTT(30) DEF OnWriteReady, Calling, Crash, Sockets, Inv, Soundness, ClientInv,
                  ServerInv, TypeOK
    <3>2. TransportTypes'
      BY <2>2, <3>1, CloseKeepsTypes, SMTT(30) DEF OnWriteReady, Calling, Crash, ReportError,
                                         Succeed, TransportTypes, Sockets, Inv, TypeOK
    <3>3. told' \in [Clients -> Seq(Outcomes)]
      BY <2>2, <3>1, TellFirst, SMTT(30) DEF OnWriteReady, Calling, Crash, ReportError, Succeed,
                                   Outcomes, Inv
    <3>4. QED
      BY <2>2, <3>2, <3>3, SMTT(30) DEF OnWriteReady, Calling, Crash, ReportError, Succeed,
                              TransportTypes, Outcomes, InListener, Inv, TypeOK,
                              serverVars, kernelVars
  <2>3. QED
    BY <2>1, <2>2
<1>2. Soundness'
  BY ServerAssumption, SMTT(30) DEF OnWriteReady, Calling, Crash, ReportError,
                                    Succeed, CloseTransport, Tell, SurvivesDetach,
                                    HasError, Sockets, Outcomes, AcceptLoop, Given,
                                    Latest, Inv, TypeOK, Soundness, SocketInv,
                                    ClientInv, CallInv, ServerInv, PollerInv,
                                    transportVars, clientVars, serverVars, kernelVars
<1>3. QED
  BY <1>1, <1>2 DEF Inv

\* Nor when it hangs up.
LEMMA OnHangupKeepsInv ==
  ASSUME Inv, OnHangup
  PROVE  Inv'
<1>1. TypeOK'
  <2>1. CASE pc' = "crashed"
    BY <2>1 DEF OnHangup, Calling, Crash, ReportError, Inv, TypeOK, transportVars,
                clientVars, serverVars, kernelVars
  <2>2. CASE pc' # "crashed"
    <3>1. cur \in Clients /\ told[cur] = <<>>
      BY <2>2, ServerAssumption, SMTT(30) DEF OnHangup, Calling, Crash, Sockets, Inv, Soundness, ClientInv,
                  ServerInv, TypeOK
    <3>2. TransportTypes'
      BY <2>2, <3>1, CloseKeepsTypes, SMTT(30) DEF OnHangup, Calling, Crash, ReportError,
                                         TransportTypes, Sockets, Inv, TypeOK
    <3>3. told' \in [Clients -> Seq(Outcomes)]
      BY <2>2, <3>1, TellFirst, SMTT(30) DEF OnHangup, Calling, Crash, ReportError, Outcomes,
                                   Inv
    <3>4. QED
      BY <2>2, <3>2, <3>3, SMTT(30) DEF OnHangup, Calling, Crash, ReportError, TransportTypes,
                              Outcomes, InListener, Inv, TypeOK, serverVars,
                              kernelVars
  <2>3. QED
    BY <2>1, <2>2
<1>2. Soundness'
  BY ServerAssumption, SMTT(30) DEF OnHangup, Calling, Crash, ReportError,
                                    CloseTransport, Tell, SurvivesDetach, Sockets,
                                    Outcomes, AcceptLoop, Given, Latest, Inv, TypeOK,
                                    Soundness, SocketInv, ClientInv, CallInv,
                                    ServerInv, PollerInv, transportVars, clientVars,
                                    serverVars, kernelVars
<1>3. QED
  BY <1>1, <1>2 DEF Inv

\* The operation is done when the user was told.
LEMMA ConnectToldKeepsInv ==
  ASSUME Inv, ConnectTold
  PROVE  Inv'
<1>1. TypeOK'
  BY DEF ConnectTold, Finish, Inv, TypeOK, Soundness, CallInv, transportVars, serverVars,
         kernelVars
<1>2. Soundness'
  BY ServerAssumption, SMTT(30) DEF ConnectTold, Finish, Sockets, Outcomes,
                                    AcceptLoop, Given, Latest, Inv, TypeOK, Soundness,
                                    SocketInv, ClientInv, CallInv, ServerInv,
                                    PollerInv, transportVars, serverVars, kernelVars
<1>3. QED
  BY <1>1, <1>2 DEF Inv

----------------------------------------------------------------------------
(* PosixServer.                                                            *)

\* The accept loop starts on a server that was not broken.
LEMMA OnReadReadyKeepsInv ==
  ASSUME Inv, OnReadReady
  PROVE  Inv'
<1>1. TypeOK'
  BY LimitAssumption DEF OnReadReady, Calling, Sockets, InListener, Inv, TypeOK,
                         transportVars, clientVars, kernelVars
<1>2. Soundness'
  BY ServerAssumption, SMTT(30) DEF OnReadReady, Calling, Sockets, Outcomes,
                                    AcceptLoop, Given, Latest, Inv, TypeOK, Soundness,
                                    SocketInv, ClientInv, CallInv, ServerInv,
                                    PollerInv, transportVars, clientVars, kernelVars
<1>3. QED
  BY <1>1, <1>2 DEF Inv

\* A connection is handed over while the server is open.
LEMMA AcceptOneKeepsInv ==
  ASSUME Inv, NEW c \in Clients, AcceptOne(c)
  PROVE  Inv'
<1>1. TypeOK'
  BY LimitAssumption DEF AcceptOne, Calls, Listening, Sockets, InListener, Inv,
                         TypeOK, transportVars, clientVars
<1>2. Soundness'
  BY ServerAssumption, SMTT(30) DEF AcceptOne, Calls, Listening, Sockets, Outcomes,
                                    AcceptLoop, Given, Latest, Inv, TypeOK, Soundness,
                                    SocketInv, ClientInv, CallInv, ServerInv,
                                    PollerInv, transportVars, clientVars
<1>3. QED
  BY <1>1, <1>2 DEF Inv

\* A soft error is told within the accept loop.
LEMMA AcceptSoftErrorKeepsInv ==
  ASSUME Inv, AcceptSoftError
  PROVE  Inv'
<1>1. TypeOK'
  BY LimitAssumption DEF AcceptSoftError, Calls, Listening, Sockets, InListener, Inv,
                         TypeOK, transportVars, clientVars, kernelVars
<1>2. Soundness'
  BY ServerAssumption, SMTT(30) DEF AcceptSoftError, Calls, Listening, Sockets,
                                    Outcomes, AcceptLoop, Given, Latest, Inv, TypeOK,
                                    Soundness, SocketInv, ClientInv, CallInv,
                                    ServerInv, PollerInv, transportVars, clientVars,
                                    kernelVars
<1>3. QED
  BY <1>1, <1>2 DEF Inv

\* So is any other that is not fatal.
LEMMA AcceptErrorKeepsInv ==
  ASSUME Inv, AcceptError
  PROVE  Inv'
<1>1. TypeOK'
  BY LimitAssumption DEF AcceptError, Calls, Listening, Sockets, InListener, Inv,
                         TypeOK, transportVars, clientVars, kernelVars
<1>2. Soundness'
  BY ServerAssumption, SMTT(30) DEF AcceptError, Calls, Listening, Sockets, Outcomes,
                                    AcceptLoop, Given, Latest, Inv, TypeOK, Soundness,
                                    SocketInv, ClientInv, CallInv, ServerInv,
                                    PollerInv, transportVars, clientVars, kernelVars
<1>3. QED
  BY <1>1, <1>2 DEF Inv

\* A fatal one closes the server first.
LEMMA AcceptFatalKeepsInv ==
  ASSUME Inv, AcceptFatal
  PROVE  Inv'
<1>1. TypeOK'
  <2>1. TransportTypes' /\ closing' \in BOOLEAN
    BY CloseKeepsTypes DEF AcceptFatal, CloseForGood, Close, Calls, TransportTypes,
                           Sockets, Inv, TypeOK, transportVars
  <2>2. QED
    BY <2>1 DEF AcceptFatal, CloseForGood, Close, Calls, TransportTypes, InListener,
                Inv, TypeOK, transportVars, clientVars
<1>2. Soundness'
  BY ServerAssumption, SMTT(30) DEF AcceptFatal, CloseForGood, Close, CloseTransport,
                                    Calls, Sockets, Outcomes, AcceptLoop, Given,
                                    Latest, Inv, TypeOK, Soundness, SocketInv,
                                    ClientInv, CallInv, ServerInv, PollerInv,
                                    transportVars, clientVars
<1>3. QED
  BY <1>1, <1>2 DEF Inv

\* The loop ends when nothing waits.
LEMMA AcceptNothingKeepsInv ==
  ASSUME Inv, AcceptNothing
  PROVE  Inv'
<1>1. TypeOK'
  BY LimitAssumption DEF AcceptNothing, Sockets, InListener, Inv, TypeOK,
                         transportVars, clientVars, serverVars, kernelVars
<1>2. Soundness'
  BY ServerAssumption, SMTT(30) DEF AcceptNothing, Sockets, Outcomes, AcceptLoop,
                                    Given, Latest, Inv, TypeOK, Soundness, SocketInv,
                                    ClientInv, CallInv, ServerInv, PollerInv,
                                    transportVars, clientVars, serverVars, kernelVars
<1>3. QED
  BY <1>1, <1>2 DEF Inv

\* The listener returns into the loop, or past it.
LEMMA ListenerReturnsKeepsInv ==
  ASSUME Inv, ListenerReturns
  PROVE  Inv'
<1>1. TypeOK'
  BY SMT DEF ListenerReturns, Sockets, InListener, Inv, TypeOK, transportVars,
             clientVars, serverVars, kernelVars
<1>2. Soundness'
  BY ServerAssumption, SMTT(30) DEF ListenerReturns, Sockets, Outcomes, AcceptLoop,
                                    Given, Latest, Inv, TypeOK, Soundness, SocketInv,
                                    ClientInv, CallInv, ServerInv, PollerInv,
                                    transportVars, clientVars, serverVars, kernelVars
<1>3. QED
  BY <1>1, <1>2 DEF Inv

\* A hangup is fatal, and told unless the server is closed.
LEMMA ServerHangupKeepsInv ==
  ASSUME Inv, ServerHangup
  PROVE  Inv'
<1>1. TypeOK'
  BY LimitAssumption DEF ServerHangup, Calling, Calls, Sockets, InListener, Inv,
                         TypeOK, transportVars, clientVars, kernelVars
<1>2. Soundness'
  BY ServerAssumption, SMTT(30) DEF ServerHangup, Calling, Calls, Sockets, Outcomes,
                                    AcceptLoop, Given, Latest, Inv, TypeOK, Soundness,
                                    SocketInv, ClientInv, CallInv, ServerInv,
                                    PollerInv, transportVars, clientVars, kernelVars
<1>3. QED
  BY <1>1, <1>2 DEF Inv

----------------------------------------------------------------------------
(* The dispatcher and the kernel.                                          *)

\* A poller reports on attached sockets.
LEMMA ReportKeepsInv ==
  ASSUME Inv, NEW s \in Sockets, NEW event \in {"ready", "hangup"}, Report(s, event)
  PROVE  Inv'
<1>1. arrived' \in BOOLEAN
  BY Zenon DEF Report, Inv, TypeOK
<1>2. CASE viaQueue
  <2>1. pc' = pc /\ cur' = cur /\ todo' = todo
    BY <1>2, Zenon DEF Report, callVars
  <2>2. pending' = [pending EXCEPT ![s] = @ \cup {event}]
    BY <1>2 DEF Report
  <2>3. TypeOK'
    BY <1>1, <2>1, <2>2 DEF Report, Sockets, Inv, TypeOK, clientVars, serverVars
  <2>4. Soundness'
    BY <1>2, <2>1, <2>2, ServerAssumption, SMTT(30)
       DEF Report, Sockets, AcceptLoop, Given, Latest, Inv, TypeOK, Soundness, SocketInv,
           ClientInv, CallInv, ServerInv, PollerInv, clientVars, serverVars
  <2>5. QED
    BY <2>3, <2>4 DEF Inv
<1>3. CASE ~viaQueue
  <2>1. TypeOK'
    <3>1. pc' = "run" /\ cur' = s /\ todo' = {event} /\ pending' = pending
      BY <1>3, Zenon DEF Report
    <3>2. attached' \subseteq attached
      BY DEF Report
    <3>3. QED
      BY <1>1, <3>1, <3>2 DEF Report, Inv, TypeOK, clientVars, serverVars
  <2>2. Soundness'
    BY <1>3, ServerAssumption, SMTT(30)
       DEF Report, Sockets, AcceptLoop, Given, Latest, Inv, TypeOK, Soundness, SocketInv,
           ClientInv, CallInv, ServerInv, PollerInv, clientVars, serverVars
  <2>3. QED
    BY <2>1, <2>2 DEF Inv
<1>4. QED
  BY <1>2, <1>3

\* The queue takes all events of a socket at once.
LEMMA DispatchNextEventKeepsInv ==
  ASSUME Inv, NEW s \in Sockets, DispatchNextEvent(s)
  PROVE  Inv'
<1>1. TypeOK'
  BY SMT DEF DispatchNextEvent, Sockets, InListener, Inv, TypeOK, clientVars,
             serverVars, kernelVars
<1>2. Soundness'
  BY ServerAssumption, SMTT(30) DEF DispatchNextEvent, Sockets, Outcomes, AcceptLoop,
                                    Given, Latest, Inv, TypeOK, Soundness, SocketInv,
                                    ClientInv, CallInv, ServerInv, PollerInv,
                                    clientVars, serverVars, kernelVars
<1>3. QED
  BY <1>1, <1>2 DEF Inv

\* A socket that was detached meanwhile is forgotten.
LEMMA EndCallKeepsInv ==
  ASSUME Inv, EndCall
  PROVE  Inv'
<1>1. TypeOK'
  <2>1. listener' \in [Sockets -> {None, "op", "user", "server"}]
    BY DEF EndCall, Inv, TypeOK
  <2>2. QED
    BY <2>1, LimitAssumption DEF EndCall, Inv, TypeOK, clientVars, kernelVars
<1>2. Soundness'
  BY ServerAssumption, SMTT(30) DEF EndCall, Sockets, Outcomes, AcceptLoop, Given,
                                    Latest, Inv, TypeOK, Soundness, SocketInv,
                                    ClientInv, CallInv, ServerInv, PollerInv,
                                    clientVars, kernelVars
<1>3. QED
  BY <1>1, <1>2 DEF Inv

\* The kernel touches no state of the program.
LEMMA CompletesKeepsInv ==
  ASSUME Inv, NEW c \in Clients, Completes(c)
  PROVE  Inv'
<1>1. TypeOK'
  <2>1. arrived' \in BOOLEAN
    BY Zenon DEF Completes, Arrives, Inv, TypeOK
  <2>2. sock' \in [Clients -> {"new", "connecting", "connected", "unconnected", "refused",
                               "reset"}]
    BY DEF Completes, Inv, TypeOK
  <2>3. QED
    BY <2>1, <2>2 DEF Completes, Arrives, Inv, TypeOK, transportVars, callVars, clientVars,
                      serverVars
<1>2. Soundness'
  BY ServerAssumption, SMTT(30) DEF Completes, Arrives, Stopped, Sockets, Outcomes,
                                    AcceptLoop, Given, Latest, Inv, TypeOK, Soundness,
                                    SocketInv, ClientInv, CallInv, ServerInv,
                                    PollerInv, transportVars, callVars, clientVars,
                                    serverVars
<1>3. QED
  BY <1>1, <1>2 DEF Inv

\* Nor does the peer.
LEMMA PeerResetsKeepsInv ==
  ASSUME Inv, NEW c \in Clients, PeerResets(c)
  PROVE  Inv'
<1>1. TypeOK'
  BY SMT DEF PeerResets, Sockets, InListener, Inv, TypeOK, transportVars, callVars,
             clientVars, serverVars
<1>2. Soundness'
  BY ServerAssumption, SMTT(30) DEF PeerResets, Stopped, Sockets, Outcomes,
                                    AcceptLoop, Given, Latest, Inv, TypeOK, Soundness,
                                    SocketInv, ClientInv, CallInv, ServerInv,
                                    PollerInv, transportVars, callVars, clientVars,
                                    serverVars
<1>3. QED
  BY <1>1, <1>2 DEF Inv

----------------------------------------------------------------------------
(* The invariant of the specification.                                     *)

LEMMA InitHasInv == Init => Inv
<1> SUFFICES ASSUME Init PROVE Inv
  OBVIOUS
<1>1. TypeOK
  <2>1. 0 \in 0 .. FailureLimit
    BY LimitAssumption
  <2>2. told \in [Clients -> Seq(Outcomes)]
    BY DEF Init
  <2>3. QED
    BY <2>1, <2>2 DEF Init, TypeOK, Outcomes
<1>2. Soundness
  BY ServerAssumption
     DEF Init, AcceptLoop, Soundness, SocketInv, ClientInv, CallInv, ServerInv, PollerInv,
         Sockets
<1>3. QED
  BY <1>1, <1>2 DEF Inv

LEMMA NextKeepsInv == Inv /\ [Next]_vars => Inv'
<1> SUFFICES ASSUME Inv, [Next]_vars PROVE Inv'
  OBVIOUS
<1>1. CASE User
  BY <1>1, CreateKeepsInv, CreateFailsKeepsInv, ConnectToKeepsInv, CreateSocketKeepsInv,
     CloseConnectionKeepsInv, CancelKeepsInv, CreateServerKeepsInv, UserClosesKeepsInv
     DEF User
<1>2. CASE Handlers
  BY <1>2, OnWriteReadyKeepsInv, OnHangupKeepsInv, ConnectToldKeepsInv, OnReadReadyKeepsInv,
     AcceptSoftErrorKeepsInv, AcceptErrorKeepsInv, AcceptFatalKeepsInv,
     AcceptNothingKeepsInv, AcceptOneKeepsInv, ListenerReturnsKeepsInv,
     ServerHangupKeepsInv, EndCallKeepsInv
     DEF Handlers
<1>3. ASSUME NEW s \in Sockets, ReportReady(s) \/ ReportHangup(s) \/ DispatchNextEvent(s)
      PROVE  Inv'
  BY <1>3, ReportKeepsInv, DispatchNextEventKeepsInv DEF ReportReady, ReportHangup
<1>4. ASSUME NEW c \in Clients, Completes(c) \/ PeerResets(c) PROVE Inv'
  BY <1>4, CompletesKeepsInv, PeerResetsKeepsInv
<1>5. CASE UNCHANGED vars
  BY <1>5 DEF vars, transportVars, callVars, clientVars, serverVars, kernelVars, Inv, TypeOK,
              Soundness, SocketInv, ClientInv, CallInv, ServerInv, PollerInv, Given, Latest
<1>6. QED
  BY <1>1, <1>2, <1>3, <1>4, <1>5 DEF Next

LEMMA InvHolds == Spec => []Inv
BY InitHasInv, NextKeepsInv, PTL DEF Spec

\* Type correctness: every variable keeps the type of its C++ counterpart, only
\* open sockets are attached, and the accept loop never counts beyond its limit.
THEOREM NetworkingTypes == Spec => []TypeOK
<1>1. Inv => TypeOK
  BY DEF Inv
<1>2. QED
  BY <1>1, InvHolds, PTL

\* Ownership: between two calls an open socket belongs to an operation that will
\* tell its outcome or to the user who was given it, an operation that a transport
\* still holds is under way, and a server that is closing has no descriptor.
THEOREM DescriptorsAreOwned == Spec => []DescriptorsOwned
<1>1. Inv => DescriptorsOwned
  BY DEF Inv, TypeOK, Soundness, ClientInv, ServerInv, DescriptorsOwned
<1>2. QED
  BY <1>1, InvHolds, PTL

\* What the listeners are promised: one outcome of each operation, none when it is
\* cancelled before the connection is made, no call of a server's listener after a fatal error, and over a poller
\* no call through a pointer that Finish() or a detach has cleared.
THEOREM CallsAreSound == Spec => []CallsSound
<1>1. Inv => CallsSound
  <2> SUFFICES ASSUME Inv PROVE CallsSound
    OBVIOUS
  <2>1. ASSUME NEW c \in Clients PROVE OneOutcome(c)
    <3>1. told[c] = <<>> \/ \E what \in Outcomes : told[c] = <<what>>
      BY DEF Inv, Soundness, ClientInv
    <3>2. Len(<<>>) = 0 /\ \A what \in Outcomes : Len(<<what>>) = 1
      OBVIOUS
    <3>3. Len(told[c]) = 0 \/ Len(told[c]) = 1
      BY Zenon, <3>1, <3>2
    <3>4. 0 <= 1 /\ 1 <= 1
      OBVIOUS
    <3>5. QED
      BY Zenon, <3>3, <3>4 DEF OneOutcome, Inv, Soundness, ClientInv
  <2>2. QED
    BY <2>1 DEF CallsSound, Inv, TypeOK, Soundness, ServerInv, PollerInv
<1>2. QED
  BY <1>1, InvHolds, PTL

\* What Cancel() really does: whoever cancels before anything was told is never told
\* anything, also when the connection was made by then and its report was on the way
\* or kept in the queue.  amio-net.h:337-339 promises an OnConnect in that case.
THEOREM CancelSilences == Spec => [](\A c \in cancelled : told[c] = <<>>)
<1>1. Inv => \A c \in cancelled : told[c] = <<>>
  BY DEF Inv, TypeOK, Soundness, ClientInv
<1>2. QED
  BY <1>1, InvHolds, PTL

----------------------------------------------------------------------------
(* Addresses.                                                              *)

Tokens == Names \cup Ports \cup {"0", ":", "[", "]"}

\* First() finds the first place of a token that occurs.
LEMMA FirstOfToken ==
  ASSUME NEW text \in Seq(Tokens), NEW token, NEW k \in 1 .. Len(text),
         text[k] = token, \A j \in 1 .. Len(text) : j < k => text[j] # token
  PROVE  First(token, text) = k
<1> DEFINE found == {i \in DOMAIN text : text[i] = token}
<1>1. found \subseteq Nat /\ k \in found
  OBVIOUS
<1>2. ASSUME NEW j \in found PROVE k <= j
  OBVIOUS
<1>3. ASSUME NEW i \in found, \A j \in found : i <= j PROVE i = k
  <2>1. i <= k /\ k <= i
    BY <1>1, <1>2, <1>3
  <2>2. QED
    BY <1>1, <2>1
<1> HIDE DEF found
<1>4. (CHOOSE i \in found : \A j \in found : i <= j) = k
  BY <1>1, <1>2, <1>3
<1>5. QED
  BY <1>1, <1>4 DEF First, found

\* First() of a token that does not occur is zero.
LEMMA FirstOfNone ==
  ASSUME NEW text, NEW token, \A i \in DOMAIN text : text[i] # token
  PROVE  First(token, text) = 0
BY DEF First

\* A text of one token.
LEMMA OneToken ==
  ASSUME NEW t \in Tokens
  PROVE  <<t>> \in Seq(Tokens) /\ Len(<<t>>) = 1 /\ <<t>>[1] = t
OBVIOUS

\* A part of a text.
LEMMA PartOfText ==
  ASSUME NEW text \in Seq(Tokens), NEW m \in Nat, NEW n \in Nat, 1 <= m, m <= n + 1, n <= Len(text)
  PROVE  LET part == SubSeq(text, m, n) IN
           /\ part \in Seq(Tokens) /\ Len(part) = n - m + 1
           /\ \A i \in 1 .. n - m + 1 : part[i] = text[m + i - 1]
<1>1. \A i \in m .. n : text[i] \in Tokens
  BY LenProperties, ElementOfSeq
<1>2. m \in Int /\ n \in Int
  OBVIOUS
<1>3. /\ SubSeq(text, m, n) \in Seq(Tokens)
      /\ Len(SubSeq(text, m, n)) = IF m <= n THEN n - m + 1 ELSE 0
      /\ \A i \in 1 .. n - m + 1 : SubSeq(text, m, n)[i] = text[m + i - 1]
  BY <1>1, <1>2, SubSeqProperties
<1>4. (IF m <= n THEN n - m + 1 ELSE 0) = n - m + 1
  OBVIOUS
<1>5. QED
  BY <1>3, <1>4

\* A text that another one starts with, or has behind a first token.
LEMMA HostWithin ==
  ASSUME NEW text \in Seq(Tokens), NEW host \in Seq(Tokens), NEW skip \in Nat,
         skip + Len(host) <= Len(text),
         \A i \in 1 .. Len(host) : text[skip + i] = host[i]
  PROVE  SubSeq(text, skip + 1, skip + Len(host)) = host
<1> DEFINE part == SubSeq(text, skip + 1, skip + Len(host))
<1>1. Len(host) \in Nat /\ Len(text) \in Nat
  BY LenProperties
<1>2. /\ part \in Seq(Tokens) /\ Len(part) = skip + Len(host) - (skip + 1) + 1
      /\ \A i \in 1 .. skip + Len(host) - (skip + 1) + 1 : part[i] = text[skip + 1 + i - 1]
  <2>1. /\ skip + 1 \in Nat /\ skip + Len(host) \in Nat /\ 1 <= skip + 1
        /\ skip + 1 <= skip + Len(host) + 1 /\ skip + Len(host) <= Len(text)
    BY <1>1
  <2> DEFINE m == skip + 1
             n == skip + Len(host)
  <2> HIDE DEF m, n
  <2>2. m \in Nat /\ n \in Nat /\ 1 <= m /\ m <= n + 1 /\ n <= Len(text)
    BY <2>1 DEF m, n
  <2>3. /\ SubSeq(text, m, n) \in Seq(Tokens) /\ Len(SubSeq(text, m, n)) = n - m + 1
        /\ \A i \in 1 .. n - m + 1 : SubSeq(text, m, n)[i] = text[m + i - 1]
    BY <2>2, PartOfText
  <2>4. QED
    BY <2>3 DEF m, n
<1> HIDE DEF part
<1>3. skip + Len(host) - (skip + 1) + 1 = Len(host)
  BY <1>1
<1>4. Len(part) = Len(host)
  BY <1>2, <1>3
<1>5. ASSUME NEW i \in 1 .. Len(part) PROVE part[i] = host[i]
  <2>1. i \in 1 .. Len(host) /\ skip + 1 + i - 1 = skip + i
    BY <1>1, <1>4
  <2>2. QED
    BY <1>2, <1>3, <2>1
<1>6. part = host
  BY Zenon, <1>2, <1>4, <1>5, SeqEqual
<1>7. QED
  BY <1>6 DEF part

\* A service that is not zero is found after its colon.
LEMMA ServiceFound ==
  ASSUME NEW text \in Seq(Tokens), NEW colon \in Nat \ {0}, colon + 1 = Len(text),
         text[colon] = ":", NEW port \in Ports, text[Len(text)] = port
  PROVE  ServiceAfter(colon, text) = <<port>>
<1>1. From(colon, text) # <<":", "0">>
  <2>1. From(colon, text)[2] = port
    BY DEF From
  <2>2. <<":", "0">>[2] = "0" /\ port # "0"
    BY PortsAssumption
  <2>3. QED
    BY <2>1, <2>2
<1>2. From(colon + 1, text) = <<port>>
  <2> DEFINE tail == From(colon + 1, text)
  <2>1. tail \in Seq(Tokens) /\ Len(tail) = 1 /\ tail[1] = port
    BY DEF From
  <2> HIDE DEF tail
  <2>2. tail = <<port>>
    BY <2>1
  <2>3. QED
    BY <2>2 DEF tail
<1>3. QED
  BY <1>1, <1>2 DEF ServiceAfter

\* getaddrinfo() takes back a host, with a port or without.
LEMMA LookupFinds ==
  ASSUME NEW family \in Families, NEW host \in Hosts[family], NEW port \in Ports
  PROVE  /\ Lookup(family, host, <<port>>) = [family |-> family, host |-> host, port |-> port]
         /\ Lookup(family, host, <<>>) = [family |-> family, host |-> host, port |-> "0"]
<1>1. <<port>> \in Services /\ <<port>> # <<>> /\ Head(<<port>>) = port
  BY DEF Services
<1>2. QED
  BY <1>1 DEF Lookup, PortOf

\* Appending a text.
LEMMA Appended ==
  ASSUME NEW s \in Seq(Tokens), NEW t \in Seq(Tokens)
  PROVE  LET all == s \o t IN
           /\ all \in Seq(Tokens) /\ Len(all) = Len(s) + Len(t)
           /\ \A i \in 1 .. Len(s) : all[i] = s[i]
           /\ \A i \in 1 .. Len(t) : all[Len(s) + i] = t[i]
<1>1. /\ s \o t \in Seq(Tokens) /\ Len(s \o t) = Len(s) + Len(t)
      /\ \A i \in 1 .. Len(s) + Len(t) :
           (s \o t)[i] = IF i <= Len(s) THEN s[i] ELSE t[i - Len(s)]
  BY Zenon, ConcatProperties
<1>2. Len(s) \in Nat /\ Len(t) \in Nat
  BY LenProperties
<1>3. ASSUME NEW i \in 1 .. Len(s) PROVE (s \o t)[i] = s[i]
  <2>1. i \in 1 .. Len(s) + Len(t) /\ i <= Len(s)
    BY <1>2
  <2>2. QED
    BY <1>1, <2>1
<1>4. ASSUME NEW i \in 1 .. Len(t) PROVE (s \o t)[Len(s) + i] = t[i]
  <2>1. Len(s) + i \in 1 .. Len(s) + Len(t) /\ ~(Len(s) + i <= Len(s)) /\ Len(s) + i - Len(s) = i
    BY <1>2
  <2> DEFINE j == Len(s) + i
  <2>2. j \in 1 .. Len(s) + Len(t) /\ ~(j <= Len(s)) /\ j - Len(s) = i
    BY <2>1
  <2> HIDE DEF j
  <2>3. (s \o t)[j] = t[j - Len(s)]
    BY <1>1, <2>2
  <2>4. QED
    BY <2>2, <2>3 DEF j
<1>5. QED
  BY <1>1, <1>3, <1>4

\* Where Resolve() cuts.
LEMMA CutsAtColon ==
  ASSUME NEW text, NEW n \in Nat, NEW colon, colon = n + 1, First(":", text) = colon
  PROVE  ResolveIPv4(text) = Lookup("IPv4", SubSeq(text, 1, n), ServiceAfter(colon, text))
<1>1. colon # 0 /\ colon - 1 = n
  OBVIOUS
<1>2. QED
  BY <1>1 DEF ResolveIPv4

LEMMA CutsBrackets ==
  ASSUME NEW text, text[1] = "[", NEW n \in Nat, NEW close, close = n + 1, close # 0,
         First("]", text) = close
  PROVE  ResolveIPv6(text)
           = Lookup("IPv6", SubSeq(text, 2, n),
                    ServiceAfter(First(":", From(close, text)), From(close, text)))
<1>1. close - 1 = n
  OBVIOUS
<1>2. QED
  BY <1>1 DEF ResolveIPv6

\* The text of an IPv4 address with a port resolves to it: the host has no colon.
LEMMA ResolvesIPv4 ==
  ASSUME NEW host \in Hosts["IPv4"], NEW port \in Ports
  PROVE  ResolveIPv4(host \o (<<":">> \o <<port>>))
           = [family |-> "IPv4", host |-> host, port |-> port]
<1> DEFINE pair == <<":">> \o <<port>>
           text == host \o pair
           n    == Len(host)
<1>1. host \in Seq(Tokens) /\ n \in Nat /\ \A i \in 1 .. n : host[i] # ":"
  <2>1. host \in Seq(Names)
    BY HostsAssumption
  <2>2. host \in Seq(Tokens)
    BY <2>1, SeqMonotonic DEF Tokens
  <2>3. \A i \in 1 .. Len(host) : host[i] \in Names
    BY <2>1, ElementOfSeq
  <2>4. QED
    BY <2>2, <2>3, NamesAssumption, LenProperties
<1>2. pair \in Seq(Tokens) /\ Len(pair) = 2 /\ pair[1] = ":" /\ pair[2] = port
  <2>1. ":" \in Tokens /\ port \in Tokens
    BY DEF Tokens
  <2>2. QED
    BY <2>1, OneToken, Appended
<1> HIDE DEF pair
<1>3. /\ text \in Seq(Tokens) /\ Len(text) = n + Len(pair)
      /\ \A i \in 1 .. n : text[i] = host[i]
      /\ \A i \in 1 .. Len(pair) : text[n + i] = pair[i]
  BY Zenon, <1>1, <1>2, Appended
<1> HIDE DEF text, n
<1>4. Len(text) = n + 2 /\ text[n + 1] = ":" /\ text[n + 2] = port
  BY <1>1, <1>2, <1>3
<1>5. First(":", text) = n + 1
  <2>1. n + 1 \in 1 .. Len(text) /\ \A j \in 1 .. Len(text) : j < n + 1 => text[j] # ":"
    BY <1>1, <1>3, <1>4
  <2>2. QED
    BY Zenon, <1>3, <1>4, <2>1, FirstOfToken
<1>6. SubSeq(text, 1, n) = host
  <2>1. SubSeq(text, 0 + 1, 0 + Len(host)) = host
    <3>1. /\ 0 \in Nat /\ 0 + Len(host) <= Len(text)
          /\ \A i \in 1 .. Len(host) : text[0 + i] = host[i]
      BY <1>1, <1>3, <1>4 DEF n
    <3>2. QED
      BY Zenon, <1>1, <1>3, <3>1, HostWithin
  <2>2. 0 + 1 = 1 /\ 0 + Len(host) = n
    BY <1>1 DEF n
  <2>3. QED
    BY Zenon, <2>1, <2>2
<1>7. ServiceAfter(n + 1, text) = <<port>>
  <2>1. n + 1 \in Nat \ {0} /\ n + 1 + 1 = Len(text) /\ text[Len(text)] = port
    BY <1>1, <1>4
  <2>2. QED
    BY Zenon, <1>3, <1>4, <2>1, ServiceFound
<1>8. ResolveIPv4(text) = Lookup("IPv4", host, <<port>>)
  <2>1. ResolveIPv4(text) = Lookup("IPv4", SubSeq(text, 1, n), ServiceAfter(n + 1, text))
    BY <1>1, <1>5, CutsAtColon
  <2>2. QED
    BY Zenon, <1>6, <1>7, <2>1
<1>9. QED
  BY Zenon, <1>8, LookupFinds DEF text, pair, Families

\* The colon and the service behind a bracket.
LEMMA BehindBracket ==
  ASSUME NEW tail \in Seq(Tokens), Len(tail) = 3, tail[1] = "]", tail[2] = ":",
         NEW port \in Ports, tail[3] = port
  PROVE  ServiceAfter(First(":", tail), tail) = <<port>>
<1>1. First(":", tail) = 2
  BY FirstOfToken
<1>2. ServiceAfter(2, tail) = <<port>>
  BY ServiceFound
<1>3. QED
  BY <1>1, <1>2

\* The text of an IPv6 address with a port: the host, full of colons, is within the
\* only brackets.
LEMMA PrintsIPv6 ==
  ASSUME NEW host \in Seq(Tokens), NEW port \in Ports
  PROVE  LET text == <<"[">> \o host \o <<"]", ":">> \o <<port>>
             n    == Len(host) IN
           /\ text \in Seq(Tokens) /\ Len(text) = n + 4 /\ text[1] = "["
           /\ \A i \in 1 .. n : text[1 + i] = host[i]
           /\ text[n + 2] = "]" /\ text[n + 3] = ":" /\ text[n + 4] = port
<1> DEFINE n  == Len(host)
           s1 == <<"[">> \o host
           s2 == s1 \o <<"]", ":">>
           s3 == s2 \o <<port>>
<1>1. n \in Nat /\ "[" \in Tokens /\ "]" \in Tokens /\ ":" \in Tokens /\ port \in Tokens
  BY LenProperties DEF Tokens
<1>2. /\ s1 \in Seq(Tokens) /\ Len(s1) = 1 + n /\ s1[1] = "["
      /\ \A i \in 1 .. n : s1[1 + i] = host[i]
  <2> DEFINE open == <<"[">>
  <2>1. open \in Seq(Tokens) /\ Len(open) = 1 /\ open[1] = "["
    BY <1>1, OneToken
  <2> HIDE DEF open
  <2>2. /\ open \o host \in Seq(Tokens) /\ Len(open \o host) = Len(open) + Len(host)
        /\ \A i \in 1 .. Len(open) : (open \o host)[i] = open[i]
        /\ \A i \in 1 .. Len(host) : (open \o host)[Len(open) + i] = host[i]
    BY Zenon, <2>1, Appended
  <2>3. (open \o host)[1] = "["
    BY <2>1, <2>2
  <2>4. QED
    BY Zenon, <2>1, <2>2, <2>3 DEF open
<1> HIDE DEF s1
<1>3. /\ s2 \in Seq(Tokens) /\ Len(s2) = n + 3 /\ s2[n + 2] = "]" /\ s2[n + 3] = ":"
      /\ \A i \in 1 .. n + 1 : s2[i] = s1[i]
  <2> DEFINE close == <<"]", ":">>
  <2>1. close \in Seq(Tokens) /\ Len(close) = 2 /\ close[1] = "]" /\ close[2] = ":"
    BY <1>1
  <2> HIDE DEF close
  <2>2. /\ s1 \o close \in Seq(Tokens) /\ Len(s1 \o close) = Len(s1) + Len(close)
        /\ \A i \in 1 .. Len(s1) : (s1 \o close)[i] = s1[i]
        /\ \A i \in 1 .. Len(close) : (s1 \o close)[Len(s1) + i] = close[i]
    BY Zenon, <1>2, <2>1, Appended
  <2>3. /\ Len(s1) = n + 1 /\ Len(s1) + 1 = n + 2 /\ Len(s1) + 2 = n + 3
        /\ Len(s1) + Len(close) = n + 3
    BY <1>1, <1>2, <2>1
  <2>4. (s1 \o close)[Len(s1) + 1] = "]" /\ (s1 \o close)[Len(s1) + 2] = ":"
    BY <2>1, <2>2
  <2>5. s2 = s1 \o close
    BY Zenon DEF close
  <2> HIDE DEF s2
  <2>6. QED
    BY Zenon, <2>2, <2>3, <2>4, <2>5
<1> HIDE DEF s2
<1>4. /\ s3 \in Seq(Tokens) /\ Len(s3) = n + 4 /\ s3[n + 4] = port
      /\ \A i \in 1 .. n + 3 : s3[i] = s2[i]
  <2> DEFINE last == <<port>>
  <2>1. last \in Seq(Tokens) /\ Len(last) = 1 /\ last[1] = port
    BY <1>1, OneToken
  <2> HIDE DEF last
  <2>2. /\ s2 \o last \in Seq(Tokens) /\ Len(s2 \o last) = Len(s2) + Len(last)
        /\ \A i \in 1 .. Len(s2) : (s2 \o last)[i] = s2[i]
        /\ \A i \in 1 .. Len(last) : (s2 \o last)[Len(s2) + i] = last[i]
    BY Zenon, <1>3, <2>1, Appended
  <2>3. Len(s2) + 1 = n + 4 /\ Len(s2) + Len(last) = n + 4
    BY <1>1, <1>3, <2>1
  <2>4. (s2 \o last)[Len(s2) + 1] = port
    BY <2>1, <2>2
  <2>5. s3 = s2 \o last
    BY Zenon DEF last
  <2> HIDE DEF s3
  <2>6. QED
    BY Zenon, <1>3, <2>2, <2>3, <2>4, <2>5
<1> HIDE DEF s3
<1>5. s3[1] = "[" /\ s3[n + 2] = "]" /\ s3[n + 3] = ":"
  <2>1. 1 \in 1 .. n + 1 /\ 1 \in 1 .. n + 3 /\ n + 2 \in 1 .. n + 3 /\ n + 3 \in 1 .. n + 3
    BY <1>1
  <2>2. QED
    BY <1>2, <1>3, <1>4, <2>1
<1>6. ASSUME NEW i \in 1 .. n PROVE s3[1 + i] = host[i]
  <2>1. 1 + i \in 1 .. n + 1 /\ 1 + i \in 1 .. n + 3
    BY <1>1
  <2>2. QED
    BY Zenon, <1>2, <1>3, <1>4, <2>1
<1>7. s3 = <<"[">> \o host \o <<"]", ":">> \o <<port>>
  BY Zenon DEF s1, s2, s3
<1> HIDE DEF n
<1>8. LET text == s3 IN
        /\ text \in Seq(Tokens) /\ Len(text) = n + 4 /\ text[1] = "["
        /\ \A i \in 1 .. n : text[1 + i] = host[i]
        /\ text[n + 2] = "]" /\ text[n + 3] = ":" /\ text[n + 4] = port
  BY Zenon, <1>4, <1>5, <1>6
<1>9. QED
  BY Zenon, <1>7, <1>8 DEF n

\* It resolves to that address.
LEMMA ResolvesIPv6 ==
  ASSUME NEW host \in Hosts["IPv6"], NEW port \in Ports
  PROVE  ResolveIPv6(<<"[">> \o host \o <<"]", ":">> \o <<port>>)
           = [family |-> "IPv6", host |-> host, port |-> port]
<1> DEFINE text == <<"[">> \o host \o <<"]", ":">> \o <<port>>
           n    == Len(host)
           tail == From(n + 2, text)
<1>1. host \in Seq(Tokens) /\ n \in Nat /\ \A i \in 1 .. n : host[i] # "]"
  <2>1. host \in Seq(Names \cup {":"})
    BY HostsAssumption
  <2>2. host \in Seq(Tokens)
    BY <2>1, SeqMonotonic DEF Tokens
  <2>3. \A i \in 1 .. Len(host) : host[i] \in Names \cup {":"}
    BY <2>1, ElementOfSeq
  <2>4. QED
    BY <2>2, <2>3, NamesAssumption, LenProperties
<1>2. /\ text \in Seq(Tokens) /\ Len(text) = n + 4 /\ text[1] = "["
      /\ \A i \in 1 .. n : text[1 + i] = host[i]
      /\ text[n + 2] = "]" /\ text[n + 3] = ":" /\ text[n + 4] = port
  BY Zenon, <1>1, PrintsIPv6
<1> HIDE DEF text, n
<1>3. First("]", text) = n + 2
  <2>1. n + 2 \in 1 .. Len(text)
    BY <1>1, <1>2
  <2>2. ASSUME NEW j \in 1 .. Len(text), j < n + 2 PROVE text[j] # "]"
    <3>1. CASE j = 1
      BY <1>2, <3>1
    <3>2. CASE j # 1
      <4>1. j - 1 \in 1 .. n /\ 1 + (j - 1) = j
        BY <1>1, <1>2, <2>2, <3>2
      <4>2. text[1 + (j - 1)] = host[j - 1] /\ host[j - 1] # "]"
        BY Zenon, <1>1, <1>2, <4>1
      <4>3. QED
        BY <4>1, <4>2
    <3>3. QED
      BY <3>1, <3>2
  <2>3. QED
    BY Zenon, <1>2, <2>1, <2>2, FirstOfToken
<1>4. SubSeq(text, 2, n + 1) = host
  <2>1. SubSeq(text, 1 + 1, 1 + Len(host)) = host
    <3>1. /\ 1 \in Nat /\ 1 + Len(host) <= Len(text)
          /\ \A i \in 1 .. Len(host) : text[1 + i] = host[i]
      BY <1>1, <1>2 DEF n
    <3>2. QED
      BY Zenon, <1>1, <1>2, <3>1, HostWithin
  <2>2. 1 + 1 = 2 /\ 1 + Len(host) = n + 1
    BY <1>1 DEF n
  <2>3. QED
    BY Zenon, <2>1, <2>2
<1>5. tail \in Seq(Tokens) /\ Len(tail) = 3 /\ tail[1] = "]" /\ tail[2] = ":" /\ tail[3] = port
  <2>1. /\ n + 2 \in Nat /\ Len(text) \in Nat /\ 1 <= n + 2 /\ n + 2 <= Len(text) + 1
        /\ Len(text) <= Len(text)
    BY <1>1, <1>2
  <2>2. /\ tail \in Seq(Tokens) /\ Len(tail) = Len(text) - (n + 2) + 1
        /\ \A i \in 1 .. Len(text) - (n + 2) + 1 : tail[i] = text[n + 2 + i - 1]
    BY Zenon, <1>2, <2>1, PartOfText DEF From
  <2> HIDE DEF tail
  <2>3. Len(text) - (n + 2) + 1 = 3
    BY <1>1, <1>2
  <2>4. /\ tail[1] = text[n + 2 + 1 - 1] /\ tail[2] = text[n + 2 + 2 - 1]
        /\ tail[3] = text[n + 2 + 3 - 1]
    BY <2>2, <2>3
  <2>5. n + 2 + 1 - 1 = n + 2 /\ n + 2 + 2 - 1 = n + 3 /\ n + 2 + 3 - 1 = n + 4
    BY <1>1
  <2>6. QED
    BY <1>2, <2>2, <2>3, <2>4, <2>5
<1> HIDE DEF tail
<1>6. ServiceAfter(First(":", tail), tail) = <<port>>
  BY Zenon, <1>5, BehindBracket
<1>7. ResolveIPv6(text) = Lookup("IPv6", host, <<port>>)
  <2>1. n + 1 \in Nat /\ n + 2 = n + 1 + 1 /\ n + 2 # 0
    BY <1>1
  <2>2. ResolveIPv6(text) = Lookup("IPv6", SubSeq(text, 2, n + 1),
                                   ServiceAfter(First(":", tail), tail))
    BY <1>2, <1>3, <2>1, CutsBrackets DEF tail
  <2>3. QED
    BY Zenon, <1>4, <1>6, <2>2
<1>8. QED
  BY Zenon, <1>7, LookupFinds DEF text, Families

\* What ToString() prints of any address, with or without a port, Resolve() takes
\* for that very address.
THEOREM NamesReadBack == Spec => []AddressesReadBack
<1>1. AddressesReadBack
  <2> SUFFICES ASSUME NEW a \in Addresses PROVE Resolve(a.family, ToString(a)) = a
    BY DEF AddressesReadBack
  <2>1. /\ a = [family |-> a.family, host |-> a.host, port |-> a.port]
        /\ a.port \in Ports \cup {"0"} /\ a.family \in Families /\ a.host \in Hosts[a.family]
        /\ a.family = "Unix" => a.port = "0"
    BY DEF Addresses, Families
  <2>2. /\ <<>> \in Services \cup {<<>>}
        /\ Lookup(a.family, a.host, <<>>) = [family |-> a.family, host |-> a.host, port |-> "0"]
    BY <2>1 DEF Lookup, PortOf
  <2>3. ASSUME a.family = "IPv4", a.port = "0" PROVE Resolve(a.family, ToString(a)) = a
    <3>1. a.host \in Seq(Names)
      BY <2>1, <2>3, HostsAssumption
    <3>2. ToString(a) = a.host
      BY <2>3, <3>1, ConcatEmptySeq DEF ToString, ToString4
    <3>3. \A i \in DOMAIN a.host : a.host[i] # ":"
      BY <3>1, LenProperties, ElementOfSeq, NamesAssumption
    <3>4. First(":", a.host) = 0
      BY <3>3, FirstOfNone
    <3>5. ResolveIPv4(a.host) = Lookup("IPv4", a.host, <<>>)
      BY <3>4 DEF ResolveIPv4, ServiceAfter
    <3>6. QED
      BY <2>1, <2>2, <2>3, <3>2, <3>5 DEF Resolve
  <2>4. ASSUME a.family = "IPv4", a.port # "0" PROVE Resolve(a.family, ToString(a)) = a
    <3>1. ToString(a) = a.host \o (<<":">> \o <<a.port>>)
      BY <2>4 DEF ToString, ToString4, ServiceOf
    <3>2. QED
      BY <2>1, <2>4, <3>1, ResolvesIPv4 DEF Resolve
  <2>5. ASSUME a.family = "IPv6", a.port = "0" PROVE Resolve(a.family, ToString(a)) = a
    <3>1. ToString(a) = a.host
      BY <2>5 DEF ToString, ToString6
    <3>2. \A i \in DOMAIN a.host : a.host[i] # "]"
      <4>1. a.host \in Seq(Names \cup {":"})
        BY <2>1, <2>5, HostsAssumption
      <4>2. QED
        BY <4>1, LenProperties, ElementOfSeq, NamesAssumption
    <3>3. First("]", a.host) = 0
      BY <3>2, FirstOfNone
    <3>4. ResolveIPv6(a.host) = Lookup("IPv6", a.host, <<>>)
      BY <3>3 DEF ResolveIPv6
    <3>5. QED
      BY <2>1, <2>2, <2>5, <3>1, <3>4 DEF Resolve
  <2>6. ASSUME a.family = "IPv6", a.port # "0" PROVE Resolve(a.family, ToString(a)) = a
    <3>1. ToString(a) = <<"[">> \o a.host \o <<"]", ":">> \o <<a.port>>
      BY <2>6 DEF ToString, ToString6, ServiceOf
    <3>2. QED
      BY <2>1, <2>6, <3>1, ResolvesIPv6 DEF Resolve
  <2>7. ASSUME a.family = "Unix" PROVE Resolve(a.family, ToString(a)) = a
    BY <2>1, <2>7 DEF Resolve, ResolveUnix, ToString
  <2>8. QED
    BY Zenon, <2>1, <2>3, <2>4, <2>5, <2>6, <2>7 DEF Families
<1>2. QED
  BY <1>1, PTL
==============================================================================
