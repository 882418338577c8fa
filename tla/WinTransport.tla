----------------------------- MODULE WinTransport -----------------------------
(***************************************************************************)
(* Transports of Windows (windows/windows-transport.cc, windows-file.cc,   *)
(* windows-socket.cc), as their users call them: Attach(), Read(),         *)
(* Write(), Cancel(), Close(), from any thread, and immediate delivery.    *)
(*                                                                         *)
(* Read() and Write() link the context, make the system call, and unlink   *)
(* if they think that no packet will come.  SocketTransport has the test   *)
(* for that reversed: it takes success for failure.  If the packet is then *)
(* in the port, the assertion of Dispatch() trips, or a reference is       *)
(* released twice: misreported, and the model ends there.                  *)
(*                                                                         *)
(* A user starts with a context what he has no other request for, as       *)
(* amio-windows.h asks.  What a listener does is here what another thread  *)
(* does meanwhile, as no lock is held.                                     *)
(***************************************************************************)
EXTENDS CompletionPort

CONSTANTS Files   \* the other transports are sockets

VARIABLES
  immediate,      \* of the poller: "off", "enabled", "required"
  flagged,        \* transports with kTransportImmediateDelivery
  skips,          \* handles of which the kernel queues no packet on success
  given,          \* history: requests not given back to the user, per context
  misreported     \* a socket's request is unlinked while its packet is in the port

deliveryVars == <<immediate, flagged, skips>>
userVars == <<given, misreported>>

TransportInit ==
  /\ immediate = "off" /\ flagged = {} /\ skips = {}
  /\ given = [c \in Contexts |-> 0] /\ misreported = FALSE

----------------------------------------------------------------------------
(* Attaching, immediate delivery, closing.                                 *)

\* EnableImmediateDelivery() or RequireImmediateDelivery(), of which the second
\* leaves it at that when the first was called before.
EnableImmediateDelivery(mode) ==
  /\ immediate = "off" /\ mode \in {"enabled", "required"}
  /\ immediate' = mode
  /\ UNCHANGED <<portVars, flagged, skips, userVars>>

\* Attach(), with l for the listener.  A socket is never flagged.
SetsFlag(t) == IF t \in Files THEN flagged \cup {t} ELSE flagged

Attaches(t, l) ==
  /\ attached' = attached \cup {t} /\ listener' = [listener EXCEPT ![t] = l]
  /\ UNCHANGED closed

CanAttach(t) == listener[t] = None /\ t \notin closed
TriesImmediate(t) == immediate # "off" /\ t \notin flagged

AttachTo(t, l) ==
  /\ CanAttach(t)
  /\ \/ TriesImmediate(t) /\ skips' = skips \cup {t} /\ flagged' = SetsFlag(t)
     \/ /\ ~TriesImmediate(t) \/ immediate = "enabled"       \* not available: never mind
        /\ UNCHANGED <<skips, flagged>>
  /\ Attaches(t, l)
  /\ UNCHANGED immediate

Attach(t) ==
  /\ AttachTo(t, "user")
  /\ UNCHANGED <<contextVars, busy, port, pollVars, doing, aborted, userVars>>

\* Close() in its two steps: the handle, then, under the lock, poller and listener.
CloseHandle(t) ==
  /\ t \notin closed
  /\ closed' = closed \cup {t}
  /\ UNCHANGED <<contextVars, attached, listener, busy, port, pollVars, doing, aborted,
                 deliveryVars, userVars>>

ClearListener(t) ==
  /\ t \in closed \cap attached
  /\ attached' = attached \ {t} /\ listener' = [listener EXCEPT ![t] = None]
  /\ UNCHANGED <<contextVars, closed, busy, port, pollVars, doing, aborted, deliveryVars,
                 userVars>>

----------------------------------------------------------------------------
(* Read() and Write().                                                     *)

\* checkOp(), get_poller(), and link().
Start(u, c, t, type) ==
  /\ doing[u] = None /\ given[c] = 0 /\ ~aborted
  /\ t \notin closed /\ t \in attached /\ request[c] = "None"
  /\ Link(c, t, type)
  /\ Doing(u, c, t, type, "issue")
  /\ given' = [given EXCEPT ![c] = 1]
  /\ UNCHANGED <<transportVars, busy, port, pollVars, aborted, deliveryVars, misreported>>

\* What the system call may say.
Outcomes(t, type) ==
  IF t \in closed THEN {"failed"}
  ELSE {"pending", "done", "failed"}
         \cup (IF type = "Read" THEN IF t \in Files THEN {"eof"} ELSE {"truncated"} ELSE {})

\* The kernel's side of it: success is queued unless it skips the port.
Queues(t, outcome) == outcome = "done" /\ t \notin skips

\* The code's side of it: where read() and write() unlink.
AlwaysUndoes(t, outcome) == outcome # "pending"    \* fault: done means no packet
FileUndoes(t, outcome) ==
  outcome = "failed" \/ (outcome \in {"done", "eof"} /\ t \in flagged)
SocketUndoes(t, outcome) ==
  outcome \in {"done", "truncated"} \/ (outcome = "failed" /\ t \in flagged)
Undoes(t, outcome) == IF t \in Files THEN FileUndoes(t, outcome) ELSE SocketUndoes(t, outcome)

Issue(u, outcome) ==
  /\ At(u, "issue") /\ doing[u].type \in {"Read", "Write"} /\ ~aborted
  /\ LET c == doing[u].ctx
         t == doing[u].on IN
       /\ outcome \in Outcomes(t, doing[u].type)
       /\ busy' = IF outcome = "pending" THEN busy \cup {<<c, t>>} ELSE busy
       /\ port' = IF Queues(t, outcome) THEN Append(port, <<c, t>>) ELSE port
       /\ IF Undoes(t, outcome)
            THEN /\ doing' = [doing EXCEPT ![u].step = "undo"]
                 /\ misreported' = (Queues(t, outcome) /\ t \notin Files)
            ELSE doing' = [doing EXCEPT ![u] = None] /\ UNCHANGED misreported
  /\ UNCHANGED <<contextVars, transportVars, pollVars, aborted, deliveryVars, given>>

\* The context is in the result, with an error or as immediately delivered.
Returns(u) ==
  /\ Undo(u)
  /\ given' = [given EXCEPT ![doing[u].ctx] = @ - 1]
  /\ UNCHANGED <<deliveryVars, misreported>>

\* Cancel(): the packet still comes.
Cancel(t, c) ==
  /\ t \in attached /\ Cancellable(c)
  /\ request' = [request EXCEPT ![c] = "Cancelled"]
  /\ UNCHANGED <<count, refs, held, transportVars, busy, port, pollVars, doing, aborted,
                 deliveryVars, userVars>>

----------------------------------------------------------------------------
(* Messages, and the user's listener.                                      *)

\* A context may be posted again while it is in the port for messages.
UserPosts(u, c, l) ==
  /\ given[c] = 0 \/ request[c] = "Message"
  /\ Post(u, c, l)
  /\ given' = [given EXCEPT ![c] = @ + 1]
  /\ UNCHANGED <<deliveryVars, misreported>>

Notified(p, result) ==
  /\ Dispatch(p, result)
  /\ given' = IF call'[p] = None THEN given ELSE [given EXCEPT ![call'[p].ctx] = @ - 1]
  /\ UNCHANGED <<deliveryVars, misreported>>

ListenerReturns(p) ==
  /\ call[p] # None
  /\ call' = [call EXCEPT ![p] = None]
  /\ UNCHANGED <<contextVars, transportVars, busy, port, entries, doing, aborted, deliveryVars,
                 userVars>>
==============================================================================
