---------------------------- MODULE CompletionPort ----------------------------
(***************************************************************************)
(* The poller of Windows and the contexts of its requests                  *)
(* (windows/windows-iocp.cc, windows-base-poller.cc, windows-context.cc).  *)
(*                                                                         *)
(* A request is linked to its context before the system call: from then on *)
(* the kernel holds a reference to the context and, through the completion *)
(* key, one to the transport or listener.  A packet in the port gives both *)
(* back to the thread that dispatches it.  link() comes first since the    *)
(* packet may be dispatched before the system call returns, and unlink()   *)
(* undoes it when there will be no packet.                                 *)
(*                                                                         *)
(* What the code does under lock_ is one step here.  The kernel is         *)
(* external: a busy request completes at some time, and queues a packet.   *)
(***************************************************************************)
EXTENDS Naturals, FiniteSets, SequencesExt

CONSTANTS
  Transports,
  Contexts,
  Listeners,      \* those that Post() is given
  Users, Pollers, \* the threads that only make requests, those that also poll
  BatchSize,      \* entries of the poll buffer
  None

Threads == Users \cup Pollers

\* What a thread is about, in whatever makes a request, and what a polling thread
\* calls a listener for.
Doings  == [ctx : Contexts, on : Transports \cup Listeners,
            type : {"Message", "Read", "Write", "Other"}, step : {"link", "send", "issue", "undo"}]
Notices == [to : Listeners \cup {"user", "server", "op", None}, ctx : Contexts,
            result : {"done", "error"}, method : {"OnRead", "OnWrite", "OnCompleted"}]

ASSUME KeyAssumption == Transports \cap Listeners = {}
ASSUME NoneAssumption ==
  None \notin Transports \cup Contexts \cup Doings \cup Notices \cup {"user", "server", "op"}
ASSUME ThreadsAssumption == Users \cap Pollers = {} /\ IsFiniteSet(Users \cup Pollers)
ASSUME BatchAssumption == BatchSize \in Nat \ {0}

VARIABLES
  request,        \* request_ of a context
  count,          \* count_: messages that it is in the port for
  refs,           \* references to it that link() took
  held,           \* references to a transport that link() took
  closed,         \* transports whose handle is gone
  attached,       \* transports whose poller_ is set
  listener,       \* listener_ of a transport
  busy,           \* requests the kernel is at: <<context, transport>>
  port,           \* packets: <<context, completion key>>
  entries,        \* dequeued by each thread, still to be dispatched
  call,           \* the call of a listener that a polling thread is in
  doing,          \* the request that a thread is about
  aborted         \* an assertion failed, or a null pointer was called

contextVars   == <<request, count, refs, held>>
transportVars == <<closed, attached, listener>>
pollVars      == <<entries, call>>
portVars == <<contextVars, transportVars, busy, port, pollVars, doing, aborted>>

Packets == Contexts \X (Transports \cup Listeners)

PortInit ==
  /\ request = [c \in Contexts |-> "None"] /\ count = [c \in Contexts |-> 0]
  /\ refs = [c \in Contexts |-> 0] /\ held = [t \in Transports |-> 0]
  /\ closed = {} /\ attached = {} /\ listener = [t \in Transports |-> None]
  /\ busy = {} /\ port = <<>>
  /\ entries = [p \in Pollers |-> <<>>] /\ call = [p \in Pollers |-> None]
  /\ doing = [th \in Threads |-> None]
  /\ aborted = FALSE

----------------------------------------------------------------------------
(* Contexts.                                                               *)

Link(c, key, type) ==
  /\ request' = [request EXCEPT ![c] = type]
  /\ count' = IF type = "Message" THEN [count EXCEPT ![c] = @ + 1] ELSE count
  /\ refs' = [refs EXCEPT ![c] = @ + 1]
  /\ held' = IF key \in Transports THEN [held EXCEPT ![key] = @ + 1] ELSE held

\* WinContext::detach(): a context is in the port as often as it was posted.
DetachesEach(c) == count[c] >= 0                   \* fault: the count is not tested
Detaches(c) == request[c] = "Message" => count[c] = 1

\* take(): the reference goes to the IOResult.
Take(c) ==
  /\ request' = IF Detaches(c) THEN [request EXCEPT ![c] = "None"] ELSE request
  /\ count' = IF request[c] = "Message" THEN [count EXCEPT ![c] = @ - 1] ELSE count
  /\ refs' = [refs EXCEPT ![c] = @ - 1]

Drop(key) == held' = IF key \in Transports THEN [held EXCEPT ![key] = @ - 1] ELSE held

Unlink(c, key) == Take(c) /\ Drop(key)

\* cancel_locked().
Cancellable(c) == request[c] \notin {"None", "Message"}

----------------------------------------------------------------------------
(* Post(), by any thread, in steps: Post() looks at the state, link() is   *)
(* under the lock, and the packet is sent outside of it.                   *)

Doing(th, c, key, type, step) ==
  doing' = [doing EXCEPT ![th] = [ctx |-> c, on |-> key, type |-> type, step |-> step]]
At(th, step) == doing[th] # None /\ doing[th].step = step

Post(th, c, l) ==
  /\ doing[th] = None /\ request[c] \in {"None", "Message"}
  /\ Doing(th, c, l, "Message", "link")
  /\ UNCHANGED <<contextVars, transportVars, busy, port, pollVars, aborted>>

LinkMessage(th) ==
  /\ At(th, "link")
  /\ Link(doing[th].ctx, doing[th].on, "Message")
  /\ doing' = [doing EXCEPT ![th].step = "send"]
  /\ UNCHANGED <<transportVars, busy, port, pollVars, aborted>>

Send(th) ==
  /\ At(th, "send")
  /\ port' = Append(port, <<doing[th].ctx, doing[th].on>>)
  /\ doing' = [doing EXCEPT ![th] = None]
  /\ UNCHANGED <<contextVars, transportVars, busy, pollVars, aborted>>

SendFails(th) ==
  /\ At(th, "send")
  /\ doing' = [doing EXCEPT ![th].step = "undo"]
  /\ UNCHANGED <<contextVars, transportVars, busy, port, pollVars, aborted>>

\* unlink(), of a message or of a request that nothing will come of.
Undo(th) ==
  /\ At(th, "undo")
  /\ Unlink(doing[th].ctx, doing[th].on)
  /\ doing' = [doing EXCEPT ![th] = None]
  /\ UNCHANGED <<transportVars, busy, port, pollVars, aborted>>

----------------------------------------------------------------------------
(* The kernel.                                                             *)

\* A request ends, with or without success, and also when it is cancelled or
\* its handle closed.
Completes(b) ==
  /\ b \in busy /\ ~aborted
  /\ busy' = busy \ {b} /\ port' = Append(port, b)
  /\ UNCHANGED <<contextVars, transportVars, pollVars, doing, aborted>>

----------------------------------------------------------------------------
(* Polling.                                                                *)

Dequeue(p, n) ==
  /\ ~aborted /\ call[p] = None /\ entries[p] = <<>> /\ doing[p] = None /\ port # <<>>
  /\ entries' = [entries EXCEPT ![p] = SubSeq(port, 1, n)]
  /\ port' = SubSeq(port, n + 1, Len(port))
  /\ UNCHANGED <<contextVars, transportVars, busy, call, doing, aborted>>

PollOne(p) == Dequeue(p, 1)

\* GetQueuedCompletionStatusEx().
Poll(p) == Dequeue(p, IF Len(port) < BatchSize THEN Len(port) ELSE BatchSize)

Method(type) == CASE type = "Read" -> "OnRead" [] type = "Write" -> "OnWrite"
                  [] OTHER -> "OnCompleted"

\* Of a closed transport or a cancelled request nothing is told, and the context
\* is never detached.
IgnoresCancel(c, t) == t \in closed                \* fault
Discarded(c, t) == t \in closed \/ request[c] = "Cancelled"

\* Dispatch(), up to the call of the listener.  A packet whose context has no
\* request trips the assertion, or is taken for what it is not.
Dispatch(p, result) ==
  /\ ~aborted /\ call[p] = None /\ entries[p] # <<>>
  /\ entries' = [entries EXCEPT ![p] = Tail(@)]
  /\ LET c == Head(entries[p])[1]
         key == Head(entries[p])[2]
         Told(to) == call' = [call EXCEPT ![p] = [to |-> to, ctx |-> c, result |-> result,
                                                  method |-> Method(request[c])]]
     IN \/ /\ request[c] = "None" \/ (request[c] = "Message") # (key \in Listeners)
           /\ aborted' = TRUE /\ UNCHANGED <<contextVars, call>>
        \/ /\ request[c] = "Message" /\ key \in Listeners /\ result = "done"
           /\ Take(c) /\ Told(key) /\ UNCHANGED <<held, aborted>>
        \/ /\ Cancellable(c) /\ key \in Transports
           /\ Drop(key)
           /\ IF Discarded(c, key) THEN UNCHANGED <<request, count, refs, call>>
                                   ELSE Take(c) /\ Told(listener[key])
           /\ UNCHANGED aborted
  /\ UNCHANGED <<transportVars, busy, port, doing>>

----------------------------------------------------------------------------
(* What is outstanding.                                                    *)

Linked(th) == doing[th] # None /\ doing[th].step # "link"

\* What the kernel, the port, the polling threads and those that make requests have
\* of a set of packets.
Where(seq, S) == {i \in DOMAIN seq : seq[i] \in S}
Outstanding(S) ==
  Cardinality(busy \cap S) + Cardinality(Where(port, S))
    + Cardinality(UNION {{p} \X Where(entries[p], S) : p \in Pollers})
    + Cardinality({th \in Threads : Linked(th) /\ <<doing[th].ctx, doing[th].on>> \in S})

InFlight(c)   == Outstanding({c} \X (Transports \cup Listeners))
InFlightOn(t) == Outstanding(Contexts \X {t})

PortTypeOK ==
  /\ request \in [Contexts -> {"None", "Cancelled", "Message", "Read", "Write", "Other"}]
  /\ count \in [Contexts -> Nat] /\ refs \in [Contexts -> Nat] /\ held \in [Transports -> Nat]
  /\ \A c \in Contexts : request[c] = "Message" <=> count[c] > 0
  /\ closed \subseteq Transports /\ attached \subseteq Transports
  /\ listener \in [Transports -> {"user", "server", "op", None}]
  /\ \A t \in attached : listener[t] # None
  /\ busy \subseteq Packets /\ port \in Seq(Packets)
  /\ entries \in [Pollers -> Seq(Packets)] /\ \A p \in Pollers : Len(entries[p]) <= BatchSize
  /\ call \in [Pollers -> Notices \cup {None}] /\ doing \in [Threads -> Doings \cup {None}]
  /\ aborted \in BOOLEAN
==============================================================================
