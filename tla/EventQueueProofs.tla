--------------------------- MODULE EventQueueProofs ---------------------------
(***************************************************************************)
(* EventQueueImpl on one thread, for any transports and any number of      *)
(* attachments: it is type-correct, queues a delegate once, keeps its list *)
(* and the poller's pointers sound, never calls through a null pointer,    *)
(* keeps every report, and is silent after Detach() but for what was       *)
(* queued with a hangup.                                                   *)
(*                                                                         *)
(* The properties rest on one another, so they are proved together.  The   *)
(* parts of the invariant are below; of each it is shown that every action *)
(* keeps it when all of them hold before.                                  *)
(***************************************************************************)
EXTENDS EventQueue, TLAPS

Farewells == {"Hangup", "Detached"}              \* the delegate has no poller any more
Waiting == Range(tasks)

\* Where the thread is.
ThreadInv ==
  /\ pc # "crashed"
  /\ run = None <=> pc \in {"idle", "shutdown"}
  /\ pc # "idle" => open
  /\ pc = "inHangup" => "Hangup" \in events[run]

\* A delegate is in the list from its attachment to its removal, and has nothing
\* to do or to tell once it is removed, nor to tell once it is detached.  One whose
\* transport was given to Detach() is removed, or the poller had let go of it.
ListInv ==
  /\ \A d \in Delegates : d \in delegates <=> transportOf[d] # None
  /\ \A d \in Delegates : transportOf[d] = None => events[d] = {} /\ news[d] = {}
  /\ \A d \in Delegates : "Detached" \in events[d] => events[d] \subseteq {"Detached", "Queued"}
  /\ \A d \in dismissed : transportOf[d] # None => events[d] \cap Farewells # {}

\* The poller calls a delegate until it is removed or its events_ say farewell.
PollerInv ==
  /\ \A t \in Transports :
       Attached(t) => transportOf[listener[t]] = t /\ events[listener[t]] \cap Farewells = {}
  /\ \A d \in Delegates :
       transportOf[d] # None /\ events[d] \cap Farewells = {} => listener[transportOf[d]] = d

\* Nobody knows of a delegate that is not made yet.
FreshInv ==
  \A d \in Delegates :
    d > used => transportOf[d] = None /\ d \notin Waiting /\ d # run /\ d \notin dismissed

\* A delegate is in tasks_ once, if its bit says so, and not when it runs.  One
\* that the poller has let go of still has a run to come, or is in it.
QueueInv ==
  /\ \A i, j \in DOMAIN tasks : tasks[i] = tasks[j] => i = j
  /\ \A d \in Delegates : "Queued" \in events[d] => d \in Waiting
  /\ pc # "shutdown" =>
       \A d \in Delegates : d \in Waiting /\ transportOf[d] # None => "Queued" \in events[d]
  /\ run \notin Waiting
  /\ \A d \in Delegates : events[d] \cap Farewells # {} => d \in Waiting \/ d = run

\* What is not passed on is in events_, of a delegate that will run or of the one
\* that runs, and this has passed on what it is beyond.
NewsInv ==
  /\ pc # "shutdown" =>
       \A d \in Delegates : /\ news[d] \subseteq events[d]
                            /\ news[d] # {} => d \in Waiting \/ d = run
  /\ pc \in {"inRead", "write", "inWrite", "finish", "inHangup"} => "Read" \notin news[run]
  /\ pc \in {"inWrite", "finish", "inHangup"} => "Write" \notin news[run]

IInv == TypeOK /\ ThreadInv /\ ListInv /\ PollerInv /\ FreshInv /\ QueueInv /\ NewsInv

----------------------------------------------------------------------------
(* Waiting delegates.                                                      *)

\* One more waits.
LEMMA WaitingAppend ==
  ASSUME NEW q \in Seq(Delegates), NEW d \in Delegates
  PROVE  /\ Append(q, d) \in Seq(Delegates)
         /\ Range(Append(q, d)) = Range(q) \cup {d}
         /\ (\A i, j \in DOMAIN q : q[i] = q[j] => i = j) /\ d \notin Range(q)
              => \A i, j \in DOMAIN Append(q, d) : Append(q, d)[i] = Append(q, d)[j] => i = j
<1> DEFINE r == Append(q, d)
<1>1. /\ r \in Seq(Delegates) /\ DOMAIN q = 1 .. Len(q) /\ Len(q) \in Nat
      /\ DOMAIN r = 1 .. Len(q) + 1
      /\ r[Len(q) + 1] = d /\ \A i \in 1 .. Len(q) : r[i] = q[i]
  OBVIOUS
<1> HIDE DEF r
<1>2. Range(r) = Range(q) \cup {d}
  BY <1>1 DEF Range
<1>3. ASSUME \A i, j \in DOMAIN q : q[i] = q[j] => i = j, d \notin Range(q),
             NEW i \in DOMAIN r, NEW j \in DOMAIN r, r[i] = r[j]
      PROVE  i = j
  BY <1>1, <1>3 DEF Range
<1>4. QED
  BY <1>1, <1>2, <1>3 DEF r

\* The first to wait is taken.
LEMMA WaitingTail ==
  ASSUME NEW q \in Seq(Delegates), q # <<>>,
         \A i, j \in DOMAIN q : q[i] = q[j] => i = j
  PROVE  /\ Head(q) \in Delegates /\ Tail(q) \in Seq(Delegates)
         /\ Head(q) \in Range(q)
         /\ Range(Tail(q)) = Range(q) \ {Head(q)}
         /\ \A i, j \in DOMAIN Tail(q) : Tail(q)[i] = Tail(q)[j] => i = j
<1> DEFINE r == Tail(q)
           h == Head(q)
<1>1. /\ h \in Delegates /\ r \in Seq(Delegates) /\ h = q[1]
      /\ Len(q) \in Nat /\ Len(q) > 0 /\ DOMAIN q = 1 .. Len(q)
      /\ DOMAIN r = 1 .. Len(q) - 1 /\ \A i \in 1 .. Len(q) - 1 : r[i] = q[i + 1]
  OBVIOUS
<1> HIDE DEF r, h
<1>2. ASSUME NEW i \in DOMAIN r, NEW j \in DOMAIN r, r[i] = r[j] PROVE i = j
  <2>1. i + 1 \in DOMAIN q /\ j + 1 \in DOMAIN q /\ q[i + 1] = q[j + 1] /\ i \in Nat /\ j \in Nat
    BY <1>1, <1>2
  <2>2. i + 1 = j + 1
    BY <2>1
  <2>3. QED
    BY <2>1, <2>2
<1>3. ASSUME NEW x \in Range(q), x # h PROVE x \in Range(r)
  <2>1. PICK i \in 1 .. Len(q) : x = q[i]
    BY <1>1, <1>3 DEF Range
  <2>2. i - 1 \in 1 .. Len(q) - 1 /\ r[i - 1] = q[i]
    BY <1>1, <1>3, <2>1
  <2>3. QED
    BY <1>1, <2>1, <2>2 DEF Range
<1>4. ASSUME NEW x \in Range(r) PROVE x \in Range(q) /\ x # h
  <2>1. PICK i \in 1 .. Len(q) - 1 : x = q[i + 1]
    BY <1>1 DEF Range
  <2>2. i + 1 \in 1 .. Len(q) /\ i + 1 # 1
    BY <1>1
  <2>3. QED
    BY <1>1, <2>1, <2>2 DEF Range
<1>5. h \in Range(q)
  BY <1>1 DEF Range
<1>6. QED
  BY <1>1, <1>2, <1>3, <1>4, <1>5 DEF r, h

----------------------------------------------------------------------------
(* The initial state, and the user's operations.                           *)

LEMMA InitInv == Init => IInv
<1> SUFFICES ASSUME Init PROVE IInv
  OBVIOUS
<1>1. Range(<<>>) = {} /\ <<>> \in Seq(Delegates) /\ DOMAIN <<>> = {}
  BY DEF Range
<1>2. TypeOK
  BY <1>1, AttachmentsAssumption DEF Init, TypeOK
<1>3. ThreadInv /\ QueueInv /\ NewsInv
  BY <1>1, NoneAssumption DEF Init, ThreadInv, QueueInv, NewsInv, Waiting, Farewells
<1>4. ListInv /\ PollerInv /\ FreshInv
  BY <1>1, NoneAssumption DEF Init, ListInv, PollerInv, FreshInv, Attached, Waiting
<1>5. QED
  BY <1>2, <1>3, <1>4 DEF IInv

LEMMA AttachKeeps ==
  ASSUME IInv, UseAssumption, NEW t \in Transports, NEW wanted \in UsedEvents, Attach(t, wanted)
  PROVE  IInv'
<1> USE NoneAssumption, AttachmentsAssumption DEF IInv
<1> DEFINE d == used + 1
<1>1. /\ d \in Delegates /\ d > used /\ transportOf[d] = None /\ events[d] = {}
      /\ d \notin Waiting /\ d # run /\ d \notin dismissed /\ listener[t] = None
  BY DEF Attach, ListInv, FreshInv, TypeOK, Attached, Delegates
<1>2. /\ listener' = [listener EXCEPT ![t] = d] /\ interest' = [interest EXCEPT ![t] = wanted]
      /\ delegates' = delegates \cup {d} /\ transportOf' = [transportOf EXCEPT ![d] = t]
      /\ used' = d
      /\ UNCHANGED <<open, closed, events, tasks, pc, run, news, dismissed, Waiting>>
  BY DEF Attach, Waiting
<1>3. \A x \in Delegates : x > d => x > used /\ x # d
  BY <1>1 DEF Delegates, TypeOK
<1> HIDE DEF d
<1>4. TypeOK'
  BY <1>1, <1>2, UseAssumption DEF TypeOK, Delegates
<1>5. ThreadInv' /\ NewsInv'
  BY <1>2 DEF ThreadInv, NewsInv
<1>6. QueueInv'
  BY <1>1, <1>2 DEF QueueInv, TypeOK
<1>7. /\ transportOf'[d] = t /\ listener'[t] = d /\ t # None
      /\ \A x \in Delegates : x # d => transportOf'[x] = transportOf[x]
      /\ \A s \in Transports : s # t => listener'[s] = listener[s]
      /\ \A s \in Transports : Attached(s) => listener[s] # d /\ listener[s] \in Delegates
  BY <1>1, <1>2 DEF PollerInv, Attached, TypeOK
<1>8. ListInv' /\ FreshInv'
  <2>1. ListInv'
    BY <1>1, <1>2, <1>7 DEF ListInv, TypeOK
  <2>2. FreshInv'
    BY <1>2, <1>3, <1>7 DEF FreshInv
  <2>3. QED
    BY <2>1, <2>2
<1>9. PollerInv'
  <2>1. ASSUME NEW s \in Transports, Attached(s)'
        PROVE  transportOf'[listener'[s]] = s /\ events'[listener'[s]] \cap Farewells = {}
    BY <1>1, <1>2, <1>7, <2>1 DEF PollerInv, Attached
  <2>2. ASSUME NEW x \in Delegates, transportOf'[x] # None, events'[x] \cap Farewells = {}
        PROVE  listener'[transportOf'[x]] = x
    <3>1. CASE x = d
      BY <1>7, <3>1
    <3>2. CASE x # d
      <4>1. transportOf'[x] = transportOf[x] /\ listener[transportOf[x]] = x
        BY <1>2, <1>7, <2>2, <3>2 DEF PollerInv
      <4>2. transportOf[x] \in Transports /\ transportOf[x] # t
        BY <1>1, <2>2, <4>1 DEF TypeOK
      <4>3. QED
        BY <1>7, <4>1, <4>2
    <3>3. QED
      BY <3>1, <3>2
  <2>3. QED
    BY <2>1, <2>2 DEF PollerInv
<1>10. QED
  BY <1>4, <1>5, <1>6, <1>8, <1>9

\* The poller lets go of a transport and its delegate is removed.  events_ may
\* have lost the Queued bits that Shutdown() clears: ev.
LEMMA RemovalKeeps ==
  ASSUME IInv, NEW t \in Transports, Attached(t),
         NEW ev \in [Delegates -> SUBSET Flags],
         \A x \in Delegates :
           ev[x] \subseteq events[x] /\ ev[x] \cap Farewells = events[x] \cap Farewells,
         pc # "shutdown" => ev = events,
         PollerDetach(t), RemoveDelegate(listener[t], ev),
         closed' \in SUBSET Transports, dismissed \subseteq dismissed',
         dismissed' \subseteq dismissed \cup {x \in Delegates : transportOf[x] = t},
         UNCHANGED <<open, tasks, used, pc, run>>
  PROVE  IInv'
<1> USE NoneAssumption DEF IInv
<1> DEFINE d == listener[t]
<1>1. /\ d \in Delegates /\ transportOf[d] = t /\ t # None /\ d # None
      /\ events[d] \cap Farewells = {}
  BY DEF PollerInv, Attached, TypeOK
<1>2. /\ listener' = [listener EXCEPT ![t] = None] /\ interest' = [interest EXCEPT ![t] = {}]
      /\ delegates' = delegates \ {d} /\ transportOf' = [transportOf EXCEPT ![d] = None]
      /\ events' = [ev EXCEPT ![d] = {}] /\ news' = [news EXCEPT ![d] = {}]
      /\ UNCHANGED <<open, tasks, used, pc, run, Waiting>>
  BY DEF PollerDetach, RemoveDelegate, Unlinked, EventsAfterRemove, Waiting
<1> HIDE DEF d
<1>3. /\ listener'[t] = None /\ transportOf'[d] = None /\ events'[d] = {} /\ news'[d] = {}
      /\ \A s \in Transports : s # t => listener'[s] = listener[s]
      /\ \A x \in Delegates :
           x # d => /\ transportOf'[x] = transportOf[x] /\ events'[x] = ev[x]
                    /\ news'[x] = news[x]
  BY <1>1, <1>2 DEF TypeOK
<1>4. TypeOK'
  BY <1>1, <1>2 DEF TypeOK
<1>5. ThreadInv'
  <2>1. pc = "inHangup" => run # d /\ run \in Delegates /\ "Hangup" \in ev[run]
    BY <1>1 DEF ThreadInv, TypeOK, Farewells
  <2>2. QED
    BY <1>2, <1>3, <2>1 DEF ThreadInv
<1>6. ListInv'
  <2>1. \A x \in dismissed' :
          x \in Delegates /\ (transportOf'[x] # None => events'[x] \cap Farewells # {})
    <3>1. ASSUME NEW x \in Delegates, x # d, transportOf[x] = t
          PROVE  events[x] \cap Farewells # {}
      BY <1>1, <3>1 DEF PollerInv, d
    <3>2. QED
      BY <1>3, <3>1 DEF ListInv, TypeOK
  <2>2. \A x \in Delegates : "Detached" \in ev[x] => ev[x] \subseteq {"Detached", "Queued"}
    BY DEF ListInv, Farewells
  <2>3. \A x \in Delegates :
          "Detached" \in events'[x] => events'[x] \subseteq {"Detached", "Queued"}
    BY <1>3, <2>2
  <2>4. QED
    BY <1>1, <1>2, <1>3, <2>1, <2>3 DEF ListInv, TypeOK
<1>7. PollerInv'
  <2>1. ASSUME NEW s \in Transports, Attached(s)'
        PROVE  transportOf'[listener'[s]] = s /\ events'[listener'[s]] \cap Farewells = {}
    <3>1. s # t /\ Attached(s) /\ listener'[s] = listener[s] /\ listener[s] \in Delegates
      BY <1>3, <2>1 DEF Attached, TypeOK
    <3>2. transportOf[listener[s]] = s /\ listener[s] # d
      BY <1>1, <3>1 DEF PollerInv
    <3>3. QED
      BY <1>3, <3>1, <3>2 DEF PollerInv
  <2>2. ASSUME NEW x \in Delegates, transportOf'[x] # None, events'[x] \cap Farewells = {}
        PROVE  listener'[transportOf'[x]] = x
    <3>1. x # d /\ transportOf[x] \in Transports /\ listener[transportOf[x]] = x
      BY <1>3, <2>2 DEF PollerInv, TypeOK
    <3>2. transportOf[x] # t
      BY <3>1 DEF d
    <3>3. QED
      BY <1>3, <3>1, <3>2
  <2>3. QED
    BY <2>1, <2>2 DEF PollerInv
<1>8. FreshInv'
  BY <1>1, <1>2, <1>3 DEF FreshInv
<1>9. QueueInv'
  BY <1>1, <1>2, <1>3 DEF QueueInv
<1>10. NewsInv'
  BY <1>1, <1>2, <1>3 DEF NewsInv, ThreadInv, TypeOK, Stages, Calls
<1>11. QED
  BY <1>4, <1>5, <1>6, <1>7, <1>8, <1>9, <1>10

\* The poller lets go of a transport and its delegate is told.
LEMMA LetGoKeeps ==
  ASSUME IInv, NEW t \in Transports, Attached(t),
         NEW ev \in [Delegates -> SUBSET Flags],
         \A x \in Delegates :
           ev[x] \subseteq events[x] /\ ev[x] \cap Farewells = events[x] \cap Farewells,
         pc # "shutdown" => ev = events,
         PollerDetach(t), OnProxyDetach(listener[t], ev),
         closed' \in SUBSET Transports,
         UNCHANGED <<open, tasks, used, pc, run, dismissed>>
  PROVE  IInv'
<1> USE NoneAssumption DEF IInv
<1> DEFINE d == listener[t]
<1>1. CASE ~WaitsForRun(ev[d])
  BY <1>1, RemovalKeeps DEF OnProxyDetach
<1>2. CASE WaitsForRun(ev[d])
  <2>1. /\ d \in Delegates /\ transportOf[d] = t /\ t # None /\ d # None
        /\ events[d] \cap Farewells = {} /\ "Queued" \in events[d] /\ d \in Waiting /\ d # run
    BY <1>2 DEF PollerInv, Attached, TypeOK, WaitsForRun, QueueInv
  <2>2. /\ listener' = [listener EXCEPT ![t] = None] /\ interest' = [interest EXCEPT ![t] = {}]
        /\ events' = [ev EXCEPT ![d] = {"Detached", "Queued"}]
        /\ news' = [news EXCEPT ![d] = {}]
        /\ UNCHANGED <<open, tasks, used, pc, run, dismissed, Waiting, delegates, transportOf>>
    BY <1>2 DEF PollerDetach, OnProxyDetach, Waiting
  <2> HIDE DEF d
  <2>3. /\ listener'[t] = None /\ events'[d] = {"Detached", "Queued"} /\ news'[d] = {}
        /\ \A s \in Transports : s # t => listener'[s] = listener[s]
        /\ \A x \in Delegates : x # d => events'[x] = ev[x] /\ news'[x] = news[x]
    BY <2>1, <2>2 DEF TypeOK
  <2>4. TypeOK'
    BY <2>1, <2>2 DEF TypeOK, Flags
  <2>5. ThreadInv'
    BY <2>1, <2>2, <2>3 DEF ThreadInv, TypeOK, Farewells
  <2>6. ListInv' /\ FreshInv'
    <3>1. \A x \in Delegates : x # d /\ "Detached" \in ev[x] => ev[x] \subseteq {"Detached", "Queued"}
      BY DEF ListInv, Farewells
    <3>2. \A x \in Delegates :
            "Detached" \in events'[x] => events'[x] \subseteq {"Detached", "Queued"}
      BY <2>3, <3>1
    <3>3. \A x \in dismissed : x \in Delegates /\ (transportOf[x] # None => events'[x] \cap Farewells # {})
      BY <2>3 DEF ListInv, TypeOK, Farewells
    <3>4. QED
      BY <2>1, <2>2, <2>3, <3>2, <3>3 DEF ListInv, FreshInv
  <2>7. PollerInv'
    <3>1. ASSUME NEW s \in Transports, Attached(s)'
          PROVE  transportOf'[listener'[s]] = s /\ events'[listener'[s]] \cap Farewells = {}
      <4>1. s # t /\ Attached(s) /\ listener'[s] = listener[s] /\ listener[s] \in Delegates
        BY <2>3, <3>1 DEF Attached, TypeOK
      <4>2. transportOf[listener[s]] = s /\ listener[s] # d
        BY <2>1, <4>1 DEF PollerInv
      <4>3. QED
        BY <2>2, <2>3, <4>1, <4>2 DEF PollerInv
    <3>2. ASSUME NEW x \in Delegates, transportOf'[x] # None, events'[x] \cap Farewells = {}
          PROVE  listener'[transportOf'[x]] = x
      <4>1. x # d
        BY <2>3, <3>2 DEF Farewells
      <4>2. transportOf[x] \in Transports /\ listener[transportOf[x]] = x
        BY <2>2, <2>3, <3>2, <4>1 DEF PollerInv, TypeOK
      <4>3. transportOf[x] # t
        BY <4>1, <4>2 DEF d
      <4>4. QED
        BY <2>2, <2>3, <4>2, <4>3
    <3>3. QED
      BY <3>1, <3>2 DEF PollerInv
  <2>8. QueueInv'
    BY <2>1, <2>2, <2>3 DEF QueueInv
  <2>9. NewsInv'
    BY <2>1, <2>2, <2>3 DEF NewsInv, ThreadInv, TypeOK, Stages, Calls
  <2>10. QED
    BY <2>4, <2>5, <2>6, <2>7, <2>8, <2>9
<1>3. QED
  BY <1>1, <1>2

LEMMA DetachKeeps ==
  ASSUME IInv, NEW t \in Transports, Detach(t) \/ DetachFromPoller(t)
  PROVE  IInv'
<1>1. events \in [Delegates -> SUBSET Flags] /\ closed \cup {t} \in SUBSET Transports
  BY DEF IInv, TypeOK
<1>2. CASE Detach(t) /\ Attached(t)
  <2>1. /\ PollerDetach(t) /\ RemoveDelegate(listener[t], events)
        /\ dismissed' = dismissed \cup {x \in Delegates : transportOf[x] = t}
        /\ UNCHANGED <<open, closed, tasks, used, pc, run>>
    BY <1>2 DEF Detach, ZapDelegate
  <2>2. QED
    BY <1>1, <1>2, <2>1, RemovalKeeps DEF IInv, TypeOK
<1>3. CASE Detach(t) /\ ~Attached(t)
  <2>1. /\ dismissed' = dismissed \cup {x \in Delegates : transportOf[x] = t}
        /\ UNCHANGED <<open, closed, listener, interest, delegates, transportOf, events, tasks,
                       used, pc, run, news, Waiting>>
    BY <1>3 DEF Detach, Waiting
  <2>2. \A x \in Delegates : transportOf[x] = t => events[x] \cap Farewells # {}
    BY <1>3, NoneAssumption DEF IInv, PollerInv, Attached, TypeOK
  <2>3. TypeOK' /\ ListInv' /\ FreshInv'
    <3>1. TypeOK'
      BY <2>1 DEF IInv, TypeOK
    <3>2. ListInv'
      BY <2>1, <2>2 DEF IInv, ListInv
    <3>3. FreshInv'
      BY <2>1, NoneAssumption DEF IInv, FreshInv
    <3>4. QED
      BY <3>1, <3>2, <3>3
  <2>4. QED
    BY <2>1, <2>3 DEF IInv, ThreadInv, PollerInv, QueueInv, NewsInv, Attached
<1>4. CASE DetachFromPoller(t)
  BY <1>1, <1>4, LetGoKeeps DEF DetachFromPoller, IInv, TypeOK
<1>5. QED
  BY <1>2, <1>3, <1>4

LEMMA ChangeKeeps ==
  ASSUME IInv, NEW t \in Transports, NEW wanted \in SUBSET IOEvents, ChangeTo(t, wanted)
  PROVE  IInv'
<1> USE DEF IInv
<1> DEFINE d == listener[t]
<1>1. d \in Delegates /\ transportOf[d] # None /\ events[d] \cap Farewells = {}
  BY NoneAssumption DEF PollerInv, ChangeTo, Attached, TypeOK
<1>2. /\ interest' = [interest EXCEPT ![t] = wanted]
      /\ events' = [events EXCEPT ![d] = @ \ (wanted \cap IOEvents)]
      /\ news' = [news EXCEPT ![d] = @ \cap {"Hangup"}]
      /\ UNCHANGED <<open, closed, listener, delegates, transportOf, tasks, used, pc, run,
                     dismissed, Waiting>>
      /\ pc # "shutdown"
  BY DEF ChangeTo, OnChangeEvents, Waiting, UserMay, Calls
<1> HIDE DEF d
<1>3. /\ \A x \in Delegates : x # d => events'[x] = events[x] /\ news'[x] = news[x]
      /\ events'[d] \subseteq events[d] /\ news'[d] = news[d] \cap {"Hangup"}
      /\ \A flag \in Flags \ IOEvents : flag \in events'[d] <=> flag \in events[d]
  BY <1>1, <1>2 DEF TypeOK
<1>4. "Queued" \in Flags \ IOEvents /\ "Hangup" \in Flags \ IOEvents
      /\ \A x \in Delegates : events'[x] \cap Farewells = events[x] \cap Farewells
  BY <1>3 DEF Flags, IOEvents, Farewells
<1>5. TypeOK'
  BY <1>1, <1>2 DEF TypeOK
<1>6. ThreadInv'
  BY <1>2, <1>3, <1>4 DEF ThreadInv, TypeOK
<1>7. ListInv' /\ FreshInv'
  BY <1>1, <1>2, <1>3 DEF ListInv, FreshInv
<1>8. PollerInv'
  BY <1>2, <1>4 DEF PollerInv, Attached, TypeOK
<1>9. QueueInv'
  BY <1>2, <1>3, <1>4 DEF QueueInv
<1>10. NewsInv'
  <2>1. \A x \in Delegates : news'[x] \subseteq events'[x] /\ news'[x] \subseteq news[x]
    BY <1>1, <1>2, <1>3, <1>4 DEF NewsInv
  <2>2. QED
    BY <1>2, <2>1 DEF NewsInv, ThreadInv, TypeOK, Stages, Calls
<1>11. QED
  BY <1>5, <1>6, <1>7, <1>8, <1>9, <1>10

LEMMA UserKeeps == IInv /\ User => IInv'
<1> SUFFICES ASSUME IInv, User PROVE IInv'
  OBVIOUS
<1>1. ASSUME NEW t \in Transports, NEW wanted \in UsedEvents, Attach(t, wanted) PROVE IInv'
  BY <1>1, AttachKeeps, UseAssumption
<1>2. ASSUME NEW t \in Transports, NEW wanted \in UsedEvents,
             ChangeEvents(t, wanted) \/ AddEvents(t, wanted) \/ RemoveEvents(t, wanted)
      PROVE  IInv'
  <2>1. wanted \in SUBSET IOEvents /\ interest[t] \in SUBSET IOEvents
    BY UseAssumption DEF IInv, TypeOK
  <2>2. PICK bits \in SUBSET IOEvents : ChangeTo(t, bits)
    BY <1>2, <2>1 DEF ChangeEvents, AddEvents, RemoveEvents
  <2>3. QED
    BY <2>2, ChangeKeeps
<1>3. ASSUME NEW t \in Transports, Detach(t) \/ DetachFromPoller(t) PROVE IInv'
  BY <1>3, DetachKeeps
<1>4. ASSUME NEW t \in Transports, CloseDetached(t) PROVE IInv'
  BY <1>4 DEF CloseDetached, queueVars, IInv, TypeOK, ThreadInv, ListInv, PollerInv, FreshInv,
     QueueInv, NewsInv, Attached, Waiting
<1>5. CASE BeginShutdown
  BY <1>5 DEF BeginShutdown, pollerVars, queueVars, IInv, TypeOK, ThreadInv, ListInv, PollerInv,
     FreshInv, QueueInv, NewsInv, Attached, Waiting
<1>6. QED
  BY <1>1, <1>2, <1>3, <1>4, <1>5 DEF User

----------------------------------------------------------------------------
(* Shutdown().                                                             *)

LEMMA ShutdownKeeps == IInv /\ Shutdown => IInv'
<1> SUFFICES ASSUME IInv, Shutdown PROVE IInv'
  OBVIOUS
<1> USE DEF IInv
<1>1. CASE ShutdownStep
  <2>1. PICK d \in delegates :
          LET t == transportOf[d]
              dequeued == [events EXCEPT ![d] = @ \ {"Queued"}] IN
            \/ /\ ~Attached(t)
               /\ events' = dequeued
               /\ UNCHANGED <<listener, interest, delegates, transportOf, news>>
            \/ /\ Attached(t)
               /\ PollerDetach(t)
               /\ OnProxyDetach(listener[t], dequeued)
    BY <1>1 DEF ShutdownStep
  <2> DEFINE ev == [events EXCEPT ![d] = @ \ {"Queued"}]
  <2>2. /\ d \in Delegates /\ transportOf[d] \in Transports
        /\ pc = "shutdown" /\ UNCHANGED <<open, closed, tasks, used, pc, run, dismissed, Waiting>>
    BY <1>1 DEF ShutdownStep, ListInv, TypeOK, Waiting
  <2>3. /\ ev \in [Delegates -> SUBSET Flags]
        /\ \A x \in Delegates :
             ev[x] \subseteq events[x] /\ ev[x] \cap Farewells = events[x] \cap Farewells
    BY <2>2 DEF TypeOK, Farewells
  <2> HIDE DEF ev
  <2>4. CASE Attached(transportOf[d])
    <3>1. PollerDetach(transportOf[d]) /\ OnProxyDetach(listener[transportOf[d]], ev)
      BY <2>1, <2>4 DEF ev
    <3>2. QED
      BY <2>2, <2>3, <2>4, <3>1, LetGoKeeps DEF TypeOK
  <2>5. CASE ~Attached(transportOf[d])
    <3>1. events' = ev /\ UNCHANGED <<listener, interest, delegates, transportOf, news>>
      BY <2>1, <2>5 DEF ev
    <3>2. QED
      BY <2>2, <2>3, <3>1 DEF TypeOK, ThreadInv, ListInv, PollerInv, FreshInv, QueueInv, NewsInv,
         Attached
  <2>6. QED
    BY <2>4, <2>5
<1>2. CASE EndShutdown
  <2>1. /\ pc = "shutdown" /\ delegates = {} /\ open' = FALSE /\ tasks' = <<>> /\ pc' = "idle"
        /\ UNCHANGED <<closed, listener, interest, delegates, transportOf, events, used, run,
                       news, dismissed>>
        /\ tasks' \in Seq(Delegates) /\ DOMAIN tasks' = {} /\ Waiting' = {}
    BY <1>2 DEF EndShutdown, pollerVars, Waiting, Range
  <2>2. \A d \in Delegates : transportOf[d] = None /\ events[d] = {} /\ news[d] = {}
    BY <2>1 DEF ListInv
  <2>3. TypeOK' /\ ThreadInv'
    BY <2>1 DEF TypeOK, ThreadInv
  <2>4. ListInv' /\ PollerInv' /\ FreshInv'
    BY <2>1 DEF ListInv, PollerInv, FreshInv, Attached
  <2>5. QueueInv' /\ NewsInv'
    BY <2>1, <2>2 DEF QueueInv, NewsInv
  <2>6. QED
    BY <2>3, <2>4, <2>5
<1>3. QED
  BY <1>1, <1>2 DEF Shutdown

----------------------------------------------------------------------------
(* Poll().                                                                 *)

\* A delegate takes down an event and waits for its run.
LEMMA ReportEffect ==
  ASSUME IInv, NEW d \in Delegates, transportOf[d] # None, pc = "idle",
         NEW event \in {"Read", "Write", "Hangup"}, OnReport(d, event)
  PROVE  /\ events' = [events EXCEPT ![d] = @ \cup {event, "Queued"}]
         /\ news' = [news EXCEPT ![d] = @ \cup {event}]
         /\ tasks' \in Seq(Delegates) /\ Waiting' = Waiting \cup {d}
         /\ \A i, j \in DOMAIN tasks' : tasks'[i] = tasks'[j] => i = j
<1> USE DEF IInv
<1>1. "Queued" \in events[d] <=> d \in Waiting
  BY DEF QueueInv
<1>2. CASE "Queued" \in events[d]
  BY <1>1, <1>2 DEF OnReport, Enqueued, Waiting, TypeOK, QueueInv
<1>3. CASE "Queued" \notin events[d]
  <2>1. tasks' = Append(tasks, d) /\ d \notin Range(tasks)
    BY <1>1, <1>3 DEF OnReport, Enqueued, Waiting
  <2>2. QED
    BY <2>1, WaitingAppend DEF OnReport, Waiting, TypeOK, QueueInv
<1>4. QED
  BY <1>2, <1>3

LEMMA PollReportsKeeps ==
  ASSUME IInv, NEW t \in Transports, NEW event \in IOEvents, PollReports(t, event)
  PROVE  IInv'
<1> USE DEF IInv
<1> DEFINE d == listener[t]
<1>1. d \in Delegates /\ transportOf[d] # None /\ events[d] \cap Farewells = {} /\ d \in delegates
  BY NoneAssumption DEF PollerInv, ListInv, PollReports, Attached, TypeOK
<1>2. UNCHANGED <<open, closed, listener, interest, delegates, transportOf, used, pc, run, dismissed>>
      /\ pc = "idle" /\ run = None /\ run \notin Delegates /\ open
  BY NoneAssumption DEF PollReports, pollerVars, ThreadInv
<1>3. /\ events' = [events EXCEPT ![d] = @ \cup {event, "Queued"}]
      /\ news' = [news EXCEPT ![d] = @ \cup {event}]
      /\ tasks' \in Seq(Delegates) /\ Waiting' = Waiting \cup {d}
      /\ \A i, j \in DOMAIN tasks' : tasks'[i] = tasks'[j] => i = j
  BY <1>1, ReportEffect DEF PollReports, IOEvents
<1> HIDE DEF d
<1>4. /\ \A x \in Delegates : x # d => events'[x] = events[x] /\ news'[x] = news[x]
      /\ events'[d] = events[d] \cup {event, "Queued"} /\ news'[d] = news[d] \cup {event}
  BY <1>1, <1>3 DEF TypeOK
<1>5. \A x \in Delegates : events'[x] \cap Farewells = events[x] \cap Farewells
  BY <1>4 DEF IOEvents, Farewells
<1>6. TypeOK'
  BY <1>1, <1>2, <1>3 DEF TypeOK, Flags, IOEvents
<1>7. ThreadInv' /\ ListInv'
  BY <1>1, <1>2, <1>4, <1>5 DEF ThreadInv, ListInv, TypeOK, Farewells
<1>8. PollerInv'
  BY <1>2, <1>5 DEF PollerInv, Attached, TypeOK
<1>9. FreshInv'
  BY <1>1, <1>2, <1>3 DEF FreshInv
<1>10. QueueInv'
  BY <1>1, <1>2, <1>3, <1>4, <1>5 DEF QueueInv
<1>11. NewsInv'
  BY <1>2, <1>3, <1>4 DEF NewsInv
<1>12. QED
  BY <1>6, <1>7, <1>8, <1>9, <1>10, <1>11

LEMMA PollReportsHangupKeeps ==
  ASSUME IInv, NEW t \in Transports, PollReportsHangup(t)
  PROVE  IInv'
<1> USE DEF IInv
<1> DEFINE d == listener[t]
<1>1. d \in Delegates /\ transportOf[d] = t /\ t # None /\ d \in delegates
  BY NoneAssumption DEF PollerInv, ListInv, PollReportsHangup, Attached, TypeOK
<1>2. UNCHANGED <<open, closed, delegates, transportOf, used, pc, run, dismissed>>
      /\ listener' = [listener EXCEPT ![t] = None] /\ interest' = [interest EXCEPT ![t] = {}]
      /\ pc = "idle" /\ run = None /\ run \notin Delegates /\ open
  BY NoneAssumption DEF PollReportsHangup, PollerDetach, ThreadInv
<1>3. /\ events' = [events EXCEPT ![d] = @ \cup {"Hangup", "Queued"}]
      /\ news' = [news EXCEPT ![d] = @ \cup {"Hangup"}]
      /\ tasks' \in Seq(Delegates) /\ Waiting' = Waiting \cup {d}
      /\ \A i, j \in DOMAIN tasks' : tasks'[i] = tasks'[j] => i = j
  BY <1>1, ReportEffect DEF PollReportsHangup
<1>4. /\ \A x \in Delegates : x # d => events'[x] = events[x] /\ news'[x] = news[x]
      /\ events'[d] = events[d] \cup {"Hangup", "Queued"} /\ news'[d] = news[d] \cup {"Hangup"}
      /\ listener'[t] = None
      /\ \A s \in Transports : s # t => listener'[s] = listener[s]
  BY <1>1, <1>2, <1>3 DEF TypeOK
<1>5. TypeOK'
  BY <1>1, <1>2, <1>3 DEF TypeOK, Flags
<1>6. ThreadInv' /\ ListInv'
  <2>1. "Detached" \notin events'[d] /\ "Hangup" \in events'[d]
    BY <1>1, <1>4 DEF PollerInv, PollReportsHangup, Farewells
  <2>2. \A x \in dismissed :
          x \in Delegates /\ (transportOf[x] # None => events'[x] \cap Farewells # {})
    BY <1>4, <2>1 DEF ListInv, TypeOK, Farewells
  <2>3. ListInv'
    BY <1>1, <1>2, <1>4, <2>1, <2>2 DEF ListInv
  <2>4. QED
    BY <1>2, <2>3 DEF ThreadInv
<1>7. PollerInv'
  <2>1. ASSUME NEW s \in Transports, Attached(s)'
        PROVE  transportOf'[listener'[s]] = s /\ events'[listener'[s]] \cap Farewells = {}
    <3>1. s # t /\ Attached(s) /\ listener'[s] = listener[s] /\ listener[s] \in Delegates
      BY <1>4, <2>1 DEF Attached, TypeOK
    <3>2. transportOf[listener[s]] = s /\ listener[s] # d
      BY <1>1, <3>1 DEF PollerInv
    <3>3. QED
      BY <1>2, <1>4, <3>1, <3>2 DEF PollerInv
  <2>2. ASSUME NEW x \in Delegates, transportOf'[x] # None, events'[x] \cap Farewells = {}
        PROVE  listener'[transportOf'[x]] = x
    <3>1. x # d
      BY <1>4, <2>2 DEF Farewells
    <3>2. transportOf[x] \in Transports /\ listener[transportOf[x]] = x
      BY <1>2, <1>4, <2>2, <3>1 DEF PollerInv, TypeOK
    <3>3. QED
      BY <1>2, <1>4, <3>1, <3>2
  <2>3. QED
    BY <2>1, <2>2 DEF PollerInv
<1>8. FreshInv'
  BY <1>1, <1>2, <1>3 DEF FreshInv
<1>9. QueueInv'
  BY <1>1, <1>2, <1>3, <1>4 DEF QueueInv, Farewells
<1>10. NewsInv'
  BY <1>2, <1>3, <1>4 DEF NewsInv
<1>11. QED
  BY <1>5, <1>6, <1>7, <1>8, <1>9, <1>10

----------------------------------------------------------------------------
(* Run().                                                                  *)

\* Of the delegate that runs, what it is asked in events_ makes it one of the list.
LEMMA RunningListed ==
  ASSUME IInv, pc \in Stages
  PROVE  /\ run \in Delegates /\ run # None
         /\ events[run] # {} => transportOf[run] # None
         /\ pc = "inHangup" => transportOf[run] # None
<1>1. pc \notin {"idle", "shutdown"}
  BY DEF Stages, Calls
<1>2. run \in Delegates /\ run # None
  BY <1>1, NoneAssumption DEF IInv, ThreadInv, TypeOK
<1>3. events[run] # {} => transportOf[run] # None
  BY <1>2 DEF IInv, ListInv
<1>4. QED
  BY <1>2, <1>3 DEF IInv, ThreadInv

LEMMA DispatchNextKeeps == IInv /\ DispatchNextEvent => IInv'
<1> SUFFICES ASSUME IInv, DispatchNextEvent PROVE IInv'
  OBVIOUS
<1> USE NoneAssumption DEF IInv
<1> DEFINE d == Head(tasks)
<1>1. /\ d \in Delegates /\ d \in Waiting /\ tasks' \in Seq(Delegates)
      /\ Waiting' = Waiting \ {d}
      /\ \A i, j \in DOMAIN tasks' : tasks'[i] = tasks'[j] => i = j
  BY WaitingTail DEF DispatchNextEvent, Waiting, TypeOK, QueueInv
<1>2. /\ events' = [events EXCEPT ![d] = @ \ {"Queued"}]
      /\ open /\ pc = "idle" /\ run = None
      /\ UNCHANGED <<open, closed, listener, interest, delegates, transportOf, used, news, dismissed>>
  BY DEF DispatchNextEvent, EventsInRun, pollerVars, ThreadInv
<1>3. IF transportOf[d] = None THEN pc' = pc /\ run' = run ELSE pc' = "read" /\ run' = d
  BY DEF DispatchNextEvent
<1> HIDE DEF d
<1>4. /\ \A x \in Delegates : x # d => events'[x] = events[x]
      /\ events'[d] = events[d] \ {"Queued"}
      /\ \A x \in Delegates : events'[x] \cap Farewells = events[x] \cap Farewells
  BY <1>1, <1>2 DEF TypeOK, Farewells
<1>5. TypeOK'
  BY <1>1, <1>2, <1>3 DEF TypeOK, Stages
<1>6. ThreadInv'
  BY <1>1, <1>2, <1>3 DEF ThreadInv
<1>7. ListInv'
  BY <1>1, <1>2, <1>4 DEF ListInv
<1>8. PollerInv'
  BY <1>2, <1>4 DEF PollerInv, Attached, TypeOK
<1>9. FreshInv'
  BY <1>1, <1>2, <1>3 DEF FreshInv
<1>10. transportOf[d] = None => events[d] = {} /\ news[d] = {}
  BY <1>1 DEF ListInv
<1>11. QueueInv'
  BY <1>1, <1>2, <1>3, <1>4, <1>10 DEF QueueInv
<1>12. NewsInv'
  <2>1. \A x \in Delegates : "Queued" \notin news[x] /\ news[x] \subseteq events[x]
    BY <1>2 DEF TypeOK, NewsInv
  <2>2. QED
    BY <1>1, <1>2, <1>3, <1>4, <1>10, <2>1 DEF NewsInv
<1>13. QED
  BY <1>5, <1>6, <1>7, <1>8, <1>9, <1>11, <1>12

\* Steps that only move the thread, within a run, and take note of what the
\* listener is told.
LEMMA WithinRunKeeps ==
  ASSUME IInv, pc \in Stages, pc' \in Stages,
         NEW told \in SUBSET {"Read", "Write", "Hangup"},
         news' = [news EXCEPT ![run] = @ \ told],
         UNCHANGED <<open, pollerVars, queueVars, run, dismissed>>,
         pc' = "inHangup" => "Hangup" \in events[run],
         pc' \in {"inRead", "write", "inWrite", "finish", "inHangup"} => "Read" \notin news'[run],
         pc' \in {"inWrite", "finish", "inHangup"} => "Write" \notin news'[run]
  PROVE  IInv'
<1> USE DEF IInv
<1>1. run \in Delegates /\ run # None
  BY RunningListed
<1>2. /\ pc # "shutdown" /\ pc' \notin {"idle", "shutdown", "crashed"} /\ open
      /\ UNCHANGED <<open, closed, listener, interest, delegates, transportOf, events, tasks, used,
                     run, dismissed, Waiting>>
  BY DEF Stages, Calls, pollerVars, queueVars, Waiting, ThreadInv
<1>3. /\ \A x \in Delegates : news'[x] \subseteq news[x]
      /\ \A x \in Delegates : x # run => news'[x] = news[x]
  BY <1>1 DEF TypeOK
<1>4. TypeOK'
  BY <1>1, <1>2 DEF TypeOK
<1>5. ThreadInv'
  BY <1>1, <1>2 DEF ThreadInv
<1>6. ListInv' /\ FreshInv' /\ PollerInv'
  BY <1>2, <1>3 DEF ListInv, FreshInv, PollerInv, Attached
<1>7. QueueInv'
  BY <1>2 DEF QueueInv
<1>8. NewsInv'
  BY <1>2, <1>3 DEF NewsInv
<1>9. QED
  BY <1>4, <1>5, <1>6, <1>7, <1>8

LEMMA ForwardKeeps == IInv /\ (ForwardRead \/ ForwardWrite \/ ForwardHangup) => IInv'
<1> SUFFICES ASSUME IInv, ForwardRead \/ ForwardWrite \/ ForwardHangup PROVE IInv'
  OBVIOUS
<1>1. pc \in Stages /\ pc \in {"read", "write", "finish"}
  BY DEF ForwardRead, ForwardWrite, ForwardHangup, Forward, Stages
<1>2. run \in Delegates /\ (events[run] # {} => transportOf[run] # None)
  BY <1>1, RunningListed
<1>3. news \in [Delegates -> SUBSET {"Read", "Write", "Hangup"}] /\ news[run] \subseteq events[run]
  BY <1>1, <1>2 DEF IInv, TypeOK, NewsInv
<1>4. news = [news EXCEPT ![run] = @ \ {}]
  BY <1>2, <1>3
<1>5. (pc # "read" => "Read" \notin news[run]) /\ (pc = "finish" => "Write" \notin news[run])
  BY <1>1 DEF IInv, NewsInv
<1>6. CASE ForwardRead
  <2>1. CASE "Read" \in events[run]
    <3>1. pc' = "inRead" /\ news' = [news EXCEPT ![run] = @ \ {"Read"}]
      BY <1>2, <1>6, <2>1 DEF ForwardRead, Forward
    <3>2. "Read" \notin news'[run] /\ pc' \in Stages
      BY <1>2, <1>3, <3>1 DEF Stages, Calls
    <3>3. QED
      BY <1>1, <1>6, <3>1, <3>2, WithinRunKeeps DEF ForwardRead, Forward
  <2>2. CASE "Read" \notin events[run]
    <3>1. pc' = "write" /\ news' = news /\ "Read" \notin news'[run] /\ pc' \in Stages
      BY <1>3, <1>6, <2>2 DEF ForwardRead, Forward, Stages
    <3>2. QED
      BY <1>1, <1>4, <1>6, <3>1, WithinRunKeeps DEF ForwardRead, Forward
  <2>3. QED
    BY <2>1, <2>2
<1>7. CASE ForwardWrite
  <2>1. CASE "Write" \in events[run]
    <3>1. pc = "write" /\ pc' = "inWrite" /\ news' = [news EXCEPT ![run] = @ \ {"Write"}]
      BY <1>2, <1>7, <2>1 DEF ForwardWrite, Forward
    <3>2. "Read" \notin news'[run] /\ "Write" \notin news'[run] /\ pc' \in Stages
      BY <1>2, <1>3, <1>5, <3>1 DEF Stages, Calls
    <3>3. QED
      BY <1>1, <1>7, <3>1, <3>2, WithinRunKeeps DEF ForwardWrite, Forward
  <2>2. CASE "Write" \notin events[run]
    <3>1. /\ pc = "write" /\ pc' = "finish" /\ news' = news
          /\ "Read" \notin news'[run] /\ "Write" \notin news'[run] /\ pc' \in Stages
      BY <1>3, <1>5, <1>7, <2>2 DEF ForwardWrite, Forward, Stages
    <3>2. QED
      BY <1>1, <1>4, <1>7, <3>1, WithinRunKeeps DEF ForwardWrite, Forward
  <2>3. QED
    BY <2>1, <2>2
<1>8. CASE ForwardHangup
  <2>1. /\ pc' = "inHangup" /\ "Hangup" \in events[run]
        /\ news' = [news EXCEPT ![run] = @ \ {"Read", "Write", "Hangup"}]
    BY <1>2, <1>3, <1>8 DEF ForwardHangup
  <2>2. "Read" \notin news'[run] /\ "Write" \notin news'[run] /\ pc' \in Stages
    BY <1>2, <1>3, <2>1 DEF Stages, Calls
  <2>3. QED
    BY <1>1, <1>8, <2>1, <2>2, WithinRunKeeps DEF ForwardHangup
<1>9. QED
  BY <1>6, <1>7, <1>8

LEMMA ReturnKeeps == IInv /\ ListenerReturns => IInv'
<1> SUFFICES ASSUME IInv, ListenerReturns PROVE IInv'
  OBVIOUS
<1>1. pc \in Stages /\ pc' \in Stages /\ pc' \in {"write", "finish"}
      /\ (pc' = "finish" => pc = "inWrite") /\ news' = news /\ pc \in {"inRead", "inWrite"}
  BY DEF ListenerReturns, Stages, Calls
<1>2. run \in Delegates
  BY <1>1, RunningListed
<1>3. news = [news EXCEPT ![run] = @ \ {}]
  BY <1>2 DEF IInv, TypeOK
<1>4. "Read" \notin news'[run] /\ (pc' = "finish" => "Write" \notin news'[run])
  BY <1>1 DEF IInv, NewsInv
<1>5. QED
  BY <1>1, <1>3, <1>4, WithinRunKeeps DEF ListenerReturns

LEMMA RunEndsKeeps == IInv /\ RunEnds => IInv'
<1> SUFFICES ASSUME IInv, RunEnds PROVE IInv'
  OBVIOUS
<1> USE NoneAssumption DEF IInv
<1> DEFINE d == run
<1>1. d \in Delegates /\ d # None /\ transportOf[d] # None /\ pc # "shutdown"
  BY RunningListed DEF RunEnds, Stages, Calls
<1>2. d \notin Waiting /\ events[d] \cap Farewells # {} /\ open
  BY DEF RunEnds, QueueInv, ThreadInv, Farewells
<1>3. /\ pc' = "idle" /\ run' = None /\ delegates' = delegates \ {d}
      /\ transportOf' = [transportOf EXCEPT ![d] = None]
      /\ events' = [events EXCEPT ![d] = {}] /\ news' = [news EXCEPT ![d] = {}]
      /\ UNCHANGED <<open, closed, listener, interest, tasks, used, dismissed, Waiting>>
  BY <1>1 DEF RunEnds, RemoveDelegate, Unlinked, EventsAfterRemove, pollerVars, Waiting
<1>4. \A t \in Transports : listener[t] # d
  BY <1>1, <1>2 DEF PollerInv, Attached
<1> HIDE DEF d
<1>5. /\ transportOf'[d] = None /\ events'[d] = {} /\ news'[d] = {}
      /\ \A x \in Delegates :
           x # d => /\ transportOf'[x] = transportOf[x] /\ events'[x] = events[x]
                    /\ news'[x] = news[x]
  BY <1>1, <1>3 DEF TypeOK
<1>6. TypeOK' /\ ThreadInv'
  BY <1>1, <1>2, <1>3 DEF TypeOK, ThreadInv
<1>7. ListInv' /\ FreshInv'
  BY <1>1, <1>3, <1>5 DEF ListInv, FreshInv, TypeOK
<1>8. PollerInv'
  BY <1>3, <1>4, <1>5 DEF PollerInv, Attached, TypeOK
<1>9. QueueInv'
  <2>1. None \notin Waiting
    BY DEF TypeOK, Waiting, Range
  <2>2. QED
    BY <1>1, <1>3, <1>5, <2>1 DEF QueueInv, d
<1>10. NewsInv'
  BY <1>1, <1>3, <1>5 DEF NewsInv, d
<1>11. QED
  BY <1>6, <1>7, <1>8, <1>9, <1>10

LEMMA RunEndsAttachedKeeps == IInv /\ RunEndsAttached => IInv'
<1> SUFFICES ASSUME IInv, RunEndsAttached PROVE IInv'
  OBVIOUS
<1> USE NoneAssumption DEF IInv
<1>1. run \in Delegates /\ open /\ pc # "shutdown" /\ pc = "finish"
      /\ events[run] \cap Farewells = {}
  BY RunningListed DEF RunEndsAttached, Stages, ThreadInv, Farewells
<1>2. /\ pc' = "idle" /\ run' = None
      /\ UNCHANGED <<open, closed, listener, interest, delegates, transportOf, events, tasks, used,
                     news, dismissed, Waiting>>
  BY DEF RunEndsAttached, pollerVars, queueVars, Waiting
<1>3. news[run] = {}
  BY <1>1 DEF NewsInv, TypeOK, Farewells
<1>4. TypeOK' /\ ThreadInv'
  BY <1>1, <1>2 DEF TypeOK, ThreadInv
<1>5. ListInv' /\ PollerInv'
  BY <1>2 DEF ListInv, PollerInv, Attached
<1>6. FreshInv'
  BY <1>2 DEF FreshInv
<1>7. \A x \in Waiting : x \in Delegates
  BY DEF TypeOK, Waiting, Range
<1>8. QueueInv'
  BY <1>1, <1>2, <1>7 DEF QueueInv
<1>9. NewsInv'
  BY <1>1, <1>2, <1>3 DEF NewsInv
<1>10. QED
  BY <1>4, <1>5, <1>6, <1>8, <1>9

----------------------------------------------------------------------------
(* The theorems.                                                           *)

LEMMA StutterKeeps == IInv /\ UNCHANGED vars => IInv'
BY DEF vars, pollerVars, queueVars, IInv, TypeOK, ThreadInv, ListInv, PollerInv, FreshInv,
   QueueInv, NewsInv, Attached, Waiting

LEMMA NextKeeps == IInv /\ [Next]_vars => IInv'
<1> SUFFICES ASSUME IInv, [Next]_vars PROVE IInv'
  OBVIOUS
<1>1. CASE User
  BY <1>1, UserKeeps
<1>2. ASSUME NEW t \in Transports, NEW event \in IOEvents, PollReports(t, event) PROVE IInv'
  BY <1>2, PollReportsKeeps
<1>3. ASSUME NEW t \in Transports, PollReportsHangup(t) PROVE IInv'
  BY <1>3, PollReportsHangupKeeps
<1>4. CASE Dispatch
  BY <1>4, DispatchNextKeeps, ForwardKeeps, ReturnKeeps, RunEndsKeeps, RunEndsAttachedKeeps
     DEF Dispatch
<1>5. CASE Shutdown
  BY <1>5, ShutdownKeeps
<1>6. CASE UNCHANGED vars
  BY <1>6, StutterKeeps
<1>7. QED
  BY <1>1, <1>2, <1>3, <1>4, <1>5, <1>6 DEF Next

LEMMA InvariantHolds == Spec => []IInv
BY InitInv, NextKeeps, PTL DEF Spec

\* The event queue's fields keep their types (EventQueueImpl).
THEOREM QueueTypeCorrect == Spec => []TypeOK
<1>1. IInv => TypeOK
  BY DEF IInv
<1>2. QED
  BY <1>1, InvariantHolds, PTL

\* MaybeEnqueue() and Run() keep each delegate in tasks_ at most once, and there
\* exactly when its Queued bit says so.
THEOREM DelegatesQueuedOnce == Spec => []QueuedOnce
<1>1. IInv => QueuedOnce
  BY DEF IInv, QueueInv, QueuedOnce, Waiting
<1>2. QED
  BY <1>1, InvariantHolds, PTL

\* No pointer in delegates_ dangles, and the poller calls only delegates of the
\* list, for their own transports, through OnProxyDetach(), hangups, re-attaches
\* and Shutdown().
THEOREM DelegateListSound == Spec => []ListSound
<1>1. IInv => ListenersListed
  BY NoneAssumption DEF IInv, PollerInv, ListInv, ListenersListed, Attached, TypeOK
<1>2. ASSUME IInv PROVE ListedAlive
  <2>1. SUFFICES ASSUME NEW d \in delegates
                 PROVE  \/ \E t \in Transports : listener[t] = d
                        \/ d \in Range(tasks)
                        \/ d = run
    BY DEF ListedAlive
  <2>2. d \in Delegates /\ transportOf[d] # None /\ transportOf[d] \in Transports
    BY <1>2 DEF IInv, ListInv, TypeOK
  <2>3. CASE events[d] \cap Farewells = {}
    BY <1>2, <2>2, <2>3 DEF IInv, PollerInv
  <2>4. CASE events[d] \cap Farewells # {}
    BY <1>2, <2>2, <2>4 DEF IInv, QueueInv, Waiting
  <2>5. QED
    BY <2>3, <2>4
<1>3. IInv => ListSound
  BY <1>1, <1>2 DEF ListSound
<1>4. QED
  BY <1>3, InvariantHolds, PTL

\* Run() never calls through a forward_ or parent_ that is null, whatever the
\* listener it called before has done.
THEOREM NeverCallsNull == Spec => []NoNullCall
<1>1. IInv => NoNullCall
  BY DEF IInv, ThreadInv, NoNullCall
<1>2. QED
  BY <1>1, InvariantHolds, PTL

\* What OnReadReady(), OnWriteReady() and OnHangup() of a delegate took down stays
\* in its events_, and it will run.
THEOREM ReportsKept == Spec => []NewsKept
<1>1. IInv => NewsKept
  BY DEF IInv, NewsInv, NewsKept, Waiting
<1>2. QED
  BY <1>1, InvariantHolds, PTL

\* After Detach() returned, a listener is called for nothing but what was queued
\* when the poller reported a hangup, before the call of Detach(): whatever else was
\* queued is not passed on, also when the transport is attached again meanwhile.
THEOREM SilentAfterDetach == Spec => DetachSilences
<1>1. IInv /\ [Next]_vars => [StartsCall /\ run \in dismissed => "Hangup" \in events[run]]_vars
  <2> SUFFICES ASSUME IInv, Next, StartsCall, run \in dismissed PROVE "Hangup" \in events[run]
    OBVIOUS
  <2>1. ForwardRead \/ ForwardWrite \/ ForwardHangup
    <3>1. ASSUME User PROVE pc' = pc \/ pc' = "shutdown"
      BY <3>1 DEF User, Attach, ChangeEvents, AddEvents, RemoveEvents, ChangeTo, Detach,
         DetachFromPoller, CloseDetached, BeginShutdown
    <3>2. ASSUME NEW t \in Transports,
                 (\E event \in IOEvents : PollReports(t, event)) \/ PollReportsHangup(t)
          PROVE  pc' = pc
      BY <3>2 DEF PollReports, PollReportsHangup
    <3>3. ASSUME Shutdown PROVE pc' \in {pc, "idle"}
      BY <3>3 DEF Shutdown, ShutdownStep, EndShutdown
    <3>4. ASSUME DispatchNextEvent \/ ListenerReturns \/ RunEnds \/ RunEndsAttached
          PROVE  pc' \in {pc, "read", "write", "finish", "idle", "crashed"}
      BY <3>4 DEF DispatchNextEvent, ListenerReturns, RunEnds, RunEndsAttached
    <3>5. QED
      BY <3>1, <3>2, <3>3, <3>4 DEF Next, Dispatch, StartsCall, Calls
  <2>2. pc \in Stages /\ run \in Delegates /\ events[run] # {}
    BY <2>1, RunningListed DEF ForwardRead, ForwardWrite, ForwardHangup, Forward, Stages,
       StartsCall, Calls
  <2>3. transportOf[run] # None
    BY <2>2, RunningListed
  <2>4. events[run] \cap {"Read", "Write", "Hangup"} # {}
    BY <2>1 DEF ForwardRead, ForwardWrite, ForwardHangup, Forward, StartsCall, Calls
  <2>5. QED
    BY <2>2, <2>3, <2>4 DEF IInv, ListInv, Farewells
<1>2. QED
  BY <1>1, InvariantHolds, PTL DEF Spec, DetachSilences
==============================================================================
