----------------------------- MODULE EpollPoller -----------------------------
(***************************************************************************)
(* EpollImpl (linux/linux-epoll.{h,cc}) with the base poller and the       *)
(* transports: the slot table, the generation that marks slots changed     *)
(* during a dispatch, and the order in which one report is handled.        *)
(*                                                                         *)
(* The polling thread runs Poll() in a loop.  epoll_wait() runs without    *)
(* lock_; dispatching holds it and gives it up around every listener call. *)
(* User operations take lock_, so they are atomic; other threads run them  *)
(* whenever the lock is free, which includes the window between            *)
(* epoll_wait() and the lock (pc = "waited").  Without EnableThreadSafety  *)
(* there is one thread, which calls them between polls or in listeners.    *)
(*                                                                         *)
(* generation_ is only ever compared with listeners_[s].modified, so the   *)
(* model keeps the set of slots where they are equal: generation_++        *)
(* empties it.                                                             *)
(***************************************************************************)
EXTENDS PosixTransport, Sequences, SequencesExt, FiniteSets

CONSTANTS
  NoTransport,      \* a null entry of the slot table
  NoCall,           \* no listener is being called
  ThreadSafe,       \* BOOLEAN: EnableThreadSafety() was called, lock_ exists
  Conditions,       \* [Transports -> the conditions the descriptor may get]
  UsedModes,        \* [Transports -> the event modes users attach it with]
  UsedEvents,       \* [Transports -> the sets of events users ask for]
  Reattached,       \* bound: the transports attached again after a detach
  MaxSlots,         \* bound: failing attaches do not grow the table beyond this
  InitialEvents,    \* max_events_ at first
  FixedBuffer,      \* BOOLEAN: was the size given by the user?
  MaxBuffer         \* bound: the event buffer stops growing here

AllConditions == {"in", "out", "hup", "err"}

ASSUME NullAssumption == NoTransport \notin Transports
ASSUME FiniteAssumption == IsFiniteSet(Transports)
ASSUME ThreadAssumption == ThreadSafe \in BOOLEAN
ASSUME UseAssumption == /\ Conditions \in [Transports -> SUBSET AllConditions]
                        /\ UsedModes \in [Transports -> SUBSET Modes]
                        /\ UsedEvents \in [Transports -> SUBSET SUBSET EventBits]
ASSUME BufferAssumption == InitialEvents \in Nat \ {0} /\ MaxBuffer \in Nat
                             /\ FixedBuffer \in BOOLEAN /\ MaxSlots \in Nat

VARIABLES
  open,         \* ep_ # -1
  slots,        \* listeners_[s].transport
  free,         \* free_slots_
  slotOf,       \* impldata_ of each transport
  changed,      \* slots s with listeners_[s].modified = generation_
  interest,     \* kernel: events asked for, and "ET"
  holds,        \* kernel: conditions of each descriptor
  edge,         \* kernel: edge-triggered ones with news since last reported
  maxEvents,    \* max_events_
  nevents,      \* what epoll_wait() returned
  pc,           \* the polling thread
  batch,        \* event_buffer_ entries not yet handled
  cur,          \* what is left of the entry being handled
  call          \* the listener call in progress

tableVars  == <<slots, free, slotOf, changed>>
kernelVars == <<interest, edge>>
pollVars   == <<maxEvents, nevents, pc, batch, cur, call>>
vars == <<transportVars, open, tableVars, kernelVars, holds, pollVars>>

InterestBits == EventBits \cup {"ET"}
Entries == [slot : Nat, who : Transports, ev : SUBSET AllConditions]
Calls == [to : Transports, kind : {"read", "write", "hangup"}]

Init ==
  /\ TransportInit
  /\ open = TRUE
  /\ slots = <<>> /\ free = <<>> /\ changed = {}
  /\ slotOf = [t \in Transports |-> 0]
  /\ interest = [t \in Transports |-> {}]
  /\ holds = [t \in Transports |-> {}]
  /\ edge = {}
  /\ maxEvents = InitialEvents /\ nevents = 0
  /\ pc = "idle" /\ batch = {} /\ cur = {} /\ call = NoCall

----------------------------------------------------------------------------
(* User operations.                                                        *)

UserMay == pc \in {"idle", "call"} \/ (ThreadSafe /\ pc = "waited")

PassesAllFlags(bits) == bits                       \* fault: the flags are passed as they are

\* What epoll_ctl() asks the kernel for, given a transport's bits.
EpollMask(bits) ==
  (bits \cap EventBits) \cup (IF "ET" \in bits THEN {"ET"} ELSE {})

\* The conditions the kernel reports under a mask: errors and hangups always.
Visible(t, mask) ==
  holds[t] \cap ({"hup", "err"} \cup (IF "Reading" \in mask THEN {"in"} ELSE {})
                               \cup (IF "Writing" \in mask THEN {"out"} ELSE {}))

\* EPOLL_CTL_ADD and EPOLL_CTL_MOD look at the descriptor at once.
EpollCtl(t, bits) ==
  /\ interest' = [interest EXCEPT ![t] = EpollMask(bits)]
  /\ edge' = IF "ET" \in bits /\ Visible(t, EpollMask(bits)) # {}
               THEN edge \cup {t} ELSE edge \ {t}

\* The slot attach_locked() picks: the last freed one, or a new one.
NewSlot == IF free = <<>> THEN Len(slots) + 1 ELSE Last(free)

LeavesFree == free                           \* fault: the slot is not popped
FreeAfterPick == IF free = <<>> THEN free ELSE Front(free)

Attach(t, events, mode) ==
  /\ UserMay /\ ~AttachRefused(t, mode) /\ open
  /\ t \in detachedOnce => t \in Reattached
  /\ LET bits == events \cup ModeFlags(mode) IN
       EpollCtl(t, bits) /\ TransportAttach(t, bits)
  /\ slots' = IF free = <<>> THEN Append(slots, t) ELSE [slots EXCEPT ![NewSlot] = t]
  /\ free' = FreeAfterPick
  /\ slotOf' = [slotOf EXCEPT ![t] = NewSlot]
  /\ changed' = changed \cup {NewSlot}
  /\ UNCHANGED <<fd, open, holds, pollVars>>

\* EPOLL_CTL_ADD fails (always so after Shutdown()): the slot is given back.
AttachFails(t, mode) ==
  /\ UserMay /\ ~AttachRefused(t, mode)
  /\ free = <<>> /\ Len(slots) < MaxSlots
  /\ slots' = Append(slots, NoTransport)
  /\ free' = Append(free, NewSlot)
  /\ UNCHANGED <<transportVars, open, slotOf, changed, kernelVars, holds, pollVars>>

\* detach_locked().
KeepsSlotUnmarked(s) == changed              \* fault: modified is not set
MarkedAfterDetach(s) == changed \cup {s}

DetachLocked(t) ==
  LET s == slotOf[t] IN
    /\ slots' = [slots EXCEPT ![s] = NoTransport]
    /\ changed' = MarkedAfterDetach(s)
    /\ free' = Append(free, s)
    /\ interest' = [interest EXCEPT ![t] = {}]
    /\ edge' = edge \ {t}
    /\ TransportDetach({t})
    /\ UNCHANGED slotOf

\* detach_unlocked(): not ours, nothing to do.
Detach(t) ==
  /\ UserMay /\ t \in attached
  /\ DetachLocked(t)
  /\ UNCHANGED <<fd, open, holds, pollVars>>

\* change_events_locked_helper() and change_events_locked().
ChangeTo(t, bits) ==
  /\ UserMay /\ ~ChangeRefused(t)
  /\ bits # flags[t]
  /\ EpollCtl(t, bits) /\ TransportSetEvents(t, bits)
  /\ UNCHANGED <<open, tableVars, holds, pollVars>>

ChangeEvents(t, events) == ChangeTo(t, events)
AddEvents(t, events)    == ChangeTo(t, flags[t] \cup events)

RemovesFromFlagsOnly(t, events) ==           \* fault: the kernel is not told
  /\ UserMay /\ ~ChangeRefused(t)
  /\ TransportSetEvents(t, flags[t] \ events)
  /\ UNCHANGED <<open, tableVars, kernelVars, holds, pollVars>>
RemoveEvents(t, events) == ChangeTo(t, flags[t] \ events)

\* Close(): detach from the poller, then close the descriptor.
Close(t) ==
  /\ UserMay /\ fd[t] = "open"
  /\ fd' = [fd EXCEPT ![t] = "closed"]
  /\ holds' = [holds EXCEPT ![t] = {}]
  /\ IF t \in attached
       THEN DetachLocked(t)
       ELSE UNCHANGED <<attached, flags, detachedOnce, tableVars, kernelVars>>
  /\ UNCHANGED <<open, pollVars>>

\* The last reference goes; the slot table holds references too.
Destroy(t) ==
  /\ UserMay /\ t \notin Range(slots)
  /\ TransportDestroy(t)
  /\ holds' = [holds EXCEPT ![t] = {}]
  /\ UNCHANGED <<open, tableVars, kernelVars, pollVars>>

\* Read() and Write() on an open descriptor: some of the data is taken, or
\* the call would block and ReadIsBlocked() or WriteIsBlocked() asks for the
\* event, if flags_ does not say that it is already asked for.
Transfer(t, condition) ==
  /\ UserMay /\ fd[t] = "open" /\ condition \in holds[t]
  /\ holds' = [holds EXCEPT ![t] = @ \ {condition}]
  /\ UNCHANGED <<transportVars, open, tableVars, kernelVars, pollVars>>

IsBlocked(t, condition, bit) ==
  /\ fd[t] = "open" /\ condition \notin holds[t] /\ "hup" \notin holds[t]
  /\ bit \notin flags[t]
  /\ AddEvents(t, {bit})

Read(t)  == Transfer(t, "in") \/ IsBlocked(t, "in", "Reading")
Write(t) == Transfer(t, "out") \/ IsBlocked(t, "out", "Writing")

\* Shutdown(): the transports are let go but the slots keep their pointers.
\* Calling it in a listener crashes the dispatch that follows (see README).
Shutdown ==
  /\ pc = "idle" /\ open
  /\ open' = FALSE
  /\ TransportDetach(attached)
  /\ interest' = [t \in Transports |-> {}]
  /\ edge' = {}
  /\ UNCHANGED <<fd, tableVars, holds, pollVars>>

User ==
  \/ \E t \in Transports : \E events \in UsedEvents[t] :
       \/ \E mode \in UsedModes[t] : Attach(t, events, mode)
       \/ ChangeEvents(t, events) \/ AddEvents(t, events) \/ RemoveEvents(t, events)
  \/ \E t \in Transports :
       \/ \E mode \in UsedModes[t] : AttachFails(t, mode)
       \/ Detach(t) \/ Close(t) \/ Destroy(t) \/ Read(t) \/ Write(t)
  \/ Shutdown

----------------------------------------------------------------------------
(* The kernel.                                                             *)

\* Something happens at the other end: for an edge-triggered descriptor this is
\* news even if the condition held before.
Arrive(t, condition) ==
  /\ fd[t] = "open"
  /\ holds' = [holds EXCEPT ![t] = @ \cup {condition}]
  /\ edge' = IF "ET" \in interest[t] THEN edge \cup {t} ELSE edge
  /\ UNCHANGED <<transportVars, open, tableVars, interest, pollVars>>

----------------------------------------------------------------------------
(* The polling thread.                                                     *)

\* Descriptors epoll_wait() has something to say about.
Candidates ==
  {t \in attached : /\ Visible(t, interest[t]) # {}
                    /\ "ET" \in interest[t] => t \in edge}

EntryFor(t) == [slot |-> slotOf[t], who |-> t, ev |-> Visible(t, interest[t])]

\* epoll_wait() fills the buffer with as many as fit.
Wait(S) ==
  /\ pc = "idle" /\ open
  /\ S # {} /\ S \subseteq Candidates
  /\ Cardinality(S) = IF Cardinality(Candidates) < maxEvents
                        THEN Cardinality(Candidates) ELSE maxEvents
  /\ batch' = {EntryFor(t) : t \in S}
  /\ edge' = edge \ S
  /\ nevents' = Cardinality(S)
  /\ pc' = "waited"
  /\ UNCHANGED <<transportVars, open, tableVars, interest, holds,
                 maxEvents, cur, call>>

NotBumped == changed                         \* fault: no generation_++
Bumped == {}

\* epoll_wait() timed out: all Poll() does is generation_++.
WaitTimesOut ==
  /\ pc = "idle" /\ open /\ Candidates = {}
  /\ changed' = Bumped
  /\ UNCHANGED <<transportVars, open, slots, free, slotOf, kernelVars,
                 holds, pollVars>>

\* The lock is taken and the generation starts.
BeginDispatch ==
  /\ pc = "waited"
  /\ changed' = Bumped
  /\ pc' = "dispatch"
  /\ UNCHANGED <<transportVars, open, slots, free, slotOf, kernelVars, holds,
                 maxEvents, nevents, batch, cur, call>>

\* The entry at hand: the one being handled, else any other.
AtHand(e) == pc = "dispatch" /\ e \in IF cur # {} THEN cur ELSE batch

\* isFdChanged().
TrustsEveryEntry(e) == FALSE                 \* fault: no test at all
IsFdChanged(e) == e.slot \in changed

\* Which condition is handled next: errors, then input, hangups, output.
Next1(e) ==
  CASE "err" \in e.ev -> "err"
    [] "err" \notin e.ev /\ "in" \in e.ev -> "in"
    [] e.ev \cap {"err", "in"} = {} /\ "hup" \in e.ev -> "hup"
    [] OTHER -> "out"

\* What remains of the entry after that: only input lets the rest be looked at.
OneEventPerEntry(e) == {}                    \* fault: "continue" after the input
Rest(e) ==
  IF Next1(e) = "in" /\ e.ev # {"in"} THEN {[e EXCEPT !.ev = @ \ {"in"}]} ELSE {}

Consume(e, rest) == batch' = batch \ {e} /\ cur' = rest

Owner(e) == slots[e.slot]

\* The slot is empty, or its transport has no listener any more: the code
\* calls through a null pointer.
Crash(e) ==
  /\ AtHand(e) /\ ~IsFdChanged(e)
  /\ Owner(e) \notin attached
  /\ pc' = "crashed"
  /\ UNCHANGED <<transportVars, open, tableVars, kernelVars, holds,
                 maxEvents, nevents, batch, cur, call>>

Skip(e) ==
  /\ AtHand(e) /\ IsFdChanged(e)
  /\ Consume(e, {})
  /\ UNCHANGED <<transportVars, open, tableVars, kernelVars, holds,
                 maxEvents, nevents, pc, call>>

\* reportError_locked() and reportHup_locked(): detach first, then tell.
ReportHangup(e) ==
  /\ AtHand(e) /\ ~IsFdChanged(e) /\ Owner(e) \in attached
  /\ Next1(e) \in {"err", "hup"}
  /\ call' = [to |-> Owner(e), kind |-> "hangup"]
  /\ pc' = "call"
  /\ DetachLocked(Owner(e))
  /\ Consume(e, {})
  /\ UNCHANGED <<fd, open, holds, maxEvents, nevents>>

\* The event that asks for a condition.
Bit(condition) == IF condition = "in" THEN "Reading" ELSE "Writing"

\* handleEvent(): a level-triggered transport that no longer asks for the
\* event is passed over.
NeverBails(t, condition) == TRUE             \* fault: the interest is not tested
Wanted(t, condition) ==
  "LT" \in flags[t] => Bit(condition) \in flags[t]

HandleEvent(e) ==
  /\ AtHand(e) /\ ~IsFdChanged(e) /\ Owner(e) \in attached
  /\ Next1(e) \in {"in", "out"}
  /\ Consume(e, Rest(e))
  /\ IF Wanted(Owner(e), Next1(e))
       THEN /\ call' = [to |-> Owner(e), kind |-> IF Next1(e) = "in" THEN "read" ELSE "write"]
            /\ pc' = "call"
       ELSE UNCHANGED <<call, pc>>
  /\ UNCHANGED <<transportVars, open, tableVars, kernelVars, holds,
                 maxEvents, nevents>>

\* The listener returns and the lock is taken again.
Return ==
  /\ pc = "call"
  /\ pc' = "dispatch" /\ call' = NoCall
  /\ UNCHANGED <<transportVars, open, tableVars, kernelVars, holds,
                 maxEvents, nevents, batch, cur>>

\* All entries handled; the buffer doubles if it was full.
EndPoll ==
  /\ pc = "dispatch" /\ batch = {} /\ cur = {}
  /\ pc' = "idle" /\ nevents' = 0
  /\ maxEvents' = IF ~FixedBuffer /\ nevents = maxEvents /\ maxEvents * 2 <= MaxBuffer
                    THEN maxEvents * 2 ELSE maxEvents
  /\ UNCHANGED <<transportVars, open, tableVars, kernelVars, holds,
                 batch, cur, call>>

PollThread ==
  \/ BeginDispatch
  \/ \E e \in batch \cup cur : Crash(e) \/ Skip(e) \/ ReportHangup(e) \/ HandleEvent(e)
  \/ Return
  \/ EndPoll

Next ==
  \/ User
  \/ \E t \in Transports : \E condition \in Conditions[t] : Arrive(t, condition)
  \/ \E S \in SUBSET Transports : Wait(S)
  \/ WaitTimesOut
  \/ PollThread

Spec == Init /\ [][Next]_vars

\* Poll() is called again and again, listeners return, and the kernel's ready
\* list is a queue, so no descriptor is passed over for ever.
WaitWith(t) == \E S \in SUBSET Transports : t \in S /\ Wait(S)
Fairness == WF_vars(PollThread) /\ \A t \in Transports : SF_vars(WaitWith(t))
FairSpec == Spec /\ Fairness

----------------------------------------------------------------------------
(* Properties.                                                             *)

TypeOK ==
  /\ TransportTypeOK
  /\ open \in BOOLEAN
  /\ slots \in Seq(Transports \cup {NoTransport})
  /\ free \in Seq(Nat) /\ slotOf \in [Transports -> Nat] /\ changed \subseteq Nat
  /\ interest \in [Transports -> SUBSET InterestBits]
  /\ holds \in [Transports -> SUBSET AllConditions]
  /\ edge \subseteq Transports
  /\ maxEvents \in Nat \ {0} /\ nevents \in Nat
  /\ pc \in {"idle", "waited", "dispatch", "call", "crashed"}
  /\ batch \in SUBSET Entries /\ cur \in SUBSET Entries
  /\ call \in Calls \cup {NoCall}

\* The slot table stays sound under any interleaving of operations with a
\* dispatch (amio-posix.h:227, "the operations will not corrupt internal
\* structures"): an attached transport has the slot it remembers, no slot has
\* two, and a slot is in free_slots_ once if it is empty and never otherwise.
AttachedHaveSlots ==
  \A t \in attached : slotOf[t] \in DOMAIN slots /\ slots[slotOf[t]] = t

SlotsAreAttached ==
  open => \A s \in DOMAIN slots : slots[s] \in attached \cup {NoTransport}

FreeSlotsEmpty ==
  /\ \A i \in DOMAIN free : free[i] \in DOMAIN slots /\ slots[free[i]] = NoTransport
  /\ \A i, j \in DOMAIN free : free[i] = free[j] => i = j

NoSlotLeaks ==
  \A s \in DOMAIN slots : slots[s] = NoTransport => s \in Range(free)

SlotTable ==
  /\ AttachedHaveSlots
  /\ SlotsAreAttached
  /\ FreeSlotsEmpty
  /\ NoSlotLeaks
  /\ ~open => attached = {}

\* With one thread, an entry that isFdChanged() lets through is for the
\* transport that the kernel meant, whatever listeners did in between
\* ("Make sure this transport wasn't swapped out or removed").
EntriesLive ==
  ~ThreadSafe /\ pc \in {"dispatch", "call"} =>
    \A e \in batch \cup cur : e.slot \in changed \/ (Owner(e) = e.who /\ e.who \in attached)

\* With one thread, the dispatch never calls through a null transport.
NoCrashAlone == ~ThreadSafe => pc # "crashed"

\* amio-posix.h:227 and :237: the same with EnableThreadSafety().
NoCrash == pc # "crashed"

\* flags_ says what the kernel was asked for, as ReadIsBlocked() and the early
\* return of change_events_locked_helper() take for granted.  It need not for a
\* transport attached again, since detach() leaves bits in flags_.
InterestAgrees ==
  \A t \in attached \ detachedOnce : interest[t] \cap EventBits = flags[t] \cap EventBits

\* A borrowed descriptor outlives the transport made for it, unless that
\* transport was attached and detached (detach() drops kTransportNoAutoClose).
BorrowedKept == \A t \in Borrowed \ detachedOnce : fd[t] # "autoclosed"

\* With one thread, EpollImpl does what IODispatcher promises.
Kind(condition) == CASE condition = "in" -> "read" [] condition = "out" -> "write"
                     [] OTHER -> "hangup"
KindsOf(conditions) == {Kind(c) : c \in conditions}
Asked(t) == {IF bit = "Reading" THEN "read" ELSE "write" : bit \in interest[t] \cap EventBits}
Reported(t) ==
  UNION {KindsOf(e.ev) : e \in {x \in batch \cup cur :
                                  x.who = t /\ (pc = "waited" \/ x.slot \notin changed)}}

Dispatcher == INSTANCE IODispatcher WITH
  level    <- {t \in attached : "LT" \in flags[t]},
  want     <- [t \in Transports |-> IF t \in attached THEN Asked(t) ELSE {}],
  holds    <- [t \in Transports |-> KindsOf(holds[t])],
  reported <- [t \in Transports |-> Reported(t)]

ImplementsDispatcher ==
  /\ Dispatcher!Init
  /\ [][ThreadSafe \/ Dispatcher!Next]_(Dispatcher!vars)

\* An event asked for, level- or edge-triggered, reaches the listener: no part
\* of an entry is dropped for good, also when the buffer is too small for all.
StillDue(t, condition) ==
  t \in attached /\ Bit(condition) \in interest[t] /\ condition \in holds[t]
Due(t, condition) ==
  StillDue(t, condition) /\ ("ET" \in interest[t] => t \in edge)

EventsDelivered ==
  \A t \in Transports, condition \in {"in", "out"} :
    Due(t, condition) ~> \/ call = [to |-> t, kind |-> Kind(condition)]
                         \/ ~StillDue(t, condition)
                         \/ pc = "crashed"
==============================================================================
