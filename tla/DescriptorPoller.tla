--------------------------- MODULE DescriptorPoller ---------------------------
(***************************************************************************)
(* What PollImpl, SelectImpl, KqueueImpl, DevPollImpl and PortImpl have in *)
(* common: the state of a poller that a thread polls and whose listeners   *)
(* operate on it while a report is handled, the operations of PosixPoller  *)
(* (posix-base-poller.cc) in terms of a backend's attach_locked(),         *)
(* detach_locked() and change_events_locked(), and the properties that all *)
(* five are to have.  Each backend is a module that extends this one;      *)
(* MCPollers composes them.                                                *)
(*                                                                         *)
(* A transport is a descriptor number here: once closed, the number comes  *)
(* back with a new transport (Create), as the tables indexed by descriptor *)
(* see it.  There is one thread.  The kernel may report whatever it was    *)
(* asked for, so no backend relies on when a condition holds.              *)
(***************************************************************************)
EXTENDS PosixTransport, Integers, Sequences, SequencesExt, FiniteSets

CONSTANTS
  None,             \* a null transport, or no call
  Backends,         \* the implementations PollerFactory may create
  Conditions,       \* [Transports -> the conditions the kernel may report]
  UsedModes,        \* [Transports -> the modes users attach it with]
  UsedEvents        \* [Transports -> the sets of events users ask for]

AllConditions == {"in", "out", "hup", "err"}
AllBackends == {"poll", "select", "kqueue", "devpoll", "port"}

ASSUME DescriptorAssumption == Transports \subseteq Nat /\ IsFiniteSet(Transports)
ASSUME NullAssumption == None \notin Transports
ASSUME BackendAssumption == Backends \subseteq AllBackends
ASSUME AskedAssumption == /\ Conditions \in [Transports -> SUBSET AllConditions]
                          /\ UsedModes \in [Transports -> SUBSET Modes]
                          /\ UsedEvents \in [Transports -> SUBSET SUBSET EventBits]

VARIABLES
  backend,      \* the implementation in use
  open,         \* Shutdown() was not called
  slots,        \* poll_events_[s].fd, listeners_[s] or fds_[s]: its transport
  free,         \* free_slots_
  slotOf,       \* getUserData() of each transport
  changed,      \* entries of the table with modified = generation_
  interest,     \* what the system call is asked for; "Associated" with a port
  watermark,    \* select: fd_watermark_
  moved,        \* poll: the vector being walked was reallocated
  since,        \* history: registrations begun while reports are being handled
  pc,           \* the polling thread
  batch,        \* reported and not yet handled
  cur,          \* what is left of the entry being handled
  call          \* the listener call in progress

slotVars == <<slots, free, slotOf>>
tableVars == <<slotVars, changed, interest, watermark, moved>>
pollVars == <<pc, batch, cur, call>>
vars == <<transportVars, backend, open, tableVars, since, pollVars>>

Entries == [slot : Nat, who : Transports, ev : SUBSET AllConditions]
Calls == [to : Transports, kind : {"read", "write", "hangup"}]

PollerInit(name) ==
  /\ TransportInit
  /\ backend = name /\ open = TRUE
  /\ slots = <<>> /\ free = <<>> /\ slotOf = [t \in Transports |-> 0]
  /\ changed = {} /\ interest = [t \in Transports |-> {}]
  /\ watermark = -1 /\ moved = FALSE /\ since = {}
  /\ pc = "idle" /\ batch = {} /\ cur = {} /\ call = None

----------------------------------------------------------------------------
(* The slots of poll, kqueue and ports: the last freed one is used again.  *)

CountsFromZero == IF free = <<>> THEN Len(slots) ELSE Last(free)   \* fault: off by one
NewSlot == IF free = <<>> THEN Len(slots) + 1 ELSE Last(free)

TakeSlot(t) ==
  /\ slots' = IF free = <<>> THEN Append(slots, t) ELSE [slots EXCEPT ![NewSlot] = t]
  /\ free' = IF free = <<>> THEN free ELSE Front(free)
  /\ slotOf' = [slotOf EXCEPT ![t] = NewSlot]

GiveSlotBack(t) ==
  /\ slots' = [slots EXCEPT ![slotOf[t]] = None]
  /\ free' = Append(free, slotOf[t])
  /\ UNCHANGED slotOf

----------------------------------------------------------------------------
(* The operations of PosixPoller, given what the backend does in them:     *)
(* attaches, detaches and changes are its attach_locked(), detach_locked() *)
(* and change_events_locked(), and determine attached, flags, detachedOnce *)
(* and tableVars.                                                          *)

UserMay == open /\ pc \in {"idle", "call"}

Attach(t, mode, attaches) ==
  /\ UserMay /\ ~AttachRefused(t, mode)
  /\ attaches
  /\ since' = IF pc = "idle" THEN since ELSE since \cup {t}
  /\ UNCHANGED <<backend, open, fd, pollVars>>

\* detach_unlocked(): not ours, nothing to do.
Detach(t, detaches) ==
  /\ UserMay /\ t \in attached
  /\ detaches
  /\ UNCHANGED <<backend, open, fd, since, pollVars>>

\* change_events_locked_helper() after change, add or rm_events_unlocked().
ChangeTo(t, bits, changes) ==
  /\ UserMay /\ ~ChangeRefused(t)
  /\ bits # flags[t]
  /\ changes
  /\ UNCHANGED <<backend, open, fd, since, pollVars>>

\* Close(): detach from the poller, then close the descriptor.
Close(t, detaches) ==
  /\ UserMay /\ fd[t] = "open"
  /\ fd' = [fd EXCEPT ![t] = "closed"]
  /\ IF t \in attached THEN detaches
                       ELSE UNCHANGED <<attached, flags, detachedOnce, tableVars>>
  /\ UNCHANGED <<backend, open, since, pollVars>>

\* The system gives the number to a new descriptor; what the kernel knew of the
\* closed one is gone.
Create(t) ==
  /\ UserMay /\ fd[t] = "closed"
  /\ fd' = [fd EXCEPT ![t] = "open"]
  /\ flags' = [flags EXCEPT ![t] = {}]
  /\ detachedOnce' = detachedOnce \ {t}
  /\ interest' = [interest EXCEPT ![t] = {}]
  /\ UNCHANGED <<attached, backend, open, slotVars, changed, watermark, moved,
                 since, pollVars>>

\* detach_for_shutdown_locked() of all; nobody uses the poller afterwards.
Shutdown ==
  /\ UserMay /\ pc = "idle"
  /\ open' = FALSE
  /\ TransportDetach(attached)
  /\ UNCHANGED <<fd, backend, tableVars, since, pollVars>>

UserSteps(Attaches(_, _), Detaches(_), Changes(_, _)) ==
  \/ \E t \in Transports : \E events \in UsedEvents[t] :
       \/ \E mode \in UsedModes[t] :
            Attach(t, mode, Attaches(t, events \cup ModeFlags(mode)))
       \/ \E bits \in {events, flags[t] \cup events, flags[t] \ events} :
            ChangeTo(t, bits, Changes(t, bits))
  \/ \E t \in Transports : Detach(t, Detaches(t)) \/ Close(t, Detaches(t)) \/ Create(t)
  \/ Shutdown

----------------------------------------------------------------------------
(* The polling thread.                                                     *)

Bit(condition) == IF condition = "in" THEN "Reading" ELSE "Writing"
Asked(t) == {c \in {"in", "out"} : Bit(c) \in interest[t]}

\* The system call reports some of what there may be to report, and the
\* generation begins.
Reports(entries) ==
  /\ open /\ pc = "idle"
  /\ entries # {}
  /\ batch' = entries /\ pc' = "dispatch"
  /\ changed' = {}

\* The entry at hand: the one being handled, else any other.
AtHand(e) == pc = "dispatch" /\ e \in IF cur # {} THEN cur ELSE batch

\* poll() and select(): the entries are looked at in ascending order.
First(e) == AtHand(e) /\ \A other \in batch : e.slot <= other.slot

Consume(e, rest) == batch' = batch \ {e} /\ cur' = rest

Calls1(t, kind) == call' = [to |-> t, kind |-> kind] /\ pc' = "call"

Skip(e) ==
  /\ Consume(e, {})
  /\ UNCHANGED <<transportVars, backend, open, tableVars, since, pc, call>>

Fails(outcome) ==
  /\ pc' = outcome
  /\ UNCHANGED <<transportVars, backend, open, tableVars, since, batch, cur, call>>

\* reportHup_locked() and reportError_locked(): detach first, then tell.
ReportHangup(e, t, detaches) ==
  /\ Calls1(t, "hangup")
  /\ detaches
  /\ Consume(e, {})
  /\ UNCHANGED <<fd, backend, open, since>>

Return ==
  /\ pc = "call"
  /\ pc' = "dispatch" /\ call' = None
  /\ UNCHANGED <<transportVars, backend, open, tableVars, since, batch, cur>>

EndPoll ==
  /\ pc = "dispatch" /\ batch = {} /\ cur = {}
  /\ pc' = "idle"
  /\ moved' = FALSE /\ since' = {}
  /\ UNCHANGED <<transportVars, backend, open, slotVars, changed, interest, watermark,
                 batch, cur, call>>

----------------------------------------------------------------------------
(* Properties.                                                             *)

HasSlots == backend \in {"poll", "kqueue", "port"}

TypeOK ==
  /\ fd \in [Transports -> {"open", "closed"}]
  /\ attached \subseteq Transports /\ detachedOnce \subseteq Transports
  /\ flags \in [Transports -> SUBSET (Bits \cup {"Armed"})]
  /\ backend \in Backends /\ open \in BOOLEAN /\ moved \in BOOLEAN
  /\ slots \in Seq(Transports \cup {None})
  /\ free \in Seq(Nat \ {0}) /\ slotOf \in [Transports -> Nat] /\ changed \subseteq Nat
  /\ interest \in [Transports -> SUBSET (EventBits \cup {"Associated"})]
  /\ watermark \in Transports \cup {-1}
  /\ since \subseteq Transports
  /\ pc \in {"idle", "dispatch", "call", "crashed", "undefined"}
  /\ batch \in SUBSET Entries /\ cur \in SUBSET Entries
  /\ call \in Calls \cup {None}

\* amio-posix.h:227, "the operations will not corrupt internal structures":
\* however attaches, detaches, failed attaches and closes are mixed with a
\* dispatch, an attached transport has the slot it remembers, a slot is in
\* free_slots_ exactly once if it is empty and never otherwise, and select()'s
\* watermark is the highest descriptor attached.
SlotsSound ==
  /\ \A t \in attached : slotOf[t] \in DOMAIN slots /\ slots[slotOf[t]] = t
  /\ \A s \in DOMAIN slots : slots[s] \in attached \cup {None}
  /\ Range(free) = {s \in DOMAIN slots : slots[s] = None}
  /\ Len(free) = Cardinality(Range(free))

WatermarkSound ==
  /\ watermark \in attached \cup {-1}
  /\ \A t \in attached : t <= watermark

TableSound ==
  open => /\ HasSlots => SlotsSound
          /\ backend = "select" => WatermarkSound

\* posix-select.cc:186, "Make sure this transport wasn't swapped out or
\* removed": an entry that passes the test of isFdChanged() is about the very
\* registration that the system call reported, whatever the listeners called so
\* far attached, detached or closed, numbers reused included.  (Ports keep
\* associations of detached transports, see README; poll() entries whose slot was
\* emptied are NoUndefined's.)
Transport(e) == IF HasSlots THEN slots[e.slot] ELSE e.slot
FdChanged(e) == (IF backend = "poll" THEN slots[e.slot] ELSE e.slot) \in changed

EntriesCurrent ==
  pc \in {"dispatch", "call"} /\ backend # "port" =>
    \A e \in batch \cup cur :
      \/ FdChanged(e)
      \/ backend = "poll" /\ slots[e.slot] = None
      \/ Transport(e) = e.who /\ e.who \in attached \ since

\* Between polls the system is asked for exactly the events that flags_ says,
\* on which the early return of change_events_locked_helper() and
\* ReadIsBlocked() rely: the emulation of edges, its interplay with changes made
\* by listeners, and the numbers reused all keep the two in step.  Two
\* exceptions: a transport attached for the second time (flags_ keeps old bits,
\* except with kqueue), and ports, whose flags_ only ever grow; of those, a
\* transport must at least be associated again, or it is never heard of.
InterestAgrees ==
  open /\ pc = "idle" =>
    \A t \in attached :
      \/ backend = "port" /\ "Associated" \in interest[t]
      \/ backend # "port" /\ t \in detachedOnce /\ backend # "kqueue"
      \/ backend # "port" /\ interest[t] = flags[t] \cap EventBits

\* posix-poll.cc:222, "We have to check this in case the list changes during
\* iteration": the test itself must not read fds_[-1], nor the loop a vector
\* that was reallocated.
NoUndefined == pc # "undefined"

\* Every backend does what IODispatcher promises, up to the point where it
\* crashes: calls only for attached transports, for kinds asked for and reported
\* for this registration, once each, and hangups after the detach.  (DevPollImpl and
\* PortImpl report one also when they fail to change what the kernel watches.)
Kind(condition) == CASE condition = "in" -> "read" [] condition = "out" -> "write"
                     [] OTHER -> "hangup"
Wants(t) == {Kind(c) : c \in {c \in {"in", "out"} : Bit(c) \in flags[t]}}
MayFail == IF backend \in {"devpoll", "port"} THEN {"hangup"} ELSE {}
Reported(t) ==
  UNION {{Kind(c) : c \in e.ev} \cup MayFail : e \in {x \in batch \cup cur : x.who = t}}
Dispatched == attached \ since

\* flags_ keeps the mode of an earlier registration: where the test is for ET, a
\* transport once attached edge-triggered is edge-triggered for ever.
TestsEdge == backend \in {"devpoll", "port"}

Level == {t \in attached : "LT" \in flags[t] /\ (TestsEdge => "ET" \notin flags[t])}
Want == [t \in Transports |-> IF t \in attached THEN Wants(t) ELSE {}]
Holding == [t \in Transports |-> {"read", "write", "hangup"}]
Told == [t \in Transports |-> IF t \in Dispatched THEN Reported(t) ELSE {}]

Dispatcher == INSTANCE IODispatcher WITH
  NoCall <- None, level <- Level, want <- Want, holds <- Holding, reported <- Told

ImplementsDispatcher == Dispatcher!Spec
==============================================================================
