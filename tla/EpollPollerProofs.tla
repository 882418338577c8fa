-------------------------- MODULE EpollPollerProofs --------------------------
(***************************************************************************)
(* EpollImpl is type-correct, keeps its slot table sound under any         *)
(* interleaving of user operations with a dispatch, with and without       *)
(* EnableThreadSafety(), and without it never calls through a slot that    *)
(* was emptied or reused during the dispatch.  Until a transport is        *)
(* detached, flags_ tells what the kernel was asked for and that a         *)
(* borrowed descriptor is to be left open; without thread safety it        *)
(* implements IODispatcher.  For any set of transports, any use of them    *)
(* and any size of the event buffer.                                       *)
(***************************************************************************)
EXTENDS EpollPoller, FiniteSetTheorems, TLAPS

\* Storing into an entry of a table leaves a table of the same length.
LEMMA TableUpdate ==
  ASSUME NEW S, NEW table \in Seq(S), NEW i, NEW x \in S
  PROVE  /\ [table EXCEPT ![i] = x] \in Seq(S)
         /\ DOMAIN [table EXCEPT ![i] = x] = DOMAIN table
<1> DEFINE new == [table EXCEPT ![i] = x]
<1>1. Len(table) \in Nat /\ DOMAIN table = 1 .. Len(table) /\ table \in [1 .. Len(table) -> S]
  OBVIOUS
<1>2. new \in [1 .. Len(table) -> S] /\ DOMAIN new = DOMAIN table
  BY <1>1
<1>3. new \in Seq(S)
  BY <1>1, <1>2
<1>4. QED
  BY <1>2, <1>3

\* The slot that attach_locked() picks, and what is left of free_slots_.
LEMMA PickTypes ==
  ASSUME free \in Seq(Nat), slots \in Seq(Transports \cup {NoTransport})
  PROVE  NewSlot \in Nat /\ FreeAfterPick \in Seq(Nat)
<1>1. CASE free = <<>>
  BY <1>1 DEF NewSlot, FreeAfterPick
<1>2. CASE free # <<>>
  BY <1>2 DEF NewSlot, FreeAfterPick, Front, Last
<1>3. QED
  BY <1>1, <1>2

\* A transport's bits stay bits, and the kernel is only asked for known ones.
LEMMA CtlTypes ==
  ASSUME TypeOK, NEW t \in Transports, NEW bits \in SUBSET Bits, EpollCtl(t, bits)
  PROVE  /\ interest' \in [Transports -> SUBSET InterestBits]
         /\ edge' \subseteq Transports
<1>1. EpollMask(bits) \in SUBSET InterestBits
  BY DEF EpollMask, InterestBits
<1>2. QED
  BY <1>1 DEF EpollCtl, TypeOK

\* detach_locked() keeps the types of all it touches.
LEMMA DetachTypes ==
  ASSUME TypeOK, NEW t \in Transports, DetachLocked(t)
  PROVE  /\ slots' \in Seq(Transports \cup {NoTransport})
         /\ free' \in Seq(Nat) /\ slotOf' \in [Transports -> Nat] /\ changed' \subseteq Nat
         /\ interest' \in [Transports -> SUBSET InterestBits]
         /\ edge' \subseteq Transports
         /\ attached' \subseteq Transports
         /\ flags' \in [Transports -> SUBSET Bits]
         /\ detachedOnce' \subseteq Transports
<1>1. slotOf[t] \in Nat
  BY DEF TypeOK
<1>2. slots' \in Seq(Transports \cup {NoTransport})
  BY TableUpdate DEF TypeOK, DetachLocked
<1>3. free' \in Seq(Nat) /\ changed' \subseteq Nat /\ slotOf' \in [Transports -> Nat]
  <2>1. free' = Append(free, slotOf[t]) /\ changed' = changed \cup {slotOf[t]}
          /\ slotOf' = slotOf
    BY DEF DetachLocked, MarkedAfterDetach
  <2>2. free' \in Seq(Nat)
    <3>1. free \in Seq(Nat)
      BY DEF TypeOK
    <3>2. QED
      BY <1>1, <2>1, <3>1
  <2>3. changed' \subseteq Nat
    BY <1>1, <2>1 DEF TypeOK
  <2>4. slotOf' \in [Transports -> Nat]
    BY <2>1 DEF TypeOK
  <2>5. QED
    BY <2>2, <2>3, <2>4
<1>4. interest' \in [Transports -> SUBSET InterestBits] /\ edge' \subseteq Transports
  BY DEF TypeOK, DetachLocked
<1>5. attached' \subseteq Transports /\ flags' \in [Transports -> SUBSET Bits]
        /\ detachedOnce' \subseteq Transports
  BY DEF TypeOK, TransportTypeOK, DetachLocked, TransportDetach
<1>6. QED
  BY <1>2, <1>3, <1>4, <1>5

\* change_events_locked() keeps them too.
LEMMA ChangeTypes ==
  ASSUME TypeOK, NEW t \in Transports, NEW bits \in SUBSET Bits, ChangeTo(t, bits)
  PROVE  TypeOK'
<1>1. interest' \in [Transports -> SUBSET InterestBits] /\ edge' \subseteq Transports
  BY CtlTypes DEF ChangeTo
<1>2. TransportTypeOK'
  BY DEF TypeOK, TransportTypeOK, ChangeTo, TransportSetEvents, Bits, EventBits
<1>3. UNCHANGED <<open, tableVars, holds, pollVars>>
  BY DEF ChangeTo
<1>4. QED
  BY <1>1, <1>2, <1>3 DEF TypeOK, tableVars, pollVars

\* Type correctness of user operations.
LEMMA UserTypes == TypeOK /\ User => TypeOK'
<1> SUFFICES ASSUME TypeOK, User PROVE TypeOK'
  OBVIOUS
<1> USE UseAssumption
<1>1. ASSUME NEW t \in Transports, NEW events \in UsedEvents[t],
             NEW mode \in UsedModes[t], Attach(t, events, mode)
      PROVE  TypeOK'
  <2> DEFINE bits == events \cup ModeFlags(mode)
  <2>1. bits \in SUBSET Bits
    BY DEF ModeFlags, Bits, ModeBits, Modes
  <2>2. EpollCtl(t, bits) /\ TransportAttach(t, bits)
    BY <1>1 DEF Attach
  <2>3. interest' \in [Transports -> SUBSET InterestBits] /\ edge' \subseteq Transports
    BY <2>1, <2>2, CtlTypes
  <2>4. TransportTypeOK'
    <3>1. UNCHANGED fd
      BY <1>1 DEF Attach
    <3>2. QED
      BY <2>1, <2>2, <3>1 DEF TypeOK, TransportTypeOK, TransportAttach
  <2>5. NewSlot \in Nat /\ FreeAfterPick \in Seq(Nat)
    BY PickTypes DEF TypeOK
  <2>6. slots' \in Seq(Transports \cup {NoTransport})
    <3>1. CASE free = <<>>
      BY <1>1, <3>1 DEF TypeOK, Attach
    <3>2. CASE free # <<>>
      BY <1>1, <3>2, TableUpdate DEF TypeOK, Attach
    <3>3. QED
      BY <3>1, <3>2
  <2>7. free' \in Seq(Nat) /\ slotOf' \in [Transports -> Nat] /\ changed' \subseteq Nat
    BY <1>1, <2>5 DEF TypeOK, Attach
  <2>8. UNCHANGED <<open, holds, pollVars>>
    BY <1>1 DEF Attach
  <2>9. QED
    BY <2>3, <2>4, <2>6, <2>7, <2>8 DEF TypeOK, pollVars
<1>2. ASSUME NEW t \in Transports, NEW mode \in UsedModes[t], AttachFails(t, mode)
      PROVE  TypeOK'
  <2>1. NewSlot \in Nat
    BY PickTypes DEF TypeOK
  <2>2. slots' \in Seq(Transports \cup {NoTransport}) /\ free' \in Seq(Nat)
    BY <1>2, <2>1 DEF TypeOK, AttachFails
  <2>3. UNCHANGED <<transportVars, open, slotOf, changed, kernelVars, holds, pollVars>>
    BY <1>2 DEF AttachFails
  <2>4. QED
    BY <2>2, <2>3 DEF TypeOK, TransportTypeOK, transportVars, kernelVars, pollVars
<1>3. ASSUME NEW t \in Transports, Detach(t) PROVE TypeOK'
  <2>1. DetachLocked(t) /\ UNCHANGED <<fd, open, holds, pollVars>>
    BY <1>3 DEF Detach
  <2>2. QED
    BY <2>1, DetachTypes DEF TypeOK, TransportTypeOK, pollVars
<1>4. ASSUME NEW t \in Transports, NEW events \in SUBSET EventBits,
             ChangeEvents(t, events) \/ AddEvents(t, events) \/ RemoveEvents(t, events)
      PROVE  TypeOK'
  <2>1. flags[t] \in SUBSET Bits /\ events \in SUBSET Bits
    BY DEF TypeOK, TransportTypeOK, Bits
  <2>2. QED
    BY <1>4, <2>1, ChangeTypes DEF ChangeEvents, AddEvents, RemoveEvents
<1>5. ASSUME NEW t \in Transports, Close(t) PROVE TypeOK'
  <2>1. fd' \in [Transports -> {"open", "closed", "left", "autoclosed"}]
    BY <1>5 DEF Close, TypeOK, TransportTypeOK
  <2>2. holds' \in [Transports -> SUBSET AllConditions]
    BY <1>5 DEF Close, TypeOK
  <2>3. UNCHANGED <<open, pollVars>>
    BY <1>5 DEF Close
  <2>4. CASE t \in attached
    <3>1. DetachLocked(t)
      BY <1>5, <2>4 DEF Close
    <3>2. QED
      BY <2>1, <2>2, <2>3, <3>1, DetachTypes DEF TypeOK, TransportTypeOK, pollVars
  <2>5. CASE t \notin attached
    <3>1. UNCHANGED <<attached, flags, detachedOnce, tableVars, kernelVars>>
      BY <1>5, <2>5 DEF Close
    <3>2. QED
      BY <2>1, <2>2, <2>3, <3>1
         DEF TypeOK, TransportTypeOK, tableVars, kernelVars, pollVars
  <2>6. QED
    BY <2>4, <2>5
<1>6. ASSUME NEW t \in Transports, Destroy(t) PROVE TypeOK'
  <2>1. TransportTypeOK'
    BY <1>6 DEF Destroy, TransportDestroy, TypeOK, TransportTypeOK
  <2>2. holds' \in [Transports -> SUBSET AllConditions]
    BY <1>6 DEF Destroy, TypeOK
  <2>3. UNCHANGED <<open, tableVars, kernelVars, pollVars>>
    BY <1>6 DEF Destroy
  <2>4. QED
    BY <2>1, <2>2, <2>3 DEF TypeOK, tableVars, kernelVars, pollVars
<1>7. ASSUME NEW t \in Transports, Read(t) \/ Write(t) PROVE TypeOK'
  <2>1. ASSUME NEW condition \in AllConditions, Transfer(t, condition) PROVE TypeOK'
    <3>1. holds' \in [Transports -> SUBSET AllConditions]
      BY <2>1 DEF Transfer, TypeOK
    <3>2. UNCHANGED <<transportVars, open, tableVars, kernelVars, pollVars>>
      BY <2>1 DEF Transfer
    <3>3. QED
      BY <3>1, <3>2
         DEF TypeOK, TransportTypeOK, transportVars, tableVars, kernelVars, pollVars
  <2>2. ASSUME NEW bit \in EventBits, AddEvents(t, {bit}) PROVE TypeOK'
    BY <1>4, <2>2
  <2>3. QED
    BY <1>7, <2>1, <2>2 DEF Read, Write, IsBlocked, AllConditions, EventBits
<1>8. CASE Shutdown
  <2>1. TransportTypeOK'
    BY <1>8 DEF Shutdown, TransportDetach, TypeOK, TransportTypeOK
  <2>2. /\ open' = FALSE /\ edge' = {}
        /\ interest' = [u \in Transports |-> {}]
        /\ UNCHANGED <<tableVars, holds, pollVars>>
    BY <1>8 DEF Shutdown
  <2>3. QED
    BY <2>1, <2>2 DEF TypeOK, tableVars, pollVars
<1>9. QED
  BY <1>1, <1>2, <1>3, <1>4, <1>5, <1>6, <1>7, <1>8 DEF User

\* What an entry still holds after one condition of it is handled.
LEMMA RestTypes ==
  ASSUME NEW e \in Entries
  PROVE  /\ Rest(e) \in SUBSET Entries
         /\ \A r \in Rest(e) : r.slot = e.slot /\ r.who = e.who
  BY DEF Rest, Entries

\* Type correctness: every variable keeps the type of its C++ counterpart.
THEOREM EpollTypeCorrect == Spec => []TypeOK
<1>1. Init => TypeOK
  <2> USE BufferAssumption, BorrowedAssumption
  <2>1. ASSUME Init PROVE TransportTypeOK
    BY <2>1 DEF Init, TransportInit, TransportTypeOK, Bits, UserBits
  <2>2. ASSUME Init PROVE open \in BOOLEAN
    BY Zenon, <2>2 DEF Init
  <2>3. QED
    BY <2>1, <2>2 DEF Init, TypeOK
<1>2. TypeOK /\ [Next]_vars => TypeOK'
  <2> SUFFICES ASSUME TypeOK, [Next]_vars PROVE TypeOK'
    OBVIOUS
  <2> USE UseAssumption
  <2>1. CASE User
    BY <2>1, UserTypes
  <2>2. ASSUME NEW t \in Transports, NEW condition \in Conditions[t], Arrive(t, condition)
        PROVE  TypeOK'
    <3>1. holds' \in [Transports -> SUBSET AllConditions] /\ edge' \subseteq Transports
      BY <2>2 DEF Arrive, TypeOK
    <3>2. UNCHANGED <<transportVars, open, tableVars, interest, pollVars>>
      BY <2>2 DEF Arrive
    <3>3. QED
      BY <3>1, <3>2 DEF TypeOK, TransportTypeOK, transportVars, tableVars, pollVars
  <2>3. ASSUME NEW S \in SUBSET Transports, Wait(S) PROVE TypeOK'
    <3>1. \A t \in S : EntryFor(t) \in Entries
      BY DEF EntryFor, Entries, Visible, TypeOK, AllConditions
    <3>2. batch' \in SUBSET Entries /\ edge' \subseteq Transports /\ pc' = "waited"
      BY <2>3, <3>1 DEF Wait, TypeOK
    <3>3. nevents' \in Nat
      BY <2>3, FiniteAssumption, FS_Subset, FS_CardinalityType DEF Wait
    <3>4. UNCHANGED <<transportVars, open, tableVars, interest, holds, maxEvents, cur, call>>
      BY <2>3 DEF Wait
    <3>5. QED
      BY <3>2, <3>3, <3>4 DEF TypeOK, TransportTypeOK, transportVars, tableVars
  <2>4. CASE WaitTimesOut
    BY <2>4 DEF WaitTimesOut, Bumped, TypeOK, TransportTypeOK, transportVars, kernelVars,
                pollVars
  <2>5. CASE BeginDispatch
    BY <2>5 DEF BeginDispatch, Bumped, TypeOK, TransportTypeOK, transportVars, kernelVars
  <2>6. ASSUME NEW e \in batch \cup cur, Crash(e) \/ Skip(e) \/ ReportHangup(e) \/ HandleEvent(e)
        PROVE  TypeOK'
    <3>1. e \in Entries
      BY DEF TypeOK
    <3>2. CASE Crash(e)
      BY <3>2 DEF Crash, TypeOK, TransportTypeOK, transportVars, tableVars, kernelVars
    <3>3. CASE Skip(e)
      BY <3>3 DEF Skip, Consume, TypeOK, TransportTypeOK, transportVars, tableVars, kernelVars
    <3>4. CASE ReportHangup(e)
      <4>1. Owner(e) \in Transports
        BY <3>4 DEF ReportHangup, TypeOK, TransportTypeOK
      <4>2. DetachLocked(Owner(e)) /\ UNCHANGED <<fd, open, holds, maxEvents, nevents>>
        BY <3>4 DEF ReportHangup
      <4>3. batch' \in SUBSET Entries /\ cur' \in SUBSET Entries /\ pc' = "call"
              /\ call' \in Calls
        BY <3>4, <4>1 DEF ReportHangup, Consume, TypeOK, Calls
      <4>4. QED
        BY <4>1, <4>2, <4>3, DetachTypes DEF TypeOK, TransportTypeOK
    <3>5. CASE HandleEvent(e)
      <4>1. Owner(e) \in Transports
        BY <3>5 DEF HandleEvent, TypeOK, TransportTypeOK
      <4>2. batch' \in SUBSET Entries /\ cur' \in SUBSET Entries
        BY <3>1, <3>5, RestTypes DEF HandleEvent, Consume, TypeOK
      <4>3. call' \in Calls \cup {NoCall} /\ pc' \in {"idle", "waited", "dispatch", "call", "crashed"}
        BY <3>5, <4>1 DEF HandleEvent, TypeOK, Calls
      <4>4. UNCHANGED <<transportVars, open, tableVars, kernelVars, holds, maxEvents, nevents>>
        BY <3>5 DEF HandleEvent
      <4>5. QED
        BY <4>2, <4>3, <4>4 DEF TypeOK, TransportTypeOK, transportVars, tableVars, kernelVars
    <3>6. QED
      BY <2>6, <3>2, <3>3, <3>4, <3>5
  <2>7. CASE Return
    BY <2>7 DEF Return, TypeOK, TransportTypeOK, transportVars, tableVars, kernelVars
  <2>8. CASE EndPoll
    <3>1. maxEvents' \in Nat \ {0} /\ nevents' = 0 /\ pc' = "idle"
      BY <2>8 DEF EndPoll, TypeOK
    <3>2. UNCHANGED <<transportVars, open, tableVars, kernelVars, holds, batch, cur, call>>
      BY <2>8 DEF EndPoll
    <3>3. QED
      BY <3>1, <3>2 DEF TypeOK, TransportTypeOK, transportVars, tableVars, kernelVars
  <2>9. CASE UNCHANGED vars
    BY <2>9 DEF vars, TypeOK, TransportTypeOK, transportVars, tableVars, kernelVars, pollVars
  <2>10. QED
    BY <2>1, <2>2, <2>3, <2>4, <2>5, <2>6, <2>7, <2>8, <2>9 DEF Next, PollThread
<1>3. QED
  BY <1>1, <1>2, PTL DEF Spec

----------------------------------------------------------------------------
(* The slot table.  SlotTable alone is not inductive: detach_locked()      *)
(* empties one slot, so no other slot may hold the same transport.         *)

Remembered ==
  open => \A s \in DOMAIN slots : slots[s] # NoTransport => slotOf[slots[s]] = s

TableInv == SlotTable /\ Remembered

tableState == <<open, attached, slots, free, slotOf>>

\* Steps that leave the table alone.
LEMMA TableFrame ==
  ASSUME TableInv, UNCHANGED tableState
  PROVE  TableInv'
  BY DEF TableInv, Remembered, SlotTable, AttachedHaveSlots, SlotsAreAttached,
         FreeSlotsEmpty, NoSlotLeaks, tableState, Range

\* Taking the last free slot, or one more.
LEMMA PickedSlot ==
  ASSUME TypeOK, TableInv, NEW t \in Transports, NEW events, NEW mode, Attach(t, events, mode)
  PROVE  /\ NewSlot \in DOMAIN slots' /\ slots'[NewSlot] = t
         /\ DOMAIN slots \subseteq DOMAIN slots'
         /\ \A s \in DOMAIN slots' : s # NewSlot => s \in DOMAIN slots /\ slots'[s] = slots[s]
         /\ NewSlot \in DOMAIN slots => slots[NewSlot] = NoTransport
         /\ \A i \in DOMAIN free' : i \in DOMAIN free /\ free'[i] = free[i] /\ free'[i] # NewSlot
         /\ \A s \in Range(free) : s # NewSlot => s \in Range(free')
<1> USE DEF TypeOK
<1>1. CASE free = <<>>
  <2>1. /\ NewSlot = Len(slots) + 1 /\ slots' = Append(slots, t) /\ free' = <<>>
    BY <1>1 DEF Attach, NewSlot, FreeAfterPick
  <2>2. Range(free) = {}
    BY <1>1 DEF Range
  <2>3. QED
    BY <1>1, <2>1, <2>2
<1>2. CASE free # <<>>
  <2> DEFINE n == Len(free)
  <2>1. n \in Nat \ {0} /\ n \in DOMAIN free
    BY <1>2
  <2>2. NewSlot = free[n] /\ slots' = [slots EXCEPT ![NewSlot] = t] /\ free' = SubSeq(free, 1, n - 1)
    BY <1>2 DEF Attach, NewSlot, FreeAfterPick, Last, Front
  <2>3. NewSlot \in DOMAIN slots /\ slots[NewSlot] = NoTransport
    BY <2>1, <2>2 DEF TableInv, SlotTable, FreeSlotsEmpty
  <2>4. DOMAIN slots' = DOMAIN slots /\ slots'[NewSlot] = t
          /\ \A s \in DOMAIN slots' : s # NewSlot => slots'[s] = slots[s]
    BY <2>2, <2>3
  <2>5. DOMAIN free' = 1 .. n - 1 /\ \A i \in 1 .. n - 1 : free'[i] = free[i]
    BY <2>1, <2>2
  <2>6. \A i \in DOMAIN free' : i \in DOMAIN free /\ i # n
    BY <2>1, <2>5
  <2>7. \A i \in DOMAIN free' : free[i] # NewSlot
    BY <2>1, <2>2, <2>6 DEF TableInv, SlotTable, FreeSlotsEmpty
  <2>8. ASSUME NEW s \in Range(free), s # NewSlot PROVE s \in Range(free')
    <3>1. PICK i \in DOMAIN free : free[i] = s
      BY <2>8 DEF Range
    <3>2. i \in 1 .. n - 1
      BY <2>1, <2>2, <2>8, <3>1
    <3>3. QED
      BY <2>5, <3>1, <3>2 DEF Range
  <2>9. QED
    BY <2>3, <2>4, <2>5, <2>6, <2>7, <2>8
<1>3. QED
  BY <1>1, <1>2

\* attach_locked() keeps the table sound.
LEMMA AttachKeepsTable ==
  ASSUME TypeOK, TableInv, NEW t \in Transports, NEW events, NEW mode, Attach(t, events, mode)
  PROVE  TableInv'
<1> USE NullAssumption
<1>1. /\ open /\ open' /\ t \notin attached /\ attached' = attached \cup {t}
      /\ slotOf' = [slotOf EXCEPT ![t] = NewSlot]
  BY DEF Attach, AttachRefused, TransportAttach
<1>2. slotOf'[t] = NewSlot /\ \A u \in Transports : u # t => slotOf'[u] = slotOf[u]
  BY <1>1 DEF TypeOK
<1>3. /\ NewSlot \in DOMAIN slots' /\ slots'[NewSlot] = t
      /\ DOMAIN slots \subseteq DOMAIN slots'
      /\ \A s \in DOMAIN slots' : s # NewSlot => s \in DOMAIN slots /\ slots'[s] = slots[s]
      /\ NewSlot \in DOMAIN slots => slots[NewSlot] = NoTransport
  BY PickedSlot
<1>4. /\ \A i \in DOMAIN free' : i \in DOMAIN free /\ free'[i] = free[i] /\ free'[i] # NewSlot
      /\ \A s \in Range(free) : s # NewSlot => s \in Range(free')
  BY PickedSlot
<1>5. attached \subseteq Transports
  BY DEF TypeOK, TransportTypeOK
<1>6. AttachedHaveSlots'
  <2>1. ASSUME NEW u \in attached PROVE slotOf'[u] \in DOMAIN slots' /\ slots'[slotOf'[u]] = u
    <3>1. u # t /\ slotOf'[u] = slotOf[u]
      BY <1>1, <1>2, <1>5
    <3>2. slotOf[u] \in DOMAIN slots /\ slots[slotOf[u]] = u
      BY DEF TableInv, SlotTable, AttachedHaveSlots
    <3>3. slotOf[u] # NewSlot
      BY <1>3, <1>5, <3>2
    <3>4. QED
      BY <1>3, <3>1, <3>2, <3>3
  <2>2. QED
    BY <1>1, <1>2, <1>3, <2>1 DEF AttachedHaveSlots
<1>7. SlotsAreAttached'
  BY <1>1, <1>3 DEF TableInv, SlotTable, SlotsAreAttached
<1>8. FreeSlotsEmpty'
  BY <1>3, <1>4 DEF TableInv, SlotTable, FreeSlotsEmpty
<1>9. NoSlotLeaks'
  BY <1>3, <1>4 DEF TableInv, SlotTable, NoSlotLeaks
<1>10. Remembered'
  <2>1. ASSUME NEW s \in DOMAIN slots', slots'[s] # NoTransport PROVE slotOf'[slots'[s]] = s
    <3>1. CASE s = NewSlot
      BY <1>2, <1>3, <3>1
    <3>2. CASE s # NewSlot
      <4>1. s \in DOMAIN slots /\ slots'[s] = slots[s] /\ slots[s] \in attached
        BY <1>1, <1>3, <2>1, <3>2 DEF TableInv, SlotTable, SlotsAreAttached
      <4>2. slotOf[slots[s]] = s
        BY <1>1, <2>1, <4>1 DEF TableInv, Remembered
      <4>3. QED
        BY <1>1, <1>2, <1>5, <4>1, <4>2
    <3>3. QED
      BY <3>1, <3>2
  <2>2. QED
    BY <2>1 DEF Remembered
<1>11. QED
  BY <1>1, <1>6, <1>7, <1>8, <1>9, <1>10 DEF TableInv, SlotTable

\* detach_locked() keeps it sound.
LEMMA DetachKeepsTable ==
  ASSUME TypeOK, TableInv, NEW t \in attached, DetachLocked(t), open' = open
  PROVE  TableInv'
<1> USE NullAssumption
<1> DEFINE s == slotOf[t]
<1>1. attached \subseteq Transports /\ t \in Transports
  BY DEF TypeOK, TransportTypeOK
<1>2. open
  BY DEF TableInv, SlotTable, TypeOK
<1>3. s \in DOMAIN slots /\ slots[s] = t
  BY DEF TableInv, SlotTable, AttachedHaveSlots
<1>4. /\ slots' = [slots EXCEPT ![s] = NoTransport] /\ free' = Append(free, s)
      /\ slotOf' = slotOf /\ attached' = attached \ {t}
  BY DEF DetachLocked, TransportDetach
<1>5. /\ DOMAIN slots' = DOMAIN slots /\ slots'[s] = NoTransport
      /\ \A x \in DOMAIN slots : x # s => slots'[x] = slots[x]
  BY <1>3, <1>4 DEF TypeOK
<1>6. free \in Seq(Nat) /\ s \in Nat
  BY <1>1 DEF TypeOK
<1>7. /\ DOMAIN free' = 1 .. Len(free) + 1 /\ free'[Len(free) + 1] = s
      /\ DOMAIN free = 1 .. Len(free) /\ Len(free) \in Nat
      /\ \A i \in 1 .. Len(free) : free'[i] = free[i]
  BY <1>4, <1>6
<1>8. \A i \in DOMAIN free : free[i] # s
  BY <1>1, <1>3 DEF TableInv, SlotTable, FreeSlotsEmpty
<1>9. AttachedHaveSlots'
  BY <1>3, <1>4, <1>5 DEF TableInv, SlotTable, AttachedHaveSlots
<1>10. \A x \in DOMAIN slots : slots[x] = t => x = s
  BY <1>1, <1>2 DEF TableInv, Remembered
<1>11. SlotsAreAttached'
  BY <1>2, <1>4, <1>5, <1>10 DEF TableInv, SlotTable, SlotsAreAttached
<1>12. FreeSlotsEmpty'
  <2>1. \A i \in DOMAIN free' : free'[i] \in DOMAIN slots' /\ slots'[free'[i]] = NoTransport
    BY <1>3, <1>5, <1>7, <1>8 DEF TableInv, SlotTable, FreeSlotsEmpty
  <2>2. \A i, j \in DOMAIN free' : free'[i] = free'[j] => i = j
    BY <1>7, <1>8 DEF TableInv, SlotTable, FreeSlotsEmpty
  <2>3. QED
    BY <2>1, <2>2 DEF FreeSlotsEmpty
<1>13. NoSlotLeaks'
  <2>1. Range(free) \cup {s} \subseteq Range(free')
    BY <1>7 DEF Range
  <2>2. QED
    BY <1>5, <2>1 DEF TableInv, SlotTable, NoSlotLeaks
<1>14. Remembered'
  BY <1>4, <1>5 DEF TableInv, Remembered
<1>15. QED
  BY <1>2, <1>9, <1>11, <1>12, <1>13, <1>14 DEF TableInv, SlotTable

\* A failed EPOLL_CTL_ADD leaves one more empty slot, and frees it.
LEMMA FailureKeepsTable ==
  ASSUME TypeOK, TableInv, NEW t, NEW mode, AttachFails(t, mode)
  PROVE  TableInv'
<1> USE NullAssumption
<1>1. /\ free = <<>> /\ slots' = Append(slots, NoTransport) /\ free' = <<Len(slots) + 1>>
      /\ slotOf' = slotOf /\ attached' = attached /\ open' = open
  BY DEF AttachFails, NewSlot, transportVars
<1>2. /\ Len(slots) \in Nat /\ DOMAIN slots = 1 .. Len(slots)
      /\ DOMAIN slots' = 1 .. Len(slots) + 1 /\ slots'[Len(slots) + 1] = NoTransport
      /\ \A s \in DOMAIN slots : slots'[s] = slots[s]
  BY <1>1 DEF TypeOK
<1>3. DOMAIN free' = {1} /\ free'[1] = Len(slots) + 1 /\ Range(free) = {}
  BY <1>1 DEF Range
<1>4. AttachedHaveSlots' /\ SlotsAreAttached'
  BY <1>1, <1>2 DEF TableInv, SlotTable, AttachedHaveSlots, SlotsAreAttached
<1>5. FreeSlotsEmpty'
  BY <1>2, <1>3 DEF FreeSlotsEmpty
<1>6. NoSlotLeaks'
  <2>1. \A s \in DOMAIN slots : slots[s] # NoTransport
    BY <1>3 DEF TableInv, SlotTable, NoSlotLeaks
  <2>2. Len(slots) + 1 \in Range(free')
    BY <1>3 DEF Range
  <2>3. QED
    BY <1>2, <2>1, <2>2 DEF NoSlotLeaks
<1>7. Remembered'
  BY <1>1, <1>2 DEF TableInv, Remembered
<1>8. QED
  BY <1>1, <1>4, <1>5, <1>6, <1>7 DEF TableInv, SlotTable

\* Shutdown() detaches all: what the slots hold no longer matters.
LEMMA ShutdownKeepsTable ==
  ASSUME TableInv, Shutdown
  PROVE  TableInv'
<1>1. /\ ~open' /\ attached' = {} /\ slots' = slots /\ free' = free
  BY DEF Shutdown, TransportDetach, tableVars
<1>2. QED
  BY <1>1 DEF TableInv, Remembered, SlotTable, AttachedHaveSlots, SlotsAreAttached,
              FreeSlotsEmpty, NoSlotLeaks, Range

\* Every user operation keeps the table sound.
LEMMA UserKeepsTable == TypeOK /\ TableInv /\ User => TableInv'
<1> SUFFICES ASSUME TypeOK, TableInv, User PROVE TableInv'
  OBVIOUS
<1>1. ASSUME NEW t \in Transports, NEW events, NEW mode, Attach(t, events, mode)
      PROVE  TableInv'
  BY <1>1, AttachKeepsTable
<1>2. ASSUME NEW t \in Transports, NEW bits, ChangeTo(t, bits) PROVE TableInv'
  <2>1. UNCHANGED tableState
    BY <1>2 DEF ChangeTo, TransportSetEvents, tableVars, tableState
  <2>2. QED
    BY <2>1, TableFrame
<1>3. ASSUME NEW t \in Transports, NEW mode, AttachFails(t, mode) PROVE TableInv'
  BY <1>3, FailureKeepsTable
<1>4. ASSUME NEW t \in Transports, Detach(t) PROVE TableInv'
  BY <1>4, DetachKeepsTable DEF Detach
<1>5. ASSUME NEW t \in Transports, Close(t) PROVE TableInv'
  <2>1. CASE t \in attached
    BY <1>5, <2>1, DetachKeepsTable DEF Close
  <2>2. CASE t \notin attached
    <3>1. UNCHANGED tableState
      BY <1>5, <2>2 DEF Close, tableVars, tableState
    <3>2. QED
      BY <3>1, TableFrame
  <2>3. QED
    BY <2>1, <2>2
<1>6. ASSUME NEW t \in Transports, Destroy(t) PROVE TableInv'
  <2>1. UNCHANGED tableState
    BY <1>6 DEF Destroy, TransportDestroy, tableVars, tableState
  <2>2. QED
    BY <2>1, TableFrame
<1>7. ASSUME NEW t \in Transports, Read(t) \/ Write(t) PROVE TableInv'
  <2>1. ASSUME NEW condition, Transfer(t, condition) PROVE TableInv'
    <3>1. UNCHANGED tableState
      BY <2>1 DEF Transfer, transportVars, tableVars, tableState
    <3>2. QED
      BY <3>1, TableFrame
  <2>2. QED
    BY <1>2, <1>7, <2>1 DEF Read, Write, IsBlocked, AddEvents
<1>8. CASE Shutdown
  BY <1>8, ShutdownKeepsTable
<1>9. QED
  BY <1>1, <1>2, <1>3, <1>4, <1>5, <1>6, <1>7, <1>8
     DEF User, ChangeEvents, AddEvents, RemoveEvents

\* Every step keeps the table sound.
LEMMA StepKeepsTable == TypeOK /\ TableInv /\ [Next]_vars => TableInv'
<1> SUFFICES ASSUME TypeOK, TableInv, [Next]_vars PROVE TableInv'
  OBVIOUS
<1>1. CASE User
  BY <1>1, UserKeepsTable
<1>2. ASSUME NEW e, ReportHangup(e) PROVE TableInv'
  BY <1>2, DetachKeepsTable DEF ReportHangup
<1>3. CASE UNCHANGED tableState
  BY <1>3, TableFrame
<1>4. ASSUME NEW t, NEW condition, Arrive(t, condition) PROVE UNCHANGED tableState
  BY <1>4 DEF Arrive, transportVars, tableVars, tableState
<1>5. ASSUME NEW S, Wait(S) PROVE UNCHANGED tableState
  BY <1>5 DEF Wait, transportVars, tableVars, tableState
<1>6. CASE WaitTimesOut \/ BeginDispatch \/ Return \/ EndPoll \/ UNCHANGED vars
  <2>1. UNCHANGED tableState
    BY <1>6 DEF WaitTimesOut, BeginDispatch, Return, EndPoll, vars, transportVars, tableVars,
                tableState
  <2>2. QED
    BY <2>1, TableFrame
<1>7. ASSUME NEW e, Crash(e) \/ Skip(e) \/ HandleEvent(e) PROVE UNCHANGED tableState
  BY <1>7 DEF Crash, Skip, HandleEvent, transportVars, tableVars, tableState
<1>8. QED
  BY <1>1, <1>2, <1>3, <1>4, <1>5, <1>6, <1>7 DEF Next, PollThread

\* The slot table stays sound: whatever users do, in listeners or from other
\* threads, attach_locked(), detach_locked() and Shutdown() never leave a slot
\* with two owners, an attached transport without its slot, a slot freed
\* twice, or an empty slot that is not free.
THEOREM SlotTableSound == Spec => []SlotTable
<1>1. Init => TableInv
  BY DEF Init, TransportInit, TableInv, Remembered, SlotTable, AttachedHaveSlots,
         SlotsAreAttached, FreeSlotsEmpty, NoSlotLeaks, Range
<1>2. TypeOK /\ TableInv /\ [Next]_vars => TableInv'
  BY StepKeepsTable
<1>3. TableInv => SlotTable
  BY DEF TableInv
<1>4. QED
  BY <1>1, <1>2, <1>3, EpollTypeCorrect, PTL DEF Spec

----------------------------------------------------------------------------
(* The dispatch.  With one thread, an entry is either for a transport that *)
(* is still attached in the entry's slot, or the slot carries the mark of  *)
(* this generation.                                                        *)

EntryGood(e) == e.who \in attached /\ slotOf[e.who] = e.slot

DispatchInv ==
  /\ pc \in {"idle", "waited"} => cur = {}
  /\ ~ThreadSafe =>
       /\ pc = "waited" => \A e \in batch : EntryGood(e)
       /\ pc \in {"dispatch", "call"} =>
            \A e \in batch \cup cur : e.slot \in changed \/ EntryGood(e)
       /\ pc # "crashed"

\* Steps of a listener (or of a user between polls) that leave old marks and
\* mark every slot whose transport they change.
MarksWhatItChanges ==
  /\ changed \subseteq changed'
  /\ \A t \in attached :
       (t \in attached' /\ slotOf'[t] = slotOf[t]) \/ slotOf[t] \in changed'

\* Entries stay good, or their slot is marked, when every change is marked.
LEMMA MarkedIsEnough ==
  ASSUME DispatchInv, MarksWhatItChanges, UNCHANGED <<pc, batch, cur>>,
         ThreadSafe \/ pc # "waited"
  PROVE  DispatchInv'
<1>1. \A e : EntryGood(e) => EntryGood(e)' \/ e.slot \in changed'
  BY DEF EntryGood, MarksWhatItChanges
<1>2. QED
  BY <1>1 DEF DispatchInv, MarksWhatItChanges

\* detach_locked() marks the slot that it empties.
LEMMA DetachMarks ==
  ASSUME TypeOK, NEW t, DetachLocked(t)
  PROVE  MarksWhatItChanges
  BY DEF DetachLocked, TransportDetach, MarkedAfterDetach, MarksWhatItChanges

\* User operations mark what they change, and with one thread none runs
\* between epoll_wait() and the dispatch.
LEMMA UserMarks == TypeOK /\ DispatchInv /\ User => DispatchInv'
<1> SUFFICES ASSUME TypeOK, DispatchInv, User PROVE DispatchInv'
  OBVIOUS
<1> DEFINE Ok == MarksWhatItChanges /\ UNCHANGED <<pc, batch, cur>> /\ UserMay
<1>1. ASSUME Ok PROVE DispatchInv'
  BY <1>1, MarkedIsEnough DEF UserMay
<1>2. ASSUME NEW t \in Transports, NEW events, NEW mode, Attach(t, events, mode)
      PROVE  DispatchInv'
  <2>1. /\ t \notin attached /\ attached' = attached \cup {t}
        /\ slotOf' = [slotOf EXCEPT ![t] = NewSlot]
        /\ changed \subseteq changed'
    BY <1>2 DEF Attach, AttachRefused, TransportAttach
  <2>2. MarksWhatItChanges
    BY <2>1 DEF MarksWhatItChanges, TypeOK, TransportTypeOK
  <2>3. QED
    BY <1>1, <1>2, <2>2 DEF Attach, pollVars
<1>3. ASSUME NEW t, NEW bits, ChangeTo(t, bits) PROVE DispatchInv'
  <2>1. MarksWhatItChanges
    BY <1>3 DEF ChangeTo, TransportSetEvents, tableVars, MarksWhatItChanges
  <2>2. QED
    BY <1>1, <1>3, <2>1 DEF ChangeTo, pollVars
<1>4. ASSUME NEW t, NEW mode, AttachFails(t, mode) PROVE DispatchInv'
  <2>1. MarksWhatItChanges
    BY <1>4 DEF AttachFails, transportVars, MarksWhatItChanges
  <2>2. QED
    BY <1>1, <1>4, <2>1 DEF AttachFails, pollVars
<1>5. ASSUME NEW t, Detach(t) PROVE DispatchInv'
  BY <1>1, <1>5, DetachMarks DEF Detach, pollVars
<1>6. ASSUME NEW t, Close(t) PROVE DispatchInv'
  <2>1. MarksWhatItChanges
    BY <1>6, DetachMarks DEF Close, tableVars, MarksWhatItChanges
  <2>2. QED
    BY <1>1, <1>6, <2>1 DEF Close, pollVars
<1>7. ASSUME NEW t, Destroy(t) PROVE DispatchInv'
  <2>1. MarksWhatItChanges
    BY <1>7 DEF Destroy, TransportDestroy, tableVars, MarksWhatItChanges
  <2>2. QED
    BY <1>1, <1>7, <2>1 DEF Destroy, pollVars
<1>8. ASSUME NEW t, Read(t) \/ Write(t) PROVE DispatchInv'
  <2>1. ASSUME NEW condition, Transfer(t, condition) PROVE DispatchInv'
    <3>1. MarksWhatItChanges
      BY <2>1 DEF Transfer, transportVars, tableVars, MarksWhatItChanges
    <3>2. QED
      BY <1>1, <2>1, <3>1 DEF Transfer, pollVars
  <2>2. QED
    BY <1>3, <1>8, <2>1 DEF Read, Write, IsBlocked, AddEvents
<1>9. CASE Shutdown
  BY <1>9 DEF Shutdown, tableVars, pollVars, DispatchInv
<1>10. QED
  BY <1>2, <1>3, <1>4, <1>5, <1>6, <1>7, <1>8, <1>9
     DEF User, ChangeEvents, AddEvents, RemoveEvents

\* Entries of a sound dispatch belong to their transports: isFdChanged() is
\* all the check the code needs when there is one thread.
LEMMA EntriesOwned ==
  ASSUME TypeOK, TableInv, DispatchInv, ~ThreadSafe, pc \in {"dispatch", "call"},
         NEW e \in batch \cup cur, e.slot \notin changed
  PROVE  EntryGood(e) /\ Owner(e) = e.who
<1>1. EntryGood(e)
  BY DEF DispatchInv
<1>2. QED
  BY <1>1 DEF EntryGood, Owner, TableInv, SlotTable, AttachedHaveSlots

\* The polling thread and the kernel keep the dispatch sound.
LEMMA PollKeepsDispatch ==
  TypeOK /\ TableInv /\ DispatchInv /\ [Next]_vars /\ ~User => DispatchInv'
<1> SUFFICES ASSUME TypeOK, TableInv, DispatchInv, [Next]_vars, ~User PROVE DispatchInv'
  OBVIOUS
<1>1. ASSUME NEW t, NEW condition, Arrive(t, condition) PROVE DispatchInv'
  BY <1>1 DEF Arrive, transportVars, tableVars, pollVars, DispatchInv, EntryGood
<1>2. ASSUME NEW S, Wait(S) PROVE DispatchInv'
  <2>1. \A e \in batch' : e.who \in attached /\ slotOf[e.who] = e.slot
    BY <1>2 DEF Wait, Candidates, EntryFor
  <2>2. pc = "idle" /\ pc' = "waited" /\ UNCHANGED <<attached, slotOf, cur>>
    BY <1>2 DEF Wait, transportVars, tableVars
  <2>3. QED
    BY <2>1, <2>2 DEF DispatchInv, EntryGood
<1>3. CASE WaitTimesOut
  BY <1>3 DEF WaitTimesOut, pollVars, DispatchInv
<1>4. CASE BeginDispatch
  <2>1. pc = "waited" /\ pc' = "dispatch" /\ UNCHANGED <<attached, slotOf, batch, cur>>
    BY <1>4 DEF BeginDispatch, transportVars
  <2>2. QED
    BY <2>1 DEF DispatchInv, EntryGood
<1>5. ASSUME NEW e \in batch \cup cur, Crash(e) PROVE DispatchInv'
  <2>1. ThreadSafe
    BY <1>5, EntriesOwned DEF Crash, AtHand, IsFdChanged, EntryGood
  <2>2. QED
    BY <1>5, <2>1 DEF Crash, DispatchInv
<1>6. ASSUME NEW e \in batch \cup cur, Skip(e) PROVE DispatchInv'
  <2>1. pc = "dispatch" /\ pc' = pc /\ UNCHANGED <<attached, slotOf, changed>>
    BY <1>6 DEF Skip, AtHand, transportVars, tableVars
  <2>2. batch' \subseteq batch /\ cur' = {}
    BY <1>6 DEF Skip, Consume
  <2>3. QED
    BY <2>1, <2>2 DEF DispatchInv, EntryGood
<1>7. ASSUME NEW e \in batch \cup cur, ReportHangup(e) PROVE DispatchInv'
  <2>1. pc = "dispatch" /\ pc' = "call" /\ batch' \subseteq batch /\ cur' = {}
    BY <1>7 DEF ReportHangup, AtHand, Consume
  <2>2. MarksWhatItChanges
    BY <1>7, DetachMarks DEF ReportHangup
  <2>3. \A x : EntryGood(x) => EntryGood(x)' \/ x.slot \in changed'
    BY <2>2 DEF EntryGood, MarksWhatItChanges
  <2>4. QED
    BY <2>1, <2>2, <2>3 DEF DispatchInv, MarksWhatItChanges
<1>8. ASSUME NEW e \in batch \cup cur, HandleEvent(e) PROVE DispatchInv'
  <2>1. pc = "dispatch" /\ pc' \in {"dispatch", "call"} /\ UNCHANGED <<attached, slotOf, changed>>
    BY <1>8 DEF HandleEvent, AtHand, transportVars, tableVars
  <2>2. batch' \subseteq batch /\ cur' = Rest(e) /\ e \in Entries
    BY <1>8 DEF HandleEvent, Consume, TypeOK
  <2>3. \A r \in Rest(e) : r.slot = e.slot /\ r.who = e.who
    BY <2>2, RestTypes
  <2>4. QED
    BY <2>1, <2>2, <2>3 DEF DispatchInv, EntryGood
<1>9. CASE Return
  BY <1>9 DEF Return, transportVars, tableVars, DispatchInv, EntryGood
<1>10. CASE EndPoll
  BY <1>10 DEF EndPoll, DispatchInv
<1>11. CASE UNCHANGED vars
  BY <1>11 DEF vars, transportVars, tableVars, pollVars, DispatchInv, EntryGood
<1>12. QED
  BY <1>1, <1>2, <1>3, <1>4, <1>5, <1>6, <1>7, <1>8, <1>9, <1>10, <1>11 DEF Next, PollThread

\* The inductive invariant of a dispatch.
LEMMA DispatchSound == Spec => [](TypeOK /\ TableInv /\ DispatchInv)
<1>1. Init => TableInv
  BY DEF Init, TransportInit, TableInv, Remembered, SlotTable, AttachedHaveSlots,
         SlotsAreAttached, FreeSlotsEmpty, NoSlotLeaks, Range
<1>2. Init => DispatchInv
  BY DEF Init, DispatchInv
<1>3. TypeOK /\ TableInv /\ [Next]_vars => TableInv'
  BY StepKeepsTable
<1>4. TypeOK /\ TableInv /\ DispatchInv /\ [Next]_vars => DispatchInv'
  BY UserMarks, PollKeepsDispatch
<1>5. QED
  BY <1>1, <1>2, <1>3, <1>4, EpollTypeCorrect, PTL DEF Spec

\* With one thread, an entry that isFdChanged() lets through is for the very
\* transport, still attached, that the kernel reported.
THEOREM EntriesStayLive == Spec => []EntriesLive
<1>1. TypeOK /\ TableInv /\ DispatchInv => EntriesLive
  BY EntriesOwned DEF EntriesLive, EntryGood
<1>2. QED
  BY <1>1, DispatchSound, PTL

\* With one thread, listeners may attach, detach, close and change events in
\* any way, and the dispatch never calls through an empty slot or a transport
\* without a listener.
THEOREM NeverCrashesAlone == Spec => []NoCrashAlone
<1>1. DispatchInv => NoCrashAlone
  BY DEF DispatchInv, NoCrashAlone
<1>2. QED
  BY <1>1, DispatchSound, PTL

----------------------------------------------------------------------------
(* flags_.  Both properties are of transports never detached, and neither  *)
(* is inductive: attach_locked() adds to what flags_ held before, so it    *)
(* must have held no event, and ~PosixTransport() tests the bit that a     *)
(* borrowed descriptor was created with, which every step must have kept.  *)

UnusedAskNothing ==
  \A t \in Transports \ (attached \cup detachedOnce) : flags[t] \cap EventBits = {}

BorrowedMarked ==
  \A t \in Borrowed \ detachedOnce : "NoAutoClose" \in flags[t]

FlagsInv == InterestAgrees /\ UnusedAskNothing /\ BorrowedMarked /\ BorrowedKept

flagState == <<attached, flags, detachedOnce, interest, fd>>

\* Steps that leave transports and the kernel's interest alone.
LEMMA FlagsFrame ==
  ASSUME FlagsInv, UNCHANGED flagState
  PROVE  FlagsInv'
  BY DEF FlagsInv, InterestAgrees, UnusedAskNothing, BorrowedMarked, BorrowedKept, flagState

\* The kernel is asked for exactly the events among a transport's bits.
LEMMA MaskKeepsEvents ==
  ASSUME NEW bits
  PROVE  EpollMask(bits) \cap EventBits = bits \cap EventBits
  BY DEF EpollMask, EventBits

\* A transport that is detached is none that the properties are about.
LEMMA DetachKeepsFlags ==
  ASSUME TypeOK, FlagsInv, NEW t \in Transports, DetachLocked(t),
         NEW u \in Transports, fd'[u] = fd[u] \/ fd'[u] = "closed"
  PROVE  /\ u \in attached' \ detachedOnce' =>
              interest'[u] \cap EventBits = flags'[u] \cap EventBits
         /\ u \notin attached' \cup detachedOnce' => flags'[u] \cap EventBits = {}
         /\ u \in Borrowed \ detachedOnce' =>
              "NoAutoClose" \in flags'[u] /\ fd'[u] # "autoclosed"
<1>1. detachedOnce' = detachedOnce \cup {t} /\ attached' = attached \ {t}
  BY DEF DetachLocked, TransportDetach
<1>2. CASE u = t
  BY <1>1, <1>2
<1>3. CASE u # t
  <2>1. flags'[u] = flags[u] /\ interest'[u] = interest[u]
    BY <1>3 DEF DetachLocked, TransportDetach, TypeOK
  <2>2. QED
    BY <1>1, <1>3, <2>1
       DEF FlagsInv, InterestAgrees, UnusedAskNothing, BorrowedMarked, BorrowedKept
<1>4. QED
  BY <1>2, <1>3

\* What flags_ and the kernel hold, put together from all transports.
LEMMA FlagsFromEach ==
  ASSUME attached' \subseteq Transports,
         \A u \in Transports :
           /\ u \in attached' \ detachedOnce' =>
                interest'[u] \cap EventBits = flags'[u] \cap EventBits
           /\ u \notin attached' \cup detachedOnce' => flags'[u] \cap EventBits = {}
           /\ u \in Borrowed \ detachedOnce' =>
                "NoAutoClose" \in flags'[u] /\ fd'[u] # "autoclosed"
  PROVE  FlagsInv'
  BY BorrowedAssumption
     DEF FlagsInv, InterestAgrees, UnusedAskNothing, BorrowedMarked, BorrowedKept

\* Every user operation keeps flags_ and the kernel's interest together.
LEMMA UserKeepsFlags == TypeOK /\ FlagsInv /\ User => FlagsInv'
<1> SUFFICES ASSUME TypeOK, FlagsInv, User PROVE FlagsInv'
  OBVIOUS
<1> USE UseAssumption
<1>0. attached' \subseteq Transports
  BY UserTypes DEF TypeOK, TransportTypeOK
<1>1. ASSUME NEW t \in Transports, NEW events \in UsedEvents[t],
             NEW mode \in UsedModes[t], Attach(t, events, mode)
      PROVE  FlagsInv'
  <2> DEFINE bits == events \cup ModeFlags(mode)
  <2>1. /\ attached' = attached \cup {t} /\ t \notin attached
        /\ detachedOnce' = detachedOnce /\ fd' = fd
        /\ flags' = [flags EXCEPT ![t] = @ \cup bits]
        /\ interest' = [interest EXCEPT ![t] = EpollMask(bits)]
    BY <1>1 DEF Attach, AttachRefused, TransportAttach, EpollCtl
  <2>2. EpollMask(bits) \cap EventBits = bits \cap EventBits
    BY MaskKeepsEvents
  <2>3. \A u \in Transports : flags[u] \subseteq flags'[u]
    BY <2>1 DEF TypeOK, TransportTypeOK
  <2>4. t \notin detachedOnce => interest'[t] \cap EventBits = flags'[t] \cap EventBits
    <3>1. t \notin detachedOnce => flags[t] \cap EventBits = {}
      BY <2>1 DEF FlagsInv, UnusedAskNothing
    <3>2. flags'[t] = flags[t] \cup bits /\ interest'[t] = EpollMask(bits)
      BY <2>1 DEF TypeOK, TransportTypeOK
    <3>3. QED
      BY <2>2, <3>1, <3>2
  <2>5. \A u \in Transports \ {t} : flags'[u] = flags[u] /\ interest'[u] = interest[u]
    BY <2>1 DEF TypeOK, TransportTypeOK
  <2>6. InterestAgrees'
    BY <1>0, <2>1, <2>4, <2>5 DEF FlagsInv, InterestAgrees
  <2>7. UnusedAskNothing'
    BY <2>1, <2>5 DEF FlagsInv, UnusedAskNothing
  <2>8. BorrowedMarked' /\ BorrowedKept'
    BY <2>1, <2>3, BorrowedAssumption DEF FlagsInv, BorrowedMarked, BorrowedKept
  <2>9. QED
    BY <2>6, <2>7, <2>8 DEF FlagsInv
<1>2. ASSUME NEW t \in Transports, NEW bits, ChangeTo(t, bits) PROVE FlagsInv'
  <2>1. /\ attached' = attached /\ t \in attached
        /\ detachedOnce' = detachedOnce /\ fd' = fd
        /\ flags' = [flags EXCEPT ![t] = (@ \ EventBits) \cup bits]
        /\ interest' = [interest EXCEPT ![t] = EpollMask(bits)]
    BY <1>2 DEF ChangeTo, ChangeRefused, TransportSetEvents, EpollCtl
  <2>2. interest'[t] \cap EventBits = flags'[t] \cap EventBits
    <3>1. flags'[t] = (flags[t] \ EventBits) \cup bits /\ interest'[t] = EpollMask(bits)
      BY <2>1 DEF TypeOK, TransportTypeOK
    <3>2. QED
      BY <3>1, MaskKeepsEvents
  <2>3. \A u \in Transports \ {t} : flags'[u] = flags[u] /\ interest'[u] = interest[u]
    BY <2>1 DEF TypeOK, TransportTypeOK
  <2>4. \A u \in Transports : "NoAutoClose" \in flags[u] => "NoAutoClose" \in flags'[u]
    BY <2>1 DEF TypeOK, TransportTypeOK, EventBits
  <2>5. InterestAgrees' /\ UnusedAskNothing'
    BY <1>0, <2>1, <2>2, <2>3 DEF FlagsInv, InterestAgrees, UnusedAskNothing
  <2>6. BorrowedMarked' /\ BorrowedKept'
    BY <2>1, <2>4, BorrowedAssumption DEF FlagsInv, BorrowedMarked, BorrowedKept
  <2>7. QED
    BY <2>5, <2>6 DEF FlagsInv
<1>3. ASSUME NEW t, NEW mode, AttachFails(t, mode) PROVE FlagsInv'
  BY <1>3, FlagsFrame DEF AttachFails, transportVars, kernelVars, flagState
<1>4. ASSUME NEW t \in Transports, Detach(t) PROVE FlagsInv'
  <2>1. DetachLocked(t) /\ fd' = fd
    BY <1>4 DEF Detach
  <2>2. QED
    BY <1>0, <2>1, DetachKeepsFlags, FlagsFromEach
<1>5. ASSUME NEW t \in Transports, Close(t) PROVE FlagsInv'
  <2>1. \A u \in Transports : fd'[u] = fd[u] \/ fd'[u] = "closed"
    BY <1>5 DEF Close, TypeOK, TransportTypeOK
  <2>2. CASE t \in attached
    BY <1>0, <1>5, <2>1, <2>2, DetachKeepsFlags, FlagsFromEach DEF Close
  <2>3. CASE t \notin attached
    <3>1. UNCHANGED <<attached, flags, detachedOnce, interest>>
      BY <1>5, <2>3 DEF Close, kernelVars
    <3>2. QED
      BY <2>1, <3>1, BorrowedAssumption
         DEF FlagsInv, InterestAgrees, UnusedAskNothing, BorrowedMarked, BorrowedKept
  <2>4. QED
    BY <2>2, <2>3
<1>6. ASSUME NEW t \in Transports, Destroy(t) PROVE FlagsInv'
  <2>1. /\ UNCHANGED <<attached, flags, detachedOnce, interest>>
        /\ fd' = [fd EXCEPT ![t] = IF ClosesItself(t) THEN "autoclosed" ELSE "left"]
    BY <1>6 DEF Destroy, TransportDestroy, kernelVars
  <2>2. BorrowedKept'
    BY <2>1, BorrowedAssumption
       DEF FlagsInv, BorrowedMarked, BorrowedKept, ClosesItself, TypeOK, TransportTypeOK
  <2>3. QED
    BY <2>1, <2>2 DEF FlagsInv, InterestAgrees, UnusedAskNothing, BorrowedMarked
<1>7. ASSUME NEW t \in Transports, Read(t) \/ Write(t) PROVE FlagsInv'
  <2>1. ASSUME NEW condition, Transfer(t, condition) PROVE FlagsInv'
    BY <2>1, FlagsFrame DEF Transfer, transportVars, kernelVars, flagState
  <2>2. QED
    BY <1>2, <1>7, <2>1 DEF Read, Write, IsBlocked, AddEvents
<1>8. CASE Shutdown
  <2>1. /\ attached' = {} /\ detachedOnce' = detachedOnce \cup attached /\ fd' = fd
        /\ \A u \in Transports \ attached : flags'[u] = flags[u]
    BY <1>8 DEF Shutdown, TransportDetach, TypeOK, TransportTypeOK
  <2>2. QED
    BY <2>1, BorrowedAssumption
       DEF FlagsInv, InterestAgrees, UnusedAskNothing, BorrowedMarked, BorrowedKept
<1>9. QED
  BY <1>1, <1>2, <1>3, <1>4, <1>5, <1>6, <1>7, <1>8
     DEF User, ChangeEvents, AddEvents, RemoveEvents

\* Every step does.
LEMMA StepKeepsFlags == TypeOK /\ FlagsInv /\ [Next]_vars => FlagsInv'
<1> SUFFICES ASSUME TypeOK, FlagsInv, [Next]_vars PROVE FlagsInv'
  OBVIOUS
<1>1. CASE User
  BY <1>1, UserKeepsFlags
<1>2. ASSUME NEW e, ReportHangup(e) PROVE FlagsInv'
  <2>1. Owner(e) \in Transports /\ DetachLocked(Owner(e)) /\ fd' = fd
    BY <1>2 DEF ReportHangup, TypeOK, TransportTypeOK
  <2>2. attached' \subseteq Transports
    BY <2>1, DetachTypes
  <2>3. QED
    BY <2>1, <2>2, DetachKeepsFlags, FlagsFromEach
<1>3. ASSUME NEW t, NEW condition, Arrive(t, condition) PROVE FlagsInv'
  BY <1>3, FlagsFrame DEF Arrive, transportVars, flagState
<1>4. ASSUME NEW S, Wait(S) PROVE FlagsInv'
  BY <1>4, FlagsFrame DEF Wait, transportVars, flagState
<1>5. CASE WaitTimesOut \/ BeginDispatch \/ Return \/ EndPoll \/ UNCHANGED vars
  <2>1. UNCHANGED flagState
    BY <1>5 DEF WaitTimesOut, BeginDispatch, Return, EndPoll, vars, transportVars, kernelVars,
                flagState
  <2>2. QED
    BY <2>1, FlagsFrame
<1>6. ASSUME NEW e, Crash(e) \/ Skip(e) \/ HandleEvent(e) PROVE FlagsInv'
  <2>1. UNCHANGED flagState
    BY <1>6 DEF Crash, Skip, HandleEvent, transportVars, kernelVars, flagState
  <2>2. QED
    BY <2>1, FlagsFrame
<1>7. QED
  BY <1>1, <1>2, <1>3, <1>4, <1>5, <1>6 DEF Next, PollThread

\* The inductive invariant of flags_.
LEMMA FlagsSound == Spec => []FlagsInv
<1>1. Init => FlagsInv
  BY BorrowedAssumption
     DEF Init, TransportInit, FlagsInv, InterestAgrees, UnusedAskNothing, BorrowedMarked,
         BorrowedKept, UserBits, EventBits
<1>2. TypeOK /\ FlagsInv /\ [Next]_vars => FlagsInv'
  BY StepKeepsFlags
<1>3. QED
  BY <1>1, <1>2, EpollTypeCorrect, PTL DEF Spec

\* Until a transport is detached, flags_ tells what epoll was asked for:
\* ReadIsBlocked() and the early return of change_events_locked_helper() may
\* skip the system call.
THEOREM FlagsTellInterest == Spec => []InterestAgrees
<1>1. FlagsInv => InterestAgrees
  BY DEF FlagsInv
<1>2. QED
  BY <1>1, FlagsSound, PTL

\* The destructor never closes a descriptor made with kTransportNoAutoClose,
\* as long as its transport was not detached.
THEOREM BorrowedStayOpen == Spec => []BorrowedKept
<1>1. FlagsInv => BorrowedKept
  BY DEF FlagsInv
<1>2. QED
  BY <1>1, FlagsSound, PTL

----------------------------------------------------------------------------
(* Without EnableThreadSafety(), EpollImpl implements IODispatcher: every  *)
(* step of EpollPoller is a step of IODispatcher, or changes nothing that  *)
(* a user of the dispatcher can tell.                                      *)
(*                                                                         *)
(* What a dispatch still has to tell is the live entries: all those that   *)
(* epoll_wait() returned until the lock is taken, then those whose slot is *)
(* not marked.                                                             *)

Live == {e \in batch \cup cur : pc = "waited" \/ e.slot \notin changed}

\* The refinement mapping, by name.
Level   == {t \in attached : "LT" \in flags[t]}
Want    == [t \in Transports |-> IF t \in attached THEN Asked(t) ELSE {}]
Holding == [t \in Transports |-> KindsOf(holds[t])]
Told    == [t \in Transports |-> Reported(t)]

----------------------------------------------------------------------------
(* The operators of the mapping.                                           *)

\* A kind is told of a transport by a live entry for it.
LEMMA ToldMeans ==
  ASSUME NEW t \in Transports
  PROVE  \A k : k \in Told[t] <=> \E e \in Live : e.who = t /\ k \in KindsOf(e.ev)
  BY DEF Told, Reported, Live

\* When the entries for some transports die, the rest is told as before.
LEMMA ToldWithout ==
  ASSUME NEW S, Live' = {e \in Live : e.who \notin S}
  PROVE  Told' = [t \in Transports |-> IF t \in S THEN {} ELSE Told[t]]
<1>1. ASSUME NEW t \in Transports PROVE Told'[t] = IF t \in S THEN {} ELSE Told[t]
  <2>1. /\ Told[t] = UNION {KindsOf(e.ev) : e \in {x \in Live : x.who = t}}
        /\ Told'[t] = UNION {KindsOf(e.ev) : e \in {x \in Live' : x.who = t}}
    BY DEF Told, Reported, Live
  <2>2. CASE t \in S
    <3>1. {x \in Live' : x.who = t} = {}
      BY <2>2
    <3>2. QED
      BY <2>1, <2>2, <3>1
  <2>3. CASE t \notin S
    <3>1. {x \in Live' : x.who = t} = {x \in Live : x.who = t}
      BY <2>3
    <3>2. QED
      BY <2>1, <2>3, <3>1
  <2>4. QED
    BY <2>2, <2>3
<1>2. QED
  BY <1>1 DEF Told

LEMMA ToldSame ==
  ASSUME Live' = Live
  PROVE  Told' = Told
<1>1. Live' = {e \in Live : e.who \notin {}}
  OBVIOUS
<1>2. Told' = [t \in Transports |-> IF t \in {} THEN {} ELSE Told[t]]
  BY <1>1, ToldWithout
<1>3. \A t \in Transports : Told'[t] = Told[t]
  BY <1>2
<1>4. QED
  BY <1>3 DEF Told

\* The kinds of conditions and of events.
LEMMA KindTypes ==
  /\ \A conditions : KindsOf(conditions) \in SUBSET {"read", "write", "hangup"}
  /\ \A t : Asked(t) \subseteq {"read", "write"}
  BY DEF KindsOf, Kind, Asked

LEMMA MappingTypes ==
  /\ Holding \in [Transports -> SUBSET {"read", "write", "hangup"}]
  /\ Told \in [Transports -> SUBSET {"read", "write", "hangup"}]
  /\ Want \in [Transports -> SUBSET {"read", "write"}]
<1>1. \A t : Reported(t) \subseteq {"read", "write", "hangup"}
  BY KindTypes DEF Reported
<1>2. QED
  BY <1>1, KindTypes DEF Holding, Told, Want

----------------------------------------------------------------------------
(* The inductive invariant: what an entry says was asked for, there is one *)
(* entry for a transport, and an entry in hand is alone.                   *)

EntryAsked(e) ==
  \/ interest[e.who] \cap EventBits = flags[e.who] \cap EventBits
  \/ \A condition \in e.ev \cap {"in", "out"} : Bit(condition) \in interest[e.who]

ReportInv ==
  /\ pc = "idle" => batch = {}
  /\ pc # "call" => call = NoCall
  /\ \A x, y \in cur : x = y
  /\ \A x, y \in batch \cup cur : x.who = y.who => x = y
  /\ \A e \in batch \cup cur : e.ev # {}
  /\ ~ThreadSafe => \A e \in Live : EntryAsked(e)

DispatcherInv == TypeOK /\ TableInv /\ DispatchInv /\ ReportInv

\* On one thread a live entry is for the transport that owns its slot.
LEMMA LiveOwned ==
  ASSUME DispatcherInv, ~ThreadSafe, NEW e \in Live
  PROVE  /\ e \in Entries /\ EntryGood(e) /\ Owner(e) = e.who
         /\ e.slot \in DOMAIN slots /\ e.who \in Transports
<1>1. e \in batch \cup cur /\ e \in Entries /\ e.who \in Transports
  BY DEF Live, DispatcherInv, TypeOK, Entries
<1>2. pc \in {"waited", "dispatch", "call"}
  BY <1>1 DEF DispatcherInv, DispatchInv, ReportInv, TypeOK
<1>3. EntryGood(e)
  BY <1>1, <1>2 DEF DispatcherInv, DispatchInv, Live
<1>4. QED
  BY <1>1, <1>3 DEF DispatcherInv, EntryGood, Owner, TableInv, SlotTable, AttachedHaveSlots

\* A new registration gets a slot that no live entry is about.
LEMMA AttachKeepsLive ==
  ASSUME DispatcherInv, ~ThreadSafe,
         NEW t \in Transports, NEW events, NEW mode, Attach(t, events, mode)
  PROVE  Live' = Live
<1>1. changed' = changed \cup {NewSlot} /\ UNCHANGED <<pc, batch, cur>>
  BY DEF Attach, pollVars
<1>2. NewSlot \in DOMAIN slots => slots[NewSlot] = NoTransport
  BY PickedSlot DEF DispatcherInv
<1>3. ASSUME NEW e \in Live PROVE e.slot # NewSlot
  BY <1>2, <1>3, LiveOwned, NullAssumption DEF Owner
<1>4. QED
  BY <1>1, <1>3 DEF Live

\* A detach kills exactly the entries for the transport.
LEMMA DetachKillsEntries ==
  ASSUME DispatcherInv, ~ThreadSafe, pc # "waited",
         NEW t \in Transports, t \in attached, DetachLocked(t)
  PROVE  {e \in batch \cup cur : e.slot \notin changed'} = {e \in Live : e.who \notin {t}}
<1>1. changed' = changed \cup {slotOf[t]}
  BY DEF DetachLocked, MarkedAfterDetach
<1>2. slots[slotOf[t]] = t
  BY DEF DispatcherInv, TableInv, SlotTable, AttachedHaveSlots
<1>3. ASSUME NEW e \in Live PROVE e.slot = slotOf[t] <=> e.who = t
  BY <1>2, <1>3, LiveOwned DEF EntryGood, Owner
<1>4. QED
  BY <1>1, <1>3 DEF Live

\* Operations that leave slots, marks and entries alone.
LEMMA LiveFrame ==
  ASSUME UNCHANGED <<changed, pc, batch, cur>>
  PROVE  Live' = Live
  BY DEF Live

\* Without the polling thread's moving, entries only lose to a detach, and
\* what they say was asked for stays true.
LEMMA ReportsStay ==
  ASSUME ReportInv, UNCHANGED <<pc, batch, cur, call>>,
         ~ThreadSafe => /\ Live' \subseteq Live
                        /\ \A e \in Live' : EntryAsked(e)'
  PROVE  ReportInv'
  BY DEF ReportInv

\* User operations do that.
LEMMA UserKeepsReports ==
  ASSUME DispatcherInv, User
  PROVE  ReportInv'
<1> USE DEF DispatcherInv
<1>1. UNCHANGED <<pc, batch, cur, call>>
  BY DEF User, Attach, AttachFails, Detach, ChangeEvents, AddEvents, RemoveEvents, ChangeTo,
         Close, Destroy, Read, Write, Transfer, IsBlocked, Shutdown, pollVars
<1> SUFFICES ASSUME ~ThreadSafe
             PROVE  Live' \subseteq Live /\ \A e \in Live' : EntryAsked(e)'
  BY <1>1, ReportsStay
<1> DEFINE Goal == Live' \subseteq Live /\ \A e \in Live' : EntryAsked(e)'
<1>2. pc # "waited" /\ \A e \in Live : EntryAsked(e)
  BY DEF User, Attach, AttachFails, Detach, ChangeEvents, AddEvents, RemoveEvents, ChangeTo,
         Close, Destroy, Read, Write, Transfer, IsBlocked, Shutdown, UserMay, ReportInv
<1>3. ASSUME UNCHANGED <<changed, interest, flags>> PROVE Goal
  BY <1>1, <1>2, <1>3, LiveFrame DEF EntryAsked
<1>4. ASSUME NEW t \in Transports, NEW events, NEW mode, Attach(t, events, mode) PROVE Goal
  <2>1. Live' = Live
    BY <1>4, AttachKeepsLive
  <2>2. t \notin attached
    BY <1>4 DEF Attach, AttachRefused
  <2>3. \A u \in Transports \ {t} : interest'[u] = interest[u] /\ flags'[u] = flags[u]
    BY <1>4 DEF Attach, TransportAttach, EpollCtl, TypeOK, TransportTypeOK
  <2>4. \A e \in Live : e.who \in Transports \ {t}
    BY <2>2, LiveOwned DEF EntryGood
  <2>5. QED
    BY <1>2, <2>1, <2>3, <2>4 DEF EntryAsked
<1>5. ASSUME NEW t \in Transports, t \in attached, DetachLocked(t) PROVE Goal
  <2>1. Live' = {e \in Live : e.who \notin {t}}
    BY <1>1, <1>2, <1>5, DetachKillsEntries DEF Live
  <2>2. \A u \in Transports \ {t} : interest'[u] = interest[u] /\ flags'[u] = flags[u]
    BY <1>5 DEF DetachLocked, TransportDetach, TypeOK
  <2>3. \A e \in Live : e.who \in Transports
    BY LiveOwned
  <2>4. QED
    BY <1>2, <2>1, <2>2, <2>3 DEF EntryAsked
<1>6. ASSUME NEW t \in Transports, NEW bits, ChangeTo(t, bits) PROVE Goal
  <2>1. Live' = Live
    BY <1>1, <1>6, LiveFrame DEF ChangeTo, tableVars
  <2>2. /\ flags' = [flags EXCEPT ![t] = (@ \ EventBits) \cup bits]
        /\ interest' = [interest EXCEPT ![t] = EpollMask(bits)]
    BY <1>6 DEF ChangeTo, TransportSetEvents, EpollCtl
  <2>3. interest'[t] \cap EventBits = flags'[t] \cap EventBits
    <3>1. flags'[t] = (flags[t] \ EventBits) \cup bits /\ interest'[t] = EpollMask(bits)
      BY <2>2 DEF TypeOK, TransportTypeOK
    <3>2. QED
      BY <3>1, MaskKeepsEvents
  <2>4. \A u \in Transports \ {t} : interest'[u] = interest[u] /\ flags'[u] = flags[u]
    BY <2>2 DEF TypeOK, TransportTypeOK
  <2>5. \A e \in Live : e.who \in Transports
    BY LiveOwned
  <2>6. QED
    BY <1>2, <2>1, <2>3, <2>4, <2>5 DEF EntryAsked
<1>7. CASE Shutdown
  <2>1. Live = {}
    BY <1>7 DEF Shutdown, ReportInv, DispatchInv, Live
  <2>2. Live' = Live
    BY <1>1, <1>7, LiveFrame DEF Shutdown, tableVars
  <2>3. QED
    BY <2>1, <2>2
<1>8. ASSUME NEW t \in Transports, NEW mode, AttachFails(t, mode) PROVE Goal
  BY <1>3, <1>8 DEF AttachFails, transportVars, kernelVars
<1>9. ASSUME NEW t \in Transports, Close(t) PROVE Goal
  BY <1>3, <1>5, <1>9 DEF Close, tableVars, kernelVars
<1>10. ASSUME NEW t \in Transports, Destroy(t) PROVE Goal
  BY <1>3, <1>10 DEF Destroy, TransportDestroy, tableVars, kernelVars
<1>11. ASSUME NEW t \in Transports, Read(t) \/ Write(t) PROVE Goal
  <2>1. ASSUME NEW condition, Transfer(t, condition) PROVE Goal
    BY <1>3, <2>1 DEF Transfer, transportVars, tableVars, kernelVars
  <2>2. QED
    BY <1>6, <1>11, <2>1 DEF Read, Write, IsBlocked, AddEvents
<1>12. QED
  BY <1>4, <1>5, <1>6, <1>7, <1>8, <1>9, <1>10, <1>11
     DEF User, Detach, ChangeEvents, AddEvents, RemoveEvents

\* The condition handled next is one of the entry's, and what remains of the
\* entry is something, without that condition, for the same transport.
LEMMA NextOfEntry ==
  ASSUME NEW e \in Entries, e.ev # {}
  PROVE  /\ Next1(e) \in e.ev
         /\ \A r \in Rest(e) : /\ r.who = e.who /\ r.slot = e.slot
                               /\ r.ev # {} /\ r.ev \subseteq e.ev
                               /\ Next1(e) = "in" /\ r.ev = e.ev \ {"in"} /\ "err" \notin e.ev
         /\ \A x, y \in Rest(e) : x = y
<1>1. e.ev \subseteq {"in", "out", "hup", "err"}
  BY DEF Entries, AllConditions
<1>2. Next1(e) \in e.ev /\ (Next1(e) = "in" => "in" \in e.ev /\ "err" \notin e.ev)
  <2>1. CASE "err" \in e.ev
    BY <2>1 DEF Next1
  <2>2. CASE "err" \notin e.ev /\ "in" \in e.ev
    BY <2>2 DEF Next1
  <2>3. CASE e.ev \cap {"err", "in"} = {} /\ "hup" \in e.ev
    BY <2>3 DEF Next1
  <2>4. CASE e.ev \cap {"err", "in", "hup"} = {}
    <3>1. Next1(e) = "out"
      BY <2>4 DEF Next1
    <3>2. QED
      BY <1>1, <2>4, <3>1
  <2>5. QED
    BY <2>1, <2>2, <2>3, <2>4
<1>3. ASSUME NEW r \in Rest(e)
      PROVE  /\ Next1(e) = "in" /\ e.ev # {"in"}
             /\ r = [e EXCEPT !.ev = e.ev \ {"in"}]
  BY <1>3 DEF Rest
<1>4. ASSUME NEW r \in Rest(e)
      PROVE  r.who = e.who /\ r.slot = e.slot /\ r.ev = e.ev \ {"in"}
  BY <1>3, <1>4 DEF Entries
<1>5. QED
  BY <1>2, <1>3, <1>4

\* What epoll_wait() reports of a transport was asked for.
LEMMA FreshEntries ==
  ASSUME NEW t \in Transports
  PROVE  EntryAsked(EntryFor(t))
  BY DEF EntryAsked, EntryFor, Visible, Bit

\* The entry at hand is the only one in hand, if any is.
LEMMA EntryAtHand ==
  ASSUME ReportInv, NEW e \in batch \cup cur, AtHand(e)
  PROVE  pc = "dispatch" /\ (cur = {} \/ cur = {e})
  BY DEF AtHand, ReportInv

\* The polling thread and the kernel keep the entries as they should be.
LEMMA PollKeepsReports ==
  ASSUME DispatcherInv, [Next]_vars, ~User
  PROVE  ReportInv'
<1> USE DEF DispatcherInv
<1>1. ASSUME UNCHANGED <<changed, flags, interest, pc, batch, cur, call>> PROVE ReportInv'
  BY <1>1, LiveFrame DEF ReportInv, EntryAsked
<1>2. ASSUME NEW t, NEW condition, Arrive(t, condition) PROVE ReportInv'
  BY <1>1, <1>2 DEF Arrive, transportVars, tableVars, pollVars
<1>3. ASSUME NEW S \in SUBSET Transports, Wait(S) PROVE ReportInv'
  <2>1. /\ pc = "idle" /\ pc' = "waited" /\ batch' = {EntryFor(t) : t \in S} /\ cur' = cur
        /\ call' = call /\ cur = {} /\ call = NoCall
    BY <1>3 DEF Wait, DispatchInv, ReportInv
  <2>2. UNCHANGED <<interest, flags>> /\ S \subseteq Candidates
    BY <1>3 DEF Wait, transportVars
  <2>3. \A t \in S : EntryFor(t).who = t /\ EntryFor(t).ev # {}
    BY <2>2 DEF EntryFor, Candidates
  <2>4. \A e \in batch' : EntryAsked(e)'
    <3>1. \A e \in batch' : EntryAsked(e)
      BY <2>1, FreshEntries
    <3>2. QED
      BY <2>2, <3>1 DEF EntryAsked
  <2>5. QED
    BY <2>1, <2>3, <2>4 DEF ReportInv, Live
<1>4. CASE WaitTimesOut
  BY <1>4 DEF WaitTimesOut, pollVars, DispatchInv, ReportInv, Live
<1>5. CASE BeginDispatch
  <2>1. /\ pc = "waited" /\ pc' = "dispatch"
        /\ UNCHANGED <<batch, cur, call, interest, flags>>
    BY <1>5 DEF BeginDispatch, transportVars, kernelVars
  <2>2. Live' \subseteq Live
    BY <2>1 DEF Live
  <2>3. QED
    BY <2>1, <2>2 DEF ReportInv, EntryAsked
<1>6. ASSUME NEW e \in batch \cup cur, Crash(e) PROVE ReportInv'
  <2>1. pc = "dispatch" /\ pc' = "crashed" /\ UNCHANGED <<batch, cur, call, changed, interest, flags>>
    BY <1>6 DEF Crash, AtHand, transportVars, tableVars, kernelVars
  <2>2. Live' = Live
    BY <2>1 DEF Live
  <2>3. QED
    BY <2>1, <2>2 DEF ReportInv, EntryAsked
<1>7. ASSUME NEW e \in batch \cup cur, Skip(e) PROVE ReportInv'
  <2>1. /\ pc = "dispatch" /\ batch' \subseteq batch /\ cur' = {}
        /\ UNCHANGED <<pc, call, changed, interest, flags>>
    BY <1>7 DEF Skip, AtHand, Consume, transportVars, tableVars, kernelVars
  <2>2. Live' \subseteq Live
    BY <2>1 DEF Live
  <2>3. QED
    BY <2>1, <2>2 DEF ReportInv, EntryAsked
<1>8. ASSUME NEW e \in batch \cup cur, ReportHangup(e) PROVE ReportInv'
  <2>1. /\ pc = "dispatch" /\ pc' = "call" /\ batch' \subseteq batch /\ cur' = {}
        /\ Owner(e) \in attached /\ DetachLocked(Owner(e)) /\ e.slot \notin changed
    BY <1>8 DEF ReportHangup, AtHand, Consume, IsFdChanged
  <2>2. ASSUME ~ThreadSafe PROVE \A x \in Live' : EntryAsked(x)'
    <3> DEFINE t == Owner(e)
    <3>1. t \in Transports
      BY <2>1 DEF TypeOK, TransportTypeOK
    <3>2. {x \in batch \cup cur : x.slot \notin changed'} = {x \in Live : x.who \notin {t}}
      BY <2>1, <2>2, <3>1, DetachKillsEntries
    <3>3. \A x \in Live' : x \in Live /\ x.who # t
      BY <2>1, <3>2 DEF Live
    <3>4. \A u \in Transports \ {t} : interest'[u] = interest[u] /\ flags'[u] = flags[u]
      BY <2>1 DEF DetachLocked, TransportDetach, TypeOK
    <3>5. \A x \in Live : x.who \in Transports /\ EntryAsked(x)
      BY <2>2, LiveOwned DEF ReportInv
    <3>6. QED
      BY <3>3, <3>4, <3>5 DEF EntryAsked
  <2>3. QED
    BY <2>1, <2>2 DEF ReportInv
<1>9. ASSUME NEW e \in batch \cup cur, HandleEvent(e) PROVE ReportInv'
  <2>1. /\ pc = "dispatch" /\ batch' = batch \ {e} /\ cur' = Rest(e) /\ e.slot \notin changed
        /\ UNCHANGED <<changed, interest, flags>>
        /\ pc' = "call" \/ (pc' = pc /\ call' = call)
    BY <1>9 DEF HandleEvent, AtHand, Consume, IsFdChanged, transportVars, tableVars, kernelVars
  <2>2. e \in Entries /\ e.ev # {} /\ e \in Live
    BY <2>1 DEF TypeOK, ReportInv, Live
  <2>3. \A r \in Rest(e) : r.who = e.who /\ r.slot = e.slot /\ r.ev # {} /\ r.ev \subseteq e.ev
    BY <2>2, NextOfEntry
  <2>4. \A x, y \in Rest(e) : x = y
    BY <2>2, NextOfEntry
  <2>5. \A x, y \in batch' \cup cur' : x.who = y.who => x = y
    BY <2>1, <2>3, <2>4 DEF ReportInv
  <2>6. ASSUME ~ThreadSafe PROVE \A x \in Live' : EntryAsked(x)'
    <3>1. \A x \in Live : EntryAsked(x)
      BY <2>6 DEF ReportInv
    <3>2. \A r \in Rest(e) : EntryAsked(r)
      BY <2>2, <2>3, <3>1 DEF EntryAsked
    <3>3. \A x \in Live' : x \in Live \/ x \in Rest(e)
      BY <2>1 DEF Live
    <3>4. QED
      BY <2>1, <3>1, <3>2, <3>3 DEF EntryAsked
  <2>7. QED
    BY <2>1, <2>3, <2>4, <2>5, <2>6 DEF ReportInv
<1>10. CASE Return
  <2>1. pc = "call" /\ pc' = "dispatch" /\ call' = NoCall
        /\ UNCHANGED <<batch, cur, changed, interest, flags>>
    BY <1>10 DEF Return, transportVars, tableVars, kernelVars
  <2>2. Live' = Live
    BY <2>1 DEF Live
  <2>3. QED
    BY <2>1, <2>2 DEF ReportInv, EntryAsked
<1>11. CASE EndPoll
  BY <1>11 DEF EndPoll, ReportInv, Live
<1>12. CASE UNCHANGED vars
  BY <1>1, <1>12 DEF vars, transportVars, tableVars, kernelVars, pollVars
<1>13. QED
  BY <1>2, <1>3, <1>4, <1>5, <1>6, <1>7, <1>8, <1>9, <1>10, <1>11, <1>12 DEF Next, PollThread

LEMMA DispatcherSound == Spec => []DispatcherInv
<1>1. Init => ReportInv
  BY DEF Init, ReportInv, Live
<1>2. TypeOK /\ TableInv /\ DispatchInv /\ ReportInv /\ [Next]_vars => ReportInv'
  BY UserKeepsReports, PollKeepsReports DEF DispatcherInv
<1>3. QED
  BY <1>1, <1>2, DispatchSound, PTL DEF Spec, DispatcherInv

----------------------------------------------------------------------------
(* The steps of IODispatcher, in terms of the mapping.                     *)

LEMMA AsEnvironment ==
  ASSUME UNCHANGED <<attached, Level, Want, Told, call>>
  PROVE  Dispatcher!Next
<1>1. Holding' \in [Transports -> SUBSET {"read", "write", "hangup"}]
  BY KindTypes DEF Holding
<1>2. Dispatcher!Environment
  BY <1>1 DEF Dispatcher!Environment, Dispatcher!Kinds, Level, Want, Told, Holding
<1>3. QED
  BY <1>2 DEF Dispatcher!Next

LEMMA AsAttach ==
  ASSUME NEW t \in Transports, t \notin attached, attached' = attached \cup {t},
         Level' \in {Level, Level \cup {t}},
         \A u \in Transports \ {t} : Want'[u] = Want[u],
         UNCHANGED <<Holding, Told, call>>
  PROVE  Dispatcher!Next
<1>1. Want'[t] \subseteq {"read", "write"}
  BY DEF Want, Asked
<1>2. Want' = [Want EXCEPT ![t] = Want'[t]]
  BY DEF Want
<1>3. Dispatcher!Attach(t)
  BY <1>1, <1>2 DEF Dispatcher!Attach, Level, Want, Told, Holding
<1>4. QED
  BY <1>3 DEF Dispatcher!Next

LEMMA AsChange ==
  ASSUME NEW t \in Transports, t \in attached,
         \A u \in Transports \ {t} : Want'[u] = Want[u],
         UNCHANGED <<attached, Level, Holding, Told, call>>
  PROVE  Dispatcher!Next
<1>1. Want'[t] \subseteq {"read", "write"}
  BY DEF Want, Asked
<1>2. Want' = [Want EXCEPT ![t] = Want'[t]]
  BY DEF Want
<1>3. Dispatcher!Change(t)
  BY <1>1, <1>2 DEF Dispatcher!Change, Level, Want, Told, Holding
<1>4. QED
  BY <1>3 DEF Dispatcher!Next

LEMMA AsDetach ==
  ASSUME NEW S \in SUBSET Transports, S # {}, S \subseteq attached,
         attached' = attached \ S, Level' = Level \ S,
         Want' = [t \in Transports |-> IF t \in S THEN {} ELSE Want[t]],
         Told' = [t \in Transports |-> IF t \in S THEN {} ELSE Told[t]],
         \A t \in Transports \ S : Holding'[t] = Holding[t],
         UNCHANGED call
  PROVE  Dispatcher!Next
<1>1. Holding' \in [Transports -> SUBSET {"read", "write", "hangup"}]
  BY KindTypes DEF Holding
<1>2. Dispatcher!Detach(S)
  BY <1>1 DEF Dispatcher!Detach, Dispatcher!Kinds, Level, Want, Told, Holding
<1>3. QED
  BY <1>2 DEF Dispatcher!Next

LEMMA AsDrop ==
  ASSUME NEW t \in Transports, Told'[t] \subseteq Told[t],
         \A u \in Transports \ {t} : Told'[u] = Told[u],
         UNCHANGED <<attached, Level, Want, Holding, call>>
  PROVE  Dispatcher!Next
<1>1. Told' = [Told EXCEPT ![t] = Told'[t]]
  BY DEF Told
<1>2. Dispatcher!Drop(t)
  BY <1>1 DEF Dispatcher!Drop, Level, Want, Told, Holding
<1>3. QED
  BY <1>2 DEF Dispatcher!Next

LEMMA AsReady ==
  ASSUME NEW t \in Transports, NEW kind \in {"read", "write"},
         call = NoCall, t \in attached, kind \in Told[t],
         t \in Level => kind \in Want[t],
         call' = [to |-> t, kind |-> kind],
         Told'[t] \subseteq Told[t] \ {kind},
         \A u \in Transports \ {t} : Told'[u] = Told[u],
         UNCHANGED <<attached, Level, Want, Holding>>
  PROVE  Dispatcher!Next
<1>1. Told' = [Told EXCEPT ![t] = Told'[t]]
  BY DEF Told
<1>2. Dispatcher!Ready(t, kind)
  BY <1>1 DEF Dispatcher!Ready, Level, Want, Told, Holding
<1>3. QED
  BY <1>2 DEF Dispatcher!Next, Dispatcher!Kinds

LEMMA AsHangup ==
  ASSUME NEW t \in Transports, call = NoCall, t \in attached, "hangup" \in Told[t],
         call' = [to |-> t, kind |-> "hangup"],
         attached' = attached \ {t}, Level' = Level \ {t},
         Want' = [u \in Transports |-> IF u \in {t} THEN {} ELSE Want[u]],
         Told' = [u \in Transports |-> IF u \in {t} THEN {} ELSE Told[u]],
         UNCHANGED Holding
  PROVE  Dispatcher!Next
<1>1. Want' = [Want EXCEPT ![t] = {}] /\ Told' = [Told EXCEPT ![t] = {}]
  BY DEF Want, Told
<1>2. Dispatcher!Hangup(t)
  BY <1>1 DEF Dispatcher!Hangup, Level, Want, Told, Holding
<1>3. QED
  BY <1>2 DEF Dispatcher!Next

LEMMA AsReport ==
  ASSUME call = NoCall, Live = {},
         \A t \in Transports :
           Told'[t] \subseteq IF t \in attached THEN Holding[t] \cap (Want[t] \cup {"hangup"})
                              ELSE {},
         UNCHANGED <<attached, Level, Want, Holding, call>>
  PROVE  Dispatcher!Next
<1>1. Told = [t \in Transports |-> {}]
  BY ToldMeans DEF Told
<1>2. Told' \in [Transports -> SUBSET {"read", "write", "hangup"}]
  BY MappingTypes DEF Told, Reported, KindsOf, Kind
<1>3. Dispatcher!Report
  BY <1>1, <1>2 DEF Dispatcher!Report, Dispatcher!Kinds, Dispatcher!Nothing,
                    Level, Want, Told, Holding
<1>4. QED
  BY <1>3 DEF Dispatcher!Next

LEMMA AsReturn ==
  ASSUME call # NoCall, call' = NoCall, UNCHANGED <<attached, Level, Want, Holding, Told>>
  PROVE  Dispatcher!Next
<1>1. Dispatcher!Return
  BY DEF Dispatcher!Return, Level, Want, Told, Holding
<1>2. QED
  BY <1>1 DEF Dispatcher!Next

LEMMA AsStutter ==
  ASSUME UNCHANGED <<attached, Level, Want, Holding, Told, call>>
  PROVE  UNCHANGED Dispatcher!vars
  BY DEF Dispatcher!vars, Level, Want, Told, Holding

\* Steps that leave transports and the kernel's interest alone.
LEMMA MappingFrame ==
  /\ UNCHANGED <<attached, flags>> => UNCHANGED Level
  /\ UNCHANGED <<attached, interest>> => UNCHANGED Want
  /\ UNCHANGED holds => UNCHANGED Holding
<1>1. ASSUME UNCHANGED <<attached, interest>> PROVE Want' = Want
  <2>1. \A t \in Transports : Asked(t)' = Asked(t)
    BY <1>1 DEF Asked
  <2>2. QED
    BY <1>1, <2>1 DEF Want
<1>2. QED
  BY <1>1 DEF Level, Holding

----------------------------------------------------------------------------
(* Every step, on one thread, is one of these.                             *)

Simulated == Dispatcher!Next \/ UNCHANGED Dispatcher!vars

\* What a detach does to the mapping.
LEMMA DetachMapping ==
  ASSUME TypeOK, NEW t \in Transports, t \in attached, DetachLocked(t)
  PROVE  /\ attached' = attached \ {t} /\ Level' = Level \ {t}
         /\ Want' = [u \in Transports |-> IF u \in {t} THEN {} ELSE Want[u]]
<1>1. attached' = attached \ {t}
  BY DEF DetachLocked, TransportDetach
<1>2. \A u \in Transports \ {t} : interest'[u] = interest[u] /\ flags'[u] = flags[u]
  BY DEF DetachLocked, TransportDetach, TypeOK
<1>3. Level' = Level \ {t}
  BY <1>1, <1>2 DEF Level, TypeOK, TransportTypeOK
<1>4. \A u \in Transports \ {t} : Asked(u)' = Asked(u)
  BY <1>2 DEF Asked
<1>5. QED
  BY <1>1, <1>3, <1>4 DEF Want

\* User operations.
LEMMA UserSimulates ==
  ASSUME DispatcherInv, User, ~ThreadSafe
  PROVE  Simulated
<1> USE UseAssumption DEF DispatcherInv
<1>1. UNCHANGED <<pc, batch, cur, call>>
  BY DEF User, Attach, AttachFails, Detach, ChangeEvents, AddEvents, RemoveEvents, ChangeTo,
         Close, Destroy, Read, Write, Transfer, IsBlocked, Shutdown, pollVars
<1>2. pc # "waited"
  BY DEF User, Attach, AttachFails, Detach, ChangeEvents, AddEvents, RemoveEvents, ChangeTo,
         Close, Destroy, Read, Write, Transfer, IsBlocked, Shutdown, UserMay
<1>3. ASSUME UNCHANGED <<attached, flags, interest, changed>> PROVE Simulated
  <2>1. UNCHANGED <<Level, Want, Told>>
    BY <1>1, <1>3, MappingFrame, LiveFrame, ToldSame
  <2>2. QED
    BY <1>1, <1>3, <2>1, AsEnvironment DEF Simulated
<1>4. ASSUME NEW t \in Transports, NEW events \in UsedEvents[t],
             NEW mode \in UsedModes[t], Attach(t, events, mode)
      PROVE  Simulated
  <2>1. t \notin attached /\ attached' = attached \cup {t} /\ UNCHANGED holds
    BY <1>4 DEF Attach, AttachRefused, TransportAttach
  <2>2. \A u \in Transports \ {t} : interest'[u] = interest[u] /\ flags'[u] = flags[u]
    BY <1>4 DEF Attach, TransportAttach, EpollCtl, TypeOK, TransportTypeOK
  <2>3. Level' \in {Level, Level \cup {t}}
    BY <2>1, <2>2 DEF Level, TypeOK, TransportTypeOK
  <2>4. \A u \in Transports \ {t} : Want'[u] = Want[u]
    <3>1. \A u \in Transports \ {t} : Asked(u)' = Asked(u)
      BY <2>2 DEF Asked
    <3>2. QED
      BY <2>1, <3>1 DEF Want
  <2>5. UNCHANGED <<Holding, Told, call>>
    BY <1>1, <1>4, <2>1, AttachKeepsLive, ToldSame, MappingFrame
  <2>6. QED
    BY <2>1, <2>3, <2>4, <2>5, AsAttach DEF Simulated
<1>5. ASSUME NEW t \in Transports, t \in attached, DetachLocked(t),
             \A u \in Transports \ {t} : holds'[u] = holds[u]
      PROVE  Simulated
  <2>1. /\ attached' = attached \ {t} /\ Level' = Level \ {t}
        /\ Want' = [u \in Transports |-> IF u \in {t} THEN {} ELSE Want[u]]
    BY <1>5, DetachMapping
  <2>2. Live' = {e \in Live : e.who \notin {t}}
    BY <1>1, <1>2, <1>5, DetachKillsEntries DEF Live
  <2>3. Told' = [u \in Transports |-> IF u \in {t} THEN {} ELSE Told[u]]
    BY <2>2, ToldWithout
  <2>4. \A u \in Transports \ {t} : Holding'[u] = Holding[u]
    BY <1>5 DEF Holding
  <2>5. {t} \in SUBSET Transports /\ {t} # {} /\ {t} \subseteq attached
    BY <1>5
  <2>6. QED
    BY <1>1, <2>1, <2>3, <2>4, <2>5, AsDetach DEF Simulated
<1>6. ASSUME NEW t \in Transports, NEW bits, bits \subseteq EventBits \cup flags[t],
             ChangeTo(t, bits)
      PROVE  Simulated
  <2>1. /\ t \in attached /\ UNCHANGED <<attached, changed, holds>>
        /\ flags' = [flags EXCEPT ![t] = (@ \ EventBits) \cup bits]
        /\ interest' = [interest EXCEPT ![t] = EpollMask(bits)]
    BY <1>6 DEF ChangeTo, ChangeRefused, TransportSetEvents, EpollCtl, tableVars
  <2>2. \A u \in Transports : "LT" \in flags'[u] <=> "LT" \in flags[u]
    BY <1>6, <2>1 DEF TypeOK, TransportTypeOK, EventBits
  <2>3. Level' = Level
    BY <2>1, <2>2 DEF Level, TypeOK, TransportTypeOK
  <2>4. \A u \in Transports \ {t} : Want'[u] = Want[u]
    <3>1. \A u \in Transports \ {t} : Asked(u)' = Asked(u)
      BY <2>1 DEF Asked, TypeOK
    <3>2. QED
      BY <2>1, <3>1 DEF Want
  <2>5. UNCHANGED <<Holding, Told>>
    BY <1>1, <2>1, LiveFrame, ToldSame, MappingFrame
  <2>6. QED
    BY <1>1, <2>1, <2>3, <2>4, <2>5, AsChange DEF Simulated
<1>7. ASSUME NEW t \in Transports, NEW events \in SUBSET EventBits,
             ChangeEvents(t, events) \/ AddEvents(t, events) \/ RemoveEvents(t, events)
      PROVE  Simulated
  BY <1>6, <1>7 DEF ChangeEvents, AddEvents, RemoveEvents
<1>8. CASE Shutdown
  <2>1. pc = "idle" /\ attached' = {} /\ UNCHANGED <<holds, changed>>
    BY <1>8 DEF Shutdown, TransportDetach, tableVars
  <2>2. Live = {} /\ Live' = Live
    BY <1>1, <2>1, LiveFrame DEF ReportInv, DispatchInv, Live
  <2>3. CASE attached = {}
    <3>1. UNCHANGED <<attached, Level, Want, Holding>>
      BY <2>1, <2>3 DEF Level, Want, Holding
    <3>2. QED
      BY <1>1, <2>2, <3>1, ToldSame, AsStutter DEF Simulated
  <2>4. CASE attached # {}
    <3>1. /\ attached' = attached \ attached /\ Level' = Level \ attached
          /\ Want' = [t \in Transports |-> IF t \in attached THEN {} ELSE Want[t]]
      BY <2>1 DEF Level, Want
    <3>2. Live' = {e \in Live : e.who \notin attached}
      BY <2>2
    <3>3. Told' = [t \in Transports |-> IF t \in attached THEN {} ELSE Told[t]]
      BY <3>2, ToldWithout
    <3>4. Holding' = Holding /\ attached \in SUBSET Transports
      BY <2>1 DEF Holding, TypeOK, TransportTypeOK
    <3>5. QED
      BY <1>1, <2>4, <3>1, <3>3, <3>4, AsDetach DEF Simulated
  <2>5. QED
    BY <2>3, <2>4
<1>9. ASSUME NEW t \in Transports, NEW mode, AttachFails(t, mode) PROVE Simulated
  BY <1>3, <1>9 DEF AttachFails, transportVars, kernelVars
<1>10. ASSUME NEW t \in Transports, Close(t) PROVE Simulated
  <2>1. \A u \in Transports \ {t} : holds'[u] = holds[u]
    BY <1>10 DEF Close, TypeOK
  <2>2. QED
    BY <1>3, <1>5, <1>10, <2>1 DEF Close, tableVars, kernelVars
<1>11. ASSUME NEW t \in Transports, Destroy(t) PROVE Simulated
  BY <1>3, <1>11 DEF Destroy, TransportDestroy, tableVars, kernelVars
<1>12. ASSUME NEW t \in Transports, Read(t) \/ Write(t) PROVE Simulated
  <2>1. ASSUME NEW condition, Transfer(t, condition) PROVE Simulated
    BY <1>3, <2>1 DEF Transfer, transportVars, tableVars, kernelVars
  <2>2. ASSUME NEW bit \in EventBits, AddEvents(t, {bit}) PROVE Simulated
    BY <1>7, <2>2
  <2>3. QED
    BY <1>12, <2>1, <2>2 DEF Read, Write, IsBlocked, EventBits
<1>13. ASSUME NEW t \in Transports, Detach(t) PROVE Simulated
  BY <1>5, <1>13 DEF Detach
<1>14. QED
  BY <1>4, <1>7, <1>8, <1>9, <1>10, <1>11, <1>12, <1>13 DEF User

\* epoll_wait() is a report.
LEMMA WaitSimulates ==
  ASSUME DispatcherInv, NEW S \in SUBSET Transports, Wait(S)
  PROVE  Simulated
<1> USE DEF DispatcherInv
<1>1. /\ pc = "idle" /\ batch = {} /\ cur = {} /\ call = NoCall
      /\ pc' = "waited" /\ batch' = {EntryFor(t) : t \in S} /\ cur' = {}
      /\ S \subseteq Candidates
      /\ UNCHANGED <<attached, flags, interest, holds, call>>
  BY DEF Wait, transportVars, DispatchInv, ReportInv
<1>2. Live = {} /\ Live' = {EntryFor(t) : t \in S}
  BY <1>1 DEF Live
<1>3. ASSUME NEW t \in Transports
      PROVE  Told'[t] \subseteq IF t \in attached THEN Holding[t] \cap (Want[t] \cup {"hangup"})
                                ELSE {}
  <2>1. Told'[t] = UNION {KindsOf(e.ev) : e \in {x \in Live' : x.who = t}}
    BY DEF Told, Reported, Live
  <2>2. ASSUME NEW k \in Told'[t] PROVE t \in S /\ k \in KindsOf(Visible(t, interest[t]))
    <3>1. PICK e \in Live' : e.who = t /\ k \in KindsOf(e.ev)
      BY <2>1, <2>2
    <3>2. e = EntryFor(t) /\ t \in S
      BY <1>2, <3>1 DEF EntryFor
    <3>3. QED
      BY <3>1, <3>2 DEF EntryFor
  <2>3. ASSUME t \in S, NEW k \in KindsOf(Visible(t, interest[t]))
        PROVE  t \in attached /\ k \in Holding[t] \cap (Want[t] \cup {"hangup"})
    <3>1. t \in attached
      BY <1>1, <2>3 DEF Candidates
    <3>2. PICK c \in Visible(t, interest[t]) : k = Kind(c)
      BY <2>3 DEF KindsOf
    <3>3. k \in Holding[t]
      BY <3>2 DEF Holding, KindsOf, Visible
    <3>4. k \in Want[t] \cup {"hangup"}
      <4>1. CASE c = "in"
        <5>1. "Reading" \in interest[t] \cap EventBits /\ k = "read"
          BY <3>2, <4>1 DEF Visible, Kind, EventBits
        <5>2. "read" \in Asked(t)
          BY <5>1 DEF Asked
        <5>3. QED
          BY <3>1, <5>1, <5>2 DEF Want
      <4>2. CASE c = "out"
        <5>1. "Writing" \in interest[t] \cap EventBits /\ k = "write"
          BY <3>2, <4>2 DEF Visible, Kind, EventBits
        <5>2. "write" \in Asked(t)
          BY <5>1 DEF Asked
        <5>3. QED
          BY <3>1, <5>1, <5>2 DEF Want
      <4>3. CASE c \notin {"in", "out"}
        BY <3>2, <4>3 DEF Kind
      <4>4. QED
        BY <4>1, <4>2, <4>3
    <3>5. QED
      BY <3>1, <3>3, <3>4
  <2>4. QED
    BY <2>2, <2>3
<1>4. UNCHANGED <<Level, Want, Holding>>
  BY <1>1, MappingFrame
<1>5. QED
  BY <1>1, <1>2, <1>3, <1>4, AsReport DEF Simulated

\* reportError_locked() and reportHup_locked() are a hangup.
LEMMA HangupSimulates ==
  ASSUME DispatcherInv, ~ThreadSafe, NEW e \in batch \cup cur, ReportHangup(e)
  PROVE  Simulated
<1> USE DEF DispatcherInv
<1> DEFINE t == Owner(e)
<1>1. /\ AtHand(e) /\ e.slot \notin changed /\ t \in attached /\ t \in Transports
      /\ Next1(e) \in {"err", "hup"} /\ DetachLocked(t) /\ pc' = "call"
      /\ call' = [to |-> t, kind |-> "hangup"]
      /\ batch' = batch \ {e} /\ cur' = {} /\ holds' = holds
  BY DEF ReportHangup, IsFdChanged, Consume, TypeOK, TransportTypeOK
<1>2. pc = "dispatch" /\ (cur = {} \/ cur = {e}) /\ call = NoCall
  BY <1>1, EntryAtHand DEF ReportInv
<1>3. e \in Live /\ e.who = t
  BY <1>1, LiveOwned DEF Live
<1>4. "hangup" \in Told[t]
  <2>1. Next1(e) \in e.ev
    BY NextOfEntry DEF TypeOK, ReportInv
  <2>2. "hangup" \in KindsOf(e.ev)
    BY <1>1, <2>1 DEF KindsOf, Kind
  <2>3. QED
    BY <1>1, <1>3, <2>2, ToldMeans
<1>5. Told' = [u \in Transports |-> IF u \in {t} THEN {} ELSE Told[u]]
  <2>1. {x \in batch \cup cur : x.slot \notin changed'} = {x \in Live : x.who \notin {t}}
    BY <1>1, <1>2, DetachKillsEntries
  <2>2. Live' = {x \in Live : x.who \notin {t}}
    BY <1>1, <1>2, <1>3, <2>1 DEF Live
  <2>3. QED
    BY <2>2, ToldWithout
<1>6. /\ attached' = attached \ {t} /\ Level' = Level \ {t}
      /\ Want' = [u \in Transports |-> IF u \in {t} THEN {} ELSE Want[u]]
  BY <1>1, DetachMapping
<1>7. Holding' = Holding
  BY <1>1 DEF Holding
<1>8. QED
  BY <1>1, <1>2, <1>4, <1>5, <1>6, <1>7, AsHangup DEF Simulated

\* handleEvent() is a call, of a level-triggered transport only for what it
\* still asks for, or passes the event over.
LEMMA EventSimulates ==
  ASSUME DispatcherInv, ~ThreadSafe, NEW e \in batch \cup cur, HandleEvent(e)
  PROVE  Simulated
<1> USE DEF DispatcherInv
<1> DEFINE t == Owner(e)
           c == Next1(e)
           kind == IF c = "in" THEN "read" ELSE "write"
<1>1. /\ AtHand(e) /\ e.slot \notin changed /\ t \in attached /\ t \in Transports
      /\ c \in {"in", "out"} /\ batch' = batch \ {e} /\ cur' = Rest(e)
      /\ UNCHANGED <<attached, flags, interest, holds, changed>>
  BY DEF HandleEvent, IsFdChanged, Consume, TypeOK, TransportTypeOK, transportVars,
         tableVars, kernelVars
<1>2. /\ pc = "dispatch" /\ (cur = {} \/ cur = {e}) /\ call = NoCall
      /\ e \in Entries /\ e.ev # {}
  BY <1>1, EntryAtHand DEF ReportInv, TypeOK
<1>3. e \in Live /\ e.who = t /\ EntryAsked(e)
  BY <1>1, LiveOwned DEF Live, ReportInv
<1>4. c \in e.ev /\ kind \in Told[t]
  <2>1. c \in e.ev
    BY <1>2, NextOfEntry
  <2>2. kind \in KindsOf(e.ev)
    BY <1>1, <2>1 DEF KindsOf, Kind
  <2>3. QED
    BY <1>1, <1>3, <2>1, <2>2, ToldMeans
<1>5. pc' # "waited"
  BY <1>2 DEF HandleEvent
<1>6. Live' = (Live \ {e}) \cup Rest(e)
  <2>1. \A r \in Rest(e) : r.slot \notin changed
    BY <1>1, <1>2, NextOfEntry
  <2>2. QED
    BY <1>1, <1>2, <1>5, <2>1 DEF Live
<1>7. \A x \in Live : x.who = t => x = e
  BY <1>3 DEF ReportInv, Live
<1>8. \A u \in Transports \ {t} : Told'[u] = Told[u]
  <2>1. ASSUME NEW u \in Transports \ {t}
        PROVE  {x \in Live' : x.who = u} = {x \in Live : x.who = u}
    BY <1>2, <1>3, <1>6, NextOfEntry
  <2>2. \A u \in Transports :
          /\ Told[u] = UNION {KindsOf(x.ev) : x \in {y \in Live : y.who = u}}
          /\ Told'[u] = UNION {KindsOf(x.ev) : x \in {y \in Live' : y.who = u}}
    BY DEF Told, Reported, Live
  <2>3. QED
    BY <2>1, <2>2
<1>9. Told'[t] \subseteq Told[t] \ {kind}
  <2>1. ASSUME NEW k \in Told'[t] PROVE k \in Told[t] /\ k # kind
    <3>1. PICK x \in Live' : x.who = t /\ k \in KindsOf(x.ev)
      BY <1>1, <2>1 DEF Told, Reported, Live
    <3>2. x \in Rest(e)
      BY <1>6, <1>7, <3>1
    <3>3. c = "in" /\ x.ev = e.ev \ {"in"}
      BY <1>2, <3>2, NextOfEntry
    <3>4. k \in KindsOf(e.ev) /\ k # "read"
      BY <3>1, <3>3 DEF KindsOf, Kind
    <3>5. QED
      BY <1>1, <1>3, <3>3, <3>4, ToldMeans
  <2>2. QED
    BY <2>1
<1>10. UNCHANGED <<Level, Want, Holding>>
  BY <1>1, MappingFrame
<1>11. CASE ~Wanted(t, c)
  <2>1. call' = call
    BY <1>11 DEF HandleEvent
  <2>2. QED
    BY <1>1, <1>8, <1>9, <1>10, <2>1, AsDrop DEF Simulated
<1>12. CASE Wanted(t, c)
  <2>1. call' = [to |-> t, kind |-> kind]
    BY <1>12 DEF HandleEvent
  <2>2. ASSUME t \in Level PROVE kind \in Want[t]
    <3>1. Bit(c) \in flags[t]
      BY <1>12, <2>2 DEF Wanted, Level
    <3>2. Bit(c) \in EventBits
      BY DEF Bit, EventBits
    <3>3. Bit(c) \in interest[t]
      BY <1>1, <1>3, <1>4, <3>1, <3>2 DEF EntryAsked
    <3>4. kind \in Asked(t)
      BY <1>1, <3>2, <3>3 DEF Asked, Bit
    <3>5. QED
      BY <1>1, <3>4 DEF Want
  <2>3. kind \in {"read", "write"}
    OBVIOUS
  <2>4. QED
    BY <1>1, <1>2, <1>4, <1>8, <1>9, <1>10, <2>1, <2>2, <2>3, AsReady DEF Simulated
<1>13. QED
  BY <1>11, <1>12

\* All steps of the polling thread and the kernel.
LEMMA PollSimulates ==
  ASSUME DispatcherInv, ~ThreadSafe, [Next]_vars, ~User
  PROVE  Simulated
<1> USE DEF DispatcherInv
<1>1. ASSUME UNCHANGED <<attached, flags, interest, holds, call>>, Live' = Live PROVE Simulated
  BY <1>1, MappingFrame, ToldSame, AsStutter DEF Simulated
<1>2. ASSUME NEW t, NEW condition, Arrive(t, condition) PROVE Simulated
  <2>1. UNCHANGED <<attached, flags, interest, call>> /\ Live' = Live
    BY <1>2 DEF Arrive, transportVars, tableVars, pollVars, Live
  <2>2. QED
    BY <2>1, MappingFrame, ToldSame, AsEnvironment DEF Simulated
<1>3. CASE WaitTimesOut
  BY <1>1, <1>3 DEF WaitTimesOut, transportVars, kernelVars, pollVars, DispatchInv, ReportInv, Live
<1>4. CASE BeginDispatch
  BY <1>1, <1>4 DEF BeginDispatch, Bumped, transportVars, kernelVars, Live
<1>5. ASSUME NEW e \in batch \cup cur PROVE ~Crash(e)
  <2> SUFFICES ASSUME Crash(e) PROVE FALSE
    OBVIOUS
  <2>1. pc' = "crashed"
    BY DEF Crash
  <2>2. DispatchInv'
    BY PollKeepsDispatch
  <2>3. ThreadSafe
    BY <2>1, <2>2 DEF DispatchInv
  <2>4. QED
    BY <2>3
<1>6. ASSUME NEW e \in batch \cup cur, Skip(e) PROVE Simulated
  <2>1. /\ batch' = batch \ {e} /\ cur' = {} /\ e.slot \in changed /\ AtHand(e)
        /\ UNCHANGED <<attached, flags, interest, holds, call, changed, pc>>
    BY <1>6 DEF Skip, Consume, IsFdChanged, transportVars, tableVars, kernelVars
  <2>2. pc = "dispatch" /\ (cur = {} \/ cur = {e})
    BY <2>1, EntryAtHand
  <2>3. Live' = Live
    BY <2>1, <2>2 DEF Live
  <2>4. QED
    BY <1>1, <2>1, <2>3
<1>7. CASE Return
  <2>1. /\ pc = "call" /\ pc' = "dispatch" /\ call' = NoCall
        /\ UNCHANGED <<attached, flags, interest, holds, changed, batch, cur>>
    BY <1>7 DEF Return, transportVars, tableVars, kernelVars
  <2>2. UNCHANGED <<Level, Want, Holding, Told>>
    <3>1. Live' = Live
      BY <2>1 DEF Live
    <3>2. QED
      BY <2>1, <3>1, MappingFrame, ToldSame
  <2>3. CASE call = NoCall
    BY <2>1, <2>2, <2>3, AsStutter DEF Simulated
  <2>4. CASE call # NoCall
    BY <2>1, <2>2, <2>4, AsReturn DEF Simulated
  <2>5. QED
    BY <2>3, <2>4
<1>8. CASE EndPoll
  BY <1>1, <1>8 DEF EndPoll, transportVars, kernelVars, Live
<1>9. CASE UNCHANGED vars
  BY <1>1, <1>9 DEF vars, transportVars, tableVars, kernelVars, pollVars, Live
<1>10. QED
  BY <1>2, <1>3, <1>4, <1>5, <1>6, <1>7, <1>8, <1>9,
     WaitSimulates, HangupSimulates, EventSimulates
     DEF Next, PollThread

\* Without EnableThreadSafety(), EpollImpl keeps all the promises of
\* IODispatcher: it calls listeners only for attached transports, for what was
\* reported to this registration, once per report, never a level-triggered one
\* for an event no longer asked for, and detaches before it tells of a hangup.
THEOREM EpollRefinesDispatcher == Spec => ImplementsDispatcher
<1>1. Init => Dispatcher!Init
  <2> SUFFICES ASSUME Init PROVE Dispatcher!Init
    OBVIOUS
  <2>1. attached = {} /\ call = NoCall /\ Live = {}
    BY DEF Init, TransportInit, Live
  <2>2. Level = {} /\ Want = [t \in Transports |-> {}]
    BY <2>1 DEF Level, Want
  <2>3. Told = [t \in Transports |-> {}]
    BY <2>1, ToldMeans DEF Told
  <2>4. Holding \in [Transports -> SUBSET {"read", "write", "hangup"}]
    BY MappingTypes
  <2>5. QED
    BY <2>1, <2>2, <2>3, <2>4
       DEF Dispatcher!Init, Dispatcher!Nothing, Dispatcher!Kinds, Level, Want, Told, Holding
<1>2. DispatcherInv /\ [Next]_vars => [ThreadSafe \/ Dispatcher!Next]_(Dispatcher!vars)
  BY UserSimulates, PollSimulates DEF Simulated
<1>3. QED
  BY <1>1, <1>2, DispatcherSound, PTL DEF Spec, ImplementsDispatcher
==============================================================================
