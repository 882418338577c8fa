----------------------------- MODULE KqueuePoller -----------------------------
(***************************************************************************)
(* KqueueImpl (bsd/bsd-kqueue.{h,cc}).  A slot is an element of            *)
(* listeners_; the kernel reports each filter of a descriptor by itself.   *)
(* EV_CLEAR only makes it report less, and so is left out.                 *)
(***************************************************************************)
EXTENDS DescriptorPoller

Init == PollerInit("kqueue")

\* change_events_locked(): kevent() adds and deletes the filters in which the new
\* flags and flags_ differ.
Differs(t, bits) == {b \in EventBits : b \in bits <=> b \notin flags[t]}
Filters(t, bits) == (interest[t] \ Differs(t, bits)) \cup (Differs(t, bits) \cap bits)

AttachLocked(t, bits) ==
  /\ TakeSlot(t)
  /\ interest' = [interest EXCEPT ![t] = Filters(t, bits)]
  /\ attached' = attached \cup {t}
  /\ flags' = [flags EXCEPT ![t] = (@ \ EventBits) \cup bits]
  /\ changed' = changed \cup {NewSlot}
  /\ UNCHANGED <<detachedOnce, watermark, moved>>

\* The filters go first, and with them the event bits of flags_.
WithoutEvents(t) == flags[t] \ EventBits

DetachLocked(t) ==
  /\ interest' = [interest EXCEPT ![t] = Filters(t, {})]
  /\ GiveSlotBack(t)
  /\ changed' = changed \cup {slotOf[t]}
  /\ attached' = attached \ {t}
  /\ detachedOnce' = detachedOnce \cup {t}
  /\ flags' = [flags EXCEPT ![t] = WithoutEvents(t) \ UserBits]
  /\ UNCHANGED <<watermark, moved>>

\* kevent() fails: attach_locked() undoes the attach with detach_locked().
AttachFails(t, mode) ==
  /\ UserMay /\ ~AttachRefused(t, mode)
  /\ slots' = IF free = <<>> THEN Append(slots, None) ELSE slots
  /\ free' = IF free = <<>> THEN <<NewSlot>> ELSE free
  /\ slotOf' = [slotOf EXCEPT ![t] = NewSlot]
  /\ changed' = changed \cup {NewSlot}
  /\ flags' = [flags EXCEPT ![t] = WithoutEvents(t) \ UserBits]
  /\ detachedOnce' = detachedOnce \cup {t}
  /\ UNCHANGED <<fd, attached, backend, open, interest, watermark, moved, since, pollVars>>

ChangeLocked(t, bits) ==
  /\ interest' = [interest EXCEPT ![t] = Filters(t, bits)]
  /\ flags' = [flags EXCEPT ![t] = (@ \ EventBits) \cup bits]
  /\ UNCHANGED <<attached, detachedOnce, slotVars, changed, watermark, moved>>

\* kevent(): for each filter asked for, that it is ready, EOF or an error.
Reportable(t) ==
  {[slot |-> slotOf[t], who |-> t, ev |-> {c}] :
     c \in (Conditions[t] \cap (Asked(t) \cup IF Asked(t) = {} THEN {} ELSE {"hup", "err"}))}

Wait ==
  /\ \E entries \in SUBSET UNION {Reportable(t) : t \in attached} : Reports(entries)
  /\ UNCHANGED <<transportVars, backend, open, slotVars, interest, watermark, moved,
                 since, cur, call>>

\* kevent() timed out: generation_++.
WaitTimesOut ==
  /\ open /\ pc = "idle"
  /\ changed' = {}
  /\ UNCHANGED <<transportVars, backend, open, slotVars, interest, watermark, moved,
                 since, pollVars>>

IsFdChanged(e) == e.slot \in changed

Null(e) == slots[e.slot] \notin attached

Crash(e) == AtHand(e) /\ ~IsFdChanged(e) /\ Null(e) /\ Fails("crashed")

PassOver(e) == AtHand(e) /\ IsFdChanged(e) /\ Skip(e)

Hangup(e) ==
  /\ AtHand(e) /\ ~IsFdChanged(e) /\ ~Null(e)
  /\ e.ev \subseteq {"hup", "err"}
  /\ ReportHangup(e, slots[e.slot], DetachLocked(slots[e.slot]))

\* The flags are tested whatever the mode.
NeverUnwanted(e) == FALSE                    \* fault: flags_ is not looked at
Unwanted(e) == \A c \in e.ev : Bit(c) \notin flags[slots[e.slot]]

HandleEvent(e) ==
  /\ AtHand(e) /\ ~IsFdChanged(e) /\ ~Null(e)
  /\ e.ev \subseteq {"in", "out"}
  /\ IF Unwanted(e)
       THEN UNCHANGED <<pc, call>>
       ELSE \E c \in e.ev : Calls1(slots[e.slot], Kind(c))
  /\ Consume(e, {})
  /\ UNCHANGED <<transportVars, backend, open, tableVars, since>>

Next ==
  \/ UserSteps(AttachLocked, DetachLocked, ChangeLocked)
  \/ \E t \in Transports : \E mode \in UsedModes[t] : AttachFails(t, mode)
  \/ Wait
  \/ WaitTimesOut
  \/ \E e \in batch : PassOver(e) \/ Hangup(e) \/ HandleEvent(e)
  \/ Return
  \/ EndPoll
==============================================================================
