------------------------------ MODULE PortPoller ------------------------------
(***************************************************************************)
(* PortImpl (solaris/solaris-port.{h,cc}), polled by one thread.  A        *)
(* descriptor is associated with the port until one event is retrieved;    *)
(* kTransportArmed ("Armed") is what the code knows of that.               *)
(***************************************************************************)
EXTENDS DescriptorPoller

Init == PollerInit("port")

\* port_associate(), which replaces an association that is there.
Associate(t, bits) ==
  interest' = [interest EXCEPT ![t] = (bits \cap EventBits) \cup {"Associated"}]

AttachLocked(t, bits) ==
  /\ TakeSlot(t)
  /\ Associate(t, bits)
  /\ attached' = attached \cup {t}
  /\ flags' = [flags EXCEPT ![t] = @ \cup bits \cup {"Armed"}]
  /\ changed' = changed \cup {NewSlot}
  /\ UNCHANGED <<detachedOnce, watermark, moved>>

\* An association that flags_ does not know of is left behind.
DetachLocked(t) ==
  /\ interest' = [interest EXCEPT ![t] = IF "Armed" \in flags[t] THEN {} ELSE @]
  /\ GiveSlotBack(t)
  /\ changed' = changed \cup {slotOf[t]}
  /\ TransportDetach({t})
  /\ UNCHANGED <<watermark, moved>>

\* port_associate() fails: attach_locked() undoes the attach with detach_locked().
LosesSlot(s) == free                         \* fault: the slot is not given back
FreeAfterFailure(s) == IF free = <<>> THEN <<s>> ELSE free

AttachFails(t, mode) ==
  /\ UserMay /\ ~AttachRefused(t, mode)
  /\ slots' = IF free = <<>> THEN Append(slots, None) ELSE slots
  /\ free' = FreeAfterFailure(NewSlot)
  /\ slotOf' = [slotOf EXCEPT ![t] = NewSlot]
  /\ interest' = [interest EXCEPT ![t] = IF "Armed" \in flags[t] THEN {} ELSE @]
  /\ changed' = changed \cup {NewSlot}
  /\ flags' = [flags EXCEPT ![t] = @ \ UserBits]
  /\ detachedOnce' = detachedOnce \cup {t}
  /\ UNCHANGED <<fd, attached, backend, open, watermark, moved, since, pollVars>>

\* change_events_locked() adds to the flags and takes none away.
ChangeLocked(t, bits) ==
  /\ Associate(t, bits)
  /\ flags' = [flags EXCEPT ![t] = @ \cup bits \cup {"Armed"}]
  /\ UNCHANGED <<attached, detachedOnce, slotVars, changed, watermark, moved>>

\* port_getn(): one of input and output, or a hangup or an error, for each
\* association, which is gone with it.
Reportable(t) == Conditions[t] \cap (Asked(t) \cup {"hup", "err"})

Associated == {t \in Transports : fd[t] = "open" /\ "Associated" \in interest[t]}

Wait ==
  /\ \E ready \in SUBSET Associated : \E ev \in [ready -> AllConditions] :
       /\ \A t \in ready : ev[t] \in Reportable(t)
       /\ Reports({[slot |-> slotOf[t], who |-> t, ev |-> {ev[t]}] : t \in ready})
       /\ interest' = [t \in Transports |-> IF t \in ready THEN {} ELSE interest[t]]
  /\ UNCHANGED <<transportVars, backend, open, slotVars, watermark, moved, since, cur, call>>

IsFdChanged(s) == s \in changed

\* The slot is empty, or assert(portev_object == fds_[slot].transport->fd()) fails.
Stranded(e) == slots[e.slot] # e.who

Crash(e) == AtHand(e) /\ ~IsFdChanged(e.slot) /\ Stranded(e) /\ Fails("crashed")

PassOver(e) == AtHand(e) /\ IsFdChanged(e.slot) /\ Skip(e)

Hangup(e) ==
  /\ AtHand(e) /\ ~IsFdChanged(e.slot) /\ ~Stranded(e)
  /\ e.ev \subseteq {"hup", "err"}
  /\ ReportHangup(e, e.who, DetachLocked(e.who))

\* handleEvent() up to the call: an event that flags_ does not want is dropped,
\* and the descriptor stays without an association.
Wanted(t, condition) == Bit(condition) \in flags[t]
FlagsInCall(t, condition) ==
  flags[t] \ ({"Armed"} \cup IF "ET" \in flags[t] THEN {Bit(condition)} ELSE {})

HandleEvent(e) ==
  /\ AtHand(e) /\ ~IsFdChanged(e.slot) /\ ~Stranded(e)
  /\ e.ev \subseteq {"in", "out"}
  /\ \E condition \in e.ev :
       IF Wanted(e.who, condition)
         THEN /\ flags' = [flags EXCEPT ![e.who] = FlagsInCall(e.who, condition)]
              /\ Calls1(e.who, Kind(condition))
              /\ Consume(e, {[e EXCEPT !.ev = {}]})
         ELSE /\ Consume(e, {})
              /\ UNCHANGED <<flags, pc, call>>
  /\ UNCHANGED <<fd, attached, detachedOnce, backend, open, tableVars, since>>

\* What follows the listener's return: the descriptor is armed again with what
\* flags_ says, if the registration is the same and no listener armed it.  `cur`
\* is what is left of the entry.
Rearms(e) == ~IsFdChanged(e.slot) /\ "Armed" \notin flags[e.who]

Handled(e) == pc = "dispatch" /\ cur = {e}

LeftAlone(e) == Handled(e) /\ ~Rearms(e) /\ Skip(e)

Rearm(e) ==
  /\ Handled(e) /\ Rearms(e)
  /\ Consume(e, {})
  /\ Associate(e.who, flags[e.who])
  /\ flags' = [flags EXCEPT ![e.who] = @ \cup {"Armed"}]
  /\ UNCHANGED <<fd, attached, detachedOnce, backend, open, slotVars, changed, watermark,
                 moved, since, pc, call>>

\* port_associate() fails there: the listener is told of the error.
RearmFails(e) ==
  /\ Handled(e) /\ Rearms(e)
  /\ ReportHangup(e, e.who, DetachLocked(e.who))

Next ==
  \/ UserSteps(AttachLocked, DetachLocked, ChangeLocked)
  \/ \E t \in Transports : \E mode \in UsedModes[t] : AttachFails(t, mode)
  \/ Wait
  \/ \E e \in batch : Crash(e) \/ PassOver(e) \/ Hangup(e) \/ HandleEvent(e)
  \/ \E e \in cur : LeftAlone(e) \/ Rearm(e) \/ RearmFails(e)
  \/ Return
  \/ EndPoll
==============================================================================
