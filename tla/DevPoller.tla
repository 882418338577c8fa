------------------------------- MODULE DevPoller -------------------------------
(***************************************************************************)
(* DevPollImpl (solaris/solaris-devpoll.{h,cc}).  fds_ is indexed by       *)
(* descriptor.  Descriptors are below kInitialPollSize; from there on      *)
(* attach_locked() writes past the table, which it resizes to the number   *)
(* of the descriptor and not to one more.                                  *)
(***************************************************************************)
EXTENDS DescriptorPoller

Init == PollerInit("devpoll")

\* WriteDevPoll(): without events the descriptor is removed.
AttachLocked(t, bits) ==
  /\ interest' = [interest EXCEPT ![t] = IF bits \cap EventBits = {} THEN @
                                                                    ELSE bits \cap EventBits]
  /\ TransportAttach(t, bits)
  /\ changed' = changed \cup {t}
  /\ UNCHANGED <<slotVars, watermark, moved>>

DetachLocked(t) ==
  /\ interest' = [interest EXCEPT ![t] = {}]
  /\ changed' = changed \cup {t}
  /\ TransportDetach({t})
  /\ UNCHANGED <<slotVars, watermark, moved>>

SetEvents(t, bits) ==
  /\ interest' = [interest EXCEPT ![t] = bits \cap EventBits]
  /\ flags' = [flags EXCEPT ![t] = (@ \ EventBits) \cup bits]

ChangeLocked(t, bits) ==
  /\ SetEvents(t, bits)
  /\ UNCHANGED <<attached, detachedOnce, slotVars, changed, watermark, moved>>

\* The second of the two writes fails: the transport listens for nothing.
ChangeFails(t) ==
  /\ UserMay /\ ~ChangeRefused(t)
  /\ SetEvents(t, {})
  /\ UNCHANGED <<fd, attached, detachedOnce, backend, open, slotVars, changed, watermark,
                 moved, since, pollVars>>

\* DP_POLL.  Of what it reports, Poll() looks at revents for errors and otherwise
\* at events, the ones asked for: a hangup goes unseen, and a listener may be
\* called for one event because of the other.
Reportable(t) ==
  {Asked(t)} \cup {Asked(t) \cup {c} : c \in Conditions[t] \cap {"err"}}

Wait ==
  /\ \E ready \in SUBSET {t \in attached : interest[t] # {}} :
     \E ev \in [ready -> SUBSET AllConditions] :
       /\ \A t \in ready : ev[t] \in Reportable(t)
       /\ Reports({[slot |-> t, who |-> t, ev |-> ev[t]] : t \in ready})
  /\ UNCHANGED <<transportVars, backend, open, slotVars, interest, watermark, moved,
                 since, cur, call>>

\* The ioctl timed out: generation_++.
WaitTimesOut ==
  /\ open /\ pc = "idle"
  /\ changed' = {}
  /\ UNCHANGED <<transportVars, backend, open, slotVars, interest, watermark, moved,
                 since, pollVars>>

IsFdChanged(e) == e.slot \in changed

Live(e) == AtHand(e) /\ ~IsFdChanged(e)

PassOver(e) == AtHand(e) /\ IsFdChanged(e) /\ Skip(e)

Hangup(e) == Live(e) /\ "err" \in e.ev /\ ReportHangup(e, e.slot, DetachLocked(e.slot))

NextOf(e) == IF "in" \in e.ev THEN "in" ELSE "out"
Rest(e) == IF e.ev = {"in", "out"} THEN {[e EXCEPT !.ev = {"out"}]} ELSE {}

\* handleEvent(): an event not asked for any more is passed over; an
\* edge-triggered transport is taken out by rm_events_locked(), bits and mode
\* passed through.
Disarmed(t, bit) ==
  IF "ET" \in flags[t] THEN SetEvents(t, flags[t] \ {bit}) ELSE UNCHANGED <<interest, flags>>

HandleEvent(e) ==
  LET t == e.slot
      bit == Bit(NextOf(e))
  IN /\ Live(e) /\ "err" \notin e.ev
     /\ Consume(e, Rest(e))
     /\ IF bit \in flags[t]
          THEN Disarmed(t, bit) /\ Calls1(t, Kind(NextOf(e)))
          ELSE UNCHANGED <<interest, flags, pc, call>>
     /\ UNCHANGED <<fd, attached, detachedOnce, backend, open, slotVars, changed,
                    watermark, moved, since>>

\* rm_events_locked() fails: the listener is told of the error.
DisarmFails(e) ==
  /\ Live(e) /\ "err" \notin e.ev
  /\ {Bit(NextOf(e)), "ET"} \subseteq flags[e.slot]
  /\ ReportHangup(e, e.slot, DetachLocked(e.slot))

Next ==
  \/ UserSteps(AttachLocked, DetachLocked, ChangeLocked)
  \/ \E t \in Transports : ChangeFails(t)
  \/ Wait
  \/ WaitTimesOut
  \/ \E e \in batch \cup cur :
       PassOver(e) \/ Hangup(e) \/ HandleEvent(e) \/ DisarmFails(e)
  \/ Return
  \/ EndPoll
==============================================================================
