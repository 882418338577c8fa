------------------------------ MODULE PollPoller ------------------------------
(***************************************************************************)
(* PollImpl (posix/posix-poll.{h,cc}) without thread safety, when poll()   *)
(* works on poll_events_ itself.  A slot is an element of poll_events_ and *)
(* fds_ is indexed by descriptor, so `changed` holds descriptors.  Left    *)
(* out: a slot that a listener fills has an uninitialised revents, which   *)
(* may use up nevents; what the loop then misses is reported again.        *)
(***************************************************************************)
EXTENDS DescriptorPoller

Init == PollerInit("poll")

\* append() may reallocate while the loop of Poll() walks the elements.
Appends == free = <<>> /\ batch # {}

AttachLocked(t, bits) ==
  /\ TakeSlot(t)
  /\ moved' \in IF Appends THEN {moved, TRUE} ELSE {moved}
  /\ interest' = [interest EXCEPT ![t] = bits \cap EventBits]
  /\ TransportAttach(t, bits)
  /\ changed' = changed \cup {t}
  /\ UNCHANGED watermark

DetachLocked(t) ==
  /\ GiveSlotBack(t)
  /\ interest' = [interest EXCEPT ![t] = {}]
  /\ changed' = changed \cup {t}
  /\ TransportDetach({t})
  /\ UNCHANGED <<watermark, moved>>

ChangeLocked(t, bits) ==
  /\ interest' = [interest EXCEPT ![t] = bits \cap EventBits]
  /\ flags' = [flags EXCEPT ![t] = (@ \ EventBits) \cup bits]
  /\ UNCHANGED <<attached, detachedOnce, slotVars, changed, watermark, moved>>

\* poll(): errors and hangups are always reported.
Wait ==
  /\ \E ready \in SUBSET attached :
     \E ev \in [ready -> (SUBSET AllConditions) \ {{}}] :
       /\ \A t \in ready : ev[t] \subseteq Conditions[t] \cap (Asked(t) \cup {"hup", "err"})
       /\ Reports({[slot |-> slotOf[t], who |-> t, ev |-> ev[t]] : t \in ready})
  /\ UNCHANGED <<transportVars, backend, open, slotVars, interest, watermark, moved,
                 since, cur, call>>

\* The descriptor of an entry, read anew from the element until it is handled.
Fd(e) == IF e \in cur THEN e.who ELSE slots[e.slot]

IsFdChanged(e) == Fd(e) \in changed

\* The next element is one of the old vector, or its descriptor is -1: the test
\* reads fds_[-1].
Unsound(e) == e \in batch /\ (moved \/ Fd(e) = None)

Undefined(e) == First(e) /\ Unsound(e) /\ Fails("undefined")

Sound(e) == First(e) /\ ~Unsound(e)

PassOver(e) == Sound(e) /\ IsFdChanged(e) /\ Skip(e)

\* Errors, then input, hangups, output; only input lets the rest be looked at.
Next1(e) ==
  CASE "err" \in e.ev -> "err"
    [] "err" \notin e.ev /\ "in" \in e.ev -> "in"
    [] e.ev \cap {"err", "in"} = {} /\ "hup" \in e.ev -> "hup"
    [] OTHER -> "out"
Rest(e) ==
  IF Next1(e) = "in" /\ e.ev # {"in"}
    THEN {[e EXCEPT !.ev = @ \ {"in"}, !.who = Fd(e)]} ELSE {}

Hangup(e) ==
  /\ Sound(e) /\ ~IsFdChanged(e) /\ Next1(e) \in {"err", "hup"}
  /\ ReportHangup(e, Fd(e), DetachLocked(Fd(e)))

\* handleEvent(): for any transport that is not level-triggered, the event is
\* taken out of the interest.
Disarm(t, bit) ==
  /\ interest' = [interest EXCEPT ![t] = @ \ {bit}]
  /\ flags' = [flags EXCEPT ![t] = @ \ {bit}]

HandleEvent(e) ==
  LET t == Fd(e)
      bit == Bit(Next1(e))
  IN /\ Sound(e) /\ ~IsFdChanged(e) /\ Next1(e) \in {"in", "out"}
     /\ Consume(e, Rest(e))
     /\ IF "LT" \in flags[t] THEN UNCHANGED <<interest, flags>> ELSE Disarm(t, bit)
     /\ IF "LT" \in flags[t] /\ bit \notin flags[t]
          THEN UNCHANGED <<pc, call>> ELSE Calls1(t, Kind(Next1(e)))
     /\ UNCHANGED <<fd, attached, detachedOnce, backend, open, slotVars, changed,
                    watermark, moved, since>>

Next ==
  \/ UserSteps(AttachLocked, DetachLocked, ChangeLocked)
  \/ Wait
  \/ \E e \in batch \cup cur : Undefined(e) \/ PassOver(e) \/ Hangup(e) \/ HandleEvent(e)
  \/ Return
  \/ EndPoll
==============================================================================
