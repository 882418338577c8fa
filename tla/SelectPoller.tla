----------------------------- MODULE SelectPoller -----------------------------
(***************************************************************************)
(* SelectImpl (posix/posix-select.{h,cc}).  fds_, read_fds_ and write_fds_ *)
(* are indexed by descriptor; the last two are `interest`.                 *)
(***************************************************************************)
EXTENDS DescriptorPoller, FiniteSetsExt

CONSTANT SetSize          \* FD_SETSIZE

Init == PollerInit("select")

\* A descriptor of FD_SETSIZE or more is refused.
AttachLocked(t, bits) ==
  /\ t < SetSize
  /\ interest' = [interest EXCEPT ![t] = bits \cap EventBits]
  /\ TransportAttach(t, bits)
  /\ changed' = changed \cup {t}
  /\ watermark' = IF t > watermark THEN t ELSE watermark
  /\ UNCHANGED <<slotVars, moved>>

\* The highest descriptor below the one that goes.
NextWatermark(t) ==
  IF t = watermark THEN Max({i \in attached : i < t} \cup {-1}) ELSE watermark

Unmarked(t) == changed                       \* fault: modified is not set
MarkedAfterDetach(t) == changed \cup {t}

DetachLocked(t) ==
  /\ interest' = [interest EXCEPT ![t] = {}]
  /\ changed' = MarkedAfterDetach(t)
  /\ watermark' = NextWatermark(t)
  /\ TransportDetach({t})
  /\ UNCHANGED <<slotVars, moved>>

ChangeLocked(t, bits) ==
  /\ interest' = [interest EXCEPT ![t] = bits \cap EventBits]
  /\ flags' = [flags EXCEPT ![t] = (@ \ EventBits) \cup bits]
  /\ UNCHANGED <<attached, detachedOnce, slotVars, changed, watermark, moved>>

\* select() looks at the descriptors up to the watermark; a hangup makes one
\* readable, or writable.
Seen == {t \in Transports : t <= watermark}

Wait ==
  /\ watermark # -1
  /\ \E ready \in SUBSET Seen : \E ev \in [ready -> (SUBSET {"in", "out"}) \ {{}}] :
       /\ \A t \in ready : ev[t] \subseteq Asked(t)
       /\ Reports({[slot |-> t, who |-> t, ev |-> ev[t]] : t \in ready})
  /\ UNCHANGED <<transportVars, backend, open, slotVars, interest, watermark, moved,
                 since, cur, call>>

\* select() timed out: generation_++.
WaitTimesOut ==
  /\ open /\ pc = "idle" /\ watermark # -1
  /\ changed' = {}
  /\ UNCHANGED <<transportVars, backend, open, slotVars, interest, watermark, moved,
                 since, pollVars>>

IsFdChanged(t) == t \in changed

\* Input first; after the listener, the output is looked at if nothing changed.
NextOf(e) == IF "in" \in e.ev THEN "in" ELSE "out"
Rest(e) == IF e.ev = {"in", "out"} THEN {[e EXCEPT !.ev = {"out"}]} ELSE {}

\* handleEvent(): any transport that is not level-triggered is taken out of the set.
ClearsFlagOnly(t, bit) ==                               \* fault: FD_CLR() of the copy
  /\ flags' = [flags EXCEPT ![t] = @ \ {bit}]
  /\ UNCHANGED interest
Disarm(t, bit) ==
  /\ interest' = [interest EXCEPT ![t] = @ \ {bit}]
  /\ flags' = [flags EXCEPT ![t] = @ \ {bit}]

PassOver(e) == First(e) /\ IsFdChanged(e.slot) /\ Skip(e)

HandleEvent(e) ==
  LET t == e.slot
      bit == Bit(NextOf(e))
  IN /\ First(e) /\ ~IsFdChanged(t)
     /\ Consume(e, Rest(e))
     /\ IF "LT" \in flags[t] THEN UNCHANGED <<interest, flags>> ELSE Disarm(t, bit)
     /\ IF "LT" \in flags[t] /\ bit \notin flags[t]
          THEN UNCHANGED <<pc, call>> ELSE Calls1(t, Kind(NextOf(e)))
     /\ UNCHANGED <<fd, attached, detachedOnce, backend, open, slotVars, changed,
                    watermark, moved, since>>

Next ==
  \/ UserSteps(AttachLocked, DetachLocked, ChangeLocked)
  \/ Wait
  \/ WaitTimesOut
  \/ \E e \in batch \cup cur : PassOver(e) \/ HandleEvent(e)
  \/ Return
  \/ EndPoll
==============================================================================
