----------------------------- MODULE PollerProofs -----------------------------
(***************************************************************************)
(* Each of the five pollers keeps the invariant of PollerTableProofs, and  *)
(* so the properties that MCPollers states of all of them hold for any     *)
(* descriptors, conditions, modes and events, on one thread.               *)
(*                                                                         *)
(* Every backend has the same lemmas: what its operations come to (Ops),   *)
(* that users keep the invariant (User), that its system call does (Wait), *)
(* that an entry it handles is about a transport attached (Fd, Handle),    *)
(* that its other steps are those of every poller (Shared), and that all   *)
(* steps keep it (Next).  The lemmas called ...Agrees do the same for      *)
(* AgreeInv, from which InterestsAgree follows, and those called ...Acts   *)
(* show the step of IODispatcher that each step of a poller is.            *)
(***************************************************************************)
EXTENDS PollerTableProofs

----------------------------------------------------------------------------
(* poll().                                                                 *)

LEMMA PollOps ==
  ASSUME Inv, backend = "poll", NEW t \in Transports, NEW bits \in SUBSET AllBits
  PROVE  /\ Poll!AttachLocked(t, bits) => AttachEffect(t, bits)
         /\ t \in attached /\ Poll!DetachLocked(t) => DetachEffect(t)
         /\ Poll!ChangeLocked(t, bits) => ChangeEffect(t, bits)
<1>0. /\ OpTypes /\ HasSlots /\ t \in Nat
      /\ EventBits \subseteq Asks /\ UserBits \subseteq AllBits
  BY DescriptorAssumption DEF Inv, Types, HasSlots, Asks, AllBits, Bits
<1>1. ASSUME Poll!AttachLocked(t, bits) PROVE AttachEffect(t, bits)
  <2>1. /\ TakeSlot(t) /\ moved' \in BOOLEAN /\ UNCHANGED <<watermark, detachedOnce>>
        /\ interest' = [interest EXCEPT ![t] = bits \cap EventBits]
        /\ attached' = attached \cup {t} /\ flags' = [flags EXCEPT ![t] = @ \cup bits]
        /\ changed' = changed \cup {t}
    BY <1>0, <1>1 DEF Poll!AttachLocked, Poll!TakeSlot, TakeSlot, Poll!NewSlot, NewSlot,
       Poll!TransportAttach, OpTypes, Poll!EventBits, EventBits,
       Poll!Last, Last, Poll!Front, Front
  <2>2. OpTypes' /\ OthersAlone(t) /\ OthersFlags(t)
    BY <1>0, <2>1 DEF OpTypes, OthersAlone, OthersFlags
  <2>3. QED
    BY <1>0, <2>1, <2>2 DEF AttachEffect, Marks
<1>2. ASSUME t \in attached, Poll!DetachLocked(t) PROVE DetachEffect(t)
  <2>1. /\ GiveSlotBack(t) /\ UNCHANGED <<watermark, moved>>
        /\ interest' = [interest EXCEPT ![t] = {}]
        /\ attached' = attached \ {t} /\ detachedOnce' = detachedOnce \cup {t}
        /\ flags' = [u \in Transports |-> IF u \in {t} THEN flags[u] \ UserBits ELSE flags[u]]
        /\ changed' = changed \cup {t}
    BY <1>2 DEF Poll!DetachLocked, Poll!GiveSlotBack, GiveSlotBack, Poll!TransportDetach,
       Poll!UserBits, UserBits
  <2>2. OpTypes' /\ OthersAlone(t) /\ OthersFlags(t)
    BY <1>0, <2>1 DEF OpTypes, OthersAlone, OthersFlags
  <2>3. QED
    BY <1>0, <2>1, <2>2 DEF DetachEffect, Marks
<1>3. ASSUME Poll!ChangeLocked(t, bits) PROVE ChangeEffect(t, bits)
  <2>1. /\ UNCHANGED <<attached, detachedOnce, slotVars, changed, watermark, moved>>
        /\ interest' = [interest EXCEPT ![t] = bits \cap EventBits]
        /\ flags' = [flags EXCEPT ![t] = (@ \ EventBits) \cup bits]
    BY <1>3 DEF Poll!ChangeLocked, Poll!EventBits, EventBits, Poll!slotVars, slotVars
  <2>2. OpTypes' /\ OthersAlone(t) /\ OthersFlags(t)
    BY <1>0, <2>1 DEF OpTypes, OthersAlone, OthersFlags
  <2>3. \A m \in ModeBits : m \in flags'[t] <=> m \in flags[t] \cup bits
    BY <1>0, <2>1 DEF OpTypes, ModeBits, EventBits
  <2>4. QED
    BY <2>1, <2>2, <2>3 DEF ChangeEffect
<1>4. QED
  BY <1>1, <1>2, <1>3

LEMMA PollUser ==
  ASSUME Inv, backend = "poll",
         Poll!UserSteps(Poll!AttachLocked, Poll!DetachLocked, Poll!ChangeLocked)
  PROVE  UserDoes
<1>1. ASSUME NEW t \in Transports, NEW events \in UsedEvents[t], NEW mode \in UsedModes[t],
             Poll!Attach(t, mode, Poll!AttachLocked(t, events \cup Poll!ModeFlags(mode)))
      PROVE  UserDoes
  <2>1. Poll!ModeFlags(mode) = ModeFlags(mode)
    BY DEF Poll!ModeFlags, ModeFlags
  <2>2. AttachEffect(t, events \cup ModeFlags(mode))
    BY <1>1, <2>1, PollOps, UsedBits DEF Poll!Attach
  <2>3. Attach(t, mode, AttachEffect(t, events \cup ModeFlags(mode)))
    BY <1>1, <2>2 DEF Poll!Attach, Attach, Poll!UserMay, UserMay, Poll!AttachRefused,
       AttachRefused, Poll!pollVars, pollVars
  <2>4. QED
    BY <2>3 DEF UserDoes, UserSteps
<1>2. ASSUME NEW t \in Transports, NEW events \in UsedEvents[t],
             NEW bits \in {events, flags[t] \cup events, flags[t] \ events},
             Poll!ChangeTo(t, bits, Poll!ChangeLocked(t, bits))
      PROVE  UserDoes
  <2>1. ChangeEffect(t, bits)
    BY <1>2, PollOps, UsedBits DEF Poll!ChangeTo
  <2>2. ChangeTo(t, bits, ChangeEffect(t, bits))
    BY <1>2, <2>1 DEF Poll!ChangeTo, ChangeTo, Poll!UserMay, UserMay, Poll!ChangeRefused,
       ChangeRefused, Poll!pollVars, pollVars
  <2>3. QED
    BY <2>2 DEF UserDoes, UserSteps
<1>3. ASSUME NEW t \in Transports, Poll!Detach(t, Poll!DetachLocked(t)) PROVE UserDoes
  <2>1. DetachEffect(t)
    BY <1>3, PollOps DEF Poll!Detach
  <2>2. Detach(t, DetachEffect(t))
    BY <1>3, <2>1 DEF Poll!Detach, Detach, Poll!UserMay, UserMay, Poll!pollVars, pollVars
  <2>3. QED
    BY <2>2 DEF UserDoes, UserSteps
<1>4. ASSUME NEW t \in Transports, Poll!Close(t, Poll!DetachLocked(t)) PROVE UserDoes
  <2>1. t \in attached => DetachEffect(t)
    BY <1>4, PollOps DEF Poll!Close
  <2>2. Close(t, DetachEffect(t))
    BY <1>4, <2>1 DEF Poll!Close, Close, Poll!UserMay, UserMay, Poll!pollVars, pollVars,
       Poll!tableVars, tableVars, Poll!slotVars, slotVars
  <2>3. QED
    BY <2>2 DEF UserDoes, UserSteps
<1>5. ASSUME NEW t \in Transports, Poll!Create(t) PROVE UserDoes
  <2>1. Create(t)
    BY <1>5 DEF Poll!Create, Create, Poll!UserMay, UserMay, Poll!pollVars, pollVars,
       Poll!slotVars, slotVars
  <2>2. QED
    BY <2>1 DEF UserDoes, UserSteps
<1>6. ASSUME Poll!Shutdown PROVE UserDoes
  <2>1. Shutdown
    BY <1>6 DEF Poll!Shutdown, Shutdown, Poll!UserMay, UserMay, Poll!pollVars, pollVars,
       Poll!tableVars, tableVars, Poll!slotVars, slotVars, Poll!TransportDetach,
       TransportDetach, Poll!UserBits, UserBits
  <2>2. QED
    BY <2>1 DEF UserDoes, UserSteps
<1>7. QED
  BY <1>1, <1>2, <1>3, <1>4, <1>5, <1>6 DEF Poll!UserSteps

LEMMA PollWait ==
  ASSUME Inv, backend = "poll", Poll!Wait
  PROVE  Inv'
<1>0. PICK ready \in SUBSET attached : \E ev \in [ready -> (SUBSET AllConditions) \ {{}}] :
        Reports({[slot |-> slotOf[t], who |-> t, ev |-> ev[t]] : t \in ready})
  BY DEF Poll!Wait, Poll!Reports, Reports, Poll!AllConditions, AllConditions
<1>1. PICK ev \in [ready -> (SUBSET AllConditions) \ {{}}] :
        Reports({[slot |-> slotOf[t], who |-> t, ev |-> ev[t]] : t \in ready})
  BY <1>0
<1> DEFINE entries == {[slot |-> slotOf[t], who |-> t, ev |-> ev[t]] : t \in ready}
<1>2. open /\ HasSlots
  BY <1>1 DEF Reports, HasSlots
<1>3. /\ slotOf \in [Transports -> Nat] /\ attached \subseteq Transports
      /\ \A t \in attached : slotOf[t] \in DOMAIN slots /\ slots[slotOf[t]] = t
  BY <1>2 DEF Inv, TableInv, TableTypes, SlotsInv
<1>4. entries \in SUBSET Entries /\ \A e \in entries : Fresh(e)
  BY <1>2, <1>3 DEF Entries, Fresh, Transport
<1>5. interest' \in [Transports -> SUBSET Asks]
  BY DEF Poll!Wait, Inv, Types, OpTypes
<1>6. UNCHANGED <<transportVars, backend, open, slotVars, interest, watermark, moved,
                  since, cur, call>>
  BY DEF Poll!Wait, Poll!transportVars, transportVars, Poll!slotVars, slotVars
<1>7. QED
  BY <1>1, <1>4, <1>5, <1>6, ReportsKeepInv

\* An entry that is handled is about an attached transport, its own.
LEMMA PollFd ==
  ASSUME Inv, backend = "poll", NEW e, Poll!Sound(e), ~Poll!IsFdChanged(e)
  PROVE  /\ AtHand(e) /\ e \in Entries /\ EntrySound(e)
         /\ Poll!Fd(e) = e.who /\ slots[e.slot] = e.who
         /\ e.who \in attached \ since /\ e.who \in Transports
<1>1. AtHand(e) /\ (e \in batch => slots[e.slot] # None \/ e \in cur)
  BY DEF Poll!Sound, Poll!Unsound, Poll!First, Poll!AtHand, AtHand, Poll!Fd
<1>2. pc = "dispatch" /\ e \in batch \cup cur
  BY <1>1 DEF AtHand
<1>3. e \in Entries /\ EntrySound(e) /\ (e \in cur => CurSound(e)) /\ open /\ HasSlots
  BY <1>2, CurIsSound DEF HasSlots
<1>4. e.who \in Transports /\ e.who # None
  BY <1>3, NullAssumption DEF Entries
<1>5. CASE e \in cur
  BY <1>1, <1>3, <1>4, <1>5 DEF Poll!IsFdChanged, Poll!Fd, CurSound, EntrySound, FdChanged,
     Transport
<1>6. CASE e \notin cur
  BY <1>1, <1>2, <1>3, <1>4, <1>6 DEF Poll!IsFdChanged, Poll!Fd, EntrySound, FdChanged,
     Transport
<1>7. QED
  BY <1>1, <1>3, <1>5, <1>6

LEMMA PollHandle ==
  ASSUME Inv, backend = "poll", NEW e, Poll!HandleEvent(e)
  PROVE  Inv'
<1> DEFINE t == e.who
           event == Poll!Next1(e)
<1>1. /\ AtHand(e) /\ e \in Entries /\ EntrySound(e) /\ slots[e.slot] = t /\ t \in attached
      /\ Poll!Fd(e) = t
  BY PollFd DEF Poll!HandleEvent
<1>2. /\ event \in {"in", "out"} /\ batch' = batch \ {e} /\ cur' = Poll!Rest(e)
      /\ \/ UNCHANGED <<interest, flags>>
         \/ Poll!Disarm(t, Poll!Bit(event))
      /\ UNCHANGED <<pc, call>> \/ Poll!Calls1(t, Poll!Kind(event))
      /\ UNCHANGED <<fd, attached, detachedOnce, backend, open, slotVars, changed,
                     watermark, moved, since>>
  BY <1>1 DEF Poll!HandleEvent, Poll!Consume, Poll!slotVars, slotVars
<1>3. pc = "dispatch" /\ t \in Transports /\ OpTypes
  BY <1>1 DEF AtHand, Entries, Inv, Types
<1>4. pc' \in {"dispatch", "call"} /\ call' \in Calls \cup {None}
  BY <1>2, <1>3 DEF Poll!Calls1, Poll!Kind, Calls, Inv, Types, ThreadTypes
<1>5. OpTypes' /\ \A u \in Transports : interest'[u] \subseteq interest[u]
  BY <1>2, <1>3 DEF Poll!Disarm, OpTypes
<1>6. TableStep /\ InterestInv'
  BY <1>2, <1>5, QuietStep DEF Quiet
<1>7. ASSUME NEW r \in cur' PROVE r \in Entries /\ EntrySound(r) /\ CurSound(r)
  <2>1. r \in Entries /\ r.slot = e.slot /\ r.who = e.who
    BY <1>1, <1>2, <1>7 DEF Poll!Rest, Entries
  <2>2. QED
    BY <1>1, <2>1 DEF EntrySound, CurSound, FdChanged, Transport
<1>8. QED
  BY <1>2, <1>3, <1>4, <1>5, <1>6, <1>7, HandledKeepsInv

\* The steps that are like those of the others.
LEMMA PollShared ==
  ASSUME Inv, backend = "poll", Poll!Next
  PROVE  \/ Shared
         \/ Poll!Wait
         \/ \E e : Poll!HandleEvent(e)
<1>1. ASSUME NEW e, Poll!Undefined(e) PROVE Failed
  BY <1>1 DEF Poll!Undefined, Poll!First, Poll!AtHand, Failed, Poll!Fails, Fails,
     Poll!transportVars, transportVars, Poll!tableVars, tableVars, Poll!slotVars, slotVars
<1>2. ASSUME NEW e, Poll!PassOver(e) PROVE Skipped(e)
  BY <1>2 DEF Poll!PassOver, Poll!Sound, Poll!First, Skipped, Poll!AtHand, AtHand, Poll!Skip,
     Skip, Poll!Consume, Consume, Poll!transportVars, transportVars, Poll!tableVars, tableVars,
     Poll!slotVars, slotVars
<1>3. ASSUME NEW e, Poll!Hangup(e) PROVE HungUp(e)
  <2>1. /\ AtHand(e) /\ e.who \in Dispatched /\ e.who \in Transports /\ Poll!Fd(e) = e.who
        /\ Poll!ReportHangup(e, Poll!Fd(e), Poll!DetachLocked(Poll!Fd(e)))
    BY <1>3, PollFd DEF Poll!Hangup, Dispatched, Poll!Next1
  <2>2. e.ev \cap {"hup", "err"} # {}
    BY <1>3 DEF Poll!Hangup, Poll!Next1
  <2>3. DetachEffect(e.who)
    BY <2>1, PollOps DEF Poll!ReportHangup, Dispatched
  <2>4. ReportHangup(e, e.who, DetachEffect(e.who))
    BY <2>1, <2>3 DEF Poll!ReportHangup, ReportHangup, Poll!Calls1, Calls1, Poll!Consume,
       Consume
  <2>5. QED
    BY <2>1, <2>2, <2>4 DEF HungUp
<1>4. ASSUME Poll!Return PROVE Return
  BY <1>4 DEF Poll!Return, Return, Poll!transportVars, transportVars, Poll!tableVars, tableVars,
     Poll!slotVars, slotVars
<1>5. ASSUME Poll!EndPoll PROVE EndPoll
  BY <1>5 DEF Poll!EndPoll, EndPoll, Poll!transportVars, transportVars, Poll!slotVars, slotVars
<1>6. QED
  BY <1>1, <1>2, <1>3, <1>4, <1>5, PollUser DEF Shared, Poll!Next

LEMMA PollNext ==
  ASSUME Inv, backend = "poll", Poll!Next
  PROVE  Inv'
BY PollShared, SharedKeepsInv, PollWait, PollHandle

----------------------------------------------------------------------------
(* select().                                                               *)

LEMMA SelectOps ==
  ASSUME Inv, backend = "select", NEW t \in Transports, NEW bits \in SUBSET AllBits
  PROVE  /\ Select!AttachLocked(t, bits) => AttachEffect(t, bits)
         /\ t \in attached /\ Select!DetachLocked(t) => DetachEffect(t)
         /\ Select!ChangeLocked(t, bits) => ChangeEffect(t, bits)
<1>0. /\ OpTypes /\ ~HasSlots /\ t \in Nat /\ slotOf \in [Transports -> Nat]
      /\ EventBits \subseteq Asks /\ UserBits \subseteq AllBits
      /\ backend = "select"
  BY DescriptorAssumption DEF Inv, Types, TableInv, TableTypes, HasSlots, Asks, AllBits, Bits
<1>1. ASSUME Select!AttachLocked(t, bits) PROVE AttachEffect(t, bits)
  <2>1. /\ UNCHANGED <<slotVars, moved, detachedOnce>>
        /\ interest' = [interest EXCEPT ![t] = bits \cap EventBits]
        /\ attached' = attached \cup {t} /\ flags' = [flags EXCEPT ![t] = @ \cup bits]
        /\ changed' = changed \cup {t}
        /\ watermark' = IF t > watermark THEN t ELSE watermark
    BY <1>0, <1>1 DEF Select!AttachLocked, Select!TransportAttach, Select!EventBits,
       EventBits,
       Select!slotVars, slotVars
  <2>2. OpTypes' /\ OthersAlone(t) /\ OthersFlags(t)
    BY <1>0, <2>1 DEF OpTypes, OthersAlone, OthersFlags
  <2>3. QED
    BY <1>0, <2>1, <2>2 DEF AttachEffect, Marks
<1>2. ASSUME t \in attached, Select!DetachLocked(t) PROVE DetachEffect(t)
  <2>1. /\ UNCHANGED <<slotVars, moved>>
        /\ interest' = [interest EXCEPT ![t] = {}] /\ interest'[t] = {}
        /\ attached' = attached \ {t} /\ detachedOnce' = detachedOnce \cup {t}
        /\ flags' = [u \in Transports |-> IF u \in {t} THEN flags[u] \ UserBits ELSE flags[u]]
        /\ changed' = changed \cup {t}
        /\ watermark' = Select!NextWatermark(t)
    BY <1>0, <1>2 DEF Select!DetachLocked, Select!TransportDetach, Select!UserBits, UserBits,
       Select!MarkedAfterDetach, Select!slotVars, slotVars, OpTypes
  <2>2. OpTypes' /\ OthersAlone(t) /\ OthersFlags(t)
    BY <1>0, <2>1 DEF OpTypes, OthersAlone, OthersFlags
  <2>3. QED
    BY <1>0, <2>1, <2>2 DEF DetachEffect, Marks
<1>3. ASSUME Select!ChangeLocked(t, bits) PROVE ChangeEffect(t, bits)
  <2>1. /\ UNCHANGED <<attached, detachedOnce, slotVars, changed, watermark, moved>>
        /\ interest' = [interest EXCEPT ![t] = bits \cap EventBits]
        /\ flags' = [flags EXCEPT ![t] = (@ \ EventBits) \cup bits]
    BY <1>0, <1>3 DEF Select!ChangeLocked, Select!EventBits, EventBits, Select!slotVars,
       slotVars
  <2>2. OpTypes' /\ OthersAlone(t) /\ OthersFlags(t)
    BY <1>0, <2>1 DEF OpTypes, OthersAlone, OthersFlags
  <2>3. \A m \in ModeBits : m \in flags'[t] <=> m \in flags[t] \cup bits
    BY <1>0, <2>1 DEF OpTypes, ModeBits, EventBits
  <2>4. QED
    BY <1>0, <2>1, <2>2, <2>3 DEF ChangeEffect
<1>4. QED
  BY <1>1, <1>2, <1>3

LEMMA SelectUser ==
  ASSUME Inv, backend = "select",
         Select!UserSteps(Select!AttachLocked, Select!DetachLocked, Select!ChangeLocked)
  PROVE  UserDoes
<1>1. ASSUME NEW t \in Transports, NEW events \in UsedEvents[t], NEW mode \in UsedModes[t],
             Select!Attach(t, mode, Select!AttachLocked(t, events \cup Select!ModeFlags(mode)))
      PROVE  UserDoes
  <2>1. Select!ModeFlags(mode) = ModeFlags(mode)
    BY DEF Select!ModeFlags, ModeFlags
  <2>2. AttachEffect(t, events \cup ModeFlags(mode))
    BY <1>1, <2>1, SelectOps, UsedBits DEF Select!Attach
  <2>3. Attach(t, mode, AttachEffect(t, events \cup ModeFlags(mode)))
    BY <1>1, <2>2 DEF Select!Attach, Attach, Select!UserMay, UserMay, Select!AttachRefused,
       AttachRefused, Select!pollVars, pollVars
  <2>4. QED
    BY <2>3 DEF UserDoes, UserSteps
<1>2. ASSUME NEW t \in Transports, NEW events \in UsedEvents[t],
             NEW bits \in {events, flags[t] \cup events, flags[t] \ events},
             Select!ChangeTo(t, bits, Select!ChangeLocked(t, bits))
      PROVE  UserDoes
  <2>1. ChangeEffect(t, bits)
    BY <1>2, SelectOps, UsedBits DEF Select!ChangeTo
  <2>2. ChangeTo(t, bits, ChangeEffect(t, bits))
    BY <1>2, <2>1 DEF Select!ChangeTo, ChangeTo, Select!UserMay, UserMay, Select!ChangeRefused,
       ChangeRefused, Select!pollVars, pollVars
  <2>3. QED
    BY <2>2 DEF UserDoes, UserSteps
<1>3. ASSUME NEW t \in Transports, Select!Detach(t, Select!DetachLocked(t)) PROVE UserDoes
  <2>1. DetachEffect(t)
    BY <1>3, SelectOps DEF Select!Detach
  <2>2. Detach(t, DetachEffect(t))
    BY <1>3, <2>1 DEF Select!Detach, Detach, Select!UserMay, UserMay, Select!pollVars, pollVars
  <2>3. QED
    BY <2>2 DEF UserDoes, UserSteps
<1>4. ASSUME NEW t \in Transports, Select!Close(t, Select!DetachLocked(t)) PROVE UserDoes
  <2>1. t \in attached => DetachEffect(t)
    BY <1>4, SelectOps DEF Select!Close
  <2>2. Close(t, DetachEffect(t))
    BY <1>4, <2>1 DEF Select!Close, Close, Select!UserMay, UserMay, Select!pollVars, pollVars,
       Select!tableVars, tableVars, Select!slotVars, slotVars
  <2>3. QED
    BY <2>2 DEF UserDoes, UserSteps
<1>5. ASSUME NEW t \in Transports, Select!Create(t) PROVE UserDoes
  <2>1. Create(t)
    BY <1>5 DEF Select!Create, Create, Select!UserMay, UserMay, Select!pollVars, pollVars,
       Select!slotVars, slotVars
  <2>2. QED
    BY <2>1 DEF UserDoes, UserSteps
<1>6. ASSUME Select!Shutdown PROVE UserDoes
  <2>1. Shutdown
    BY <1>6 DEF Select!Shutdown, Shutdown, Select!UserMay, UserMay, Select!pollVars, pollVars,
       Select!tableVars, tableVars, Select!slotVars, slotVars, Select!TransportDetach,
       TransportDetach, Select!UserBits, UserBits
  <2>2. QED
    BY <2>1 DEF UserDoes, UserSteps
<1>7. QED
  BY <1>1, <1>2, <1>3, <1>4, <1>5, <1>6 DEF Select!UserSteps

LEMMA SelectWait ==
  ASSUME Inv, backend = "select", Select!Wait
  PROVE  Inv'
<1>0. PICK ready \in SUBSET Select!Seen : \E ev \in [ready -> (SUBSET {"in", "out"}) \ {{}}] :
        /\ \A t \in ready : ev[t] \subseteq Select!Asked(t)
        /\ Reports({[slot |-> t, who |-> t, ev |-> ev[t]] : t \in ready})
  BY DEF Select!Wait, Select!Reports, Reports
<1>1. PICK ev \in [ready -> (SUBSET {"in", "out"}) \ {{}}] :
        /\ \A t \in ready : ev[t] \subseteq Select!Asked(t)
        /\ Reports({[slot |-> t, who |-> t, ev |-> ev[t]] : t \in ready})
  BY <1>0
<1> DEFINE entries == {[slot |-> t, who |-> t, ev |-> ev[t]] : t \in ready}
<1>2. open /\ ~HasSlots
  BY <1>1 DEF Reports, HasSlots
<1>3. ready \subseteq Transports /\ \A t \in ready : ev[t] # {} /\ ev[t] \subseteq AllConditions
  BY <1>1 DEF Select!Seen, AllConditions
<1>4. ready \subseteq attached
  <2>1. ASSUME NEW t \in ready PROVE interest[t] # {}
    BY <1>1, <1>3 DEF Select!Asked
  <2>2. QED
    BY <1>2, <1>3, <2>1 DEF Inv, InterestInv
<1>5. entries \in SUBSET Entries /\ \A e \in entries : Fresh(e)
  BY <1>2, <1>3, <1>4, DescriptorAssumption DEF Entries, Fresh, Transport
<1>6. interest' \in [Transports -> SUBSET Asks]
  BY DEF Select!Wait, Inv, Types, OpTypes
<1>7. UNCHANGED <<transportVars, backend, open, slotVars, interest, watermark, moved,
                  since, cur, call>>
  BY DEF Select!Wait, Select!transportVars, transportVars, Select!slotVars, slotVars
<1>8. QED
  BY <1>1, <1>5, <1>6, <1>7, ReportsKeepInv

LEMMA SelectHandle ==
  ASSUME Inv, backend = "select", NEW e, Select!HandleEvent(e)
  PROVE  Inv'
<1> DEFINE t == e.slot
           event == Select!NextOf(e)
<1>1. AtHand(e) /\ t \notin changed
  BY DEF Select!HandleEvent, Select!First, Select!AtHand, AtHand, Select!IsFdChanged
<1>2. pc = "dispatch" /\ e \in batch \cup cur
  BY <1>1 DEF AtHand
<1>3. e \in Entries /\ EntrySound(e) /\ t \in attached
  BY <1>1, <1>2, CurIsSound DEF EntrySound, FdChanged, Transport, HasSlots
<1>4. t \in Transports /\ OpTypes
  BY <1>3 DEF Inv, TableInv, TableTypes, Types
<1>5. /\ event \in {"in", "out"} /\ batch' = batch \ {e} /\ cur' = Select!Rest(e)
      /\ \/ UNCHANGED <<interest, flags>>
         \/ Select!Disarm(t, Select!Bit(event))
      /\ UNCHANGED <<pc, call>> \/ Select!Calls1(t, Select!Kind(event))
      /\ UNCHANGED <<fd, attached, detachedOnce, backend, open, slotVars, changed,
                     watermark, moved, since>>
  BY DEF Select!HandleEvent, Select!Consume, Select!slotVars, slotVars, Select!NextOf
<1>6. pc' \in {"dispatch", "call"} /\ call' \in Calls \cup {None}
  BY <1>2, <1>4, <1>5 DEF Select!Calls1, Select!Kind, Calls, Inv, Types, ThreadTypes
<1>7. OpTypes' /\ \A u \in Transports : interest'[u] \subseteq interest[u]
  BY <1>4, <1>5 DEF Select!Disarm, OpTypes
<1>8. TableStep /\ InterestInv'
  BY <1>5, <1>7, QuietStep DEF Quiet
<1>9. ASSUME NEW r \in cur' PROVE r \in Entries /\ EntrySound(r) /\ CurSound(r)
  <2>1. r \in Entries /\ r.slot = e.slot /\ r.who = e.who
    BY <1>3, <1>5, <1>9 DEF Select!Rest, Entries, AllConditions
  <2>2. QED
    BY <1>3, <2>1 DEF EntrySound, CurSound, FdChanged, Transport, HasSlots
<1>10. QED
  BY <1>2, <1>5, <1>6, <1>7, <1>8, <1>9, HandledKeepsInv

\* The steps that are like those of the others.
LEMMA SelectShared ==
  ASSUME Inv, backend = "select", Select!Next
  PROVE  \/ Shared
         \/ Select!Wait
         \/ \E e : Select!HandleEvent(e)
<1>1. ASSUME NEW e, Select!PassOver(e) PROVE Skipped(e)
  BY <1>1 DEF Select!PassOver, Select!First, Skipped, Select!AtHand, AtHand, Select!Skip, Skip,
     Select!Consume, Consume, Select!transportVars, transportVars, Select!tableVars, tableVars,
     Select!slotVars, slotVars
<1>2. ASSUME Select!WaitTimesOut PROVE TimesOut
  BY <1>2 DEF TimesOut, Select!WaitTimesOut, Select!transportVars, transportVars,
     Select!slotVars, slotVars, Select!pollVars, pollVars
<1>3. ASSUME Select!Return PROVE Return
  BY <1>3 DEF Select!Return, Return, Select!transportVars, transportVars, Select!tableVars,
     tableVars, Select!slotVars, slotVars
<1>4. ASSUME Select!EndPoll PROVE EndPoll
  BY <1>4 DEF Select!EndPoll, EndPoll, Select!transportVars, transportVars, Select!slotVars,
     slotVars
<1>5. QED
  BY <1>1, <1>2, <1>3, <1>4, SelectUser DEF Shared, Select!Next

LEMMA SelectNext ==
  ASSUME Inv, backend = "select", Select!Next
  PROVE  Inv'
BY SelectShared, SharedKeepsInv, SelectWait, SelectHandle

----------------------------------------------------------------------------
(* kqueue.                                                                 *)

LEMMA KqueueOps ==
  ASSUME Inv, backend = "kqueue", NEW t \in Transports, NEW bits \in SUBSET AllBits
  PROVE  /\ Kqueue!AttachLocked(t, bits) => AttachEffect(t, bits)
         /\ t \in attached /\ Kqueue!DetachLocked(t) => DetachEffect(t)
         /\ Kqueue!ChangeLocked(t, bits) => ChangeEffect(t, bits)
<1>0. /\ OpTypes /\ HasSlots /\ t \in Nat /\ slotOf \in [Transports -> Nat]
      /\ EventBits \subseteq Asks /\ UserBits \subseteq AllBits
      /\ backend = "kqueue"
  BY DescriptorAssumption DEF Inv, Types, TableInv, TableTypes, HasSlots, Asks, AllBits, Bits
<1>a. NewSlot \in Nat
  BY DEF NewSlot, Last, Inv, TableInv, TableTypes
<1>b. ASSUME NEW b \in SUBSET AllBits PROVE Kqueue!Filters(t, b) \subseteq Asks
  <2>1. interest[t] \subseteq Asks
    BY <1>0 DEF OpTypes
  <2>2. QED
    BY <1>0, <2>1 DEF Kqueue!Filters, Kqueue!Differs, Kqueue!EventBits, EventBits
<1>1. ASSUME Kqueue!AttachLocked(t, bits) PROVE AttachEffect(t, bits)
  <2>1. /\ TakeSlot(t) /\ UNCHANGED <<watermark, moved, detachedOnce>>
        /\ interest' = [interest EXCEPT ![t] = Kqueue!Filters(t, bits)]
        /\ attached' = attached \cup {t} /\ flags' = [flags EXCEPT ![t] = (@ \ EventBits) \cup bits]
        /\ changed' = changed \cup {NewSlot}
    BY <1>0, <1>1 DEF Kqueue!AttachLocked, Kqueue!TakeSlot, TakeSlot, Kqueue!NewSlot, NewSlot,
       Kqueue!Last, Last, Kqueue!Front, Front, Kqueue!TransportAttach, Kqueue!EventBits,
       EventBits
  <2>2. OpTypes' /\ OthersAlone(t) /\ OthersFlags(t)
    BY <1>0, <1>a, <1>b, <2>1 DEF OpTypes, OthersAlone, OthersFlags
  <2>3. QED
    BY <1>0, <2>1, <2>2 DEF AttachEffect, Marks
<1>2. ASSUME t \in attached, Kqueue!DetachLocked(t) PROVE DetachEffect(t)
  <2>1. /\ GiveSlotBack(t) /\ UNCHANGED <<watermark, moved>>
        /\ interest' = [interest EXCEPT ![t] = Kqueue!Filters(t, {})]
        /\ attached' = attached \ {t} /\ detachedOnce' = detachedOnce \cup {t}
        /\ flags' = [flags EXCEPT ![t] = (flags[t] \ EventBits) \ UserBits]
        /\ changed' = changed \cup {slotOf[t]}
    BY <1>0, <1>2 DEF Kqueue!DetachLocked, Kqueue!WithoutEvents, Kqueue!GiveSlotBack,
       GiveSlotBack, Kqueue!TransportDetach,
       Kqueue!UserBits, UserBits, Kqueue!EventBits, EventBits
  <2>2. OpTypes' /\ OthersAlone(t) /\ OthersFlags(t)
    BY <1>0, <1>a, <1>b, <2>1 DEF OpTypes, OthersAlone, OthersFlags
  <2>3. QED
    BY <1>0, <2>1, <2>2 DEF DetachEffect, Marks
<1>3. ASSUME Kqueue!ChangeLocked(t, bits) PROVE ChangeEffect(t, bits)
  <2>1. /\ UNCHANGED <<attached, detachedOnce, slotVars, changed, watermark, moved>>
        /\ interest' = [interest EXCEPT ![t] = Kqueue!Filters(t, bits)]
        /\ flags' = [flags EXCEPT ![t] = (@ \ EventBits) \cup bits]
    BY <1>0, <1>3 DEF Kqueue!ChangeLocked, Kqueue!EventBits, EventBits, Kqueue!slotVars,
       slotVars
  <2>2. OpTypes' /\ OthersAlone(t) /\ OthersFlags(t)
    BY <1>0, <1>a, <1>b, <2>1 DEF OpTypes, OthersAlone, OthersFlags
  <2>3. \A m \in ModeBits : m \in flags'[t] <=> m \in flags[t] \cup bits
    BY <1>0, <2>1 DEF OpTypes, ModeBits, EventBits
  <2>4. QED
    BY <1>0, <2>1, <2>2, <2>3 DEF ChangeEffect
<1>4. QED
  BY <1>1, <1>2, <1>3

LEMMA KqueueUser ==
  ASSUME Inv, backend = "kqueue",
         Kqueue!UserSteps(Kqueue!AttachLocked, Kqueue!DetachLocked, Kqueue!ChangeLocked)
  PROVE  UserDoes
<1>1. ASSUME NEW t \in Transports, NEW events \in UsedEvents[t], NEW mode \in UsedModes[t],
             Kqueue!Attach(t, mode, Kqueue!AttachLocked(t, events \cup Kqueue!ModeFlags(mode)))
      PROVE  UserDoes
  <2>1. Kqueue!ModeFlags(mode) = ModeFlags(mode)
    BY DEF Kqueue!ModeFlags, ModeFlags
  <2>2. AttachEffect(t, events \cup ModeFlags(mode))
    BY <1>1, <2>1, KqueueOps, UsedBits DEF Kqueue!Attach
  <2>3. Attach(t, mode, AttachEffect(t, events \cup ModeFlags(mode)))
    BY <1>1, <2>2 DEF Kqueue!Attach, Attach, Kqueue!UserMay, UserMay, Kqueue!AttachRefused,
       AttachRefused, Kqueue!pollVars, pollVars
  <2>4. QED
    BY <2>3 DEF UserDoes, UserSteps
<1>2. ASSUME NEW t \in Transports, NEW events \in UsedEvents[t],
             NEW bits \in {events, flags[t] \cup events, flags[t] \ events},
             Kqueue!ChangeTo(t, bits, Kqueue!ChangeLocked(t, bits))
      PROVE  UserDoes
  <2>1. ChangeEffect(t, bits)
    BY <1>2, KqueueOps, UsedBits DEF Kqueue!ChangeTo
  <2>2. ChangeTo(t, bits, ChangeEffect(t, bits))
    BY <1>2, <2>1 DEF Kqueue!ChangeTo, ChangeTo, Kqueue!UserMay, UserMay, Kqueue!ChangeRefused,
       ChangeRefused, Kqueue!pollVars, pollVars
  <2>3. QED
    BY <2>2 DEF UserDoes, UserSteps
<1>3. ASSUME NEW t \in Transports, Kqueue!Detach(t, Kqueue!DetachLocked(t)) PROVE UserDoes
  <2>1. DetachEffect(t)
    BY <1>3, KqueueOps DEF Kqueue!Detach
  <2>2. Detach(t, DetachEffect(t))
    BY <1>3, <2>1 DEF Kqueue!Detach, Detach, Kqueue!UserMay, UserMay, Kqueue!pollVars, pollVars
  <2>3. QED
    BY <2>2 DEF UserDoes, UserSteps
<1>4. ASSUME NEW t \in Transports, Kqueue!Close(t, Kqueue!DetachLocked(t)) PROVE UserDoes
  <2>1. t \in attached => DetachEffect(t)
    BY <1>4, KqueueOps DEF Kqueue!Close
  <2>2. Close(t, DetachEffect(t))
    BY <1>4, <2>1 DEF Kqueue!Close, Close, Kqueue!UserMay, UserMay, Kqueue!pollVars, pollVars,
       Kqueue!tableVars, tableVars, Kqueue!slotVars, slotVars
  <2>3. QED
    BY <2>2 DEF UserDoes, UserSteps
<1>5. ASSUME NEW t \in Transports, Kqueue!Create(t) PROVE UserDoes
  <2>1. Create(t)
    BY <1>5 DEF Kqueue!Create, Create, Kqueue!UserMay, UserMay, Kqueue!pollVars, pollVars,
       Kqueue!slotVars, slotVars
  <2>2. QED
    BY <2>1 DEF UserDoes, UserSteps
<1>6. ASSUME Kqueue!Shutdown PROVE UserDoes
  <2>1. Shutdown
    BY <1>6 DEF Kqueue!Shutdown, Shutdown, Kqueue!UserMay, UserMay, Kqueue!pollVars, pollVars,
       Kqueue!tableVars, tableVars, Kqueue!slotVars, slotVars, Kqueue!TransportDetach,
       TransportDetach, Kqueue!UserBits, UserBits
  <2>2. QED
    BY <2>1 DEF UserDoes, UserSteps
<1>7. QED
  BY <1>1, <1>2, <1>3, <1>4, <1>5, <1>6 DEF Kqueue!UserSteps

LEMMA KqueueWait ==
  ASSUME Inv, backend = "kqueue", Kqueue!Wait
  PROVE  Inv'
<1>1. PICK entries \in SUBSET UNION {Kqueue!Reportable(t) : t \in attached} : Reports(entries)
  BY DEF Kqueue!Wait, Kqueue!Reports, Reports
<1>2. open /\ HasSlots
  BY <1>1 DEF Reports, HasSlots
<1>3. /\ slotOf \in [Transports -> Nat] /\ attached \subseteq Transports
      /\ \A t \in attached : slotOf[t] \in DOMAIN slots /\ slots[slotOf[t]] = t
  BY <1>2 DEF Inv, TableInv, TableTypes, SlotsInv
<1>4. ASSUME NEW e \in entries PROVE e \in Entries /\ Fresh(e)
  <2>1. PICK t \in attached : e \in Kqueue!Reportable(t)
    BY <1>1, <1>4
  <2>2. PICK c \in Conditions[t] : e = [slot |-> slotOf[t], who |-> t, ev |-> {c}]
    BY <2>1 DEF Kqueue!Reportable
  <2>3. c \in AllConditions
    BY <1>3, <2>2, AskedAssumption
  <2>4. QED
    BY <1>2, <1>3, <2>2, <2>3 DEF Entries, Fresh, Transport
<1>5. interest' \in [Transports -> SUBSET Asks]
  BY DEF Kqueue!Wait, Inv, Types, OpTypes
<1>6. UNCHANGED <<transportVars, backend, open, slotVars, interest, watermark, moved,
                  since, cur, call>>
  BY DEF Kqueue!Wait, Kqueue!transportVars, transportVars, Kqueue!slotVars, slotVars
<1>7. QED
  BY <1>1, <1>4, <1>5, <1>6, ReportsKeepInv

\* An entry that is handled is about an attached transport, its own.
LEMMA KqueueFd ==
  ASSUME Inv, backend = "kqueue", NEW e, Kqueue!AtHand(e), ~Kqueue!IsFdChanged(e)
  PROVE  /\ AtHand(e) /\ e \in Entries /\ slots[e.slot] = e.who
         /\ e.who \in attached \ since /\ e.who \in Transports
<1>1. AtHand(e) /\ pc = "dispatch" /\ e \in batch \cup cur /\ e.slot \notin changed
  BY DEF Kqueue!AtHand, AtHand, Kqueue!IsFdChanged
<1>2. e \in Entries /\ EntrySound(e)
  BY <1>1, CurIsSound
<1>3. QED
  BY <1>1, <1>2 DEF EntrySound, FdChanged, Transport, HasSlots, Entries

LEMMA KqueueHandle ==
  ASSUME Inv, backend = "kqueue", NEW e, Kqueue!HandleEvent(e)
  PROVE  Inv'
<1> DEFINE t == slots[e.slot]
<1>1. /\ pc = "dispatch" /\ t \in attached /\ batch' = batch \ {e} /\ cur' = {}
      /\ \/ UNCHANGED <<pc, call>>
         \/ \E c \in {"in", "out"} : Kqueue!Calls1(t, Kqueue!Kind(c))
      /\ UNCHANGED <<fd, attached, flags, detachedOnce, backend, open, slotVars, changed,
                     interest, watermark, moved, since>>
  BY DEF Kqueue!HandleEvent, Kqueue!AtHand, Kqueue!Null, Kqueue!Consume, Kqueue!transportVars,
         Kqueue!tableVars, Kqueue!slotVars, slotVars
<1>2. t \in Transports /\ OpTypes
  BY <1>1 DEF Inv, TableInv, TableTypes, Types
<1>3. pc' \in {"dispatch", "call"} /\ call' \in Calls \cup {None}
  BY <1>1, <1>2 DEF Kqueue!Calls1, Kqueue!Kind, Calls, Inv, Types, ThreadTypes
<1>4. TableStep /\ InterestInv'
  BY <1>1, QuietStep DEF Quiet
<1>5. OpTypes'
  BY <1>1, <1>2 DEF OpTypes
<1>6. QED
  BY <1>1, <1>3, <1>4, <1>5, HandledKeepsInv

LEMMA KqueueAttachFails ==
  ASSUME Inv, backend = "kqueue", NEW t \in Transports, NEW mode, Kqueue!AttachFails(t, mode)
  PROVE  Inv'
<1>1. /\ UserMay /\ t \notin attached
      /\ slots' = IF free = <<>> THEN Append(slots, None) ELSE slots
      /\ free' = IF free = <<>> THEN <<NewSlot>> ELSE free
      /\ slotOf' = [slotOf EXCEPT ![t] = NewSlot]
      /\ changed' = changed \cup {NewSlot}
      /\ flags' = [flags EXCEPT ![t] = (flags[t] \ EventBits) \ UserBits]
      /\ detachedOnce' = detachedOnce \cup {t}
      /\ UNCHANGED <<fd, attached, backend, open, interest, watermark, moved, since, pollVars>>
  BY DEF Kqueue!AttachFails, Kqueue!UserMay, UserMay, Kqueue!AttachRefused, Kqueue!NewSlot,
     NewSlot,
     Kqueue!Last, Last, Kqueue!WithoutEvents, Kqueue!EventBits, EventBits, Kqueue!UserBits,
     UserBits,
     Kqueue!pollVars, pollVars
<1>2. Wastes(t) /\ OthersAlone(t)
  BY <1>1 DEF Wastes, OthersAlone
<1>3. NewSlot \in Nat
  BY DEF NewSlot, Last, Inv, TableInv, TableTypes
<1>4. OpTypes'
  BY <1>1, <1>3 DEF Inv, Types, OpTypes
<1>5. QED
  BY <1>1, <1>2, <1>4, AttachFailsKeepsInv

\* The steps that are like those of the others.
LEMMA KqueueShared ==
  ASSUME Inv, backend = "kqueue", Kqueue!Next
  PROVE  \/ Shared
         \/ Kqueue!Wait
         \/ \E t \in Transports : \E mode : Kqueue!AttachFails(t, mode)
         \/ \E e : Kqueue!HandleEvent(e)
<1>1. ASSUME NEW e, Kqueue!PassOver(e) PROVE Skipped(e)
  BY <1>1 DEF Kqueue!PassOver, Skipped, Kqueue!AtHand, AtHand, Kqueue!Skip, Skip,
     Kqueue!Consume, Consume, Kqueue!transportVars, transportVars, Kqueue!tableVars, tableVars,
     Kqueue!slotVars, slotVars
<1>2. ASSUME NEW e, Kqueue!Hangup(e) PROVE HungUp(e)
  <2>1. /\ AtHand(e) /\ e.who \in Dispatched /\ e.who \in Transports /\ slots[e.slot] = e.who
        /\ Kqueue!ReportHangup(e, slots[e.slot], Kqueue!DetachLocked(slots[e.slot]))
    BY <1>2, KqueueFd DEF Kqueue!Hangup, Dispatched
  <2>2. e.ev = {} \/ e.ev \cap {"hup", "err"} # {}
    BY <1>2 DEF Kqueue!Hangup
  <2>3. DetachEffect(e.who)
    BY <2>1, KqueueOps DEF Kqueue!ReportHangup, Dispatched
  <2>4. ReportHangup(e, e.who, DetachEffect(e.who))
    BY <2>1, <2>3 DEF Kqueue!ReportHangup, ReportHangup, Kqueue!Calls1, Calls1, Kqueue!Consume,
       Consume
  <2>5. QED
    BY <2>1, <2>2, <2>4 DEF HungUp
<1>3. ASSUME Kqueue!WaitTimesOut PROVE TimesOut
  BY <1>3 DEF TimesOut, Kqueue!WaitTimesOut, Kqueue!transportVars, transportVars,
     Kqueue!slotVars, slotVars, Kqueue!pollVars, pollVars
<1>4. ASSUME Kqueue!Return PROVE Return
  BY <1>4 DEF Kqueue!Return, Return, Kqueue!transportVars, transportVars, Kqueue!tableVars,
     tableVars, Kqueue!slotVars, slotVars
<1>5. ASSUME Kqueue!EndPoll PROVE EndPoll
  BY <1>5 DEF Kqueue!EndPoll, EndPoll, Kqueue!transportVars, transportVars, Kqueue!slotVars,
     slotVars
<1>6. QED
  BY <1>1, <1>2, <1>3, <1>4, <1>5, KqueueUser DEF Shared, Kqueue!Next

LEMMA KqueueNext ==
  ASSUME Inv, backend = "kqueue", Kqueue!Next
  PROVE  Inv'
BY KqueueShared, SharedKeepsInv, KqueueWait, KqueueHandle, KqueueAttachFails

----------------------------------------------------------------------------
(* /dev/poll.                                                              *)

LEMMA DevPollOps ==
  ASSUME Inv, backend = "devpoll", NEW t \in Transports, NEW bits \in SUBSET AllBits
  PROVE  /\ DevPoll!AttachLocked(t, bits) => AttachEffect(t, bits)
         /\ t \in attached /\ DevPoll!DetachLocked(t) => DetachEffect(t)
         /\ DevPoll!ChangeLocked(t, bits) => ChangeEffect(t, bits)
<1>0. /\ OpTypes /\ ~HasSlots /\ t \in Nat /\ slotOf \in [Transports -> Nat]
      /\ EventBits \subseteq Asks /\ UserBits \subseteq AllBits
      /\ backend = "devpoll"
  BY DescriptorAssumption DEF Inv, Types, TableInv, TableTypes, HasSlots, Asks, AllBits, Bits
<1>1. ASSUME DevPoll!AttachLocked(t, bits) PROVE AttachEffect(t, bits)
  <2>1. /\ UNCHANGED <<slotVars, moved, watermark, detachedOnce>>
        /\ interest' = [interest EXCEPT ![t] =
                          IF bits \cap EventBits = {} THEN @ ELSE bits \cap EventBits]
        /\ attached' = attached \cup {t} /\ flags' = [flags EXCEPT ![t] = @ \cup bits]
        /\ changed' = changed \cup {t}
    BY <1>0, <1>1 DEF DevPoll!AttachLocked, DevPoll!TransportAttach, DevPoll!EventBits,
       EventBits,
       DevPoll!slotVars, slotVars
  <2>2. OpTypes' /\ OthersAlone(t) /\ OthersFlags(t)
    BY <1>0, <2>1 DEF OpTypes, OthersAlone, OthersFlags
  <2>3. QED
    BY <1>0, <2>1, <2>2 DEF AttachEffect, Marks
<1>2. ASSUME t \in attached, DevPoll!DetachLocked(t) PROVE DetachEffect(t)
  <2>1. /\ UNCHANGED <<slotVars, moved, watermark>>
        /\ interest' = [interest EXCEPT ![t] = {}]
        /\ attached' = attached \ {t} /\ detachedOnce' = detachedOnce \cup {t}
        /\ flags' = [u \in Transports |-> IF u \in {t} THEN flags[u] \ UserBits ELSE flags[u]]
        /\ changed' = changed \cup {t}
    BY <1>0, <1>2 DEF DevPoll!DetachLocked, DevPoll!TransportDetach, DevPoll!UserBits,
       UserBits,
       DevPoll!slotVars, slotVars
  <2>2. OpTypes' /\ OthersAlone(t) /\ OthersFlags(t)
    BY <1>0, <2>1 DEF OpTypes, OthersAlone, OthersFlags
  <2>3. QED
    BY <1>0, <2>1, <2>2 DEF DetachEffect, Marks
<1>3. ASSUME DevPoll!ChangeLocked(t, bits) PROVE ChangeEffect(t, bits)
  <2>1. /\ UNCHANGED <<attached, detachedOnce, slotVars, changed, watermark, moved>>
        /\ interest' = [interest EXCEPT ![t] = bits \cap EventBits]
        /\ flags' = [flags EXCEPT ![t] = (@ \ EventBits) \cup bits]
    BY <1>0, <1>3 DEF DevPoll!ChangeLocked, DevPoll!SetEvents, DevPoll!EventBits, EventBits,
       DevPoll!slotVars, slotVars
  <2>2. OpTypes' /\ OthersAlone(t) /\ OthersFlags(t)
    BY <1>0, <2>1 DEF OpTypes, OthersAlone, OthersFlags
  <2>3. \A m \in ModeBits : m \in flags'[t] <=> m \in flags[t] \cup bits
    BY <1>0, <2>1 DEF OpTypes, ModeBits, EventBits
  <2>4. QED
    BY <1>0, <2>1, <2>2, <2>3 DEF ChangeEffect
<1>4. QED
  BY <1>1, <1>2, <1>3

LEMMA DevPollUser ==
  ASSUME Inv, backend = "devpoll",
         DevPoll!UserSteps(DevPoll!AttachLocked, DevPoll!DetachLocked, DevPoll!ChangeLocked)
  PROVE  UserDoes
<1>1. ASSUME NEW t \in Transports, NEW events \in UsedEvents[t], NEW mode \in UsedModes[t],
             DevPoll!Attach(t, mode, DevPoll!AttachLocked(t, events \cup DevPoll!ModeFlags(mode)))
      PROVE  UserDoes
  <2>1. DevPoll!ModeFlags(mode) = ModeFlags(mode)
    BY DEF DevPoll!ModeFlags, ModeFlags
  <2>2. AttachEffect(t, events \cup ModeFlags(mode))
    BY <1>1, <2>1, DevPollOps, UsedBits DEF DevPoll!Attach
  <2>3. Attach(t, mode, AttachEffect(t, events \cup ModeFlags(mode)))
    BY <1>1, <2>2 DEF DevPoll!Attach, Attach, DevPoll!UserMay, UserMay, DevPoll!AttachRefused,
       AttachRefused, DevPoll!pollVars, pollVars
  <2>4. QED
    BY <2>3 DEF UserDoes, UserSteps
<1>2. ASSUME NEW t \in Transports, NEW events \in UsedEvents[t],
             NEW bits \in {events, flags[t] \cup events, flags[t] \ events},
             DevPoll!ChangeTo(t, bits, DevPoll!ChangeLocked(t, bits))
      PROVE  UserDoes
  <2>1. ChangeEffect(t, bits)
    BY <1>2, DevPollOps, UsedBits DEF DevPoll!ChangeTo
  <2>2. ChangeTo(t, bits, ChangeEffect(t, bits))
    BY <1>2, <2>1 DEF DevPoll!ChangeTo, ChangeTo, DevPoll!UserMay, UserMay,
       DevPoll!ChangeRefused, ChangeRefused, DevPoll!pollVars, pollVars
  <2>3. QED
    BY <2>2 DEF UserDoes, UserSteps
<1>3. ASSUME NEW t \in Transports, DevPoll!Detach(t, DevPoll!DetachLocked(t)) PROVE UserDoes
  <2>1. DetachEffect(t)
    BY <1>3, DevPollOps DEF DevPoll!Detach
  <2>2. Detach(t, DetachEffect(t))
    BY <1>3, <2>1 DEF DevPoll!Detach, Detach, DevPoll!UserMay, UserMay, DevPoll!pollVars,
       pollVars
  <2>3. QED
    BY <2>2 DEF UserDoes, UserSteps
<1>4. ASSUME NEW t \in Transports, DevPoll!Close(t, DevPoll!DetachLocked(t)) PROVE UserDoes
  <2>1. t \in attached => DetachEffect(t)
    BY <1>4, DevPollOps DEF DevPoll!Close
  <2>2. Close(t, DetachEffect(t))
    BY <1>4, <2>1 DEF DevPoll!Close, Close, DevPoll!UserMay, UserMay, DevPoll!pollVars,
       pollVars, DevPoll!tableVars, tableVars, DevPoll!slotVars, slotVars
  <2>3. QED
    BY <2>2 DEF UserDoes, UserSteps
<1>5. ASSUME NEW t \in Transports, DevPoll!Create(t) PROVE UserDoes
  <2>1. Create(t)
    BY <1>5 DEF DevPoll!Create, Create, DevPoll!UserMay, UserMay, DevPoll!pollVars, pollVars,
       DevPoll!slotVars, slotVars
  <2>2. QED
    BY <2>1 DEF UserDoes, UserSteps
<1>6. ASSUME DevPoll!Shutdown PROVE UserDoes
  <2>1. Shutdown
    BY <1>6 DEF DevPoll!Shutdown, Shutdown, DevPoll!UserMay, UserMay, DevPoll!pollVars,
       pollVars, DevPoll!tableVars, tableVars, DevPoll!slotVars, slotVars,
       DevPoll!TransportDetach, TransportDetach, DevPoll!UserBits, UserBits
  <2>2. QED
    BY <2>1 DEF UserDoes, UserSteps
<1>7. QED
  BY <1>1, <1>2, <1>3, <1>4, <1>5, <1>6 DEF DevPoll!UserSteps

LEMMA DevPollWait ==
  ASSUME Inv, backend = "devpoll", DevPoll!Wait
  PROVE  Inv'
<1>0. PICK ready \in SUBSET attached : \E ev \in [ready -> SUBSET AllConditions] :
        Reports({[slot |-> t, who |-> t, ev |-> ev[t]] : t \in ready})
  BY DEF DevPoll!Wait, DevPoll!Reports, Reports, DevPoll!AllConditions, AllConditions
<1>1. PICK ev \in [ready -> SUBSET AllConditions] :
        Reports({[slot |-> t, who |-> t, ev |-> ev[t]] : t \in ready})
  BY <1>0
<1> DEFINE entries == {[slot |-> t, who |-> t, ev |-> ev[t]] : t \in ready}
<1>2. ~HasSlots /\ attached \subseteq Transports
  BY DEF HasSlots, Inv, TableInv, TableTypes
<1>3. entries \in SUBSET Entries /\ \A e \in entries : Fresh(e)
  BY <1>2, DescriptorAssumption DEF Entries, Fresh, Transport
<1>4. interest' \in [Transports -> SUBSET Asks]
  BY DEF DevPoll!Wait, Inv, Types, OpTypes
<1>5. UNCHANGED <<transportVars, backend, open, slotVars, interest, watermark, moved,
                  since, cur, call>>
  BY DEF DevPoll!Wait, DevPoll!transportVars, transportVars, DevPoll!slotVars, slotVars
<1>6. QED
  BY <1>1, <1>3, <1>4, <1>5, ReportsKeepInv

LEMMA DevPollFd ==
  ASSUME Inv, backend = "devpoll", NEW e, DevPoll!Live(e)
  PROVE  /\ AtHand(e) /\ pc = "dispatch" /\ e \in Entries /\ EntrySound(e)
         /\ e.slot = e.who /\ e.who \in attached \ since /\ e.who \in Transports
<1>1. AtHand(e) /\ e.slot \notin changed
  BY DEF DevPoll!Live, DevPoll!AtHand, AtHand, DevPoll!IsFdChanged
<1>2. pc = "dispatch" /\ e \in batch \cup cur
  BY <1>1 DEF AtHand
<1>3. e \in Entries /\ EntrySound(e) /\ e.slot = e.who /\ e.who \in attached \ since
  BY <1>1, <1>2, CurIsSound DEF EntrySound, FdChanged, Transport, HasSlots
<1>4. QED
  BY <1>1, <1>2, <1>3 DEF Inv, TableInv, TableTypes

LEMMA DevPollHandle ==
  ASSUME Inv, backend = "devpoll", NEW e, DevPoll!HandleEvent(e)
  PROVE  Inv'
<1> DEFINE t == e.slot
           event == DevPoll!NextOf(e)
<1>1. /\ pc = "dispatch" /\ e \in Entries /\ EntrySound(e) /\ t \in attached /\ t \in Transports
  BY DevPollFd DEF DevPoll!HandleEvent
<1>2. OpTypes
  BY DEF Inv, Types
<1>3. /\ event \in {"in", "out"} /\ batch' = batch \ {e} /\ cur' = DevPoll!Rest(e)
      /\ \/ UNCHANGED <<interest, flags>>
         \/ DevPoll!SetEvents(t, flags[t] \ {DevPoll!Bit(event)})
      /\ UNCHANGED <<pc, call>> \/ DevPoll!Calls1(t, DevPoll!Kind(event))
      /\ UNCHANGED <<fd, attached, detachedOnce, backend, open, slotVars, changed,
                     watermark, moved, since>>
  BY DEF DevPoll!HandleEvent, DevPoll!Consume, DevPoll!slotVars, slotVars, DevPoll!NextOf,
         DevPoll!Disarmed
<1>4. pc' \in {"dispatch", "call"} /\ call' \in Calls \cup {None}
  BY <1>1, <1>3 DEF DevPoll!Calls1, DevPoll!Kind, Calls, Inv, Types, ThreadTypes
<1>5. OpTypes' /\ \A u \in Transports \ {t} : interest'[u] = interest[u]
  BY <1>1, <1>2, <1>3 DEF DevPoll!SetEvents, DevPoll!EventBits, EventBits, OpTypes, Asks
<1>6. TableStep /\ InterestInv'
  BY <1>1, <1>3, <1>5, QuietStep DEF Quiet
<1>7. ASSUME NEW r \in cur' PROVE r \in Entries /\ EntrySound(r) /\ CurSound(r)
  <2>1. r \in Entries /\ r.slot = e.slot /\ r.who = e.who
    BY <1>1, <1>3, <1>7 DEF DevPoll!Rest, Entries, AllConditions
  <2>2. QED
    BY <1>1, <2>1 DEF EntrySound, CurSound, FdChanged, Transport, HasSlots
<1>8. QED
  BY <1>1, <1>3, <1>4, <1>5, <1>6, <1>7, HandledKeepsInv

LEMMA DevPollChangeFails ==
  ASSUME Inv, backend = "devpoll", NEW t \in Transports, DevPoll!ChangeFails(t)
  PROVE  Inv'
<1>1. /\ UserMay /\ t \in attached
      /\ interest' = [interest EXCEPT ![t] = {} \cap EventBits]
      /\ flags' = [flags EXCEPT ![t] = (flags[t] \ EventBits) \cup {}]
      /\ UNCHANGED <<fd, attached, detachedOnce, backend, open, slotVars, changed, watermark,
                     moved, since, pollVars>>
  BY DEF DevPoll!ChangeFails, DevPoll!ChangeRefused, DevPoll!SetEvents, DevPoll!UserMay,
     UserMay, DevPoll!EventBits, EventBits, DevPoll!slotVars, slotVars, DevPoll!pollVars,
     pollVars
<1>2. OpTypes' /\ Quiet
  BY <1>1 DEF Inv, Types, OpTypes, Quiet
<1>3. QED
  BY <1>1, <1>2, ChangeFailsKeepsInv

\* The steps that are like those of the others.
LEMMA DevPollShared ==
  ASSUME Inv, backend = "devpoll", DevPoll!Next
  PROVE  \/ Shared
         \/ DevPoll!Wait
         \/ \E t \in Transports : DevPoll!ChangeFails(t)
         \/ \E e : DevPoll!HandleEvent(e)
<1>1. ASSUME NEW e, DevPoll!PassOver(e) PROVE Skipped(e)
  BY <1>1 DEF DevPoll!PassOver, Skipped, DevPoll!AtHand, AtHand, DevPoll!Skip, Skip,
     DevPoll!Consume, Consume, DevPoll!transportVars, transportVars, DevPoll!tableVars,
     tableVars, DevPoll!slotVars, slotVars
<1>2. ASSUME NEW e, DevPoll!Hangup(e) PROVE HungUp(e)
  <2>1. /\ AtHand(e) /\ e.who \in Dispatched /\ e.who \in Transports /\ e.slot = e.who
        /\ DevPoll!ReportHangup(e, e.slot, DevPoll!DetachLocked(e.slot))
    BY <1>2, DevPollFd DEF DevPoll!Hangup, Dispatched
  <2>2. TestsEdge
    BY DEF TestsEdge
  <2>3. DetachEffect(e.who)
    BY <2>1, DevPollOps DEF DevPoll!ReportHangup, Dispatched
  <2>4. ReportHangup(e, e.who, DetachEffect(e.who))
    BY <2>1, <2>3 DEF DevPoll!ReportHangup, ReportHangup, DevPoll!Calls1, Calls1,
       DevPoll!Consume, Consume
  <2>5. QED
    BY <2>1, <2>2, <2>4 DEF HungUp
<1>3. ASSUME NEW e, DevPoll!DisarmFails(e) PROVE HungUp(e)
  <2>1. /\ AtHand(e) /\ e.who \in Dispatched /\ e.who \in Transports /\ e.slot = e.who
        /\ DevPoll!ReportHangup(e, e.slot, DevPoll!DetachLocked(e.slot))
    BY <1>3, DevPollFd DEF DevPoll!DisarmFails, Dispatched
  <2>2. TestsEdge
    BY DEF TestsEdge
  <2>3. DetachEffect(e.who)
    BY <2>1, DevPollOps DEF DevPoll!ReportHangup, Dispatched
  <2>4. ReportHangup(e, e.who, DetachEffect(e.who))
    BY <2>1, <2>3 DEF DevPoll!ReportHangup, ReportHangup, DevPoll!Calls1, Calls1,
       DevPoll!Consume, Consume
  <2>5. QED
    BY <2>1, <2>2, <2>4 DEF HungUp
<1>4. ASSUME DevPoll!WaitTimesOut PROVE TimesOut
  BY <1>4 DEF TimesOut, DevPoll!WaitTimesOut, DevPoll!transportVars, transportVars,
     DevPoll!slotVars, slotVars, DevPoll!pollVars, pollVars
<1>5. ASSUME DevPoll!Return PROVE Return
  BY <1>5 DEF DevPoll!Return, Return, DevPoll!transportVars, transportVars, DevPoll!tableVars,
     tableVars, DevPoll!slotVars, slotVars
<1>6. ASSUME DevPoll!EndPoll PROVE EndPoll
  BY <1>6 DEF DevPoll!EndPoll, EndPoll, DevPoll!transportVars, transportVars, DevPoll!slotVars,
     slotVars
<1>7. QED
  BY <1>1, <1>2, <1>3, <1>4, <1>5, <1>6, DevPollUser DEF Shared, DevPoll!Next

LEMMA DevPollNext ==
  ASSUME Inv, backend = "devpoll", DevPoll!Next
  PROVE  Inv'
BY DevPollShared, SharedKeepsInv, DevPollWait, DevPollHandle, DevPollChangeFails

----------------------------------------------------------------------------
(* Event ports.                                                            *)

LEMMA PortOps ==
  ASSUME Inv, backend = "port", NEW t \in Transports, NEW bits \in SUBSET AllBits
  PROVE  /\ Port!AttachLocked(t, bits) => AttachEffect(t, bits)
         /\ t \in attached /\ Port!DetachLocked(t) => DetachEffect(t)
         /\ Port!ChangeLocked(t, bits) => ChangeEffect(t, bits)
<1>0. /\ OpTypes /\ HasSlots /\ t \in Nat /\ slotOf \in [Transports -> Nat]
      /\ EventBits \subseteq Asks /\ UserBits \subseteq AllBits
      /\ backend = "port"
  BY DescriptorAssumption DEF Inv, Types, TableInv, TableTypes, HasSlots, Asks, AllBits, Bits
<1>a. NewSlot \in Nat /\ "Associated" \in Asks /\ "Armed" \in AllBits
  BY DEF NewSlot, Last, Inv, TableInv, TableTypes, Asks, AllBits
<1>1. ASSUME Port!AttachLocked(t, bits) PROVE AttachEffect(t, bits)
  <2>1. /\ TakeSlot(t) /\ UNCHANGED <<watermark, moved, detachedOnce>>
        /\ interest' = [interest EXCEPT ![t] = (bits \cap EventBits) \cup {"Associated"}]
        /\ attached' = attached \cup {t} /\ flags' = [flags EXCEPT ![t] = @ \cup bits \cup {"Armed"}]
        /\ changed' = changed \cup {NewSlot}
    BY <1>0, <1>1 DEF Port!AttachLocked, Port!Associate, Port!TakeSlot, TakeSlot,
       Port!NewSlot, NewSlot,
       Port!Last, Last, Port!Front, Front, Port!TransportAttach, Port!EventBits, EventBits
  <2>2. OpTypes' /\ OthersAlone(t) /\ OthersFlags(t)
    BY <1>0, <1>a, <2>1 DEF OpTypes, OthersAlone, OthersFlags
  <2>3. QED
    BY <1>0, <2>1, <2>2 DEF AttachEffect, Marks
<1>2. ASSUME t \in attached, Port!DetachLocked(t) PROVE DetachEffect(t)
  <2>1. /\ GiveSlotBack(t) /\ UNCHANGED <<watermark, moved>>
        /\ interest' = [interest EXCEPT ![t] = IF "Armed" \in flags[t] THEN {} ELSE @]
        /\ attached' = attached \ {t} /\ detachedOnce' = detachedOnce \cup {t}
        /\ flags' = [u \in Transports |-> IF u \in {t} THEN flags[u] \ UserBits ELSE flags[u]]
        /\ changed' = changed \cup {slotOf[t]}
    BY <1>0, <1>2 DEF Port!DetachLocked, Port!GiveSlotBack, GiveSlotBack,
       Port!TransportDetach,
       Port!UserBits, UserBits, Port!EventBits, EventBits
  <2>2. OpTypes' /\ OthersAlone(t) /\ OthersFlags(t)
    BY <1>0, <1>a, <2>1 DEF OpTypes, OthersAlone, OthersFlags
  <2>3. QED
    BY <1>0, <2>1, <2>2 DEF DetachEffect, Marks
<1>3. ASSUME Port!ChangeLocked(t, bits) PROVE ChangeEffect(t, bits)
  <2>1. /\ UNCHANGED <<attached, detachedOnce, slotVars, changed, watermark, moved>>
        /\ interest' = [interest EXCEPT ![t] = (bits \cap EventBits) \cup {"Associated"}]
        /\ flags' = [flags EXCEPT ![t] = @ \cup bits \cup {"Armed"}]
    BY <1>0, <1>3 DEF Port!ChangeLocked, Port!Associate, Port!EventBits, EventBits,
       Port!slotVars, slotVars
  <2>2. OpTypes' /\ OthersAlone(t) /\ OthersFlags(t)
    BY <1>0, <1>a, <2>1 DEF OpTypes, OthersAlone, OthersFlags
  <2>3. \A m \in ModeBits : m \in flags'[t] <=> m \in flags[t] \cup bits
    BY <1>0, <2>1 DEF OpTypes, ModeBits, EventBits
  <2>4. QED
    BY <1>0, <2>1, <2>2, <2>3 DEF ChangeEffect
<1>4. QED
  BY <1>1, <1>2, <1>3

LEMMA PortUser ==
  ASSUME Inv, backend = "port",
         Port!UserSteps(Port!AttachLocked, Port!DetachLocked, Port!ChangeLocked)
  PROVE  UserDoes
<1>1. ASSUME NEW t \in Transports, NEW events \in UsedEvents[t], NEW mode \in UsedModes[t],
             Port!Attach(t, mode, Port!AttachLocked(t, events \cup Port!ModeFlags(mode)))
      PROVE  UserDoes
  <2>1. Port!ModeFlags(mode) = ModeFlags(mode)
    BY DEF Port!ModeFlags, ModeFlags
  <2>2. AttachEffect(t, events \cup ModeFlags(mode))
    BY <1>1, <2>1, PortOps, UsedBits DEF Port!Attach
  <2>3. Attach(t, mode, AttachEffect(t, events \cup ModeFlags(mode)))
    BY <1>1, <2>2 DEF Port!Attach, Attach, Port!UserMay, UserMay, Port!AttachRefused,
       AttachRefused, Port!pollVars, pollVars
  <2>4. QED
    BY <2>3 DEF UserDoes, UserSteps
<1>2. ASSUME NEW t \in Transports, NEW events \in UsedEvents[t],
             NEW bits \in {events, flags[t] \cup events, flags[t] \ events},
             Port!ChangeTo(t, bits, Port!ChangeLocked(t, bits))
      PROVE  UserDoes
  <2>1. ChangeEffect(t, bits)
    BY <1>2, PortOps, UsedBits DEF Port!ChangeTo
  <2>2. ChangeTo(t, bits, ChangeEffect(t, bits))
    BY <1>2, <2>1 DEF Port!ChangeTo, ChangeTo, Port!UserMay, UserMay, Port!ChangeRefused,
       ChangeRefused, Port!pollVars, pollVars
  <2>3. QED
    BY <2>2 DEF UserDoes, UserSteps
<1>3. ASSUME NEW t \in Transports, Port!Detach(t, Port!DetachLocked(t)) PROVE UserDoes
  <2>1. DetachEffect(t)
    BY <1>3, PortOps DEF Port!Detach
  <2>2. Detach(t, DetachEffect(t))
    BY <1>3, <2>1 DEF Port!Detach, Detach, Port!UserMay, UserMay, Port!pollVars, pollVars
  <2>3. QED
    BY <2>2 DEF UserDoes, UserSteps
<1>4. ASSUME NEW t \in Transports, Port!Close(t, Port!DetachLocked(t)) PROVE UserDoes
  <2>1. t \in attached => DetachEffect(t)
    BY <1>4, PortOps DEF Port!Close
  <2>2. Close(t, DetachEffect(t))
    BY <1>4, <2>1 DEF Port!Close, Close, Port!UserMay, UserMay, Port!pollVars, pollVars,
       Port!tableVars, tableVars, Port!slotVars, slotVars
  <2>3. QED
    BY <2>2 DEF UserDoes, UserSteps
<1>5. ASSUME NEW t \in Transports, Port!Create(t) PROVE UserDoes
  <2>1. Create(t)
    BY <1>5 DEF Port!Create, Create, Port!UserMay, UserMay, Port!pollVars, pollVars,
       Port!slotVars, slotVars
  <2>2. QED
    BY <2>1 DEF UserDoes, UserSteps
<1>6. ASSUME Port!Shutdown PROVE UserDoes
  <2>1. Shutdown
    BY <1>6 DEF Port!Shutdown, Shutdown, Port!UserMay, UserMay, Port!pollVars, pollVars,
       Port!tableVars, tableVars, Port!slotVars, slotVars, Port!TransportDetach,
       TransportDetach, Port!UserBits, UserBits
  <2>2. QED
    BY <2>1 DEF UserDoes, UserSteps
<1>7. QED
  BY <1>1, <1>2, <1>3, <1>4, <1>5, <1>6 DEF Port!UserSteps

LEMMA PortWait ==
  ASSUME Inv, backend = "port", Port!Wait
  PROVE  Inv'
<1>0. PICK ready \in SUBSET Port!Associated : \E ev \in [ready -> AllConditions] :
        /\ Reports({[slot |-> slotOf[t], who |-> t, ev |-> {ev[t]}] : t \in ready})
        /\ interest' = [t \in Transports |-> IF t \in ready THEN {} ELSE interest[t]]
  BY DEF Port!Wait, Port!Reports, Reports, Port!AllConditions, AllConditions
<1>1. PICK ev \in [ready -> AllConditions] :
        /\ Reports({[slot |-> slotOf[t], who |-> t, ev |-> {ev[t]}] : t \in ready})
        /\ interest' = [t \in Transports |-> IF t \in ready THEN {} ELSE interest[t]]
  BY <1>0
<1> DEFINE entries == {[slot |-> slotOf[t], who |-> t, ev |-> {ev[t]}] : t \in ready}
<1>2. open /\ HasSlots /\ slotOf \in [Transports -> Nat]
  BY <1>1 DEF Reports, HasSlots, Inv, TableInv, TableTypes
<1>3. ready \subseteq Transports /\ \A t \in ready : interest[t] # {}
  BY DEF Port!Associated
<1>4. \A t \in ready : slotOf[t] \in DOMAIN slots
  BY <1>2, <1>3 DEF Inv, InterestInv
<1>5. entries \in SUBSET Entries /\ \A e \in entries : Fresh(e)
  BY <1>2, <1>3, <1>4 DEF Entries, Fresh, Transport
<1>6. interest' \in [Transports -> SUBSET Asks]
  BY <1>1 DEF Inv, Types, OpTypes
<1>7. \A t \in Transports : interest'[t] # {} => interest[t] # {}
  BY <1>1
<1>8. UNCHANGED <<transportVars, backend, open, slotVars, watermark, moved,
                  since, cur, call>>
  BY DEF Port!Wait, Port!transportVars, transportVars, Port!slotVars, slotVars
<1>9. QED
  BY <1>1, <1>5, <1>6, <1>7, <1>8, ReportsKeepInv

\* An entry whose slot holds the transport it is about.
LEMMA PortFd ==
  ASSUME Inv, backend = "port", pc = "dispatch", NEW e \in batch \cup cur,
         slots[e.slot] = e.who
  PROVE  /\ e \in Entries /\ EntrySound(e) /\ CurSound(e)
         /\ e.who \in attached /\ e.who \in Transports
         /\ e.slot \notin changed => e.who \notin since
<1>1. open /\ HasSlots /\ e \in Entries /\ EntrySound(e)
  BY CurIsSound DEF HasSlots
<1>2. e.slot \in DOMAIN slots /\ e.who \in Transports /\ e.who # None
  BY <1>1, NullAssumption DEF EntrySound, Entries
<1>3. e.who \in attached
  BY <1>1, <1>2 DEF Inv, TableInv, SlotsInv
<1>4. e.slot \notin changed => e.who \notin since
  BY <1>1 DEF EntrySound, FdChanged, Transport
<1>5. QED
  BY <1>1, <1>2, <1>3, <1>4 DEF CurSound

LEMMA PortHandle ==
  ASSUME Inv, backend = "port", NEW e, Port!HandleEvent(e)
  PROVE  Inv'
<1> DEFINE t == e.who
<1>1. AtHand(e) /\ pc = "dispatch" /\ slots[e.slot] = t /\ e \in batch \cup cur
  BY DEF Port!HandleEvent, Port!AtHand, AtHand, Port!Stranded
<1>2. e \in Entries /\ EntrySound(e) /\ CurSound(e) /\ t \in attached /\ t \in Transports /\ OpTypes
  BY <1>1, PortFd DEF Inv, Types
<1>3. /\ batch' = batch \ {e} /\ cur' \subseteq {[e EXCEPT !.ev = {}]}
      /\ \/ UNCHANGED <<flags, pc, call>>
         \/ \E c \in {"in", "out"} : /\ flags' = [flags EXCEPT ![t] = Port!FlagsInCall(t, c)]
                                     /\ Port!Calls1(t, Port!Kind(c))
      /\ UNCHANGED <<fd, attached, detachedOnce, backend, open, slotVars, changed,
                     interest, watermark, moved, since>>
  BY DEF Port!HandleEvent, Port!Consume, Port!tableVars, Port!slotVars, slotVars
<1>4. pc' \in {"dispatch", "call"} /\ call' \in Calls \cup {None}
  BY <1>1, <1>2, <1>3 DEF Port!Calls1, Port!Kind, Calls, Inv, Types, ThreadTypes
<1>5. OpTypes'
  <2>1. \A c : Port!FlagsInCall(t, c) \subseteq flags[t]
    BY DEF Port!FlagsInCall
  <2>2. flags' \in [Transports -> SUBSET AllBits]
    BY <1>2, <1>3, <2>1 DEF OpTypes
  <2>3. QED
    BY <1>2, <1>3, <2>2 DEF OpTypes
<1>6. TableStep /\ InterestInv'
  BY <1>3, QuietStep DEF Quiet
<1>7. ASSUME NEW r \in cur' PROVE r \in Entries /\ EntrySound(r) /\ CurSound(r)
  <2>1. r \in Entries /\ r.slot = e.slot /\ r.who = e.who
    BY <1>2, <1>3, <1>7 DEF Entries
  <2>2. QED
    BY <1>2, <2>1 DEF EntrySound, CurSound, FdChanged, Transport
<1>8. QED
  BY <1>1, <1>3, <1>4, <1>5, <1>6, <1>7, HandledKeepsInv

\* An entry whose listener has returned, of a registration that is still there.
LEMMA PortRearms ==
  ASSUME Inv, backend = "port", NEW e, Port!Handled(e), Port!Rearms(e)
  PROVE  /\ AtHand(e) /\ pc = "dispatch" /\ e.who \in Transports
         /\ e.who \in attached \ since
<1>1. pc = "dispatch" /\ cur = {e} /\ AtHand(e) /\ e.slot \notin changed
  BY DEF Port!Handled, Port!Rearms, Port!IsFdChanged, AtHand
<1>2. slots[e.slot] = e.who
  BY <1>1, CurIsSound DEF CurSound
<1>3. QED
  BY <1>1, <1>2, PortFd

LEMMA PortRearm ==
  ASSUME Inv, backend = "port", NEW e, Port!Rearm(e)
  PROVE  Inv'
<1> DEFINE t == e.who
<1>1. AtHand(e) /\ pc = "dispatch" /\ t \in attached /\ t \in Transports
  BY PortRearms DEF Port!Rearm
<1>2. /\ batch' = batch \ {e} /\ cur' = {}
      /\ interest' = [interest EXCEPT ![t] = (flags[t] \cap EventBits) \cup {"Associated"}]
      /\ flags' = [flags EXCEPT ![t] = @ \cup {"Armed"}]
      /\ UNCHANGED <<fd, attached, detachedOnce, backend, open, slotVars, changed, watermark,
                     moved, since, pc, call>>
  BY DEF Port!Rearm, Port!Consume, Port!Associate, Port!EventBits, EventBits, Port!slotVars,
     slotVars
<1>3. OpTypes'
  BY <1>1, <1>2 DEF Inv, Types, OpTypes, Asks, AllBits
<1>4. TableStep /\ InterestInv'
  <2>1. \A u \in Transports : interest'[u] # {} => interest[u] # {} \/ u \in attached
    BY <1>1, <1>2 DEF Inv, Types, OpTypes
  <2>2. QED
    BY <1>2, <2>1, QuietStep DEF Quiet
<1>5. call' \in Calls \cup {None}
  BY <1>2 DEF Inv, Types, ThreadTypes
<1>6. QED
  BY <1>1, <1>2, <1>3, <1>4, <1>5, HandledKeepsInv

LEMMA PortAttachFails ==
  ASSUME Inv, backend = "port", NEW t \in Transports, NEW mode, Port!AttachFails(t, mode)
  PROVE  Inv'
<1>1. /\ UserMay /\ t \notin attached
      /\ slots' = IF free = <<>> THEN Append(slots, None) ELSE slots
      /\ free' = IF free = <<>> THEN <<NewSlot>> ELSE free
      /\ slotOf' = [slotOf EXCEPT ![t] = NewSlot]
      /\ interest' = [interest EXCEPT ![t] = IF "Armed" \in flags[t] THEN {} ELSE @]
      /\ changed' = changed \cup {NewSlot}
      /\ flags' = [flags EXCEPT ![t] = @ \ UserBits]
      /\ detachedOnce' = detachedOnce \cup {t}
      /\ UNCHANGED <<fd, attached, backend, open, watermark, moved, since, pollVars>>
  BY DEF Port!AttachFails, Port!UserMay, UserMay, Port!AttachRefused, Port!NewSlot, NewSlot,
     Port!Last, Last, Port!FreeAfterFailure, Port!UserBits, UserBits, Port!pollVars, pollVars
<1>2. Wastes(t) /\ OthersAlone(t)
  BY <1>1 DEF Wastes, OthersAlone, Inv, Types, OpTypes
<1>3. NewSlot \in Nat
  BY DEF NewSlot, Last, Inv, TableInv, TableTypes
<1>4. OpTypes'
  BY <1>1, <1>3 DEF Inv, Types, OpTypes
<1>5. QED
  BY <1>1, <1>2, <1>4, AttachFailsKeepsInv

\* The steps that are like those of the others.
LEMMA PortShared ==
  ASSUME Inv, backend = "port", Port!Next
  PROVE  \/ Shared
         \/ Port!Wait
         \/ \E t \in Transports : \E mode : Port!AttachFails(t, mode)
         \/ \E e : Port!HandleEvent(e)
         \/ \E e : Port!Rearm(e)
<1>1. ASSUME NEW e, Port!Crash(e) PROVE Failed
  BY <1>1 DEF Port!Crash, Port!AtHand, Failed, Port!Fails, Fails, Port!transportVars,
     transportVars, Port!tableVars, tableVars, Port!slotVars, slotVars
<1>2. ASSUME NEW e, Port!PassOver(e) PROVE Skipped(e)
  BY <1>2 DEF Port!PassOver, Skipped, Port!AtHand, AtHand, Port!Skip, Skip, Port!Consume,
     Consume, Port!transportVars, transportVars, Port!tableVars, tableVars, Port!slotVars,
     slotVars
<1>3. ASSUME NEW e, Port!LeftAlone(e) PROVE Skipped(e)
  BY <1>3 DEF Port!LeftAlone, Port!Handled, AtHand, Skipped, Port!Skip, Skip, Port!Consume,
     Consume, Port!transportVars, transportVars, Port!tableVars, tableVars, Port!slotVars,
     slotVars
<1>4. ASSUME NEW e, Port!Hangup(e) PROVE HungUp(e)
  <2>1. /\ AtHand(e) /\ e.who \in Dispatched /\ e.who \in Transports
        /\ Port!ReportHangup(e, e.who, Port!DetachLocked(e.who))
    BY <1>4, PortFd DEF Port!Hangup, Dispatched, Port!AtHand, AtHand, Port!Stranded,
       Port!IsFdChanged
  <2>2. TestsEdge
    BY DEF TestsEdge
  <2>3. DetachEffect(e.who)
    BY <2>1, PortOps DEF Port!ReportHangup, Dispatched
  <2>4. ReportHangup(e, e.who, DetachEffect(e.who))
    BY <2>1, <2>3 DEF Port!ReportHangup, ReportHangup, Port!Calls1, Calls1, Port!Consume,
       Consume
  <2>5. QED
    BY <2>1, <2>2, <2>4 DEF HungUp
<1>5. ASSUME NEW e, Port!RearmFails(e) PROVE HungUp(e)
  <2>1. /\ AtHand(e) /\ e.who \in Dispatched /\ e.who \in Transports
        /\ Port!ReportHangup(e, e.who, Port!DetachLocked(e.who))
    BY <1>5, PortRearms DEF Port!RearmFails, Dispatched
  <2>2. TestsEdge
    BY DEF TestsEdge
  <2>3. DetachEffect(e.who)
    BY <2>1, PortOps DEF Port!ReportHangup, Dispatched
  <2>4. ReportHangup(e, e.who, DetachEffect(e.who))
    BY <2>1, <2>3 DEF Port!ReportHangup, ReportHangup, Port!Calls1, Calls1, Port!Consume,
       Consume
  <2>5. QED
    BY <2>1, <2>2, <2>4 DEF HungUp
<1>6. ASSUME Port!Return PROVE Return
  BY <1>6 DEF Port!Return, Return, Port!transportVars, transportVars, Port!tableVars, tableVars,
     Port!slotVars, slotVars
<1>7. ASSUME Port!EndPoll PROVE EndPoll
  BY <1>7 DEF Port!EndPoll, EndPoll, Port!transportVars, transportVars, Port!slotVars, slotVars
<1>8. QED
  BY <1>1, <1>2, <1>3, <1>4, <1>5, <1>6, <1>7, PortUser DEF Shared, Port!Next

LEMMA PortNext ==
  ASSUME Inv, backend = "port", Port!Next
  PROVE  Inv'
BY PortShared, SharedKeepsInv, PortWait, PortHandle, PortAttachFails, PortRearm

----------------------------------------------------------------------------
(* The five pollers.                                                       *)

LEMMA InitInv ==
  ASSUME Init
  PROVE  Inv
<1>1. /\ backend \in Backends /\ backend \in AllBackends
      /\ fd = [t \in Transports |-> "open"] /\ attached = {} /\ detachedOnce = {}
      /\ flags = [t \in Transports |-> IF t \in Borrowed THEN UserBits ELSE {}]
      /\ open = TRUE /\ slots = <<>> /\ free = <<>> /\ slotOf = [t \in Transports |-> 0]
      /\ changed = {} /\ interest = [t \in Transports |-> {}]
      /\ watermark = -1 /\ moved = FALSE /\ since = {}
      /\ pc = "idle" /\ batch = {} /\ cur = {} /\ call = None
  BY BackendAssumption DEF Init, Poll!Init, Poll!PollerInit, Poll!TransportInit,
     Poll!UserBits,
     Select!Init, Select!PollerInit, Select!TransportInit, Select!UserBits,
     Kqueue!Init, Kqueue!PollerInit, Kqueue!TransportInit, Kqueue!UserBits,
     DevPoll!Init, DevPoll!PollerInit, DevPoll!TransportInit, DevPoll!UserBits,
     Port!Init, Port!PollerInit, Port!TransportInit, Port!UserBits, UserBits
<1>2. TableInv
  <2>1. slots \in Seq(Transports \cup {None}) /\ free \in Seq(Nat \ {0})
    BY <1>1
  <2>2. DOMAIN slots = {} /\ DOMAIN free = {}
    BY <1>1
  <2>3. TableTypes
    BY <1>1, <2>1 DEF TableTypes
  <2>4. QED
    BY <1>1, <2>2, <2>3 DEF TableInv, SlotsInv, WatermarkSound
<1>3. OpTypes
  BY <1>1 DEF OpTypes, UserBits, AllBits, Bits
<1>4. ThreadTypes
  BY <1>1 DEF ThreadTypes
<1>5. EntriesInv /\ InterestInv
  BY <1>1 DEF EntriesInv, InterestInv
<1>6. QED
  BY <1>2, <1>3, <1>4, <1>5 DEF Inv, Types

LEMMA StutterInv ==
  ASSUME Inv, UNCHANGED vars
  PROVE  Inv'
<1>1. UNCHANGED <<fd, attached, flags, detachedOnce, backend, open, slots, free, slotOf, changed,
                  interest, watermark, moved, since, pc, batch, cur, call>>
  BY DEF vars, transportVars, tableVars, slotVars, pollVars
<1>2. TableInv'
  BY <1>1 DEF Inv, TableInv, TableTypes, SlotsInv, HasSlots, WatermarkSound
<1>3. Types' /\ InterestInv'
  BY <1>1 DEF Inv, Types, OpTypes, ThreadTypes, InterestInv
<1>4. EntriesInv'
  BY <1>1 DEF Inv, EntriesInv, EntrySound, CurSound, FdChanged, Transport, HasSlots
<1>5. QED
  BY <1>2, <1>3, <1>4 DEF Inv

\* The inductive invariant of all five.
THEOREM Invariance == Spec => []Inv
<1>1. Init => Inv
  BY InitInv
<1>2. Inv /\ [Next]_vars => Inv'
  BY PollNext, SelectNext, KqueueNext, DevPollNext, PortNext, StutterInv DEF Next
<1>3. QED
  BY <1>1, <1>2, PTL DEF Spec

\* Every variable keeps its type.
THEOREM TypesHold == Spec => []TypeOK
<1>1. Inv => TypeOK
  BY DEF Inv, TableInv, TableTypes, Types, OpTypes, ThreadTypes, TypeOK, AllBits, Asks
<1>2. QED
  BY <1>1, Invariance, PTL

\* However attaches, detaches, failed attaches, closes and the reuse of descriptors
\* are mixed with a dispatch, the table of every poller is sound: what
\* amio-posix.h:227 promises of its internal structures.
THEOREM TablesAreSound == Spec => []TableSound
<1>1. Inv => TableSound
  BY SlotsCounted DEF Inv, TableInv, TableSound
<1>2. QED
  BY <1>1, Invariance, PTL

\* An entry that isFdChanged() lets pass is about the registration that was
\* reported.
THEOREM EntriesAreCurrent == Spec => []EntriesCurrent
<1>1. Inv => EntriesCurrent
  BY DEF Inv, EntriesInv, EntrySound, EntriesCurrent
<1>2. QED
  BY <1>1, Invariance, PTL

----------------------------------------------------------------------------
(* What the system is asked for, and what flags_ says.                     *)

\* With poll(), select(), kqueue and /dev/poll, also while a report is handled: of
\* transports that were never detached, and with kqueue of all.  What is not
\* attached has no bits, so that attaching it sets those asked for.
BitsAgree(t) ==
  /\ interest[t] = flags[t] \cap EventBits
  /\ t \notin attached => flags[t] \cap EventBits = {}

\* A transport that was detached may have old bits in flags_, but is not asked for
\* what they do not say.
Outdated(t) ==
  backend # "kqueue" /\ t \in detachedOnce /\ interest[t] \subseteq flags[t] \cap EventBits

\* A port's transport is associated with events that flags_ knows of, or its
\* listener is being called and will have it associated again, or an event that
\* flags_ asks for is yet to be handled.
Awaited(t) ==
  /\ "Associated" \in interest[t]
  /\ interest[t] \cap EventBits \subseteq flags[t]
Unmoved(e, t) == e.who = t /\ e.slot = slotOf[t] /\ e.slot \notin changed
Returning(t) == "Armed" \notin flags[t] /\ \E e \in cur : Unmoved(e, t)
Queued(t) ==
  \E e \in batch : /\ Unmoved(e, t)
                   /\ \A c \in e.ev \cap {"in", "out"} : Bit(c) \in flags[t]

PortAgrees ==
  /\ \A t \in attached : fd[t] = "open"
  /\ pc = "idle" => \A t \in attached : Awaited(t)
  /\ pc \in {"dispatch", "call"} =>
       /\ \A t \in attached : Awaited(t) \/ Returning(t) \/ Queued(t)
       /\ (\A e \in batch : e.ev # {}) /\ \A e \in cur : e.ev = {}

AgreeInv ==
  open => IF backend = "port" THEN PortAgrees
          ELSE \A t \in Transports :
                 BitsAgree(t) \/ Outdated(t)

LEMMA InitAgrees ==
  ASSUME Init
  PROVE  AgreeInv
<1>1. /\ fd = [t \in Transports |-> "open"] /\ attached = {}
      /\ flags = [t \in Transports |-> IF t \in Borrowed THEN UserBits ELSE {}]
      /\ interest = [t \in Transports |-> {}] /\ pc = "idle"
  BY DEF Init, Poll!Init, Poll!PollerInit, Poll!TransportInit, Poll!UserBits,
     Select!Init, Select!PollerInit, Select!TransportInit, Select!UserBits,
     Kqueue!Init, Kqueue!PollerInit, Kqueue!TransportInit, Kqueue!UserBits,
     DevPoll!Init, DevPoll!PollerInit, DevPoll!TransportInit, DevPoll!UserBits,
     Port!Init, Port!PollerInit, Port!TransportInit, Port!UserBits, UserBits
<1>2. \A t \in Transports : BitsAgree(t)
  BY <1>1 DEF BitsAgree, UserBits, EventBits
<1>3. PortAgrees
  BY <1>1 DEF PortAgrees
<1>4. QED
  BY <1>2, <1>3 DEF AgreeInv

\* Nothing happens to the bits.
LEMMA BitsKept ==
  ASSUME AgreeInv, backend # "port", UNCHANGED <<interest, flags, attached, detachedOnce, backend>>,
         open' => open
  PROVE  AgreeInv'
BY DEF AgreeInv, BitsAgree, Outdated

\* What happens to one transport, which agrees afterwards.
LEMMA BitsSet ==
  ASSUME AgreeInv, backend # "port", open, NEW t \in Transports,
         \A u \in Transports \ {t} :
           /\ interest'[u] = interest[u] /\ flags'[u] = flags[u]
           /\ u \in attached' <=> u \in attached
           /\ u \in detachedOnce => u \in detachedOnce',
         BitsAgree(t)' \/ Outdated(t)',
         backend' = backend
  PROVE  AgreeInv'
BY DEF AgreeInv, BitsAgree, Outdated

LEMMA PollDetachAgrees ==
  ASSUME Inv, AgreeInv, backend = "poll", open, NEW t \in Transports, t \in attached,
         Poll!DetachLocked(t), backend' = backend
  PROVE  AgreeInv'
<1>0. /\ flags \in [Transports -> SUBSET AllBits] /\ interest \in [Transports -> SUBSET Asks]
      /\ attached \subseteq Transports
  BY DEF Inv, Types, OpTypes, TableInv, TableTypes
<1>1. /\ attached' = attached \ {t} /\ detachedOnce' = detachedOnce \cup {t}
      /\ flags' = [u \in Transports |-> IF u \in {t} THEN flags[u] \ Poll!UserBits ELSE flags[u]]
      /\ interest' = [interest EXCEPT ![t] = {}]
  BY DEF Poll!DetachLocked, Poll!TransportDetach
<1>2. BitsAgree(t)' \/ Outdated(t)'
  BY <1>0, <1>1 DEF AgreeInv, BitsAgree, Outdated, Poll!EventBits, Poll!UserBits, EventBits, Asks,
     UserBits
<1>3. QED
  BY <1>0, <1>1, <1>2, BitsSet

LEMMA PollUserAgrees ==
  ASSUME Inv, AgreeInv, backend = "poll",
         Poll!UserSteps(Poll!AttachLocked, Poll!DetachLocked, Poll!ChangeLocked)
  PROVE  AgreeInv'
<1>0. /\ flags \in [Transports -> SUBSET AllBits] /\ interest \in [Transports -> SUBSET Asks]
      /\ attached \subseteq Transports
  BY DEF Inv, Types, OpTypes, TableInv, TableTypes
<1>1. ASSUME NEW t \in Transports, NEW events \in UsedEvents[t], NEW mode \in UsedModes[t],
             Poll!Attach(t, mode, Poll!AttachLocked(t, events \cup Poll!ModeFlags(mode)))
      PROVE  AgreeInv'
  <2> DEFINE bits == events \cup Poll!ModeFlags(mode)
  <2>1. /\ open /\ t \notin attached /\ attached' = attached \cup {t} /\ backend' = backend
        /\ detachedOnce' = detachedOnce
        /\ flags' = [flags EXCEPT ![t] = @ \cup bits]
        /\ interest' = [interest EXCEPT ![t] = bits \cap EventBits]
    BY <1>1 DEF Poll!Attach, Poll!UserMay, Poll!AttachRefused, Poll!AttachLocked,
       Poll!TransportAttach, Poll!EventBits, EventBits
  <2>2. BitsAgree(t)' \/ Outdated(t)'
    BY <1>0, <2>1 DEF AgreeInv, BitsAgree, Outdated, Poll!EventBits, EventBits, Asks
  <2>3. QED
    BY <1>0, <2>1, <2>2, BitsSet
<1>2. ASSUME NEW t \in Transports, NEW events \in UsedEvents[t],
             NEW bits \in {events, flags[t] \cup events, flags[t] \ events},
             Poll!ChangeTo(t, bits, Poll!ChangeLocked(t, bits))
      PROVE  AgreeInv'
  <2>1. /\ open /\ t \in attached
        /\ UNCHANGED <<attached, detachedOnce, backend>>
        /\ interest' = [interest EXCEPT ![t] = bits \cap EventBits]
        /\ flags' = [flags EXCEPT ![t] = (@ \ EventBits) \cup bits]
    BY <1>2 DEF Poll!ChangeTo, Poll!UserMay, Poll!ChangeRefused, Poll!ChangeLocked,
       Poll!EventBits, EventBits
  <2>2. BitsAgree(t)' \/ Outdated(t)'
    BY <1>0, <2>1 DEF AgreeInv, BitsAgree, Outdated, Poll!EventBits, EventBits, Asks
  <2>3. QED
    BY <1>0, <2>1, <2>2, BitsSet
<1>3. ASSUME NEW t \in Transports, t \in attached, open, Poll!DetachLocked(t), backend' = backend
      PROVE  AgreeInv'
  BY <1>0, <1>3, PollDetachAgrees
<1>4. ASSUME NEW t \in Transports, Poll!Detach(t, Poll!DetachLocked(t)) PROVE AgreeInv'
  BY <1>3, <1>4 DEF Poll!Detach, Poll!UserMay
<1>5. ASSUME NEW t \in Transports, Poll!Close(t, Poll!DetachLocked(t)) PROVE AgreeInv'
  <2>1. open /\ backend' = backend /\ open' = open
    BY <1>5 DEF Poll!Close, Poll!UserMay
  <2>2. CASE t \in attached
    BY <1>3, <1>5, <2>1, <2>2 DEF Poll!Close
  <2>3. CASE t \notin attached
    BY <1>5, <2>1, <2>3, BitsKept DEF Poll!Close, Poll!tableVars
  <2>4. QED
    BY <2>2, <2>3
<1>6. ASSUME NEW t \in Transports, Poll!Create(t) PROVE AgreeInv'
  <2>1. /\ open /\ attached' = attached /\ backend' = backend
        /\ flags' = [flags EXCEPT ![t] = {}] /\ interest' = [interest EXCEPT ![t] = {}]
        /\ detachedOnce' = detachedOnce \ {t}
    BY <1>6 DEF Poll!Create, Poll!UserMay
  <2>2. BitsAgree(t)'
    BY <1>0, <2>1 DEF BitsAgree
  <2>3. QED
    BY <1>0, <2>1, <2>2, BitsSet
<1>7. ASSUME Poll!Shutdown PROVE AgreeInv'
  BY <1>7 DEF Poll!Shutdown, AgreeInv
<1>8. QED
  BY <1>1, <1>2, <1>4, <1>5, <1>6, <1>7 DEF Poll!UserSteps

LEMMA SelectDetachAgrees ==
  ASSUME Inv, AgreeInv, backend = "select", open, NEW t \in Transports, t \in attached,
         Select!DetachLocked(t), backend' = backend
  PROVE  AgreeInv'
<1>0. /\ flags \in [Transports -> SUBSET AllBits] /\ interest \in [Transports -> SUBSET Asks]
      /\ attached \subseteq Transports
  BY DEF Inv, Types, OpTypes, TableInv, TableTypes
<1>1. /\ attached' = attached \ {t} /\ detachedOnce' = detachedOnce \cup {t}
      /\ flags' = [u \in Transports |-> IF u \in {t} THEN flags[u] \ Select!UserBits ELSE flags[u]]
      /\ interest' = [interest EXCEPT ![t] = {}]
  BY DEF Select!DetachLocked, Select!TransportDetach
<1>2. BitsAgree(t)' \/ Outdated(t)'
  BY <1>0, <1>1 DEF AgreeInv, BitsAgree, Outdated, Select!EventBits, Select!UserBits, EventBits, Asks,
     UserBits
<1>3. QED
  BY <1>0, <1>1, <1>2, BitsSet

LEMMA SelectUserAgrees ==
  ASSUME Inv, AgreeInv, backend = "select",
         Select!UserSteps(Select!AttachLocked, Select!DetachLocked, Select!ChangeLocked)
  PROVE  AgreeInv'
<1>0. /\ flags \in [Transports -> SUBSET AllBits] /\ interest \in [Transports -> SUBSET Asks]
      /\ attached \subseteq Transports
  BY DEF Inv, Types, OpTypes, TableInv, TableTypes
<1>1. ASSUME NEW t \in Transports, NEW events \in UsedEvents[t], NEW mode \in UsedModes[t],
             Select!Attach(t, mode, Select!AttachLocked(t, events \cup Select!ModeFlags(mode)))
      PROVE  AgreeInv'
  <2> DEFINE bits == events \cup Select!ModeFlags(mode)
  <2>1. /\ open /\ t \notin attached /\ attached' = attached \cup {t} /\ backend' = backend
        /\ detachedOnce' = detachedOnce
        /\ flags' = [flags EXCEPT ![t] = @ \cup bits]
        /\ interest' = [interest EXCEPT ![t] = bits \cap EventBits]
    BY <1>1 DEF Select!Attach, Select!UserMay, Select!AttachRefused, Select!AttachLocked,
       Select!TransportAttach, Select!EventBits, EventBits
  <2>2. BitsAgree(t)' \/ Outdated(t)'
    BY <1>0, <2>1 DEF AgreeInv, BitsAgree, Outdated, Select!EventBits, EventBits, Asks
  <2>3. QED
    BY <1>0, <2>1, <2>2, BitsSet
<1>2. ASSUME NEW t \in Transports, NEW events \in UsedEvents[t],
             NEW bits \in {events, flags[t] \cup events, flags[t] \ events},
             Select!ChangeTo(t, bits, Select!ChangeLocked(t, bits))
      PROVE  AgreeInv'
  <2>1. /\ open /\ t \in attached
        /\ UNCHANGED <<attached, detachedOnce, backend>>
        /\ interest' = [interest EXCEPT ![t] = bits \cap EventBits]
        /\ flags' = [flags EXCEPT ![t] = (@ \ EventBits) \cup bits]
    BY <1>2 DEF Select!ChangeTo, Select!UserMay, Select!ChangeRefused, Select!ChangeLocked,
       Select!EventBits, EventBits
  <2>2. BitsAgree(t)' \/ Outdated(t)'
    BY <1>0, <2>1 DEF AgreeInv, BitsAgree, Outdated, Select!EventBits, EventBits, Asks
  <2>3. QED
    BY <1>0, <2>1, <2>2, BitsSet
<1>3. ASSUME NEW t \in Transports, t \in attached, open, Select!DetachLocked(t), backend' = backend
      PROVE  AgreeInv'
  BY <1>0, <1>3, SelectDetachAgrees
<1>4. ASSUME NEW t \in Transports, Select!Detach(t, Select!DetachLocked(t)) PROVE AgreeInv'
  BY <1>3, <1>4 DEF Select!Detach, Select!UserMay
<1>5. ASSUME NEW t \in Transports, Select!Close(t, Select!DetachLocked(t)) PROVE AgreeInv'
  <2>1. open /\ backend' = backend /\ open' = open
    BY <1>5 DEF Select!Close, Select!UserMay
  <2>2. CASE t \in attached
    BY <1>3, <1>5, <2>1, <2>2 DEF Select!Close
  <2>3. CASE t \notin attached
    BY <1>5, <2>1, <2>3, BitsKept DEF Select!Close, Select!tableVars
  <2>4. QED
    BY <2>2, <2>3
<1>6. ASSUME NEW t \in Transports, Select!Create(t) PROVE AgreeInv'
  <2>1. /\ open /\ attached' = attached /\ backend' = backend
        /\ flags' = [flags EXCEPT ![t] = {}] /\ interest' = [interest EXCEPT ![t] = {}]
        /\ detachedOnce' = detachedOnce \ {t}
    BY <1>6 DEF Select!Create, Select!UserMay
  <2>2. BitsAgree(t)'
    BY <1>0, <2>1 DEF BitsAgree
  <2>3. QED
    BY <1>0, <2>1, <2>2, BitsSet
<1>7. ASSUME Select!Shutdown PROVE AgreeInv'
  BY <1>7 DEF Select!Shutdown, AgreeInv
<1>8. QED
  BY <1>1, <1>2, <1>4, <1>5, <1>6, <1>7 DEF Select!UserSteps

LEMMA KqueueDetachAgrees ==
  ASSUME Inv, AgreeInv, backend = "kqueue", open, NEW t \in Transports, t \in attached,
         Kqueue!DetachLocked(t), backend' = backend
  PROVE  AgreeInv'
<1>0. /\ flags \in [Transports -> SUBSET AllBits] /\ interest \in [Transports -> SUBSET Asks]
      /\ attached \subseteq Transports
  BY DEF Inv, Types, OpTypes, TableInv, TableTypes
<1>1. /\ attached' = attached \ {t} /\ detachedOnce' = detachedOnce \cup {t}
      /\ flags' = [flags EXCEPT ![t] = Kqueue!WithoutEvents(t) \ Kqueue!UserBits]
      /\ interest' = [interest EXCEPT ![t] = Kqueue!Filters(t, {})]
  BY DEF Kqueue!DetachLocked, Kqueue!TransportDetach
<1>2. BitsAgree(t)' \/ Outdated(t)'
  BY <1>0, <1>1 DEF AgreeInv, BitsAgree, Outdated, Kqueue!Filters, Kqueue!Differs,
     Kqueue!WithoutEvents, Kqueue!EventBits, Kqueue!UserBits, EventBits, Asks, UserBits
<1>3. QED
  BY <1>0, <1>1, <1>2, BitsSet

LEMMA KqueueUserAgrees ==
  ASSUME Inv, AgreeInv, backend = "kqueue",
         Kqueue!UserSteps(Kqueue!AttachLocked, Kqueue!DetachLocked, Kqueue!ChangeLocked)
  PROVE  AgreeInv'
<1>0. /\ flags \in [Transports -> SUBSET AllBits] /\ interest \in [Transports -> SUBSET Asks]
      /\ attached \subseteq Transports
  BY DEF Inv, Types, OpTypes, TableInv, TableTypes
<1>1. ASSUME NEW t \in Transports, NEW events \in UsedEvents[t], NEW mode \in UsedModes[t],
             Kqueue!Attach(t, mode, Kqueue!AttachLocked(t, events \cup Kqueue!ModeFlags(mode)))
      PROVE  AgreeInv'
  <2> DEFINE bits == events \cup Kqueue!ModeFlags(mode)
  <2>1. /\ open /\ t \notin attached /\ attached' = attached \cup {t} /\ backend' = backend
        /\ detachedOnce' = detachedOnce
        /\ flags' = [flags EXCEPT ![t] = (@ \ EventBits) \cup bits]
        /\ interest' = [interest EXCEPT ![t] = Kqueue!Filters(t, bits)]
    BY <1>1 DEF Kqueue!Attach, Kqueue!UserMay, Kqueue!AttachRefused, Kqueue!AttachLocked,
       Kqueue!EventBits, EventBits
  <2>2. BitsAgree(t)' \/ Outdated(t)'
    BY <1>0, <2>1 DEF AgreeInv, BitsAgree, Outdated, Kqueue!Filters, Kqueue!Differs,
       Kqueue!WithoutEvents, Kqueue!EventBits, EventBits, Asks
  <2>3. QED
    BY <1>0, <2>1, <2>2, BitsSet
<1>2. ASSUME NEW t \in Transports, NEW events \in UsedEvents[t],
             NEW bits \in {events, flags[t] \cup events, flags[t] \ events},
             Kqueue!ChangeTo(t, bits, Kqueue!ChangeLocked(t, bits))
      PROVE  AgreeInv'
  <2>1. /\ open /\ t \in attached
        /\ UNCHANGED <<attached, detachedOnce, backend>>
        /\ interest' = [interest EXCEPT ![t] = Kqueue!Filters(t, bits)]
        /\ flags' = [flags EXCEPT ![t] = (@ \ EventBits) \cup bits]
    BY <1>2 DEF Kqueue!ChangeTo, Kqueue!UserMay, Kqueue!ChangeRefused, Kqueue!ChangeLocked,
       Kqueue!EventBits, EventBits
  <2>2. BitsAgree(t)' \/ Outdated(t)'
    BY <1>0, <2>1 DEF AgreeInv, BitsAgree, Outdated, Kqueue!Filters, Kqueue!Differs,
       Kqueue!WithoutEvents, Kqueue!EventBits, EventBits, Asks
  <2>3. QED
    BY <1>0, <2>1, <2>2, BitsSet
<1>3. ASSUME NEW t \in Transports, t \in attached, open, Kqueue!DetachLocked(t), backend' = backend
      PROVE  AgreeInv'
  BY <1>0, <1>3, KqueueDetachAgrees
<1>4. ASSUME NEW t \in Transports, Kqueue!Detach(t, Kqueue!DetachLocked(t)) PROVE AgreeInv'
  BY <1>3, <1>4 DEF Kqueue!Detach, Kqueue!UserMay
<1>5. ASSUME NEW t \in Transports, Kqueue!Close(t, Kqueue!DetachLocked(t)) PROVE AgreeInv'
  <2>1. open /\ backend' = backend /\ open' = open
    BY <1>5 DEF Kqueue!Close, Kqueue!UserMay
  <2>2. CASE t \in attached
    BY <1>3, <1>5, <2>1, <2>2 DEF Kqueue!Close
  <2>3. CASE t \notin attached
    BY <1>5, <2>1, <2>3, BitsKept DEF Kqueue!Close, Kqueue!tableVars
  <2>4. QED
    BY <2>2, <2>3
<1>6. ASSUME NEW t \in Transports, Kqueue!Create(t) PROVE AgreeInv'
  <2>1. /\ open /\ attached' = attached /\ backend' = backend
        /\ flags' = [flags EXCEPT ![t] = {}] /\ interest' = [interest EXCEPT ![t] = {}]
        /\ detachedOnce' = detachedOnce \ {t}
    BY <1>6 DEF Kqueue!Create, Kqueue!UserMay
  <2>2. BitsAgree(t)'
    BY <1>0, <2>1 DEF BitsAgree
  <2>3. QED
    BY <1>0, <2>1, <2>2, BitsSet
<1>7. ASSUME Kqueue!Shutdown PROVE AgreeInv'
  BY <1>7 DEF Kqueue!Shutdown, AgreeInv
<1>8. QED
  BY <1>1, <1>2, <1>4, <1>5, <1>6, <1>7 DEF Kqueue!UserSteps

LEMMA DevPollDetachAgrees ==
  ASSUME Inv, AgreeInv, backend = "devpoll", open, NEW t \in Transports, t \in attached,
         DevPoll!DetachLocked(t), backend' = backend
  PROVE  AgreeInv'
<1>0. /\ flags \in [Transports -> SUBSET AllBits] /\ interest \in [Transports -> SUBSET Asks]
      /\ attached \subseteq Transports
  BY DEF Inv, Types, OpTypes, TableInv, TableTypes
<1>1. /\ attached' = attached \ {t} /\ detachedOnce' = detachedOnce \cup {t}
      /\ flags' = [u \in Transports |-> IF u \in {t} THEN flags[u] \ DevPoll!UserBits ELSE flags[u]]
      /\ interest' = [interest EXCEPT ![t] = {}]
  BY DEF DevPoll!DetachLocked, DevPoll!TransportDetach
<1>2. BitsAgree(t)' \/ Outdated(t)'
  BY <1>0, <1>1 DEF AgreeInv, BitsAgree, Outdated, DevPoll!SetEvents, DevPoll!EventBits,
     DevPoll!UserBits, EventBits, Asks, UserBits
<1>3. QED
  BY <1>0, <1>1, <1>2, BitsSet

LEMMA DevPollUserAgrees ==
  ASSUME Inv, AgreeInv, backend = "devpoll",
         DevPoll!UserSteps(DevPoll!AttachLocked, DevPoll!DetachLocked, DevPoll!ChangeLocked)
  PROVE  AgreeInv'
<1>0. /\ flags \in [Transports -> SUBSET AllBits] /\ interest \in [Transports -> SUBSET Asks]
      /\ attached \subseteq Transports
  BY DEF Inv, Types, OpTypes, TableInv, TableTypes
<1>1. ASSUME NEW t \in Transports, NEW events \in UsedEvents[t], NEW mode \in UsedModes[t],
             DevPoll!Attach(t, mode, DevPoll!AttachLocked(t,
             events \cup DevPoll!ModeFlags(mode)))
      PROVE  AgreeInv'
  <2> DEFINE bits == events \cup DevPoll!ModeFlags(mode)
  <2>1. /\ open /\ t \notin attached /\ attached' = attached \cup {t} /\ backend' = backend
        /\ detachedOnce' = detachedOnce
        /\ flags' = [flags EXCEPT ![t] = @ \cup bits]
        /\ interest' = [interest EXCEPT ![t] =
                          IF bits \cap EventBits = {} THEN @ ELSE bits \cap EventBits]
    BY <1>1 DEF DevPoll!Attach, DevPoll!UserMay, DevPoll!AttachRefused, DevPoll!AttachLocked,
       DevPoll!TransportAttach, DevPoll!EventBits, EventBits
  <2>2. BitsAgree(t)' \/ Outdated(t)'
    BY <1>0, <2>1 DEF AgreeInv, BitsAgree, Outdated, DevPoll!SetEvents, DevPoll!EventBits, EventBits, Asks
  <2>3. QED
    BY <1>0, <2>1, <2>2, BitsSet
<1>2. ASSUME NEW t \in Transports, NEW events \in UsedEvents[t],
             NEW bits \in {events, flags[t] \cup events, flags[t] \ events},
             DevPoll!ChangeTo(t, bits, DevPoll!ChangeLocked(t, bits))
      PROVE  AgreeInv'
  <2>1. /\ open /\ t \in attached
        /\ UNCHANGED <<attached, detachedOnce, backend>>
        /\ interest' = [interest EXCEPT ![t] = bits \cap EventBits]
        /\ flags' = [flags EXCEPT ![t] = (@ \ EventBits) \cup bits]
    BY <1>2 DEF DevPoll!ChangeTo, DevPoll!UserMay, DevPoll!ChangeRefused,
       DevPoll!ChangeLocked, DevPoll!EventBits, EventBits, DevPoll!SetEvents
  <2>2. BitsAgree(t)' \/ Outdated(t)'
    BY <1>0, <2>1 DEF AgreeInv, BitsAgree, Outdated, DevPoll!SetEvents, DevPoll!EventBits, EventBits, Asks
  <2>3. QED
    BY <1>0, <2>1, <2>2, BitsSet
<1>3. ASSUME NEW t \in Transports, t \in attached, open, DevPoll!DetachLocked(t), backend' = backend
      PROVE  AgreeInv'
  BY <1>0, <1>3, DevPollDetachAgrees
<1>4. ASSUME NEW t \in Transports, DevPoll!Detach(t, DevPoll!DetachLocked(t)) PROVE AgreeInv'
  BY <1>3, <1>4 DEF DevPoll!Detach, DevPoll!UserMay
<1>5. ASSUME NEW t \in Transports, DevPoll!Close(t, DevPoll!DetachLocked(t)) PROVE AgreeInv'
  <2>1. open /\ backend' = backend /\ open' = open
    BY <1>5 DEF DevPoll!Close, DevPoll!UserMay
  <2>2. CASE t \in attached
    BY <1>3, <1>5, <2>1, <2>2 DEF DevPoll!Close
  <2>3. CASE t \notin attached
    BY <1>5, <2>1, <2>3, BitsKept DEF DevPoll!Close, DevPoll!tableVars
  <2>4. QED
    BY <2>2, <2>3
<1>6. ASSUME NEW t \in Transports, DevPoll!Create(t) PROVE AgreeInv'
  <2>1. /\ open /\ attached' = attached /\ backend' = backend
        /\ flags' = [flags EXCEPT ![t] = {}] /\ interest' = [interest EXCEPT ![t] = {}]
        /\ detachedOnce' = detachedOnce \ {t}
    BY <1>6 DEF DevPoll!Create, DevPoll!UserMay
  <2>2. BitsAgree(t)'
    BY <1>0, <2>1 DEF BitsAgree
  <2>3. QED
    BY <1>0, <2>1, <2>2, BitsSet
<1>7. ASSUME DevPoll!Shutdown PROVE AgreeInv'
  BY <1>7 DEF DevPoll!Shutdown, AgreeInv
<1>8. QED
  BY <1>1, <1>2, <1>4, <1>5, <1>6, <1>7 DEF DevPoll!UserSteps

LEMMA PollDisarmAgrees ==
  ASSUME Inv, AgreeInv, backend = "poll", open, NEW t \in Transports, NEW bit \in EventBits,
         Poll!Disarm(t, bit), UNCHANGED <<attached, detachedOnce, backend, open>>
  PROVE  AgreeInv'
<1>0. /\ flags \in [Transports -> SUBSET AllBits] /\ interest \in [Transports -> SUBSET Asks]
  BY DEF Inv, Types, OpTypes
<1>1. /\ interest' = [interest EXCEPT ![t] = @ \ {bit}]
      /\ flags' = [flags EXCEPT ![t] = @ \ {bit}]
  BY DEF Poll!Disarm
<1>2. /\ BitsAgree(t) => BitsAgree(t)'
      /\ Outdated(t) => Outdated(t)'
  BY <1>0, <1>1 DEF BitsAgree, Outdated
<1>3. BitsAgree(t)' \/ Outdated(t)'
  BY <1>2 DEF AgreeInv
<1>4. QED
  BY <1>0, <1>1, <1>3, BitsSet

LEMMA PollNextAgrees ==
  ASSUME Inv, AgreeInv, backend = "poll", Poll!Next
  PROVE  AgreeInv'
<1>0. /\ flags \in [Transports -> SUBSET AllBits] /\ interest \in [Transports -> SUBSET Asks]
      /\ attached \subseteq Transports
  BY DEF Inv, Types, OpTypes, TableInv, TableTypes
<1>1. ASSUME NEW e, Poll!Undefined(e) \/ Poll!PassOver(e) PROVE AgreeInv'
  BY <1>1, BitsKept DEF Poll!Undefined, Poll!PassOver, Poll!Fails, Poll!Skip,
     Poll!transportVars, Poll!tableVars
<1>2. ASSUME NEW e, Poll!Hangup(e) PROVE AgreeInv'
  BY <1>2, PollFd, PollDetachAgrees, CurIsSound DEF Poll!Hangup, Poll!ReportHangup, AtHand,
     Entries
<1>3. ASSUME NEW e, Poll!HandleEvent(e) PROVE AgreeInv'
  <2> DEFINE t == Poll!Fd(e)
             bit == Poll!Bit(Poll!Next1(e))
  <2>1. /\ t \in Transports /\ t \in attached /\ open
    BY <1>3, PollFd, CurIsSound DEF Poll!HandleEvent, AtHand, Entries
  <2>2. /\ bit \in EventBits
        /\ UNCHANGED <<interest, flags>> \/ Poll!Disarm(t, bit)
        /\ UNCHANGED <<attached, detachedOnce, backend, open>>
    BY <1>3 DEF Poll!HandleEvent, Poll!Bit, EventBits
  <2> HIDE DEF t, bit
  <2>3. QED
    BY <2>1, <2>2, BitsKept, PollDisarmAgrees
<1>4. ASSUME Poll!Return \/ Poll!EndPoll \/ Poll!Wait PROVE AgreeInv'
  BY <1>4, BitsKept DEF Poll!Return, Poll!EndPoll, Poll!Wait, Poll!transportVars, Poll!tableVars
<1>5. QED
  BY <1>1, <1>2, <1>3, <1>4, PollUserAgrees DEF Poll!Next

LEMMA SelectNextAgrees ==
  ASSUME Inv, AgreeInv, backend = "select", Select!Next
  PROVE  AgreeInv'
<1>0. /\ flags \in [Transports -> SUBSET AllBits] /\ interest \in [Transports -> SUBSET Asks]
      /\ attached \subseteq Transports
  BY DEF Inv, Types, OpTypes, TableInv, TableTypes
<1>1. ASSUME NEW e, Select!PassOver(e) PROVE AgreeInv'
  BY <1>1, BitsKept DEF Select!PassOver, Select!Skip, Select!transportVars, Select!tableVars
<1>2. ASSUME NEW e, Select!HandleEvent(e) PROVE AgreeInv'
  <2> DEFINE t == e.slot
             bit == Select!Bit(Select!NextOf(e))
  <2>1. /\ bit \in EventBits
        /\ UNCHANGED <<interest, flags>> \/ Select!Disarm(t, bit)
        /\ UNCHANGED <<attached, detachedOnce, backend, open>>
    BY <1>2 DEF Select!HandleEvent, Select!Bit, EventBits
  <2>2. open /\ t \in Transports
    BY <1>0, <1>2, CurIsSound DEF Select!HandleEvent, Select!First, Select!AtHand,
       Select!IsFdChanged,
       EntrySound, FdChanged, Transport, HasSlots
  <2>3. CASE Select!Disarm(t, bit)
    <3>1. BitsAgree(t)' \/ Outdated(t)'
      BY <1>0, <2>1, <2>2, <2>3 DEF AgreeInv, BitsAgree, Outdated, Select!Disarm
    <3>2. \A u \in Transports \ {t} : interest'[u] = interest[u] /\ flags'[u] = flags[u]
      BY <1>0, <2>2, <2>3 DEF Select!Disarm
    <3>3. QED
      BY <2>1, <2>2, <3>1, <3>2, BitsSet
  <2>4. QED
    BY <2>1, <2>3, BitsKept
<1>3. ASSUME Select!Return \/ Select!EndPoll \/ Select!Wait \/ Select!WaitTimesOut PROVE AgreeInv'
  BY <1>3, BitsKept DEF Select!Return, Select!EndPoll, Select!Wait, Select!WaitTimesOut,
     Select!transportVars, Select!tableVars
<1>4. QED
  BY <1>1, <1>2, <1>3, SelectUserAgrees DEF Select!Next

LEMMA KqueueNextAgrees ==
  ASSUME Inv, AgreeInv, backend = "kqueue", Kqueue!Next
  PROVE  AgreeInv'
<1>0. /\ flags \in [Transports -> SUBSET AllBits] /\ interest \in [Transports -> SUBSET Asks]
      /\ attached \subseteq Transports
  BY DEF Inv, Types, OpTypes, TableInv, TableTypes
<1>1. ASSUME NEW e, Kqueue!PassOver(e) \/ Kqueue!HandleEvent(e) PROVE AgreeInv'
  BY <1>1, BitsKept DEF Kqueue!PassOver, Kqueue!Skip, Kqueue!HandleEvent,
     Kqueue!transportVars, Kqueue!tableVars
<1>2. ASSUME NEW e, Kqueue!Hangup(e) PROVE AgreeInv'
  BY <1>0, <1>2, KqueueDetachAgrees, CurIsSound DEF Kqueue!Hangup, Kqueue!ReportHangup,
     Kqueue!Null, Kqueue!AtHand
<1>3. ASSUME NEW t \in Transports, NEW mode, Kqueue!AttachFails(t, mode) PROVE AgreeInv'
  <2>1. /\ open /\ t \notin attached
        /\ flags' = [flags EXCEPT ![t] = (flags[t] \ EventBits) \ Kqueue!UserBits]
        /\ UNCHANGED <<interest, attached, backend, open>>
        /\ detachedOnce' = detachedOnce \cup {t}
    BY <1>3 DEF Kqueue!AttachFails, Kqueue!UserMay, Kqueue!AttachRefused,
       Kqueue!WithoutEvents, Kqueue!EventBits, EventBits
  <2>2. BitsAgree(t)'
    BY <1>0, <2>1 DEF AgreeInv, BitsAgree, Outdated, EventBits
  <2>3. QED
    BY <1>0, <2>1, <2>2, BitsSet
<1>4. ASSUME Kqueue!Return \/ Kqueue!EndPoll \/ Kqueue!Wait \/ Kqueue!WaitTimesOut PROVE AgreeInv'
  BY <1>4, BitsKept DEF Kqueue!Return, Kqueue!EndPoll, Kqueue!Wait, Kqueue!WaitTimesOut,
     Kqueue!transportVars, Kqueue!tableVars
<1>5. QED
  BY <1>1, <1>2, <1>3, <1>4, KqueueUserAgrees DEF Kqueue!Next

LEMMA DevPollSetAgrees ==
  ASSUME Inv, AgreeInv, backend = "devpoll", open, NEW t \in attached, NEW bits,
         DevPoll!SetEvents(t, bits), UNCHANGED <<attached, detachedOnce, backend, open>>
  PROVE  AgreeInv'
<1>0. /\ flags \in [Transports -> SUBSET AllBits] /\ interest \in [Transports -> SUBSET Asks]
      /\ attached \subseteq Transports
  BY DEF Inv, Types, OpTypes, TableInv, TableTypes
<1>1. /\ t \in Transports
      /\ interest' = [interest EXCEPT ![t] = bits \cap EventBits]
      /\ flags' = [flags EXCEPT ![t] = (@ \ EventBits) \cup bits]
  BY <1>0 DEF DevPoll!SetEvents, DevPoll!EventBits, EventBits
<1>2. BitsAgree(t)'
  BY <1>0, <1>1 DEF BitsAgree
<1>3. QED
  BY <1>0, <1>1, <1>2, BitsSet

LEMMA DevPollNextAgrees ==
  ASSUME Inv, AgreeInv, backend = "devpoll", DevPoll!Next
  PROVE  AgreeInv'
<1>0. /\ flags \in [Transports -> SUBSET AllBits] /\ interest \in [Transports -> SUBSET Asks]
      /\ attached \subseteq Transports
  BY DEF Inv, Types, OpTypes, TableInv, TableTypes
<1>1. ASSUME NEW e, DevPoll!PassOver(e) PROVE AgreeInv'
  BY <1>1, BitsKept DEF DevPoll!PassOver, DevPoll!Skip, DevPoll!transportVars, DevPoll!tableVars
<1>2. ASSUME NEW e, DevPoll!Hangup(e) \/ DevPoll!DisarmFails(e) PROVE AgreeInv'
  <2>1. DevPoll!Live(e) /\ DevPoll!DetachLocked(e.slot) /\ backend' = backend
    BY <1>2 DEF DevPoll!Hangup, DevPoll!DisarmFails, DevPoll!ReportHangup
  <2>2. QED
    BY <2>1, DevPollFd, DevPollDetachAgrees, CurIsSound
<1>3. ASSUME NEW e, DevPoll!HandleEvent(e) PROVE AgreeInv'
  <2> DEFINE t == e.slot
             bit == DevPoll!Bit(DevPoll!NextOf(e))
  <2>1. /\ UNCHANGED <<interest, flags>> \/ DevPoll!SetEvents(t, flags[t] \ {bit})
        /\ UNCHANGED <<attached, detachedOnce, backend, open>>
    BY <1>3 DEF DevPoll!HandleEvent, DevPoll!Disarmed
  <2>2. open /\ t \in attached
    BY <1>3, DevPollFd, CurIsSound DEF DevPoll!HandleEvent
  <2>3. QED
    BY <2>1, <2>2, BitsKept, DevPollSetAgrees
<1>4. ASSUME NEW t \in Transports, DevPoll!ChangeFails(t) PROVE AgreeInv'
  <2>1. /\ open /\ t \in attached /\ DevPoll!SetEvents(t, {})
        /\ UNCHANGED <<attached, detachedOnce, backend, open>>
    BY <1>4 DEF DevPoll!ChangeFails, DevPoll!UserMay, DevPoll!ChangeRefused
  <2>2. QED
    BY <2>1, DevPollSetAgrees
<1>5. ASSUME DevPoll!Return \/ DevPoll!EndPoll \/ DevPoll!Wait \/ DevPoll!WaitTimesOut
      PROVE  AgreeInv'
  BY <1>5, BitsKept DEF DevPoll!Return, DevPoll!EndPoll, DevPoll!Wait, DevPoll!WaitTimesOut,
     DevPoll!transportVars, DevPoll!tableVars
<1>6. QED
  BY <1>1, <1>2, <1>3, <1>4, <1>5, DevPollUserAgrees DEF DevPoll!Next

----------------------------------------------------------------------------
\* The slot that is used next is nobody's.
LEMMA NewSlotFree ==
  ASSUME TableTypes, SlotsInv
  PROVE  \A u \in attached : slotOf[u] # NewSlot
<1>1. CASE free = <<>>
  BY <1>1 DEF NewSlot, SlotsInv, TableTypes
<1>2. CASE free # <<>>
  <2>1. Len(free) \in DOMAIN free /\ NewSlot = free[Len(free)]
    BY <1>2 DEF NewSlot, Last, TableTypes
  <2>2. slots[NewSlot] = None
    BY <2>1 DEF SlotsInv
  <2>3. QED
    BY <2>2, NullAssumption DEF SlotsInv, TableTypes
<1>3. QED
  BY <1>1, <1>2

LEMMA PortFacts ==
  ASSUME Inv, backend = "port", open
  PROVE  /\ flags \in [Transports -> SUBSET AllBits] /\ interest \in [Transports -> SUBSET Asks]
         /\ attached \subseteq Transports /\ TableTypes /\ SlotsInv
         /\ fd \in [Transports -> {"open", "closed"}] /\ slotOf \in [Transports -> Nat]
BY DEF Inv, Types, OpTypes, ThreadTypes, TableInv, TableTypes, HasSlots

\* Users, and AttachFails(): one transport is associated again, or goes.
LEMMA PortOneAgrees ==
  ASSUME PortAgrees, NEW t, UNCHANGED pollVars,
         \A u \in attached' \ {t} :
           /\ u \in attached /\ fd'[u] = fd[u]
           /\ interest'[u] = interest[u] /\ flags'[u] = flags[u] /\ slotOf'[u] = slotOf[u]
           /\ slotOf[u] \in changed' => slotOf[u] \in changed,
         t \in attached' => Awaited(t)' /\ fd'[t] = "open"
  PROVE  PortAgrees'
<1>0. pc' = pc /\ batch' = batch /\ cur' = cur
  BY DEF pollVars
<1>1. \A u \in attached' : fd'[u] = "open"
  BY DEF PortAgrees
<1>2. ASSUME NEW u \in attached', u # t
      PROVE  /\ Awaited(u) => Awaited(u)'
             /\ Returning(u) => Returning(u)'
             /\ Queued(u) => Queued(u)'
  BY <1>0, <1>2 DEF Awaited, Returning, Queued, Unmoved
<1>3. pc' = "idle" => \A u \in attached' : Awaited(u)'
  BY <1>0, <1>2 DEF PortAgrees
<1>4. pc' \in {"dispatch", "call"} =>
        \A u \in attached' : Awaited(u)' \/ Returning(u)' \/ Queued(u)'
  BY <1>0, <1>2 DEF PortAgrees
<1>5. QED
  BY <1>0, <1>1, <1>3, <1>4 DEF PortAgrees

\* A transport that is associated is awaited.
LEMMA AssociatedIsAwaited ==
  ASSUME NEW t \in Transports, NEW bits, flags \in [Transports -> SUBSET AllBits],
         interest \in [Transports -> SUBSET Asks],
         interest' = [interest EXCEPT ![t] = (bits \cap EventBits) \cup {"Associated"}],
         bits \cap EventBits \subseteq flags'[t]
  PROVE  Awaited(t)'
BY DEF Awaited, EventBits

LEMMA PortDetachEffect ==
  ASSUME Inv, backend = "port", open, NEW t \in attached, Port!DetachLocked(t)
  PROVE  /\ attached' = attached \ {t}
         /\ \A u \in attached \ {t} :
              /\ interest'[u] = interest[u] /\ flags'[u] = flags[u] /\ slotOf'[u] = slotOf[u]
              /\ slotOf[u] \in changed' => slotOf[u] \in changed
<1>1. /\ attached' = attached \ {t} /\ slotOf' = slotOf
      /\ interest' = [interest EXCEPT ![t] = IF "Armed" \in flags[t] THEN {} ELSE @]
      /\ flags' = [u \in Transports |-> IF u \in {t} THEN flags[u] \ Port!UserBits ELSE flags[u]]
      /\ changed' = changed \cup {slotOf[t]}
  BY DEF Port!DetachLocked, Port!GiveSlotBack, Port!TransportDetach
<1>2. \A u \in attached \ {t} : slotOf[u] # slotOf[t]
  BY PortFacts DEF SlotsInv
<1>3. QED
  BY <1>1, <1>2, PortFacts

LEMMA PortUserAgrees ==
  ASSUME Inv, PortAgrees, backend = "port", open,
         \/ Port!UserSteps(Port!AttachLocked, Port!DetachLocked, Port!ChangeLocked)
         \/ \E t \in Transports : \E mode \in UsedModes[t] : Port!AttachFails(t, mode)
  PROVE  open' => PortAgrees'
<1>0. /\ flags \in [Transports -> SUBSET AllBits] /\ interest \in [Transports -> SUBSET Asks]
      /\ attached \subseteq Transports /\ slotOf \in [Transports -> Nat]
      /\ fd \in [Transports -> {"open", "closed"}]
      /\ \A u \in attached : slotOf[u] # NewSlot
  BY PortFacts, NewSlotFree
<1>1. ASSUME NEW t \in Transports, NEW events \in UsedEvents[t], NEW mode \in UsedModes[t],
             Port!Attach(t, mode, Port!AttachLocked(t, events \cup Port!ModeFlags(mode)))
      PROVE  PortAgrees'
  <2> DEFINE bits == events \cup Port!ModeFlags(mode)
  <2>1. /\ attached' = attached \cup {t} /\ fd' = fd /\ fd[t] = "open" /\ UNCHANGED pollVars
        /\ slotOf' = [slotOf EXCEPT ![t] = NewSlot] /\ changed' = changed \cup {NewSlot}
        /\ interest' = [interest EXCEPT ![t] = (bits \cap EventBits) \cup {"Associated"}]
        /\ flags' = [flags EXCEPT ![t] = @ \cup bits \cup {"Armed"}]
    BY <1>0, <1>1 DEF Port!Attach, Port!AttachRefused, Port!AttachLocked, Port!Associate,
       Port!TakeSlot, Port!NewSlot, Port!Last, Port!EventBits, Port!pollVars,
       NewSlot, Last, EventBits, pollVars
  <2>2. Awaited(t)'
    BY <1>0, <2>1, AssociatedIsAwaited
  <2>3. QED
    BY <1>0, <2>1, <2>2, PortOneAgrees
<1>2. ASSUME NEW t \in Transports, NEW bits, Port!ChangeTo(t, bits, Port!ChangeLocked(t, bits))
      PROVE  PortAgrees'
  <2>1. /\ UNCHANGED <<attached, fd, slotOf, changed>> /\ fd[t] = "open" /\ UNCHANGED pollVars
        /\ interest' = [interest EXCEPT ![t] = (bits \cap EventBits) \cup {"Associated"}]
        /\ flags' = [flags EXCEPT ![t] = @ \cup bits \cup {"Armed"}]
    BY <1>0, <1>2 DEF Port!ChangeTo, Port!ChangeRefused, Port!ChangeLocked, Port!Associate,
       Port!EventBits, Port!slotVars, Port!pollVars,
       EventBits, pollVars
  <2>2. Awaited(t)'
    BY <1>0, <2>1, AssociatedIsAwaited
  <2>3. QED
    BY <1>0, <2>1, <2>2, PortOneAgrees
<1>3. ASSUME NEW t \in Transports, Port!Detach(t, Port!DetachLocked(t)) PROVE PortAgrees'
  <2>1. t \in attached /\ Port!DetachLocked(t) /\ fd' = fd /\ UNCHANGED pollVars
    BY <1>3 DEF Port!Detach, Port!pollVars, pollVars
  <2>2. QED
    BY <2>1, PortDetachEffect, PortOneAgrees
<1>4. ASSUME NEW t \in Transports, Port!Close(t, Port!DetachLocked(t)) PROVE PortAgrees'
  <2>1. /\ \A u \in Transports \ {t} : fd'[u] = fd[u]
        /\ UNCHANGED pollVars
    BY <1>0, <1>4 DEF Port!Close, Port!pollVars, pollVars
  <2>2. CASE t \in attached
    <3>1. Port!DetachLocked(t)
      BY <1>4, <2>2 DEF Port!Close
    <3>2. QED
      BY <1>0, <2>1, <2>2, <3>1, PortDetachEffect, PortOneAgrees
  <2>3. CASE t \notin attached
    <3>1. UNCHANGED <<attached, flags, interest, slotOf, changed>>
      BY <1>4, <2>3 DEF Port!Close, Port!tableVars, Port!slotVars
    <3>2. QED
      BY <1>0, <2>1, <2>3, <3>1, PortOneAgrees
  <2>4. QED
    BY <2>2, <2>3
<1>5. ASSUME NEW t \in Transports, Port!Create(t) PROVE PortAgrees'
  <2>1. /\ fd[t] = "closed" /\ fd' = [fd EXCEPT ![t] = "open"]
        /\ flags' = [flags EXCEPT ![t] = {}] /\ interest' = [interest EXCEPT ![t] = {}]
        /\ UNCHANGED <<attached, slotOf, changed>> /\ UNCHANGED pollVars
    BY <1>5 DEF Port!Create, Port!slotVars, Port!pollVars, pollVars
  <2>2. t \notin attached
    BY <2>1 DEF PortAgrees
  <2>3. QED
    BY <1>0, <2>1, <2>2, PortOneAgrees
<1>6. ASSUME NEW t \in Transports, NEW mode, Port!AttachFails(t, mode) PROVE PortAgrees'
  <2>1. /\ t \notin attached /\ attached' = attached /\ fd' = fd /\ UNCHANGED pollVars
        /\ slotOf' = [slotOf EXCEPT ![t] = NewSlot] /\ changed' = changed \cup {NewSlot}
        /\ interest' = [interest EXCEPT ![t] = IF "Armed" \in flags[t] THEN {} ELSE @]
        /\ flags' = [flags EXCEPT ![t] = @ \ Port!UserBits]
    BY <1>6 DEF Port!AttachFails, Port!AttachRefused, Port!NewSlot, Port!Last, Port!pollVars,
       NewSlot, Last, pollVars
  <2>2. QED
    BY <1>0, <2>1, PortOneAgrees
<1>7. Port!Shutdown => ~open'
  BY DEF Port!Shutdown
<1>8. QED
  BY <1>1, <1>2, <1>3, <1>4, <1>5, <1>6, <1>7 DEF Port!UserSteps

\* An entry is gone, and nothing was left of another one: whoever it does not
\* speak for agrees as before.
LEMMA PortEntryGone ==
  ASSUME PortAgrees, pc = "dispatch", pc' \in {"dispatch", "call"}, NEW e, NEW t,
         batch' = batch \ {e}, cur' = {} \/ cur' = {[e EXCEPT !.ev = {}]},
         cur' # {} => [e EXCEPT !.ev = {}].ev = {},
         \A u \in attached : Returning(u) => u = t,
         \A u \in attached : u # t => ~Unmoved(e, u),
         \A u \in attached' \ {t} :
           /\ u \in attached /\ interest'[u] = interest[u] /\ flags'[u] = flags[u]
           /\ slotOf'[u] = slotOf[u]
           /\ slotOf[u] \in changed' => slotOf[u] \in changed,
         t \in attached' => t \in attached /\ (Awaited(t)' \/ Returning(t)' \/ Queued(t)'),
         fd' = fd
  PROVE  PortAgrees'
<1>1. \A u \in attached' : fd'[u] = "open"
  BY DEF PortAgrees
<1>2. ASSUME NEW u \in attached', u # t PROVE Awaited(u)' \/ Queued(u)'
  <2>1. /\ u \in attached /\ interest'[u] = interest[u] /\ flags'[u] = flags[u]
        /\ slotOf'[u] = slotOf[u]
        /\ slotOf[u] \in changed' => slotOf[u] \in changed
    BY <1>2
  <2>2. Awaited(u) => Awaited(u)'
    BY <2>1 DEF Awaited
  <2>3. Queued(u) => Queued(u)'
    BY <1>2, <2>1 DEF Queued, Unmoved
  <2>4. Awaited(u) \/ Queued(u)
    BY <1>2, <2>1 DEF PortAgrees
  <2>5. QED
    BY <2>2, <2>3, <2>4
<1>3. /\ \A r \in batch' : r.ev # {}
      /\ \A r \in cur' : r.ev = {}
  BY DEF PortAgrees
<1>4. QED
  BY <1>1, <1>2, <1>3 DEF PortAgrees

\* Nothing is left of another entry when one of the report is handled.
LEMMA PortAtHand ==
  ASSUME PortAgrees, NEW e \in batch, Port!AtHand(e)
  PROVE  pc = "dispatch" /\ cur = {} /\ e.ev # {}
BY DEF PortAgrees, Port!AtHand

LEMMA PortNextAgrees ==
  ASSUME Inv, PortAgrees, backend = "port", open, Port!Next
  PROVE  open' => PortAgrees'
<1>0. /\ flags \in [Transports -> SUBSET AllBits] /\ interest \in [Transports -> SUBSET Asks]
      /\ attached \subseteq Transports /\ slotOf \in [Transports -> Nat]
      /\ fd \in [Transports -> {"open", "closed"}] /\ SlotsInv /\ TableTypes
  BY PortFacts
<1>1. ASSUME Port!Wait PROVE PortAgrees'
  <2>1. PICK ready \in SUBSET Port!Associated : \E ev \in [ready -> AllConditions] :
          /\ \A t \in ready : ev[t] \in Port!Reportable(t)
          /\ Port!Reports({[slot |-> slotOf[t], who |-> t, ev |-> {ev[t]}] : t \in ready})
          /\ interest' = [t \in Transports |-> IF t \in ready THEN {} ELSE interest[t]]
    BY <1>1 DEF Port!Wait, Port!AllConditions, AllConditions
  <2>2. PICK ev \in [ready -> AllConditions] :
          /\ \A t \in ready : ev[t] \in Port!Reportable(t)
          /\ Port!Reports({[slot |-> slotOf[t], who |-> t, ev |-> {ev[t]}] : t \in ready})
          /\ interest' = [t \in Transports |-> IF t \in ready THEN {} ELSE interest[t]]
    BY <2>1
  <2>3. /\ pc = "idle" /\ pc' = "dispatch" /\ changed' = {}
        /\ batch' = {[slot |-> slotOf[t], who |-> t, ev |-> {ev[t]}] : t \in ready}
        /\ UNCHANGED <<fd, attached, flags, slotOf, cur>>
    BY <1>1, <2>2 DEF Port!Wait, Port!Reports, Port!transportVars, Port!slotVars
  <2>4. cur = {} /\ \A t \in attached : Awaited(t)
    BY <2>3 DEF PortAgrees, Inv, EntriesInv
  <2>5. ASSUME NEW t \in attached, t \notin ready PROVE Awaited(t)'
    BY <1>0, <2>2, <2>3, <2>4, <2>5 DEF Awaited
  <2>6. ASSUME NEW t \in attached, t \in ready PROVE Queued(t)'
    <3>1. [slot |-> slotOf[t], who |-> t, ev |-> {ev[t]}] \in batch'
      BY <2>3, <2>6
    <3>2. PICK e \in batch' : e.slot = slotOf[t] /\ e.who = t /\ e.ev = {ev[t]}
      BY <3>1
    <3>3. Unmoved(e, t)'
      BY <2>3, <3>2 DEF Unmoved
    <3>4. ASSUME NEW c \in {"in", "out"}, c = ev[t] PROVE Bit(c) \in flags'[t]
      <4>1. Bit(c) \in interest[t] /\ Bit(c) \in EventBits
        BY <2>2, <2>6, <3>4 DEF Port!Reportable, Port!Asked, Port!Bit, Bit, EventBits
      <4>2. QED
        BY <2>3, <2>4, <4>1 DEF Awaited
    <3>5. \A c \in e.ev \cap {"in", "out"} : Bit(c) \in flags'[t]
      BY <3>2, <3>4
    <3>6. QED
      BY <3>2, <3>3, <3>5 DEF Queued
  <2>7. /\ \A e \in batch' : e.ev # {}
        /\ \A e \in cur' : e.ev = {}
    BY <2>3, <2>4
  <2>8. QED
    BY <2>3, <2>5, <2>6, <2>7 DEF PortAgrees
<1>2. ASSUME NEW e, Port!Crash(e) PROVE PortAgrees'
  BY <1>2 DEF Port!Crash, Port!Fails, Port!transportVars, PortAgrees
<1>3. ASSUME NEW e \in batch, Port!PassOver(e) PROVE PortAgrees'
  <2>1. pc = "dispatch" /\ cur = {} /\ e.slot \in changed
    BY <1>3, PortAtHand DEF Port!PassOver, Port!IsFdChanged
  <2>2. /\ pc' = pc /\ batch' = batch \ {e} /\ cur' = {}
        /\ UNCHANGED <<fd, attached, flags, interest, slotOf, changed>>
    BY <1>3 DEF Port!PassOver, Port!Skip, Port!Consume, Port!transportVars, Port!tableVars,
       Port!slotVars
  <2>3. \A u \in attached : ~Returning(u) /\ ~Unmoved(e, u)
    BY <2>1 DEF Returning, Unmoved
  <2>4. QED
    BY <1>0, <2>1, <2>2, <2>3, NullAssumption, PortEntryGone
<1>4. ASSUME NEW e \in batch, Port!Hangup(e) PROVE PortAgrees'
  <2>1. pc = "dispatch" /\ cur = {} /\ slots[e.slot] = e.who
    BY <1>4, PortAtHand DEF Port!Hangup, Port!Stranded
  <2>2. e.who \in attached
    BY <2>1, PortFd
  <2>3. pc' = "call" /\ batch' = batch \ {e} /\ cur' = {} /\ Port!DetachLocked(e.who) /\ fd' = fd
    BY <1>4 DEF Port!Hangup, Port!ReportHangup, Port!Calls1, Port!Consume
  <2>4. \A u \in attached : ~Returning(u) /\ (u # e.who => ~Unmoved(e, u))
    BY <2>1 DEF Returning, Unmoved
  <2>5. QED
    BY <2>1, <2>2, <2>3, <2>4, PortDetachEffect, PortEntryGone
<1>5. ASSUME NEW e \in batch, Port!HandleEvent(e) PROVE PortAgrees'
  <2> DEFINE t == e.who
  <2>1. pc = "dispatch" /\ cur = {} /\ slots[e.slot] = t /\ e.slot \notin changed
    BY <1>5, PortAtHand DEF Port!HandleEvent, Port!Stranded, Port!IsFdChanged
  <2>2. t \in attached /\ t \in Transports /\ e \in Entries /\ e.slot \in DOMAIN slots
    BY <2>1, PortFd DEF EntrySound, HasSlots
  <2>3. slotOf[t] = e.slot
    BY <1>0, <2>1, <2>2, NullAssumption DEF SlotsInv
  <2>4. /\ batch' = batch \ {e}
        /\ UNCHANGED <<fd, attached, interest, slotOf, changed>>
    BY <1>5 DEF Port!HandleEvent, Port!Consume, Port!tableVars, Port!slotVars
  <2>5. PICK c \in e.ev \cap {"in", "out"} :
          IF Port!Wanted(t, c)
            THEN /\ flags' = [flags EXCEPT ![t] = Port!FlagsInCall(t, c)]
                 /\ pc' = "call" /\ cur' = {[e EXCEPT !.ev = {}]}
            ELSE cur' = {} /\ flags' = flags /\ pc' = pc
    BY <1>5 DEF Port!HandleEvent, Port!Calls1, Port!Consume
  <2>6. \A u \in attached : ~Returning(u) /\ (u # t => ~Unmoved(e, u))
    BY <2>1 DEF Returning, Unmoved
  <2>7. CASE Port!Wanted(t, c)
    <3>1. /\ flags' = [flags EXCEPT ![t] = Port!FlagsInCall(t, c)]
          /\ pc' = "call" /\ cur' = {[e EXCEPT !.ev = {}]}
      BY <2>5, <2>7
    <3>2. "Armed" \notin flags'[t]
      BY <1>0, <2>2, <3>1 DEF Port!FlagsInCall
    <3>3. Unmoved([e EXCEPT !.ev = {}], t)'
      BY <2>1, <2>2, <2>3, <2>4 DEF Unmoved, Entries
    <3>4. Returning(t)'
      BY <3>1, <3>2, <3>3 DEF Returning
    <3>5. [e EXCEPT !.ev = {}].ev = {}
      BY <2>2 DEF Entries
    <3>6. QED
      BY <1>0, <2>1, <2>2, <2>4, <2>6, <3>1, <3>4, <3>5, PortEntryGone
  <2>8. CASE ~Port!Wanted(t, c)
    <3>1. cur' = {} /\ flags' = flags /\ pc' = pc
      BY <2>5, <2>8
    <3>2. Bit(c) \notin flags[t]
      BY <2>8 DEF Port!Wanted, Port!Bit, Bit
    <3>3. Queued(t) => Queued(t)'
      BY <2>4, <2>5, <3>1, <3>2 DEF Queued, Unmoved
    <3>4. Awaited(t) => Awaited(t)'
      BY <2>4, <3>1 DEF Awaited
    <3>5. Awaited(t) \/ Queued(t)
      BY <2>1, <2>2, <2>6 DEF PortAgrees
    <3>6. QED
      BY <1>0, <2>1, <2>2, <2>4, <2>6, <3>1, <3>3, <3>4, <3>5, PortEntryGone
  <2>9. QED
    BY <2>7, <2>8
<1>6. ASSUME NEW e \in cur, Port!LeftAlone(e) PROVE PortAgrees'
  <2>1. pc = "dispatch" /\ cur = {e} /\ (e.slot \in changed \/ "Armed" \in flags[e.who])
    BY <1>6 DEF Port!LeftAlone, Port!Handled, Port!Rearms, Port!IsFdChanged
  <2>2. /\ pc' = pc /\ batch' = batch \ {e} /\ cur' = {}
        /\ UNCHANGED <<fd, attached, flags, interest, slotOf, changed>>
    BY <1>6 DEF Port!LeftAlone, Port!Skip, Port!Consume, Port!transportVars, Port!tableVars,
       Port!slotVars
  <2>3. \A u \in attached : ~Returning(u)
    BY <2>1 DEF Returning, Unmoved
  <2>4. e \notin batch
    BY <2>1 DEF PortAgrees
  <2>5. batch' = batch
    BY <2>2, <2>4
  <2>6. QED
    BY <2>1, <2>2, <2>3, <2>5 DEF PortAgrees, Awaited, Queued, Unmoved
<1>7. ASSUME NEW e \in cur, Port!Rearm(e) PROVE PortAgrees'
  <2> DEFINE t == e.who
  <2>1. pc = "dispatch" /\ cur = {e} /\ t \in attached /\ t \in Transports
    BY <1>7, PortRearms DEF Port!Rearm, Port!Handled
  <2>2. /\ batch' = batch \ {e} /\ cur' = {} /\ pc' = pc
        /\ interest' = [interest EXCEPT ![t] = (flags[t] \cap EventBits) \cup {"Associated"}]
        /\ flags' = [flags EXCEPT ![t] = @ \cup {"Armed"}]
        /\ UNCHANGED <<fd, attached, slotOf, changed>>
    BY <1>7 DEF Port!Rearm, Port!Consume, Port!Associate, Port!EventBits, Port!slotVars,
       EventBits
  <2>3. Awaited(t)'
    BY <1>0, <2>1, <2>2, AssociatedIsAwaited
  <2>4. \A u \in attached : (Returning(u) => u = t) /\ (u # t => ~Unmoved(e, u))
    BY <2>1 DEF Returning, Unmoved
  <2>5. QED
    BY <1>0, <2>1, <2>2, <2>3, <2>4, PortEntryGone
<1>8. ASSUME NEW e \in cur, Port!RearmFails(e) PROVE PortAgrees'
  <2> DEFINE t == e.who
  <2>1. pc = "dispatch" /\ cur = {e} /\ t \in attached /\ t \in Transports
    BY <1>8, PortRearms DEF Port!RearmFails, Port!Handled
  <2>2. pc' = "call" /\ batch' = batch \ {e} /\ cur' = {} /\ Port!DetachLocked(t) /\ fd' = fd
    BY <1>8 DEF Port!RearmFails, Port!ReportHangup, Port!Calls1, Port!Consume
  <2>3. \A u \in attached : (Returning(u) => u = t) /\ (u # t => ~Unmoved(e, u))
    BY <2>1 DEF Returning, Unmoved
  <2>4. QED
    BY <2>1, <2>2, <2>3, PortDetachEffect, PortEntryGone
<1>9. ASSUME Port!Return PROVE PortAgrees'
  <2>1. /\ pc = "call" /\ pc' = "dispatch"
        /\ UNCHANGED <<fd, attached, flags, interest, slotOf, changed, batch, cur>>
    BY <1>9 DEF Port!Return, Port!transportVars, Port!tableVars, Port!slotVars
  <2>2. QED
    BY <2>1 DEF PortAgrees, Awaited, Returning, Queued, Unmoved
<1>10. ASSUME Port!EndPoll PROVE PortAgrees'
  <2>1. /\ pc = "dispatch" /\ batch = {} /\ cur = {} /\ pc' = "idle"
        /\ UNCHANGED <<fd, attached, flags, interest>>
    BY <1>10 DEF Port!EndPoll, Port!transportVars
  <2>2. \A t \in attached : Awaited(t)
    BY <2>1 DEF PortAgrees, Returning, Queued
  <2>3. QED
    BY <2>1, <2>2 DEF PortAgrees, Awaited
<1>11. QED
  BY <1>1, <1>2, <1>3, <1>4, <1>5, <1>6, <1>7, <1>8, <1>9, <1>10, PortUserAgrees DEF Port!Next

LEMMA PortNextKeeps ==
  ASSUME Port!Next
  PROVE  backend' = backend /\ (open' => open)
<1>1. ASSUME Port!UserSteps(Port!AttachLocked, Port!DetachLocked, Port!ChangeLocked)
      PROVE  backend' = backend /\ (open' => open)
  BY <1>1 DEF Port!UserSteps, Port!Attach, Port!Detach, Port!ChangeTo, Port!Close,
     Port!Create, Port!Shutdown, Port!UserMay
<1>2. ASSUME NEW t, NEW mode, Port!AttachFails(t, mode) PROVE backend' = backend /\ (open' => open)
  BY <1>2 DEF Port!AttachFails
<1>3. ASSUME Port!Wait \/ Port!Return \/ Port!EndPoll PROVE backend' = backend /\ (open' => open)
  BY <1>3 DEF Port!Wait, Port!Return, Port!EndPoll
<1>4. ASSUME NEW e, Port!Crash(e) \/ Port!PassOver(e) \/ Port!Hangup(e) \/ Port!HandleEvent(e)
      PROVE  backend' = backend /\ (open' => open)
  BY <1>4 DEF Port!Crash, Port!Fails, Port!PassOver, Port!Skip, Port!Hangup,
     Port!ReportHangup, Port!HandleEvent
<1>5. ASSUME NEW e, Port!LeftAlone(e) \/ Port!Rearm(e) \/ Port!RearmFails(e)
      PROVE  backend' = backend /\ (open' => open)
  BY <1>5 DEF Port!LeftAlone, Port!Skip, Port!Rearm, Port!RearmFails, Port!ReportHangup
<1>6. QED
  BY <1>1, <1>2, <1>3, <1>4, <1>5 DEF Port!Next

LEMMA Agreement == Spec => []AgreeInv
<1>1. Init => AgreeInv
  BY InitAgrees
<1>2. ASSUME Inv, AgreeInv, [Next]_vars PROVE AgreeInv'
  <2>1. CASE UNCHANGED vars
    <3>1. UNCHANGED <<fd, attached, flags, detachedOnce, backend, open, slotOf, changed,
                      interest, pc, batch, cur>>
      BY <2>1 DEF vars, transportVars, tableVars, slotVars, pollVars
    <3>2. QED
      BY <1>2, <3>1 DEF AgreeInv, BitsAgree, Outdated, PortAgrees, Awaited, Returning, Queued, Unmoved
  <2>2. CASE backend = "port" /\ Port!Next
    <3>1. backend' = backend /\ (open' => open)
      BY <1>2, <2>2, PortNextKeeps
    <3>2. QED
      BY <1>2, <2>2, <3>1, PortNextAgrees DEF AgreeInv
  <2>3. QED
    BY <1>2, <2>1, <2>2, PollNextAgrees, SelectNextAgrees, KqueueNextAgrees,
       DevPollNextAgrees DEF Next
<1>3. QED
  BY <1>1, <1>2, Invariance, PTL DEF Spec

\* Between polls the system is asked for what flags_ says, on which the early
\* return of change_events_locked_helper() relies, whatever the backend.
THEOREM InterestsAgree == Spec => []InterestAgrees
<1>1. Inv /\ AgreeInv => InterestAgrees
  BY DEF AgreeInv, PortAgrees, Awaited, BitsAgree, Outdated, InterestAgrees, Inv, TableInv,
         TableTypes
<1>2. QED
  BY <1>1, Invariance, Agreement, PTL

----------------------------------------------------------------------------
(* What listeners are told: the steps of every backend are acts.           *)

\* What the system is asked for, flags_ says.
LEMMA AskedFor ==
  ASSUME Inv, AgreeInv, open, backend # "port", NEW t \in Transports
  PROVE  interest[t] \subseteq flags[t] \cap EventBits
BY DEF AgreeInv, BitsAgree, Outdated

LEMMA WaitActs ==
  ASSUME Inv, NEW entries \in SUBSET Entries, Reports(entries),
         \A e \in entries : Shaped(e),
         \A e \in entries :
           e.who \in attached => \A c \in e.ev \cap {"in", "out"} : Bit(c) \in flags[e.who],
         \A e, f \in entries : e # f /\ e.who = f.who => e.ev \cap f.ev = {},
         UNCHANGED <<transportVars, backend, since, cur, call>>
  PROVE  Acts
<1>1. UNCHANGED <<fd, attached, flags>>
  BY DEF transportVars
<1>2. Brings(entries)
  BY <1>1 DEF Brings, Reports
<1>3. KeepsOpen
  BY <1>1, KeptOpen
<1>4. QED
  BY <1>2, <1>3 DEF Acts, ThreadActs

LEMMA HandleActs ==
  ASSUME Inv, NEW e, Passes(e) \/ \E c \in {"in", "out"} : Announces(e, c),
         UNCHANGED <<fd, backend>>
  PROVE  Acts
<1>1. e \in Pending /\ attached' = attached
  BY DEF Passes, Announces, Handles, AtHand, Pending
<1>2. KeepsOpen
  BY <1>1, KeptOpen
<1>3. QED
  BY <1>1, <1>2 DEF Acts, ThreadActs

\* What fails before a transport is attached concerns nobody.
LEMMA UnheardActs ==
  ASSUME Inv, NEW t \in Transports \ attached, OthersFlags(t),
         UNCHANGED <<fd, attached, backend, since, pollVars>>
  PROVE  Acts
<1>1. \A u \in attached : flags'[u] = flags[u]
  BY DEF OthersFlags, Inv, TableInv, TableTypes
<1>2. KeepsOpen
  BY KeptOpen
<1>3. QED
  BY <1>1, <1>2 DEF Acts, UserActs, Unheard

LEMMA PollWaitActs ==
  ASSUME Inv, AgreeInv, backend = "poll", Poll!Wait
  PROVE  Acts
<1>0. PICK ready \in SUBSET attached : \E ev \in [ready -> (SUBSET AllConditions) \ {{}}] :
        /\ \A t \in ready : ev[t] \subseteq Conditions[t] \cap (Poll!Asked(t) \cup {"hup", "err"})
        /\ Reports({[slot |-> slotOf[t], who |-> t, ev |-> ev[t]] : t \in ready})
  BY DEF Poll!Wait, Poll!Reports, Reports, Poll!AllConditions, AllConditions
<1>1. PICK ev \in [ready -> (SUBSET AllConditions) \ {{}}] :
        /\ \A t \in ready : ev[t] \subseteq Conditions[t] \cap (Poll!Asked(t) \cup {"hup", "err"})
        /\ Reports({[slot |-> slotOf[t], who |-> t, ev |-> ev[t]] : t \in ready})
  BY <1>0
<1> DEFINE entries == {[slot |-> slotOf[t], who |-> t, ev |-> ev[t]] : t \in ready}
<1>2. open /\ slotOf \in [Transports -> Nat] /\ attached \subseteq Transports
  BY <1>1 DEF Reports, Inv, TableInv, TableTypes
<1>3. entries \in SUBSET Entries
  BY <1>2 DEF Entries
<1>4. \A e \in entries : e.who \in ready /\ e.ev = ev[e.who] /\ e.ev # {} /\ e.who \in Transports
  BY <1>2
<1>5. \A e \in entries : Shaped(e)
  BY <1>4 DEF Shaped
<1>6. ASSUME NEW e \in entries, NEW c \in e.ev \cap {"in", "out"} PROVE Bit(c) \in flags[e.who]
  <2>1. c \in Poll!Asked(e.who)
    BY <1>1, <1>4, <1>6
  <2>2. Bit(c) \in interest[e.who]
    BY <2>1 DEF Poll!Asked, Poll!Bit, Bit
  <2>3. QED
    BY <1>2, <1>4, <2>2, AskedFor
<1>7. \A e, f \in entries : e.who = f.who => e = f
  OBVIOUS
<1>8. UNCHANGED <<transportVars, backend, since, cur, call>>
  BY DEF Poll!Wait, Poll!transportVars, transportVars
<1>9. QED
  BY <1>1, <1>3, <1>5, <1>6, <1>7, <1>8, WaitActs

LEMMA PollHandleActs ==
  ASSUME Inv, ReportInv, backend = "poll", NEW e, Poll!HandleEvent(e)
  PROVE  Acts
<1> DEFINE t == e.who
           c == Poll!Next1(e)
<1>1. /\ AtHand(e) /\ e \in Entries /\ t \in Dispatched /\ t \in Transports /\ Poll!Fd(e) = t
  BY PollFd DEF Poll!HandleEvent, Dispatched
<1>2. /\ c \in {"in", "out"} /\ batch' = batch \ {e} /\ cur' = Poll!Rest(e)
      /\ IF "LT" \in flags[t] THEN flags' = flags
                              ELSE flags' = [flags EXCEPT ![t] = @ \ {Poll!Bit(c)}]
      /\ IF "LT" \in flags[t] /\ Poll!Bit(c) \notin flags[t]
           THEN UNCHANGED <<pc, call>> ELSE Poll!Calls1(t, Poll!Kind(c))
      /\ UNCHANGED <<fd, attached, backend, since>>
  BY <1>1 DEF Poll!HandleEvent, Poll!Consume, Poll!Disarm
<1>3. Poll!Bit(c) = Bit(c) /\ Poll!Kind(c) = Kind(c)
  BY DEF Poll!Bit, Bit, Poll!Kind, Kind
<1>4. e \in Pending /\ e.ev # {} /\ e.ev \subseteq AllConditions
  BY <1>1 DEF ReportInv, Shaped, AtHand, Pending, Entries
<1>5. c \in e.ev
  BY <1>2, <1>4 DEF Poll!Next1, AllConditions
<1>6. ASSUME NEW r \in cur'
      PROVE  /\ r.who = t /\ r.ev \subseteq e.ev /\ Shaped(r) /\ c \notin r.ev
             /\ r = [e EXCEPT !.ev = @ \ {"in"}, !.who = t]
  <2>1. c = "in" /\ e.ev # {"in"} /\ r = [e EXCEPT !.ev = @ \ {"in"}, !.who = t]
    BY <1>1, <1>2, <1>6 DEF Poll!Rest
  <2>2. r.who = t /\ r.ev = e.ev \ {"in"}
    BY <1>1, <2>1 DEF Entries
  <2>3. QED
    BY <1>5, <2>1, <2>2 DEF Shaped
<1>7. Handles(e)
  BY <1>1, <1>2, <1>6 DEF Handles
<1>8. CASE "LT" \in flags[t] /\ Bit(c) \notin flags[t]
  <2>1. Passes(e)
    BY <1>2, <1>3, <1>7, <1>8 DEF Passes, SameBits
  <2>2. QED
    BY <1>2, <2>1, HandleActs
<1>9. CASE ~("LT" \in flags[t] /\ Bit(c) \notin flags[t])
  <2>1. call' = [to |-> t, kind |-> Kind(c)] /\ pc' = "call"
    BY <1>2, <1>3, <1>9 DEF Poll!Calls1
  <2>2. flags \in [Transports -> SUBSET AllBits]
    BY DEF Inv, Types, OpTypes
  <2>3. /\ OthersFlags(t) /\ SameBits(t, (EventBits \cup ModeBits) \ {Bit(c)})
        /\ Bit(c) \in flags'[t] => Bit(c) \in flags[t]
        /\ t \in Level => Bit(c) \in flags'[t]
    BY <1>1, <1>2, <1>3, <1>9, <2>2 DEF OthersFlags, SameBits, Level
  <2>4. Announces(e, c)
    BY <1>1, <1>2, <1>5, <1>6, <1>7, <2>1, <2>3 DEF Announces
  <2>5. QED
    BY <1>2, <2>4, HandleActs
<1>10. QED
  BY <1>8, <1>9

LEMMA SelectWaitActs ==
  ASSUME Inv, AgreeInv, backend = "select", Select!Wait
  PROVE  Acts
<1>0. PICK ready \in SUBSET Select!Seen : \E ev \in [ready -> (SUBSET {"in", "out"}) \ {{}}] :
        /\ \A t \in ready : ev[t] \subseteq Select!Asked(t)
        /\ Reports({[slot |-> t, who |-> t, ev |-> ev[t]] : t \in ready})
  BY DEF Select!Wait, Select!Reports, Reports
<1>1. PICK ev \in [ready -> (SUBSET {"in", "out"}) \ {{}}] :
        /\ \A t \in ready : ev[t] \subseteq Select!Asked(t)
        /\ Reports({[slot |-> t, who |-> t, ev |-> ev[t]] : t \in ready})
  BY <1>0
<1> DEFINE entries == {[slot |-> t, who |-> t, ev |-> ev[t]] : t \in ready}
<1>2. open /\ ready \subseteq Transports
  BY <1>1 DEF Reports, Select!Seen
<1>3. entries \in SUBSET Entries
  BY <1>2, DescriptorAssumption DEF Entries, AllConditions
<1>4. \A e \in entries : /\ e.who \in ready /\ e.ev = ev[e.who] /\ e.ev # {}
                         /\ e.ev \subseteq {"in", "out"} /\ e.who \in Transports
  BY <1>2
<1>5. \A e \in entries : Shaped(e)
  BY <1>4 DEF Shaped
<1>6. ASSUME NEW e \in entries, NEW c \in e.ev \cap {"in", "out"} PROVE Bit(c) \in flags[e.who]
  <2>1. c \in Select!Asked(e.who)
    BY <1>1, <1>4, <1>6
  <2>2. Bit(c) \in interest[e.who]
    BY <2>1 DEF Select!Asked, Select!Bit, Bit
  <2>3. QED
    BY <1>2, <1>4, <2>2, AskedFor
<1>7. \A e, f \in entries : e.who = f.who => e = f
  OBVIOUS
<1>8. UNCHANGED <<transportVars, backend, since, cur, call>>
  BY DEF Select!Wait, Select!transportVars, transportVars
<1>9. QED
  BY <1>1, <1>3, <1>5, <1>6, <1>7, <1>8, WaitActs

LEMMA SelectHandleActs ==
  ASSUME Inv, ReportInv, backend = "select", NEW e, Select!HandleEvent(e)
  PROVE  Acts
<1> DEFINE t == e.who
           c == Select!NextOf(e)
<1>1. /\ AtHand(e) /\ e \in Entries /\ t \in Dispatched /\ t \in Transports /\ e.slot = t
  <2>1. AtHand(e) /\ e.slot \notin changed
    BY DEF Select!HandleEvent, Select!First, Select!AtHand, AtHand, Select!IsFdChanged
  <2>2. e \in Entries /\ EntrySound(e)
    BY <2>1, CurIsSound DEF AtHand
  <2>3. QED
    BY <2>1, <2>2 DEF EntrySound, FdChanged, Transport, HasSlots, Entries, Dispatched
<1>2. /\ c \in {"in", "out"} /\ batch' = batch \ {e} /\ cur' = Select!Rest(e)
      /\ IF "LT" \in flags[t] THEN flags' = flags
                              ELSE flags' = [flags EXCEPT ![t] = @ \ {Select!Bit(c)}]
      /\ IF "LT" \in flags[t] /\ Select!Bit(c) \notin flags[t]
           THEN UNCHANGED <<pc, call>> ELSE Select!Calls1(t, Select!Kind(c))
      /\ UNCHANGED <<fd, attached, backend, since>>
  BY <1>1 DEF Select!HandleEvent, Select!Consume, Select!Disarm, Select!NextOf
<1>3. Select!Bit(c) = Bit(c) /\ Select!Kind(c) = Kind(c)
  BY DEF Select!Bit, Bit, Select!Kind, Kind
<1>4. e \in Pending /\ e.ev # {} /\ e.ev \subseteq {"in", "out"}
  BY <1>1 DEF ReportInv, Shaped, AtHand, Pending, Entries
<1>5. c \in e.ev
  BY <1>2, <1>4 DEF Select!NextOf
<1>6. ASSUME NEW r \in cur'
      PROVE  /\ r.who = t /\ r.ev \subseteq e.ev /\ Shaped(r) /\ c \notin r.ev
             /\ r = [e EXCEPT !.ev = {"out"}]
  <2>1. e.ev = {"in", "out"} /\ r = [e EXCEPT !.ev = {"out"}]
    BY <1>1, <1>2, <1>6 DEF Select!Rest
  <2>2. r.who = t /\ r.ev = {"out"} /\ c = "in"
    BY <1>1, <2>1 DEF Entries, Select!NextOf
  <2>3. QED
    BY <1>5, <2>1, <2>2 DEF Shaped
<1>7. Handles(e)
  BY <1>1, <1>2, <1>6 DEF Handles
<1>8. CASE "LT" \in flags[t] /\ Bit(c) \notin flags[t]
  <2>1. Passes(e)
    BY <1>2, <1>3, <1>7, <1>8 DEF Passes, SameBits
  <2>2. QED
    BY <1>2, <2>1, HandleActs
<1>9. CASE ~("LT" \in flags[t] /\ Bit(c) \notin flags[t])
  <2>1. call' = [to |-> t, kind |-> Kind(c)] /\ pc' = "call"
    BY <1>2, <1>3, <1>9 DEF Select!Calls1
  <2>2. flags \in [Transports -> SUBSET AllBits]
    BY DEF Inv, Types, OpTypes
  <2>3. /\ OthersFlags(t) /\ SameBits(t, (EventBits \cup ModeBits) \ {Bit(c)})
        /\ Bit(c) \in flags'[t] => Bit(c) \in flags[t]
        /\ t \in Level => Bit(c) \in flags'[t]
    BY <1>1, <1>2, <1>3, <1>9, <2>2 DEF OthersFlags, SameBits, Level
  <2>4. Announces(e, c)
    BY <1>1, <1>2, <1>5, <1>6, <1>7, <2>1, <2>3 DEF Announces
  <2>5. QED
    BY <1>2, <2>4, HandleActs
<1>10. QED
  BY <1>8, <1>9

LEMMA KqueueWaitActs ==
  ASSUME Inv, AgreeInv, backend = "kqueue", Kqueue!Wait
  PROVE  Acts
<1>1. PICK entries \in SUBSET UNION {Kqueue!Reportable(t) : t \in attached} : Reports(entries)
  BY DEF Kqueue!Wait, Kqueue!Reports, Reports
<1>2. open /\ slotOf \in [Transports -> Nat] /\ attached \subseteq Transports
  BY <1>1 DEF Reports, Inv, TableInv, TableTypes
<1>3. ASSUME NEW e \in entries
      PROVE  \E t \in attached, c \in AllConditions :
               /\ e = [slot |-> slotOf[t], who |-> t, ev |-> {c}]
               /\ c \in Kqueue!Asked(t) \cup {"hup", "err"}
  <2>1. PICK t \in attached : e \in Kqueue!Reportable(t)
    BY <1>1, <1>3
  <2>2. PICK c \in Conditions[t] : /\ e = [slot |-> slotOf[t], who |-> t, ev |-> {c}]
                                   /\ c \in Kqueue!Asked(t) \cup {"hup", "err"}
    BY <2>1 DEF Kqueue!Reportable
  <2>3. c \in AllConditions
    BY <1>2, <2>2, AskedAssumption
  <2>4. QED
    BY <2>2, <2>3
<1>4. \A e \in entries : e \in Entries /\ e.slot = slotOf[e.who] /\ Shaped(e)
  BY <1>2, <1>3 DEF Entries, Shaped
<1>5. ASSUME NEW e \in entries, NEW c \in e.ev \cap {"in", "out"} PROVE Bit(c) \in flags[e.who]
  <2>1. c \in Kqueue!Asked(e.who) /\ e.who \in Transports
    BY <1>2, <1>3, <1>5
  <2>2. Bit(c) \in interest[e.who]
    BY <2>1 DEF Kqueue!Asked, Kqueue!Bit, Bit
  <2>3. QED
    BY <1>2, <2>1, <2>2, AskedFor
<1>6. \A e, f \in entries : e # f /\ e.who = f.who => e.ev \cap f.ev = {}
  BY <1>3
<1>7. UNCHANGED <<transportVars, backend, since, cur, call>>
  BY DEF Kqueue!Wait, Kqueue!transportVars, transportVars
<1>8. entries \in SUBSET Entries
  BY <1>4
<1>9. QED
  BY <1>1, <1>4, <1>5, <1>6, <1>7, <1>8, WaitActs

LEMMA KqueueHandleActs ==
  ASSUME Inv, ReportInv, backend = "kqueue", NEW e, Kqueue!HandleEvent(e)
  PROVE  Acts
<1> DEFINE t == e.who
<1>1. /\ AtHand(e) /\ e \in Entries /\ t \in Dispatched /\ t \in Transports /\ slots[e.slot] = t
  BY KqueueFd DEF Kqueue!HandleEvent, Dispatched
<1>2. /\ e.ev \subseteq {"in", "out"} /\ batch' = batch \ {e} /\ cur' = {}
      /\ UNCHANGED <<fd, attached, flags, backend, since>>
  BY DEF Kqueue!HandleEvent, Kqueue!Consume, Kqueue!transportVars
<1>3. Handles(e)
  BY <1>1, <1>2 DEF Handles
<1>4. CASE Kqueue!Unwanted(e)
  <2>1. UNCHANGED <<pc, call>>
    BY <1>4 DEF Kqueue!HandleEvent
  <2>2. Passes(e)
    BY <1>2, <1>3, <2>1 DEF Passes, SameBits
  <2>3. QED
    BY <1>2, <2>2, HandleActs
<1>5. CASE ~Kqueue!Unwanted(e)
  <2>1. PICK c \in e.ev : Kqueue!Calls1(t, Kqueue!Kind(c))
    BY <1>1, <1>5 DEF Kqueue!HandleEvent
  <2>2. \A d \in e.ev : d = c
    BY <1>1, <2>1 DEF ReportInv, Shaped, AtHand, Pending
  <2>3. Bit(c) \in flags[t]
    BY <1>1, <1>5, <2>2 DEF Kqueue!Unwanted, Kqueue!Bit, Bit
  <2>4. call' = [to |-> t, kind |-> Kind(c)] /\ pc' = "call"
    BY <2>1 DEF Kqueue!Calls1, Kqueue!Kind, Kind
  <2>5. Announces(e, c)
    BY <1>1, <1>2, <1>3, <2>1, <2>3, <2>4 DEF Announces, OthersFlags, SameBits
  <2>6. QED
    BY <1>2, <2>1, <2>5, HandleActs
<1>6. QED
  BY <1>4, <1>5

LEMMA KqueueAttachFailsActs ==
  ASSUME Inv, backend = "kqueue", NEW t \in Transports, NEW mode, Kqueue!AttachFails(t, mode)
  PROVE  Acts
<1>1. /\ t \notin attached
      /\ flags' = [flags EXCEPT ![t] = Kqueue!WithoutEvents(t) \ Kqueue!UserBits]
      /\ UNCHANGED <<fd, attached, backend, since, pollVars>>
  BY DEF Kqueue!AttachFails, Kqueue!AttachRefused, Kqueue!pollVars, pollVars
<1>2. OthersFlags(t)
  BY <1>1 DEF OthersFlags, Inv, Types, OpTypes
<1>3. QED
  BY <1>1, <1>2, UnheardActs

LEMMA DevPollChangeFailsActs ==
  ASSUME Inv, backend = "devpoll", NEW t \in Transports, DevPoll!ChangeFails(t)
  PROVE  Acts
<1>1. /\ t \in attached /\ flags' = [flags EXCEPT ![t] = @ \ EventBits]
      /\ UNCHANGED <<fd, attached, backend, since, pollVars>>
  BY DEF DevPoll!ChangeFails, DevPoll!ChangeRefused, DevPoll!SetEvents, DevPoll!EventBits,
     EventBits, DevPoll!pollVars, pollVars
<1>2. OthersFlags(t) /\ SameBits(t, ModeBits)
  BY <1>1 DEF OthersFlags, SameBits, EventBits, ModeBits, Inv, Types, OpTypes
<1>3. KeepsOpen
  BY <1>1, KeptOpen
<1>4. QED
  BY <1>1, <1>2, <1>3 DEF Acts, UserActs, Alters

LEMMA DevPollWaitActs ==
  ASSUME Inv, AgreeInv, backend = "devpoll", DevPoll!Wait
  PROVE  Acts
<1>0. PICK ready \in SUBSET {t \in attached : interest[t] # {}} :
      \E ev \in [ready -> SUBSET AllConditions] :
        /\ \A t \in ready : ev[t] \in DevPoll!Reportable(t)
        /\ Reports({[slot |-> t, who |-> t, ev |-> ev[t]] : t \in ready})
  BY DEF DevPoll!Wait, DevPoll!Reports, Reports, DevPoll!AllConditions, AllConditions
<1>1. PICK ev \in [ready -> SUBSET AllConditions] :
        /\ \A t \in ready : ev[t] \in DevPoll!Reportable(t)
        /\ Reports({[slot |-> t, who |-> t, ev |-> ev[t]] : t \in ready})
  BY <1>0
<1> DEFINE entries == {[slot |-> t, who |-> t, ev |-> ev[t]] : t \in ready}
<1>2. open /\ attached \subseteq Transports
  BY <1>1 DEF Reports, Inv, TableInv, TableTypes
<1>3. entries \in SUBSET Entries
  BY <1>2, DescriptorAssumption DEF Entries
<1>4. \A e \in entries : e.who \in ready /\ e.ev = ev[e.who] /\ e.who \in Transports
  BY <1>2
<1>5. ASSUME NEW t \in ready
      PROVE  /\ ev[t] # {} /\ "hup" \notin ev[t]
             /\ \A c \in ev[t] \cap {"in", "out"} : Bit(c) \in interest[t]
  <2>1. interest[t] # {} /\ interest[t] \subseteq EventBits
    BY <1>2, AskedFor
  <2>2. \/ ev[t] = DevPoll!Asked(t)
        \/ ev[t] = DevPoll!Asked(t) \cup {"err"}
    BY <1>1 DEF DevPoll!Reportable
  <2>3. DevPoll!Asked(t) = {c \in {"in", "out"} : Bit(c) \in interest[t]}
    BY DEF DevPoll!Asked, DevPoll!Bit, Bit
  <2>4. DevPoll!Asked(t) # {}
    BY <2>1, <2>3 DEF EventBits, Bit
  <2>5. QED
    BY <2>2, <2>3, <2>4
<1>6. \A e \in entries : Shaped(e)
  BY <1>4, <1>5 DEF Shaped
<1>7. ASSUME NEW e \in entries, NEW c \in e.ev \cap {"in", "out"} PROVE Bit(c) \in flags[e.who]
  BY <1>2, <1>4, <1>5, <1>7, AskedFor
<1>8. \A e, f \in entries : e.who = f.who => e = f
  OBVIOUS
<1>9. UNCHANGED <<transportVars, backend, since, cur, call>>
  BY DEF DevPoll!Wait, DevPoll!transportVars, transportVars
<1>10. QED
  BY <1>1, <1>3, <1>6, <1>7, <1>8, <1>9, WaitActs

LEMMA DevPollHandleActs ==
  ASSUME Inv, ReportInv, backend = "devpoll", NEW e, DevPoll!HandleEvent(e)
  PROVE  Acts
<1> DEFINE t == e.who
           c == DevPoll!NextOf(e)
<1>1. /\ AtHand(e) /\ e \in Entries /\ t \in Dispatched /\ t \in Transports /\ e.slot = t
  BY DevPollFd DEF DevPoll!HandleEvent, Dispatched
<1>2. /\ c \in {"in", "out"} /\ batch' = batch \ {e} /\ cur' = DevPoll!Rest(e)
      /\ IF DevPoll!Bit(c) \in flags[t]
           THEN DevPoll!Disarmed(t, DevPoll!Bit(c)) /\ DevPoll!Calls1(t, DevPoll!Kind(c))
           ELSE UNCHANGED <<flags, pc, call>>
      /\ "err" \notin e.ev
      /\ UNCHANGED <<fd, attached, backend, since>>
  BY <1>1 DEF DevPoll!HandleEvent, DevPoll!Consume, DevPoll!NextOf
<1>3. DevPoll!Bit(c) = Bit(c) /\ DevPoll!Kind(c) = Kind(c)
  BY DEF DevPoll!Bit, Bit, DevPoll!Kind, Kind
<1>4. e \in Pending /\ e.ev # {} /\ e.ev \subseteq {"in", "out"}
  BY <1>1, <1>2 DEF ReportInv, Shaped, AtHand, Pending, Entries, AllConditions
<1>5. c \in e.ev
  BY <1>2, <1>4 DEF DevPoll!NextOf
<1>6. ASSUME NEW r \in cur'
      PROVE  /\ r.who = t /\ r.ev \subseteq e.ev /\ Shaped(r) /\ c \notin r.ev
             /\ r = [e EXCEPT !.ev = {"out"}]
  <2>1. e.ev = {"in", "out"} /\ r = [e EXCEPT !.ev = {"out"}]
    BY <1>1, <1>2, <1>6 DEF DevPoll!Rest
  <2>2. r.who = t /\ r.ev = {"out"} /\ c = "in"
    BY <1>1, <2>1 DEF Entries, DevPoll!NextOf
  <2>3. QED
    BY <1>5, <2>1, <2>2 DEF Shaped
<1>7. Handles(e)
  BY <1>1, <1>2, <1>6 DEF Handles
<1>8. CASE Bit(c) \notin flags[t]
  <2>1. Passes(e)
    BY <1>2, <1>3, <1>7, <1>8 DEF Passes, SameBits
  <2>2. QED
    BY <1>2, <2>1, HandleActs
<1>9. CASE Bit(c) \in flags[t]
  <2>1. call' = [to |-> t, kind |-> Kind(c)] /\ pc' = "call"
    BY <1>2, <1>3, <1>9 DEF DevPoll!Calls1
  <2>2. flags \in [Transports -> SUBSET AllBits]
    BY DEF Inv, Types, OpTypes
  <2>3. IF "ET" \in flags[t] THEN flags' = [flags EXCEPT ![t] = @ \ {Bit(c)}] ELSE flags' = flags
    <3>1. (flags[t] \ EventBits) \cup (flags[t] \ {Bit(c)}) = flags[t] \ {Bit(c)}
      BY DEF Bit, EventBits
    <3>2. QED
      BY <1>2, <1>3, <1>9, <3>1 DEF DevPoll!Disarmed, DevPoll!SetEvents, DevPoll!EventBits,
         EventBits
  <2>4. /\ OthersFlags(t) /\ SameBits(t, (EventBits \cup ModeBits) \ {Bit(c)})
        /\ Bit(c) \in flags'[t] => Bit(c) \in flags[t]
        /\ t \in Level => Bit(c) \in flags'[t]
    BY <1>1, <1>9, <2>2, <2>3 DEF OthersFlags, SameBits, Level, TestsEdge
  <2>5. Announces(e, c)
    BY <1>1, <1>2, <1>5, <1>6, <1>7, <2>1, <2>4 DEF Announces
  <2>6. QED
    BY <1>2, <2>5, HandleActs
<1>10. QED
  BY <1>8, <1>9

LEMMA PortWaitActs ==
  ASSUME Inv, AgreeInv, backend = "port", Port!Wait
  PROVE  Acts
<1>0. PICK ready \in SUBSET Port!Associated : \E ev \in [ready -> AllConditions] :
        /\ \A t \in ready : ev[t] \in Port!Reportable(t)
        /\ Reports({[slot |-> slotOf[t], who |-> t, ev |-> {ev[t]}] : t \in ready})
  BY DEF Port!Wait, Port!Reports, Reports, Port!AllConditions, AllConditions
<1>1. PICK ev \in [ready -> AllConditions] :
        /\ \A t \in ready : ev[t] \in Port!Reportable(t)
        /\ Reports({[slot |-> slotOf[t], who |-> t, ev |-> {ev[t]}] : t \in ready})
  BY <1>0
<1> DEFINE entries == {[slot |-> slotOf[t], who |-> t, ev |-> {ev[t]}] : t \in ready}
<1>2. open /\ slotOf \in [Transports -> Nat] /\ ready \subseteq Transports /\ pc = "idle"
  BY <1>1 DEF Reports, Inv, TableInv, TableTypes, Port!Associated
<1>3. entries \in SUBSET Entries
  BY <1>2 DEF Entries
<1>4. \A e \in entries : e.who \in ready /\ e.ev = {ev[e.who]}
  OBVIOUS
<1>5. \A e \in entries : Shaped(e)
  BY DEF Shaped
<1>6. ASSUME NEW e \in entries, e.who \in attached, NEW c \in e.ev \cap {"in", "out"}
      PROVE  Bit(c) \in flags[e.who]
  <2>1. c \in Port!Reportable(e.who)
    BY <1>1, <1>4, <1>6
  <2>2. Bit(c) \in interest[e.who] \cap EventBits
    BY <2>1, <1>6 DEF Port!Reportable, Port!Asked, Port!Bit, Bit, EventBits
  <2>3. Awaited(e.who)
    BY <1>2, <1>6 DEF AgreeInv, PortAgrees
  <2>4. QED
    BY <2>2, <2>3 DEF Awaited
<1>7. \A e, f \in entries : e.who = f.who => e = f
  OBVIOUS
<1>8. UNCHANGED <<transportVars, backend, since, cur, call>>
  BY DEF Port!Wait, Port!transportVars, transportVars
<1>9. QED
  BY <1>1, <1>3, <1>5, <1>6, <1>7, <1>8, WaitActs

LEMMA PortHandleActs ==
  ASSUME Inv, backend = "port", NEW e, Port!HandleEvent(e)
  PROVE  Acts
<1> DEFINE t == e.who
<1>1. /\ AtHand(e) /\ pc = "dispatch" /\ slots[e.slot] = t /\ e \in batch \cup cur
      /\ e.slot \notin changed
  BY DEF Port!HandleEvent, Port!AtHand, AtHand, Port!Stranded, Port!IsFdChanged
<1>2. e \in Entries /\ t \in Dispatched /\ t \in Transports
  BY <1>1, PortFd DEF Dispatched
<1>3. batch' = batch \ {e} /\ UNCHANGED <<fd, attached, backend, since>>
  BY DEF Port!HandleEvent, Port!Consume
<1>4. PICK c \in e.ev \cap {"in", "out"} :
        IF Port!Wanted(t, c)
          THEN /\ flags' = [flags EXCEPT ![t] = Port!FlagsInCall(t, c)]
               /\ Port!Calls1(t, Port!Kind(c))
               /\ cur' = {[e EXCEPT !.ev = {}]}
          ELSE cur' = {} /\ UNCHANGED <<flags, pc, call>>
  BY DEF Port!HandleEvent, Port!Consume
<1>5. CASE ~Port!Wanted(t, c)
  <2>1. cur' = {} /\ UNCHANGED <<flags, pc, call>>
    BY <1>4, <1>5
  <2>2. Passes(e)
    BY <1>1, <1>2, <1>3, <2>1 DEF Passes, Handles, SameBits
  <2>3. QED
    BY <1>3, <2>2, HandleActs
<1>6. CASE Port!Wanted(t, c)
  <2>1. /\ flags' = [flags EXCEPT ![t] = Port!FlagsInCall(t, c)]
        /\ cur' = {[e EXCEPT !.ev = {}]}
        /\ call' = [to |-> t, kind |-> Kind(c)] /\ pc' = "call" /\ Bit(c) \in flags[t]
    BY <1>4, <1>6 DEF Port!Calls1, Port!Kind, Kind, Port!Wanted, Port!Bit, Bit
  <2>2. \A r \in cur' : r.who = t /\ r.ev = {} /\ Shaped(r)
    BY <1>2, <2>1 DEF Entries, Shaped
  <2>3. Handles(e)
    BY <1>1, <1>2, <1>3, <2>1, <2>2 DEF Handles
  <2>4. flags \in [Transports -> SUBSET AllBits]
    BY DEF Inv, Types, OpTypes
  <2>5. flags'[t] = flags[t] \ ({"Armed"} \cup IF "ET" \in flags[t] THEN {Bit(c)} ELSE {})
    BY <1>2, <2>1, <2>4 DEF Port!FlagsInCall, Port!Bit, Bit
  <2>6. /\ OthersFlags(t) /\ SameBits(t, (EventBits \cup ModeBits) \ {Bit(c)})
        /\ Bit(c) \in flags'[t] => Bit(c) \in flags[t]
    BY <1>2, <2>1, <2>4, <2>5 DEF OthersFlags, SameBits, EventBits, ModeBits
  <2>7. t \in Level => Bit(c) \in flags'[t]
    BY <2>1, <2>5 DEF Level, TestsEdge, Bit
  <2>8. Announces(e, c)
    BY <1>2, <1>3, <2>1, <2>2, <2>3, <2>6, <2>7 DEF Announces
  <2>9. QED
    BY <1>3, <2>8, HandleActs
<1>7. QED
  BY <1>5, <1>6

LEMMA PortRearmActs ==
  ASSUME Inv, backend = "port", NEW e, Port!Rearm(e)
  PROVE  Acts
<1>1. /\ AtHand(e) /\ batch' = batch \ {e} /\ cur' = {}
      /\ flags' = [flags EXCEPT ![e.who] = @ \cup {"Armed"}]
      /\ UNCHANGED <<fd, attached, backend, since, pc, call>>
  BY PortRearms DEF Port!Rearm, Port!Consume
<1>2. e \in Entries
  BY <1>1, CurIsSound DEF AtHand
<1>3. \A t \in Transports : SameBits(t, EventBits \cup ModeBits)
  BY <1>1 DEF SameBits, EventBits, ModeBits, Inv, Types, OpTypes
<1>4. Passes(e)
  BY <1>1, <1>2, <1>3 DEF Passes, Handles
<1>5. QED
  BY <1>1, <1>4, HandleActs

LEMMA PortAttachFailsActs ==
  ASSUME Inv, backend = "port", NEW t \in Transports, NEW mode, Port!AttachFails(t, mode)
  PROVE  Acts
<1>1. /\ t \notin attached /\ flags' = [flags EXCEPT ![t] = @ \ Port!UserBits]
      /\ UNCHANGED <<fd, attached, backend, since, pollVars>>
  BY DEF Port!AttachFails, Port!AttachRefused, Port!pollVars, pollVars
<1>2. OthersFlags(t)
  BY <1>1 DEF OthersFlags, Inv, Types, OpTypes
<1>3. QED
  BY <1>1, <1>2, UnheardActs

\* All steps of all five.
LEMMA NextActs ==
  ASSUME Inv, AgreeInv, ReportInv, Next
  PROVE  Acts
<1>1. CASE backend = "poll" /\ Poll!Next
  BY <1>1, PollShared, SharedActs, PollWaitActs, PollHandleActs
<1>2. CASE backend = "select" /\ Select!Next
  BY <1>2, SelectShared, SharedActs, SelectWaitActs, SelectHandleActs
<1>3. CASE backend = "kqueue" /\ Kqueue!Next
  BY <1>3, KqueueShared, SharedActs, KqueueWaitActs, KqueueHandleActs, KqueueAttachFailsActs
<1>4. CASE backend = "devpoll" /\ DevPoll!Next
  BY <1>4, DevPollShared, SharedActs, DevPollWaitActs, DevPollHandleActs,
     DevPollChangeFailsActs
<1>5. CASE backend = "port" /\ Port!Next
  BY <1>5, PortShared, SharedActs, PortWaitActs, PortHandleActs, PortRearmActs,
     PortAttachFailsActs
<1>6. QED
  BY <1>1, <1>2, <1>3, <1>4, <1>5 DEF Next

LEMMA InitReports ==
  ASSUME Init
  PROVE  ReportInv /\ Dispatcher!Init
<1>1. /\ attached = {} /\ since = {} /\ pc = "idle" /\ batch = {} /\ cur = {} /\ call = None
  BY DEF Init, Poll!Init, Poll!PollerInit, Poll!TransportInit,
     Select!Init, Select!PollerInit, Select!TransportInit,
     Kqueue!Init, Kqueue!PollerInit, Kqueue!TransportInit,
     DevPoll!Init, DevPoll!PollerInit, DevPoll!TransportInit,
     Port!Init, Port!PollerInit, Port!TransportInit
<1>2. ReportInv
  BY <1>1 DEF ReportInv, Pending
<1>3. Level = {} /\ Want = Dispatcher!Nothing /\ Told = Dispatcher!Nothing
  BY <1>1 DEF Level, Want, Told, Dispatched, Dispatcher!Nothing
<1>4. QED
  BY <1>1, <1>2, <1>3, MappingTypes DEF Dispatcher!Init, Dispatcher!Kinds

\* Whatever the backend, listeners are told what IODispatcher promises: of transports
\* attached, what was asked for and reported of this registration, once, and of a hangup
\* after the detach; however operations by listeners are mixed with a dispatch.
THEOREM PollersRefineDispatcher == Spec => ImplementsDispatcher
<1>1. Init => ReportInv /\ Dispatcher!Init
  BY InitReports
<1>2. ASSUME Inv, AgreeInv, ReportInv, [Next]_vars
      PROVE  ReportInv' /\ [Dispatcher!Next]_(Dispatcher!vars)
  <2>1. CASE UNCHANGED vars
    <3>1. UNCHANGED <<fd, attached, flags, backend, since, pc, batch, cur, call>>
      BY <2>1 DEF vars, transportVars, pollVars
    <3>2. UNCHANGED <<Pending, Level, Want, Told>>
      BY <3>1 DEF Pending, Level, TestsEdge, Want, Wants, Told, Dispatched, Reported, MayFail
    <3>3. ReportInv'
      BY <1>2, <3>1, <3>2 DEF ReportInv, Shaped
    <3>4. Simulated
      BY <3>1, <3>2, AsStutter
    <3>5. QED
      BY <3>3, <3>4 DEF Simulated
  <2>2. CASE Next
    <3>1. Acts
      BY <1>2, <2>2, NextActs
    <3>2. QED
      BY <1>2, <3>1, ActsKeepReports, ActsSimulated DEF Simulated
  <2>3. QED
    BY <1>2, <2>1, <2>2
<1>3. QED
  BY <1>1, <1>2, Agreement, Invariance, PTL DEF Spec, ImplementsDispatcher, Dispatcher!Spec
==============================================================================
