--------------------------- MODULE PollerTableProofs ---------------------------
(***************************************************************************)
(* The poll, select, kqueue, /dev/poll and event port pollers: the         *)
(* invariant that all five keep, and what they have in common.             *)
(*                                                                         *)
(* What a step does to the table is one of a few effects (TableStep),      *)
(* which keep the table sound, and the entries of a report marked as       *)
(* changed or still about their registration, once for all backends.  What *)
(* a step tells the listeners is an act (Acts), and an act is a step of    *)
(* IODispatcher.  PollerProofs shows that the steps of every backend are   *)
(* of these kinds.                                                         *)
(***************************************************************************)
EXTENDS MCPollers, FiniteSetTheorems, TLAPS

----------------------------------------------------------------------------
(* The table.                                                              *)

\* Every slot in use is remembered by its transport, every other one is free.
SlotsInv ==
  /\ \A t \in attached : slotOf[t] \in DOMAIN slots /\ slots[slotOf[t]] = t
  /\ \A s \in DOMAIN slots :
       slots[s] # None => slots[s] \in attached /\ slotOf[slots[s]] = s
  /\ \A i \in DOMAIN free : free[i] \in DOMAIN slots /\ slots[free[i]] = None
  /\ \A i, j \in DOMAIN free : free[i] = free[j] => i = j
  /\ \A s \in DOMAIN slots : slots[s] = None => \E i \in DOMAIN free : free[i] = s

TableTypes ==
  /\ attached \subseteq Transports
  /\ slots \in Seq(Transports \cup {None}) /\ free \in Seq(Nat \ {0})
  /\ slotOf \in [Transports -> Nat]
  /\ watermark \in Transports \cup {-1}

TableInv ==
  /\ TableTypes
  /\ open => /\ HasSlots => SlotsInv
             /\ backend = "select" => WatermarkSound

\* What steps do to the table, and what they mark as changed.
Marks(t, slot) == changed' = changed \cup {IF backend \in {"kqueue", "port"} THEN slot ELSE t}

Joins(t) ==
  /\ t \in Transports \ attached /\ attached' = attached \cup {t}
  /\ since' \subseteq since \cup {t} /\ (pc = "idle" => since' = since)
Leaves(t) == t \in attached /\ attached' = attached \ {t} /\ UNCHANGED since

Takes(t) == Joins(t) /\ TakeSlot(t) /\ Marks(t, NewSlot) /\ UNCHANGED watermark
Gives(t) == Leaves(t) /\ GiveSlotBack(t) /\ Marks(t, slotOf[t]) /\ UNCHANGED watermark

\* A slot is taken and given back at once.
Wastes(t) ==
  /\ t \in Transports \ attached
  /\ slots' = IF free = <<>> THEN Append(slots, None) ELSE slots
  /\ free' = IF free = <<>> THEN <<NewSlot>> ELSE free
  /\ slotOf' = [slotOf EXCEPT ![t] = NewSlot]
  /\ changed' = changed \cup {NewSlot}
  /\ UNCHANGED <<attached, watermark, since>>

\* The tables that descriptors are an index of.
Enters(t) ==
  /\ Joins(t) /\ Marks(t, t) /\ UNCHANGED slotVars
  /\ watermark' = IF backend = "select" /\ t > watermark THEN t ELSE watermark
Exits(t) ==
  /\ Leaves(t) /\ Marks(t, t) /\ UNCHANGED slotVars
  /\ watermark' = IF backend = "select" THEN Select!NextWatermark(t) ELSE watermark

TableStep ==
  /\ UNCHANGED <<backend, open>>
  /\ \/ UNCHANGED <<attached, slotVars, watermark, changed, since>>
     \/ open /\ HasSlots /\ \E t \in Transports : Takes(t) \/ Gives(t)
     \/ open /\ backend \in {"kqueue", "port"} /\ \E t \in Transports : Wastes(t)
     \/ open /\ ~HasSlots /\ \E t \in Transports : Enters(t) \/ Exits(t)

\* Storing into a slot leaves a table of the same length.
LEMMA SlotStored ==
  ASSUME NEW S, NEW table \in Seq(S), NEW i, NEW x \in S
  PROVE  /\ [table EXCEPT ![i] = x] \in Seq(S)
         /\ DOMAIN [table EXCEPT ![i] = x] = DOMAIN table
<1> DEFINE new == [table EXCEPT ![i] = x]
<1>1. Len(table) \in Nat /\ DOMAIN table = 1 .. Len(table) /\ table \in [1 .. Len(table) -> S]
  OBVIOUS
<1>2. new \in [1 .. Len(table) -> S] /\ DOMAIN new = DOMAIN table
  BY <1>1
<1>3. new \in Seq(S)
  BY <1>1, <1>2
<1>4. QED
  BY <1>2, <1>3

\* Where TakeSlot() puts a transport, and what it leaves free.
LEMMA SlotTaken ==
  ASSUME TableTypes, SlotsInv, NEW t \in Transports, TakeSlot(t)
  PROVE  /\ NewSlot \in DOMAIN slots' /\ slots'[NewSlot] = t
         /\ DOMAIN slots \subseteq DOMAIN slots'
         /\ \A s \in DOMAIN slots' : s # NewSlot => s \in DOMAIN slots /\ slots'[s] = slots[s]
         /\ NewSlot \in DOMAIN slots => slots[NewSlot] = None
         /\ \A i \in DOMAIN free' : i \in DOMAIN free /\ free'[i] = free[i] /\ free'[i] # NewSlot
         /\ \A i \in DOMAIN free : free[i] # NewSlot => i \in DOMAIN free'
         /\ slotOf' = [slotOf EXCEPT ![t] = NewSlot] /\ NewSlot \in Nat
         /\ slots' \in Seq(Transports \cup {None}) /\ free' \in Seq(Nat \ {0})
<1> USE DEF TableTypes
<1>0. slotOf' = [slotOf EXCEPT ![t] = NewSlot]
  BY DEF TakeSlot
<1>1. CASE free = <<>>
  <2>1. NewSlot = Len(slots) + 1 /\ slots' = Append(slots, t) /\ free' = <<>>
    BY <1>1 DEF TakeSlot, NewSlot
  <2>2. QED
    BY <1>0, <1>1, <2>1
<1>2. CASE free # <<>>
  <2> DEFINE n == Len(free)
  <2>1. n \in Nat \ {0} /\ n \in DOMAIN free /\ free[n] \in Nat \ {0}
    BY <1>2
  <2>2. NewSlot = free[n] /\ slots' = [slots EXCEPT ![NewSlot] = t] /\ free' = SubSeq(free, 1, n - 1)
    BY <1>2 DEF TakeSlot, NewSlot, Last, Front
  <2>3. NewSlot \in DOMAIN slots /\ slots[NewSlot] = None
    BY <2>1, <2>2 DEF SlotsInv
  <2>4. DOMAIN slots' = DOMAIN slots /\ slots' \in Seq(Transports \cup {None})
    BY <2>2, SlotStored
  <2>5. DOMAIN free' = 1 .. (n - 1) /\ free' \in Seq(Nat \ {0})
          /\ \A i \in DOMAIN free' : free'[i] = free[i]
    BY <2>1, <2>2
  <2>6. \A i \in DOMAIN free' : i \in DOMAIN free /\ free'[i] = free[i] /\ free'[i] # NewSlot
    BY <2>1, <2>2, <2>5 DEF SlotsInv
  <2>7. \A i \in DOMAIN free : free[i] # NewSlot => i \in DOMAIN free'
    BY <2>1, <2>2, <2>5
  <2>8. slots'[NewSlot] = t /\ \A s \in DOMAIN slots : s # NewSlot => slots'[s] = slots[s]
    BY <2>2, <2>3
  <2>9. QED
    BY <1>0, <2>1, <2>2, <2>3, <2>4, <2>5, <2>6, <2>7, <2>8
<1>3. QED
  BY <1>1, <1>2

LEMMA TakeKeepsSlots ==
  ASSUME TableTypes, SlotsInv, NEW t \in Transports, Takes(t)
  PROVE  TableTypes' /\ SlotsInv'
<1> USE NullAssumption
<1>1. /\ t \notin attached /\ attached' = attached \cup {t} /\ TakeSlot(t)
      /\ watermark' = watermark
  BY DEF Takes, Joins
<1>2. TableTypes'
  BY <1>1, SlotTaken DEF TableTypes
<1>3. \A u \in attached' : slotOf'[u] \in DOMAIN slots' /\ slots'[slotOf'[u]] = u
  <2>1. slotOf'[t] = NewSlot /\ \A u \in attached : slotOf'[u] = slotOf[u]
    BY <1>1, SlotTaken DEF TableTypes
  <2>2. \A u \in attached : slotOf[u] # NewSlot
    BY SlotTaken, <1>1 DEF SlotsInv, TableTypes
  <2>3. QED
    BY <1>1, <2>1, <2>2, SlotTaken DEF SlotsInv
<1>4. \A s \in DOMAIN slots' :
        slots'[s] # None => slots'[s] \in attached' /\ slotOf'[slots'[s]] = s
  <2>1. slotOf'[t] = NewSlot /\ \A u \in attached : slotOf'[u] = slotOf[u]
    BY <1>1, SlotTaken DEF TableTypes
  <2>2. QED
    BY <1>1, <2>1, SlotTaken DEF SlotsInv
<1>5. \A i \in DOMAIN free' : free'[i] \in DOMAIN slots' /\ slots'[free'[i]] = None
  BY <1>1, SlotTaken DEF SlotsInv
<1>6. \A i, j \in DOMAIN free' : free'[i] = free'[j] => i = j
  BY <1>1, SlotTaken DEF SlotsInv
<1>7. \A s \in DOMAIN slots' : slots'[s] = None => \E i \in DOMAIN free' : free'[i] = s
  <2>1. ASSUME NEW s \in DOMAIN slots', slots'[s] = None
        PROVE  \E i \in DOMAIN free' : free'[i] = s
    <3>1. s # NewSlot /\ s \in DOMAIN slots /\ slots[s] = None
      BY <1>1, <2>1, SlotTaken
    <3>2. PICK i \in DOMAIN free : free[i] = s
      BY <3>1 DEF SlotsInv
    <3>3. i \in DOMAIN free' /\ free'[i] = free[i]
      BY <1>1, <3>1, <3>2, SlotTaken
    <3>4. QED
      BY <3>2, <3>3
  <2>2. QED
    BY <2>1
<1>8. QED
  BY <1>2, <1>3, <1>4, <1>5, <1>6, <1>7 DEF SlotsInv

LEMMA GiveKeepsSlots ==
  ASSUME TableTypes, SlotsInv, NEW t \in Transports, Gives(t)
  PROVE  TableTypes' /\ SlotsInv'
<1> USE NullAssumption
<1> DEFINE s0 == slotOf[t]
<1>1. /\ t \in attached /\ attached' = attached \ {t} /\ slotOf' = slotOf
      /\ slots' = [slots EXCEPT ![s0] = None] /\ free' = Append(free, s0)
      /\ watermark' = watermark
  BY DEF Gives, Leaves, GiveSlotBack
<1>2. s0 \in DOMAIN slots /\ slots[s0] = t /\ s0 \in Nat \ {0}
  BY <1>1 DEF SlotsInv, TableTypes
<1>3. slots' \in Seq(Transports \cup {None}) /\ DOMAIN slots' = DOMAIN slots
  BY <1>1, SlotStored DEF TableTypes
<1>4. slots'[s0] = None /\ \A s \in DOMAIN slots : s # s0 => slots'[s] = slots[s]
  BY <1>1, <1>2
<1>5. /\ Len(free) \in Nat /\ DOMAIN free = 1 .. Len(free) /\ DOMAIN free' = 1 .. Len(free) + 1
      /\ free'[Len(free) + 1] = s0 /\ \A i \in DOMAIN free : free'[i] = free[i]
      /\ free' \in Seq(Nat \ {0})
  BY <1>1, <1>2 DEF TableTypes
<1>6. TableTypes'
  BY <1>1, <1>3, <1>5 DEF TableTypes
<1>7. \A u \in attached' : slotOf'[u] \in DOMAIN slots' /\ slots'[slotOf'[u]] = u
  BY <1>1, <1>2, <1>3, <1>4 DEF SlotsInv
<1>8. \A s \in DOMAIN slots' :
        slots'[s] # None => slots'[s] \in attached' /\ slotOf'[slots'[s]] = s
  BY <1>1, <1>2, <1>3, <1>4 DEF SlotsInv
<1>9. \A i \in DOMAIN free : free[i] # s0
  BY <1>1, <1>2 DEF SlotsInv, TableTypes
<1>10. \A i \in DOMAIN free' : free'[i] \in DOMAIN slots' /\ slots'[free'[i]] = None
  BY <1>2, <1>3, <1>4, <1>5, <1>9 DEF SlotsInv
<1>11. \A i, j \in DOMAIN free' : free'[i] = free'[j] => i = j
  BY <1>5, <1>9 DEF SlotsInv
<1>12. \A s \in DOMAIN slots' : slots'[s] = None => \E i \in DOMAIN free' : free'[i] = s
  <2>1. ASSUME NEW s \in DOMAIN slots', slots'[s] = None, s # s0
        PROVE  \E i \in DOMAIN free' : free'[i] = s
    <3>1. PICK i \in DOMAIN free : free[i] = s
      BY <1>3, <1>4, <2>1 DEF SlotsInv
    <3>2. QED
      BY <1>5, <3>1
  <2>2. \E i \in DOMAIN free' : free'[i] = s0
    BY <1>5
  <2>3. QED
    BY <2>1, <2>2
<1>13. QED
  BY <1>6, <1>7, <1>8, <1>10, <1>11, <1>12 DEF SlotsInv

LEMMA WasteKeepsSlots ==
  ASSUME TableTypes, SlotsInv, NEW t \in Transports, Wastes(t)
  PROVE  TableTypes' /\ SlotsInv'
<1> USE NullAssumption
<1>1. /\ t \notin attached /\ attached' = attached /\ watermark' = watermark
      /\ slotOf' = [slotOf EXCEPT ![t] = NewSlot]
  BY DEF Wastes
<1>2. \A u \in attached : slotOf'[u] = slotOf[u]
  BY <1>1 DEF TableTypes
<1>3. CASE free = <<>>
  <2>1. NewSlot = Len(slots) + 1 /\ slots' = Append(slots, None) /\ free' = <<NewSlot>>
    BY <1>3 DEF Wastes, NewSlot
  <2>2. /\ Len(slots) \in Nat /\ DOMAIN slots = 1 .. Len(slots)
        /\ DOMAIN slots' = 1 .. Len(slots) + 1 /\ slots'[NewSlot] = None
        /\ \A s \in DOMAIN slots : slots'[s] = slots[s]
        /\ slots' \in Seq(Transports \cup {None})
    BY <2>1 DEF TableTypes
  <2>3. NewSlot \in Nat \ {0} /\ DOMAIN free' = {1} /\ free'[1] = NewSlot
          /\ free' \in Seq(Nat \ {0})
    BY <2>1, <2>2
  <2>4. TableTypes'
    BY <1>1, <2>2, <2>3 DEF TableTypes
  <2>5. \A s \in DOMAIN slots : slots[s] # None
    BY <1>3 DEF SlotsInv
  <2>6. SlotsInv'
    BY <1>1, <1>2, <2>1, <2>2, <2>3, <2>5 DEF SlotsInv
  <2>7. QED
    BY <2>4, <2>6
<1>4. CASE free # <<>>
  <2>1. slots' = slots /\ free' = free
    BY <1>4 DEF Wastes
  <2>2. NewSlot \in Nat
    BY <1>4 DEF NewSlot, Last, TableTypes
  <2>3. TableTypes'
    BY <1>1, <2>1, <2>2 DEF TableTypes
  <2>4. \A s \in DOMAIN slots : slots[s] # None => slots[s] \in attached
    BY DEF SlotsInv
  <2>5. SlotsInv'
    BY <1>1, <1>2, <2>1, <2>4 DEF SlotsInv
  <2>6. QED
    BY <2>3, <2>5
<1>5. QED
  BY <1>3, <1>4

\* What free_slots_ holds, counted.
LEMMA SlotsCounted ==
  ASSUME TableTypes, SlotsInv
  PROVE  SlotsSound
<1> DEFINE n == Len(free)
<1>1. n \in Nat /\ DOMAIN free = 1 .. n /\ free \in [1 .. n -> Nat \ {0}]
  BY DEF TableTypes
<1>2. Range(free) = {s \in DOMAIN slots : slots[s] = None}
  BY DEF Range, SlotsInv
<1>3. free \in Bijection(1 .. n, Range(free))
  <2>1. free \in [1 .. n -> Range(free)]
    BY <1>1 DEF Range
  <2>2. IsInjective(free)
    BY DEF SlotsInv, IsInjective
  <2>3. \A x \in Range(free) : \E i \in 1 .. n : free[i] = x
    BY <1>1 DEF Range
  <2>4. QED
    BY <2>1, <2>2, <2>3 DEF Bijection, Injection, Surjection
<1>4. IsFiniteSet(1 .. n) /\ Cardinality(1 .. n) = n
  BY <1>1, FS_Interval
<1>5. Cardinality(Range(free)) = n
  BY <1>3, <1>4, FS_Bijection DEF ExistsBijection
<1>6. QED
  BY <1>2, <1>5 DEF SlotsInv, SlotsSound

\* A finite set of numbers that is not empty has a greatest one.
LEMMA HasMax ==
  ASSUME NEW S \in SUBSET Int, IsFiniteSet(S), S # {}
  PROVE  \E x \in S : \A y \in S : x >= y
<1> DEFINE Bounded(T) == \E x \in T : \A y \in T : x >= y
           Bad == {T \in SUBSET S : T # {} /\ ~Bounded(T)}
<1> SUFFICES ASSUME S \in Bad PROVE FALSE
  OBVIOUS
<1>1. IsWellFoundedOn(StrictSubsetOrdering(S), SUBSET S)
  BY FS_StrictSubsetOrderingWellFounded, FS_FiniteSubsetsOfFinite
<1>2. Bad \subseteq SUBSET S /\ Bad # {}
  OBVIOUS
<1>3. PICK T \in Bad : \A U \in Bad : <<U, T>> \notin StrictSubsetOrdering(S)
  <2> HIDE DEF Bad
  <2>1. \E T \in Bad : \A U \in Bad : ~(<<U, T>> \in StrictSubsetOrdering(S))
    BY <1>1, <1>2, WFMin
  <2>2. QED
    BY <2>1
<1>4. PICK z \in T : TRUE
  OBVIOUS
<1>5. T \ {z} \notin Bad
  <2>1. <<T \ {z}, T>> \in StrictSubsetOrdering(S)
    BY <1>4 DEF StrictSubsetOrdering
  <2>2. QED
    BY <1>3, <2>1
<1>6. CASE T \ {z} = {}
  <2>1. \A y \in T : y = z
    BY <1>6
  <2>2. z >= z
    BY <1>4
  <2>3. QED
    BY <1>4, <2>1, <2>2
<1>7. CASE T \ {z} # {}
  <2>1. PICK x \in T \ {z} : \A y \in T \ {z} : x >= y
    BY <1>5, <1>7
  <2>2. x \in Int /\ z \in Int /\ T \subseteq Int
    BY <1>4, <2>1
  <2>3. CASE x >= z
    BY <2>1, <2>2, <2>3
  <2>4. CASE z >= x
    BY <1>4, <2>1, <2>2, <2>4
  <2>5. QED
    BY <2>2, <2>3, <2>4
<1>8. QED
  BY <1>6, <1>7

\* The watermark after a detach is the highest descriptor that remains.
LEMMA NextHighest ==
  ASSUME TableTypes, WatermarkSound, NEW t \in attached
  PROVE  /\ Select!NextWatermark(t) \in (attached \ {t}) \cup {-1}
         /\ \A u \in attached \ {t} : u <= Select!NextWatermark(t)
<1> USE DescriptorAssumption DEF TableTypes
<1>1. CASE t # watermark
  BY <1>1 DEF WatermarkSound, Select!NextWatermark
<1>2. CASE t = watermark
  <2> DEFINE S == {i \in attached : i < t} \cup {-1}
  <2>1. S \in SUBSET Int /\ S # {} /\ \A u \in attached : u \in Nat
    <3>1. attached \subseteq Nat
      OBVIOUS
    <3>2. \A x \in S : x \in Nat \/ x = -1
      BY <3>1
    <3>3. S \subseteq Int
      <4> HIDE DEF S
      <4>1. QED
        BY <3>2
    <3>4. QED
      BY <3>1, <3>3
  <2>2. IsFiniteSet(S)
    <3>1. {i \in attached : i < t} \in SUBSET Transports
      OBVIOUS
    <3>2. IsFiniteSet({i \in attached : i < t})
      BY <3>1, FS_Subset
    <3>3. QED
      BY <3>2, FS_AddElement
  <2>3. \E x \in S : \A y \in S : x >= y
    BY <2>1, <2>2, HasMax
  <2>4. Select!NextWatermark(t) = Select!Max(S)
    BY <1>2 DEF Select!NextWatermark
  <2>5. Select!Max(S) \in S /\ \A y \in S : Select!Max(S) >= y
    BY <2>3 DEF Select!Max
  <2>6. \A u \in attached \ {t} : u \in S
    BY <1>2, <2>1 DEF WatermarkSound
  <2>7. QED
    BY <2>1, <2>4, <2>5, <2>6
<1>3. QED
  BY <1>1, <1>2

\* Every step keeps the table sound.
LEMMA StepKeepsTable ==
  ASSUME TableInv, TableStep
  PROVE  TableInv'
<1> USE DEF TableInv
<1>0. backend' = backend /\ open' = open /\ HasSlots' = HasSlots
  BY DEF TableStep, HasSlots
<1>1. CASE UNCHANGED <<attached, slotVars, watermark>>
  BY <1>0, <1>1 DEF slotVars, TableTypes, SlotsInv, WatermarkSound
<1>2. ASSUME open, HasSlots, NEW t \in Transports, Takes(t) \/ Gives(t) \/ Wastes(t)
      PROVE  TableInv'
  <2>1. TableTypes' /\ SlotsInv'
    BY <1>2, TakeKeepsSlots, GiveKeepsSlots, WasteKeepsSlots
  <2>2. QED
    BY <1>0, <1>2, <2>1 DEF HasSlots
<1>3. ASSUME open, ~HasSlots, NEW t \in Transports, Enters(t) PROVE TableInv'
  <2>1. /\ attached' = attached \cup {t} /\ UNCHANGED <<slots, free, slotOf>>
        /\ watermark' = IF backend = "select" /\ t > watermark THEN t ELSE watermark
    BY <1>3 DEF Enters, Joins, slotVars
  <2>2. TableTypes'
    BY <2>1 DEF TableTypes
  <2>3. ASSUME backend = "select" PROVE WatermarkSound'
    <3>1. attached \subseteq Nat /\ t \in Nat /\ watermark \in attached \cup {-1}
            /\ \A u \in attached : u <= watermark
      BY <1>3, <2>3, DescriptorAssumption DEF TableTypes, WatermarkSound
    <3>2. watermark' \in attached' \cup {-1}
      BY <2>1, <2>3, <3>1
    <3>3. \A u \in attached' : u <= watermark'
      BY <2>1, <2>3, <3>1
    <3>4. QED
      BY <3>2, <3>3 DEF WatermarkSound
  <2>4. QED
    BY <1>0, <1>3, <2>2, <2>3
<1>4. ASSUME open, ~HasSlots, NEW t \in Transports, Exits(t) PROVE TableInv'
  <2>1. /\ t \in attached /\ attached' = attached \ {t} /\ UNCHANGED <<slots, free, slotOf>>
        /\ watermark' = IF backend = "select" THEN Select!NextWatermark(t) ELSE watermark
    BY <1>4 DEF Exits, Leaves, slotVars
  <2>2. CASE backend = "select"
    <3>1. /\ watermark' \in attached' \cup {-1}
          /\ \A u \in attached' : u <= watermark'
      BY <1>4, <2>1, <2>2, NextHighest
    <3>2. TableTypes'
      BY <2>1, <3>1 DEF TableTypes
    <3>3. QED
      BY <1>0, <1>4, <3>1, <3>2 DEF WatermarkSound
  <2>3. CASE backend # "select"
    <3>1. TableTypes'
      BY <2>1, <2>3 DEF TableTypes
    <3>2. QED
      BY <1>0, <1>4, <2>3, <3>1
  <2>4. QED
    BY <2>2, <2>3
<1>5. QED
  BY <1>1, <1>2, <1>3, <1>4 DEF TableStep, HasSlots

----------------------------------------------------------------------------
(* The entries of a report, while they are handled.                        *)

AllBits == Bits \cup {"Armed"}
Asks == EventBits \cup {"Associated"}

\* The part of the types that operations of a backend determine, and the rest.
OpTypes ==
  /\ detachedOnce \subseteq Transports
  /\ flags \in [Transports -> SUBSET AllBits]
  /\ interest \in [Transports -> SUBSET Asks]
  /\ changed \subseteq Nat /\ moved \in BOOLEAN

ThreadTypes ==
  /\ fd \in [Transports -> {"open", "closed"}]
  /\ backend \in Backends /\ open \in BOOLEAN
  /\ since \subseteq Transports
  /\ pc \in {"idle", "dispatch", "call", "crashed", "undefined"}
  /\ batch \in SUBSET Entries /\ cur \in SUBSET Entries
  /\ call \in Calls \cup {None}

Types == OpTypes /\ ThreadTypes

\* What isFdChanged() decides of any entry, and of the one being handled, which
\* poll() and ports know by its transport.  An entry of a port may be about a
\* transport detached before, but not about one attached since.
EntrySound(e) ==
  /\ HasSlots => e.slot \in DOMAIN slots
  /\ \/ backend = "port" /\ (slots[e.slot] = e.who => e.who \notin since)
     \/ FdChanged(e)
     \/ backend = "poll" /\ slots[e.slot] = None
     \/ Transport(e) = e.who /\ e.who \in attached \ since

CurSound(e) ==
  backend \in {"poll", "port"} =>
    \/ (IF backend = "poll" THEN e.who ELSE e.slot) \in changed
    \/ slots[e.slot] = e.who

EntriesInv ==
  /\ pc = "idle" => since = {} /\ cur = {}
  /\ pc \in {"dispatch", "call"} =>
       /\ open
       /\ \A e \in batch \cup cur : EntrySound(e)
       /\ \A e \in cur : CurSound(e)

\* Nothing is reported of what has no entry in the table.
InterestInv ==
  open => /\ backend = "select" => \A t \in Transports \ attached : interest[t] = {}
          /\ backend = "port" =>
               \A t \in Transports : interest[t] # {} => slotOf[t] \in DOMAIN slots

Inv == TableInv /\ Types /\ EntriesInv /\ InterestInv

\* However the table changes, an entry is marked or stays what it was.
LEMMA EntryKept ==
  ASSUME TableInv, Types, TableStep, NEW e \in Entries, EntrySound(e)
  PROVE  EntrySound(e)' /\ (CurSound(e) => CurSound(e)')
<1> USE NullAssumption
<1> USE DEF EntrySound, CurSound, FdChanged, Transport
<1>0. backend' = backend /\ open' = open /\ HasSlots' = HasSlots
  BY DEF TableStep, HasSlots
<1>e. e.slot \in Nat /\ e.who \in Transports
  BY DEF Entries
<1>1. CASE UNCHANGED <<attached, slotVars, watermark, changed, since>>
  BY <1>0, <1>1 DEF slotVars
<1>2. ASSUME open, HasSlots, NEW t \in Transports, Takes(t)
      PROVE  EntrySound(e)' /\ (CurSound(e) => CurSound(e)')
  <2>1. SlotsInv /\ TableTypes
    BY <1>2 DEF TableInv
  <2>2. /\ t \notin attached /\ attached' = attached \cup {t} /\ since' \subseteq since \cup {t}
        /\ changed' = changed \cup {IF backend \in {"kqueue", "port"} THEN NewSlot ELSE t}
    BY <1>2 DEF Takes, Joins, Marks
  <2>3. /\ e.slot \in DOMAIN slots'
        /\ e.slot # NewSlot => slots'[e.slot] = slots[e.slot]
        /\ e.slot = NewSlot => slots'[e.slot] = t /\ slots[e.slot] = None
    BY <1>2, <2>1, SlotTaken DEF Takes
  <2>4. CASE backend = "poll"
    BY <1>0, <1>2, <1>e, <2>2, <2>3, <2>4 DEF HasSlots
  <2>5. CASE backend \in {"kqueue", "port"}
    <3>1. CASE e.slot = NewSlot
      BY <1>0, <1>2, <1>e, <2>2, <2>3, <2>5, <3>1 DEF HasSlots
    <3>2. CASE e.slot # NewSlot
      <4>1. slots'[e.slot] = slots[e.slot] /\ e.slot \in DOMAIN slots /\ slots[e.slot] # t
        BY <1>2, <1>e, <2>1, <2>2, <2>3, <3>2 DEF SlotsInv
      <4>2. CASE backend = "kqueue"
        BY <1>0, <1>2, <1>e, <2>2, <2>3, <4>1, <4>2 DEF HasSlots
      <4>3. CASE backend = "port"
        BY <1>0, <1>2, <1>e, <2>2, <2>3, <4>1, <4>3 DEF HasSlots
      <4>4. QED
        BY <2>5, <4>2, <4>3
    <3>3. QED
      BY <3>1, <3>2
  <2>6. QED
    BY <1>2, <2>4, <2>5 DEF HasSlots
<1>3. ASSUME open, HasSlots, NEW t \in Transports, Gives(t)
      PROVE  EntrySound(e)' /\ (CurSound(e) => CurSound(e)')
  <2>1. SlotsInv /\ TableTypes
    BY <1>3 DEF TableInv
  <2>2. /\ t \in attached /\ attached' = attached \ {t} /\ since' = since
        /\ changed' = changed \cup {IF backend \in {"kqueue", "port"} THEN slotOf[t] ELSE t}
        /\ slots' = [slots EXCEPT ![slotOf[t]] = None]
    BY <1>3 DEF Gives, Leaves, Marks, GiveSlotBack
  <2>3. slotOf[t] \in DOMAIN slots /\ slots[slotOf[t]] = t
    BY <2>1, <2>2 DEF SlotsInv
  <2>4. /\ DOMAIN slots' = DOMAIN slots
        /\ e.slot # slotOf[t] => slots'[e.slot] = slots[e.slot]
        /\ e.slot = slotOf[t] => slots[e.slot] = t /\ slots'[e.slot] = None
    BY <1>3, <2>2, <2>3
  <2>5. e.slot # slotOf[t] => slots[e.slot] # t
    BY <1>3, <2>1 DEF SlotsInv
  <2>6. CASE backend = "poll"
    BY <1>0, <1>3, <1>e, <2>2, <2>4, <2>5, <2>6 DEF HasSlots
  <2>7. CASE backend \in {"kqueue", "port"}
    BY <1>0, <1>3, <1>e, <2>2, <2>4, <2>5, <2>7 DEF HasSlots
  <2>8. QED
    BY <1>3, <2>6, <2>7 DEF HasSlots
<1>4. ASSUME open, backend \in {"kqueue", "port"}, NEW t \in Transports, Wastes(t)
      PROVE  EntrySound(e)' /\ (CurSound(e) => CurSound(e)')
  <2>1. /\ attached' = attached /\ since' = since /\ changed' = changed \cup {NewSlot}
        /\ slots' = IF free = <<>> THEN Append(slots, None) ELSE slots
    BY <1>4 DEF Wastes
  <2>2. slots \in Seq(Transports \cup {None})
    BY DEF TableInv, TableTypes
  <2>3. e.slot \in DOMAIN slots => e.slot \in DOMAIN slots' /\ slots'[e.slot] = slots[e.slot]
    BY <2>1, <2>2
  <2>4. QED
    BY <1>0, <1>4, <1>e, <2>1, <2>3 DEF HasSlots
<1>5. ASSUME open, ~HasSlots, NEW t \in Transports, Enters(t) \/ Exits(t)
      PROVE  EntrySound(e)' /\ (CurSound(e) => CurSound(e)')
  <2>1. /\ slots' = slots
        /\ changed' = changed \cup {t}
        /\ \/ t \notin attached /\ attached' = attached \cup {t} /\ since' \subseteq since \cup {t}
           \/ t \in attached /\ attached' = attached \ {t} /\ since' = since
    BY <1>5 DEF Enters, Exits, Joins, Leaves, Marks, slotVars, HasSlots
  <2>2. QED
    BY <1>0, <1>5, <1>e, <2>1 DEF HasSlots
<1>6. QED
  BY <1>1, <1>2, <1>3, <1>4, <1>5 DEF TableStep

\* A step that handles entries, or that a user makes.
Serves ==
  /\ pc' = "idle" => pc = "idle" /\ since' = since /\ cur' = cur
  /\ pc' \in {"dispatch", "call"} =>
       /\ pc \in {"dispatch", "call"}
       /\ batch' \subseteq batch
       /\ \A e \in cur' : e \in Entries /\ EntrySound(e) /\ CurSound(e)

LEMMA ServiceKeepsInv ==
  ASSUME Inv, TableStep, Serves, Types', InterestInv'
  PROVE  Inv'
<1>1. TableInv'
  BY StepKeepsTable DEF Inv
<1>2. pc' = "idle" => since' = {} /\ cur' = {}
  BY DEF Inv, EntriesInv, Serves
<1>3. ASSUME pc' \in {"dispatch", "call"}
      PROVE  /\ open'
             /\ \A e \in batch' \cup cur' : EntrySound(e)'
             /\ \A e \in cur' : CurSound(e)'
  <2>1. open' = open /\ open
    BY <1>3 DEF TableStep, Serves, Inv, EntriesInv
  <2>2. \A e \in batch' : e \in Entries /\ EntrySound(e)
    BY <1>3 DEF Serves, Inv, EntriesInv, Types, ThreadTypes
  <2>3. \A e \in cur' : e \in Entries /\ EntrySound(e) /\ CurSound(e)
    BY <1>3 DEF Serves
  <2>4. \A e \in Entries : EntrySound(e) => EntrySound(e)' /\ (CurSound(e) => CurSound(e)')
    BY EntryKept DEF Inv
  <2>5. QED
    BY <2>1, <2>2, <2>3, <2>4
<1>4. EntriesInv'
  BY <1>2, <1>3 DEF EntriesInv
<1>5. QED
  BY <1>1, <1>4 DEF Inv

----------------------------------------------------------------------------
(* What the operations of every backend come to.                           *)

OthersAlone(t) == \A u \in Transports \ {t} : interest'[u] = interest[u]
OthersFlags(t) == \A u \in Transports \ {t} : flags'[u] = flags[u]

AttachEffect(t, bits) ==
  /\ OpTypes' /\ OthersAlone(t) /\ OthersFlags(t)
  /\ attached' = attached \cup {t}
  /\ IF HasSlots
       THEN TakeSlot(t) /\ Marks(t, NewSlot) /\ UNCHANGED watermark
       ELSE /\ UNCHANGED slotVars /\ Marks(t, t)
            /\ watermark' = IF backend = "select" /\ t > watermark THEN t ELSE watermark

DetachEffect(t) ==
  /\ OpTypes' /\ OthersAlone(t) /\ OthersFlags(t)
  /\ backend = "select" => interest'[t] = {}
  /\ attached' = attached \ {t}
  /\ IF HasSlots
       THEN GiveSlotBack(t) /\ Marks(t, slotOf[t]) /\ UNCHANGED watermark
       ELSE /\ UNCHANGED slotVars /\ Marks(t, t)
            /\ watermark' = IF backend = "select" THEN Select!NextWatermark(t) ELSE watermark

ChangeEffect(t, bits) ==
  /\ OpTypes' /\ OthersAlone(t) /\ OthersFlags(t)
  /\ \A m \in ModeBits : m \in flags'[t] <=> m \in flags[t] \cup bits
  /\ UNCHANGED <<attached, slotVars, changed, watermark>>

\* A step that leaves the table alone.
Quiet ==
  /\ UNCHANGED <<attached, slotVars, changed, watermark, since, backend, open>>
  /\ \A t \in Transports : interest'[t] # {} => interest[t] # {} \/ t \in attached

LEMMA QuietStep ==
  ASSUME Inv, Quiet
  PROVE  TableStep /\ InterestInv'
<1>1. TableStep
  BY DEF Quiet, TableStep
<1>2. InterestInv'
  <2>1. /\ UNCHANGED <<attached, slots, slotOf, backend, open>>
        /\ \A t \in Transports : interest'[t] # {} => interest[t] # {} \/ t \in attached
    BY DEF Quiet, slotVars
  <2>2. open /\ backend = "port" => \A t \in attached : slotOf[t] \in DOMAIN slots
    BY DEF Inv, TableInv, HasSlots, SlotsInv
  <2>3. QED
    BY <2>1, <2>2 DEF Inv, InterestInv
<1>3. QED
  BY <1>1, <1>2

LEMMA AttachStep ==
  ASSUME Inv, open, NEW t \in Transports \ attached, NEW bits, AttachEffect(t, bits),
         UNCHANGED <<backend, open>>, since' \subseteq since \cup {t}, pc = "idle" => since' = since
  PROVE  TableStep /\ InterestInv'
<1>1. TableStep
  BY DEF TableStep, Takes, Enters, Joins, AttachEffect
<1>2. CASE HasSlots
  <2>1. \A u \in Transports : u # t /\ slotOf[u] \in DOMAIN slots =>
          slotOf'[u] \in DOMAIN slots'
    BY <1>2, SlotTaken DEF AttachEffect, Inv, TableInv, TableTypes
  <2>2. slotOf'[t] \in DOMAIN slots'
    BY <1>2, SlotTaken DEF AttachEffect, Inv, TableInv, TableTypes
  <2>3. QED
    BY <1>1, <1>2, <2>1, <2>2 DEF Inv, InterestInv, AttachEffect, OthersAlone, HasSlots
<1>3. CASE ~HasSlots
  BY <1>1, <1>3 DEF Inv, InterestInv, AttachEffect, OthersAlone, HasSlots
<1>4. QED
  BY <1>2, <1>3

LEMMA DetachStep ==
  ASSUME Inv, open, NEW t \in attached, DetachEffect(t), UNCHANGED <<backend, open, since>>
  PROVE  TableStep /\ InterestInv'
<1>0. t \in Transports /\ slots \in Seq(Transports \cup {None})
  BY DEF Inv, TableInv, TableTypes
<1>1. TableStep
  BY <1>0 DEF TableStep, Gives, Exits, Leaves, DetachEffect
<1>2. CASE HasSlots
  <2>1. slotOf' = slotOf /\ DOMAIN slots' = DOMAIN slots
    BY <1>2 DEF DetachEffect, GiveSlotBack
  <2>2. slotOf[t] \in DOMAIN slots
    BY <1>2 DEF Inv, TableInv, SlotsInv
  <2>3. QED
    BY <1>1, <1>2, <2>1, <2>2 DEF Inv, InterestInv, DetachEffect, OthersAlone, HasSlots
<1>3. CASE ~HasSlots
  BY <1>1, <1>3 DEF Inv, InterestInv, DetachEffect, OthersAlone, HasSlots
<1>4. QED
  BY <1>2, <1>3

UserDoes == UserSteps(AttachEffect, DetachEffect, ChangeEffect)

LEMMA UserKeepsInv ==
  ASSUME Inv
  PROVE  /\ \A t \in Transports :
              /\ \A mode, bits : Attach(t, mode, AttachEffect(t, bits)) => Inv'
              /\ \A bits : ChangeTo(t, bits, ChangeEffect(t, bits)) => Inv'
              /\ Detach(t, DetachEffect(t)) => Inv'
              /\ Close(t, DetachEffect(t)) => Inv'
              /\ Create(t) => Inv'
         /\ Shutdown => Inv'
<1> DEFINE Aside == UNCHANGED <<backend, open, pc, batch, cur, call>>
<1>0. Aside /\ (pc = "idle" => since' = since) => Serves
  BY DEF Inv, EntriesInv, Serves, Types, ThreadTypes
<1>a. ASSUME Aside, since' \subseteq Transports, fd' \in [Transports -> {"open", "closed"}]
      PROVE  ThreadTypes'
  BY <1>a DEF Inv, Types, ThreadTypes, Entries, Calls
<1>b. /\ fd \in [Transports -> {"open", "closed"}] /\ since \subseteq Transports
      /\ attached \subseteq Transports
  BY DEF Inv, Types, ThreadTypes, TableInv, TableTypes
<1>1. ASSUME NEW t \in Transports, NEW mode, NEW bits, Attach(t, mode, AttachEffect(t, bits))
      PROVE  Inv'
  <2>1. /\ open /\ t \notin attached /\ AttachEffect(t, bits) /\ fd' = fd /\ Aside
        /\ since' = IF pc = "idle" THEN since ELSE since \cup {t}
    BY <1>1 DEF Attach, UserMay, AttachRefused, pollVars
  <2>2. TableStep /\ InterestInv'
    BY <2>1, AttachStep
  <2>3. Types'
    <3>1. since' \subseteq Transports
      BY <1>b, <2>1
    <3>2. QED
      BY <1>a, <1>b, <2>1, <3>1 DEF AttachEffect, Types
  <2>4. QED
    BY <1>0, <2>1, <2>2, <2>3, ServiceKeepsInv
<1>2. ASSUME NEW t \in Transports, NEW bits, ChangeTo(t, bits, ChangeEffect(t, bits))
      PROVE  Inv'
  <2>1. /\ t \in attached /\ ChangeEffect(t, bits) /\ fd' = fd /\ since' = since /\ Aside
    BY <1>2 DEF ChangeTo, ChangeRefused, pollVars
  <2>2. TableStep /\ InterestInv'
    BY <2>1, QuietStep DEF Quiet, ChangeEffect, OthersAlone
  <2>3. Types'
    BY <1>a, <1>b, <2>1 DEF ChangeEffect, Types
  <2>4. QED
    BY <1>0, <2>1, <2>2, <2>3, ServiceKeepsInv
<1>3. ASSUME NEW t \in Transports, Detach(t, DetachEffect(t)) PROVE Inv'
  <2>1. /\ open /\ t \in attached /\ DetachEffect(t) /\ fd' = fd /\ since' = since /\ Aside
    BY <1>3 DEF Detach, UserMay, pollVars
  <2>2. TableStep /\ InterestInv'
    BY <2>1, DetachStep
  <2>3. Types'
    BY <1>a, <1>b, <2>1 DEF DetachEffect, Types
  <2>4. QED
    BY <1>0, <2>1, <2>2, <2>3, ServiceKeepsInv
<1>4. ASSUME NEW t \in Transports, Close(t, DetachEffect(t)) PROVE Inv'
  <2>1. /\ open /\ fd' \in [Transports -> {"open", "closed"}] /\ since' = since /\ Aside
    BY <1>4, <1>b DEF Close, UserMay, pollVars
  <2>2. CASE t \in attached
    <3>1. DetachEffect(t)
      BY <1>4, <2>2 DEF Close
    <3>2. TableStep /\ InterestInv'
      BY <2>1, <2>2, <3>1, DetachStep
    <3>3. Types'
      BY <1>a, <1>b, <2>1, <3>1 DEF DetachEffect, Types
    <3>4. QED
      BY <1>0, <2>1, <3>2, <3>3, ServiceKeepsInv
  <2>3. CASE t \notin attached
    <3>1. UNCHANGED <<attached, flags, detachedOnce, slotVars, changed, interest, watermark, moved>>
      BY <1>4, <2>3 DEF Close, tableVars
    <3>2. TableStep /\ InterestInv'
      BY <2>1, <3>1, QuietStep DEF Quiet
    <3>3. Types'
      BY <1>a, <1>b, <2>1, <3>1 DEF Inv, Types, OpTypes
    <3>4. QED
      BY <1>0, <2>1, <3>2, <3>3, ServiceKeepsInv
  <2>4. QED
    BY <2>2, <2>3
<1>5. ASSUME NEW t \in Transports, Create(t) PROVE Inv'
  <2>1. /\ fd' = [fd EXCEPT ![t] = "open"] /\ since' = since /\ Aside
        /\ flags' = [flags EXCEPT ![t] = {}] /\ interest' = [interest EXCEPT ![t] = {}]
        /\ detachedOnce' = detachedOnce \ {t}
        /\ UNCHANGED <<attached, slotVars, changed, watermark, moved>>
    BY <1>5 DEF Create, pollVars
  <2>2. OpTypes'
    BY <2>1 DEF Inv, Types, OpTypes
  <2>3. Quiet
    BY <2>1 DEF Quiet, Inv, Types, OpTypes
  <2>4. TableStep /\ InterestInv'
    BY <2>3, QuietStep
  <2>5. fd' \in [Transports -> {"open", "closed"}]
    BY <1>b, <2>1
  <2>6. Types'
    BY <1>a, <1>b, <2>1, <2>2, <2>5 DEF Types
  <2>7. QED
    BY <1>0, <2>1, <2>4, <2>6, ServiceKeepsInv
<1>6. CASE Shutdown
  <2>1. /\ open' = FALSE /\ pc = "idle" /\ attached' = {} /\ fd' = fd
        /\ flags' = [t \in Transports |-> IF t \in attached THEN flags[t] \ UserBits ELSE flags[t]]
        /\ detachedOnce' = detachedOnce \cup attached
        /\ UNCHANGED <<backend, slots, free, slotOf, changed, interest, watermark, moved,
                       since, pc, batch, cur, call>>
    BY <1>6 DEF Shutdown, TransportDetach, tableVars, slotVars, pollVars
  <2>2. TableInv'
    BY <2>1 DEF Inv, TableInv, TableTypes
  <2>3. OpTypes'
    BY <1>b, <2>1 DEF Inv, Types, OpTypes
  <2>4. ThreadTypes'
    BY <2>1 DEF Inv, Types, ThreadTypes
  <2>5. EntriesInv' /\ InterestInv'
    BY <2>1 DEF Inv, EntriesInv, InterestInv
  <2>6. QED
    BY <2>2, <2>3, <2>4, <2>5 DEF Inv, Types
<1>7. QED
  BY <1>1, <1>2, <1>3, <1>4, <1>5, <1>6

LEMMA UserDoesKeepInv ==
  ASSUME Inv, UserDoes
  PROVE  Inv'
BY UserKeepsInv DEF UserDoes, UserSteps

----------------------------------------------------------------------------
(* What the polling thread does, with every backend.                       *)

LEMMA HandledKeepsInv ==
  ASSUME Inv, pc \in {"dispatch", "call"}, pc' \in {"dispatch", "call", "crashed", "undefined"},
         TableStep, InterestInv', OpTypes', UNCHANGED <<fd, since>>, call' \in Calls \cup {None},
         batch' \subseteq batch, \A e \in cur' : e \in Entries /\ EntrySound(e) /\ CurSound(e)
  PROVE  Inv'
<1>1. Serves
  BY DEF Serves
<1>2. Types'
  BY DEF Inv, Types, ThreadTypes, TableStep
<1>3. QED
  BY <1>1, <1>2, ServiceKeepsInv

LEMMA CurIsSound ==
  ASSUME Inv, pc \in {"dispatch", "call"}
  PROVE  /\ \A e \in cur : e \in Entries /\ EntrySound(e) /\ CurSound(e)
         /\ \A e \in batch : e \in Entries /\ EntrySound(e)
         /\ open
BY DEF Inv, EntriesInv, Types, ThreadTypes

LEMMA SkipKeepsInv ==
  ASSUME Inv, NEW e, AtHand(e), Skip(e)
  PROVE  Inv'
<1>1. /\ pc = "dispatch" /\ pc' = pc /\ call' = call /\ fd' = fd /\ since' = since
      /\ batch' = batch \ {e} /\ cur' = {}
      /\ UNCHANGED <<attached, flags, detachedOnce, backend, open, slotVars, changed,
                     interest, watermark, moved>>
  BY DEF AtHand, Skip, Consume, transportVars, tableVars
<1>2. TableStep /\ InterestInv'
  BY <1>1, QuietStep DEF Quiet
<1>3. OpTypes' /\ call' \in Calls \cup {None}
  BY <1>1 DEF Inv, Types, OpTypes, ThreadTypes
<1>4. QED
  BY <1>1, <1>2, <1>3, HandledKeepsInv

LEMMA FailsKeepsInv ==
  ASSUME Inv, pc = "dispatch", NEW outcome \in {"crashed", "undefined"}, Fails(outcome)
  PROVE  Inv'
<1>1. /\ pc' = outcome /\ call' = call /\ fd' = fd /\ since' = since
      /\ batch' = batch /\ cur' = cur
      /\ UNCHANGED <<attached, flags, detachedOnce, backend, open, slotVars, changed,
                     interest, watermark, moved>>
  BY DEF Fails, transportVars, tableVars
<1>2. TableStep /\ InterestInv'
  BY <1>1, QuietStep DEF Quiet
<1>3. OpTypes' /\ call' \in Calls \cup {None}
  BY <1>1 DEF Inv, Types, OpTypes, ThreadTypes
<1>4. QED
  BY <1>1, <1>2, <1>3, HandledKeepsInv, CurIsSound

LEMMA HangupKeepsInv ==
  ASSUME Inv, NEW e, AtHand(e), NEW t \in attached, ReportHangup(e, t, DetachEffect(t))
  PROVE  Inv'
<1>0. t \in Transports
  BY DEF Inv, TableInv, TableTypes
<1>1. /\ pc = "dispatch" /\ pc' = "call" /\ call' = [to |-> t, kind |-> "hangup"]
      /\ batch' = batch \ {e} /\ cur' = {} /\ DetachEffect(t)
      /\ UNCHANGED <<fd, backend, open, since>>
  BY DEF AtHand, ReportHangup, Calls1, Consume
<1>2. TableStep /\ InterestInv'
  BY <1>1, CurIsSound, DetachStep
<1>3. OpTypes' /\ call' \in Calls \cup {None}
  BY <1>0, <1>1 DEF DetachEffect, Calls
<1>4. QED
  BY <1>1, <1>2, <1>3, HandledKeepsInv

LEMMA ReturnKeepsInv ==
  ASSUME Inv, Return
  PROVE  Inv'
<1>1. /\ pc = "call" /\ pc' = "dispatch" /\ call' = None /\ fd' = fd /\ since' = since
      /\ batch' = batch /\ cur' = cur
      /\ UNCHANGED <<attached, flags, detachedOnce, backend, open, slotVars, changed,
                     interest, watermark, moved>>
  BY DEF Return, transportVars, tableVars
<1>2. TableStep /\ InterestInv'
  BY <1>1, QuietStep DEF Quiet
<1>3. OpTypes' /\ call' \in Calls \cup {None}
  BY <1>1 DEF Inv, Types, OpTypes
<1>4. QED
  BY <1>1, <1>2, <1>3, HandledKeepsInv, CurIsSound

\* Between polls, only the marks change.
LEMMA IdleKeepsInv ==
  ASSUME Inv, pc' = "idle", since' = {}, cur' = {}, batch' = batch, changed' \subseteq changed,
         moved' \in BOOLEAN, call' = call,
         UNCHANGED <<transportVars, backend, open, slotVars, interest, watermark>>
  PROVE  Inv'
<1>1. TableInv' /\ InterestInv'
  BY DEF Inv, TableInv, TableTypes, SlotsInv, HasSlots, WatermarkSound, InterestInv, slotVars,
         transportVars
<1>2. Types'
  BY DEF Inv, Types, OpTypes, ThreadTypes, transportVars
<1>3. EntriesInv'
  BY DEF EntriesInv
<1>4. QED
  BY <1>1, <1>2, <1>3 DEF Inv

LEMMA EndKeepsInv ==
  ASSUME Inv, EndPoll
  PROVE  Inv'
<1>1. /\ pc' = "idle" /\ since' = {} /\ cur' = {} /\ batch' = batch /\ changed' \subseteq changed
      /\ moved' \in BOOLEAN /\ call' = call
      /\ UNCHANGED <<transportVars, backend, open, slotVars, interest, watermark>>
  BY DEF EndPoll
<1>2. QED
  BY <1>1, IdleKeepsInv

LEMMA TimeOutKeepsInv ==
  ASSUME Inv, pc = "idle", changed' = {},
         UNCHANGED <<transportVars, backend, open, slotVars, interest, watermark, moved,
                     since, pollVars>>
  PROVE  Inv'
<1>1. since = {} /\ cur = {} /\ moved \in BOOLEAN
  BY DEF Inv, EntriesInv, Types, OpTypes
<1>2. /\ pc' = "idle" /\ since' = {} /\ cur' = {} /\ batch' = batch /\ changed' \subseteq changed
      /\ moved' \in BOOLEAN /\ call' = call
  BY <1>1 DEF pollVars
<1>3. QED
  BY <1>2, IdleKeepsInv

\* The steps that are the same with every backend, up to what it does in a detach.
TimesOut ==
  /\ pc = "idle" /\ changed' = {}
  /\ UNCHANGED <<transportVars, backend, open, slotVars, interest, watermark, moved, since,
                 pollVars>>
Skipped(e) == AtHand(e) /\ Skip(e)
HungUp(e) ==
  /\ AtHand(e) /\ e.who \in Dispatched
  /\ e.ev = {} \/ e.ev \cap {"hup", "err"} # {} \/ TestsEdge
  /\ ReportHangup(e, e.who, DetachEffect(e.who))
Failed == pc = "dispatch" /\ \E outcome \in {"crashed", "undefined"} : Fails(outcome)

Shared ==
  \/ UserDoes
  \/ TimesOut
  \/ \E e : Skipped(e) \/ HungUp(e)
  \/ Failed
  \/ Return
  \/ EndPoll

LEMMA SharedKeepsInv ==
  ASSUME Inv, Shared
  PROVE  Inv'
<1>1. CASE UserDoes
  BY <1>1, UserDoesKeepInv
<1>2. CASE TimesOut
  BY <1>2, TimeOutKeepsInv DEF TimesOut
<1>3. ASSUME NEW e, Skipped(e) PROVE Inv'
  BY <1>3, SkipKeepsInv DEF Skipped
<1>4. ASSUME NEW e, HungUp(e) PROVE Inv'
  BY <1>4, HangupKeepsInv DEF HungUp, Dispatched
<1>5. CASE Failed
  BY <1>5, FailsKeepsInv DEF Failed
<1>6. QED
  BY <1>1, <1>2, <1>3, <1>4, <1>5, ReturnKeepsInv, EndKeepsInv DEF Shared

\* What is reported is about registrations that are there.
Fresh(e) ==
  /\ HasSlots => e.slot \in DOMAIN slots
  /\ backend # "port" => Transport(e) = e.who /\ e.who \in attached

LEMMA ReportsKeepInv ==
  ASSUME Inv, NEW entries \in SUBSET Entries, Reports(entries), \A e \in entries : Fresh(e),
         interest' \in [Transports -> SUBSET Asks],
         \A t \in Transports : interest'[t] # {} => interest[t] # {},
         UNCHANGED <<transportVars, backend, open, slotVars, watermark, moved, since, cur, call>>
  PROVE  Inv'
<1>1. /\ open /\ pc = "idle" /\ pc' = "dispatch" /\ batch' = entries /\ changed' = {}
      /\ UNCHANGED <<fd, attached, flags, detachedOnce, slots, free, slotOf>>
  BY DEF Reports, transportVars, slotVars
<1>2. since = {} /\ cur = {}
  BY <1>1 DEF Inv, EntriesInv
<1>3. TableInv' /\ InterestInv'
  BY <1>1 DEF Inv, TableInv, TableTypes, SlotsInv, HasSlots, WatermarkSound, InterestInv
<1>4. Types'
  BY <1>1 DEF Inv, Types, OpTypes, ThreadTypes
<1>5. \A e \in entries : EntrySound(e)'
  BY <1>1, <1>2 DEF Fresh, EntrySound, HasSlots, Transport
<1>6. EntriesInv'
  BY <1>1, <1>2, <1>5 DEF EntriesInv
<1>7. QED
  BY <1>3, <1>4, <1>6 DEF Inv

\* The bits that users ask for are bits of flags_.
LEMMA UsedBits ==
  ASSUME Inv, NEW t \in Transports, NEW events \in UsedEvents[t]
  PROVE  /\ \A mode \in UsedModes[t] : events \cup ModeFlags(mode) \in SUBSET AllBits
         /\ \A bits \in {events, flags[t] \cup events, flags[t] \ events} : bits \in SUBSET AllBits
<1>1. events \subseteq AllBits
  BY AskedAssumption DEF AllBits, Bits
<1>2. \A mode \in UsedModes[t] : ModeFlags(mode) \subseteq AllBits
  BY AskedAssumption DEF AllBits, Bits, Modes, ModeBits, ModeFlags
<1>3. flags[t] \subseteq AllBits
  BY DEF Inv, Types, OpTypes
<1>4. QED
  BY <1>1, <1>2, <1>3

\* What is particular to a backend, of what users may cause.
LEMMA ChangeFailsKeepsInv ==
  ASSUME Inv, UserMay, Quiet, OpTypes', UNCHANGED <<fd, pollVars>>
  PROVE  Inv'
<1>1. TableStep /\ InterestInv'
  BY QuietStep
<1>2. Types'
  BY DEF Inv, Types, ThreadTypes, Quiet, pollVars
<1>3. Serves
  BY DEF Serves, Inv, EntriesInv, Types, ThreadTypes, pollVars, Quiet
<1>4. QED
  BY <1>1, <1>2, <1>3, ServiceKeepsInv

LEMMA AttachFailsKeepsInv ==
  ASSUME Inv, UserMay, backend \in {"kqueue", "port"}, NEW t \in Transports, Wastes(t),
         OpTypes', OthersAlone(t), UNCHANGED <<fd, backend, open, pollVars>>
  PROVE  Inv'
<1>1. TableStep
  BY DEF TableStep, UserMay
<1>2. open /\ TableTypes /\ SlotsInv
  BY DEF UserMay, Inv, TableInv, HasSlots
<1>3. InterestInv'
  <2>1. /\ slotOf' = [slotOf EXCEPT ![t] = NewSlot] /\ slotOf \in [Transports -> Nat]
        /\ slots \in Seq(Transports \cup {None})
        /\ slots' = IF free = <<>> THEN Append(slots, None) ELSE slots
    BY <1>2 DEF Wastes, TableTypes
  <2>2. DOMAIN slots \subseteq DOMAIN slots'
    BY <2>1
  <2>3. NewSlot \in DOMAIN slots'
    <3>1. CASE free = <<>>
      BY <2>1, <3>1 DEF NewSlot
    <3>2. CASE free # <<>>
      <4>1. Len(free) \in DOMAIN free /\ NewSlot = free[Len(free)]
        BY <1>2, <3>2 DEF NewSlot, Last, TableTypes
      <4>2. QED
        BY <1>2, <2>1, <3>2, <4>1 DEF SlotsInv
    <3>3. QED
      BY <3>1, <3>2
  <2>4. QED
    BY <2>1, <2>2, <2>3 DEF Inv, InterestInv, OthersAlone
<1>4. Types'
  BY DEF Inv, Types, ThreadTypes, Wastes, pollVars
<1>5. Serves
  BY DEF Serves, Inv, EntriesInv, Types, ThreadTypes, pollVars, Wastes
<1>6. QED
  BY <1>1, <1>3, <1>4, <1>5, ServiceKeepsInv
----------------------------------------------------------------------------
(* What listeners are told (ImplementsDispatcher).  The steps of every     *)
(* backend are one of a few acts, and each act is a step of IODispatcher.  *)

Pending == batch \cup cur

\* What a backend may look for in an entry is there.
Shaped(e) ==
  /\ backend # "port" => e.ev # {}
  /\ backend = "select" => e.ev \subseteq {"in", "out"}
  /\ backend = "devpoll" => "hup" \notin e.ev
  /\ backend = "kqueue" => \A c, d \in e.ev : c = d

\* At most one entry is at hand, no condition of a transport is in two entries, and
\* no entry outlives the dispatch, nor a call its listener.
ReportInv ==
  /\ pc \in {"idle", "dispatch"} => call = None
  /\ pc = "idle" => batch = {}
  /\ \A e, f \in cur : e = f
  /\ \A e, f \in Pending : e # f /\ e.who = f.who => e.ev \cap f.ev = {}
  /\ \A e \in Pending : Shaped(e)
  /\ \A t \in attached : fd[t] = "open"

SameBits(t, bits) == \A b \in bits : b \in flags'[t] <=> b \in flags[t]
KeepsOpen ==
  \A t \in attached' : IF t \in attached THEN fd'[t] = fd[t] ELSE fd'[t] = "open"

\* Users, and what concerns nobody attached.
Unheard == UNCHANGED <<attached, since>> /\ \A t \in attached : flags'[t] = flags[t]
Alters(t) ==
  /\ t \in attached /\ UNCHANGED <<attached, since>>
  /\ OthersFlags(t) /\ SameBits(t, ModeBits)
Begins(t) ==
  /\ t \in Transports \ attached /\ attached' = attached \cup {t} /\ OthersFlags(t)
  /\ since' = IF pc = "idle" THEN since ELSE since \cup {t}
Finishes(t) ==
  t \in attached /\ attached' = attached \ {t} /\ OthersFlags(t) /\ UNCHANGED since
FinishesAll == pc = "idle" /\ attached' = {} /\ UNCHANGED since

UserActs ==
  /\ UNCHANGED pollVars
  /\ \/ Unheard
     \/ \E t \in Transports : Alters(t) \/ Begins(t) \/ Finishes(t)
     \/ FinishesAll

\* The polling thread: an entry is handled, and may leave a part of it.
Handles(e) ==
  /\ AtHand(e) /\ e \in Entries /\ batch' = batch \ {e}
  /\ \A r \in cur' : r.who = e.who /\ r.ev \subseteq e.ev /\ Shaped(r)
  /\ \A r, s \in cur' : r = s

Passes(e) ==
  /\ Handles(e) /\ UNCHANGED <<attached, since, pc, call>>
  /\ \A t \in Transports : SameBits(t, EventBits \cup ModeBits)

Announces(e, c) ==
  LET t == e.who
  IN /\ Handles(e) /\ c \in e.ev \cap {"in", "out"} /\ t \in Dispatched
     /\ \A r \in cur' : c \notin r.ev
     /\ call' = [to |-> t, kind |-> Kind(c)] /\ pc' = "call"
     /\ UNCHANGED <<attached, since>>
     /\ OthersFlags(t) /\ SameBits(t, (EventBits \cup ModeBits) \ {Bit(c)})
     /\ Bit(c) \in flags'[t] => Bit(c) \in flags[t]
     /\ t \in Level => Bit(c) \in flags'[t]

HangsUp(e) ==
  LET t == e.who
  IN /\ Handles(e) /\ cur' = {} /\ t \in Dispatched
     /\ e.ev \cap {"hup", "err"} # {} \/ TestsEdge
     /\ call' = [to |-> t, kind |-> "hangup"] /\ pc' = "call"
     /\ attached' = attached \ {t} /\ OthersFlags(t) /\ UNCHANGED since

\* What is reported of transports attached is asked for.
Brings(entries) ==
  /\ pc = "idle" /\ pc' = "dispatch" /\ batch' = entries /\ UNCHANGED cur
  /\ UNCHANGED <<attached, since, flags, call>>
  /\ \A e \in entries :
       /\ Shaped(e)
       /\ e.who \in attached => \A c \in e.ev \cap {"in", "out"} : Bit(c) \in flags[e.who]
  /\ \A e, f \in entries : e # f /\ e.who = f.who => e.ev \cap f.ev = {}

Stays == UNCHANGED <<attached, flags, batch, cur>>
Resumes == pc = "call" /\ pc' = "dispatch" /\ call' = None /\ UNCHANGED since /\ Stays
Ends ==
  pc = "dispatch" /\ Pending = {} /\ pc' = "idle" /\ since' = {} /\ UNCHANGED call /\ Stays
Stops == pc' \in {"crashed", "undefined"} /\ UNCHANGED <<since, call>> /\ Stays

ThreadActs ==
  \/ \E e \in Pending : Passes(e) \/ HangsUp(e) \/ \E c \in {"in", "out"} : Announces(e, c)
  \/ \E entries \in SUBSET Entries : Brings(entries)
  \/ Resumes \/ Ends \/ Stops

Acts == UNCHANGED backend /\ KeepsOpen /\ (UserActs \/ ThreadActs)

\* What users do.
LEMMA UserDoesAct ==
  ASSUME Inv, ReportInv, UserDoes
  PROVE  Acts
<1>1. attached \subseteq Transports /\ \A t \in attached : fd[t] = "open"
  BY DEF Inv, TableInv, TableTypes, ReportInv
<1>2. ASSUME NEW t \in Transports, NEW mode, NEW bits,
             Attach(t, mode, AttachEffect(t, bits))
      PROVE  Acts
  <2>1. /\ t \notin attached /\ fd[t] = "open" /\ AttachEffect(t, bits)
        /\ since' = IF pc = "idle" THEN since ELSE since \cup {t}
        /\ UNCHANGED <<backend, fd, pollVars>>
    BY <1>2 DEF Attach, AttachRefused
  <2>2. attached' = attached \cup {t} /\ OthersFlags(t)
    BY <2>1 DEF AttachEffect
  <2>3. KeepsOpen
    BY <2>1, <2>2 DEF KeepsOpen
  <2>4. Begins(t)
    BY <2>1, <2>2 DEF Begins
  <2>5. QED
    BY <2>1, <2>3, <2>4 DEF Acts, UserActs
<1>3. ASSUME NEW t \in Transports, NEW events \in UsedEvents[t],
             NEW bits \in {events, flags[t] \cup events, flags[t] \ events},
             ChangeTo(t, bits, ChangeEffect(t, bits))
      PROVE  Acts
  <2>1. t \in attached /\ ChangeEffect(t, bits) /\ UNCHANGED <<backend, fd, since, pollVars>>
    BY <1>3 DEF ChangeTo, ChangeRefused
  <2>2. /\ attached' = attached /\ OthersFlags(t)
        /\ \A m \in ModeBits : m \in flags'[t] <=> m \in flags[t] \cup bits
    BY <2>1 DEF ChangeEffect
  <2>3. \A m \in ModeBits : m \in bits => m \in flags[t]
    <3>1. \A m \in ModeBits : m \notin events
      BY AskedAssumption DEF EventBits, ModeBits
    <3>2. QED
      BY <3>1
  <2>4. SameBits(t, ModeBits)
    BY <2>2, <2>3 DEF SameBits
  <2>5. KeepsOpen
    BY <2>1, <2>2 DEF KeepsOpen
  <2>6. QED
    BY <2>1, <2>2, <2>4, <2>5 DEF Acts, UserActs, Alters
<1>4. ASSUME NEW t \in attached, attached' = attached \ {t}, OthersFlags(t), since' = since,
             \A u \in Transports \ {t} : fd'[u] = fd[u], UNCHANGED <<backend, pollVars>>
      PROVE  Acts
  <2>1. KeepsOpen
    BY <1>1, <1>4 DEF KeepsOpen
  <2>2. QED
    BY <1>1, <1>4, <2>1 DEF Acts, UserActs, Finishes
<1>5. ASSUME NEW t \in Transports, Detach(t, DetachEffect(t)) PROVE Acts
  BY <1>4, <1>5 DEF Detach, DetachEffect
<1>6. \A t \in Transports : \A x : \A u \in Transports \ {t} : [fd EXCEPT ![t] = x][u] = fd[u]
  BY DEF Inv, Types, ThreadTypes
<1>7. ASSUME NEW t \in Transports, \A u \in attached : fd'[u] = fd[u] /\ flags'[u] = flags[u],
             UNCHANGED <<attached, since, backend, pollVars>>
      PROVE  Acts
  BY <1>7 DEF Acts, UserActs, Unheard, KeepsOpen
<1>8. ASSUME NEW t \in Transports, Close(t, DetachEffect(t)) PROVE Acts
  <2>1. \A u \in Transports \ {t} : fd'[u] = fd[u]
    BY <1>6, <1>8 DEF Close
  <2>2. UNCHANGED <<since, backend, pollVars>>
    BY <1>8 DEF Close
  <2>3. CASE t \in attached
    <3>1. attached' = attached \ {t} /\ OthersFlags(t)
      BY <1>8, <2>3 DEF Close, DetachEffect
    <3>2. QED
      BY <1>4, <2>1, <2>2, <2>3, <3>1
  <2>4. CASE t \notin attached
    <3>1. attached' = attached /\ flags' = flags
      BY <1>8, <2>4 DEF Close
    <3>2. \A u \in attached : fd'[u] = fd[u] /\ flags'[u] = flags[u]
      BY <1>1, <2>1, <2>4, <3>1
    <3>3. QED
      BY <1>7, <2>2, <3>1, <3>2
  <2>5. QED
    BY <2>3, <2>4
<1>9. ASSUME NEW t \in Transports, Create(t) PROVE Acts
  <2>1. /\ fd[t] = "closed" /\ fd' = [fd EXCEPT ![t] = "open"]
        /\ flags' = [flags EXCEPT ![t] = {}]
        /\ UNCHANGED <<attached, since, backend, pollVars>>
    BY <1>9 DEF Create
  <2>2. t \notin attached
    BY <1>1, <2>1
  <2>3. \A u \in attached : fd'[u] = fd[u] /\ flags'[u] = flags[u]
    BY <1>1, <1>6, <2>1, <2>2 DEF Inv, Types, OpTypes
  <2>4. QED
    BY <1>7, <2>1, <2>3
<1>10. CASE Shutdown
  <2>1. pc = "idle" /\ attached' = {} /\ UNCHANGED <<since, backend, pollVars>>
    BY <1>10 DEF Shutdown, TransportDetach
  <2>2. KeepsOpen
    BY <2>1 DEF KeepsOpen
  <2>3. QED
    BY <2>1, <2>2 DEF Acts, UserActs, FinishesAll
<1>11. QED
  BY <1>2, <1>3, <1>5, <1>8, <1>9, <1>10 DEF UserDoes, UserSteps

\* What the polling thread does.
LEMMA KeptOpen ==
  ASSUME Inv, attached' \subseteq attached, fd' = fd
  PROVE  KeepsOpen
BY DEF KeepsOpen

LEMMA SharedActs ==
  ASSUME Inv, ReportInv, Shared
  PROVE  Acts
<1>1. CASE UserDoes
  BY <1>1, UserDoesAct
<1>2. CASE TimesOut
  <2>1. UNCHANGED <<fd, attached, flags, since, backend, pollVars>>
    BY <1>2 DEF TimesOut, transportVars
  <2>2. KeepsOpen
    BY <2>1, KeptOpen
  <2>3. QED
    BY <2>1, <2>2 DEF Acts, UserActs, Unheard
<1>3. ASSUME NEW e, Skipped(e) PROVE Acts
  <2>1. /\ AtHand(e) /\ batch' = batch \ {e} /\ cur' = {}
        /\ UNCHANGED <<fd, attached, flags, since, backend, pc, call>>
    BY <1>3 DEF Skipped, Skip, Consume, transportVars
  <2>2. e \in Entries /\ e \in Pending
    BY <2>1, CurIsSound DEF AtHand, Pending
  <2>3. Passes(e)
    BY <2>1, <2>2 DEF Passes, Handles, SameBits
  <2>4. KeepsOpen
    BY <2>1, KeptOpen
  <2>5. QED
    BY <2>1, <2>2, <2>3, <2>4 DEF Acts, ThreadActs
<1>4. ASSUME NEW e, HungUp(e) PROVE Acts
  <2>1. /\ AtHand(e) /\ e.who \in Dispatched /\ batch' = batch \ {e} /\ cur' = {}
        /\ DetachEffect(e.who) /\ call' = [to |-> e.who, kind |-> "hangup"] /\ pc' = "call"
        /\ UNCHANGED <<fd, backend, since>>
    BY <1>4 DEF HungUp, ReportHangup, Calls1, Consume
  <2>2. attached' = attached \ {e.who} /\ OthersFlags(e.who)
    BY <2>1 DEF DetachEffect
  <2>3. e \in Entries /\ e \in Pending
    BY <2>1, CurIsSound DEF AtHand, Pending
  <2>4. e.ev \cap {"hup", "err"} # {} \/ TestsEdge
    <3>1. CASE backend = "port"
      BY <3>1 DEF TestsEdge
    <3>2. CASE backend # "port"
      <4>1. e.ev # {}
        BY <2>3, <3>2 DEF ReportInv, Shaped
      <4>2. QED
        BY <1>4, <4>1 DEF HungUp
    <3>3. QED
      BY <3>1, <3>2
  <2>5. HangsUp(e)
    BY <2>1, <2>2, <2>3, <2>4 DEF HangsUp, Handles
  <2>6. KeepsOpen
    BY <2>1, <2>2, KeptOpen
  <2>7. QED
    BY <2>1, <2>3, <2>5, <2>6 DEF Acts, ThreadActs
<1>5. CASE Failed
  <2>1. /\ pc' \in {"crashed", "undefined"}
        /\ UNCHANGED <<fd, attached, flags, since, backend, batch, cur, call>>
    BY <1>5 DEF Failed, Fails, transportVars
  <2>2. KeepsOpen
    BY <2>1, KeptOpen
  <2>3. QED
    BY <2>1, <2>2 DEF Acts, ThreadActs, Stops, Stays
<1>6. CASE Return
  <2>1. /\ pc = "call" /\ pc' = "dispatch" /\ call' = None
        /\ UNCHANGED <<fd, attached, flags, since, backend, batch, cur>>
    BY <1>6 DEF Return, transportVars
  <2>2. KeepsOpen
    BY <2>1, KeptOpen
  <2>3. QED
    BY <2>1, <2>2 DEF Acts, ThreadActs, Resumes, Stays
<1>7. CASE EndPoll
  <2>1. /\ pc = "dispatch" /\ batch = {} /\ cur = {} /\ pc' = "idle" /\ since' = {}
        /\ UNCHANGED <<fd, attached, flags, backend, batch, cur, call>>
    BY <1>7 DEF EndPoll, transportVars
  <2>2. KeepsOpen
    BY <2>1, KeptOpen
  <2>3. QED
    BY <2>1, <2>2 DEF Acts, ThreadActs, Ends, Stays, Pending
<1>8. QED
  BY <1>1, <1>2, <1>3, <1>4, <1>5, <1>6, <1>7 DEF Shared

\* The entry at hand is the one in `cur`.
LEMMA EntryAtHand ==
  ASSUME ReportInv, NEW e, AtHand(e)
  PROVE  pc = "dispatch" /\ e \in Pending /\ (cur = {} \/ cur = {e}) /\ Pending = batch \cup {e}
BY DEF AtHand, ReportInv, Pending

\* What is left is about nobody else.
LEMMA HandledRemain ==
  ASSUME ReportInv, NEW e, Handles(e)
  PROVE  /\ Pending' = (Pending \ {e}) \cup cur'
         /\ \A u : u # e.who =>
              {x \in Pending' : x.who = u} = {x \in Pending : x.who = u}
<1>1. cur = {} \/ cur = {e}
  BY EntryAtHand DEF Handles
<1>2. Pending' = (Pending \ {e}) \cup cur'
  BY <1>1 DEF Handles, Pending
<1>3. \A r \in cur' : r.who = e.who
  BY DEF Handles
<1>4. QED
  BY <1>2, <1>3, EntryAtHand DEF Handles

LEMMA ActsKeepReports ==
  ASSUME Inv, ReportInv, Acts
  PROVE  ReportInv'
<1>0. \A e : Shaped(e) => Shaped(e)'
  BY DEF Shaped, Acts
<1>1. \A t \in attached' : fd'[t] = "open"
  BY DEF Acts, KeepsOpen, ReportInv
<1>2. CASE UNCHANGED pollVars
  <2>1. UNCHANGED <<pc, batch, cur, call, Pending>>
    BY <1>2 DEF pollVars, Pending
  <2>2. QED
    BY <1>0, <1>1, <2>1 DEF ReportInv
<1>3. ASSUME NEW e, Handles(e), (pc' = "dispatch" /\ call' = call) \/ pc' = "call"
      PROVE  ReportInv'
  <2>1. Pending' = (Pending \ {e}) \cup cur' /\ e \in Pending /\ pc = "dispatch"
    BY <1>3, HandledRemain, EntryAtHand DEF Handles
  <2>2. \A r \in cur' : r.who = e.who /\ r.ev \subseteq e.ev /\ Shaped(r)
    BY <1>3 DEF Handles
  <2>3. \A r, s \in cur' : r = s
    BY <1>3 DEF Handles
  <2>4. \A x, y \in Pending' : x # y /\ x.who = y.who => x.ev \cap y.ev = {}
    <3>1. ASSUME NEW x \in Pending \ {e}, NEW r \in cur', x.who = r.who
          PROVE  x.ev \cap r.ev = {}
      BY <2>1, <2>2, <3>1 DEF ReportInv
    <3>2. \A x, y \in Pending \ {e} : x # y /\ x.who = y.who => x.ev \cap y.ev = {}
      BY DEF ReportInv
    <3>3. QED
      BY <2>1, <2>3, <3>1, <3>2
  <2>5. \A x \in Pending' : Shaped(x)'
    BY <1>0, <2>1, <2>2 DEF ReportInv
  <2>6. pc' \in {"idle", "dispatch"} => call' = None
    BY <1>3, <2>1 DEF ReportInv
  <2>7. pc' # "idle"
    BY <1>3
  <2>8. QED
    BY <1>1, <2>3, <2>4, <2>5, <2>6, <2>7 DEF ReportInv
<1>4. ASSUME NEW entries \in SUBSET Entries, Brings(entries) PROVE ReportInv'
  <2>1. pc = "idle" /\ pc' = "dispatch" /\ batch' = entries /\ cur' = cur /\ call' = call
    BY <1>4 DEF Brings
  <2>2. cur = {} /\ call = None
    BY <2>1 DEF Inv, EntriesInv, ReportInv
  <2>3. Pending' = entries
    BY <2>1, <2>2 DEF Pending
  <2>4. \A e \in entries : Shaped(e)'
    BY <1>0, <1>4 DEF Brings
  <2>5. \A e, f \in entries : e # f /\ e.who = f.who => e.ev \cap f.ev = {}
    BY <1>4 DEF Brings
  <2>6. QED
    BY <1>1, <2>1, <2>2, <2>3, <2>4, <2>5 DEF ReportInv
<1>5. CASE Resumes \/ Ends \/ Stops
  <2>1. UNCHANGED <<batch, cur, Pending>>
    BY <1>5 DEF Resumes, Ends, Stops, Stays, Pending
  <2>2. /\ pc' \in {"idle", "dispatch"} => call' = None
        /\ pc' = "idle" => batch' = {}
    BY <1>5, <2>1 DEF Resumes, Ends, Stops, ReportInv, Pending
  <2>3. QED
    BY <1>0, <1>1, <2>1, <2>2 DEF ReportInv
<1>6. ASSUME NEW e, NEW c, Passes(e) \/ HangsUp(e) \/ Announces(e, c) PROVE ReportInv'
  BY <1>3, <1>6, EntryAtHand DEF Passes, HangsUp, Announces, Handles
<1>7. QED
  BY <1>2, <1>4, <1>5, <1>6 DEF Acts, UserActs, ThreadActs
----------------------------------------------------------------------------
(* The mapping, from one state to the next.                                *)

Saying(k, e) == (\E c \in e.ev : k = Kind(c)) \/ k \in MayFail

LEMMA KindTypes ==
  /\ \A c : Kind(c) \in {"read", "write", "hangup"}
  /\ Kind("in") = "read" /\ Kind("out") = "write"
  /\ Kind("hup") = "hangup" /\ Kind("err") = "hangup"
BY DEF Kind

LEMMA ReportedMeans ==
  ASSUME NEW t, NEW k
  PROVE  /\ k \in Reported(t) <=> \E e \in Pending : e.who = t /\ Saying(k, e)
         /\ backend' = backend =>
              (k \in Reported(t)' <=> \E e \in Pending' : e.who = t /\ Saying(k, e))
<1>1. k \in Reported(t) <=> \E e \in Pending : e.who = t /\ Saying(k, e)
  BY DEF Reported, Saying, Pending
<1>2. ASSUME backend' = backend
      PROVE  k \in Reported(t)' <=> \E e \in Pending' : e.who = t /\ Saying(k, e)
  <2>1. MayFail' = MayFail
    BY <1>2 DEF MayFail
  <2>2. QED
    BY <2>1 DEF Reported, Saying, Pending
<1>3. QED
  BY <1>1, <1>2

LEMMA MappingTypes ==
  /\ \A t \in Transports : Want[t] \subseteq {"read", "write"}
  /\ Want' \in [Transports -> SUBSET {"read", "write"}]
  /\ \A t \in Transports : Told[t] \subseteq {"read", "write", "hangup"}
  /\ Told' \in [Transports -> SUBSET {"read", "write", "hangup"}]
  /\ Holding \in [Transports -> SUBSET {"read", "write", "hangup"}]
  /\ Holding' = Holding
<1>1. \A t : Wants(t) \subseteq {"read", "write"}
  BY KindTypes DEF Wants
<1>2. \A t : Wants(t)' \subseteq {"read", "write"}
  BY KindTypes DEF Wants
<1>3. \A t : Reported(t) \subseteq {"read", "write", "hangup"}
  BY KindTypes DEF Reported, MayFail
<1>4. \A t : Reported(t)' \subseteq {"read", "write", "hangup"}
  BY KindTypes DEF Reported, MayFail
<1>5. QED
  BY <1>1, <1>2, <1>3, <1>4 DEF Want, Told, Holding

\* An event is wanted when its bit is set.
LEMMA WantMeans ==
  ASSUME NEW t \in attached, t \in Transports, NEW c \in {"in", "out"}
  PROVE  Bit(c) \in flags[t] <=> Kind(c) \in Want[t]
BY KindTypes DEF Want, Wants, Bit

LEMMA WantsKept ==
  ASSUME NEW t \in Transports, flags'[t] = flags[t] \/ SameBits(t, EventBits),
         t \in attached' <=> t \in attached
  PROVE  Want'[t] = Want[t]
<1>1. \A c \in {"in", "out"} : Bit(c) \in flags'[t] <=> Bit(c) \in flags[t]
  BY DEF SameBits, Bit, EventBits
<1>2. Wants(t)' = Wants(t)
  BY <1>1 DEF Wants
<1>3. QED
  BY <1>2 DEF Want

LEMMA LevelKept ==
  ASSUME Inv, backend' = backend, NEW t \in Transports,
         flags'[t] = flags[t] \/ SameBits(t, ModeBits),
         t \in attached' <=> t \in attached
  PROVE  t \in Level' <=> t \in Level
BY DEF Level, TestsEdge, SameBits, ModeBits

LEMMA LevelIn == Inv => Level \subseteq attached /\ attached \subseteq Transports
BY DEF Level, Inv, TableInv, TableTypes

\* A transport is told no more than before when its entries say no more.
LEMMA ToldLess ==
  ASSUME backend' = backend, NEW t \in Transports, t \in Dispatched' => t \in Dispatched,
         \A x \in Pending' : x.who = t => \E y \in Pending : y.who = t /\ x.ev \subseteq y.ev
  PROVE  Told'[t] \subseteq Told[t]
<1>1. ASSUME NEW k \in Reported(t)' PROVE k \in Reported(t)
  <2>1. PICK x \in Pending' : x.who = t /\ Saying(k, x)
    BY <1>1, ReportedMeans
  <2>2. PICK y \in Pending : y.who = t /\ x.ev \subseteq y.ev
    BY <2>1
  <2>3. Saying(k, y)
    BY <2>1, <2>2 DEF Saying
  <2>4. QED
    BY <2>2, <2>3, ReportedMeans
<1>2. QED
  BY <1>1 DEF Told

LEMMA ToldSame ==
  ASSUME backend' = backend, NEW t \in Transports, t \in Dispatched' <=> t \in Dispatched,
         {x \in Pending' : x.who = t} = {x \in Pending : x.who = t}
  PROVE  Told'[t] = Told[t]
<1>1. \A k : k \in Reported(t)' <=> k \in Reported(t)
  <2>1. \A x : x \in Pending' /\ x.who = t <=> x \in Pending /\ x.who = t
    OBVIOUS
  <2>2. QED
    BY <2>1, ReportedMeans
<1>2. Reported(t)' = Reported(t)
  BY <1>1
<1>3. QED
  BY <1>2 DEF Told
----------------------------------------------------------------------------
(* The steps of IODispatcher, in terms of the mapping.                     *)

Simulated == Dispatcher!Next \/ UNCHANGED Dispatcher!vars

LEMMA AsStutter ==
  ASSUME UNCHANGED <<attached, Level, Want, Told, call>>
  PROVE  Simulated
BY MappingTypes DEF Simulated, Dispatcher!vars

LEMMA AsAttach ==
  ASSUME NEW t \in Transports, t \notin attached, attached' = attached \cup {t},
         Level' \in {Level, Level \cup {t}},
         \A u \in Transports \ {t} : Want'[u] = Want[u],
         UNCHANGED <<Told, call>>
  PROVE  Simulated
<1>1. Want'[t] \subseteq {"read", "write"}
  BY MappingTypes
<1>2. Want' = [Want EXCEPT ![t] = Want'[t]]
  BY DEF Want
<1>3. Dispatcher!Attach(t)
  BY <1>1, <1>2, MappingTypes DEF Dispatcher!Attach
<1>4. QED
  BY <1>3 DEF Dispatcher!Next, Simulated

LEMMA AsChange ==
  ASSUME NEW t \in Transports, t \in attached,
         \A u \in Transports \ {t} : Want'[u] = Want[u],
         UNCHANGED <<attached, Level, Told, call>>
  PROVE  Simulated
<1>1. Want'[t] \subseteq {"read", "write"}
  BY MappingTypes
<1>2. Want' = [Want EXCEPT ![t] = Want'[t]]
  BY DEF Want
<1>3. Dispatcher!Change(t)
  BY <1>1, <1>2, MappingTypes DEF Dispatcher!Change
<1>4. QED
  BY <1>3 DEF Dispatcher!Next, Simulated

LEMMA AsDetach ==
  ASSUME NEW S \in SUBSET Transports, S # {}, S \subseteq attached,
         attached' = attached \ S, Level' = Level \ S,
         \A t \in Transports : Want'[t] = IF t \in S THEN {} ELSE Want[t],
         \A t \in Transports : Told'[t] = IF t \in S THEN {} ELSE Told[t],
         UNCHANGED call
  PROVE  Simulated
<1>1. Want' = [t \in Transports |-> IF t \in S THEN {} ELSE Want[t]]
  BY DEF Want
<1>2. Told' = [t \in Transports |-> IF t \in S THEN {} ELSE Told[t]]
  BY DEF Told
<1>3. Dispatcher!Detach(S)
  BY <1>1, <1>2, MappingTypes DEF Dispatcher!Detach, Dispatcher!Kinds
<1>4. QED
  BY <1>3 DEF Dispatcher!Next, Simulated

LEMMA AsDrop ==
  ASSUME NEW t \in Transports, Told'[t] \subseteq Told[t],
         \A u \in Transports \ {t} : Told'[u] = Told[u],
         UNCHANGED <<attached, Level, Want, call>>
  PROVE  Simulated
<1>1. Told' = [Told EXCEPT ![t] = Told'[t]]
  BY DEF Told
<1>2. Dispatcher!Drop(t)
  BY <1>1, MappingTypes DEF Dispatcher!Drop
<1>3. QED
  BY <1>2 DEF Dispatcher!Next, Simulated

LEMMA AsReady ==
  ASSUME NEW t \in Transports, NEW kind \in {"read", "write"},
         call = None, t \in attached, kind \in Told[t],
         t \in Level => kind \in Want[t] /\ Want'[t] = Want[t],
         call' = [to |-> t, kind |-> kind],
         Told'[t] \subseteq Told[t] \ {kind},
         \A u \in Transports \ {t} : Told'[u] = Told[u] /\ Want'[u] = Want[u],
         Want'[t] \in {Want[t], Want[t] \ {kind}},
         UNCHANGED <<attached, Level>>
  PROVE  Simulated
<1>1. Told' = [Told EXCEPT ![t] = Told'[t]]
  BY DEF Told
<1>2. Want' = [Want EXCEPT ![t] = Want'[t]]
  BY DEF Want
<1>3. Want = [Want EXCEPT ![t] = Want[t]]
  BY DEF Want
<1>4. /\ Want' \in {Want, [Want EXCEPT ![t] = @ \ {kind}]}
      /\ t \in Level => Want' = Want
  BY <1>2, <1>3
<1>5. Dispatcher!Ready(t, kind)
  BY <1>1, <1>4, MappingTypes DEF Dispatcher!Ready
<1>6. QED
  BY <1>5 DEF Dispatcher!Next, Dispatcher!Kinds, Simulated

LEMMA AsHangup ==
  ASSUME NEW t \in Transports, call = None, t \in attached, "hangup" \in Told[t],
         call' = [to |-> t, kind |-> "hangup"],
         attached' = attached \ {t}, Level' = Level \ {t},
         \A u \in Transports : Want'[u] = IF u = t THEN {} ELSE Want[u],
         \A u \in Transports : Told'[u] = IF u = t THEN {} ELSE Told[u]
  PROVE  Simulated
<1>1. Want' = [Want EXCEPT ![t] = {}]
  BY DEF Want
<1>2. Told' = [Told EXCEPT ![t] = {}]
  BY DEF Told
<1>3. Dispatcher!Hangup(t)
  BY <1>1, <1>2, MappingTypes DEF Dispatcher!Hangup
<1>4. QED
  BY <1>3 DEF Dispatcher!Next, Simulated

LEMMA AsReport ==
  ASSUME call = None, \A t \in Transports : Told[t] = {},
         \A t \in Transports :
           Told'[t] \subseteq IF t \in attached THEN Want[t] \cup {"hangup"} ELSE {},
         UNCHANGED <<attached, Level, Want, call>>
  PROVE  Simulated
<1>1. Told = [t \in Transports |-> {}]
  BY DEF Told
<1>2. \A t \in Transports : Told'[t] \subseteq
          IF t \in attached THEN Holding[t] \cap (Want[t] \cup {"hangup"}) ELSE {}
  BY MappingTypes DEF Holding
<1>3. Dispatcher!Report
  BY <1>1, <1>2, MappingTypes DEF Dispatcher!Report, Dispatcher!Kinds, Dispatcher!Nothing
<1>4. QED
  BY <1>3 DEF Dispatcher!Next, Simulated

LEMMA AsReturn ==
  ASSUME call' = None, UNCHANGED <<attached, Level, Want, Told>>
  PROVE  Simulated
<1>1. CASE call = None
  BY <1>1, AsStutter
<1>2. CASE call # None
  <2>1. Dispatcher!Return
    BY <1>2, MappingTypes DEF Dispatcher!Return
  <2>2. QED
    BY <2>1 DEF Dispatcher!Next, Simulated
<1>3. QED
  BY <1>1, <1>2
----------------------------------------------------------------------------
(* Every act is one of them.                                               *)

LEMMA UserSimulated ==
  ASSUME Inv, ReportInv, backend' = backend, UserActs
  PROVE  Simulated
<1>1. UNCHANGED <<pc, batch, cur, call, Pending>>
  BY DEF UserActs, pollVars, Pending
<1>2. ASSUME NEW u \in Transports, u \in Dispatched' <=> u \in Dispatched
      PROVE  Told'[u] = Told[u]
  BY <1>1, <1>2, ToldSame
<1>3. \A u : Pending = {} => Reported(u)' = {}
  BY <1>1, ReportedMeans
<1>4. ASSUME Unheard PROVE Simulated
  <2>1. UNCHANGED <<attached, since>>
    BY <1>4 DEF Unheard
  <2>2. \A u \in attached : flags'[u] = flags[u]
    BY <1>4 DEF Unheard
  <2>3. Level' = Level
    BY <2>1, <2>2 DEF Level, TestsEdge
  <2>4. Want' = Want
    <3>1. \A u \in attached : Wants(u)' = Wants(u)
      BY <2>2 DEF Wants
    <3>2. QED
      BY <2>1, <3>1 DEF Want
  <2>5. Told' = Told
    <3>1. \A u \in Transports : Told'[u] = Told[u]
      BY <1>2, <2>1 DEF Dispatched
    <3>2. QED
      BY <3>1 DEF Told
  <2>6. QED
    BY <1>1, <2>1, <2>3, <2>4, <2>5, AsStutter
<1>5. ASSUME NEW t \in Transports, OthersFlags(t),
             \A u \in Transports \ {t} : u \in attached' <=> u \in attached
      PROVE  \A u \in Transports \ {t} :
               /\ Want'[u] = Want[u]
               /\ u \in Level' <=> u \in Level
  BY <1>5, WantsKept, LevelKept DEF OthersFlags
<1>6. ASSUME NEW t \in Transports, Alters(t) PROVE Simulated
  <2>1. t \in attached /\ UNCHANGED <<attached, since>> /\ OthersFlags(t) /\ SameBits(t, ModeBits)
    BY <1>6 DEF Alters
  <2>2. \A u \in Transports \ {t} : Want'[u] = Want[u] /\ (u \in Level' <=> u \in Level)
    BY <1>5, <2>1
  <2>3. t \in Level' <=> t \in Level
    BY <2>1, LevelKept
  <2>4. Level' = Level
    BY <2>1, <2>2, <2>3, LevelIn DEF Level
  <2>5. Told' = Told
    <3>1. \A u \in Transports : Told'[u] = Told[u]
      BY <1>2, <2>1 DEF Dispatched
    <3>2. QED
      BY <3>1 DEF Told
  <2>6. QED
    BY <1>1, <2>1, <2>2, <2>4, <2>5, AsChange
<1>7. ASSUME NEW t \in Transports, Begins(t) PROVE Simulated
  <2>1. /\ t \notin attached /\ attached' = attached \cup {t} /\ OthersFlags(t)
        /\ since' = IF pc = "idle" THEN since ELSE since \cup {t}
    BY <1>7 DEF Begins
  <2>2. \A u \in Transports \ {t} : Want'[u] = Want[u] /\ (u \in Level' <=> u \in Level)
    BY <1>5, <2>1
  <2>3. Level' \in {Level, Level \cup {t}}
    <3>1. Level' \subseteq attached \cup {t} /\ Level \subseteq attached /\ attached \subseteq Transports
      BY <2>1, LevelIn DEF Level
    <3>2. t \notin Level
      BY <2>1, <3>1
    <3>3. QED
      BY <2>2, <3>1, <3>2
  <2>4. \A u \in Transports \ {t} : u \in Dispatched' <=> u \in Dispatched
    BY <2>1 DEF Dispatched
  <2>5. Told'[t] = Told[t]
    <3>1. Told[t] = {}
      BY <2>1 DEF Told, Dispatched
    <3>2. CASE pc = "idle"
      <4>1. Pending = {}
        BY <3>2 DEF Pending, ReportInv, Inv, EntriesInv
      <4>2. Told'[t] = {}
        BY <1>3, <4>1 DEF Told
      <4>3. QED
        BY <3>1, <4>2
    <3>3. CASE pc # "idle"
      <4>1. t \notin Dispatched'
        BY <2>1, <3>3 DEF Dispatched
      <4>2. QED
        BY <3>1, <4>1 DEF Told
    <3>4. QED
      BY <3>2, <3>3
  <2>6. Told' = Told
    <3>1. \A u \in Transports : Told'[u] = Told[u]
      BY <1>2, <2>4, <2>5
    <3>2. QED
      BY <3>1 DEF Told
  <2>7. QED
    BY <1>1, <2>1, <2>2, <2>3, <2>6, AsAttach
<1>8. ASSUME NEW t \in Transports, Finishes(t) PROVE Simulated
  <2>1. t \in attached /\ attached' = attached \ {t} /\ OthersFlags(t) /\ since' = since
    BY <1>8 DEF Finishes
  <2>2. \A u \in Transports \ {t} : Want'[u] = Want[u] /\ (u \in Level' <=> u \in Level)
    BY <1>5, <2>1
  <2>3. Level' = Level \ {t}
    <3>1. Level' \subseteq attached \ {t} /\ Level \subseteq attached /\ attached \subseteq Transports
      BY <2>1, LevelIn DEF Level
    <3>2. QED
      BY <2>2, <3>1
  <2>4. Want'[t] = {} /\ Told'[t] = {}
    BY <2>1 DEF Want, Told, Dispatched
  <2>5. \A u \in Transports \ {t} : Told'[u] = Told[u]
    BY <1>2, <2>1 DEF Dispatched
  <2>6. /\ \A u \in Transports : Want'[u] = IF u \in {t} THEN {} ELSE Want[u]
        /\ \A u \in Transports : Told'[u] = IF u \in {t} THEN {} ELSE Told[u]
    BY <2>2, <2>4, <2>5
  <2>7. {t} \in SUBSET Transports /\ {t} # {} /\ {t} \subseteq attached
    BY <2>1
  <2>8. QED
    BY <1>1, <2>1, <2>3, <2>6, <2>7, AsDetach
<1>9. ASSUME FinishesAll PROVE Simulated
  <2>1. pc = "idle" /\ attached' = {}
    BY <1>9 DEF FinishesAll
  <2>2. Pending = {}
    BY <2>1 DEF Pending, ReportInv, Inv, EntriesInv
  <2>3. \A u \in Transports : Told[u] = {} /\ Told'[u] = {} /\ Want'[u] = {}
    BY <2>1, <2>2, ReportedMeans DEF Told, Dispatched, Want
  <2>4. Level' = {} /\ Level \subseteq attached /\ attached \subseteq Transports
    BY <2>1, LevelIn DEF Level
  <2>5. CASE attached = {}
    <3>1. Want' = Want /\ Told' = Told
      BY <2>3, <2>5 DEF Want, Told
    <3>2. QED
      BY <1>1, <2>1, <2>4, <2>5, <3>1, AsStutter
  <2>6. CASE attached # {}
    <3>1. /\ \A u \in Transports : Want'[u] = IF u \in attached THEN {} ELSE Want[u]
          /\ \A u \in Transports : Told'[u] = IF u \in attached THEN {} ELSE Told[u]
      BY <2>3 DEF Want
    <3>2. attached' = attached \ attached /\ Level' = Level \ attached
      BY <2>1, <2>4
    <3>3. QED
      BY <1>1, <2>4, <2>6, <3>1, <3>2, AsDetach
  <2>7. QED
    BY <2>5, <2>6
<1>10. QED
  BY <1>4, <1>6, <1>7, <1>8, <1>9 DEF UserActs

\* What is true of any entry that is handled.
LEMMA HandledTold ==
  ASSUME ReportInv, backend' = backend, NEW e, Handles(e),
         \A u \in Transports \ {e.who} : u \in Dispatched' <=> u \in Dispatched
  PROVE  /\ e.who \in Transports /\ call = None /\ pc = "dispatch" /\ e \in Pending
         /\ \A u \in Transports \ {e.who} : Told'[u] = Told[u]
         /\ (e.who \in Dispatched' => e.who \in Dispatched) => Told'[e.who] \subseteq Told[e.who]
         /\ e.who \in Dispatched =>
              (\A c \in e.ev : Kind(c) \in Told[e.who]) /\ MayFail \subseteq Told[e.who]
<1>1. e.who \in Transports /\ call = None /\ pc = "dispatch" /\ e \in Pending
  BY EntryAtHand DEF Handles, ReportInv, Entries
<1>2. \A u \in Transports \ {e.who} : Told'[u] = Told[u]
  BY HandledRemain, ToldSame
<1>3. \A x \in Pending' : x.who = e.who =>
        \E y \in Pending : y.who = e.who /\ x.ev \subseteq y.ev
  BY <1>1, HandledRemain DEF Handles
<1>4. (e.who \in Dispatched' => e.who \in Dispatched) => Told'[e.who] \subseteq Told[e.who]
  BY <1>1, <1>3, ToldLess
<1>5. /\ \A c \in e.ev : Kind(c) \in Reported(e.who)
      /\ MayFail \subseteq Reported(e.who)
  BY <1>1, ReportedMeans DEF Saying
<1>6. QED
  BY <1>1, <1>2, <1>4, <1>5 DEF Told

LEMMA PassSimulated ==
  ASSUME Inv, ReportInv, backend' = backend, NEW e, Passes(e)
  PROVE  Simulated
<1>1. /\ Handles(e) /\ UNCHANGED <<attached, since, call, Dispatched>>
      /\ \A t \in Transports : SameBits(t, EventBits \cup ModeBits)
  BY DEF Passes, Dispatched
<1>2. /\ e.who \in Transports /\ Told'[e.who] \subseteq Told[e.who]
      /\ \A u \in Transports \ {e.who} : Told'[u] = Told[u]
  BY <1>1, HandledTold
<1>3. \A t \in Transports : SameBits(t, EventBits) /\ SameBits(t, ModeBits)
  BY <1>1 DEF SameBits
<1>4. Want' = Want
  <2>1. \A t \in Transports : Want'[t] = Want[t]
    BY <1>1, <1>3, WantsKept
  <2>2. QED
    BY <2>1 DEF Want
<1>5. Level' = Level
  <2>1. \A t \in Transports : t \in Level' <=> t \in Level
    BY <1>1, <1>3, LevelKept
  <2>2. QED
    BY <1>1, <2>1, LevelIn DEF Level
<1>6. QED
  BY <1>1, <1>2, <1>4, <1>5, AsDrop

LEMMA HangupSimulated ==
  ASSUME Inv, ReportInv, backend' = backend, NEW e, HangsUp(e)
  PROVE  Simulated
<1> DEFINE t == e.who
<1>1. /\ Handles(e) /\ t \in Dispatched
      /\ e.ev \cap {"hup", "err"} # {} \/ TestsEdge
      /\ call' = [to |-> t, kind |-> "hangup"]
      /\ attached' = attached \ {t} /\ OthersFlags(t) /\ since' = since
  BY DEF HangsUp
<1>2. \A u \in Transports \ {t} : u \in Dispatched' <=> u \in Dispatched
  BY <1>1 DEF Dispatched
<1>3. /\ t \in Transports /\ call = None
      /\ \A u \in Transports \ {t} : Told'[u] = Told[u]
      /\ (\A c \in e.ev : Kind(c) \in Told[t]) /\ MayFail \subseteq Told[t]
  BY <1>1, <1>2, HandledTold
<1>4. "hangup" \in Told[t]
  <2>1. CASE TestsEdge
    BY <1>3, <2>1 DEF TestsEdge, MayFail
  <2>2. CASE e.ev \cap {"hup", "err"} # {}
    BY <1>3, <2>2, KindTypes
  <2>3. QED
    BY <1>1, <2>1, <2>2
<1>5. \A u \in Transports \ {t} : Want'[u] = Want[u] /\ (u \in Level' <=> u \in Level)
  BY <1>1, WantsKept, LevelKept DEF OthersFlags
<1>6. Level' = Level \ {t}
  <2>1. Level' \subseteq attached \ {t} /\ Level \subseteq attached /\ attached \subseteq Transports
    BY <1>1, LevelIn DEF Level
  <2>2. QED
    BY <1>5, <2>1
<1>7. Want'[t] = {} /\ Told'[t] = {}
  BY <1>1, <1>3 DEF Want, Told, Dispatched
<1>8. t \in attached
  BY <1>1 DEF Dispatched
<1>9. /\ \A u \in Transports : Want'[u] = IF u = t THEN {} ELSE Want[u]
      /\ \A u \in Transports : Told'[u] = IF u = t THEN {} ELSE Told[u]
  BY <1>3, <1>5, <1>7
<1>10. QED
  BY <1>1, <1>3, <1>4, <1>6, <1>8, <1>9, AsHangup

LEMMA AnnounceSimulated ==
  ASSUME Inv, ReportInv, backend' = backend, NEW e, NEW c \in {"in", "out"}, Announces(e, c)
  PROVE  Simulated
<1> DEFINE t == e.who
           kind == Kind(c)
<1>1. /\ Handles(e) /\ c \in e.ev /\ t \in Dispatched
      /\ \A r \in cur' : c \notin r.ev
      /\ call' = [to |-> t, kind |-> kind]
      /\ UNCHANGED <<attached, since, Dispatched>>
      /\ OthersFlags(t) /\ SameBits(t, (EventBits \cup ModeBits) \ {Bit(c)})
      /\ Bit(c) \in flags'[t] => Bit(c) \in flags[t]
      /\ t \in Level => Bit(c) \in flags'[t]
  BY DEF Announces, Dispatched
<1>2. /\ t \in Transports /\ call = None /\ e \in Pending
      /\ \A u \in Transports \ {t} : Told'[u] = Told[u]
      /\ Told'[t] \subseteq Told[t] /\ kind \in Told[t]
  BY <1>1, HandledTold
<1>3. t \in attached
  BY <1>1 DEF Dispatched
<1>4. kind \notin Told'[t]
  <2>1. ASSUME NEW x \in Pending', x.who = t, Saying(kind, x) PROVE FALSE
    <3>1. kind \notin MayFail /\ \A d \in AllConditions : kind = Kind(d) => d = c
      BY DEF MayFail, Kind, AllConditions
    <3>2. c \in x.ev
      <4>1. x.ev \subseteq AllConditions
        <5>1. CASE x \in cur'
          <6>1. x.ev \subseteq e.ev /\ e \in Entries
            BY <1>1, <5>1 DEF Handles
          <6>2. QED
            BY <6>1 DEF Entries
        <5>2. CASE x \notin cur'
          <6>1. x \in batch
            BY <1>1, <2>1, <5>2 DEF Handles, Pending
          <6>2. QED
            BY <6>1 DEF Inv, Types, ThreadTypes, Entries
        <5>3. QED
          BY <5>1, <5>2
      <4>2. QED
        BY <2>1, <3>1, <4>1 DEF Saying
    <3>3. x \notin cur'
      BY <1>1, <3>2
    <3>4. x \in Pending /\ x # e
      BY <1>1, <2>1, <3>3, HandledRemain
    <3>5. x.ev \cap e.ev = {}
      BY <1>2, <2>1, <3>4 DEF ReportInv
    <3>6. QED
      BY <1>1, <3>2, <3>5
  <2>2. kind \notin Reported(t)'
    BY <2>1, ReportedMeans
  <2>3. QED
    BY <1>2, <2>2 DEF Told
<1>5. \A u \in Transports \ {t} : Want'[u] = Want[u]
  BY <1>1, WantsKept DEF OthersFlags
<1>6. Level' = Level
  <2>1. SameBits(t, ModeBits)
    BY <1>1 DEF SameBits, ModeBits, Bit
  <2>2. \A u \in Transports : flags'[u] = flags[u] \/ SameBits(u, ModeBits)
    BY <1>1, <2>1 DEF OthersFlags
  <2>3. \A u \in Transports : u \in Level' <=> u \in Level
    BY <1>1, <2>2, LevelKept
  <2>4. QED
    BY <1>1, <2>3, LevelIn DEF Level
<1>7. /\ Bit(c) \in flags'[t] => Want'[t] = Want[t]
      /\ Want'[t] \in {Want[t], Want[t] \ {kind}}
  <2>1. CASE Bit(c) \in flags'[t]
    <3>1. SameBits(t, EventBits)
      BY <1>1, <2>1 DEF SameBits
    <3>2. Want'[t] = Want[t]
      BY <1>1, <1>2, <3>1, WantsKept
    <3>3. QED
      BY <3>2
  <2>2. CASE Bit(c) \notin flags'[t]
    <3>1. Want[t] = Wants(t) /\ Want'[t] = Wants(t)'
      BY <1>1, <1>2, <1>3 DEF Want
    <3>2. \A d \in {"in", "out"} \ {c} : Bit(d) \in flags'[t] <=> Bit(d) \in flags[t]
      BY <1>1 DEF SameBits, Bit, EventBits
    <3>3. Wants(t)' = {Kind(d) : d \in {d \in {"in", "out"} \ {c} : Bit(d) \in flags[t]}}
      BY <2>2, <3>2 DEF Wants
    <3>4. Wants(t)' = Wants(t) \ {kind}
      BY <3>3 DEF Wants, Kind
    <3>5. QED
      BY <2>2, <3>1, <3>4
  <2>3. QED
    BY <2>1, <2>2
<1>8. t \in Level => kind \in Want[t] /\ Want'[t] = Want[t]
  BY <1>1, <1>2, <1>3, <1>7, WantMeans
<1>9. kind \in {"read", "write"} /\ Told'[t] \subseteq Told[t] \ {kind}
  BY <1>2, <1>4, KindTypes
<1>10. QED
  BY <1>1, <1>2, <1>3, <1>5, <1>6, <1>7, <1>8, <1>9, AsReady

LEMMA ReportSimulated ==
  ASSUME Inv, ReportInv, backend' = backend, NEW entries \in SUBSET Entries, Brings(entries)
  PROVE  Simulated
<1>1. /\ pc = "idle" /\ batch' = entries /\ cur' = cur
      /\ UNCHANGED <<attached, since, flags, call>>
      /\ \A e \in entries :
           e.who \in attached => \A c \in e.ev \cap {"in", "out"} : Bit(c) \in flags[e.who]
  BY DEF Brings
<1>2. Pending = {} /\ Pending' = entries /\ call = None
  BY <1>1 DEF Pending, Inv, EntriesInv, ReportInv
<1>3. \A t \in Transports : Told[t] = {}
  BY <1>2, ReportedMeans DEF Told
<1>4. ASSUME NEW t \in Transports
      PROVE  Told'[t] \subseteq IF t \in attached THEN Want[t] \cup {"hangup"} ELSE {}
  <2>1. CASE t \notin attached
    BY <1>1, <2>1 DEF Told, Dispatched
  <2>2. CASE t \in attached
    <3>1. ASSUME NEW k \in Reported(t)' PROVE k \in Want[t] \cup {"hangup"}
      <4>1. PICK e \in entries : e.who = t /\ Saying(k, e)
        BY <1>2, <3>1, ReportedMeans
      <4>2. CASE k \in MayFail
        BY <4>2 DEF MayFail
      <4>3. CASE k \notin MayFail
        <5>1. PICK c \in e.ev : k = Kind(c)
          BY <4>1, <4>3 DEF Saying
        <5>2. CASE c \in {"in", "out"}
          BY <1>1, <2>2, <4>1, <5>1, <5>2, WantMeans
        <5>3. CASE c \notin {"in", "out"}
          BY <5>1, <5>3 DEF Kind
        <5>4. QED
          BY <5>2, <5>3
      <4>4. QED
        BY <4>2, <4>3
    <3>2. Told'[t] \subseteq Reported(t)'
      BY DEF Told
    <3>3. QED
      BY <2>2, <3>1, <3>2
  <2>3. QED
    BY <2>1, <2>2
<1>5. Level' = Level /\ Want' = Want
  BY <1>1 DEF Level, TestsEdge, Want, Wants
<1>6. QED
  BY <1>1, <1>2, <1>3, <1>4, <1>5, AsReport

LEMMA ActsSimulated ==
  ASSUME Inv, ReportInv, Acts
  PROVE  Simulated
<1>1. backend' = backend
  BY DEF Acts
<1>2. ASSUME Stays, attached \ since' = attached \ since \/ Pending = {} PROVE
        UNCHANGED <<attached, Level, Want, Told>>
  <2>1. UNCHANGED <<attached, flags, Pending>>
    BY <1>2 DEF Stays, Pending
  <2>2. Level' = Level /\ Want' = Want
    BY <1>1, <2>1 DEF Level, TestsEdge, Want, Wants
  <2>3. \A u \in Transports : Told'[u] = Told[u]
    <3>1. CASE Pending = {}
      BY <1>1, <2>1, <3>1, ReportedMeans DEF Told
    <3>2. CASE attached \ since' = attached \ since
      BY <1>1, <2>1, <3>2, ToldSame DEF Dispatched
    <3>3. QED
      BY <1>2, <3>1, <3>2
  <2>4. Told' = Told
    BY <2>3 DEF Told
  <2>5. QED
    BY <2>1, <2>2, <2>4
<1>3. CASE Resumes
  <2>1. Stays /\ call' = None /\ since' = since
    BY <1>3 DEF Resumes
  <2>2. QED
    BY <1>2, <2>1, AsReturn
<1>4. CASE Ends \/ Stops
  <2>1. Stays /\ call' = call /\ (since' = since \/ Pending = {})
    BY <1>4 DEF Ends, Stops
  <2>2. QED
    BY <1>2, <2>1, AsStutter
<1>5. QED
  BY <1>1, <1>3, <1>4, UserSimulated, PassSimulated, HangupSimulated, AnnounceSimulated,
     ReportSimulated DEF Acts, ThreadActs
==============================================================================
