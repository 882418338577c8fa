---------------------------- MODULE WindowsProofs -----------------------------
(***************************************************************************)
(* Theorems about Windows, for any contexts, transports, listeners and     *)
(* threads: its type invariant, that what is outstanding at the port is    *)
(* referenced, that the server always accepts and the client is told once, *)
(* and that the event loop is woken.                                       *)
(*                                                                         *)
(* Counts come first: how much of a set of packets the kernel, the port    *)
(* and the threads have, and how each step of the port changes that by one *)
(* packet at most (Keeps, Gains, Loses).  PortInv relates these counts to  *)
(* the contexts; every program keeps it.  Then each program's invariant:   *)
(* UsersInv, NetState, LoopState, together WindowsInv; and, on top of it,  *)
(* NetInv of the server and the client.                                    *)
(***************************************************************************)
EXTENDS Windows, FiniteSetTheorems, SequenceTheorems, TLAPS

----------------------------------------------------------------------------
(* Counting what is outstanding, as a function of what the kernel (b), the *)
(* port (q), the polling threads (e) and the requesting ones (d) have.     *)

\* A packet is with a thread from the link of its request to the system call.
Sent(r)         == r # None /\ r.step # "link"
PacketIn(r)     == <<r.ctx, r.on>>
Carries(d, th)  == Sent(d[th])
PacketOf(d, th) == PacketIn(d[th])

DequeuedBy(P, e, S) == UNION {{p} \X Where(e[p], S) : p \in P}
Dequeued(e, S) == DequeuedBy(Pollers, e, S)
Carriers(d, S) == {th \in Threads : Carries(d, th) /\ PacketOf(d, th) \in S}

Total(b, q, e, d, S) ==
  Cardinality(b \cap S) + Cardinality(Where(q, S))
    + Cardinality(Dequeued(e, S)) + Cardinality(Carriers(d, S))

CountTypes(b, q, e, d) ==
  /\ b \subseteq Packets /\ IsFiniteSet(b)
  /\ q \in Seq(Packets) /\ e \in [Pollers -> Seq(Packets)]
  /\ d \in [Threads -> Doings \cup {None}]

One(x, S) == IF x \in S THEN 1 ELSE 0

\* The changes of a part, named, so that the lemmas below can be used of a step.
Becomes(f, x, v, after)   == after = [f EXCEPT ![x] = v]
Joins(b, x, after)        == after = b \cup {x}
Leaves(b, x, after)       == after = b \ {x}
Comes(q, x, after)        == after = Append(q, x)
Takes(q, e, p, n, q2, e2) == e2 = [e EXCEPT ![p] = SubSeq(q, 1, n)] /\ q2 = SubSeq(q, n + 1, Len(q))
Passes(e, p, after)       == after = [e EXCEPT ![p] = Tail(@)]
FirstOf(e, p)             == Head(e[p])

\* Total() is what Outstanding() is of the current state, and of the next.
LEMMA OutstandingIsTotal ==
  ASSUME NEW S
  PROVE  /\ Outstanding(S) = Total(busy, port, entries, doing, S)
         /\ Outstanding(S)' = Total(busy', port', entries', doing', S)
<1>1. Outstanding(S) = Total(busy, port, entries, doing, S)
  BY DEF Outstanding, Total, Dequeued, DequeuedBy, Carriers, Carries, PacketOf, Sent,
         PacketIn, Linked
<1>2. Outstanding(S)' = Total(busy', port', entries', doing', S)
  BY DEF Outstanding, Total, Dequeued, DequeuedBy, Carriers, Carries, PacketOf, Sent,
         PacketIn, Linked
<1>3. QED
  BY <1>1, <1>2

\* The places of a sequence are finitely many.
LEMMA PlacesFinite ==
  ASSUME NEW q \in Seq(Packets), NEW S
  PROVE  /\ Where(q, S) \subseteq 1 .. Len(q)
         /\ IsFiniteSet(Where(q, S)) /\ Cardinality(Where(q, S)) \in Nat
<1>1. Where(q, S) \subseteq 1 .. Len(q) /\ Len(q) \in Nat
  BY LenProperties DEF Where
<1>2. IsFiniteSet(1 .. Len(q))
  BY <1>1, FS_Interval
<1>3. IsFiniteSet(Where(q, S))
  BY <1>1, <1>2, FS_Subset
<1>4. QED
  BY <1>1, <1>3, FS_CardinalityType

\* So are those of a part of the polling threads.
LEMMA DequeuedFinite ==
  ASSUME NEW e \in [Pollers -> Seq(Packets)], NEW P \in SUBSET Pollers, NEW S
  PROVE  IsFiniteSet(DequeuedBy(P, e, S)) /\ Cardinality(DequeuedBy(P, e, S)) \in Nat
<1> DEFINE F == [p \in P |-> {p} \X Where(e[p], S)]
           T == {F[p] : p \in P}
<1>1. IsFiniteSet(P)
  BY ThreadsAssumption, FS_Subset DEF Threads
<1>2. F \in Surjection(P, T)
  BY DEF Surjection
<1>3. IsFiniteSet(T)
  BY <1>1, <1>2, FS_Surjection
<1>4. ASSUME NEW p \in P PROVE IsFiniteSet(F[p])
  <2>1. IsFiniteSet({p}) /\ IsFiniteSet(Where(e[p], S))
    BY FS_Singleton, PlacesFinite
  <2>2. IsFiniteSet({p} \X Where(e[p], S))
    BY <2>1, FS_Product
  <2>3. QED
    BY <2>2
<1>5. IsFiniteSet(UNION T)
  BY <1>3, <1>4, FS_UNION
<1>6. T = {{p} \X Where(e[p], S) : p \in P}
  OBVIOUS
<1>7. IsFiniteSet(DequeuedBy(P, e, S))
  BY <1>5, <1>6 DEF DequeuedBy
<1>8. QED
  BY <1>7, FS_CardinalityType

\* Everything that is counted is finite.
LEMMA PartsFinite ==
  ASSUME NEW b, NEW q, NEW e, NEW d, CountTypes(b, q, e, d), NEW S
  PROVE  /\ IsFiniteSet(b \cap S) /\ Cardinality(b \cap S) \in Nat
         /\ IsFiniteSet(Where(q, S)) /\ Cardinality(Where(q, S)) \in Nat
         /\ IsFiniteSet(Dequeued(e, S)) /\ Cardinality(Dequeued(e, S)) \in Nat
         /\ IsFiniteSet(Carriers(d, S)) /\ Cardinality(Carriers(d, S)) \in Nat
<1>1. IsFiniteSet(b \cap S)
  BY FS_Intersection DEF CountTypes
<1>2. IsFiniteSet(Where(q, S))
  BY PlacesFinite DEF CountTypes
<1>3. IsFiniteSet(Dequeued(e, S))
  <2>1. e \in [Pollers -> Seq(Packets)] /\ Pollers \in SUBSET Pollers
    BY DEF CountTypes
  <2>2. QED
    BY <2>1, DequeuedFinite DEF Dequeued
<1>4. IsFiniteSet(Carriers(d, S))
  <2>1. Carriers(d, S) \subseteq Threads /\ IsFiniteSet(Threads)
    BY ThreadsAssumption DEF Carriers, Threads
  <2>2. QED
    BY <2>1, FS_Subset
<1>5. QED
  BY <1>1, <1>2, <1>3, <1>4, FS_CardinalityType

LEMMA TotalIsNat ==
  ASSUME NEW b, NEW q, NEW e, NEW d, CountTypes(b, q, e, d), NEW S
  PROVE  Total(b, q, e, d, S) \in Nat
<1>1. /\ Cardinality(b \cap S) \in Nat /\ Cardinality(Where(q, S)) \in Nat
      /\ Cardinality(Dequeued(e, S)) \in Nat /\ Cardinality(Carriers(d, S)) \in Nat
  BY PartsFinite
<1>2. QED
  BY <1>1 DEF Total

\* A set with or without one more element.
LEMMA CountWith ==
  ASSUME NEW A, IsFiniteSet(A), NEW x, x \notin A, NEW B, NEW y, NEW S,
         B = IF y \in S THEN A \cup {x} ELSE A
  PROVE  Cardinality(B) = Cardinality(A) + One(y, S)
<1>1. Cardinality(A) \in Nat
  BY FS_CardinalityType
<1>2. CASE y \in S
  BY <1>1, <1>2, FS_AddElement DEF One
<1>3. CASE y \notin S
  BY <1>1, <1>3 DEF One
<1>4. QED
  BY <1>2, <1>3

LEMMA CountWithout ==
  ASSUME NEW A, IsFiniteSet(A), NEW x, NEW y, NEW S, x \in A <=> y \in S
  PROVE  Cardinality(A \ {x}) = Cardinality(A) - One(y, S)
<1>1. Cardinality(A) \in Nat
  BY FS_CardinalityType
<1>2. CASE y \in S
  BY <1>1, <1>2, FS_RemoveElement DEF One
<1>3. CASE y \notin S
  <2>1. A \ {x} = A
    BY <1>3
  <2>2. One(y, S) = 0 /\ Cardinality(A) - 0 = Cardinality(A)
    BY <1>1, <1>3 DEF One
  <2>3. QED
    BY Zenon, <2>1, <2>2
<1>4. QED
  BY <1>2, <1>3

\* A thread takes on a packet, gives it up, or keeps it.
LEMMA ThreadTakesOn ==
  ASSUME NEW b, NEW q, NEW e, NEW d, CountTypes(b, q, e, d), NEW S,
         NEW th \in Threads, ~Carries(d, th), NEW r \in Doings, Sent(r),
         NEW after, Becomes(d, th, r, after)
  PROVE  /\ CountTypes(b, q, e, after)
         /\ Total(b, q, e, after, S) = Total(b, q, e, d, S) + One(PacketIn(r), S)
<1>1. CountTypes(b, q, e, after)
  BY DEF CountTypes, Becomes
<1>2. after[th] = r /\ r # None /\ \A x \in Threads \ {th} : after[x] = d[x]
  BY NoneAssumption DEF CountTypes, Becomes
<1>3. /\ th \notin Carriers(d, S)
      /\ Carriers(after, S) =
           IF PacketIn(r) \in S THEN Carriers(d, S) \cup {th} ELSE Carriers(d, S)
  BY <1>2 DEF Carriers, Carries, PacketOf
<1>4. IsFiniteSet(Carriers(d, S)) /\ Cardinality(Carriers(d, S)) \in Nat
  BY PartsFinite
<1>5. Cardinality(Carriers(after, S)) = Cardinality(Carriers(d, S)) + One(PacketIn(r), S)
  BY <1>3, <1>4, CountWith
<1>6. /\ Cardinality(b \cap S) \in Nat /\ Cardinality(Where(q, S)) \in Nat
      /\ Cardinality(Dequeued(e, S)) \in Nat /\ One(PacketIn(r), S) \in Nat
  BY PartsFinite DEF One
<1>7. Total(b, q, e, after, S) = Total(b, q, e, d, S) + One(PacketIn(r), S)
  BY <1>4, <1>5, <1>6 DEF Total
<1>8. QED
  BY <1>1, <1>7

LEMMA ThreadGivesUp ==
  ASSUME NEW b, NEW q, NEW e, NEW d, CountTypes(b, q, e, d), NEW S,
         NEW th \in Threads, Carries(d, th), NEW after, Becomes(d, th, None, after)
  PROVE  /\ CountTypes(b, q, e, after)
         /\ Total(b, q, e, after, S) = Total(b, q, e, d, S) - One(PacketOf(d, th), S)
<1>1. CountTypes(b, q, e, after)
  BY DEF CountTypes, Becomes
<1>2. after[th] = None /\ \A x \in Threads \ {th} : after[x] = d[x]
  BY DEF CountTypes, Becomes
<1>3. /\ th \in Carriers(d, S) <=> PacketOf(d, th) \in S
      /\ Carriers(after, S) = Carriers(d, S) \ {th}
  BY <1>2 DEF Carriers, Carries, PacketOf, Sent
<1>4. IsFiniteSet(Carriers(d, S)) /\ Cardinality(Carriers(d, S)) \in Nat
  BY PartsFinite
<1>5. Cardinality(Carriers(after, S)) = Cardinality(Carriers(d, S)) - One(PacketOf(d, th), S)
  BY <1>3, <1>4, CountWithout
<1>6. /\ Cardinality(b \cap S) \in Nat /\ Cardinality(Where(q, S)) \in Nat
      /\ Cardinality(Dequeued(e, S)) \in Nat /\ One(PacketOf(d, th), S) \in Nat
  BY PartsFinite DEF One
<1>7. Total(b, q, e, after, S) = Total(b, q, e, d, S) - One(PacketOf(d, th), S)
  BY <1>4, <1>5, <1>6 DEF Total
<1>8. QED
  BY <1>1, <1>7

LEMMA ThreadKeeps ==
  ASSUME NEW b, NEW q, NEW e, NEW d, CountTypes(b, q, e, d), NEW S,
         NEW th \in Threads, NEW r \in Doings, Carries(d, th) <=> Sent(r),
         Carries(d, th) => PacketIn(r) = PacketOf(d, th), NEW after, Becomes(d, th, r, after)
  PROVE  /\ CountTypes(b, q, e, after)
         /\ Total(b, q, e, after, S) = Total(b, q, e, d, S)
<1>1. CountTypes(b, q, e, after)
  BY DEF CountTypes, Becomes
<1>2. after[th] = r /\ r # None /\ \A x \in Threads \ {th} : after[x] = d[x]
  BY NoneAssumption DEF CountTypes, Becomes
<1>3. Carriers(after, S) = Carriers(d, S)
  BY <1>2 DEF Carriers, Carries, PacketOf
<1>4. QED
  BY <1>1, <1>3 DEF Total

\* The kernel starts or ends a request.
LEMMA KernelStarts ==
  ASSUME NEW b, NEW q, NEW e, NEW d, CountTypes(b, q, e, d), NEW S,
         NEW x \in Packets, x \notin b, NEW after, Joins(b, x, after)
  PROVE  /\ CountTypes(after, q, e, d)
         /\ Total(after, q, e, d, S) = Total(b, q, e, d, S) + One(x, S)
<1>1. CountTypes(after, q, e, d)
  BY FS_AddElement DEF CountTypes, Joins
<1> DEFINE now  == b \cap S
           then == after \cap S
<1>2. x \notin now /\ then = IF x \in S THEN now \cup {x} ELSE now
  BY DEF Joins
<1>3. IsFiniteSet(b \cap S) /\ Cardinality(b \cap S) \in Nat
  BY PartsFinite
<1> HIDE DEF now, then
<1>4. Cardinality(after \cap S) = Cardinality(b \cap S) + One(x, S)
  <2>1. Cardinality(then) = Cardinality(now) + One(x, S)
    BY <1>2, <1>3, CountWith DEF now
  <2>2. QED
    BY Zenon, <2>1 DEF now, then
<1>5. /\ Cardinality(Where(q, S)) \in Nat /\ Cardinality(Dequeued(e, S)) \in Nat
      /\ Cardinality(Carriers(d, S)) \in Nat /\ One(x, S) \in Nat
  BY PartsFinite DEF One
<1>6. QED
  BY <1>1, <1>3, <1>4, <1>5 DEF Total

LEMMA KernelEnds ==
  ASSUME NEW b, NEW q, NEW e, NEW d, CountTypes(b, q, e, d), NEW S, NEW x \in b,
         NEW after, Leaves(b, x, after)
  PROVE  /\ CountTypes(after, q, e, d)
         /\ Total(after, q, e, d, S) = Total(b, q, e, d, S) - One(x, S)
<1>1. CountTypes(after, q, e, d)
  BY FS_RemoveElement DEF CountTypes, Leaves
<1>2. after \cap S = (b \cap S) \ {x} /\ (x \in b \cap S <=> x \in S)
  BY DEF Leaves
<1>3. IsFiniteSet(b \cap S) /\ Cardinality(b \cap S) \in Nat
  BY PartsFinite
<1>4. Cardinality(after \cap S) = Cardinality(b \cap S) - One(x, S)
  BY <1>2, <1>3, CountWithout
<1>5. /\ Cardinality(Where(q, S)) \in Nat /\ Cardinality(Dequeued(e, S)) \in Nat
      /\ Cardinality(Carriers(d, S)) \in Nat /\ One(x, S) \in Nat
  BY PartsFinite DEF One
<1>6. QED
  BY <1>1, <1>3, <1>4, <1>5 DEF Total

\* A packet comes to the port.
LEMMA PacketComes ==
  ASSUME NEW b, NEW q, NEW e, NEW d, CountTypes(b, q, e, d), NEW S, NEW x \in Packets,
         NEW after, Comes(q, x, after)
  PROVE  /\ CountTypes(b, after, e, d)
         /\ Total(b, after, e, d, S) = Total(b, q, e, d, S) + One(x, S)
<1> DEFINE n == Len(q) + 1
<1>1. /\ q \in Seq(Packets) /\ after \in Seq(Packets) /\ Len(after) = n /\ after[n] = x
      /\ \A i \in 1 .. Len(q) : after[i] = q[i]
      /\ n \in Nat /\ n \notin 1 .. Len(q) /\ 1 .. n = (1 .. Len(q)) \cup {n}
  BY LenProperties DEF CountTypes, Comes
<1>2. CountTypes(b, after, e, d)
  BY <1>1 DEF CountTypes
<1>3. DOMAIN after = 1 .. n /\ DOMAIN q = 1 .. Len(q)
  BY <1>1, LenProperties
<1> HIDE DEF n
<1>4. /\ n \notin Where(q, S)
      /\ Where(after, S) = IF x \in S THEN Where(q, S) \cup {n} ELSE Where(q, S)
  BY <1>1, <1>3 DEF Where
<1>5. IsFiniteSet(Where(q, S)) /\ Cardinality(Where(q, S)) \in Nat
  BY PartsFinite
<1>6. Cardinality(Where(after, S)) = Cardinality(Where(q, S)) + One(x, S)
  BY <1>4, <1>5, CountWith
<1>7. /\ Cardinality(b \cap S) \in Nat /\ Cardinality(Dequeued(e, S)) \in Nat
      /\ Cardinality(Carriers(d, S)) \in Nat /\ One(x, S) \in Nat
  BY PartsFinite DEF One
<1>8. Total(b, after, e, d, S) = Total(b, q, e, d, S) + One(x, S)
  BY <1>5, <1>6, <1>7 DEF Total
<1>9. QED
  BY <1>2, <1>8

\* The packets that a polling thread has, apart from those of the others.
LEMMA DequeuedApart ==
  ASSUME NEW e \in [Pollers -> Seq(Packets)], NEW p \in Pollers, NEW S
  PROVE  Cardinality(Dequeued(e, S))
           = Cardinality(DequeuedBy(Pollers \ {p}, e, S)) + Cardinality(Where(e[p], S))
<1> DEFINE mine   == {p} \X Where(e[p], S)
           others == DequeuedBy(Pollers \ {p}, e, S)
<1>1. IsFiniteSet(Where(e[p], S)) /\ Cardinality(Where(e[p], S)) \in Nat
  BY PlacesFinite
<1>2. IsFiniteSet(mine) /\ Cardinality(mine) = Cardinality(Where(e[p], S))
  <2>1. IsFiniteSet({p}) /\ Cardinality({p}) = 1
    BY FS_Singleton
  <2>2. IsFiniteSet(mine) /\ Cardinality(mine) = 1 * Cardinality(Where(e[p], S))
    BY <1>1, <2>1, FS_Product
  <2>3. QED
    BY <1>1, <2>2
<1>3. IsFiniteSet(others) /\ Cardinality(others) \in Nat
  BY DequeuedFinite
<1>4. Dequeued(e, S) = others \cup mine /\ others \cap mine = {}
  BY DEF Dequeued, DequeuedBy
<1>5. Cardinality({}) = 0
  BY FS_EmptySet
<1> HIDE DEF mine, others
<1>6. Cardinality(others \cup mine) = Cardinality(others) + Cardinality(mine) - 0
  BY <1>2, <1>3, <1>4, <1>5, FS_Union
<1>7. QED
  BY <1>1, <1>2, <1>3, <1>4, <1>6 DEF others

\* Two parts of a sequence have all of its places.
LEMMA PlacesSplit ==
  ASSUME NEW q \in Seq(Packets), NEW n \in 0 .. Len(q), NEW S
  PROVE  LET front == SubSeq(q, 1, n)
             rest  == SubSeq(q, n + 1, Len(q)) IN
           /\ front \in Seq(Packets) /\ rest \in Seq(Packets) /\ Len(front) = n
           /\ Cardinality(Where(q, S)) = Cardinality(Where(front, S)) + Cardinality(Where(rest, S))
<1> DEFINE front == SubSeq(q, 1, n)
           rest  == SubSeq(q, n + 1, Len(q))
<1>1. Len(q) \in Nat /\ DOMAIN q = 1 .. Len(q) /\ \A i \in 1 .. Len(q) : q[i] \in Packets
  BY LenProperties, ElementOfSeq
<1>2. /\ front \in Seq(Packets) /\ Len(front) = n
      /\ \A i \in 1 .. n : front[i] = q[i]
  OBVIOUS
<1>3. /\ rest \in Seq(Packets) /\ Len(rest) = Len(q) - n
      /\ \A i \in 1 .. Len(q) - n : rest[i] = q[n + i]
  OBVIOUS
<1>4. DOMAIN front = 1 .. n /\ DOMAIN rest = 1 .. Len(q) - n
  BY <1>1, <1>2, <1>3, LenProperties
<1> HIDE DEF front, rest
<1> DEFINE early == Where(front, S)
           late  == {i \in Where(q, S) : i > n}
           shift == [i \in Where(rest, S) |-> n + i]
<1>5. Where(q, S) = early \cup late /\ early \cap late = {}
  BY <1>1, <1>2, <1>4 DEF Where
<1>6. IsFiniteSet(Where(rest, S)) /\ IsFiniteSet(early)
  BY <1>2, <1>3, PlacesFinite
<1>7. shift \in Bijection(Where(rest, S), late)
  <2>1. shift \in [Where(rest, S) -> late]
    BY <1>1, <1>3, <1>4 DEF Where
  <2>2. ASSUME NEW j \in late PROVE \E i \in Where(rest, S) : shift[i] = j
    <3>1. j - n \in 1 .. Len(q) - n /\ n + (j - n) = j /\ q[j] \in S
      BY <1>1 DEF Where
    <3>2. rest[j - n] \in S
      BY <1>3, <3>1
    <3>3. j - n \in Where(rest, S)
      BY <1>4, <3>1, <3>2 DEF Where
    <3>4. QED
      BY <3>1, <3>3
  <2>3. \A i, j \in Where(rest, S) : shift[i] = shift[j] => i = j
    BY <1>4 DEF Where
  <2> HIDE DEF late, shift
  <2>4. shift \in Injection(Where(rest, S), late)
    BY Zenon, <2>1, <2>3 DEF Injection, IsInjective
  <2>5. shift \in Surjection(Where(rest, S), late)
    BY Zenon, <2>1, <2>2 DEF Surjection
  <2>6. QED
    BY Zenon, <2>4, <2>5 DEF Bijection
<1>8. IsFiniteSet(late) /\ Cardinality(late) = Cardinality(Where(rest, S))
  BY <1>6, <1>7, FS_Bijection DEF ExistsBijection
<1>9. Cardinality({}) = 0 /\ Cardinality(early) \in Nat /\ Cardinality(late) \in Nat
  BY <1>6, <1>8, FS_EmptySet, FS_CardinalityType
<1> HIDE DEF early, late, shift
<1>10. Cardinality(early \cup late) = Cardinality(early) + Cardinality(late) - 0
  BY <1>5, <1>6, <1>8, <1>9, FS_Union
<1>11. Cardinality(Where(q, S)) = Cardinality(Where(front, S)) + Cardinality(Where(rest, S))
  <2>1. Cardinality(Where(q, S)) = Cardinality(early) + Cardinality(late)
    BY <1>5, <1>9, <1>10
  <2>2. QED
    BY <1>8, <2>1 DEF early
<1>12. QED
  BY <1>2, <1>3, <1>11 DEF front, rest

\* Nothing is lost when a thread dequeues.
LEMMA ThreadDequeues ==
  ASSUME NEW b, NEW q, NEW e, NEW d, CountTypes(b, q, e, d), NEW S,
         NEW p \in Pollers, e[p] = <<>>, NEW n \in 0 .. Len(q),
         NEW rest, NEW after, Takes(q, e, p, n, rest, after)
  PROVE  /\ CountTypes(b, rest, after, d) /\ Len(after[p]) = n
         /\ Total(b, rest, after, d, S) = Total(b, q, e, d, S)
<1> DEFINE front == SubSeq(q, 1, n)
<1>1. /\ front \in Seq(Packets) /\ rest \in Seq(Packets) /\ Len(front) = n
      /\ Cardinality(Where(q, S)) = Cardinality(Where(front, S)) + Cardinality(Where(rest, S))
  <2>1. q \in Seq(Packets)
    BY DEF CountTypes
  <2>2. QED
    BY <2>1, PlacesSplit DEF Takes
<1>2. /\ e \in [Pollers -> Seq(Packets)] /\ after \in [Pollers -> Seq(Packets)]
      /\ after[p] = front /\ \A x \in Pollers \ {p} : after[x] = e[x]
  BY <1>1 DEF CountTypes, Takes
<1> HIDE DEF front
<1>3. CountTypes(b, rest, after, d)
  BY <1>1, <1>2 DEF CountTypes
<1>4. DequeuedBy(Pollers \ {p}, after, S) = DequeuedBy(Pollers \ {p}, e, S)
  BY <1>2 DEF DequeuedBy
<1>5. Where(e[p], S) = {} /\ Cardinality({}) = 0
  BY FS_EmptySet DEF Where
<1> DEFINE others == Cardinality(DequeuedBy(Pollers \ {p}, e, S))
<1>6. Cardinality(Dequeued(e, S)) = others + 0
  <2>1. Cardinality(Where(e[p], S)) = 0
    BY Zenon, <1>5
  <2>2. Cardinality(Dequeued(e, S)) = others + Cardinality(Where(e[p], S))
    BY <1>2, DequeuedApart
  <2>3. QED
    BY Zenon, <2>1, <2>2
<1>7. Cardinality(Dequeued(after, S)) = others + Cardinality(Where(front, S))
  BY <1>2, <1>4, DequeuedApart
<1>8. /\ others \in Nat /\ Cardinality(Where(front, S)) \in Nat
      /\ Cardinality(Where(rest, S)) \in Nat
  BY <1>1, <1>2, PlacesFinite, DequeuedFinite
<1>9. Cardinality(b \cap S) \in Nat /\ Cardinality(Carriers(d, S)) \in Nat
  BY PartsFinite
<1> HIDE DEF others
<1>10. Total(b, rest, after, d, S) = Total(b, q, e, d, S)
  BY <1>1, <1>6, <1>7, <1>8, <1>9 DEF Total
<1>11. QED
  BY <1>1, <1>2, <1>3, <1>10

\* A thread dispatches its first packet.
LEMMA ThreadDispatches ==
  ASSUME NEW b, NEW q, NEW e, NEW d, CountTypes(b, q, e, d), NEW S,
         NEW p \in Pollers, e[p] # <<>>, NEW after, Passes(e, p, after)
  PROVE  /\ CountTypes(b, q, after, d) /\ Len(after[p]) <= Len(e[p])
         /\ FirstOf(e, p) \in Packets
         /\ Total(b, q, after, d, S) = Total(b, q, e, d, S) - One(FirstOf(e, p), S)
<1> DEFINE head  == Head(e[p])
           tail  == Tail(e[p])
           front == SubSeq(e[p], 1, 1)
<1>1. /\ e \in [Pollers -> Seq(Packets)] /\ e[p] \in Seq(Packets) /\ Len(e[p]) \in Nat \ {0}
      /\ tail \in Seq(Packets) /\ Len(tail) <= Len(e[p]) /\ head \in Packets
  BY EmptySeq DEF CountTypes
<1>2. /\ after \in [Pollers -> Seq(Packets)] /\ after[p] = tail
      /\ \A x \in Pollers \ {p} : after[x] = e[x]
  BY <1>1 DEF CountTypes, Passes
<1>3. CountTypes(b, q, after, d)
  BY <1>2 DEF CountTypes
<1>4. tail = SubSeq(e[p], 1 + 1, Len(e[p]))
  BY <1>1, TailIsSubSeq
<1>5. Cardinality(Where(e[p], S)) = Cardinality(Where(front, S)) + Cardinality(Where(tail, S))
  <2>1. 1 \in 0 .. Len(e[p])
    BY <1>1
  <2>2. Cardinality(Where(e[p], S))
          = Cardinality(Where(SubSeq(e[p], 1, 1), S))
              + Cardinality(Where(SubSeq(e[p], 1 + 1, Len(e[p])), S))
    BY <1>1, <2>1, PlacesSplit
  <2>3. QED
    BY Zenon, <1>4, <2>2
<1>6. front \in Seq(Packets) /\ Len(front) = 1 /\ front[1] = head
  BY <1>1
<1>7. DOMAIN front = {1}
  BY <1>6, LenProperties
<1> HIDE DEF front, tail, head
<1>8. Cardinality(Where(front, S)) = One(head, S)
  <2>1. Cardinality({}) = 0 /\ Cardinality({1}) = 1
    BY FS_EmptySet, FS_Singleton
  <2>2. Where(front, S) = {1} \/ Where(front, S) = {}
    BY <1>7 DEF Where
  <2>3. Where(front, S) = {1} <=> head \in S
    BY <1>6, <1>7 DEF Where
  <2>4. QED
    BY <2>1, <2>2, <2>3 DEF One
<1>9. DequeuedBy(Pollers \ {p}, after, S) = DequeuedBy(Pollers \ {p}, e, S)
  BY <1>2 DEF DequeuedBy
<1> DEFINE others == Cardinality(DequeuedBy(Pollers \ {p}, e, S))
<1>10. Cardinality(Dequeued(e, S)) = others + Cardinality(Where(e[p], S))
  BY <1>1, DequeuedApart
<1>11. Cardinality(Dequeued(after, S)) = others + Cardinality(Where(tail, S))
  BY <1>2, <1>9, DequeuedApart
<1>12. others \in Nat /\ Cardinality(Where(tail, S)) \in Nat /\ One(head, S) \in Nat
  BY <1>1, <1>2, PlacesFinite, DequeuedFinite DEF One
<1>13. /\ Cardinality(b \cap S) \in Nat /\ Cardinality(Carriers(d, S)) \in Nat
       /\ Cardinality(Where(q, S)) \in Nat
  BY PartsFinite
<1> HIDE DEF others
<1>14. Total(b, q, after, d, S) = Total(b, q, e, d, S) - One(head, S)
  BY <1>5, <1>8, <1>10, <1>11, <1>12, <1>13 DEF Total
<1>15. QED
  BY <1>1, <1>2, <1>3, <1>14 DEF head, FirstOf

----------------------------------------------------------------------------
(* What a step does to what is outstanding.                                *)

Counted == CountTypes(busy, port, entries, doing)

Keeps    == \A S : Outstanding(S)' = Outstanding(S)
Gains(x) == \A S : Outstanding(S)' = Outstanding(S) + One(x, S)
Loses(x) == \A S : Outstanding(S)' = Outstanding(S) - One(x, S)

LEMMA CountedNext ==
  ASSUME CountTypes(busy', port', entries', doing')
  PROVE  Counted'
BY DEF Counted, CountTypes

LEMMA OutstandingIsNat ==
  ASSUME NEW S
  PROVE  /\ Counted => Outstanding(S) \in Nat
         /\ Counted' => Outstanding(S)' \in Nat
<1>1. Counted => Outstanding(S) \in Nat
  BY OutstandingIsTotal, TotalIsNat DEF Counted
<1>2. ASSUME Counted' PROVE Outstanding(S)' \in Nat
  <2>1. CountTypes(busy', port', entries', doing')
    BY <1>2 DEF Counted, CountTypes
  <2>2. Total(busy', port', entries', doing', S) \in Nat
    BY <2>1, TotalIsNat
  <2>3. QED
    BY Zenon, <2>2, OutstandingIsTotal
<1>3. QED
  BY <1>1, <1>2

LEMMA OneIsNat ==
  ASSUME NEW x, NEW S
  PROVE  One(x, S) \in Nat
BY DEF One

LEMMA StillKeeps ==
  ASSUME Counted, UNCHANGED <<busy, port, entries, doing>>
  PROVE  Counted' /\ Keeps
<1>1. CountTypes(busy', port', entries', doing')
  BY DEF Counted
<1>2. ASSUME NEW S PROVE Total(busy', port', entries', doing', S) = Total(busy, port, entries, doing, S)
  OBVIOUS
<1>3. QED
  BY <1>1, <1>2, CountedNext, OutstandingIsTotal DEF Keeps

\* A thread takes on a packet.
LEMMA LinkGains ==
  ASSUME Counted, UNCHANGED <<busy, port, entries>>, NEW th \in Threads, ~Carries(doing, th),
         NEW r \in Doings, Sent(r), Becomes(doing, th, r, doing')
  PROVE  Counted' /\ Gains(PacketIn(r))
<1>1. ASSUME NEW S
      PROVE  /\ CountTypes(busy', port', entries', doing')
             /\ Total(busy', port', entries', doing', S)
                  = Total(busy, port, entries, doing, S) + One(PacketIn(r), S)
  BY ThreadTakesOn DEF Counted
<1>2. QED
  BY <1>1, CountedNext, OutstandingIsTotal DEF Gains

LEMMA StepKeeps ==
  ASSUME Counted, UNCHANGED <<busy, port, entries>>, NEW th \in Threads, NEW r \in Doings,
         Carries(doing, th) <=> Sent(r), Carries(doing, th) => PacketIn(r) = PacketOf(doing, th),
         Becomes(doing, th, r, doing')
  PROVE  Counted' /\ Keeps
<1>1. ASSUME NEW S
      PROVE  /\ CountTypes(busy', port', entries', doing')
             /\ Total(busy', port', entries', doing', S) = Total(busy, port, entries, doing, S)
  BY ThreadKeeps DEF Counted
<1>2. QED
  BY <1>1, CountedNext, OutstandingIsTotal DEF Keeps

LEMMA LetGoLoses ==
  ASSUME Counted, UNCHANGED <<busy, port, entries>>, NEW th \in Threads, Carries(doing, th),
         Becomes(doing, th, None, doing')
  PROVE  Counted' /\ Loses(PacketOf(doing, th))
<1>1. ASSUME NEW S
      PROVE  /\ CountTypes(busy', port', entries', doing')
             /\ Total(busy', port', entries', doing', S)
                  = Total(busy, port, entries, doing, S) - One(PacketOf(doing, th), S)
  BY ThreadGivesUp DEF Counted
<1>2. QED
  BY <1>1, CountedNext, OutstandingIsTotal DEF Loses

\* What a thread had goes to the port or to the kernel.
LEMMA SendKeeps ==
  ASSUME Counted, UNCHANGED <<busy, entries>>, NEW th \in Threads, Carries(doing, th),
         PacketOf(doing, th) \in Packets,
         Comes(port, PacketOf(doing, th), port'), Becomes(doing, th, None, doing')
  PROVE  Counted' /\ Keeps
<1> DEFINE x == PacketOf(doing, th)
<1>1. ASSUME NEW S
      PROVE  /\ CountTypes(busy, port, entries, doing')
             /\ Total(busy, port, entries, doing', S)
                  = Total(busy, port, entries, doing, S) - One(x, S)
  BY ThreadGivesUp DEF Counted
<1>2. ASSUME NEW S
      PROVE  /\ CountTypes(busy', port', entries', doing')
             /\ Total(busy', port', entries', doing', S)
                  = Total(busy, port, entries, doing', S) + One(x, S)
  BY <1>1, PacketComes
<1>3. ASSUME NEW S
      PROVE  Total(busy', port', entries', doing', S) = Total(busy, port, entries, doing, S)
  BY <1>1, <1>2, TotalIsNat, OneIsNat DEF Counted
<1>4. QED
  BY <1>2, <1>3, CountedNext, OutstandingIsTotal DEF Keeps

LEMMA StartKeeps ==
  ASSUME Counted, UNCHANGED <<port, entries>>, NEW th \in Threads, Carries(doing, th),
         PacketOf(doing, th) \in Packets, PacketOf(doing, th) \notin busy,
         Joins(busy, PacketOf(doing, th), busy'), Becomes(doing, th, None, doing')
  PROVE  Counted' /\ Keeps
<1> DEFINE x == PacketOf(doing, th)
<1>1. ASSUME NEW S
      PROVE  /\ CountTypes(busy, port, entries, doing')
             /\ Total(busy, port, entries, doing', S)
                  = Total(busy, port, entries, doing, S) - One(x, S)
  BY ThreadGivesUp DEF Counted
<1>2. ASSUME NEW S
      PROVE  /\ CountTypes(busy', port', entries', doing')
             /\ Total(busy', port', entries', doing', S)
                  = Total(busy, port, entries, doing', S) + One(x, S)
  BY <1>1, KernelStarts
<1>3. ASSUME NEW S
      PROVE  Total(busy', port', entries', doing', S) = Total(busy, port, entries, doing, S)
  BY <1>1, <1>2, TotalIsNat, OneIsNat DEF Counted
<1>4. QED
  BY <1>2, <1>3, CountedNext, OutstandingIsTotal DEF Keeps

\* From the kernel to the port, from there to a polling thread, and on.
LEMMA CompleteKeeps ==
  ASSUME Counted, UNCHANGED <<entries, doing>>, NEW x \in busy,
         Leaves(busy, x, busy'), Comes(port, x, port')
  PROVE  Counted' /\ Keeps
<1>1. x \in Packets
  BY DEF Counted, CountTypes
<1>2. ASSUME NEW S
      PROVE  /\ CountTypes(busy', port, entries, doing)
             /\ Total(busy', port, entries, doing, S)
                  = Total(busy, port, entries, doing, S) - One(x, S)
  BY KernelEnds DEF Counted
<1>3. ASSUME NEW S
      PROVE  /\ CountTypes(busy', port', entries', doing')
             /\ Total(busy', port', entries', doing', S)
                  = Total(busy', port, entries, doing, S) + One(x, S)
  BY <1>1, <1>2, PacketComes
<1>4. ASSUME NEW S
      PROVE  Total(busy', port', entries', doing', S) = Total(busy, port, entries, doing, S)
  BY <1>2, <1>3, TotalIsNat, OneIsNat DEF Counted
<1>5. QED
  BY <1>3, <1>4, CountedNext, OutstandingIsTotal DEF Keeps

LEMMA DequeueKeeps ==
  ASSUME Counted, UNCHANGED <<busy, doing>>, NEW p \in Pollers, entries[p] = <<>>,
         NEW n \in 0 .. Len(port), Takes(port, entries, p, n, port', entries')
  PROVE  Counted' /\ Keeps /\ Len(entries'[p]) = n
<1>1. ASSUME NEW S
      PROVE  /\ CountTypes(busy', port', entries', doing') /\ Len(entries'[p]) = n
             /\ Total(busy', port', entries', doing', S) = Total(busy, port, entries, doing, S)
  BY ThreadDequeues DEF Counted
<1>2. QED
  BY <1>1, CountedNext, OutstandingIsTotal DEF Keeps

LEMMA DispatchLoses ==
  ASSUME Counted, UNCHANGED <<busy, port, doing>>, NEW p \in Pollers, entries[p] # <<>>,
         Passes(entries, p, entries')
  PROVE  /\ Counted' /\ Len(entries'[p]) <= Len(entries[p])
         /\ FirstOf(entries, p) \in Packets /\ Loses(FirstOf(entries, p))
<1>1. ASSUME NEW S
      PROVE  /\ CountTypes(busy', port', entries', doing') /\ Len(entries'[p]) <= Len(entries[p])
             /\ FirstOf(entries, p) \in Packets
             /\ Total(busy', port', entries', doing', S)
                  = Total(busy, port, entries, doing, S) - One(FirstOf(entries, p), S)
  BY ThreadDispatches DEF Counted
<1>2. QED
  BY <1>1, CountedNext, OutstandingIsTotal DEF Loses
----------------------------------------------------------------------------
(* What is counted of a context and of a transport.                        *)

If(test) == IF test THEN 1 ELSE 0

\* A packet counts for its context, for its key and as itself.
LEMMA PacketCounts ==
  ASSUME NEW x \in Packets
  PROVE  /\ \A c \in Contexts : One(x, {c} \X (Transports \cup Listeners)) = If(c = x[1])
         /\ \A t \in Transports : One(x, Contexts \X {t}) = If(t = x[2])
         /\ \A y : One(x, {y}) = If(x = y)
BY DEF Packets, One, If

\* More packets are as many at least.
LEMMA TotalIsMonotone ==
  ASSUME NEW b, NEW q, NEW e, NEW d, CountTypes(b, q, e, d), NEW S, NEW T, S \subseteq T
  PROVE  Total(b, q, e, d, S) <= Total(b, q, e, d, T)
<1>1. /\ b \cap S \subseteq b \cap T
      /\ Where(q, S) \subseteq Where(q, T)
      /\ Dequeued(e, S) \subseteq Dequeued(e, T)
      /\ Carriers(d, S) \subseteq Carriers(d, T)
  BY DEF Where, Dequeued, DequeuedBy, Carriers
<1>2. /\ IsFiniteSet(b \cap T) /\ Cardinality(b \cap T) \in Nat
      /\ IsFiniteSet(Where(q, T)) /\ Cardinality(Where(q, T)) \in Nat
      /\ IsFiniteSet(Dequeued(e, T)) /\ Cardinality(Dequeued(e, T)) \in Nat
      /\ IsFiniteSet(Carriers(d, T)) /\ Cardinality(Carriers(d, T)) \in Nat
  BY PartsFinite
<1>3. /\ Cardinality(b \cap S) \in Nat /\ Cardinality(Where(q, S)) \in Nat
      /\ Cardinality(Dequeued(e, S)) \in Nat /\ Cardinality(Carriers(d, S)) \in Nat
  BY PartsFinite
<1>4. /\ Cardinality(b \cap S) <= Cardinality(b \cap T)
      /\ Cardinality(Where(q, S)) <= Cardinality(Where(q, T))
      /\ Cardinality(Dequeued(e, S)) <= Cardinality(Dequeued(e, T))
      /\ Cardinality(Carriers(d, S)) <= Cardinality(Carriers(d, T))
  BY <1>1, <1>2, FS_Subset
<1>5. QED
  BY <1>2, <1>3, <1>4 DEF Total

LEMMA PartOfWhole ==
  ASSUME Counted, NEW S, NEW T, S \subseteq T
  PROVE  Outstanding(S) <= Outstanding(T)
BY TotalIsMonotone, OutstandingIsTotal DEF Counted

\* A packet is abroad while something counts it.
Abroad(x) == Outstanding({x}) > 0

LEMMA CountsAreNat ==
  ASSUME Counted
  PROVE  /\ \A c \in Contexts : InFlight(c) \in Nat
         /\ \A t \in Transports : InFlightOn(t) \in Nat
BY OutstandingIsNat DEF InFlight, InFlightOn

LEMMA AbroadCounts ==
  ASSUME Counted, NEW x \in Packets, Abroad(x)
  PROVE  /\ x[1] \in Contexts /\ InFlight(x[1]) >= 1
         /\ x[2] \in Transports => InFlightOn(x[2]) >= 1
<1>1. Outstanding({x}) \in Nat /\ Outstanding({x}) >= 1
  BY OutstandingIsNat DEF Abroad
<1>2. {x} \subseteq {x[1]} \X (Transports \cup Listeners) /\ {x} \subseteq Contexts \X {x[2]}
      /\ x[1] \in Contexts
  BY DEF Packets
<1>3. InFlight(x[1]) >= 1
  <2>1. Outstanding({x}) <= InFlight(x[1]) /\ InFlight(x[1]) \in Nat
    BY <1>2, PartOfWhole, CountsAreNat DEF InFlight
  <2>2. QED
    BY <1>1, <2>1
<1>4. ASSUME x[2] \in Transports PROVE InFlightOn(x[2]) >= 1
  <2>1. Outstanding({x}) <= InFlightOn(x[2]) /\ InFlightOn(x[2]) \in Nat
    BY <1>2, <1>4, PartOfWhole, CountsAreNat DEF InFlightOn
  <2>2. QED
    BY <1>1, <2>1
<1>5. QED
  BY <1>2, <1>3, <1>4

LEMMA KeepsAll ==
  ASSUME Counted, Counted', Keeps
  PROVE  /\ \A c \in Contexts : InFlight(c) \in Nat /\ InFlight(c)' = InFlight(c)
         /\ \A t \in Transports : InFlightOn(t) \in Nat /\ InFlightOn(t)' = InFlightOn(t)
         /\ \A x : Abroad(x)' <=> Abroad(x)
<1>1. \A c \in Contexts : InFlight(c)' = InFlight(c)
  BY DEF Keeps, InFlight
<1>2. \A t \in Transports : InFlightOn(t)' = InFlightOn(t)
  BY DEF Keeps, InFlightOn
<1>3. \A x : Abroad(x)' <=> Abroad(x)
  BY DEF Keeps, Abroad
<1>4. QED
  BY <1>1, <1>2, <1>3, CountsAreNat

LEMMA GainsAll ==
  ASSUME Counted, Counted', NEW x \in Packets, Gains(x)
  PROVE  /\ \A c \in Contexts : InFlight(c) \in Nat /\ InFlight(c)' = InFlight(c) + If(c = x[1])
         /\ \A t \in Transports :
              InFlightOn(t) \in Nat /\ InFlightOn(t)' = InFlightOn(t) + If(t = x[2])
         /\ \A y : Abroad(y)' => Abroad(y) \/ y = x
<1>1. \A c \in Contexts : InFlight(c)' = InFlight(c) + If(c = x[1])
  BY PacketCounts DEF Gains, InFlight
<1>2. \A t \in Transports : InFlightOn(t)' = InFlightOn(t) + If(t = x[2])
  BY PacketCounts DEF Gains, InFlightOn
<1>3. ASSUME NEW y, y # x, Abroad(y)' PROVE Abroad(y)
  <2>1. One(x, {y}) = 0 /\ Outstanding({y}) \in Nat
    BY <1>3, OutstandingIsNat DEF One
  <2>2. Outstanding({y})' = Outstanding({y}) + One(x, {y})
    BY DEF Gains
  <2>3. QED
    BY <1>3, <2>1, <2>2 DEF Abroad
<1>4. QED
  BY <1>1, <1>2, <1>3, CountsAreNat

LEMMA LosesAll ==
  ASSUME Counted, Counted', NEW x \in Packets, Loses(x)
  PROVE  /\ \A c \in Contexts : InFlight(c) \in Nat /\ InFlight(c)' = InFlight(c) - If(c = x[1])
         /\ \A t \in Transports :
              InFlightOn(t) \in Nat /\ InFlightOn(t)' = InFlightOn(t) - If(t = x[2])
         /\ \A y : Abroad(y)' => Abroad(y)
         /\ Abroad(x)
<1>1. \A c \in Contexts : InFlight(c)' = InFlight(c) - If(c = x[1])
  BY PacketCounts DEF Loses, InFlight
<1>2. \A t \in Transports : InFlightOn(t)' = InFlightOn(t) - If(t = x[2])
  BY PacketCounts DEF Loses, InFlightOn
<1>3. ASSUME NEW y, Abroad(y)' PROVE Abroad(y)
  <2>1. One(x, {y}) \in Nat /\ Outstanding({y}) \in Nat
    BY OneIsNat, OutstandingIsNat
  <2>2. Outstanding({y})' = Outstanding({y}) - One(x, {y})
    BY DEF Loses
  <2>3. QED
    BY <1>3, <2>1, <2>2 DEF Abroad
<1>4. Abroad(x)
  <2>1. One(x, {x}) = 1 /\ Outstanding({x}) \in Nat /\ Outstanding({x})' \in Nat
    BY OutstandingIsNat DEF One
  <2>2. Outstanding({x})' = Outstanding({x}) - One(x, {x})
    BY DEF Loses
  <2>3. QED
    BY <2>1, <2>2 DEF Abroad
<1>5. QED
  BY <1>1, <1>2, <1>3, <1>4, CountsAreNat
----------------------------------------------------------------------------
(* Contexts, and what a step of the port does to them.                     *)

ContextTypes ==
  /\ request \in [Contexts -> {"None", "Cancelled", "Message", "Read", "Write", "Other"}]
  /\ count \in [Contexts -> Nat] /\ refs \in [Contexts -> Nat] /\ held \in [Transports -> Nat]
  /\ \A c \in Contexts : request[c] = "Message" <=> count[c] > 0

\* A context without a request is nowhere; one that is posted is in as many places
\* as its count says, and any other in one at most.
SoundContext(c) ==
  /\ request[c] = "None" => InFlight(c) = 0 /\ refs[c] = 0
  /\ request[c] = "Message" => count[c] = InFlight(c) /\ refs[c] = count[c]
  /\ request[c] \notin {"None", "Message"} => InFlight(c) <= 1 /\ refs[c] = 1

\* Messages are for listeners, and all else for transports.
KeyFits(x) == x[2] \in Listeners <=> request[x[1]] = "Message"

\* What a thread is about is a message or a request, as its step goes; nothing but
\* a message is linked to a context that has a request already.
DoingFits(r) ==
  /\ r.step \in {"link", "send"} => r.type = "Message"
  /\ r.step = "issue" => r.type # "Message"
  /\ r.on \in Listeners <=> r.type = "Message"
  /\ r.step = "link" => request[r.ctx] \in {"None", "Message"}

ThreadsFit == \A th \in Threads : doing[th] # None => DoingFits(doing[th])

\* The invariant of the port, which any program keeps.
PortInv ==
  /\ ContextTypes /\ Counted
  /\ \A c \in Contexts : SoundContext(c)
  /\ \A t \in Transports : held[t] >= InFlightOn(t)
  /\ \A x \in Packets : Abroad(x) => KeyFits(x)
  /\ ThreadsFit

\* The next step of what a thread is about.
Stepped(r, s) == [r EXCEPT !.step = s]

LEMMA SteppedIs ==
  ASSUME NEW r \in Doings, NEW s \in {"link", "send", "issue", "undo"}
  PROVE  /\ Stepped(r, s) \in Doings /\ Stepped(r, s) # None
         /\ Stepped(r, s).step = s /\ Stepped(r, s).ctx = r.ctx /\ Stepped(r, s).on = r.on
         /\ Stepped(r, s).type = r.type
         /\ PacketIn(Stepped(r, s)) = PacketIn(r)
         /\ Sent(Stepped(r, s)) <=> s # "link"
<1>1. /\ Stepped(r, s) \in Doings
      /\ Stepped(r, s).step = s /\ Stepped(r, s).ctx = r.ctx /\ Stepped(r, s).on = r.on
      /\ Stepped(r, s).type = r.type
  BY DEF Stepped, Doings
<1>2. Stepped(r, s) # None
  BY <1>1, NoneAssumption
<1>3. QED
  BY <1>1, <1>2 DEF PacketIn, Sent

\* What a thread is about, when it is about something.
LEMMA DoingIs ==
  ASSUME Counted, NEW th \in Threads, doing[th] # None
  PROVE  /\ doing[th] \in Doings /\ doing[th].ctx \in Contexts
         /\ doing[th].on \in Transports \cup Listeners
         /\ PacketOf(doing, th) \in Packets
         /\ PacketOf(doing, th)[1] = doing[th].ctx /\ PacketOf(doing, th)[2] = doing[th].on
         /\ Carries(doing, th) <=> doing[th].step # "link"
BY DEF Counted, CountTypes, Doings, Packets, PacketOf, PacketIn, Carries, Sent

\* The threads still fit when one of them changes what it is about.
LEMMA FitKept ==
  ASSUME PortInv, NEW th \in Threads, NEW r \in Doings \cup {None}, Becomes(doing, th, r, doing'),
         r # None => DoingFits(r)',
         \A x \in Threads \ {th} :
            At(x, "link") => request'[doing[x].ctx] \in {"None", "Message"}
  PROVE  ThreadsFit'
<1>1. doing \in [Threads -> Doings \cup {None}]
  BY DEF PortInv, Counted, CountTypes
<1>2. ASSUME NEW x \in Threads, doing'[x] # None PROVE DoingFits(doing[x])'
  <2>1. CASE x = th
    <3>1. doing'[x] = r
      BY <1>1, <2>1 DEF Becomes
    <3>2. QED
      BY <1>2, <3>1 DEF DoingFits
  <2>2. CASE x # th
    <3>1. doing'[x] = doing[x]
      BY <1>1, <2>2 DEF Becomes
    <3>2. DoingFits(doing[x]) /\ (At(x, "link") <=> doing[x].step = "link")
      BY <1>2, <3>1 DEF PortInv, ThreadsFit, At
    <3>3. QED
      BY <2>2, <3>1, <3>2 DEF DoingFits
  <2>3. QED
    BY <2>1, <2>2
<1>3. QED
  BY <1>2 DEF ThreadsFit

\* Contexts and counts as they were.
LEMMA PortKept ==
  ASSUME PortInv, Counted', Keeps, UNCHANGED contextVars, ThreadsFit'
  PROVE  PortInv'
<1>1. request' = request /\ count' = count /\ refs' = refs /\ held' = held
  BY DEF contextVars
<1>2. ContextTypes'
  BY <1>1 DEF PortInv, ContextTypes
<1>3. \A c \in Contexts : SoundContext(c)'
  BY <1>1, KeepsAll DEF PortInv, SoundContext
<1>4. \A t \in Transports : held'[t] >= InFlightOn(t)'
  BY <1>1, KeepsAll DEF PortInv
<1>5. \A x \in Packets : Abroad(x)' => KeyFits(x)'
  BY <1>1, KeepsAll DEF PortInv, KeyFits
<1>6. QED
  BY <1>2, <1>3, <1>4, <1>5 DEF PortInv

LEMMA QuietKeeps ==
  ASSUME PortInv, UNCHANGED <<contextVars, busy, port, entries, doing>>
  PROVE  PortInv' /\ Keeps
<1>1. /\ request' = request /\ count' = count /\ refs' = refs /\ held' = held
      /\ busy' = busy /\ port' = port /\ entries' = entries /\ doing' = doing
  BY DEF contextVars
<1>2. Counted' /\ Keeps
  BY <1>1, StillKeeps DEF PortInv
<1>3. ThreadsFit'
  BY <1>1 DEF PortInv, ThreadsFit, DoingFits
<1>4. QED
  BY <1>1, <1>2, <1>3, PortKept DEF contextVars

\* Post() begins.
LEMMA PostKeeps ==
  ASSUME PortInv, NEW th \in Threads, NEW c \in Contexts, NEW l \in Listeners, Post(th, c, l)
  PROVE  PortInv' /\ Keeps
<1> DEFINE r == [ctx |-> c, on |-> l, type |-> "Message", step |-> "link"]
<1>1. r \in Doings /\ ~Sent(r)
  BY DEF Doings, Sent
<1>2. Becomes(doing, th, r, doing') /\ ~Carries(doing, th)
  BY DEF Post, Doing, Becomes, Carries, Sent
<1>3. DoingFits(r)'
  BY DEF Post, DoingFits, contextVars
<1> HIDE DEF r
<1>4. Counted' /\ Keeps
  <2>1. UNCHANGED <<busy, port, entries>>
    BY DEF Post, pollVars
  <2>2. QED
    BY <1>1, <1>2, <2>1, StepKeeps DEF PortInv
<1>5. ThreadsFit'
  BY <1>1, <1>2, <1>3, FitKept DEF Post, contextVars, PortInv, ThreadsFit, At, DoingFits
<1>6. QED
  BY <1>4, <1>5, PortKept DEF Post

\* Post() cannot send, or a system call is refused: link() must be undone.
LEMMA UndueKeeps ==
  ASSUME PortInv, UNCHANGED <<contextVars, busy, port, entries>>, NEW th \in Threads,
         Carries(doing, th), doing' = [doing EXCEPT ![th].step = "undo"]
  PROVE  PortInv' /\ Keeps
<1>1. doing[th] # None /\ doing[th] \in Doings
  BY DEF Carries, Sent, PortInv, Counted, CountTypes
<1> PICK r : r = Stepped(doing[th], "undo")
  OBVIOUS
<1>2. /\ r \in Doings /\ Sent(r) /\ PacketIn(r) = PacketOf(doing, th)
      /\ r.step = "undo" /\ r.on = doing[th].on /\ r.type = doing[th].type
  BY <1>1, SteppedIs DEF PacketOf
<1>3. Becomes(doing, th, r, doing')
  BY DEF Becomes, Stepped
<1>4. request' = request
  BY DEF contextVars
<1>5. DoingFits(r)'
  BY <1>1, <1>2 DEF DoingFits, PortInv, ThreadsFit
<1>6. Counted' /\ Keeps
  BY <1>2, <1>3, StepKeeps DEF PortInv
<1>7. ThreadsFit'
  BY <1>2, <1>3, <1>4, <1>5, FitKept DEF PortInv, ThreadsFit, At, DoingFits
<1>8. QED
  BY <1>6, <1>7, PortKept

\* A thread has linked a context to what it is about.
LEMMA LinkedKeeps ==
  ASSUME PortInv, UNCHANGED <<busy, port, entries>>, NEW th \in Threads, ~Carries(doing, th),
         NEW r \in Doings, Sent(r), Becomes(doing, th, r, doing'), Link(r.ctx, r.on, r.type),
         r.step \in {"send", "issue"}, r.step = "send" <=> r.type = "Message",
         r.on \in Listeners <=> r.type = "Message",
         r.type = "Message" => request[r.ctx] \in {"None", "Message"},
         r.type # "Message" => /\ request[r.ctx] = "None"
                               /\ \A x \in Threads \ {th} : At(x, "link") => doing[x].ctx # r.ctx
  PROVE  PortInv' /\ Gains(PacketIn(r))
<1>1. /\ r.ctx \in Contexts /\ r.on \in Transports \cup Listeners /\ PacketIn(r) \in Packets
      /\ PacketIn(r)[1] = r.ctx /\ PacketIn(r)[2] = r.on
      /\ r.type \in {"Message", "Read", "Write", "Other"}
  BY DEF Doings, Packets, PacketIn
<1>2. Counted' /\ Gains(PacketIn(r))
  BY LinkGains DEF PortInv
<1>3. /\ \A c \in Contexts : InFlight(c) \in Nat /\ InFlight(c)' = InFlight(c) + If(c = r.ctx)
      /\ \A t \in Transports :
           InFlightOn(t) \in Nat /\ InFlightOn(t)' = InFlightOn(t) + If(t = r.on)
      /\ \A y : Abroad(y)' => Abroad(y) \/ y = PacketIn(r)
  BY <1>1, <1>2, GainsAll DEF PortInv
<1>4. /\ request \in [Contexts -> {"None", "Cancelled", "Message", "Read", "Write", "Other"}]
      /\ count \in [Contexts -> Nat] /\ refs \in [Contexts -> Nat] /\ held \in [Transports -> Nat]
      /\ \A c \in Contexts : request[c] = "Message" <=> count[c] > 0
  BY DEF PortInv, ContextTypes
<1>5. /\ request' = [request EXCEPT ![r.ctx] = r.type]
      /\ refs' = [refs EXCEPT ![r.ctx] = @ + 1]
      /\ r.type = "Message" => count' = [count EXCEPT ![r.ctx] = @ + 1]
      /\ r.type # "Message" => count' = count
      /\ r.on \in Transports => held' = [held EXCEPT ![r.on] = @ + 1]
      /\ r.on \notin Transports => held' = held
  BY DEF Link
<1>6. ContextTypes'
  <2>1. /\ request' \in [Contexts -> {"None", "Cancelled", "Message", "Read", "Write", "Other"}]
        /\ refs' \in [Contexts -> Nat] /\ held' \in [Transports -> Nat]
    BY <1>1, <1>4, <1>5
  <2>2. count' \in [Contexts -> Nat]
    BY <1>1, <1>4, <1>5
  <2>3. ASSUME NEW c \in Contexts PROVE request'[c] = "Message" <=> count'[c] > 0
    BY <1>1, <1>4, <1>5
  <2>4. QED
    BY <2>1, <2>2, <2>3 DEF ContextTypes
<1>7. ASSUME NEW c \in Contexts PROVE SoundContext(c)'
  <2>1. SoundContext(c) /\ InFlight(c) \in Nat
    BY <1>3 DEF PortInv
  <2>2. CASE c # r.ctx
    <3>1. /\ request'[c] = request[c] /\ count'[c] = count[c] /\ refs'[c] = refs[c]
          /\ InFlight(c)' = InFlight(c)
      BY <1>3, <1>4, <1>5, <2>1, <2>2 DEF If
    <3>2. QED
      BY <2>1, <3>1 DEF SoundContext
  <2>3. CASE c = r.ctx
    <3>1. /\ request'[c] = r.type /\ refs'[c] = refs[c] + 1 /\ InFlight(c)' = InFlight(c) + 1
          /\ r.type = "Message" => count'[c] = count[c] + 1
      BY <1>1, <1>3, <1>4, <1>5, <2>1, <2>3 DEF If
    <3>2. count[c] \in Nat /\ refs[c] \in Nat /\ (request[c] = "Message" <=> count[c] > 0)
      BY <1>4
    <3>3. r.type # "None"
      BY <1>1
    <3>4. QED
      BY <2>1, <2>3, <3>1, <3>2, <3>3 DEF SoundContext
  <2>4. QED
    BY <2>2, <2>3
<1>8. ASSUME NEW t \in Transports PROVE held'[t] >= InFlightOn(t)'
  BY <1>3, <1>4, <1>5 DEF PortInv, If
<1>9. ASSUME NEW x \in Packets, Abroad(x)' PROVE KeyFits(x)'
  <2>1. CASE x = PacketIn(r)
    BY <1>1, <1>4, <1>5, <2>1 DEF KeyFits
  <2>2. CASE x # PacketIn(r) /\ x[1] # r.ctx
    BY <1>3, <1>4, <1>5, <1>9, <2>2 DEF KeyFits, PortInv
  <2>3. CASE x # PacketIn(r) /\ x[1] = r.ctx
    <3>1. Abroad(x) /\ KeyFits(x)
      BY <1>3, <1>9, <2>3 DEF PortInv
    <3>2. InFlight(x[1]) >= 1 /\ InFlight(r.ctx) \in Nat
      BY <1>1, <1>3, <3>1, AbroadCounts DEF PortInv
    <3>3. request[r.ctx] # "None"
      BY <1>1, <2>3, <3>2 DEF PortInv, SoundContext
    <3>4. request[r.ctx] = "Message" /\ r.type = "Message"
      BY <1>1, <3>3
    <3>5. QED
      BY <1>1, <1>4, <1>5, <2>3, <3>1, <3>4 DEF KeyFits
  <2>4. QED
    BY <2>1, <2>2, <2>3
<1>10. ThreadsFit'
  <2>1. DoingFits(r)'
    BY DEF DoingFits
  <2>2. ASSUME NEW x \in Threads \ {th}, At(x, "link")
        PROVE  request'[doing[x].ctx] \in {"None", "Message"}
    <3>1. doing[x] # None /\ doing[x].step = "link" /\ doing[x].ctx \in Contexts
      BY <2>2, DoingIs DEF PortInv, At
    <3>2. request[doing[x].ctx] \in {"None", "Message"}
      BY <3>1 DEF PortInv, ThreadsFit, DoingFits
    <3>3. QED
      BY <1>4, <1>5, <2>2, <3>1, <3>2
  <2>3. QED
    BY <2>1, <2>2, FitKept
<1>11. QED
  BY <1>2, <1>6, <1>7, <1>8, <1>9, <1>10 DEF PortInv

\* The message is linked.
LEMMA LinkMessageKeeps ==
  ASSUME PortInv, NEW th \in Threads, LinkMessage(th)
  PROVE  PortInv' /\ Gains(PacketOf(doing, th)) /\ PacketOf(doing, th) \in Packets
<1>1. doing[th] # None /\ doing[th].step = "link"
  BY DEF LinkMessage, At
<1>2. /\ doing[th] \in Doings /\ DoingFits(doing[th]) /\ PacketOf(doing, th) \in Packets
      /\ ~Carries(doing, th) /\ doing[th].ctx \in Contexts
  BY <1>1, DoingIs DEF PortInv, ThreadsFit
<1> PICK r : r = Stepped(doing[th], "send")
  OBVIOUS
<1>3. /\ r \in Doings /\ Sent(r) /\ PacketIn(r) = PacketOf(doing, th) /\ r.step = "send"
      /\ r.ctx = doing[th].ctx /\ r.on = doing[th].on /\ r.type = doing[th].type
  BY <1>2, SteppedIs DEF PacketOf
<1>4. Becomes(doing, th, r, doing')
  BY DEF Becomes, Stepped, LinkMessage
<1>5. r.type = "Message" /\ r.on \in Listeners /\ request[r.ctx] \in {"None", "Message"}
  BY <1>1, <1>2, <1>3 DEF DoingFits
<1>6. UNCHANGED <<busy, port, entries>> /\ Link(r.ctx, r.on, r.type)
  BY <1>3, <1>5 DEF LinkMessage, pollVars
<1>7. PortInv' /\ Gains(PacketIn(r))
  BY <1>2, <1>3, <1>4, <1>5, <1>6, LinkedKeeps
<1>8. QED
  BY <1>2, <1>3, <1>7

\* A request is linked, of a context that has none.
LEMMA LinkRequestKeeps ==
  ASSUME PortInv, UNCHANGED <<busy, port, entries>>, NEW th \in Threads, doing[th] = None,
         NEW c \in Contexts, NEW t \in Transports, NEW type \in {"Read", "Write", "Other"},
         request[c] = "None", Link(c, t, type), Doing(th, c, t, type, "issue"),
         \A x \in Threads : At(x, "link") => doing[x].ctx # c
  PROVE  PortInv' /\ Gains(<<c, t>>) /\ <<c, t>> \in Packets
<1> DEFINE r == [ctx |-> c, on |-> t, type |-> type, step |-> "issue"]
<1>1. /\ r \in Doings /\ r.ctx = c /\ r.on = t /\ r.type = type /\ r.step = "issue"
      /\ PacketIn(r) = <<c, t>>
  BY DEF Doings, PacketIn
<1>2. Becomes(doing, th, r, doing') /\ ~Carries(doing, th)
  BY DEF Doing, Becomes, Carries, Sent
<1> HIDE DEF r
<1>3. Sent(r)
  BY <1>1, NoneAssumption DEF Sent
<1>4. r.on \notin Listeners /\ r.type # "Message"
  BY <1>1, KeyAssumption
<1>5. Link(r.ctx, r.on, r.type)
  BY Zenon, <1>1
<1>6. PortInv' /\ Gains(PacketIn(r))
  BY <1>1, <1>2, <1>3, <1>4, <1>5, LinkedKeeps
<1>7. QED
  BY <1>1, <1>6 DEF Packets

\* What is abroad after a step counts for its context.
LEMMA AbroadCountsNext ==
  ASSUME Counted', NEW x \in Packets, Abroad(x)'
  PROVE  InFlight(x[1])' \in Nat /\ InFlight(x[1])' >= 1
<1> DEFINE S == {x}
           T == {x[1]} \X (Transports \cup Listeners)
<1>1. S \subseteq T
  BY DEF Packets
<1>2. CountTypes(busy', port', entries', doing')
  BY DEF Counted, CountTypes
<1>3. /\ Outstanding(S)' = Total(busy', port', entries', doing', S)
      /\ Outstanding(T)' = Total(busy', port', entries', doing', T)
  BY OutstandingIsTotal
<1>4. InFlight(x[1])' = Outstanding(T)' /\ Outstanding(S)' > 0
  BY DEF InFlight, Abroad
<1> HIDE DEF S, T
<1>5. /\ Total(busy', port', entries', doing', S) <= Total(busy', port', entries', doing', T)
      /\ Total(busy', port', entries', doing', S) \in Nat
      /\ Total(busy', port', entries', doing', T) \in Nat
  BY <1>1, <1>2, TotalIsMonotone, TotalIsNat
<1>6. QED
  BY <1>3, <1>4, <1>5

\* The threads fit when none changes what it is about.
LEMMA FitStays ==
  ASSUME PortInv, UNCHANGED doing,
         \A x \in Threads : At(x, "link") => request'[doing[x].ctx] \in {"None", "Message"}
  PROVE  ThreadsFit'
BY DEF PortInv, ThreadsFit, DoingFits, At

\* What the port had is let go of, and its context is not.
LEMMA LeftKeeps ==
  ASSUME PortInv, Counted', NEW x \in Packets, Loses(x), UNCHANGED <<request, count, refs>>,
         UNCHANGED held \/ Drop(x[2]), request[x[1]] # "Message", ThreadsFit'
  PROVE  PortInv'
<1>1. /\ \A c \in Contexts : InFlight(c) \in Nat /\ InFlight(c)' = InFlight(c) - If(c = x[1])
      /\ \A t \in Transports :
           InFlightOn(t) \in Nat /\ InFlightOn(t)' = InFlightOn(t) - If(t = x[2])
      /\ \A y : Abroad(y)' => Abroad(y)
      /\ Abroad(x)
  BY LosesAll DEF PortInv
<1>2. /\ x[1] \in Contexts /\ InFlight(x[1]) >= 1
      /\ x[2] \in Transports => InFlightOn(x[2]) >= 1
  BY <1>1, AbroadCounts DEF PortInv
<1>3. held \in [Transports -> Nat] /\ \A t \in Transports : held[t] >= InFlightOn(t)
  BY DEF PortInv, ContextTypes
<1>4. held' \in [Transports -> Nat] /\ \A t \in Transports : held'[t] >= InFlightOn(t)'
  <2>1. CASE held' = held
    BY <1>1, <1>3, <2>1 DEF If
  <2>2. CASE x[2] \in Transports /\ held' = [held EXCEPT ![x[2]] = @ - 1]
    <3>1. held[x[2]] - 1 \in Nat
      BY <1>1, <1>2, <1>3, <2>2
    <3>2. QED
      BY <1>1, <1>3, <2>2, <3>1 DEF If
  <2>3. QED
    BY <2>1, <2>2 DEF Drop
<1>5. ContextTypes'
  BY <1>4 DEF PortInv, ContextTypes
<1>6. ASSUME NEW c \in Contexts PROVE SoundContext(c)'
  <2>1. SoundContext(c) /\ InFlight(c) \in Nat /\ InFlight(c)' = InFlight(c) - If(c = x[1])
    BY <1>1 DEF PortInv
  <2>2. CASE c = x[1]
    BY <1>2, <2>1, <2>2 DEF SoundContext, If
  <2>3. CASE c # x[1]
    BY <2>1, <2>3 DEF SoundContext, If
  <2>4. QED
    BY <2>2, <2>3
<1>7. \A y \in Packets : Abroad(y)' => KeyFits(y)'
  BY <1>1 DEF PortInv, KeyFits
<1>8. QED
  BY <1>4, <1>5, <1>6, <1>7 DEF PortInv

\* take() releases what the packet had.
LEMMA TakenKeeps ==
  ASSUME PortInv, Counted', NEW x \in Packets, Loses(x), Take(x[1]), Drop(x[2]), ThreadsFit'
  PROVE  PortInv'
<1>1. /\ \A c \in Contexts : InFlight(c) \in Nat /\ InFlight(c)' = InFlight(c) - If(c = x[1])
      /\ \A t \in Transports :
           InFlightOn(t) \in Nat /\ InFlightOn(t)' = InFlightOn(t) - If(t = x[2])
      /\ \A y : Abroad(y)' => Abroad(y)
      /\ Abroad(x)
  BY LosesAll DEF PortInv
<1>2. /\ x[1] \in Contexts /\ InFlight(x[1]) >= 1
      /\ x[2] \in Transports => InFlightOn(x[2]) >= 1
  BY <1>1, AbroadCounts DEF PortInv
<1>3. /\ request \in [Contexts -> {"None", "Cancelled", "Message", "Read", "Write", "Other"}]
      /\ count \in [Contexts -> Nat] /\ refs \in [Contexts -> Nat] /\ held \in [Transports -> Nat]
      /\ \A c \in Contexts : request[c] = "Message" <=> count[c] > 0
  BY DEF PortInv, ContextTypes
<1>4. SoundContext(x[1]) /\ request[x[1]] # "None" /\ refs[x[1]] >= 1
  <2>1. SoundContext(x[1])
    BY <1>2 DEF PortInv
  <2>2. QED
    BY <1>1, <1>2, <2>1, <1>3 DEF SoundContext
<1>5. /\ request' = IF Detaches(x[1]) THEN [request EXCEPT ![x[1]] = "None"] ELSE request
      /\ count' = IF request[x[1]] = "Message" THEN [count EXCEPT ![x[1]] = @ - 1] ELSE count
      /\ refs' = [refs EXCEPT ![x[1]] = @ - 1]
  BY DEF Take
<1>6. \A c \in Contexts \ {x[1]} : request'[c] = request[c] /\ count'[c] = count[c] /\ refs'[c] = refs[c]
  <2>1. \A c \in Contexts \ {x[1]} : request'[c] = request[c]
    BY <1>3, <1>5
  <2>2. \A c \in Contexts \ {x[1]} : count'[c] = count[c]
    BY <1>3, <1>5
  <2>3. \A c \in Contexts \ {x[1]} : refs'[c] = refs[c]
    BY <1>3, <1>5
  <2>4. QED
    BY <2>1, <2>2, <2>3
<1>7. /\ refs'[x[1]] = refs[x[1]] - 1
      /\ request[x[1]] = "Message" => /\ count'[x[1]] = count[x[1]] - 1
                                      /\ count[x[1]] = 1 => request'[x[1]] = "None"
                                      /\ count[x[1]] # 1 => request'[x[1]] = "Message"
      /\ request[x[1]] # "Message" => count'[x[1]] = count[x[1]] /\ request'[x[1]] = "None"
  <2>1. refs'[x[1]] = refs[x[1]] - 1
    BY <1>2, <1>3, <1>5
  <2>2. ASSUME request[x[1]] = "Message"
        PROVE  /\ count'[x[1]] = count[x[1]] - 1
               /\ count[x[1]] = 1 => request'[x[1]] = "None"
               /\ count[x[1]] # 1 => request'[x[1]] = "Message"
    BY <1>2, <1>3, <1>5, <2>2 DEF Detaches
  <2>3. ASSUME request[x[1]] # "Message"
        PROVE  count'[x[1]] = count[x[1]] /\ request'[x[1]] = "None"
    BY <1>2, <1>3, <1>5, <2>3 DEF Detaches
  <2>4. QED
    BY <2>1, <2>2, <2>3
<1>8. held' \in [Transports -> Nat] /\ \A t \in Transports : held'[t] >= InFlightOn(t)'
  <2>1. \A t \in Transports : held[t] >= InFlightOn(t)
    BY DEF PortInv
  <2>2. CASE x[2] \notin Transports /\ held' = held
    BY <1>1, <1>3, <2>1, <2>2 DEF If
  <2>3. CASE x[2] \in Transports /\ held' = [held EXCEPT ![x[2]] = @ - 1]
    <3>1. held[x[2]] - 1 \in Nat
      BY <1>1, <1>2, <1>3, <2>1, <2>3
    <3>2. QED
      BY <1>1, <1>3, <2>1, <2>3, <3>1 DEF If
  <2>4. QED
    BY <2>2, <2>3 DEF Drop
<1>9. ContextTypes'
  <2>1. request' \in [Contexts -> {"None", "Cancelled", "Message", "Read", "Write", "Other"}]
    BY <1>3, <1>5
  <2>2. refs' \in [Contexts -> Nat]
    BY <1>2, <1>3, <1>4, <1>5
  <2>3. count' \in [Contexts -> Nat]
    <3>1. CASE request[x[1]] = "Message"
      <4>1. count[x[1]] - 1 \in Nat /\ count' = [count EXCEPT ![x[1]] = @ - 1]
        BY <1>2, <1>3, <1>5, <3>1
      <4>2. QED
        BY <1>3, <4>1
    <3>2. CASE request[x[1]] # "Message"
      BY <1>3, <1>5, <3>2
    <3>3. QED
      BY <3>1, <3>2
  <2>4. ASSUME NEW c \in Contexts PROVE request'[c] = "Message" <=> count'[c] > 0
    <3>1. CASE c = x[1]
      BY <1>3, <1>7, <3>1
    <3>2. CASE c # x[1]
      BY <1>3, <1>6, <3>2
    <3>3. QED
      BY <3>1, <3>2
  <2>5. QED
    BY <1>8, <2>1, <2>2, <2>3, <2>4 DEF ContextTypes
<1>10. ASSUME NEW c \in Contexts PROVE SoundContext(c)'
  <2>1. SoundContext(c) /\ InFlight(c) \in Nat /\ InFlight(c)' = InFlight(c) - If(c = x[1])
    BY <1>1 DEF PortInv
  <2>2. CASE c = x[1]
    <3>1. InFlight(c)' = InFlight(c) - 1 /\ count[c] \in Nat /\ refs[c] \in Nat
      BY <1>3, <2>1, <2>2 DEF If
    <3>2. QED
      BY <1>2, <1>3, <1>4, <1>7, <2>1, <2>2, <3>1 DEF SoundContext
  <2>3. CASE c # x[1]
    BY <1>6, <2>1, <2>3 DEF SoundContext, If
  <2>4. QED
    BY <2>2, <2>3
<1>11. ASSUME NEW y \in Packets, Abroad(y)' PROVE KeyFits(y)'
  <2>1. Abroad(y) /\ KeyFits(y) /\ y[1] \in Contexts
    BY <1>1, <1>11 DEF PortInv, Packets
  <2>2. CASE y[1] # x[1]
    BY <1>6, <2>1, <2>2 DEF KeyFits
  <2>3. CASE y[1] = x[1]
    <3>1. InFlight(x[1])' >= 1 /\ InFlight(x[1])' \in Nat
      BY <1>11, <2>3, AbroadCountsNext
    <3>2. request'[x[1]] # "None"
      BY <1>2, <1>10, <3>1 DEF SoundContext
    <3>3. request'[x[1]] = request[x[1]]
      BY <1>7, <3>2
    <3>4. QED
      BY <2>1, <2>3, <3>3 DEF KeyFits
  <2>4. QED
    BY <2>2, <2>3
<1>12. QED
  BY <1>8, <1>9, <1>10, <1>11 DEF PortInv

\* A thread is about nothing any more, and contexts are as they were.
LEMMA FitWithout ==
  ASSUME PortInv, UNCHANGED contextVars, NEW th \in Threads, Becomes(doing, th, None, doing')
  PROVE  ThreadsFit'
<1>1. \A x \in Threads \ {th} : At(x, "link") => request'[doing[x].ctx] \in {"None", "Message"}
  BY DEF contextVars, PortInv, ThreadsFit, DoingFits, At
<1>2. QED
  BY <1>1, FitKept

\* A packet is sent, or queued at once by the system call.
LEMMA QueuedKeeps ==
  ASSUME PortInv, UNCHANGED <<contextVars, busy, entries>>, NEW th \in Threads,
         Carries(doing, th), Comes(port, PacketOf(doing, th), port'),
         Becomes(doing, th, None, doing')
  PROVE  PortInv' /\ Keeps
<1>1. PacketOf(doing, th) \in Packets
  BY DoingIs DEF PortInv, Carries, Sent
<1>2. Counted' /\ Keeps
  BY <1>1, SendKeeps DEF PortInv
<1>3. ThreadsFit'
  BY FitWithout
<1>4. QED
  BY <1>2, <1>3, PortKept

\* The kernel has a request of a thread only once.
LEMMA NotTwice ==
  ASSUME PortInv, NEW th \in Threads, Carries(doing, th), doing[th].type # "Message"
  PROVE  PacketOf(doing, th) \notin busy
<1> DEFINE x == PacketOf(doing, th)
<1>1. /\ x \in Packets /\ x[1] = doing[th].ctx /\ x[2] = doing[th].on
      /\ doing[th] # None /\ doing[th].on \notin Listeners
  BY DoingIs DEF PortInv, Carries, Sent, ThreadsFit, DoingFits
<1>2. SUFFICES ASSUME x \in busy PROVE FALSE
  OBVIOUS
<1> PICK none : Becomes(doing, th, None, none)
  BY DEF Becomes
<1> PICK fewer : Leaves(busy, x, fewer)
  BY DEF Leaves
<1>3. CountTypes(busy, port, entries, doing)
  BY DEF PortInv, Counted
<1> DEFINE S == {x[1]} \X (Transports \cup Listeners)
<1>4. One(x, S) = 1
  BY <1>1 DEF One, Packets
<1> HIDE DEF x, S
<1>5. /\ CountTypes(busy, port, entries, none)
      /\ Total(busy, port, entries, none, S) = Total(busy, port, entries, doing, S) - One(x, S)
  BY <1>3, ThreadGivesUp DEF x
<1>6. /\ CountTypes(fewer, port, entries, none)
      /\ Total(fewer, port, entries, none, S) = Total(busy, port, entries, none, S) - One(x, S)
  BY <1>2, <1>5, KernelEnds
<1>7. /\ Total(busy, port, entries, doing, S) \in Nat
      /\ Total(fewer, port, entries, none, S) \in Nat
  BY <1>3, <1>6, TotalIsNat
<1>8. InFlight(x[1]) >= 2 /\ InFlight(x[1]) \in Nat
  <2>1. InFlight(x[1]) = Total(busy, port, entries, doing, S)
    BY OutstandingIsTotal DEF InFlight, S
  <2>2. QED
    BY <1>4, <1>5, <1>6, <1>7, <2>1
<1>9. Abroad(x)
  <2>1. /\ CountTypes(fewer, port, entries, doing)
        /\ Total(fewer, port, entries, doing, {x}) = Total(busy, port, entries, doing, {x}) - One(x, {x})
    BY <1>2, <1>3, KernelEnds
  <2>2. Total(fewer, port, entries, doing, {x}) \in Nat /\ One(x, {x}) = 1
    BY <2>1, TotalIsNat DEF One
  <2>3. Outstanding({x}) = Total(busy, port, entries, doing, {x}) /\ Outstanding({x}) \in Nat
    BY OutstandingIsTotal, OutstandingIsNat DEF PortInv
  <2>4. QED
    BY <2>1, <2>2, <2>3 DEF Abroad
<1>10. x \in Packets /\ x[1] \in Contexts /\ request[x[1]] # "Message"
  BY <1>1, <1>9 DEF x, PortInv, KeyFits, Packets
<1>11. request[x[1]] # "None" /\ InFlight(x[1]) <= 1
  BY <1>8, <1>10 DEF PortInv, SoundContext
<1>12. QED
  BY <1>8, <1>11

\* The kernel takes a request on.
LEMMA TakenOnKeeps ==
  ASSUME PortInv, UNCHANGED <<contextVars, port, entries>>, NEW th \in Threads,
         Carries(doing, th), doing[th].type # "Message",
         Joins(busy, PacketOf(doing, th), busy'), Becomes(doing, th, None, doing')
  PROVE  PortInv' /\ Keeps
<1>1. PacketOf(doing, th) \in Packets /\ PacketOf(doing, th) \notin busy
  BY DoingIs, NotTwice DEF PortInv, Carries, Sent
<1>2. Counted' /\ Keeps
  BY <1>1, StartKeeps DEF PortInv
<1>3. ThreadsFit'
  BY FitWithout
<1>4. QED
  BY <1>2, <1>3, PortKept

\* A request ends at once, nothing is queued, and its context is left as it is.
LEMMA LeftAlone ==
  ASSUME PortInv, UNCHANGED <<contextVars, busy, port, entries>>, NEW th \in Threads,
         Carries(doing, th), doing[th].type # "Message", Becomes(doing, th, None, doing')
  PROVE  PortInv' /\ Loses(PacketOf(doing, th)) /\ PacketOf(doing, th) \in Packets
<1> DEFINE x == PacketOf(doing, th)
<1>1. /\ x \in Packets /\ x[2] \notin Listeners
  BY DoingIs DEF PortInv, Carries, Sent, ThreadsFit, DoingFits
<1>2. Counted' /\ Loses(x)
  BY LetGoLoses DEF PortInv
<1> HIDE DEF x
<1>3. Abroad(x)
  BY <1>1, <1>2, LosesAll DEF PortInv
<1>4. request[x[1]] # "Message"
  BY <1>1, <1>3 DEF PortInv, KeyFits
<1>5. ThreadsFit'
  BY FitWithout
<1>6. UNCHANGED <<request, count, refs>> /\ UNCHANGED held
  BY DEF contextVars
<1>7. PortInv'
  BY <1>1, <1>2, <1>4, <1>5, <1>6, LeftKeeps
<1>8. QED
  BY <1>1, <1>2, <1>7 DEF x

\* unlink().
LEMMA UndoKeeps ==
  ASSUME PortInv, NEW th \in Threads, Undo(th)
  PROVE  PortInv' /\ Loses(PacketOf(doing, th)) /\ PacketOf(doing, th) \in Packets
<1> DEFINE x == PacketOf(doing, th)
<1>1. /\ x \in Packets /\ x[1] = doing[th].ctx /\ x[2] = doing[th].on /\ Carries(doing, th)
  BY DoingIs DEF PortInv, Undo, At
<1>2. /\ UNCHANGED <<busy, port, entries>> /\ Becomes(doing, th, None, doing')
      /\ Take(x[1]) /\ Drop(x[2])
  BY <1>1 DEF Undo, pollVars, Unlink, Becomes
<1>3. Counted' /\ Loses(x)
  BY <1>1, <1>2, LetGoLoses DEF PortInv
<1> HIDE DEF x
<1>4. ThreadsFit'
  <2>1. ASSUME NEW y \in Threads \ {th}, At(y, "link")
        PROVE  request'[doing[y].ctx] \in {"None", "Message"}
    <3>1. doing[y] # None /\ doing[y].ctx \in Contexts /\ doing[y].step = "link"
      BY <2>1, DoingIs DEF PortInv, At
    <3>2. request[doing[y].ctx] \in {"None", "Message"}
      BY <3>1 DEF PortInv, ThreadsFit, DoingFits
    <3>3. request' = [request EXCEPT ![x[1]] = "None"] \/ request' = request
      BY <1>2 DEF Take
    <3>4. request \in [Contexts -> {"None", "Cancelled", "Message", "Read", "Write", "Other"}]
      BY DEF PortInv, ContextTypes
    <3>5. QED
      BY <3>1, <3>2, <3>3, <3>4
  <2>2. QED
    BY <1>2, <2>1, FitKept
<1>5. PortInv'
  BY <1>1, <1>2, <1>3, <1>4, TakenKeeps
<1>6. QED
  BY <1>1, <1>3, <1>5 DEF x

\* The kernel ends a request.
LEMMA CompletesKeeps ==
  ASSUME PortInv, NEW b \in busy, Completes(b)
  PROVE  PortInv' /\ Keeps
<1>1. /\ UNCHANGED <<entries, doing>> /\ UNCHANGED contextVars
      /\ Leaves(busy, b, busy') /\ Comes(port, b, port')
  BY DEF Completes, pollVars, Leaves, Comes
<1>2. Counted' /\ Keeps
  BY <1>1, CompleteKeeps DEF PortInv
<1>3. ThreadsFit'
  BY <1>1, FitStays DEF contextVars, PortInv, ThreadsFit, DoingFits, At
<1>4. QED
  BY <1>1, <1>2, <1>3, PortKept

\* A thread gets a batch, which has room in its buffer.
LEMMA PollKeeps ==
  ASSUME PortInv, NEW p \in Pollers, PollOne(p) \/ Poll(p)
  PROVE  PortInv' /\ Keeps /\ Len(entries'[p]) <= BatchSize
<1>1. Len(port) \in Nat \ {0}
  <2>1. port \in Seq(Packets) /\ port # <<>>
    BY DEF PortInv, Counted, CountTypes, PollOne, Poll, Dequeue
  <2>2. QED
    BY <2>1, EmptySeq
<1>2. PICK n \in 0 .. Len(port) : n <= BatchSize /\ Dequeue(p, n)
  <2>1. CASE PollOne(p)
    BY <1>1, <2>1, BatchAssumption DEF PollOne
  <2>2. CASE Poll(p)
    <3>1. CASE Len(port) < BatchSize
      BY <1>1, <2>2, <3>1, BatchAssumption DEF Poll
    <3>2. CASE ~(Len(port) < BatchSize)
      BY <1>1, <2>2, <3>2, BatchAssumption DEF Poll
    <3>3. QED
      BY <3>1, <3>2
  <2>3. QED
    BY <2>1, <2>2
<1>3. /\ UNCHANGED <<busy, doing>> /\ UNCHANGED contextVars /\ entries[p] = <<>>
      /\ Takes(port, entries, p, n, port', entries')
  BY <1>2 DEF Dequeue, Takes
<1>4. Counted' /\ Keeps /\ Len(entries'[p]) = n
  BY <1>3, DequeueKeeps DEF PortInv
<1>5. ThreadsFit'
  BY <1>3, FitStays DEF contextVars, PortInv, ThreadsFit, DoingFits, At
<1>6. QED
  BY <1>2, <1>3, <1>4, <1>5, PortKept

\* Dispatch() when the packet is what it seems: a message for a listener, or a
\* request of a transport, told of or not.
Notice(to, x, result) ==
  [to |-> to, ctx |-> x[1], result |-> result, method |-> Method(request[x[1]])]
TellsMessage(p, x, result) ==
  /\ request[x[1]] = "Message" /\ x[2] \in Listeners /\ result = "done"
  /\ Take(x[1]) /\ UNCHANGED held /\ call' = [call EXCEPT ![p] = Notice(x[2], x, result)]
TellsRequest(p, x, result) ==
  /\ Cancellable(x[1]) /\ x[2] \in Transports /\ ~Discarded(x[1], x[2])
  /\ Take(x[1]) /\ Drop(x[2]) /\ call' = [call EXCEPT ![p] = Notice(listener[x[2]], x, result)]
Discards(x) ==
  /\ Cancellable(x[1]) /\ x[2] \in Transports /\ Discarded(x[1], x[2])
  /\ UNCHANGED <<request, count, refs, call>> /\ Drop(x[2])

LEMMA DispatchIs ==
  ASSUME NEW p \in Pollers, NEW result, Dispatch(p, result), NEW x, x = FirstOf(entries, p)
  PROVE  /\ ~aborted /\ call[p] = None /\ entries[p] # <<>> /\ Passes(entries, p, entries')
         /\ UNCHANGED <<transportVars, busy, port, doing>>
         /\ \/ /\ request[x[1]] = "None" \/ (request[x[1]] = "Message") # (x[2] \in Listeners)
               /\ aborted' = TRUE /\ UNCHANGED <<contextVars, call>>
            \/ /\ TellsMessage(p, x, result) \/ TellsRequest(p, x, result) \/ Discards(x)
               /\ aborted' = aborted
<1>1. /\ ~aborted /\ call[p] = None /\ entries[p] # <<>> /\ Passes(entries, p, entries')
      /\ UNCHANGED <<transportVars, busy, port, doing>>
  BY DEF Dispatch, Passes
<1> DEFINE c == Head(entries[p])[1]
           key == Head(entries[p])[2]
           Told(to) == call' = [call EXCEPT ![p] = [to |-> to, ctx |-> c, result |-> result,
                                                    method |-> Method(request[c])]]
<1>2. \/ /\ request[c] = "None" \/ (request[c] = "Message") # (key \in Listeners)
         /\ aborted' = TRUE /\ UNCHANGED <<contextVars, call>>
      \/ /\ request[c] = "Message" /\ key \in Listeners /\ result = "done"
         /\ Take(c) /\ Told(key) /\ UNCHANGED <<held, aborted>>
      \/ /\ Cancellable(c) /\ key \in Transports
         /\ Drop(key)
         /\ IF Discarded(c, key) THEN UNCHANGED <<request, count, refs, call>>
                                 ELSE Take(c) /\ Told(listener[key])
         /\ UNCHANGED aborted
  BY Zenon DEF Dispatch
<1>3. c = x[1] /\ key = x[2]
  BY DEF FirstOf
<1>4. \A to : Told(to) <=> call' = [call EXCEPT ![p] = Notice(to, x, result)]
  BY <1>3 DEF Notice
<1> HIDE DEF Told, c, key
<1>5. CASE /\ request[c] = "None" \/ (request[c] = "Message") # (key \in Listeners)
           /\ aborted' = TRUE /\ UNCHANGED <<contextVars, call>>
  BY Zenon, <1>1, <1>3, <1>5
<1>6. CASE /\ request[c] = "Message" /\ key \in Listeners /\ result = "done"
           /\ Take(c) /\ Told(key) /\ UNCHANGED <<held, aborted>>
  <2>1. held' = held /\ aborted' = aborted /\ call' = [call EXCEPT ![p] = Notice(x[2], x, result)]
    BY <1>3, <1>4, <1>6
  <2>2. TellsMessage(p, x, result)
    BY Zenon, <1>3, <1>6, <2>1 DEF TellsMessage
  <2>3. QED
    BY Zenon, <1>1, <2>1, <2>2
<1>7. CASE /\ Cancellable(c) /\ key \in Transports
           /\ Drop(key)
           /\ IF Discarded(c, key) THEN UNCHANGED <<request, count, refs, call>>
                                   ELSE Take(c) /\ Told(listener[key])
           /\ UNCHANGED aborted
  <2>1. CASE Discarded(c, key)
    <3>1. Discards(x)
      BY Zenon, <1>3, <1>7, <2>1 DEF Discards
    <3>2. QED
      BY Zenon, <1>1, <1>7, <3>1
  <2>2. CASE ~Discarded(c, key)
    <3>1. Take(c) /\ Told(listener[key])
      BY Zenon, <1>7, <2>2
    <3>2. call' = [call EXCEPT ![p] = Notice(listener[x[2]], x, result)]
      BY <1>3, <1>4, <3>1
    <3>3. TellsRequest(p, x, result)
      BY Zenon, <1>3, <1>7, <2>2, <3>1, <3>2 DEF TellsRequest
    <3>4. QED
      BY Zenon, <1>1, <1>7, <3>3
  <2>3. QED
    BY <2>1, <2>2
<1>8. QED
  BY Zenon, <1>2, <1>5, <1>6, <1>7

LEMMA DispatchKeeps ==
  ASSUME PortInv, NEW p \in Pollers, NEW result, Dispatch(p, result), NEW x, x = FirstOf(entries, p)
  PROVE  /\ PortInv' /\ ~aborted' /\ x \in Packets /\ Loses(x)
         /\ Len(entries'[p]) <= Len(entries[p])
         /\ TellsMessage(p, x, result) \/ TellsRequest(p, x, result) \/ Discards(x)
<1>1. /\ ~aborted /\ entries[p] # <<>> /\ Passes(entries, p, entries')
      /\ busy' = busy /\ port' = port /\ doing' = doing
  BY DispatchIs
<1>2. /\ Counted' /\ Len(entries'[p]) <= Len(entries[p])
      /\ x \in Packets /\ Loses(x)
  BY <1>1, DispatchLoses DEF PortInv
<1>3. Abroad(x) /\ x[1] \in Contexts
  BY <1>2, LosesAll DEF PortInv, Packets
<1>4. InFlight(x[1]) >= 1 /\ InFlight(x[1]) \in Nat
  BY <1>2, <1>3, AbroadCounts, CountsAreNat DEF PortInv
<1>5. request[x[1]] # "None" /\ (x[2] \in Listeners <=> request[x[1]] = "Message")
  <2>1. request[x[1]] # "None"
    BY <1>3, <1>4 DEF PortInv, SoundContext
  <2>2. KeyFits(x)
    BY <1>2, <1>3 DEF PortInv
  <2>3. QED
    BY <2>1, <2>2 DEF KeyFits
<1>6. /\ TellsMessage(p, x, result) \/ TellsRequest(p, x, result) \/ Discards(x)
      /\ aborted' = aborted
  <2>1. ~(request[x[1]] = "None" \/ (request[x[1]] = "Message") # (x[2] \in Listeners))
    BY <1>5
  <2>2. QED
    BY Zenon, <2>1, DispatchIs
<1>7. ASSUME NEW y \in Threads, At(y, "link")
      PROVE  doing[y].ctx \in Contexts /\ request[doing[y].ctx] \in {"None", "Message"}
  BY <1>7, DoingIs DEF PortInv, ThreadsFit, DoingFits, At
<1>8. request \in [Contexts -> {"None", "Cancelled", "Message", "Read", "Write", "Other"}]
  BY DEF PortInv, ContextTypes
<1>9. CASE Discards(x)
  <2>1. request' = request /\ count' = count /\ refs' = refs /\ Drop(x[2]) /\ Cancellable(x[1])
    BY <1>9 DEF Discards
  <2>2. ThreadsFit'
    BY <1>1, <1>7, <2>1, FitStays
  <2>3. request[x[1]] # "Message"
    BY <2>1 DEF Cancellable
  <2>4. PortInv'
    BY <1>2, <2>1, <2>2, <2>3, LeftKeeps
  <2>5. QED
    BY <1>1, <1>2, <1>6, <2>4
<1>10. CASE TellsMessage(p, x, result) \/ TellsRequest(p, x, result)
  <2>1. Take(x[1]) /\ Drop(x[2])
    BY <1>10, KeyAssumption DEF TellsMessage, TellsRequest, Drop
  <2>2. request' = [request EXCEPT ![x[1]] = "None"] \/ request' = request
    BY <2>1 DEF Take
  <2>3. \A y \in Threads : At(y, "link") => request'[doing[y].ctx] \in {"None", "Message"}
    BY <1>7, <1>8, <2>2
  <2>4. ThreadsFit'
    BY <1>1, <2>3, FitStays
  <2>5. PortInv'
    BY <1>2, <2>1, <2>4, TakenKeeps
  <2>6. QED
    BY <1>1, <1>2, <1>6, <2>5
<1>11. QED
  BY <1>6, <1>9, <1>10

\* Cancel().
LEMMA CancelKeeps ==
  ASSUME PortInv, NEW t \in Transports, NEW c \in Contexts, Cancel(t, c)
  PROVE  PortInv' /\ Keeps
<1>1. /\ request[c] \notin {"None", "Message"} /\ request' = [request EXCEPT ![c] = "Cancelled"]
      /\ count' = count /\ refs' = refs /\ held' = held
      /\ busy' = busy /\ port' = port /\ entries' = entries /\ doing' = doing
  BY DEF Cancel, Cancellable, pollVars
<1>2. /\ request \in [Contexts -> {"None", "Cancelled", "Message", "Read", "Write", "Other"}]
      /\ \A d \in Contexts : request[d] = "Message" <=> count[d] > 0
  BY DEF PortInv, ContextTypes
<1>3. \A d \in Contexts : request'[d] = IF d = c THEN "Cancelled" ELSE request[d]
  BY <1>1, <1>2
<1>4. Counted' /\ Keeps
  BY <1>1, StillKeeps DEF PortInv
<1>5. /\ \A d \in Contexts : InFlight(d)' = InFlight(d)
      /\ \A d \in Transports : InFlightOn(d)' = InFlightOn(d)
      /\ \A x : Abroad(x)' <=> Abroad(x)
  BY <1>4, KeepsAll DEF PortInv
<1>6. ContextTypes'
  <2>1. request' \in [Contexts -> {"None", "Cancelled", "Message", "Read", "Write", "Other"}]
    BY <1>1, <1>2
  <2>2. \A d \in Contexts : request'[d] = "Message" <=> count'[d] > 0
    BY <1>1, <1>2, <1>3
  <2>3. QED
    BY <1>1, <2>1, <2>2 DEF ContextTypes, PortInv
<1>7. ASSUME NEW d \in Contexts PROVE SoundContext(d)'
  <2>1. SoundContext(d)
    BY DEF PortInv
  <2>2. CASE d = c
    BY <1>1, <1>3, <1>5, <2>1, <2>2 DEF SoundContext
  <2>3. CASE d # c
    BY <1>1, <1>3, <1>5, <2>1, <2>3 DEF SoundContext
  <2>4. QED
    BY <2>2, <2>3
<1>8. \A d \in Transports : held'[d] >= InFlightOn(d)'
  BY <1>1, <1>5 DEF PortInv
<1>9. ASSUME NEW x \in Packets, Abroad(x)' PROVE KeyFits(x)'
  <2>1. KeyFits(x) /\ x[1] \in Contexts
    BY <1>5, <1>9 DEF PortInv, Packets
  <2>2. QED
    BY <1>1, <1>3, <2>1 DEF KeyFits
<1>10. ThreadsFit'
  <2>1. ASSUME NEW y \in Threads, At(y, "link")
        PROVE  request'[doing[y].ctx] \in {"None", "Message"}
    <3>1. doing[y].ctx \in Contexts /\ request[doing[y].ctx] \in {"None", "Message"}
      BY <2>1, DoingIs DEF PortInv, ThreadsFit, DoingFits, At
    <3>2. QED
      BY <1>1, <1>3, <3>1
  <2>2. QED
    BY <1>1, <2>1, FitStays
<1>11. QED
  BY <1>4, <1>6, <1>7, <1>8, <1>9, <1>10 DEF PortInv

----------------------------------------------------------------------------
(* Users of a transport and of messages.                                   *)

\* The threads that are about to link a context to a message.
Linking(c) == {th \in Threads : At(th, "link") /\ doing[th].ctx = c}

\* What the user waits for of a context is under way, or about to be.
UserFits(c) ==
  IF request[c] \in {"None", "Message"}
    THEN given[c] = InFlight(c) + Cardinality(Linking(c))
    ELSE given[c] = 1 /\ Linking(c) = {}

\* The invariant of the users' program.
UsersInv == given \in [Contexts -> Nat] /\ \A c \in Contexts : UserFits(c)

LEMMA LinkingFinite ==
  ASSUME NEW c
  PROVE  IsFiniteSet(Linking(c)) /\ Cardinality(Linking(c)) \in Nat
<1>1. Linking(c) \subseteq Threads /\ IsFiniteSet(Threads)
  BY ThreadsAssumption DEF Linking, Threads
<1>2. QED
  BY <1>1, FS_Subset, FS_CardinalityType

\* Nobody starts to link, or has linked.
LEMMA LinkingStays ==
  ASSUME Counted, NEW th \in Threads, NEW r, Becomes(doing, th, r, doing'), ~At(th, "link"),
         r = None \/ r.step # "link", NEW c
  PROVE  Linking(c)' = Linking(c)
<1>1. doing'[th] = r /\ \A x \in Threads \ {th} : doing'[x] = doing[x]
  BY DEF Counted, CountTypes, Becomes
<1>2. QED
  BY <1>1 DEF Linking, At

LEMMA LinkingSame ==
  ASSUME UNCHANGED doing, NEW c
  PROVE  Linking(c)' = Linking(c)
BY DEF Linking, At

LEMMA LinkingJoins ==
  ASSUME Counted, NEW th \in Threads, NEW r, Becomes(doing, th, r, doing'), doing[th] = None,
         r # None, r.step = "link", NEW c
  PROVE  Cardinality(Linking(c)') = Cardinality(Linking(c)) + If(c = r.ctx)
<1>1. doing'[th] = r /\ \A x \in Threads \ {th} : doing'[x] = doing[x]
  BY DEF Counted, CountTypes, Becomes
<1>2. th \notin Linking(c) /\ IsFiniteSet(Linking(c)) /\ Cardinality(Linking(c)) \in Nat
  BY LinkingFinite DEF Linking, At
<1>3. CASE c = r.ctx
  <2>1. Linking(c)' = Linking(c) \cup {th}
    BY <1>1, <1>3 DEF Linking, At
  <2>2. Cardinality(Linking(c) \cup {th}) = Cardinality(Linking(c)) + 1
    BY <1>2, FS_AddElement
  <2>3. QED
    BY <1>3, <2>1, <2>2 DEF If
<1>4. CASE c # r.ctx
  <2>1. Linking(c)' = Linking(c)
    BY <1>1, <1>4 DEF Linking, At
  <2>2. QED
    BY <1>2, <1>4, <2>1 DEF If
<1>5. QED
  BY <1>3, <1>4

LEMMA LinkingLeaves ==
  ASSUME Counted, NEW th \in Threads, NEW r, Becomes(doing, th, r, doing'), At(th, "link"),
         r.step # "link", NEW c
  PROVE  Cardinality(Linking(c)') = Cardinality(Linking(c)) - If(c = doing[th].ctx)
<1>1. doing'[th] = r /\ \A x \in Threads \ {th} : doing'[x] = doing[x]
  BY DEF Counted, CountTypes, Becomes
<1>2. IsFiniteSet(Linking(c)) /\ Cardinality(Linking(c)) \in Nat
  BY LinkingFinite
<1>3. CASE c = doing[th].ctx
  <2>1. Linking(c)' = Linking(c) \ {th} /\ th \in Linking(c)
    BY <1>1, <1>3 DEF Linking, At
  <2>2. Cardinality(Linking(c) \ {th}) = Cardinality(Linking(c)) - 1
    BY <1>2, <2>1, FS_RemoveElement
  <2>3. QED
    BY <1>3, <2>1, <2>2 DEF If
<1>4. CASE c # doing[th].ctx
  <2>1. Linking(c)' = Linking(c)
    BY <1>1, <1>4 DEF Linking, At
  <2>2. QED
    BY <1>2, <1>4, <2>1 DEF If
<1>5. QED
  BY <1>3, <1>4

\* Nothing that users wait for changes.
LEMMA UsersKept ==
  ASSUME PortInv, PortInv', Keeps, UsersInv, UNCHANGED <<request, given>>,
         \A c \in Contexts : Linking(c)' = Linking(c)
  PROVE  UsersInv'
<1>1. \A c \in Contexts : InFlight(c)' = InFlight(c)
  BY KeepsAll DEF PortInv
<1>2. ASSUME NEW c \in Contexts PROVE UserFits(c)'
  <2>1. UserFits(c) /\ Linking(c)' = Linking(c) /\ InFlight(c)' = InFlight(c)
    BY <1>1 DEF UsersInv
  <2>2. QED
    BY <2>1 DEF UserFits
<1>3. QED
  BY <1>2 DEF UsersInv

LEMMA UsersQuiet ==
  ASSUME PortInv, UsersInv, UNCHANGED <<contextVars, busy, port, entries, doing, given>>
  PROVE  PortInv' /\ UsersInv'
<1>1. PortInv' /\ Keeps /\ request' = request /\ given' = given /\ doing' = doing
  BY QuietKeeps DEF contextVars
<1>2. QED
  BY <1>1, UsersKept, LinkingSame

\* A context that nobody waits for may be used.
LEMMA NotLinking ==
  ASSUME PortInv, UsersInv, NEW c \in Contexts, given[c] = 0
  PROVE  request[c] = "None" /\ \A x \in Threads : At(x, "link") => doing[x].ctx # c
<1>1. UserFits(c) /\ InFlight(c) \in Nat
  BY CountsAreNat DEF UsersInv, PortInv
<1>2. IsFiniteSet(Linking(c)) /\ Cardinality(Linking(c)) \in Nat
  BY LinkingFinite
<1>3. request[c] \in {"None", "Message"} /\ InFlight(c) = 0 /\ Cardinality(Linking(c)) = 0
  BY <1>1, <1>2 DEF UserFits
<1>4. Linking(c) = {}
  BY <1>2, <1>3, FS_EmptySet
<1>5. request[c] # "Message"
  BY <1>3 DEF PortInv, SoundContext, ContextTypes
<1>6. QED
  BY <1>3, <1>4, <1>5 DEF Linking

\* What a system call does to the port, unless it misreports.
Undue(th)   == UNCHANGED <<busy, port>> /\ doing' = [doing EXCEPT ![th].step = "undo"]
TakenOn(th) == UNCHANGED port /\ Joins(busy, PacketOf(doing, th), busy')
                 /\ Becomes(doing, th, None, doing')
Queued(th)  == UNCHANGED busy /\ Comes(port, PacketOf(doing, th), port')
                 /\ Becomes(doing, th, None, doing')
Left(th)    == UNCHANGED <<busy, port>> /\ Becomes(doing, th, None, doing')

LEMMA CallKeeps ==
  ASSUME PortInv, UNCHANGED <<contextVars, entries>>, NEW th \in Threads, At(th, "issue"),
         Undue(th) \/ TakenOn(th) \/ Queued(th) \/ Left(th)
  PROVE  /\ PortInv'
         /\ Undue(th) \/ TakenOn(th) \/ Queued(th) => Keeps
         /\ Left(th) => Loses(PacketOf(doing, th))
<1>1. Carries(doing, th) /\ doing[th].type # "Message" /\ PacketOf(doing, th) \in Packets
  BY DoingIs DEF At, PortInv, ThreadsFit, DoingFits
<1>2. UNCHANGED contextVars /\ UNCHANGED entries
  OBVIOUS
<1>3. ASSUME Undue(th) PROVE PortInv' /\ Keeps
  BY <1>1, <1>2, <1>3, UndueKeeps DEF Undue
<1>4. ASSUME TakenOn(th) PROVE PortInv' /\ Keeps
  BY <1>1, <1>2, <1>4, TakenOnKeeps DEF TakenOn
<1>5. ASSUME Queued(th) PROVE PortInv' /\ Keeps
  BY <1>1, <1>2, <1>5, QueuedKeeps DEF Queued
<1>6. ASSUME Left(th) PROVE PortInv' /\ Loses(PacketOf(doing, th))
  <2>1. UNCHANGED <<busy, port>> /\ Becomes(doing, th, None, doing')
    BY <1>6 DEF Left
  <2>2. PortInv' /\ Loses(PacketOf(doing, th))
    BY <1>1, <1>2, <2>1, LeftAlone
  <2>3. QED
    BY <1>6, <2>2
<1>7. QED
  BY <1>3, <1>4, <1>5, <1>6

\* The thread is not about to link, before or after.
LEMMA CallLinksNothing ==
  ASSUME Counted, NEW th \in Threads, At(th, "issue"),
         Undue(th) \/ TakenOn(th) \/ Queued(th) \/ Left(th), NEW c
  PROVE  Linking(c)' = Linking(c)
<1>1. ~At(th, "link")
  BY DEF At
<1>2. CASE Undue(th)
  <2>1. doing[th] # None /\ doing[th] \in Doings
    BY DoingIs DEF At
  <2> PICK r : r = Stepped(doing[th], "undo")
    OBVIOUS
  <2>2. r.step # "link"
    BY <2>1, SteppedIs
  <2>3. Becomes(doing, th, r, doing')
    BY <1>2 DEF Undue, Becomes, Stepped
  <2>4. QED
    BY <1>1, <2>2, <2>3, LinkingStays
<1>3. CASE TakenOn(th) \/ Queued(th) \/ Left(th)
  <2>1. Becomes(doing, th, None, doing')
    BY <1>3 DEF TakenOn, Queued, Left
  <2>2. QED
    BY <1>1, <2>1, LinkingStays
<1>4. QED
  BY <1>2, <1>3

LEMMA IssueIs ==
  ASSUME PortInv, flagged \subseteq skips, ~misreported, NEW u \in Users, NEW outcome,
         Issue(u, outcome), ~misreported'
  PROVE  /\ At(u, "issue") /\ UNCHANGED <<contextVars, entries>>
         /\ Undue(u) \/ TakenOn(u) \/ Queued(u) \/ Left(u)
<1> DEFINE c == doing[u].ctx
           t == doing[u].on
<1>1. /\ At(u, "issue") /\ outcome \in Outcomes(t, doing[u].type)
      /\ busy' = IF outcome = "pending" THEN busy \cup {<<c, t>>} ELSE busy
      /\ port' = IF Queues(t, outcome) THEN Append(port, <<c, t>>) ELSE port
      /\ IF Undoes(t, outcome)
           THEN /\ doing' = [doing EXCEPT ![u].step = "undo"]
                /\ misreported' = (Queues(t, outcome) /\ t \notin Files)
           ELSE doing' = [doing EXCEPT ![u] = None] /\ UNCHANGED misreported
  BY DEF Issue
<1>2. UNCHANGED contextVars /\ UNCHANGED entries
  BY DEF Issue, pollVars
<1>3. PacketOf(doing, u) = <<c, t>>
  BY DEF PacketOf, PacketIn
<1> HIDE DEF c, t
<1>4. CASE Undoes(t, outcome)
  <2>1. doing' = [doing EXCEPT ![u].step = "undo"] /\ ~(Queues(t, outcome) /\ t \notin Files)
    BY <1>1, <1>4
  <2>2. outcome # "pending" /\ ~Queues(t, outcome)
    BY <1>4, <2>1 DEF Undoes, FileUndoes, SocketUndoes, Queues
  <2>3. Undue(u)
    BY <1>1, <2>1, <2>2 DEF Undue
  <2>4. QED
    BY <1>1, <1>2, <2>3
<1>5. CASE ~Undoes(t, outcome)
  <2>1. Becomes(doing, u, None, doing')
    BY <1>1, <1>5 DEF Becomes
  <2>2. CASE outcome = "pending"
    <3>1. TakenOn(u)
      BY <1>1, <1>3, <2>1, <2>2 DEF TakenOn, Queues, Joins
    <3>2. QED
      BY <1>1, <1>2, <3>1
  <2>3. CASE outcome # "pending" /\ Queues(t, outcome)
    <3>1. Queued(u)
      BY <1>1, <1>3, <2>1, <2>3 DEF Queued, Comes
    <3>2. QED
      BY <1>1, <1>2, <3>1
  <2>4. CASE outcome # "pending" /\ ~Queues(t, outcome)
    <3>1. Left(u)
      BY <1>1, <2>1, <2>4 DEF Left
    <3>2. QED
      BY <1>1, <1>2, <3>1
  <2>5. QED
    BY <2>2, <2>3, <2>4
<1>6. QED
  BY <1>4, <1>5

----------------------------------------------------------------------------
(* Each step of the users' program.                                        *)

LEMMA IssueSound ==
  ASSUME PortInv, UsersInv, flagged \subseteq skips, ~misreported, NEW u \in Users, NEW outcome,
         Issue(u, outcome), ~misreported'
  PROVE  PortInv' /\ UsersInv'
<1>1. /\ At(u, "issue") /\ UNCHANGED <<contextVars, entries>> /\ u \in Threads
      /\ Undue(u) \/ TakenOn(u) \/ Queued(u) \/ Left(u)
  BY IssueIs DEF Threads
<1>2. PortInv' /\ (Keeps \/ (Left(u) /\ Loses(PacketOf(doing, u))))
  BY <1>1, CallKeeps
<1>3. \A c \in Contexts : Linking(c)' = Linking(c)
  BY <1>1, CallLinksNothing DEF PortInv
<1>4. request' = request /\ given' = given
  BY DEF Issue, contextVars
<1>5. CASE Keeps
  BY <1>2, <1>3, <1>4, <1>5, UsersKept
<1>6. CASE Loses(PacketOf(doing, u))
  <2> DEFINE x == PacketOf(doing, u)
  <2>1. /\ x \in Packets /\ x[1] \in Contexts /\ x[2] \notin Listeners
    BY <1>1, DoingIs DEF PortInv, At, ThreadsFit, DoingFits
  <2> HIDE DEF x
  <2>2. /\ \A c \in Contexts : InFlight(c) \in Nat /\ InFlight(c)' = InFlight(c) - If(c = x[1])
        /\ Abroad(x)
    BY <1>2, <1>6, <2>1, LosesAll DEF PortInv, x
  <2>3. InFlight(x[1]) >= 1
    BY <2>1, <2>2, AbroadCounts DEF PortInv
  <2>4. request[x[1]] \notin {"None", "Message"}
    BY <2>1, <2>2, <2>3 DEF PortInv, KeyFits, SoundContext
  <2>5. ASSUME NEW c \in Contexts PROVE UserFits(c)'
    <3>1. UserFits(c) /\ Linking(c)' = Linking(c) /\ InFlight(c) \in Nat
      BY <1>3, <2>2 DEF UsersInv
    <3>2. CASE c = x[1]
      BY <1>4, <2>4, <3>1, <3>2 DEF UserFits
    <3>3. CASE c # x[1]
      <4>1. InFlight(c)' = InFlight(c)
        BY <2>2, <3>1, <3>3 DEF If
      <4>2. QED
        BY <1>4, <3>1, <4>1 DEF UserFits
    <3>4. QED
      BY <3>2, <3>3
  <2>6. QED
    BY <1>2, <1>4, <2>5 DEF UsersInv
<1>7. QED
  BY <1>2, <1>5, <1>6

LEMMA StartSound ==
  ASSUME PortInv, UsersInv, NEW u \in Users, NEW c \in Contexts, NEW t \in Transports,
         NEW type \in {"Read", "Write"}, Start(u, c, t, type)
  PROVE  PortInv' /\ UsersInv'
<1>1. /\ u \in Threads /\ doing[u] = None /\ given[c] = 0 /\ request[c] = "None"
      /\ Link(c, t, type) /\ Doing(u, c, t, type, "issue") /\ given' = [given EXCEPT ![c] = 1]
      /\ UNCHANGED <<busy, port, entries>>
  BY DEF Start, Threads, pollVars
<1>2. \A x \in Threads : At(x, "link") => doing[x].ctx # c
  BY <1>1, NotLinking
<1>3. PortInv' /\ Gains(<<c, t>>) /\ <<c, t>> \in Packets
  BY <1>1, <1>2, LinkRequestKeeps
<1>4. \A d \in Contexts : InFlight(d) \in Nat /\ InFlight(d)' = InFlight(d) + If(d = c)
  BY <1>3, GainsAll DEF PortInv
<1> DEFINE r == [ctx |-> c, on |-> t, type |-> type, step |-> "issue"]
<1>5. Becomes(doing, u, r, doing') /\ r.step # "link" /\ ~At(u, "link")
  BY <1>1 DEF Doing, Becomes, At
<1> HIDE DEF r
<1>6. \A d \in Contexts : Linking(d)' = Linking(d)
  BY <1>1, <1>5, LinkingStays DEF PortInv
<1>7. /\ \A d \in Contexts : request'[d] = IF d = c THEN type ELSE request[d]
      /\ \A d \in Contexts : given'[d] = IF d = c THEN 1 ELSE given[d]
      /\ given' \in [Contexts -> Nat]
  BY <1>1 DEF Link, PortInv, ContextTypes, UsersInv
<1>8. Linking(c) = {}
  BY <1>2 DEF Linking
<1>9. ASSUME NEW d \in Contexts PROVE UserFits(d)'
  <2>1. UserFits(d) /\ Linking(d)' = Linking(d)
    BY <1>6 DEF UsersInv
  <2>2. CASE d = c
    BY <1>7, <1>8, <2>1, <2>2 DEF UserFits
  <2>3. CASE d # c
    <3>1. InFlight(d)' = InFlight(d)
      BY <1>4, <2>3 DEF If
    <3>2. QED
      BY <1>7, <2>1, <2>3, <3>1 DEF UserFits
  <2>4. QED
    BY <2>2, <2>3
<1>10. QED
  BY <1>3, <1>7, <1>9 DEF UsersInv

\* A context is given back to the user.
LEMMA GivenBack ==
  ASSUME PortInv, PortInv', UsersInv, NEW x \in Packets, Loses(x), Take(x[1]),
         \A c \in Contexts : Linking(c)' = Linking(c), given' = [given EXCEPT ![x[1]] = @ - 1]
  PROVE  UsersInv'
<1>1. /\ \A c \in Contexts : InFlight(c) \in Nat /\ InFlight(c)' = InFlight(c) - If(c = x[1])
      /\ Abroad(x) /\ x[1] \in Contexts
  BY LosesAll DEF PortInv, Packets
<1>2. InFlight(x[1]) >= 1
  BY <1>1, AbroadCounts DEF PortInv
<1>3. UserFits(x[1]) /\ given \in [Contexts -> Nat] /\ Cardinality(Linking(x[1])) \in Nat
  BY <1>1, LinkingFinite DEF UsersInv
<1>4. given[x[1]] >= 1
  BY <1>1, <1>2, <1>3 DEF UserFits
<1>5. /\ given' \in [Contexts -> Nat] /\ given'[x[1]] = given[x[1]] - 1
      /\ \A c \in Contexts \ {x[1]} : given'[c] = given[c]
  <2>1. given[x[1]] - 1 \in Nat
    BY <1>1, <1>3, <1>4
  <2>2. QED
    BY <1>1, <1>3, <2>1
<1>6. request \in [Contexts -> {"None", "Cancelled", "Message", "Read", "Write", "Other"}]
  BY DEF PortInv, ContextTypes
<1>7. /\ request' = IF Detaches(x[1]) THEN [request EXCEPT ![x[1]] = "None"] ELSE request
      /\ \A c \in Contexts \ {x[1]} : request'[c] = request[c]
  <2>1. request' = IF Detaches(x[1]) THEN [request EXCEPT ![x[1]] = "None"] ELSE request
    BY DEF Take
  <2>2. QED
    BY <1>6, <2>1
<1>8. UserFits(x[1])'
  <2>1. InFlight(x[1])' = InFlight(x[1]) - 1
    BY <1>1 DEF If
  <2>2. CASE request[x[1]] = "Message"
    <3>1. request'[x[1]] \in {"None", "Message"}
      BY <1>1, <1>6, <1>7, <2>2
    <3>2. given[x[1]] = InFlight(x[1]) + Cardinality(Linking(x[1]))
      BY <1>3, <2>2 DEF UserFits
    <3>3. Linking(x[1])' = Linking(x[1])
      BY <1>1
    <3>4. QED
      BY <1>1, <1>3, <1>5, <2>1, <3>1, <3>2, <3>3 DEF UserFits
  <2>3. CASE request[x[1]] # "Message"
    <3>1. request'[x[1]] = "None"
      BY <1>1, <1>6, <1>7, <2>3 DEF Detaches
    <3>2. InFlight(x[1])' = 0
      BY <1>1, <3>1 DEF PortInv, SoundContext
    <3>3. request[x[1]] # "None"
      BY <1>1, <1>2 DEF PortInv, SoundContext
    <3>4. given[x[1]] = 1 /\ Linking(x[1]) = {}
      BY <1>3, <2>3, <3>3 DEF UserFits
    <3>5. Linking(x[1])' = {} /\ Cardinality({}) = 0
      BY <1>1, <3>4, FS_EmptySet
    <3>6. QED
      BY <1>5, <3>1, <3>2, <3>4, <3>5 DEF UserFits
  <2>4. QED
    BY <2>2, <2>3
<1>9. ASSUME NEW c \in Contexts \ {x[1]} PROVE UserFits(c)'
  <2>1. UserFits(c) /\ InFlight(c)' = InFlight(c) /\ Linking(c)' = Linking(c)
    BY <1>1 DEF UsersInv, If
  <2>2. QED
    BY <1>5, <1>7, <2>1 DEF UserFits
<1>10. QED
  BY <1>1, <1>5, <1>8, <1>9 DEF UsersInv

LEMMA ReturnsSound ==
  ASSUME PortInv, UsersInv, NEW u \in Users, Returns(u)
  PROVE  PortInv' /\ UsersInv'
<1> DEFINE x == PacketOf(doing, u)
<1>1. u \in Threads /\ Undo(u) /\ given' = [given EXCEPT ![doing[u].ctx] = @ - 1]
  BY DEF Returns, Threads
<1>2. PortInv' /\ Loses(x) /\ x \in Packets
  BY <1>1, UndoKeeps
<1>3. x[1] = doing[u].ctx /\ ~At(u, "link")
  BY <1>1, DoingIs DEF PortInv, Undo, At
<1>4. Take(x[1]) /\ Becomes(doing, u, None, doing')
  BY <1>1, <1>3 DEF Undo, Unlink, Becomes
<1>5. \A c \in Contexts : Linking(c)' = Linking(c)
  BY <1>1, <1>3, <1>4, LinkingStays DEF PortInv
<1>6. given' = [given EXCEPT ![x[1]] = @ - 1]
  BY <1>1, <1>3
<1> HIDE DEF x
<1>7. QED
  BY <1>2, <1>4, <1>5, <1>6, GivenBack

\* What a listener is called with is a notice.
ListenerTypes == listener \in [Transports -> {"user", "server", "op", None}]

LEMMA NoticeIs ==
  ASSUME ListenerTypes, NEW x \in Packets, NEW result \in {"done", "error"},
         NEW to, to \in Listeners \/ (x[2] \in Transports /\ to = listener[x[2]])
  PROVE  /\ Notice(to, x, result) \in Notices /\ Notice(to, x, result) # None
         /\ Notice(to, x, result).ctx = x[1] /\ Notice(to, x, result).to = to
         /\ Notice(to, x, result).result = result
<1>1. to \in Listeners \cup {"user", "server", "op", None} /\ x[1] \in Contexts
  BY DEF ListenerTypes, Packets
<1>2. Method(request[x[1]]) \in {"OnRead", "OnWrite", "OnCompleted"}
  BY DEF Method
<1>3. Notice(to, x, result) \in Notices
  BY <1>1, <1>2 DEF Notice, Notices
<1>4. Notice(to, x, result) # None
  BY <1>3, NoneAssumption
<1>5. QED
  BY <1>3, <1>4 DEF Notice

LEMMA NotifiedSound ==
  ASSUME PortInv, UsersInv, ListenerTypes, call \in [Pollers -> Notices \cup {None}],
         NEW p \in Pollers, Notified(p, "done")
  PROVE  PortInv' /\ UsersInv' /\ ~aborted'
<1> PICK x : x = FirstOf(entries, p)
  OBVIOUS
<1>1. Dispatch(p, "done") /\ call[p] = None
  BY DEF Notified, Dispatch
<1>2. /\ PortInv' /\ ~aborted' /\ x \in Packets /\ Loses(x)
      /\ TellsMessage(p, x, "done") \/ TellsRequest(p, x, "done") \/ Discards(x)
  BY <1>1, DispatchKeeps
<1>3. given' = IF call'[p] = None THEN given ELSE [given EXCEPT ![call'[p].ctx] = @ - 1]
  BY DEF Notified
<1>4. doing' = doing
  BY <1>1, DispatchIs
<1>5. \A c \in Contexts : Linking(c)' = Linking(c)
  BY <1>4, LinkingSame
<1>6. CASE Discards(x)
  <2>1. given' = given /\ request' = request /\ request[x[1]] \notin {"None", "Message"}
    BY <1>1, <1>3, <1>6 DEF Discards, Cancellable
  <2>2. \A c \in Contexts : InFlight(c) \in Nat /\ InFlight(c)' = InFlight(c) - If(c = x[1])
    BY <1>2, LosesAll DEF PortInv
  <2>3. ASSUME NEW c \in Contexts PROVE UserFits(c)'
    <3>1. UserFits(c) /\ Linking(c)' = Linking(c) /\ InFlight(c)' = InFlight(c) - If(c = x[1])
      BY <1>5, <2>2 DEF UsersInv
    <3>2. CASE c = x[1]
      BY <2>1, <3>1, <3>2 DEF UserFits
    <3>3. CASE c # x[1]
      <4>1. InFlight(c)' = InFlight(c)
        BY <2>2, <3>3 DEF If
      <4>2. QED
        BY <2>1, <3>1, <4>1 DEF UserFits
    <3>4. QED
      BY <3>2, <3>3
  <2>4. QED
    BY <1>2, <2>1, <2>3 DEF UsersInv
<1>7. CASE TellsMessage(p, x, "done") \/ TellsRequest(p, x, "done")
  <2>1. PICK to : /\ to \in Listeners \/ (x[2] \in Transports /\ to = listener[x[2]])
                  /\ call' = [call EXCEPT ![p] = Notice(to, x, "done")] /\ Take(x[1])
    BY <1>7 DEF TellsMessage, TellsRequest
  <2>2. call'[p] # None /\ call'[p].ctx = x[1]
    <3>1. call'[p] = Notice(to, x, "done")
      BY <2>1
    <3>2. Notice(to, x, "done") # None /\ Notice(to, x, "done").ctx = x[1]
      BY <1>2, <2>1, NoticeIs
    <3>3. QED
      BY Zenon, <3>1, <3>2
  <2>3. given' = [given EXCEPT ![x[1]] = @ - 1]
    BY <1>3, <2>2
  <2>4. QED
    BY <1>2, <1>5, <2>1, <2>3, GivenBack
<1>8. QED
  BY <1>2, <1>6, <1>7

LEMMA UserPostsSound ==
  ASSUME PortInv, UsersInv, NEW u \in Users, NEW c \in Contexts, NEW l \in Listeners,
         UserPosts(u, c, l)
  PROVE  PortInv' /\ UsersInv'
<1>1. /\ u \in Threads /\ Post(u, c, l) /\ given' = [given EXCEPT ![c] = @ + 1]
      /\ doing[u] = None /\ request[c] \in {"None", "Message"} /\ request' = request
  BY DEF UserPosts, Threads, Post, contextVars
<1>2. PortInv' /\ Keeps
  BY <1>1, PostKeeps
<1>3. \A d \in Contexts : InFlight(d) \in Nat /\ InFlight(d)' = InFlight(d)
  BY <1>2, KeepsAll DEF PortInv
<1> DEFINE r == [ctx |-> c, on |-> l, type |-> "Message", step |-> "link"]
<1>4. r \in Doings /\ r.step = "link" /\ r.ctx = c
  BY DEF Doings
<1>5. Becomes(doing, u, r, doing')
  BY <1>1 DEF Post, Doing, Becomes
<1> HIDE DEF r
<1>6. r # None
  BY <1>4, NoneAssumption
<1>7. \A d \in Contexts : Cardinality(Linking(d)') = Cardinality(Linking(d)) + If(d = c)
  BY <1>1, <1>4, <1>5, <1>6, LinkingJoins DEF PortInv
<1>8. /\ given' \in [Contexts -> Nat]
      /\ \A d \in Contexts : given'[d] = given[d] + If(d = c) /\ given[d] \in Nat
  BY <1>1 DEF UsersInv, If
<1>9. ASSUME NEW d \in Contexts PROVE UserFits(d)'
  <2>1. UserFits(d) /\ Cardinality(Linking(d)) \in Nat /\ IsFiniteSet(Linking(d))
    BY LinkingFinite DEF UsersInv
  <2>2. CASE request[d] \in {"None", "Message"}
    <3>1. given[d] = InFlight(d) + Cardinality(Linking(d)) /\ If(d = c) \in Nat
      BY <2>1, <2>2 DEF UserFits, If
    <3>2. given'[d] = InFlight(d)' + Cardinality(Linking(d)')
      BY <1>3, <1>7, <1>8, <2>1, <3>1
    <3>3. QED
      BY <1>1, <2>2, <3>2 DEF UserFits
  <2>3. CASE request[d] \notin {"None", "Message"}
    <3>1. d # c /\ given[d] = 1 /\ Linking(d) = {}
      BY <1>1, <2>1, <2>3 DEF UserFits
    <3>2. ~At(u, "link") /\ doing'[u] = r /\ \A y \in Threads \ {u} : doing'[y] = doing[y]
      BY <1>1, <1>5 DEF At, Becomes, PortInv, Counted, CountTypes
    <3>3. Linking(d)' = {}
      BY <1>4, <3>1, <3>2 DEF Linking, At
    <3>4. given'[d] = 1
      BY <1>8, <3>1 DEF If
    <3>5. QED
      BY <1>1, <2>3, <3>3, <3>4 DEF UserFits
  <2>4. QED
    BY <2>2, <2>3
<1>10. QED
  BY <1>2, <1>8, <1>9 DEF UsersInv

LEMMA UserLinksSound ==
  ASSUME PortInv, UsersInv, NEW u \in Users, LinkMessage(u), UNCHANGED given
  PROVE  PortInv' /\ UsersInv'
<1> DEFINE x == PacketOf(doing, u)
<1>1. u \in Threads /\ At(u, "link") /\ doing[u] # None
  BY DEF LinkMessage, Threads, At
<1>2. PortInv' /\ Gains(x) /\ x \in Packets
  BY <1>1, LinkMessageKeeps
<1>3. x[1] = doing[u].ctx /\ doing[u].ctx \in Contexts /\ doing[u] \in Doings
  BY <1>1, DoingIs DEF PortInv
<1> HIDE DEF x
<1>4. \A d \in Contexts : InFlight(d) \in Nat /\ InFlight(d)' = InFlight(d) + If(d = x[1])
  BY <1>2, GainsAll DEF PortInv
<1> PICK r : r = Stepped(doing[u], "send")
  OBVIOUS
<1>5. r.step # "link" /\ Becomes(doing, u, r, doing')
  BY <1>3, SteppedIs DEF LinkMessage, Becomes, Stepped
<1>6. \A d \in Contexts : Cardinality(Linking(d)') = Cardinality(Linking(d)) - If(d = x[1])
  BY <1>1, <1>3, <1>5, LinkingLeaves DEF PortInv
<1>7. \A d \in Contexts : request'[d] = IF d = x[1] THEN "Message" ELSE request[d]
  BY <1>3 DEF LinkMessage, Link, PortInv, ContextTypes
<1>8. request[x[1]] \in {"None", "Message"}
  BY <1>1, <1>3 DEF PortInv, ThreadsFit, DoingFits, At
<1>9. ASSUME NEW d \in Contexts PROVE UserFits(d)'
  <2>1. UserFits(d) /\ Cardinality(Linking(d)) \in Nat /\ given[d] \in Nat
    BY LinkingFinite DEF UsersInv
  <2>2. CASE d = x[1]
    <3>1. given[d] = InFlight(d) + Cardinality(Linking(d))
      BY <1>8, <2>1, <2>2 DEF UserFits
    <3>2. If(d = x[1]) = 1
      BY <2>2 DEF If
    <3>3. given[d] = InFlight(d)' + Cardinality(Linking(d)')
      BY <1>4, <1>6, <2>1, <3>1, <3>2
    <3>4. QED
      BY <1>7, <2>2, <3>3 DEF UserFits
  <2>3. CASE d # x[1]
    <3>1. If(d = x[1]) = 0
      BY <2>3 DEF If
    <3>2. InFlight(d)' = InFlight(d) /\ Cardinality(Linking(d)') = Cardinality(Linking(d))
      BY <1>4, <1>6, <2>1, <3>1
    <3>3. doing'[u] = r /\ \A y \in Threads \ {u} : doing'[y] = doing[y]
      BY <1>1, <1>5 DEF Becomes, PortInv, Counted, CountTypes
    <3>4. Linking(d)' = Linking(d)
      BY <1>1, <1>3, <1>5, <2>3, <3>3 DEF Linking, At
    <3>5. QED
      BY <1>7, <2>1, <2>3, <3>2, <3>4 DEF UserFits
  <2>4. QED
    BY <2>2, <2>3
<1>10. QED
  BY <1>2, <1>9 DEF UsersInv

\* What the port does by itself, and the rest of Post().
LEMMA PortStepSound ==
  ASSUME PortInv, UsersInv, UNCHANGED given,
         \/ \E u \in Users : Send(u) \/ SendFails(u)
         \/ \E p \in Pollers : PollOne(p) \/ Poll(p)
         \/ \E b \in busy : Completes(b)
  PROVE  PortInv' /\ UsersInv'
<1>1. ASSUME NEW u \in Users, Send(u) PROVE PortInv' /\ UsersInv'
  <2>1. /\ u \in Threads /\ At(u, "send") /\ UNCHANGED <<contextVars, busy, entries>>
        /\ Comes(port, PacketOf(doing, u), port') /\ Becomes(doing, u, None, doing')
    BY <1>1 DEF Send, Threads, pollVars, Comes, PacketOf, PacketIn, Becomes
  <2>2. Carries(doing, u) /\ ~At(u, "link")
    BY <2>1 DEF At, Carries, Sent
  <2>3. PortInv' /\ Keeps
    BY <2>1, <2>2, QueuedKeeps
  <2>4. \A c \in Contexts : Linking(c)' = Linking(c)
    BY <2>1, <2>2, LinkingStays DEF PortInv
  <2>5. QED
    BY <2>1, <2>3, <2>4, UsersKept DEF contextVars
<1>2. ASSUME NEW u \in Users, SendFails(u) PROVE PortInv' /\ UsersInv'
  <2>1. /\ u \in Threads /\ At(u, "send") /\ UNCHANGED <<contextVars, busy, port, entries>>
        /\ doing' = [doing EXCEPT ![u].step = "undo"]
    BY <1>2 DEF SendFails, Threads, pollVars
  <2>2. Carries(doing, u) /\ ~At(u, "link") /\ doing[u] \in Doings
    BY <2>1, DoingIs DEF At, Carries, Sent, PortInv
  <2>3. PortInv' /\ Keeps
    BY <2>1, <2>2, UndueKeeps
  <2> PICK r : r = Stepped(doing[u], "undo")
    OBVIOUS
  <2>4. r.step # "link" /\ Becomes(doing, u, r, doing')
    BY <2>1, <2>2, SteppedIs DEF Becomes, Stepped
  <2>5. \A c \in Contexts : Linking(c)' = Linking(c)
    BY <2>1, <2>2, <2>4, LinkingStays DEF PortInv
  <2>6. QED
    BY <2>1, <2>3, <2>5, UsersKept DEF contextVars
<1>3. ASSUME NEW p \in Pollers, PollOne(p) \/ Poll(p) PROVE PortInv' /\ UsersInv'
  <2>1. request' = request /\ doing' = doing
    BY <1>3 DEF PollOne, Poll, Dequeue, contextVars
  <2>2. PortInv' /\ Keeps
    BY <1>3, PollKeeps
  <2>3. QED
    BY <2>1, <2>2, LinkingSame, UsersKept
<1>4. ASSUME NEW b \in busy, Completes(b) PROVE PortInv' /\ UsersInv'
  <2>1. request' = request /\ doing' = doing
    BY <1>4 DEF Completes, contextVars
  <2>2. PortInv' /\ Keeps
    BY <1>4, CompletesKeeps
  <2>3. QED
    BY <2>1, <2>2, LinkingSame, UsersKept
<1>5. QED
  BY <1>1, <1>2, <1>3, <1>4

LEMMA UserCancelSound ==
  ASSUME PortInv, UsersInv, NEW t \in Transports, NEW c \in Contexts, Cancel(t, c)
  PROVE  PortInv' /\ UsersInv'
<1>1. PortInv' /\ Keeps
  BY CancelKeeps
<1>2. /\ request[c] \notin {"None", "Message"} /\ request' = [request EXCEPT ![c] = "Cancelled"]
      /\ doing' = doing /\ given' = given
  BY DEF Cancel, Cancellable, userVars
<1>3. \A d \in Contexts : request'[d] = IF d = c THEN "Cancelled" ELSE request[d]
  BY <1>2 DEF PortInv, ContextTypes
<1>4. ASSUME NEW d \in Contexts PROVE UserFits(d)'
  <2>1. UserFits(d) /\ Linking(d)' = Linking(d) /\ InFlight(d)' = InFlight(d)
    BY <1>1, <1>2, LinkingSame, KeepsAll DEF UsersInv, PortInv
  <2>2. QED
    BY <1>2, <1>3, <2>1 DEF UserFits
<1>5. QED
  BY <1>1, <1>2, <1>4 DEF UsersInv

----------------------------------------------------------------------------
(* Types of what the port leaves to transports and polling threads.        *)

TransportTypes ==
  /\ closed \subseteq Transports /\ attached \subseteq Transports /\ ListenerTypes
  /\ \A t \in attached : listener[t] # None
  /\ immediate \in {"off", "enabled", "required"}
  /\ flagged \subseteq skips /\ skips \subseteq Transports

PollTypes ==
  /\ \A p \in Pollers : Len(entries[p]) <= BatchSize
  /\ call \in [Pollers -> Notices \cup {None}]

LEMMA TransportsKept ==
  ASSUME TransportTypes, UNCHANGED <<transportVars, deliveryVars>>
  PROVE  TransportTypes'
BY DEF TransportTypes, transportVars, deliveryVars, ListenerTypes

LEMMA PollsKept ==
  ASSUME PollTypes, UNCHANGED pollVars
  PROVE  PollTypes'
BY DEF PollTypes, pollVars

LEMMA AttachKeepsTypes ==
  ASSUME TransportTypes, NEW t \in Transports, NEW l \in {"user", "server", "op"}, AttachTo(t, l)
  PROVE  TransportTypes'
<1>1. l # None
  BY NoneAssumption
<1>2. /\ closed' = closed /\ attached' = attached \cup {t} /\ listener' = [listener EXCEPT ![t] = l]
      /\ immediate' = immediate
  BY DEF AttachTo, Attaches
<1>3. flagged' \subseteq skips' /\ skips' \subseteq Transports
  BY DEF AttachTo, TransportTypes, SetsFlag
<1>4. ListenerTypes' /\ \A x \in attached' : listener'[x] # None
  BY <1>1, <1>2 DEF TransportTypes, ListenerTypes
<1>5. QED
  BY <1>2, <1>3, <1>4 DEF TransportTypes

LEMMA CloseKeepsTypes ==
  ASSUME TransportTypes, NEW t \in Transports, CloseHandle(t) \/ ClearListener(t)
  PROVE  TransportTypes'
<1>1. CASE CloseHandle(t)
  BY <1>1 DEF CloseHandle, TransportTypes, ListenerTypes, deliveryVars
<1>2. CASE ClearListener(t)
  BY <1>2 DEF ClearListener, TransportTypes, ListenerTypes, deliveryVars
<1>3. QED
  BY <1>1, <1>2

LEMMA EnableKeepsTypes ==
  ASSUME TransportTypes, NEW mode, EnableImmediateDelivery(mode)
  PROVE  TransportTypes'
BY DEF EnableImmediateDelivery, TransportTypes, ListenerTypes, portVars, transportVars

LEMMA PollKeepsTypes ==
  ASSUME PortInv, PollTypes, NEW p \in Pollers, PollOne(p) \/ Poll(p)
  PROVE  PollTypes'
<1>1. Len(entries'[p]) <= BatchSize
  BY PollKeeps
<1>2. call' = call /\ \A q \in Pollers \ {p} : entries'[q] = entries[q]
  <2>1. PICK n : Dequeue(p, n)
    BY DEF PollOne, Poll
  <2>2. QED
    BY <2>1 DEF Dequeue, PortInv, Counted, CountTypes
<1>3. QED
  BY <1>1, <1>2 DEF PollTypes

LEMMA DispatchKeepsTypes ==
  ASSUME PortInv, PollTypes, ListenerTypes, NEW p \in Pollers, NEW result \in {"done", "error"},
         Dispatch(p, result)
  PROVE  PollTypes'
<1> PICK x : x = FirstOf(entries, p)
  OBVIOUS
<1>1. /\ x \in Packets /\ Len(entries'[p]) <= Len(entries[p])
      /\ TellsMessage(p, x, result) \/ TellsRequest(p, x, result) \/ Discards(x)
  BY DispatchKeeps
<1>2. \A q \in Pollers \ {p} : entries'[q] = entries[q]
  <2>1. Passes(entries, p, entries')
    BY DispatchIs
  <2>2. QED
    BY <2>1 DEF Passes, PortInv, Counted, CountTypes
<1>3. call' \in [Pollers -> Notices \cup {None}]
  <2>1. CASE Discards(x)
    BY <2>1 DEF Discards, PollTypes
  <2>2. CASE TellsMessage(p, x, result) \/ TellsRequest(p, x, result)
    <3>1. PICK to : /\ to \in Listeners \/ (x[2] \in Transports /\ to = listener[x[2]])
                    /\ call' = [call EXCEPT ![p] = Notice(to, x, result)]
      BY <2>2 DEF TellsMessage, TellsRequest
    <3>2. Notice(to, x, result) \in Notices
      BY <1>1, <3>1, NoticeIs
    <3>3. QED
      BY <3>1, <3>2 DEF PollTypes
  <2>3. QED
    BY <1>1, <2>1, <2>2
<1>4. \A q \in Pollers : Len(entries'[q]) <= BatchSize
  <2>1. entries'[p] \in Seq(Packets) /\ entries[p] \in Seq(Packets)
    BY DispatchKeeps DEF PortInv, Counted, CountTypes
  <2>2. Len(entries'[p]) \in Nat /\ Len(entries[p]) \in Nat /\ Len(entries[p]) <= BatchSize
    BY <2>1 DEF PollTypes
  <2>3. Len(entries'[p]) <= BatchSize
    BY <1>1, <2>2, BatchAssumption
  <2>4. QED
    BY <1>2, <2>3 DEF PollTypes
<1>5. QED
  BY <1>3, <1>4 DEF PollTypes

----------------------------------------------------------------------------
(* The users' program.                                                     *)

BaseTypes ==
  /\ ContextTypes /\ Counted /\ TransportTypes /\ PollTypes
  /\ given \in [Contexts -> Nat] /\ misreported \in BOOLEAN /\ aborted \in BOOLEAN

UsersState == BaseTypes /\ ~aborted /\ (~misreported => PortInv /\ UsersInv)

\* What there is to show of a step that misreports nothing.
LEMMA SoundStep ==
  ASSUME UsersState, PortInv', UsersInv', TransportTypes', PollTypes', UNCHANGED <<aborted, misreported>>
  PROVE  UsersState'
<1>1. BaseTypes'
  BY DEF BaseTypes, PortInv, UsersInv, UsersState
<1>2. QED
  BY <1>1 DEF UsersState

\* The packet of a request that is given up may be in the port.
LEMMA IssueTyped ==
  ASSUME UsersState, ~misreported, NEW u \in Users, NEW outcome, Issue(u, outcome)
  PROVE  UsersState'
<1>1. /\ PortInv /\ UsersInv /\ BaseTypes /\ u \in Threads /\ At(u, "issue")
      /\ TransportTypes /\ PollTypes
  BY DEF UsersState, Issue, Threads, BaseTypes
<1>2. TransportTypes' /\ PollTypes'
  BY <1>1, TransportsKept, PollsKept DEF Issue
<1>3. aborted' = aborted /\ UNCHANGED contextVars /\ given' = given /\ entries' = entries
  BY DEF Issue, pollVars
<1>4. CASE ~misreported'
  <2>1. PortInv' /\ UsersInv'
    BY <1>1, <1>4, IssueSound DEF TransportTypes
  <2>2. misreported' = misreported
    BY <1>1, <1>4 DEF UsersState, BaseTypes, Issue, Undoes
  <2>3. QED
    BY <1>2, <1>3, <2>1, <2>2, SoundStep
<1>5. CASE misreported'
  <2> DEFINE c == doing[u].ctx
             t == doing[u].on
  <2>1. /\ misreported' = (Queues(t, outcome) /\ t \notin Files) \/ UNCHANGED misreported
        /\ port' = IF Queues(t, outcome) THEN Append(port, <<c, t>>) ELSE port
        /\ busy' = IF outcome = "pending" THEN busy \cup {<<c, t>>} ELSE busy
        /\ misreported' # misreported => doing' = [doing EXCEPT ![u].step = "undo"]
    BY DEF Issue
  <2>2. Queues(t, outcome) /\ doing' = [doing EXCEPT ![u].step = "undo"] /\ misreported' = TRUE
    BY <1>1, <1>5, <2>1 DEF BaseTypes
  <2>3. busy' = busy
    BY <2>1, <2>2 DEF Queues
  <2>4. doing[u] # None /\ doing[u] \in Doings /\ Carries(doing, u) /\ PacketOf(doing, u) \in Packets
    BY <1>1, DoingIs DEF At, PortInv
  <2>5. Comes(port, PacketOf(doing, u), port')
    BY <2>1, <2>2 DEF Comes, PacketOf, PacketIn
  <2> HIDE DEF c, t
  <2>6. CountTypes(busy, port', entries, doing)
    BY <1>1, <2>4, <2>5, PacketComes DEF PortInv, Counted
  <2> PICK r : r = Stepped(doing[u], "undo")
    OBVIOUS
  <2>7. r \in Doings /\ PacketIn(r) = PacketOf(doing, u) /\ Sent(r) /\ Becomes(doing, u, r, doing')
    BY <2>2, <2>4, SteppedIs DEF Becomes, Stepped, PacketOf
  <2>8. CountTypes(busy, port', entries, doing')
    BY <1>1, <2>4, <2>6, <2>7, ThreadKeeps
  <2>9. Counted'
    BY <1>3, <2>3, <2>8, CountedNext
  <2>10. ContextTypes'
    BY <1>1, <1>3 DEF PortInv, ContextTypes, contextVars
  <2>11. given' \in [Contexts -> Nat] /\ aborted' = FALSE
    BY <1>1, <1>3 DEF BaseTypes, UsersState
  <2>12. QED
    BY <1>2, <2>2, <2>9, <2>10, <2>11 DEF UsersState, BaseTypes
<1>6. QED
  BY <1>4, <1>5

LEMMA UsersStep ==
  ASSUME UsersState, ~misreported, NEW t \in UserTransports, TransportsNext(t)
  PROVE  UsersState'
<1>1. /\ PortInv /\ UsersInv /\ BaseTypes /\ TransportTypes /\ PollTypes /\ ListenerTypes
      /\ call \in [Pollers -> Notices \cup {None}]
  BY DEF UsersState, BaseTypes, TransportTypes, PollTypes
<1>2. t \in Transports /\ UserContexts \subseteq Contexts
  BY UsersAssumption
<1>3. ASSUME Attach(t) PROVE UsersState'
  <2>1. /\ AttachTo(t, "user") /\ UNCHANGED <<contextVars, busy, port, doing, given>>
        /\ UNCHANGED entries /\ UNCHANGED pollVars /\ UNCHANGED <<aborted, misreported>>
    BY <1>3 DEF Attach, userVars, pollVars
  <2>2. PortInv' /\ UsersInv' /\ TransportTypes' /\ PollTypes'
    BY <1>1, <1>2, <2>1, UsersQuiet, AttachKeepsTypes, PollsKept
  <2>3. QED
    BY <2>1, <2>2, SoundStep
<1>4. ASSUME CloseHandle(t) \/ ClearListener(t) PROVE UsersState'
  <2>1. /\ UNCHANGED <<contextVars, busy, port, doing, given>>
        /\ UNCHANGED entries /\ UNCHANGED pollVars /\ UNCHANGED <<aborted, misreported>>
    BY <1>4 DEF CloseHandle, ClearListener, userVars, pollVars
  <2>2. PortInv' /\ UsersInv' /\ TransportTypes' /\ PollTypes'
    BY <1>1, <1>2, <1>4, <2>1, UsersQuiet, CloseKeepsTypes, PollsKept
  <2>3. QED
    BY <2>1, <2>2, SoundStep
<1>5. ASSUME NEW mode, EnableImmediateDelivery(mode) PROVE UsersState'
  <2>1. /\ UNCHANGED <<contextVars, busy, port, doing, given>>
        /\ UNCHANGED entries /\ UNCHANGED pollVars /\ UNCHANGED <<aborted, misreported>>
    BY <1>5 DEF EnableImmediateDelivery, userVars, pollVars, portVars
  <2>2. PortInv' /\ UsersInv' /\ TransportTypes' /\ PollTypes'
    BY <1>1, <1>5, <2>1, UsersQuiet, EnableKeepsTypes, PollsKept
  <2>3. QED
    BY <2>1, <2>2, SoundStep
<1>6. ASSUME NEW u \in Users, NEW c \in UserContexts, NEW type \in {"Read", "Write"},
             Start(u, c, t, type)
      PROVE  UsersState'
  <2>1. UNCHANGED <<transportVars, deliveryVars>> /\ UNCHANGED pollVars
        /\ UNCHANGED <<aborted, misreported>>
    BY <1>6 DEF Start
  <2>2. TransportTypes' /\ PollTypes'
    BY <1>1, <2>1, TransportsKept, PollsKept
  <2>3. PortInv' /\ UsersInv'
    BY <1>1, <1>2, <1>6, StartSound
  <2>4. QED
    BY <2>1, <2>2, <2>3, SoundStep
<1>7. ASSUME NEW u \in Users, NEW outcome, Issue(u, outcome) PROVE UsersState'
  BY <1>7, IssueTyped
<1>8. ASSUME NEW u \in Users, Returns(u) PROVE UsersState'
  <2>1. UNCHANGED <<transportVars, deliveryVars>> /\ UNCHANGED pollVars
        /\ UNCHANGED <<aborted, misreported>>
    BY <1>8 DEF Returns, Undo
  <2>2. TransportTypes' /\ PollTypes'
    BY <1>1, <2>1, TransportsKept, PollsKept
  <2>3. PortInv' /\ UsersInv'
    BY <1>1, <1>8, ReturnsSound
  <2>4. QED
    BY <2>1, <2>2, <2>3, SoundStep
<1>9. ASSUME NEW c \in UserContexts, Cancel(t, c) PROVE UsersState'
  <2>1. UNCHANGED <<transportVars, deliveryVars>> /\ UNCHANGED pollVars
        /\ UNCHANGED <<aborted, misreported>>
    BY <1>9 DEF Cancel, userVars
  <2>2. TransportTypes' /\ PollTypes'
    BY <1>1, <2>1, TransportsKept, PollsKept
  <2>3. PortInv' /\ UsersInv'
    BY <1>1, <1>2, <1>9, UserCancelSound
  <2>4. QED
    BY <2>1, <2>2, <2>3, SoundStep
<1>10. ASSUME NEW u \in Users, NEW c \in UserContexts, NEW l \in Listeners, UserPosts(u, c, l)
       PROVE  UsersState'
  <2>1. UNCHANGED <<transportVars, deliveryVars>> /\ UNCHANGED pollVars
        /\ UNCHANGED <<aborted, misreported>>
    BY <1>10 DEF UserPosts, Post
  <2>2. TransportTypes' /\ PollTypes'
    BY <1>1, <2>1, TransportsKept, PollsKept
  <2>3. PortInv' /\ UsersInv'
    BY <1>1, <1>2, <1>10, UserPostsSound
  <2>4. QED
    BY <2>1, <2>2, <2>3, SoundStep
<1>11. ASSUME NEW p \in Pollers, ListenerReturns(p) PROVE UsersState'
  <2>1. /\ UNCHANGED <<contextVars, busy, port, entries, doing, given>>
        /\ UNCHANGED <<transportVars, deliveryVars>>
        /\ UNCHANGED <<aborted, misreported>> /\ call' = [call EXCEPT ![p] = None]
    BY <1>11 DEF ListenerReturns, userVars
  <2>2. PortInv' /\ UsersInv' /\ TransportTypes'
    BY <1>1, <2>1, UsersQuiet, TransportsKept
  <2>3. PollTypes'
    BY <1>1, <2>1 DEF PollTypes
  <2>4. QED
    BY <2>1, <2>2, <2>3, SoundStep
<1>12. ASSUME NEW p \in Pollers, Notified(p, "done") PROVE UsersState'
  <2>1. UNCHANGED <<transportVars, deliveryVars>> /\ misreported' = misreported
        /\ Dispatch(p, "done")
    BY <1>12 DEF Notified, Dispatch
  <2>2. TransportTypes' /\ PollTypes'
    BY <1>1, <2>1, TransportsKept, DispatchKeepsTypes
  <2>3. PortInv' /\ UsersInv' /\ ~aborted'
    BY <1>1, <1>12, NotifiedSound
  <2>4. aborted' = aborted
    BY <2>1, <2>3, DispatchIs DEF UsersState
  <2>5. QED
    BY <2>1, <2>2, <2>3, <2>4, SoundStep
<1>13. ASSUME NEW u \in Users, LinkMessage(u), UNCHANGED <<deliveryVars, userVars>>
       PROVE  UsersState'
  <2>1. UNCHANGED <<transportVars, deliveryVars>> /\ UNCHANGED pollVars
        /\ UNCHANGED <<aborted, misreported>> /\ given' = given
    BY <1>13 DEF LinkMessage, userVars
  <2>2. TransportTypes' /\ PollTypes'
    BY <1>1, <2>1, TransportsKept, PollsKept
  <2>3. PortInv' /\ UsersInv'
    BY <1>1, <1>13, <2>1, UserLinksSound
  <2>4. QED
    BY <2>1, <2>2, <2>3, SoundStep
<1>14. ASSUME NEW u \in Users, Send(u) \/ SendFails(u), UNCHANGED <<deliveryVars, userVars>>
       PROVE  UsersState'
  <2>1. UNCHANGED <<transportVars, deliveryVars>> /\ UNCHANGED pollVars
        /\ UNCHANGED <<aborted, misreported>> /\ given' = given
    BY <1>14 DEF Send, SendFails, userVars
  <2>2. TransportTypes' /\ PollTypes'
    BY <1>1, <2>1, TransportsKept, PollsKept
  <2>3. PortInv' /\ UsersInv'
    BY <1>1, <1>14, <2>1, PortStepSound
  <2>4. QED
    BY <2>1, <2>2, <2>3, SoundStep
<1>15. ASSUME NEW p \in Pollers, PollOne(p) \/ Poll(p), UNCHANGED <<deliveryVars, userVars>>
       PROVE  UsersState'
  <2>1. UNCHANGED <<transportVars, deliveryVars>>
        /\ UNCHANGED <<aborted, misreported>> /\ given' = given
    BY <1>15 DEF PollOne, Poll, Dequeue, userVars
  <2>2. TransportTypes' /\ PollTypes'
    BY <1>1, <1>15, <2>1, TransportsKept, PollKeepsTypes
  <2>3. PortInv' /\ UsersInv'
    BY <1>1, <1>15, <2>1, PortStepSound
  <2>4. QED
    BY <2>1, <2>2, <2>3, SoundStep
<1>16. ASSUME NEW b \in busy, Completes(b), UNCHANGED <<deliveryVars, userVars>>
       PROVE  UsersState'
  <2>1. UNCHANGED <<transportVars, deliveryVars>> /\ UNCHANGED pollVars
        /\ UNCHANGED <<aborted, misreported>> /\ given' = given
    BY <1>16 DEF Completes, userVars
  <2>2. TransportTypes' /\ PollTypes'
    BY <1>1, <2>1, TransportsKept, PollsKept
  <2>3. PortInv' /\ UsersInv'
    BY <1>1, <1>16, <2>1, PortStepSound
  <2>4. QED
    BY <2>1, <2>2, <2>3, SoundStep
<1>17. QED
  BY <1>3, <1>4, <1>5, <1>6, <1>7, <1>8, <1>9, <1>10, <1>11, <1>12, <1>13, <1>14, <1>15, <1>16
     DEF TransportsNext


----------------------------------------------------------------------------
(* The server and the client.                                              *)

\* What a thread of the networking program is about, and where it is in the server.
Agrees(th) ==
  /\ doing[th] # None =>
       /\ doing[th].step \in {"issue", "undo"} /\ doing[th].type = "Other"
       /\ \/ doing[th].on = Server /\ step[th] = doing[th].step
          \/ doing[th].on = Client /\ step[th] = "out" /\ th \in Users
  /\ step[th] \in {"issue", "undo"} => doing[th] # None /\ doing[th].on = Server
  /\ th \in Pollers /\ step[th] # "out" => InServer(th)
  /\ th \in Users => step[th] # "rest"

\* The state of the server and the client, but for what NetInv says of it.
NetState ==
  /\ BaseTypes /\ PortInv /\ ~aborted /\ ~misreported /\ NetTypeOK
  /\ \A th \in Threads : Agrees(th)

\* What the port and the transports keep of it.
Settled ==
  /\ PortInv' /\ TransportTypes' /\ PollTypes'
  /\ UNCHANGED given /\ UNCHANGED aborted /\ UNCHANGED misreported

LEMMA SettledStep ==
  ASSUME NetState, Settled, NetTypeOK', \A th \in Threads : Agrees(th)'
  PROVE  NetState'
<1>1. /\ given' \in [Contexts -> Nat] /\ ~misreported' /\ ~aborted'
      /\ misreported' \in BOOLEAN /\ aborted' \in BOOLEAN
  BY DEF NetState, BaseTypes, Settled
<1>2. BaseTypes'
  BY <1>1 DEF BaseTypes, Settled, PortInv
<1>3. QED
  BY <1>1, <1>2 DEF NetState, Settled

\* Other threads are as they were.
LEMMA AgreesElsewhere ==
  ASSUME NetState, NEW th \in Threads, Agrees(th)',
         \A x \in Threads \ {th} : doing'[x] = doing[x] /\ step'[x] = step[x],
         \A p \in Pollers \ {th} : call'[p] = call[p]
  PROVE  \A x \in Threads : Agrees(x)'
<1>1. ASSUME NEW x \in Threads \ {th} PROVE Agrees(x)'
  BY <1>1 DEF NetState, Agrees, InServer
<1>2. QED
  BY <1>1

\* A step that changes neither what is outstanding nor the contexts.
LEMMA QuietSettles ==
  ASSUME NetState, UNCHANGED contextVars, UNCHANGED <<busy, port, doing>>, UNCHANGED entries,
         UNCHANGED <<given, misreported>>, UNCHANGED aborted, TransportTypes', PollTypes'
  PROVE  Settled /\ Keeps
<1>1. PortInv' /\ Keeps
  BY QuietKeeps DEF NetState
<1>2. QED
  BY <1>1 DEF Settled

\* A system call, by what it says.
CallsIs(th, outcome) ==
  \/ outcome = "failed" /\ Undue(th)
  \/ outcome = "pending" /\ TakenOn(th)
  \/ outcome = "done" /\ doing[th].on \notin skips /\ Queued(th)
  \/ outcome = "done" /\ doing[th].on \in skips /\ Left(th)

LEMMA CallsAre ==
  ASSUME NEW th \in Threads, NEW outcome \in {"pending", "done", "failed"}, Calls(th, outcome)
  PROVE  /\ At(th, "issue") /\ doing[th].type = "Other"
         /\ outcome \in Outcomes(doing[th].on, "Other")
         /\ CallsIs(th, outcome)
<1> DEFINE c == doing[th].ctx
           t == doing[th].on
<1>1. /\ At(th, "issue") /\ doing[th].type = "Other" /\ outcome \in Outcomes(t, "Other")
      /\ busy' = IF outcome = "pending" THEN busy \cup {<<c, t>>} ELSE busy
      /\ port' = IF Queues(t, outcome) THEN Append(port, <<c, t>>) ELSE port
      /\ doing' = IF outcome = "failed" THEN [doing EXCEPT ![th].step = "undo"]
                                        ELSE [doing EXCEPT ![th] = None]
  BY DEF Calls
<1>2. PacketOf(doing, th) = <<c, t>>
  BY DEF PacketOf, PacketIn
<1>3. t = doing[th].on
  OBVIOUS
<1> HIDE DEF c, t
<1>4. CASE outcome = "failed"
  <2>1. Undue(th)
    BY <1>1, <1>4 DEF Queues, Undue
  <2>2. QED
    BY <1>1, <1>3, <1>4, <2>1 DEF CallsIs
<1>5. CASE outcome = "pending"
  <2>1. TakenOn(th)
    BY <1>1, <1>2, <1>5 DEF Queues, TakenOn, Joins, Becomes
  <2>2. QED
    BY <1>1, <1>3, <1>5, <2>1 DEF CallsIs
<1>6. CASE outcome = "done" /\ t \notin skips
  <2>1. Queued(th)
    BY <1>1, <1>2, <1>6 DEF Queues, Queued, Comes, Becomes
  <2>2. QED
    BY <1>1, <1>3, <1>6, <2>1 DEF CallsIs
<1>7. CASE outcome = "done" /\ t \in skips
  <2>1. Left(th)
    BY <1>1, <1>7 DEF Queues, Left, Becomes
  <2>2. QED
    BY <1>1, <1>3, <1>7, <2>1 DEF CallsIs
<1>8. QED
  BY <1>4, <1>5, <1>6, <1>7

LEMMA CallsSettle ==
  ASSUME NetState, NEW th \in Threads, NEW outcome \in {"pending", "done", "failed"},
         Calls(th, outcome), UNCHANGED contextVars, UNCHANGED pollVars, UNCHANGED aborted,
         UNCHANGED transportVars, UNCHANGED deliveryVars, UNCHANGED userVars
  PROVE  /\ Settled /\ At(th, "issue") /\ doing[th].type = "Other"
         /\ CallsIs(th, outcome)
         /\ (outcome # "done" \/ doing[th].on \notin skips) => Keeps
         /\ Keeps \/ Loses(PacketOf(doing, th))
         /\ \A x \in Threads \ {th} : doing'[x] = doing[x]
         /\ outcome = "failed" =>
              /\ doing'[th] # None /\ doing'[th].step = "undo" /\ doing'[th].type = doing[th].type
              /\ doing'[th].on = doing[th].on /\ doing'[th].ctx = doing[th].ctx
         /\ outcome # "failed" => doing'[th] = None
<1>1. PortInv /\ TransportTypes /\ PollTypes /\ entries' = entries
  BY DEF NetState, BaseTypes, pollVars
<1>2. At(th, "issue") /\ doing[th].type = "Other" /\ CallsIs(th, outcome)
  BY CallsAre
<1>3. Undue(th) \/ TakenOn(th) \/ Queued(th) \/ Left(th)
  BY <1>2 DEF CallsIs
<1>4. /\ PortInv'
      /\ Undue(th) \/ TakenOn(th) \/ Queued(th) => Keeps
      /\ Left(th) => Loses(PacketOf(doing, th))
  BY <1>1, <1>2, <1>3, CallKeeps
<1>5. TransportTypes' /\ PollTypes'
  BY <1>1, TransportsKept, PollsKept
<1>6. Settled
  BY <1>4, <1>5 DEF Settled, userVars
<1>7. (outcome # "done" \/ doing[th].on \notin skips) => Keeps
  BY <1>2, <1>4 DEF CallsIs
<1>8. doing[th] \in Doings /\ doing \in [Threads -> Doings \cup {None}]
  BY <1>1, <1>2, DoingIs DEF PortInv, At, Counted, CountTypes
<1>9. outcome # "failed" => doing' = [doing EXCEPT ![th] = None]
  BY <1>2 DEF CallsIs, TakenOn, Queued, Left, Becomes
<1>10. outcome = "failed" => doing' = [doing EXCEPT ![th].step = "undo"]
  BY <1>2 DEF CallsIs, Undue
<1> PICK r : r = Stepped(doing[th], "undo")
  OBVIOUS
<1>11. /\ r # None /\ r.step = "undo" /\ r.type = doing[th].type
       /\ r.on = doing[th].on /\ r.ctx = doing[th].ctx
  BY <1>8, SteppedIs
<1>12. outcome = "failed" => doing' = [doing EXCEPT ![th] = r]
  BY <1>10 DEF Stepped
<1>13. /\ \A x \in Threads \ {th} : doing'[x] = doing[x]
       /\ outcome = "failed" => doing'[th] = r
       /\ outcome # "failed" => doing'[th] = None
  BY <1>8, <1>9, <1>12
<1>14. QED
  BY <1>2, <1>3, <1>4, <1>6, <1>7, <1>11, <1>13

LEMMA UndoSettles ==
  ASSUME NetState, NEW th \in Threads, Undo(th), UNCHANGED deliveryVars, UNCHANGED userVars
  PROVE  /\ Settled /\ Loses(PacketOf(doing, th)) /\ PacketOf(doing, th) \in Packets
         /\ At(th, "undo") /\ doing'[th] = None
         /\ \A x \in Threads \ {th} : doing'[x] = doing[x]
<1>1. PortInv /\ TransportTypes /\ PollTypes /\ UNCHANGED transportVars /\ UNCHANGED pollVars
  BY DEF NetState, BaseTypes, Undo
<1>2. PortInv' /\ Loses(PacketOf(doing, th)) /\ PacketOf(doing, th) \in Packets
  BY <1>1, UndoKeeps
<1>3. TransportTypes' /\ PollTypes'
  BY <1>1, TransportsKept, PollsKept
<1>4. Settled
  BY <1>2, <1>3 DEF Settled, userVars, Undo
<1>5. At(th, "undo") /\ doing' = [doing EXCEPT ![th] = None] /\ doing \in [Threads -> Doings \cup {None}]
  BY <1>1 DEF Undo, PortInv, Counted, CountTypes
<1>6. QED
  BY <1>2, <1>4, <1>5

LEMMA CreateServerKeeps ==
  ASSUME NetState, NEW u \in Users, NEW family, NEW protocol, CreateServer(u, family, protocol)
  PROVE  NetState' /\ Keeps
<1>1. /\ BaseTypes /\ TransportTypes /\ PollTypes /\ NetTypeOK /\ u \in Threads /\ Agrees(u)
      /\ Server \in Transports
  BY SocketAssumption DEF NetState, BaseTypes, Threads
<1>2. AttachTo(Server, "server") /\ UNCHANGED pollVars /\ step[u] = "out" /\ doing[u] = None
      /\ step' = [step EXCEPT ![u] = "start"] /\ doing' = doing /\ call' = call
  BY DEF CreateServer, pollVars
<1>3. TransportTypes' /\ PollTypes'
  BY <1>1, <1>2, AttachKeepsTypes, PollsKept
<1>4. Settled /\ Keeps
  BY <1>2, <1>3, QuietSettles DEF CreateServer, userVars, pollVars
<1>5. NetTypeOK'
  BY <1>1, <1>2 DEF NetTypeOK, CreateServer, clientUnchanged
<1>6. /\ doing'[u] = None /\ step'[u] = "start" /\ u \notin Pollers
      /\ \A x \in Threads \ {u} : doing'[x] = doing[x] /\ step'[x] = step[x]
  BY <1>1, <1>2, ThreadsAssumption DEF NetTypeOK
<1>7. Agrees(u)'
  BY <1>6 DEF Agrees
<1>8. QED
  BY <1>1, <1>2, <1>4, <1>5, <1>6, <1>7, AgreesElsewhere, SettledStep

LEMMA CreateClientGains ==
  ASSUME NetState, NEW u \in Users, NEW c \in Contexts, NEW family, NEW protocol,
         CreateClient(u, c, family, protocol)
  PROVE  /\ NetState' /\ Gains(<<c, Client>>) /\ <<c, Client>> \in Packets
         /\ \A d \in Contexts : request'[d] = IF d = c THEN "Other" ELSE request[d]
         /\ doing'[u] # None /\ doing'[u].on = Client /\ doing'[u].step = "issue"
         /\ \A x \in Threads \ {u} : doing'[x] = doing[x]
<1>1. /\ BaseTypes /\ PortInv /\ TransportTypes /\ PollTypes /\ NetTypeOK /\ u \in Threads
      /\ u \notin Pollers /\ Client \in Transports /\ Counted /\ ContextTypes
  BY SocketAssumption, ThreadsAssumption DEF NetState, BaseTypes, Threads
<1>2. /\ AttachTo(Client, "op") /\ UNCHANGED pollVars /\ step[u] = "out" /\ doing[u] = None
      /\ step' = step /\ call' = call /\ UNCHANGED <<busy, port, entries>>
      /\ request[c] = "None" /\ Link(c, Client, "Other") /\ Doing(u, c, Client, "Other", "issue")
  BY DEF CreateClient, pollVars, serverUnchanged
<1>3. \A x \in Threads : At(x, "link") => doing[x].ctx # c
  BY DEF NetState, Agrees, At
<1>4. PortInv' /\ Gains(<<c, Client>>) /\ <<c, Client>> \in Packets
  BY <1>1, <1>2, <1>3, LinkRequestKeeps
<1>5. TransportTypes' /\ PollTypes'
  BY <1>1, <1>2, AttachKeepsTypes, PollsKept
<1>6. Settled
  BY <1>4, <1>5 DEF Settled, CreateClient, userVars
<1>7. NetTypeOK'
  BY <1>1 DEF NetTypeOK, CreateClient, serverUnchanged
<1> DEFINE r == [ctx |-> c, on |-> Client, type |-> "Other", step |-> "issue"]
<1>8. r \in Doings /\ r.ctx = c /\ r.on = Client /\ r.type = "Other" /\ r.step = "issue"
  BY <1>1 DEF Doings
<1>9. doing' = [doing EXCEPT ![u] = r]
  BY <1>2 DEF Doing
<1> HIDE DEF r
<1>10. doing'[u] = r /\ r # None /\ \A x \in Threads \ {u} : doing'[x] = doing[x]
  BY <1>1, <1>8, <1>9, NoneAssumption DEF Counted, CountTypes
<1>11. Agrees(u)'
  BY <1>1, <1>2, <1>8, <1>10 DEF Agrees
<1>12. NetState'
  BY <1>1, <1>2, <1>6, <1>7, <1>10, <1>11, AgreesElsewhere, SettledStep
<1>13. \A d \in Contexts : request'[d] = IF d = c THEN "Other" ELSE request[d]
  BY <1>1, <1>2 DEF Link, ContextTypes
<1>14. QED
  BY <1>4, <1>8, <1>10, <1>12, <1>13

LEMMA ConnectExKeeps ==
  ASSUME NetState, NEW u \in Users, NEW outcome \in {"pending", "done", "failed"},
         ConnectEx(u, outcome)
  PROVE  /\ NetState' /\ At(u, "issue") /\ doing[u].on = Client
         /\ Keeps \/ Loses(PacketOf(doing, u))
         /\ \A x \in Threads \ {u} : doing'[x] = doing[x]
         /\ outcome = "failed" => /\ doing'[u] # None /\ doing'[u].step = "undo"
                                  /\ doing'[u].on = Client /\ doing'[u].ctx = doing[u].ctx
         /\ outcome # "failed" => doing'[u] = None
<1>1. NetTypeOK /\ u \in Threads /\ u \notin Pollers /\ Agrees(u)
  BY ThreadsAssumption DEF NetState, Threads
<1>2. /\ Calls(u, outcome) /\ UNCHANGED contextVars /\ UNCHANGED pollVars /\ UNCHANGED aborted
      /\ UNCHANGED transportVars /\ UNCHANGED deliveryVars /\ UNCHANGED userVars
      /\ step[u] = "out" /\ step' = step /\ call' = call
  BY DEF ConnectEx, serverUnchanged, pollVars
<1>3. /\ Settled /\ At(u, "issue") /\ doing[u].type = "Other"
      /\ Keeps \/ Loses(PacketOf(doing, u))
      /\ \A x \in Threads \ {u} : doing'[x] = doing[x]
      /\ outcome = "failed" =>
              /\ doing'[u] # None /\ doing'[u].step = "undo" /\ doing'[u].type = doing[u].type
              /\ doing'[u].on = doing[u].on /\ doing'[u].ctx = doing[u].ctx
      /\ outcome # "failed" => doing'[u] = None
  BY <1>1, <1>2, CallsSettle
<1>4. NetTypeOK'
  BY <1>1 DEF NetTypeOK, ConnectEx, serverUnchanged
<1>5. doing[u] # None /\ doing[u].on = Client
  BY <1>1, <1>2, <1>3 DEF Agrees, At
<1>6. Agrees(u)'
  BY <1>1, <1>2, <1>3, <1>5 DEF Agrees
<1>7. NetState'
  BY <1>1, <1>2, <1>3, <1>4, <1>6, AgreesElsewhere, SettledStep
<1>8. QED
  BY <1>3, <1>5, <1>7

LEMMA CancelRequestLoses ==
  ASSUME NetState, NEW u \in Users, CancelRequest(u)
  PROVE  /\ NetState' /\ Loses(PacketOf(doing, u)) /\ PacketOf(doing, u) \in Packets
         /\ At(u, "undo") /\ doing[u].on = Client /\ doing'[u] = None
         /\ \A x \in Threads \ {u} : doing'[x] = doing[x]
<1>1. NetTypeOK /\ u \in Threads /\ u \notin Pollers /\ Agrees(u)
  BY ThreadsAssumption DEF NetState, Threads
<1>2. /\ Undo(u) /\ UNCHANGED deliveryVars /\ UNCHANGED userVars
      /\ step[u] = "out" /\ step' = step /\ call' = call
  BY DEF CancelRequest, netVars, Undo, pollVars
<1>3. /\ Settled /\ Loses(PacketOf(doing, u)) /\ PacketOf(doing, u) \in Packets
      /\ At(u, "undo") /\ doing'[u] = None
      /\ \A x \in Threads \ {u} : doing'[x] = doing[x]
  BY <1>1, <1>2, UndoSettles
<1>4. NetTypeOK'
  BY <1>1 DEF NetTypeOK, CancelRequest, netVars
<1>5. doing[u].on = Client
  BY <1>1, <1>2, <1>3 DEF Agrees, At
<1>6. Agrees(u)'
  BY <1>1, <1>2, <1>3 DEF Agrees
<1>7. NetState'
  BY <1>1, <1>2, <1>3, <1>4, <1>6, AgreesElsewhere, SettledStep
<1>8. QED
  BY <1>3, <1>5, <1>7

LEMMA CancelConnectKeeps ==
  ASSUME NetState, CancelConnect
  PROVE  /\ NetState' /\ Keeps /\ connecting \in Contexts
         /\ request[connecting] \notin {"None", "Message"}
         /\ \A d \in Contexts : request'[d] = IF d = connecting THEN "Cancelled" ELSE request[d]
<1>1. NetTypeOK /\ PortInv /\ TransportTypes /\ PollTypes /\ Client \in Transports
  BY SocketAssumption DEF NetState, BaseTypes
<1>2. /\ Cancel(Client, connecting) /\ connecting \in Contexts
      /\ request' = [request EXCEPT ![connecting] = "Cancelled"] /\ Cancellable(connecting)
      /\ UNCHANGED pollVars /\ UNCHANGED transportVars /\ UNCHANGED deliveryVars
      /\ doing' = doing /\ step' = step /\ call' = call
      /\ given' = given /\ misreported' = misreported /\ aborted' = aborted
  BY <1>1 DEF CancelConnect, Cancel, NetTypeOK, serverUnchanged, userVars, pollVars
<1>3. PortInv' /\ Keeps
  BY <1>1, <1>2, CancelKeeps
<1>4. TransportTypes' /\ PollTypes'
  BY <1>1, <1>2, TransportsKept, PollsKept
<1>5. Settled
  BY <1>2, <1>3, <1>4 DEF Settled
<1>6. NetTypeOK'
  BY <1>1 DEF NetTypeOK, CancelConnect, serverUnchanged
<1>7. \A x \in Threads : Agrees(x)'
  BY <1>2 DEF NetState, Agrees, InServer
<1>8. NetState'
  BY <1>5, <1>6, <1>7, SettledStep
<1>9. QED
  BY <1>1, <1>2, <1>3, <1>8 DEF Cancellable, PortInv, ContextTypes

\* Only the thread's place in the server changes.
LEMMA WaitsKeeps ==
  ASSUME NetState, NEW th \in Threads, NoSocket(th) \/ (th \in Pollers /\ OnAccept(th))
  PROVE  NetState' /\ Keeps
<1>1. /\ BaseTypes /\ TransportTypes /\ PollTypes /\ NetTypeOK /\ Agrees(th)
  BY DEF NetState, BaseTypes
<1>2. /\ UNCHANGED <<portVars, deliveryVars, userVars>> /\ UNCHANGED <<pool, fatal>>
      /\ clientUnchanged
      /\ \/ step[th] = "start" /\ step' = [step EXCEPT ![th] = "failed"]
         \/ /\ th \in Pollers /\ step[th] = "out" /\ InServer(th)
            /\ step' = [step EXCEPT ![th] = "start"]
  BY DEF NoSocket, OnAccept
<1>3. /\ UNCHANGED contextVars /\ UNCHANGED <<busy, port, doing>> /\ UNCHANGED <<entries, call>>
      /\ UNCHANGED <<given, misreported>> /\ UNCHANGED aborted /\ UNCHANGED pollVars
      /\ UNCHANGED <<transportVars, deliveryVars>>
  BY <1>2 DEF portVars, pollVars, userVars
<1>4. Settled /\ Keeps
  BY <1>1, <1>3, QuietSettles, TransportsKept, PollsKept
<1>5. NetTypeOK'
  BY <1>1, <1>2 DEF NetTypeOK, clientUnchanged
<1>6. \A x \in Threads \ {th} : step'[x] = step[x]
  BY <1>1, <1>2 DEF NetTypeOK
<1>7. Agrees(th)'
  <2>1. CASE step[th] = "start" /\ step' = [step EXCEPT ![th] = "failed"]
    <3>1. step'[th] = "failed" /\ doing[th] = None
      BY <1>1, <2>1 DEF NetTypeOK, Agrees
    <3>2. QED
      BY <1>1, <1>3, <2>1, <3>1 DEF Agrees, InServer
  <2>2. CASE th \in Pollers /\ step[th] = "out" /\ InServer(th) /\ step' = [step EXCEPT ![th] = "start"]
    <3>1. step'[th] = "start" /\ doing[th] = None
      BY <1>1, <2>2, ThreadsAssumption DEF NetTypeOK, Agrees
    <3>2. QED
      BY <1>1, <1>3, <2>2, <3>1 DEF Agrees, InServer
  <2>3. QED
    BY <1>2, <2>1, <2>2
<1>8. QED
  BY <1>3, <1>4, <1>5, <1>6, <1>7, AgreesElsewhere, SettledStep

LEMMA StartRequestGains ==
  ASSUME NetState, NEW th \in Threads, NEW c \in Contexts, StartRequest(th, c)
  PROVE  /\ NetState' /\ doing[th] = None
         /\ \A x \in Threads \ {th} : doing'[x] = doing[x] /\ step'[x] = step[x]
         /\ \/ /\ Server \in attached /\ request[c] = "None"
               /\ Gains(<<c, Server>>) /\ <<c, Server>> \in Packets /\ step'[th] = "issue"
               /\ \A d \in Contexts : request'[d] = IF d = c THEN "Other" ELSE request[d]
            \/ ~(Server \in attached /\ request[c] = "None")
               /\ Keeps /\ step'[th] = "failed" /\ request' = request
<1>1. /\ BaseTypes /\ PortInv /\ TransportTypes /\ PollTypes /\ NetTypeOK /\ Agrees(th)
      /\ Server \in Transports /\ Counted /\ ContextTypes
  BY SocketAssumption DEF NetState, BaseTypes
<1>2. /\ step[th] = "start" /\ FromPool(c) /\ pool' = PoolAfter
      /\ UNCHANGED transportVars /\ UNCHANGED <<busy, port>> /\ UNCHANGED pollVars
      /\ aborted' = aborted /\ UNCHANGED deliveryVars /\ UNCHANGED userVars
      /\ given' = given /\ misreported' = misreported /\ entries' = entries /\ call' = call
      /\ fatal' = fatal /\ UNCHANGED <<connecting, told, cancelled>>
  BY DEF StartRequest, clientUnchanged, userVars, pollVars
<1>3. doing[th] = None
  BY <1>1, <1>2 DEF Agrees
<1>4. TransportTypes' /\ PollTypes'
  BY <1>1, <1>2, TransportsKept, PollsKept
<1>5. pool' \in Seq(Contexts)
  BY <1>1, <1>2 DEF NetTypeOK, PoolAfter, Front
<1>6. CASE Server \in attached /\ request[c] = "None"
  <2>1. /\ Link(c, Server, "Other") /\ Doing(th, c, Server, "Other", "issue")
        /\ step' = [step EXCEPT ![th] = "issue"]
    BY <1>6 DEF StartRequest
  <2>2. \A x \in Threads : At(x, "link") => doing[x].ctx # c
    BY DEF NetState, Agrees, At
  <2>3. PortInv' /\ Gains(<<c, Server>>) /\ <<c, Server>> \in Packets
    BY <1>1, <1>2, <1>3, <1>6, <2>1, <2>2, LinkRequestKeeps
  <2>4. Settled
    BY <1>2, <1>4, <2>3 DEF Settled
  <2>5. NetTypeOK'
    BY <1>1, <1>2, <1>5, <2>1 DEF NetTypeOK
  <2> DEFINE r == [ctx |-> c, on |-> Server, type |-> "Other", step |-> "issue"]
  <2>6. r \in Doings /\ r.ctx = c /\ r.on = Server /\ r.type = "Other" /\ r.step = "issue"
    BY <1>1 DEF Doings
  <2>7. doing' = [doing EXCEPT ![th] = r]
    BY <2>1 DEF Doing
  <2> HIDE DEF r
  <2>8. doing'[th] = r /\ r # None /\ \A x \in Threads \ {th} : doing'[x] = doing[x]
    BY <1>1, <2>6, <2>7, NoneAssumption DEF Counted, CountTypes
  <2>9. step'[th] = "issue" /\ \A x \in Threads \ {th} : step'[x] = step[x]
    BY <1>1, <2>1 DEF NetTypeOK
  <2>10. Agrees(th)'
    BY <1>1, <1>2, <2>6, <2>8, <2>9 DEF Agrees, InServer
  <2>11. NetState'
    BY <1>2, <2>4, <2>5, <2>8, <2>9, <2>10, AgreesElsewhere, SettledStep
  <2>12. \A d \in Contexts : request'[d] = IF d = c THEN "Other" ELSE request[d]
    BY <1>1, <2>1 DEF Link, ContextTypes
  <2>13. QED
    BY <1>3, <1>6, <2>3, <2>8, <2>9, <2>11, <2>12
<1>7. CASE ~(Server \in attached /\ request[c] = "None")
  <2>1. /\ step' = [step EXCEPT ![th] = "failed"] /\ UNCHANGED contextVars /\ doing' = doing
        /\ request' = request
    BY <1>7 DEF StartRequest, contextVars
  <2>2. Settled /\ Keeps
    BY <1>2, <1>4, <2>1, QuietSettles
  <2>3. NetTypeOK'
    BY <1>1, <1>2, <1>5, <2>1 DEF NetTypeOK
  <2>4. step'[th] = "failed" /\ \A x \in Threads \ {th} : step'[x] = step[x]
    BY <1>1, <2>1 DEF NetTypeOK
  <2>5. Agrees(th)'
    BY <1>1, <1>2, <1>3, <2>1, <2>4 DEF Agrees, InServer
  <2>6. NetState'
    BY <1>2, <2>1, <2>2, <2>3, <2>4, <2>5, AgreesElsewhere, SettledStep
  <2>7. QED
    BY <1>3, <1>7, <2>1, <2>2, <2>4, <2>6
<1>8. QED
  BY <1>6, <1>7

LEMMA AcceptExKeeps ==
  ASSUME NetState, NEW th \in Threads, NEW outcome \in {"pending", "done", "failed"},
         AcceptEx(th, outcome)
  PROVE  /\ NetState' /\ At(th, "issue") /\ doing[th].on = Server
         /\ Keeps \/ Loses(PacketOf(doing, th))
         /\ Server \notin skips => Keeps
         /\ \A x \in Threads \ {th} : doing'[x] = doing[x] /\ step'[x] = step[x]
         /\ step'[th] = IF outcome = "failed" THEN "undo"
                        ELSE IF th \in Users THEN "out" ELSE "rest"
         /\ doing'[th] = None \/ doing'[th].on = Server
<1>1. NetTypeOK /\ Agrees(th)
  BY DEF NetState
<1>2. /\ Calls(th, outcome) /\ UNCHANGED contextVars /\ UNCHANGED pollVars /\ UNCHANGED aborted
      /\ UNCHANGED transportVars /\ UNCHANGED deliveryVars /\ UNCHANGED userVars
      /\ step[th] = "issue" /\ call' = call
      /\ step' = [step EXCEPT ![th] = IF outcome = "failed" THEN "undo"
                                      ELSE IF th \in Users THEN "out" ELSE "rest"]
      /\ UNCHANGED <<pool, fatal>> /\ clientUnchanged
  BY DEF AcceptEx, pollVars
<1>3. /\ Settled /\ At(th, "issue") /\ doing[th].type = "Other"
      /\ Keeps \/ Loses(PacketOf(doing, th))
      /\ (outcome # "done" \/ doing[th].on \notin skips) => Keeps
      /\ \A x \in Threads \ {th} : doing'[x] = doing[x]
      /\ outcome = "failed" =>
              /\ doing'[th] # None /\ doing'[th].step = "undo" /\ doing'[th].type = doing[th].type
              /\ doing'[th].on = doing[th].on /\ doing'[th].ctx = doing[th].ctx
      /\ outcome # "failed" => doing'[th] = None
  BY <1>2, CallsSettle
<1>4. doing[th].on = Server
  BY <1>1, <1>2 DEF Agrees
<1>5. /\ step'[th] = IF outcome = "failed" THEN "undo" ELSE IF th \in Users THEN "out" ELSE "rest"
      /\ \A x \in Threads \ {th} : step'[x] = step[x]
  BY <1>1, <1>2 DEF NetTypeOK
<1>6. NetTypeOK'
  BY <1>1, <1>2 DEF NetTypeOK, clientUnchanged
<1>7. Agrees(th)'
  <2>1. th \in Pollers => InServer(th)'
    BY <1>1, <1>2 DEF Agrees, InServer
  <2>2. CASE outcome = "failed"
    BY <1>3, <1>4, <1>5, <2>1, <2>2 DEF Agrees
  <2>3. CASE outcome # "failed"
    BY <1>3, <1>5, <2>1, <2>3 DEF Agrees
  <2>4. QED
    BY <2>2, <2>3
<1>8. NetState'
  BY <1>2, <1>3, <1>5, <1>6, <1>7, AgreesElsewhere, SettledStep
<1>9. QED
  BY <1>3, <1>4, <1>5, <1>8

LEMMA CancelAcceptLoses ==
  ASSUME NetState, NEW th \in Threads, CancelAccept(th)
  PROVE  /\ NetState' /\ Loses(PacketOf(doing, th)) /\ PacketOf(doing, th) \in Packets
         /\ At(th, "undo") /\ doing[th].on = Server /\ doing'[th] = None /\ step'[th] = "failed"
         /\ \A x \in Threads \ {th} : doing'[x] = doing[x] /\ step'[x] = step[x]
<1>1. NetTypeOK /\ Agrees(th)
  BY DEF NetState
<1>2. /\ Undo(th) /\ UNCHANGED deliveryVars /\ UNCHANGED userVars
      /\ step[th] = "undo" /\ step' = [step EXCEPT ![th] = "failed"] /\ call' = call
      /\ UNCHANGED <<pool, fatal>> /\ clientUnchanged
  BY DEF CancelAccept, Undo, pollVars
<1>3. /\ Settled /\ Loses(PacketOf(doing, th)) /\ PacketOf(doing, th) \in Packets
      /\ At(th, "undo") /\ doing'[th] = None
      /\ \A x \in Threads \ {th} : doing'[x] = doing[x]
  BY <1>1, <1>2, UndoSettles
<1>4. NetTypeOK'
  BY <1>1, <1>2 DEF NetTypeOK, clientUnchanged
<1>5. doing[th].on = Server
  BY <1>1, <1>2 DEF Agrees
<1>6. step'[th] = "failed" /\ \A x \in Threads \ {th} : step'[x] = step[x]
  BY <1>1, <1>2 DEF NetTypeOK
<1>7. Agrees(th)'
  BY <1>1, <1>2, <1>3, <1>6 DEF Agrees, InServer
<1>8. NetState'
  BY <1>1, <1>2, <1>3, <1>4, <1>6, <1>7, AgreesElsewhere, SettledStep
<1>9. QED
  BY <1>3, <1>5, <1>6, <1>8

\* A call of OnCompleted() ends.
LEMMA CallEnds ==
  ASSUME PollTypes, entries' = entries, NEW p, call' = [call EXCEPT ![p] = None]
  PROVE  PollTypes' /\ (p \in Pollers => call'[p] = None) /\ \A x \in Pollers \ {p} : call'[x] = call[x]
BY DEF PollTypes

LEMMA RequestFailedKeeps ==
  ASSUME NetState, NEW th \in Threads, RequestFailed(th)
  PROVE  /\ NetState' /\ Keeps /\ step'[th] = "out"
         /\ \A x \in Threads \ {th} : step'[x] = step[x]
         /\ \A x \in Pollers \ {th} : call'[x] = call[x]
         /\ th \in Pollers => call'[th] = None
<1>1. /\ BaseTypes /\ TransportTypes /\ PollTypes /\ NetTypeOK /\ Agrees(th)
      /\ Server \in Transports
  BY SocketAssumption DEF NetState, BaseTypes
<1>2. /\ step[th] = "failed" /\ step' = [step EXCEPT ![th] = "out"]
      /\ call' = IF th \in Pollers THEN [call EXCEPT ![th] = None] ELSE call
      /\ closed' = IF th \in Users THEN closed \cup {Server} ELSE closed
      /\ UNCHANGED contextVars /\ UNCHANGED <<busy, port, doing>> /\ entries' = entries
      /\ UNCHANGED <<attached, listener>> /\ UNCHANGED deliveryVars
      /\ UNCHANGED <<given, misreported>> /\ aborted' = aborted /\ fatal' = TRUE /\ pool' = pool
      /\ clientUnchanged
  BY DEF RequestFailed, userVars
<1>3. TransportTypes'
  BY <1>1, <1>2 DEF TransportTypes, ListenerTypes, deliveryVars
<1>4. /\ PollTypes' /\ \A x \in Pollers \ {th} : call'[x] = call[x]
      /\ th \in Pollers => call'[th] = None
  BY <1>1, <1>2 DEF PollTypes
<1>5. Settled /\ Keeps
  BY <1>2, <1>3, <1>4, QuietSettles
<1>6. NetTypeOK'
  BY <1>1, <1>2 DEF NetTypeOK, clientUnchanged
<1>7. step'[th] = "out" /\ \A x \in Threads \ {th} : step'[x] = step[x]
  BY <1>1, <1>2 DEF NetTypeOK
<1>8. doing[th] = None
  BY <1>1, <1>2 DEF Agrees
<1>9. Agrees(th)'
  BY <1>2, <1>7, <1>8 DEF Agrees
<1>10. QED
  BY <1>2, <1>4, <1>5, <1>6, <1>7, <1>9, AgreesElsewhere, SettledStep

LEMMA AcceptToldKeeps ==
  ASSUME NetState, NEW p \in Pollers, AcceptTold(p)
  PROVE  /\ NetState' /\ Keeps /\ step'[p] = "out"
         /\ call[p] # None /\ call[p].to = "server" /\ call[p].ctx \in Contexts
         /\ \A x \in Threads \ {p} : step'[x] = step[x]
         /\ \A x \in Pollers \ {p} : call'[x] = call[x]
         /\ call'[p] = None
<1>1. /\ BaseTypes /\ TransportTypes /\ PollTypes /\ NetTypeOK /\ p \in Threads /\ Agrees(p)
  BY DEF NetState, BaseTypes, Threads
<1>2. /\ step[p] = "rest" /\ step' = [step EXCEPT ![p] = "out"]
      /\ call' = [call EXCEPT ![p] = None] /\ pool' = Append(pool, call[p].ctx)
      /\ UNCHANGED contextVars /\ UNCHANGED <<busy, port, doing>> /\ entries' = entries
      /\ UNCHANGED transportVars /\ UNCHANGED deliveryVars
      /\ UNCHANGED <<given, misreported>> /\ aborted' = aborted /\ fatal' = fatal
      /\ clientUnchanged
  BY DEF AcceptTold, userVars
<1>3. TransportTypes'
  BY <1>1, <1>2, TransportsKept
<1>4. PollTypes' /\ call'[p] = None /\ \A x \in Pollers \ {p} : call'[x] = call[x]
  BY <1>1, <1>2, CallEnds
<1>5. Settled /\ Keeps
  BY <1>2, <1>3, <1>4, QuietSettles
<1>6. call[p] # None /\ call[p].to = "server" /\ call[p] \in Notices
  BY <1>1, <1>2 DEF Agrees, InServer, PollTypes
<1>7. call[p].ctx \in Contexts
  BY <1>6 DEF Notices
<1>8. NetTypeOK'
  BY <1>1, <1>2, <1>7 DEF NetTypeOK, clientUnchanged
<1>9. step'[p] = "out" /\ \A x \in Threads \ {p} : step'[x] = step[x]
  BY <1>1, <1>2 DEF NetTypeOK
<1>10. doing[p] = None
  BY <1>1, <1>2 DEF Agrees
<1>11. Agrees(p)'
  BY <1>2, <1>9, <1>10 DEF Agrees
<1>12. QED
  BY <1>1, <1>2, <1>4, <1>5, <1>6, <1>7, <1>8, <1>9, <1>11, AgreesElsewhere, SettledStep

LEMMA OnConnectedKeeps ==
  ASSUME NetState, NEW p \in Pollers, OnConnected(p)
  PROVE  /\ NetState' /\ Keeps
         /\ \A x \in Pollers \ {p} : call'[x] = call[x]
         /\ call'[p] = None
<1>1. /\ BaseTypes /\ TransportTypes /\ PollTypes /\ NetTypeOK /\ p \in Threads /\ Agrees(p)
      /\ Client \in Transports
  BY SocketAssumption DEF NetState, BaseTypes, Threads
<1>2. /\ call[p] # None /\ call[p].to = "op" /\ call' = [call EXCEPT ![p] = None]
      /\ told' = Append(told, "OnConnectFailed") \/ told' = Append(told, "OnConnect")
      /\ UNCHANGED listener \/ listener' = [listener EXCEPT ![Client] = "user"]
      /\ UNCHANGED contextVars /\ UNCHANGED <<busy, port, doing>> /\ entries' = entries
      /\ UNCHANGED <<closed, attached>> /\ UNCHANGED deliveryVars
      /\ UNCHANGED <<given, misreported>> /\ aborted' = aborted
      /\ UNCHANGED <<connecting, cancelled>> /\ UNCHANGED <<pool, step, fatal>>
  BY DEF OnConnected, userVars, serverUnchanged
<1>3. TransportTypes'
  BY <1>1, <1>2, NoneAssumption DEF TransportTypes, ListenerTypes, deliveryVars
<1>4. PollTypes' /\ call'[p] = None /\ \A x \in Pollers \ {p} : call'[x] = call[x]
  BY <1>1, <1>2, CallEnds
<1>5. Settled /\ Keeps
  BY <1>2, <1>3, <1>4, QuietSettles
<1>6. NetTypeOK'
  <2> DEFINE Words == {"error", "OnConnect", "OnConnectFailed"}
  <2>1. told \in Seq(Words) /\ "OnConnect" \in Words /\ "OnConnectFailed" \in Words
    BY <1>1 DEF NetTypeOK
  <2> HIDE DEF Words
  <2>2. told' \in Seq(Words)
    BY <1>2, <2>1
  <2>3. told' \in Seq({"error", "OnConnect", "OnConnectFailed"})
    BY <2>2 DEF Words
  <2>4. QED
    BY <1>1, <1>2, <2>3 DEF NetTypeOK
<1>7. step[p] = "out"
  BY <1>1, <1>2 DEF Agrees, InServer
<1>8. Agrees(p)'
  BY <1>1, <1>2, <1>7 DEF Agrees
<1>9. QED
  BY <1>1, <1>2, <1>4, <1>5, <1>6, <1>8, AgreesElsewhere, SettledStep

\* Closing the server, in its two steps, and immediate delivery.
LEMMA SetsUpKeeps ==
  ASSUME NetState,
         \/ \E th \in Threads : CloseServer(th)
         \/ ClearListener(Server) /\ UNCHANGED netVars
         \/ \E mode \in {"enabled", "required"} : EnableImmediateDelivery(mode) /\ UNCHANGED netVars
  PROVE  NetState' /\ Keeps
<1>1. /\ BaseTypes /\ TransportTypes /\ PollTypes /\ NetTypeOK /\ Server \in Transports
  BY SocketAssumption DEF NetState, BaseTypes
<1>2. /\ \/ CloseHandle(Server) \/ ClearListener(Server)
         \/ \E mode \in {"enabled", "required"} : EnableImmediateDelivery(mode)
      /\ UNCHANGED netVars
  BY DEF CloseServer
<1>3. /\ UNCHANGED contextVars /\ UNCHANGED <<busy, port, doing>> /\ entries' = entries
      /\ call' = call /\ UNCHANGED pollVars /\ UNCHANGED <<given, misreported>> /\ aborted' = aborted
  BY <1>2 DEF CloseHandle, ClearListener, EnableImmediateDelivery, portVars, userVars, pollVars
<1>4. TransportTypes' /\ PollTypes'
  BY <1>1, <1>2, <1>3, CloseKeepsTypes, EnableKeepsTypes, PollsKept
<1>5. Settled /\ Keeps
  BY <1>3, <1>4, QuietSettles
<1>6. NetTypeOK'
  BY <1>1, <1>2 DEF NetTypeOK, netVars
<1>7. \A x \in Threads : Agrees(x)'
  BY <1>2, <1>3 DEF NetState, Agrees, InServer, netVars
<1>8. QED
  BY <1>5, <1>6, <1>7, SettledStep

LEMMA NetPollKeeps ==
  ASSUME NetState, UNCHANGED <<deliveryVars, userVars, netVars>>,
         \/ \E p \in Pollers : PollOne(p) \/ Poll(p)
         \/ \E b \in busy : Completes(b)
  PROVE  NetState' /\ Keeps
<1>1. /\ BaseTypes /\ PortInv /\ TransportTypes /\ PollTypes /\ NetTypeOK
  BY DEF NetState, BaseTypes
<1>2. /\ UNCHANGED contextVars /\ doing' = doing /\ call' = call /\ UNCHANGED transportVars
      /\ aborted' = aborted
  BY DEF PollOne, Poll, Dequeue, Completes, pollVars
<1>3. PortInv' /\ Keeps
  BY <1>1, PollKeeps, CompletesKeeps
<1>4. PollTypes'
  <2>1. CASE \E p \in Pollers : PollOne(p) \/ Poll(p)
    BY <1>1, <2>1, PollKeepsTypes
  <2>2. CASE \E b \in busy : Completes(b)
    BY <1>1, <2>2, PollsKept DEF Completes
  <2>3. QED
    BY <2>1, <2>2
<1>5. TransportTypes'
  BY <1>1, <1>2, TransportsKept
<1>6. Settled
  BY <1>2, <1>3, <1>4, <1>5 DEF Settled, userVars
<1>7. NetTypeOK'
  BY <1>1 DEF NetTypeOK, netVars
<1>8. \A x \in Threads : Agrees(x)'
  BY <1>2 DEF NetState, Agrees, InServer, netVars
<1>9. QED
  BY <1>3, <1>6, <1>7, <1>8, SettledStep

LEMMA NetDispatchLoses ==
  ASSUME NetState, NEW p \in Pollers, NEW result \in {"done", "error"}, Dispatch(p, result),
         UNCHANGED <<deliveryVars, userVars, netVars>>, NEW x, x = FirstOf(entries, p)
  PROVE  /\ NetState' /\ x \in Packets /\ Loses(x) /\ call[p] = None
         /\ TellsMessage(p, x, result) \/ TellsRequest(p, x, result) \/ Discards(x)
         /\ \A y \in Pollers \ {p} : call'[y] = call[y]
<1>1. /\ BaseTypes /\ PortInv /\ TransportTypes /\ PollTypes /\ NetTypeOK /\ ListenerTypes
      /\ p \in Threads /\ Agrees(p)
  BY DEF NetState, BaseTypes, TransportTypes, Threads
<1>2. /\ PortInv' /\ ~aborted' /\ x \in Packets /\ Loses(x)
      /\ TellsMessage(p, x, result) \/ TellsRequest(p, x, result) \/ Discards(x)
  BY <1>1, DispatchKeeps
<1>3. ~aborted /\ call[p] = None /\ doing' = doing /\ UNCHANGED transportVars
  BY DispatchIs
<1>4. TransportTypes' /\ PollTypes'
  BY <1>1, <1>3, TransportsKept, DispatchKeepsTypes
<1>5. aborted' = aborted
  BY <1>2, <1>3, DispatchIs
<1>6. Settled
  BY <1>2, <1>4, <1>5 DEF Settled, userVars
<1>7. NetTypeOK'
  BY <1>1 DEF NetTypeOK, netVars
<1>8. \A y \in Pollers \ {p} : call'[y] = call[y]
  BY <1>1, <1>2 DEF TellsMessage, TellsRequest, Discards, PollTypes
<1>9. step' = step /\ step[p] = "out"
  BY <1>1, <1>3 DEF netVars, Agrees, InServer
<1>10. Agrees(p)'
  BY <1>1, <1>3, <1>9 DEF Agrees
<1>11. \A y \in Threads : Agrees(y)'
  BY <1>1, <1>3, <1>8, <1>9, <1>10, AgreesElsewhere
<1>12. QED
  BY <1>2, <1>3, <1>6, <1>7, <1>8, <1>11, SettledStep

LEMMA NetStep ==
  ASSUME NetState, NetNext
  PROVE  NetState'
<1>1. ASSUME NEW u \in Users, NetUsers(u) PROVE NetState'
  BY <1>1, CreateServerKeeps, CreateClientGains, ConnectExKeeps, CancelRequestLoses,
     CancelConnectKeeps DEF NetUsers
<1>2. ASSUME NEW th \in Threads, NetServer(th) PROVE NetState'
  BY <1>2, WaitsKeeps, CancelAcceptLoses, RequestFailedKeeps, SetsUpKeeps, StartRequestGains,
     AcceptExKeeps DEF NetServer
<1>3. ASSUME NEW p \in Pollers, NetPoller(p) PROVE NetState'
  BY <1>3, NetPollKeeps, NetDispatchLoses, WaitsKeeps, AcceptToldKeeps, OnConnectedKeeps
     DEF NetPoller, Threads
<1>4. ASSUME NEW b \in busy, Completes(b), UNCHANGED <<deliveryVars, userVars, netVars>>
      PROVE  NetState'
  BY <1>4, NetPollKeeps
<1>5. QED
  BY <1>1, <1>2, <1>3, <1>4, SetsUpKeeps DEF NetNext

----------------------------------------------------------------------------
(* The event loop.                                                         *)

\* Everything is about the one message.
OnlyWakeup ==
  /\ \A c \in Contexts : request[c] \in {"None", "Message"}
  /\ \A x \in Packets : Abroad(x) => x[1] = WakeupContext
  /\ \A th \in Threads : doing[th] # None => doing[th].ctx = WakeupContext
  /\ \A p \in Pollers : call[p] # None => call[p].ctx = WakeupContext

\* The loop is told of something sooner or later, or a message was missed.
Covered == missed # {} \/ InFlight(WakeupContext) > 0 \/ call[Main] # None

Wakes ==
  /\ context = None => Covered
  /\ pc = "poll" /\ (queued > 0 \/ quit) => Covered \/ \E th \in Threads : signal[th] # "out"

LoopState == BaseTypes /\ PortInv /\ ~misreported /\ LoopTypeOK /\ OnlyWakeup /\ Wakes

LoopSettled ==
  /\ PortInv' /\ TransportTypes' /\ PollTypes'
  /\ UNCHANGED given /\ aborted' \in BOOLEAN /\ UNCHANGED misreported

LEMMA LoopStateNext ==
  ASSUME LoopState, LoopSettled, LoopTypeOK', OnlyWakeup', Wakes'
  PROVE  LoopState'
<1>1. given' \in [Contexts -> Nat] /\ ~misreported' /\ misreported' \in BOOLEAN
  BY DEF LoopState, BaseTypes, LoopSettled
<1>2. BaseTypes'
  BY <1>1 DEF BaseTypes, LoopSettled, PortInv
<1>3. QED
  BY <1>1, <1>2 DEF LoopState, LoopSettled

LEMMA StaysCovered ==
  ASSUME LoopState, Counted', missed \subseteq missed', call[Main] # None => call'[Main] # None,
         Keeps \/ \E x \in Packets : Gains(x)
  PROVE  /\ Covered => Covered'
         /\ InFlight(WakeupContext) \in Nat /\ InFlight(WakeupContext)' \in Nat
<1>1. Counted /\ WakeupContext \in Contexts
  BY WakeupAssumption DEF LoopState, PortInv
<1>2. /\ InFlight(WakeupContext) \in Nat /\ InFlight(WakeupContext)' \in Nat
      /\ InFlight(WakeupContext)' >= InFlight(WakeupContext)
  <2>1. CASE Keeps
    BY <1>1, <2>1, KeepsAll
  <2>2. ASSUME NEW x \in Packets, Gains(x)
        PROVE  /\ InFlight(WakeupContext) \in Nat /\ InFlight(WakeupContext)' \in Nat
               /\ InFlight(WakeupContext)' >= InFlight(WakeupContext)
    <3>1. /\ InFlight(WakeupContext) \in Nat
          /\ InFlight(WakeupContext)' = InFlight(WakeupContext) + If(WakeupContext = x[1])
      BY <1>1, <2>2, GainsAll
    <3>2. QED
      BY <3>1 DEF If
  <2>3. QED
    BY <2>1, <2>2
<1>3. QED
  BY <1>2 DEF Covered

\* Steps of the loop and of Signal() that leave the port alone.
LEMMA PortRests ==
  ASSUME LoopState, UNCHANGED portVars, UNCHANGED <<deliveryVars, userVars>>
  PROVE  /\ LoopSettled /\ OnlyWakeup' /\ aborted' = aborted /\ call' = call
         /\ missed \subseteq missed' => (Covered => Covered')
         /\ InFlight(WakeupContext) \in Nat
         /\ InFlight(WakeupContext)' = InFlight(WakeupContext)
<1>1. BaseTypes /\ PortInv /\ Counted /\ TransportTypes /\ PollTypes /\ WakeupContext \in Contexts
  BY WakeupAssumption DEF LoopState, BaseTypes
<1>2. /\ UNCHANGED <<contextVars, busy, port, entries, doing>> /\ UNCHANGED pollVars
      /\ UNCHANGED <<transportVars, deliveryVars>> /\ call' = call /\ aborted' = aborted
      /\ request' = request /\ doing' = doing /\ UNCHANGED <<given, misreported>>
  BY DEF portVars, pollVars, contextVars, userVars
<1>3. PortInv' /\ Keeps /\ TransportTypes' /\ PollTypes'
  BY <1>1, <1>2, QuietKeeps, TransportsKept, PollsKept
<1>4. LoopSettled
  BY <1>1, <1>2, <1>3 DEF LoopSettled, BaseTypes
<1>5. Counted' /\ \A x : Abroad(x)' <=> Abroad(x)
  BY <1>1, <1>3, KeepsAll DEF PortInv
<1>6. OnlyWakeup'
  BY <1>2, <1>5 DEF LoopState, OnlyWakeup
<1>7. missed \subseteq missed' => (Covered => Covered')
  BY <1>2, <1>3, <1>5, StaysCovered
<1>8. /\ InFlight(WakeupContext) \in Nat
      /\ InFlight(WakeupContext)' = InFlight(WakeupContext)
  BY <1>1, <1>3, <1>5, KeepsAll
<1>9. QED
  BY <1>2, <1>4, <1>6, <1>7, <1>8

LEMMA LoopRests ==
  ASSUME LoopState, UNCHANGED <<deliveryVars, userVars>>,
         \/ \E th \in Threads : PostTask(th) \/ PostQuit(th) \/ SignalChecks(th) \/ SignalClears(th)
         \/ CheckQuit \/ TaskReturns \/ Shutdown
  PROVE  LoopState'
<1>1. LoopTypeOK /\ Wakes /\ Main \in Threads /\ WakeupContext # None
  BY MainAssumption, WakeupAssumption, NoneAssumption DEF LoopState, Threads
<1>2. UNCHANGED portVars
  BY DEF PostTask, PostQuit, SignalChecks, SignalClears, CheckQuit, TaskReturns, Shutdown
<1>3. /\ LoopSettled /\ OnlyWakeup' /\ call' = call
      /\ missed \subseteq missed' => (Covered => Covered')
      /\ InFlight(WakeupContext) \in Nat /\ InFlight(WakeupContext)' = InFlight(WakeupContext)
  BY <1>2, PortRests
<1>4. ASSUME NEW th \in Threads, PostTask(th) \/ PostQuit(th) PROVE LoopTypeOK' /\ Wakes'
  <2>1. /\ UNCHANGED <<context, missed, pc>> /\ signal' = [signal EXCEPT ![th] = "check"]
        /\ \/ posted < TaskLimit /\ posted' = posted + 1 /\ queued' = queued + 1 /\ quit' = quit
           \/ UNCHANGED <<posted, queued>> /\ quit' = TRUE
    BY <1>4 DEF PostTask, PostQuit, FirstNotice
  <2>2. LoopTypeOK'
    <3>1. queued \in Nat /\ posted \in Nat /\ queued <= posted /\ posted <= TaskLimit
      BY <1>1, LimitAssumption DEF LoopTypeOK
    <3>2. queued' \in 0 .. TaskLimit /\ posted' \in queued' .. TaskLimit
      BY <2>1, <3>1, LimitAssumption
    <3>3. /\ context' \in {None, WakeupContext} /\ quit' \in BOOLEAN
          /\ missed' \subseteq {"cleared", "unsent"}
      BY <1>1, <2>1 DEF LoopTypeOK
    <3>4. /\ signal' \in [Threads -> {"out", "check", "post", "posting", "clear"}]
          /\ pc' \in {"check", "run", "poll", "out", "shut"}
      BY <1>1, <2>1 DEF LoopTypeOK
    <3>5. QED
      BY <3>2, <3>3, <3>4 DEF LoopTypeOK
  <2>3. signal'[th] # "out" /\ (Covered => Covered')
    BY <1>1, <1>3, <2>1 DEF LoopTypeOK
  <2>4. QED
    BY <1>1, <2>1, <2>2, <2>3 DEF Wakes
<1>5. ASSUME NEW th \in Threads, SignalChecks(th) PROVE LoopTypeOK' /\ Wakes'
  <2>1. /\ UNCHANGED <<context, missed, pc, posted, queued, quit>>
        /\ signal' = [signal EXCEPT ![th] = IF context = None THEN "out" ELSE "post"]
    BY <1>5 DEF SignalChecks
  <2>2. LoopTypeOK'
    BY <1>1, <2>1 DEF LoopTypeOK
  <2>3. Covered => Covered'
    BY <1>3, <2>1
  <2>4. context # None => signal'[th] # "out"
    BY <1>1, <2>1 DEF LoopTypeOK
  <2>5. QED
    BY <1>1, <2>1, <2>2, <2>3, <2>4 DEF Wakes
<1>6. ASSUME NEW th \in Threads, SignalClears(th) PROVE LoopTypeOK' /\ Wakes'
  <2>1. /\ UNCHANGED <<pc, posted, queued, quit>> /\ context' = None
        /\ missed' = IF InFlight(WakeupContext) = 0 THEN missed \cup {"cleared"} ELSE missed
        /\ signal' = [signal EXCEPT ![th] = "out"]
    BY <1>6 DEF SignalClears
  <2>2. LoopTypeOK'
    BY <1>1, <2>1 DEF LoopTypeOK
  <2>3. Covered'
    BY <1>3, <2>1 DEF Covered
  <2>4. QED
    BY <2>2, <2>3 DEF Wakes
<1>7. ASSUME CheckQuit PROVE LoopTypeOK' /\ Wakes'
  <2>1. /\ UNCHANGED <<context, missed, signal, posted, quit>>
        /\ pc' = IF quit THEN "out" ELSE IF queued > 0 THEN "run" ELSE "poll"
        /\ queued' = IF ~quit /\ queued > 0 THEN queued - 1 ELSE queued
    BY <1>7 DEF CheckQuit
  <2>2. LoopTypeOK'
    <3>1. queued \in Nat /\ posted \in Nat /\ queued <= posted /\ posted <= TaskLimit
      BY <1>1, LimitAssumption DEF LoopTypeOK
    <3>2. queued' \in 0 .. TaskLimit /\ posted' \in queued' .. TaskLimit
      BY <2>1, <3>1, LimitAssumption
    <3>3. /\ context' \in {None, WakeupContext} /\ quit' \in BOOLEAN
          /\ missed' \subseteq {"cleared", "unsent"}
      BY <1>1, <2>1 DEF LoopTypeOK
    <3>4. /\ signal' \in [Threads -> {"out", "check", "post", "posting", "clear"}]
          /\ pc' \in {"check", "run", "poll", "out", "shut"}
      BY <1>1, <2>1 DEF LoopTypeOK
    <3>5. QED
      BY <3>2, <3>3, <3>4 DEF LoopTypeOK
  <2>3. Covered => Covered'
    BY <1>3, <2>1
  <2>4. pc' = "poll" => ~(queued' > 0 \/ quit')
    BY <1>1, <2>1, LimitAssumption DEF LoopTypeOK
  <2>5. QED
    BY <1>1, <2>1, <2>2, <2>3, <2>4 DEF Wakes
<1>8. ASSUME TaskReturns \/ Shutdown PROVE LoopTypeOK' /\ Wakes'
  <2>1. UNCHANGED <<context, missed, signal, posted, queued, quit>> /\ pc' \in {"check", "shut"}
    BY <1>8 DEF TaskReturns, Shutdown
  <2>2. LoopTypeOK'
    BY <1>1, <2>1 DEF LoopTypeOK
  <2>3. Covered => Covered'
    BY <1>3, <2>1
  <2>4. QED
    BY <1>1, <2>1, <2>2, <2>3 DEF Wakes
<1>9. QED
  BY <1>3, <1>4, <1>5, <1>6, <1>7, <1>8, LoopStateNext

\* What there is to show of a step of the port.
LEMMA LoopPortStep ==
  ASSUME LoopState, PortInv', PollTypes', UNCHANGED <<transportVars, deliveryVars, userVars>>,
         aborted' \in BOOLEAN, LoopTypeOK', OnlyWakeup', Wakes'
  PROVE  LoopState'
<1>1. TransportTypes' /\ UNCHANGED given /\ UNCHANGED misreported
  BY TransportsKept DEF LoopState, BaseTypes, userVars
<1>2. LoopSettled
  BY <1>1 DEF LoopSettled
<1>3. QED
  BY <1>2, LoopStateNext

LEMMA SignalPostsKeeps ==
  ASSUME LoopState, UNCHANGED <<deliveryVars, userVars>>, NEW th \in Threads, SignalPosts(th)
  PROVE  LoopState'
<1>1. /\ BaseTypes /\ PortInv /\ PollTypes /\ Counted /\ LoopTypeOK /\ Wakes /\ OnlyWakeup
      /\ Wakeup \in Listeners /\ WakeupContext \in Contexts
  BY WakeupAssumption DEF LoopState, BaseTypes
<1>2. /\ UNCHANGED <<context, queued, posted, quit, pc, missed>>
      /\ signal' = [signal EXCEPT ![th] = "posting"]
  BY DEF SignalPosts
<1>3. LoopTypeOK'
  BY <1>1, <1>2 DEF LoopTypeOK
<1>4. /\ PortInv' /\ Keeps /\ UNCHANGED contextVars /\ UNCHANGED transportVars /\ UNCHANGED pollVars
      /\ aborted' \in BOOLEAN /\ \A x \in Threads : doing'[x] # None => doing'[x].ctx = WakeupContext
  <2>1. CASE context = None
    <3>1. /\ aborted' = TRUE /\ UNCHANGED contextVars /\ UNCHANGED <<busy, port, doing>>
          /\ UNCHANGED transportVars /\ UNCHANGED pollVars /\ entries' = entries
      BY <2>1 DEF SignalPosts, pollVars
    <3>2. PortInv' /\ Keeps
      BY <1>1, <3>1, QuietKeeps
    <3>3. QED
      BY <1>1, <3>1, <3>2 DEF OnlyWakeup
  <2>2. CASE context # None
    <3>1. context = WakeupContext /\ Post(th, WakeupContext, Wakeup)
      BY <1>1, <2>2 DEF SignalPosts, LoopTypeOK
    <3>2. PortInv' /\ Keeps
      BY <1>1, <3>1, PostKeeps
    <3>3. /\ UNCHANGED contextVars /\ UNCHANGED transportVars /\ UNCHANGED pollVars
          /\ aborted' = aborted /\ aborted \in BOOLEAN
      BY <1>1, <3>1 DEF Post, BaseTypes
    <3> DEFINE r == [ctx |-> WakeupContext, on |-> Wakeup, type |-> "Message", step |-> "link"]
    <3>4. doing' = [doing EXCEPT ![th] = r] /\ r.ctx = WakeupContext
      BY <3>1 DEF Post, Doing
    <3> HIDE DEF r
    <3>5. \A x \in Threads : doing'[x] = IF x = th THEN r ELSE doing[x]
      BY <1>1, <3>4 DEF Counted, CountTypes
    <3>6. QED
      BY <1>1, <3>2, <3>3, <3>4, <3>5 DEF OnlyWakeup
  <2>3. QED
    BY <2>1, <2>2
<1>5. Counted' /\ \A x : Abroad(x)' <=> Abroad(x)
  BY <1>1, <1>4, KeepsAll DEF PortInv
<1>6. request' = request /\ call' = call /\ PollTypes'
  BY <1>1, <1>4, PollsKept DEF contextVars, pollVars
<1>7. OnlyWakeup'
  BY <1>1, <1>4, <1>5, <1>6 DEF OnlyWakeup
<1>8. Covered => Covered'
  BY <1>2, <1>4, <1>5, <1>6, StaysCovered
<1>9. signal'[th] # "out"
  BY <1>1, <1>2 DEF LoopTypeOK
<1>10. Wakes'
  BY <1>1, <1>2, <1>8, <1>9 DEF Wakes
<1>11. QED
  BY <1>3, <1>4, <1>6, <1>7, <1>10, LoopPortStep

LEMMA SignalPostedKeeps ==
  ASSUME LoopState, UNCHANGED <<deliveryVars, userVars>>, NEW th \in Threads, SignalPosted(th)
  PROVE  LoopState'
<1>1. /\ BaseTypes /\ PortInv /\ PollTypes /\ Counted /\ LoopTypeOK /\ Wakes /\ OnlyWakeup
      /\ WakeupContext \in Contexts /\ aborted \in BOOLEAN /\ ContextTypes
  BY WakeupAssumption DEF LoopState, BaseTypes
<1>2. /\ UNCHANGED <<context, queued, posted, quit, pc>> /\ signal[th] = "posting"
      /\ LinkMessage(th) \/ SendFails(th) \/ Send(th) \/ Undo(th)
  BY DEF SignalPosted
<1>3. /\ UNCHANGED transportVars /\ UNCHANGED pollVars /\ aborted' = aborted
      /\ UNCHANGED <<busy, entries, call>> /\ doing[th] # None
  BY <1>2 DEF LinkMessage, SendFails, Send, Undo, At, pollVars
<1>4. /\ doing[th] \in Doings /\ doing[th].ctx = WakeupContext /\ PacketOf(doing, th) \in Packets
      /\ PacketOf(doing, th)[1] = doing[th].ctx /\ doing \in [Threads -> Doings \cup {None}]
  BY <1>1, <1>3, DoingIs DEF OnlyWakeup, Counted, CountTypes
<1>5. PollTypes'
  BY <1>1, <1>3, PollsKept
<1>6. \A x \in Threads : doing'[x] # None => doing'[x].ctx = WakeupContext
  <2> PICK r : r = Stepped(doing[th], IF LinkMessage(th) THEN "send" ELSE "undo")
    OBVIOUS
  <2>1. r.ctx = WakeupContext
    BY <1>4, SteppedIs
  <2>2. doing' = [doing EXCEPT ![th] = r] \/ doing' = [doing EXCEPT ![th] = None]
    BY <1>2 DEF LinkMessage, SendFails, Send, Undo, Stepped
  <2>3. \A x \in Threads \ {th} : doing'[x] = doing[x]
    BY <1>4, <2>2
  <2>4. doing'[th] \in {r, None}
    BY <1>4, <2>2
  <2>5. QED
    BY <1>1, <2>1, <2>3, <2>4 DEF OnlyWakeup
<1>7. ASSUME LinkMessage(th), UNCHANGED <<signal, missed>> PROVE LoopState'
  <2>1. PortInv' /\ Gains(PacketOf(doing, th))
    BY <1>1, <1>7, LinkMessageKeeps
  <2>2. Counted' /\ \A y : Abroad(y)' => Abroad(y) \/ y = PacketOf(doing, th)
    BY <1>1, <1>4, <2>1, GainsAll DEF PortInv
  <2>3. \A d \in Contexts : request'[d] \in {"None", "Message"}
    BY <1>1, <1>7 DEF LinkMessage, Link, ContextTypes, OnlyWakeup
  <2>4. OnlyWakeup'
    BY <1>1, <1>3, <1>4, <1>6, <2>2, <2>3 DEF OnlyWakeup
  <2>5. Covered => Covered'
    BY <1>3, <1>4, <1>7, <2>1, <2>2, StaysCovered
  <2>6. Wakes' /\ LoopTypeOK'
    BY <1>1, <1>2, <1>7, <2>5 DEF Wakes, LoopTypeOK
  <2>7. QED
    BY <1>1, <1>3, <1>5, <2>1, <2>4, <2>6, LoopPortStep
<1>8. ASSUME SendFails(th) \/ Send(th), UNCHANGED missed,
             UNCHANGED signal \/ signal' = [signal EXCEPT ![th] = "clear"]
      PROVE  LoopState'
  <2>1. UNCHANGED contextVars /\ request' = request
    BY <1>8 DEF SendFails, Send, contextVars
  <2>2. PortInv' /\ Keeps
    <3>1. CASE SendFails(th)
      <4>1. UNCHANGED port /\ Carries(doing, th) /\ doing' = [doing EXCEPT ![th].step = "undo"]
        BY <3>1 DEF SendFails, At, Carries, Sent
      <4>2. QED
        BY <1>1, <1>3, <2>1, <4>1, UndueKeeps
    <3>2. CASE Send(th)
      <4>1. /\ Carries(doing, th) /\ Comes(port, PacketOf(doing, th), port')
            /\ Becomes(doing, th, None, doing')
        BY <3>2 DEF Send, At, Carries, Sent, Comes, PacketOf, PacketIn, Becomes
      <4>2. QED
        BY <1>1, <1>3, <2>1, <4>1, QueuedKeeps
    <3>3. QED
      BY <1>8, <3>1, <3>2
  <2>3. Counted' /\ \A y : Abroad(y)' <=> Abroad(y)
    BY <1>1, <2>2, KeepsAll DEF PortInv
  <2>4. OnlyWakeup'
    BY <1>1, <1>3, <1>6, <2>1, <2>3 DEF OnlyWakeup
  <2>5. Covered => Covered'
    BY <1>3, <1>8, <2>2, <2>3, StaysCovered
  <2>6. LoopTypeOK' /\ signal'[th] # "out"
    BY <1>1, <1>2, <1>8 DEF LoopTypeOK
  <2>7. Wakes'
    BY <1>1, <1>2, <1>8, <2>5, <2>6 DEF Wakes
  <2>8. QED
    BY <1>1, <1>3, <1>5, <2>2, <2>4, <2>6, <2>7, LoopPortStep
<1>9. ASSUME Undo(th), signal' = [signal EXCEPT ![th] = "out"], missed' = missed \cup {"unsent"}
      PROVE  LoopState'
  <2>1. PortInv' /\ Loses(PacketOf(doing, th))
    BY <1>1, <1>9, UndoKeeps
  <2>2. Counted' /\ \A y : Abroad(y)' => Abroad(y)
    BY <1>1, <1>4, <2>1, LosesAll DEF PortInv
  <2>3. \A d \in Contexts : request'[d] \in {"None", "Message"}
    BY <1>1, <1>9 DEF Undo, Unlink, Take, ContextTypes, OnlyWakeup
  <2>4. OnlyWakeup'
    BY <1>1, <1>3, <1>6, <2>2, <2>3 DEF OnlyWakeup
  <2>5. Covered'
    BY <1>9 DEF Covered
  <2>6. Wakes' /\ LoopTypeOK'
    BY <1>1, <1>2, <1>9, <2>5 DEF Wakes, LoopTypeOK
  <2>7. QED
    BY <1>1, <1>3, <1>5, <2>1, <2>4, <2>6, LoopPortStep
<1>10. QED
  BY <1>7, <1>8, <1>9 DEF SignalPosted

LEMMA LoopPollsKeeps ==
  ASSUME LoopState, UNCHANGED <<deliveryVars, userVars>>, LoopPolls \/ OnWakeup
  PROVE  LoopState'
<1>1. /\ BaseTypes /\ PortInv /\ PollTypes /\ Counted /\ LoopTypeOK /\ Wakes /\ OnlyWakeup
      /\ WakeupContext \in Contexts /\ aborted \in BOOLEAN /\ ContextTypes /\ Main \in Pollers
      /\ ListenerTypes
  BY WakeupAssumption, MainAssumption DEF LoopState, BaseTypes, TransportTypes
<1>2. ASSUME PollOne(Main), UNCHANGED loopVars PROVE LoopState'
  <2>1. /\ UNCHANGED transportVars /\ request' = request /\ doing' = doing /\ call' = call
        /\ aborted' = aborted
    BY <1>2 DEF PollOne, Dequeue, contextVars
  <2>2. PortInv' /\ Keeps /\ PollTypes'
    BY <1>1, <1>2, PollKeeps, PollKeepsTypes
  <2>3. Counted' /\ \A y : Abroad(y)' <=> Abroad(y)
    BY <1>1, <2>2, KeepsAll DEF PortInv
  <2>4. OnlyWakeup'
    BY <1>1, <2>1, <2>3 DEF OnlyWakeup
  <2>5. Covered => Covered'
    BY <1>2, <2>1, <2>2, <2>3, StaysCovered DEF loopVars
  <2>6. Wakes' /\ LoopTypeOK'
    BY <1>1, <1>2, <2>5 DEF Wakes, LoopTypeOK, loopVars
  <2>7. QED
    BY <1>1, <2>1, <2>2, <2>4, <2>6, LoopPortStep
<1>3. ASSUME Dispatch(Main, "done"), UNCHANGED loopVars PROVE LoopState'
  <2> PICK x : x = FirstOf(entries, Main)
    OBVIOUS
  <2>1. /\ PortInv' /\ ~aborted' /\ x \in Packets /\ Loses(x)
        /\ TellsMessage(Main, x, "done") \/ TellsRequest(Main, x, "done") \/ Discards(x)
    BY <1>1, <1>3, DispatchKeeps
  <2>2. UNCHANGED transportVars /\ doing' = doing /\ aborted' \in BOOLEAN
    BY <1>1, <1>3, DispatchIs
  <2>3. Counted' /\ Abroad(x) /\ \A y : Abroad(y)' => Abroad(y)
    BY <1>1, <2>1, LosesAll DEF PortInv
  <2>4. x[1] \in Contexts /\ x[1] = WakeupContext
    BY <1>1, <2>1, <2>3 DEF OnlyWakeup, Packets
  <2>5. TellsMessage(Main, x, "done")
    BY <1>1, <2>1, <2>4 DEF OnlyWakeup, TellsRequest, Discards, Cancellable
  <2>6. PollTypes'
    BY <1>1, <1>3, DispatchKeepsTypes
  <2> PICK n : n = Notice(x[2], x, "done")
    OBVIOUS
  <2>7. n # None /\ n.ctx = x[1] /\ call' = [call EXCEPT ![Main] = n] /\ x[2] \in Listeners
    BY <1>1, <2>1, <2>5, NoticeIs DEF TellsMessage
  <2>8. \A p \in Pollers : call'[p] = IF p = Main THEN n ELSE call[p]
    BY <1>1, <2>7 DEF PollTypes
  <2>9. \A d \in Contexts : request'[d] \in {"None", "Message"}
    BY <1>1, <2>5 DEF TellsMessage, Take, ContextTypes, OnlyWakeup
  <2>10. OnlyWakeup'
    BY <1>1, <2>2, <2>3, <2>4, <2>7, <2>8, <2>9 DEF OnlyWakeup
  <2>11. Covered'
    BY <1>1, <2>7, <2>8 DEF Covered
  <2>12. Wakes' /\ LoopTypeOK'
    BY <1>1, <1>3, <2>11 DEF Wakes, LoopTypeOK, loopVars
  <2>13. QED
    BY <2>1, <2>2, <2>6, <2>10, <2>12, LoopPortStep
<1>4. ASSUME OnWakeup PROVE LoopState'
  <2>1. /\ context' = call[Main].ctx /\ call[Main] # None /\ call' = [call EXCEPT ![Main] = None]
        /\ pc' = "check" /\ UNCHANGED contextVars /\ UNCHANGED transportVars
        /\ UNCHANGED <<busy, port, entries, doing>> /\ aborted' = aborted
        /\ UNCHANGED <<signal, queued, posted, quit, missed>> /\ request' = request
    BY <1>4 DEF OnWakeup, contextVars
  <2>2. PortInv' /\ Keeps
    BY <1>1, <2>1, QuietKeeps
  <2>3. Counted' /\ \A y : Abroad(y)' <=> Abroad(y)
    BY <1>1, <2>2, KeepsAll DEF PortInv
  <2>4. PollTypes' /\ call'[Main] = None /\ \A p \in Pollers \ {Main} : call'[p] = call[p]
    BY <1>1, <2>1, CallEnds
  <2>5. OnlyWakeup'
    BY <1>1, <2>1, <2>3, <2>4 DEF OnlyWakeup
  <2>6. context' = WakeupContext
    BY <1>1, <2>1 DEF OnlyWakeup
  <2>7. LoopTypeOK'
    BY <1>1, <2>1, <2>6 DEF LoopTypeOK
  <2>8. Wakes'
    BY <1>1, <2>1, <2>6, NoneAssumption DEF Wakes
  <2>9. QED
    BY <1>1, <2>1, <2>2, <2>4, <2>5, <2>7, <2>8, LoopPortStep
<1>5. QED
  BY <1>2, <1>3, <1>4 DEF LoopPolls

LEMMA LoopStep ==
  ASSUME LoopState, LoopNext, UNCHANGED <<deliveryVars, userVars>>
  PROVE  LoopState'
BY LoopRests, SignalPostsKeeps, SignalPostedKeeps, LoopPollsKeeps DEF LoopNext

----------------------------------------------------------------------------
(* The invariant, of whichever program runs.                               *)

WindowsInv ==
  /\ program \in Programs /\ BaseTypes /\ NetTypeOK /\ LoopTypeOK
  /\ program \in UserTransports => UsersState
  /\ program = "networking" => NetState
  /\ program = "event loop" => LoopState

LEMMA NothingOutstanding ==
  ASSUME PortInit, NEW S
  PROVE  Outstanding(S) = 0
<1>1. busy = {} /\ port = <<>> /\ doing = [th \in Threads |-> None] /\ entries = [p \in Pollers |-> <<>>]
  BY DEF PortInit
<1>2. busy \cap S = {} /\ Where(port, S) = {}
  BY <1>1 DEF Where
<1>3. Carriers(doing, S) = {}
  BY <1>1 DEF Carriers, Carries, Sent
<1>4. Dequeued(entries, S) = {}
  BY <1>1 DEF Dequeued, DequeuedBy, Where
<1>5. Total(busy, port, entries, doing, S) = 0
  BY <1>2, <1>3, <1>4, FS_EmptySet DEF Total
<1>6. QED
  BY <1>5, OutstandingIsTotal

LEMMA InitSound ==
  ASSUME Init
  PROVE  WindowsInv
<1>1. PortInit /\ TransportInit /\ NetInit /\ LoopInit /\ program \in Programs
  BY DEF Init
<1>2. ContextTypes /\ \A c \in Contexts : request[c] = "None" /\ refs[c] = 0
  BY <1>1 DEF PortInit, ContextTypes
<1>3. Counted
  <2>1. busy = {} /\ port = <<>> /\ doing = [th \in Threads |-> None] /\ entries = [p \in Pollers |-> <<>>]
    BY <1>1 DEF PortInit
  <2>2. QED
    BY <2>1, FS_EmptySet DEF Counted, CountTypes
<1>4. /\ \A c \in Contexts : InFlight(c) = 0
      /\ \A t \in Transports : InFlightOn(t) = 0
      /\ \A x : ~Abroad(x)
  BY <1>1, NothingOutstanding DEF InFlight, InFlightOn, Abroad
<1>5. /\ \A th \in Threads : doing[th] = None
      /\ \A p \in Pollers : call[p] = None
      /\ \A t \in Transports : held[t] = 0
  BY <1>1 DEF PortInit
<1>6. PortInv
  BY <1>2, <1>3, <1>4, <1>5 DEF PortInv, SoundContext, ThreadsFit
<1>7. TransportTypes
  BY <1>1 DEF PortInit, TransportInit, TransportTypes, ListenerTypes
<1>8. PollTypes
  <2>1. entries = [p \in Pollers |-> <<>>] /\ call = [p \in Pollers |-> None]
    BY <1>1 DEF PortInit
  <2>2. \A p \in Pollers : Len(entries[p]) = 0
    BY <2>1
  <2>3. QED
    BY <2>1, <2>2, BatchAssumption DEF PollTypes
<1>9. BaseTypes /\ ~aborted /\ ~misreported
  BY <1>1, <1>2, <1>3, <1>7, <1>8 DEF BaseTypes, PortInit, TransportInit
<1>10. NetTypeOK
  <2>1. pool = <<>> /\ told = <<>> /\ step = [th \in Threads |-> "out"]
    BY <1>1 DEF NetInit
  <2>2. /\ pool \in Seq(Contexts) /\ told \in Seq({"error", "OnConnect", "OnConnectFailed"})
        /\ step \in [Threads -> {"out", "start", "issue", "undo", "failed", "rest"}]
    BY <2>1
  <2>3. QED
    BY <1>1, <2>2 DEF NetInit, NetTypeOK
<1>11. LoopTypeOK
  <2>1. queued \in 0 .. TaskLimit /\ posted \in queued .. TaskLimit
    BY <1>1, LimitAssumption DEF LoopInit
  <2>2. signal \in [Threads -> {"out", "check", "post", "posting", "clear"}]
    BY <1>1 DEF LoopInit
  <2>3. QED
    BY <1>1, <2>1, <2>2 DEF LoopInit, LoopTypeOK
<1>12. UsersInv
  <2>1. \A c \in Contexts : given[c] = 0
    BY <1>1 DEF TransportInit
  <2>2. given \in [Contexts -> Nat]
    BY <1>9 DEF BaseTypes
  <2>3. \A c \in Contexts : Linking(c) = {}
    BY <1>5 DEF Linking, At
  <2>4. ASSUME NEW c \in Contexts PROVE UserFits(c)
    <3>1. Cardinality(Linking(c)) = 0
      BY <2>3, FS_EmptySet
    <3>2. QED
      BY <1>2, <1>4, <2>1, <3>1 DEF UserFits
  <2>5. QED
    BY <2>2, <2>4 DEF UsersInv
<1>13. UsersState
  BY <1>6, <1>9, <1>12 DEF UsersState
<1>14. NetState
  <2>1. \A th \in Threads : step[th] = "out"
    BY <1>1 DEF NetInit
  <2>2. \A th \in Threads : Agrees(th)
    BY <1>5, <2>1 DEF Agrees
  <2>3. QED
    BY <1>6, <1>9, <1>10, <2>2 DEF NetState
<1>15. LoopState
  <2>1. OnlyWakeup
    BY <1>2, <1>4, <1>5 DEF OnlyWakeup
  <2>2. Wakes
    BY <1>1, WakeupAssumption, NoneAssumption DEF Wakes, LoopInit
  <2>3. QED
    BY <1>6, <1>9, <1>11, <2>1, <2>2 DEF LoopState
<1>16. QED
  BY <1>1, <1>9, <1>10, <1>11, <1>13, <1>14, <1>15 DEF WindowsInv

LEMMA ProgramsApart ==
  /\ "networking" \notin UserTransports /\ "event loop" \notin UserTransports
  /\ "networking" # "event loop"
BY UsersAssumption

LEMMA StepSound ==
  ASSUME WindowsInv, Next
  PROVE  WindowsInv'
<1>1. ~misreported /\ (RunsTransports \/ RunsNetworking \/ RunsEventLoop) /\ program \in Programs
  BY DEF Next, WindowsInv
<1>2. NetTypeOK /\ UNCHANGED netVars => NetTypeOK'
  BY DEF NetTypeOK, netVars
<1>3. LoopTypeOK /\ UNCHANGED loopVars => LoopTypeOK'
  BY DEF LoopTypeOK, loopVars
<1>4. CASE RunsTransports
  <2>1. /\ program \in UserTransports /\ TransportsNext(program) /\ program' = program
        /\ UNCHANGED netVars /\ UNCHANGED loopVars
    BY <1>4 DEF RunsTransports
  <2>2. UsersState'
    BY <1>1, <2>1, UsersStep DEF WindowsInv
  <2>3. BaseTypes' /\ NetTypeOK' /\ LoopTypeOK'
    BY <1>2, <1>3, <2>1, <2>2 DEF WindowsInv, UsersState
  <2>4. QED
    BY <1>1, <2>1, <2>2, <2>3, ProgramsApart DEF WindowsInv
<1>5. CASE RunsNetworking
  <2>1. program = "networking" /\ NetNext /\ program' = program /\ UNCHANGED loopVars
    BY <1>5 DEF RunsNetworking
  <2>2. NetState'
    BY <2>1, NetStep DEF WindowsInv
  <2>3. BaseTypes' /\ NetTypeOK' /\ LoopTypeOK'
    BY <1>3, <2>1, <2>2 DEF WindowsInv, NetState
  <2>4. QED
    BY <1>1, <2>1, <2>2, <2>3, ProgramsApart DEF WindowsInv
<1>6. CASE RunsEventLoop
  <2>1. /\ program = "event loop" /\ LoopNext /\ program' = program /\ UNCHANGED netVars
        /\ UNCHANGED <<deliveryVars, userVars>>
    BY <1>6 DEF RunsEventLoop
  <2>2. LoopState'
    BY <2>1, LoopStep DEF WindowsInv
  <2>3. BaseTypes' /\ NetTypeOK' /\ LoopTypeOK'
    BY <1>2, <2>1, <2>2 DEF WindowsInv, LoopState
  <2>4. QED
    BY <1>1, <2>1, <2>2, <2>3, ProgramsApart DEF WindowsInv
<1>7. QED
  BY <1>1, <1>4, <1>5, <1>6

LEMMA UnchangedSound ==
  ASSUME WindowsInv, UNCHANGED vars
  PROVE  WindowsInv'
<1>1. /\ UNCHANGED portVars /\ UNCHANGED <<deliveryVars, userVars>> /\ UNCHANGED netVars
      /\ UNCHANGED loopVars /\ program' = program
  BY DEF vars
<1>2. /\ UNCHANGED <<contextVars, busy, port, entries, doing>> /\ UNCHANGED pollVars
      /\ UNCHANGED <<transportVars, deliveryVars>> /\ call' = call /\ aborted' = aborted
      /\ request' = request /\ doing' = doing /\ given' = given /\ misreported' = misreported
      /\ step' = step
  BY <1>1 DEF portVars, pollVars, contextVars, userVars, netVars
<1>3. BaseTypes'
  <2>1. TransportTypes' /\ PollTypes'
    BY <1>2, TransportsKept, PollsKept DEF WindowsInv, BaseTypes
  <2>2. ContextTypes' /\ Counted'
    BY <1>2, StillKeeps DEF WindowsInv, BaseTypes, ContextTypes, contextVars
  <2>3. QED
    BY <1>2, <2>1, <2>2 DEF WindowsInv, BaseTypes
<1>4. NetTypeOK' /\ LoopTypeOK'
  BY <1>1 DEF WindowsInv, NetTypeOK, LoopTypeOK, netVars, loopVars
<1>5. UsersState => UsersState'
  <2>1. PortInv /\ UsersInv => PortInv' /\ UsersInv'
    BY <1>2, UsersQuiet
  <2>2. QED
    BY <1>2, <1>3, <2>1 DEF UsersState
<1>6. NetState => NetState'
  <2>1. PortInv => PortInv'
    BY <1>2, QuietKeeps
  <2>2. (\A th \in Threads : Agrees(th)) => \A th \in Threads : Agrees(th)'
    BY <1>2 DEF Agrees, InServer
  <2>3. QED
    BY <1>2, <1>3, <1>4, <2>1, <2>2 DEF NetState
<1>7. LoopState => LoopState'
  <2>1. ASSUME LoopState PROVE LoopState'
    <3>1. /\ LoopSettled /\ OnlyWakeup' /\ (missed \subseteq missed' => (Covered => Covered'))
      BY <1>1, <2>1, PortRests
    <3>2. Wakes'
      BY <1>1, <2>1, <3>1 DEF LoopState, Wakes, loopVars
    <3>3. QED
      BY <1>4, <2>1, <3>1, <3>2, LoopStateNext
  <2>2. QED
    BY <2>1
<1>8. QED
  BY <1>1, <1>3, <1>4, <1>5, <1>6, <1>7 DEF WindowsInv

\* The inductive invariant of the three programs.
THEOREM WindowsInvHolds == Spec => []WindowsInv
<1>1. Init => WindowsInv
  BY InitSound
<1>2. WindowsInv /\ [Next]_vars => WindowsInv'
  BY StepSound, UnchangedSound
<1>3. QED
  BY <1>1, <1>2, PTL DEF Spec

----------------------------------------------------------------------------

LEMMA TypeOKHolds == WindowsInv => TypeOK
<1> SUFFICES ASSUME WindowsInv PROVE TypeOK
  OBVIOUS
<1>1. /\ BaseTypes /\ ContextTypes /\ Counted /\ TransportTypes /\ PollTypes /\ NetTypeOK
      /\ LoopTypeOK /\ program \in Programs
  BY DEF WindowsInv, BaseTypes
<1>2. PortTypeOK
  <2>1. /\ busy \subseteq Packets /\ port \in Seq(Packets) /\ entries \in [Pollers -> Seq(Packets)]
        /\ doing \in [Threads -> Doings \cup {None}]
    BY <1>1 DEF Counted, CountTypes
  <2>2. /\ \A p \in Pollers : Len(entries[p]) <= BatchSize
        /\ call \in [Pollers -> Notices \cup {None}] /\ aborted \in BOOLEAN
    BY <1>1 DEF PollTypes, BaseTypes
  <2>3. QED
    BY <1>1, <2>1, <2>2 DEF PortTypeOK, ContextTypes, TransportTypes, ListenerTypes
<1>3. QED
  BY <1>1, <1>2 DEF TypeOK, TransportTypes, BaseTypes

\* TypeOK: what the port, the contexts, the transports, the server, the client and
\* the loop keep has its type, in whichever program; a thread never has more packets
\* than fit its poll buffer, and no count of references falls below zero.
THEOREM WindowsTypes == Spec => []TypeOK
<1>1. QED
  BY WindowsInvHolds, TypeOKHolds, PTL

LEMMA PortHolds ==
  ASSUME PortInv
  PROVE  /\ \A t \in Transports : held[t] >= InFlightOn(t)
         /\ \A c \in Contexts : /\ refs[c] >= InFlight(c)
                                /\ request[c] = "Message" => count[c] = InFlight(c) /\ refs[c] = count[c]
                                /\ request[c] = "None" => InFlight(c) = 0 /\ refs[c] = 0
<1>1. ASSUME NEW c \in Contexts
      PROVE  /\ refs[c] >= InFlight(c)
             /\ request[c] = "Message" => count[c] = InFlight(c) /\ refs[c] = count[c]
             /\ request[c] = "None" => InFlight(c) = 0 /\ refs[c] = 0
  <2>1. SoundContext(c) /\ InFlight(c) \in Nat /\ refs[c] \in Nat
    BY CountsAreNat DEF PortInv, ContextTypes
  <2>2. QED
    BY <2>1 DEF SoundContext
<1>2. QED
  BY <1>1 DEF PortInv

LEMMA HeldHolds == WindowsInv => OutstandingHeld
<1> SUFFICES ASSUME WindowsInv, ~misreported
             PROVE  /\ \A c \in Contexts : Held(c)
                    /\ \A t \in Transports : held[t] >= InFlightOn(t)
                    /\ aborted => program = "event loop"
  BY DEF OutstandingHeld
<1>1. PortInv /\ (aborted => program = "event loop") /\ (program \in UserTransports => UsersInv)
  BY DEF WindowsInv, Programs, UsersState, NetState, LoopState
<1>2. ASSUME NEW c \in Contexts PROVE Held(c)
  <2>1. program \in UserTransports /\ given[c] = 0 => request[c] = "None"
    BY <1>1, NotLinking
  <2>2. QED
    BY <1>1, <2>1, PortHolds DEF Held
<1>3. QED
  BY <1>1, <1>2, PortHolds

\* OutstandingHeld: of a socket until it misreports, and of all else always, what is
\* outstanding at the port is referenced, a context without a request is nowhere, and
\* the assertion of Dispatch() (windows-iocp.cc) does not fail.
THEOREM OutstandingIsHeld == Spec => []OutstandingHeld
<1>1. QED
  BY WindowsInvHolds, HeldHolds, PTL

LEMMA WokenHolds == WindowsInv => LoopWoken
<1> SUFFICES ASSUME WindowsInv, Neglected PROVE missed # {}
  BY DEF LoopWoken
<1>1. /\ program = "event loop" /\ pc = "poll" /\ call[Main] = None /\ InFlight(WakeupContext) = 0
      /\ queued > 0 \/ quit
      /\ \A th \in Threads : signal[th] = "out"
  BY DEF Neglected, Asleep
<1>2. Wakes
  BY <1>1 DEF WindowsInv, LoopState
<1>3. ~(InFlight(WakeupContext) > 0)
  <2>1. ~(0 > 0)
    OBVIOUS
  <2>2. InFlight(WakeupContext) = 0
    BY <1>1
  <2>3. QED
    BY Zenon, <2>1, <2>2
<1>4. Covered
  BY Zenon, <1>1, <1>2 DEF Wakes
<1>5. QED
  BY Zenon, <1>1, <1>3, <1>4 DEF Covered

\* LoopWoken: a loop that sits in PollOne() with a task or a quit to see to, and no
\* Signal() under way, has had a message that could not be posted, or a context that
\* Signal() cleared after OnCompleted() had put it back.
THEOREM LoopIsWoken == Spec => []LoopWoken
<1>1. QED
  BY WindowsInvHolds, WokenHolds, PTL

----------------------------------------------------------------------------
(* The promises of the server and the client.                              *)

\* Their packets: the client's is that of its context, which alone is cancelled.
PacketsSound ==
  /\ \A x \in Packets :
       Abroad(x) => x[2] \in {Server, Client} /\ (x[2] = Client <=> x[1] = connecting)
  /\ \A c \in Contexts :
       request[c] \in {"None", "Other", "Cancelled"} /\ (request[c] = "Cancelled" => c = connecting)

\* A context is with the kernel, in the pool, or with a thread in OnCompleted().
PoolSound ==
  /\ IsInjective(pool)
  /\ \A c \in ToSet(pool) : request[c] = "None" /\ c # connecting
  /\ \A p \in Pollers : InServer(p) =>
       /\ request[call[p].ctx] = "None" /\ call[p].ctx \notin ToSet(pool)
       /\ call[p].ctx # connecting
       /\ \A q \in Pollers : InServer(q) /\ call[p].ctx = call[q].ctx => p = q

\* Requests of AcceptEx() under way, or about to be.
Replacers == {th \in Threads : Replacing(th)}
Accepting == InFlightOn(Server) + Cardinality(Replacers)
Unserved  == Server \notin closed /\ listener[Server] = None

ServerSound ==
  /\ listener[Server] \in {None, "server"}
  /\ Server \notin closed => (Server \in attached <=> listener[Server] = "server")
  /\ Unserved => Accepting = 0
  /\ Serving => Accepting = 1

InOp(p)      == call[p] # None /\ call[p].to = "op"
OnClient(th) == doing[th] # None /\ doing[th].on = Client

ClientSound ==
  /\ listener[Client] \in {None, "op", "user"}
  /\ listener[Client] = None => connecting = None
  /\ connecting = None => told = <<>> /\ ~cancelled /\ \A p \in Pollers : ~InOp(p)
  /\ \A p \in Pollers : InOp(p) =>
       request[connecting] = "None" /\ \A q \in Pollers : InOp(q) => p = q
  /\ \A u \in Threads : OnClient(u) =>
       /\ \A v \in Threads : OnClient(v) => u = v
       /\ doing[u].step = "undo" <=> told # <<>>
  /\ told # <<>> =>
       /\ Len(told) = 1 /\ \A p \in Pollers : ~InOp(p)
       /\ (\A u \in Threads : ~OnClient(u)) => request[connecting] = "None"
  /\ cancelled =>
       /\ told = <<>> /\ request[connecting] = "Cancelled"
       /\ \A u \in Threads : ~OnClient(u)

NetInv == PacketsSound /\ PoolSound /\ ServerSound /\ ClientSound

LEMMA CreatingIs ==
  ASSUME NetState
  PROVE  Creating <=> \E u \in Threads : OnClient(u)
<1>1. \A u \in Threads : OnClient(u) => u \in Users
  BY SocketAssumption DEF NetState, Agrees, OnClient
<1>2. QED
  BY <1>1 DEF Creating, OnClient, Threads

\* A thread that has linked its request counts.
LEMMA CarriedCounts ==
  ASSUME NEW b, NEW q, NEW e, NEW d, CountTypes(b, q, e, d), NEW th \in Threads, Carries(d, th)
  PROVE  Total(b, q, e, d, {PacketOf(d, th)}) >= 1
<1> DEFINE S == {PacketOf(d, th)}
<1>1. /\ Cardinality(b \cap S) \in Nat /\ Cardinality(Where(q, S)) \in Nat
      /\ Cardinality(Dequeued(e, S)) \in Nat /\ Cardinality(Carriers(d, S)) \in Nat
      /\ IsFiniteSet(Carriers(d, S))
  BY PartsFinite
<1>2. th \in Carriers(d, S)
  BY DEF Carriers
<1>3. Cardinality(Carriers(d, S)) # 0
  BY <1>1, <1>2, FS_EmptySet
<1>4. QED
  BY <1>1, <1>3 DEF Total

LEMMA CarriedIsAbroad ==
  ASSUME NEW th \in Threads
  PROVE  /\ Counted /\ Carries(doing, th) => Abroad(PacketOf(doing, th))
         /\ \A y : Counted' /\ Carries(doing', th) /\ y = PacketOf(doing', th) => Abroad(y)'
<1>1. ASSUME Counted, Carries(doing, th) PROVE Abroad(PacketOf(doing, th))
  <2>1. Total(busy, port, entries, doing, {PacketOf(doing, th)}) >= 1
    BY <1>1, CarriedCounts DEF Counted
  <2>2. Outstanding({PacketOf(doing, th)}) >= 1 /\ Outstanding({PacketOf(doing, th)}) \in Nat
    BY <1>1, <2>1, OutstandingIsTotal, OutstandingIsNat
  <2>3. QED
    BY <2>2 DEF Abroad
<1>2. ASSUME NEW y, Counted', Carries(doing', th), y = PacketOf(doing', th) PROVE Abroad(y)'
  <2>1. CountTypes(busy', port', entries', doing')
    BY <1>2 DEF Counted, CountTypes, Packets, Doings
  <2>2. Total(busy', port', entries', doing', {y}) >= 1
    BY <1>2, <2>1, CarriedCounts
  <2>3. Outstanding({y})' >= 1 /\ Outstanding({y})' \in Nat
    BY <1>2, <2>2, OutstandingIsTotal, OutstandingIsNat
  <2>4. QED
    BY <2>3 DEF Abroad
<1>3. QED
  BY <1>1, <1>2

\* A thread that is about the client has a packet of its context.
LEMMA ClientCarries ==
  ASSUME NetState, PacketsSound, NEW u \in Threads, OnClient(u)
  PROVE  /\ Carries(doing, u) /\ PacketOf(doing, u) \in Packets /\ PacketOf(doing, u)[2] = Client
         /\ PacketOf(doing, u)[1] = connecting /\ connecting \in Contexts
         /\ request[connecting] \notin {"None", "Message"} /\ InFlight(connecting) <= 1
<1>1. PortInv /\ Counted /\ Agrees(u) /\ doing[u] # None /\ doing[u].on = Client
  BY DEF NetState, PortInv, OnClient
<1>2. /\ PacketOf(doing, u) \in Packets /\ PacketOf(doing, u)[1] = doing[u].ctx
      /\ PacketOf(doing, u)[2] = doing[u].on /\ doing[u].ctx \in Contexts /\ Carries(doing, u)
  BY <1>1, DoingIs DEF Agrees
<1>3. Abroad(PacketOf(doing, u))
  BY <1>1, <1>2, CarriedIsAbroad
<1>4. PacketOf(doing, u)[1] = connecting
  BY <1>1, <1>2, <1>3 DEF PacketsSound
<1>5. InFlight(connecting) >= 1 /\ InFlight(connecting) \in Nat
  BY <1>1, <1>2, <1>3, <1>4, AbroadCounts, CountsAreNat
<1>6. request[connecting] \in {"None", "Other", "Cancelled"} /\ SoundContext(connecting)
  BY <1>1, <1>2, <1>4 DEF PacketsSound, PortInv
<1>7. request[connecting] # "None"
  BY <1>5, <1>6 DEF SoundContext
<1>8. QED
  BY <1>1, <1>2, <1>4, <1>6, <1>7 DEF SoundContext

LEMMA ReplacersFinite == IsFiniteSet(Replacers) /\ Cardinality(Replacers) \in Nat
<1>1. IsFiniteSet(Threads) /\ Replacers \subseteq Threads
  BY ThreadsAssumption DEF Threads, Replacers
<1>2. QED
  BY <1>1, FS_Subset, FS_CardinalityType

\* One thread comes to replace a request, or has done so.
LEMMA ReplacersChange ==
  ASSUME NEW th \in Threads, \A x \in Threads \ {th} : step'[x] = step[x],
         \A p \in Pollers \ {th} : InServer(p)' <=> InServer(p)
  PROVE  /\ Cardinality(Replacers') \in Nat
         /\ (Replacing(th)' <=> Replacing(th)) => Cardinality(Replacers') = Cardinality(Replacers)
         /\ Replacing(th)' /\ ~Replacing(th) => Cardinality(Replacers') = Cardinality(Replacers) + 1
         /\ ~Replacing(th)' /\ Replacing(th) => Cardinality(Replacers') = Cardinality(Replacers) - 1
<1>1. \A x \in Threads \ {th} : Replacing(x)' <=> Replacing(x)
  BY DEF Replacing
<1>2. IsFiniteSet(Replacers) /\ Cardinality(Replacers) \in Nat
  BY ReplacersFinite
<1>3. CASE Replacing(th)' <=> Replacing(th)
  <2>1. Replacers' = Replacers
    BY <1>1, <1>3 DEF Replacers
  <2>2. QED
    BY <1>2, <1>3, <2>1
<1>4. CASE Replacing(th)' /\ ~Replacing(th)
  <2>1. Replacers' = Replacers \cup {th} /\ th \notin Replacers
    BY <1>1, <1>4 DEF Replacers
  <2>2. Cardinality(Replacers \cup {th}) = Cardinality(Replacers) + 1
    BY <1>2, <2>1, FS_AddElement
  <2>3. Cardinality(Replacers') = Cardinality(Replacers) + 1
    BY <2>1, <2>2
  <2>4. QED
    BY <1>2, <1>4, <2>3
<1>5. CASE ~Replacing(th)' /\ Replacing(th)
  <2>1. Replacers' = Replacers \ {th} /\ th \in Replacers
    BY <1>1, <1>5 DEF Replacers
  <2>2. QED
    BY <1>2, <1>5, <2>1, FS_RemoveElement, FS_CardinalityType
<1>6. QED
  BY <1>3, <1>4, <1>5

LEMMA ReplacersSame ==
  ASSUME step' = step, \A p \in Pollers : InServer(p)' <=> InServer(p)
  PROVE  Replacers' = Replacers
BY DEF Replacers, Replacing

LEMMA AcceptingIsNat ==
  ASSUME Counted
  PROVE  InFlightOn(Server) \in Nat /\ Cardinality(Replacers) \in Nat
<1>1. QED
  BY CountsAreNat, ReplacersFinite, SocketAssumption

\* What there is to show of a step for each part of the invariant.
LEMMA PacketsKept ==
  ASSUME PacketsSound, connecting' = connecting,
         \A c \in Contexts : request'[c] = request[c] \/ request'[c] = "None",
         \A x \in Packets : Abroad(x)' => Abroad(x)
  PROVE  PacketsSound'
BY DEF PacketsSound

LEMMA PoolKept ==
  ASSUME NetState, PoolSound, pool' = pool, connecting' = connecting,
         \A c \in Contexts : request[c] = "None" => request'[c] = "None",
         \A p \in Pollers : InServer(p)' => InServer(p) /\ call'[p] = call[p]
  PROVE  PoolSound'
<1>1. \A c \in ToSet(pool) : c \in Contexts
  BY DEF NetState, NetTypeOK, ToSet
<1>2. \A p \in Pollers : InServer(p) => call[p].ctx \in Contexts
  BY DEF NetState, BaseTypes, PollTypes, InServer, Notices
<1>3. IsInjective(pool') /\ \A c \in ToSet(pool') : request'[c] = "None" /\ c # connecting'
  BY <1>1 DEF PoolSound
<1>4. ASSUME NEW p \in Pollers, InServer(p)'
      PROVE  /\ request'[call'[p].ctx] = "None" /\ call'[p].ctx \notin ToSet(pool')
             /\ call'[p].ctx # connecting'
             /\ \A q \in Pollers : InServer(q)' /\ call'[p].ctx = call'[q].ctx => p = q
  <2>1. InServer(p) /\ call'[p] = call[p] /\ call[p].ctx \in Contexts
    BY <1>2, <1>4
  <2>2. request[call[p].ctx] = "None" /\ call[p].ctx \notin ToSet(pool) /\ call[p].ctx # connecting
    BY <2>1 DEF PoolSound
  <2>3. ASSUME NEW q \in Pollers, InServer(q)', call'[p].ctx = call'[q].ctx PROVE p = q
    <3>1. InServer(q) /\ call'[q] = call[q]
      BY <2>3
    <3>2. QED
      BY <2>1, <2>3, <3>1 DEF PoolSound
  <2>4. QED
    BY <2>1, <2>2, <2>3
<1>5. QED
  BY <1>3, <1>4 DEF PoolSound

LEMMA ServerKept ==
  ASSUME ServerSound, Accepting' = Accepting, listener'[Server] = listener[Server],
         Server \in closed' <=> Server \in closed, Server \in attached' <=> Server \in attached,
         skips \subseteq skips', fatal' = fatal
  PROVE  ServerSound'
BY DEF ServerSound, Unserved, Serving

LEMMA ClientKept ==
  ASSUME ClientSound, UNCHANGED <<connecting, told, cancelled>>,
         listener'[Client] = listener[Client],
         connecting # None => request'[connecting] = request[connecting],
         \A p \in Pollers : InOp(p)' <=> InOp(p),
         \A u \in Threads : OnClient(u)' <=> OnClient(u),
         \A u \in Threads : OnClient(u) => doing'[u] = doing[u]
  PROVE  ClientSound'
<1>1. connecting # None \/ (told = <<>> /\ ~cancelled /\ \A p \in Pollers : ~InOp(p))
  BY DEF ClientSound
<1>2. \A u \in Threads : OnClient(u)' => (doing'[u].step = "undo" <=> doing[u].step = "undo")
  OBVIOUS
<1>3. QED
  BY <1>1, <1>2 DEF ClientSound

\* What is outstanding of the server when a packet of the client leaves or comes.
LEMMA ServerCount ==
  ASSUME NetState, NetState', Keeps \/ \E x \in Packets : x[2] = Client /\ (Gains(x) \/ Loses(x))
  PROVE  InFlightOn(Server)' = InFlightOn(Server)
<1>1. Counted /\ Counted' /\ Server \in Transports /\ Server # Client
  BY SocketAssumption DEF NetState, PortInv
<1>2. CASE Keeps
  BY <1>1, <1>2, KeepsAll
<1>3. ASSUME NEW x \in Packets, x[2] = Client, Gains(x) \/ Loses(x)
      PROVE  InFlightOn(Server)' = InFlightOn(Server)
  <2>1. If(Server = x[2]) = 0
    BY <1>1, <1>3 DEF If
  <2>2. CASE Gains(x)
    <3>1. InFlightOn(Server) \in Nat /\ InFlightOn(Server)' = InFlightOn(Server) + If(Server = x[2])
      BY <1>1, <2>2, GainsAll
    <3>2. QED
      BY <2>1, <3>1
  <2>3. CASE Loses(x)
    <3>1. InFlightOn(Server) \in Nat /\ InFlightOn(Server)' = InFlightOn(Server) - If(Server = x[2])
      BY <1>1, <2>3, LosesAll
    <3>2. QED
      BY <2>1, <3>1
  <2>4. QED
    BY <1>3, <2>2, <2>3
<1>4. QED
  BY <1>2, <1>3

LEMMA NothingNew ==
  ASSUME NetState, NetState', Keeps \/ \E x \in Packets : Loses(x)
  PROVE  \A x \in Packets : Abroad(x)' => Abroad(x)
<1>1. Counted /\ Counted'
  BY DEF NetState, PortInv
<1>2. CASE Keeps
  BY <1>1, <1>2, KeepsAll
<1>3. ASSUME NEW x \in Packets, Loses(x) PROVE \A y \in Packets : Abroad(y)' => Abroad(y)
  BY <1>1, <1>3, LosesAll
<1>4. QED
  BY <1>2, <1>3

\* Each step of the networking program.
LEMMA CreateServerSound ==
  ASSUME NetState, NetInv, NEW u \in Users, NEW family, NEW protocol,
         CreateServer(u, family, protocol)
  PROVE  NetInv'
<1>1. NetState' /\ Keeps
  BY CreateServerKeeps
<1>2. /\ u \in Threads /\ u \notin Pollers /\ Agrees(u) /\ NetTypeOK /\ TransportTypes
      /\ Server \in Transports /\ Client \in Transports /\ Server # Client
      /\ ContextTypes /\ Counted /\ Counted'
  BY <1>1, ThreadsAssumption, SocketAssumption DEF NetState, BaseTypes, Threads, PortInv
<1>3. /\ AttachTo(Server, "server") /\ step[u] = "out" /\ step' = [step EXCEPT ![u] = "start"]
      /\ request' = request /\ doing' = doing /\ call' = call
      /\ UNCHANGED <<pool, fatal>> /\ UNCHANGED <<connecting, told, cancelled>>
  BY DEF CreateServer, contextVars, pollVars, clientUnchanged
<1>4. /\ listener[Server] = None /\ Server \notin closed /\ closed' = closed
      /\ listener'[Server] = "server" /\ listener'[Client] = listener[Client]
      /\ Server \in attached'
  BY <1>2, <1>3 DEF AttachTo, CanAttach, Attaches, TransportTypes, ListenerTypes
<1>5. PacketsSound'
  BY <1>1, <1>3, NothingNew, PacketsKept DEF NetInv
<1>6. PoolSound'
  BY <1>1, <1>3, PoolKept DEF NetInv, InServer
<1>7. ClientSound'
  BY <1>3, <1>4, ClientKept DEF NetInv, InOp, OnClient
<1>8. ServerSound'
  <2>1. Accepting = 0 /\ InFlightOn(Server) \in Nat /\ Cardinality(Replacers) \in Nat
    BY <1>2, <1>4, AcceptingIsNat DEF NetInv, ServerSound, Unserved
  <2>2. InFlightOn(Server)' = InFlightOn(Server)
    BY <1>1, ServerCount
  <2>3. step'[u] = "start" /\ \A x \in Threads \ {u} : step'[x] = step[x]
    BY <1>2, <1>3 DEF NetTypeOK
  <2>4. Replacing(u)' /\ ~Replacing(u)
    BY <1>2, <1>3, <2>3 DEF Replacing
  <2>5. Cardinality(Replacers') = Cardinality(Replacers) + 1
    BY <1>2, <1>3, <2>3, <2>4, ReplacersChange DEF InServer
  <2>6. Accepting' = 1
    BY <2>1, <2>2, <2>5 DEF Accepting
  <2>7. QED
    BY <1>4, <2>6, NoneAssumption DEF ServerSound, Unserved, Serving
<1>9. QED
  BY <1>5, <1>6, <1>7, <1>8 DEF NetInv

LEMMA CreateClientSound ==
  ASSUME NetState, NetInv, NEW u \in Users, NEW c \in Contexts, NEW family, NEW protocol,
         CreateClient(u, c, family, protocol)
  PROVE  NetInv'
<1>1. /\ NetState' /\ Gains(<<c, Client>>) /\ <<c, Client>> \in Packets
      /\ \A d \in Contexts : request'[d] = IF d = c THEN "Other" ELSE request[d]
      /\ doing'[u] # None /\ doing'[u].on = Client /\ doing'[u].step = "issue"
      /\ \A x \in Threads \ {u} : doing'[x] = doing[x]
  BY CreateClientGains
<1>2. /\ u \in Threads /\ NetTypeOK /\ TransportTypes /\ PollTypes /\ None \notin Contexts
      /\ Server \in Transports /\ Client \in Transports /\ Server # Client
      /\ Counted /\ Counted' /\ PacketsSound /\ PoolSound /\ ServerSound /\ ClientSound
  BY <1>1, SocketAssumption, NoneAssumption DEF NetState, BaseTypes, Threads, PortInv, NetInv
<1>3. /\ AttachTo(Client, "op") /\ step' = step /\ call' = call /\ New(c) /\ request[c] = "None"
      /\ connecting' = c /\ UNCHANGED <<pool, fatal>> /\ UNCHANGED <<told, cancelled>>
  BY DEF CreateClient, pollVars, serverUnchanged
<1>4. /\ listener[Client] = None /\ closed' = closed
      /\ listener'[Client] = "op" /\ listener'[Server] = listener[Server]
      /\ Server \in attached' <=> Server \in attached
      /\ skips \subseteq skips'
  BY <1>2, <1>3 DEF AttachTo, CanAttach, Attaches, TransportTypes, ListenerTypes
<1>5. /\ connecting = None /\ told = <<>> /\ ~cancelled /\ \A p \in Pollers : ~InOp(p)
      /\ \A v \in Threads : ~OnClient(v)
  BY <1>2, <1>4, ClientCarries DEF ClientSound
<1>6. PacketsSound'
  <2>1. ASSUME NEW x \in Packets, Abroad(x)'
        PROVE  x[2] \in {Server, Client} /\ (x[2] = Client <=> x[1] = c)
    <3>1. Abroad(x) \/ x = <<c, Client>>
      BY <1>1, <1>2, <2>1, GainsAll
    <3>2. CASE Abroad(x)
      <4>1. x[2] = Server
        BY <1>2, <1>5, <3>2, AbroadCounts DEF PacketsSound
      <4>2. x[1] # c
        BY <1>2, <1>3, <3>2, AbroadCounts DEF New
      <4>3. QED
        BY <1>2, <4>1, <4>2
    <3>3. QED
      BY <3>1, <3>2
  <2>2. \A d \in Contexts : /\ request'[d] \in {"None", "Other", "Cancelled"}
                            /\ request'[d] = "Cancelled" => d = c
    BY <1>1, <1>2, <1>5 DEF PacketsSound
  <2>3. QED
    BY <1>3, <2>1, <2>2 DEF PacketsSound
<1>7. PoolSound'
  <2>1. c \notin ToSet(pool) /\ \A p \in Pollers : call[p] # None => call[p].ctx # c
    BY <1>3 DEF New
  <2>2. \A d \in ToSet(pool) : d \in Contexts
    BY <1>2 DEF NetTypeOK, ToSet
  <2>3. \A p \in Pollers : InServer(p) => call[p].ctx \in Contexts /\ call[p].ctx # c
    BY <1>2, <2>1 DEF PollTypes, InServer, Notices
  <2>4. \A p \in Pollers : InServer(p)' <=> InServer(p)
    BY <1>3 DEF InServer
  <2>5. \A d \in Contexts : d # c => request'[d] = request[d]
    BY <1>1
  <2>6. \A d \in ToSet(pool') : request'[d] = "None" /\ d # connecting'
    BY <1>2, <1>3, <2>1, <2>2, <2>5 DEF PoolSound
  <2>7. \A p \in Pollers : InServer(p)' =>
          /\ request'[call'[p].ctx] = "None" /\ call'[p].ctx \notin ToSet(pool')
          /\ call'[p].ctx # connecting'
          /\ \A q \in Pollers : InServer(q)' /\ call'[p].ctx = call'[q].ctx => p = q
    BY <1>2, <1>3, <2>3, <2>4, <2>5 DEF PoolSound
  <2>8. QED
    BY <1>2, <1>3, <2>6, <2>7 DEF PoolSound
<1>8. ServerSound'
  <2>1. InFlightOn(Server)' = InFlightOn(Server)
    <3>1. <<c, Client>>[2] = Client
      OBVIOUS
    <3>2. QED
      BY <1>1, <3>1, ServerCount
  <2>2. Replacers' = Replacers
    BY <1>3, ReplacersSame DEF InServer
  <2>3. Accepting' = Accepting
    BY <2>1, <2>2 DEF Accepting
  <2>4. QED
    BY <1>2, <1>3, <1>4, <2>3, ServerKept
<1>9. ClientSound'
  <2>1. \A p \in Pollers : ~InOp(p)'
    BY <1>3, <1>5 DEF InOp
  <2>2. \A v \in Threads : OnClient(v)' => v = u
    BY <1>1, <1>5 DEF OnClient
  <2>3. OnClient(u)' /\ doing'[u].step # "undo"
    BY <1>1 DEF OnClient
  <2>4. told' = <<>> /\ ~cancelled' /\ connecting' # None /\ listener'[Client] = "op"
    BY <1>2, <1>3, <1>4, <1>5
  <2>5. "op" # None
    BY NoneAssumption
  <2>6. QED
    BY <2>1, <2>2, <2>3, <2>4, <2>5 DEF ClientSound
<1>10. QED
  BY <1>6, <1>7, <1>8, <1>9 DEF NetInv

\* While Create() is at it, the client has been told of nothing else.
LEMMA WhileCreating ==
  ASSUME NetState, NetInv, NEW u \in Threads, OnClient(u)
  PROVE  /\ connecting # None /\ connecting \in Contexts /\ request[connecting] # "None"
         /\ \A p \in Pollers : ~InOp(p)
         /\ ~cancelled /\ listener[Client] \in {"op", "user"}
         /\ \A v \in Threads : OnClient(v) => v = u
         /\ doing[u].step = "undo" <=> told # <<>>
<1>1. PacketsSound /\ ClientSound
  BY DEF NetInv
<1>2. connecting \in Contexts /\ request[connecting] # "None"
  BY <1>1, ClientCarries
<1>3. connecting # None
  BY <1>2, NoneAssumption
<1>4. QED
  BY <1>1, <1>2, <1>3 DEF ClientSound

LEMMA ConnectExSound ==
  ASSUME NetState, NetInv, NEW u \in Users, NEW outcome \in {"pending", "done", "failed"},
         ConnectEx(u, outcome)
  PROVE  NetInv'
<1>1. /\ NetState' /\ At(u, "issue") /\ doing[u].on = Client
      /\ Keeps \/ Loses(PacketOf(doing, u))
      /\ \A x \in Threads \ {u} : doing'[x] = doing[x]
      /\ outcome = "failed" => /\ doing'[u] # None /\ doing'[u].step = "undo"
                               /\ doing'[u].on = Client /\ doing'[u].ctx = doing[u].ctx
      /\ outcome # "failed" => doing'[u] = None
  BY ConnectExKeeps
<1>2. /\ u \in Threads /\ OnClient(u) /\ doing[u].step = "issue" /\ NetTypeOK
      /\ PacketsSound /\ PoolSound /\ ServerSound /\ ClientSound
  BY <1>1 DEF NetState, Threads, NetInv, OnClient, At
<1>3. /\ request' = request /\ call' = call /\ step' = step /\ listener' = listener
      /\ closed' = closed /\ attached' = attached /\ skips' = skips /\ pool' = pool
      /\ fatal' = fatal /\ connecting' = connecting /\ cancelled' = cancelled
      /\ told' = IF outcome = "failed" THEN Append(told, "error") ELSE told
  BY DEF ConnectEx, contextVars, transportVars, pollVars, deliveryVars, serverUnchanged
<1>4. PacketOf(doing, u) \in Packets /\ PacketOf(doing, u)[2] = Client
  BY <1>2, ClientCarries
<1>5. PacketsSound'
  BY <1>1, <1>2, <1>3, <1>4, NothingNew, PacketsKept
<1>6. PoolSound'
  BY <1>2, <1>3, PoolKept DEF InServer
<1>7. ServerSound'
  <2>1. Accepting' = Accepting
    BY <1>1, <1>3, <1>4, ServerCount, ReplacersSame DEF Accepting, InServer
  <2>2. QED
    BY <1>2, <1>3, <2>1, ServerKept
<1>8. ClientSound'
  <2>1. /\ connecting # None /\ request[connecting] # "None" /\ \A p \in Pollers : ~InOp(p)
        /\ ~cancelled /\ \A v \in Threads : OnClient(v) => v = u
        /\ told = <<>> /\ listener[Client] \in {"op", "user"}
    BY <1>2, WhileCreating
  <2>2. /\ \A p \in Pollers : ~InOp(p)'
        /\ \A v \in Threads : OnClient(v)' => v = u
        /\ listener'[Client] \in {"op", "user"} /\ connecting' # None /\ ~cancelled'
    BY <1>1, <1>3, <2>1 DEF InOp, OnClient
  <2>3. listener'[Client] # None
    BY <2>2, NoneAssumption
  <2>4. CASE outcome = "failed"
    <3>1. OnClient(u)' /\ doing'[u].step = "undo"
      BY <1>1, <2>4 DEF OnClient
    <3>2. told' = Append(<<>>, "error")
      BY <1>3, <2>1, <2>4
    <3>3. Len(told') = 1 /\ told' # <<>>
      BY <3>2
    <3>4. QED
      BY <1>2, <2>2, <2>3, <3>1, <3>3 DEF ClientSound
  <2>5. CASE outcome # "failed"
    <3>1. told' = <<>> /\ ~OnClient(u)'
      BY <1>1, <1>3, <2>1, <2>5 DEF OnClient
    <3>2. QED
      BY <2>2, <2>3, <3>1 DEF ClientSound
  <2>6. QED
    BY <2>4, <2>5
<1>9. QED
  BY <1>5, <1>6, <1>7, <1>8 DEF NetInv

LEMMA CancelRequestSound ==
  ASSUME NetState, NetInv, NEW u \in Users, CancelRequest(u)
  PROVE  NetInv'
<1>1. /\ NetState' /\ Loses(PacketOf(doing, u)) /\ PacketOf(doing, u) \in Packets
      /\ At(u, "undo") /\ doing[u].on = Client /\ doing'[u] = None
      /\ \A x \in Threads \ {u} : doing'[x] = doing[x]
  BY CancelRequestLoses
<1>2. /\ u \in Threads /\ OnClient(u) /\ doing[u].step = "undo" /\ ContextTypes
      /\ PacketsSound /\ PoolSound /\ ServerSound /\ ClientSound
  BY <1>1 DEF NetState, BaseTypes, Threads, NetInv, OnClient, At
<1>3. /\ PacketOf(doing, u)[2] = Client /\ PacketOf(doing, u)[1] = connecting
      /\ connecting \in Contexts /\ request[connecting] \notin {"None", "Message"}
  BY <1>2, ClientCarries
<1>4. /\ call' = call /\ step' = step /\ listener' = listener /\ closed' = closed
      /\ attached' = attached /\ skips' = skips /\ pool' = pool /\ fatal' = fatal
      /\ connecting' = connecting /\ cancelled' = cancelled /\ told' = told
      /\ Undo(u)
  BY DEF CancelRequest, Undo, transportVars, pollVars, deliveryVars, netVars
<1>5. doing[u].ctx = connecting
  BY <1>3 DEF PacketOf, PacketIn
<1>6. request' = [request EXCEPT ![connecting] = "None"]
  BY <1>3, <1>4, <1>5 DEF Undo, Unlink, Take, Detaches
<1>7. request'[connecting] = "None" /\ \A c \in Contexts : c # connecting => request'[c] = request[c]
  BY <1>2, <1>3, <1>6 DEF ContextTypes
<1>8. PacketsSound'
  BY <1>1, <1>2, <1>4, <1>7, NothingNew, PacketsKept
<1>9. PoolSound'
  BY <1>2, <1>4, <1>7, PoolKept DEF InServer
<1>10. ServerSound'
  <2>1. Accepting' = Accepting
    BY <1>1, <1>3, <1>4, ServerCount, ReplacersSame DEF Accepting, InServer
  <2>2. QED
    BY <1>2, <1>4, <2>1, ServerKept
<1>11. ClientSound'
  <2>1. /\ connecting # None /\ \A p \in Pollers : ~InOp(p)
        /\ ~cancelled /\ \A v \in Threads : OnClient(v) => v = u
        /\ told # <<>> /\ listener[Client] \in {"op", "user"}
    BY <1>2, WhileCreating
  <2>2. /\ \A p \in Pollers : ~InOp(p)'
        /\ \A v \in Threads : ~OnClient(v)'
        /\ listener'[Client] \in {"op", "user"} /\ connecting' # None /\ ~cancelled'
    BY <1>1, <1>4, <2>1 DEF InOp, OnClient
  <2>3. listener'[Client] # None /\ Len(told') = 1
    BY <1>2, <1>4, <2>1, <2>2, NoneAssumption DEF ClientSound
  <2>4. QED
    BY <1>4, <1>7, <2>2, <2>3 DEF ClientSound
<1>12. QED
  BY <1>8, <1>9, <1>10, <1>11 DEF NetInv

LEMMA CancelConnectSound ==
  ASSUME NetState, NetInv, CancelConnect
  PROVE  NetInv'
<1>1. /\ NetState' /\ Keeps /\ connecting \in Contexts
      /\ request[connecting] \notin {"None", "Message"}
      /\ \A d \in Contexts : request'[d] = IF d = connecting THEN "Cancelled" ELSE request[d]
  BY CancelConnectKeeps
<1>2. PacketsSound /\ PoolSound /\ ServerSound /\ ClientSound
  BY DEF NetInv
<1>3. /\ call' = call /\ step' = step /\ listener' = listener /\ closed' = closed
      /\ attached' = attached /\ skips' = skips /\ pool' = pool /\ fatal' = fatal
      /\ connecting' = connecting /\ told' = told /\ doing' = doing
      /\ connecting # None /\ ~Creating
  BY DEF CancelConnect, Cancel, transportVars, pollVars, deliveryVars, serverUnchanged
<1>4. PacketsSound'
  <2>1. \A x \in Packets : Abroad(x)' => Abroad(x)
    BY <1>1, NothingNew
  <2>2. QED
    BY <1>1, <1>2, <1>3, <2>1 DEF PacketsSound
<1>5. PoolSound'
  BY <1>1, <1>2, <1>3, PoolKept DEF InServer
<1>6. ServerSound'
  <2>1. Accepting' = Accepting
    BY <1>1, <1>3, ServerCount, ReplacersSame DEF Accepting, InServer
  <2>2. QED
    BY <1>2, <1>3, <2>1, ServerKept
<1>7. ClientSound'
  <2>1. /\ \A u \in Threads : ~OnClient(u)
        /\ \A p \in Pollers : ~InOp(p)
        /\ told = <<>>
    BY <1>1, <1>2, <1>3, CreatingIs DEF ClientSound
  <2>2. /\ \A u \in Threads : ~OnClient(u)'
        /\ \A p \in Pollers : ~InOp(p)'
        /\ told' = <<>> /\ request'[connecting'] = "Cancelled"
        /\ listener'[Client] \in {None, "op", "user"} /\ listener'[Client] # None
    BY <1>1, <1>2, <1>3, <2>1 DEF ClientSound, InOp, OnClient
  <2>3. QED
    BY <1>3, <2>2 DEF ClientSound
<1>8. QED
  BY <1>4, <1>5, <1>6, <1>7 DEF NetInv

LEMMA WaitsSound ==
  ASSUME NetState, NetInv, NEW th \in Threads, NoSocket(th) \/ (th \in Pollers /\ OnAccept(th))
  PROVE  NetInv'
<1>1. NetState' /\ Keeps
  BY WaitsKeeps
<1>2. /\ PacketsSound /\ PoolSound /\ ServerSound /\ ClientSound /\ NetTypeOK
  BY DEF NetInv, NetState
<1>3. /\ UNCHANGED <<portVars, deliveryVars>>
      /\ pool' = pool /\ fatal' = fatal /\ UNCHANGED <<connecting, told, cancelled>>
      /\ \/ step[th] = "start" /\ step' = [step EXCEPT ![th] = "failed"]
         \/ /\ th \in Pollers /\ step[th] = "out" /\ InServer(th)
            /\ step' = [step EXCEPT ![th] = "start"]
  BY DEF NoSocket, OnAccept, clientUnchanged
<1>4. /\ call' = call /\ listener' = listener /\ closed' = closed /\ attached' = attached
      /\ skips' = skips /\ request' = request /\ doing' = doing
  BY <1>3 DEF portVars, contextVars, transportVars, pollVars, deliveryVars
<1>5. PacketsSound'
  BY <1>1, <1>2, <1>3, <1>4, NothingNew, PacketsKept
<1>6. PoolSound'
  BY <1>2, <1>3, <1>4, PoolKept DEF InServer
<1>7. ServerSound'
  <2>1. \A x \in Threads \ {th} : step'[x] = step[x]
    BY <1>2, <1>3 DEF NetTypeOK
  <2>2. Replacing(th) /\ Replacing(th)'
    BY <1>2, <1>3 DEF Replacing, NetTypeOK
  <2>3. Cardinality(Replacers') = Cardinality(Replacers)
    BY <1>4, <2>1, <2>2, ReplacersChange DEF InServer
  <2>4. Accepting' = Accepting
    BY <1>1, <2>3, ServerCount DEF Accepting
  <2>5. QED
    BY <1>2, <1>3, <1>4, <2>4, ServerKept
<1>8. ClientSound'
  BY <1>2, <1>3, <1>4, ClientKept DEF InOp, OnClient
<1>9. QED
  BY <1>5, <1>6, <1>7, <1>8 DEF NetInv

\* The pool loses its last context, and gains one.
LEMMA PoolShrinks ==
  ASSUME pool \in Seq(Contexts), pool # <<>>, IsInjective(pool)
  PROVE  /\ IsInjective(Front(pool)) /\ ToSet(Front(pool)) \subseteq ToSet(pool)
         /\ Last(pool) \in ToSet(pool) /\ Last(pool) \notin ToSet(Front(pool))
<1> DEFINE n == Len(pool)
<1>1. n \in Nat \ {0} /\ DOMAIN pool = 1 .. n
  OBVIOUS
<1>2. DOMAIN Front(pool) = 1 .. (n - 1) /\ \A i \in 1 .. (n - 1) : Front(pool)[i] = pool[i]
  BY DEF Front
<1>3. \A i, j \in 1 .. n : pool[i] = pool[j] => i = j
  BY <1>1 DEF IsInjective
<1>4. Last(pool) = pool[n]
  BY DEF Last
<1> HIDE DEF n
<1>5. IsInjective(Front(pool))
  BY <1>1, <1>2, <1>3 DEF IsInjective
<1>6. ToSet(Front(pool)) \subseteq ToSet(pool)
  BY <1>1, <1>2 DEF ToSet
<1>7. Last(pool) \in ToSet(pool)
  BY <1>1, <1>4 DEF ToSet
<1>8. ASSUME Last(pool) \in ToSet(Front(pool)) PROVE FALSE
  <2>1. PICK i \in 1 .. (n - 1) : Front(pool)[i] = Last(pool)
    BY <1>2, <1>8 DEF ToSet
  <2>2. i \in 1 .. n /\ n \in 1 .. n /\ i # n /\ pool[i] = pool[n]
    BY <1>1, <1>2, <1>4, <2>1
  <2>3. QED
    BY <1>3, <2>2
<1>9. QED
  BY <1>5, <1>6, <1>7, <1>8

LEMMA PoolGrows ==
  ASSUME pool \in Seq(Contexts), IsInjective(pool), NEW c \in Contexts, c \notin ToSet(pool)
  PROVE  IsInjective(Append(pool, c)) /\ ToSet(Append(pool, c)) = ToSet(pool) \cup {c}
<1> DEFINE n == Len(pool)
           s == Append(pool, c)
<1>1. n \in Nat /\ DOMAIN pool = 1 .. n /\ DOMAIN s = 1 .. (n + 1)
  OBVIOUS
<1>2. s[n + 1] = c /\ \A i \in 1 .. n : s[i] = pool[i]
  OBVIOUS
<1>3. \A i \in 1 .. n : pool[i] # c
  BY <1>1 DEF ToSet
<1>4. \A i, j \in 1 .. n : pool[i] = pool[j] => i = j
  BY <1>1 DEF IsInjective
<1> HIDE DEF n, s
<1>5. \A i \in 1 .. (n + 1) : i = n + 1 \/ i \in 1 .. n
  BY <1>1
<1>6. IsInjective(s)
  BY <1>1, <1>2, <1>3, <1>4, <1>5 DEF IsInjective
<1>7. ToSet(s) = ToSet(pool) \cup {c}
  <2>1. \A x \in ToSet(s) : x \in ToSet(pool) \cup {c}
    BY <1>1, <1>2, <1>5 DEF ToSet
  <2>2. \A i \in 1 .. n : i \in 1 .. (n + 1)
    BY <1>1
  <2>3. \A x \in ToSet(pool) : x \in ToSet(s)
    BY <1>1, <1>2, <2>2 DEF ToSet
  <2>4. c \in ToSet(s)
    BY <1>1, <1>2 DEF ToSet
  <2>5. QED
    BY <2>1, <2>3, <2>4
<1>8. QED
  BY <1>6, <1>7 DEF s

\* What getContext() leaves, and whom it leaves the context to.
LEMMA FromPoolIs ==
  ASSUME NetState, PoolSound, NEW c \in Contexts, FromPool(c)
  PROVE  /\ IsInjective(PoolAfter) /\ ToSet(PoolAfter) \subseteq ToSet(pool)
         /\ c \notin ToSet(PoolAfter) /\ c # connecting
         /\ \A p \in Pollers : InServer(p) => call[p].ctx # c
<1>1. pool \in Seq(Contexts) /\ IsInjective(pool)
  BY DEF NetState, NetTypeOK, PoolSound
<1>2. CASE pool = <<>>
  BY <1>1, <1>2 DEF FromPool, PoolAfter, New, InServer
<1>3. CASE pool # <<>>
  <2>1. c = Last(pool) /\ PoolAfter = Front(pool)
    BY <1>3 DEF FromPool, PoolAfter
  <2>2. /\ IsInjective(Front(pool)) /\ ToSet(Front(pool)) \subseteq ToSet(pool)
        /\ Last(pool) \in ToSet(pool) /\ Last(pool) \notin ToSet(Front(pool))
    BY <1>1, <1>3, PoolShrinks
  <2>3. QED
    BY <2>1, <2>2 DEF PoolSound
<1>4. QED
  BY <1>2, <1>3

LEMMA StartRequestSound ==
  ASSUME NetState, NetInv, NEW th \in Threads, NEW c \in Contexts, StartRequest(th, c)
  PROVE  NetInv'
<1>1. /\ NetState' /\ doing[th] = None
      /\ \A x \in Threads \ {th} : doing'[x] = doing[x] /\ step'[x] = step[x]
      /\ \/ /\ Server \in attached /\ request[c] = "None"
            /\ Gains(<<c, Server>>) /\ <<c, Server>> \in Packets /\ step'[th] = "issue"
            /\ \A d \in Contexts : request'[d] = IF d = c THEN "Other" ELSE request[d]
         \/ ~(Server \in attached /\ request[c] = "None")
            /\ Keeps /\ step'[th] = "failed" /\ request' = request
  BY StartRequestGains
<1>2. /\ PacketsSound /\ PoolSound /\ ServerSound /\ ClientSound /\ NetTypeOK /\ PollTypes
      /\ Counted /\ Counted' /\ Agrees(th)' /\ Server \in Transports /\ Server # Client
  BY <1>1, SocketAssumption DEF NetInv, NetState, BaseTypes, PortInv
<1>3. /\ step[th] = "start" /\ FromPool(c) /\ pool' = PoolAfter /\ fatal' = fatal
      /\ UNCHANGED <<connecting, told, cancelled>> /\ call' = call /\ listener' = listener
      /\ closed' = closed /\ attached' = attached /\ skips' = skips
  BY DEF StartRequest, transportVars, pollVars, deliveryVars, clientUnchanged
<1>4. /\ IsInjective(PoolAfter) /\ ToSet(PoolAfter) \subseteq ToSet(pool)
      /\ c \notin ToSet(PoolAfter) /\ c # connecting
      /\ \A p \in Pollers : InServer(p) => call[p].ctx # c
  BY <1>2, <1>3, FromPoolIs
<1>5. \A d \in Contexts : d # c => request'[d] = request[d]
  BY <1>1
<1>6. PacketsSound'
  <2>1. CASE Keeps /\ request' = request
    BY <1>1, <1>2, <1>3, <2>1, NothingNew, PacketsKept
  <2>2. CASE /\ Gains(<<c, Server>>) /\ <<c, Server>> \in Packets
             /\ \A d \in Contexts : request'[d] = IF d = c THEN "Other" ELSE request[d]
    <3>1. \A x \in Packets : Abroad(x)' => Abroad(x) \/ x = <<c, Server>>
      BY <1>2, <2>2, GainsAll
    <3>2. QED
      BY <1>2, <1>3, <1>4, <2>2, <3>1 DEF PacketsSound
  <2>3. QED
    BY <1>1, <2>1, <2>2
<1>7. PoolSound'
  <2>1. \A d \in ToSet(pool) : d \in Contexts
    BY <1>2 DEF NetTypeOK, ToSet
  <2>2. \A p \in Pollers : InServer(p) => call[p].ctx \in Contexts
    BY <1>2 DEF PollTypes, InServer, Notices
  <2>3. \A p \in Pollers : InServer(p)' <=> InServer(p)
    BY <1>3 DEF InServer
  <2>4. \A d \in ToSet(PoolAfter) : request'[d] = "None" /\ d # connecting
    BY <1>2, <1>4, <1>5, <2>1 DEF PoolSound
  <2>5. \A p \in Pollers : InServer(p) =>
          /\ request'[call[p].ctx] = "None" /\ call[p].ctx \notin ToSet(PoolAfter)
          /\ call[p].ctx # connecting
          /\ \A q \in Pollers : InServer(q) /\ call[p].ctx = call[q].ctx => p = q
    BY <1>2, <1>4, <1>5, <2>2 DEF PoolSound
  <2>6. QED
    BY <1>3, <1>4, <2>3, <2>4, <2>5 DEF PoolSound
<1>8. ServerSound'
  <2>1. Replacing(th)
    BY <1>3 DEF Replacing
  <2>2. \A p \in Pollers \ {th} : InServer(p)' <=> InServer(p)
    BY <1>3 DEF InServer
  <2>3. Cardinality(Replacers) \in Nat /\ InFlightOn(Server) \in Nat
    BY <1>2, AcceptingIsNat
  <2>4. Accepting' = Accepting
    <3>1. CASE Keeps /\ step'[th] = "failed"
      <4>1. Replacing(th)'
        BY <3>1 DEF Replacing
      <4>2. Cardinality(Replacers') = Cardinality(Replacers)
        BY <1>1, <2>1, <2>2, <4>1, ReplacersChange
      <4>3. QED
        BY <1>1, <3>1, <4>2, ServerCount DEF Accepting
    <3>2. CASE Gains(<<c, Server>>) /\ <<c, Server>> \in Packets /\ step'[th] = "issue"
      <4>1. ~Replacing(th)'
        BY <3>2 DEF Replacing
      <4>2. Cardinality(Replacers') = Cardinality(Replacers) - 1
        BY <1>1, <2>1, <2>2, <4>1, ReplacersChange
      <4>3. InFlightOn(Server)' = InFlightOn(Server) + If(Server = <<c, Server>>[2])
        BY <1>2, <3>2, GainsAll
      <4>4. If(Server = <<c, Server>>[2]) = 1
        BY DEF If
      <4>5. QED
        BY <2>3, <4>2, <4>3, <4>4 DEF Accepting
    <3>3. QED
      BY <1>1, <3>1, <3>2
  <2>5. QED
    BY <1>2, <1>3, <2>4, ServerKept
<1>9. ClientSound'
  <2>1. ~OnClient(th) /\ ~OnClient(th)'
    BY <1>1, <1>2 DEF OnClient, Agrees
  <2>2. connecting # None => request'[connecting] = request[connecting]
    BY <1>2, <1>4, <1>5 DEF NetTypeOK
  <2>3. /\ \A u \in Threads : OnClient(u)' <=> OnClient(u)
        /\ \A u \in Threads : OnClient(u) => doing'[u] = doing[u]
    BY <1>1, <2>1 DEF OnClient
  <2>4. QED
    BY <1>2, <1>3, <2>2, <2>3, ClientKept DEF InOp
<1>10. QED
  BY <1>6, <1>7, <1>8, <1>9 DEF NetInv

LEMMA AcceptExSound ==
  ASSUME NetState, NetInv, NEW th \in Threads, NEW outcome \in {"pending", "done", "failed"},
         AcceptEx(th, outcome)
  PROVE  NetInv'
<1>1. /\ NetState' /\ At(th, "issue") /\ doing[th].on = Server
      /\ Keeps \/ Loses(PacketOf(doing, th))
      /\ Server \notin skips => Keeps
      /\ \A x \in Threads \ {th} : doing'[x] = doing[x] /\ step'[x] = step[x]
      /\ step'[th] = IF outcome = "failed" THEN "undo"
                     ELSE IF th \in Users THEN "out" ELSE "rest"
      /\ doing'[th] = None \/ doing'[th].on = Server
  BY AcceptExKeeps
<1>2. /\ PacketsSound /\ PoolSound /\ ServerSound /\ ClientSound
      /\ Counted /\ Counted' /\ Server \in Transports /\ Server # Client
      /\ doing[th] # None /\ PacketOf(doing, th) \in Packets /\ PacketOf(doing, th)[2] = Server
  BY <1>1, SocketAssumption, DoingIs DEF NetInv, NetState, PortInv, At
<1>3. /\ request' = request /\ call' = call /\ listener' = listener /\ step[th] = "issue"
      /\ closed' = closed /\ attached' = attached /\ skips' = skips /\ pool' = pool
      /\ fatal' = fatal /\ UNCHANGED <<connecting, told, cancelled>>
  BY DEF AcceptEx, contextVars, transportVars, pollVars, deliveryVars, clientUnchanged
<1>4. PacketsSound'
  BY <1>1, <1>2, <1>3, NothingNew, PacketsKept
<1>5. PoolSound'
  BY <1>2, <1>3, PoolKept DEF InServer
<1>6. ServerSound'
  <2>1. ~Replacing(th) /\ ~Replacing(th)'
    BY <1>1, <1>3, ThreadsAssumption DEF Replacing, Threads
  <2>2. Cardinality(Replacers') = Cardinality(Replacers)
    BY <1>1, <1>3, <2>1, ReplacersChange DEF InServer
  <2>3. CASE Keeps
    <3>1. Accepting' = Accepting
      BY <1>1, <2>2, <2>3, ServerCount DEF Accepting
    <3>2. QED
      BY <1>2, <1>3, <3>1, ServerKept
  <2>4. CASE Loses(PacketOf(doing, th)) /\ Server \in skips
    <3>1. ~Serving'
      BY <1>3, <2>4 DEF Serving
    <3>2. ~Unserved
      <4>1. Abroad(PacketOf(doing, th))
        BY <1>2, <2>4, LosesAll
      <4>2. InFlightOn(Server) >= 1 /\ InFlightOn(Server) \in Nat /\ Cardinality(Replacers) \in Nat
        BY <1>2, <4>1, AbroadCounts, AcceptingIsNat
      <4>3. Accepting # 0
        BY <4>2 DEF Accepting
      <4>4. QED
        BY <1>2, <4>3 DEF ServerSound
    <3>3. ~Unserved'
      BY <1>3, <3>2 DEF Unserved
    <3>4. QED
      BY <1>2, <1>3, <3>1, <3>3 DEF ServerSound
  <2>5. QED
    BY <1>1, <2>3, <2>4
<1>7. ClientSound'
  <2>1. ~OnClient(th) /\ ~OnClient(th)'
    BY <1>1, <1>2 DEF OnClient
  <2>2. /\ \A u \in Threads : OnClient(u)' <=> OnClient(u)
        /\ \A u \in Threads : OnClient(u) => doing'[u] = doing[u]
    BY <1>1, <2>1 DEF OnClient
  <2>3. QED
    BY <1>2, <1>3, <2>2, ClientKept DEF InOp
<1>8. QED
  BY <1>4, <1>5, <1>6, <1>7 DEF NetInv

LEMMA CancelAcceptSound ==
  ASSUME NetState, NetInv, NEW th \in Threads, CancelAccept(th)
  PROVE  NetInv'
<1>1. /\ NetState' /\ Loses(PacketOf(doing, th)) /\ PacketOf(doing, th) \in Packets
      /\ At(th, "undo") /\ doing[th].on = Server /\ doing'[th] = None /\ step'[th] = "failed"
      /\ \A x \in Threads \ {th} : doing'[x] = doing[x] /\ step'[x] = step[x]
  BY CancelAcceptLoses
<1>2. /\ PacketsSound /\ PoolSound /\ ServerSound /\ ClientSound /\ ContextTypes
      /\ Counted /\ Counted' /\ Server \in Transports /\ Server # Client
      /\ doing[th] # None /\ PacketOf(doing, th)[2] = Server
      /\ PacketOf(doing, th)[1] = doing[th].ctx /\ doing[th].ctx \in Contexts
  BY <1>1, SocketAssumption, DoingIs DEF NetInv, NetState, BaseTypes, PortInv, At
<1>3. /\ Undo(th) /\ step[th] = "undo" /\ call' = call /\ listener' = listener
      /\ closed' = closed /\ attached' = attached /\ skips' = skips /\ pool' = pool
      /\ fatal' = fatal /\ UNCHANGED <<connecting, told, cancelled>>
  BY DEF CancelAccept, Undo, transportVars, pollVars, deliveryVars, clientUnchanged
<1>4. Abroad(PacketOf(doing, th))
  BY <1>1, <1>2, LosesAll
<1>5. doing[th].ctx # connecting
  BY <1>1, <1>2, <1>4 DEF PacketsSound
<1>6. \A c \in Contexts : request'[c] = request[c] \/ (request'[c] = "None" /\ c = doing[th].ctx)
  BY <1>2, <1>3 DEF Undo, Unlink, Take, ContextTypes
<1>7. PacketsSound'
  BY <1>1, <1>2, <1>3, <1>6, NothingNew, PacketsKept
<1>8. PoolSound'
  BY <1>2, <1>3, <1>6, PoolKept DEF InServer
<1>9. ServerSound'
  <2>1. ~Replacing(th) /\ Replacing(th)'
    BY <1>1, <1>3 DEF Replacing
  <2>2. Cardinality(Replacers') = Cardinality(Replacers) + 1
    BY <1>1, <1>3, <2>1, ReplacersChange DEF InServer
  <2>3. InFlightOn(Server)' = InFlightOn(Server) - 1 /\ InFlightOn(Server) \in Nat
    <3>1. /\ InFlightOn(Server)' = InFlightOn(Server) - If(Server = PacketOf(doing, th)[2])
          /\ InFlightOn(Server) \in Nat
      BY <1>1, <1>2, LosesAll
    <3>2. If(Server = PacketOf(doing, th)[2]) = 1
      BY <1>2 DEF If
    <3>3. QED
      BY <3>1, <3>2
  <2>4. Accepting' = Accepting
    BY <2>2, <2>3, ReplacersFinite DEF Accepting
  <2>5. QED
    BY <1>2, <1>3, <2>4, ServerKept
<1>10. ClientSound'
  <2>1. ~OnClient(th) /\ ~OnClient(th)'
    BY <1>1, <1>2 DEF OnClient
  <2>2. /\ \A u \in Threads : OnClient(u)' <=> OnClient(u)
        /\ \A u \in Threads : OnClient(u) => doing'[u] = doing[u]
    BY <1>1, <2>1 DEF OnClient
  <2>3. connecting # None => request'[connecting] = request[connecting]
    BY <1>5, <1>6 DEF NetState, NetTypeOK
  <2>4. QED
    BY <1>2, <1>3, <2>2, <2>3, ClientKept DEF InOp
<1>11. QED
  BY <1>7, <1>8, <1>9, <1>10 DEF NetInv

LEMMA RequestFailedSound ==
  ASSUME NetState, NetInv, NEW th \in Threads, RequestFailed(th)
  PROVE  NetInv'
<1>1. /\ NetState' /\ Keeps /\ step'[th] = "out"
      /\ \A x \in Threads \ {th} : step'[x] = step[x]
      /\ \A x \in Pollers \ {th} : call'[x] = call[x]
      /\ th \in Pollers => call'[th] = None
  BY RequestFailedKeeps
<1>2. /\ PacketsSound /\ PoolSound /\ ServerSound /\ ClientSound /\ Counted /\ Agrees(th)
  BY DEF NetInv, NetState, PortInv
<1>3. /\ step[th] = "failed" /\ fatal' = TRUE /\ closed \subseteq closed'
      /\ request' = request /\ listener' = listener /\ attached' = attached /\ skips' = skips
      /\ doing' = doing /\ pool' = pool /\ UNCHANGED <<connecting, told, cancelled>>
  BY DEF RequestFailed, contextVars, deliveryVars, clientUnchanged
<1>4. PacketsSound'
  BY <1>1, <1>2, <1>3, NothingNew, PacketsKept
<1>5. PoolSound'
  <2>1. \A p \in Pollers : InServer(p)' => InServer(p) /\ call'[p] = call[p]
    BY <1>1 DEF InServer
  <2>2. QED
    BY <1>2, <1>3, <2>1, PoolKept
<1>6. ServerSound'
  <2>1. Replacing(th) /\ th \in Replacers
    BY <1>3 DEF Replacing, Replacers
  <2>2. Cardinality(Replacers) # 0 /\ Cardinality(Replacers) \in Nat /\ InFlightOn(Server) \in Nat
    BY <1>2, <2>1, AcceptingIsNat, ReplacersFinite, FS_EmptySet
  <2>3. Accepting # 0
    BY <2>2 DEF Accepting
  <2>4. ~Unserved' /\ ~Serving'
    BY <1>2, <1>3, <2>3 DEF ServerSound, Unserved, Serving
  <2>5. QED
    BY <1>2, <1>3, <2>4 DEF ServerSound
<1>7. ClientSound'
  <2>1. \A p \in Pollers : InOp(p)' <=> InOp(p)
    <3>1. th \in Pollers => InServer(th)
      BY <1>2, <1>3 DEF Agrees
    <3>2. QED
      BY <1>1, <3>1 DEF InOp, InServer
  <2>2. QED
    BY <1>2, <1>3, <2>1, ClientKept DEF OnClient
<1>8. QED
  BY <1>4, <1>5, <1>6, <1>7 DEF NetInv

LEMMA AcceptToldSound ==
  ASSUME NetState, NetInv, NEW p \in Pollers, AcceptTold(p)
  PROVE  NetInv'
<1>1. /\ NetState' /\ Keeps /\ step'[p] = "out"
      /\ call[p] # None /\ call[p].to = "server" /\ call[p].ctx \in Contexts
      /\ \A x \in Threads \ {p} : step'[x] = step[x]
      /\ \A x \in Pollers \ {p} : call'[x] = call[x]
      /\ call'[p] = None
  BY AcceptToldKeeps
<1>2. /\ PacketsSound /\ PoolSound /\ ServerSound /\ ClientSound /\ NetTypeOK /\ p \in Threads
  BY DEF NetInv, NetState, Threads
<1>3. /\ step[p] = "rest" /\ pool' = Append(pool, call[p].ctx) /\ fatal' = fatal
      /\ request' = request /\ listener' = listener /\ closed' = closed
      /\ attached' = attached /\ skips' = skips
      /\ doing' = doing /\ UNCHANGED <<connecting, told, cancelled>>
  BY DEF AcceptTold, contextVars, transportVars, deliveryVars, clientUnchanged
<1>4. PacketsSound'
  BY <1>1, <1>2, <1>3, NothingNew, PacketsKept
<1>5. InServer(p) /\ ~InServer(p)' /\ \A x \in Pollers \ {p} : InServer(x)' <=> InServer(x)
  BY <1>1 DEF InServer
<1>6. PoolSound'
  <2>1. /\ request[call[p].ctx] = "None" /\ call[p].ctx \notin ToSet(pool)
        /\ call[p].ctx # connecting
        /\ \A q \in Pollers : InServer(q) /\ call[p].ctx = call[q].ctx => p = q
    BY <1>2, <1>5 DEF PoolSound
  <2>2. IsInjective(pool') /\ ToSet(pool') = ToSet(pool) \cup {call[p].ctx}
    BY <1>1, <1>2, <1>3, <2>1, PoolGrows DEF NetTypeOK, PoolSound
  <2>3. \A c \in ToSet(pool') : request'[c] = "None" /\ c # connecting'
    BY <1>2, <1>3, <2>1, <2>2 DEF PoolSound
  <2>4. \A x \in Pollers : InServer(x)' =>
          /\ request'[call'[x].ctx] = "None" /\ call'[x].ctx \notin ToSet(pool')
          /\ call'[x].ctx # connecting'
          /\ \A q \in Pollers : InServer(q)' /\ call'[x].ctx = call'[q].ctx => x = q
    <3>1. ASSUME NEW x \in Pollers, InServer(x)'
          PROVE  /\ x # p /\ InServer(x) /\ call'[x] = call[x] /\ call[x].ctx # call[p].ctx
      BY <1>1, <1>5, <2>1, <3>1
    <3>2. QED
      BY <1>2, <1>3, <2>2, <3>1 DEF PoolSound
  <2>5. QED
    BY <2>2, <2>3, <2>4 DEF PoolSound
<1>7. ServerSound'
  <2>1. ~Replacing(p) /\ ~Replacing(p)'
    BY <1>1, <1>3, <1>5 DEF Replacing
  <2>2. Cardinality(Replacers') = Cardinality(Replacers)
    BY <1>1, <1>2, <1>5, <2>1, ReplacersChange
  <2>3. Accepting' = Accepting
    BY <1>1, <2>2, ServerCount DEF Accepting
  <2>4. QED
    BY <1>2, <1>3, <2>3, ServerKept
<1>8. ClientSound'
  <2>1. \A x \in Pollers : InOp(x)' <=> InOp(x)
    BY <1>1 DEF InOp
  <2>2. QED
    BY <1>2, <1>3, <2>1, ClientKept DEF OnClient
<1>9. QED
  BY <1>4, <1>6, <1>7, <1>8 DEF NetInv

LEMMA OnConnectedSound ==
  ASSUME NetState, NetInv, NEW p \in Pollers, OnConnected(p)
  PROVE  NetInv'
<1>1. /\ NetState' /\ Keeps
      /\ \A x \in Pollers \ {p} : call'[x] = call[x]
      /\ call'[p] = None
  BY OnConnectedKeeps
<1>2. /\ PacketsSound /\ PoolSound /\ ServerSound /\ ClientSound /\ NetTypeOK /\ ListenerTypes
      /\ Server # Client /\ Server \in Transports /\ Client \in Transports
  BY SocketAssumption DEF NetInv, NetState, BaseTypes, TransportTypes
<1>3. /\ call[p] # None /\ call[p].to = "op" /\ UNCHANGED <<pool, step, fatal>>
      /\ told' = Append(told, "OnConnectFailed") \/ told' = Append(told, "OnConnect")
      /\ UNCHANGED listener \/ listener' = [listener EXCEPT ![Client] = "user"]
      /\ request' = request /\ closed' = closed /\ attached' = attached /\ skips' = skips
      /\ doing' = doing /\ UNCHANGED <<connecting, cancelled>>
  BY DEF OnConnected, contextVars, deliveryVars, serverUnchanged
<1>4. PacketsSound'
  BY <1>1, <1>2, <1>3, NothingNew, PacketsKept
<1>5. \A x \in Pollers : InServer(x)' <=> InServer(x)
  BY <1>1, <1>3 DEF InServer
<1>6. PoolSound'
  <2>1. \A x \in Pollers : InServer(x)' => InServer(x) /\ call'[x] = call[x]
    BY <1>1, <1>3 DEF InServer
  <2>2. QED
    BY <1>2, <1>3, <2>1, PoolKept
<1>7. listener'[Server] = listener[Server] /\ listener'[Client] \in {listener[Client], "user"}
  BY <1>2, <1>3 DEF ListenerTypes
<1>8. ServerSound'
  <2>1. Accepting' = Accepting
    BY <1>1, <1>3, <1>5, ServerCount, ReplacersSame DEF Accepting
  <2>2. QED
    BY <1>2, <1>3, <1>7, <2>1, ServerKept
<1>9. ClientSound'
  <2>1. InOp(p)
    BY <1>3 DEF InOp
  <2>2. connecting # None /\ request[connecting] = "None" /\ \A x \in Pollers : InOp(x) => p = x
    BY <1>2, <2>1 DEF ClientSound
  <2>3. told = <<>> /\ ~cancelled
    BY <1>2, <2>1, <2>2 DEF ClientSound
  <2>4. \A u \in Threads : ~OnClient(u)
    BY <2>1, WhileCreating
  <2>5. \A x \in Pollers : ~InOp(x)'
    BY <1>1, <2>2 DEF InOp
  <2>6. \A u \in Threads : ~OnClient(u)'
    BY <1>3, <2>4 DEF OnClient
  <2>7. Len(told') = 1
    BY <1>3, <2>3
  <2>8. /\ listener'[Client] \in {None, "op", "user"} /\ listener'[Client] # None
        /\ connecting' # None /\ ~cancelled'
    BY <1>2, <1>3, <1>7, <2>2, <2>3, NoneAssumption DEF ClientSound
  <2>9. QED
    BY <1>3, <2>2, <2>5, <2>6, <2>7, <2>8 DEF ClientSound
<1>10. QED
  BY <1>4, <1>6, <1>8, <1>9 DEF NetInv

LEMMA SetsUpSound ==
  ASSUME NetState, NetInv,
         \/ \E th \in Threads : CloseServer(th)
         \/ ClearListener(Server) /\ UNCHANGED netVars
         \/ \E mode \in {"enabled", "required"} : EnableImmediateDelivery(mode) /\ UNCHANGED netVars
  PROVE  NetInv'
<1>1. NetState' /\ Keeps
  BY SetsUpKeeps
<1>2. /\ PacketsSound /\ PoolSound /\ ServerSound /\ ClientSound /\ ListenerTypes
      /\ Server # Client /\ Server \in Transports /\ Client \in Transports
  BY SocketAssumption DEF NetInv, NetState, BaseTypes, TransportTypes
<1>3. /\ UNCHANGED <<pool, step, fatal>> /\ UNCHANGED <<connecting, told, cancelled>>
      /\ request' = request /\ doing' = doing /\ call' = call /\ skips' = skips
      /\ \/ UNCHANGED <<closed, attached, listener>>
         \/ closed' = closed \cup {Server} /\ UNCHANGED <<attached, listener>>
         \/ Server \in closed /\ closed' = closed /\ listener' = [listener EXCEPT ![Server] = None]
  BY DEF CloseServer, CloseHandle, ClearListener, EnableImmediateDelivery, netVars, portVars,
         contextVars, transportVars, pollVars, deliveryVars
<1>4. PacketsSound'
  BY <1>1, <1>2, <1>3, NothingNew, PacketsKept
<1>5. PoolSound'
  BY <1>2, <1>3, PoolKept DEF InServer
<1>6. ServerSound'
  <2>1. CASE UNCHANGED <<closed, attached, listener>>
    <3>1. Accepting' = Accepting
      BY <1>1, <1>3, ServerCount, ReplacersSame DEF Accepting, InServer
    <3>2. QED
      BY <1>2, <1>3, <2>1, <3>1, ServerKept
  <2>2. CASE Server \in closed'
    <3>1. listener'[Server] \in {None, "server"}
      BY <1>2, <1>3 DEF ServerSound, ListenerTypes
    <3>2. QED
      BY <2>2, <3>1 DEF ServerSound, Unserved, Serving
  <2>3. QED
    BY <1>3, <2>1, <2>2
<1>7. ClientSound'
  <2>1. listener'[Client] = listener[Client]
    BY <1>2, <1>3 DEF ListenerTypes
  <2>2. QED
    BY <1>2, <1>3, <2>1, ClientKept DEF OnClient, InOp
<1>8. QED
  BY <1>4, <1>5, <1>6, <1>7 DEF NetInv

LEMMA NetPollSound ==
  ASSUME NetState, NetInv, UNCHANGED <<deliveryVars, userVars, netVars>>,
         \/ \E p \in Pollers : PollOne(p) \/ Poll(p)
         \/ \E b \in busy : Completes(b)
  PROVE  NetInv'
<1>1. NetState' /\ Keeps
  BY NetPollKeeps
<1>2. PacketsSound /\ PoolSound /\ ServerSound /\ ClientSound
  BY DEF NetInv
<1>3. /\ UNCHANGED <<pool, step, fatal>> /\ UNCHANGED <<connecting, told, cancelled>>
      /\ request' = request /\ doing' = doing /\ call' = call /\ skips' = skips
      /\ UNCHANGED <<closed, attached, listener>>
  BY DEF PollOne, Poll, Dequeue, Completes, netVars, contextVars, transportVars, pollVars,
         deliveryVars
<1>4. PacketsSound'
  BY <1>1, <1>2, <1>3, NothingNew, PacketsKept
<1>5. PoolSound'
  BY <1>2, <1>3, PoolKept DEF InServer
<1>6. ServerSound'
  <2>1. Accepting' = Accepting
    BY <1>1, <1>3, ServerCount, ReplacersSame DEF Accepting, InServer
  <2>2. QED
    BY <1>2, <1>3, <2>1, ServerKept
<1>7. ClientSound'
  BY <1>2, <1>3, ClientKept DEF OnClient, InOp
<1>8. QED
  BY <1>4, <1>5, <1>6, <1>7 DEF NetInv

\* A packet of a request, when the listener is told.
LEMMA RequestTold ==
  ASSUME NetState, PacketsSound, NEW p \in Pollers, NEW x \in Packets, NEW result \in {"done", "error"},
         TellsRequest(p, x, result)
  PROVE  /\ x[1] \in Contexts /\ x[2] \notin closed /\ request[x[1]] = "Other"
         /\ request'[x[1]] = "None" /\ \A d \in Contexts : d # x[1] => request'[d] = request[d]
         /\ call'[p] # None /\ call'[p].to = listener[x[2]] /\ call'[p].ctx = x[1]
<1>1. x[1] \in Contexts /\ x[2] \in Transports /\ ContextTypes /\ ListenerTypes /\ PollTypes
  BY DEF NetState, BaseTypes, TransportTypes, Packets, TellsRequest
<1>2. request[x[1]] = "Other" /\ x[2] \notin closed
  BY <1>1 DEF TellsRequest, Cancellable, Discarded, PacketsSound
<1>3. request' = [request EXCEPT ![x[1]] = "None"]
  BY <1>2 DEF TellsRequest, Take, Detaches
<1>4. request'[x[1]] = "None" /\ \A d \in Contexts : d # x[1] => request'[d] = request[d]
  BY <1>1, <1>3 DEF ContextTypes
<1>5. call'[p] = Notice(listener[x[2]], x, result)
  BY <1>1 DEF TellsRequest, PollTypes
<1>6. call'[p] # None /\ call'[p].to = listener[x[2]] /\ call'[p].ctx = x[1]
  BY <1>1, <1>5, NoticeIs
<1>7. QED
  BY <1>1, <1>2, <1>4, <1>6

\* The client is told after Create() is done with the request, and once.
LEMMA NotCreating ==
  ASSUME NetState, NetState', PacketsSound, NEW x \in Packets, Loses(x), x[1] = connecting,
         doing' = doing
  PROVE  \A u \in Threads : ~OnClient(u)
<1> SUFFICES ASSUME NEW u \in Threads, OnClient(u) PROVE FALSE
  OBVIOUS
<1> PICK y : y = PacketOf(doing, u)
  OBVIOUS
<1>1. Counted /\ Counted'
  BY DEF NetState, PortInv
<1>2. /\ Carries(doing, u) /\ y \in Packets /\ y[1] = connecting
      /\ connecting \in Contexts /\ InFlight(connecting) <= 1
  BY ClientCarries
<1>3. Carries(doing', u) /\ y = PacketOf(doing', u)
  BY <1>2
<1>4. Abroad(y)'
  BY <1>1, <1>3, CarriedIsAbroad
<1>5. InFlight(y[1])' \in Nat /\ InFlight(y[1])' >= 1
  BY <1>1, <1>2, <1>4, AbroadCountsNext
<1>6. InFlight(y[1]) \in Nat /\ InFlight(y[1])' = InFlight(y[1]) - If(y[1] = x[1])
  BY <1>1, <1>2, LosesAll
<1>7. If(y[1] = x[1]) = 1 /\ InFlight(y[1]) <= 1
  BY <1>2 DEF If
<1>8. QED
  BY <1>5, <1>6, <1>7

\* What a packet leaves of the server: it is discarded when the server is closed,
\* and the thread that is told of it has to make the next request.
LEMMA ServerTold ==
  ASSUME NetState, NetInv, NetState', NEW p \in Pollers, NEW x \in Packets, Loses(x), x[2] = Server,
         step' = step, transportVars' = transportVars, skips' = skips, fatal' = fatal, call[p] = None,
         \A y \in Pollers \ {p} : call'[y] = call[y],
         Server \in closed \/ (call'[p] # None /\ call'[p].to = listener[Server])
  PROVE  ServerSound' /\ (Server \notin closed => listener[Server] = "server")
<1>1. /\ ServerSound /\ Counted /\ Counted' /\ Server \in Transports /\ p \in Threads /\ Agrees(p)
      /\ listener' = listener /\ closed' = closed /\ attached' = attached
  BY SocketAssumption DEF NetInv, NetState, PortInv, transportVars, Threads
<1>2. CASE Server \in closed
  BY <1>1, <1>2 DEF ServerSound, Unserved, Serving
<1>3. CASE Server \notin closed
  <2>1. /\ InFlightOn(Server) \in Nat /\ InFlightOn(Server)' = InFlightOn(Server) - If(Server = x[2])
        /\ Abroad(x)
    BY <1>1, LosesAll
  <2>2. If(Server = x[2]) = 1
    BY DEF If
  <2>3. InFlightOn(Server) >= 1
    BY <1>1, <2>1, AbroadCounts
  <2>4. Cardinality(Replacers) \in Nat
    BY ReplacersFinite
  <2>5. Accepting # 0
    BY <2>1, <2>3, <2>4 DEF Accepting
  <2>6. listener[Server] = "server"
    BY <1>1, <1>3, <2>5 DEF ServerSound, Unserved
  <2>7. ~InServer(p) /\ InServer(p)' /\ step[p] = "out"
    BY <1>1, <1>3, <2>6 DEF InServer, Agrees
  <2>8. ~Replacing(p) /\ Replacing(p)'
    BY <1>1, <2>7 DEF Replacing
  <2>9. \A y \in Pollers \ {p} : InServer(y)' <=> InServer(y)
    BY DEF InServer
  <2>10. Cardinality(Replacers') = Cardinality(Replacers) + 1
    BY <1>1, <2>8, <2>9, ReplacersChange
  <2>11. Accepting' = Accepting
    BY <2>1, <2>2, <2>4, <2>10 DEF Accepting
  <2>12. QED
    BY <1>1, <2>6, <2>11, ServerKept
<1>4. QED
  BY <1>2, <1>3

LEMMA NetDispatchSound ==
  ASSUME NetState, NetInv, NEW p \in Pollers, NEW result \in {"done", "error"}, Dispatch(p, result),
         UNCHANGED <<deliveryVars, userVars, netVars>>
  PROVE  NetInv'
<1> PICK x : x = FirstOf(entries, p)
  OBVIOUS
<1>1. /\ NetState' /\ x \in Packets /\ Loses(x) /\ call[p] = None
      /\ TellsMessage(p, x, result) \/ TellsRequest(p, x, result) \/ Discards(x)
      /\ \A y \in Pollers \ {p} : call'[y] = call[y]
  BY NetDispatchLoses
<1>2. /\ UNCHANGED transportVars /\ doing' = doing
  BY DispatchIs
<1>3. /\ listener' = listener /\ closed' = closed /\ attached' = attached /\ skips' = skips
      /\ pool' = pool /\ step' = step /\ fatal' = fatal
      /\ connecting' = connecting /\ told' = told /\ cancelled' = cancelled
  BY <1>2 DEF transportVars, deliveryVars, netVars
<1>4. /\ PacketsSound /\ PoolSound /\ ServerSound /\ ClientSound /\ Counted /\ Counted'
      /\ Server \in Transports /\ Server # Client /\ NetTypeOK /\ PollTypes
  BY <1>1, SocketAssumption DEF NetInv, NetState, BaseTypes, PortInv
<1>5. /\ Abroad(x) /\ x[1] \in Contexts
      /\ x[2] \in {Server, Client} /\ (x[2] = Client <=> x[1] = connecting)
  BY <1>1, <1>4, LosesAll, AbroadCounts DEF PacketsSound
<1>6. ~TellsMessage(p, x, result)
  BY <1>4, <1>5 DEF TellsMessage, PacketsSound
<1>7. \A y \in Packets : Abroad(y)' => Abroad(y)
  BY <1>1, NothingNew
<1>8. CASE Discards(x)
  <2>1. request' = request /\ call' = call /\ Discarded(x[1], x[2])
    BY <1>8 DEF Discards
  <2>2. PacketsSound'
    BY <1>3, <1>4, <1>7, <2>1, PacketsKept
  <2>3. PoolSound'
    BY <1>3, <1>4, <2>1, PoolKept DEF InServer
  <2>4. ClientSound'
    BY <1>2, <1>3, <1>4, <2>1, ClientKept DEF InOp, OnClient
  <2>5. ServerSound'
    <3>1. CASE x[2] = Client
      <4>1. InFlightOn(Server)' = InFlightOn(Server)
        BY <1>1, <3>1, ServerCount
      <4>2. Replacers' = Replacers
        BY <1>3, <2>1, ReplacersSame DEF InServer
      <4>3. Accepting' = Accepting
        BY <4>1, <4>2 DEF Accepting
      <4>4. QED
        BY <1>3, <1>4, <4>3, ServerKept
    <3>2. CASE x[2] = Server
      <4>1. Server \in closed
        BY <1>4, <1>5, <2>1, <3>2 DEF Discarded, PacketsSound
      <4>2. QED
        BY <1>1, <1>2, <1>3, <3>2, <4>1, ServerTold
    <3>3. QED
      BY <1>5, <3>1, <3>2
  <2>6. QED
    BY <2>2, <2>3, <2>4, <2>5 DEF NetInv
<1>9. CASE TellsRequest(p, x, result)
  <2>1. /\ x[2] \notin closed /\ request[x[1]] = "Other"
        /\ request'[x[1]] = "None" /\ \A d \in Contexts : d # x[1] => request'[d] = request[d]
        /\ call'[p] # None /\ call'[p].to = listener[x[2]] /\ call'[p].ctx = x[1]
    BY <1>1, <1>4, <1>9, RequestTold
  <2>2. PacketsSound'
    BY <1>3, <1>4, <1>7, <2>1, PacketsKept
  <2>3. \A d \in Contexts : request[d] = "None" => request'[d] = "None" /\ d # x[1]
    BY <2>1
  <2>4. CASE x[2] = Server
    <3>1. ServerSound' /\ listener[Server] = "server"
      BY <1>1, <1>2, <1>3, <2>1, <2>4, ServerTold
    <3>2. /\ InServer(p)' /\ call'[p].ctx = x[1] /\ ~InOp(p) /\ ~InOp(p)'
          /\ \A y \in Pollers \ {p} : (InServer(y)' <=> InServer(y)) /\ (InOp(y)' <=> InOp(y))
      BY <1>1, <2>1, <2>4, <3>1 DEF InServer, InOp
    <3>3. PoolSound'
      <4>1. \A c \in ToSet(pool) : c \in Contexts
        BY <1>4 DEF NetTypeOK, ToSet
      <4>2. \A y \in Pollers : InServer(y) => call[y].ctx \in Contexts
        BY <1>4 DEF PollTypes, InServer, Notices
      <4>3. x[1] \notin ToSet(pool) /\ x[1] # connecting
        BY <1>4, <1>5, <2>1, <2>4 DEF PoolSound
      <4>4. IsInjective(pool') /\ \A c \in ToSet(pool') : request'[c] = "None" /\ c # connecting'
        BY <1>3, <1>4, <2>3, <4>1 DEF PoolSound
      <4>5. \A y \in Pollers \ {p} : InServer(y)' =>
              /\ InServer(y) /\ call'[y] = call[y] /\ call[y].ctx \in Contexts
              /\ request[call[y].ctx] = "None" /\ call[y].ctx \notin ToSet(pool)
              /\ call[y].ctx # connecting /\ call[y].ctx # x[1]
        BY <1>1, <1>4, <2>3, <3>2, <4>2 DEF PoolSound
      <4>6. ASSUME NEW y \in Pollers, InServer(y)'
            PROVE  /\ request'[call'[y].ctx] = "None" /\ call'[y].ctx \notin ToSet(pool')
                   /\ call'[y].ctx # connecting'
                   /\ \A q \in Pollers : InServer(q)' /\ call'[y].ctx = call'[q].ctx => y = q
        <5>1. CASE y = p
          BY <1>3, <2>1, <4>3, <4>5, <4>6, <5>1
        <5>2. CASE y # p
          <6>1. /\ InServer(y) /\ call'[y] = call[y] /\ call[y].ctx \in Contexts
                /\ request'[call[y].ctx] = "None" /\ call[y].ctx \notin ToSet(pool)
                /\ call[y].ctx # connecting /\ call[y].ctx # x[1]
            BY <2>3, <4>5, <4>6, <5>2
          <6>2. ASSUME NEW q \in Pollers, InServer(q)', call'[y].ctx = call'[q].ctx PROVE y = q
            <7>1. q # p
              BY <2>1, <6>1, <6>2
            <7>2. InServer(q) /\ call'[q] = call[q]
              BY <4>5, <6>2, <7>1
            <7>3. QED
              BY <1>4, <6>1, <6>2, <7>2 DEF PoolSound
          <6>3. QED
            BY <1>3, <6>1, <6>2
        <5>3. QED
          BY <5>1, <5>2
      <4>7. QED
        BY <4>4, <4>6 DEF PoolSound
    <3>4. ClientSound'
      <4>1. connecting # None => request'[connecting] = request[connecting]
        BY <1>4, <1>5, <2>1, <2>4 DEF NetTypeOK
      <4>2. \A y \in Pollers : InOp(y)' <=> InOp(y)
        BY <3>2
      <4>3. QED
        BY <1>2, <1>3, <1>4, <4>1, <4>2, ClientKept DEF OnClient
    <3>5. QED
      BY <2>2, <3>1, <3>3, <3>4 DEF NetInv
  <2>5. CASE x[2] = Client
    <3>1. x[1] = connecting /\ connecting # None /\ listener[Client] \in {"op", "user"}
      BY <1>4, <1>5, <2>5, NoneAssumption DEF ClientSound
    <3>2. \A u \in Threads : ~OnClient(u)
      BY <1>1, <1>2, <1>4, <3>1, NotCreating
    <3>3. ~InServer(p)' /\ ~InServer(p)
      BY <1>1, <2>1, <2>5, <3>1 DEF InServer
    <3>4. \A y \in Pollers : InServer(y)' <=> InServer(y)
      BY <1>1, <3>3 DEF InServer
    <3>5. PoolSound'
      <4>1. \A y \in Pollers : InServer(y)' => InServer(y) /\ call'[y] = call[y]
        BY <1>1, <3>3, <3>4
      <4>2. QED
        BY <1>3, <1>4, <2>3, <4>1, PoolKept
    <3>6. ServerSound'
      <4>1. InFlightOn(Server)' = InFlightOn(Server)
        BY <1>1, <2>5, ServerCount
      <4>2. Replacers' = Replacers
        BY <1>3, <3>4, ReplacersSame
      <4>3. Accepting' = Accepting
        BY <4>1, <4>2 DEF Accepting
      <4>4. QED
        BY <1>3, <1>4, <4>3, ServerKept
    <3>7. ClientSound'
      <4>1. told = <<>> /\ ~cancelled /\ \A y \in Pollers : ~InOp(y)
        BY <1>4, <2>1, <3>1, <3>2 DEF ClientSound
      <4>2. \A y \in Pollers : InOp(y)' => y = p
        BY <1>1, <4>1 DEF InOp
      <4>3. \A u \in Threads : ~OnClient(u)'
        BY <1>2, <3>2 DEF OnClient
      <4>4. listener'[Client] # None
        BY <1>3, <3>1, NoneAssumption
      <4>5. QED
        BY <1>3, <2>1, <3>1, <4>1, <4>2, <4>3, <4>4 DEF ClientSound
    <3>8. QED
      BY <2>2, <3>5, <3>6, <3>7 DEF NetInv
  <2>6. QED
    BY <1>5, <2>4, <2>5
<1>10. QED
  BY <1>1, <1>6, <1>8, <1>9

LEMMA NetInvStep ==
  ASSUME NetState, NetInv, NetNext
  PROVE  NetInv'
<1>1. ASSUME NEW u \in Users, NetUsers(u) PROVE NetInv'
  BY <1>1, CreateServerSound, CreateClientSound, ConnectExSound, CancelRequestSound,
     CancelConnectSound DEF NetUsers
<1>2. ASSUME NEW th \in Threads, NetServer(th) PROVE NetInv'
  BY <1>2, WaitsSound, CancelAcceptSound, RequestFailedSound, SetsUpSound, StartRequestSound,
     AcceptExSound DEF NetServer
<1>3. ASSUME NEW p \in Pollers, NetPoller(p) PROVE NetInv'
  BY <1>3, NetPollSound, NetDispatchSound, WaitsSound, AcceptToldSound, OnConnectedSound
     DEF NetPoller, Threads
<1>4. ASSUME NEW b \in busy, Completes(b), UNCHANGED <<deliveryVars, userVars, netVars>>
      PROVE  NetInv'
  BY <1>4, NetPollSound
<1>5. QED
  BY <1>1, <1>2, <1>3, <1>4, SetsUpSound DEF NetNext

LEMMA RestsSound ==
  ASSUME NetState, NetState', NetInv, Keeps, UNCHANGED <<transportVars, contextVars, deliveryVars, netVars>>,
         call' = call, doing' = doing
  PROVE  NetInv'
<1>1. PacketsSound /\ PoolSound /\ ServerSound /\ ClientSound
  BY DEF NetInv
<1>2. /\ UNCHANGED <<pool, step, fatal>> /\ UNCHANGED <<connecting, told, cancelled>>
      /\ request' = request /\ skips' = skips /\ UNCHANGED <<closed, attached, listener>>
  BY DEF netVars, contextVars, transportVars, deliveryVars
<1>3. PacketsSound'
  BY <1>1, <1>2, NothingNew, PacketsKept
<1>4. PoolSound'
  BY <1>1, <1>2, PoolKept DEF InServer
<1>5. ServerSound'
  <2>1. Accepting' = Accepting
    BY <1>2, ServerCount, ReplacersSame DEF Accepting, InServer
  <2>2. QED
    BY <1>1, <1>2, <2>1, ServerKept
<1>6. ClientSound'
  BY <1>1, <1>2, ClientKept DEF OnClient, InOp
<1>7. QED
  BY <1>3, <1>4, <1>5, <1>6 DEF NetInv

\* No server and no client is there in the other programs.
Unused == told = <<>> /\ pool = <<>> /\ ~cancelled /\ listener[Server] # "server"

NetworkingInv == IF program = "networking" THEN NetInv ELSE Unused

LEMMA StaysUnused ==
  ASSUME Unused, UNCHANGED netVars, ListenerTypes,
         \/ UNCHANGED transportVars
         \/ \E t \in Transports : listener' = [listener EXCEPT ![t] = "user"]
         \/ \E t \in Transports : listener' = [listener EXCEPT ![t] = None]
         \/ listener' = listener
  PROVE  Unused'
<1>1. told' = <<>> /\ pool' = <<>> /\ ~cancelled'
  BY DEF Unused, netVars
<1>2. Server \in Transports /\ None # "server"
  BY SocketAssumption, NoneAssumption
<1>3. listener'[Server] # "server"
  BY <1>2 DEF Unused, ListenerTypes, transportVars
<1>4. QED
  BY <1>1, <1>3 DEF Unused

\* What the users of transports, and the event loop, do to the transports.
LEMMA UsersListen ==
  ASSUME NEW t \in Transports, TransportsNext(t)
  PROVE  \/ UNCHANGED transportVars
         \/ \E x \in Transports : listener' = [listener EXCEPT ![x] = "user"]
         \/ \E x \in Transports : listener' = [listener EXCEPT ![x] = None]
         \/ listener' = listener
<1>1. CASE Attach(t) \/ CloseHandle(t) \/ ClearListener(t)
  BY <1>1 DEF Attach, AttachTo, Attaches, CloseHandle, ClearListener
<1>2. ASSUME NEW mode, EnableImmediateDelivery(mode) PROVE UNCHANGED transportVars
  BY <1>2 DEF EnableImmediateDelivery, portVars
<1>3. ASSUME NEW u, NEW c, NEW type, Start(u, c, t, type) PROVE UNCHANGED transportVars
  BY <1>3 DEF Start
<1>4. ASSUME NEW u, NEW outcome, Issue(u, outcome) PROVE UNCHANGED transportVars
  BY <1>4 DEF Issue
<1>5. ASSUME NEW u, Returns(u) PROVE UNCHANGED transportVars
  BY <1>5 DEF Returns, Undo
<1>6. ASSUME NEW c, Cancel(t, c) PROVE UNCHANGED transportVars
  BY <1>6 DEF Cancel
<1>7. ASSUME NEW u, NEW c, NEW l, UserPosts(u, c, l) PROVE UNCHANGED transportVars
  BY <1>7 DEF UserPosts, Post
<1>8. ASSUME NEW p, ListenerReturns(p) \/ Notified(p, "done") PROVE UNCHANGED transportVars
  BY <1>8 DEF ListenerReturns, Notified, Dispatch
<1>9. ASSUME NEW u, LinkMessage(u) \/ Send(u) \/ SendFails(u) PROVE UNCHANGED transportVars
  BY <1>9 DEF LinkMessage, Send, SendFails
<1>10. ASSUME NEW p, PollOne(p) \/ Poll(p) PROVE UNCHANGED transportVars
  BY <1>10 DEF PollOne, Poll, Dequeue
<1>11. ASSUME NEW b, Completes(b) PROVE UNCHANGED transportVars
  BY <1>11 DEF Completes
<1>12. QED
  BY <1>1, <1>2, <1>3, <1>4, <1>5, <1>6, <1>7, <1>8, <1>9, <1>10, <1>11 DEF TransportsNext

LEMMA LoopListens ==
  ASSUME LoopNext
  PROVE  UNCHANGED transportVars
<1>1. ASSUME NEW th, PostTask(th) \/ PostQuit(th) \/ SignalChecks(th) \/ SignalClears(th)
      PROVE  UNCHANGED transportVars
  BY <1>1 DEF PostTask, PostQuit, SignalChecks, SignalClears, portVars
<1>2. ASSUME NEW th, SignalPosts(th) PROVE UNCHANGED transportVars
  BY <1>2 DEF SignalPosts, Post
<1>3. ASSUME NEW th, SignalPosted(th) PROVE UNCHANGED transportVars
  BY <1>3 DEF SignalPosted, LinkMessage, SendFails, Send, Undo
<1>4. CASE CheckQuit \/ TaskReturns \/ OnWakeup \/ Shutdown
  BY <1>4 DEF CheckQuit, TaskReturns, OnWakeup, Shutdown, portVars
<1>5. CASE LoopPolls
  BY <1>5 DEF LoopPolls, PollOne, Dequeue, Dispatch
<1>6. QED
  BY <1>1, <1>2, <1>3, <1>4, <1>5 DEF LoopNext

LEMMA NetworkingInit ==
  ASSUME Init
  PROVE  NetworkingInv
<1>1. PortInit /\ NetInit /\ WindowsInv
  BY InitSound DEF Init
<1>2. /\ pool = <<>> /\ told = <<>> /\ connecting = None /\ ~cancelled
      /\ \A th \in Threads : step[th] = "out"
  BY <1>1 DEF NetInit
<1>3. /\ \A c \in Contexts : request[c] = "None"
      /\ \A p \in Pollers : call[p] = None
      /\ \A th \in Threads : doing[th] = None
      /\ listener[Server] = None /\ listener[Client] = None /\ attached = {}
  BY <1>1, SocketAssumption DEF PortInit
<1>4. Unused
  BY <1>2, <1>3, NoneAssumption DEF Unused
<1>5. PacketsSound
  BY <1>1, <1>3, NothingOutstanding DEF PacketsSound, Abroad
<1>6. PoolSound
  BY <1>2, <1>3 DEF PoolSound, IsInjective, ToSet, InServer
<1>7. ServerSound
  <2>1. Replacers = {}
    BY <1>2, <1>3 DEF Replacers, Replacing, InServer
  <2>2. Accepting = 0
    BY <1>1, <2>1, NothingOutstanding, FS_EmptySet DEF Accepting, InFlightOn
  <2>3. QED
    BY <1>3, <2>2, NoneAssumption DEF ServerSound, Serving
<1>8. ClientSound
  BY <1>2, <1>3 DEF ClientSound, InOp, OnClient
<1>9. QED
  BY <1>4, <1>5, <1>6, <1>7, <1>8 DEF NetworkingInv, NetInv

LEMMA NetworkingStep ==
  ASSUME WindowsInv, NetworkingInv, [Next]_vars
  PROVE  NetworkingInv'
<1>1. ListenerTypes
  BY DEF WindowsInv, BaseTypes, TransportTypes
<1>2. CASE Next /\ RunsNetworking
  <2>1. NetState /\ NetInv /\ NetNext /\ program' = "networking"
    BY <1>2 DEF RunsNetworking, WindowsInv, NetworkingInv
  <2>2. NetInv'
    BY <2>1, NetInvStep
  <2>3. QED
    BY <2>1, <2>2 DEF NetworkingInv
<1>3. CASE Next /\ (RunsTransports \/ RunsEventLoop)
  <2>1. program # "networking" /\ program' = program /\ Unused
    BY <1>3, ProgramsApart DEF RunsTransports, RunsEventLoop, NetworkingInv
  <2>2. /\ UNCHANGED netVars
        /\ \/ UNCHANGED transportVars
           \/ \E t \in Transports : listener' = [listener EXCEPT ![t] = "user"]
           \/ \E t \in Transports : listener' = [listener EXCEPT ![t] = None]
           \/ listener' = listener
    <3>1. CASE RunsTransports
      BY <3>1, UsersListen, UsersAssumption DEF RunsTransports
    <3>2. CASE RunsEventLoop
      BY <3>2, LoopListens DEF RunsEventLoop
    <3>3. QED
      BY <1>3, <3>1, <3>2
  <2>3. Unused'
    BY <1>1, <2>1, <2>2, StaysUnused
  <2>4. QED
    BY <2>1, <2>3 DEF NetworkingInv
<1>4. CASE UNCHANGED vars
  <2>1. /\ program' = program /\ UNCHANGED netVars /\ UNCHANGED deliveryVars
        /\ UNCHANGED transportVars /\ UNCHANGED <<contextVars, busy, port, entries, doing>>
        /\ call' = call /\ doing' = doing
    BY <1>4 DEF vars, portVars, pollVars
  <2>2. CASE program = "networking"
    <3>1. NetState /\ NetInv
      BY <2>2 DEF WindowsInv, NetworkingInv
    <3>2. NetState'
      BY <1>4, <2>1, <2>2, UnchangedSound DEF WindowsInv
    <3>3. Keeps
      BY <2>1, <3>1, StillKeeps DEF NetState, PortInv
    <3>4. NetInv'
      BY <2>1, <3>1, <3>2, <3>3, RestsSound
    <3>5. QED
      BY <2>1, <2>2, <3>4 DEF NetworkingInv
  <2>3. CASE program # "networking"
    <3>1. Unused'
      BY <1>1, <2>1, <2>3, StaysUnused DEF NetworkingInv
    <3>2. QED
      BY <2>1, <2>3, <3>1 DEF NetworkingInv
  <2>4. QED
    BY <2>2, <2>3
<1>5. QED
  BY <1>2, <1>3, <1>4 DEF Next

LEMMA NetworkingInvHolds == Spec => []NetworkingInv
<1>1. Init => NetworkingInv
  BY NetworkingInit
<1>2. WindowsInv /\ NetworkingInv /\ [Next]_vars => NetworkingInv'
  BY NetworkingStep
<1>3. QED
  BY <1>1, <1>2, WindowsInvHolds, PTL DEF Spec

LEMMA NetworkingHolds == WindowsInv /\ NetworkingInv => NetworkingSound
<1> SUFFICES ASSUME WindowsInv, NetworkingInv PROVE NetworkingSound
  OBVIOUS
<1>1. CASE program = "networking"
  <2>1. NetState /\ PortInv /\ PoolSound /\ ServerSound /\ ClientSound
    BY <1>1 DEF WindowsInv, NetworkingInv, NetInv, NetState
  <2>2. \A c \in ToSet(pool) : c \in Contexts
    BY <2>1 DEF NetState, NetTypeOK, ToSet
  <2>3. \A c \in ToSet(pool) : request[c] = "None" /\ refs[c] = 0 /\ InFlight(c) = 0
    BY <2>1, <2>2 DEF PoolSound, PortInv, SoundContext
  <2>4. IsInjective(pool)
    BY <2>1 DEF PoolSound
  <2>5. Serving => InFlightOn(Server) + Cardinality({th \in Threads : Replacing(th)}) = 1
    BY <2>1 DEF ServerSound, Accepting, Replacers
  <2>6. AcceptUnderWay
    BY <2>3, <2>4, <2>5 DEF AcceptUnderWay
  <2>7. ToldOnce
    <3>1. Len(told) <= 1
      <4>1. CASE told = <<>>
        <5>1. Len(told) = 0
          BY <4>1
        <5>2. QED
          BY <5>1
      <4>2. CASE told # <<>>
        <5>1. Len(told) = 1
          BY <2>1, <4>2 DEF ClientSound
        <5>2. QED
          BY <5>1
      <4>3. QED
        BY <4>1, <4>2
    <3>2. QED
      BY <2>1, <3>1 DEF ToldOnce, ClientSound
  <2>8. QED
    BY <2>6, <2>7 DEF NetworkingSound
<1>2. CASE program # "networking"
  <2>1. told = <<>> /\ pool = <<>> /\ ~cancelled /\ ~Serving
    BY <1>2 DEF NetworkingInv, Unused, Serving
  <2>2. Len(told) <= 1 /\ IsInjective(pool) /\ ToSet(pool) = {}
    BY <2>1 DEF IsInjective, ToSet
  <2>3. QED
    BY <2>1, <2>2 DEF NetworkingSound, AcceptUnderWay, ToldOnce
<1>3. QED
  BY <1>1, <1>2

\* NetworkingSound: an open server that has not failed has one request of
\* AcceptEx() under way or about to be made, whatever its threads are at; the
\* contexts of its pool are distinct and not in use; the user of a client is told
\* once of its connection, and never when Cancel() found the request with the kernel.
THEOREM NetworkingIsSound == Spec => []NetworkingSound
<1>1. QED
  BY WindowsInvHolds, NetworkingInvHolds, NetworkingHolds, PTL
==============================================================================
