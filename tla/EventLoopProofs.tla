--------------------------- MODULE EventLoopProofs ---------------------------
(***************************************************************************)
(* PosixEventLoopForIO is type-correct and loses no wakeup: Loop() does    *)
(* not block with a task to run or a quit to obey unless a byte is in the  *)
(* pipe or on its way.  For any number of threads, tasks and transports    *)
(* and any capacity of the pipe.                                           *)
(***************************************************************************)
EXTENDS EventLoop, FiniteSetTheorems, TLAPS

\* Poll() posts delegates of attached transports.
LEMMA OrderTypes ==
  ASSUME TypeOK, NEW S \in SUBSET Transports, NEW order \in SetToSeqs(S)
  PROVE  queued \o order \in Seq(Transports)
<1>1. IsFiniteSet(S) /\ Cardinality(S) \in Nat
  BY TransportAssumption, FS_Subset, FS_CardinalityType
<1>2. order \in [1 .. Cardinality(S) -> S]
  BY DEF SetToSeqs
<1>3. order \in Seq(Transports)
  BY <1>1, <1>2
<1>4. QED
  BY <1>3 DEF TypeOK

\* Taking the first of a queue.
LEMMA TakeTypes ==
  ASSUME NEW S, NEW q \in Seq(S), q # <<>>
  PROVE  Head(q) \in S /\ Tail(q) \in Seq(S)
OBVIOUS

\* What runs is a task when Loop() runs tasks: the part that TypeOK lacks to be
\* inductive, since TaskReturns stores it into the tasks that ran.
RunningInv == TypeOK /\ (pc = "run" => running \in Tasks)

\* The notifier's steps keep the types.
LEMMA NotifyTypes ==
  ASSUME TypeOK, NEW th \in Threads,
         Notify(th) \/ PostQuit(th) \/ \E t \in Tasks : PostTask(th, t)
  PROVE  TypeOK'
<1>1. CASE WriteByte(th)
  <2>1. pipe' \in 0 .. PipeCapacity
    BY <1>1, CapacityAssumption DEF WriteByte, PipeAfterWrite, TypeOK
  <2>2. QED
    BY <1>1, <2>1 DEF WriteByte, TypeOK, taskVars, eventVars
<1>2. CASE BreakDispatch(th)
  BY <1>2 DEF BreakDispatch, TypeOK, taskVars, eventVars
<1>3. CASE PostQuit(th)
  BY <1>3 DEF PostQuit, FirstNotice, TypeOK, eventVars
<1>4. ASSUME NEW t \in Tasks, PostTask(th, t) PROVE TypeOK'
  BY <1>4 DEF PostTask, FirstNotice, TypeOK, eventVars
<1>5. QED
  BY <1>1, <1>2, <1>3, <1>4 DEF Notify

\* The loop's steps keep the types.
LEMMA LoopTypes == RunningInv /\ (Loop \/ PollInterrupted) => RunningInv'
<1> SUFFICES ASSUME RunningInv, Loop \/ PollInterrupted PROVE RunningInv'
  OBVIOUS
<1> USE DEF RunningInv
<1>1. CASE CheckQuit
  BY <1>1 DEF CheckQuit, TypeOK, Places, taskVars, notifyVars, eventVars
<1>2. CASE ProcessNextTask
  <2>1. CASE queue = <<>>
    BY <1>2, <2>1 DEF ProcessNextTask, TypeOK, Places, notifyVars, eventVars
  <2>2. CASE queue # <<>>
    <3>1. Head(queue) \in Tasks /\ Tail(queue) \in Seq(Tasks)
      BY <2>2, TakeTypes DEF TypeOK
    <3>2. QED
      BY <1>2, <2>2, <3>1 DEF ProcessNextTask, TypeOK, Places, notifyVars, eventVars
  <2>3. QED
    BY <2>1, <2>2
<1>3. CASE TaskReturns
  BY <1>3 DEF TaskReturns, TypeOK, Places, notifyVars, eventVars
<1>4. CASE Poll
  <2>1. Reportable \ Range(queued) \in SUBSET Transports
    BY TransportAssumption DEF Reportable, TypeOK
  <2>2. queued' \in Seq(Transports)
    BY <1>4, <2>1, OrderTypes DEF Poll
  <2>3. pipe' \in 0 .. PipeCapacity
    BY <1>4, CapacityAssumption DEF Poll, PipeAfterWakeup, TypeOK
  <2>4. wakeup' \in BOOLEAN /\ writeNews' \in BOOLEAN
    BY <1>4 DEF Poll, Wakes
  <2>5. QED
    BY <1>4, <2>2, <2>3, <2>4 DEF Poll, TypeOK, Places, taskVars
<1>5. CASE TestWakeup
  BY <1>5 DEF TestWakeup, TypeOK, Places, taskVars, notifyVars, eventVars
<1>6. ASSUME NEW from, NEW to \in Places \ {"run"}, Dispatch(from, to) PROVE RunningInv'
  <2>1. CASE queued = <<>>
    BY <1>6, <2>1 DEF Dispatch, TypeOK, Places, taskVars, notifyVars
  <2>2. CASE queued # <<>>
    <3>1. Head(queued) \in Transports /\ Tail(queued) \in Seq(Transports)
      BY <2>2, TakeTypes DEF TypeOK
    <3>2. QED
      BY <1>6, <2>2, <3>1 DEF Dispatch, TypeOK, Places, taskVars, notifyVars
  <2>3. QED
    BY <2>1, <2>2
<1>7. CASE ListenerReturns
  <2>1. gotBreak' \in BOOLEAN /\ pc' \in Places
    BY <1>7 DEF ListenerReturns, BreakAfterListener, TypeOK, Places
  <2>2. QED
    BY <1>7, <2>1 DEF ListenerReturns, TypeOK, taskVars, notifyVars
<1>8. CASE PollInterrupted
  BY <1>8 DEF PollInterrupted, TypeOK, Places, taskVars, notifyVars, eventVars
<1>9. QED
  BY <1>1, <1>2, <1>3, <1>4, <1>5, <1>6, <1>7, <1>8
     DEF Loop, DispatchFirst, DispatchNext, Places

\* Type correctness: every variable keeps the type of its C++ counterpart, and
\* the pipe never holds more than it can.
THEOREM LoopTypeCorrect == Spec => []TypeOK
<1>1. Init => RunningInv
  <2>1. 0 \in 0 .. PipeCapacity
    BY CapacityAssumption
  <2>2. <<>> \in Seq(Tasks) /\ <<>> \in Seq(Transports)
    OBVIOUS
  <2>3. QED
    BY <2>1, <2>2 DEF Init, RunningInv, TypeOK, Places
<1>2. RunningInv /\ [Next]_vars => RunningInv'
  <2> SUFFICES ASSUME RunningInv, [Next]_vars PROVE RunningInv'
    OBVIOUS
  <2>1. ASSUME NEW t \in Transports, Arrive(t) PROVE RunningInv'
    BY <2>1 DEF Arrive, RunningInv, TypeOK, taskVars, notifyVars
  <2>2. CASE UNCHANGED vars
    BY <2>2 DEF vars, taskVars, notifyVars, eventVars, RunningInv, TypeOK
  <2>3. ASSUME NEW th \in Threads,
               Notify(th) \/ PostQuit(th) \/ \E t \in Tasks : PostTask(th, t)
        PROVE  RunningInv'
    <3>1. UNCHANGED <<pc, running>>
      BY <2>3 DEF Notify, WriteByte, BreakDispatch, PostQuit, PostTask
    <3>2. QED
      BY <2>3, <3>1, NotifyTypes DEF RunningInv
  <2>4. QED
    BY <2>1, <2>2, <2>3, LoopTypes DEF Next
<1>3. RunningInv => TypeOK
  BY DEF RunningInv
<1>4. QED
  BY <1>1, <1>2, <1>3, PTL DEF Spec

----------------------------------------------------------------------------
(* No lost wakeup.  A byte, or a thread about to write one, stands for     *)
(* every quit that Loop() has not tested since, and for every task that    *)
(* was posted after ProcessNextTask() found none.                          *)

ByteComing == pipe > 0 \/ WriteComing

WakeupInv ==
  /\ pc = "poll" /\ queue # <<>> => ByteComing
  /\ quit => ByteComing \/ (pc = "polled" /\ wakeup) \/ pc \in {"check", "out"}

\* A thread that starts to notify is about to write a byte.
LEMMA NoticePromisesByte ==
  ASSUME TypeOK, NEW th \in Threads,
         PostQuit(th) \/ \E t \in Tasks : PostTask(th, t)
  PROVE  ByteComing'
<1>1. notifying'[th] = "write"
  BY DEF PostQuit, PostTask, FirstNotice, TypeOK
<1>2. QED
  BY <1>1 DEF ByteComing, WriteComing

\* Neither half of NotifyTask() takes a promised byte away.
LEMMA NotifyKeepsByte ==
  ASSUME TypeOK, NEW th \in Threads, Notify(th), ByteComing
  PROVE  ByteComing'
<1>1. CASE WriteByte(th)
  <2>1. pipe' > 0
    BY <1>1, CapacityAssumption DEF WriteByte, PipeAfterWrite, TypeOK
  <2>2. QED
    BY <2>1 DEF ByteComing
<1>2. CASE BreakDispatch(th)
  <2>1. pipe' = pipe /\ \A other \in Threads :
          notifying[other] = "write" => notifying'[other] = "write"
    BY <1>2 DEF BreakDispatch, TypeOK
  <2>2. QED
    BY <2>1 DEF ByteComing, WriteComing
<1>3. QED
  BY <1>1, <1>2 DEF Notify

\* Only Poll(), of the loop's steps, takes a byte.
LEMMA LoopKeepsByte ==
  ASSUME TypeOK, Loop \/ PollInterrupted, ~Poll, ByteComing
  PROVE  ByteComing'
<1>1. UNCHANGED <<pipe, notifying>>
  BY DEF Loop, PollInterrupted, CheckQuit, ProcessNextTask, TaskReturns, TestWakeup,
         DispatchFirst, DispatchNext, Dispatch, ListenerReturns, notifyVars
<1>2. QED
  BY <1>1 DEF ByteComing, WriteComing

\* The loop's steps keep the invariant.
LEMMA LoopKeepsWakeup ==
  ASSUME TypeOK, WakeupInv, Loop \/ PollInterrupted
  PROVE  WakeupInv'
<1>1. CASE CheckQuit
  BY <1>1, LoopKeepsByte DEF CheckQuit, Poll, WakeupInv, taskVars
<1>2. CASE ProcessNextTask
  BY <1>2, LoopKeepsByte DEF ProcessNextTask, Poll, WakeupInv
<1>3. CASE TaskReturns
  BY <1>3 DEF TaskReturns, WakeupInv
<1>4. CASE Poll
  <2>1. CASE pipe > 0
    BY <1>4, <2>1 DEF Poll, Wakes, WakeupInv
  <2>2. CASE ~(pipe > 0)
    <3>1. quit => WriteComing'
      BY <1>4, <2>2 DEF Poll, WakeupInv, ByteComing, WriteComing
    <3>2. QED
      BY <1>4, <3>1 DEF Poll, WakeupInv, ByteComing, taskVars
  <2>3. QED
    BY <2>1, <2>2
<1>5. CASE TestWakeup
  BY <1>5, LoopKeepsByte DEF TestWakeup, Poll, WakeupInv, taskVars
<1>6. CASE DispatchFirst \/ DispatchNext
  BY <1>6, LoopKeepsByte DEF DispatchFirst, DispatchNext, Dispatch, Poll, WakeupInv, taskVars
<1>7. CASE ListenerReturns
  BY <1>7, LoopKeepsByte DEF ListenerReturns, Poll, WakeupInv, taskVars
<1>8. CASE PollInterrupted
  <2>1. quit => ByteComing
    BY <1>8 DEF PollInterrupted, WakeupInv
  <2>2. ByteComing => ByteComing'
    BY <1>8 DEF PollInterrupted, ByteComing, WriteComing, notifyVars
  <2>3. QED
    BY <1>8, <2>1, <2>2 DEF PollInterrupted, WakeupInv, taskVars
<1>9. QED
  BY <1>1, <1>2, <1>3, <1>4, <1>5, <1>6, <1>7, <1>8 DEF Loop

\* Loop() blocks in Poll() only when there is nothing to do or a byte to wake it
\* is in the pipe or on its way, however posts, quits and polls interleave.
THEOREM NoWakeupIsLost == Spec => []NoLostWakeup
<1>1. Init => WakeupInv
  BY DEF Init, WakeupInv
<1>2. TypeOK /\ WakeupInv /\ [Next]_vars => WakeupInv'
  <2> SUFFICES ASSUME TypeOK, WakeupInv, [Next]_vars PROVE WakeupInv'
    OBVIOUS
  <2>1. ASSUME NEW th \in Threads, PostQuit(th) \/ \E t \in Tasks : PostTask(th, t)
        PROVE  WakeupInv'
    BY <2>1, NoticePromisesByte DEF WakeupInv
  <2>2. ASSUME NEW th \in Threads, Notify(th) PROVE WakeupInv'
    <3>1. UNCHANGED <<queue, quit, pc, wakeup>>
      BY <2>2 DEF Notify, WriteByte, BreakDispatch, taskVars
    <3>2. QED
      BY <2>2, <3>1, NotifyKeepsByte DEF WakeupInv
  <2>3. CASE Loop \/ PollInterrupted
    BY <2>3, LoopKeepsWakeup
  <2>4. ASSUME \/ \E t \in Transports : Arrive(t)
               \/ UNCHANGED vars
        PROVE  WakeupInv'
    <3>1. UNCHANGED <<queue, quit, pc, wakeup, pipe, notifying>>
      BY <2>4 DEF Arrive, vars, taskVars, notifyVars
    <3>2. QED
      BY <3>1 DEF WakeupInv, ByteComing, WriteComing
  <2>5. QED
    BY <2>1, <2>2, <2>3, <2>4 DEF Next
<1>3. WakeupInv => NoLostWakeup
  BY DEF WakeupInv, NoLostWakeup, ByteComing
<1>4. QED
  BY <1>1, <1>2, <1>3, LoopTypeCorrect, PTL DEF Spec
==============================================================================
