--------------------------- MODULE TaskQueueProofs ---------------------------
(***************************************************************************)
(* TaskQueueImpl is type-correct, owns every task once, and implements the *)
(* first-in first-out queue FifoTasks, for any set of tasks and threads.   *)
(***************************************************************************)
EXTENDS TaskQueue, TLAPS

\* The conjuncts of TypeOK that Zenon proves and SMT does not.
Booleans == gotBreak \in BOOLEAN /\ gotQuit \in BOOLEAN /\ alive \in BOOLEAN
              /\ returned \in BOOLEAN

\* Deleting the task that ran keeps the history of deletions well-formed.
LEMMA TaskDoneTypes ==
  ASSUME TypeOK, TaskDone
  PROVE  freed' \in [Tasks -> Nat] /\ running' = NoTask
<1>1. freed \in [Tasks -> Nat]
  BY DEF TypeOK
<1>2. CASE running \in Tasks
  BY <1>1, <1>2 DEF TaskDone
<1>3. CASE running \notin Tasks
  BY <1>1, <1>3 DEF TaskDone
<1>4. QED
  BY <1>2, <1>3

\* While a call with a limit goes on, it has room for the task that runs, and its
\* count is of the tasks that have run: the part that TypeOK and LimitRespected
\* lack to be inductive.
LimitInv ==
  stage # "out" /\ limit # 0 =>
    /\ count < limit
    /\ ranInCall = count + (IF stage = "run" THEN 1 ELSE 0)

\* Every step keeps the count.
LEMMA StepKeepsLimit == TypeOK /\ LimitInv /\ [Next]_vars => LimitInv'
<1> SUFFICES ASSUME TypeOK, LimitInv, [Next]_vars PROVE LimitInv'
  OBVIOUS
<1>1. count \in Nat /\ limit \in Nat /\ ranInCall \in Nat /\ stage \in {"out", "check", "run"}
  BY DEF TypeOK
<1>2. CASE UNCHANGED <<stage, limit, count, ranInCall>>
  BY <1>2 DEF LimitInv
<1>3. ASSUME NEW kind, NEW n \in Limits \cup {0}, Enter(kind, n) PROVE LimitInv'
  BY <1>3, LimitAssumption DEF Enter, LimitInv
<1>4. CASE RunNext
  BY <1>1, <1>4 DEF RunNext, LimitInv
<1>5. CASE stage' = "out"
  BY <1>5 DEF LimitInv
<1>6. CASE FinishInTasks /\ stage' # "out"
  <2>1. /\ stage = "run" /\ stage' = "check" /\ UNCHANGED <<limit, ranInCall>> /\ ~LimitHit
        /\ count' = IF limit # 0 THEN count + 1 ELSE count
    BY <1>6 DEF FinishInTasks, TaskDone, Return
  <2>2. QED
    BY <1>1, <2>1 DEF LimitInv, LimitHit
<1>7. ASSUME NEW timeUp \in BOOLEAN, FinishInTimed(timeUp) /\ stage' # "out" PROVE LimitInv'
  <2>1. /\ stage = "run" /\ stage' = "check" /\ UNCHANGED <<limit, ranInCall>> /\ ~LimitHit
        /\ count' = IF limit # 0 THEN count + 1 ELSE count
    BY <1>7 DEF FinishInTimed, TaskDone, Return
  <2>2. QED
    BY <1>1, <2>1 DEF LimitInv, LimitHit
<1>8. ASSUME NEW th \in Threads,
             \/ PostQuit(th) \/ Notify(th) \/ Break(th)
             \/ \E t \in Tasks : PostTask(th, t) \/ PostTaskFails(th, t)
      PROVE  UNCHANGED <<stage, limit, count, ranInCall>>
  BY <1>8 DEF PostQuit, Notify, Break, PostTask, PostTaskFails, callVars
<1>9. CASE Destroy \/ UNCHANGED vars
  <2>1. UNCHANGED <<stage, limit, count, ranInCall>>
    BY <1>9 DEF Destroy, vars, callVars
  <2>2. QED
    BY <1>2, <2>1
<1>10. CASE NothingToRun \/ FinishNext
  <2>1. stage' = "out"
    BY <1>10 DEF NothingToRun, FinishNext, Return
  <2>2. QED
    BY <1>5, <2>1
<1>11. QED
  BY <1>2, <1>3, <1>4, <1>5, <1>6, <1>7, <1>8, <1>9, <1>10
     DEF Next, Process, CallProcessNextTask, CallProcessTasks, CallProcessTasksForTime

\* Type correctness, together with the count of each call.
LEMMA CountedTypes == Spec => [](TypeOK /\ LimitInv)
<1> USE LimitAssumption, CallAssumption
<1>1. Init => TypeOK
  <2> SUFFICES ASSUME Init PROVE TypeOK
    OBVIOUS
  <2>1. Booleans
    BY Zenon DEF Init, Booleans
  <2>2. timerRes \in BOOLEAN
    BY Zenon, BooleanAssumption DEF Init
  <2>3. QED
    BY <2>1, <2>2 DEF Init, TypeOK, Booleans, AllCalls
<1>2. TypeOK /\ LimitInv /\ [Next]_vars => TypeOK'
  <2> SUFFICES ASSUME TypeOK, LimitInv, [Next]_vars PROVE TypeOK'
    OBVIOUS
  <2> USE DEF TypeOK, AllCalls
  <2>1. ASSUME NEW th \in Threads, PostQuit(th) PROVE TypeOK'
    BY <2>1 DEF PostQuit, Ask, callVars, queueVars, CanCall
  <2>2. ASSUME NEW th \in Threads, Notify(th) PROVE TypeOK'
    BY <2>2 DEF Notify, callVars, queueVars
  <2>3. ASSUME NEW th \in Threads, Break(th) PROVE TypeOK'
    BY <2>3 DEF Break, Ask, callVars, queueVars
  <2>4. ASSUME NEW th \in Threads, NEW t \in Tasks, PostTask(th, t) PROVE TypeOK'
    BY <2>4 DEF PostTask, callVars, queueVars
  <2>5. ASSUME NEW th \in Threads, NEW t \in Tasks, PostTaskFails(th, t) PROVE TypeOK'
    BY <2>5 DEF PostTaskFails, callVars, queueVars
  <2>6. CASE CallProcessNextTask
    BY <2>6 DEF CallProcessNextTask, Enter, queueVars
  <2>7. ASSUME NEW n \in Limits, CallProcessTasks(n) PROVE TypeOK'
    BY <2>7 DEF CallProcessTasks, Enter, queueVars
  <2>8. ASSUME NEW n \in Limits, CallProcessTasksForTime(n) PROVE TypeOK'
    <3>1. CASE Enter("timed", n) /\ gotBreak' = FALSE
      <4>1. Booleans'
        BY <3>1, Zenon DEF Booleans, Enter, queueVars
      <4>2. QED
        BY <3>1, <4>1 DEF Booleans, Enter, queueVars
    <3>2. CASE CallProcessNextTask
      BY <3>2 DEF CallProcessNextTask, Enter, queueVars
    <3>3. QED
      BY <2>8, <3>1, <3>2 DEF CallProcessTasksForTime
  <2>9. CASE RunNext
    BY <2>9 DEF RunNext, RefillsFromIncoming, IncomingAfterRefill
  <2>10. CASE NothingToRun
    <3>1. Booleans'
      BY <2>10, Zenon DEF Booleans, NothingToRun, Return, ReturnsOnEmpty, queueVars
    <3>2. QED
      BY <2>10, <3>1 DEF Booleans, NothingToRun, Return, ReturnsOnEmpty, queueVars
  <2>11. CASE FinishNext
    <3>1. Booleans'
      BY <2>11, Zenon DEF Booleans, FinishNext, TaskDone, Return, queueVars
    <3>2. freed' \in [Tasks -> Nat] /\ running' = NoTask
      BY <2>11, TaskDoneTypes DEF FinishNext
    <3>3. QED
      BY <2>11, <3>1, <3>2 DEF Booleans, FinishNext, Return, queueVars
  <2>12. CASE FinishInTasks
    <3>1. Booleans'
      BY <2>12, Zenon DEF Booleans, FinishInTasks, TaskDone, Return, ResetsBreak, queueVars
    <3>2. freed' \in [Tasks -> Nat] /\ running' = NoTask
      BY <2>12, TaskDoneTypes DEF FinishInTasks
    <3>3. stage' = "out" \/ stage' = "check"
      BY <2>12, Zenon DEF FinishInTasks, Return
    <3>4. count' \in Nat /\ count' <= limit'
      <4>1. stage = "run" /\ limit' = limit /\ count' = IF limit # 0 THEN count + 1 ELSE count
        BY <2>12 DEF FinishInTasks, TaskDone
      <4>2. limit \in Nat /\ count \in Nat /\ count <= limit /\ (limit # 0 => count < limit)
        BY <4>1 DEF LimitInv
      <4>3. QED
        BY <4>1, <4>2
    <3>5. stopBy' \in [{"break", "quit"} -> {"no", "next", "now", "lost"}]
      BY <2>12 DEF FinishInTasks
    <3>6. QED
      BY <2>12, <3>1, <3>2, <3>3, <3>4, <3>5 DEF Booleans, FinishInTasks, queueVars
  <2>13. ASSUME NEW timeUp \in BOOLEAN, FinishInTimed(timeUp) PROVE TypeOK'
    <3>1. Booleans'
      BY <2>13, Zenon DEF Booleans, FinishInTimed, TaskDone, Return, queueVars
    <3>2. freed' \in [Tasks -> Nat] /\ running' = NoTask
      BY <2>13, TaskDoneTypes DEF FinishInTimed
    <3>3. count' \in Nat /\ count' <= limit'
      <4>1. /\ stage = "run" /\ limit' = limit
            /\ count' = count \/ (limit # 0 /\ count' = count + 1)
        BY <2>13 DEF FinishInTimed, TaskDone
      <4>2. limit \in Nat /\ count \in Nat /\ count <= limit /\ (limit # 0 => count < limit)
        BY <4>1 DEF LimitInv
      <4>3. QED
        BY <4>1, <4>2
    <3>4. stage' = "out" \/ stage' = "check"
      BY <2>13, Zenon DEF FinishInTimed, Return
    <3>5. QED
      BY <2>13, <3>1, <3>2, <3>3, <3>4 DEF Booleans, FinishInTimed, queueVars
  <2>14. CASE Destroy
    <3>1. Booleans'
      BY <2>14, Zenon DEF Booleans, Destroy, callVars
    <3>2. QED
      BY <2>14, <3>1 DEF Booleans, Destroy, callVars
  <2>15. CASE UNCHANGED vars
    BY <2>15 DEF vars, callVars, queueVars
  <2>16. QED
    BY <2>1, <2>2, <2>3, <2>4, <2>5, <2>6, <2>7, <2>8, <2>9, <2>10, <2>11, <2>12,
       <2>13, <2>14, <2>15 DEF Next, Process
<1>3. Init => LimitInv
  BY DEF Init, LimitInv
<1>4. QED
  BY <1>1, <1>2, <1>3, StepKeepsLimit, PTL DEF Spec

\* Type correctness: every variable keeps the type of its C++ counterpart.
THEOREM TypeCorrect == Spec => []TypeOK
BY CountedTypes, PTL

\* A call never runs more tasks than its limit.
THEOREM LimitKept == Spec => []LimitRespected
<1>1. TypeOK /\ LimitInv => LimitRespected
  BY DEF TypeOK, LimitInv, LimitRespected
<1>2. QED
  BY <1>1, CountedTypes, PTL

----------------------------------------------------------------------------
(* Ownership.                                                              *)

\* An action that leaves the deques, the running task and the deletions alone
\* leaves ownership alone.
LEMMA FrameKeepsOwnedOnce ==
  ASSUME OwnedOnce, UNCHANGED <<work, incoming, running, freed>>
  PROVE  OwnedOnce'
BY DEF OwnedOnce, Waiting

\* Deleting the task that ran.
LEMMA TaskDoneKeepsOwnedOnce ==
  ASSUME TypeOK, OwnedOnce, TaskDone, UNCHANGED <<work, incoming>>
  PROVE  OwnedOnce'
<1>1. running' = NoTask /\ Waiting' = Waiting
  BY DEF TaskDone, Waiting
<1>2. \A t \in Tasks : freed'[t] = IF t = running THEN freed[t] + 1 ELSE freed[t]
  BY DEF TypeOK, TaskDone
<1>3. Waiting \subseteq Tasks
  BY DEF TypeOK, Waiting
<1>4. \A t \in Waiting' \cup {running'} : t # NoTask => freed'[t] = 0
  BY <1>1, <1>2, <1>3 DEF OwnedOnce
<1>5. \A t \in Tasks : freed'[t] <= 1
  BY <1>2, NoTaskAssumption DEF OwnedOnce, TypeOK
<1>6. NoTask \notin Waiting
  BY <1>3, NoTaskAssumption
<1>7. QED
  BY <1>1, <1>4, <1>5, <1>6 DEF OwnedOnce

\* Taking the first of a sequence without repetitions.
LEMMA TakeFirst ==
  ASSUME NEW S, NEW w \in Seq(S), w # <<>>,
         \A i, j \in DOMAIN w : w[i] = w[j] => i = j
  PROVE  /\ Tail(w) \in Seq(S)
         /\ \A i \in DOMAIN Tail(w) : i + 1 \in DOMAIN w /\ Tail(w)[i] = w[i + 1]
         /\ \A i, j \in DOMAIN Tail(w) : Tail(w)[i] = Tail(w)[j] => i = j
         /\ 1 \in DOMAIN w /\ Head(w) = w[1]
         /\ \A i \in DOMAIN Tail(w) : Tail(w)[i] # Head(w)
<1>1. DOMAIN w = 1 .. Len(w) /\ Len(w) \in Nat \ {0} /\ Head(w) = w[1]
  OBVIOUS
<1>2. Tail(w) \in Seq(S) /\ DOMAIN Tail(w) = 1 .. Len(w) - 1
      /\ \A i \in 1 .. Len(w) - 1 : Tail(w)[i] = w[i + 1]
  OBVIOUS
<1>3. \A i, j \in DOMAIN Tail(w) : Tail(w)[i] = Tail(w)[j] => i = j
  BY <1>1, <1>2
<1>4. \A i \in DOMAIN Tail(w) : Tail(w)[i] # w[1]
  BY <1>1, <1>2
<1>5. QED
  BY <1>1, <1>2, <1>3, <1>4

\* Every task is held in one place at most and deleted at most once.
THEOREM TasksOwnedOnce == Spec => []OwnedOnce
<1>1. Init => OwnedOnce
  BY NoTaskAssumption DEF Init, OwnedOnce, Waiting
<1>2. TypeOK /\ OwnedOnce /\ [Next]_vars => OwnedOnce'
  <2> SUFFICES ASSUME TypeOK, OwnedOnce, [Next]_vars PROVE OwnedOnce'
    OBVIOUS
  <2>1. ASSUME NEW th \in Threads, PostQuit(th) \/ Notify(th) \/ Break(th) PROVE OwnedOnce'
    BY <2>1, FrameKeepsOwnedOnce DEF PostQuit, Notify, Break, callVars, queueVars
  <2>2. ASSUME NEW th \in Threads, NEW t \in Tasks, PostTask(th, t) PROVE OwnedOnce'
    <3>1. incoming' = Append(incoming, t) /\ UNCHANGED <<work, running, freed>>
      BY <2>2 DEF PostTask, callVars
    <3>2. t \notin Waiting /\ t # running /\ freed[t] = 0
      BY <2>2 DEF PostTask, Fresh
    <3>3. Len(incoming') = Len(incoming) + 1 /\ incoming'[Len(incoming) + 1] = t
          /\ \A i \in 1 .. Len(incoming) : incoming'[i] = incoming[i]
      BY <3>1 DEF TypeOK
    <3>4. Waiting' = Waiting \cup {t}
      <4>1. DOMAIN incoming = 1 .. Len(incoming) /\ DOMAIN incoming' = 1 .. Len(incoming) + 1
            /\ Len(incoming) \in Nat
        BY <3>1 DEF TypeOK
      <4>2. {incoming'[i] : i \in DOMAIN incoming'} = {incoming[i] : i \in DOMAIN incoming} \cup {t}
        BY <3>3, <4>1
      <4>3. QED
        BY <3>1, <4>2 DEF Waiting
    <3>5. \A i, j \in DOMAIN incoming' : incoming'[i] = incoming'[j] => i = j
      BY <3>1, <3>2, <3>3 DEF OwnedOnce, Waiting, TypeOK
    <3>6. \A i \in DOMAIN work', j \in DOMAIN incoming' : work'[i] # incoming'[j]
      BY <3>1, <3>2, <3>3 DEF OwnedOnce, Waiting, TypeOK
    <3>7. QED
      BY <3>1, <3>2, <3>4, <3>5, <3>6 DEF OwnedOnce
  <2>3. ASSUME NEW th \in Threads, NEW t \in Tasks, PostTaskFails(th, t) PROVE OwnedOnce'
    BY <2>3 DEF PostTaskFails, Fresh, OwnedOnce, Waiting, TypeOK, callVars, queueVars
  <2>4. ASSUME NEW kind, NEW n, Enter(kind, n) PROVE OwnedOnce'
    BY <2>4, FrameKeepsOwnedOnce DEF Enter, queueVars
  <2>5. CASE RunNext
    <3>1. CASE work = <<>>
      <4>1. incoming # <<>> /\ running' = Head(incoming) /\ work' = Tail(incoming)
            /\ incoming' = <<>> /\ freed' = freed
        BY <2>5, <3>1 DEF RunNext, RefillsFromIncoming, IncomingAfterRefill, TypeOK
      <4>2. /\ incoming \in Seq(Tasks) /\ \A i, j \in DOMAIN incoming : incoming[i] = incoming[j] => i = j
        BY DEF OwnedOnce, TypeOK
      <4>3. Waiting' \subseteq Waiting /\ running' \in Waiting /\ running' \notin Waiting'
        BY <3>1, <4>1, <4>2, TakeFirst DEF Waiting
      <4>4. \A i, j \in DOMAIN work' : work'[i] = work'[j] => i = j
        BY <4>1, <4>2, TakeFirst
      <4>5. QED
        BY <4>1, <4>3, <4>4 DEF OwnedOnce
    <3>2. CASE work # <<>>
      <4>1. running' = Head(work) /\ work' = Tail(work)
            /\ incoming' = incoming /\ freed' = freed
        BY <2>5, <3>2 DEF RunNext, RefillsFromIncoming, IncomingAfterRefill
      <4>2. work \in Seq(Tasks) /\ \A i, j \in DOMAIN work : work[i] = work[j] => i = j
        BY DEF OwnedOnce, TypeOK
      <4>3. \A j \in DOMAIN incoming : incoming[j] # Head(work)
        BY <3>2, <4>2, TakeFirst DEF OwnedOnce
      <4>4. Waiting' \subseteq Waiting /\ running' \in Waiting /\ running' \notin Waiting'
        BY <3>2, <4>1, <4>2, <4>3, TakeFirst DEF Waiting
      <4>5. \A i, j \in DOMAIN work' : work'[i] = work'[j] => i = j
        BY <3>2, <4>1, <4>2, TakeFirst
      <4>6. \A i \in DOMAIN work', j \in DOMAIN incoming' : work'[i] # incoming'[j]
        BY <3>2, <4>1, <4>2, TakeFirst DEF OwnedOnce
      <4>7. QED
        BY <4>1, <4>4, <4>5, <4>6 DEF OwnedOnce
    <3>3. QED
      BY <3>1, <3>2
  <2>6. CASE NothingToRun
    BY <2>6, FrameKeepsOwnedOnce DEF NothingToRun, queueVars
  <2>7. CASE FinishNext
    BY <2>7, TaskDoneKeepsOwnedOnce DEF FinishNext, queueVars
  <2>8. CASE FinishInTasks
    BY <2>8, TaskDoneKeepsOwnedOnce DEF FinishInTasks, queueVars
  <2>9. ASSUME NEW timeUp \in BOOLEAN, FinishInTimed(timeUp) PROVE OwnedOnce'
    BY <2>9, TaskDoneKeepsOwnedOnce DEF FinishInTimed, queueVars
  <2>10. CASE Destroy
    <3>1. work' = <<>> /\ incoming' = <<>> /\ running' = running
      BY <2>10 DEF Destroy, callVars
    <3>2. \A t \in Tasks : freed'[t] = IF t \in Waiting THEN freed[t] + 1 ELSE freed[t]
      BY <2>10 DEF Destroy
    <3>3. Waiting' = {}
      BY <3>1 DEF Waiting
    <3>4. QED
      BY <3>1, <3>2, <3>3, NoTaskAssumption DEF OwnedOnce, TypeOK
  <2>11. CASE UNCHANGED vars
    BY <2>11, FrameKeepsOwnedOnce DEF vars, callVars, queueVars
  <2>12. QED
    BY <2>1, <2>2, <2>3, <2>4, <2>5, <2>6, <2>7, <2>8, <2>9, <2>10, <2>11
       DEF Next, Process, CallProcessNextTask, CallProcessTasks, CallProcessTasksForTime
<1>3. QED
  BY <1>1, <1>2, TypeCorrect, PTL DEF Spec

----------------------------------------------------------------------------
(* Refinement.                                                             *)

\* The two deques read as one queue, oldest task first.
Queue == work \o incoming

\* What the queue operations do to that one queue.
LEMMA QueueAppend ==
  ASSUME NEW S, NEW w \in Seq(S), NEW v \in Seq(S), NEW t \in S
  PROVE  w \o Append(v, t) = Append(w \o v, t)
OBVIOUS

\* Taking from a work queue that is not empty takes from the whole.
LEMMA QueueTake ==
  ASSUME NEW S, NEW w \in Seq(S), NEW v \in Seq(S), w # <<>>
  PROVE  Head(w \o v) = Head(w) /\ Tail(w \o v) = Tail(w) \o v /\ w \o v # <<>>
OBVIOUS

\* Refilling an empty work queue changes nothing of the whole.
LEMMA QueueSwap ==
  ASSUME NEW S, NEW v \in Seq(S)
  PROVE  <<>> \o v = v /\ v \o <<>> = v
OBVIOUS

\* The abstract queue's waiting tasks are those of the two deques.
LEMMA QueueMembers ==
  ASSUME TypeOK
  PROVE  Fifo!Waiting = Waiting
<1>1. Queue \in Seq(Tasks) /\ Len(Queue) = Len(work) + Len(incoming)
      /\ DOMAIN Queue = 1 .. Len(work) + Len(incoming)
      /\ \A i \in DOMAIN Queue :
           Queue[i] = IF i <= Len(work) THEN work[i] ELSE incoming[i - Len(work)]
  BY DEF TypeOK, Queue
<1>2. /\ Len(work) \in Nat /\ Len(incoming) \in Nat
      /\ DOMAIN work = 1 .. Len(work) /\ DOMAIN incoming = 1 .. Len(incoming)
  BY DEF TypeOK
<1>3. Fifo!Waiting = {Queue[i] : i \in DOMAIN Queue}
  BY DEF Fifo!Waiting, Queue
<1>4. ASSUME NEW i \in DOMAIN Queue PROVE Queue[i] \in Waiting
  <2>1. CASE i <= Len(work)
    BY <1>1, <1>2, <2>1 DEF Waiting
  <2>2. CASE ~(i <= Len(work))
    <3>1. i - Len(work) \in DOMAIN incoming /\ Queue[i] = incoming[i - Len(work)]
      BY <1>1, <1>2, <2>2
    <3>2. QED
      BY <3>1 DEF Waiting
  <2>3. QED
    BY <2>1, <2>2
<1>5. ASSUME NEW i \in DOMAIN work PROVE work[i] \in Fifo!Waiting
  <2>1. i \in DOMAIN Queue /\ Queue[i] = work[i]
    BY <1>1, <1>2
  <2>2. QED
    BY <1>3, <2>1
<1>6. ASSUME NEW i \in DOMAIN incoming PROVE incoming[i] \in Fifo!Waiting
  <2>1. i + Len(work) \in DOMAIN Queue /\ Queue[i + Len(work)] = incoming[i]
    BY <1>1, <1>2
  <2>2. QED
    BY <1>3, <2>1
<1>7. QED
  BY <1>3, <1>4, <1>5, <1>6 DEF Waiting

\* A task is on Main's stack exactly while Main is in Run().
RunningOnStack == stage = "run" <=> running # NoTask

\* A task that runs is on the stack, through every step.
LEMMA RunningOnStackInvariant == Spec => []RunningOnStack
<1>1. Init => RunningOnStack
  BY DEF Init, RunningOnStack
<1>2. TypeOK /\ RunningOnStack /\ [Next]_vars => RunningOnStack'
  <2> SUFFICES ASSUME TypeOK, RunningOnStack, [Next]_vars PROVE RunningOnStack'
    OBVIOUS
  <2>1. ASSUME UNCHANGED <<stage, running>> PROVE RunningOnStack'
    BY <2>1 DEF RunningOnStack
  <2>2. ASSUME NEW kind, NEW n, Enter(kind, n) PROVE RunningOnStack'
    BY <2>2 DEF Enter, RunningOnStack
  <2>3. CASE RunNext
    <3>1. running' \in Tasks
      <4>1. CASE work = <<>>
        BY <2>3, <4>1 DEF RunNext, RefillsFromIncoming, TypeOK
      <4>2. CASE work # <<>>
        BY <2>3, <4>2 DEF RunNext, RefillsFromIncoming, TypeOK
      <4>3. QED
        BY <4>1, <4>2
    <3>2. QED
      BY <2>3, <3>1, NoTaskAssumption DEF RunNext, RunningOnStack
  <2>4. CASE NothingToRun
    BY <2>4 DEF NothingToRun, Return, RunningOnStack
  <2>5. ASSUME TaskDone, stage' = "out" \/ stage' = "check" PROVE RunningOnStack'
    BY <2>5 DEF TaskDone, RunningOnStack
  <2>6. CASE FinishNext
    BY <2>5, <2>6 DEF FinishNext, Return
  <2>7. CASE FinishInTasks
    <3>1. stage' = "out" \/ stage' = "check"
      BY <2>7, Zenon DEF FinishInTasks, Return
    <3>2. QED
      BY <2>5, <2>7, <3>1 DEF FinishInTasks
  <2>8. ASSUME NEW timeUp \in BOOLEAN, FinishInTimed(timeUp) PROVE RunningOnStack'
    <3>1. stage' = "out" \/ stage' = "check"
      BY <2>8, Zenon DEF FinishInTimed, Return
    <3>2. QED
      BY <2>5, <2>8, <3>1 DEF FinishInTimed
  <2>9. QED
    BY <2>1, <2>2, <2>3, <2>4, <2>6, <2>7, <2>8
       DEF Next, Process, CallProcessNextTask, CallProcessTasks, CallProcessTasksForTime,
           PostQuit, Notify, Break, PostTask, PostTaskFails, Destroy, vars, callVars
<1>3. QED
  BY <1>1, <1>2, TypeCorrect, PTL DEF Spec

\* The two deques implement one first-in first-out queue.
THEOREM RefinesFifo == Spec => ImplementsFifo
<1>1. Init => Fifo!Init
  BY QueueSwap DEF Init, Fifo!Init
<1>2. TypeOK /\ RunningOnStack /\ [Next]_vars => [Fifo!Next]_Fifo!vars
  <2> SUFFICES ASSUME TypeOK, RunningOnStack, [Next]_vars PROVE [Fifo!Next]_Fifo!vars
    OBVIOUS
  <2>1. ASSUME UNCHANGED <<work, incoming, running, freed>> PROVE UNCHANGED Fifo!vars
    BY <2>1 DEF Fifo!vars
  <2>2. ASSUME NEW t, Fresh(t) PROVE Fifo!Fresh(t)
    BY <2>2, QueueMembers DEF Fresh, Fifo!Fresh
  <2>3. ASSUME NEW th \in Threads, NEW t \in Tasks, PostTask(th, t) PROVE Fifo!Put(t)
    <3>1. incoming' = Append(incoming, t) /\ UNCHANGED <<work, running, freed>> /\ Fresh(t)
      BY <2>3 DEF PostTask, callVars
    <3>2. work' \o incoming' = Append(work \o incoming, t)
      BY <3>1, QueueAppend DEF TypeOK
    <3>3. QED
      BY <2>2, <3>1, <3>2 DEF Fifo!Put
  <2>4. ASSUME NEW th \in Threads, NEW t \in Tasks, PostTaskFails(th, t) PROVE Fifo!Refuse(t)
    BY <2>2, <2>4 DEF PostTaskFails, Fifo!Refuse, callVars, queueVars
  <2>5. CASE RunNext
    <3>1. running = NoTask /\ freed' = freed /\ work \o incoming # <<>>
      BY <2>5 DEF RunNext, RunningOnStack
    <3>2. running' = Head(work \o incoming) /\ work' \o incoming' = Tail(work \o incoming)
      <4>1. CASE work = <<>>
        <5>1. running' = Head(incoming) /\ work' = Tail(incoming) /\ incoming' = <<>>
          BY <2>5, <4>1 DEF RunNext, RefillsFromIncoming, IncomingAfterRefill
        <5>2. work \o incoming = incoming /\ incoming # <<>>
          BY <3>1, <4>1, QueueSwap DEF TypeOK
        <5>3. Tail(incoming) \in Seq(Tasks)
          BY <5>2 DEF TypeOK
        <5>4. QED
          BY <5>1, <5>2, <5>3, QueueSwap
      <4>2. CASE work # <<>>
        <5>1. running' = Head(work) /\ work' = Tail(work) /\ incoming' = incoming
          BY <2>5, <4>2 DEF RunNext, RefillsFromIncoming, IncomingAfterRefill
        <5>2. QED
          BY <5>1, <4>2, QueueTake DEF TypeOK
      <4>3. QED
        BY <4>1, <4>2
    <3>3. QED
      BY <3>1, <3>2 DEF Fifo!Next, Fifo!Take
  <2>6. ASSUME TaskDone, UNCHANGED queueVars PROVE Fifo!Finish
    BY <2>6 DEF TaskDone, RunningOnStack, Fifo!Finish, queueVars
  <2>7. CASE Destroy
    <3>1. running = NoTask /\ running' = NoTask
      BY <2>7 DEF Destroy, RunningOnStack, callVars
    <3>2. work' = <<>> /\ incoming' = <<>>
      BY <2>7 DEF Destroy
    <3>3. work' \o incoming' = <<>>
      BY <3>2
    <3>4. freed' = [t \in Tasks |-> IF t \in Fifo!Waiting THEN freed[t] + 1 ELSE freed[t]]
      BY <2>7, QueueMembers DEF Destroy
    <3>5. QED
      BY <3>1, <3>3, <3>4 DEF Fifo!Next, Fifo!Drain
  <2>8. ASSUME NEW th \in Threads, PostQuit(th) \/ Notify(th) \/ Break(th)
        PROVE  UNCHANGED Fifo!vars
    BY <2>1, <2>8 DEF PostQuit, Notify, Break, callVars, queueVars
  <2>9. ASSUME NEW kind, NEW n, Enter(kind, n) PROVE UNCHANGED Fifo!vars
    BY <2>1, <2>9 DEF Enter, queueVars
  <2>10. CASE NothingToRun
    BY <2>1, <2>10 DEF NothingToRun, queueVars
  <2>11. CASE FinishNext
    BY <2>6, <2>11 DEF FinishNext, Fifo!Next
  <2>12. CASE FinishInTasks
    BY <2>6, <2>12 DEF FinishInTasks, Fifo!Next
  <2>13. ASSUME NEW timeUp \in BOOLEAN, FinishInTimed(timeUp) PROVE Fifo!Next
    BY <2>6, <2>13 DEF FinishInTimed, Fifo!Next
  <2>14. CASE UNCHANGED vars
    BY <2>1, <2>14 DEF vars, callVars, queueVars
  <2>15. ASSUME NEW th \in Threads, NEW t \in Tasks, PostTask(th, t) \/ PostTaskFails(th, t)
         PROVE  Fifo!Next
    BY <2>3, <2>4, <2>15 DEF Fifo!Next
  <2>16. QED
    BY <2>5, <2>7, <2>8, <2>9, <2>10, <2>11, <2>12, <2>13, <2>14, <2>15
       DEF Next, Process, CallProcessNextTask, CallProcessTasks, CallProcessTasksForTime
<1>3. QED
  BY <1>1, <1>2, TypeCorrect, RunningOnStackInvariant, PTL
     DEF Spec, ImplementsFifo, Fifo!Spec

----------------------------------------------------------------------------
(* Breaks, quits and the value returned.                                   *)

\* A stop that was asked for, and not lost, is in its flag for as long as the
\* call goes on, and none is due when the next task may start.
StopInv ==
  /\ stage = "check" => \A why \in {"break", "quit"} : stopBy[why] # "now"
  /\ stage = "run" => /\ \A why \in {"break", "quit"} : stopBy[why] # "next"
                      /\ ranInCall > 0
  /\ stage # "out" => /\ stopBy["quit"] \in {"next", "now"} => gotQuit = TRUE
                      /\ stopBy["break"] \in {"next", "now"} => gotBreak = TRUE

\* Asking for a stop, while the call goes on.
LEMMA AskKeepsStops ==
  ASSUME TypeOK, StopInv, NEW th \in Threads, PostQuit(th) \/ Break(th)
  PROVE  StopInv'
<1> USE DEF TypeOK
<1>1. CASE PostQuit(th)
  <2>1. /\ gotQuit' = TRUE /\ UNCHANGED <<gotBreak, stage, ranInCall>>
        /\ stopBy' = IF stage = "out" \/ stopBy["quit"] \in {"next", "now"} THEN stopBy
                     ELSE [stopBy EXCEPT !["quit"] = IF stage = "run" THEN "now" ELSE "next"]
    BY <1>1 DEF PostQuit, Ask, callVars
  <2>2. QED
    BY <2>1 DEF StopInv
<1>2. CASE Break(th)
  <2>1. /\ gotBreak' = TRUE /\ UNCHANGED <<gotQuit, stage, ranInCall>>
        /\ stopBy' = IF stage = "out" \/ stopBy["break"] \in {"next", "now"} THEN stopBy
                     ELSE [stopBy EXCEPT !["break"] = IF stage = "run" THEN "now" ELSE "next"]
    BY <1>2 DEF Break, Ask, callVars
  <2>2. QED
    BY <2>1 DEF StopInv
<1>3. QED
  BY <1>1, <1>2

LEMMA StepKeepsStops == TypeOK /\ StopInv /\ [Next]_vars => StopInv'
<1> SUFFICES ASSUME TypeOK, StopInv, [Next]_vars PROVE StopInv'
  OBVIOUS
<1>1. CASE UNCHANGED <<stage, stopBy, gotQuit, gotBreak, ranInCall>>
  BY <1>1 DEF StopInv
<1>2. CASE stage' = "out"
  BY <1>2 DEF StopInv
<1>3. ASSUME NEW th \in Threads, PostQuit(th) \/ Break(th) PROVE StopInv'
  BY <1>3, AskKeepsStops
<1>4. ASSUME NEW kind, NEW n, Enter(kind, n) PROVE StopInv'
  BY <1>4 DEF Enter, StopInv
<1>5. CASE RunNext
  <2>1. /\ stage = "check" /\ stage' = "run" /\ ranInCall' = ranInCall + 1 /\ ranInCall \in Nat
        /\ UNCHANGED <<gotBreak, gotQuit>>
        /\ DOMAIN stopBy = {"break", "quit"}
        /\ stopBy' = [why \in DOMAIN stopBy |->
                        IF stopBy[why] = "next" THEN "now" ELSE stopBy[why]]
    BY <1>5 DEF RunNext, TypeOK
  <2>2. QED
    BY <2>1 DEF StopInv
<1>6. CASE FinishInTasks /\ stage' # "out"
  <2>1. /\ stage = "run" /\ stage' = "check" /\ ~StopAsked(gotBreak')
        /\ gotBreak' = (IF ResetsBreak THEN FALSE ELSE gotBreak)
        /\ stopBy' = [stopBy EXCEPT !["break"] = IF ranInCall = 1 /\ @ = "now" THEN "lost" ELSE @]
        /\ UNCHANGED gotQuit
    BY <1>6 DEF FinishInTasks, TaskDone, Return
  <2>2. stopBy["quit"] \in {"no", "lost"} /\ stopBy'["quit"] = stopBy["quit"]
    BY <2>1 DEF StopInv, StopAsked, TypeOK
  <2>3. stopBy'["break"] \in {"no", "lost"}
    BY <2>1 DEF StopInv, StopAsked, ResetsBreak, TypeOK
  <2>4. QED
    BY <2>1, <2>2, <2>3 DEF StopInv
<1>7. ASSUME NEW timeUp \in BOOLEAN, FinishInTimed(timeUp) /\ stage' # "out" PROVE StopInv'
  <2>1. /\ stage = "run" /\ stage' = "check" /\ ~StopAsked(gotBreak)
        /\ UNCHANGED <<stopBy, gotQuit, gotBreak>>
    BY <1>7 DEF FinishInTimed, TaskDone, Return
  <2>2. QED
    BY <2>1 DEF StopInv, StopAsked, TypeOK
<1>8. ASSUME NEW th \in Threads,
             Notify(th) \/ \E t \in Tasks : PostTask(th, t) \/ PostTaskFails(th, t)
      PROVE  StopInv'
  BY <1>1, <1>8 DEF Notify, PostTask, PostTaskFails, callVars
<1>9. CASE Destroy \/ UNCHANGED vars
  BY <1>1, <1>9 DEF Destroy, vars, callVars
<1>10. CASE NothingToRun \/ FinishNext
  BY <1>2, <1>10 DEF NothingToRun, FinishNext, Return
<1>11. QED
  BY <1>2, <1>3, <1>4, <1>5, <1>6, <1>7, <1>8, <1>9, <1>10
     DEF Next, Process, CallProcessNextTask, CallProcessTasks, CallProcessTasksForTime

LEMMA StopsInvariant == Spec => []StopInv
<1>1. Init => StopInv
  BY DEF Init, StopInv
<1>2. QED
  BY <1>1, StepKeepsStops, TypeCorrect, PTL DEF Spec

\* After PostQuit() or Break() no task is started but the one that Main may be
\* committed to (the tests of got_quit_ and got_break_ after each task), except
\* for a break during the first task of ProcessTasks().
THEOREM StopsAreHeeded == Spec => StopsHeeded
<1>1. StopInv /\ [Next]_vars =>
        [StartsTask => "now" \notin {stopBy["quit"], stopBy["break"]}]_vars
  BY DEF StopInv, StartsTask
<1>2. QED
  BY <1>1, StopsInvariant, PTL DEF Spec, StopsHeeded

\* ProcessNextTask() and ProcessTasks() return whether a task was processed.
THEOREM ReturnsTell == Spec => []ReturnTellsProcessed
<1>1. Init => ReturnTellsProcessed
  BY DEF Init, ReturnTellsProcessed
<1>2. TypeOK /\ StopInv /\ ReturnTellsProcessed /\ [Next]_vars => ReturnTellsProcessed'
  <2> SUFFICES ASSUME TypeOK, StopInv, ReturnTellsProcessed, [Next]_vars
               PROVE  ReturnTellsProcessed'
    OBVIOUS
  <2>1. CASE UNCHANGED <<stage, call, returned, ranInCall>>
    BY <2>1 DEF ReturnTellsProcessed
  <2>2. CASE stage' # "out"
    BY <2>2 DEF ReturnTellsProcessed
  <2>3. CASE NothingToRun
    BY <2>3 DEF NothingToRun, Return, ReturnsOnEmpty, ReturnTellsProcessed
  <2>4. CASE stage = "run" /\ Return(TRUE) /\ UNCHANGED <<call, ranInCall>>
    BY <2>4 DEF StopInv, Return, ReturnTellsProcessed
  <2>5. ASSUME NEW kind, NEW n, Enter(kind, n) PROVE ReturnTellsProcessed'
    BY <2>2, <2>5 DEF Enter
  <2>6. CASE RunNext
    BY <2>2, <2>6 DEF RunNext
  <2>7. CASE FinishNext
    BY <2>4, <2>7 DEF FinishNext, TaskDone
  <2>8. CASE FinishInTasks
    BY <2>2, <2>4, <2>8 DEF FinishInTasks, TaskDone, Return
  <2>9. ASSUME NEW timeUp \in BOOLEAN, FinishInTimed(timeUp) PROVE ReturnTellsProcessed'
    BY <2>2, <2>4, <2>9 DEF FinishInTimed, TaskDone, Return
  <2>10. ASSUME NEW th \in Threads,
                \/ PostQuit(th) \/ Notify(th) \/ Break(th)
                \/ \E t \in Tasks : PostTask(th, t) \/ PostTaskFails(th, t)
         PROVE  ReturnTellsProcessed'
    BY <2>1, <2>10 DEF PostQuit, Notify, Break, PostTask, PostTaskFails, callVars
  <2>11. CASE Destroy \/ UNCHANGED vars
    BY <2>1, <2>11 DEF Destroy, vars, callVars
  <2>12. QED
    BY <2>3, <2>5, <2>6, <2>7, <2>8, <2>9, <2>10, <2>11
       DEF Next, Process, CallProcessNextTask, CallProcessTasks, CallProcessTasksForTime
<1>3. QED
  BY <1>1, <1>2, TypeCorrect, StopsInvariant, PTL DEF Spec
==============================================================================
