------------------------ MODULE UnoBackgroundProofs ------------------------
(***************************************************************************)
(* Proofs about the two threads of UnoBackground, for any number of tasks. *)
(***************************************************************************)
EXTENDS UnoBackground, TLAPS

(***************************************************************************)
(* Neither direction loses a wake-up.  The properties are not inductive    *)
(* alone: a task that is run and published must be one that was popped,    *)
(* and the thread must not exist before it is started.                     *)
(***************************************************************************)
WakeInv ==
  /\ TypeOK
  /\ bg \in {"run", "publish"} => task # 0
  /\ loop = "boot" => bg = "none" /\ m_cbQue = <<>>
  /\ CallbackSeen
  /\ NeverBlocksOnWork

LEMMA WakeInit == Init => WakeInv
  <1> SUFFICES ASSUME Init PROVE WakeInv
    OBVIOUS
  <1>1. /\ m_taskQue \in Seq(1 .. MaxTasks) /\ m_cbQue \in Seq(1 .. MaxTasks)
        /\ ran \in Seq(1 .. MaxTasks)
    BY DEF Init
  <1>2. submitted \in 0 .. MaxTasks /\ task \in 0 .. MaxTasks
    BY MaxTasksAssumption DEF Init
  <1>3. TypeOK
    BY <1>1, <1>2 DEF Init, TypeOK
  <1> QED BY <1>3 DEF Init, WakeInv, CallbackSeen, NeverBlocksOnWork

(* A queue grows at its end and shrinks at its head within its type. *)
LEMMA QueueTypes ==
  ASSUME NEW S, NEW q \in Seq(S)
  PROVE  /\ \A t \in S : Append(q, t) \in Seq(S)
         /\ q # <<>> => Head(q) \in S /\ Tail(q) \in Seq(S)
  OBVIOUS

LEMMA LoopKeepsWake ==
  ASSUME WakeInv, \/ start \/ submit \/ LoopWork \/ stop \/ LoopStop
  PROVE  WakeInv'
  <1> USE DEF WakeInv, TypeOK, CallbackSeen, NeverBlocksOnWork, queues, Stopping
  <1>1. CASE start
    BY <1>1 DEF start
  <1>2. CASE submit
    <2>1. submitted + 1 \in 1 .. MaxTasks
      BY <1>2, MaxTasksAssumption DEF submit
    <2>2. m_taskQue' \in Seq(1 .. MaxTasks)
      BY <1>2, <2>1, QueueTypes DEF submit
    <2> QED BY <1>2, <2>1, <2>2 DEF submit, notify_one
  <1>3. CASE background_handler
    <2>1. CASE m_cbQue = <<>>
      BY <1>3, <2>1 DEF background_handler
    <2>2. CASE m_cbQue # <<>>
      <3>1. Head(m_cbQue) \in 1 .. MaxTasks
            /\ Tail(m_cbQue) \in Seq(1 .. MaxTasks)
        BY <2>2, QueueTypes
      <3>2. Append(ran, Head(m_cbQue)) \in Seq(1 .. MaxTasks)
        BY <3>1, QueueTypes
      <3> QED BY <1>3, <2>2, <3>1, <3>2 DEF background_handler
    <2> QED BY <2>1, <2>2
  <1>4. CASE CallbackReturns
    BY <1>4 DEF CallbackReturns
  <1>5. CASE AsyncFires
    BY <1>5 DEF AsyncFires
  <1>6. CASE stop
    BY <1>6 DEF stop
  <1>7. CASE QueStopSets
    BY <1>7 DEF QueStopSets
  <1>8. CASE QueStopNotifies
    BY <1>8 DEF QueStopNotifies, notify_one
  <1>9. CASE join
    BY <1>9 DEF join
  <1> QED BY <1>1, <1>2, <1>3, <1>4, <1>5, <1>6, <1>7, <1>8, <1>9
          DEF LoopWork, LoopStop

LEMMA BackgroundKeepsWake ==
  ASSUME WakeInv, BgStep \/ SpuriousWakeup
  PROVE  WakeInv'
  <1> USE DEF WakeInv, TypeOK, CallbackSeen, NeverBlocksOnWork, queues
  <1>1. CASE thread_loop
    BY <1>1 DEF thread_loop
  <1>2. CASE pop
    <2>1. CASE m_done \/ m_taskQue = <<>>
      BY <1>2, <2>1 DEF pop
    <2>2. CASE ~m_done /\ m_taskQue # <<>>
      <3>1. Head(m_taskQue) \in 1 .. MaxTasks
            /\ Tail(m_taskQue) \in Seq(1 .. MaxTasks)
        BY <2>2, QueueTypes
      <3>2. /\ task' = Head(m_taskQue) /\ m_taskQue' = Tail(m_taskQue)
            /\ bg' = "run" /\ bg = "test"
            /\ UNCHANGED <<submitted, m_done, m_running, m_cbQue, pending, loop,
                           ran>>
        BY <1>2, <2>2 DEF pop
      <3>3. task' \in 0 .. MaxTasks /\ task' # 0
        BY <3>1, <3>2, MaxTasksAssumption
      <3> QED BY <3>1, <3>2, <3>3
    <2> QED BY <2>1, <2>2
  <1>3. CASE Block
    BY <1>3 DEF Block
  <1>4. CASE RunTask
    BY <1>4 DEF RunTask
  <1>5. CASE PublishResult
    <2>1. task \in 1 .. MaxTasks
      BY <1>5, MaxTasksAssumption DEF PublishResult
    <2>2. m_cbQue' \in Seq(1 .. MaxTasks)
      BY <1>5, <2>1, QueueTypes DEF PublishResult
    <2> QED BY <1>5, <2>2 DEF PublishResult
  <1>6. CASE call_loop
    BY <1>6 DEF call_loop
  <1>7. CASE SpuriousWakeup
    BY <1>7 DEF SpuriousWakeup
  <1> QED BY <1>1, <1>2, <1>3, <1>4, <1>5, <1>6, <1>7 DEF BgStep

LEMMA WakeInductive == WakeInv /\ [Next]_vars => WakeInv'
  <1>1. WakeInv /\ UNCHANGED vars => WakeInv'
    BY DEF WakeInv, TypeOK, CallbackSeen, NeverBlocksOnWork, vars
  <1> QED BY <1>1, LoopKeepsWake, BackgroundKeepsWake DEF Next, Ended

(* However the two threads interleave and however many tasks there are,    *)
(* the background thread never blocks with work in its queue, and a        *)
(* callback in the loop's queue is never left without a pending wake-up.   *)
THEOREM NoWakeupLost == Spec => [](TypeOK /\ NeverBlocksOnWork /\ CallbackSeen)
  <1>1. Spec => []WakeInv
    BY WakeInit, WakeInductive, PTL DEF Spec
  <1>2. WakeInv => TypeOK /\ NeverBlocksOnWork /\ CallbackSeen
    BY DEF WakeInv
  <1> QED BY <1>1, <1>2, PTL

(* Both queues, the thread's state and the counters keep their types. *)
THEOREM BackgroundTypeOK == Spec => []TypeOK
  BY NoWakeupLost, PTL

(* The thread that waits in ThreadQue never blocks, or goes to block, with *)
(* a task in the queue.                                                    *)
THEOREM WorkerNeverBlocked == Spec => []NeverBlocksOnWork
  BY NoWakeupLost, PTL

-----------------------------------------------------------------------------
(***************************************************************************)
(* The two queues and the task in progress implement the one queue of      *)
(* UnoAsync.  What the abstract submission names, the length of that queue *)
(* and of the answers, must be the concrete counter: OrderInv says that no *)
(* task is between the queues.                                             *)
(***************************************************************************)
Outstanding == m_cbQue \o InProgress \o m_taskQue

OrderInv == WakeInv /\ submitted = Len(Outstanding) + Len(ran)

(* The end and the middle of three joined queues. *)
LEMMA AppendLast ==
  ASSUME NEW S, NEW a \in Seq(S), NEW b \in Seq(S), NEW c \in Seq(S), NEW x \in S
  PROVE  a \o b \o Append(c, x) = Append(a \o b \o c, x)
  OBVIOUS

LEMMA HeadToMiddle ==
  ASSUME NEW S, NEW a \in Seq(S), NEW c \in Seq(S), c # <<>>
  PROVE  a \o <<Head(c)>> \o Tail(c) = a \o <<>> \o c
  OBVIOUS

LEMMA MiddleToFirst ==
  ASSUME NEW S, NEW a \in Seq(S), NEW c \in Seq(S), NEW x \in S
  PROVE  Append(a, x) \o <<>> \o c = a \o <<x>> \o c
  OBVIOUS

LEMMA HeadOfFirst ==
  ASSUME NEW S, NEW a \in Seq(S), NEW b \in Seq(S), NEW c \in Seq(S), a # <<>>
  PROVE  /\ a \o b \o c # <<>>
         /\ Head(a \o b \o c) = Head(a)
         /\ Tail(a \o b \o c) = Tail(a) \o b \o c
  OBVIOUS

(* The task in progress is one of the submitted ones. *)
LEMMA InProgressType ==
  ASSUME WakeInv
  PROVE  InProgress \in Seq(1 .. MaxTasks)
  <1>1. CASE bg \in {"run", "publish"}
    <2>1. task \in 1 .. MaxTasks
      BY <1>1, MaxTasksAssumption DEF WakeInv, TypeOK
    <2> QED BY <1>1, <2>1 DEF InProgress
  <1>2. CASE bg \notin {"run", "publish"}
    BY <1>2 DEF InProgress
  <1> QED BY <1>1, <1>2

(* What a step does to the joined queue: a submission appends the next     *)
(* number, the handler takes the head, and no other step changes it.       *)
LEMMA SubmitAppends ==
  ASSUME WakeInv, submit
  PROVE  Outstanding' = Append(Outstanding, submitted + 1)
  <1>1. submitted + 1 \in 1 .. MaxTasks
    BY MaxTasksAssumption DEF submit, WakeInv, TypeOK
  <1>2. InProgress' = InProgress
    BY DEF submit, notify_one, InProgress
  <1>3. /\ m_cbQue \in Seq(1 .. MaxTasks) /\ m_taskQue \in Seq(1 .. MaxTasks)
        /\ InProgress \in Seq(1 .. MaxTasks)
    BY InProgressType DEF WakeInv, TypeOK
  <1>4. m_cbQue' = m_cbQue /\ m_taskQue' = Append(m_taskQue, submitted + 1)
    BY DEF submit
  <1>5. m_cbQue \o InProgress \o Append(m_taskQue, submitted + 1)
          = Append(m_cbQue \o InProgress \o m_taskQue, submitted + 1)
    BY <1>1, <1>3, AppendLast
  <1> QED BY <1>2, <1>4, <1>5 DEF Outstanding

LEMMA HandlerTakesHead ==
  ASSUME WakeInv, background_handler, m_cbQue # <<>>
  PROVE  /\ Outstanding # <<>> /\ Outstanding' = Tail(Outstanding)
         /\ ran' = Append(ran, Head(Outstanding))
  <1>1. /\ m_cbQue \in Seq(1 .. MaxTasks) /\ m_taskQue \in Seq(1 .. MaxTasks)
        /\ InProgress \in Seq(1 .. MaxTasks)
    BY InProgressType DEF WakeInv, TypeOK
  <1>2. InProgress' = InProgress
    BY DEF background_handler, InProgress
  <1>3. /\ Outstanding # <<>> /\ Head(Outstanding) = Head(m_cbQue)
        /\ Tail(Outstanding) = Tail(m_cbQue) \o InProgress \o m_taskQue
    <2> DEFINE T == 1 .. MaxTasks
    <2>1. m_cbQue \in Seq(T) /\ InProgress \in Seq(T) /\ m_taskQue \in Seq(T)
      BY <1>1
    <2> HIDE DEF T
    <2>2. \A a, b, c \in Seq(T) : a # <<>> =>
            /\ a \o b \o c # <<>>
            /\ Head(a \o b \o c) = Head(a)
            /\ Tail(a \o b \o c) = Tail(a) \o b \o c
      BY HeadOfFirst
    <2>3. /\ m_cbQue \o InProgress \o m_taskQue # <<>>
          /\ Head(m_cbQue \o InProgress \o m_taskQue) = Head(m_cbQue)
          /\ Tail(m_cbQue \o InProgress \o m_taskQue)
               = Tail(m_cbQue) \o InProgress \o m_taskQue
      BY <2>1, <2>2, Zenon
    <2> QED BY <2>3, Zenon DEF Outstanding
  <1>4. /\ m_cbQue' = Tail(m_cbQue) /\ m_taskQue' = m_taskQue
        /\ ran' = Append(ran, Head(m_cbQue))
    BY DEF background_handler
  <1> QED BY <1>2, <1>3, <1>4 DEF Outstanding

LEMMA PopKeepsOutstanding ==
  ASSUME WakeInv, pop
  PROVE  Outstanding' = Outstanding
  <1>1. CASE m_done \/ m_taskQue = <<>>
    BY <1>1 DEF pop, Outstanding, InProgress
  <1>2. CASE ~m_done /\ m_taskQue # <<>>
    <2>1. m_cbQue \in Seq(1 .. MaxTasks) /\ m_taskQue \in Seq(1 .. MaxTasks)
      BY DEF WakeInv, TypeOK
    <2>2. InProgress = <<>> /\ InProgress' = <<Head(m_taskQue)>>
      BY <1>2 DEF pop, InProgress
    <2>3. m_cbQue' = m_cbQue /\ m_taskQue' = Tail(m_taskQue)
      BY <1>2 DEF pop
    <2>4. m_cbQue \o <<Head(m_taskQue)>> \o Tail(m_taskQue)
            = m_cbQue \o <<>> \o m_taskQue
      BY <1>2, <2>1, HeadToMiddle
    <2> QED BY <2>2, <2>3, <2>4 DEF Outstanding
  <1> QED BY <1>1, <1>2

LEMMA PublishKeepsOutstanding ==
  ASSUME WakeInv, PublishResult
  PROVE  Outstanding' = Outstanding
  <1>1. m_cbQue \in Seq(1 .. MaxTasks) /\ m_taskQue \in Seq(1 .. MaxTasks)
    BY DEF WakeInv, TypeOK
  <1>2. task \in 1 .. MaxTasks
    BY MaxTasksAssumption DEF PublishResult, WakeInv, TypeOK
  <1>3. InProgress = <<task>> /\ InProgress' = <<>>
    BY DEF PublishResult, InProgress
  <1>4. Append(m_cbQue, task) \o <<>> \o m_taskQue = m_cbQue \o <<task>> \o m_taskQue
    BY <1>1, <1>2, MiddleToFirst
  <1>5. m_cbQue' = Append(m_cbQue, task) /\ m_taskQue' = m_taskQue
    BY DEF PublishResult
  <1> QED BY <1>3, <1>4, <1>5 DEF Outstanding

LEMMA OthersKeepOutstanding ==
  ASSUME WakeInv, [Next]_vars, ~submit,
         ~(background_handler /\ m_cbQue # <<>>), ~pop, ~PublishResult
  PROVE  UNCHANGED <<Outstanding, submitted, ran>>
  <1> USE DEF queues, Outstanding, InProgress
  <1>1. CASE start \/ stop
    BY <1>1 DEF start, stop, WakeInv
  <1>2. CASE LoopWork
    BY <1>2 DEF LoopWork, background_handler, CallbackReturns, AsyncFires
  <1>3. CASE LoopStop
    BY <1>3 DEF LoopStop, QueStopSets, QueStopNotifies, join, notify_one
  <1>4. CASE BgStep \/ SpuriousWakeup
    BY <1>4 DEF BgStep, thread_loop, Block, RunTask, call_loop, SpuriousWakeup
  <1>5. CASE UNCHANGED vars
    BY <1>5 DEF vars
  <1> QED BY <1>1, <1>2, <1>3, <1>4, <1>5 DEF Next, Ended

(* Every step is a submission, an answer or a stutter of UnoAsync. *)
LEMMA StepRefines ==
  ASSUME OrderInv, [Next]_vars
  PROVE  /\ submitted' = (Len(Outstanding) + Len(ran))'
         /\ [Async!Submit \/ Async!Answer]_<<Outstanding, ran>>
  <1>0. Outstanding \in Seq(1 .. MaxTasks) /\ ran \in Seq(1 .. MaxTasks)
    BY InProgressType DEF OrderInv, WakeInv, TypeOK, Outstanding
  <1>1. CASE submit
    <2>1. submitted + 1 \in 1 .. MaxTasks
      BY <1>1, MaxTasksAssumption DEF submit, OrderInv, WakeInv, TypeOK
    <2>2. Outstanding' = Append(Outstanding, submitted + 1) /\ ran' = ran
          /\ submitted' = submitted + 1
      BY <1>1, SubmitAppends DEF submit, OrderInv
    <2>3. submitted' = (Len(Outstanding) + Len(ran))'
      BY <1>0, <2>1, <2>2 DEF OrderInv
    <2>4. Async!Submit
      BY <2>2 DEF OrderInv, Async!Submit, Outstanding
    <2> QED BY <2>3, <2>4
  <1>2. CASE background_handler /\ m_cbQue # <<>>
    <2>1. /\ Outstanding # <<>> /\ Outstanding' = Tail(Outstanding)
          /\ ran' = Append(ran, Head(Outstanding)) /\ submitted' = submitted
      BY <1>2, HandlerTakesHead DEF OrderInv, background_handler
    <2>2. submitted' = (Len(Outstanding) + Len(ran))'
      BY <1>0, <2>1 DEF OrderInv
    <2>3. Async!Answer
      BY <2>1 DEF Async!Answer, Outstanding
    <2> QED BY <2>2, <2>3
  <1>3. CASE pop
    BY <1>3, PopKeepsOutstanding DEF OrderInv, pop
  <1>4. CASE PublishResult
    BY <1>4, PublishKeepsOutstanding DEF OrderInv, PublishResult
  <1>5. CASE /\ ~submit /\ ~(background_handler /\ m_cbQue # <<>>)
             /\ ~pop /\ ~PublishResult
    BY <1>5, OthersKeepOutstanding DEF OrderInv
  <1> QED BY <1>1, <1>2, <1>3, <1>4, <1>5

(* However the threads interleave, the background thread with its two      *)
(* queues is one queue whose tasks are answered once each and in the order *)
(* of their submission: what the lobby and the accounts rely on.           *)
THEOREM BackgroundImplementsAsync == Spec => AnswersInOrder
  <1>1. Init => OrderInv /\ Async!AsyncInit
    <2> SUFFICES ASSUME Init PROVE OrderInv /\ Async!AsyncInit
      OBVIOUS
    <2>1. Outstanding = <<>>
      BY DEF Init, Outstanding, InProgress
    <2> QED BY <2>1, WakeInit DEF Init, OrderInv, Async!AsyncInit, Outstanding
  <1>2. OrderInv /\ [Next]_vars
          => OrderInv' /\ [Async!Submit \/ Async!Answer]_(Async!async)
    BY StepRefines, WakeInductive DEF OrderInv, Async!async, Outstanding
  <1> QED BY <1>1, <1>2, PTL DEF Spec, AnswersInOrder, Async!AsyncSpec
=============================================================================
