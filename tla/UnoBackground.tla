--------------------------- MODULE UnoBackground ---------------------------
(***************************************************************************)
(* The background thread (core/background.h, background.cpp), its task     *)
(* queue and the loop's callback queue (core/ThreadQue.h), and the handler *)
(* that runs callbacks on the event loop (core/server.h).                  *)
(*                                                                         *)
(* Two threads take steps: the event loop (variable loop is its program    *)
(* counter), which submits tasks, runs callbacks and finally stops the     *)
(* background thread, and the background thread (variable bg).  A step is  *)
(* a section between two accesses to shared state.  The mutex of the task  *)
(* queue is held by the background thread while bg = "commit": it has      *)
(* found nothing to do and is about to block.  Every other critical        *)
(* section is a single step.  libuv's async handle is the flag pending:    *)
(* sends coalesce, and the flag is cleared before the handler runs.        *)
(***************************************************************************)
EXTENDS Naturals, Sequences

CONSTANT MaxTasks    \* bound on the tasks submitted

ASSUME MaxTasksAssumption == MaxTasks \in Nat

VARIABLES
  submitted,   \* number of tasks submitted; they are numbered from 1
  m_taskQue,   \* the task queue
  m_done,      \* ThreadQue::m_done of the task queue
  m_running,   \* Background::m_running
  bg,          \* program counter of the background thread
  task,        \* the task it works on
  m_cbQue,     \* the callback queue
  pending,     \* the async handle was sent to and has not fired yet
  loop,        \* program counter of the event loop's thread
  ran          \* callbacks run so far

vars == <<submitted, m_taskQue, m_done, m_running, bg, task, m_cbQue,
          pending, loop, ran>>
queues == <<submitted, m_taskQue, task, m_cbQue, ran>>

Stopping == {"stop", "notify", "join", "stopped"}

TypeOK ==
  /\ submitted \in 0 .. MaxTasks
  /\ m_taskQue \in Seq(1 .. MaxTasks) /\ m_cbQue \in Seq(1 .. MaxTasks)
  /\ ran \in Seq(1 .. MaxTasks)
  /\ task \in 0 .. MaxTasks
  /\ m_done \in BOOLEAN /\ m_running \in BOOLEAN /\ pending \in BOOLEAN
  /\ bg \in {"none", "check", "test", "commit", "wait", "run", "publish",
             "signal", "exit"}
  /\ loop \in {"boot", "idle", "drain", "callback"} \cup Stopping

Init ==
  /\ submitted = 0 /\ task = 0
  /\ m_taskQue = <<>> /\ m_cbQue = <<>> /\ ran = <<>>
  /\ m_done = FALSE /\ m_running = FALSE /\ pending = FALSE
  /\ bg = "none" /\ loop = "boot"

-----------------------------------------------------------------------------
\* m_cond.notify_one: a blocked thread wakes up and tests its condition again.
\* Nobody hears it who is not blocked yet.
notify_one == bg' = IF bg = "wait" THEN "test" ELSE bg

\* Background::start, called once before the loop accepts requests.
start ==
  /\ loop = "boot"
  /\ loop' = "idle" /\ m_running' = TRUE /\ bg' = "check"
  /\ UNCHANGED <<queues, m_done, pending>>

\* Mutant: push does not notify.
MutSubmitSilently ==
  /\ loop \in {"idle", "callback"}
  /\ submitted < MaxTasks
  /\ bg # "commit"
  /\ submitted' = submitted + 1
  /\ m_taskQue' = Append(m_taskQue, submitted + 1)
  /\ UNCHANGED <<m_done, m_running, bg, task, m_cbQue, pending, loop, ran>>

\* Background::submit, from a request handler or from a callback: push takes
\* the mutex, appends and notifies.
submit ==
  /\ loop \in {"idle", "callback"}
  /\ submitted < MaxTasks
  /\ bg # "commit"
  /\ submitted' = submitted + 1
  /\ m_taskQue' = Append(m_taskQue, submitted + 1)
  /\ notify_one
  /\ UNCHANGED <<m_done, m_running, task, m_cbQue, pending, loop, ran>>

\* Mutant: the handler takes one callback per wake-up.
MutHandlerTakesOne ==
  /\ loop = "drain"
  /\ IF m_cbQue = <<>>
     THEN loop' = "idle" /\ UNCHANGED <<m_cbQue, ran>>
     ELSE /\ ran' = Append(ran, Head(m_cbQue))
          /\ m_cbQue' = Tail(m_cbQue)
          /\ loop' = "idle"
  /\ UNCHANGED <<submitted, m_taskQue, m_done, m_running, bg, task, pending>>

\* background_handler: pops callbacks until the queue is empty.
background_handler ==
  /\ loop = "drain"
  /\ IF m_cbQue = <<>>
     THEN loop' = "idle" /\ UNCHANGED <<m_cbQue, ran>>
     ELSE /\ ran' = Append(ran, Head(m_cbQue))
          /\ m_cbQue' = Tail(m_cbQue)
          /\ loop' = "callback"
  /\ UNCHANGED <<submitted, m_taskQue, m_done, m_running, bg, task, pending>>

\* The callback returns to the handler.
CallbackReturns ==
  /\ loop = "callback"
  /\ loop' = "drain"
  /\ UNCHANGED <<queues, m_done, m_running, bg, pending>>

\* libuv fires the async handle.
AsyncFires ==
  /\ loop = "idle" /\ pending
  /\ pending' = FALSE
  /\ loop' = "drain"
  /\ UNCHANGED <<queues, m_done, m_running, bg>>

\* Background::stop, once the loop has ended: m_running is cleared, then
\* ThreadQue::stop sets m_done and notifies, without taking the mutex, then
\* the thread is joined.
stop ==
  /\ loop = "idle"
  /\ loop' = "stop" /\ m_running' = FALSE
  /\ UNCHANGED <<queues, m_done, bg, pending>>

QueStopSets ==
  /\ loop = "stop"
  /\ loop' = "notify" /\ m_done' = TRUE
  /\ UNCHANGED <<queues, m_running, bg, pending>>

QueStopNotifies ==
  /\ loop = "notify"
  /\ loop' = "join"
  /\ notify_one
  /\ UNCHANGED <<queues, m_done, m_running, pending>>

join ==
  /\ loop = "join" /\ bg = "exit"
  /\ loop' = "stopped"
  /\ UNCHANGED <<queues, m_done, m_running, bg, pending>>

-----------------------------------------------------------------------------
\* thread_loop: while (m_running) do_task().
thread_loop ==
  /\ bg = "check"
  /\ bg' = IF m_running THEN "test" ELSE "exit"
  /\ UNCHANGED <<queues, m_done, m_running, pending, loop>>

\* Mutant: the newest task is taken first.
MutPopNewest ==
  /\ bg = "test"
  /\ IF m_done
     THEN bg' = "check" /\ UNCHANGED <<m_taskQue, task>>
     ELSE IF m_taskQue = <<>>
     THEN bg' = "commit" /\ UNCHANGED <<m_taskQue, task>>
     ELSE /\ task' = m_taskQue[Len(m_taskQue)]
          /\ m_taskQue' = SubSeq(m_taskQue, 1, Len(m_taskQue) - 1)
          /\ bg' = "run"
  /\ UNCHANGED <<submitted, m_done, m_running, m_cbQue, pending, loop, ran>>

\* Mutant: the thread does not look whether it got a task.
MutPopNothing ==
  /\ bg = "test"
  /\ IF m_done
     THEN bg' = "run" /\ task' = 0 /\ UNCHANGED m_taskQue
     ELSE IF m_taskQue = <<>>
     THEN bg' = "commit" /\ UNCHANGED <<m_taskQue, task>>
     ELSE /\ task' = Head(m_taskQue)
          /\ m_taskQue' = Tail(m_taskQue)
          /\ bg' = "run"
  /\ UNCHANGED <<submitted, m_done, m_running, m_cbQue, pending, loop, ran>>

\* ThreadQue::pop: the condition of the wait is tested with the mutex held.
\* When the queue was stopped nothing is popped, whatever it holds.
pop ==
  /\ bg = "test"
  /\ IF m_done
     THEN bg' = "check" /\ UNCHANGED <<m_taskQue, task>>
     ELSE IF m_taskQue = <<>>
     THEN bg' = "commit" /\ UNCHANGED <<m_taskQue, task>>
     ELSE /\ task' = Head(m_taskQue)
          /\ m_taskQue' = Tail(m_taskQue)
          /\ bg' = "run"
  /\ UNCHANGED <<submitted, m_done, m_running, m_cbQue, pending, loop, ran>>

\* The wait releases the mutex and blocks.
Block ==
  /\ bg = "commit"
  /\ bg' = "wait"
  /\ UNCHANGED <<queues, m_done, m_running, pending, loop>>

\* A wait may end without a notification.
SpuriousWakeup ==
  /\ bg = "wait"
  /\ bg' = "test"
  /\ UNCHANGED <<queues, m_done, m_running, pending, loop>>

\* The task runs; a value and an exception both become a result.
RunTask ==
  /\ bg = "run"
  /\ bg' = "publish"
  /\ UNCHANGED <<queues, m_done, m_running, pending, loop>>

\* The callback is queued for the loop.
PublishResult ==
  /\ bg = "publish"
  /\ m_cbQue' = Append(m_cbQue, task)
  /\ bg' = "signal"
  /\ UNCHANGED <<submitted, m_taskQue, task, ran, m_done, m_running, pending, loop>>

\* call_loop: uv_async_send.
call_loop ==
  /\ bg = "signal"
  /\ pending' = TRUE
  /\ bg' = "check"
  /\ UNCHANGED <<queues, m_done, m_running, loop>>

-----------------------------------------------------------------------------
LoopWork == background_handler \/ CallbackReturns \/ AsyncFires
LoopStop == QueStopSets \/ QueStopNotifies \/ join
BgStep == thread_loop \/ pop \/ Block \/ RunTask \/ PublishResult \/ call_loop

\* The process has ended.
Ended == loop = "stopped" /\ UNCHANGED vars

Next ==
  \/ start \/ submit \/ LoopWork \/ stop \/ LoopStop
  \/ BgStep \/ SpuriousWakeup
  \/ Ended

Spec == Init /\ [][Next]_vars

\* Both threads are scheduled.  Nothing forces a wait to end by itself, a
\* client to send requests, or anybody to stop the server.
FairSpec ==
  /\ Spec
  /\ WF_vars(LoopWork) /\ WF_vars(LoopStop) /\ WF_vars(BgStep)

-----------------------------------------------------------------------------
(***************************************************************************)
(* Two queues and the task in progress are together one queue: every task  *)
(* is answered once, in the order of submission, and none is lost or       *)
(* overtaken between the threads (background.h:60-83, ThreadQue.h:28-69).  *)
(***************************************************************************)
InProgress == IF bg \in {"run", "publish"} THEN <<task>> ELSE <<>>
Async == INSTANCE UnoAsync WITH
           outstanding <- m_cbQue \o InProgress \o m_taskQue,
           answered <- ran
AnswersInOrder == Async!AsyncSpec

(***************************************************************************)
(* No wake-up of the loop is lost: a callback in the queue is either about *)
(* to be announced, announced, or will be found by a handler that is       *)
(* already draining (background.h:77-78, server.h:92-103).                 *)
(***************************************************************************)
CallbackSeen ==
  m_cbQue # <<>> => \/ bg = "signal"
                    \/ pending
                    \/ loop \in {"drain", "callback"}

(***************************************************************************)
(* No wake-up of the background thread is lost on the way in: it never     *)
(* blocks, or goes to block, with a task in the queue (ThreadQue.h:28-59). *)
(***************************************************************************)
NeverBlocksOnWork == bg \in {"commit", "wait"} => m_taskQue = <<>>

(***************************************************************************)
(* Every submitted task is answered, unless the server is stopped first    *)
(* (background.cpp:110-118, server.h:92-103).                              *)
(***************************************************************************)
EveryTaskAnswered ==
  \A t \in 1 .. MaxTasks :
    submitted >= t ~> (Len(ran) >= t \/ loop \in Stopping)

(***************************************************************************)
(* Background::stop returns: a stopped queue makes pop return nullopt      *)
(* (ThreadQue.h:52), so the thread ends and can be joined.                 *)
(***************************************************************************)
StopReturns == loop = "stop" ~> loop = "stopped"
=============================================================================
