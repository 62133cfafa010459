------------------------------ MODULE ThreadPool -----------------------------
(***************************************************************************)
(* The thread pool of src/thread_pool.cpp.  Worker threads run the loop of *)
(* WorkThreadFunction; one other thread, the owner, calls AddTask,         *)
(* Suspend, Resume, SetSize, Stop and the destructor.  Suspending and      *)
(* stopping work through the queue itself: the owner pushes tasks of the   *)
(* highest priority (TPTask, STOPTASK), and a worker that executes a       *)
(* TPTask blocks on m_cv while m_is_suspend is set.                        *)
(*                                                                         *)
(* Push and Pop are atomic here: WPQ shows that they implement the atomic  *)
(* Put and Take of PriorityQueue.  m_is_suspend is a plain bool that the   *)
(* owner writes without m_mutex while workers read it: each access is a    *)
(* step of its own, so a read sees either value around a write.            *)
(***************************************************************************)
EXTENDS Integers, FiniteSets

CONSTANTS Workers,      \* the threads the pool may ever create
          InitWorkers,  \* those the constructor creates
          Tasks,        \* the tasks the owner adds, each at most once
          Priority,     \* Tasks -> LOW .. HIGH, as numbers below ADMIN
          ADMIN,        \* the priority of TPTask and STOPTASK
          Sizes,        \* the arguments of SetSize
          MaxCalls,     \* bound on calls of Suspend, Resume, SetSize, Stop
          TPTASK, STOPTASK,
          NoTask, NoThread

AllTasks == Tasks \cup {TPTASK, STOPTASK}

ASSUME PoolAssumption ==
  /\ IsFiniteSet(Workers) /\ InitWorkers \subseteq Workers
  /\ ADMIN \in Nat
  /\ Priority \in [Tasks -> Nat]
  /\ \A t \in Tasks : Priority[t] < ADMIN
  /\ Sizes \subseteq 0 .. Cardinality(Workers)
  /\ MaxCalls \in Nat
  /\ TPTASK \notin Tasks /\ STOPTASK \notin Tasks /\ TPTASK # STOPTASK
  /\ NoTask \notin AllTasks
  /\ NoThread \notin Workers

VARIABLES m_threads,         \* the threads created
          m_wpq,             \* how often each task is in the queue
          m_is_stop, m_is_suspend,
          m_active_threads,  \* the size last asked for
          m_mutex,           \* the worker that holds it, or NoThread
          pc, task,          \* where each worker is, and the task it popped
          op, left, target,  \* the owner's call, its iterations left and its
                             \* argument
          added, calls       \* the tasks added so far; the calls so far

workerVars == <<pc, task>>
ownerVars  == <<op, left, target, added, calls>>
flags      == <<m_is_stop, m_is_suspend, m_active_threads>>
vars       == <<m_threads, m_wpq, flags, m_mutex, workerVars, ownerVars>>

\* A TPTask that is queued among the owner's tasks.
MutPrio(t) == IF t \in Tasks THEN Priority[t] ELSE 0

Prio(t) == IF t \in Tasks THEN Priority[t] ELSE ADMIN

Queued == {t \in AllTasks : m_wpq[t] > 0}

\* The tasks Pop may return.
Top == {t \in Queued : \A u \in Queued : Prio(u) <= Prio(t)}

Push(t) == m_wpq' = [m_wpq EXCEPT ![t] = @ + 1]

Asleep == {w \in Workers : pc[w] = "cv_wait"}

-----------------------------------------------------------------------------
Init == /\ m_threads = InitWorkers
        /\ m_wpq = [t \in AllTasks |-> 0]
        /\ m_is_stop = FALSE /\ m_is_suspend = FALSE
        /\ m_active_threads = Cardinality(InitWorkers)
        /\ m_mutex = NoThread
        /\ pc = [w \in Workers |-> IF w \in InitWorkers THEN "loop" ELSE "none"]
        /\ task = [w \in Workers |-> NoTask]
        /\ op = "idle" /\ left = 0 /\ target = 0
        /\ added = {} /\ calls = 0

-----------------------------------------------------------------------------
(* The workers. *)

\* A loop that a suspension ends as well.
MutTestStop(w) ==
  /\ pc[w] = "loop"
  /\ pc' = [pc EXCEPT ![w] = IF m_is_stop \/ m_is_suspend THEN "exited" ELSE "pop"]
  /\ UNCHANGED <<m_threads, m_wpq, flags, m_mutex, task, ownerVars>>

\* while (0 == m_is_stop)
TestStop(w) == /\ pc[w] = "loop"
               /\ pc' = [pc EXCEPT ![w] = IF m_is_stop THEN "exited" ELSE "pop"]
               /\ UNCHANGED <<m_threads, m_wpq, flags, m_mutex, task, ownerVars>>

\* m_wpq.Pop(), then the call of Execute.
PopTask(w) == /\ pc[w] = "pop"
              /\ \E t \in Top :
                   /\ m_wpq' = [m_wpq EXCEPT ![t] = @ - 1]
                   /\ task' = [task EXCEPT ![w] = t]
                   /\ pc' = [pc EXCEPT ![w] = IF t = TPTASK THEN "tp_lock" ELSE "run"]
              /\ UNCHANGED <<m_threads, flags, m_mutex, ownerVars>>

\* Execute of an ordinary task or of STOPTASK returns.
RunTask(w) == /\ pc[w] = "run"
              /\ pc' = [pc EXCEPT ![w] = "loop"]
              /\ task' = [task EXCEPT ![w] = NoTask]
              /\ UNCHANGED <<m_threads, m_wpq, flags, m_mutex, ownerVars>>

\* TPTask::Execute takes m_mutex, at its start and after each wake-up.
TPLock(w) == /\ pc[w] = "tp_lock"
             /\ m_mutex = NoThread
             /\ m_mutex' = w
             /\ pc' = [pc EXCEPT ![w] = "tp_test"]
             /\ UNCHANGED <<m_threads, m_wpq, flags, task, ownerVars>>

\* A wait without a predicate: whoever is woken returns.
MutTPReturn(w) == /\ pc[w] = "tp_test"
                  /\ m_mutex' = NoThread
                  /\ pc' = [pc EXCEPT ![w] = "loop"]
                  /\ task' = [task EXCEPT ![w] = NoTask]
                  /\ UNCHANGED <<m_threads, m_wpq, flags, ownerVars>>

\* The predicate !m_is_suspend is true: Execute returns.
TPReturn(w) == /\ pc[w] = "tp_test"
               /\ ~m_is_suspend
               /\ m_mutex' = NoThread
               /\ pc' = [pc EXCEPT ![w] = "loop"]
               /\ task' = [task EXCEPT ![w] = NoTask]
               /\ UNCHANGED <<m_threads, m_wpq, flags, ownerVars>>

\* The predicate is false: the worker has decided to block.
TPDecide(w) == /\ pc[w] = "tp_test"
               /\ m_is_suspend
               /\ pc' = [pc EXCEPT ![w] = "tp_block"]
               /\ UNCHANGED <<m_threads, m_wpq, flags, m_mutex, task, ownerVars>>

\* A worker that sleeps with m_mutex locked.
MutTPBlock(w) == /\ pc[w] = "tp_block"
                 /\ pc' = [pc EXCEPT ![w] = "cv_wait"]
                 /\ UNCHANGED <<m_threads, m_wpq, flags, m_mutex, task, ownerVars>>

\* It blocks on m_cv and releases m_mutex, in one step.
TPBlock(w) == /\ pc[w] = "tp_block"
              /\ m_mutex' = NoThread
              /\ pc' = [pc EXCEPT ![w] = "cv_wait"]
              /\ UNCHANGED <<m_threads, m_wpq, flags, task, ownerVars>>

\* The standard lets a wait return without a notify.
Spurious(w) == /\ pc[w] = "cv_wait"
               /\ pc' = [pc EXCEPT ![w] = "tp_lock"]
               /\ UNCHANGED <<m_threads, m_wpq, flags, m_mutex, task, ownerVars>>

WorkerStep(w) == \/ TestStop(w) \/ PopTask(w) \/ RunTask(w)
                 \/ TPLock(w) \/ TPReturn(w) \/ TPDecide(w) \/ TPBlock(w)

-----------------------------------------------------------------------------
(* The owner. *)

AddTask(t) == /\ op = "idle"
              /\ t \notin added
              /\ added' = added \cup {t}
              /\ Push(t)
              /\ UNCHANGED <<m_threads, flags, m_mutex, workerVars,
                             op, left, target, calls>>

Call(o, n) == /\ op = "idle"
              /\ calls < MaxCalls
              /\ calls' = calls + 1
              /\ op' = o
              /\ left' = n

Suspend == /\ Call("suspend", m_active_threads)
           /\ m_is_suspend' = TRUE
           /\ UNCHANGED <<m_threads, m_wpq, m_is_stop, m_active_threads,
                          m_mutex, workerVars, target, added>>

\* Pushes of Suspend and of a SetSize that shrinks the pool.
PushTPTask == /\ op \in {"suspend", "shrink"}
              /\ left > 0
              /\ left' = left - 1
              /\ Push(TPTASK)
              /\ UNCHANGED <<m_threads, flags, m_mutex, workerVars,
                             op, target, added, calls>>

\* m_is_suspend is cleared without m_mutex.
Resume == /\ Call("resume", m_active_threads)
          /\ m_is_suspend' = FALSE
          /\ UNCHANGED <<m_threads, m_wpq, m_is_stop, m_active_threads,
                         m_mutex, workerVars, target, added>>

\* m_cv.notify_one: wakes a sleeping worker if there is one.
NotifyOne == \/ Asleep = {} /\ UNCHANGED pc
             \/ \E w \in Asleep : pc' = [pc EXCEPT ![w] = "tp_lock"]

\* A loop that runs once more than it should.
MutResumeNotify == /\ op = "resume"
                   /\ left >= 0
                   /\ left' = left - 1
                   /\ NotifyOne
                   /\ UNCHANGED <<m_threads, m_wpq, flags, m_mutex, task,
                                  op, target, added, calls>>

ResumeNotify == /\ op = "resume"
                /\ left > 0
                /\ left' = left - 1
                /\ NotifyOne
                /\ UNCHANGED <<m_threads, m_wpq, flags, m_mutex, task,
                               op, target, added, calls>>

\* The branches of SetSize.  The header asks for Resume before SetSize.  A
\* growing request that finds fewer threads than m_active_threads does nothing.
SetSize(n) ==
  /\ ~m_is_suspend
  /\ \/ /\ n > m_active_threads /\ Cardinality(m_threads) = m_active_threads
        /\ Call("grow", n - m_active_threads)
     \/ /\ n > m_active_threads /\ Cardinality(m_threads) > m_active_threads
        /\ Call("wake", n - m_active_threads)
     \/ /\ n > m_active_threads /\ Cardinality(m_threads) < m_active_threads
        /\ Call("skip", 0)
     \/ /\ n < m_active_threads
        /\ Call("shrink", m_active_threads - n)
     \/ /\ n = m_active_threads
        /\ Call("skip", 0)
  /\ target' = n
  /\ UNCHANGED <<m_threads, m_wpq, flags, m_mutex, workerVars, added>>

\* m_threads.emplace_back starts a thread,
GrowThread(w) == /\ op = "grow"
                 /\ left > 0
                 /\ left' = left - 1
                 /\ w \in Workers \ m_threads
                 /\ m_threads' = m_threads \cup {w}
                 /\ pc' = [pc EXCEPT ![w] = "loop"]
                 /\ UNCHANGED <<m_wpq, flags, m_mutex, task, op, target, added, calls>>

\* or throws, and the loop goes on.
GrowFails == /\ op = "grow"
             /\ left > 0
             /\ left' = left - 1
             /\ UNCHANGED <<m_threads, m_wpq, flags, m_mutex, workerVars,
                            op, target, added, calls>>

\* The notify_one of SetSize, under m_mutex.
WakeNotify == /\ op = "wake"
              /\ left > 0
              /\ left' = left - 1
              /\ m_mutex = NoThread
              /\ NotifyOne
              /\ UNCHANGED <<m_threads, m_wpq, flags, m_mutex, task,
                             op, target, added, calls>>

SetSizeReturn == /\ op \in {"grow", "wake", "shrink", "skip"}
                 /\ left = 0
                 /\ m_active_threads' = target
                 /\ op' = "idle" /\ target' = 0
                 /\ UNCHANGED <<m_threads, m_wpq, m_is_stop, m_is_suspend, m_mutex,
                                workerVars, left, added, calls>>

\* A Stop that pushes one STOPTASK per active thread.
MutStop == /\ Call("stop", m_active_threads)
           /\ m_is_stop' = TRUE
           /\ UNCHANGED <<m_threads, m_wpq, m_is_suspend, m_active_threads,
                          m_mutex, workerVars, target, added>>

Stop == /\ Call("stop", Cardinality(m_threads))
        /\ m_is_stop' = TRUE
        /\ UNCHANGED <<m_threads, m_wpq, m_is_suspend, m_active_threads,
                       m_mutex, workerVars, target, added>>

\* A destructor that forgets the flag.
MutDestroy == /\ op = "idle"
              /\ op' = "dtor"
              /\ left' = Cardinality(m_threads)
              /\ UNCHANGED <<m_threads, m_wpq, flags,
                             m_mutex, workerVars, target, added, calls>>

\* ~ThreadPool: Stop, then join.
Destroy == /\ op = "idle"
           /\ op' = "dtor"
           /\ left' = Cardinality(m_threads)
           /\ m_is_stop' = TRUE
           /\ UNCHANGED <<m_threads, m_wpq, m_is_suspend, m_active_threads,
                          m_mutex, workerVars, target, added, calls>>

PushStopTask == /\ op \in {"stop", "dtor"}
                /\ left > 0
                /\ left' = left - 1
                /\ Push(STOPTASK)
                /\ UNCHANGED <<m_threads, flags, m_mutex, workerVars,
                               op, target, added, calls>>

\* The loop of Suspend, Resume or Stop is over.
Return == /\ left = 0
          /\ \/ op \in {"suspend", "resume", "stop"} /\ op' = "idle"
             \/ op = "dtor" /\ op' = "join"
          /\ UNCHANGED <<m_threads, m_wpq, flags, m_mutex, workerVars,
                         left, target, added, calls>>

\* The destructor has joined every thread.
Join == /\ op = "join"
        /\ \A w \in m_threads : pc[w] = "exited"
        /\ op' = "destroyed"
        /\ UNCHANGED <<m_threads, m_wpq, flags, m_mutex, workerVars,
                       left, target, added, calls>>

OwnerCall == \/ \E t \in Tasks : AddTask(t)
             \/ Suspend \/ Resume \/ Stop \/ Destroy
             \/ \E n \in Sizes : SetSize(n)

OwnerStep == \/ PushTPTask \/ ResumeNotify
             \/ GrowFails \/ \E w \in Workers : GrowThread(w)
             \/ WakeNotify \/ SetSizeReturn
             \/ PushStopTask \/ Return \/ Join

Next == \/ \E w \in Workers : WorkerStep(w) \/ Spurious(w)
        \/ OwnerCall \/ OwnerStep

\* A worker goes on until it blocks, tasks return, and the owner finishes the
\* calls it makes; it need not make any.
Fairness == /\ \A w \in Workers : WF_vars(WorkerStep(w))
            /\ WF_vars(OwnerStep)

Spec == Init /\ [][Next]_vars /\ Fairness

-----------------------------------------------------------------------------
Blocking == {"tp_lock", "tp_test", "tp_block", "cv_wait"}

\* The state is well typed, and m_mutex is held exactly inside TPTask::Execute.
TypeOK ==
  /\ m_threads \subseteq Workers
  /\ m_wpq \in [AllTasks -> Nat]
  /\ m_is_stop \in BOOLEAN /\ m_is_suspend \in BOOLEAN
  /\ m_active_threads \in Nat
  /\ m_mutex \in Workers \cup {NoThread}
  /\ pc \in [Workers -> {"none", "loop", "pop", "run", "exited"} \cup Blocking]
  /\ \A w \in Workers : w \in m_threads <=> pc[w] # "none"
  /\ \A w \in Workers : pc[w] \in {"tp_test", "tp_block"} <=> m_mutex = w
  /\ task \in [Workers -> AllTasks \cup {NoTask}]
  /\ op \in {"idle", "suspend", "resume", "grow", "wake", "shrink", "skip",
             "stop", "dtor", "join", "destroyed"}
  /\ left \in Nat /\ target \in Nat /\ calls \in Nat
  /\ added \subseteq Tasks

\* The workers that execute a TPTask.
Parked == {w \in Workers : pc[w] \in Blocking}

\* While the pool is suspended, m_active_threads TPTasks are in the queue or
\* being executed: none is used up by a worker that goes on to other tasks.
EnoughParked ==
  m_is_suspend =>
    m_wpq[TPTASK] + Cardinality(Parked) + (IF op = "suspend" THEN left ELSE 0)
      >= m_active_threads

\* Once Suspend has returned, a worker takes a task of the owner's only if the
\* pool has more threads than m_active_threads (a smaller SetSize stops none).
SuspendStops ==
  [][\A w \in Workers :
       /\ m_is_suspend /\ op = "idle"
       /\ task[w] = NoTask /\ task'[w] \in Tasks
       => m_active_threads < Cardinality(m_threads)]_vars

\* After Stop, every worker that has passed the test of m_is_stop finds a task
\* in the queue: none waits in Pop for ever.
EnoughStopTasks ==
  m_is_stop =>
    m_wpq[STOPTASK] + (IF op \in {"stop", "dtor"} THEN left ELSE 0)
      >= Cardinality({w \in Workers : pc[w] = "pop"})

\* What a worker waits for, if anything, is there.
WorkerCanStep(w) == \/ pc[w] \in {"loop", "run", "tp_test", "tp_block"}
                    \/ pc[w] = "pop" /\ Top # {}
                    \/ pc[w] = "tp_lock" /\ m_mutex = NoThread

\* The same for the owner, except that Join waits for the workers.
OwnerCanStep == /\ op \notin {"idle", "join", "destroyed"}
                /\ op = "wake" /\ left > 0 => m_mutex = NoThread

\* No deadlock: the owner inside a call, and a thread with a task to take, wait
\* for somebody who can go on; the destructor's joins wait for nobody but the
\* threads asleep in a TPTask.
NeverStuck ==
  \/ op \notin {"idle", "join", "destroyed"}
  \/ Queued # {} /\ \E w \in m_threads : pc[w] \notin {"cv_wait", "exited"}
  \/ op = "join" /\ \E w \in m_threads : pc[w] \notin {"cv_wait", "exited"}
  => OwnerCanStep \/ \E w \in m_threads : WorkerCanStep(w)

\* The destructor clears no flag but m_is_stop: of a pool destroyed while it is
\* suspended and a worker is in a TPTask, it never returns.
SuspendedPoolNeverEnds ==
  [](op = "dtor" /\ m_is_suspend /\ Parked # {} => [](op # "destroyed"))

\* The destructor returns unless a worker is, or is about to be, asleep in a
\* TPTask.
DestructorReturns ==
  (op = "dtor" /\ ~m_is_suspend /\ \A w \in Workers : pc[w] \notin {"tp_block", "cv_wait"})
    ~> op = "destroyed"

\* A SetSize that has to take m_mutex gets it.
SetSizeReturns == op = "wake" ~> op = "idle"

\* A task in the queue is taken unless the pool is suspended or stopped, or all
\* its workers missed the notify of a Resume.
TaskTaken ==
  \A t \in Tasks : m_wpq[t] > 0 ~> \/ m_wpq[t] = 0
                                   \/ m_is_suspend \/ m_is_stop
                                   \/ \A w \in m_threads : pc[w] = "cv_wait"

-----------------------------------------------------------------------------
(* What the comments and the test of the pool say, and the code does not do. *)

\* A pool that was suspended and resumed can be destroyed (test/thread_pool_test.cpp: Resume
\* in line 82, then the end of main).
ResumedPoolEnds == (op = "dtor" /\ ~m_is_suspend) ~> op = "destroyed"
==============================================================================
