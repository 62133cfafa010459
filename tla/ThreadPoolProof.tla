--------------------------- MODULE ThreadPoolProof ---------------------------
(***************************************************************************)
(* Proofs about ThreadPool, for every number of workers, every set of      *)
(* tasks and every sequence of calls.                                      *)
(***************************************************************************)
EXTENDS ThreadPool, FiniteSetTheorems, TLAPS

LEMMA WorkerSets ==
  ASSUME NEW S \in SUBSET Workers
  PROVE  IsFiniteSet(S) /\ Cardinality(S) \in Nat
<1>1. IsFiniteSet(S)
  BY PoolAssumption, FS_Subset
<1>. QED  BY <1>1, FS_CardinalityType

LEMMA SizesType == \A n \in Sizes : n \in Nat
BY PoolAssumption, WorkerSets

(***************************************************************************)
(* Type correctness.                                                       *)
(***************************************************************************)
LEMMA TypeWorker ==
  ASSUME TypeOK, NEW w \in Workers, WorkerStep(w) \/ Spurious(w)
  PROVE  TypeOK'
<1> USE PoolAssumption DEF TypeOK, AllTasks, Blocking, flags, ownerVars
<1>1. CASE TestStop(w)
  BY <1>1 DEF TestStop
<1>2. CASE PopTask(w)
  <2>1. PICK t \in Top :
          /\ m_wpq' = [m_wpq EXCEPT ![t] = @ - 1]
          /\ task' = [task EXCEPT ![w] = t]
          /\ pc' = [pc EXCEPT ![w] = IF t = TPTASK THEN "tp_lock" ELSE "run"]
    BY <1>2 DEF PopTask
  <2>2. t \in AllTasks /\ m_wpq[t] - 1 \in Nat
    BY DEF Top, Queued
  <2>3. m_wpq' \in [AllTasks -> Nat] /\ task' \in [Workers -> AllTasks \cup {NoTask}]
    BY <2>1, <2>2
  <2>. QED  BY <1>2, <2>1, <2>3 DEF PopTask
<1>3. CASE RunTask(w)
  BY <1>3 DEF RunTask
<1>4. CASE TPLock(w)
  BY <1>4 DEF TPLock
<1>5. CASE TPReturn(w)
  BY <1>5 DEF TPReturn
<1>6. CASE TPDecide(w)
  BY <1>6 DEF TPDecide
<1>7. CASE TPBlock(w)
  BY <1>7 DEF TPBlock
<1>8. CASE Spurious(w)
  BY <1>8 DEF Spurious
<1>. QED
  BY <1>1, <1>2, <1>3, <1>4, <1>5, <1>6, <1>7, <1>8 DEF WorkerStep

LEMMA TypeCall == TypeOK /\ OwnerCall => TypeOK'
<1> SUFFICES ASSUME TypeOK, OwnerCall PROVE TypeOK'
  OBVIOUS
<1>0. Cardinality(m_threads) \in Nat
  BY WorkerSets DEF TypeOK
<1> USE PoolAssumption, <1>0 DEF TypeOK, AllTasks, Blocking, flags, workerVars, Call
<1>1. ASSUME NEW t \in Tasks, AddTask(t) PROVE TypeOK'
  BY <1>1 DEF AddTask, Push
<1>2. CASE Suspend
  BY <1>2 DEF Suspend
<1>3. CASE Resume
  <2>1. m_is_suspend' \in BOOLEAN
    BY <1>3, Zenon DEF Resume
  <2>2. left' \in Nat /\ calls' \in Nat
    BY <1>3 DEF Resume
  <2>. QED  BY <1>3, <2>1, <2>2 DEF Resume
<1>4. CASE Stop
  BY <1>4 DEF Stop
<1>5. CASE Destroy
  BY <1>5 DEF Destroy
<1>6. ASSUME NEW n \in Sizes, SetSize(n) PROVE TypeOK'
  <2>1. n \in Nat
    BY SizesType
  <2>2. op' \in {"grow", "wake", "skip", "shrink"} /\ left' \in Nat /\ calls' \in Nat
    BY <1>6, <2>1 DEF SetSize
  <2>. QED  BY <1>6, <2>1, <2>2 DEF SetSize
<1>. QED  BY <1>1, <1>2, <1>3, <1>4, <1>5, <1>6 DEF OwnerCall

LEMMA TypeOwner == TypeOK /\ OwnerStep => TypeOK'
<1> SUFFICES ASSUME TypeOK, OwnerStep PROVE TypeOK'
  OBVIOUS
<1> USE PoolAssumption DEF TypeOK, AllTasks, Blocking, flags, workerVars
<1>1. CASE PushTPTask
  BY <1>1 DEF PushTPTask, Push
<1>n. ASSUME NotifyOne, UNCHANGED <<m_threads, m_mutex>>
      PROVE  /\ pc' \in [Workers -> {"none", "loop", "pop", "run", "exited"} \cup Blocking]
             /\ \A w \in Workers : w \in m_threads' <=> pc'[w] # "none"
             /\ \A w \in Workers : pc'[w] \in {"tp_test", "tp_block"} <=> m_mutex' = w
  BY <1>n DEF NotifyOne, Asleep
<1>2. CASE ResumeNotify
  BY <1>2, <1>n DEF ResumeNotify
<1>3. CASE GrowFails
  BY <1>3 DEF GrowFails
<1>4. ASSUME NEW w \in Workers, GrowThread(w) PROVE TypeOK'
  BY <1>4 DEF GrowThread
<1>5. CASE WakeNotify
  BY <1>5, <1>n DEF WakeNotify
<1>6. CASE SetSizeReturn
  BY <1>6 DEF SetSizeReturn
<1>7. CASE PushStopTask
  BY <1>7 DEF PushStopTask, Push
<1>8. CASE Return
  BY <1>8 DEF Return
<1>9. CASE Join
  BY <1>9 DEF Join
<1>. QED
  BY <1>1, <1>2, <1>3, <1>4, <1>5, <1>6, <1>7, <1>8, <1>9 DEF OwnerStep

\* The members of the pool keep their types; m_mutex is held by the worker that
\* is inside the critical section of TPTask::Execute, and by no other.
THEOREM PoolTypeCorrect == Spec => []TypeOK
<1>1. Init => TypeOK
  <2> SUFFICES ASSUME Init PROVE TypeOK
    OBVIOUS
  <2>1. Cardinality(InitWorkers) \in Nat
    BY PoolAssumption, WorkerSets
  <2>2. m_is_stop \in BOOLEAN /\ m_is_suspend \in BOOLEAN
    BY DEF Init
  <2>. QED  BY <2>1, <2>2, PoolAssumption DEF Init, TypeOK, AllTasks, Blocking
<1>2. TypeOK /\ [Next]_vars => TypeOK'
  <2>1. CASE UNCHANGED vars
    BY <2>1 DEF TypeOK, vars, flags, workerVars, ownerVars
  <2>. QED  BY <2>1, TypeWorker, TypeCall, TypeOwner DEF Next
<1>. QED  BY <1>1, <1>2, PTL DEF Spec

(***************************************************************************)
(* Suspend.  The inductive invariant adds that SetSize, which changes      *)
(* m_active_threads, runs only while the pool is not suspended.            *)
(***************************************************************************)
ResizeRunning == op \in {"grow", "wake", "shrink", "skip"} => ~m_is_suspend

ParkInv == TypeOK /\ ResizeRunning /\ EnoughParked

LEMMA PendingType ==
  ASSUME TypeOK
  PROVE  /\ m_wpq[TPTASK] \in Nat
         /\ IsFiniteSet(Parked) /\ Cardinality(Parked) \in Nat
         /\ (IF op = "suspend" THEN left ELSE 0) \in Nat
         /\ m_active_threads \in Nat
<1>1. Parked \in SUBSET Workers
  BY DEF Parked
<1>2. IsFiniteSet(Parked) /\ Cardinality(Parked) \in Nat
  BY <1>1, WorkerSets
<1>. QED  BY <1>2 DEF TypeOK, AllTasks

LEMMA ParkStep == ParkInv /\ [Next]_vars => (ResizeRunning /\ EnoughParked)'
<1> SUFFICES ASSUME ParkInv, [Next]_vars
             PROVE  ResizeRunning' /\ EnoughParked'
  OBVIOUS
<1>t. TypeOK /\ ResizeRunning /\ EnoughParked
  BY DEF ParkInv
<1>0. /\ m_wpq[TPTASK] \in Nat
      /\ IsFiniteSet(Parked) /\ Cardinality(Parked) \in Nat
      /\ (IF op = "suspend" THEN left ELSE 0) \in Nat
      /\ m_active_threads \in Nat
  BY <1>t, PendingType
<1> USE PoolAssumption, <1>t DEF TypeOK, AllTasks, flags, workerVars, ownerVars
\* Steps that leave the counted quantities, the flag and the size alone.
<1>a. ASSUME m_wpq'[TPTASK] = m_wpq[TPTASK], Parked' = Parked,
             UNCHANGED <<m_is_suspend, m_active_threads, op, left>>
      PROVE  ResizeRunning' /\ EnoughParked'
  BY <1>a DEF ResizeRunning, EnoughParked
<1>1. ASSUME NEW w \in Workers, WorkerStep(w) \/ Spurious(w)
      PROVE  ResizeRunning' /\ EnoughParked'
  <2>1. CASE TestStop(w)
    BY <2>1, <1>a DEF TestStop, Parked, Blocking
  <2>2. CASE PopTask(w)
    <3>1. PICK t \in Top :
            /\ m_wpq' = [m_wpq EXCEPT ![t] = @ - 1]
            /\ pc' = [pc EXCEPT ![w] = IF t = TPTASK THEN "tp_lock" ELSE "run"]
      BY <2>2 DEF PopTask
    <3>2. t \in AllTasks
      BY DEF Top, Queued
    <3>3. UNCHANGED <<m_is_suspend, m_active_threads, op, left>>
      BY <2>2 DEF PopTask
    <3>4. CASE t = TPTASK
      <4>1. m_wpq'[TPTASK] = m_wpq[TPTASK] - 1
        BY <3>1, <3>2, <3>4
      <4>2. Parked' = Parked \cup {w} /\ w \notin Parked
        BY <2>2, <3>1, <3>4 DEF PopTask, Parked, Blocking
      <4>3. Cardinality(Parked') = Cardinality(Parked) + 1
        BY <4>2, <1>0, FS_AddElement
      <4>. QED  BY <1>0, <3>3, <4>1, <4>3 DEF ResizeRunning, EnoughParked
    <3>5. CASE t # TPTASK
      <4>1. m_wpq'[TPTASK] = m_wpq[TPTASK]
        BY <3>1, <3>2, <3>5
      <4>2. Parked' = Parked
        BY <2>2, <3>1, <3>5 DEF PopTask, Parked, Blocking
      <4>. QED  BY <3>3, <4>1, <4>2, <1>a
    <3>. QED  BY <3>4, <3>5
  <2>3. CASE RunTask(w)
    BY <2>3, <1>a DEF RunTask, Parked, Blocking
  <2>4. CASE TPLock(w)
    BY <2>4, <1>a DEF TPLock, Parked, Blocking
  <2>5. CASE TPReturn(w)
    BY <2>5 DEF TPReturn, ResizeRunning, EnoughParked
  <2>6. CASE TPDecide(w)
    BY <2>6, <1>a DEF TPDecide, Parked, Blocking
  <2>7. CASE TPBlock(w)
    BY <2>7, <1>a DEF TPBlock, Parked, Blocking
  <2>8. CASE Spurious(w)
    BY <2>8, <1>a DEF Spurious, Parked, Blocking
  <2>. QED
    BY <1>1, <2>1, <2>2, <2>3, <2>4, <2>5, <2>6, <2>7, <2>8 DEF WorkerStep
\* The owner's calls start from "idle"; all but Suspend leave the queue's
\* TPTasks as they are or clear the flag.
<1>2. CASE OwnerCall
  <2>p. CASE UNCHANGED pc
    <3>1. Parked' = Parked
      BY <2>p DEF Parked
    <3>2. ASSUME NEW t \in Tasks, AddTask(t) PROVE ResizeRunning' /\ EnoughParked'
      BY <3>1, <3>2, <1>a DEF AddTask, Push
    <3>3. CASE Suspend
      BY <3>1, <3>3, <1>0 DEF Suspend, Call, ResizeRunning, EnoughParked
    <3>4. CASE Resume
      BY <3>4 DEF Resume, ResizeRunning, EnoughParked
    <3>5. CASE Stop
      BY <3>1, <3>5, <1>0 DEF Stop, Call, ResizeRunning, EnoughParked
    <3>6. CASE Destroy
      BY <3>1, <3>6, <1>0 DEF Destroy, ResizeRunning, EnoughParked
    <3>7. ASSUME NEW n \in Sizes, SetSize(n) PROVE ResizeRunning' /\ EnoughParked'
      BY <3>7 DEF SetSize, ResizeRunning, EnoughParked
    <3>. QED  BY <1>2, <3>2, <3>3, <3>4, <3>5, <3>6, <3>7 DEF OwnerCall
  <2>q. UNCHANGED pc
    BY <1>2 DEF OwnerCall, AddTask, Suspend, Resume, Stop, Destroy, SetSize
  <2>. QED  BY <2>p, <2>q
<1>3. CASE OwnerStep
  <2>n. ASSUME NotifyOne PROVE Parked' = Parked
    BY <2>n DEF NotifyOne, Asleep, Parked, Blocking
  <2>1. CASE PushTPTask
    <3>1. Parked' = Parked /\ m_wpq'[TPTASK] = m_wpq[TPTASK] + 1
      BY <2>1 DEF PushTPTask, Push, Parked
    <3>. QED  BY <2>1, <3>1, <1>0 DEF PushTPTask, ResizeRunning, EnoughParked
  <2>2. CASE ResumeNotify
    BY <2>2, <2>n DEF ResumeNotify, ResizeRunning, EnoughParked
  <2>3. CASE GrowFails
    BY <2>3 DEF GrowFails, ResizeRunning, EnoughParked
  <2>4. ASSUME NEW w \in Workers, GrowThread(w)
        PROVE  ResizeRunning' /\ EnoughParked'
    BY <2>4 DEF GrowThread, ResizeRunning, EnoughParked
  <2>5. CASE WakeNotify
    BY <2>5 DEF WakeNotify, ResizeRunning, EnoughParked
  <2>6. CASE SetSizeReturn
    BY <2>6 DEF SetSizeReturn, ResizeRunning, EnoughParked
  <2>7. CASE PushStopTask
    <3>1. Parked' = Parked /\ m_wpq'[TPTASK] = m_wpq[TPTASK]
      BY <2>7 DEF PushStopTask, Push, Parked
    <3>. QED  BY <2>7, <3>1 DEF PushStopTask, ResizeRunning, EnoughParked
  <2>8. CASE Return
    <3>1. Parked' = Parked
      BY <2>8 DEF Return, Parked
    <3>. QED  BY <2>8, <3>1, <1>0 DEF Return, ResizeRunning, EnoughParked
  <2>9. CASE Join
    <3>1. Parked' = Parked
      BY <2>9 DEF Join, Parked
    <3>. QED  BY <2>9, <3>1 DEF Join, ResizeRunning, EnoughParked
  <2>. QED
    BY <1>3, <2>1, <2>2, <2>3, <2>4, <2>5, <2>6, <2>7, <2>8, <2>9 DEF OwnerStep
<1>4. CASE UNCHANGED vars
  BY <1>4, <1>a DEF vars, Parked
<1>. QED  BY <1>1, <1>2, <1>3, <1>4 DEF Next

\* While the pool is suspended, the TPTasks queued, pushed or being executed are
\* at least m_active_threads.
THEOREM ParkCorrect == Spec => []EnoughParked
<1>1. Init => ResizeRunning /\ EnoughParked
  BY DEF Init, ResizeRunning, EnoughParked
<1>2. ParkInv /\ [Next]_vars => (ResizeRunning /\ EnoughParked)'
  BY ParkStep
<1>. QED  BY <1>1, <1>2, PoolTypeCorrect, PTL DEF Spec, ParkInv

LEMMA SuspendStep ==
  ASSUME TypeOK, EnoughParked, [Next]_vars, NEW w \in Workers,
         m_is_suspend, op = "idle", task[w] = NoTask, task'[w] \in Tasks
  PROVE  m_active_threads < Cardinality(m_threads)
<1> USE PoolAssumption DEF TypeOK, AllTasks
<1>1. task' # task
  OBVIOUS
<1>2. PICK v \in Workers : WorkerStep(v)
  BY <1>1 DEF Next, vars, workerVars, ownerVars, Spurious, OwnerCall, OwnerStep, AddTask,
     Suspend, Resume, Stop, Destroy, SetSize, PushTPTask, ResumeNotify, GrowFails,
     GrowThread, WakeNotify, SetSizeReturn, PushStopTask, Return, Join
<1>3. v = w /\ PopTask(w)
  BY <1>2 DEF WorkerStep, TestStop, PopTask, RunTask, TPLock, TPReturn, TPDecide, TPBlock
<1>4. task'[w] \in Top
  BY <1>3 DEF PopTask, Top, Queued
\* The task taken is below ADMIN, so no TPTask was queued.
<1>5. m_wpq[TPTASK] = 0
  BY <1>4 DEF Top, Queued, Prio
<1>6. Cardinality(Parked) \in Nat /\ IsFiniteSet(Parked)
  BY PendingType
<1>7. Cardinality(Parked) >= m_active_threads
  BY <1>5, <1>6 DEF EnoughParked
<1>8. w \notin Parked /\ Parked \cup {w} \subseteq m_threads
  BY <1>3 DEF PopTask, Parked, Blocking
<1>9. IsFiniteSet(m_threads) /\ Cardinality(m_threads) \in Nat
  BY WorkerSets
<1>10. Cardinality(Parked \cup {w}) <= Cardinality(m_threads)
  BY <1>8, <1>9, FS_Subset
<1>11. Cardinality(Parked \cup {w}) = Cardinality(Parked) + 1
  BY <1>6, <1>8, FS_AddElement
<1>. QED  BY <1>6, <1>7, <1>9, <1>10, <1>11

\* A suspended pool whose size was never set below its number of threads starts
\* no task of the owner's after Suspend has returned.
THEOREM SuspendCorrect == Spec => SuspendStops
<1>1. TypeOK /\ EnoughParked /\ [Next]_vars
        => [\A w \in Workers :
              /\ m_is_suspend /\ op = "idle"
              /\ task[w] = NoTask /\ task'[w] \in Tasks
              => m_active_threads < Cardinality(m_threads)]_vars
  BY SuspendStep
<1>. QED  BY <1>1, PoolTypeCorrect, ParkCorrect, PTL DEF Spec, SuspendStops

(***************************************************************************)
(* Stop.                                                                   *)
(***************************************************************************)
Poppers == {w \in Workers : pc[w] = "pop"}

LEMMA StopStep == TypeOK /\ EnoughStopTasks /\ [Next]_vars => EnoughStopTasks'
<1> SUFFICES ASSUME TypeOK, EnoughStopTasks, [Next]_vars PROVE EnoughStopTasks'
  OBVIOUS
<1>0. /\ Poppers \in SUBSET Workers /\ Poppers \in SUBSET m_threads
      /\ m_threads \in SUBSET Workers
  BY DEF Poppers, TypeOK
<1>1. /\ m_wpq[STOPTASK] \in Nat
      /\ IsFiniteSet(Poppers) /\ Cardinality(Poppers) \in Nat
      /\ Cardinality(m_threads) \in Nat /\ IsFiniteSet(m_threads)
      /\ (IF op \in {"stop", "dtor"} THEN left ELSE 0) \in Nat
  BY <1>0, WorkerSets DEF TypeOK, AllTasks
<1>2. Cardinality(Poppers) <= Cardinality(m_threads)
  BY <1>0, <1>1, FS_Subset
<1>i. EnoughStopTasks =
        (m_is_stop =>
           m_wpq[STOPTASK] + (IF op \in {"stop", "dtor"} THEN left ELSE 0)
             >= Cardinality(Poppers))
  BY DEF EnoughStopTasks, Poppers
<1>j. EnoughStopTasks' =
        (m_is_stop' =>
           m_wpq'[STOPTASK] + (IF op' \in {"stop", "dtor"} THEN left' ELSE 0)
             >= Cardinality(Poppers'))
  BY DEF EnoughStopTasks, Poppers
<1> USE PoolAssumption DEF TypeOK, AllTasks, flags, workerVars, ownerVars
<1>a. ASSUME m_wpq'[STOPTASK] = m_wpq[STOPTASK], Poppers' = Poppers,
             UNCHANGED <<m_is_stop, op, left>>
      PROVE  EnoughStopTasks'
  BY <1>a, <1>i, <1>j
<1>3. ASSUME NEW w \in Workers, WorkerStep(w) \/ Spurious(w)
      PROVE  EnoughStopTasks'
  <2>1. CASE TestStop(w)
    <3>1. CASE m_is_stop
      BY <2>1, <3>1, <1>a DEF TestStop, Poppers
    <3>2. CASE ~m_is_stop
      BY <2>1, <3>2, <1>j DEF TestStop
    <3>. QED  BY <3>1, <3>2
  <2>2. CASE PopTask(w)
    <3>1. PICK t \in Top :
            /\ m_wpq' = [m_wpq EXCEPT ![t] = @ - 1]
            /\ pc' = [pc EXCEPT ![w] = IF t = TPTASK THEN "tp_lock" ELSE "run"]
      BY <2>2 DEF PopTask
    <3>2. t \in AllTasks
      BY DEF Top, Queued
    <3>3. m_wpq'[STOPTASK] >= m_wpq[STOPTASK] - 1 /\ m_wpq'[STOPTASK] \in Int
      BY <1>1, <3>1, <3>2
    <3>4. Poppers' = Poppers \ {w} /\ w \in Poppers
      BY <2>2, <3>1 DEF PopTask, Poppers
    <3>5. Cardinality(Poppers') = Cardinality(Poppers) - 1
      BY <1>1, <3>4, FS_RemoveElement
    <3>6. UNCHANGED <<m_is_stop, op, left>>
      BY <2>2 DEF PopTask
    <3>. QED  BY <1>1, <1>i, <1>j, <3>3, <3>5, <3>6
  <2>3. CASE RunTask(w)
    BY <2>3, <1>a DEF RunTask, Poppers
  <2>4. CASE TPLock(w)
    BY <2>4, <1>a DEF TPLock, Poppers
  <2>5. CASE TPReturn(w)
    BY <2>5, <1>a DEF TPReturn, Poppers
  <2>6. CASE TPDecide(w)
    BY <2>6, <1>a DEF TPDecide, Poppers
  <2>7. CASE TPBlock(w)
    BY <2>7, <1>a DEF TPBlock, Poppers
  <2>8. CASE Spurious(w)
    BY <2>8, <1>a DEF Spurious, Poppers
  <2>. QED
    BY <1>3, <2>1, <2>2, <2>3, <2>4, <2>5, <2>6, <2>7, <2>8 DEF WorkerStep
<1>4. CASE OwnerCall
  <2>1. Poppers' = Poppers
    BY <1>4 DEF Poppers, OwnerCall, AddTask, Suspend, Resume, Stop, Destroy, SetSize
  <2>2. ASSUME NEW t \in Tasks, AddTask(t) PROVE EnoughStopTasks'
    BY <2>1, <2>2, <1>a DEF AddTask, Push
  <2>3. CASE Suspend
    BY <2>1, <2>3, <1>1, <1>i, <1>j DEF Suspend, Call
  <2>4. CASE Resume
    BY <2>1, <2>4, <1>1, <1>i, <1>j DEF Resume, Call
  <2>5. CASE Stop
    <3>1. /\ op' = "stop" /\ left' = Cardinality(m_threads)
          /\ m_wpq'[STOPTASK] = m_wpq[STOPTASK]
      BY <2>5 DEF Stop, Call
    <3>2. m_wpq'[STOPTASK] + left' >= Cardinality(Poppers')
      BY <2>1, <3>1, <1>1, <1>2
    <3>. QED  BY <3>1, <3>2, <1>j
  <2>6. CASE Destroy
    <3>1. /\ op' = "dtor" /\ left' = Cardinality(m_threads)
          /\ m_wpq'[STOPTASK] = m_wpq[STOPTASK]
      BY <2>6 DEF Destroy
    <3>2. m_wpq'[STOPTASK] + left' >= Cardinality(Poppers')
      BY <2>1, <3>1, <1>1, <1>2
    <3>. QED  BY <3>1, <3>2, <1>j
  <2>7. ASSUME NEW n \in Sizes, SetSize(n) PROVE EnoughStopTasks'
    <3>1. op = "idle" /\ op' \notin {"stop", "dtor"}
      BY <2>7 DEF SetSize, Call
    <3>. QED  BY <2>1, <2>7, <3>1, <1>i, <1>j DEF SetSize
  <2>. QED  BY <1>4, <2>2, <2>3, <2>4, <2>5, <2>6, <2>7 DEF OwnerCall
<1>5. CASE OwnerStep
  <2>n. ASSUME NotifyOne PROVE Poppers' = Poppers
    BY <2>n DEF NotifyOne, Asleep, Poppers
  <2>1. CASE PushTPTask
    BY <2>1, <1>i, <1>j DEF PushTPTask, Push, Poppers
  <2>2. CASE ResumeNotify
    BY <2>2, <2>n, <1>i, <1>j DEF ResumeNotify
  <2>3. CASE GrowFails
    BY <2>3, <1>i, <1>j DEF GrowFails, Poppers
  <2>4. ASSUME NEW w \in Workers, GrowThread(w) PROVE EnoughStopTasks'
    <3>1. Poppers' = Poppers
      BY <2>4 DEF GrowThread, Poppers
    <3>. QED  BY <2>4, <3>1, <1>i, <1>j DEF GrowThread
  <2>5. CASE WakeNotify
    BY <2>5, <2>n, <1>i, <1>j DEF WakeNotify
  <2>6. CASE SetSizeReturn
    BY <2>6, <1>i, <1>j DEF SetSizeReturn, Poppers
  <2>7. CASE PushStopTask
    <3>1. Poppers' = Poppers /\ m_wpq'[STOPTASK] = m_wpq[STOPTASK] + 1
      BY <2>7 DEF PushStopTask, Push, Poppers
    <3>2. op' = op /\ left' = left - 1 /\ op \in {"stop", "dtor"} /\ m_is_stop' = m_is_stop
      BY <2>7 DEF PushStopTask
    <3>. QED  BY <3>1, <3>2, <1>1, <1>i, <1>j
  <2>8. CASE Return
    BY <2>8, <1>1, <1>i, <1>j DEF Return, Poppers
  <2>9. CASE Join
    BY <2>9, <1>i, <1>j DEF Join, Poppers
  <2>. QED
    BY <1>5, <2>1, <2>2, <2>3, <2>4, <2>5, <2>6, <2>7, <2>8, <2>9 DEF OwnerStep
<1>6. CASE UNCHANGED vars
  BY <1>6, <1>a DEF vars, Poppers
<1>. QED  BY <1>3, <1>4, <1>5, <1>6 DEF Next

\* Stop and the destructor push enough: no worker is left waiting in Pop.
THEOREM StopCorrect == Spec => []EnoughStopTasks
<1>1. Init => EnoughStopTasks
  BY DEF Init, EnoughStopTasks
<1>. QED  BY <1>1, PoolTypeCorrect, StopStep, PTL DEF Spec

(***************************************************************************)
(* No deadlock.                                                            *)
(***************************************************************************)
LEMMA PrioType == \A t \in AllTasks : Prio(t) \in 0 .. ADMIN
BY PoolAssumption DEF AllTasks, Prio

\* The priorities a task is below.
Over(t) == {n \in 0 .. ADMIN : n > Prio(t)}

\* Priorities are bounded by ADMIN, so a queue that is not empty has a task to
\* return, however many tasks there are: one whose set Over(t) is smallest.
LEMMA TopExists ==
  ASSUME Queued # {}
  PROVE  Top # {}
<1> DEFINE T == {Over(t) : t \in Queued}
<1>1. \A t \in Queued : Prio(t) \in 0 .. ADMIN
  BY PrioType DEF Queued
<1>2. IsWellFoundedOn(StrictSubsetOrdering(0 .. ADMIN), SUBSET (0 .. ADMIN))
  <2>1. IsFiniteSet(0 .. ADMIN)
    BY PoolAssumption, FS_Interval
  <2>2. FiniteSubsetsOf(0 .. ADMIN) = SUBSET (0 .. ADMIN)
    BY <2>1, FS_FiniteSubsetsOfFinite
  <2>3. IsWellFoundedOn(StrictSubsetOrdering(0 .. ADMIN), FiniteSubsetsOf(0 .. ADMIN))
    BY FS_StrictSubsetOrderingWellFounded
  <2>. QED  BY <2>2, <2>3
<1>3. T \subseteq SUBSET (0 .. ADMIN) /\ T # {}
  BY DEF Over
<1>4. \E x \in T : \A y \in T : ~(<<y, x>> \in StrictSubsetOrdering(0 .. ADMIN))
  BY <1>2, <1>3, WFMin
<1>5. PICK t \in Queued :
        \A u \in Queued : <<Over(u), Over(t)>> \notin StrictSubsetOrdering(0 .. ADMIN)
  BY <1>4
<1>6. ASSUME NEW u \in Queued PROVE Prio(u) <= Prio(t)
  <2> SUFFICES ASSUME Prio(u) > Prio(t) PROVE FALSE
    BY <1>1
  <2>1. Prio(u) \in Over(t) /\ Prio(u) \notin Over(u)
    BY <1>1 DEF Over
  <2>2. Over(u) \subseteq Over(t)
    BY <1>1 DEF Over
  <2>3. Over(u) \in SUBSET (0 .. ADMIN) /\ Over(t) \in SUBSET (0 .. ADMIN)
    BY DEF Over
  <2>4. <<Over(u), Over(t)>> \in StrictSubsetOrdering(0 .. ADMIN)
    BY <2>1, <2>2, <2>3 DEF StrictSubsetOrdering
  <2>. QED  BY <1>5, <2>4
<1>7. t \in Top
  BY <1>6 DEF Top
<1>. QED  BY <1>7

\* The loop that pushes STOPTASKs is over before the destructor joins.  The
\* flag m_is_stop stays set from its start.
StopInv == op \in {"dtor", "join"} => m_is_stop

LEMMA StopInvStep == TypeOK /\ StopInv /\ [Next]_vars => StopInv'
<1> SUFFICES ASSUME TypeOK, StopInv, [Next]_vars PROVE StopInv'
  OBVIOUS
<1> USE DEF TypeOK, StopInv, flags, ownerVars
<1>1. ASSUME NEW w \in Workers, WorkerStep(w) \/ Spurious(w) PROVE StopInv'
  <2>1. UNCHANGED <<op, m_is_stop>>
    BY <1>1 DEF WorkerStep, Spurious, TestStop, PopTask, RunTask, TPLock, TPReturn,
                TPDecide, TPBlock
  <2>. QED  BY <2>1
<1>2. CASE OwnerCall
  <2>1. op' \in {"dtor", "join"} => m_is_stop'
    BY <1>2 DEF OwnerCall, AddTask, Suspend, Resume, Stop, Destroy, SetSize, Call
  <2>. QED  BY <2>1
<1>3. CASE OwnerStep
  <2>1. m_is_stop' = m_is_stop /\ (op' = op \/ op' \notin {"dtor", "join"} \/ op = "dtor")
    BY <1>3 DEF OwnerStep, PushTPTask, ResumeNotify, GrowFails, GrowThread, WakeNotify,
                SetSizeReturn, PushStopTask, Return, Join
  <2>. QED  BY <2>1
<1>4. CASE UNCHANGED vars
  BY <1>4 DEF vars
<1>. QED  BY <1>1, <1>2, <1>3, <1>4 DEF Next

LEMMA NotStuck == TypeOK /\ EnoughStopTasks /\ StopInv => NeverStuck
<1> SUFFICES ASSUME TypeOK, EnoughStopTasks, StopInv PROVE NeverStuck
  OBVIOUS
<1> USE PoolAssumption DEF TypeOK, Blocking
\* m_mutex is held inside TPTask::Execute only, and never across the wait.
<1>1. ASSUME m_mutex # NoThread PROVE \E w \in m_threads : WorkerCanStep(w)
  BY <1>1 DEF WorkerCanStep
<1>2. ASSUME op \notin {"idle", "join", "destroyed"}
      PROVE  OwnerCanStep \/ \E w \in m_threads : WorkerCanStep(w)
  BY <1>1, <1>2 DEF OwnerCanStep
<1>3. ASSUME NEW w \in m_threads, pc[w] \notin {"cv_wait", "exited"}, Queued # {}
      PROVE  \E v \in m_threads : WorkerCanStep(v)
  <2>1. pc[w] \in {"loop", "pop", "run", "tp_lock", "tp_test", "tp_block"}
    BY <1>3
  <2>. QED  BY <1>1, <1>3, <2>1, TopExists DEF WorkerCanStep
<1>4. ASSUME NEW w \in m_threads, pc[w] \notin {"cv_wait", "exited"}, op = "join"
      PROVE  \E v \in m_threads : WorkerCanStep(v)
  <2>1. CASE pc[w] # "pop"
    <3>1. pc[w] \in {"loop", "run", "tp_lock", "tp_test", "tp_block"}
      BY <1>4, <2>1
    <3>. QED  BY <1>1, <3>1 DEF WorkerCanStep
  <2>2. CASE pc[w] = "pop"
    <3>1. /\ Poppers \in SUBSET Workers /\ w \in Poppers
          /\ m_wpq[STOPTASK] \in Nat
      BY <2>2 DEF Poppers, AllTasks
    <3>2. IsFiniteSet(Poppers) /\ Cardinality(Poppers) \in Nat
      BY <3>1, WorkerSets
    <3>3. Cardinality(Poppers) # 0
      BY <3>1, <3>2, FS_EmptySet
    <3>4. m_wpq[STOPTASK] >= Cardinality(Poppers)
      BY <1>4, <3>1 DEF EnoughStopTasks, StopInv, Poppers
    <3>5. STOPTASK \in Queued
      BY <3>1, <3>2, <3>3, <3>4 DEF Queued, AllTasks
    <3>. QED  BY <1>3, <1>4, <3>5
  <2>. QED  BY <2>1, <2>2
<1>. QED  BY <1>2, <1>3, <1>4 DEF NeverStuck

\* No call of the owner and no worker waits for ever for another: the only
\* threads the pool leaves waiting are those asleep in a TPTask.
THEOREM PoolNeverStuck == Spec => []NeverStuck
<1>1. Init => StopInv
  BY DEF Init, StopInv
<1>. QED
  BY <1>1, StopInvStep, PoolTypeCorrect, StopCorrect, NotStuck, PTL DEF Spec

(***************************************************************************)
(* The destructor of a suspended pool.  A worker in a TPTask leaves it     *)
(* only when m_is_suspend is cleared, and only Resume clears it.           *)
(***************************************************************************)
Doomed == /\ op \in {"dtor", "join"}
          /\ m_is_suspend
          /\ Parked # {}

LEMMA DoomedStep == TypeOK /\ Doomed /\ [Next]_vars => Doomed'
<1> SUFFICES ASSUME TypeOK, Doomed, [Next]_vars PROVE Doomed'
  OBVIOUS
<1>1. PICK v \in Workers : pc[v] \in Blocking
  BY DEF Doomed, Parked
<1> USE DEF TypeOK, Doomed, Blocking, flags, workerVars, ownerVars
<1>a. ASSUME UNCHANGED m_is_suspend, op' \in {"dtor", "join"}, pc'[v] \in Blocking
      PROVE  Doomed'
  BY <1>a DEF Parked
<1>2. ASSUME NEW w \in Workers, WorkerStep(w) \/ Spurious(w) PROVE Doomed'
  <2>1. UNCHANGED <<op, m_is_suspend>>
    BY <1>2 DEF WorkerStep, Spurious, TestStop, PopTask, RunTask, TPLock, TPReturn,
                TPDecide, TPBlock
  <2>2. pc'[v] \in Blocking
    <3>1. CASE w # v
      BY <1>1, <1>2, <3>1 DEF WorkerStep, Spurious, TestStop, PopTask, RunTask, TPLock,
                              TPReturn, TPDecide, TPBlock
    <3>2. CASE w = v
      BY <1>1, <1>2, <3>2 DEF WorkerStep, Spurious, TestStop, PopTask, RunTask, TPLock,
                              TPReturn, TPDecide, TPBlock
    <3>. QED  BY <3>1, <3>2
  <2>. QED  BY <1>a, <2>1, <2>2
<1>3. ~OwnerCall
  BY DEF OwnerCall, AddTask, Suspend, Resume, Stop, Destroy, SetSize, Call
<1>4. CASE OwnerStep
  <2>1. v \in m_threads /\ pc[v] # "exited"
    BY <1>1
  <2>2. PushStopTask \/ Return
    BY <1>4, <2>1 DEF OwnerStep, PushTPTask, ResumeNotify, GrowFails, GrowThread,
                      WakeNotify, SetSizeReturn, Join
  <2>. QED  BY <1>1, <1>a, <2>2 DEF PushStopTask, Return
<1>5. CASE UNCHANGED vars
  BY <1>1, <1>5, <1>a DEF vars
<1>. QED  BY <1>2, <1>3, <1>4, <1>5 DEF Next

\* A pool destroyed while a worker is in the TPTask of a Suspend is never gone,
\* however its threads are scheduled.
THEOREM SuspendedPoolHangs == Spec => SuspendedPoolNeverEnds
<1>1. op = "dtor" /\ m_is_suspend /\ Parked # {} => Doomed
  BY DEF Doomed
<1>2. Doomed => op # "destroyed"
  BY DEF Doomed
<1>. QED
  BY <1>1, <1>2, DoomedStep, PoolTypeCorrect, PTL DEF Spec, SuspendedPoolNeverEnds
==============================================================================
