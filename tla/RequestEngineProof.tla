-------------------------- MODULE RequestEngineProof --------------------------
(***************************************************************************)
(* Proofs about the service, for any workers, requests and cells, and any  *)
(* workload.                                                               *)
(***************************************************************************)
EXTENDS RequestEngine, FiniteSetTheorems, TLAPS

(***************************************************************************)
(* Type correctness.                                                       *)
(***************************************************************************)
LEMMA TaskSets ==
  /\ Requests \subseteq PoolTasks /\ StdinTasks \subseteq PoolTasks /\ Bye \in PoolTasks
  /\ Pool!AllTasks = PoolTasks \cup {TPTASK, STOPTASK}
BY DEF PoolTasks, Pool!AllTasks

LEMMA ThreadCount ==
  ASSUME NEW S \in SUBSET Workers
  PROVE  Cardinality(S) \in Nat /\ Pool!Cardinality(S) \in Nat
<1>1. Cardinality(S) \in Nat
  BY EngineAssumption, FS_Subset, FS_CardinalityType DEF EngineAssumption
<1>2. Pool!Cardinality(S) = Cardinality(S)
  BY DEF Pool!Cardinality, Cardinality, Pool!IsFiniteSet, IsFiniteSet
<1>. QED  BY <1>1, <1>2

\* Where Execute begins.
LEMMA CreateStage ==
  ASSUME NEW t \in Pool!AllTasks
  PROVE  /\ Create(Key(t)).execute \in {"copy", "stdin", "end"}
         /\ Create(Key(t)).execute = "copy" => t \in Requests /\ Kind[t] # "DISCONN"
         /\ Create(Key(t)).execute = "end" /\ t \in Requests => Kind[t] = "DISCONN"
         /\ Create(Key(t)).execute = "stdin" => t \in StdinTasks
<1> USE DEF Create, m_umap, ReadTask, WriteTask, FlushTask, DisconnectTask, StdinTask, HIGH, MEDIUM
<1>1. CASE t \in Requests
  <2>1. Key(t) = Kind[t] /\ Kind[t] \in {"READ", "WRITE", "DISCONN", "FLUSH"}
    BY <1>1, EngineAssumption DEF Key, EngineAssumption
  <2>2. CASE Kind[t] = "READ"     BY <1>1, <2>1, <2>2, EngineAssumption DEF EngineAssumption
  <2>3. CASE Kind[t] = "WRITE"    BY <1>1, <2>1, <2>3, EngineAssumption DEF EngineAssumption
  <2>4. CASE Kind[t] = "DISCONN"  BY <1>1, <2>1, <2>4, EngineAssumption DEF EngineAssumption
  <2>5. CASE Kind[t] = "FLUSH"    BY <1>1, <2>1, <2>5, EngineAssumption DEF EngineAssumption
  <2>. QED  BY <2>1, <2>2, <2>3, <2>4, <2>5
<1>2. CASE t \notin Requests /\ t \in StdinTasks
  <2>1. Key(t) = "STDIN"
    BY <1>2 DEF Key
  <2>. QED  BY <1>2, <2>1
<1>3. CASE t \notin Requests /\ t \notin StdinTasks
  <2>1. Key(t) = "DISCONN"
    BY <1>3 DEF Key
  <2>. QED  BY <1>3, <2>1
<1>. QED  BY <1>1, <1>2, <1>3

ServiceTypes ==
  /\ main \in {"test", "wait", "dispatch", "closing", "plugins", "dtor"}
  /\ ready \subseteq Sources
  /\ disc_flag \in BOOLEAN /\ closed \in BOOLEAN
  /\ m_reply_mutex \in Workers \cup {NoThread}
  /\ inbox \in Seq(Requests)
  /\ stream \in Seq({"header", "data"} \X Requests)
  /\ submitted \subseteq Requests
  /\ before \in [Requests -> SUBSET Requests]
  /\ typed \in Seq({"q", "other"}) /\ lines \in Nat
  /\ workload \in Workloads
  /\ status \in {"running", "quit", "failed", "killed", "success", "returned"}

DiskTypes ==
  /\ m_disk \in [Cells -> Writes \cup {Zero}]
  /\ todo \in [Requests -> SUBSET Cells]
  /\ buf \in [Requests -> [Cells -> Writes \cup {Zero}]]

StageTypes ==
  /\ stage \in [Workers -> Stages]
  /\ \A w \in Workers : stage[w] # "none" <=> pc[w] = "run"

\* Only a request is copied and replied to.
StageInv ==
  \A w \in Workers :
    /\ stage[w] \in {"copy", "header", "data"} =>
         task[w] \in Requests /\ Kind[task[w]] # "DISCONN"
    /\ stage[w] = "data" => Kind[task[w]] = "READ"

LEMMA TypeParts == TypeOK <=> Pool!TypeOK /\ ServiceTypes /\ DiskTypes /\ StageTypes
BY DEF TypeOK, ServiceTypes, DiskTypes, StageTypes

LEMMA TypeInit == Init => TypeOK
<1> SUFFICES ASSUME Init PROVE TypeOK
  OBVIOUS
<1>1. Pool!TypeOK
  <2>1. Pool!Cardinality(Workers) \in Nat
    BY ThreadCount
  <2>2. m_is_stop \in BOOLEAN /\ m_is_suspend \in BOOLEAN
    BY DEF Init, Pool!Init
  <2>3. Pool!Init
    BY DEF Init
  <2>4. m_threads = Workers /\ m_active_threads \in Nat
    BY <2>1, <2>3 DEF Pool!Init
  <2>5. /\ pc = [w \in Workers |-> "loop"] /\ m_mutex = NoThread
        /\ m_wpq \in [Pool!AllTasks -> Nat]
        /\ task \in [Workers -> Pool!AllTasks \cup {NoTask}]
    BY <2>3 DEF Pool!Init
  <2>6. /\ pc \in [Workers -> {"none", "loop", "pop", "run", "exited"} \cup Pool!Blocking]
        /\ \A w \in Workers : w \in m_threads <=> pc[w] # "none"
        /\ \A w \in Workers : pc[w] \in {"tp_test", "tp_block"} <=> m_mutex = w
    BY <2>4, <2>5, EngineAssumption DEF EngineAssumption
  <2>7. op = "idle" /\ left \in Nat /\ target \in Nat /\ calls \in Nat /\ added = {}
    BY <2>3 DEF Pool!Init
  <2>. QED  BY <2>2, <2>4, <2>5, <2>6, <2>7 DEF Pool!TypeOK
<1>2. ServiceTypes
  <2>1. disc_flag \in BOOLEAN /\ closed \in BOOLEAN
    BY DEF Init
  <2>. QED  BY <2>1 DEF Init, ServiceTypes
<1>3. DiskTypes
  BY EngineAssumption DEF EngineAssumption, Init, DiskTypes
<1>4. StageTypes
  BY DEF Init, Pool!Init, StageTypes, Stages
<1>. QED  BY <1>1, <1>2, <1>3, <1>4, TypeParts

\* What the engine does with its pool.
LEMMA PoolTypeStep ==
  ASSUME Pool!TypeOK,
         \/ \E t \in PoolTasks : Pool!AddTask(t)
         \/ \E w \in Workers : Pool!TestStop(w) \/ Pool!PopTask(w) \/ Pool!RunTask(w)
         \/ Pool!Destroy \/ Pool!PushStopTask \/ Pool!Return \/ Pool!Join
         \/ UNCHANGED poolVars
  PROVE  Pool!TypeOK'
<1> USE EngineAssumption
    DEF EngineAssumption, Pool!TypeOK, Pool!AllTasks, Pool!Blocking, Pool!flags,
        Pool!workerVars, Pool!ownerVars
<1>1. ASSUME NEW t \in PoolTasks, Pool!AddTask(t) PROVE Pool!TypeOK'
  BY <1>1 DEF Pool!AddTask, Pool!Push
<1>2. ASSUME NEW w \in Workers, Pool!TestStop(w) PROVE Pool!TypeOK'
  BY <1>2 DEF Pool!TestStop
<1>3. ASSUME NEW w \in Workers, Pool!PopTask(w) PROVE Pool!TypeOK'
  <2>1. PICK t \in Pool!Top :
          /\ m_wpq' = [m_wpq EXCEPT ![t] = @ - 1]
          /\ task' = [task EXCEPT ![w] = t]
          /\ pc' = [pc EXCEPT ![w] = IF t = TPTASK THEN "tp_lock" ELSE "run"]
    BY <1>3 DEF Pool!PopTask
  <2>2. t \in Pool!AllTasks /\ m_wpq[t] - 1 \in Nat
    BY DEF Pool!Top, Pool!Queued
  <2>3. m_wpq' \in [Pool!AllTasks -> Nat] /\ task' \in [Workers -> Pool!AllTasks \cup {NoTask}]
    BY <2>1, <2>2
  <2>. QED  BY <1>3, <2>1, <2>3 DEF Pool!PopTask
<1>4. ASSUME NEW w \in Workers, Pool!RunTask(w) PROVE Pool!TypeOK'
  BY <1>4 DEF Pool!RunTask
<1>5. CASE Pool!Destroy
  <2>1. Pool!Cardinality(m_threads) \in Nat
    BY ThreadCount
  <2>2. m_is_stop' \in BOOLEAN /\ left' \in Nat /\ op' = "dtor"
    BY <1>5, <2>1 DEF Pool!Destroy
  <2>. QED  BY <1>5, <2>2 DEF Pool!Destroy
<1>6. CASE Pool!PushStopTask
  BY <1>6 DEF Pool!PushStopTask, Pool!Push
<1>7. CASE Pool!Return
  BY <1>7 DEF Pool!Return
<1>8. CASE Pool!Join
  BY <1>8 DEF Pool!Join
<1>9. CASE UNCHANGED poolVars
  BY <1>9 DEF poolVars
<1>. QED  BY <1>1, <1>2, <1>3, <1>4, <1>5, <1>6, <1>7, <1>8, <1>9

LEMMA PoolUse ==
  ASSUME [Next]_vars
  PROVE  \/ \E t \in PoolTasks : Pool!AddTask(t)
         \/ \E w \in Workers : Pool!TestStop(w) \/ Pool!PopTask(w) \/ Pool!RunTask(w)
         \/ Pool!Destroy \/ Pool!PushStopTask \/ Pool!Return \/ Pool!Join
         \/ UNCHANGED poolVars
<1>1. CASE MainStep
  <2>1. CASE DispatchStdin
    <3>1. PICK t \in StdinTasks : Pool!AddTask(t)
      BY <2>1 DEF DispatchStdin
    <3>. QED  BY <3>1, TaskSets
  <2>2. CASE DispatchRequest \/ RunReturns
    BY <2>2, TaskSets DEF DispatchRequest, RunReturns
  <2>3. CASE \/ RunTest \/ EpollReturns \/ ReceiveFails \/ BatchEnd \/ DestroyPlugins
            \/ MainReturns
    BY <2>3 DEF RunTest, EpollReturns, ReceiveFails, BatchEnd, DestroyPlugins, MainReturns
  <2>4. CASE DestroyPool \/ PoolDtorStep \/ JoinPool
    BY <2>4 DEF DestroyPool, PoolDtorStep, JoinPool
  <2>. QED  BY <1>1, <2>1, <2>2, <2>3, <2>4 DEF MainStep
<1>2. ASSUME NEW w \in Workers, WorkerStep(w)
      PROVE  Pool!TestStop(w) \/ Pool!PopTask(w) \/ Pool!RunTask(w) \/ UNCHANGED poolVars
  BY <1>2 DEF WorkerStep, TestStop, PopTask, CopyCell, LockReply, SendHeader, SendData,
              WriteFails, ReadLine, EndTask
<1>3. CASE Environment
  BY <1>3 DEF Environment, Submit, Shutdown, DriverThreadExits, PluginFails, Type, Signal
<1>4. CASE UNCHANGED vars
  BY <1>4 DEF vars
<1>. QED  BY <1>1, <1>2, <1>3, <1>4 DEF Next

\* The types of the rest of the service.
LEMMA ServiceTypeStep ==
  ASSUME TypeOK, StageInv, [Next]_vars
  PROVE  ServiceTypes'
<1> USE DEF ServiceTypes, TypeOK, diskVars, mainVars, socketVars, stdinVars
<1>1. CASE MainStep
  <2>1. CASE RunTest \/ RunReturns \/ DestroyPlugins \/ BatchEnd \/ EpollReturns
    BY <2>1 DEF RunTest, RunReturns, DestroyPlugins, BatchEnd, EpollReturns, Readable, Sources
  <2>2. CASE DispatchRequest
    BY <2>2 DEF DispatchRequest, ReadRequest
  <2>3. CASE DispatchStdin \/ ReceiveFails \/ MainReturns
    BY <2>3 DEF DispatchStdin, ReceiveFails, MainReturns
  <2>4. CASE DestroyPool \/ PoolDtorStep \/ JoinPool
    BY <2>4 DEF DestroyPool, PoolDtorStep, JoinPool
  <2>. QED  BY <1>1, <2>1, <2>2, <2>3, <2>4 DEF MainStep
<1>2. ASSUME NEW w \in Workers, WorkerStep(w) PROVE ServiceTypes'
  <2>1. CASE TestStop(w) \/ PopTask(w) \/ CopyCell(w)
    BY <2>1 DEF TestStop, PopTask, CopyCell
  <2>2. CASE LockReply(w) \/ EndTask(w) \/ WriteFails(w)
    BY <2>2 DEF LockReply, EndTask, WriteFails
  <2>3. CASE SendHeader(w) \/ SendData(w)
    <3>1. task[w] \in Requests
      BY <2>3 DEF SendHeader, SendData, StageInv
    <3>2. Header(task[w]) \in {"header", "data"} \X Requests
          /\ Data(task[w]) \in {"header", "data"} \X Requests
      BY <3>1 DEF Header, Data
    <3>3. stream' \in Seq({"header", "data"} \X Requests)
      <4> DEFINE P == {"header", "data"} \X Requests
      <4>1. stream' = Append(stream, Header(task[w])) \/ stream' = Append(stream, Data(task[w]))
        BY <2>3 DEF SendHeader, SendData
      <4>2. stream \in Seq(P) /\ Header(task[w]) \in P /\ Data(task[w]) \in P
        BY <3>2
      <4> HIDE DEF P
      <4>3. stream' \in Seq(P)
        BY ONLY <4>1, <4>2
      <4>. QED  BY <4>3 DEF P
    <3>. QED  BY <2>3, <3>3 DEF SendHeader, SendData
  <2>4. CASE ReadLine(w)
    BY <2>4 DEF ReadLine
  <2>. QED  BY <1>2, <2>1, <2>2, <2>3, <2>4 DEF WorkerStep
<1>3. CASE Environment
  <2>1. ASSUME NEW r \in Requests, Submit(r) PROVE ServiceTypes'
    BY <2>1 DEF Submit, Replied
  <2>2. CASE Shutdown \/ DriverThreadExits \/ PluginFails
    BY <2>2 DEF Shutdown, DriverThreadExits, PluginFails
  <2>3. ASSUME NEW l \in {"q", "other"}, Type(l) PROVE ServiceTypes'
    BY <2>3 DEF Type
  <2>4. CASE Signal
    BY <2>4 DEF Signal
  <2>. QED  BY <1>3, <2>1, <2>2, <2>3, <2>4 DEF Environment
<1>4. CASE UNCHANGED vars
  BY <1>4 DEF vars
<1>. QED  BY <1>1, <1>2, <1>3, <1>4 DEF Next

\* The disk: only the copy of a cell changes it.
LEMMA DiskUse ==
  ASSUME [Next]_vars
  PROVE  UNCHANGED diskVars \/ \E w \in Workers : CopyCell(w)
<1> USE DEF diskVars
<1>1. CASE MainStep
  BY <1>1 DEF MainStep, RunTest, EpollReturns, DispatchRequest, ReceiveFails, DispatchStdin,
              BatchEnd, RunReturns, DestroyPlugins, DestroyPool, PoolDtorStep, JoinPool, MainReturns
<1>2. ASSUME NEW w \in Workers, WorkerStep(w) PROVE UNCHANGED diskVars \/ CopyCell(w)
  BY <1>2 DEF WorkerStep, TestStop, PopTask, LockReply, SendHeader, SendData,
              WriteFails, ReadLine, EndTask
<1>3. CASE Environment
  BY <1>3 DEF Environment, Submit, Shutdown, DriverThreadExits, PluginFails, Type, Signal
<1>4. CASE UNCHANGED vars
  BY <1>4 DEF vars
<1>. QED  BY <1>1, <1>2, <1>3, <1>4 DEF Next

\* A cell is copied like the abstract device touches it.
LEMMA CopyEffect ==
  ASSUME TypeOK, StageInv, NEW w \in Workers, CopyCell(w)
  PROVE  \E c \in todo[task[w]] :
           LET r == task[w] IN
           /\ r \in Requests /\ c \in Cells
           /\ todo' = [todo EXCEPT ![r] = @ \ {c}]
           /\ IF r \in Writes
                THEN m_disk' = [m_disk EXCEPT ![c] = r] /\ UNCHANGED buf
                ELSE buf' = [buf EXCEPT ![r][c] = m_disk[c]] /\ UNCHANGED m_disk
<1>1. task[w] \in Requests
  BY DEF CopyCell, StageInv
<1>2. todo[task[w]] \subseteq Cells
  BY <1>1 DEF TypeOK
<1>3. task[w] \in Writes <=> Kind[task[w]] = "WRITE"
  BY <1>1 DEF Writes
<1>. QED  BY <1>1, <1>2, <1>3 DEF CopyCell

LEMMA DiskTypeStep ==
  ASSUME TypeOK, StageInv, [Next]_vars
  PROVE  DiskTypes'
<1>1. DiskTypes
  BY TypeParts
<1>2. CASE UNCHANGED diskVars
  BY <1>1, <1>2 DEF DiskTypes, diskVars
<1>3. ASSUME NEW w \in Workers, CopyCell(w) PROVE DiskTypes'
  <2> DEFINE r == task[w]
  <2>1. PICK c \in todo[r] :
           /\ r \in Requests /\ c \in Cells
           /\ todo' = [todo EXCEPT ![r] = @ \ {c}]
           /\ IF r \in Writes
                THEN m_disk' = [m_disk EXCEPT ![c] = r] /\ UNCHANGED buf
                ELSE buf' = [buf EXCEPT ![r][c] = m_disk[c]] /\ UNCHANGED m_disk
    BY <1>3, CopyEffect
  <2> HIDE DEF r
  <2>2. todo' \in [Requests -> SUBSET Cells]
    BY <1>1, <2>1 DEF DiskTypes
  <2>3. CASE r \in Writes
    BY <1>1, <2>1, <2>2, <2>3 DEF DiskTypes
  <2>4. CASE r \notin Writes
    <3>1. buf' = [buf EXCEPT ![r] = [buf[r] EXCEPT ![c] = m_disk[c]]] /\ m_disk' = m_disk
      BY <2>1, <2>4
    <3>2. [buf[r] EXCEPT ![c] = m_disk[c]] \in [Cells -> Writes \cup {Zero}]
      BY <1>1, <2>1 DEF DiskTypes
    <3>. QED  BY <1>1, <2>1, <2>2, <3>1, <3>2 DEF DiskTypes
  <2>. QED  BY <2>3, <2>4
<1>. QED  BY <1>2, <1>3, DiskUse

\* The stages: a worker's own steps change it.
LEMMA StageUse ==
  ASSUME [Next]_vars
  PROVE  \/ UNCHANGED <<stage, task, pc>>
         \/ \E w \in Workers : TestStop(w) \/ PopTask(w) \/ LockReply(w) \/ SendHeader(w)
                                \/ SendData(w) \/ ReadLine(w) \/ EndTask(w)
<1> USE DEF poolVars
<1>1. CASE MainStep
  <2>1. CASE DispatchRequest \/ DispatchStdin \/ RunReturns
    BY <2>1 DEF DispatchRequest, DispatchStdin, RunReturns, Pool!AddTask, Pool!workerVars
  <2>2. CASE DestroyPool \/ PoolDtorStep \/ JoinPool
    BY <2>2 DEF DestroyPool, PoolDtorStep, JoinPool, Pool!Destroy, Pool!PushStopTask,
                Pool!Return, Pool!Join, Pool!workerVars
  <2>. QED  BY <1>1, <2>1, <2>2
               DEF MainStep, RunTest, EpollReturns, ReceiveFails, BatchEnd, DestroyPlugins,
                   MainReturns
<1>2. ASSUME NEW w \in Workers, WorkerStep(w)
      PROVE  \/ UNCHANGED <<stage, task, pc>>
             \/ TestStop(w) \/ PopTask(w) \/ LockReply(w) \/ SendHeader(w)
             \/ SendData(w) \/ ReadLine(w) \/ EndTask(w)
  BY <1>2 DEF WorkerStep, CopyCell, WriteFails
<1>3. CASE Environment
  BY <1>3 DEF Environment, Submit, Shutdown, DriverThreadExits, PluginFails, Type, Signal
<1>4. CASE UNCHANGED vars
  BY <1>4 DEF vars
<1>. QED  BY <1>1, <1>2, <1>3, <1>4 DEF Next

(***************************************************************************)
(* The tasks: each is in the queue or with one worker, or with none.       *)
(***************************************************************************)
TaskInv ==
  /\ m_wpq[TPTASK] = 0
  /\ \A w \in Workers : task[w] # NoTask <=> pc[w] = "run"
  /\ \A t \in PoolTasks : m_wpq[t] \in {0, 1} /\ (m_wpq[t] = 1 => t \in added)
  /\ \A w \in Workers : task[w] \in PoolTasks => task[w] \in added /\ m_wpq[task[w]] = 0
  /\ \A v, w \in Workers : task[v] = task[w] /\ task[v] \in PoolTasks => v = w

LEMMA TaskInit == Init => TaskInv
BY EngineAssumption, TaskSets DEF EngineAssumption, Init, Pool!Init, TaskInv

\* What Pop returns goes from the queue to the worker.
LEMMA PopEffect ==
  ASSUME Pool!TypeOK, TaskInv, NEW w \in Workers, Pool!PopTask(w)
  PROVE  \E t \in Pool!AllTasks :
           /\ t # TPTASK /\ m_wpq[t] > 0 /\ pc[w] = "pop" /\ task[w] = NoTask
           /\ m_wpq' = [m_wpq EXCEPT ![t] = @ - 1]
           /\ task' = [task EXCEPT ![w] = t]
           /\ pc' = [pc EXCEPT ![w] = "run"]
<1>1. PICK t \in Pool!Top :
        /\ m_wpq' = [m_wpq EXCEPT ![t] = @ - 1]
        /\ task' = [task EXCEPT ![w] = t]
        /\ pc' = [pc EXCEPT ![w] = IF t = TPTASK THEN "tp_lock" ELSE "run"]
  BY DEF Pool!PopTask
<1>2. t \in Pool!AllTasks /\ m_wpq[t] > 0
  BY DEF Pool!Top, Pool!Queued
<1>3. t # TPTASK
  BY <1>2 DEF TaskInv
<1>4. pc[w] = "pop" /\ task[w] = NoTask
  BY DEF Pool!PopTask, TaskInv
<1>. QED  BY <1>1, <1>2, <1>3, <1>4

LEMMA TaskStep ==
  ASSUME Pool!TypeOK, TaskInv, [Next]_vars
  PROVE  TaskInv'
<1>0. /\ m_wpq \in [Pool!AllTasks -> Nat] /\ added \subseteq PoolTasks
      /\ task \in [Workers -> Pool!AllTasks \cup {NoTask}]
      /\ pc \in [Workers -> {"none", "loop", "pop", "run", "exited"} \cup Pool!Blocking]
  BY DEF Pool!TypeOK
<1> USE EngineAssumption, TaskSets DEF EngineAssumption
<1>1. ASSUME NEW t \in PoolTasks, Pool!AddTask(t) PROVE TaskInv'
  <2>1. /\ t \notin added /\ added' = added \cup {t} /\ m_wpq' = [m_wpq EXCEPT ![t] = @ + 1]
        /\ pc' = pc /\ task' = task
    BY <1>1 DEF Pool!AddTask, Pool!Push, Pool!workerVars
  <2>2. m_wpq[t] = 0
    BY <2>1 DEF TaskInv
  <2>3. m_wpq'[t] = 1 /\ \A u \in Pool!AllTasks \ {t} : m_wpq'[u] = m_wpq[u]
    BY <1>0, <2>1, <2>2
  <2>4. \A w \in Workers : task[w] # t
    BY <2>1 DEF TaskInv
  <2>. QED  BY <2>1, <2>3, <2>4 DEF TaskInv
<1>2. ASSUME NEW w \in Workers, Pool!TestStop(w) PROVE TaskInv'
  <2>1. UNCHANGED <<m_wpq, task, added>> /\ pc[w] = "loop"
        /\ pc' = [pc EXCEPT ![w] = IF m_is_stop THEN "exited" ELSE "pop"]
    BY <1>2 DEF Pool!TestStop, Pool!ownerVars
  <2>. QED  BY <1>0, <2>1 DEF TaskInv
<1>3. ASSUME NEW w \in Workers, Pool!PopTask(w) PROVE TaskInv'
  <2>1. PICK t \in Pool!AllTasks :
           /\ t # TPTASK /\ m_wpq[t] > 0 /\ pc[w] = "pop" /\ task[w] = NoTask
           /\ m_wpq' = [m_wpq EXCEPT ![t] = @ - 1]
           /\ task' = [task EXCEPT ![w] = t]
           /\ pc' = [pc EXCEPT ![w] = "run"]
    BY <1>3, PopEffect
  <2>2. added' = added
    BY <1>3 DEF Pool!PopTask, Pool!ownerVars
  <2>3. t \in PoolTasks => m_wpq[t] = 1 /\ t \in added /\ m_wpq'[t] = 0
    BY <1>0, <2>1 DEF TaskInv
  <2>4. \A u \in Pool!AllTasks \ {t} : m_wpq'[u] = m_wpq[u]
    BY <1>0, <2>1
  <2>5. task'[w] = t /\ pc'[w] = "run"
        /\ \A v \in Workers \ {w} : task'[v] = task[v] /\ pc'[v] = pc[v]
    BY <1>0, <2>1
  <2>6. t # NoTask
    BY <2>1
  <2>7. \A v \in Workers : task[v] = t => t \notin PoolTasks
    BY <2>3 DEF TaskInv
  <2>8. m_wpq'[TPTASK] = 0
    BY <2>1, <2>4 DEF TaskInv
  <2>9. \A v \in Workers : task'[v] # NoTask <=> pc'[v] = "run"
    BY <2>5, <2>6 DEF TaskInv
  <2>10. \A u \in PoolTasks : m_wpq'[u] \in {0, 1} /\ (m_wpq'[u] = 1 => u \in added')
    BY <2>2, <2>3, <2>4 DEF TaskInv
  <2>11. \A v \in Workers : task'[v] \in PoolTasks => task'[v] \in added' /\ m_wpq'[task'[v]] = 0
    BY <2>2, <2>3, <2>4, <2>5, <2>7 DEF TaskInv
  <2>12. \A u, v \in Workers : task'[u] = task'[v] /\ task'[u] \in PoolTasks => u = v
    BY <2>5, <2>7 DEF TaskInv
  <2>. QED  BY <2>8, <2>9, <2>10, <2>11, <2>12 DEF TaskInv
<1>4. ASSUME NEW w \in Workers, Pool!RunTask(w) PROVE TaskInv'
  <2>1. UNCHANGED <<m_wpq, added>> /\ pc[w] = "run"
        /\ pc' = [pc EXCEPT ![w] = "loop"] /\ task' = [task EXCEPT ![w] = NoTask]
    BY <1>4 DEF Pool!RunTask, Pool!ownerVars
  <2>. QED  BY <1>0, <2>1 DEF TaskInv
<1>5. CASE Pool!Destroy \/ Pool!Return \/ Pool!Join
  <2>1. UNCHANGED <<m_wpq, task, added, pc>>
    BY <1>5 DEF Pool!Destroy, Pool!Return, Pool!Join, Pool!workerVars
  <2>. QED  BY <2>1 DEF TaskInv
<1>6. CASE Pool!PushStopTask
  <2>1. UNCHANGED <<task, added, pc>> /\ m_wpq' = [m_wpq EXCEPT ![STOPTASK] = @ + 1]
    BY <1>6 DEF Pool!PushStopTask, Pool!Push, Pool!workerVars
  <2>2. \A u \in Pool!AllTasks \ {STOPTASK} : m_wpq'[u] = m_wpq[u]
    BY <1>0, <2>1
  <2>. QED  BY <2>1, <2>2 DEF TaskInv
<1>7. CASE UNCHANGED poolVars
  BY <1>7 DEF poolVars, TaskInv
<1>. QED  BY <1>1, <1>2, <1>3, <1>4, <1>5, <1>6, <1>7, PoolUse

(***************************************************************************)
(* The stages of Execute.                                                  *)
(***************************************************************************)
LEMMA StageStep ==
  ASSUME TypeOK, TaskInv, StageInv, [Next]_vars
  PROVE  StageTypes' /\ StageInv'
<1>0. /\ StageTypes /\ stage \in [Workers -> Stages]
      /\ task \in [Workers -> Pool!AllTasks \cup {NoTask}]
      /\ pc \in [Workers -> {"none", "loop", "pop", "run", "exited"} \cup Pool!Blocking]
  BY TypeParts DEF Pool!TypeOK, StageTypes
<1>1. ASSUME NEW w \in Workers, NEW s \in Stages, s # "none", stage[w] # "none",
             UNCHANGED <<pc, task>>, stage' = [stage EXCEPT ![w] = s],
             s = "data" => stage[w] = "header" /\ Kind[task[w]] = "READ",
             s \in {"copy", "header"} => stage[w] = "copy"
      PROVE  StageTypes' /\ StageInv'
  <2>1. StageTypes'
    BY <1>0, <1>1 DEF StageTypes
  <2>2. StageInv'
    BY <1>0, <1>1 DEF StageInv
  <2>. QED  BY <2>1, <2>2
<1>2. CASE UNCHANGED <<stage, task, pc>>
  BY <1>0, <1>2 DEF StageTypes, StageInv
<1>3. ASSUME NEW w \in Workers, TestStop(w) PROVE StageTypes' /\ StageInv'
  <2>1. pc[w] = "loop" /\ UNCHANGED <<stage, task>>
        /\ pc' = [pc EXCEPT ![w] = IF m_is_stop THEN "exited" ELSE "pop"]
    BY <1>3 DEF TestStop, Pool!TestStop
  <2>. QED  BY <1>0, <2>1 DEF StageTypes, StageInv
<1>4. ASSUME NEW w \in Workers, PopTask(w) PROVE StageTypes' /\ StageInv'
  <2>1. PICK t \in Pool!AllTasks :
           /\ t # TPTASK /\ m_wpq[t] > 0 /\ pc[w] = "pop" /\ task[w] = NoTask
           /\ m_wpq' = [m_wpq EXCEPT ![t] = @ - 1]
           /\ task' = [task EXCEPT ![w] = t]
           /\ pc' = [pc EXCEPT ![w] = "run"]
    BY <1>4, PopEffect DEF PopTask, TypeOK
  <2>2. task'[w] = t /\ stage' = [stage EXCEPT ![w] = Create(Key(t)).execute]
    BY <1>0, <1>4, <2>1 DEF PopTask
  <2>3. /\ Create(Key(t)).execute \in {"copy", "stdin", "end"}
        /\ Create(Key(t)).execute = "copy" => t \in Requests /\ Kind[t] # "DISCONN"
    BY CreateStage
  <2>4. \A v \in Workers \ {w} : task'[v] = task[v] /\ pc'[v] = pc[v] /\ stage'[v] = stage[v]
    BY <1>0, <2>1, <2>2
  <2>5. stage'[w] = Create(Key(t)).execute /\ pc'[w] = "run"
    BY <1>0, <2>1, <2>2
  <2>6. StageTypes'
    BY <1>0, <2>2, <2>3, <2>4, <2>5 DEF StageTypes, Stages
  <2>7. StageInv'
    BY <2>2, <2>3, <2>4, <2>5 DEF StageInv
  <2>. QED  BY <2>6, <2>7
<1>5. ASSUME NEW w \in Workers, LockReply(w) PROVE StageTypes' /\ StageInv'
  BY <1>1, <1>5 DEF LockReply, Stages, poolVars
<1>6. ASSUME NEW w \in Workers, SendHeader(w) PROVE StageTypes' /\ StageInv'
  BY <1>1, <1>6 DEF SendHeader, Stages, poolVars
<1>7. ASSUME NEW w \in Workers, SendData(w) PROVE StageTypes' /\ StageInv'
  BY <1>1, <1>7 DEF SendData, Stages, poolVars
<1>8. ASSUME NEW w \in Workers, ReadLine(w) PROVE StageTypes' /\ StageInv'
  BY <1>1, <1>2, <1>8 DEF ReadLine, Stages, poolVars
<1>9. ASSUME NEW w \in Workers, EndTask(w) PROVE StageTypes' /\ StageInv'
  <2>1. /\ pc' = [pc EXCEPT ![w] = "loop"] /\ task' = [task EXCEPT ![w] = NoTask]
        /\ stage' = [stage EXCEPT ![w] = "none"]
    BY <1>9 DEF EndTask, Pool!RunTask
  <2>2. \A v \in Workers \ {w} : task'[v] = task[v] /\ pc'[v] = pc[v] /\ stage'[v] = stage[v]
    BY <1>0, <2>1
  <2>3. stage'[w] = "none" /\ pc'[w] = "loop"
    BY <1>0, <2>1
  <2>4. StageTypes'
    BY <1>0, <2>1, <2>2, <2>3 DEF StageTypes, Stages
  <2>. QED  BY <2>2, <2>3, <2>4 DEF StageInv
<1>. QED  BY <1>2, <1>3, <1>4, <1>5, <1>6, <1>7, <1>8, <1>9, StageUse

TaskSafe == TypeOK /\ TaskInv /\ StageInv

LEMMA TaskSafeStep ==
  ASSUME TaskSafe, [Next]_vars
  PROVE  TaskSafe'
<1>1. TypeOK /\ TaskInv /\ StageInv /\ Pool!TypeOK
  BY TypeParts DEF TaskSafe
<1>2. Pool!TypeOK'
  BY <1>1, PoolUse, PoolTypeStep
<1>3. ServiceTypes' /\ DiskTypes' /\ StageTypes' /\ TaskInv' /\ StageInv'
  BY <1>1, ServiceTypeStep, DiskTypeStep, StageStep, TaskStep
<1>4. TypeOK'
  BY <1>2, <1>3 DEF TypeOK, ServiceTypes, DiskTypes, StageTypes
<1>. QED  BY <1>3, <1>4 DEF TaskSafe

LEMMA TaskSafeInit == Init => TaskSafe
<1>1. Init => StageInv
  BY DEF Init, StageInv
<1>. QED  BY <1>1, TypeInit, TaskInit DEF TaskSafe

\* The state of the service is well typed, for any number of workers and any
\* requests; a worker is in a stage of Execute exactly while it has a task.
THEOREM EngineTypeCorrect == Spec => []TypeOK
<1>1. TaskSafe /\ [Next]_vars => TaskSafe'
  BY TaskSafeStep
<1>2. TaskSafe => TypeOK
  BY DEF TaskSafe
<1>. QED  BY <1>1, <1>2, TaskSafeInit, PTL DEF Spec

(***************************************************************************)
(* The replies.  The mutex keeps the two parts of a READ's reply together: *)
(* a header of a READ is the last part in the stream only while its worker *)
(* is about to write the data, with the mutex.                             *)
(***************************************************************************)
SocketInv ==
  /\ added \cap Requests \subseteq submitted
  /\ \A k \in 1 .. Len(inbox) : inbox[k] \in submitted \ added
  /\ \A j, k \in 1 .. Len(inbox) : inbox[j] = inbox[k] => j = k

LockInv ==
  \A w \in Workers :
    stage[w] \in {"header", "data"} => m_reply_mutex = w /\ todo[task[w]] = {}

ReplyInv ==
  /\ \A r \in Requests :
       Header(r) \in Sent => r \in added /\ m_wpq[r] = 0 /\ todo[r] = {}
  /\ \A r \in Requests : Data(r) \in Sent => Header(r) \in Sent
  /\ \A w \in Workers : stage[w] \in {"copy", "header"} => Header(task[w]) \notin Sent
  /\ \A w \in Workers :
       stage[w] = "data" => /\ Data(task[w]) \notin Sent
                            /\ stream # <<>> /\ stream[Len(stream)] = Header(task[w])
  /\ \A r \in Requests :
       (stream # <<>> /\ stream[Len(stream)] = Header(r) /\ Kind[r] = "READ")
         => \E w \in Workers : stage[w] = "data" /\ task[w] = r

\* A request has not been touched while it is in the queue; when it has left
\* the queue, a worker has it until it is replied to.
FinishInv ==
  /\ \A r \in Requests : (r \notin added \/ m_wpq[r] = 1) => todo[r] = Span[r]
  /\ \A r \in added \cap Requests :
       (m_wpq[r] = 0 /\ Kind[r] # "DISCONN")
         => \/ r \in Replied
            \/ \E w \in Workers : task[w] = r /\ stage[w] \in {"copy", "header", "data"}

ServiceInv == SocketInv /\ LockInv /\ ReplyInv /\ FramingIntact /\ FinishInv

LEMMA ServiceInit == Init => ServiceInv
<1> SUFFICES ASSUME Init PROVE ServiceInv
  OBVIOUS
<1>1. stream = <<>> /\ inbox = <<>> /\ Len(stream) = 0 /\ Len(inbox) = 0 /\ added = {} /\ Sent = {}
  BY DEF Init, Pool!Init, Sent
<1>2. \A w \in Workers : stage[w] = "none"
  BY DEF Init
<1>3. todo = Span
  BY DEF Init
<1>4. SocketInv /\ LockInv /\ FinishInv
  BY <1>1, <1>2, <1>3 DEF SocketInv, LockInv, FinishInv
<1>5. ReplyInv /\ FramingIntact
  BY <1>1, <1>2 DEF ReplyInv, FramingIntact
<1>. QED  BY <1>4, <1>5 DEF ServiceInv

\* The steps that touch neither a request nor its reply.
Quiet == /\ UNCHANGED <<task, stage, todo, stream, m_reply_mutex, submitted, inbox>>
         /\ \A r \in Requests : m_wpq'[r] = m_wpq[r] /\ (r \in added' <=> r \in added)

LEMMA QuietSteps ==
  ASSUME TypeOK, [Next]_vars
  PROVE  \/ Quiet \/ DispatchRequest \/ \E r \in Requests : Submit(r)
         \/ \E w \in Workers : PopTask(w) \/ CopyCell(w) \/ LockReply(w) \/ SendHeader(w)
                                \/ SendData(w) \/ ReadLine(w) \/ EndTask(w)
<1> USE DEF socketVars, diskVars, poolVars
<1>0. m_wpq \in [Pool!AllTasks -> Nat]
  BY DEF TypeOK, Pool!TypeOK
<1>1. ASSUME NEW t \in PoolTasks \ Requests, Pool!AddTask(t),
             UNCHANGED <<stage, todo, stream, m_reply_mutex, submitted, inbox>>
      PROVE  Quiet
  <2>1. /\ task' = task /\ added' = added \cup {t} /\ m_wpq' = [m_wpq EXCEPT ![t] = @ + 1]
    BY <1>1 DEF Pool!AddTask, Pool!Push, Pool!workerVars
  <2>. QED  BY <1>0, <1>1, <2>1, TaskSets DEF Quiet
<1>2. CASE MainStep
  <2>1. CASE DispatchStdin
    <3>1. PICK t \in StdinTasks : Pool!AddTask(t)
      BY <2>1 DEF DispatchStdin
    <3>2. t \in PoolTasks \ Requests
      BY EngineAssumption, TaskSets DEF EngineAssumption
    <3>. QED  BY <1>1, <2>1, <3>1, <3>2 DEF DispatchStdin
  <2>2. CASE RunReturns
    <3>1. Bye \in PoolTasks \ Requests
      BY EngineAssumption, TaskSets DEF EngineAssumption
    <3>. QED  BY <1>1, <2>2, <3>1 DEF RunReturns
  <2>3. CASE \/ RunTest \/ EpollReturns \/ ReceiveFails \/ BatchEnd \/ DestroyPlugins
            \/ MainReturns
    BY <2>3 DEF RunTest, EpollReturns, ReceiveFails, BatchEnd, DestroyPlugins, MainReturns, Quiet
  <2>4. CASE DestroyPool \/ JoinPool
    BY <2>4 DEF DestroyPool, JoinPool, Pool!Destroy, Pool!Join, Pool!workerVars, Quiet
  <2>5. CASE PoolDtorStep
    <3>1. UNCHANGED <<task, added>> /\ (m_wpq' = m_wpq \/ m_wpq' = [m_wpq EXCEPT ![STOPTASK] = @ + 1])
      BY <2>5 DEF PoolDtorStep, Pool!PushStopTask, Pool!Push, Pool!Return, Pool!workerVars
    <3>2. \A r \in Requests : m_wpq'[r] = m_wpq[r]
      BY <1>0, <3>1, EngineAssumption, TaskSets DEF EngineAssumption
    <3>. QED  BY <2>5, <3>1, <3>2 DEF PoolDtorStep, Quiet
  <2>. QED  BY <1>2, <2>1, <2>2, <2>3, <2>4, <2>5 DEF MainStep
<1>3. ASSUME NEW w \in Workers, TestStop(w) PROVE Quiet
  BY <1>3 DEF TestStop, Pool!TestStop, Pool!ownerVars, Quiet
<1>4. ASSUME NEW w \in Workers, WriteFails(w) PROVE Quiet
  BY <1>4 DEF WriteFails, Quiet
<1>5. CASE \/ Shutdown \/ DriverThreadExits \/ PluginFails \/ Signal
           \/ \E l \in {"q", "other"} : Type(l)
  BY <1>5 DEF Shutdown, DriverThreadExits, PluginFails, Signal, Type, Quiet
<1>6. CASE UNCHANGED vars
  BY <1>6 DEF vars, Quiet
<1>. QED  BY <1>2, <1>3, <1>4, <1>5, <1>6 DEF Next, WorkerStep, Environment

LEMMA QuietKeeps ==
  ASSUME TypeOK, ServiceInv, Quiet
  PROVE  ServiceInv'
<1> USE DEF Quiet, Sent
<1>1. SocketInv'
  <2>1. \A k \in 1 .. Len(inbox) : inbox[k] \in Requests
    BY DEF TypeOK
  <2>. QED  BY <2>1 DEF ServiceInv, SocketInv
<1>2. LockInv' /\ FramingIntact'
  BY DEF ServiceInv, LockInv, FramingIntact
<1>3. ReplyInv'
  BY DEF ServiceInv, ReplyInv
<1>4. FinishInv'
  BY DEF ServiceInv, FinishInv, Replied
<1>. QED  BY <1>1, <1>2, <1>3, <1>4 DEF ServiceInv

LEMMA SubmitKeeps ==
  ASSUME TaskSafe, ServiceInv, NEW r \in Requests, Submit(r)
  PROVE  ServiceInv'
<1>1. /\ r \notin submitted /\ submitted' = submitted \cup {r} /\ inbox' = Append(inbox, r)
      /\ UNCHANGED <<task, stage, todo, stream, m_reply_mutex, m_wpq, added>>
  BY DEF Submit, poolVars, diskVars
<1>2. inbox \in Seq(Requests)
  BY DEF TaskSafe, TypeOK
<1>3. SocketInv'
  <2>1. Len(inbox') = Len(inbox) + 1 /\ inbox'[Len(inbox) + 1] = r
        /\ \A k \in 1 .. Len(inbox) : inbox'[k] = inbox[k]
    BY <1>1, <1>2
  <2>2. r \notin added /\ \A k \in 1 .. Len(inbox) : inbox[k] # r
    BY <1>1 DEF ServiceInv, SocketInv
  <2>. QED  BY <1>1, <1>2, <2>1, <2>2 DEF ServiceInv, SocketInv
<1>4. LockInv' /\ FramingIntact'
  BY <1>1 DEF ServiceInv, LockInv, FramingIntact
<1>5. ReplyInv' /\ FinishInv'
  BY <1>1 DEF ServiceInv, ReplyInv, FinishInv, Sent, Replied
<1>. QED  BY <1>3, <1>4, <1>5 DEF ServiceInv

LEMMA DispatchKeeps ==
  ASSUME TaskSafe, ServiceInv, DispatchRequest
  PROVE  ServiceInv'
<1>0. inbox \in Seq(Requests) /\ m_wpq \in [Pool!AllTasks -> Nat]
  BY DEF TaskSafe, TypeOK, Pool!TypeOK
<1>1. PICK r \in Requests :
        /\ inbox # <<>> /\ r = Head(inbox) /\ inbox' = Tail(inbox)
        /\ r \notin added /\ added' = added \cup {r} /\ m_wpq' = [m_wpq EXCEPT ![r] = @ + 1]
  BY DEF DispatchRequest, ReadRequest, Pool!AddTask, Pool!Push
<1>2. UNCHANGED <<task, stage, todo, stream, m_reply_mutex, submitted>>
  BY DEF DispatchRequest, Pool!AddTask, Pool!workerVars, diskVars
<1>3. Len(inbox) >= 1 /\ inbox[1] = r
  BY <1>0, <1>1
<1>4. r \in submitted /\ Header(r) \notin Sent /\ m_wpq[r] = 0
  BY <1>1, <1>3, TaskSets DEF ServiceInv, SocketInv, ReplyInv, TaskSafe, TaskInv
<1>5. m_wpq'[r] = 1 /\ \A x \in Requests \ {r} : m_wpq'[x] = m_wpq[x]
  BY <1>0, <1>1, <1>4, TaskSets
<1>6. SocketInv'
  <2>1. Len(inbox') = Len(inbox) - 1 /\ \A k \in 1 .. Len(inbox') : inbox'[k] = inbox[k + 1]
    BY <1>0, <1>1
  <2>2. \A k \in 1 .. Len(inbox') : k + 1 \in 1 .. Len(inbox) /\ inbox[k + 1] # r
    BY <1>0, <1>3, <2>1 DEF ServiceInv, SocketInv
  <2>. QED  BY <1>0, <1>1, <1>2, <1>4, <2>1, <2>2 DEF ServiceInv, SocketInv
<1>7. LockInv' /\ FramingIntact'
  BY <1>2 DEF ServiceInv, LockInv, FramingIntact
<1>8. ReplyInv'
  BY <1>1, <1>2, <1>4, <1>5 DEF ServiceInv, ReplyInv, Sent
<1>9. FinishInv'
  BY <1>1, <1>2, <1>5 DEF ServiceInv, FinishInv, Sent, Replied
<1>. QED  BY <1>6, <1>7, <1>8, <1>9 DEF ServiceInv

LEMMA PopKeeps ==
  ASSUME TaskSafe, ServiceInv, NEW w \in Workers, PopTask(w)
  PROVE  ServiceInv'
<1>0. /\ m_wpq \in [Pool!AllTasks -> Nat] /\ stage \in [Workers -> Stages]
      /\ task \in [Workers -> Pool!AllTasks \cup {NoTask}]
  BY DEF TaskSafe, TypeOK, Pool!TypeOK
<1>1. PICK t \in Pool!AllTasks :
        /\ m_wpq[t] > 0 /\ pc[w] = "pop" /\ task[w] = NoTask
        /\ m_wpq' = [m_wpq EXCEPT ![t] = @ - 1]
        /\ task' = [task EXCEPT ![w] = t]
  BY PopEffect DEF PopTask, TaskSafe, TypeOK
<1>2. UNCHANGED <<todo, stream, m_reply_mutex, submitted, inbox, added>>
  BY DEF PopTask, Pool!PopTask, Pool!ownerVars, diskVars, socketVars
<1>3. task'[w] = t /\ stage' = [stage EXCEPT ![w] = Create(Key(t)).execute]
  BY <1>0, <1>1 DEF PopTask
<1>4. stage[w] = "none" /\ stage'[w] = Create(Key(t)).execute
      /\ \A v \in Workers \ {w} : task'[v] = task[v] /\ stage'[v] = stage[v]
  BY <1>0, <1>1, <1>3 DEF TaskSafe, TypeOK
<1>5. \A x \in Requests \ {t} : m_wpq'[x] = m_wpq[x]
  BY <1>0, <1>1, TaskSets
<1>6. t \in Requests => m_wpq[t] = 1 /\ m_wpq'[t] = 0 /\ t \in added /\ Header(t) \notin Sent
  BY <1>0, <1>1, TaskSets DEF TaskSafe, TaskInv, ServiceInv, ReplyInv
<1>7. /\ stage'[w] \in {"copy", "stdin", "end"}
      /\ stage'[w] = "copy" => t \in Requests
      /\ t \in Requests /\ Kind[t] # "DISCONN" => stage'[w] = "copy"
  BY <1>4, CreateStage, EngineAssumption DEF EngineAssumption
<1>8. SocketInv' /\ FramingIntact'
  BY <1>2 DEF ServiceInv, SocketInv, FramingIntact
<1>9. LockInv'
  BY <1>2, <1>4, <1>7 DEF ServiceInv, LockInv
<1>10. ReplyInv'
  BY <1>2, <1>3, <1>4, <1>5, <1>6, <1>7 DEF ServiceInv, ReplyInv, Sent
<1>11. FinishInv'
  <2>1. \A r \in Requests : (r \notin added' \/ m_wpq'[r] = 1) => todo'[r] = Span[r]
    BY <1>2, <1>5, <1>6 DEF ServiceInv, FinishInv
  <2>2. ASSUME NEW r \in added' \cap Requests, m_wpq'[r] = 0, Kind[r] # "DISCONN"
        PROVE  \/ r \in Replied'
               \/ \E v \in Workers : task'[v] = r /\ stage'[v] \in {"copy", "header", "data"}
    <3>1. CASE r = t
      BY <1>3, <1>7, <2>2, <3>1
    <3>2. CASE r # t
      BY <1>2, <1>4, <1>5, <2>2, <3>2 DEF ServiceInv, FinishInv, Replied, Sent
    <3>. QED  BY <3>1, <3>2
  <2>. QED  BY <2>1, <2>2 DEF FinishInv
<1>. QED  BY <1>8, <1>9, <1>10, <1>11 DEF ServiceInv

LEMMA CopyKeeps ==
  ASSUME TaskSafe, ServiceInv, NEW w \in Workers, CopyCell(w)
  PROVE  ServiceInv'
<1>0. todo \in [Requests -> SUBSET Cells]
  BY DEF TaskSafe, TypeOK
<1>1. PICK c \in todo[task[w]] :
        task[w] \in Requests /\ todo' = [todo EXCEPT ![task[w]] = @ \ {c}]
  BY CopyEffect DEF TaskSafe
<1>2. UNCHANGED <<task, stage, stream, m_reply_mutex, submitted, inbox, added, m_wpq>>
  BY DEF CopyCell, poolVars, socketVars
<1>3. task[w] \in added /\ m_wpq[task[w]] = 0
  BY <1>1, TaskSets DEF TaskSafe, TaskInv
<1>4. \A r \in Requests : /\ todo[r] = {} => todo'[r] = {}
                          /\ r # task[w] => todo'[r] = todo[r]
  BY <1>0, <1>1
<1>5. \A v \in Workers : stage[v] \in {"header", "data"} => task[v] \in Requests
  BY DEF TaskSafe, StageInv
<1>6. SocketInv' /\ LockInv' /\ FramingIntact'
  <2>1. SocketInv' /\ FramingIntact'
    BY <1>2 DEF ServiceInv, SocketInv, FramingIntact
  <2>2. LockInv'
    BY <1>2, <1>4, <1>5 DEF ServiceInv, LockInv
  <2>. QED  BY <2>1, <2>2
<1>7. ReplyInv'
  BY <1>2, <1>4 DEF ServiceInv, ReplyInv, Sent
<1>8. FinishInv'
  BY <1>2, <1>3, <1>4 DEF ServiceInv, FinishInv, Sent, Replied
<1>. QED  BY <1>6, <1>7, <1>8 DEF ServiceInv

LEMMA LockKeeps ==
  ASSUME TaskSafe, ServiceInv, NEW w \in Workers, LockReply(w)
  PROVE  ServiceInv'
<1>0. stage \in [Workers -> Stages]
  BY DEF TaskSafe, TypeOK
<1>1. /\ stage[w] = "copy" /\ todo[task[w]] = {}
      /\ m_reply_mutex = NoThread /\ m_reply_mutex' = w
      /\ stage' = [stage EXCEPT ![w] = "header"]
      /\ UNCHANGED <<task, todo, stream, submitted, inbox, added, m_wpq>>
  BY DEF LockReply, poolVars, diskVars, socketVars
<1>2. stage'[w] = "header" /\ \A v \in Workers \ {w} : stage'[v] = stage[v]
  BY <1>0, <1>1
<1>3. SocketInv' /\ FramingIntact'
  BY <1>1 DEF ServiceInv, SocketInv, FramingIntact
<1>4. \A v \in Workers : stage[v] \notin {"header", "data"}
  BY <1>1, EngineAssumption DEF ServiceInv, LockInv, EngineAssumption
<1>5. LockInv'
  BY <1>1, <1>2, <1>4 DEF LockInv
<1>6. ReplyInv'
  BY <1>1, <1>2 DEF ServiceInv, ReplyInv, Sent
<1>7. FinishInv'
  BY <1>1, <1>2 DEF ServiceInv, FinishInv, Sent, Replied
<1>. QED  BY <1>3, <1>5, <1>6, <1>7 DEF ServiceInv

\* What a write to the socket does to the stream.
LEMMA AppendSent ==
  ASSUME TypeOK, NEW e \in {"header", "data"} \X Requests, stream' = Append(stream, e)
  PROVE  /\ Len(stream) \in Nat /\ Len(stream') = Len(stream) + 1
         /\ stream' # <<>> /\ stream'[Len(stream) + 1] = e
         /\ \A k \in 1 .. Len(stream) : stream'[k] = stream[k]
         /\ Sent' = Sent \cup {e}
<1>1. stream \in Seq({"header", "data"} \X Requests)
  BY DEF TypeOK
<1>2. /\ Len(stream) \in Nat /\ Len(stream') = Len(stream) + 1
      /\ stream' # <<>> /\ stream'[Len(stream) + 1] = e
      /\ \A k \in 1 .. Len(stream) : stream'[k] = stream[k]
  BY <1>1
<1>3. Sent' = Sent \cup {e}
  BY <1>2 DEF Sent
<1>. QED  BY <1>2, <1>3

LEMMA Parts ==
  ASSUME NEW r \in Requests
  PROVE  /\ Header(r) \in {"header", "data"} \X Requests
         /\ Data(r) \in {"header", "data"} \X Requests
         /\ Header(r)[2] = r /\ Data(r)[2] = r
         /\ \A x \in Requests : Header(x) # Data(r)
         /\ \A x \in Requests : Header(x) = Header(r) => x = r
         /\ \A x \in Requests : Data(x) = Data(r) => x = r
BY DEF Header, Data

\* While a worker holds the reply mutex, no other is about to write.
LEMMA OneReplier ==
  ASSUME ServiceInv, NEW w \in Workers, stage[w] \in {"header", "data"}
  PROVE  \A v \in Workers : stage[v] \in {"header", "data"} => v = w
BY DEF ServiceInv, LockInv

LEMMA HeaderKeeps ==
  ASSUME TaskSafe, ServiceInv, NEW w \in Workers, SendHeader(w)
  PROVE  ServiceInv'
<1> DEFINE r == task[w]
           n == Len(stream)
<1>0. stage \in [Workers -> Stages] /\ r \in Requests /\ Kind[r] # "DISCONN" /\ TypeOK
  BY DEF TaskSafe, TypeOK, StageInv, SendHeader
<1>1. /\ stage[w] = "header" /\ stream' = Append(stream, Header(r))
      /\ stage' = [stage EXCEPT ![w] = IF Kind[r] = "READ" THEN "data" ELSE "end"]
      /\ UNCHANGED <<task, todo, m_reply_mutex, submitted, inbox, added, m_wpq>>
  BY DEF SendHeader, poolVars, diskVars
<1>2. /\ stage'[w] = IF Kind[r] = "READ" THEN "data" ELSE "end"
      /\ \A v \in Workers \ {w} : stage'[v] = stage[v] /\ stage[v] \notin {"header", "data"}
  BY <1>0, <1>1, OneReplier
<1>3. r \in added /\ m_wpq[r] = 0 /\ todo[r] = {} /\ Header(r) \notin Sent /\ Data(r) \notin Sent
  BY <1>0, <1>1, TaskSets DEF TaskSafe, TaskInv, ServiceInv, LockInv, ReplyInv
<1>4. /\ n \in Nat /\ Len(stream') = n + 1 /\ stream' # <<>> /\ stream'[n + 1] = Header(r)
      /\ \A k \in 1 .. n : stream'[k] = stream[k]
      /\ Sent' = Sent \cup {Header(r)}
  BY <1>0, <1>1, AppendSent, Parts
<1>5. \A v \in Workers : stage[v] \in {"copy", "header", "data"} => task[v] \in Requests
  BY DEF TaskSafe, StageInv
<1>6. \A v \in Workers \ {w} : task[v] # r
  BY <1>0, TaskSets DEF TaskSafe, TaskInv
<1>7. \A x \in Requests : (n > 0 /\ stream[n] = Header(x)) => Kind[x] # "READ"
  <2> SUFFICES ASSUME NEW x \in Requests, n > 0, stream[n] = Header(x), Kind[x] = "READ"
               PROVE  FALSE
    OBVIOUS
  <2>1. stream # <<>>
    BY <1>4
  <2>2. PICK v \in Workers : stage[v] = "data" /\ task[v] = x
    BY <2>1 DEF ServiceInv, ReplyInv
  <2>. QED  BY <1>1, <1>2, <2>2
<1> HIDE DEF r, n
<1>8. SocketInv'
  BY <1>1 DEF ServiceInv, SocketInv
<1>9. LockInv'
  BY <1>1, <1>2, <1>3 DEF ServiceInv, LockInv, r
<1>10. ReplyInv'
  <2>1. \A x \in Requests :
          Header(x) \in Sent' => x \in added' /\ m_wpq'[x] = 0 /\ todo'[x] = {}
    BY <1>0, <1>1, <1>3, <1>4, Parts DEF ServiceInv, ReplyInv
  <2>2. \A x \in Requests : Data(x) \in Sent' => Header(x) \in Sent'
    BY <1>0, <1>4, Parts DEF ServiceInv, ReplyInv
  <2>3. \A v \in Workers : stage'[v] \in {"copy", "header"} => Header(task'[v]) \notin Sent'
    BY <1>0, <1>1, <1>2, <1>4, <1>5, <1>6, Parts DEF ServiceInv, ReplyInv
  <2>4. \A v \in Workers :
          stage'[v] = "data" => /\ Data(task'[v]) \notin Sent'
                                /\ stream' # <<>> /\ stream'[Len(stream')] = Header(task'[v])
    BY <1>0, <1>1, <1>2, <1>3, <1>4, Parts DEF r
  <2>5. \A x \in Requests :
          (stream' # <<>> /\ stream'[Len(stream')] = Header(x) /\ Kind[x] = "READ")
            => \E v \in Workers : stage'[v] = "data" /\ task'[v] = x
    BY <1>0, <1>1, <1>2, <1>4, Parts DEF r
  <2>. QED  BY <2>1, <2>2, <2>3, <2>4, <2>5 DEF ReplyInv
<1>11. FramingIntact'
  <2> SUFFICES ASSUME NEW k \in 1 .. Len(stream')
               PROVE  LET x == stream'[k][2] IN
                      /\ stream'[k] = Data(x) =>
                           Kind[x] = "READ" /\ k > 1 /\ stream'[k - 1] = Header(x)
                      /\ (stream'[k] = Header(x) /\ Kind[x] = "READ" /\ k < Len(stream'))
                           => stream'[k + 1] = Data(x)
                      /\ \A j \in 1 .. k - 1 : stream'[j] # stream'[k]
    BY DEF FramingIntact
  <2>1. CASE k = n + 1
    <3>1. stream'[k] = Header(r) /\ stream'[k][2] = r /\ Header(r) # Data(r)
      BY <1>0, <1>4, <2>1, Parts
    <3>2. \A j \in 1 .. n : stream[j] # Header(r)
      BY <1>3 DEF Sent, n
    <3>. QED  BY <1>4, <2>1, <3>1, <3>2
  <2>2. CASE k \in 1 .. n
    <3>1. stream'[k] = stream[k] /\ (k > 1 => stream'[k - 1] = stream[k - 1])
          /\ \A j \in 1 .. k - 1 : stream'[j] = stream[j]
      BY <1>4, <2>2
    <3>2. k < n => stream'[k + 1] = stream[k + 1]
      BY <1>4, <2>2
    <3>3. /\ stream[k] = Data(stream[k][2]) =>
               Kind[stream[k][2]] = "READ" /\ k > 1 /\ stream[k - 1] = Header(stream[k][2])
          /\ (stream[k] = Header(stream[k][2]) /\ Kind[stream[k][2]] = "READ" /\ k < n)
               => stream[k + 1] = Data(stream[k][2])
          /\ \A j \in 1 .. k - 1 : stream[j] # stream[k]
      BY <2>2 DEF ServiceInv, FramingIntact, n
    <3>4. stream[k][2] \in Requests
      BY <1>0, <2>2 DEF TypeOK, n
    <3>5. k = n => ~(stream[k] = Header(stream[k][2]) /\ Kind[stream[k][2]] = "READ")
      BY <1>4, <1>7, <2>2, <3>4
    <3>. QED  BY <1>4, <2>2, <3>1, <3>2, <3>3, <3>5
  <2>. QED  BY <1>4, <2>1, <2>2
<1>12. FinishInv'
  <2>1. \A x \in Requests : x \in Replied => x \in Replied'
    BY <1>4 DEF Replied
  <2>2. Kind[r] = "READ" \/ r \in Replied'
    BY <1>0, <1>4 DEF Replied, LastPart
  <2>3. \A x \in Requests : (x \notin added' \/ m_wpq'[x] = 1) => todo'[x] = Span[x]
    BY <1>1 DEF ServiceInv, FinishInv
  <2>4. ASSUME NEW x \in added' \cap Requests, m_wpq'[x] = 0, Kind[x] # "DISCONN"
        PROVE  \/ x \in Replied'
               \/ \E v \in Workers : task'[v] = x /\ stage'[v] \in {"copy", "header", "data"}
    <3>1. CASE x = r
      BY <1>1, <1>2, <2>2, <3>1 DEF r
    <3>2. CASE x # r
      BY <1>1, <1>2, <2>1, <2>4, <3>2 DEF ServiceInv, FinishInv, r
    <3>. QED  BY <3>1, <3>2
  <2>. QED  BY <2>3, <2>4 DEF FinishInv
<1>. QED  BY <1>8, <1>9, <1>10, <1>11, <1>12 DEF ServiceInv

LEMMA DataKeeps ==
  ASSUME TaskSafe, ServiceInv, NEW w \in Workers, SendData(w)
  PROVE  ServiceInv'
<1> DEFINE r == task[w]
           n == Len(stream)
<1>0. stage \in [Workers -> Stages] /\ r \in Requests /\ Kind[r] = "READ" /\ TypeOK
  BY DEF TaskSafe, TypeOK, StageInv, SendData
<1>1. /\ stage[w] = "data" /\ stream' = Append(stream, Data(r))
      /\ stage' = [stage EXCEPT ![w] = "end"]
      /\ UNCHANGED <<task, todo, m_reply_mutex, submitted, inbox, added, m_wpq>>
  BY DEF SendData, poolVars, diskVars
<1>2. /\ stage'[w] = "end"
      /\ \A v \in Workers \ {w} : stage'[v] = stage[v] /\ stage[v] \notin {"header", "data"}
  BY <1>0, <1>1, OneReplier
<1>3. Data(r) \notin Sent /\ stream # <<>> /\ stream[n] = Header(r)
  BY <1>1 DEF ServiceInv, ReplyInv
<1>4. /\ n \in Nat /\ Len(stream') = n + 1 /\ stream' # <<>> /\ stream'[n + 1] = Data(r)
      /\ \A k \in 1 .. n : stream'[k] = stream[k]
      /\ Sent' = Sent \cup {Data(r)}
  BY <1>0, <1>1, AppendSent, Parts
<1>5. \A v \in Workers : stage[v] \in {"copy", "header", "data"} => task[v] \in Requests
  BY DEF TaskSafe, StageInv
<1>6. n > 0 /\ Header(r) \in Sent
  <2>1. n > 0
    BY <1>0, <1>3 DEF TypeOK
  <2>. QED  BY <1>3, <1>4, <2>1 DEF Sent
<1> HIDE DEF r, n
<1>8. SocketInv'
  BY <1>1 DEF ServiceInv, SocketInv
<1>9. LockInv'
  BY <1>1, <1>2 DEF LockInv
<1>10. ReplyInv'
  <2>1. \A x \in Requests :
          Header(x) \in Sent' => x \in added' /\ m_wpq'[x] = 0 /\ todo'[x] = {}
    BY <1>0, <1>1, <1>4, Parts DEF ServiceInv, ReplyInv
  <2>2. \A x \in Requests : Data(x) \in Sent' => Header(x) \in Sent'
    BY <1>0, <1>4, <1>6, Parts DEF ServiceInv, ReplyInv
  <2>3. \A v \in Workers : stage'[v] \in {"copy", "header"} => Header(task'[v]) \notin Sent'
    BY <1>0, <1>1, <1>2, <1>4, <1>5, Parts DEF ServiceInv, ReplyInv
  <2>4. \A v \in Workers : stage'[v] # "data"
    BY <1>2
  <2>5. \A x \in Requests : stream'[Len(stream')] # Header(x)
    BY <1>0, <1>4, Parts
  <2>. QED  BY <2>1, <2>2, <2>3, <2>4, <2>5 DEF ReplyInv
<1>11. FramingIntact'
  <2> SUFFICES ASSUME NEW k \in 1 .. Len(stream')
               PROVE  LET x == stream'[k][2] IN
                      /\ stream'[k] = Data(x) =>
                           Kind[x] = "READ" /\ k > 1 /\ stream'[k - 1] = Header(x)
                      /\ (stream'[k] = Header(x) /\ Kind[x] = "READ" /\ k < Len(stream'))
                           => stream'[k + 1] = Data(x)
                      /\ \A j \in 1 .. k - 1 : stream'[j] # stream'[k]
    BY DEF FramingIntact
  <2>1. CASE k = n + 1
    <3>1. stream'[k] = Data(r) /\ stream'[k][2] = r /\ Header(r) # Data(r)
      BY <1>0, <1>4, <2>1, Parts
    <3>2. \A j \in 1 .. n : stream[j] # Data(r)
      BY <1>3 DEF Sent, n
    <3>3. k > 1 /\ stream'[k - 1] = Header(r)
      BY <1>3, <1>4, <1>6, <2>1
    <3>. QED  BY <1>0, <1>4, <2>1, <3>1, <3>2, <3>3
  <2>2. CASE k \in 1 .. n
    <3>1. stream'[k] = stream[k] /\ (k > 1 => stream'[k - 1] = stream[k - 1])
          /\ \A j \in 1 .. k - 1 : stream'[j] = stream[j]
      BY <1>4, <2>2
    <3>2. k < n => stream'[k + 1] = stream[k + 1]
      BY <1>4, <2>2
    <3>3. /\ stream[k] = Data(stream[k][2]) =>
               Kind[stream[k][2]] = "READ" /\ k > 1 /\ stream[k - 1] = Header(stream[k][2])
          /\ (stream[k] = Header(stream[k][2]) /\ Kind[stream[k][2]] = "READ" /\ k < n)
               => stream[k + 1] = Data(stream[k][2])
          /\ \A j \in 1 .. k - 1 : stream[j] # stream[k]
      BY <2>2 DEF ServiceInv, FramingIntact, n
    <3>4. k = n => stream[k][2] = r /\ stream'[k + 1] = Data(r)
      BY <1>0, <1>3, <1>4, Parts
    <3>. QED  BY <1>4, <2>2, <3>1, <3>2, <3>3, <3>4
  <2>. QED  BY <1>4, <2>1, <2>2
<1>12. FinishInv'
  <2>1. \A x \in Requests : x \in Replied => x \in Replied'
    BY <1>4 DEF Replied
  <2>2. r \in Replied'
    BY <1>0, <1>4 DEF Replied, LastPart
  <2>3. \A x \in Requests : (x \notin added' \/ m_wpq'[x] = 1) => todo'[x] = Span[x]
    BY <1>1 DEF ServiceInv, FinishInv
  <2>4. ASSUME NEW x \in added' \cap Requests, m_wpq'[x] = 0, Kind[x] # "DISCONN", x # r
        PROVE  \/ x \in Replied'
               \/ \E v \in Workers : task'[v] = x /\ stage'[v] \in {"copy", "header", "data"}
    BY <1>1, <1>2, <2>1, <2>4 DEF ServiceInv, FinishInv, r
  <2>. QED  BY <2>2, <2>3, <2>4 DEF FinishInv
<1>. QED  BY <1>8, <1>9, <1>10, <1>11, <1>12 DEF ServiceInv

\* A worker that leaves Execute, or stays out of the reply.
LEMMA EndKeeps ==
  ASSUME TaskSafe, ServiceInv, NEW w \in Workers, ReadLine(w) \/ EndTask(w)
  PROVE  ServiceInv'
<1>0. /\ stage \in [Workers -> Stages] /\ task \in [Workers -> Pool!AllTasks \cup {NoTask}]
  BY DEF TaskSafe, TypeOK, Pool!TypeOK
<1>1. /\ UNCHANGED <<todo, stream, submitted, inbox, added, m_wpq>>
      /\ stage[w] \in {"stdin", "end"}
      /\ \/ UNCHANGED <<stage, task>>
         \/ stage' = [stage EXCEPT ![w] = "end"] /\ UNCHANGED task
         \/ stage' = [stage EXCEPT ![w] = "none"] /\ task' = [task EXCEPT ![w] = NoTask]
      /\ m_reply_mutex' = m_reply_mutex \/ m_reply_mutex = w
  BY DEF ReadLine, EndTask, Pool!RunTask, Pool!ownerVars, poolVars, diskVars, socketVars
<1>2. /\ stage[w] \notin {"copy", "header", "data"} /\ stage'[w] \notin {"copy", "header", "data"}
      /\ \A v \in Workers \ {w} : stage'[v] = stage[v] /\ task'[v] = task[v]
  BY <1>0, <1>1
<1>3. SocketInv' /\ FramingIntact'
  BY <1>1 DEF ServiceInv, SocketInv, FramingIntact
<1>4. LockInv'
  BY <1>1, <1>2 DEF ServiceInv, LockInv
<1>5. ReplyInv'
  BY <1>1, <1>2 DEF ServiceInv, ReplyInv, Sent
<1>6. FinishInv'
  BY <1>1, <1>2 DEF ServiceInv, FinishInv, Sent, Replied
<1>. QED  BY <1>3, <1>4, <1>5, <1>6 DEF ServiceInv

LEMMA ServiceStep ==
  ASSUME TaskSafe, ServiceInv, [Next]_vars
  PROVE  ServiceInv'
BY QuietSteps, QuietKeeps, SubmitKeeps, DispatchKeeps, PopKeeps, CopyKeeps, LockKeeps,
   HeaderKeeps, DataKeeps, EndKeeps DEF TaskSafe

\* The stream is a sequence of whole replies, the last one possibly unfinished,
\* for any number of workers and requests.
THEOREM EngineFramingIntact == Spec => []FramingIntact
<1>1. TaskSafe /\ ServiceInv /\ [Next]_vars => TaskSafe' /\ ServiceInv'
  BY TaskSafeStep, ServiceStep
<1>2. ServiceInv => FramingIntact
  BY DEF ServiceInv
<1>. QED  BY <1>1, <1>2, TaskSafeInit, ServiceInit, PTL DEF Spec

(***************************************************************************)
(* The end of the process: no worker is left when main returns.            *)
(***************************************************************************)
EndInv ==
  /\ op = "destroyed" => \A w \in m_threads : pc[w] = "exited"
  /\ status = "returned" => op = "destroyed"

LEMMA EndStep ==
  ASSUME TypeOK, EndInv, [Next]_vars
  PROVE  EndInv'
<1>1. pc \in [Workers -> {"none", "loop", "pop", "run", "exited"} \cup Pool!Blocking]
      /\ m_threads \subseteq Workers
  BY DEF TypeOK, Pool!TypeOK
<1>2. op' = "destroyed" => \A w \in m_threads' : pc'[w] = "exited"
  <2>1. ASSUME NEW t \in PoolTasks, Pool!AddTask(t) PROVE op' # "destroyed"
    BY <2>1 DEF Pool!AddTask
  <2>2. ASSUME NEW w \in Workers, Pool!TestStop(w) \/ Pool!PopTask(w) \/ Pool!RunTask(w)
        PROVE  /\ op' = op /\ m_threads' = m_threads /\ pc[w] \in {"loop", "pop", "run"}
               /\ \A v \in Workers \ {w} : pc'[v] = pc[v]
    <3>1. CASE Pool!TestStop(w)
      BY <1>1, <2>2, <3>1 DEF Pool!TestStop, Pool!ownerVars
    <3>2. CASE Pool!PopTask(w)
      BY <1>1, <2>2, <3>2 DEF Pool!PopTask, Pool!ownerVars
    <3>3. CASE Pool!RunTask(w)
      BY <1>1, <2>2, <3>3 DEF Pool!RunTask, Pool!ownerVars
    <3>. QED  BY <2>2, <3>1, <3>2, <3>3
  <2>3. CASE Pool!Destroy \/ Pool!PushStopTask \/ Pool!Return
    BY <2>3 DEF Pool!Destroy, Pool!PushStopTask, Pool!Return
  <2>4. CASE Pool!Join
    BY <2>4 DEF Pool!Join, Pool!workerVars
  <2>5. CASE UNCHANGED poolVars
    BY <2>5 DEF poolVars, EndInv
  <2>6. ASSUME NEW w \in Workers, Pool!TestStop(w) \/ Pool!PopTask(w) \/ Pool!RunTask(w),
               op' = "destroyed"
        PROVE  \A v \in m_threads' : pc'[v] = "exited"
    <3>1. op = "destroyed" /\ m_threads' = m_threads /\ pc[w] # "exited"
          /\ \A v \in Workers \ {w} : pc'[v] = pc[v]
      BY <2>2, <2>6
    <3>2. w \notin m_threads
      BY <3>1 DEF EndInv
    <3>. QED  BY <1>1, <3>1, <3>2 DEF EndInv
  <2>. QED  BY <2>1, <2>3, <2>4, <2>5, <2>6, PoolUse
<1>3. status' = "returned" => op' = "destroyed"
  <2>1. CASE MainStep
    BY <2>1 DEF MainStep, RunTest, EpollReturns, DispatchRequest, ReceiveFails, DispatchStdin,
                BatchEnd, RunReturns, DestroyPlugins, DestroyPool, PoolDtorStep, JoinPool, MainReturns,
                Alive, poolVars
  <2>2. ASSUME NEW w \in Workers, WorkerStep(w) PROVE status' # "returned"
    BY <2>2 DEF WorkerStep, TestStop, PopTask, CopyCell, LockReply, SendHeader, SendData,
                WriteFails, ReadLine, EndTask, Alive
  <2>3. CASE Environment
    BY <2>3 DEF Environment, Submit, Shutdown, DriverThreadExits, PluginFails, Type, Signal, Alive
  <2>4. CASE UNCHANGED vars
    BY <2>4 DEF vars, poolVars, EndInv
  <2>. QED  BY <2>1, <2>2, <2>3, <2>4 DEF Next
<1>. QED  BY <1>2, <1>3 DEF EndInv

\* When main returns after a signal, no request is half done: each one that was
\* dispatched was replied to in full, or was left in the queue untouched.
THEOREM EngineGracefulStop == Spec => []GracefulStop
<1>1. TaskSafe /\ ServiceInv /\ EndInv => GracefulStop
  <2> SUFFICES ASSUME TaskSafe, ServiceInv, EndInv, status = "returned",
                      NEW r \in added \cap Requests, r \notin Replied, Kind[r] # "DISCONN"
               PROVE  m_wpq[r] = 1 /\ todo[r] = Span[r] /\ Header(r) \notin Sent
    BY DEF GracefulStop
  <2>1. \A w \in Workers : stage[w] = "none"
    <3>1. \A w \in Workers : w \in m_threads <=> pc[w] # "none"
      BY DEF TaskSafe, TypeOK, Pool!TypeOK
    <3>2. \A w \in Workers : pc[w] # "run"
      BY <3>1 DEF EndInv
    <3>. QED  BY <3>2 DEF TaskSafe, TypeOK
  <2>2. m_wpq[r] # 0
    BY <2>1 DEF ServiceInv, FinishInv
  <2>3. m_wpq[r] = 1
    BY <2>2, TaskSets DEF TaskSafe, TaskInv
  <2>. QED  BY <2>2, <2>3 DEF ServiceInv, FinishInv, ReplyInv
<1>2. Init => EndInv
  BY DEF Init, Pool!Init, EndInv
<1>3. TaskSafe /\ ServiceInv /\ EndInv /\ [Next]_vars => TaskSafe' /\ ServiceInv' /\ EndInv'
  BY TaskSafeStep, ServiceStep, EndStep DEF TaskSafe
<1>. QED  BY <1>1, <1>2, <1>3, TaskSafeInit, ServiceInit, PTL DEF Spec

(***************************************************************************)
(* The service implements the block device: a request touches the disk     *)
(* between its submission and its one reply.                               *)
(***************************************************************************)
Dev == INSTANCE BlockDeviceProof WITH disk <- m_disk, replied <- Replied

LEMMA DevConstants == Dev!DeviceAssumption
BY EngineAssumption DEF EngineAssumption, Dev!DeviceAssumption, Writes

\* Only the last part of a reply adds to the requests replied to.
LEMMA RepliedSteps ==
  ASSUME TypeOK, NEW e \in {"header", "data"} \X Requests, stream' = Append(stream, e)
  PROVE  Replied' = Replied \cup {r \in Requests : LastPart(r) = e}
<1>1. Sent' = Sent \cup {e}
  BY AppendSent
<1>. QED  BY <1>1 DEF Replied

\* A worker about to write has a request that is dispatched, done with the disk
\* and not yet replied to; its last write replies to it.
LEMMA ReplyEffect ==
  ASSUME TaskSafe, ServiceInv, NEW w \in Workers, SendHeader(w) \/ SendData(w)
  PROVE  /\ task[w] \in Requests /\ Kind[task[w]] # "DISCONN" /\ todo[task[w]] = {}
         /\ task[w] \in (added \cap submitted) \ Replied
         /\ Replied' = Replied \/ Replied' = Replied \cup {task[w]}
         /\ UNCHANGED <<m_disk, submitted, todo, buf, before, inbox, added>>
<1> DEFINE r == task[w]
<1>1. /\ stage[w] \in {"header", "data"}
      /\ UNCHANGED <<m_disk, submitted, todo, buf, before, inbox, added>>
      /\ \/ stage[w] = "header" /\ stream' = Append(stream, Header(r))
         \/ stage[w] = "data" /\ stream' = Append(stream, Data(r))
  BY DEF SendHeader, SendData, poolVars, diskVars
<1>2. /\ r \in Requests /\ Kind[r] # "DISCONN" /\ todo[r] = {}
      /\ stage[w] = "data" => Kind[r] = "READ"
  BY <1>1 DEF ServiceInv, LockInv, TaskSafe, StageInv
<1>3. r \in added \cap submitted
  BY <1>2, TaskSets DEF TaskSafe, TaskInv, ServiceInv, SocketInv
<1>4. r \notin Replied
  BY <1>1, <1>2 DEF Replied, LastPart, ServiceInv, ReplyInv
<1> HIDE DEF r
<1>5. Replied' = Replied \/ Replied' = Replied \cup {r}
  <2>1. PICK e \in {Header(r), Data(r)} : stream' = Append(stream, e)
    BY <1>1
  <2>2. Replied' = Replied \cup {x \in Requests : LastPart(x) = e}
    BY <1>2, <2>1, RepliedSteps, Parts DEF TaskSafe
  <2>3. {x \in Requests : LastPart(x) = e} \subseteq {r}
    BY <1>2, <2>1, Parts DEF LastPart
  <2>. QED  BY <2>2, <2>3
<1>. QED  BY <1>1, <1>2, <1>3, <1>4, <1>5 DEF r

LEMMA DeviceStep ==
  ASSUME TaskSafe, ServiceInv, [Next]_vars
  PROVE  [Dev!Next]_(Dev!vars)
<1> USE DEF diskVars, socketVars
<1>1. ASSUME NEW r \in Requests, Submit(r) PROVE Dev!Next
  <2>1. Replied' = Replied
    BY <1>1 DEF Submit, Replied, Sent
  <2>2. Dev!Submit(r)
    BY <1>1, <2>1 DEF Submit, Dev!Submit
  <2>. QED  BY <2>2 DEF Dev!Next
<1>2. ASSUME NEW w \in Workers, stage[w] = "copy"
      PROVE  task[w] \in Requests /\ task[w] \in submitted \ Replied
  <2>1. task[w] \in Requests
    BY <1>2 DEF TaskSafe, StageInv
  <2>2. task[w] \in submitted
    BY <2>1, TaskSets DEF TaskSafe, TaskInv, ServiceInv, SocketInv
  <2>3. LastPart(task[w]) \notin Sent
    BY <1>2, <2>1 DEF LastPart, ServiceInv, ReplyInv
  <2>. QED  BY <2>1, <2>2, <2>3 DEF Replied
<1>3. ASSUME NEW w \in Workers, CopyCell(w) PROVE Dev!Next
  <2>1. PICK c \in todo[task[w]] :
           LET r == task[w] IN
           /\ r \in Requests /\ c \in Cells
           /\ todo' = [todo EXCEPT ![r] = @ \ {c}]
           /\ IF r \in Writes
                THEN m_disk' = [m_disk EXCEPT ![c] = r] /\ UNCHANGED buf
                ELSE buf' = [buf EXCEPT ![r][c] = m_disk[c]] /\ UNCHANGED m_disk
    BY <1>3, CopyEffect DEF TaskSafe
  <2>2. UNCHANGED <<submitted, before, stream>> /\ stage[w] = "copy"
    BY <1>3 DEF CopyCell
  <2>3. Replied' = Replied
    BY <2>2 DEF Replied, Sent
  <2>4. Dev!Touch(task[w], c)
    BY <1>2, <2>1, <2>2, <2>3 DEF Dev!Touch
  <2>. QED  BY <2>1, <2>4 DEF Dev!Next
<1>4. ASSUME NEW w \in Workers, SendHeader(w) \/ SendData(w)
      PROVE  Dev!Next \/ UNCHANGED Dev!vars
  <2> DEFINE r == task[w]
  <2>1. /\ r \in Requests /\ todo[r] = {} /\ r \in submitted \ Replied
        /\ Replied' = Replied \/ Replied' = Replied \cup {r}
        /\ UNCHANGED <<m_disk, submitted, todo, buf, before>>
    BY <1>4, ReplyEffect
  <2> HIDE DEF r
  <2>2. CASE Replied' = Replied
    BY <2>1, <2>2 DEF Dev!vars
  <2>3. CASE Replied' = Replied \cup {r}
    <3>1. Dev!Reply(r)
      BY <2>1, <2>3 DEF Dev!Reply
    <3>. QED  BY <2>1, <3>1 DEF Dev!Next
  <2>. QED  BY <2>1, <2>2, <2>3
<1>5. ASSUME UNCHANGED <<m_disk, submitted, stream, todo, buf, before>>
      PROVE  UNCHANGED Dev!vars
  BY <1>5 DEF Dev!vars, Replied, Sent
<1>6. CASE MainStep
  <2>1. UNCHANGED <<m_disk, submitted, stream, todo, buf, before>>
    BY <1>6 DEF MainStep, RunTest, EpollReturns, DispatchRequest, ReceiveFails, DispatchStdin,
                BatchEnd, RunReturns, DestroyPlugins, DestroyPool, PoolDtorStep, JoinPool, MainReturns
  <2>. QED  BY <1>5, <2>1
<1>7. ASSUME NEW w \in Workers,
             \/ TestStop(w) \/ PopTask(w) \/ LockReply(w) \/ WriteFails(w)
             \/ ReadLine(w) \/ EndTask(w)
      PROVE  UNCHANGED Dev!vars
  <2>1. UNCHANGED <<m_disk, submitted, stream, todo, buf, before>>
    BY <1>7 DEF TestStop, PopTask, LockReply, WriteFails, ReadLine, EndTask
  <2>. QED  BY <1>5, <2>1
<1>8. CASE \/ Shutdown \/ DriverThreadExits \/ PluginFails \/ Signal
           \/ \E l \in {"q", "other"} : Type(l)
  <2>1. UNCHANGED <<m_disk, submitted, stream, todo, buf, before>>
    BY <1>8 DEF Shutdown, DriverThreadExits, PluginFails, Signal, Type
  <2>. QED  BY <1>5, <2>1
<1>9. CASE UNCHANGED vars
  BY <1>5, <1>9 DEF vars
<1>. QED  BY <1>1, <1>3, <1>4, <1>6, <1>7, <1>8, <1>9 DEF Next, WorkerStep, Environment

LEMMA DeviceInit == Init => Dev!Init
<1> SUFFICES ASSUME Init PROVE Dev!Init
  OBVIOUS
<1>1. Replied = {}
  BY DEF Init, Replied, Sent
<1>. QED  BY <1>1 DEF Init, Dev!Init

\* The service behaves like the device, for any number of workers, requests and
\* cells: it touches a request's cells only between submission and reply, and
\* replies only when every cell has been touched.
THEOREM EngineImplementsDevice == Spec => ImplementsDevice
<1>1. Dev!Init <=> Device!Init
  BY DEF Dev!Init, Device!Init
<1>2. [Dev!Next]_(Dev!vars) => [Device!Next]_(Device!vars)
  BY DEF Dev!Next, Device!Next, Dev!vars, Device!vars, Dev!Submit, Device!Submit,
         Dev!Touch, Device!Touch, Dev!Reply, Device!Reply
<1>3. TaskSafe /\ ServiceInv /\ [Next]_vars
        => TaskSafe' /\ ServiceInv' /\ [Device!Next]_(Device!vars)
  BY <1>2, TaskSafeStep, ServiceStep, DeviceStep
<1>. QED  BY <1>1, <1>3, TaskSafeInit, ServiceInit, DeviceInit, PTL DEF Spec, ImplementsDevice

\* So no read served by the threads returns a value that was overwritten before
\* it was submitted.
THEOREM EngineReadsFresh == Spec => []ReadsFresh
<1>1. Dev!Init => Dev!TypeOK /\ Dev!FreshInv
  BY DevConstants DEF Dev!DeviceAssumption, Dev!Init, Dev!TypeOK, Dev!FreshInv,
     Dev!BeforeReplied, Dev!RepliedDone, Dev!Untouched, Dev!Overwritten, Dev!ReadsFresh
<1>2. Dev!TypeOK /\ Dev!FreshInv /\ [Dev!Next]_(Dev!vars) => Dev!TypeOK' /\ Dev!FreshInv'
  BY DevConstants, Dev!TypeStep, Dev!FreshStep
<1>3. TaskSafe /\ ServiceInv /\ Dev!TypeOK /\ Dev!FreshInv /\ [Next]_vars
        => TaskSafe' /\ ServiceInv' /\ Dev!TypeOK' /\ Dev!FreshInv'
  BY <1>2, TaskSafeStep, ServiceStep, DeviceStep
<1>4. Dev!FreshInv => ReadsFresh
  BY DEF Dev!FreshInv, Dev!ReadsFresh, ReadsFresh, Device!ReadsFresh
<1>. QED  BY <1>1, <1>3, <1>4, TaskSafeInit, ServiceInit, DeviceInit, PTL DEF Spec

(***************************************************************************)
(* The pool as the engine uses it: every step is one that ThreadPool       *)
(* allows its owner and its workers, so what is proved of the pool holds.  *)
(***************************************************************************)
PoolP == INSTANCE ThreadPoolProof
           WITH InitWorkers <- Workers, Tasks <- PoolTasks, Priority <- TaskPriority,
                ADMIN <- 3, Sizes <- {}, MaxCalls <- 0

LEMMA PoolConstants == PoolP!PoolAssumption
<1>1. TaskPriority \in [PoolTasks -> Nat] /\ \A t \in PoolTasks : TaskPriority[t] < 3
  <2>1. ASSUME NEW t \in PoolTasks PROVE Create(Key(t)).priority \in {1, 2}
    <3> USE DEF Create, m_umap, ReadTask, WriteTask, FlushTask, DisconnectTask, StdinTask,
               HIGH, MEDIUM
    <3>1. Key(t) \in {"READ", "WRITE", "DISCONN", "FLUSH", "STDIN"}
      BY EngineAssumption DEF EngineAssumption, Key
    <3>2. CASE Key(t) = "READ"     BY <3>2
    <3>3. CASE Key(t) = "WRITE"    BY <3>3
    <3>4. CASE Key(t) = "DISCONN"  BY <3>4
    <3>5. CASE Key(t) = "FLUSH"    BY <3>5
    <3>6. CASE Key(t) = "STDIN"    BY <3>6
    <3>. QED  BY <3>1, <3>2, <3>3, <3>4, <3>5, <3>6
  <2>. QED  BY <2>1 DEF TaskPriority
<1>2. PoolP!IsFiniteSet(Workers)
  BY EngineAssumption DEF EngineAssumption, PoolP!IsFiniteSet, IsFiniteSet
<1>3. TPTASK # STOPTASK /\ NoTask \notin PoolP!AllTasks
  BY EngineAssumption DEF EngineAssumption, PoolP!AllTasks
<1>. QED  BY <1>1, <1>2, <1>3, EngineAssumption DEF EngineAssumption

LEMMA PoolSame ==
  /\ Pool!TypeOK <=> PoolP!TypeOK
  /\ Pool!Init => PoolP!EnoughStopTasks /\ PoolP!StopInv
<1>1. Pool!TypeOK <=> PoolP!TypeOK
  BY DEF Pool!TypeOK, PoolP!TypeOK, Pool!AllTasks, PoolP!AllTasks, Pool!Blocking, PoolP!Blocking
<1>2. Pool!Init => PoolP!EnoughStopTasks /\ PoolP!StopInv
  BY DEF Pool!Init, PoolP!EnoughStopTasks, PoolP!StopInv
<1>. QED  BY <1>1, <1>2

LEMMA PoolStep ==
  ASSUME [Next]_vars
  PROVE  [PoolP!Next]_(PoolP!vars)
<1> USE DEF Pool!flags, PoolP!flags, Pool!workerVars, PoolP!workerVars,
            Pool!ownerVars, PoolP!ownerVars
<1>1. ASSUME NEW t \in PoolTasks, Pool!AddTask(t) PROVE PoolP!Next
  <2>1. PoolP!AddTask(t)
    BY <1>1 DEF Pool!AddTask, PoolP!AddTask, Pool!Push, PoolP!Push
  <2>. QED  BY <2>1 DEF PoolP!Next, PoolP!OwnerCall
<1>2. ASSUME NEW w \in Workers, Pool!TestStop(w) \/ Pool!PopTask(w) \/ Pool!RunTask(w)
      PROVE  PoolP!Next
  <2>1. Pool!Top = PoolP!Top
    BY DEF Pool!Top, PoolP!Top, Pool!Queued, PoolP!Queued, Pool!AllTasks, PoolP!AllTasks,
           Pool!Prio, PoolP!Prio
  <2>2. PoolP!TestStop(w) \/ PoolP!PopTask(w) \/ PoolP!RunTask(w)
    BY <1>2, <2>1 DEF Pool!TestStop, PoolP!TestStop, Pool!PopTask, PoolP!PopTask,
                      Pool!RunTask, PoolP!RunTask
  <2>. QED  BY <2>2 DEF PoolP!Next, PoolP!WorkerStep
<1>3. CASE Pool!Destroy
  <2>1. Pool!Cardinality(m_threads) = PoolP!Cardinality(m_threads)
    BY DEF Pool!Cardinality, PoolP!Cardinality, Pool!IsFiniteSet, PoolP!IsFiniteSet
  <2>2. PoolP!Destroy
    BY <1>3, <2>1 DEF Pool!Destroy, PoolP!Destroy
  <2>. QED  BY <2>2 DEF PoolP!Next, PoolP!OwnerCall
<1>4. CASE Pool!PushStopTask \/ Pool!Return \/ Pool!Join
  <2>1. PoolP!PushStopTask \/ PoolP!Return \/ PoolP!Join
    BY <1>4 DEF Pool!PushStopTask, PoolP!PushStopTask, Pool!Push, PoolP!Push,
                Pool!Return, PoolP!Return, Pool!Join, PoolP!Join
  <2>. QED  BY <2>1 DEF PoolP!Next, PoolP!OwnerStep
<1>5. CASE UNCHANGED poolVars
  BY <1>5 DEF poolVars, PoolP!vars
<1>. QED  BY <1>1, <1>2, <1>3, <1>4, <1>5, PoolUse

(***************************************************************************)
(* No deadlock.  The inductive invariant: the workers are in their loop as *)
(* long as the pool is not stopped, only ~ThreadPool stops it, the reply   *)
(* mutex is with a worker that writes or returns, a submitted request is   *)
(* in the socket or has become a task, and the pool's own invariants.      *)
(***************************************************************************)
LoopInv ==
  /\ m_threads = Workers
  /\ \A w \in Workers : pc[w] \in {"loop", "pop", "run", "exited"}
  /\ \A w \in Workers : pc[w] = "exited" => m_is_stop
  /\ main # "dtor" => op = "idle" /\ ~m_is_stop

HoldInv == m_reply_mutex # NoThread => stage[m_reply_mutex] \in {"header", "data", "end"}

ArriveInv == \A r \in submitted : r \in added \/ \E k \in 1 .. Len(inbox) : inbox[k] = r

StuckInv == LoopInv /\ HoldInv /\ ArriveInv /\ PoolP!EnoughStopTasks /\ PoolP!StopInv

LEMMA StuckInit == Init => StuckInv
<1> SUFFICES ASSUME Init PROVE StuckInv
  OBVIOUS
<1>1. LoopInv /\ HoldInv /\ ArriveInv
  BY DEF Init, Pool!Init, LoopInv, HoldInv, ArriveInv
<1>. QED  BY <1>1, PoolSame DEF Init, StuckInv

LEMMA LoopStep ==
  ASSUME TaskSafe, LoopInv, [Next]_vars
  PROVE  LoopInv'
<1>0. pc \in [Workers -> {"none", "loop", "pop", "run", "exited"} \cup Pool!Blocking]
  BY DEF TaskSafe, TypeOK, Pool!TypeOK
<1>1. /\ m_threads' = Workers
      /\ \A w \in Workers : pc'[w] \in {"loop", "pop", "run", "exited"}
      /\ \A w \in Workers : pc'[w] = "exited" => m_is_stop'
  <2>1. ASSUME NEW t \in PoolTasks, Pool!AddTask(t)
        PROVE  UNCHANGED <<m_threads, pc, m_is_stop>>
    BY <2>1 DEF Pool!AddTask, Pool!flags, Pool!workerVars
  <2>2. ASSUME NEW w \in Workers, Pool!TestStop(w) \/ Pool!PopTask(w) \/ Pool!RunTask(w)
        PROVE  /\ UNCHANGED <<m_threads, m_is_stop>>
               /\ \/ pc' = [pc EXCEPT ![w] = IF m_is_stop THEN "exited" ELSE "pop"]
                  \/ pc' = [pc EXCEPT ![w] = "run"]
                  \/ pc' = [pc EXCEPT ![w] = "loop"]
    <3>1. CASE Pool!TestStop(w)
      BY <3>1 DEF Pool!TestStop, Pool!flags
    <3>2. CASE Pool!PopTask(w)
      BY <3>2, PopEffect DEF Pool!PopTask, Pool!flags, TaskSafe, TypeOK
    <3>3. CASE Pool!RunTask(w)
      BY <3>3 DEF Pool!RunTask, Pool!flags
    <3>. QED  BY <2>2, <3>1, <3>2, <3>3
  <2>3. CASE Pool!Destroy
    BY <2>3 DEF Pool!Destroy, Pool!workerVars, LoopInv
  <2>4. CASE Pool!PushStopTask \/ Pool!Return \/ Pool!Join \/ UNCHANGED poolVars
    BY <2>4 DEF Pool!PushStopTask, Pool!Return, Pool!Join, Pool!workerVars, Pool!flags,
                poolVars, LoopInv
  <2>5. ASSUME NEW w \in Workers, Pool!TestStop(w) \/ Pool!PopTask(w) \/ Pool!RunTask(w)
        PROVE  /\ m_threads' = Workers
               /\ \A v \in Workers : pc'[v] \in {"loop", "pop", "run", "exited"}
               /\ \A v \in Workers : pc'[v] = "exited" => m_is_stop'
    BY <1>0, <2>2, <2>5 DEF LoopInv
  <2>. QED  BY <2>1, <2>3, <2>4, <2>5, PoolUse DEF LoopInv
<1>2. main' # "dtor" => op' = "idle" /\ ~m_is_stop'
  <2>1. CASE DestroyPool
    BY <2>1 DEF DestroyPool, mainVars
  <2>2. CASE DispatchRequest \/ DispatchStdin \/ RunReturns
    BY <2>2 DEF DispatchRequest, DispatchStdin, RunReturns, Pool!AddTask, Pool!flags, LoopInv
  <2>3. CASE PoolDtorStep \/ JoinPool
    BY <2>3 DEF PoolDtorStep, JoinPool, Pool!PushStopTask, Pool!Return, Pool!Join, mainVars,
                LoopInv
  <2>4. CASE RunTest \/ EpollReturns \/ BatchEnd \/ DestroyPlugins \/ Signal
    BY <2>4 DEF RunTest, EpollReturns, BatchEnd, DestroyPlugins, Signal, poolVars, LoopInv
  <2>5. CASE ReceiveFails \/ MainReturns \/ Environment
    BY <2>4, <2>5 DEF ReceiveFails, MainReturns, Environment, Submit, Shutdown,
                      DriverThreadExits, PluginFails, Type, poolVars, mainVars, LoopInv
  <2>6. ASSUME NEW w \in Workers, WorkerStep(w) PROVE UNCHANGED <<main, op, m_is_stop>>
    <3>1. CASE TestStop(w) \/ PopTask(w) \/ EndTask(w)
      BY <3>1 DEF TestStop, PopTask, EndTask, Pool!TestStop, Pool!PopTask, Pool!RunTask,
                  Pool!flags, Pool!ownerVars, mainVars
    <3>. QED  BY <2>6, <3>1 DEF WorkerStep, CopyCell, LockReply, SendHeader, SendData,
                               WriteFails, ReadLine, poolVars, mainVars
  <2>7. CASE UNCHANGED vars
    BY <2>7 DEF vars, poolVars, mainVars, LoopInv
  <2>. QED  BY <2>1, <2>2, <2>3, <2>4, <2>5, <2>6, <2>7 DEF Next, MainStep, LoopInv
<1>. QED  BY <1>1, <1>2 DEF LoopInv

LEMMA HoldStep ==
  ASSUME TaskSafe, HoldInv, [Next]_vars
  PROVE  HoldInv'
<1>0. stage \in [Workers -> Stages] /\ m_reply_mutex \in Workers \cup {NoThread}
  BY DEF TaskSafe, TypeOK
<1>1. ASSUME UNCHANGED <<stage, m_reply_mutex>> PROVE HoldInv'
  BY <1>1 DEF HoldInv
<1>2. ASSUME NEW w \in Workers, PopTask(w) PROVE HoldInv'
  <2>1. stage[w] = "none" /\ \A v \in Workers \ {w} : stage'[v] = stage[v]
    BY <1>0, <1>2 DEF PopTask, Pool!PopTask, TaskSafe, TypeOK
  <2>. QED  BY <1>0, <1>2, <2>1 DEF PopTask, HoldInv
<1>3. ASSUME NEW w \in Workers, LockReply(w) \/ SendHeader(w) \/ SendData(w) \/ ReadLine(w)
      PROVE  HoldInv'
  <2>1. stage' = stage \/ stage'[w] \in {"header", "data", "end"}
    BY <1>0, <1>3 DEF LockReply, SendHeader, SendData, ReadLine
  <2>2. \A v \in Workers \ {w} : stage'[v] = stage[v]
    BY <1>0, <1>3 DEF LockReply, SendHeader, SendData, ReadLine
  <2>3. \/ m_reply_mutex' = m_reply_mutex
        \/ m_reply_mutex' = w /\ stage'[w] = "header"
    <3>1. CASE LockReply(w)
      BY <1>0, <3>1 DEF LockReply
    <3>2. CASE SendHeader(w) \/ SendData(w) \/ ReadLine(w)
      BY <3>2 DEF SendHeader, SendData, ReadLine
    <3>. QED  BY <1>3, <3>1, <3>2
  <2>. QED  BY <1>0, <2>1, <2>2, <2>3 DEF HoldInv
<1>4. ASSUME NEW w \in Workers, EndTask(w) PROVE HoldInv'
  <2>1. /\ \A v \in Workers \ {w} : stage'[v] = stage[v]
        /\ m_reply_mutex' = IF m_reply_mutex = w THEN NoThread ELSE m_reply_mutex
    BY <1>0, <1>4 DEF EndTask
  <2>. QED  BY <1>0, <2>1 DEF HoldInv
<1>5. ASSUME NEW w \in Workers, TestStop(w) \/ CopyCell(w) \/ WriteFails(w) PROVE HoldInv'
  BY <1>1, <1>5 DEF TestStop, CopyCell, WriteFails
<1>6. CASE MainStep
  BY <1>1, <1>6 DEF MainStep, RunTest, EpollReturns, DispatchRequest, ReceiveFails,
                    DispatchStdin, BatchEnd, RunReturns, DestroyPlugins, DestroyPool, PoolDtorStep, JoinPool,
                    MainReturns
<1>7. CASE Environment
  BY <1>1, <1>7 DEF Environment, Submit, Shutdown, DriverThreadExits, PluginFails, Type, Signal
<1>8. CASE UNCHANGED vars
  BY <1>1, <1>8 DEF vars
<1>. QED  BY <1>2, <1>3, <1>4, <1>5, <1>6, <1>7, <1>8 DEF Next, WorkerStep

LEMMA ArriveStep ==
  ASSUME TaskSafe, ArriveInv, [Next]_vars
  PROVE  ArriveInv'
<1>0. inbox \in Seq(Requests) /\ submitted \subseteq Requests
  BY DEF TaskSafe, TypeOK
<1>1. ASSUME UNCHANGED <<inbox, submitted>>, added \subseteq added' PROVE ArriveInv'
  BY <1>1 DEF ArriveInv
<1>2. CASE Quiet
  <2>1. \A r \in submitted' : r \in added' <=> r \in added
    BY <1>0, <1>2 DEF Quiet
  <2>. QED  BY <1>2, <2>1 DEF Quiet, ArriveInv
<1>3. CASE DispatchRequest
  <2>1. PICK r \in Requests :
          inbox # <<>> /\ r = Head(inbox) /\ inbox' = Tail(inbox) /\ added' = added \cup {r}
    BY <1>3 DEF DispatchRequest, ReadRequest, Pool!AddTask
  <2>2. submitted' = submitted
    BY <1>3 DEF DispatchRequest
  <2>3. ASSUME NEW k \in 1 .. Len(inbox), inbox[k] # r
        PROVE  \E j \in 1 .. Len(inbox') : inbox'[j] = inbox[k]
    <3>1. k # 1
      BY <1>0, <2>1, <2>3
    <3>2. Len(inbox) \in Nat /\ Len(inbox') = Len(inbox) - 1
      BY <1>0, <2>1
    <3>3. \A j \in 1 .. Len(inbox') : inbox'[j] = inbox[j + 1]
      BY <1>0, <2>1
    <3>4. k - 1 \in 1 .. Len(inbox') /\ (k - 1) + 1 = k
      BY <3>1, <3>2
    <3>. QED  BY <3>3, <3>4
  <2>4. ASSUME NEW x \in submitted', x \notin added'
        PROVE  \E j \in 1 .. Len(inbox') : inbox'[j] = x
    <3>1. PICK k \in 1 .. Len(inbox) : inbox[k] = x
      BY <2>1, <2>2, <2>4 DEF ArriveInv
    <3>2. inbox[k] # r
      BY <2>1, <2>4, <3>1
    <3>. QED  BY <2>3, <3>1, <3>2
  <2>. QED  BY <2>4 DEF ArriveInv
<1>4. ASSUME NEW r \in Requests, Submit(r) PROVE ArriveInv'
  <2>1. inbox' = Append(inbox, r) /\ submitted' = submitted \cup {r} /\ added' = added
    BY <1>4 DEF Submit, poolVars
  <2>2. Len(inbox) + 1 \in 1 .. Len(inbox') /\ inbox'[Len(inbox) + 1] = r
        /\ \A k \in 1 .. Len(inbox) : k \in 1 .. Len(inbox') /\ inbox'[k] = inbox[k]
    BY <1>0, <2>1
  <2>. QED  BY <2>1, <2>2 DEF ArriveInv
<1>5. ASSUME NEW w \in Workers,
             \/ PopTask(w) \/ CopyCell(w) \/ LockReply(w) \/ SendHeader(w)
             \/ SendData(w) \/ ReadLine(w) \/ EndTask(w)
      PROVE  ArriveInv'
  BY <1>1, <1>5 DEF PopTask, CopyCell, LockReply, SendHeader, SendData, ReadLine, EndTask,
                    Pool!PopTask, Pool!RunTask, Pool!ownerVars, poolVars, socketVars
<1>. QED  BY <1>2, <1>3, <1>4, <1>5, QuietSteps DEF TaskSafe

LEMMA StuckStep ==
  ASSUME TaskSafe, StuckInv, [Next]_vars
  PROVE  StuckInv'
<1>1. PoolP!TypeOK
  BY PoolSame DEF TaskSafe, TypeOK
<1>2. (PoolP!EnoughStopTasks /\ PoolP!StopInv)'
  BY <1>1, PoolStep, PoolConstants, PoolP!StopStep, PoolP!StopInvStep DEF StuckInv
<1>3. LoopInv' /\ HoldInv' /\ ArriveInv'
  BY LoopStep, HoldStep, ArriveStep DEF StuckInv
<1>. QED  BY <1>2, <1>3 DEF StuckInv

\* A worker in Execute can go on, or another holds the reply mutex and can, or
\* it waits for the keyboard.
LEMMA ExecuteCanStep ==
  ASSUME TaskSafe, HoldInv, NEW w \in Workers, pc[w] = "run"
  PROVE  w \in InStdin \/ \E v \in Workers : WorkerCanStep(v)
<1>1. stage[w] \in {"copy", "header", "data", "stdin", "end"}
      /\ m_reply_mutex \in Workers \cup {NoThread}
  BY DEF TaskSafe, TypeOK, Stages
<1>2. CASE m_reply_mutex # NoThread
  BY <1>1, <1>2 DEF HoldInv, WorkerCanStep
<1>3. CASE m_reply_mutex = NoThread
  BY <1>1, <1>3 DEF WorkerCanStep, InStdin
<1>. QED  BY <1>2, <1>3

LEMMA EngineNotStuck == TaskSafe /\ ServiceInv /\ StuckInv => NeverStuck
<1> SUFFICES ASSUME TaskSafe, ServiceInv, StuckInv, ~MainCanStep,
                    \A w \in Workers : ~WorkerCanStep(w)
             PROVE  \/ main = "dtor" /\ InStdin # {}
                    \/ main # "dtor" /\ (InStdin = Workers \/ Owed = {})
  BY DEF NeverStuck
<1>1. \A w \in Workers : pc[w] \in {"pop", "exited"} \/ w \in InStdin
  BY ExecuteCanStep DEF StuckInv, LoopInv, WorkerCanStep
<1>2. ASSUME NEW w \in Workers, pc[w] = "pop" PROVE \A t \in PoolP!AllTasks : m_wpq[t] = 0
  <2>1. Pool!Top = PoolP!Top
    BY DEF Pool!Top, PoolP!Top, Pool!Queued, PoolP!Queued, Pool!AllTasks, PoolP!AllTasks,
           Pool!Prio, PoolP!Prio
  <2>2. PoolP!Top = {}
    BY <1>2, <2>1 DEF WorkerCanStep
  <2>3. PoolP!Queued = {}
    BY <2>2, PoolConstants, PoolP!TopExists
  <2>4. m_wpq \in [PoolP!AllTasks -> Nat]
    BY PoolSame DEF TaskSafe, TypeOK, PoolP!TypeOK
  <2>. QED  BY <2>3, <2>4 DEF PoolP!Queued
<1>3. CASE main = "dtor"
  <2>1. op = "join" /\ \E w \in Workers : pc[w] # "exited"
    BY <1>3 DEF MainCanStep, StuckInv, LoopInv
  <2>2. PICK w \in Workers : pc[w] = "pop" \/ w \in InStdin
    BY <1>1, <2>1
  <2>3. pc[w] # "pop"
    <3> SUFFICES ASSUME pc[w] = "pop" PROVE FALSE
      OBVIOUS
    <3> DEFINE P == {v \in Workers : pc[v] = "pop"}
    <3>1. m_wpq[STOPTASK] = 0
      BY <1>2 DEF PoolP!AllTasks
    <3>2. 0 >= PoolP!Cardinality(P)
      BY <2>1, <3>1 DEF StuckInv, PoolP!StopInv, PoolP!EnoughStopTasks
    <3>3. IsFiniteSet(P) /\ PoolP!Cardinality(P) = Cardinality(P) /\ Cardinality(P) \in Nat
      <4>1. IsFiniteSet(P)
        BY EngineAssumption, FS_Subset DEF EngineAssumption
      <4>2. PoolP!Cardinality(P) = Cardinality(P)
        BY DEF PoolP!Cardinality, Cardinality, PoolP!IsFiniteSet, IsFiniteSet
      <4>. QED  BY <4>1, <4>2, FS_CardinalityType
    <3>4. P # {}
      OBVIOUS
    <3>. QED  BY <3>2, <3>3, <3>4, FS_EmptySet
  <2>. QED  BY <1>3, <2>2, <2>3
<1>4. CASE main # "dtor"
  <2> SUFFICES ASSUME NEW r \in Owed PROVE InStdin = Workers
    BY <1>4
  <2>1. op = "idle" /\ ~m_is_stop
    BY <1>4 DEF StuckInv, LoopInv
  <2>2. main # "plugins" => inbox = <<>>
    BY <2>1 DEF MainCanStep, Readable
  <2>3. r \in Requests /\ r \in added /\ r \notin Replied /\ Kind[r] # "DISCONN"
    <3>1. CASE main = "plugins"
      BY <3>1 DEF Owed
    <3>2. CASE main # "plugins"
      BY <2>2, <3>2 DEF Owed, StuckInv, ArriveInv, TaskSafe, TypeOK
    <3>. QED  BY <3>1, <3>2
  <2>4. \A w \in Workers : stage[w] \notin {"copy", "header", "data"}
    BY <1>1 DEF TaskSafe, TypeOK, InStdin
  <2>5. m_wpq[r] # 0
    BY <2>3, <2>4 DEF ServiceInv, FinishInv
  <2>6. \A w \in Workers : pc[w] # "pop" /\ pc[w] # "exited"
    BY <1>2, <2>1, <2>3, <2>5, TaskSets DEF StuckInv, LoopInv, PoolP!AllTasks
  <2>. QED  BY <1>1, <2>6 DEF InStdin
<1>. QED  BY <1>3, <1>4

\* Threads, queue, reply mutex and joins cannot wait for one another for ever,
\* for any number of workers and requests: what stops the service is only the
\* keyboard, and for the process that has served it, the plug-ins' missing directory.
THEOREM EngineNeverStuck == Spec => []NeverStuck
<1>1. TaskSafe /\ ServiceInv /\ StuckInv /\ [Next]_vars
        => TaskSafe' /\ ServiceInv' /\ StuckInv'
  BY TaskSafeStep, ServiceStep, StuckStep
<1>. QED
  BY <1>1, EngineNotStuck, TaskSafeInit, ServiceInit, StuckInit, PTL DEF Spec

(***************************************************************************)
(* The service implements the channel.                                     *)
(***************************************************************************)
LEMMA ChannelStep ==
  ASSUME TaskSafe, ServiceInv, [Next]_vars
  PROVE  [Channel!Next]_(Channel!vars)
<1>0. inbox \in Seq(Requests)
  BY DEF TaskSafe, TypeOK
<1>1. ASSUME UNCHANGED <<inbox, stream>>, added' \cap Requests = added \cap Requests
      PROVE  UNCHANGED Channel!vars
  BY <1>1 DEF Channel!vars, Replied, Sent
<1>2. CASE Quiet
  <2>1. added' \cap Requests = added \cap Requests
    BY <1>2 DEF Quiet
  <2>. QED  BY <1>1, <1>2, <2>1 DEF Quiet
<1>3. ASSUME NEW r \in Requests, Submit(r) PROVE Channel!Next
  <2>1. /\ r \notin submitted /\ ~Disconnecting
        /\ inbox' = Append(inbox, r) /\ UNCHANGED <<added, stream>>
    BY <1>3 DEF Submit, poolVars
  <2>2. (added \cap Requests) \cup Channel!InFlight \subseteq submitted
    BY DEF Channel!InFlight, ServiceInv, SocketInv
  <2>3. Replied' = Replied
    BY <2>1 DEF Replied, Sent
  <2>4. Channel!Submit(r)
    BY <2>1, <2>2, <2>3 DEF Channel!Submit, Disconnecting
  <2>. QED  BY <2>4 DEF Channel!Next
<1>4. CASE DispatchRequest
  <2>1. PICK r \in Requests :
          inbox # <<>> /\ r = Head(inbox) /\ inbox' = Tail(inbox) /\ added' = added \cup {r}
    BY <1>4 DEF DispatchRequest, ReadRequest, Pool!AddTask
  <2>2. stream' = stream
    BY <1>4 DEF DispatchRequest
  <2>3. Replied' = Replied /\ added' \cap Requests = (added \cap Requests) \cup {Head(inbox)}
    BY <2>1, <2>2 DEF Replied, Sent
  <2>4. Channel!Receive
    BY <2>1, <2>3 DEF Channel!Receive
  <2>. QED  BY <2>4 DEF Channel!Next
<1>5. ASSUME NEW w \in Workers, SendHeader(w) \/ SendData(w)
      PROVE  Channel!Next \/ UNCHANGED Channel!vars
  <2> DEFINE r == task[w]
  <2>1. /\ r \in Requests /\ Kind[r] # "DISCONN" /\ r \in added \ Replied
        /\ Replied' = Replied \/ Replied' = Replied \cup {r}
        /\ UNCHANGED <<inbox, added>>
    BY <1>5, ReplyEffect
  <2> HIDE DEF r
  <2>2. CASE Replied' = Replied
    BY <2>1, <2>2 DEF Channel!vars
  <2>3. CASE Replied' = Replied \cup {r}
    <3>1. Channel!Answer(r)
      BY <2>1, <2>3 DEF Channel!Answer
    <3>. QED  BY <2>1, <3>1 DEF Channel!Next
  <2>. QED  BY <2>1, <2>2, <2>3
<1>6. ASSUME NEW w \in Workers,
             PopTask(w) \/ CopyCell(w) \/ LockReply(w) \/ ReadLine(w) \/ EndTask(w)
      PROVE  UNCHANGED Channel!vars
  <2>1. UNCHANGED <<inbox, stream, added>>
    BY <1>6 DEF PopTask, CopyCell, LockReply, ReadLine, EndTask, Pool!PopTask, Pool!RunTask,
                Pool!ownerVars, poolVars, socketVars
  <2>. QED  BY <1>1, <2>1
<1>. QED  BY <1>2, <1>3, <1>4, <1>5, <1>6, QuietSteps DEF TaskSafe

\* For any number of workers and requests, the main loop takes each request once
\* and in order, and the threads answer each at most once, after it was taken,
\* and never a disconnect.
THEOREM EngineImplementsChannel == Spec => ImplementsChannel
<1>1. Init => Channel!Init
  <2> SUFFICES ASSUME Init PROVE Channel!Init
    OBVIOUS
  <2>1. inbox = <<>> /\ added = {} /\ Replied = {}
    BY DEF Init, Pool!Init, Replied, Sent
  <2>. QED  BY <2>1 DEF Channel!Init
<1>2. TaskSafe /\ ServiceInv /\ [Next]_vars
        => TaskSafe' /\ ServiceInv' /\ [Channel!Next]_(Channel!vars)
  BY TaskSafeStep, ServiceStep, ChannelStep
<1>. QED
  BY <1>1, <1>2, TaskSafeInit, ServiceInit, PTL DEF Spec, ImplementsChannel, Channel!Spec
===============================================================================
