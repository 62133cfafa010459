---------------------------- MODULE RequestEngine ----------------------------
(***************************************************************************)
(* The storage service: RequestEngineFW::Run (include/refw.hpp) waits for  *)
(* the NBD socket and for stdin, turns what it reads into tasks of the     *)
(* thread pool (include/RequestSource.hpp, include/factory.hpp), and the   *)
(* workers execute them (include/RETask.hpp) against the RAM disk          *)
(* (src/storage.cpp) and reply on the socket (src/drive_communicator.cpp). *)
(* The pool is the one of ThreadPool; the main thread is its owner.        *)
(*                                                                         *)
(* A request copies its span of the disk cell by cell without a lock; a    *)
(* reply is written to the socket in one part, or two for a READ.  The     *)
(* process ends when a thread calls exit, or when Run and the destructors  *)
(* after it have returned: that of the plug-in facility (PlugAndPlay) runs *)
(* before that of the pool, on the same thread.                            *)
(***************************************************************************)
EXTENDS Integers, Sequences, FiniteSets

CONSTANTS Workers,
          Requests, Kind,   \* Kind: Requests -> READ, WRITE, DISCONN or FLUSH
          Cells, Span,      \* the disk, and the cells each request covers
          Zero,             \* the content of a cell never written
          StdinTasks,       \* bound on the StdinTasks the main loop may create
          Workloads,        \* what the driver may submit and the user type, and
                            \* whether the directory of the plug-ins exists
          Bye,              \* the DisconnectTask that Run adds at its end
          TPTASK, STOPTASK, NoTask, NoThread

PoolTasks == Requests \cup StdinTasks \cup {Bye}

ASSUME EngineAssumption ==
  /\ IsFiniteSet(Workers) /\ NoThread \notin Workers
  /\ Kind \in [Requests -> {"READ", "WRITE", "DISCONN", "FLUSH"}]
  /\ Span \in [Requests -> SUBSET Cells]
  /\ \A r \in Requests : Kind[r] \in {"DISCONN", "FLUSH"} => Span[r] = {}
  /\ Zero \notin Requests
  /\ Workloads \subseteq [requests : SUBSET Requests, lines : Nat, directory : BOOLEAN]
  /\ Requests \cap StdinTasks = {} /\ Bye \notin Requests \cup StdinTasks
  /\ TPTASK \notin PoolTasks /\ STOPTASK \notin PoolTasks \cup {TPTASK}
  /\ NoTask \notin PoolTasks \cup {TPTASK, STOPTASK}

MEDIUM == 1
HIGH   == 2

\* What the classes of tasks fix: the priority that the constructor passes on,
\* and where Execute begins.
ReadTask       == [priority |-> MEDIUM, execute |-> "copy"]
WriteTask      == [priority |-> MEDIUM, execute |-> "copy"]
DisconnectTask == [priority |-> HIGH,   execute |-> "end"]
FlushTask      == [priority |-> MEDIUM, execute |-> "copy"]   \* of no cell
StdinTask      == [priority |-> HIGH,   execute |-> "stdin"]

\* The factory, as main fills it with ConfigTask.
m_umap == [READ |-> ReadTask, WRITE |-> WriteTask, DISCONN |-> DisconnectTask,
           FLUSH |-> FlushTask, STDIN |-> StdinTask]

Create(key) == m_umap[key]

\* The key a task was created with; Run creates the last one by itself.
Key(t) == IF t \in Requests THEN Kind[t] ELSE IF t \in StdinTasks THEN "STDIN" ELSE "DISCONN"

TaskPriority == [t \in PoolTasks |-> Create(Key(t)).priority]

Writes == {r \in Requests : Kind[r] = "WRITE"}

VARIABLES \* the pool (see ThreadPool)
          m_threads, m_wpq, m_is_stop, m_is_suspend, m_active_threads, m_mutex,
          pc, task, op, left, target, added, calls,
          \* the main thread and the signal handler
          main, ready, disc_flag,
          \* the tasks being executed
          stage,          \* how far each worker is in Execute
          m_disk, todo, buf, m_reply_mutex,
          \* the environment: the socket in both directions, and stdin
          inbox, closed, stream, submitted, before, typed, lines, workload,
          status          \* whether the process runs, or how it ended

poolVars   == <<m_threads, m_wpq, m_is_stop, m_is_suspend, m_active_threads,
                m_mutex, pc, task, op, left, target, added, calls>>
mainVars   == <<main, ready, disc_flag>>
diskVars   == <<m_disk, todo, buf>>
socketVars == <<inbox, closed, stream, submitted, before>>
stdinVars  == <<typed, lines, workload>>
vars       == <<poolVars, mainVars, stage, diskVars, m_reply_mutex, socketVars,
                stdinVars, status>>

Pool == INSTANCE ThreadPool
          WITH InitWorkers <- Workers, Tasks <- PoolTasks, Priority <- TaskPriority,
               ADMIN <- 3, Sizes <- {}, MaxCalls <- 0

Header(r) == <<"header", r>>
Data(r)   == <<"data", r>>

\* The last part of a request's reply.
LastPart(r) == IF Kind[r] = "READ" THEN Data(r) ELSE Header(r)

Sent    == {stream[k] : k \in 1 .. Len(stream)}
Replied == {r \in Requests : LastPart(r) \in Sent}

-----------------------------------------------------------------------------
Init == /\ Pool!Init
        /\ main = "test" /\ ready = {} /\ disc_flag = FALSE
        /\ stage = [w \in Workers |-> "none"]
        /\ m_disk = [c \in Cells |-> Zero]
        /\ todo = Span
        /\ buf = [r \in Requests |-> [c \in Cells |-> Zero]]
        /\ m_reply_mutex = NoThread
        /\ inbox = <<>> /\ closed = FALSE /\ stream = <<>>
        /\ submitted = {} /\ before = [r \in Requests |-> {}]
        /\ typed = <<>> /\ lines = 0 /\ workload \in Workloads
        /\ status = "running"

-----------------------------------------------------------------------------
(* The main thread. *)

\* No thread has ended the process.
Alive == status = "running"

\* A Run that does not test the flag again.
MutRunTest == /\ Alive
              /\ main = "test"
              /\ main' = "wait"
              /\ UNCHANGED <<poolVars, ready, disc_flag, stage, diskVars, m_reply_mutex,
                             socketVars, stdinVars, status>>

\* while (false == disc_flag)
RunTest == /\ Alive
           /\ main = "test"
           /\ main' = IF disc_flag THEN "closing" ELSE "wait"
           /\ UNCHANGED <<poolVars, ready, disc_flag, stage, diskVars, m_reply_mutex,
                          socketVars, stdinVars, status>>

\* The request sources main configures, by the descriptor they read.
Sources == {"nbd", "stdin"}

\* The descriptors epoll finds readable: level-triggered, so stdin stays in it
\* until a worker has read the line.
Readable == (IF inbox # <<>> \/ closed THEN {"nbd"} ELSE {})
              \cup (IF typed # <<>> /\ StdinTasks \ added # {} THEN {"stdin"} ELSE {})

EpollReturns == /\ Alive
                /\ main = "wait"
                /\ Readable # {}
                /\ main' = "dispatch"
                /\ ready' = Readable
                /\ UNCHANGED <<poolVars, disc_flag, stage, diskVars, m_reply_mutex,
                               socketVars, stdinVars, status>>

\* A Read that leaves nothing in the socket.
MutReadRequest(r) == /\ inbox # <<>>
                     /\ r = Head(inbox)
                     /\ inbox' = <<>>

\* NBDRequest::Read: one whole request.
ReadRequest(r) == /\ inbox # <<>>
                  /\ r = Head(inbox)
                  /\ inbox' = Tail(inbox)

\* What the source reads becomes a task of the pool.
DispatchRequest == /\ Alive
                   /\ main = "dispatch"
                   /\ "nbd" \in ready
                   /\ \E r \in Requests : ReadRequest(r) /\ Pool!AddTask(r)
                   /\ ready' = ready \ {"nbd"}
                   /\ UNCHANGED <<main, disc_flag, stage, diskVars, m_reply_mutex,
                                  closed, stream, submitted, before, stdinVars, status>>

\* End of file: ReceiveRequest throws, and the main thread calls exit.
ReceiveFails == /\ Alive
                /\ main = "dispatch"
                /\ "nbd" \in ready
                /\ inbox = <<>>
                /\ status' = "failed"
                /\ UNCHANGED <<poolVars, mainVars, stage, diskVars, m_reply_mutex,
                               socketVars, stdinVars>>

\* RequesKeyborad::Read reads nothing: the StdinTask will.
DispatchStdin == /\ Alive
                 /\ main = "dispatch"
                 /\ "stdin" \in ready
                 /\ StdinTasks \ added # {}
                 /\ Pool!AddTask(CHOOSE t \in StdinTasks : t \notin added)
                 /\ ready' = ready \ {"stdin"}
                 /\ UNCHANGED <<main, disc_flag, stage, diskVars, m_reply_mutex,
                                socketVars, stdinVars, status>>

BatchEnd == /\ Alive
            /\ main = "dispatch"
            /\ ready = {}
            /\ main' = "test"
            /\ UNCHANGED <<poolVars, ready, disc_flag, stage, diskVars, m_reply_mutex,
                           socketVars, stdinVars, status>>

\* After the loop: a last DisconnectTask; the epoll descriptor is closed.
RunReturns == /\ Alive
              /\ main = "closing"
              /\ Pool!AddTask(Bye)
              /\ main' = "plugins"
              /\ UNCHANGED <<ready, disc_flag, stage, diskVars, m_reply_mutex,
                             socketVars, stdinVars, status>>

\* main returns from the block of the engine, whose members are destroyed in
\* reverse: ~DllLoader, and ~DirMonitor, which joins a thread that nothing wakes
\* if there is no directory (PlugAndPlay: MonitorEnds, UnwatchedNeverEnds).
DestroyPlugins == /\ Alive
                  /\ main = "plugins"
                  /\ workload.directory
                  /\ main' = "dtor"
                  /\ UNCHANGED <<poolVars, ready, disc_flag, stage, diskVars,
                                 m_reply_mutex, socketVars, stdinVars, status>>

\* Then ~ThreadPool.
DestroyPool == /\ Alive
               /\ main = "dtor"
               /\ Pool!Destroy
               /\ UNCHANGED <<mainVars, stage, diskVars, m_reply_mutex, socketVars,
                              stdinVars, status>>

PoolDtorStep == /\ Alive
                /\ Pool!PushStopTask \/ Pool!Return
                /\ UNCHANGED <<mainVars, stage, diskVars, m_reply_mutex, socketVars,
                               stdinVars, status>>

\* A destructor that does not join.
MutJoinPool == /\ Alive
               /\ op = "join"
               /\ op' = "destroyed"
               /\ UNCHANGED <<m_threads, m_wpq, m_is_stop, m_is_suspend, m_active_threads,
                              m_mutex, pc, task, left, target, added, calls>>
               /\ UNCHANGED <<mainVars, stage, diskVars, m_reply_mutex, socketVars,
                              stdinVars, status>>

JoinPool == /\ Alive
            /\ Pool!Join
            /\ UNCHANGED <<mainVars, stage, diskVars, m_reply_mutex, socketVars,
                           stdinVars, status>>

\* The sockets are closed and main returns.
MainReturns == /\ Alive
               /\ op = "destroyed"
               /\ status' = "returned"
               /\ UNCHANGED <<poolVars, mainVars, stage, diskVars, m_reply_mutex,
                              socketVars, stdinVars>>

\* SIGINT or SIGTERM: the handler runs in the main thread, and interrupts its
\* epoll_wait, or in another thread, and does not.
Signal == /\ Alive
          /\ ~disc_flag
          /\ disc_flag' = TRUE
          /\ \/ main = "wait" /\ main' = "test"
             \/ UNCHANGED main
          /\ UNCHANGED <<poolVars, ready, stage, diskVars, m_reply_mutex,
                         socketVars, stdinVars, status>>

-----------------------------------------------------------------------------
(* The workers. *)

TestStop(w) == /\ Alive
               /\ Pool!TestStop(w)
               /\ UNCHANGED <<mainVars, stage, diskVars, m_reply_mutex, socketVars,
                              stdinVars, status>>

\* A worker that drops the task it popped.
MutPopTask(w) == /\ Alive
                 /\ Pool!PopTask(w)
                 /\ UNCHANGED <<mainVars, stage, diskVars, m_reply_mutex, socketVars,
                                stdinVars, status>>

PopTask(w) == /\ Alive
              /\ Pool!PopTask(w)
              /\ stage' = [stage EXCEPT ![w] = Create(Key(task'[w])).execute]
              /\ UNCHANGED <<mainVars, diskVars, m_reply_mutex, socketVars,
                             stdinVars, status>>

\* One cell of the memcpy of RAMStorage::Read or Write.
CopyCell(w) ==
  LET r == task[w] IN
  /\ Alive
  /\ stage[w] = "copy"
  /\ \E c \in todo[r] :
       /\ todo' = [todo EXCEPT ![r] = @ \ {c}]
       /\ IF Kind[r] = "WRITE"
            THEN m_disk' = [m_disk EXCEPT ![c] = r] /\ UNCHANGED buf
            ELSE buf' = [buf EXCEPT ![r][c] = m_disk[c]] /\ UNCHANGED m_disk
  /\ UNCHANGED <<poolVars, mainVars, stage, m_reply_mutex, socketVars, stdinVars, status>>

\* An Execute that replies before it has copied.
MutLockEarly(w) == /\ Alive
                   /\ stage[w] = "copy"
                   /\ m_reply_mutex = NoThread
                   /\ m_reply_mutex' = w
                   /\ stage' = [stage EXCEPT ![w] = "header"]
                   /\ UNCHANGED <<poolVars, mainVars, diskVars, socketVars, stdinVars, status>>

\* An Execute that does not take the reply mutex.
MutNoLock(w) == /\ Alive
                /\ stage[w] = "copy"
                /\ todo[task[w]] = {}
                /\ stage' = [stage EXCEPT ![w] = "header"]
                /\ UNCHANGED <<poolVars, mainVars, diskVars, m_reply_mutex, socketVars,
                               stdinVars, status>>

\* The copy is done (a FLUSH has none): take the reply mutex.
LockReply(w) == /\ Alive
                /\ stage[w] = "copy"
                /\ todo[task[w]] = {}
                /\ m_reply_mutex = NoThread
                /\ m_reply_mutex' = w
                /\ stage' = [stage EXCEPT ![w] = "header"]
                /\ UNCHANGED <<poolVars, mainVars, diskVars, socketVars, stdinVars, status>>

\* A SendReply that compares the action with WRITE to decide on the data.
MutSendHeader(w) ==
  /\ Alive
  /\ stage[w] = "header"
  /\ ~closed
  /\ stream' = Append(stream, Header(task[w]))
  /\ stage' = [stage EXCEPT ![w] = IF Kind[task[w]] = "WRITE" THEN "data" ELSE "end"]
  /\ UNCHANGED <<poolVars, mainVars, diskVars, m_reply_mutex, inbox,
                 closed, submitted, before, stdinVars, status>>

\* SendReply: the nbd_reply structure,
SendHeader(w) ==
  /\ Alive
  /\ stage[w] = "header"
  /\ ~closed
  /\ stream' = Append(stream, Header(task[w]))
  /\ stage' = [stage EXCEPT ![w] = IF Kind[task[w]] = "READ" THEN "data" ELSE "end"]
  /\ UNCHANGED <<poolVars, mainVars, diskVars, m_reply_mutex, inbox,
                 closed, submitted, before, stdinVars, status>>

\* then the buffer of a READ.
SendData(w) == /\ Alive
               /\ stage[w] = "data"
               /\ ~closed
               /\ stream' = Append(stream, Data(task[w]))
               /\ stage' = [stage EXCEPT ![w] = "end"]
               /\ UNCHANGED <<poolVars, mainVars, diskVars, m_reply_mutex, inbox,
                              closed, submitted, before, stdinVars, status>>

\* A write to a socket the driver has shut down: SIGPIPE.
WriteFails(w) == /\ Alive
                 /\ stage[w] \in {"header", "data"}
                 /\ closed
                 /\ status' = "killed"
                 /\ UNCHANGED <<poolVars, mainVars, stage, diskVars, m_reply_mutex,
                                socketVars, stdinVars>>

\* StdinTask: read blocks until there is a line; "q" calls exit.
ReadLine(w) == /\ Alive
               /\ stage[w] = "stdin"
               /\ typed # <<>>
               /\ typed' = Tail(typed)
               /\ IF Head(typed) = "q"
                    THEN status' = "quit" /\ UNCHANGED stage
                    ELSE stage' = [stage EXCEPT ![w] = "end"] /\ UNCHANGED status
               /\ UNCHANGED <<poolVars, mainVars, diskVars, m_reply_mutex, socketVars,
                              lines, workload>>

\* An Execute that leaves the reply mutex locked.
MutEndTask(w) == /\ Alive
                 /\ stage[w] = "end"
                 /\ Pool!RunTask(w)
                 /\ stage' = [stage EXCEPT ![w] = "none"]
                 /\ UNCHANGED <<mainVars, diskVars, m_reply_mutex, socketVars, stdinVars,
                                status>>

\* Execute returns, and releases the reply mutex if it took it.
EndTask(w) == /\ Alive
              /\ stage[w] = "end"
              /\ Pool!RunTask(w)
              /\ stage' = [stage EXCEPT ![w] = "none"]
              /\ m_reply_mutex' = IF m_reply_mutex = w THEN NoThread ELSE m_reply_mutex
              /\ UNCHANGED <<mainVars, diskVars, socketVars, stdinVars, status>>

-----------------------------------------------------------------------------
(* The kernel's NBD driver and the keyboard. *)

Disconnecting == \E r \in submitted : Kind[r] = "DISCONN"

Submit(r) == /\ Alive
             /\ r \in workload.requests \ submitted
             /\ ~Disconnecting
             /\ submitted' = submitted \cup {r}
             /\ before' = [before EXCEPT ![r] = Replied]
             /\ inbox' = Append(inbox, r)
             /\ UNCHANGED <<poolVars, mainVars, stage, diskVars, m_reply_mutex,
                            closed, stream, stdinVars, status>>

\* After the disconnect request the driver shuts the socket down,
Shutdown == /\ Alive
            /\ Disconnecting
            /\ ~closed
            /\ closed' = TRUE
            /\ UNCHANGED <<poolVars, mainVars, stage, diskVars, m_reply_mutex,
                           inbox, stream, submitted, before, stdinVars, status>>

\* and NBD_DO_IT returns in the thread of NBDDriverCommunicator, which exits.
DriverThreadExits == /\ Alive
                     /\ closed
                     /\ status' = "success"
                     /\ UNCHANGED <<poolVars, mainVars, stage, diskVars, m_reply_mutex,
                                    socketVars, stdinVars>>

Type(l) == /\ Alive
           /\ lines < workload.lines
           /\ lines' = lines + 1
           /\ typed' = Append(typed, l)
           /\ UNCHANGED <<poolVars, mainVars, stage, diskVars, m_reply_mutex,
                          socketVars, workload, status>>

\* dlopen refuses a file, and the thread of the plug-in monitor calls exit.
PluginFails == /\ Alive
               /\ main # "dtor"
               /\ workload.directory
               /\ status' = "failed"
               /\ UNCHANGED <<poolVars, mainVars, stage, diskVars, m_reply_mutex,
                              socketVars, stdinVars>>

MainStep == \/ RunTest \/ EpollReturns
            \/ DispatchRequest \/ ReceiveFails \/ DispatchStdin \/ BatchEnd
            \/ RunReturns \/ DestroyPlugins \/ DestroyPool \/ PoolDtorStep \/ JoinPool \/ MainReturns

WorkerStep(w) == \/ TestStop(w) \/ PopTask(w)
                 \/ CopyCell(w) \/ LockReply(w)
                 \/ SendHeader(w) \/ SendData(w) \/ WriteFails(w)
                 \/ ReadLine(w) \/ EndTask(w)

Environment == \/ \E r \in Requests : Submit(r)
               \/ Shutdown \/ DriverThreadExits
               \/ \E l \in {"q", "other"} : Type(l)
               \/ Signal \/ PluginFails

Next == MainStep \/ (\E w \in Workers : WorkerStep(w)) \/ Environment

\* Threads run until they block (DestroyPlugins by PlugAndPlay's MonitorEnds); the
\* driver, the user and the plug-ins need do nothing.
Fairness == /\ WF_vars(MainStep)
            /\ \A w \in Workers : WF_vars(WorkerStep(w))

Spec == Init /\ [][Next]_vars /\ Fairness

-----------------------------------------------------------------------------
Stages == {"none", "copy", "header", "data", "stdin", "end"}

\* The state is well typed; a worker is in a stage of Execute exactly while it
\* has a task.
TypeOK ==
  /\ Pool!TypeOK
  /\ main \in {"test", "wait", "dispatch", "closing", "plugins", "dtor"}
  /\ ready \subseteq Sources
  /\ disc_flag \in BOOLEAN /\ closed \in BOOLEAN
  /\ stage \in [Workers -> Stages]
  /\ \A w \in Workers : stage[w] # "none" <=> pc[w] = "run"
  /\ m_disk \in [Cells -> Writes \cup {Zero}]
  /\ todo \in [Requests -> SUBSET Cells]
  /\ buf \in [Requests -> [Cells -> Writes \cup {Zero}]]
  /\ m_reply_mutex \in Workers \cup {NoThread}
  /\ inbox \in Seq(Requests)
  /\ stream \in Seq({"header", "data"} \X Requests)
  /\ submitted \subseteq Requests
  /\ before \in [Requests -> SUBSET Requests]
  /\ typed \in Seq({"q", "other"}) /\ lines \in Nat
  /\ workload \in Workloads
  /\ status \in {"running", "quit", "failed", "killed", "success", "returned"}

\* The reply stream is a sequence of whole replies, the last one possibly
\* unfinished: the data of a READ directly follows its header, whatever other
\* workers reply meanwhile, and no reply is sent twice.
FramingIntact ==
  \A k \in 1 .. Len(stream) :
    LET r == stream[k][2] IN
    /\ stream[k] = Data(r) => Kind[r] = "READ" /\ k > 1 /\ stream[k - 1] = Header(r)
    /\ (stream[k] = Header(r) /\ Kind[r] = "READ" /\ k < Len(stream))
         => stream[k + 1] = Data(r)
    /\ \A j \in 1 .. k - 1 : stream[j] # stream[k]

Device == INSTANCE BlockDevice WITH disk <- m_disk, replied <- Replied

\* The disk behaves like the block device of BlockDevice: each request touches
\* its cells between its submission and its one reply.
ImplementsDevice == Device!Init /\ [][Device!Next]_(Device!vars)

\* A read returns no value that was overwritten before it was submitted.
ReadsFresh == Device!ReadsFresh

Channel == INSTANCE Channel
             WITH Disconnects <- {r \in Requests : Kind[r] = "DISCONN"},
                  flight <- inbox, received <- added \cap Requests, answered <- Replied

\* Between the socket's ends the main loop and the threads are the channel that
\* Communicator implements unit by unit: each request is taken once, in order,
\* and answered at most once, in any order, and never a disconnect.
ImplementsChannel == Channel!Spec

\* When main returns after a signal, no request is half done: each one that
\* was dispatched was replied to in full, or never started.
GracefulStop ==
  status = "returned" =>
    \A r \in added \cap Requests :
      \/ r \in Replied \/ Kind[r] = "DISCONN"
      \/ m_wpq[r] = 1 /\ todo[r] = Span[r] /\ Header(r) \notin Sent

InStdin == {w \in Workers : stage[w] = "stdin"}

\* What a worker waits for, if anything, is there.
WorkerCanStep(w) ==
  \/ pc[w] = "loop" \/ stage[w] \in {"header", "data", "end"}
  \/ pc[w] = "pop" /\ Pool!Top # {}
  \/ stage[w] = "copy" /\ (todo[task[w]] # {} \/ m_reply_mutex = NoThread)
  \/ stage[w] = "stdin" /\ typed # <<>>

\* The main thread waits in epoll_wait and for the joins of the two destructors.
MainCanStep == /\ main = "wait" => Readable # {}
               /\ main = "plugins" => workload.directory
               /\ op = "join" => \A w \in m_threads : pc[w] = "exited"

\* What the engine has to answer: nothing is read any more when Run has returned.
Owed == {r \in IF main = "plugins" THEN added \cap Requests ELSE submitted :
           r \notin Replied /\ Kind[r] # "DISCONN"}

\* No deadlock among the threads, the pool's queue, the reply mutex and the
\* joins: a request that is not answered waits for somebody who can go on, or
\* every worker waits for the keyboard, also while ~DirMonitor waits for ever;
\* ~ThreadPool waits for somebody who can go on, or one worker waits for the
\* keyboard.
NeverStuck ==
  Alive =>
    \/ MainCanStep \/ \E w \in Workers : WorkerCanStep(w)
    \/ main = "dtor" /\ InStdin # {}
    \/ main # "dtor" /\ (InStdin = Workers \/ Owed = {})

\* A request is replied to, unless the engine is stopping, the driver
\* disconnects, or every worker waits for the keyboard.
ServedUnlessStdin ==
  \A r \in Requests :
    (r \in submitted /\ Kind[r] # "DISCONN")
      ~> \/ r \in Replied
         \/ status # "running" \/ disc_flag \/ Disconnecting
         \/ InStdin = Workers

\* A signal ends the process, once epoll_wait has returned, unless a worker
\* waits for the keyboard, or ~DirMonitor for a thread that nothing wakes.
SignalStops ==
  (disc_flag /\ main # "wait")
    ~> \/ status # "running"
       \/ InStdin # {}
       \/ main = "plugins" /\ ~workload.directory

-----------------------------------------------------------------------------
(* What the documents say, and the code does not do. *)

\* "End the program the right way: use q" (run_with_make.txt): the driver gets
\* no truncated reply.
QuitIsClean ==
  status = "quit" => \A r \in Requests : Header(r) \in Sent => r \in Replied

\* "Executing tasks asyncronously using a Thread Pool" (README.md): a request is
\* replied to, whatever is typed on the keyboard.
RequestServed ==
  \A r \in Requests :
    (r \in submitted /\ Kind[r] # "DISCONN")
      ~> (r \in Replied \/ status # "running" \/ disc_flag \/ Disconnecting)
==============================================================================
