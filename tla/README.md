# Verification of the storage service

TLA+ models of the service in this repository: a user-space NBD block device
that keeps its disk in RAM and executes requests on a thread pool fed by a
waitable priority queue. The models are checked with TLC on small instances,
and the results that matter most are proved with TLAPS for every value of the
constants.

## 1. Inventory

### Parts, state and operations

| Part | State | Operations | Talks to |
|---|---|---|---|
| `WPQ` (`include/pq.hpp`) | container, mutex, condition variable | `Push`, `Pop`, `Clear` (`Size` and `IsEmpty` do not compile when used) | called by the pool's owner (`Push`) and its workers (`Pop`) |
| `ThreadPool` (`src/thread_pool.cpp`) | threads, queue, `m_is_stop`, `m_is_suspend`, `m_active_threads`, `m_mutex`, `m_cv` | constructor, `AddTask`, `Suspend`, `Resume`, `SetSize`, `Stop`, destructor; `WorkThreadFunction`; `TPTask` and `STOPTASK` | its owner, which is the main thread of the engine |
| `RequestEngineFW` (`include/refw.hpp`) | epoll descriptor, sources, factory, pool, `disc_flag` | `ConfigTask`, `ConfigRequestSource`, `Run` | sources, factory, pool, signal handler |
| Request sources (`include/RequestSource.hpp`) | a descriptor and the arguments of a task | `NBDRequest::Read`, `RequesKeyborad::Read` | communicator, stdin |
| Tasks (`include/RETask.hpp`) | driver data, reply mutex | `Execute` of Read, Write, Flush, Disconnect, Stdin | storage, communicator, process exit |
| `Factory` (`include/factory.hpp`) | map from key to creator | `Add`, `Create` | engine |
| `RAMStorage` (`src/storage.cpp`) | the disk | `Read`, `Write` (a `memcpy` without a lock) | tasks |
| `NBDDriverCommunicator` (`src/drive_communicator.cpp`) | socket pair, detached thread in `NBD_DO_IT` | constructor, `ThreadFunc`, `ReceiveRequest`, `SendReply`, `Disconnect` | kernel driver |
| `Singleton` (`include/singleton.hpp`) | instance pointer, static guard with a second pointer | `GetInstance`, `~DtorGard` at exit | every thread that logs |
| `Logger` (`src/logger.cpp`) | log stream and level | constructor, `Write`, `SetFile`, `SetLogLevel` | everyone |
| `Dispatcher`/`Callback` (`include/eventchannel.hpp`) | registered callbacks | `Register`, `UnRegister`, `NotifyAll`, destructors | `DirMonitor` and `DllLoader` |
| `DirMonitor`, `DllLoader` (`src/pnp.cpp`) | inotify descriptor, thread, loaded handles | constructor, thread function, `LoadPlugin`, destructors | event channel |
| `test/refw_test.cpp` | | `main`, signal handler | configures and runs the engine |

`old/`, `include/old/`, `shared_obj/`, `plugins/` and the remaining files of
`test/` are superseded code, examples and tests; they were read for what they
expect.

### What is hard

- **Locks that are not.** `std::lock_guard<std::mutex> lock(std::mutex);`
  declares a function (`singleton.hpp:63`, `logger.cpp:65`): `GetInstance`, `Write` and
  `SetFile` run unlocked, and the guard deletes the logger at `exit` while other
  threads may be using it.
- **Partial reads and writes.** A payload is larger than one call on the socket
  moves; the loops check their progress with `assert` alone
  (`drive_communicator.cpp:266`, `:284`), which an optimised build drops.
- **Threads.** One main thread, the workers, the detached driver thread and the
  plug-in monitor run concurrently. Blocking is done with condition variables
  (`pq.hpp:60`, `thread_pool.cpp:59`); `m_is_suspend` is a plain `bool` that
  `Resume` writes without the mutex (`thread_pool.cpp:151`).
- **Control through the queue.** Suspending and stopping push tasks of the
  highest priority; whether the pool obeys depends on how many are pushed, who
  pops them and when (`thread_pool.cpp:126`, `:142`, `:211`).
- **Shared disk and socket.** Requests copy their spans without a lock
  (`storage.cpp:18`, `:26`) and share one reply stream under a mutex
  (`RETask.hpp:207`, `:225`, `:285`).
- **Ends of the process.** Four threads may end it: the main thread (end of
  file, or a signal and then the destructors), a worker (`q`, or SIGPIPE on a
  write), the driver thread, the plug-in monitor (`dlopen` refuses a file). `exit`
  deletes the logger while the others go on.
- **The order of the destructors.** The members of the engine (`refw.hpp:42-49`) are
  destroyed in reverse, on the main thread: the loader while the monitor's thread
  still runs, then the monitor, whose `join` needs an event to come (`pnp.cpp:60`), and
  only then the pool.
- **Level-triggered stdin.** The main loop sees a typed line as readable until
  a worker has read it (`RequestSource.hpp:98`, `RETask.hpp:322`).

`PROJECT.json` lists each hazard at its line, with the properties that cover it.

### What makes each part correct

- `WPQ`: an element goes to exactly one `Pop`, highest priority first; no
  wake-up is lost; no `Pop` returns a null element.
- `ThreadPool`: suspended threads stay suspended, a stop reaches every worker,
  the destructor returns, tasks are executed.
- Engine: replies are whole and sent once, reads are fresh, each request is
  answered, a signal or `q` ends the service in good order.
- Communicator: requests and replies survive being cut into pieces; the process ends when
  the driver has gone, and fails for no other reason.
- `Singleton`, `Logger`: one instance, constructed before it is used and deleted at the
  end; lines that do not mix.
- Event channel, plug-and-play: no callback after unregistration, every plug-in
  loaded, the monitor can be destroyed.

## 2. Modules

| Module | Models | Notes |
|---|---|---|
| `PriorityQueue` | abstract queue: `Put`, `Ask`, `Take`, `Drop` | specification `WPQ` implements |
| `WPQ` | `pq.hpp` at the grain of its mutex and condition variable | |
| `WPQProof` | proofs about `WPQ` | |
| `ThreadPool` | `thread_pool.cpp`, with atomic `Push` and `Pop` | justified by `WPQ` implementing `PriorityQueue` |
| `ThreadPoolProof` | proofs about `ThreadPool` | |
| `BlockDevice` | abstract block device: `Submit`, `Touch`, `Reply` | specification `RequestEngine` implements |
| `BlockDeviceProof` | proofs about `BlockDevice` | |
| `Channel` | abstract channel between driver and service: `Submit`, `Receive`, `Answer` | specification `RequestEngine` and `Communicator` implement |
| `RequestEngine` | main loop, sources, tasks, storage, replies, signal, ends of the process | composes `ThreadPool` (as `Pool`) and maps to `BlockDevice` (as `Device`) and to `Channel` |
| `RequestEngineProof` | proofs about `RequestEngine` | uses `BlockDeviceProof` along the refinement (as `Dev`), and the lemmas of `ThreadPoolProof` about its pool (as `PoolP`) |
| `Communicator` | `drive_communicator.cpp` and the decoding of `driver_data.hpp`: constructor, driver's thread, byte loops, the process's ends | the socket under `RequestEngine`'s `inbox` and `stream`; maps to `Channel` |
| `CommunicatorProof` | proofs about `Communicator` | |
| `PlugAndPlay` | `pnp.cpp` with the dispatcher of `eventchannel.hpp`: inotify thread, loader, their construction and destruction | |
| `PlugAndPlayProof` | proofs about `PlugAndPlay` | |
| `Singleton` | `singleton.hpp`: `GetInstance` statement by statement, the guard at exit, the starting and ending of threads | |
| `Logger` | `logger.cpp`, called by those threads | composes `Singleton` (as `Single`) |
| `LoggerProof` | proofs about `Singleton` and `Logger` | |
| `MCWPQ`, `MCThreadPool`, `MCRequestEngine`, `MCCommunicator`, `MCPlugAndPlay`, `MCLogger` | instances for TLC | |

The modules meet where the code's interfaces do: `WPQ` shows that the queue is
the atomic one that `ThreadPool` uses, and `RequestEngine` runs its tasks on that pool.
`Channel` is the interface at the socket: `Communicator`, which moves pieces of any
size through two bounded streams, implements it, and so does `RequestEngine`, whose socket
carries whole requests. The second may therefore be read with the first beneath it.

Operators called `Mut...` stand beside the definition they vary. Each is a
plausible error in the code (a dropped guard, a missing reset, a wrong count)
under which one of the properties fails; no specification uses them.

### State and actions against the code

**`WPQ`.** `m_wpq` and `m_mutex` are the members; `pc` is the point each thread
has reached in `Push`, `Clear` or `Pop`; `arg` and `result` are the callers' argument and
return value. `PushLock`, `PushInsert`, `PushNotify` are lines 47 to 50;
`PopLock`, `PopWait`, `PopTest` are the constructor of the lock and the wait of
line 60 (`PopWait` releases the mutex and blocks in one step, as a condition
variable does); `Spurious` is the wake-up without a notification that the
standard allows; `PopTake` is lines 62 to 87. The branch that finds the queue
empty is not an action: `TakeNeverEmpty` shows that it is never reached. The
container is a set, because the order among equal priorities is unspecified.
The loop of `Clear` runs under the mutex and is one step.

**`ThreadPool`.** `op`, `left` and `target` are the owner's current call, the
iterations its loop has left and its argument: each iteration of a loop of
`Suspend`, `Resume`, `SetSize`, `Stop` is a step, and workers run in between.
`Resume` clears the flag and, in separate steps without the mutex, notifies.
`TPLock`, `TPDecide`/`TPReturn` and `TPBlock` are the lock, the test of the
predicate and the wait of `TPTask::Execute`; the test and the block are apart
because the flag may change between them. The destructor is `Destroy`,
`PushStopTask`, `Return` and `Join`. `SetSize` requires `~m_is_suspend`, as the
comment of `thread_pool.hpp:47` asks of the caller; a `Stop` that was called is not undone.

**`RequestEngine`.** `main` is the place of the main thread in `Run` and after
it, `stage` the place of each worker in `Execute`. A request is atomic up to
the copy, which goes cell by cell in any order (`CopyCell`); the reply mutex,
the header, the data and the release are separate steps. `inbox`, `stream` and
`closed` are the socket in both directions; `typed` is the keyboard, a terminal
whose `read` returns one line. `status` says how the process ended. After `Run` comes
`DestroyPlugins`, the destruction of loader and monitor, before `DestroyPool`: it is one
step here, whose own steps are those of `PlugAndPlay`, and it happens only if
`workload.directory` holds, that is, if the monitor has a watch (without one its
thread is taken to be waiting when it is destroyed, the case of `UnwatchedNeverEnds`).
`PluginFails` is the `exit` in `LoadPlugin`, at any moment before that. A worker's
task is executed by the `Pool` actions of `ThreadPool`, whose `RunTask` becomes
the stages of `Execute` here. `before` and `submitted` are history variables
for the freshness of reads. `Submit`, `Shutdown` and `Type` are the kernel
driver and the user, modelled from how the code uses them: the driver sends nothing
after a disconnect request, then shuts the socket down, and `NBD_DO_IT` returns. If
`NBD_DO_IT` returns an error instead, its thread ends and nothing in the model changes.

**`BlockDevice`.** Each request touches the cells of its span one at a time,
between its submission and its reply. Overlapping requests in flight may tear
each other, which block devices permit; `ReadsFresh` is what they may not do.

**`Channel`.** A request is in flight, received or answered; the driver submits
each once and none after a disconnect, the service receives them in order and
answers each at most once, disconnects never. In `RequestEngine` a request is
received when the main loop has made a task of it and answered when its last part is in
the stream; in `Communicator` when `ReceiveRequest` has returned, and when the
driver has read the last unit of the reply.

**`Communicator`.** `main` is the place of the main thread: in the constructor
(`SocketPair`, `StartThread`, `CtorThrows`), between requests, or in the data of
a WRITE. `driver` is the next call of `ThreadFunc`, in its order (`Call`,
`CallFails`, `DoIt`, `DoItReturns`, `DriverExit`). Both directions of the socket
are queues of units, the header or a piece of data, of which a turn of
`ReadAll` or `WriteAll` moves any number from one up to what there is (room for).
Offsets are eight bytes, which `nbd_request` reverses as the driver does and `ntohll`
restores. `build` says whether `assert` is compiled in: with it, end of file
inside the data aborts (`ReadAllAsserts`); without it, the loop spins, which is
the absence of any step. A reply is sent by one worker at a time, as the
engine's mutex has it (`FramingIntact`). `Submit`, `KernelSends`, `KernelReads` and
`Shutdown` are the kernel's driver, which uses a command only if the flags announce it.

**`Singleton`, `Logger`.** `pc` is the statement of `GetInstance` a thread has
reached, from the first load to the store; `new` and the constructor are two
steps, and the guard's pointer is set before `m_instance`. `heap` says whether an
address holds nothing, memory, an object or a deleted one. `Start`, `Finish` and
`Exit` are the life of the threads: main starts the others, and any thread, main too, may call `exit` (main does at
`RequestSource.hpp:149` and `refw.hpp:195`), which runs `~DtorGard` while the rest go
on; so may main's return, of which a detached thread is not aware. `at` is the place of a thread in `Write`
(two parts of a line, because the chain of `<<` is several calls) or in
`SetFile` (close, then open). `early`, `alone` and `lost` are
history variables that state the disciplines under which the properties hold.
The constructor's and `SetFile`'s exceptions are `ConstructFails` and `OpenFails`.

**`PlugAndPlay`.** `mon` is the place of the monitor's thread in its loop
(`TestListen`, `ReadBatch`, `ParseEvent` are lines 114, 123 to 147 and 157 to 164 of
`pnp.cpp`), in `NotifyAll` and in `LoadPlugin`; `own` is the place of the
owner, which constructs the loader and later destroys loader and monitor, in
the order of the engine's members (loader first) or in the other. The queue of inotify holds units of 16
bytes, the size of an event without a name and of a name of up to 15
characters, because the offset `j` survives from one read to the next (it is
set to zero at line 89 only) and may then fall on a name, whose bytes are
taken for an event. A read takes as many whole events as fit the buffer (`Fits`), the
rest stay in the queue. `Put` is `mv` or `cp`, one system call per step (a copy
writes twice, a move is a rename); `Opened` is what `dlopen` does to the
watched directory. `dlopen` may refuse any file it has not loaded (`DlopenFails`): what
is in a file is not modelled, and `LoadPlugin` is told of every file, a library or not.
`Crash` is the undefined behaviour of the two threads using
the vector of callbacks or of handles at once, one outcome beside the step
itself. `watch` is false from the start if the directory does not exist.

## 3. Runs

| Run | Shows | States |
|---|---|---|
| `WPQ` | no lost wake-up, no null element, refinement of `PriorityQueue` with its liveness | 105 thousand |
| `ThreadPool` | `EnoughStopTasks`, `SuspendStops`; a pool destroyed while suspended hangs; otherwise the destructor returns, `SetSize` gets its mutex, tasks are taken, each with the exceptions the code has | 193 thousand |
| `EngineData` | framing of the replies, freshness, refinement of `BlockDevice` and of `Channel`, with a disconnect or without | 805 thousand |
| `EngineLive` | no request half done when `main` returns, with flush, disconnect and keyboard; no deadlock in the pool or in the joins of the destructors, requests are answered, signals end the process, with the exceptions named | 168 thousand |
| `Communicator` | both streams are intact however they are cut and implement `Channel`, a failed set-up leaves the service without requests, TRIM never becomes a line of input, everything is answered; the process ends once the driver has gone, and fails for no other reason | 157 thousand |
| `PlugAndPlay` | handles are given back, the monitor may be destroyed first, the monitor's destructor returns if the directory is watched and does not if it is not, the first batch of events is handled in full | 315 thousand |
| `Logger` | `GetInstance` returns constructed objects only; one instance, deleted at the end, if main calls first; a line is whole if its call is alone | 1.1 million |
| `PoolResumedPoolEnds` | *violated*: a resumed pool may hang in its destructor | |
| `EngineQuitIsClean` | *violated*: `q` can cut a reply in half | |
| `EngineRequestServed` | *violated*: one typed line can occupy every worker | |
| `PlugPluginLoaded` | *violated*: a moved plug-in is skipped if its event is not in the first batch | |
| `LoggerSameInstance` | *violated*: two first calls of `GetInstance` at once return two instances | |

The violated runs each check one statement of a document, a comment or a test
against what the code does; `findings` in `PROJECT.json` quotes it. A liveness
property that holds names the exceptions these findings force: `TaskTaken` has
the disjunct "all workers missed the notification of a `Resume`",
`DestructorReturns` starts from a state in which no worker is (about to be) asleep,
`ServedUnlessStdin` excepts the state in which every worker waits for the
keyboard, `SignalStops` one in which the main thread is in `epoll_wait` (the
signal came between its test and the wait, or to another thread), a worker is
in `read`, or the main thread is in the `join` of `~DirMonitor` and there is no directory.
`FirstBatchLoaded` speaks of the events that the first read takes, unless the thread
reports them before the loader has registered (`TooEarly`), and of files that `dlopen`
accepts; `MonitorEnds` of a directory that exists, and `CleanShutdown` of a destruction
that no notification ran into.
`SameInstanceIfMainFirst` and `ExitDeletesInstance` hold because main has its
pointer before it starts a thread (`InitLogger` is its first statement), not
because of a lock; `LineWholeIfAlone` speaks of a call that no other overlaps.
`EndsAfterShutdown` excepts the one way to hang: without asserts, in the middle of a
payload, after the driver's thread has failed to clean up.

`SuspendStops` excepts a pool with more threads than `m_active_threads`, and so does not
speak of what `SetSize` leaves behind. A smaller `SetSize` pushes its TPTasks while
`m_is_suspend` is false, so they return at once and no thread is suspended (the comment of
lines 161 and 162 of `thread_pool.cpp` says that one is). A `Suspend` after it pushes fewer TPTasks
than there are threads and leaves the rest running. A larger `SetSize` after a smaller one
notifies instead of creating threads, and sets `m_active_threads` to a number of
threads that may not exist (lines 196 to 219).

Observations without a run, because no document says otherwise. Any file that is put
into the directory and that `dlopen` refuses ends the process: one that is no library,
one whose symbols are not found, one that is removed at once, and a library that is
copied (`cp` instead of the documented `mv`) if it is reported before it is complete.
A plug-in moved into the directory while the engine is constructed may be reported to a
dispatcher that has no callback yet, and is then not loaded.
If an `ioctl` of the set-up fails, the exception ends in `WrapperThread`: the service
waits in `epoll_wait` for a driver that will never come (`SilentFailure`). A pool
destroyed while it is suspended is waited for without end (`SuspendedPoolNeverEnds`);
`thread_pool.hpp:47` asks the caller for a `Resume` after each `Suspend`. Without a
directory of plug-ins the destructor of the monitor never returns (`UnwatchedNeverEnds`),
and since it runs before that of the pool, a signal leaves the process alive with its
workers still executing what is queued.

`NeverStuck`, in four of the modules, says what TLC's deadlock check cannot where
threads may rightly sleep for ever: while somebody waits for something other than a
new call, request or line, some thread can take its next step. It is the part of the
liveness properties that does not depend on the scheduler. `EngineLive` checks it where
the main loop, the pool, the reply mutex, the joins and the keyboard meet.

Some definitions among the properties are in no configuration, because they are proved
for all constants (section 4) and a run has a stronger or an equal relative:
`MutualExclusion`, `OnePlace` and the queue's `NeverStuck` (`ImplementsPriorityQueue`),
`EnoughParked` (`SuspendStops`), the pool's `NeverStuck` (`DestructorReturns`,
`SetSizeReturns`, `TaskTaken`), the communicator's (`Answered`), `WokenToEnd`
(`MonitorEnds`), `FirstBatchKept` (`FirstBatchLoaded`). TLC finds them true as well when they are added to the configuration
of their module.

### Bounds

- `WPQ`: two producers, three consumers, three elements (two of equal
  priority). Two elements and two sleeping consumers are needed for a lost
  wake-up, a third consumer for one that arrives in between.
- `ThreadPool`: `MaxCalls` bounds the calls of `Suspend`, `Resume`, `SetSize`,
  `Stop`: five on a pool of one thread that may become two. The longest sequence that
  matters grows the pool, shrinks it, suspends, resumes and grows it again, with a worker that
  slept through the `Resume`; the shortest one that breaks a promise takes two calls
  (`Suspend`, `Resume`): the violated run has three calls and two threads.
- `RequestEngine`: two workers, two cells, one signal. `Workloads` says what the driver
  may submit, how many lines may be typed and whether there is a directory of plug-ins:
  two writes and a read of overlapping spans (freshness relates two writes in
  sequence and a read), or a write, a read and the disconnect; or a read with a flush, with
  a disconnect or with one line, and a read or a disconnect with one line and no directory.
  Three `StdinTasks`. The main loop may create as many
  `StdinTasks` as it gets turns; once as many as there are workers exist, and
  one more, nothing new can happen. `PoolTasks` are added once each; the pool is
  never suspended by the engine, so `MaxCalls` is zero there and `Sizes` empty.
- `Communicator`: `Capacity` two units, payloads of three: a payload never
  fits at once, and every cut of it occurs; one request of each command, with offsets of four
  and of five bytes, so that the two halves of an offset differ.
- `Logger`: main and two threads, a worker and the driver's; two addresses
  (a third simultaneous first caller waits in `new`), `MaxLines` two lines and
  `MaxSettings` one call of `SetFile` or `SetLogLevel`: enough for two lines to mix
  and for a `SetFile` between the parts of one. Addresses are interchangeable (symmetry;
  the run has no liveness property).
- `PlugAndPlay`: one plug-in moved, one copied, `MaxLists` one event of the
  directory itself, which has no name: enough for batches that begin at, before and inside
  an event of the one before. `BufferUnits` is the size of the buffer: the
  256 units of the code in the violated run, where no batch reaches it, and eight in
  the passing one, which has up to five events waiting that do not all fit, so that a read leaves
  some for the next. Names have at most 12 or else 14 or 15 characters
  (`pnp_so_file.so` has 14), so that the bytes read as a length are zero or lead
  behind the buffer.

The configurations say `CHECK_DEADLOCK FALSE` because the program really may
stop: consumers of an empty queue block for ever, a pool is destroyed, the
process ends.

### Fairness

Every thread that is not blocked is eventually scheduled: weak fairness of each
worker's step, of the main thread's step, of the owner's step inside a call.
In `PlugAndPlay` the monitor's thread and the owner, inside a constructor or a
destructor, are fair; when the owner begins to destroy is its own choice. In
`Communicator` the main thread, the driver's thread, the worker that sends, and
the kernel's moving of data that is there are fair; what the driver submits, when it
shuts down, and whether main returns are not. `Logger` has no liveness property.
Neither the driver, the user, signals nor the owner's next call are fair, and
spurious wake-ups are not either. Weak fairness of one thread does not assume
that mutexes are handed over fairly.

## 4. Proofs

`WPQProof`, for every finite set of producers, consumers and elements:

- `TypeCorrect`, `MutexCorrect`: inductive as they stand.
- `TakeCorrect`: with the mutex, `PopTest` saw an element and only the holder
  of the mutex removes one.
- `PlaceCorrect`: each element is a `Push` argument, queued, returned or cleared.
- `WakeupCorrect`: while a consumer sleeps, the number of queued elements is at
  most that of awake consumers and producers about to notify. The bound is
  inductive because an insertion adds an element and a notifying producer, a
  notification trades a producer for an awake consumer, and a consumer goes to
  sleep only on an empty queue. `Counts` and `AddOne` handle the cardinalities.
- `NeverStuckCorrect`: a mutex that is held has a holder about to release it
  (`MutexCorrect`), and with elements queued not all consumers sleep (`WakeupCorrect`). A
  set of elements has one of highest priority (`TopExists`).
- `QueueSafe`: `Spec => Queue!SafeSpec`, the safety part of the refinement.

`ThreadPoolProof`, for every pool, sizes and number of calls:

- `PoolTypeCorrect`.
- `ParkCorrect`: `EnoughParked` is not inductive alone. `SetSizeReturn` changes
  `m_active_threads`, so the invariant `ParkInv` adds that a `SetSize` runs
  only in a pool that is not suspended (`ResizeRunning`).
- `SuspendCorrect`: after `Suspend`, a task of the owner's is popped only when
  no TPTask is queued; then `m_active_threads` workers are parked by
  `EnoughParked`, and the one that pops is another.
- `StopCorrect`: a worker that tests `m_is_stop` after it is set exits, so
  workers in `Pop` only get fewer, each for one STOPTASK.
- `PoolNeverStuck`: a worker in `Pop` of a pool that is being joined has a task to take, which
  is `EnoughStopTasks` once `m_is_stop` is known to be set there (`StopInv`).
- `SuspendedPoolHangs`: one worker in a TPTask is a witness that stays: it leaves only when
  `m_is_suspend` is cleared, and an owner inside the destructor calls no `Resume` (`Doomed`).

`BlockDeviceProof`: `DeviceTypeCorrect` and `DeviceFresh`. `ReadsFresh` is not
inductive: `FreshInv` also says of the disk that once a write has been replied
to, its cells hold neither the initial content nor a write that was replied to
before it was submitted.

`RequestEngineProof`, for any workers, requests, spans, lines and workloads:

- `EngineTypeCorrect`, with `TaskInv` (a task is in the queue or with one worker,
  never both; the engine pushes no TPTask) and `StageInv` (only requests are copied
  and replied to).
- `EngineFramingIntact`: `LockInv` says that a worker about to write holds the
  reply mutex and has finished its copy; `ReplyInv` that the last part in the
  stream is the header of a READ only while its worker is about to write the
  data. So the next part is that data, and nobody else's.
- `EngineImplementsDevice`: the refinement of `BlockDevice`. `SocketInv` gives that a
  request a worker has was submitted, `ReplyInv` that it has not been replied to
  while it is copied, `LockInv` that its copy is complete when it is.
- `EngineReadsFresh`: the invariant of `BlockDeviceProof` is carried along that
  refinement (`Dev!FreshStep`), so the threads inherit it without a new argument.
- `EngineGracefulStop`: `FinishInv` says that a request out of the queue is with a
  worker until it is replied to, and untouched while in the queue; `EndInv` that
  no worker is left when `main` returns, because the destructor joins them.
- `EngineNeverStuck`: every step of the engine is a step of its pool or none
  (`PoolStep`), so that `EnoughStopTasks` and `StopInv` are those of `ThreadPoolProof`. Of
  the engine itself, `LoopInv` says that the pool is stopped by the destructor only and no
  worker is gone before, `HoldInv` that a reply mutex that is held has a holder in
  `Execute`, `ArriveInv` that a submitted request is in the socket or has a task.
- `EngineImplementsChannel`: the same invariants (`SocketInv`, `ReplyInv`) give that the
  head of the socket is new and that the last part of a reply is sent once.

`CommunicatorProof`, for requests of any length and sockets of any capacity:

- `CommunicatorTypeCorrect`, including that no buffer overflows, and `NtohllInverse`.
- `RequestsCorrect`: `RequestInv` says where each request begins in all that the driver
  has sent (`Offsets`), that the socket followed by what is still to be sent is that
  stream from the place the service has reached (`Flow`), and that the data read so far is
  the current request's (`Reading`). No cut moves a unit.
- `RepliesCorrect`: `Written`, what the driver has read followed by the socket and
  by what `SendReply` has left, is a chain of whole replies; a write moves a
  boundary inside it.
- `CommunicatorImplementsChannel`: `AnswerInv` relates replies to requests: `Written` has no
  unit twice, and a request that was received is either being executed or its reply is in
  `Written`. What is in flight is the end of `submitted` that `RequestInv` has already
  located, so a header that arrives is the next request and a last unit that is read
  the first of its kind.
- `CommunicatorNeverStuck`: if nothing moves in either direction then all that was
  submitted has been received (`AllReceived`, by counting units in `Flow`), and a request
  received and not answered is in one of the places the property lists. `IdleInv` says
  when the driver sends nothing.
- `FailureStaysSilent`: without a driver that serves, nothing is submitted and every read
  blocks (`Silent`).
- `NoStdinCorrect`: the flags never announce TRIM. `EndsCorrect`: the magic number is
  where it is expected, because a header is next whenever one is read.

`PlugAndPlayProof`, for any plug-ins, names and sizes of the buffer:

- `PlugTypeCorrect`, `PlugShutdownCorrect`: the references of the linker are the
  handles recorded plus the one about to be (`Unrecorded`), until a notification meets the
  destruction of the loader.
- `PlugMonitorFirst`: an owner past `join` has no monitor thread beside it.
- `PlugWokenToEnd`: the event of `inotify_rm_watch` stays in the queue until the thread
  reads it, and a thread that tests `listen` after that does not wait again (`Woken`).
- `PlugUnwatchedNeverEnds`: without a watch nothing enters the queue, the queue of a
  watch that never was is empty, and a thread that waits on it stays (`WatchInv`,
  `AsleepStep`).
- `PlugFirstBatchKept`: the queue and the batch are `Whole`: each name follows its event,
  and each event that has a name is followed by it (`ParseInv`); appending whole events keeps
  them whole (`ConcatWhole`), and so does cutting a queue between two events, which is what
  a read does to one that exceeds the buffer (`SplitWhole`). An event within the first
  `BufferUnits` units is in the part that is read (`ReadKeeps`). A parser that starts at offset zero is therefore at an event
  or at the end of the batch at every turn (`OnEvent`), and passes no event of a plug-in without
  reporting it (`ParseKeeps`). It is exactly `j = 0` that a later batch lacks, where
  `PlugPluginLoaded` finds the loss.

`LoggerProof`, for any threads and addresses:

- `LoggerTypeCorrect`; `ReturnedBuilt`: every pointer past the constructor is to an
  object, as long as the process runs.
- `OneInstance`, `GuardDeletesAll`: while no thread was started too early, either main is
  alone and without a pointer, or there is one object that everyone gets.
- `LineWhole`: a closed stream has a thread in the middle of `SetFile`, and a call that is
  alone has nobody beside it (`LineInv`).

The theorems rest on the assumptions on the constants in the modules
(`ThreadsAssumption`, `PoolAssumption`, `EngineAssumption`, `CommunicatorAssumption`,
`PlugAssumption`, `LoggerAssumption`), which TLC evaluates on its instances;
those about `BlockDevice` state theirs (`DeviceAssumption`) as a hypothesis, which
`DevConstants` derives from `EngineAssumption`. They say that sets are finite where
they are counted, that special values are distinct, that priorities of the owner's
tasks are below `ADMIN`, and what the kernel guarantees of a request (a WRITE has data;
an offset has eight bytes).

Only model-checked: all liveness properties (`ENABLED` and fairness are beyond
the prover) and the liveness part of `ImplementsPriorityQueue`. What they rest on besides
fairness is proved where it could be stated without: `NeverStuckCorrect`, `PoolNeverStuck`,
`EngineNeverStuck`, `CommunicatorNeverStuck` that somebody can go on, `PlugWokenToEnd` the
wake-up of `MonitorEnds`, `PlugFirstBatchKept` that `FirstBatchLoaded`, once the loader
has registered, waits for the thread alone. Every invariant, every action property, every safety property over several
steps and every refinement of a passing run is proved, the last in its safety part.

## 5. Not modelled

- `Size` and `IsEmpty` of the queue; `WakeUpThreads`, `JoinThreads`,
  `m_suspend_thread`, `m_waiting_threads` of the pool: never used.
- A failing `epoll_wait` or `close`, an unknown request type (the driver is told of READ,
  WRITE, DISCONN, FLUSH only), a `read` of stdin that fails or returns end of file.
- Contents of the disk: a cell holds the write that last stored it. Offsets and
  lengths are in `Communicator`; in the engine a request covers a set of cells.
- The text of log lines (the shared buffer of `localtime`, `logger.cpp:57`, is one
  of the hazards without a property), and the parsing of the arguments of `main`.
- `Singleton` stands for the logger. The factory is configured by `main` alone before
  `Run`, so that its map is a constant of `RequestEngine`.
- `PlugAndPlay` and `RequestEngine` are not composed. What the engine depends on is in it:
  the destructors of loader and monitor come before that of the pool on the same thread
  (`DestroyPlugins`, whose fairness `MonitorEnds` justifies and whose absence without a
  directory `UnwatchedNeverEnds` does), and the monitor's thread may end the process
  (`PluginFails`). What `PlugAndPlay` says of the races between a late notification
  and the loader's destruction (`Crash`) is not carried over: undefined behaviour would
  leave the engine's properties nothing to say.
- The ends of the process in one model: `RequestEngine` has those of the engine's threads,
  `Communicator` those of the socket and the driver's thread, `Logger` what an `exit` does
  to the logger. Their product is out of TLC's reach at bounds where each part
  still shows its cases, and the parts share only the fact that the process ends.
- In `PlugAndPlay`: the limit of inotify's own queue, the removal of the watched directory
  (its watch then goes while the program runs), the removal of a file (which makes `dlopen`
  fail, as `DlopenFails` may), a failing `read` or `epoll_wait`, the eventfd, which nothing
  writes, and `OutOfService`, which finds no callback left.
- `old/`, `include/old/`: superseded code that is not built. `shared_obj/`, `plugins/`
  and the tests: examples, without state of the service.

## 6. What is left

Every component of the service is modelled, the parsing of `main`'s arguments apart, and
the socket that `RequestEngine` and `Communicator` share is one specification, `Channel`,
which both implement. Hazards with no property are those whose data is abstracted (the
text of a typed line, of a log line, of a payload that is printed, and the contents of
a plug-in), what the kernel does when the socket is closed without a disconnect, and
races that nothing in the code excludes and no document speaks of: the use of the logger
after an `exit`, lines of overlapping calls, the instance the guard forgets, and a
notification that meets a loader being destroyed. For these `PROJECT.json` says what
the models reach and which premise of a property sets them apart.
