----------------------------- MODULE PlugAndPlay -----------------------------
(***************************************************************************)
(* The plug-in facility (src/pnp.cpp): a DirMonitor whose thread reads the *)
(* inotify events of a directory, a DllLoader that loads the files it is   *)
(* told of, and the dispatcher of eventchannel.hpp between them, which     *)
(* neither thread locks. The owner of both objects constructs the monitor  *)
(* (and its thread), then the loader, and destroys them in either order.   *)
(***************************************************************************)
EXTENDS Integers, Sequences

CONSTANTS
  Files,      \* plug-ins that may be put into the directory
  Moved,      \* those that mv puts there; cp puts the others
  LongNames,  \* names of 14 or 15 characters; the others have at most 12
  BufferUnits, \* sizeof(buffer), in units of 16 bytes: 256
  MaxLists    \* bound: how often the directory itself is opened (ls)

\* An event with its name fits into the buffer.
ASSUME PlugAssumption ==
  /\ Moved \subseteq Files /\ LongNames \subseteq Files
  /\ BufferUnits \in Nat /\ BufferUnits >= 2
  /\ MaxLists \in Nat

VARIABLES
  put,         \* put[f]: how many steps of the mv or cp of f are done
  lists,       \* how often the directory has been listed
  queue,       \* kernel: the events not yet read, in units of 16 bytes
  watch,       \* kernel: the directory is watched (wd is valid)
  listen,      \* DirMonitor::listen
  registered,  \* the loader's callback is in Dispatcher::m_callbacks
  attached,    \* ICallback::m_dispatcher of the callback is not null
  m_loaded,    \* DllLoader::m_loaded_directories: handles per file
  refs,        \* dynamic linker: references to each library
  mon,         \* place of the monitor thread
  batch,       \* the part of buffer that the last read filled
  j,           \* offset of the parser in buffer, in units
  report,      \* the file of the event that is notified
  own,         \* place of the owner
  first,       \* which of its objects it destroys first
  late,        \* history: a notification ran into the destruction
  status       \* "up", "failed" (exit in LoadPlugin) or "crashed" (undefined behaviour)

user    == <<put, lists>>
monitor == <<mon, batch, j, report>>
loader  == <<registered, attached, m_loaded, refs>>
owner   == <<own, first>>
vars    == <<user, queue, watch, listen, loader, monitor, owner, late, status>>

None == "no file"

\* An event occupies one unit, and one more for the name if it has one.
Event(mask, f) ==
  LET header == [part |-> "event", mask |-> mask, file |-> f]
  IN IF f = None THEN <<header>> ELSE <<header, [header EXCEPT !.part = "name"]>>

\* The kernel drops an event that equals the last one in the queue.
Emit(q, e) ==
  IF Len(q) >= Len(e) /\ SubSeq(q, Len(q) - Len(e) + 1, Len(q)) = e THEN q ELSE q \o e

\* The events of each system call of mv or cp.
PutSteps(f) ==
  IF f \in Moved THEN <<Event("MOVED_TO", f)>>
  ELSE <<Event("CREATE", f) \o Event("OPEN", f),
         Event("MODIFY", f), Event("MODIFY", f), Event("CLOSE_WRITE", f)>>

Masks == {"MOVED_TO", "CREATE", "OPEN", "MODIFY", "CLOSE_WRITE", "ACCESS",
          "CLOSE_NOWRITE", "LIST", "IGNORED"}

\* The masks the monitor reports.
Reported == {"MOVED_TO", "MODIFY"}

Living == {"register", "run"}
Ending == {"stop", "rm_watch", "join", "~Dispatcher"}  \* of the monitor

Units == [part : {"event", "name"}, mask : Masks, file : Files \cup {None}]

\* Every variable keeps its type; in particular no handle is closed twice.
TypeOK ==
  /\ put \in [Files -> 0 .. 4] /\ lists \in 0 .. MaxLists
  /\ queue \in Seq(Units) /\ batch \in Seq(Units)
  /\ watch \in BOOLEAN /\ listen \in BOOLEAN
  /\ registered \in BOOLEAN /\ attached \in BOOLEAN
  /\ m_loaded \in [Files -> Nat] /\ refs \in [Files -> Nat]
  /\ mon \in {"test", "wait", "parse", "notify", "load", "push", "ended"}
  /\ j \in Nat /\ report \in Files \cup {None}
  /\ own \in Living \cup Ending \cup {"dlclose", "unregister", "gone"}
  /\ first \in {"none", "loader", "monitor"}
  /\ late \in BOOLEAN /\ status \in {"up", "failed", "crashed"}

\* The monitor is constructed and its thread started; inotify_add_watch has
\* failed if the directory does not exist; the thread has returned at once if
\* epoll_create failed.
Init ==
  /\ put = [f \in Files |-> 0] /\ lists = 0
  /\ queue = <<>> /\ watch \in BOOLEAN /\ listen = TRUE
  /\ registered = FALSE /\ attached = FALSE
  /\ m_loaded = [f \in Files |-> 0] /\ refs = [f \in Files |-> 0]
  /\ mon \in {"test", "ended"} /\ batch = <<>> /\ j = 0 /\ report = None
  /\ own = "register" /\ first = "none" /\ late = FALSE /\ status = "up"

------------------------------------------------------------------------------
(* The user. *)

Put(f) ==
  /\ put[f] < Len(PutSteps(f))
  /\ put' = [put EXCEPT ![f] = @ + 1]
  /\ queue' = IF watch THEN Emit(queue, PutSteps(f)[put'[f]]) ELSE queue
  /\ UNCHANGED <<lists, watch, listen, loader, monitor, owner, late, status>>

List ==
  /\ watch /\ lists < MaxLists
  /\ lists' = lists + 1
  /\ queue' = Emit(queue, Event("LIST", None))
  /\ UNCHANGED <<put, watch, listen, loader, monitor, owner, late, status>>

------------------------------------------------------------------------------
(* The thread of the monitor. *)

TestListen ==
  /\ mon = "test"
  /\ mon' = IF listen THEN "wait" ELSE "ended"
  /\ UNCHANGED <<user, queue, watch, listen, loader, batch, j, report, owner, late, status>>

\* The first k units of the queue are whole events, and fit into buffer.
Fits(k) ==
  /\ k <= BufferUnits
  /\ k < Len(queue) => queue[k + 1].part = "event"

\* epoll_wait returns, and read takes as many events as fit.
ReadBatch ==
  /\ mon = "wait"
  /\ \E k \in 1 .. Len(queue) :
       /\ Fits(k) /\ \A i \in k + 1 .. Len(queue) : ~Fits(i)
       /\ batch' = SubSeq(queue, 1, k)
       /\ queue' = SubSeq(queue, k + 1, Len(queue))
  /\ mon' = "parse"
  /\ UNCHANGED <<user, watch, listen, loader, j, report, owner, late, status>>

ParseEvent ==
  /\ mon = "parse" /\ j < Len(batch) /\ batch[j + 1].part = "event"
  /\ LET e == batch[j + 1]
     IN /\ IF e.mask \in Reported
           THEN mon' = "notify" /\ report' = e.file
           ELSE UNCHANGED <<mon, report>>
        /\ j' = j + Len(Event(e.mask, e.file))
  /\ UNCHANGED <<user, queue, watch, listen, loader, batch, owner, late, status>>

\* The offset of an earlier batch falls on a name: its bytes 4 to 7 match no
\* mask, its bytes 12 to 15 are taken for a length, which leads behind the
\* buffer if the name is long and is zero if it is short.
ParseName ==
  /\ mon = "parse" /\ j < Len(batch) /\ batch[j + 1].part = "name"
  /\ j' = IF batch[j + 1].file \in LongNames THEN BufferUnits ELSE j + 1
  /\ UNCHANGED <<user, queue, watch, listen, loader, mon, batch, report, owner, late, status>>

\* One event per read is parsed.
MutBatchEnd ==
  /\ mon = "parse" /\ (j >= Len(batch) \/ j > 0)
  /\ mon' = "test" /\ batch' = <<>>
  /\ UNCHANGED <<user, queue, watch, listen, loader, j, report, owner, late, status>>

\* The next batch is parsed from where this one ended.
BatchEnd ==
  /\ mon = "parse" /\ j >= Len(batch)
  /\ mon' = "test" /\ batch' = <<>>
  /\ UNCHANGED <<user, queue, watch, listen, loader, j, report, owner, late, status>>

\* The loader is gone, or going.
LoaderGone == first = "loader" /\ own \in Ending \cup {"gone"}
Late == late' = (late \/ own \in {"dlclose", "unregister"} \/ LoaderGone)

\* Dispatcher::NotifyAll.
NotifyAll ==
  /\ mon = "notify"
  /\ IF registered THEN mon' = "load" /\ UNCHANGED report
                   ELSE mon' = "parse" /\ report' = None
  /\ Late
  /\ UNCHANGED <<user, queue, watch, listen, loader, batch, j, owner, status>>

Opened(f) == Event("OPEN", f) \o Event("ACCESS", f) \o Event("CLOSE_NOWRITE", f)

\* dlopen opens the file, in the watched directory, unless the linker has it.
Dlopen ==
  /\ mon = "load"
  /\ refs' = [refs EXCEPT ![report] = @ + 1]
  /\ queue' = IF watch /\ refs[report] = 0 THEN queue \o Opened(report) ELSE queue
  /\ mon' = "push"
  /\ Late
  /\ UNCHANGED <<user, watch, listen, registered, attached, m_loaded, batch, j, report, owner, status>>

\* dlopen refuses the file, and LoadPlugin exits: it is still being copied, is no
\* library, lacks a symbol, or is there no more.
DlopenFails ==
  /\ mon = "load" /\ refs[report] = 0
  /\ status' = "failed"
  /\ UNCHANGED <<user, queue, watch, listen, loader, monitor, owner, late>>

\* The file is recorded with n handles.
Record(n) ==
  /\ mon = "push"
  /\ m_loaded' = [m_loaded EXCEPT ![report] = n]
  /\ mon' = "parse" /\ report' = None
  /\ Late
  /\ UNCHANGED <<user, queue, watch, listen, registered, attached, refs, batch, j, owner, status>>

\* A handle is recorded once per file; a handle is recorded twice.
MutPushOnce  == Record(1)
MutPushTwice == Record(m_loaded[report] + 2)

PushHandle == Record(m_loaded[report] + 1)

\* The two threads use m_callbacks, the callback or m_loaded_directories at
\* once, or the callback or the vector is used after its destruction.
Racing ==
  \/ mon = "notify" /\ own \in {"register", "unregister"}
  \/ mon = "load"   /\ (own = "unregister" \/ LoaderGone)
  \/ mon = "push"   /\ (own \in {"dlclose", "unregister"} \/ LoaderGone)

\* What a build may then do besides the step itself.
Crash ==
  /\ Racing
  /\ status' = "crashed"
  /\ UNCHANGED <<user, queue, watch, listen, loader, monitor, owner, late>>

\* Callback::Notify calls LoadPlugin.
Notify == Dlopen \/ DlopenFails \/ PushHandle

Monitor ==
  \/ TestListen \/ ReadBatch \/ ParseEvent \/ ParseName \/ BatchEnd
  \/ NotifyAll \/ Notify \/ Crash

------------------------------------------------------------------------------
(* The owner. *)

\* DllLoader's constructor registers its callback.
Register ==
  /\ own = "register" /\ own' = "run"
  /\ registered' = TRUE /\ attached' = TRUE
  /\ UNCHANGED <<user, queue, watch, listen, m_loaded, refs, monitor, first, late, status>>

Destroy ==
  /\ own = "run"
  /\ \/ first' = "loader"  /\ own' = "dlclose"
     \/ first' = "monitor" /\ own' = "stop"
  /\ UNCHANGED <<user, queue, watch, listen, loader, monitor, late, status>>

\* The body of ~DllLoader.
CloseHandles ==
  /\ own = "dlclose" /\ own' = "unregister"
  /\ refs' = [f \in Files |-> refs[f] - m_loaded[f]]
  /\ m_loaded' = [f \in Files |-> 0]
  /\ UNCHANGED <<user, queue, watch, listen, registered, attached, monitor, first, late, status>>

\* The destruction of its member m_callback: unless the dispatcher has let it go,
\* it is erased from the dispatcher's vector.
UnRegister ==
  /\ own = "unregister"
  /\ own' = IF first = "loader" THEN "stop" ELSE "gone"
  /\ registered' = (registered /\ ~attached)
  /\ status' = IF attached /\ first = "monitor" THEN "crashed" ELSE status
  /\ UNCHANGED <<user, queue, watch, listen, attached, m_loaded, refs, monitor, first, late>>

StopListening ==
  /\ own = "stop" /\ own' = "rm_watch"
  /\ listen' = FALSE
  /\ UNCHANGED <<user, queue, watch, loader, monitor, first, late, status>>

\* The destructor counts on the flag alone.
MutRemoveWatch ==
  /\ own = "rm_watch" /\ own' = "join"
  /\ UNCHANGED <<user, queue, watch, listen, loader, monitor, first, late, status>>

\* A destructor that wakes the thread by itself.
MutRemoveWake ==
  /\ own = "rm_watch" /\ own' = "join"
  /\ watch' = FALSE
  /\ queue' = Emit(queue, Event("IGNORED", None))
  /\ UNCHANGED <<user, listen, loader, monitor, first, late, status>>

\* Removing the watch yields a last event, IN_IGNORED, which has no name.
RemoveWatch ==
  /\ own = "rm_watch" /\ own' = "join"
  /\ watch' = FALSE
  /\ queue' = IF watch THEN Emit(queue, Event("IGNORED", None)) ELSE queue
  /\ UNCHANGED <<user, listen, loader, monitor, first, late, status>>

Join ==
  /\ own = "join" /\ mon = "ended" /\ own' = "~Dispatcher"
  /\ UNCHANGED <<user, queue, watch, listen, loader, monitor, first, late, status>>

\* A dispatcher that leaves its callbacks the pointer to it.
MutDestroyDispatcher ==
  /\ own = "~Dispatcher"
  /\ own' = IF first = "loader" THEN "gone" ELSE "dlclose"
  /\ registered' = FALSE
  /\ UNCHANGED <<user, queue, watch, listen, attached, m_loaded, refs, monitor, first, late, status>>

\* Then the dispatcher, a member of the monitor: each callback left is told by
\* OutOfService, for which the loader has no method, and let go.
DestroyDispatcher ==
  /\ own = "~Dispatcher"
  /\ own' = IF first = "loader" THEN "gone" ELSE "dlclose"
  /\ registered' = FALSE
  /\ attached' = (attached /\ ~registered)
  /\ UNCHANGED <<user, queue, watch, listen, m_loaded, refs, monitor, first, late, status>>

Owner ==
  \/ Register \/ CloseHandles \/ UnRegister \/ StopListening \/ RemoveWatch \/ Join
  \/ DestroyDispatcher

------------------------------------------------------------------------------

Next ==
  /\ status = "up"
  /\ (\E f \in Files : Put(f)) \/ List \/ Monitor \/ Owner \/ Destroy

\* Both threads run; the user and the owner's decision to destroy are free.
Spec ==
  /\ Init /\ [][Next]_vars
  /\ WF_vars(status = "up" /\ Monitor)
  /\ WF_vars(status = "up" /\ Owner)

------------------------------------------------------------------------------
(* Properties. *)

\* However often a plug-in was loaded, and whichever object is destroyed first,
\* every reference is given back, unless a notification met a loader that was
\* being destroyed.
CleanShutdown ==
  own = "gone" /\ ~late => \A f \in Files : refs[f] = 0

\* To destroy the monitor first is safe, and the only order that is: its thread
\* has ended and the callback is let go before anything of the loader is touched.
MonitorFirstIsSafe == first = "monitor" => status # "crashed"

\* The monitor's destructor returns: the event of inotify_rm_watch wakes the
\* thread, which then sees listen cleared. It may not if there is no watch.
MonitorEnds == (own = "stop" /\ watch) ~> (own = "gone" \/ status # "up")

\* And then it does not: with no watch to remove, no event comes, and the owner
\* joins for ever a thread that waits for one when the destructor begins.
UnwatchedNeverEnds ==
  [](own = "stop" /\ ~watch /\ mon = "wait" => [](own # "gone"))

\* No wake-up is lost: once there was a watch to remove, the destructor never
\* joins a thread that waits for an event with none in the queue.
WokenToEnd ==
  [](own = "rm_watch" /\ watch => [](own = "join" /\ mon = "wait" => queue # <<>>))

\* u begins the event of moving f into the directory.
MovedTo(u, f) == u.part = "event" /\ u.file = f /\ u.mask = "MOVED_TO"

\* The moved file f is in the queue, and the thread and the loader are there.
Arrived(f) ==
  /\ own = "run" /\ mon # "ended"
  /\ \E i \in DOMAIN queue : MovedTo(queue[i], f)

\* No event was read yet, and that of f is among those that the first read takes.
InFirstBatch(f) ==
  /\ batch = <<>> /\ j = 0
  /\ \E i \in DOMAIN queue : i < BufferUnits /\ MovedTo(queue[i], f)

Loaded(f) == refs[f] > 0 \/ own \notin Living \/ status # "up"

\* f is reported before the loader has registered.
TooEarly(f) == mon = "notify" /\ report = f /\ ~registered

\* Every moved plug-in of the first batch of events is loaded, whatever other
\* events surround it and also if it was moved before the loader registers, unless
\* it is reported before that, dlopen refuses it or the engine ends.
FirstBatchLoaded ==
  \A f \in Files : (InFirstBatch(f) /\ own \in Living /\ mon # "ended") ~> (Loaded(f) \/ TooEarly(f))

\* The event of f is still to be parsed, or f is being reported.
Coming(f) ==
  \/ \E i \in DOMAIN queue : i < BufferUnits /\ MovedTo(queue[i], f)
  \/ \E i \in j + 1 .. Len(batch) : MovedTo(batch[i], f)
  \/ mon \in {"notify", "load", "push"} /\ report = f

\* No event of the first batch is lost on the way: until it is loaded, a plug-in
\* that was moved there is still at its place in the queue, in the part of the buffer that is
\* still to be parsed, or on its way through the dispatcher.
FirstBatchKept ==
  \A f \in Files : [](Arrived(f) /\ InFirstBatch(f) => [](Loaded(f) \/ Coming(f)))

\* "Then move a .so file to your plugins directory" (run_with_make.txt): every
\* plug-in that is moved there is loaded, as LoadPlugin promises.
PluginLoaded == \A f \in Files : Arrived(f) ~> Loaded(f)
==============================================================================
