------------------------------ MODULE Singleton ------------------------------
(***************************************************************************)
(* Singleton<T>::GetInstance and DtorGard (include/singleton.hpp).  The    *)
(* line that should lock declares a function instead, so that threads go   *)
(* through the whole of GetInstance side by side.  One thread starts the   *)
(* others, as main does; when a thread ends the process the static guard   *)
(* deletes its object while the other threads still run.                   *)
(*                                                                         *)
(* A relaxed load may also return a value that was just overwritten: that  *)
(* is the store taking place later, which is among the interleavings.      *)
(***************************************************************************)
EXTENDS Naturals

CONSTANTS Threads, Main,
          Objects,    \* addresses that new may return
          Null

VARIABLES m_instance,
          m_ptr,     \* m_dtor_gard.m_ptr
          heap,      \* Objects -> free, raw (under construction), built or deleted
          pc,        \* where each thread is in GetInstance
          tmp,       \* each thread's local: the pointer it got
          started,   \* the threads that run
          early,     \* history: one was started before Main had its pointer
          status     \* running, exiting or terminated (uncaught exception)

objVars == <<m_instance, m_ptr, heap>>
runVars == <<started, early, status>>
singletonVars == <<objVars, pc, tmp, runVars>>

Init ==
  /\ m_instance = Null /\ m_ptr = Null
  /\ heap = [o \in Objects |-> "free"]
  /\ pc = [t \in Threads |-> "idle"]
  /\ tmp = [t \in Threads |-> Null]
  /\ started = {Main} /\ early = FALSE
  /\ status = "running"

\* Thread t executes the statements at a, and is at b afterwards.
Step(t, a, b) ==
  /\ t \in started
  /\ status # "terminated"
  /\ pc[t] = a
  /\ pc' = [pc EXCEPT ![t] = b]

-----------------------------------------------------------------------------
(* GetInstance. *)

Call(t) == /\ Step(t, "idle", "load")
           /\ UNCHANGED <<objVars, tmp, runVars>>

\* The fast path, with the acquire fence.
Load(t) == /\ Step(t, "load", IF m_instance = Null THEN "reload" ELSE "idle")
           /\ tmp' = [tmp EXCEPT ![t] = m_instance]
           /\ UNCHANGED <<objVars, runVars>>

\* The second test, which nothing locks.
Reload(t) == /\ Step(t, "reload", IF m_instance = Null THEN "new" ELSE "idle")
             /\ tmp' = [tmp EXCEPT ![t] = m_instance]
             /\ UNCHANGED <<objVars, runVars>>

\* A GetInstance that publishes the address before the constructor has run.
MutNew(t) == /\ Step(t, "new", "construct")
             /\ \E o \in Objects : /\ heap[o] = "free"
                                   /\ heap' = [heap EXCEPT ![o] = "raw"]
                                   /\ tmp' = [tmp EXCEPT ![t] = o]
                                   /\ m_instance' = o
             /\ UNCHANGED <<m_ptr, runVars>>

\* new T: memory,
New(t) == /\ Step(t, "new", "construct")
          /\ \E o \in Objects : /\ heap[o] = "free"
                                /\ heap' = [heap EXCEPT ![o] = "raw"]
                                /\ tmp' = [tmp EXCEPT ![t] = o]
          /\ UNCHANGED <<m_instance, m_ptr, runVars>>

\* and the constructor,
Construct(t) == /\ Step(t, "construct", "guard")
                /\ heap' = [heap EXCEPT ![tmp[t]] = "built"]
                /\ UNCHANGED <<m_instance, m_ptr, tmp, runVars>>

\* which may throw (Logger's, if the file cannot be opened): no caller catches it.
ConstructFails(t) == /\ Step(t, "construct", "construct")
                     /\ status' = "terminated"
                     /\ UNCHANGED <<objVars, tmp, started, early>>

\* A GetInstance that does not tell the guard.
MutGuard(t) == /\ Step(t, "guard", "store")
               /\ UNCHANGED <<objVars, tmp, runVars>>

Guard(t) == /\ Step(t, "guard", "store")
            /\ m_ptr' = tmp[t]
            /\ UNCHANGED <<m_instance, heap, tmp, runVars>>

\* A GetInstance that does not publish its object.
MutStore(t) == /\ Step(t, "store", "idle")
               /\ UNCHANGED <<objVars, tmp, runVars>>

\* The release fence and the store; GetInstance returns.
Store(t) == /\ Step(t, "store", "idle")
            /\ m_instance' = tmp[t]
            /\ UNCHANGED <<m_ptr, heap, tmp, runVars>>

GetInstance(t) == \/ Call(t) \/ Load(t) \/ Reload(t) \/ New(t)
                  \/ Construct(t) \/ ConstructFails(t) \/ Guard(t) \/ Store(t)

-----------------------------------------------------------------------------
(* The threads of the program. *)

\* Main starts a thread.
Start(t) == /\ Step(Main, "idle", "idle")
            /\ t \notin started
            /\ started' = started \cup {t}
            /\ early' = (early \/ tmp[Main] = Null)
            /\ UNCHANGED <<objVars, tmp, status>>

\* A thread function returns.
Finish(t) == /\ t # Main
             /\ Step(t, "idle", "ended")
             /\ UNCHANGED <<objVars, tmp, runVars>>

\* Thread t, which may be main, calls exit, or main returns: ~DtorGard runs while
\* the threads that are left go on.
Exit(t) == /\ status = "running"
           /\ Step(t, "idle", "ended")
           /\ status' = "exiting"
           /\ heap' = [o \in Objects |-> IF o = m_ptr THEN "deleted" ELSE heap[o]]
           /\ UNCHANGED <<m_instance, m_ptr, tmp, started, early>>

Run(t) == Start(t) \/ Finish(t) \/ Exit(t)

Next == \E t \in Threads : GetInstance(t) \/ Run(t)

Spec == Init /\ [][Next]_singletonVars

-----------------------------------------------------------------------------
Places == {"idle", "load", "reload", "new", "construct", "guard", "store", "ended"}

\* The shared and the local pointers are addresses or null; each thread is at
\* one place of GetInstance.
SingletonTypeOK ==
  /\ m_instance \in Objects \cup {Null} /\ m_ptr \in Objects \cup {Null}
  /\ heap \in [Objects -> {"free", "raw", "built", "deleted"}]
  /\ pc \in [Threads -> Places]
  /\ tmp \in [Threads -> Objects \cup {Null}]
  /\ Main \in started /\ started \subseteq Threads
  /\ early \in BOOLEAN
  /\ status \in {"running", "exiting", "terminated"}

\* t holds a pointer that GetInstance has returned.
Holds(t) == tmp[t] # Null /\ pc[t] \in {"idle", "ended"}

\* However many threads are inside GetInstance, a pointer that it returns, or
\* that the next caller will load, is to a constructed object, until the
\* process begins to end.
ReturnedIsBuilt ==
  status = "running" =>
    /\ m_instance # Null => heap[m_instance] = "built"
    /\ \A t \in Threads : Holds(t) => heap[tmp[t]] = "built"

\* What the service relies on instead of the lock: when no thread is started
\* before Main's first call has returned, all threads get the same instance.
SameInstanceIfMainFirst ==
  ~early => \A t, u \in Threads : Holds(t) /\ Holds(u) => tmp[t] = tmp[u]

\* And then the guard deletes all that was constructed.
ExitDeletesInstance ==
  (~early /\ status = "exiting") => \A o \in Objects : heap[o] \in {"free", "deleted"}

\* "Acquires a lock using std::lock_guard to ensure exclusive access" (the
\* comment of singleton.hpp:82): all threads get the same instance.
SameInstance == \A t, u \in Threads : Holds(t) /\ Holds(u) => tmp[t] = tmp[u]
==============================================================================
