-------------------------------- MODULE Logger --------------------------------
(***************************************************************************)
(* The logger (src/logger.cpp) and the threads that use it through         *)
(* Singleton<Logger>.  Write and SetFile begin like GetInstance with a     *)
(* lock that is a function declaration: Write puts the parts of its line   *)
(* into the stream, and SetFile closes and opens it, with nothing to keep  *)
(* another thread out.  All instances append to the same file.             *)
(***************************************************************************)
EXTENDS Naturals, Sequences, SequencesExt

CONSTANTS Threads, Main, Objects, Null,
          MaxLines,     \* bound: lines that are written
          MaxSettings   \* bound: calls of SetFile and of SetLogLevel

ASSUME LoggerAssumption ==
  /\ Main \in Threads
  /\ Null \notin Objects \cup Threads
  /\ MaxLines \in Nat /\ MaxSettings \in Nat

VARIABLES m_instance, m_ptr, heap, pc, tmp, started, early, status,
          m_log_level, m_ostrm,  \* of each Logger: its level; whether its stream is open
          at,        \* where each thread is in Write or SetFile
          log,       \* the file: which thread wrote which part of a line
          lines, settings,
          alone,     \* history: the threads whose call no other call overlaps
          lost       \* history: SetFile has thrown, the stream stays closed

Single == INSTANCE Singleton

callVars == <<pc, tmp, started, early, status>>
vars == <<m_instance, m_ptr, heap, callVars, m_log_level, m_ostrm, at, log,
          lines, settings, alone, lost>>

\* Loglevel
Error == 0
Info  == 1
Debug == 2

Levels == Error .. Debug

Init ==
  /\ Single!Init
  /\ m_log_level = [o \in Objects |-> Error]
  /\ m_ostrm = [o \in Objects |-> TRUE]
  /\ at = [t \in Threads |-> "out"]
  /\ log = <<>> /\ lines = 0 /\ settings = 0
  /\ alone = {} /\ lost = FALSE

\* A thread that asks for the instance again in the middle of a call.
MutProgram(t) ==
  /\ Single!GetInstance(t) \/ Single!Run(t)
  /\ UNCHANGED <<m_log_level, m_ostrm, at, log, lines, settings, alone, lost>>

\* A thread outside of the Logger goes on with GetInstance, or starts, ends.
Program(t) ==
  /\ at[t] = "out"
  /\ Single!GetInstance(t) \/ Single!Run(t)
  /\ UNCHANGED <<m_log_level, m_ostrm, at, log, lines, settings, alone, lost>>

-----------------------------------------------------------------------------
(* The member functions, called through the pointer the thread has got. *)

Others(t) == {u \in Threads \ {t} : at[u] # "out"}

\* Thread t goes from a to b in a member function of its Logger.
Step(t, a, b) ==
  /\ t \in started /\ status # "terminated"
  /\ pc[t] = "idle" /\ tmp[t] # Null
  /\ at[t] = a /\ at' = [at EXCEPT ![t] = b]
  /\ UNCHANGED <<m_instance, m_ptr, heap, callVars>>

\* The call ends whatever peace the others had.
Enter(t) == alone' = IF Others(t) = {} THEN {t} ELSE {}

\* if (level <= m_log_level): otherwise the call writes nothing.
WriteCall(t, level) ==
  /\ Step(t, "out", "head")
  /\ lines < MaxLines /\ lines' = lines + 1
  /\ level <= m_log_level[tmp[t]]
  /\ Enter(t)
  /\ UNCHANGED <<m_log_level, m_ostrm, log, settings, lost>>

\* The chain of << is several calls on the stream; one that is closed takes none.
Put(t, part) ==
  /\ log' = IF m_ostrm[tmp[t]] THEN Append(log, <<t, part>>) ELSE log
  /\ UNCHANGED <<m_log_level, m_ostrm, lines, settings, alone, lost>>

WriteHead(t) == Step(t, "head", "tail") /\ Put(t, "head")
WriteTail(t) == Step(t, "tail", "out") /\ Put(t, "tail")

\* SetFile closes the stream,
CloseFile(t) ==
  /\ Step(t, "out", "reopen")
  /\ settings < MaxSettings /\ settings' = settings + 1
  /\ m_ostrm' = [m_ostrm EXCEPT ![tmp[t]] = FALSE]
  /\ Enter(t)
  /\ UNCHANGED <<m_log_level, log, lines, lost>>

\* A SetFile that only remembers the name.
MutOpenFile(t) ==
  /\ Step(t, "reopen", "out")
  /\ UNCHANGED <<m_log_level, m_ostrm, log, lines, settings, alone, lost>>

\* and opens it under the new name,
OpenFile(t) ==
  /\ Step(t, "reopen", "out")
  /\ m_ostrm' = [m_ostrm EXCEPT ![tmp[t]] = TRUE]
  /\ UNCHANGED <<m_log_level, log, lines, settings, alone, lost>>

\* or throws if it cannot.
OpenFails(t) ==
  /\ Step(t, "reopen", "out")
  /\ lost' = TRUE
  /\ UNCHANGED <<m_log_level, m_ostrm, log, lines, settings, alone>>

SetLogLevel(t, level) ==
  /\ Step(t, "out", "out")
  /\ settings < MaxSettings /\ settings' = settings + 1
  /\ m_log_level' = [m_log_level EXCEPT ![tmp[t]] = level]
  /\ UNCHANGED <<m_ostrm, log, lines, alone, lost>>

Use(t) == \/ \E level \in Levels : WriteCall(t, level) \/ SetLogLevel(t, level)
          \/ WriteHead(t) \/ WriteTail(t)
          \/ CloseFile(t) \/ OpenFile(t) \/ OpenFails(t)

Next == \E t \in Threads : Program(t) \/ Use(t)

Spec == Init /\ [][Next]_vars

-----------------------------------------------------------------------------
\* The logger's state is well typed; a thread that is in a member function has
\* a Logger and is not in GetInstance.
TypeOK ==
  /\ Single!SingletonTypeOK
  /\ m_log_level \in [Objects -> Levels]
  /\ m_ostrm \in [Objects -> BOOLEAN]
  /\ at \in [Threads -> {"out", "head", "tail", "reopen"}]
  /\ \A t \in Threads : at[t] # "out" => tmp[t] # Null /\ pc[t] = "idle"
  /\ log \in Seq(Threads \X {"head", "tail"})
  /\ lines \in 0 .. MaxLines /\ settings \in 0 .. MaxSettings
  /\ alone \subseteq Threads
  /\ lost \in BOOLEAN

\* However many threads are in GetInstance at once, a pointer it returns or
\* will return is to a constructed Logger, until the process begins to end.
ReturnedIsBuilt == Single!ReturnedIsBuilt

\* When main gets its pointer before it starts a thread, as InitLogger does,
\* all threads get the same Logger although nothing is locked,
SameInstanceIfMainFirst == Single!SameInstanceIfMainFirst

\* and the guard leaves none behind.
ExitDeletesInstance == Single!ExitDeletesInstance

\* A line that no other call of Write or SetFile overlaps is whole and in the
\* file, whatever SetFile did before, unless SetFile has thrown.
LineWholeIfAlone ==
  \A t \in alone : at[t] = "tail" /\ ~lost => log # <<>> /\ Last(log) = <<t, "head">>

\* "Acquires a lock using std::lock_guard to ensure exclusive access" (the
\* comment of singleton.hpp:82): all threads get the same instance.
SameInstance == Single!SameInstance
==============================================================================
