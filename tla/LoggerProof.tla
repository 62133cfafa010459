----------------------------- MODULE LoggerProof ------------------------------
(***************************************************************************)
(* Proofs about GetInstance and the logger, for every set of threads and   *)
(* of addresses.                                                           *)
(***************************************************************************)
EXTENDS Logger, TLAPS

(***************************************************************************)
(* The logger's operations leave the state of the singleton alone.         *)
(***************************************************************************)
LEMMA UseLeaves ==
  ASSUME NEW t \in Threads, Use(t)
  PROVE  UNCHANGED Single!singletonVars
BY DEF Use, WriteCall, SetLogLevel, WriteHead, WriteTail, CloseFile, OpenFile,
       OpenFails, Step, callVars, Single!singletonVars, Single!objVars, Single!runVars

LEMMA NextCases ==
  ASSUME [Next]_vars
  PROVE  \/ \E t \in Threads : Single!GetInstance(t)
         \/ \E t \in Threads : Single!Run(t)
         \/ UNCHANGED Single!singletonVars
<1>1. ASSUME NEW t \in Threads, Use(t) PROVE UNCHANGED Single!singletonVars
  BY <1>1, UseLeaves
<1>2. CASE UNCHANGED vars
  BY <1>2 DEF vars, callVars, Single!singletonVars, Single!objVars, Single!runVars
<1>3. ASSUME NEW t \in Threads, Program(t)
      PROVE  Single!GetInstance(t) \/ Single!Run(t)
  BY <1>3 DEF Program
<1>. QED  BY <1>1, <1>2, <1>3 DEF Next

(***************************************************************************)
(* Types.                                                                  *)
(***************************************************************************)
LEMMA SingletonTypeStep ==
  ASSUME Single!SingletonTypeOK, [Next]_vars
  PROVE  Single!SingletonTypeOK'
<1> USE LoggerAssumption DEF LoggerAssumption, Single!SingletonTypeOK, Single!Places, Single!Step,
        Single!objVars, Single!runVars
<1>1. ASSUME NEW t \in Threads, Single!GetInstance(t) PROVE Single!SingletonTypeOK'
  <2>1. CASE Single!Call(t)            BY <2>1 DEF Single!Call
  <2>2. CASE Single!Load(t)            BY <2>2 DEF Single!Load
  <2>3. CASE Single!Reload(t)          BY <2>3 DEF Single!Reload
  <2>4. CASE Single!New(t)             BY <2>4 DEF Single!New
  <2>5. CASE Single!Construct(t)       BY <2>5 DEF Single!Construct
  <2>6. CASE Single!ConstructFails(t)  BY <2>6 DEF Single!ConstructFails
  <2>7. CASE Single!Guard(t)           BY <2>7 DEF Single!Guard
  <2>8. CASE Single!Store(t)           BY <2>8 DEF Single!Store
  <2>. QED  BY <1>1, <2>1, <2>2, <2>3, <2>4, <2>5, <2>6, <2>7, <2>8 DEF Single!GetInstance
<1>2. ASSUME NEW t \in Threads, Single!Run(t) PROVE Single!SingletonTypeOK'
  <2>1. ASSUME NEW u \in Threads, Single!Start(u) PROVE Single!SingletonTypeOK'
    BY <2>1 DEF Single!Start
  <2>2. CASE Single!Finish(t)  BY <2>2 DEF Single!Finish
  <2>3. CASE Single!Exit(t)    BY <2>3 DEF Single!Exit
  <2>. QED  BY <1>2, <2>1, <2>2, <2>3 DEF Single!Run
<1>3. CASE UNCHANGED Single!singletonVars
  BY <1>3 DEF Single!singletonVars
<1>. QED  BY <1>1, <1>2, <1>3, NextCases

LEMMA TypeStep ==
  ASSUME TypeOK, [Next]_vars
  PROVE  TypeOK'
<1> USE LoggerAssumption DEF LoggerAssumption
<1>1. Single!SingletonTypeOK'
  BY SingletonTypeStep DEF TypeOK
<1> DEFINE Rest ==
  /\ m_log_level \in [Objects -> Levels]
  /\ m_ostrm \in [Objects -> BOOLEAN]
  /\ at \in [Threads -> {"out", "head", "tail", "reopen"}]
  /\ log \in Seq(Threads \X {"head", "tail"})
  /\ lines \in 0 .. MaxLines /\ settings \in 0 .. MaxSettings
  /\ alone \subseteq Threads
  /\ lost \in BOOLEAN
<1> DEFINE Inside == \A t \in Threads : at[t] # "out" => tmp[t] # Null /\ pc[t] = "idle"
<1>2. Rest
  BY DEF TypeOK
<1>3. Rest' /\ Inside'
  <2> USE <1>2 DEF TypeOK
  <2>1. ASSUME NEW t \in Threads, Program(t) PROVE Rest' /\ Inside'
    <3>1. Rest'
      BY <2>1 DEF Program
    <3>2. \A u \in Threads \ {t} : pc'[u] = pc[u] /\ tmp'[u] = tmp[u]
      <4>1. CASE Single!GetInstance(t)
        BY <4>1 DEF Single!GetInstance, Single!Call, Single!Load, Single!Reload, Single!New,
             Single!Construct, Single!ConstructFails, Single!Guard, Single!Store, Single!Step,
             Single!SingletonTypeOK, Single!Places
      <4>2. CASE Single!Run(t)
        <5>1. ASSUME NEW u \in Threads, Single!Start(u)
              PROVE  \A v \in Threads : pc'[v] = pc[v] /\ tmp'[v] = tmp[v]
          BY <5>1 DEF Single!Start, Single!Step, Single!SingletonTypeOK, Single!Places
        <5>. QED
          BY <4>2, <5>1 DEF Single!Run, Single!Finish, Single!Exit, Single!Step,
               Single!SingletonTypeOK, Single!Places
      <4>. QED  BY <2>1, <4>1, <4>2 DEF Program
    <3>3. Inside'
      BY <2>1, <3>2 DEF Program
    <3>. QED  BY <3>1, <3>3
  <2>2. ASSUME NEW t \in Threads, Use(t) PROVE Rest' /\ Inside'
    <3> USE DEF Step, callVars, Single!SingletonTypeOK, Enter, Levels, Error, Debug
    <3>1. ASSUME NEW level \in Levels, WriteCall(t, level) PROVE Rest' /\ Inside'
      BY <3>1 DEF WriteCall
    <3>2. ASSUME NEW level \in Levels, SetLogLevel(t, level) PROVE Rest' /\ Inside'
      BY <3>2 DEF SetLogLevel
    <3>3. ASSUME NEW part \in {"head", "tail"}, Put(t, part) PROVE log' \in Seq(Threads \X {"head", "tail"})
      BY <3>3 DEF Put
    <3>4. CASE WriteHead(t)  BY <3>3, <3>4 DEF WriteHead, Put
    <3>5. CASE WriteTail(t)  BY <3>3, <3>5 DEF WriteTail, Put
    <3>6. CASE CloseFile(t)  BY <3>6 DEF CloseFile
    <3>7. CASE OpenFile(t)   BY <3>7 DEF OpenFile
    <3>8. CASE OpenFails(t)  BY <3>8 DEF OpenFails
    <3>. QED  BY <2>2, <3>1, <3>2, <3>4, <3>5, <3>6, <3>7, <3>8 DEF Use
  <2>3. CASE UNCHANGED vars
    BY <2>3 DEF vars, callVars
  <2>. QED  BY <2>1, <2>2, <2>3 DEF Next
<1>. QED  BY <1>1, <1>3 DEF TypeOK

\* The state of GetInstance and of the logger is well typed, and no thread is in
\* a member function without a Logger.
THEOREM LoggerTypeCorrect == Spec => []TypeOK
<1>1. Init => TypeOK
  <2> SUFFICES ASSUME Init PROVE TypeOK
    OBVIOUS
  <2> USE LoggerAssumption DEF LoggerAssumption, Init, Single!Init
  <2>1. Single!SingletonTypeOK
    BY DEF Single!SingletonTypeOK, Single!Places
  <2>2. log \in Seq(Threads \X {"head", "tail"})
    OBVIOUS
  <2>3. m_log_level \in [Objects -> Levels] /\ lines \in 0 .. MaxLines /\ settings \in 0 .. MaxSettings
    BY DEF Levels, Error, Debug
  <2>. QED  BY <2>1, <2>2, <2>3 DEF TypeOK
<1>2. TypeOK /\ [Next]_vars => TypeOK'
  BY TypeStep
<1>. QED  BY <1>1, <1>2, PTL DEF Spec

(***************************************************************************)
(* A pointer that is returned is to a constructed object: while the        *)
(* process runs, so is every pointer on its way out of GetInstance.        *)
(***************************************************************************)
BuiltAt(t) == CASE pc[t] \in {"idle", "ended"} -> tmp[t] # Null => heap[tmp[t]] = "built"
                [] pc[t] = "construct"         -> tmp[t] \in Objects
                [] pc[t] \in {"guard", "store"} -> tmp[t] \in Objects /\ heap[tmp[t]] = "built"
                [] OTHER                       -> TRUE

BuiltInv == status = "running" =>
              /\ m_instance # Null => heap[m_instance] = "built"
              /\ \A t \in Threads : BuiltAt(t)

LEMMA BuiltStep ==
  ASSUME Single!SingletonTypeOK, BuiltInv, [Next]_vars
  PROVE  BuiltInv'
<1> USE LoggerAssumption DEF LoggerAssumption, BuiltInv, BuiltAt, Single!SingletonTypeOK,
        Single!Places, Single!Step, Single!objVars, Single!runVars
<1>1. ASSUME NEW t \in Threads, Single!GetInstance(t) PROVE BuiltInv'
  <2>1. CASE Single!Call(t)            BY <2>1 DEF Single!Call
  <2>2. CASE Single!Load(t)            BY <2>2 DEF Single!Load
  <2>3. CASE Single!Reload(t)          BY <2>3 DEF Single!Reload
  <2>4. CASE Single!New(t)             BY <2>4 DEF Single!New
  <2>5. CASE Single!Construct(t)       BY <2>5 DEF Single!Construct
  <2>6. CASE Single!ConstructFails(t)  BY <2>6 DEF Single!ConstructFails
  <2>7. CASE Single!Guard(t)           BY <2>7 DEF Single!Guard
  <2>8. CASE Single!Store(t)           BY <2>8 DEF Single!Store
  <2>. QED  BY <1>1, <2>1, <2>2, <2>3, <2>4, <2>5, <2>6, <2>7, <2>8 DEF Single!GetInstance
<1>2. ASSUME NEW t \in Threads, Single!Run(t) PROVE BuiltInv'
  <2>1. ASSUME NEW u \in Threads, Single!Start(u) PROVE BuiltInv'
    BY <2>1 DEF Single!Start
  <2>2. CASE Single!Finish(t)  BY <2>2 DEF Single!Finish
  <2>3. CASE Single!Exit(t)    BY <2>3 DEF Single!Exit
  <2>. QED  BY <1>2, <2>1, <2>2, <2>3 DEF Single!Run
<1>3. CASE UNCHANGED Single!singletonVars
  BY <1>3 DEF Single!singletonVars
<1>. QED  BY <1>1, <1>2, <1>3, NextCases

\* No lock is needed for this: a pointer that GetInstance returns, or that it has
\* published, is to a constructed object for as long as the process runs.
THEOREM ReturnedBuilt == Spec => []ReturnedIsBuilt
<1>1. Init => BuiltInv
  BY DEF Init, Single!Init, BuiltInv, BuiltAt
<1>2. TypeOK /\ BuiltInv /\ [Next]_vars => BuiltInv'
  BY BuiltStep DEF TypeOK
<1>3. BuiltInv => ReturnedIsBuilt
  BY DEF BuiltInv, BuiltAt, ReturnedIsBuilt, Single!ReturnedIsBuilt, Single!Holds
<1>. QED  BY <1>1, <1>2, <1>3, LoggerTypeCorrect, PTL DEF Spec

(***************************************************************************)
(* While no thread was started too early, either Main is alone and has no  *)
(* pointer yet, or there is one object, which everybody gets.              *)
(***************************************************************************)
Untouched == /\ tmp[Main] = Null /\ m_ptr = Null /\ \A o \in Objects : heap[o] = "free"
             /\ status = "exiting" => pc[Main] = "ended"

Making == /\ tmp[Main] \in Objects /\ status # "exiting"
          /\ \A o \in Objects \ {tmp[Main]} : heap[o] = "free"

Alone ==
  /\ started = {Main} /\ m_instance = Null
  /\ \A t \in Threads \ {Main} : pc[t] = "idle" /\ tmp[t] = Null
  /\ \/ pc[Main] \in {"idle", "load", "reload", "new", "ended"} /\ Untouched
     \/ pc[Main] \in {"construct", "guard"} /\ Making
     \/ pc[Main] = "store" /\ Making /\ m_ptr = tmp[Main]

Settled ==
  /\ m_instance \in Objects /\ m_ptr = m_instance
  /\ \A t \in Threads : pc[t] \in {"idle", "load", "ended"} /\ tmp[t] \in {Null, m_instance}
  /\ \A o \in Objects \ {m_instance} : heap[o] = "free"
  /\ status = "exiting" => heap[m_instance] = "deleted"

FirstInv == ~early => Alone \/ Settled

LEMMA FirstStep ==
  ASSUME Single!SingletonTypeOK, FirstInv, [Next]_vars
  PROVE  FirstInv'
<1> USE LoggerAssumption DEF LoggerAssumption, Single!SingletonTypeOK,
        Single!Places, Single!Step, Single!objVars, Single!runVars
<1>1. CASE UNCHANGED Single!singletonVars
  BY <1>1 DEF Single!singletonVars, FirstInv, Alone, Settled, Untouched, Making
<1>2. CASE early
  <2>1. ASSUME NEW t \in Threads, Single!GetInstance(t) PROVE early'
    BY <1>2, <2>1 DEF Single!GetInstance, Single!Call, Single!Load, Single!Reload, Single!New,
         Single!Construct, Single!ConstructFails, Single!Guard, Single!Store
  <2>2. ASSUME NEW t \in Threads, Single!Run(t) PROVE early'
    BY <1>2, <2>2 DEF Single!Run, Single!Start, Single!Finish, Single!Exit
  <2>. QED  BY <1>1, <2>1, <2>2, NextCases DEF FirstInv
<1>3. CASE Alone /\ ~early
  <2> USE <1>3 DEF FirstInv
  <2>1. ASSUME NEW t \in Threads, Single!GetInstance(t) PROVE Alone' \/ Settled'
    <3>0. t = Main
      BY <2>1 DEF Alone, Single!GetInstance, Single!Call, Single!Load, Single!Reload, Single!New,
         Single!Construct, Single!ConstructFails, Single!Guard, Single!Store
    <3> USE <3>0 DEF Alone, Untouched, Making
    <3>1. CASE Single!Call(t)            BY <3>1 DEF Single!Call
    <3>2. CASE Single!Load(t)            BY <3>2 DEF Single!Load
    <3>3. CASE Single!Reload(t)          BY <3>3 DEF Single!Reload
    <3>4. CASE Single!New(t)             BY <3>4 DEF Single!New
    <3>5. CASE Single!Construct(t)       BY <3>5 DEF Single!Construct
    <3>6. CASE Single!ConstructFails(t)  BY <3>6 DEF Single!ConstructFails
    <3>7. CASE Single!Guard(t)           BY <3>7 DEF Single!Guard
    <3>8. CASE Single!Store(t)           BY <3>8 DEF Single!Store, Settled
    <3>. QED  BY <2>1, <3>1, <3>2, <3>3, <3>4, <3>5, <3>6, <3>7, <3>8 DEF Single!GetInstance
  <2>2. ASSUME NEW t \in Threads, Single!Run(t) PROVE FirstInv'
    <3>1. ASSUME NEW u \in Threads, Single!Start(u) PROVE early'
      BY <3>1 DEF Single!Start, Alone, Untouched
    <3>2. CASE Single!Finish(t)  BY <3>2 DEF Single!Finish, Alone
    <3>3. CASE Single!Exit(t)    BY <3>3 DEF Single!Exit, Alone, Untouched
    <3>. QED  BY <2>2, <3>1, <3>2, <3>3 DEF Single!Run
  <2>. QED  BY <1>1, <2>1, <2>2, NextCases
<1>4. CASE Settled /\ ~early
  <2> USE <1>4 DEF Settled
  <2>1. ASSUME NEW t \in Threads, Single!GetInstance(t) PROVE Settled'
    <3>1. Single!Call(t) \/ Single!Load(t)
      BY <2>1 DEF Single!GetInstance, Single!Reload, Single!New,
         Single!Construct, Single!ConstructFails, Single!Guard, Single!Store
    <3>. QED  BY <3>1 DEF Single!Call, Single!Load
  <2>2. ASSUME NEW t \in Threads, Single!Run(t) PROVE Settled'
    <3>1. ASSUME NEW u \in Threads, Single!Start(u) PROVE Settled'
      BY <3>1 DEF Single!Start
    <3>2. CASE Single!Finish(t)  BY <3>2 DEF Single!Finish
    <3>3. CASE Single!Exit(t)    BY <3>3 DEF Single!Exit
    <3>. QED  BY <2>2, <3>1, <3>2, <3>3 DEF Single!Run
  <2>. QED  BY <1>1, <2>1, <2>2, NextCases DEF FirstInv
<1>. QED  BY <1>2, <1>3, <1>4 DEF FirstInv

\* Main's early first call stands in for the missing lock: without a thread that
\* is started before it has returned, all threads get the same instance,
THEOREM OneInstance == Spec => []SameInstanceIfMainFirst
<1>1. Init => FirstInv
  BY LoggerAssumption DEF LoggerAssumption, Init, Single!Init, FirstInv, Alone, Untouched
<1>2. TypeOK /\ FirstInv /\ [Next]_vars => FirstInv'
  BY FirstStep DEF TypeOK
<1>3. TypeOK /\ FirstInv => SameInstanceIfMainFirst
  BY DEF TypeOK, Single!SingletonTypeOK, FirstInv, Alone, Settled, Untouched, SameInstanceIfMainFirst, Single!SameInstanceIfMainFirst, Single!Holds
<1>. QED  BY <1>1, <1>2, <1>3, LoggerTypeCorrect, PTL DEF Spec

\* and the guard deletes every one that was made.
THEOREM GuardDeletesAll == Spec => []ExitDeletesInstance
<1>1. Init => FirstInv
  BY LoggerAssumption DEF LoggerAssumption, Init, Single!Init, FirstInv, Alone, Untouched
<1>2. TypeOK /\ FirstInv /\ [Next]_vars => FirstInv'
  BY FirstStep DEF TypeOK
<1>3. TypeOK /\ FirstInv => ExitDeletesInstance
  BY DEF TypeOK, Single!SingletonTypeOK, FirstInv, Alone, Settled, Untouched, Making,
     ExitDeletesInstance, Single!ExitDeletesInstance
<1>. QED  BY <1>1, <1>2, <1>3, LoggerTypeCorrect, PTL DEF Spec

(***************************************************************************)
(* Lines.  A closed stream has a thread in the middle of SetFile, unless   *)
(* SetFile has thrown; a call that is alone meets none.                    *)
(***************************************************************************)
LineInv ==
  /\ \A t \in alone : at[t] # "out" => Others(t) = {}
  /\ ~lost => \A o \in Objects : ~m_ostrm[o] => \E u \in Threads : at[u] = "reopen" /\ tmp[u] = o
  /\ LineWholeIfAlone

\* A thread inside a call of the logger keeps its pointer.
LEMMA ProgramLeaves ==
  ASSUME TypeOK, NEW t \in Threads, Program(t)
  PROVE  /\ UNCHANGED <<m_ostrm, at, log, alone, lost>>
         /\ \A u \in Threads : at[u] # "out" => tmp'[u] = tmp[u]
<1>1. UNCHANGED <<m_ostrm, at, log, alone, lost>> /\ at[t] = "out"
  BY DEF Program
<1>2. tmp \in [Threads -> Objects \cup {Null}]
  BY DEF TypeOK, Single!SingletonTypeOK
<1>3. \A u \in Threads \ {t} : tmp'[u] = tmp[u]
  <2>1. CASE Single!GetInstance(t)
    BY <1>2, <2>1 DEF Single!GetInstance, Single!Call, Single!Load, Single!Reload, Single!New,
       Single!Construct, Single!ConstructFails, Single!Guard, Single!Store
  <2>2. CASE Single!Run(t)
    BY <2>2 DEF Single!Run, Single!Start, Single!Finish, Single!Exit
  <2>. QED  BY <2>1, <2>2 DEF Program
<1>. QED  BY <1>1, <1>3

LEMMA LineStep ==
  ASSUME TypeOK, LineInv, [Next]_vars
  PROVE  LineInv'
<1>0. /\ at \in [Threads -> {"out", "head", "tail", "reopen"}]
      /\ m_ostrm \in [Objects -> BOOLEAN] /\ alone \subseteq Threads
      /\ log \in Seq(Threads \X {"head", "tail"})
      /\ \A t \in Threads : at[t] # "out" => tmp[t] \in Objects
  BY DEF TypeOK, Single!SingletonTypeOK
<1>1. ASSUME NEW t \in Threads, Program(t) PROVE LineInv'
  BY <1>1, ProgramLeaves DEF LineInv, Others, LineWholeIfAlone
<1>2. CASE UNCHANGED vars
  BY <1>2 DEF vars, callVars, LineInv, Others, LineWholeIfAlone
\* Whoever enters ends the peace of the others.
<1>3. ASSUME NEW t \in Threads, NEW b \in {"head", "reopen"},
             at[t] = "out", at' = [at EXCEPT ![t] = b], Enter(t), lost' = lost, tmp' = tmp,
             \/ m_ostrm' = m_ostrm
             \/ b = "reopen" /\ m_ostrm' = [m_ostrm EXCEPT ![tmp[t]] = FALSE]
      PROVE  LineInv'
  <2>1. at'[t] = b /\ \A u \in Threads \ {t} : at'[u] = at[u]
    BY <1>0, <1>3
  <2>2. \A u \in alone' : u = t /\ Others(t) = {}
    BY <1>3 DEF Enter
  <2>3. \A u \in alone' : at'[u] # "out" => Others(u)' = {}
    BY <2>1, <2>2 DEF Others
  <2>4. ~lost' => \A o \in Objects :
          ~m_ostrm'[o] => \E u \in Threads : at'[u] = "reopen" /\ tmp'[u] = o
    BY <1>0, <1>3, <2>1 DEF LineInv
  <2>5. LineWholeIfAlone'
    BY <2>1, <2>2 DEF LineWholeIfAlone
  <2>. QED  BY <2>3, <2>4, <2>5 DEF LineInv
<1>4. ASSUME NEW t \in Threads, NEW level \in Levels, WriteCall(t, level) PROVE LineInv'
  BY <1>3, <1>4 DEF WriteCall, Step, callVars
<1>5. ASSUME NEW t \in Threads, CloseFile(t) PROVE LineInv'
  BY <1>3, <1>5 DEF CloseFile, Step, callVars
<1>6. ASSUME NEW t \in Threads, WriteHead(t) PROVE LineInv'
  <2>1. /\ at[t] = "head" /\ at' = [at EXCEPT ![t] = "tail"] /\ tmp[t] \in Objects
        /\ log' = (IF m_ostrm[tmp[t]] THEN Append(log, <<t, "head">>) ELSE log)
        /\ UNCHANGED <<m_ostrm, alone, lost, tmp>>
    BY <1>0, <1>6 DEF WriteHead, Put, Step, callVars
  <2>2. at'[t] = "tail" /\ \A u \in Threads \ {t} : at'[u] = at[u]
    BY <1>0, <2>1
  <2>3. \A u \in alone' : at'[u] # "out" => u = t /\ Others(t) = {}
    BY <1>0, <2>1, <2>2 DEF LineInv, Others
  <2>4. \A u \in alone' : at'[u] # "out" => Others(u)' = {}
    BY <2>2, <2>3 DEF Others
  <2>5. t \in alone /\ ~lost => m_ostrm[tmp[t]]
    BY <1>0, <2>1 DEF LineInv, Others
  <2>6. t \in alone /\ ~lost => log' # <<>> /\ Last(log') = <<t, "head">>
    <3> SUFFICES ASSUME t \in alone, ~lost PROVE log' # <<>> /\ Last(log') = <<t, "head">>
      OBVIOUS
    <3> DEFINE S == Threads \X {"head", "tail"}
               e == <<t, "head">>
    <3>1. log \in Seq(S) /\ e \in S /\ log' = Append(log, e)
      BY <1>0, <2>1, <2>5
    <3> HIDE DEF S, e
    <3>2. log' # <<>> /\ log'[Len(log')] = e
      BY ONLY <3>1
    <3>. QED  BY <3>2 DEF Last, e
  <2>7. LineWholeIfAlone'
    BY <2>1, <2>3, <2>6 DEF LineWholeIfAlone
  <2>8. ~lost' => \A o \in Objects :
          ~m_ostrm'[o] => \E u \in Threads : at'[u] = "reopen" /\ tmp'[u] = o
    BY <2>1, <2>2 DEF LineInv
  <2>. QED  BY <2>4, <2>7, <2>8 DEF LineInv
<1>7. ASSUME NEW t \in Threads, WriteTail(t) \/ OpenFile(t) \/ OpenFails(t) PROVE LineInv'
  <2>1. /\ at[t] \in {"tail", "reopen"} /\ at' = [at EXCEPT ![t] = "out"] /\ tmp[t] \in Objects
        /\ UNCHANGED <<alone, tmp>> /\ (lost => lost')
        /\ \/ at[t] = "tail" /\ m_ostrm' = m_ostrm
           \/ lost'
           \/ m_ostrm' = [m_ostrm EXCEPT ![tmp[t]] = TRUE]
    BY <1>0, <1>7 DEF WriteTail, OpenFile, OpenFails, Put, Step, callVars
  <2>2. at'[t] = "out" /\ \A u \in Threads \ {t} : at'[u] = at[u]
    BY <1>0, <2>1
  <2>3. \A u \in alone' : at'[u] = "out"
    BY <1>0, <2>1, <2>2 DEF LineInv, Others
  <2>4. ~lost' => \A o \in Objects :
          ~m_ostrm'[o] => \E u \in Threads : at'[u] = "reopen" /\ tmp'[u] = o
    BY <1>0, <2>1, <2>2 DEF LineInv
  <2>. QED  BY <2>3, <2>4 DEF LineInv, LineWholeIfAlone
<1>8. ASSUME NEW t \in Threads, NEW level \in Levels, SetLogLevel(t, level) PROVE LineInv'
  <2>1. at[t] = "out" /\ at' = [at EXCEPT ![t] = "out"] /\ UNCHANGED <<m_ostrm, log, alone, lost, tmp>>
    BY <1>8 DEF SetLogLevel, Step, callVars
  <2>2. at' = at
    BY <1>0, <2>1
  <2>. QED  BY <2>1, <2>2 DEF LineInv, Others, LineWholeIfAlone
<1>. QED  BY <1>1, <1>2, <1>4, <1>5, <1>6, <1>7, <1>8 DEF Next, Use

\* Without a lock, a line is whole and in the file if no other call overlaps its
\* own and SetFile has not thrown, for any threads, instances and calls.
THEOREM LineWhole == Spec => []LineWholeIfAlone
<1>1. Init => LineInv
  BY DEF Init, LineInv, LineWholeIfAlone
<1>2. TypeOK /\ LineInv /\ [Next]_vars => LineInv'
  BY LineStep
<1>3. LineInv => LineWholeIfAlone
  BY DEF LineInv
<1>. QED  BY <1>1, <1>2, <1>3, LoggerTypeCorrect, PTL DEF Spec
===============================================================================
