--------------------------- MODULE PlugAndPlayProof ---------------------------
(***************************************************************************)
(* Proofs about the plug-in facility, for any plug-ins and any events.     *)
(***************************************************************************)
EXTENDS PlugAndPlay, TLAPS

(***************************************************************************)
(* Events: what is reported names a file.                                  *)
(***************************************************************************)
Good == {u \in Units : u.mask \in Reported => u.file \in Files}

LEMMA EventGood ==
  ASSUME NEW mask \in Masks, NEW f \in Files \cup {None}, mask \in Reported => f \in Files
  PROVE  Event(mask, f) \in Seq(Good)
<1> DEFINE header == [part |-> "event", mask |-> mask, file |-> f]
<1>1. header \in Good /\ [header EXCEPT !.part = "name"] \in Good
  <2>1. header \in Units /\ header.mask = mask /\ header.file = f
    BY DEF Units
  <2>2. [header EXCEPT !.part = "name"] = [part |-> "name", mask |-> mask, file |-> f]
    OBVIOUS
  <2>3. [part |-> "name", mask |-> mask, file |-> f] \in Good
    BY DEF Good, Units
  <2>. QED  BY <2>1, <2>2, <2>3 DEF Good
<1>2. <<header>> \in Seq(Good) /\ <<header, [header EXCEPT !.part = "name"]>> \in Seq(Good)
  <2> HIDE DEF header
  <2>. QED  BY <1>1
<1>. QED  BY <1>2 DEF Event

LEMMA PutStepsGood ==
  ASSUME NEW f \in Files, NEW k \in 1 .. Len(PutSteps(f))
  PROVE  PutSteps(f)[k] \in Seq(Good) /\ k <= 4
<1>1. CASE f \in Moved
  <2>1. Event("MOVED_TO", f) \in Seq(Good)
    BY EventGood DEF Masks
  <2>. HIDE DEF Event
  <2>. QED  BY <1>1, <2>1 DEF PutSteps
<1>2. CASE f \notin Moved
  <2> DEFINE e1 == Event("CREATE", f) \o Event("OPEN", f)
             e2 == Event("MODIFY", f)
             e3 == Event("CLOSE_WRITE", f)
  <2>1. Event("CREATE", f) \in Seq(Good) /\ Event("OPEN", f) \in Seq(Good)
    BY EventGood DEF Masks
  <2>2. e1 \in Seq(Good)
    BY <2>1
  <2>3. e2 \in Seq(Good) /\ e3 \in Seq(Good)
    BY EventGood DEF Masks
  <2>4. PutSteps(f) = <<e1, e2, e2, e3>>
    BY <1>2 DEF PutSteps
  <2> HIDE DEF e1, e2, e3
  <2>5. k \in 1 .. 4
    BY <2>4
  <2>. QED  BY <2>2, <2>3, <2>4, <2>5
<1>. QED  BY <1>1, <1>2

LEMMA OpenedGood ==
  ASSUME NEW f \in Files
  PROVE  Opened(f) \in Seq(Good)
<1>1. /\ Event("OPEN", f) \in Seq(Good)
      /\ Event("ACCESS", f) \in Seq(Good)
      /\ Event("CLOSE_NOWRITE", f) \in Seq(Good)
  BY EventGood DEF Masks
<1>. QED  BY <1>1 DEF Opened

LEMMA EmitGood ==
  ASSUME NEW q \in Seq(Good), NEW e \in Seq(Good)
  PROVE  Emit(q, e) \in Seq(Good)
BY DEF Emit

(***************************************************************************)
(* Every reference the linker counts is recorded, or is about to be.       *)
(***************************************************************************)
Unrecorded(f) == IF mon = "push" /\ report = f THEN 1 ELSE 0

IInv ==
  /\ TypeOK
  /\ queue \in Seq(Good) /\ batch \in Seq(Good)
  /\ mon \in {"notify", "load", "push"} => report \in Files
  /\ MonitorFirstIsSafe
  /\ (first # "loader" /\ own \in {"run"} \cup Ending) => registered
  /\ (first = "monitor" /\ own \in {"dlclose", "unregister"}) => ~attached
  /\ \A f \in Files : refs[f] = m_loaded[f] + Unrecorded(f)
  /\ own \in {"~Dispatcher", "gone"} => mon = "ended"
  /\ (first = "monitor" /\ own \in {"dlclose", "unregister"}) => mon = "ended"
  /\ first = "none" <=> own \in Living
  /\ (own \in {"unregister", "gone"} \/ LoaderGone) /\ ~late
       => \A f \in Files : m_loaded[f] = 0

LEMMA InitIInv == Init => IInv
<1> SUFFICES ASSUME Init PROVE IInv
  OBVIOUS
<1> USE DEF Init
<1>1. queue \in Seq(Units) /\ batch \in Seq(Units)
      /\ queue \in Seq(Good) /\ batch \in Seq(Good)
  OBVIOUS
<1>2. /\ put \in [Files -> 0 .. 4] /\ lists \in 0 .. MaxLists /\ j \in Nat
      /\ m_loaded \in [Files -> Nat] /\ refs \in [Files -> Nat]
  BY PlugAssumption DEF PlugAssumption
<1>3. TypeOK
  BY <1>1, <1>2 DEF TypeOK, Living
<1>4. ASSUME NEW f \in Files PROVE refs[f] = m_loaded[f] + Unrecorded(f)
  <2>1. refs[f] = 0 /\ m_loaded[f] = 0 /\ mon # "push"
    OBVIOUS
  <2>. QED  BY <2>1 DEF Unrecorded
<1>. QED
  BY <1>1, <1>3, <1>4
     DEF IInv, Living, Ending, LoaderGone, MonitorFirstIsSafe

LEMMA PutKeeps ==
  ASSUME IInv, NEW f \in Files, Put(f)
  PROVE  put' \in [Files -> 0 .. 4] /\ queue' \in Seq(Good)
<1>0. put \in [Files -> 0 .. 4] /\ put[f] \in 0 .. 4 /\ queue \in Seq(Good)
  BY DEF IInv, TypeOK
<1>1. put' = [put EXCEPT ![f] = put[f] + 1] /\ put[f] < Len(PutSteps(f))
  BY DEF Put
<1>2. put'[f] = put[f] + 1
  BY <1>0, <1>1
<1>3. Len(PutSteps(f)) \in Nat
  BY DEF PutSteps
<1>4. put'[f] \in 1 .. Len(PutSteps(f))
  BY <1>0, <1>1, <1>2, <1>3
<1>5. PutSteps(f)[put'[f]] \in Seq(Good) /\ put'[f] <= 4
  BY <1>4, PutStepsGood
<1>6. put' \in [Files -> 0 .. 4]
  BY <1>0, <1>1, <1>2, <1>5
<1>. QED  BY <1>0, <1>5, <1>6, EmitGood DEF Put

LEMMA StepIInv ==
  ASSUME IInv, [Next]_vars
  PROVE  IInv'
<1> USE PlugAssumption DEF PlugAssumption, user, monitor, loader, owner
<1> USE DEF IInv
<1>0. Good \subseteq Units
  BY DEF Good
<1> DEFINE Calm == status = "up" /\ UNCHANGED status
           Same == UNCHANGED <<own, first, registered, attached>>
<1>b. ASSUME Calm PROVE status' # "crashed" /\ MonitorFirstIsSafe'
  BY <1>b DEF MonitorFirstIsSafe
<1>1. ASSUME NEW f \in Files, Put(f), status = "up" PROVE IInv'
  <2>1. put' \in [Files -> 0 .. 4] /\ queue' \in Seq(Good)
    BY <1>1, PutKeeps
  <2>2. queue' \in Seq(Units)
    BY <1>0, <2>1
  <2>3. TypeOK'
    BY <1>1, <2>1, <2>2 DEF Put, TypeOK
  <2>. QED  BY <1>1, <2>1, <2>3 DEF Put, LoaderGone, Unrecorded, MonitorFirstIsSafe
<1>2. CASE List /\ status = "up"
  <2>1. Calm
    BY <1>2 DEF List
  <2>2. queue' \in Seq(Good)
    BY <1>0, <1>2, EventGood, EmitGood DEF List, Masks, Reported
  <2>. QED  BY <1>0, <1>2, <2>1, <2>2, <1>b DEF List, TypeOK, LoaderGone, Unrecorded
<1>3. CASE TestListen /\ status = "up"
  <2>1. Calm
    BY <1>3 DEF TestListen
  <2>. QED  BY <1>3, <2>1, <1>b DEF TestListen, TypeOK, LoaderGone, Unrecorded
<1>4. CASE ReadBatch /\ status = "up"
  <2>1. Calm
    BY <1>4 DEF ReadBatch
  <2>2. PICK k \in 1 .. Len(queue) :
          batch' = SubSeq(queue, 1, k) /\ queue' = SubSeq(queue, k + 1, Len(queue))
    BY <1>4 DEF ReadBatch
  <2>3. Len(queue) \in Nat /\ k \in Nat /\ k + 1 \in Nat
    BY <1>0
  <2>4. \A a, b \in Nat : a >= 1 /\ b <= Len(queue) => SubSeq(queue, a, b) \in Seq(Good)
    OBVIOUS
  <2>5. batch' \in Seq(Good) /\ queue' \in Seq(Good)
    BY <2>2, <2>3, <2>4
  <2>6. batch' \in Seq(Units) /\ queue' \in Seq(Units)
    BY <1>0, <2>5
  <2>. QED  BY <1>4, <2>1, <2>5, <2>6, <1>b DEF ReadBatch, TypeOK, LoaderGone, Unrecorded
<1>5. CASE ParseEvent /\ status = "up"
  <2>0. Calm
    BY <1>5 DEF ParseEvent
  <2>1. batch[j + 1] \in Good
    BY <1>5 DEF ParseEvent, TypeOK
  <2>2. j' \in Nat
    BY <1>5 DEF ParseEvent, TypeOK, Event
  <2>3. mon' \in {"notify", "parse"} /\ report' \in Files \cup {None}
        /\ (mon' = "notify" => report' \in Files)
    BY <1>0, <1>5, <2>1 DEF ParseEvent, TypeOK, Good
  <2>. QED  BY <1>5, <2>0, <2>2, <2>3, <1>b DEF ParseEvent, TypeOK, LoaderGone, Unrecorded, Living, Ending
<1>6. CASE ParseName /\ status = "up"
  <2>1. Calm
    BY <1>6 DEF ParseName
  <2>. QED  BY <1>6, <2>1, <1>b DEF ParseName, TypeOK, LoaderGone, Unrecorded
<1>7. CASE BatchEnd /\ status = "up"
  <2>1. Calm
    BY <1>7 DEF BatchEnd
  <2>. QED  BY <1>7, <2>1, <1>b DEF BatchEnd, TypeOK, LoaderGone, Unrecorded
<1>8. CASE NotifyAll /\ status = "up"
  <2>1. Calm
    BY <1>8 DEF NotifyAll
  <2>. QED  BY <1>8, <2>1, <1>b DEF NotifyAll, Late, TypeOK, LoaderGone, Unrecorded
<1>9. CASE Dlopen /\ status = "up"
  <2>0. Calm
    BY <1>9 DEF Dlopen
  <2>1. queue' \in Seq(Good)
    BY <1>0, <1>9, OpenedGood DEF Dlopen
  <2>2. report \in Files /\ refs' = [refs EXCEPT ![report] = refs[report] + 1]
    BY <1>0, <1>9 DEF Dlopen
  <2>3. \A f \in Files : refs'[f] = m_loaded[f] + Unrecorded(f)'
    BY <1>9, <2>2 DEF Dlopen, TypeOK, Unrecorded
  <2>. QED  BY <1>0, <1>9, <2>0, <2>1, <2>2, <2>3, <1>b DEF Dlopen, Late, TypeOK, LoaderGone
<1>10. CASE DlopenFails /\ status = "up"
  <2>1. MonitorFirstIsSafe'
    BY <1>10 DEF DlopenFails, MonitorFirstIsSafe
  <2>. QED  BY <1>10, <2>1 DEF DlopenFails, TypeOK, LoaderGone, Unrecorded
<1>11. CASE PushHandle /\ status = "up"
  <2>0. Calm
    BY <1>11 DEF PushHandle, Record
  <2>1. report \in Files /\ m_loaded' = [m_loaded EXCEPT ![report] = m_loaded[report] + 1]
    BY <1>0, <1>11 DEF PushHandle, Record
  <2>2. \A f \in Files : refs[f] = m_loaded'[f] + Unrecorded(f)'
    BY <1>11, <2>1 DEF PushHandle, Record, TypeOK, Unrecorded
  <2>3. late' \/ (own \notin {"unregister", "gone"} /\ ~LoaderGone)
    BY <1>11 DEF PushHandle, Record, Late
  <2>4. TypeOK'
    BY <1>11, <2>1 DEF PushHandle, Record, Late, TypeOK, LoaderGone
  <2>5. mon = "push" /\ mon' = "parse" /\ Same /\ UNCHANGED <<queue, batch, refs>>
    BY <1>11 DEF PushHandle, Record
  <2>. QED  BY <2>0, <2>2, <2>3, <2>4, <2>5, <1>b DEF LoaderGone
<1>12. CASE Crash /\ status = "up"
  <2>1. first # "monitor"
    BY <1>12 DEF Crash, Racing, LoaderGone, Living
  <2>2. MonitorFirstIsSafe'
    BY <1>12, <2>1 DEF Crash, MonitorFirstIsSafe
  <2>. QED  BY <1>12, <2>2 DEF Crash, TypeOK, LoaderGone, Unrecorded
<1>13. CASE Register /\ status = "up"
  <2>1. Calm
    BY <1>13 DEF Register
  <2>. QED  BY <1>13, <2>1, <1>b DEF Register, TypeOK, LoaderGone, Unrecorded, Living, Ending
<1>14. CASE Destroy /\ status = "up"
  <2>1. Calm
    BY <1>14 DEF Destroy
  <2>. QED  BY <1>14, <2>1, <1>b DEF Destroy, TypeOK, LoaderGone, Unrecorded, Living, Ending
<1>15. CASE CloseHandles /\ status = "up"
  <2>1. Calm
    BY <1>15 DEF CloseHandles
  <2>2. /\ refs' = [f \in Files |-> refs[f] - m_loaded[f]] /\ m_loaded' = [f \in Files |-> 0]
        /\ own' = "unregister" /\ UNCHANGED <<mon, report>>
    BY <1>15 DEF CloseHandles
  <2>3. \A f \in Files : /\ m_loaded[f] \in Nat /\ Unrecorded(f) \in {0, 1}
                         /\ refs[f] = m_loaded[f] + Unrecorded(f)
    BY DEF TypeOK, Unrecorded
  <2>4. \A f \in Files : m_loaded'[f] = 0 /\ refs'[f] = Unrecorded(f)
    BY <2>2, <2>3
  <2>5. refs' \in [Files -> Nat] /\ m_loaded' \in [Files -> Nat]
    BY <2>2, <2>3, <2>4
  <2>6. \A f \in Files : Unrecorded(f)' = Unrecorded(f)
    BY <2>2 DEF Unrecorded
  <2>7. \A f \in Files : refs'[f] = m_loaded'[f] + Unrecorded(f)'
    BY <2>3, <2>4, <2>6
  <2>8. TypeOK'
    BY <1>15, <2>5 DEF CloseHandles, TypeOK
  <2>. QED
    BY <1>15, <2>1, <2>4, <2>7, <2>8, <1>b DEF CloseHandles, LoaderGone, Living, Ending
<1>16. CASE UnRegister /\ status = "up"
  <2>1. status' = "up"
    BY <1>16 DEF UnRegister
  <2>2. MonitorFirstIsSafe'
    BY <1>16, <2>1 DEF UnRegister, MonitorFirstIsSafe
  <2>. QED  BY <1>16, <2>1, <2>2 DEF UnRegister, TypeOK, LoaderGone, Unrecorded, Living, Ending
<1>17. CASE StopListening /\ status = "up"
  <2>0. Calm
    BY <1>17 DEF StopListening
  <2>1. TypeOK'
    BY <1>17 DEF StopListening, TypeOK, Ending
  <2>. QED  BY <1>17, <2>0, <2>1, <1>b DEF StopListening, LoaderGone, Unrecorded, Living, Ending
<1>18. CASE RemoveWatch /\ status = "up"
  <2>0. Calm
    BY <1>18 DEF RemoveWatch
  <2>1. queue' \in Seq(Good)
    BY <1>0, <1>18, EventGood, EmitGood DEF RemoveWatch, Masks, Reported
  <2>2. TypeOK'
    <3>1. queue' \in Seq(Units)
      BY <1>0, <2>1
    <3>. QED  BY <1>18, <3>1 DEF RemoveWatch, TypeOK, Ending
  <2>. QED  BY <1>18, <2>0, <2>1, <2>2, <1>b DEF RemoveWatch, LoaderGone, Unrecorded, Living, Ending
<1>19. CASE Join /\ status = "up"
  <2>1. Calm
    BY <1>19 DEF Join
  <2>. QED  BY <1>19, <2>1, <1>b DEF Join, TypeOK, LoaderGone, Unrecorded, Living, Ending
<1>20. CASE DestroyDispatcher /\ status = "up"
  <2>1. Calm
    BY <1>20 DEF DestroyDispatcher
  <2>. QED  BY <1>20, <2>1, <1>b DEF DestroyDispatcher, TypeOK, LoaderGone, Unrecorded, Living, Ending
<1>21. CASE UNCHANGED vars
  BY <1>21 DEF vars, TypeOK, LoaderGone, Unrecorded, Living, Ending, MonitorFirstIsSafe
<1>. QED
  BY <1>1, <1>2, <1>3, <1>4, <1>5, <1>6, <1>7, <1>8, <1>9, <1>10, <1>11, <1>12, <1>13, <1>14,
     <1>15, <1>16, <1>17, <1>18, <1>19, <1>20, <1>21 DEF Next, Monitor, Notify, Owner

THEOREM PlugInvariant == Spec => []IInv
BY InitIInv, StepIInv, PTL DEF Spec

\* The state of the plug-in facility is well typed; no library is closed more
\* often than it was opened.
THEOREM PlugTypeCorrect == Spec => []TypeOK
BY PlugInvariant, PTL DEF IInv

\* For any plug-ins, however often each is loaded and in whichever order the
\* objects are destroyed, no reference is left behind unless a notification met
\* a loader that was being destroyed.
THEOREM PlugShutdownCorrect == Spec => []CleanShutdown
<1>1. IInv => CleanShutdown
  <2> SUFFICES ASSUME IInv, own = "gone", ~late, NEW f \in Files PROVE refs[f] = 0
    BY DEF CleanShutdown
  <2>1. mon = "ended"
    BY DEF IInv
  <2>2. Unrecorded(f) = 0
    BY <2>1 DEF Unrecorded
  <2>3. m_loaded[f] = 0
    BY DEF IInv
  <2>4. refs[f] = m_loaded[f] + Unrecorded(f)
    BY DEF IInv
  <2>. QED  BY <2>2, <2>3, <2>4
<1>. QED  BY <1>1, PlugInvariant, PTL

\* An owner that destroys the monitor before the loader never meets its thread,
\* and the loader's callback never meets a dispatcher that is gone.
THEOREM PlugMonitorFirst == Spec => []MonitorFirstIsSafe
BY PlugInvariant, PTL DEF IInv

(***************************************************************************)
(* The layout of the buffer: an event with a name is its header and the    *)
(* name behind it.                                                         *)
(***************************************************************************)
Aligned(q) ==
  \A i \in 1 .. Len(q) :
    /\ q[i].part = "event" /\ q[i].file # None => i < Len(q) /\ q[i + 1].part = "name"
    /\ q[i].part = "name" => /\ i > 1 /\ q[i - 1].part = "event"
                             /\ q[i].file # None
                             /\ q[i - 1].file = q[i].file /\ q[i - 1].mask = q[i].mask

Whole == {q \in Seq(Units) : Aligned(q)}

LEMMA EventWhole ==
  ASSUME NEW mask \in Masks, NEW f \in Files \cup {None}
  PROVE  Event(mask, f) \in Whole
<1> DEFINE header == [part |-> "event", mask |-> mask, file |-> f]
           name == [header EXCEPT !.part = "name"]
<1>1. /\ header \in Units /\ header.part = "event" /\ header.mask = mask /\ header.file = f
      /\ name \in Units /\ name.part = "name" /\ name.mask = mask /\ name.file = f
  BY DEF Units
<1>2. Event(mask, f) = IF f = None THEN <<header>> ELSE <<header, name>>
  BY DEF Event
<1> HIDE DEF header, name
<1>3. <<header>> \in Seq(Units) /\ <<header, name>> \in Seq(Units)
  BY <1>1
<1>4. f = None => Aligned(<<header>>)
  BY <1>1 DEF Aligned
<1>5. f # None => Aligned(<<header, name>>)
  <2> SUFFICES ASSUME f # None PROVE Aligned(<<header, name>>)
    OBVIOUS
  <2> DEFINE q == <<header, name>>
  <2>1. Len(q) = 2 /\ q[1] = header /\ q[2] = name
    OBVIOUS
  <2> HIDE DEF q
  <2>2. \A i \in 1 .. Len(q) : (i = 1 \/ i = 2) /\ (i = 1 => i + 1 = 2) /\ (i = 2 => i - 1 = 1)
    BY <2>1
  <2>3. Aligned(q)
    BY <1>1, <2>1, <2>2 DEF Aligned
  <2>. QED  BY <2>3 DEF q
<1>. QED  BY <1>2, <1>3, <1>4, <1>5 DEF Whole

LEMMA ConcatWhole ==
  ASSUME NEW q \in Whole, NEW e \in Whole
  PROVE  q \o e \in Whole
<1> DEFINE all == q \o e
           N == Len(q)
           M == Len(e)
<1>1. q \in Seq(Units) /\ e \in Seq(Units) /\ Aligned(q) /\ Aligned(e)
  BY DEF Whole
<1>2. /\ all \in Seq(Units) /\ N \in Nat /\ M \in Nat /\ Len(all) = N + M
      /\ \A i \in 1 .. N : all[i] = q[i]
      /\ \A i \in 1 .. M : all[N + i] = e[i]
  BY <1>1
<1> HIDE DEF all, N, M
<1>3. ASSUME NEW i \in 1 .. N
      PROVE  /\ all[i].part = "event" /\ all[i].file # None => i < N + M /\ all[i + 1].part = "name"
             /\ all[i].part = "name" => /\ i > 1 /\ all[i - 1].part = "event"
                                        /\ all[i].file # None
                                        /\ all[i - 1].file = all[i].file
                                        /\ all[i - 1].mask = all[i].mask
  <2>1. all[i] = q[i]
    BY <1>2
  <2>2. /\ q[i].part = "event" /\ q[i].file # None => i < N /\ q[i + 1].part = "name"
        /\ q[i].part = "name" => /\ i > 1 /\ q[i - 1].part = "event" /\ q[i].file # None
                                 /\ q[i - 1].file = q[i].file /\ q[i - 1].mask = q[i].mask
    BY <1>1 DEF Aligned, N
  <2>3. i < N => i < N + M /\ all[i + 1] = q[i + 1]
    <3>1. i < N => i + 1 \in 1 .. N /\ i < N + M
      BY <1>2
    <3>. QED  BY <1>2, <3>1
  <2>4. i > 1 => all[i - 1] = q[i - 1]
    <3>1. i > 1 => i - 1 \in 1 .. N
      BY <1>2
    <3>. QED  BY <1>2, <3>1
  <2>. QED  BY <2>1, <2>2, <2>3, <2>4
<1>4. ASSUME NEW i \in 1 .. M
      PROVE  /\ all[N + i].part = "event" /\ all[N + i].file # None
                  => N + i < N + M /\ all[(N + i) + 1].part = "name"
             /\ all[N + i].part = "name" => /\ N + i > 1 /\ all[(N + i) - 1].part = "event"
                                            /\ all[N + i].file # None
                                            /\ all[(N + i) - 1].file = all[N + i].file
                                            /\ all[(N + i) - 1].mask = all[N + i].mask
  <2>1. all[N + i] = e[i]
    BY <1>2
  <2>2. /\ e[i].part = "event" /\ e[i].file # None => i < M /\ e[i + 1].part = "name"
        /\ e[i].part = "name" => /\ i > 1 /\ e[i - 1].part = "event" /\ e[i].file # None
                                 /\ e[i - 1].file = e[i].file /\ e[i - 1].mask = e[i].mask
    BY <1>1 DEF Aligned, M
  <2>3. i < M => N + i < N + M /\ all[(N + i) + 1] = e[i + 1]
    <3>1. i < M => i + 1 \in 1 .. M /\ N + i < N + M /\ (N + i) + 1 = N + (i + 1)
      BY <1>2
    <3>. QED  BY <1>2, <3>1
  <2>4. i > 1 => N + i > 1 /\ all[(N + i) - 1] = e[i - 1]
    <3>1. i > 1 => i - 1 \in 1 .. M /\ N + i > 1 /\ (N + i) - 1 = N + (i - 1)
      BY <1>2
    <3>. QED  BY <1>2, <3>1
  <2>. QED  BY <2>1, <2>2, <2>3, <2>4
<1>5. \A k \in 1 .. N + M : k \in 1 .. N \/ (k - N \in 1 .. M /\ N + (k - N) = k)
  BY <1>2
<1>6. Aligned(all)
  <2> SUFFICES ASSUME NEW k \in 1 .. N + M
               PROVE  /\ all[k].part = "event" /\ all[k].file # None
                           => k < N + M /\ all[k + 1].part = "name"
                      /\ all[k].part = "name" => /\ k > 1 /\ all[k - 1].part = "event"
                                                 /\ all[k].file # None
                                                 /\ all[k - 1].file = all[k].file
                                                 /\ all[k - 1].mask = all[k].mask
    BY <1>2 DEF Aligned
  <2>1. CASE k \in 1 .. N
    BY <1>3, <2>1
  <2>2. CASE k - N \in 1 .. M /\ N + (k - N) = k
    <3> DEFINE i == k - N
    <3>1. i \in 1 .. M /\ k = N + i
      BY <2>2
    <3> HIDE DEF i
    <3>. QED  BY <1>4, <3>1
  <2>. QED  BY <1>5, <2>1, <2>2
<1>. QED  BY <1>2, <1>6 DEF Whole, all

LEMMA EmitWhole ==
  ASSUME NEW q \in Whole, NEW e \in Whole
  PROVE  Emit(q, e) \in Whole
BY ConcatWhole DEF Emit

\* A queue cut between two events.
LEMMA SplitWhole ==
  ASSUME NEW q \in Whole, NEW k \in 1 .. Len(q), k < Len(q) => q[k + 1].part = "event"
  PROVE  SubSeq(q, 1, k) \in Whole /\ SubSeq(q, k + 1, Len(q)) \in Whole
<1> DEFINE p == SubSeq(q, 1, k)
           t == SubSeq(q, k + 1, Len(q))
           N == Len(q)
<1>1. q \in Seq(Units) /\ N \in Nat /\ k \in Nat /\ k >= 1 /\ k <= N
  BY DEF Whole
<1>2. p \in Seq(Units) /\ Len(p) = k /\ \A i \in 1 .. k : p[i] = q[i]
  BY <1>1
<1>3. t \in Seq(Units) /\ Len(t) = N - k /\ \A i \in 1 .. N - k : t[i] = q[k + i]
  BY <1>1
<1>4. k < N => q[k + 1].part = "event"
  OBVIOUS
<1>5. \A i \in 1 .. N :
        /\ q[i].part = "event" /\ q[i].file # None => i < N /\ q[i + 1].part = "name"
        /\ q[i].part = "name" => /\ i > 1 /\ q[i - 1].part = "event"
                                 /\ q[i].file # None
                                 /\ q[i - 1].file = q[i].file /\ q[i - 1].mask = q[i].mask
  BY DEF Whole, Aligned
<1> HIDE DEF p, t, N
<1>6. ASSUME NEW i \in 1 .. k
      PROVE  /\ p[i].part = "event" /\ p[i].file # None => i < k /\ p[i + 1].part = "name"
             /\ p[i].part = "name" => /\ i > 1 /\ p[i - 1].part = "event"
                                      /\ p[i].file # None
                                      /\ p[i - 1].file = p[i].file /\ p[i - 1].mask = p[i].mask
  <2>1. i \in 1 .. N /\ p[i] = q[i]
    BY <1>1, <1>2
  <2>2. ASSUME q[i].part = "event", q[i].file # None PROVE i < k /\ p[i + 1] = q[i + 1]
    <3>1. i # k
      BY <1>4, <1>5, <2>1, <2>2
    <3>2. i < k /\ i + 1 \in 1 .. k
      BY <1>1, <3>1
    <3>. QED  BY <1>2, <3>2
  <2>3. i > 1 => p[i - 1] = q[i - 1]
    <3>1. i > 1 => i - 1 \in 1 .. k
      BY <1>1
    <3>. QED  BY <1>2, <3>1
  <2>. QED  BY <1>5, <2>1, <2>2, <2>3
<1>7. ASSUME NEW i \in 1 .. N - k
      PROVE  /\ t[i].part = "event" /\ t[i].file # None => i < N - k /\ t[i + 1].part = "name"
             /\ t[i].part = "name" => /\ i > 1 /\ t[i - 1].part = "event"
                                      /\ t[i].file # None
                                      /\ t[i - 1].file = t[i].file /\ t[i - 1].mask = t[i].mask
  <2>1. k + i \in 1 .. N /\ t[i] = q[k + i] /\ i \in Nat /\ i >= 1
    BY <1>1, <1>3
  <2>2. k + i < N => i < N - k /\ t[i + 1] = q[(k + i) + 1]
    <3>1. k + i < N => i + 1 \in 1 .. N - k /\ i < N - k /\ k + (i + 1) = (k + i) + 1
      BY <1>1
    <3>. QED  BY <1>3, <3>1
  <2>3. i > 1 => t[i - 1] = q[(k + i) - 1]
    <3>1. i > 1 => i - 1 \in 1 .. N - k /\ k + (i - 1) = (k + i) - 1
      BY <1>1
    <3>. QED  BY <1>3, <3>1
  <2>4. ASSUME q[k + i].part = "name" PROVE i > 1
    <3>1. i = 1 => k < N /\ k + i = k + 1
      BY <1>1
    <3>2. i # 1
      BY <1>4, <2>4, <3>1
    <3>. QED  BY <2>1, <3>2
  <2>5. /\ q[k + i].part = "event" /\ q[k + i].file # None
             => k + i < N /\ q[(k + i) + 1].part = "name"
        /\ q[k + i].part = "name" => /\ q[(k + i) - 1].part = "event"
                                     /\ q[k + i].file # None
                                     /\ q[(k + i) - 1].file = q[k + i].file
                                     /\ q[(k + i) - 1].mask = q[k + i].mask
    BY <1>5, <2>1
  <2>. QED  BY <2>1, <2>2, <2>3, <2>4, <2>5
<1>8. Aligned(p)
  BY <1>2, <1>6 DEF Aligned
<1>9. Aligned(t)
  BY <1>3, <1>7 DEF Aligned
<1>. QED  BY <1>2, <1>3, <1>8, <1>9 DEF Whole, p, t, N

LEMMA PutStepsWhole ==
  ASSUME NEW f \in Files, NEW k \in 1 .. Len(PutSteps(f))
  PROVE  PutSteps(f)[k] \in Whole
<1> DEFINE e(mask) == Event(mask, f)
<1>1. \A mask \in Masks : e(mask) \in Whole
  BY EventWhole
<1>2. PutSteps(f) = IF f \in Moved THEN <<e("MOVED_TO")>>
                    ELSE <<e("CREATE") \o e("OPEN"), e("MODIFY"), e("MODIFY"), e("CLOSE_WRITE")>>
  BY DEF PutSteps
<1> HIDE DEF e
<1>3. /\ e("MOVED_TO") \in Whole /\ e("CREATE") \in Whole /\ e("OPEN") \in Whole
      /\ e("MODIFY") \in Whole /\ e("CLOSE_WRITE") \in Whole
  BY <1>1 DEF Masks
<1>4. e("CREATE") \o e("OPEN") \in Whole
  BY <1>3, ConcatWhole
<1> DEFINE both == e("CREATE") \o e("OPEN")
<1> HIDE DEF both
<1>5. CASE f \in Moved
  <2>1. Len(PutSteps(f)) = 1 /\ PutSteps(f)[1] = e("MOVED_TO")
    BY <1>2, <1>5
  <2>. QED  BY <1>3, <2>1
<1>6. CASE f \notin Moved
  <2>1. PutSteps(f) = <<both, e("MODIFY"), e("MODIFY"), e("CLOSE_WRITE")>>
    BY <1>2, <1>6 DEF both
  <2>2. both \in Whole
    BY <1>4 DEF both
  <2>3. k \in 1 .. 4
    BY <2>1
  <2>4. PutSteps(f)[k] = IF k = 1 THEN both ELSE IF k = 4 THEN e("CLOSE_WRITE") ELSE e("MODIFY")
    BY <2>1, <2>3
  <2>. QED  BY <1>3, <2>2, <2>4
<1>. QED  BY <1>5, <1>6

LEMMA OpenedWhole ==
  ASSUME NEW f \in Files
  PROVE  Opened(f) \in Whole
<1>1. /\ Event("OPEN", f) \in Whole /\ Event("ACCESS", f) \in Whole
      /\ Event("CLOSE_NOWRITE", f) \in Whole
  BY EventWhole DEF Masks
<1>2. Event("OPEN", f) \o Event("ACCESS", f) \in Whole
  BY <1>1, ConcatWhole
<1>3. (Event("OPEN", f) \o Event("ACCESS", f)) \o Event("CLOSE_NOWRITE", f) \in Whole
  BY <1>1, <1>2, ConcatWhole
<1>. QED  BY <1>3 DEF Opened

(***************************************************************************)
(* What the kernel queues is whole, and the thread has something to parse. *)
(***************************************************************************)
ParseInv ==
  /\ queue \in Whole /\ batch \in Whole
  /\ mon \in {"parse", "notify", "load", "push"} => batch # <<>>
  /\ own \in Living => listen
  /\ own \in {"rm_watch", "join"} => ~listen

LEMMA ParseInit == Init => ParseInv
<1>1. <<>> \in Whole
  BY DEF Whole, Aligned
<1>. QED  BY <1>1 DEF Init, ParseInv, Living

LEMMA ParseStep ==
  ASSUME IInv, ParseInv, [Next]_vars
  PROVE  ParseInv'
<1> USE DEF ParseInv, user, monitor, loader, owner, Living
<1>0. put \in [Files -> 0 .. 4] /\ (mon = "load" => report \in Files)
  BY DEF IInv, TypeOK
<1>1. ASSUME NEW f \in Files, Put(f) PROVE ParseInv'
  <2>1. put'[f] = put[f] + 1 /\ put[f] \in 0 .. 4 /\ put[f] < Len(PutSteps(f))
    BY <1>0, <1>1 DEF Put
  <2>2. put'[f] \in 1 .. Len(PutSteps(f))
    <3>1. Len(PutSteps(f)) \in Nat
      BY DEF PutSteps
    <3>. QED  BY <2>1, <3>1
  <2>3. queue' \in Whole
    BY <1>1, <2>2, PutStepsWhole, EmitWhole DEF Put
  <2>. QED  BY <1>1, <2>3 DEF Put
<1>2. CASE List
  <2>1. queue' \in Whole
    BY <1>2, EventWhole, EmitWhole DEF List, Masks
  <2>. QED  BY <1>2, <2>1 DEF List
<1>3. CASE TestListen
  BY <1>3 DEF TestListen
<1>4. CASE ReadBatch
  <2>1. PICK k \in 1 .. Len(queue) : /\ Fits(k)
                                     /\ batch' = SubSeq(queue, 1, k)
                                     /\ queue' = SubSeq(queue, k + 1, Len(queue))
    BY <1>4 DEF ReadBatch
  <2>2. batch' \in Whole /\ queue' \in Whole
    BY <2>1, SplitWhole DEF Fits
  <2>3. batch' # <<>>
    <3>1. Len(batch') = k /\ k >= 1
      BY <2>1 DEF Whole
    <3>. QED  BY <3>1
  <2>. QED  BY <1>4, <2>2, <2>3 DEF ReadBatch
<1>10. CASE BatchEnd
  <2>1. <<>> \in Whole
    BY DEF Whole, Aligned
  <2>. QED  BY <1>10, <2>1 DEF BatchEnd
<1>5. CASE ParseEvent \/ ParseName \/ NotifyAll \/ DlopenFails \/ PushHandle \/ Crash
  BY <1>5 DEF ParseEvent, ParseName, NotifyAll, DlopenFails, PushHandle, Record, Crash
<1>6. CASE Dlopen
  <2>1. queue' \in Whole
    <3>1. mon = "load"
      BY <1>6 DEF Dlopen
    <3>2. Opened(report) \in Whole
      BY <1>0, <3>1, OpenedWhole
    <3>3. queue \o Opened(report) \in Whole
      BY <3>2, ConcatWhole
    <3>. QED  BY <1>6, <3>3 DEF Dlopen
  <2>. QED  BY <1>6, <2>1 DEF Dlopen
<1>7. CASE RemoveWatch
  <2>1. queue' \in Whole
    BY <1>7, EventWhole, EmitWhole DEF RemoveWatch, Masks
  <2>. QED  BY <1>7, <2>1 DEF RemoveWatch
<1>8. CASE Register \/ Destroy \/ CloseHandles \/ UnRegister \/ StopListening \/ Join
           \/ DestroyDispatcher
  BY <1>8 DEF Register, Destroy, CloseHandles, UnRegister, StopListening, Join, DestroyDispatcher
<1>9. CASE UNCHANGED vars
  BY <1>9 DEF vars
<1>. QED
  BY <1>1, <1>2, <1>3, <1>4, <1>5, <1>6, <1>7, <1>8, <1>9, <1>10 DEF Next, Monitor, Notify, Owner

LEMMA ParseInvariant == Spec => [](IInv /\ ParseInv)
BY InitIInv, StepIInv, ParseInit, ParseStep, PTL DEF Spec

(***************************************************************************)
(* The end of the thread.                                                  *)
(***************************************************************************)
Woken ==
  \/ own = "rm_watch" /\ watch
  \/ own = "join" /\ (mon = "wait" => queue # <<>>)
  \/ own \in {"~Dispatcher", "gone"}
  \/ own \in {"dlclose", "unregister"} /\ first = "monitor"

\* An event in the queue stays there until it is read.
LEMMA EmitFills ==
  ASSUME NEW q \in Seq(Units), NEW e \in Seq(Units), q # <<>> \/ e # <<>>
  PROVE  Emit(q, e) # <<>>
<1>1. Emit(q, e) = q \/ Emit(q, e) = q \o e
  BY DEF Emit
<1>2. CASE q # <<>>
  <2>1. q \o e # <<>>
    BY <1>2
  <2>. QED  BY <1>1, <1>2, <2>1
<1>3. CASE q = <<>> /\ e # <<>>
  <2>1. Len(e) > 0 /\ Len(q) = 0
    BY <1>3
  <2>2. ~(Len(q) >= Len(e))
    BY <2>1
  <2>3. q \o e # <<>>
    BY <1>3
  <2>. QED  BY <2>2, <2>3 DEF Emit
<1>. QED  BY <1>2, <1>3

LEMMA WokenStep ==
  ASSUME IInv, ParseInv, Woken, [Next]_vars
  PROVE  Woken'
<1> USE DEF Woken, user, monitor, loader, owner
<1>0. queue \in Seq(Units) /\ put \in [Files -> 0 .. 4]
  BY DEF IInv, TypeOK
<1>1. ASSUME UNCHANGED <<own, first, watch>>, mon' = "wait" => mon = "wait",
             queue # <<>> => queue' # <<>>
      PROVE  Woken'
  BY <1>1
<1>2. ASSUME NEW f \in Files, Put(f) PROVE Woken'
  <2>1. queue' = queue \/ \E e \in Seq(Units) : queue' = Emit(queue, e)
    <3>1. put'[f] = put[f] + 1 /\ put[f] \in 0 .. 4 /\ put[f] < Len(PutSteps(f))
      BY <1>0, <1>2 DEF Put
    <3>2. Len(PutSteps(f)) \in Nat
      BY DEF PutSteps
    <3>3. put'[f] \in 1 .. Len(PutSteps(f))
      BY <3>1, <3>2
    <3>4. PutSteps(f)[put'[f]] \in Seq(Units)
      BY <3>3, PutStepsWhole DEF Whole
    <3>. QED  BY <1>2, <3>4 DEF Put
  <2>2. queue # <<>> => queue' # <<>>
    BY <1>0, <2>1, EmitFills
  <2>. QED  BY <1>1, <1>2, <2>2 DEF Put
<1>3. CASE List
  <2>1. Event("LIST", None) \in Seq(Units)
    BY EventWhole DEF Masks, Whole
  <2>2. queue # <<>> => queue' # <<>>
    BY <1>0, <1>3, <2>1, EmitFills DEF List
  <2>. QED  BY <1>1, <1>3, <2>2 DEF List
<1>4. CASE TestListen
  BY <1>4 DEF TestListen, ParseInv
<1>5. CASE ReadBatch \/ ParseEvent \/ ParseName \/ BatchEnd
  BY <1>5 DEF ReadBatch, ParseEvent, ParseName, BatchEnd
<1>6. CASE NotifyAll \/ Dlopen \/ DlopenFails \/ PushHandle \/ Crash
  BY <1>6 DEF NotifyAll, Dlopen, DlopenFails, PushHandle, Record, Crash, Racing
<1>7. CASE RemoveWatch
  <2>1. Event("IGNORED", None) \in Seq(Units) /\ Event("IGNORED", None) # <<>>
    <3>1. Event("IGNORED", None) \in Seq(Units)
      BY EventWhole DEF Masks, Whole
    <3>. QED  BY <3>1 DEF Event
  <2>2. watch /\ queue' = Emit(queue, Event("IGNORED", None)) /\ own' = "join"
    BY <1>7 DEF RemoveWatch
  <2>. QED  BY <1>0, <2>1, <2>2, EmitFills
<1>8. CASE Register \/ Destroy \/ CloseHandles \/ UnRegister \/ StopListening \/ Join
           \/ DestroyDispatcher
  <2>1. own = "~Dispatcher" => first \in {"loader", "monitor"}
    BY DEF IInv, TypeOK, Living
  <2>. QED
    BY <1>8, <2>1
       DEF Register, Destroy, CloseHandles, UnRegister, StopListening, Join, DestroyDispatcher
<1>9. CASE UNCHANGED vars
  BY <1>9 DEF vars
<1>. QED
  BY <1>2, <1>3, <1>4, <1>5, <1>6, <1>7, <1>8, <1>9 DEF Next, Monitor, Notify, Owner

\* For any plug-ins and events, the destructor's inotify_rm_watch wakes the thread:
\* it is never joined while it waits for an event that will not come.
THEOREM PlugWokenToEnd == Spec => WokenToEnd
<1>1. own = "rm_watch" /\ watch => Woken
  BY DEF Woken
<1>2. Woken => (own = "join" /\ mon = "wait" => queue # <<>>)
  BY DEF Woken
<1>. QED
  BY <1>1, <1>2, WokenStep, ParseInvariant, PTL DEF Spec, WokenToEnd

(***************************************************************************)
(* Without a watch there is no event, and no end.                          *)
(***************************************************************************)
WatchInv ==
  /\ own = "stop" \/ (own \in {"dlclose", "unregister"} /\ first = "loader") => listen
  /\ ~watch /\ listen => queue = <<>>

\* The thread waits for an event, and nothing can bring one.
Asleep == ~watch /\ queue = <<>> /\ mon = "wait" /\ own \in {"stop", "rm_watch", "join"}

LEMMA WatchInit == Init => WatchInv
BY DEF Init, WatchInv

LEMMA WatchStep ==
  ASSUME ParseInv, WatchInv, [Next]_vars
  PROVE  WatchInv'
<1> USE DEF WatchInv, ParseInv, user, monitor, loader, owner, Living
<1>1. ASSUME UNCHANGED <<own, first, listen, watch>>, ~watch => queue' = queue PROVE WatchInv'
  BY <1>1
<1>2. ASSUME NEW f \in Files, Put(f) PROVE WatchInv'
  BY <1>1, <1>2 DEF Put
<1>3. CASE List
  BY <1>3 DEF List
<1>4. CASE ReadBatch
  <2>1. 1 .. Len(queue) # {}
    BY <1>4 DEF ReadBatch
  <2>2. queue # <<>>
    BY <2>1
  <2>. QED  BY <1>4, <2>2 DEF ReadBatch
<1>5. CASE TestListen \/ ParseEvent \/ ParseName \/ BatchEnd
  BY <1>1, <1>5 DEF TestListen, ParseEvent, ParseName, BatchEnd
<1>6. CASE NotifyAll \/ Dlopen \/ DlopenFails \/ PushHandle \/ Crash
  BY <1>1, <1>6 DEF NotifyAll, Dlopen, DlopenFails, PushHandle, Record, Crash
<1>7. CASE Register \/ Destroy \/ CloseHandles \/ UnRegister
  BY <1>7 DEF Register, Destroy, CloseHandles, UnRegister
<1>8. CASE StopListening \/ RemoveWatch \/ Join \/ DestroyDispatcher
  BY <1>8 DEF StopListening, RemoveWatch, Join, DestroyDispatcher
<1>9. CASE UNCHANGED vars
  BY <1>1, <1>9 DEF vars
<1>. QED
  BY <1>2, <1>3, <1>4, <1>5, <1>6, <1>7, <1>8, <1>9 DEF Next, Monitor, Notify, Owner

LEMMA AsleepStep ==
  ASSUME Asleep, [Next]_vars
  PROVE  Asleep'
<1> USE DEF Asleep, user, monitor, loader, owner
<1>1. CASE \E f \in Files : Put(f)
  BY <1>1 DEF Put
<1>2. CASE List \/ TestListen \/ ParseEvent \/ ParseName \/ BatchEnd
  BY <1>2 DEF List, TestListen, ParseEvent, ParseName, BatchEnd
<1>3. ~ReadBatch
  <2>1. 1 .. Len(queue) = {}
    OBVIOUS
  <2>. QED  BY <2>1 DEF ReadBatch
<1>4. CASE NotifyAll \/ Dlopen \/ DlopenFails \/ PushHandle \/ Crash
  BY <1>4 DEF NotifyAll, Dlopen, DlopenFails, PushHandle, Record, Crash, Racing
<1>5. CASE Register \/ Destroy \/ CloseHandles \/ UnRegister \/ Join \/ DestroyDispatcher
  BY <1>5 DEF Register, Destroy, CloseHandles, UnRegister, Join, DestroyDispatcher
<1>6. CASE StopListening \/ RemoveWatch
  BY <1>6 DEF StopListening, RemoveWatch
<1>7. CASE UNCHANGED vars
  BY <1>7 DEF vars
<1>. QED
  BY <1>1, <1>2, <1>3, <1>4, <1>5, <1>6, <1>7 DEF Next, Monitor, Notify, Owner

\* For any plug-ins, a monitor of a directory that does not exist is never
\* destroyed once its thread waits: the join does not return.
THEOREM PlugUnwatchedNeverEnds == Spec => UnwatchedNeverEnds
<1>1. WatchInv => (own = "stop" /\ ~watch /\ mon = "wait" => Asleep)
  BY DEF WatchInv, Asleep
<1>2. Asleep => own # "gone"
  BY DEF Asleep
<1>. QED
  BY <1>1, <1>2, ParseInvariant, WatchInit, WatchStep, AsleepStep, PTL DEF Spec, UnwatchedNeverEnds

(***************************************************************************)
(* The first batch, until f is loaded.                                     *)
(***************************************************************************)
InQueue(f) == \E i \in 1 .. Len(queue) : i < BufferUnits /\ MovedTo(queue[i], f)
InBatch(f) == \E i \in j + 1 .. Len(batch) : MovedTo(batch[i], f)

\* The offset of the parser is that of an event.
OnEvent == j < Len(batch) => batch[j + 1].part = "event"

Kept(f) ==
  \/ status # "up" \/ own \notin Living
  \/ /\ own = "run"
     /\ \/ refs[f] > 0
        \/ mon \in {"test", "wait"} /\ batch = <<>> /\ j = 0 /\ InQueue(f)
        \/ mon = "parse" /\ OnEvent /\ InBatch(f)
        \/ mon \in {"notify", "load", "push"} /\ OnEvent /\ (report = f \/ InBatch(f))

LEMMA ArrivedKept ==
  ASSUME IInv, ParseInv, NEW f \in Files, Arrived(f), InFirstBatch(f)
  PROVE  Kept(f)
<1>1. own = "run" /\ mon \in {"test", "wait"} /\ batch = <<>> /\ j = 0
  BY DEF Arrived, InFirstBatch, IInv, TypeOK, ParseInv
<1>2. DOMAIN queue = 1 .. Len(queue)
  BY DEF ParseInv, Whole
<1>3. InQueue(f)
  BY <1>2 DEF InFirstBatch, InQueue
<1>. QED  BY <1>1, <1>3 DEF Kept

\* An event in the queue stays there.
LEMMA QueueGrows ==
  ASSUME IInv, ParseInv, [Next]_vars, ~ReadBatch, NEW f, InQueue(f)
  PROVE  InQueue(f)'
<1>1. PICK i \in 1 .. Len(queue) : i < BufferUnits /\ MovedTo(queue[i], f)
  BY DEF InQueue
<1>2. queue' = queue \/ \E e \in Whole : queue' = queue \o e
  <2>0. queue \in Whole
    BY DEF ParseInv
  <2>1. \A e \in Whole : Emit(queue, e) = queue \/ Emit(queue, e) = queue \o e
    BY DEF Emit
  <2>2. ASSUME NEW g \in Files, Put(g)
        PROVE  queue' = queue \/ \E e \in Whole : queue' = Emit(queue, e)
    <3>1. put'[g] = put[g] + 1 /\ put[g] \in 0 .. 4 /\ put[g] < Len(PutSteps(g))
      BY <2>2 DEF Put, IInv, TypeOK
    <3>2. Len(PutSteps(g)) \in Nat
      BY DEF PutSteps
    <3>3. put'[g] \in 1 .. Len(PutSteps(g))
      BY <3>1, <3>2
    <3>. QED  BY <2>2, <3>3, PutStepsWhole DEF Put
  <2>3. CASE List \/ RemoveWatch
    <3>1. Event("LIST", None) \in Whole /\ Event("IGNORED", None) \in Whole
      BY EventWhole DEF Masks
    <3>. QED  BY <2>1, <2>3, <3>1 DEF List, RemoveWatch
  <2>4. CASE Dlopen
    <3>1. report \in Files
      BY <2>4 DEF Dlopen, IInv
    <3>2. Opened(report) \in Whole
      BY <3>1, OpenedWhole
    <3>. QED  BY <2>4, <3>2 DEF Dlopen
  <2>5. CASE TestListen \/ ParseEvent \/ ParseName \/ BatchEnd \/ NotifyAll \/ DlopenFails
             \/ PushHandle \/ Crash
    BY <2>5 DEF TestListen, ParseEvent, ParseName, BatchEnd, NotifyAll, DlopenFails,
                PushHandle, Record, Crash
  <2>6. CASE Register \/ Destroy \/ CloseHandles \/ UnRegister \/ StopListening \/ Join
             \/ DestroyDispatcher
    BY <2>6
       DEF Register, Destroy, CloseHandles, UnRegister, StopListening, Join, DestroyDispatcher
  <2>7. CASE UNCHANGED vars
    BY <2>7 DEF vars
  <2>. QED
    BY <2>1, <2>2, <2>3, <2>4, <2>5, <2>6, <2>7 DEF Next, Monitor, Notify, Owner
<1>3. queue \in Seq(Units) /\ \A e \in Whole : e \in Seq(Units)
  BY DEF ParseInv, Whole
<1>4. i \in 1 .. Len(queue') /\ queue'[i] = queue[i]
  BY <1>2, <1>3
<1>. QED  BY <1>1, <1>4 DEF InQueue

\* The first read takes the event, with its name.
LEMMA ReadKeeps ==
  ASSUME ParseInv, ReadBatch, j = 0, NEW f, InQueue(f)
  PROVE  OnEvent' /\ InBatch(f)' /\ mon' = "parse"
<1> DEFINE N == Len(queue)
<1>1. PICK k \in 1 .. N : /\ Fits(k) /\ \A i \in k + 1 .. N : ~Fits(i)
                          /\ batch' = SubSeq(queue, 1, k)
  BY DEF ReadBatch
<1>2. queue \in Seq(Units) /\ Aligned(queue) /\ N \in Nat /\ BufferUnits \in Nat
  BY PlugAssumption DEF ParseInv, Whole, PlugAssumption
<1>3. Len(batch') = k /\ \A i \in 1 .. k : batch'[i] = queue[i]
  BY <1>1, <1>2
<1>4. PICK i \in 1 .. N : i < BufferUnits /\ MovedTo(queue[i], f)
  BY DEF InQueue
<1>5. j' = 0 /\ mon' = "parse"
  BY DEF ReadBatch, monitor
<1>6. i <= k
  <2>1. SUFFICES ASSUME i > k PROVE FALSE
    BY <1>1, <1>4
  <2>2. i \in k + 1 .. N
    BY <1>1, <1>2, <1>4, <2>1
  <2>3. CASE Fits(i)
    BY <1>1, <2>2, <2>3
  <2>4. CASE ~Fits(i)
    <3>1. i < N /\ queue[i + 1].part # "event"
      BY <1>2, <1>4, <2>4 DEF Fits
    <3>2. i + 1 \in k + 1 .. N /\ i + 1 <= BufferUnits
      BY <1>1, <1>2, <1>4, <2>1, <3>1
    <3>3. ASSUME i + 1 < N PROVE queue[(i + 1) + 1].part = "event"
      <4>1. (i + 1) + 1 \in 1 .. N /\ ((i + 1) + 1) - 1 = i + 1
        BY <1>2, <1>4, <3>3
      <4>2. queue[(i + 1) + 1].part # "name"
        BY <1>2, <3>1, <4>1 DEF Aligned
      <4>3. queue[(i + 1) + 1] \in Units
        BY <1>2, <4>1
      <4>. QED  BY <4>2, <4>3 DEF Units
    <3>4. Fits(i + 1)
      BY <3>2, <3>3 DEF Fits
    <3>. QED  BY <1>1, <3>2, <3>4
  <2>. QED  BY <2>3, <2>4
<1>7. InBatch(f)'
  <2>1. i \in 0 + 1 .. k /\ batch'[i] = queue[i]
    BY <1>1, <1>3, <1>4, <1>6
  <2>. QED  BY <1>3, <1>4, <1>5, <2>1 DEF InBatch
<1>8. OnEvent'
  <2>1. batch'[0 + 1] = queue[1] /\ 1 \in 1 .. N
    BY <1>1, <1>2, <1>3
  <2>2. queue[1].part = "event"
    <3>1. queue[1] \in Units
      BY <1>2, <2>1
    <3>. QED  BY <1>2, <2>1, <3>1 DEF Aligned, Units
  <2>. QED  BY <1>5, <2>1, <2>2 DEF OnEvent
<1>. QED  BY <1>5, <1>7, <1>8

\* The parser goes from event to event.
LEMMA ParseKeeps ==
  ASSUME IInv, ParseInv, OnEvent, ParseEvent, NEW f, InBatch(f)
  PROVE  OnEvent' /\ \/ mon' = "parse" /\ InBatch(f)'
                     \/ mon' = "notify" /\ (report' = f \/ InBatch(f)')
<1> DEFINE e == batch[j + 1]
           N == Len(batch)
<1>1. /\ mon = "parse" /\ j < N /\ e.part = "event" /\ batch' = batch
      /\ IF e.mask \in Reported THEN mon' = "notify" /\ report' = e.file
                                ELSE UNCHANGED <<mon, report>>
      /\ j' = j + Len(Event(e.mask, e.file))
  BY DEF ParseEvent
<1>2. j \in Nat /\ N \in Nat /\ j + 1 \in 1 .. N /\ Aligned(batch) /\ batch \in Seq(Units)
  BY <1>1 DEF IInv, TypeOK, ParseInv, Whole
<1>3. j' = IF e.file = None THEN j + 1 ELSE j + 2
  <2>1. Len(Event(e.mask, e.file)) = IF e.file = None THEN 1 ELSE 2
    BY DEF Event
  <2>. QED  BY <1>1, <2>1
<1> HIDE DEF N
<1>4. e.file # None => j + 1 < N /\ batch[(j + 1) + 1].part = "name"
  BY <1>1, <1>2 DEF Aligned, N
<1>5. ASSUME j' < N PROVE batch[j' + 1].part = "event"
  <2>1. j' + 1 \in 1 .. N /\ j' + 1 > 1 /\ (j' + 1) - 1 = j' /\ j' \in 1 .. N
    BY <1>2, <1>3, <1>5
  <2>2. batch[j' + 1].part \in {"event", "name"}
    <3>1. batch[j' + 1] \in Units
      BY <1>2, <2>1 DEF N
    <3>. QED  BY <3>1 DEF Units
  <2>3. ASSUME batch[j' + 1].part = "name" PROVE FALSE
    <3>1. batch[j'].part = "event" /\ batch[j'].file = batch[j' + 1].file
          /\ batch[j' + 1].file # None
      BY <1>2, <2>1, <2>3 DEF Aligned, N
    <3>2. CASE e.file = None
      BY <1>3, <3>1, <3>2
    <3>3. CASE e.file # None
      <4>1. j' = (j + 1) + 1
        BY <1>2, <1>3, <3>3
      <4>. QED  BY <1>4, <3>1, <3>3, <4>1
    <3>. QED  BY <3>2, <3>3
  <2>. QED  BY <2>2, <2>3
<1>6. OnEvent'
  BY <1>1, <1>5 DEF OnEvent, N
<1>7. PICK i \in j + 1 .. N : MovedTo(batch[i], f)
  BY DEF InBatch, N
<1>8. CASE i = j + 1
  BY <1>1, <1>6, <1>7, <1>8 DEF MovedTo, Reported
<1>9. CASE i # j + 1
  <2>1. i \in j' + 1 .. N
    <3>1. CASE e.file = None
      BY <1>2, <1>3, <1>7, <1>9, <3>1
    <3>2. CASE e.file # None
      <4>1. i # (j + 1) + 1
        BY <1>4, <1>7, <3>2 DEF MovedTo
      <4>. QED  BY <1>2, <1>3, <1>7, <1>9, <3>2, <4>1
    <3>. QED  BY <3>1, <3>2
  <2>2. InBatch(f)'
    BY <1>1, <1>7, <2>1 DEF InBatch, N
  <2>. QED  BY <1>1, <1>6, <2>2
<1>. QED  BY <1>8, <1>9

LEMMA KeptStep ==
  ASSUME IInv, ParseInv, NEW f \in Files, Kept(f), [Next]_vars
  PROVE  Kept(f)'
<1> USE DEF user, monitor, loader, owner
<1>1. CASE UNCHANGED vars
  BY <1>1 DEF vars, Kept, OnEvent, InBatch, InQueue
<1>2. CASE status' # "up" \/ own' \notin Living
  BY <1>2 DEF Kept
<1> SUFFICES ASSUME Next, status' = "up", own' \in Living PROVE Kept(f)'
  BY <1>1, <1>2
<1>3. status = "up" /\ own = "run" /\ own' = "run" /\ ~Owner /\ ~Destroy
  <2>1. status = "up"
    BY DEF Next
  <2>2. own \in Living => own = "run"
    BY <2>1 DEF Kept
  <2>3. own \in Living
    BY DEF Next, Put, List, Monitor, TestListen, ReadBatch, ParseEvent, ParseName, BatchEnd,
           NotifyAll, Notify, Dlopen, DlopenFails, PushHandle, Record, Crash, Owner, Register,
           Destroy, CloseHandles, UnRegister, StopListening, RemoveWatch, Join,
           DestroyDispatcher, Living
  <2>4. own = "run" /\ ~Owner /\ ~Destroy
    BY <2>2, <2>3
       DEF Owner, Register, Destroy, CloseHandles, UnRegister, StopListening, RemoveWatch, Join,
           DestroyDispatcher, Living
  <2>5. own' = "run"
    BY <2>4
       DEF Next, Put, List, Monitor, TestListen, ReadBatch, ParseEvent, ParseName, BatchEnd,
           NotifyAll, Notify, Dlopen, DlopenFails, PushHandle, Record, Crash
  <2>. QED  BY <2>1, <2>4, <2>5
<1>4. registered /\ listen /\ refs \in [Files -> Nat] /\ j \in Nat
      /\ (mon \in {"load", "push"} => report \in Files) /\ (mon = "push" => refs[report] > 0)
  <2>1. registered /\ listen
    <3>1. first = "none"
      BY <1>3 DEF IInv, Living
    <3>. QED  BY <1>3, <3>1 DEF IInv, ParseInv, Living
  <2>2. refs \in [Files -> Nat] /\ m_loaded \in [Files -> Nat] /\ j \in Nat
        /\ (mon \in {"load", "push"} => report \in Files)
    BY DEF IInv, TypeOK
  <2>3. ASSUME mon = "push" PROVE refs[report] > 0
    <3>1. refs[report] = m_loaded[report] + 1 /\ m_loaded[report] \in Nat
      BY <2>2, <2>3 DEF IInv, Unrecorded
    <3>. QED  BY <3>1
  <2>. QED  BY <2>1, <2>2, <2>3
<1>5. \/ (\E g \in Files : Put(g)) \/ List \/ TestListen \/ ReadBatch \/ ParseEvent \/ ParseName
      \/ BatchEnd \/ NotifyAll \/ Dlopen \/ PushHandle
  <2>1. ~DlopenFails /\ ~Crash
    BY <1>3 DEF DlopenFails, Crash
  <2>. QED  BY <1>3, <2>1 DEF Next, Monitor, Notify
<1>6. CASE refs[f] > 0
  <2>1. \/ refs' = refs
        \/ refs' = [refs EXCEPT ![report] = @ + 1] /\ report \in Files
    <3>1. CASE Dlopen
      BY <1>4, <3>1 DEF Dlopen
    <3>2. CASE ~Dlopen
      BY <1>5, <3>2 DEF Put, List, TestListen, ReadBatch, ParseEvent, ParseName, BatchEnd,
                        NotifyAll, PushHandle, Record
    <3>. QED  BY <3>1, <3>2
  <2>2. refs'[f] > 0
    BY <1>4, <1>6, <2>1
  <2>. QED  BY <1>3, <2>2 DEF Kept
<1>7. CASE mon \in {"test", "wait"} /\ batch = <<>> /\ j = 0 /\ InQueue(f)
  <2>1. CASE ReadBatch
    <3>1. OnEvent' /\ InBatch(f)' /\ mon' = "parse"
      BY <1>7, <2>1, ReadKeeps
    <3>. QED  BY <1>3, <3>1 DEF Kept
  <2>2. CASE ~ReadBatch
    <3>1. InQueue(f)'
      BY <1>7, <2>2, QueueGrows
    <3>2. mon' \in {"test", "wait"} /\ UNCHANGED <<batch, j>>
      BY <1>4, <1>5, <1>7, <2>2
         DEF Put, List, TestListen, ParseEvent, ParseName, BatchEnd, NotifyAll, Dlopen,
             PushHandle, Record
    <3>. QED  BY <1>3, <1>7, <3>1, <3>2 DEF Kept
  <2>. QED  BY <2>1, <2>2
<1>8. CASE mon = "parse" /\ OnEvent /\ InBatch(f)
  <2>1. CASE ParseEvent
    BY <1>3, <1>8, <2>1, ParseKeeps DEF Kept
  <2>2. CASE ~ParseEvent
    <3>1. j < Len(batch)
      BY <1>4, <1>8 DEF InBatch, ParseInv, Whole
    <3>2. UNCHANGED <<mon, batch, j>>
      <4>1. Len(batch) \in Nat
        BY DEF ParseInv, Whole
      <4>2. ~TestListen /\ ~ReadBatch /\ ~NotifyAll /\ ~Dlopen /\ ~PushHandle
        BY <1>8 DEF TestListen, ReadBatch, NotifyAll, Dlopen, PushHandle, Record
      <4>3. ~ParseName
        BY <1>8, <3>1 DEF ParseName, OnEvent
      <4>4. ~BatchEnd
        <5>1. ~(j >= Len(batch))
          BY <1>4, <3>1, <4>1
        <5>. QED  BY <5>1 DEF BatchEnd
      <4>5. (\E g \in Files : Put(g)) \/ List
        BY <1>5, <2>2, <4>2, <4>3, <4>4
      <4>. QED  BY <4>5 DEF Put, List
    <3>. QED  BY <1>3, <1>8, <3>2 DEF Kept, OnEvent, InBatch
  <2>. QED  BY <2>1, <2>2
<1>9. CASE mon \in {"notify", "load", "push"} /\ OnEvent /\ (report = f \/ InBatch(f))
  <2>1. UNCHANGED <<batch, j>>
    BY <1>5, <1>9
       DEF Put, List, TestListen, ReadBatch, ParseEvent, ParseName, BatchEnd, NotifyAll, Dlopen,
           PushHandle, Record
  <2>2. OnEvent' /\ (InBatch(f)' <=> InBatch(f))
    BY <1>9, <2>1 DEF OnEvent, InBatch
  <2>3. \/ mon' \in {"notify", "load", "push"} /\ report' = report
        \/ mon = "push" /\ mon' = "parse" /\ refs' = refs
    BY <1>4, <1>5, <1>9
       DEF Put, List, TestListen, ReadBatch, ParseEvent, ParseName, BatchEnd, NotifyAll, Dlopen,
           PushHandle, Record
  <2>. QED  BY <1>3, <1>4, <1>9, <2>2, <2>3 DEF Kept
<1>. QED  BY <1>3, <1>6, <1>7, <1>8, <1>9 DEF Kept, Living

\* For any plug-ins and events, the first read takes the first BufferUnits units
\* but for an event cut off, and the parser skips no event of it and takes no name
\* for one: a plug-in that has arrived there is loaded unless the process ends or
\* the owner begins to destroy the objects before.
THEOREM PlugFirstBatchKept == Spec => FirstBatchKept
<1> SUFFICES ASSUME NEW f \in Files
             PROVE  Spec => [](Arrived(f) /\ InFirstBatch(f) => [](Loaded(f) \/ Coming(f)))
  BY DEF FirstBatchKept
<1>1. IInv /\ ParseInv => (Arrived(f) /\ InFirstBatch(f) => Kept(f))
  BY ArrivedKept
<1>2. IInv /\ ParseInv /\ Kept(f) /\ [Next]_vars => Kept(f)'
  BY KeptStep
<1>3. ParseInv /\ Kept(f) => Loaded(f) \/ Coming(f)
  <2> SUFFICES ASSUME ParseInv, Kept(f), ~Loaded(f) PROVE Coming(f)
    OBVIOUS
  <2>1. InQueue(f) => Coming(f)
    <3>1. DOMAIN queue = 1 .. Len(queue)
      BY DEF ParseInv, Whole
    <3>. QED  BY <3>1 DEF InQueue, Coming
  <2>2. InBatch(f) => Coming(f)
    BY DEF InBatch, Coming
  <2>3. mon \in {"notify", "load", "push"} /\ report = f => Coming(f)
    BY DEF Coming
  <2>. QED  BY <2>1, <2>2, <2>3 DEF Kept, Loaded, Living
<1>. QED  BY <1>1, <1>2, <1>3, ParseInvariant, PTL DEF Spec
==============================================================================
