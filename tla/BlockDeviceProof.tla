-------------------------- MODULE BlockDeviceProof ---------------------------
(***************************************************************************)
(* Proofs about BlockDevice, for every set of requests and cells.          *)
(***************************************************************************)
EXTENDS BlockDevice, TLAPS

LEMMA TypeStep ==
  ASSUME DeviceAssumption, TypeOK, [Next]_vars
  PROVE  TypeOK'
<1> USE DEF DeviceAssumption, TypeOK
<1>1. ASSUME NEW r \in Requests, Submit(r) PROVE TypeOK'
  BY <1>1 DEF Submit
<1>2. ASSUME NEW r \in Requests, Reply(r) PROVE TypeOK'
  BY <1>2 DEF Reply
<1>3. ASSUME NEW r \in Requests, NEW c \in Cells, Touch(r, c) PROVE TypeOK'
  <2>1. todo' = [todo EXCEPT ![r] = @ \ {c}]
    BY <1>3 DEF Touch
  <2>2. disk' \in [Cells -> Writes \cup {Zero}]
    BY <1>3 DEF Touch
  <2>3. buf' \in [Requests -> [Cells -> Writes \cup {Zero}]]
    <3>1. CASE r \in Writes
      BY <1>3, <3>1 DEF Touch
    <3>2. CASE r \notin Writes
      <4>1. buf' = [buf EXCEPT ![r] = [buf[r] EXCEPT ![c] = disk[c]]]
        BY <1>3, <3>2 DEF Touch
      <4>2. [buf[r] EXCEPT ![c] = disk[c]] \in [Cells -> Writes \cup {Zero}]
        OBVIOUS
      <4>. QED  BY <4>1, <4>2
    <3>. QED  BY <3>1, <3>2
  <2>4. UNCHANGED <<submitted, replied, before>>
    BY <1>3 DEF Touch
  <2>. QED  BY <2>1, <2>2, <2>3, <2>4
<1>4. CASE UNCHANGED vars
  BY <1>4 DEF vars
<1>. QED  BY <1>1, <1>2, <1>3, <1>4 DEF Next

\* The disk and the buffers hold writes or the initial content.
THEOREM DeviceTypeCorrect ==
  ASSUME DeviceAssumption
  PROVE  Spec => []TypeOK
<1>1. Init => TypeOK
  BY DeviceAssumption DEF Init, TypeOK, DeviceAssumption
<1>2. TypeOK /\ [Next]_vars => TypeOK'
  BY DeviceAssumption, TypeStep
<1>. QED  BY <1>1, <1>2, PTL DEF Spec

(***************************************************************************)
(* Freshness.  A write in flight was not replied to when any request was   *)
(* submitted; so once a write has touched a cell, the cell never again     *)
(* holds a write replied to before it was submitted.                       *)
(***************************************************************************)
BeforeReplied == \A r \in Requests : before[r] \subseteq replied

RepliedDone == \A r \in replied : todo[r] = {}

Untouched == \A r \in Requests \ submitted : todo[r] = Span[r]

Overwritten ==
  \A w \in Writes : \A c \in Span[w] \ todo[w] : disk[c] \notin before[w] \cup {Zero}

FreshInv == BeforeReplied /\ RepliedDone /\ Untouched /\ Overwritten /\ ReadsFresh

LEMMA FreshStep ==
  ASSUME DeviceAssumption, TypeOK, FreshInv, [Next]_vars
  PROVE  FreshInv'
<1> USE DEF DeviceAssumption, TypeOK, FreshInv, BeforeReplied, RepliedDone, Untouched
<1>1. ASSUME NEW r \in Requests, Submit(r) PROVE FreshInv'
  <2>1. BeforeReplied' /\ RepliedDone' /\ Untouched'
    BY <1>1 DEF Submit
  <2>2. Overwritten'
    BY <1>1 DEF Submit, Overwritten
  <2>3. ReadsFresh'
    BY <1>1 DEF Submit, ReadsFresh
  <2>. QED  BY <2>1, <2>2, <2>3
<1>2. ASSUME NEW r \in Requests, Reply(r) PROVE FreshInv'
  BY <1>2 DEF Reply, Overwritten, ReadsFresh
<1>3. ASSUME NEW r \in Requests, NEW c \in Cells, Touch(r, c) PROVE FreshInv'
  <2>1. BeforeReplied' /\ RepliedDone' /\ Untouched'
    BY <1>3 DEF Touch
  <2>2. \A x \in Requests : r \notin before[x]
    BY <1>3 DEF Touch
  <2>3. CASE r \in Writes
    <3>1. disk' = [disk EXCEPT ![c] = r] /\ buf' = buf /\ before' = before
      BY <1>3, <2>3 DEF Touch
    <3>2. todo' = [todo EXCEPT ![r] = @ \ {c}]
      BY <1>3 DEF Touch
    <3>3. Overwritten'
      BY <2>2, <2>3, <3>1, <3>2 DEF Overwritten
    <3>4. ReadsFresh'
      BY <2>3, <3>1, <3>2 DEF ReadsFresh
    <3>. QED  BY <2>1, <3>3, <3>4
  <2>4. CASE r \notin Writes
    <3>1. /\ buf' = [buf EXCEPT ![r][c] = disk[c]]
          /\ disk' = disk /\ before' = before
      BY <1>3, <2>4 DEF Touch
    <3>2. todo' = [todo EXCEPT ![r] = @ \ {c}]
      BY <1>3 DEF Touch
    <3>3. Overwritten'
      BY <2>4, <3>1, <3>2 DEF Overwritten
    \* A write replied to before r was submitted has touched c.
    <3>4. \A w \in Writes : w \in before[r] /\ c \in Span[w]
                              => disk[c] \notin before[w] \cup {Zero}
      BY DEF Overwritten
    <3>5. ReadsFresh'
      BY <2>4, <3>1, <3>2, <3>4 DEF ReadsFresh
    <3>. QED  BY <2>1, <3>3, <3>5
  <2>. QED  BY <2>3, <2>4
<1>4. CASE UNCHANGED vars
  BY <1>4 DEF vars, Overwritten, ReadsFresh
<1>. QED  BY <1>1, <1>2, <1>3, <1>4 DEF Next

\* No read returns a value that was overwritten before it was submitted,
\* whatever the requests in flight and the order in which they touch the disk.
THEOREM DeviceFresh ==
  ASSUME DeviceAssumption
  PROVE  Spec => []ReadsFresh
<1>1. Init => FreshInv
  BY DeviceAssumption DEF DeviceAssumption, Init, FreshInv, BeforeReplied, RepliedDone, Untouched,
     Overwritten, ReadsFresh
<1>2. TypeOK /\ FreshInv /\ [Next]_vars => FreshInv'
  BY DeviceAssumption, FreshStep
<1>3. FreshInv => ReadsFresh
  BY DEF FreshInv
<1>4. Spec => []TypeOK
  BY DeviceAssumption, DeviceTypeCorrect
<1>. QED  BY <1>1, <1>2, <1>3, <1>4, PTL DEF Spec
==============================================================================
