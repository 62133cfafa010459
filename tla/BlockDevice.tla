----------------------------- MODULE BlockDevice -----------------------------
(***************************************************************************)
(* What the program promises the kernel's block layer, without threads: a  *)
(* request touches the cells of its span one by one, in any order, between *)
(* its submission and its reply, and is replied to at most once.  Requests *)
(* in flight overlap freely, so a read may see part of a write that is not *)
(* yet replied to; what it may not see is a value that was overwritten     *)
(* before it was submitted.                                                *)
(***************************************************************************)
EXTENDS Naturals

CONSTANTS Requests,  \* each submitted at most once
          Writes,    \* those that store, the others load
          Cells,     \* the addressable units of the disk
          Span,      \* Requests -> the cells a request covers
          Zero       \* the content of a cell never written

\* What the theorems about the device take for granted of the constants.
DeviceAssumption ==
  /\ Writes \subseteq Requests
  /\ Span \in [Requests -> SUBSET Cells]
  /\ Zero \notin Requests

VARIABLES disk,       \* which write each cell was last stored by, or Zero
          submitted, replied,
          todo,       \* the cells each request has yet to touch
          buf,        \* what each request has loaded
          before      \* the requests replied to when each was submitted

vars == <<disk, submitted, replied, todo, buf, before>>

Init == /\ disk = [c \in Cells |-> Zero]
        /\ submitted = {} /\ replied = {}
        /\ todo = Span
        /\ buf = [r \in Requests |-> [c \in Cells |-> Zero]]
        /\ before = [r \in Requests |-> {}]

Submit(r) == /\ r \notin submitted
             /\ submitted' = submitted \cup {r}
             /\ before' = [before EXCEPT ![r] = replied]
             /\ UNCHANGED <<disk, replied, todo, buf>>

Touch(r, c) == /\ r \in submitted \ replied
               /\ c \in todo[r]
               /\ todo' = [todo EXCEPT ![r] = @ \ {c}]
               /\ IF r \in Writes
                    THEN disk' = [disk EXCEPT ![c] = r] /\ UNCHANGED buf
                    ELSE buf' = [buf EXCEPT ![r][c] = disk[c]] /\ UNCHANGED disk
               /\ UNCHANGED <<submitted, replied, before>>

Reply(r) == /\ r \in submitted \ replied
            /\ todo[r] = {}
            /\ replied' = replied \cup {r}
            /\ UNCHANGED <<disk, submitted, todo, buf, before>>

Next == \E r \in Requests : Submit(r) \/ Reply(r) \/ \E c \in Cells : Touch(r, c)

Spec == Init /\ [][Next]_vars

-----------------------------------------------------------------------------
TypeOK == /\ disk \in [Cells -> Writes \cup {Zero}]
          /\ submitted \subseteq Requests
          /\ replied \subseteq submitted
          /\ todo \in [Requests -> SUBSET Cells]
          /\ \A r \in Requests : todo[r] \subseteq Span[r]
          /\ buf \in [Requests -> [Cells -> Writes \cup {Zero}]]
          /\ before \in [Requests -> SUBSET Requests]

\* A read returns no value that was overwritten before it was submitted: when a
\* write w to the cell was replied to before the read was submitted, the read
\* has neither the initial content nor a write replied to before w was submitted.
ReadsFresh ==
  \A r \in Requests \ Writes, w \in Writes :
    \A c \in Span[r] \ todo[r] :
      (w \in before[r] /\ c \in Span[w]) => buf[r][c] \notin before[w] \cup {Zero}
==============================================================================
