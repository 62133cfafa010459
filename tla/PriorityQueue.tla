---------------------------- MODULE PriorityQueue ----------------------------
(***************************************************************************)
(* What a waitable priority queue promises its callers, without saying how *)
(* threads are blocked or woken: an element put into the queue is handed   *)
(* to exactly one asking consumer, never before an element of higher       *)
(* priority that is in the queue at that moment, and a consumer that asks  *)
(* while the queue is not empty is not kept waiting for ever.  The queue   *)
(* can be cleared: what is in it then is dropped.                          *)
(***************************************************************************)
EXTENDS Naturals

CONSTANTS Consumers,  \* the threads that call Pop
          Items,      \* the elements, each pushed at most once
          Priority    \* the order of the container's Compare, as a number

VARIABLES place,      \* where each element is: Unborn, Queued, Cleared
                    \* or its consumer
          asking      \* the consumers inside a call of Pop

Unborn  == "unborn"
Queued  == "queued"
Cleared == "cleared"

vars == <<place, asking>>

Init == /\ place = [i \in Items |-> Unborn]
        /\ asking = {}

Put(i) == /\ place[i] = Unborn
          /\ place' = [place EXCEPT ![i] = Queued]
          /\ UNCHANGED asking

Ask(c) == /\ c \notin asking
          /\ asking' = asking \cup {c}
          /\ UNCHANGED place

Take(c, i) == /\ c \in asking
              /\ place[i] = Queued
              /\ \A j \in Items : place[j] = Queued => Priority[j] <= Priority[i]
              /\ place' = [place EXCEPT ![i] = c]
              /\ asking' = asking \ {c}

Drop == /\ place' = [i \in Items |-> IF place[i] = Queued THEN Cleared ELSE place[i]]
        /\ UNCHANGED asking

TakeAny == \E c \in Consumers, i \in Items : Take(c, i)

Next == \/ \E i \in Items : Put(i)
        \/ \E c \in Consumers : Ask(c)
        \/ TakeAny
        \/ Drop

SafeSpec == Init /\ [][Next]_vars

Spec == SafeSpec /\ WF_vars(TakeAny)
==============================================================================
