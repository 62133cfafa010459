------------------------------- MODULE Channel -------------------------------
(***************************************************************************)
(* What the kernel's NBD driver and the service are to each other: the     *)
(* driver submits requests, which arrive whole, once and in order; the     *)
(* service answers each at most once, and never before it has arrived.     *)
(* After a disconnect request, which has no answer, nothing is submitted.  *)
(*                                                                         *)
(* Communicator implements it with the units of a stream socket;           *)
(* RequestEngine, which takes whole requests from its socket, implements   *)
(* it with a pool of threads that answer in any order.                     *)
(***************************************************************************)
EXTENDS Naturals, Sequences

CONSTANTS Requests, Disconnects

VARIABLES flight,    \* the requests submitted and not yet received, in order
          received,
          answered

vars == <<flight, received, answered>>

InFlight == {flight[k] : k \in 1 .. Len(flight)}

Init == flight = <<>> /\ received = {} /\ answered = {}

Submit(r) == /\ r \notin received \cup InFlight
             /\ (received \cup InFlight) \cap Disconnects = {}
             /\ flight' = Append(flight, r)
             /\ UNCHANGED <<received, answered>>

Receive == /\ flight # <<>>
           /\ flight' = Tail(flight)
           /\ received' = received \cup {Head(flight)}
           /\ UNCHANGED answered

Answer(r) == /\ r \in received \ (answered \cup Disconnects)
             /\ answered' = answered \cup {r}
             /\ UNCHANGED <<flight, received>>

Next == Receive \/ \E r \in Requests : Submit(r) \/ Answer(r)

Spec == Init /\ [][Next]_vars
==============================================================================
