-------------------------------- MODULE MCWPQ --------------------------------
(***************************************************************************)
(* Instance of WPQ for model checking: two elements of equal priority and  *)
(* one above them, two producers and three consumers.                      *)
(***************************************************************************)
EXTENDS WPQ

CONSTANTS p1, p2, c1, c2, c3, low1, low2, high

MCProducers == {p1, p2}
MCConsumers == {c1, c2, c3}
MCItems     == {low1, low2, high}
MCPriority  == [i \in MCItems |-> IF i = high THEN 2 ELSE 1]
==============================================================================
