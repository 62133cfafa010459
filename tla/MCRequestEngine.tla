--------------------------- MODULE MCRequestEngine ---------------------------
(***************************************************************************)
(* Instances of RequestEngine for model checking.                          *)
(***************************************************************************)
EXTENDS RequestEngine

CONSTANTS w1, w2, wr1, wr2, rd1, disc, flush, s1, s2, s3

MCWorkers == {w1, w2}
MCCells   == {1, 2}

MCKind(r) == CASE r \in {wr1, wr2} -> "WRITE" [] r = rd1  -> "READ"
               [] r = flush        -> "FLUSH" [] r = disc -> "DISCONN"

\* Two overlapping writes and a read of both cells, or a write of one and a read
\* of both before a disconnect; the keyboard is silent.
DataRequests  == {wr1, wr2, rd1, disc}
DataKind      == [r \in DataRequests |-> MCKind(r)]
DataSpan      == [r \in DataRequests |-> CASE r \in {wr1, rd1} -> MCCells
                                           [] r = wr2 -> {1} [] r = disc -> {}]
DataWorkloads ==
  {[requests |-> {wr1, wr2, rd1},  lines |-> 0, directory |-> TRUE],
   [requests |-> {wr2, rd1, disc}, lines |-> 0, directory |-> TRUE]}

\* A read of one cell with a flush, with a disconnect or with a line; enough
\* StdinTasks to block both workers after one line; and an engine that has no
\* directory for plug-ins.
StopRequests  == {rd1, flush, disc}
StopKind      == [r \in StopRequests |-> MCKind(r)]
StopSpan      == [r \in StopRequests |-> IF r = rd1 THEN {1} ELSE {}]
StopStdin     == {s1, s2, s3}
StopWorkloads ==
  {[requests |-> {rd1, flush}, lines |-> 0, directory |-> TRUE],
   [requests |-> {rd1, disc},  lines |-> 0, directory |-> TRUE],
   [requests |-> {rd1},        lines |-> 1, directory |-> TRUE],
   [requests |-> {disc},       lines |-> 1, directory |-> FALSE],
   [requests |-> {rd1},        lines |-> 1, directory |-> FALSE]}
==============================================================================
