----------------------------- MODULE MCThreadPool ----------------------------
(***************************************************************************)
(* Instances of ThreadPool for model checking.  The passing run has one    *)
(* thread that may become two, one task, and more calls; the violated run  *)
(* begins with two threads.                                                *)
(***************************************************************************)
EXTENDS ThreadPool

CONSTANTS w1, w2, low

OneWorker   == {w1}
TwoWorkers  == {w1, w2}
TwoSizes    == 1 .. 2
OneTask     == {low}
OnePriority == [t \in OneTask |-> 0]
==============================================================================
