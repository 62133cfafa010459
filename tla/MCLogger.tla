------------------------------- MODULE MCLogger -------------------------------
(***************************************************************************)
(* Instance of Logger for model checking: main, a worker of the pool and   *)
(* the communicator's thread.                                              *)
(***************************************************************************)
EXTENDS Logger, TLC

CONSTANTS main, worker, driver, o1, o2

MCThreads  == {main, worker, driver}
MCObjects  == {o1, o2}

\* Addresses are interchangeable.
MCSymmetry == Permutations(MCObjects)
==============================================================================
