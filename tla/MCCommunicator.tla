---------------------------- MODULE MCCommunicator ----------------------------
(***************************************************************************)
(* An instance of Communicator for model checking: one request of each     *)
(* command, a write and a read of more data than the socket holds.         *)
(***************************************************************************)
EXTENDS Communicator

CONSTANTS rd, wr, disc, flush, trim

MCRequests == {rd, wr, disc, flush, trim}

MCKind == [r \in MCRequests |->
             CASE r = rd -> "READ" [] r = wr -> "WRITE" [] r = disc -> "DISC"
               [] r = flush -> "FLUSH" [] r = trim -> "TRIM"]

MCLength == [r \in MCRequests |-> IF r \in {rd, wr} THEN 3 ELSE 0]

\* Offsets of four and of five bytes.
MCFrom == [r \in MCRequests |-> IF r = rd THEN <<0, 16, 1, 255, 0, 0, 0, 0>>
                                          ELSE <<0, 0, 0, 0, 1, 0, 0, 0>>]
==============================================================================
