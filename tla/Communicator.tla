----------------------------- MODULE Communicator -----------------------------
(***************************************************************************)
(* NBDDriverCommunicator (src/drive_communicator.cpp) between the kernel's *)
(* NBD driver and the service: the constructor, the thread that hands the  *)
(* driver its end of the socket pair and waits in NBD_DO_IT,               *)
(* ReceiveRequest, called by the main thread, and SendReply, called by one *)
(* worker at a time.                                                       *)
(*                                                                         *)
(* Each direction of the socket holds Capacity units: a header, which a    *)
(* local stream socket never cuts, or a piece of data.  A read or a write  *)
(* of data moves any number of units from one up to what there is.  Built  *)
(* with NDEBUG the asserts are not there.                                  *)
(***************************************************************************)
EXTENDS Integers, Sequences, SequencesExt

CONSTANTS Requests, Kind,  \* Kind: Requests -> the commands of NBD
          From, Length,    \* the offset, as eight bytes, and the units of data
          Capacity

Commands == {"READ", "WRITE", "DISC", "FLUSH", "TRIM"}

ASSUME CommunicatorAssumption ==
  /\ Requests # {}
  /\ Kind \in [Requests -> Commands]
  /\ From \in [Requests -> [1 .. 8 -> 0 .. 255]]
  /\ Length \in [Requests -> Nat]
  /\ \A r \in Requests : Kind[r] = "WRITE" => Length[r] > 0
  /\ Capacity \in Nat \ {0}

VARIABLES main,       \* the main thread: socketpair, open, ready, payload or gone
          data_,      \* the DriverData that ReceiveRequest fills
          received,   \* what it has returned so far
          pending,    \* the requests whose tasks have not replied yet
          reply,      \* the units SendReply has still to write
          driver,     \* the thread of the communicator: its next ioctl
          build,
          status,     \* whether the process runs, or how it ended
          flags, inbox, outbox, closed, sending, submitted, replies  \* the driver

serviceVars == <<main, data_, received, pending>>
driverVars  == <<flags, closed, sending, submitted, replies>>
vars == <<serviceVars, reply, driver, build, status, driverVars, inbox, outbox>>

-----------------------------------------------------------------------------
(* Numbers and their bytes.  The service's machine is little-endian.       *)

\* Bytes in the order of the memory; the number's least significant one first.
Bytes(n) == [1 .. n -> 0 .. 255]

ntohl(a) == <<a[4], a[3], a[2], a[1]>>

\* The two halves are converted and exchanged.
ntohll(a) == LET lo == ntohl(<<a[1], a[2], a[3], a[4]>>)
                 hi == ntohl(<<a[5], a[6], a[7], a[8]>>)
             IN  hi \o lo

\* DriverData::Action, by number, and the numbers of NBD's commands.
Action  == <<"READ", "WRITE", "DISCONN", "FLUSH", "STDIN">>
NBD_CMD == [READ |-> 0, WRITE |-> 1, DISC |-> 2, FLUSH |-> 3, TRIM |-> 4]

\* struct nbd_request: the driver writes the offset most significant byte first.
nbd_request(r) == [handle |-> r, type |-> NBD_CMD[Kind[r]], from |-> Reverse(From[r]),
                   len |-> Length[r]]

\* Units of the socket: part 0 is the header.
Unit(r, i) == [handle |-> r, part |-> i]
Units(r, n) == [i \in 1 .. n + 1 |-> Unit(r, i - 1)]

\* The number of data units that follow the header of a request, of a reply.
Payload(r) == IF Kind[r] = "WRITE" THEN Length[r] ELSE 0
Answer(r)  == IF Kind[r] = "READ"  THEN Length[r] ELSE 0

RequestUnits(r) == Units(r, Payload(r))
ReplyUnits(r)   == Units(r, Answer(r))

\* ReceiveRequest decodes the header; the buffer holds the units read so far.
DriverData(h) == [m_handle |-> h.handle, m_action |-> Action[h.type + 1],
                  m_offset |-> ntohll(h.from), m_len |-> h.len, m_buffer |-> <<>>]

NoData == [m_handle |-> CHOOSE r \in Requests : TRUE, m_action |-> "FLUSH",
           m_offset |-> [i \in 1 .. 8 |-> 0], m_len |-> 0, m_buffer |-> <<>>]

-----------------------------------------------------------------------------
Init == /\ main = "socketpair" /\ data_ = NoData /\ received = <<>> /\ pending = {}
        /\ reply = <<>> /\ driver = "none"
        /\ build \in {"debug", "ndebug"} /\ status = "running"
        /\ flags = {} /\ inbox = <<>> /\ outbox = <<>> /\ closed = FALSE
        /\ sending = <<>> /\ submitted = <<>> /\ replies = <<>>

Alive == status = "running"

End(s) == /\ Alive
          /\ status' = s
          /\ UNCHANGED <<serviceVars, reply, driver, build, driverVars, inbox, outbox>>

-----------------------------------------------------------------------------
(* The constructor, called by main, which exits if it throws. *)

SocketPair == /\ Alive /\ main = "socketpair"
              /\ main' = "open"
              /\ UNCHANGED <<data_, received, pending, reply, driver, build, status,
                             driverVars, inbox, outbox>>

\* The device is open: start the thread and detach it.
StartThread == /\ Alive /\ main = "open"
               /\ main' = "ready"
               /\ driver' = "NBD_SET_SIZE"
               /\ UNCHANGED <<data_, received, pending, reply, build, status,
                              driverVars, inbox, outbox>>

CtorThrows == main \in {"socketpair", "open"} /\ End("failed")

-----------------------------------------------------------------------------
(* ThreadFunc, in WrapperThread. *)

\* The calls before NBD_DO_IT, in their order, and those after it.
NextCall == [NBD_SET_SIZE |-> "NBD_CLEAR_SOCK", NBD_CLEAR_SOCK |-> "sigmask",
             sigmask |-> "NBD_SET_SOCK", NBD_SET_SOCK |-> "NBD_SET_FLAGS",
             NBD_SET_FLAGS |-> "NBD_DO_IT",
             NBD_CLEAR_QUE |-> "cleanup", cleanup |-> "exit"]

\* A ThreadFunc with the lines that are commented out.
Mutnbd_flags == {"HAS_FLAGS", "SEND_FLUSH", "SEND_TRIM"}

nbd_flags == {"HAS_FLAGS", "SEND_FLUSH"}

Call == /\ Alive
        /\ driver \in DOMAIN NextCall
        /\ driver' = NextCall[driver]
        /\ flags' = IF driver = "NBD_SET_FLAGS" THEN nbd_flags ELSE flags
        /\ UNCHANGED <<serviceVars, reply, build, status, closed, sending, submitted,
                       replies, inbox, outbox>>

\* A WrapperThread that ends the process.
MutCallFails == /\ Alive
                /\ driver \in DOMAIN NextCall \cup {"NBD_DO_IT"}
                /\ driver' = "ended"
                /\ status' = "failed"
                /\ UNCHANGED <<serviceVars, reply, build, driverVars, inbox, outbox>>

\* A call fails: the exception ends in WrapperThread, and nobody hears of it.
CallFails == /\ Alive
             /\ driver \in DOMAIN NextCall \cup {"NBD_DO_IT"}
             /\ driver' = "ended"
             /\ UNCHANGED <<serviceVars, reply, build, status, driverVars, inbox, outbox>>

\* NBD_DO_IT: the driver serves the device until its socket is shut down.
DoIt == /\ Alive
        /\ driver = "NBD_DO_IT"
        /\ driver' = "serving"
        /\ UNCHANGED <<serviceVars, reply, build, status, driverVars, inbox, outbox>>

DoItReturns == /\ Alive
               /\ driver = "serving" /\ closed
               /\ driver' \in {"NBD_CLEAR_QUE", "ended"}
               /\ UNCHANGED <<serviceVars, reply, build, status, driverVars, inbox, outbox>>

DriverExit == driver = "exit" /\ End("success")

DriverThread == Call \/ CallFails \/ DoIt \/ DoItReturns \/ DriverExit

-----------------------------------------------------------------------------
(* The kernel's driver. *)

Attached == Alive /\ driver = "serving" /\ ~closed

\* The driver uses a command only if the flags announce it.
Flag == [FLUSH |-> "SEND_FLUSH", TRIM |-> "SEND_TRIM"]

Offered(k) == k \in DOMAIN Flag => Flag[k] \in flags

Submit(r) == /\ Attached
             /\ sending = <<>>
             /\ \A k \in 1 .. Len(submitted) : submitted[k] # r /\ Kind[submitted[k]] # "DISC"
             /\ Offered(Kind[r])
             /\ submitted' = Append(submitted, r)
             /\ sending' = RequestUnits(r)
             /\ UNCHANGED <<serviceVars, reply, driver, build, status, flags, closed,
                            replies, inbox, outbox>>

KernelSends == /\ Attached
               /\ sending # <<>> /\ Len(inbox) < Capacity
               /\ inbox' = Append(inbox, Head(sending))
               /\ sending' = Tail(sending)
               /\ UNCHANGED <<serviceVars, reply, driver, build, status, flags, closed,
                              submitted, replies, outbox>>

KernelReads == /\ Attached
               /\ outbox # <<>>
               /\ replies' = Append(replies, Head(outbox))
               /\ outbox' = Tail(outbox)
               /\ UNCHANGED <<serviceVars, reply, driver, build, status, flags, closed,
                              sending, submitted, inbox>>

\* After a disconnect request, when it is told to, or on an error.
Shutdown == /\ Attached
            /\ closed' = TRUE
            /\ UNCHANGED <<serviceVars, reply, driver, build, status, flags, sending,
                           submitted, replies, inbox, outbox>>

-----------------------------------------------------------------------------
(* ReceiveRequest, in the main thread. *)

\* The request is complete: it is returned, and becomes a task.
Returned(d) ==
  /\ main' = "ready"
  /\ received' = Append(received, d)
  /\ pending' = IF d.m_action \in {"READ", "WRITE", "FLUSH"} THEN pending \cup {d.m_handle}
                                                             ELSE pending

\* The header is read and its magic number asserted.
ReceiveHeader ==
  LET u == Head(inbox)
      d == DriverData(nbd_request(u.handle))
  IN
  /\ Alive /\ main = "ready"
  /\ inbox # <<>>
  /\ inbox' = Tail(inbox)
  /\ data_' = d
  /\ IF u.part # 0 /\ build = "debug"
       THEN status' = "aborted" /\ UNCHANGED <<main, received, pending>>
       ELSE /\ UNCHANGED status
            /\ IF d.m_action = "WRITE"
                 THEN main' = "payload" /\ UNCHANGED <<received, pending>>
                 ELSE Returned(d)
  /\ UNCHANGED <<reply, driver, build, driverVars, outbox>>

\* A ReceiveRequest that tries again at the end of the file.
MutReceiveFails == main = "ready" /\ inbox = <<>> /\ closed /\ Alive /\ UNCHANGED vars

\* End of file instead of a header: ReceiveRequest throws, and main exits.
ReceiveFails == main = "ready" /\ inbox = <<>> /\ closed /\ End("failed")

\* How much one read or write of data may move: what there is, at least a unit.
Moves(wanted, there) == {n \in 1 .. there : n <= wanted}

\* A read that is not repeated.
MutReadAll ==
  /\ Alive /\ main = "payload"
  /\ \E n \in Moves(data_.m_len - Len(data_.m_buffer), Len(inbox)) :
       LET d == [data_ EXCEPT !.m_buffer = @ \o SubSeq(inbox, 1, n)] IN
       /\ inbox' = SubSeq(inbox, n + 1, Len(inbox))
       /\ data_' = d
       /\ Returned(d)
  /\ UNCHANGED <<reply, driver, build, status, driverVars, outbox>>

\* A read into the buffer that does not look at its size.
MutReadAllSize ==
  /\ Alive /\ main = "payload"
  /\ \E n \in Moves(Len(inbox), Len(inbox)) :
       LET d == [data_ EXCEPT !.m_buffer = @ \o SubSeq(inbox, 1, n)] IN
       /\ inbox' = SubSeq(inbox, n + 1, Len(inbox))
       /\ data_' = d
       /\ IF Len(d.m_buffer) >= d.m_len THEN Returned(d)
                                        ELSE UNCHANGED <<main, received, pending>>
  /\ UNCHANGED <<reply, driver, build, status, driverVars, outbox>>

\* One turn of ReadAll's loop.
ReadAll ==
  /\ Alive /\ main = "payload"
  /\ \E n \in Moves(data_.m_len - Len(data_.m_buffer), Len(inbox)) :
       LET d == [data_ EXCEPT !.m_buffer = @ \o SubSeq(inbox, 1, n)] IN
       /\ inbox' = SubSeq(inbox, n + 1, Len(inbox))
       /\ data_' = d
       /\ IF Len(d.m_buffer) = d.m_len THEN Returned(d)
                                       ELSE UNCHANGED <<main, received, pending>>
  /\ UNCHANGED <<reply, driver, build, status, driverVars, outbox>>

\* A ReadAll that asserts that one read gets everything.
MutReadAllAsserts ==
  /\ main = "payload" /\ build = "debug"
  /\ Len(inbox) < data_.m_len - Len(data_.m_buffer)
  /\ End("aborted")

\* End of file in the data: assert(bytes_read > 0), or else the loop goes round
\* for ever.
ReadAllAsserts ==
  /\ main = "payload" /\ build = "debug"
  /\ inbox = <<>> /\ closed
  /\ End("aborted")

-----------------------------------------------------------------------------
(* SendReply, in a worker that holds the reply mutex. *)

\* A FlushTask that does not reply.
MutSendReply(r) == /\ Alive
                   /\ reply = <<>> /\ r \in pending
                   /\ pending' = pending \ {r}
                   /\ reply' = IF Kind[r] = "FLUSH" THEN <<>> ELSE ReplyUnits(r)
                   /\ UNCHANGED <<main, data_, received, driver, build, status,
                                  driverVars, inbox, outbox>>

SendReply(r) == /\ Alive
                /\ reply = <<>> /\ r \in pending
                /\ pending' = pending \ {r}
                /\ reply' = ReplyUnits(r)
                /\ UNCHANGED <<main, data_, received, driver, build, status,
                               driverVars, inbox, outbox>>

\* What one write may take: the header, or data.
Writable == IF Head(reply).part = 0 THEN 1 ELSE Len(reply)

\* A write that is not repeated.
MutWriteAll ==
  /\ Alive /\ reply # <<>> /\ ~closed
  /\ \E n \in Moves(Writable, Capacity - Len(outbox)) :
       /\ outbox' = outbox \o SubSeq(reply, 1, n)
       /\ reply' = IF Head(reply).part = 0 THEN Tail(reply) ELSE <<>>
  /\ UNCHANGED <<serviceVars, driver, build, status, driverVars, inbox>>

\* One turn of WriteAll's loop.
WriteAll ==
  /\ Alive /\ reply # <<>> /\ ~closed
  /\ \E n \in Moves(Writable, Capacity - Len(outbox)) :
       /\ outbox' = outbox \o SubSeq(reply, 1, n)
       /\ reply' = SubSeq(reply, n + 1, Len(reply))
  /\ UNCHANGED <<serviceVars, driver, build, status, driverVars, inbox>>

\* A write to a socket that was shut down: SIGPIPE.
WriteFails == reply # <<>> /\ closed /\ End("killed")

\* The last reference is gone: ~NBDDriverCommunicator.  Disconnect has no device
\* to disconnect and closes both ends; main returns.
Disconnect == main = "ready" /\ pending = {} /\ reply = <<>> /\ End("returned")

MainThread == \/ SocketPair \/ StartThread \/ CtorThrows
              \/ ReceiveHeader \/ ReceiveFails \/ ReadAll \/ ReadAllAsserts

Send == (\E r \in Requests : SendReply(r)) \/ WriteAll \/ WriteFails

Next == \/ MainThread \/ DriverThread \/ Send \/ Disconnect
        \/ (\E r \in Requests : Submit(r)) \/ KernelSends \/ KernelReads \/ Shutdown

\* The process's threads run until they block, and so do the driver's; nothing
\* makes the driver submit a request, or main return.
Fairness == /\ WF_vars(MainThread) /\ WF_vars(DriverThread) /\ WF_vars(Send)
            /\ WF_vars(KernelSends) /\ WF_vars(KernelReads)

Spec == Init /\ [][Next]_vars /\ Fairness

-----------------------------------------------------------------------------
UnitSet == [handle : Requests, part : Nat]

Data == [m_handle : Requests, m_action : Range(Action), m_offset : Bytes(8),
         m_len : Nat, m_buffer : Seq(UnitSet)]

\* The state is well typed; neither the buffer of a request nor a direction of the
\* socket holds more than fits.
TypeOK ==
  /\ main \in {"socketpair", "open", "ready", "payload"}
  /\ data_ \in Data /\ Len(data_.m_buffer) <= data_.m_len
  /\ received \in Seq(Data)
  /\ pending \subseteq Requests
  /\ reply \in Seq(UnitSet) /\ sending \in Seq(UnitSet) /\ replies \in Seq(UnitSet)
  /\ driver \in {"none", "ended", "serving", "NBD_DO_IT", "exit"} \cup DOMAIN NextCall
  /\ build \in {"debug", "ndebug"}
  /\ status \in {"running", "failed", "success", "aborted", "killed", "returned"}
  /\ flags \subseteq {"HAS_FLAGS", "SEND_FLUSH", "SEND_TRIM"}
  /\ inbox \in Seq(UnitSet) /\ Len(inbox) <= Capacity
  /\ outbox \in Seq(UnitSet) /\ Len(outbox) <= Capacity
  /\ closed \in BOOLEAN
  /\ submitted \in Seq(Requests)

\* What the driver meant by request r.
Meant(r) ==
  [m_handle |-> r, m_action |-> IF Kind[r] = "DISC" THEN "DISCONN" ELSE Kind[r],
   m_offset |-> From[r], m_len |-> Length[r],
   m_buffer |-> IF Kind[r] = "WRITE" THEN Tail(RequestUnits(r)) ELSE <<>>]

\* The service receives the driver's requests in their order, each with its own
\* action, offset and data, however the reads cut the stream.
RequestsIntact ==
  Len(received) <= Len(submitted)
    /\ \A k \in 1 .. Len(received) : received[k] = Meant(submitted[k])

\* What the service writes is a sequence of whole replies to received requests,
\* the data of a READ complete and in order behind its header, however the writes
\* cut the stream; the last reply may still be under way.
RepliesIntact ==
  LET stream == replies \o outbox
      Complete(u) == u.part = Answer(u.handle)
  IN \A k \in 1 .. Len(stream) :
       LET u == stream[k] IN
       /\ IF u.part = 0
            THEN /\ \A j \in 1 .. k - 1 : stream[j] # u
                 /\ \E j \in 1 .. Len(received) : received[j].m_handle = u.handle
            ELSE k > 1 /\ stream[k - 1] = Unit(u.handle, u.part - 1)
       /\ k < Len(stream) /\ ~Complete(u) => stream[k + 1] = Unit(u.handle, u.part + 1)

\* No command of the driver is taken for a line on the keyboard: TRIM has the
\* number of STDIN, and is kept away by the flags alone.
NoStdinFromDriver == \A k \in 1 .. Len(received) : received[k].m_action # "STDIN"

\* Once the constructor has returned, nothing but the driver's shutdown makes
\* the process fail, abort or be killed.
EndsOnlyAfterShutdown ==
  status \in {"failed", "aborted", "killed"} => closed \/ main \in {"socketpair", "open"}

\* The requests whose reply the driver has read to its end.
LastUnit(r)  == Unit(r, Answer(r))
AnsweredOnes == {r \in Requests : \E j \in 1 .. Len(replies) : replies[j] = LastUnit(r)}

Channel == INSTANCE Channel
             WITH Disconnects <- {r \in Requests : Kind[r] = "DISC"},
                  flight <- SubSeq(submitted, Len(received) + 1, Len(submitted)),
                  received <- {received[k].m_handle : k \in 1 .. Len(received)},
                  answered <- AnsweredOnes

\* Cut into units, through two bounded streams, requests and replies are still
\* those of the channel on which RequestEngine is built.
ImplementsChannel == Channel!Spec

\* No deadlock between the two directions of the socket: while the driver waits
\* for an answer, the main thread has something to read, a worker room to write,
\* or the driver something to read or room to send.
NeverStuck ==
  /\ Attached
  /\ \E k \in 1 .. Len(submitted) :
       Kind[submitted[k]] # "DISC" /\ submitted[k] \notin AnsweredOnes
  => \/ main \in {"ready", "payload"} /\ inbox # <<>>
     \/ reply = <<>> /\ pending # {}
     \/ reply # <<>> /\ Len(outbox) < Capacity
     \/ outbox # <<>>
     \/ sending # <<>> /\ Len(inbox) < Capacity

\* When a call before NBD_DO_IT fails, the process goes on without a device: it
\* gets no request and ends by nothing but the return of main.
SilentFailure ==
  [](driver = "ended" /\ ~closed => [](status \in {"running", "returned"} /\ submitted = <<>>))

\* The driver does not wait for ever: again and again all that it has submitted
\* is answered, data included, unless it goes away or the process ends.
Answered ==
  []<>(closed \/ ~Alive \/
         \A k \in 1 .. Len(submitted) :
           Kind[submitted[k]] = "DISC" \/ submitted[k] \in AnsweredOnes)

\* When the driver has gone away the process ends.  The exception: without
\* asserts, ReadAll spins at the end of the file, and the other thread, which
\* would exit, has failed to clean up.
EndsAfterShutdown ==
  closed ~> ~Alive \/ (build = "ndebug" /\ main = "payload" /\ driver = "ended")
==============================================================================
