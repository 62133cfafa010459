--------------------------- MODULE CommunicatorProof ---------------------------
(***************************************************************************)
(* Proofs about the communicator, for any requests, of any length, and any *)
(* capacity of the socket.                                                 *)
(***************************************************************************)
EXTENDS Communicator, SequenceTheorems, TLAPS

(***************************************************************************)
(* Numbers and sequences.                                                  *)
(***************************************************************************)

\* ntohll, which exchanges two converted halves, undoes the driver's conversion
\* of a number to the order of the network.
LEMMA NtohllInverse ==
  ASSUME NEW b \in Bytes(8)
  PROVE  ntohll(Reverse(b)) = b
<1> DEFINE a == Reverse(b)
           x == <<b[1], b[2], b[3], b[4]>>
           y == <<b[5], b[6], b[7], b[8]>>
<1>1. /\ b \in Seq(0 .. 255) /\ Len(b) = 8
      /\ \A i \in 1 .. 8 : b[i] \in 0 .. 255
  <2>1. b = [i \in 1 .. 8 |-> b[i]] /\ \A i \in 1 .. 8 : b[i] \in 0 .. 255
    BY DEF Bytes
  <2>2. [i \in 1 .. 8 |-> b[i]] \in Seq(0 .. 255) /\ Len([i \in 1 .. 8 |-> b[i]]) = 8
    BY <2>1
  <2>. QED  BY <2>1, <2>2
<1>2. /\ a[1] = b[8] /\ a[2] = b[7] /\ a[3] = b[6] /\ a[4] = b[5]
      /\ a[5] = b[4] /\ a[6] = b[3] /\ a[7] = b[2] /\ a[8] = b[1]
  BY <1>1 DEF Reverse
<1>3. ntohll(a) = x \o y
  <2> HIDE DEF a
  <2>. QED  BY <1>2 DEF ntohll, ntohl
<1>4. x \in Seq(0 .. 255) /\ y \in Seq(0 .. 255) /\ Len(x) = 4 /\ Len(y) = 4
  BY <1>1
<1>5. \A i \in 1 .. 4 : x[i] = b[i] /\ y[i] = b[i + 4]
  BY <1>1
<1>6. x \o y = b
  <2> HIDE DEF x, y
  <2>1. /\ x \o y \in Seq(0 .. 255) /\ Len(x \o y) = Len(x) + Len(y)
        /\ \A i \in 1 .. Len(x) + Len(y) :
             (x \o y)[i] = IF i <= Len(x) THEN x[i] ELSE y[i - Len(x)]
    BY <1>4, ConcatProperties, Zenon
  <2>2. Len(x \o y) = 8 /\ \A i \in 1 .. 8 : (x \o y)[i] = b[i]
    BY <1>4, <1>5, <2>1
  <2>. QED  BY <1>1, <2>1, <2>2, SeqEqual
<1>. QED  BY <1>3, <1>6

LEMMA MoveType ==
  ASSUME NEW S, NEW s \in Seq(S), NEW t \in Seq(S), NEW n \in Nat, n <= Len(t)
  PROVE  /\ s \o SubSeq(t, 1, n) \in Seq(S)
         /\ SubSeq(t, n + 1, Len(t)) \in Seq(S)
         /\ Len(s \o SubSeq(t, 1, n)) = Len(s) + n
OBVIOUS

\* To move the front of t behind s leaves s \o t as it is.
LEMMA MoveKeepsConcat ==
  ASSUME NEW S, NEW s \in Seq(S), NEW t \in Seq(S), NEW n \in Nat, n <= Len(t)
  PROVE  (s \o SubSeq(t, 1, n)) \o SubSeq(t, n + 1, Len(t)) = s \o t
<1> DEFINE front == SubSeq(t, 1, n)
           rest == SubSeq(t, n + 1, Len(t))
<1>1. /\ front \in Seq(S) /\ Len(front) = n /\ \A i \in 1 .. n : front[i] = t[i]
      /\ rest \in Seq(S) /\ Len(rest) = Len(t) - n /\ \A i \in 1 .. Len(t) - n : rest[i] = t[n + i]
  OBVIOUS
<1>2. Len(t) \in Nat
  OBVIOUS
<1> HIDE DEF front, rest
<1>3. front \in Seq(S) /\ rest \in Seq(S)
  BY <1>1
<1>4. (s \o front) \o rest = s \o (front \o rest)
  BY <1>3, ConcatAssociative
<1>5. front \o rest = t
  <2>1. front \o rest \in Seq(S) /\ Len(front \o rest) = Len(front) + Len(rest)
    BY <1>3
  <2>2. \A i \in 1 .. Len(front) + Len(rest) :
          (front \o rest)[i] = IF i <= Len(front) THEN front[i] ELSE rest[i - Len(front)]
    BY <1>3
  <2>3. Len(front) + Len(rest) = Len(t)
    BY <1>1, <1>2
  <2>4. \A i \in 1 .. Len(t) : (front \o rest)[i] = t[i]
    BY <1>1, <1>2, <2>2, <2>3
  <2>5. Len(front \o rest) = Len(t)
    BY <2>1, <2>3
  <2>. QED  BY <2>1, <2>4, <2>5, SeqEqual
<1>. QED  BY <1>4, <1>5 DEF front, rest

LEMMA HeadKeepsConcat ==
  ASSUME NEW S, NEW s \in Seq(S), NEW t \in Seq(S), t # <<>>
  PROVE  /\ Append(s, Head(t)) \in Seq(S) /\ Tail(t) \in Seq(S)
         /\ Len(Append(s, Head(t))) = Len(s) + 1
         /\ Append(s, Head(t)) \o Tail(t) = s \o t
<1>1. Len(t) \in Nat /\ Len(t) >= 1 /\ Head(t) = t[1] /\ Head(t) \in S
  OBVIOUS
<1>2. SubSeq(t, 1, 1) = <<Head(t)>>
  <2>1. SubSeq(t, 1, 1) \in Seq(S) /\ Len(SubSeq(t, 1, 1)) = 1 /\ SubSeq(t, 1, 1)[1] = t[1]
    BY <1>1
  <2>2. <<Head(t)>> \in Seq(S) /\ Len(<<Head(t)>>) = 1 /\ <<Head(t)>>[1] = t[1]
    BY <1>1
  <2>3. \A i \in 1 .. 1 : SubSeq(t, 1, 1)[i] = <<Head(t)>>[i]
    BY <2>1, <2>2
  <2>. QED  BY <2>1, <2>2, <2>3, SeqEqual, Zenon
<1>3. SubSeq(t, 2, Len(t)) = Tail(t)
  BY TailIsSubSeq
<1>4. Append(s, Head(t)) = s \o <<Head(t)>>
  BY <1>1, AppendIsConcat
<1>. QED  BY <1>1, <1>2, <1>3, <1>4, MoveType, MoveKeepsConcat

(***************************************************************************)
(* What the operators of the model return.                                 *)
(***************************************************************************)
LEMMA UnitsType ==
  ASSUME NEW r \in Requests, NEW n \in Nat
  PROVE  /\ Units(r, n) \in Seq(UnitSet)
         /\ Len(Units(r, n)) = n + 1
         /\ \A i \in 1 .. n + 1 : Units(r, n)[i] = Unit(r, i - 1)
<1>1. \A i \in 1 .. n + 1 : Unit(r, i - 1) \in UnitSet
  BY DEF Unit, UnitSet
<1>. QED  BY <1>1 DEF Units

LEMMA RequestType ==
  ASSUME NEW r \in Requests
  PROVE  /\ Payload(r) \in Nat
         /\ RequestUnits(r) \in Seq(UnitSet)
         /\ Len(RequestUnits(r)) = Payload(r) + 1
         /\ \A i \in 1 .. Payload(r) + 1 : RequestUnits(r)[i] = Unit(r, i - 1)
<1>1. Payload(r) \in Nat
  BY CommunicatorAssumption DEF CommunicatorAssumption, Payload
<1>2. RequestUnits(r) = Units(r, Payload(r))
  BY DEF RequestUnits
<1>. QED  BY <1>1, <1>2, UnitsType

LEMMA ReplyType ==
  ASSUME NEW r \in Requests
  PROVE  /\ Answer(r) \in Nat
         /\ ReplyUnits(r) \in Seq(UnitSet)
         /\ Len(ReplyUnits(r)) = Answer(r) + 1
         /\ \A i \in 1 .. Answer(r) + 1 : ReplyUnits(r)[i] = Unit(r, i - 1)
<1>1. Answer(r) \in Nat
  BY CommunicatorAssumption DEF CommunicatorAssumption, Answer
<1>2. ReplyUnits(r) = Units(r, Answer(r))
  BY DEF ReplyUnits
<1>. QED  BY <1>1, <1>2, UnitsType

\* A request before its data is read, as the driver means it.
Header(r) == [m_handle |-> r, m_action |-> IF Kind[r] = "DISC" THEN "DISCONN" ELSE Kind[r],
              m_offset |-> From[r], m_len |-> Length[r], m_buffer |-> <<>>]

LEMMA ActionNumbers ==
  ASSUME NEW r \in Requests
  PROVE  /\ Action[NBD_CMD[Kind[r]] + 1] \in {"READ", "WRITE", "DISCONN", "FLUSH", "STDIN"}
         /\ Kind[r] # "TRIM" => Action[NBD_CMD[Kind[r]] + 1]
                                  = IF Kind[r] = "DISC" THEN "DISCONN" ELSE Kind[r]
<1>1. Kind[r] \in Commands
  BY CommunicatorAssumption DEF CommunicatorAssumption
<1>. QED  BY <1>1 DEF Commands, Action, NBD_CMD

LEMMA DecodedHeader ==
  ASSUME NEW r \in Requests
  PROVE  /\ DriverData(nbd_request(r)) \in Data
         /\ DriverData(nbd_request(r)).m_handle = r
         /\ DriverData(nbd_request(r)).m_buffer = <<>>
         /\ Kind[r] # "TRIM" => DriverData(nbd_request(r)) = Header(r)
<1> DEFINE action == Action[NBD_CMD[Kind[r]] + 1]
<1>1. From[r] \in Bytes(8) /\ Length[r] \in Nat
  BY CommunicatorAssumption DEF CommunicatorAssumption, Bytes
<1>2. ntohll(Reverse(From[r])) = From[r]
  BY <1>1, NtohllInverse
<1>3. DriverData(nbd_request(r)) = [m_handle |-> r, m_action |-> action, m_offset |-> From[r],
                                    m_len |-> Length[r], m_buffer |-> <<>>]
  BY <1>2 DEF DriverData, nbd_request
<1>4. action \in Range(Action)
  <2>1. Range(Action) = {"READ", "WRITE", "DISCONN", "FLUSH", "STDIN"}
    BY DEF Range, Action
  <2>. QED  BY <2>1, ActionNumbers
<1>5. Kind[r] # "TRIM" => action = IF Kind[r] = "DISC" THEN "DISCONN" ELSE Kind[r]
  BY ActionNumbers
<1> HIDE DEF action
<1>6. <<>> \in Seq(UnitSet)
  OBVIOUS
<1>. QED  BY <1>1, <1>3, <1>4, <1>5, <1>6 DEF Data, Header

(***************************************************************************)
(* Types.                                                                  *)
(***************************************************************************)
LEMMA InitTypes == Init => TypeOK
<1> SUFFICES ASSUME Init PROVE TypeOK
  OBVIOUS
<1>1. (CHOOSE r \in Requests : TRUE) \in Requests
  BY CommunicatorAssumption DEF CommunicatorAssumption
<1>2. [i \in 1 .. 8 |-> 0] \in Bytes(8)
  BY DEF Bytes
<1>3. "FLUSH" \in Range(Action)
  <2>1. Range(Action) = {"READ", "WRITE", "DISCONN", "FLUSH", "STDIN"}
    BY DEF Range, Action
  <2>. QED  BY <2>1
<1>4. data_ \in Data /\ Len(data_.m_buffer) <= data_.m_len
  <2>1. <<>> \in Seq(UnitSet) /\ Len(<<>>) = 0
    OBVIOUS
  <2>. QED  BY <1>1, <1>2, <1>3, <2>1 DEF Init, NoData, Data
<1>5. /\ <<>> \in Seq(Data) /\ <<>> \in Seq(UnitSet) /\ <<>> \in Seq(Requests)
      /\ Len(<<>>) <= Capacity
  BY CommunicatorAssumption DEF CommunicatorAssumption
<1>. QED  BY <1>4, <1>5 DEF Init, TypeOK

LEMMA ReturnedType ==
  ASSUME TypeOK, NEW d \in Data, Returned(d)
  PROVE  main' = "ready" /\ received' \in Seq(Data) /\ pending' \subseteq Requests
<1>1. received' \in Seq(Data)
  BY AppendProperties DEF TypeOK, Returned
<1>2. d.m_handle \in Requests
  BY DEF Data
<1>. QED  BY <1>1, <1>2 DEF TypeOK, Returned

LEMMA TypeStep ==
  ASSUME TypeOK, [Next]_vars
  PROVE  TypeOK'
<1> USE CommunicatorAssumption DEF CommunicatorAssumption, TypeOK, serviceVars, driverVars
<1>0. /\ inbox \in Seq(UnitSet) /\ outbox \in Seq(UnitSet) /\ reply \in Seq(UnitSet)
      /\ sending \in Seq(UnitSet) /\ Len(inbox) \in Nat /\ Len(outbox) \in Nat
      /\ Len(reply) \in Nat /\ Capacity \in Nat
  OBVIOUS
<1>1. ASSUME NEW s \in {"failed", "success", "aborted", "killed", "returned"}, End(s)
      PROVE  TypeOK'
  BY <1>1 DEF End
<1>2. CASE SocketPair    BY <1>2 DEF SocketPair
<1>3. CASE StartThread   BY <1>3 DEF StartThread, NextCall
<1>4. CASE ReceiveHeader
  <2>1. Head(inbox) \in UnitSet /\ Tail(inbox) \in Seq(UnitSet) /\ Len(Tail(inbox)) = Len(inbox) - 1
    BY <1>4 DEF ReceiveHeader
  <2> DEFINE d == DriverData(nbd_request(Head(inbox).handle))
  <2>2. Head(inbox).handle \in Requests
    BY <2>1 DEF UnitSet
  <2>3. d \in Data /\ d.m_handle \in Requests /\ d.m_buffer = <<>> /\ d.m_len \in Nat
    BY <2>2, DecodedHeader DEF Data
  <2>4. data_' = d /\ inbox' = Tail(inbox)
        /\ UNCHANGED <<reply, driver, build, driverVars, outbox>>
    BY <1>4 DEF ReceiveHeader
  <2>5. \/ UNCHANGED <<main, received, pending>> /\ status' = "aborted"
        \/ main' = "payload" /\ UNCHANGED <<received, pending, status>>
        \/ Returned(d) /\ UNCHANGED status
    BY <1>4 DEF ReceiveHeader
  <2> HIDE DEF d
  <2>6. Len(d.m_buffer) <= d.m_len
    BY <2>3
  <2>7. main' \in {"socketpair", "open", "ready", "payload"} /\ received' \in Seq(Data)
        /\ pending' \subseteq Requests
        /\ status' \in {"running", "failed", "success", "aborted", "killed", "returned"}
    BY <2>3, <2>5, ReturnedType
  <2>. QED  BY <1>0, <2>1, <2>3, <2>4, <2>6, <2>7
<1>5. CASE ReadAll
  <2>1. PICK n \in Moves(data_.m_len - Len(data_.m_buffer), Len(inbox)) :
          LET d == [data_ EXCEPT !.m_buffer = @ \o SubSeq(inbox, 1, n)] IN
          /\ inbox' = SubSeq(inbox, n + 1, Len(inbox))
          /\ data_' = d
          /\ IF Len(d.m_buffer) = d.m_len THEN Returned(d)
                                          ELSE UNCHANGED <<main, received, pending>>
    BY <1>5 DEF ReadAll
  <2> DEFINE d == [data_ EXCEPT !.m_buffer = @ \o SubSeq(inbox, 1, n)]
  <2>2. data_.m_buffer \in Seq(UnitSet) /\ data_.m_len \in Nat /\ data_.m_handle \in Requests
        /\ Len(data_.m_buffer) \in Nat
    BY DEF Data
  <2>3. n \in 1 .. Len(inbox) /\ n <= data_.m_len - Len(data_.m_buffer)
    BY <2>1 DEF Moves
  <2>4. /\ data_.m_buffer \o SubSeq(inbox, 1, n) \in Seq(UnitSet)
        /\ Len(data_.m_buffer \o SubSeq(inbox, 1, n)) = Len(data_.m_buffer) + n
        /\ SubSeq(inbox, n + 1, Len(inbox)) \in Seq(UnitSet)
    <3>1. n \in 0 .. Len(inbox)
      BY <2>3
    <3> DEFINE b == data_.m_buffer
    <3>2. b \in Seq(UnitSet)
      BY <2>2
    <3> HIDE DEF b
    <3>3. /\ b \o SubSeq(inbox, 1, n) \in Seq(UnitSet)
          /\ SubSeq(inbox, n + 1, Len(inbox)) \in Seq(UnitSet)
          /\ Len(b \o SubSeq(inbox, 1, n)) = Len(b) + n
      BY <1>0, <3>1, <3>2, MoveType
    <3>. QED  BY <3>3 DEF b
  <2>5. Len(SubSeq(inbox, n + 1, Len(inbox))) <= Len(inbox)
    BY <1>0, <2>3
  <2>6. /\ d \in Data /\ d.m_handle \in Requests /\ d.m_len = data_.m_len
        /\ d.m_buffer = data_.m_buffer \o SubSeq(inbox, 1, n)
    BY <2>2, <2>4 DEF Data
  <2>7. data_' = d /\ (Returned(d) \/ UNCHANGED <<main, received, pending>>)
    BY <2>1
  <2> HIDE DEF d
  <2>8. Len(d.m_buffer) <= d.m_len
    BY <2>2, <2>3, <2>4, <2>6
  <2>9. main' \in {"socketpair", "open", "ready", "payload"} /\ received' \in Seq(Data)
        /\ pending' \subseteq Requests
    BY <2>6, <2>7, ReturnedType
  <2>10. inbox' \in Seq(UnitSet) /\ Len(inbox') <= Capacity
    BY <1>0, <2>1, <2>4, <2>5
  <2>. QED  BY <1>5, <2>6, <2>7, <2>8, <2>9, <2>10 DEF ReadAll
<1>6. CASE Call
  <2>1. driver' \in {"none", "ended", "serving", "NBD_DO_IT", "exit"} \cup DOMAIN NextCall
    BY <1>6 DEF Call, NextCall
  <2>. QED  BY <1>6, <2>1 DEF Call, nbd_flags
<1>7. CASE CallFails     BY <1>7 DEF CallFails
<1>8. CASE DoIt          BY <1>8 DEF DoIt
<1>9. CASE DoItReturns   BY <1>9 DEF DoItReturns, NextCall
<1>10. ASSUME NEW r \in Requests, Submit(r) PROVE TypeOK'
  <2>1. sending' \in Seq(UnitSet)
    BY <1>10, RequestType DEF Submit
  <2>2. submitted' \in Seq(Requests)
    BY <1>10, AppendProperties DEF Submit
  <2>. QED  BY <1>10, <2>1, <2>2 DEF Submit
<1>11. CASE KernelSends
  <2>1. inbox' \in Seq(UnitSet) /\ sending' \in Seq(UnitSet) /\ Len(inbox') = Len(inbox) + 1
    BY <1>0, <1>11, HeadKeepsConcat DEF KernelSends
  <2>. QED  BY <1>0, <1>11, <2>1 DEF KernelSends
<1>12. CASE KernelReads  BY <1>12 DEF KernelReads
<1>13. CASE Shutdown     BY <1>13 DEF Shutdown
<1>14. ASSUME NEW r \in Requests, SendReply(r) PROVE TypeOK'
  BY <1>14, ReplyType DEF SendReply
<1>15. CASE WriteAll
  <2>1. PICK n \in Moves(Writable, Capacity - Len(outbox)) :
          /\ outbox' = outbox \o SubSeq(reply, 1, n)
          /\ reply' = SubSeq(reply, n + 1, Len(reply))
    BY <1>15 DEF WriteAll
  <2>2. n \in 0 .. Len(reply) /\ n <= Capacity - Len(outbox)
    <3>1. reply # <<>> /\ Len(reply) >= 1
      BY <1>0, <1>15 DEF WriteAll
    <3>. QED  BY <1>0, <2>1, <3>1 DEF Moves, Writable
  <2>3. outbox' \in Seq(UnitSet) /\ reply' \in Seq(UnitSet) /\ Len(outbox') = Len(outbox) + n
    <3>1. /\ outbox \o SubSeq(reply, 1, n) \in Seq(UnitSet)
          /\ SubSeq(reply, n + 1, Len(reply)) \in Seq(UnitSet)
          /\ Len(outbox \o SubSeq(reply, 1, n)) = Len(outbox) + n
      BY <1>0, <2>2, MoveType
    <3>. QED  BY <2>1, <3>1
  <2>4. Len(outbox') <= Capacity
    BY <1>0, <2>2, <2>3
  <2>. QED  BY <1>15, <2>3, <2>4 DEF WriteAll
<1>16. CASE UNCHANGED vars
  BY <1>16 DEF vars
<1>. QED
  BY <1>1, <1>2, <1>3, <1>4, <1>5, <1>6, <1>7, <1>8, <1>9, <1>10, <1>11, <1>12, <1>13, <1>14,
     <1>15, <1>16
     DEF Next, MainThread, DriverThread, Send, CtorThrows, ReceiveFails, ReadAllAsserts,
         DriverExit, WriteFails, Disconnect

\* The state of the communicator is well typed: neither a request's buffer nor a
\* direction of the socket ever holds more than fits.
THEOREM CommunicatorTypeCorrect == Spec => []TypeOK
BY InitTypes, TypeStep, PTL DEF Spec

(***************************************************************************)
(* The stream of requests.  off[i] is the position at which request i of   *)
(* reqs begins in all      that the driver ever sends; gone is how much of *)
(* it the service has read, and flow what is still on its way.             *)
(***************************************************************************)
Offsets(off, reqs) ==
  /\ off \in [1 .. Len(reqs) + 1 -> Nat]
  /\ \A i \in 1 .. Len(reqs) :
       /\ off[i + 1] = off[i] + Payload(reqs[i]) + 1
       /\ off[i + 1] <= off[Len(reqs) + 1]

Flow(off, reqs, flow, gone) ==
  /\ gone + Len(flow) = off[Len(reqs) + 1]
  /\ \A i \in 1 .. Len(reqs) : \A p \in Nat :
       p <= Payload(reqs[i]) /\ off[i] + p + 1 > gone
         => flow[(off[i] + p + 1) - gone] = Unit(reqs[i], p)

\* How much of the next request has been read.
Done == IF main = "payload" THEN Len(data_.m_buffer) + 1 ELSE 0

Streaming == \E off : /\ Offsets(off, submitted)
                      /\ Flow(off, submitted, inbox \o sending, off[Len(received) + 1] + Done)

\* The request whose data is being read.
Reading ==
  main = "payload" =>
    /\ Len(received) < Len(submitted)
    /\ LET r == submitted[Len(received) + 1] IN
       /\ Kind[r] = "WRITE"
       /\ data_ = [Header(r) EXCEPT !.m_buffer = data_.m_buffer]
       /\ Len(data_.m_buffer) < Length[r]
       /\ \A m \in 1 .. Len(data_.m_buffer) : data_.m_buffer[m] = Unit(r, m)

\* No request is submitted twice, and none is a TRIM.
SubmittedOnce ==
  \A k \in 1 .. Len(submitted) :
    Kind[submitted[k]] # "TRIM" /\ \A j \in 1 .. k - 1 : submitted[j] # submitted[k]

RequestInv ==
  /\ flags \subseteq {"HAS_FLAGS", "SEND_FLUSH"}
  /\ SubmittedOnce /\ Reading /\ Streaming
  /\ RequestsIntact /\ EndsOnlyAfterShutdown

LEMMA ReadMoves ==
  ASSUME NEW s \in Seq(UnitSet), NEW t \in Seq(UnitSet), NEW c \in Nat, c <= Len(s)
  PROVE  /\ Len(s \o t) \in Nat /\ c <= Len(s \o t)
         /\ Len(SubSeq(s, c + 1, Len(s)) \o t) = Len(s \o t) - c
         /\ \A k \in 1 .. Len(s \o t) - c :
              (SubSeq(s, c + 1, Len(s)) \o t)[k] = (s \o t)[k + c]
<1> DEFINE rest == SubSeq(s, c + 1, Len(s))
<1>1. rest \in Seq(UnitSet) /\ Len(rest) = Len(s) - c /\ \A i \in 1 .. Len(s) - c : rest[i] = s[c + i]
  OBVIOUS
<1>2. Len(s) \in Nat /\ Len(t) \in Nat
  OBVIOUS
<1> HIDE DEF rest
<1>3. /\ Len(rest \o t) = Len(rest) + Len(t)
      /\ \A i \in 1 .. Len(rest) + Len(t) :
           (rest \o t)[i] = IF i <= Len(rest) THEN rest[i] ELSE t[i - Len(rest)]
  <2>1. rest \in Seq(UnitSet)
    BY <1>1
  <2>. QED  BY <2>1
<1>4. /\ Len(s \o t) = Len(s) + Len(t)
      /\ \A i \in 1 .. Len(s) + Len(t) : (s \o t)[i] = IF i <= Len(s) THEN s[i] ELSE t[i - Len(s)]
  OBVIOUS
<1>5. ASSUME NEW k \in 1 .. Len(s) + Len(t) - c PROVE (rest \o t)[k] = (s \o t)[k + c]
  <2>1. (rest \o t)[k] = IF k <= Len(rest) THEN rest[k] ELSE t[k - Len(rest)]
    BY <1>1, <1>2, <1>3
  <2>2. (s \o t)[k + c] = IF k + c <= Len(s) THEN s[k + c] ELSE t[k + c - Len(s)]
    BY <1>2, <1>4
  <2>3. CASE k + c <= Len(s)
    BY <1>1, <1>2, <2>1, <2>2, <2>3
  <2>4. CASE ~(k + c <= Len(s))
    <3>1. ~(k <= Len(rest)) /\ k - Len(rest) = k + c - Len(s)
      BY <1>1, <1>2, <2>4
    <3>. QED  BY <2>1, <2>2, <2>4, <3>1
  <2>. QED  BY <2>3, <2>4
<1>6. Len(rest \o t) = Len(s \o t) - c
  BY <1>1, <1>2, <1>3, <1>4
<1>. QED  BY <1>2, <1>4, <1>5, <1>6 DEF rest

\* What is read leaves the rest of the stream.
LEMMA FlowConsumed ==
  ASSUME TypeOK, NEW off, Offsets(off, submitted), NEW flow, NEW rest, NEW gone \in Nat, NEW c \in Nat,
         Flow(off, submitted, flow, gone), Len(flow) \in Nat, c <= Len(flow), Len(rest) = Len(flow) - c,
         \A k \in 1 .. Len(flow) - c : rest[k] = flow[k + c]
  PROVE  Flow(off, submitted, rest, gone + c)
<1>0. Len(submitted) \in Nat
  BY DEF TypeOK
<1>1. (gone + c) + Len(rest) = off[Len(submitted) + 1]
  <2>1. off[Len(submitted) + 1] \in Nat
    BY <1>0 DEF Offsets
  <2>. QED  BY <2>1 DEF Flow
<1>2. ASSUME NEW i \in 1 .. Len(submitted), NEW p \in Nat,
             p <= Payload(submitted[i]), off[i] + p + 1 > gone + c
      PROVE  rest[(off[i] + p + 1) - (gone + c)] = Unit(submitted[i], p)
  <2> DEFINE place == off[i] + p + 1
  <2>1. submitted[i] \in Requests
    BY DEF TypeOK
  <2>2. Payload(submitted[i]) \in Nat
    BY <2>1, RequestType
  <2>3. i \in 1 .. Len(submitted) + 1 /\ i + 1 \in 1 .. Len(submitted) + 1
        /\ Len(submitted) + 1 \in 1 .. Len(submitted) + 1
    BY <1>0
  <2>4. off[i] \in Nat /\ off[i + 1] \in Nat /\ off[Len(submitted) + 1] \in Nat
    BY <2>3 DEF Offsets
  <2>5. off[i + 1] = off[i] + Payload(submitted[i]) + 1 /\ off[i + 1] <= off[Len(submitted) + 1]
        /\ off[Len(submitted) + 1] = gone + Len(flow)
    BY DEF Offsets, Flow
  <2>6. place \in Nat /\ place <= gone + Len(flow) /\ place > gone + c
    <3> DEFINE start == off[i]
               size  == Payload(submitted[i])
               next  == off[i + 1]
               end   == off[Len(submitted) + 1]
               left  == Len(flow)
    <3>1. /\ start \in Nat /\ size \in Nat /\ next \in Nat /\ end \in Nat /\ left \in Nat
          /\ p <= size /\ start + p + 1 > gone + c
          /\ next = start + size + 1 /\ next <= end /\ end = gone + left
      BY <1>2, <2>2, <2>4, <2>5
    <3> HIDE DEF start, size, next, end, left
    <3>2. start + p + 1 \in Nat /\ start + p + 1 <= gone + left /\ start + p + 1 > gone + c
      BY <3>1
    <3>. QED  BY <3>2 DEF start, left
  <2>7. place > gone => flow[place - gone] = Unit(submitted[i], p)
    BY <1>2 DEF Flow
  <2> HIDE DEF place
  <2>8. place - (gone + c) \in 1 .. Len(flow) - c /\ (place - (gone + c)) + c = place - gone /\ place > gone
    BY <2>6
  <2>9. rest[place - (gone + c)] = Unit(submitted[i], p)
    BY <2>7, <2>8
  <2>. QED  BY <2>9 DEF place
<1>. QED  BY <1>1, <1>2 DEF Flow

\* The first unit in flight is the header of the next request.
LEMMA NextHeader ==
  ASSUME TypeOK, RequestInv, main # "payload", inbox # <<>>
  PROVE  /\ Len(received) < Len(submitted)
         /\ Head(inbox) = Unit(submitted[Len(received) + 1], 0)
<1> USE DEF TypeOK
<1> DEFINE n == Len(received)
           flow == inbox \o sending
<1>1. PICK off : Offsets(off, submitted) /\ Flow(off, submitted, flow, off[n + 1] + Done)
  BY DEF RequestInv, Streaming
<1>2. n \in Nat /\ Len(submitted) \in Nat /\ n <= Len(submitted) /\ Done = 0
  BY DEF RequestInv, RequestsIntact, Done
<1>3. off[n + 1] \in Nat /\ off[Len(submitted) + 1] \in Nat
  <2> HIDE DEF n
  <2>1. n + 1 \in 1 .. Len(submitted) + 1 /\ Len(submitted) + 1 \in 1 .. Len(submitted) + 1
    BY <1>2
  <2>. QED  BY <1>1, <2>1 DEF Offsets
<1>4. Len(inbox) \in Nat /\ Len(inbox) >= 1 /\ Head(inbox) = inbox[1]
  OBVIOUS
<1>5. Len(flow) = Len(inbox) + Len(sending) /\ Len(sending) \in Nat /\ flow[1] = inbox[1]
  BY <1>4
<1> HIDE DEF flow, n
<1>6. off[n + 1] + Len(flow) = off[Len(submitted) + 1]
  BY <1>1, <1>2, <1>3 DEF Flow
<1>7. n < Len(submitted)
  BY <1>2, <1>3, <1>4, <1>5, <1>6
<1>8. n + 1 \in 1 .. Len(submitted) /\ submitted[n + 1] \in Requests
  BY <1>2, <1>7
<1>9. 0 <= Payload(submitted[n + 1])
  <2>1. Payload(submitted[n + 1]) \in Nat
    BY <1>8, RequestType
  <2>. QED  BY <2>1
<1>10. off[n + 1] + 0 + 1 > off[n + 1] + Done
       => flow[(off[n + 1] + 0 + 1) - (off[n + 1] + Done)] = Unit(submitted[n + 1], 0)
  BY <1>1, <1>8, <1>9 DEF Flow
<1>11. off[n + 1] + 0 + 1 > off[n + 1] + Done /\ (off[n + 1] + 0 + 1) - (off[n + 1] + Done) = 1
  BY <1>2, <1>3
<1>. QED  BY <1>4, <1>5, <1>7, <1>10, <1>11 DEF n

LEMMA RequestInit == Init => RequestInv
<1> SUFFICES ASSUME Init PROVE RequestInv
  OBVIOUS
<1> DEFINE off == [i \in 1 .. 1 |-> 0]
<1>1. /\ submitted = <<>> /\ received = <<>> /\ inbox = <<>> /\ sending = <<>>
      /\ main = "socketpair" /\ status = "running" /\ flags = {}
  BY DEF Init
<1>2. Len(<<>>) = 0 /\ <<>> \o <<>> = <<>> /\ 0 \in Nat
  OBVIOUS
<1>3. Offsets(off, submitted)
  <2>1. \A i \in 1 .. Len(submitted) : FALSE
    BY <1>1
  <2>. QED  BY <1>1, <1>2, <2>1 DEF Offsets
<1>4. Flow(off, submitted, inbox \o sending, off[Len(received) + 1] + Done)
  <2>1. \A i \in 1 .. Len(submitted) : FALSE
    BY <1>1
  <2>2. Done = 0 /\ off[1] = 0 /\ Len(received) + 1 = 1 /\ Len(submitted) + 1 = 1
    BY <1>1 DEF Done
  <2>3. inbox \o sending = <<>>
    BY <1>1, <1>2
  <2> HIDE DEF off
  <2>. QED  BY <1>2, <2>1, <2>2, <2>3 DEF Flow
<1>5. Streaming
  BY <1>3, <1>4 DEF Streaming
<1>. QED
  BY <1>1, <1>5 DEF RequestInv, SubmittedOnce, Reading, RequestsIntact, EndsOnlyAfterShutdown

\* The part of the invariant that the two ends of the request stream share.
Stream == SubmittedOnce /\ Reading /\ Streaming /\ RequestsIntact

LEMMA StreamQuiet ==
  ASSUME Stream, UNCHANGED <<data_, received, submitted, inbox, sending>>,
         main' = main \/ (main # "payload" /\ main' # "payload")
  PROVE  Stream'
<1>1. Done' = Done
  BY DEF Done
<1>2. Streaming'
  BY <1>1 DEF Stream, Streaming
<1>. QED  BY <1>2 DEF Stream, SubmittedOnce, Reading, RequestsIntact

LEMMA StreamKernelSends ==
  ASSUME TypeOK, Stream, KernelSends
  PROVE  Stream'
<1>1. inbox' \o sending' = inbox \o sending
  BY HeadKeepsConcat DEF KernelSends, TypeOK
<1>2. UNCHANGED <<data_, received, submitted, main>>
  BY DEF KernelSends, serviceVars
<1>3. Streaming'
  BY <1>1, <1>2 DEF Stream, Streaming, Done
<1>. QED  BY <1>2, <1>3 DEF Stream, SubmittedOnce, Reading, RequestsIntact

\* A request that is submitted is at the end of the stream.
LEMMA OffsetsAppend ==
  ASSUME NEW reqs \in Seq(Requests), NEW off, Offsets(off, reqs), NEW r \in Requests
  PROVE  \E more : /\ Offsets(more, Append(reqs, r))
                   /\ more[Len(reqs) + 2] = off[Len(reqs) + 1] + Payload(r) + 1
                   /\ \A k \in 1 .. Len(reqs) + 1 : more[k] = off[k]
<1> DEFINE N == Len(reqs)
           all == Append(reqs, r)
           more == [k \in 1 .. N + 2 |-> IF k = N + 2 THEN off[N + 1] + Payload(r) + 1 ELSE off[k]]
<1>0. N \in Nat /\ Payload(r) \in Nat
  BY RequestType
<1>1. Len(all) = N + 1 /\ all[N + 1] = r /\ \A k \in 1 .. N : all[k] = reqs[k]
  OBVIOUS
<1> HIDE DEF all, N
<1>2. \A k \in 1 .. N + 1 : off[k] \in Nat
  BY DEF Offsets, N
<1>3. off[N + 1] \in Nat
  <2>1. N + 1 \in 1 .. N + 1
    BY <1>0
  <2>. QED  BY <1>2, <2>1
<1>4. \A k \in 1 .. N + 1 : k \in 1 .. N + 2 /\ k # N + 2
  BY <1>0
<1>5. \A k \in 1 .. N + 2 : k = N + 2 \/ k \in 1 .. N + 1
  BY <1>0
<1>6. more \in [1 .. N + 2 -> Nat]
  <2>1. off[N + 1] + Payload(r) + 1 \in Nat
    BY <1>0, <1>3
  <2> SUFFICES ASSUME NEW k \in 1 .. N + 2
               PROVE  (IF k = N + 2 THEN off[N + 1] + Payload(r) + 1 ELSE off[k]) \in Nat
    OBVIOUS
  <2>. QED  BY <1>2, <1>5, <2>1
<1>7. \A k \in 1 .. N + 1 : more[k] = off[k]
  BY <1>4
<1>8. more[N + 2] = off[N + 1] + Payload(r) + 1
  <2>1. N + 2 \in 1 .. N + 2
    BY <1>0
  <2>. QED  BY <2>1
<1> HIDE DEF more
<1>9. ASSUME NEW i \in 1 .. N + 1
      PROVE  more[i + 1] = more[i] + Payload(all[i]) + 1 /\ more[i + 1] <= more[N + 2]
  <2>1. CASE i \in 1 .. N
    <3>1. i + 1 \in 1 .. N + 1 /\ i \in 1 .. N + 1
      BY <1>0, <2>1
    <3>2. off[i + 1] = off[i] + Payload(reqs[i]) + 1 /\ off[i + 1] <= off[N + 1]
      BY <2>1 DEF Offsets, N
    <3>3. off[i + 1] \in Nat
      BY <1>2, <3>1
    <3>4. off[i + 1] <= off[N + 1] + Payload(r) + 1
      BY <1>0, <1>3, <3>2, <3>3
    <3>. QED  BY <1>1, <1>7, <1>8, <2>1, <3>1, <3>2, <3>4
  <2>2. CASE i = N + 1
    <3>1. (N + 1) + 1 = N + 2 /\ N + 1 \in 1 .. N + 1
      BY <1>0
    <3>2. more[N + 1] = off[N + 1] /\ more[N + 2] \in Nat
      BY <1>0, <1>3, <1>7, <1>8, <3>1
    <3>. QED  BY <1>1, <1>8, <2>2, <3>1, <3>2
  <2>3. i \in 1 .. N \/ i = N + 1
    BY <1>0
  <2>. QED  BY <2>1, <2>2, <2>3
<1>10. Offsets(more, all)
  <2>1. Len(all) + 1 = N + 2
    BY <1>0, <1>1
  <2>. QED  BY <1>1, <1>6, <1>9, <2>1 DEF Offsets
<1>. QED  BY <1>7, <1>8, <1>10 DEF N, all

LEMMA FlowAppend ==
  ASSUME NEW reqs \in Seq(Requests), NEW off, Offsets(off, reqs), NEW r \in Requests,
         NEW flow \in Seq(UnitSet), NEW gone \in Nat, Flow(off, reqs, flow, gone),
         NEW more, Offsets(more, Append(reqs, r)),
         more[Len(reqs) + 2] = off[Len(reqs) + 1] + Payload(r) + 1,
         \A k \in 1 .. Len(reqs) + 1 : more[k] = off[k]
  PROVE  Flow(more, Append(reqs, r), flow \o RequestUnits(r), gone)
<1> DEFINE N == Len(reqs)
           all == Append(reqs, r)
           tail == RequestUnits(r)
           longer == flow \o tail
           size == Payload(r)
<1>0. N \in Nat /\ Len(flow) \in Nat
  OBVIOUS
<1>1. Len(all) = N + 1 /\ all[N + 1] = r /\ \A k \in 1 .. N : all[k] = reqs[k]
  OBVIOUS
<1>2. /\ tail \in Seq(UnitSet) /\ Len(tail) = size + 1 /\ size \in Nat
      /\ \A i \in 1 .. size + 1 : tail[i] = Unit(r, i - 1)
  BY RequestType
<1>3. /\ Len(longer) = Len(flow) + Len(tail)
      /\ \A i \in 1 .. Len(flow) : longer[i] = flow[i]
      /\ \A i \in 1 .. Len(tail) : longer[Len(flow) + i] = tail[i]
  <2>1. tail \in Seq(UnitSet)
    BY <1>2
  <2> HIDE DEF tail
  <2>. QED  BY <2>1
<1> HIDE DEF tail, longer, all, size
<1>4. /\ more[N + 2] = off[N + 1] + size + 1 /\ \A k \in 1 .. N + 1 : more[k] = off[k]
      /\ gone + Len(flow) = off[N + 1]
  BY DEF Flow, size
<1>5. more[N + 2] = gone + Len(longer)
  BY <1>0, <1>2, <1>3, <1>4
<1>6. ASSUME NEW i \in 1 .. N + 1, NEW p \in Nat, p <= Payload(all[i]), more[i] + p + 1 > gone
      PROVE  longer[(more[i] + p + 1) - gone] = Unit(all[i], p)
  <2>1. CASE i \in 1 .. N
    <3> DEFINE place == off[i] + p + 1
    <3>1. i \in 1 .. N + 1 /\ i + 1 \in 1 .. N + 1 /\ N + 1 \in 1 .. N + 1
      BY <1>0, <2>1
    <3>2. more[i] = off[i] /\ all[i] = reqs[i]
      BY <1>1, <1>4, <2>1, <3>1
    <3>3. off[i] \in Nat /\ off[i + 1] \in Nat /\ off[N + 1] \in Nat
      BY <3>1 DEF Offsets
    <3>4. off[i + 1] = off[i] + Payload(reqs[i]) + 1 /\ off[i + 1] <= off[N + 1]
      BY <2>1 DEF Offsets
    <3>5. Payload(reqs[i]) \in Nat
      <4>1. reqs[i] \in Requests
        BY <2>1
      <4>. QED  BY <4>1, RequestType
    <3>6. place \in Nat /\ place <= gone + Len(flow) /\ place > gone
      <4> DEFINE start == off[i]
                 last == Payload(reqs[i])
                 next == off[i + 1]
                 end == off[N + 1]
                 left == Len(flow)
      <4>1. /\ start \in Nat /\ last \in Nat /\ next \in Nat /\ end \in Nat /\ left \in Nat
            /\ p <= last /\ start + p + 1 > gone
            /\ next = start + last + 1 /\ next <= end /\ end = gone + left
        BY <1>0, <1>4, <1>6, <3>2, <3>3, <3>4, <3>5
      <4> HIDE DEF start, last, next, end, left
      <4>2. start + p + 1 \in Nat /\ start + p + 1 <= gone + left /\ start + p + 1 > gone
        BY <4>1
      <4>. QED  BY <4>2 DEF start, left
    <3>7. flow[place - gone] = Unit(reqs[i], p)
      BY <1>6, <2>1, <3>2, <3>6 DEF Flow
    <3> HIDE DEF place
    <3>8. place - gone \in 1 .. Len(flow)
      BY <1>0, <3>6
    <3>9. longer[place - gone] = Unit(reqs[i], p)
      BY <1>3, <3>7, <3>8
    <3>. QED  BY <3>2, <3>9 DEF place
  <2>2. CASE i = N + 1
    <3>1. N + 1 \in 1 .. N + 1
      BY <1>0
    <3>2. all[i] = r /\ more[i] = gone + Len(flow) /\ p <= size
      BY <1>1, <1>4, <1>6, <2>2, <3>1 DEF size
    <3>3. (more[i] + p + 1) - gone = Len(flow) + (p + 1) /\ p + 1 \in 1 .. size + 1
          /\ (p + 1) - 1 = p
      BY <1>0, <1>2, <3>2
    <3>4. longer[Len(flow) + (p + 1)] = tail[p + 1]
      BY <1>2, <1>3, <3>3
    <3>5. tail[p + 1] = Unit(r, (p + 1) - 1)
      BY <1>2, <3>3
    <3>. QED  BY <3>2, <3>3, <3>4, <3>5
  <2>3. i \in 1 .. N \/ i = N + 1
    BY <1>0
  <2>. QED  BY <2>1, <2>2, <2>3
<1>7. Len(all) + 1 = N + 2
  BY <1>0, <1>1
<1>8. Flow(more, all, longer, gone)
  BY <1>1, <1>5, <1>6, <1>7 DEF Flow
<1>. QED  BY <1>8 DEF all, longer, tail

LEMMA StreamSubmit ==
  ASSUME TypeOK, RequestInv, NEW r \in Requests, Submit(r)
  PROVE  Stream'
<1> DEFINE N == Len(submitted)
           n == Len(received)
<1>0. N \in Nat /\ n \in Nat /\ n <= N /\ Payload(r) \in Nat
  BY RequestType DEF TypeOK, RequestInv, RequestsIntact
<1>1. /\ submitted' = Append(submitted, r) /\ Len(submitted') = N + 1
      /\ submitted'[N + 1] = r /\ \A k \in 1 .. N : submitted'[k] = submitted[k]
  BY DEF Submit, TypeOK
<1>2. UNCHANGED <<data_, received, main, inbox>> /\ sending = <<>> /\ sending' = RequestUnits(r)
  BY DEF Submit, serviceVars
<1>3. Kind[r] # "TRIM" /\ \A k \in 1 .. N : submitted[k] # r
  BY DEF Submit, Offered, Flag, RequestInv
<1>4. SubmittedOnce'
  <2> SUFFICES ASSUME NEW k \in 1 .. N + 1
               PROVE  /\ Kind[submitted'[k]] # "TRIM"
                      /\ \A j \in 1 .. k - 1 : submitted'[j] # submitted'[k]
    BY <1>1 DEF SubmittedOnce
  <2>1. CASE k = N + 1
    BY <1>0, <1>1, <1>3, <2>1
  <2>2. CASE k # N + 1
    <3>1. k \in 1 .. N /\ \A j \in 1 .. k - 1 : j \in 1 .. N
      BY <1>0, <2>2
    <3>2. Kind[submitted[k]] # "TRIM" /\ \A j \in 1 .. k - 1 : submitted[j] # submitted[k]
      BY <3>1 DEF RequestInv, SubmittedOnce
    <3>. QED  BY <1>1, <3>1, <3>2
  <2>. QED  BY <2>1, <2>2
<1>5. RequestsIntact'
  <2>1. \A k \in 1 .. n : k \in 1 .. N
    BY <1>0
  <2>. QED  BY <1>0, <1>1, <1>2, <2>1 DEF RequestInv, RequestsIntact, Meant
<1>6. Reading'
  <2>1. n < N => n + 1 \in 1 .. N
    BY <1>0
  <2>. QED  BY <1>0, <1>1, <1>2, <2>1 DEF RequestInv, Reading
<1>7. Streaming'
  <2>1. PICK off : Offsets(off, submitted) /\ Flow(off, submitted, inbox \o sending, off[n + 1] + Done)
    BY DEF RequestInv, Streaming
  <2>2. N + 1 \in 1 .. N + 1 /\ n + 1 \in 1 .. N + 1 /\ off[N + 1] \in Nat
    <3>1. N + 1 \in 1 .. N + 1 /\ n + 1 \in 1 .. N + 1
      BY <1>0
    <3>. QED  BY <2>1, <3>1 DEF Offsets
  <2>a. submitted \in Seq(Requests) /\ Offsets(off, submitted)
    BY <2>1 DEF TypeOK
  <2>3. PICK more : /\ Offsets(more, Append(submitted, r))
                    /\ more[N + 2] = off[N + 1] + Payload(r) + 1
                    /\ \A k \in 1 .. N + 1 : more[k] = off[k]
    BY <2>a, OffsetsAppend
  <2>4. Flow(more, Append(submitted, r), inbox \o RequestUnits(r), off[n + 1] + Done)
    <3>1. off[n + 1] + Done \in Nat
      <4>1. off[n + 1] \in Nat
        BY <2>1, <2>2 DEF Offsets
      <4>2. Done \in Nat
        BY DEF Done, TypeOK, Data
      <4>. QED  BY <4>1, <4>2
    <3>2. inbox \o sending = inbox /\ inbox \in Seq(UnitSet)
      BY <1>2 DEF TypeOK
    <3> DEFINE read == off[n + 1] + Done
    <3>3. read \in Nat /\ Flow(off, submitted, inbox, read)
      BY <2>1, <3>1, <3>2
    <3> HIDE DEF read
    <3>4. Flow(more, Append(submitted, r), inbox \o RequestUnits(r), read)
      BY <2>a, <2>3, <3>2, <3>3, FlowAppend
    <3>. QED  BY <3>4 DEF read
  <2>5. more[n + 1] = off[n + 1] /\ Done' = Done /\ Len(received') = n
    BY <1>2, <2>2, <2>3 DEF Done
  <2>. QED  BY <1>1, <1>2, <2>3, <2>4, <2>5 DEF Streaming
<1>. QED  BY <1>4, <1>5, <1>6, <1>7 DEF Stream

\* What follows when a read takes the first c units in flight.
LEMMA StreamReads ==
  ASSUME TypeOK, NEW off, Offsets(off, submitted), NEW gone \in Nat, NEW c \in Nat,
         Flow(off, submitted, inbox \o sending, gone), c <= Len(inbox)
  PROVE  Flow(off, submitted, SubSeq(inbox, c + 1, Len(inbox)) \o sending, gone + c)
<1> DEFINE flow == inbox \o sending
           rest == SubSeq(inbox, c + 1, Len(inbox)) \o sending
<1>1. /\ Len(flow) \in Nat /\ c <= Len(flow) /\ Len(rest) = Len(flow) - c
      /\ \A k \in 1 .. Len(flow) - c : rest[k] = flow[k + c]
  BY ReadMoves DEF TypeOK
<1>2. Flow(off, submitted, flow, gone)
  OBVIOUS
<1> HIDE DEF flow, rest
<1>3. Flow(off, submitted, rest, gone + c)
  BY <1>1, <1>2, FlowConsumed
<1>. QED  BY <1>3 DEF rest

\* What follows when the next request is returned as it was meant.
LEMMA IntactAppend ==
  ASSUME TypeOK, RequestsIntact, Len(received) < Len(submitted),
         received' = Append(received, Meant(submitted[Len(received) + 1])), submitted' = submitted
  PROVE  RequestsIntact'
<1> DEFINE count == Len(received)
           d == Meant(submitted[count + 1])
<1>1. count \in Nat /\ Len(submitted) \in Nat /\ received \in Seq(Data)
  BY DEF TypeOK
<1>2. received' = Append(received, d)
  OBVIOUS
<1>3. Len(received') = count + 1 /\ received'[count + 1] = d
      /\ \A k \in 1 .. count : received'[k] = received[k]
  <2> HIDE DEF d
  <2>. QED  BY <1>1, <1>2
<1> HIDE DEF count, d
<1>4. ASSUME NEW k \in 1 .. count + 1 PROVE received'[k] = Meant(submitted[k])
  <2>1. CASE k \in 1 .. count
    BY <1>3, <2>1 DEF RequestsIntact, count
  <2>2. CASE k = count + 1
    BY <1>3, <2>2 DEF d
  <2>3. k \in 1 .. count \/ k = count + 1
    BY <1>1
  <2>. QED  BY <2>1, <2>2, <2>3
<1>5. count + 1 <= Len(submitted)
  BY <1>1 DEF count
<1>. QED  BY <1>3, <1>4, <1>5 DEF RequestsIntact

LEMMA StreamReceiveHeader ==
  ASSUME TypeOK, RequestInv, ReceiveHeader
  PROVE  Stream' /\ status' = status
<1> DEFINE n == Len(received)
           r == submitted[n + 1]
           d == Header(r)
<1>1. n < Len(submitted) /\ Head(inbox) = Unit(r, 0)
  BY NextHeader DEF ReceiveHeader
<1>2. n \in Nat /\ Len(submitted) \in Nat /\ n + 1 \in 1 .. Len(submitted) /\ r \in Requests
      /\ n + 1 \in 1 .. Len(submitted) + 1 /\ (n + 1) + 1 \in 1 .. Len(submitted) + 1
  BY <1>1 DEF TypeOK
<1>3. Kind[r] # "TRIM"
  BY <1>2 DEF RequestInv, SubmittedOnce
<1>4. DriverData(nbd_request(Head(inbox).handle)) = d /\ Head(inbox).part = 0
  BY <1>1, <1>2, <1>3, DecodedHeader DEF Unit
<1>5. inbox # <<>> /\ inbox' = Tail(inbox) /\ data_' = d /\ main = "ready"
      /\ UNCHANGED <<submitted, sending, status>>
      /\ IF d.m_action = "WRITE"
           THEN main' = "payload" /\ UNCHANGED <<received, pending>>
           ELSE Returned(d)
  BY <1>4 DEF ReceiveHeader, driverVars
<1>6. d.m_action = "WRITE" <=> Kind[r] = "WRITE"
  BY DEF Header
<1>7. Done = 0
  BY <1>5 DEF Done
<1>8. PICK off : /\ Offsets(off, submitted)
                 /\ Flow(off, submitted, inbox \o sending, off[n + 1] + Done)
  BY DEF RequestInv, Streaming
<1>9. off[n + 1] \in Nat
  BY <1>2, <1>8 DEF Offsets
<1>10. Flow(off, submitted, inbox' \o sending', off[n + 1] + 1)
  <2>1. Len(inbox) \in Nat /\ 1 <= Len(inbox) /\ inbox' = SubSeq(inbox, 1 + 1, Len(inbox))
    <3>1. inbox \in Seq(UnitSet) /\ inbox # <<>>
      BY <1>5 DEF TypeOK
    <3>2. Len(inbox) \in Nat /\ 1 <= Len(inbox) /\ Tail(inbox) = SubSeq(inbox, 2, Len(inbox))
      BY <3>1, TailIsSubSeq
    <3>. QED  BY <1>5, <3>2
  <2>2. Flow(off, submitted, inbox \o sending, off[n + 1])
    <3>1. off[n + 1] + Done = off[n + 1]
      BY <1>7, <1>9
    <3>. QED  BY <1>8, <3>1
  <2>3. Flow(off, submitted, SubSeq(inbox, 1 + 1, Len(inbox)) \o sending, off[n + 1] + 1)
    BY <1>8, <1>9, <2>1, <2>2, StreamReads
  <2>. QED  BY <1>5, <2>1, <2>3
<1>11. SubmittedOnce'
  BY <1>5 DEF RequestInv, SubmittedOnce
<1>12. CASE Kind[r] = "WRITE"
  <2>1. main' = "payload" /\ received' = received
    BY <1>5, <1>6, <1>12
  <2>2. Length[r] > 0 /\ Length[r] \in Nat
    BY <1>2, <1>12, CommunicatorAssumption DEF CommunicatorAssumption
  <2>3. d.m_buffer = <<>> /\ Len(<<>>) = 0 /\ d = [d EXCEPT !.m_buffer = <<>>]
    BY DEF Header
  <2>4. Reading'
    <3>1. submitted'[Len(received') + 1] = r /\ Len(received') < Len(submitted')
      BY <1>1, <1>5, <2>1
    <3>2. data_' = [Header(r) EXCEPT !.m_buffer = data_'.m_buffer]
      BY <1>5, <2>3
    <3>3. Len(data_'.m_buffer) = 0 /\ \A m \in 1 .. Len(data_'.m_buffer) : FALSE
      BY <1>5, <2>3
    <3> HIDE DEF r
    <3>. QED  BY <1>12, <2>2, <3>1, <3>2, <3>3 DEF Reading, Header
  <2>5. Done' = 1
    BY <1>5, <2>1, <2>3 DEF Done
  <2>6. Streaming'
    BY <1>5, <1>8, <1>10, <2>1, <2>5 DEF Streaming
  <2>7. RequestsIntact'
    BY <1>5, <2>1 DEF RequestInv, RequestsIntact, Meant, Units, RequestUnits, Unit
  <2>. QED  BY <1>5, <1>11, <2>4, <2>6, <2>7 DEF Stream
<1>13. CASE Kind[r] # "WRITE"
  <2>1. main' = "ready" /\ received' = Append(received, d)
    BY <1>5, <1>6, <1>13 DEF Returned
  <2>2. Len(received') = n + 1 /\ received'[n + 1] = d /\ \A k \in 1 .. n : received'[k] = received[k]
    BY <2>1 DEF TypeOK
  <2>3. Meant(r) = d
    BY <1>13 DEF Meant, Header
  <2>4. RequestsIntact'
    BY <1>1, <1>5, <2>1, <2>3, IntactAppend DEF RequestInv
  <2>5. Done' = 0 /\ Reading'
    BY <2>1 DEF Done, Reading
  <2>6. off[(n + 1) + 1] + 0 = off[n + 1] + 1
    <3>1. Payload(r) = 0 /\ off[(n + 1) + 1] = off[n + 1] + Payload(r) + 1
      BY <1>2, <1>8, <1>13 DEF Payload, Offsets
    <3>. QED  BY <1>9, <3>1
  <2>7. Flow(off, submitted, inbox' \o sending', off[(n + 1) + 1] + 0)
    BY <1>10, <2>6
  <2>8. Streaming'
    BY <1>5, <1>8, <2>2, <2>5, <2>7 DEF Streaming
  <2>. QED  BY <1>5, <1>11, <2>4, <2>5, <2>8 DEF Stream
<1>. QED  BY <1>12, <1>13

LEMMA StreamReadAll ==
  ASSUME TypeOK, RequestInv, ReadAll
  PROVE  Stream'
<1> DEFINE n == Len(received)
           r == submitted[n + 1]
           old == data_.m_buffer
<1>0. main = "payload" /\ UNCHANGED <<submitted, sending>>
  BY DEF ReadAll, driverVars
<1>1. n < Len(submitted) /\ Kind[r] = "WRITE" /\ data_ = [Header(r) EXCEPT !.m_buffer = old]
      /\ Len(old) < Length[r] /\ \A m \in 1 .. Len(old) : old[m] = Unit(r, m)
  BY <1>0 DEF RequestInv, Reading
<1>2. n \in Nat /\ Len(submitted) \in Nat /\ n + 1 \in 1 .. Len(submitted) /\ r \in Requests
      /\ n + 1 \in 1 .. Len(submitted) + 1 /\ (n + 1) + 1 \in 1 .. Len(submitted) + 1
  BY <1>1 DEF TypeOK
<1>3. old \in Seq(UnitSet) /\ Len(old) \in Nat /\ Length[r] \in Nat /\ data_.m_len = Length[r]
  <2>1. data_.m_buffer \in Seq(UnitSet)
    BY DEF TypeOK, Data
  <2>2. Length[r] \in Nat
    BY <1>2, CommunicatorAssumption DEF CommunicatorAssumption
  <2>3. data_.m_len = Length[r]
    BY <1>1 DEF Header
  <2> HIDE DEF r
  <2>. QED  BY <2>1, <2>2, <2>3
<1>4. PICK c \in Moves(data_.m_len - Len(data_.m_buffer), Len(inbox)) :
        LET d == [data_ EXCEPT !.m_buffer = @ \o SubSeq(inbox, 1, c)] IN
        /\ inbox' = SubSeq(inbox, c + 1, Len(inbox))
        /\ data_' = d
        /\ IF Len(d.m_buffer) = d.m_len THEN Returned(d)
                                        ELSE UNCHANGED <<main, received, pending>>
  BY DEF ReadAll
<1> DEFINE new == old \o SubSeq(inbox, 1, c)
           d == [Header(r) EXCEPT !.m_buffer = new]
<1>5. c \in Nat /\ c >= 1 /\ c <= Len(inbox) /\ Len(old) + c <= Length[r] /\ Len(inbox) \in Nat
  <2>1. c \in 1 .. Len(inbox) /\ c <= data_.m_len - Len(data_.m_buffer)
    BY <1>4 DEF Moves
  <2>2. Len(inbox) \in Nat
    BY DEF TypeOK
  <2> DEFINE size == Length[r]
             had  == Len(old)
  <2>3. c <= size - had /\ size \in Nat /\ had \in Nat
    BY <1>3, <2>1
  <2> HIDE DEF size, had
  <2>4. had + c <= size
    BY <2>1, <2>2, <2>3
  <2>. QED  BY <2>1, <2>2, <2>4 DEF size, had
<1>6. [data_ EXCEPT !.m_buffer = @ \o SubSeq(inbox, 1, c)] = d /\ d.m_buffer = new
      /\ d.m_len = Length[r]
  BY <1>1 DEF Header
<1>7. /\ inbox' = SubSeq(inbox, c + 1, Len(inbox)) /\ data_' = d
      /\ IF Len(new) = Length[r] THEN Returned(d) ELSE UNCHANGED <<main, received, pending>>
  BY <1>4, <1>6
<1>8. PICK off : /\ Offsets(off, submitted)
                 /\ Flow(off, submitted, inbox \o sending, off[n + 1] + Done)
  BY DEF RequestInv, Streaming
<1>9. off[n + 1] \in Nat /\ Done = Len(old) + 1
  BY <1>0, <1>2, <1>8 DEF Offsets, Done
<1>10. Payload(r) = Length[r]
  BY <1>1 DEF Payload
<1>11. \A k \in 1 .. c : inbox[k] = Unit(r, Len(old) + k)
  <2> SUFFICES ASSUME NEW k \in 1 .. c PROVE inbox[k] = Unit(r, Len(old) + k)
    OBVIOUS
  <2> DEFINE p == Len(old) + k
  <2>1. p \in Nat /\ p <= Payload(submitted[n + 1])
    BY <1>3, <1>5, <1>10
  <2>2. off[n + 1] + p + 1 > off[n + 1] + Done /\ (off[n + 1] + p + 1) - (off[n + 1] + Done) = k
    <3> DEFINE start == off[n + 1]
               had   == Len(old)
    <3>1. start \in Nat /\ had \in Nat /\ Done = had + 1 /\ c \in Nat
      BY <1>3, <1>5, <1>9
    <3> HIDE DEF start, had
    <3>2. start + (had + k) + 1 > start + Done /\ (start + (had + k) + 1) - (start + Done) = k
      BY <3>1
    <3>. QED  BY <3>2 DEF start, had
  <2>3. (inbox \o sending)[(off[n + 1] + p + 1) - (off[n + 1] + Done)] = Unit(submitted[n + 1], p)
    <3> HIDE DEF p, n
    <3>. QED  BY <1>2, <1>8, <2>1, <2>2 DEF Flow
  <2>4. (inbox \o sending)[k] = inbox[k]
    <3>1. inbox \in Seq(UnitSet) /\ sending \in Seq(UnitSet) /\ k \in 1 .. Len(inbox)
      BY <1>5 DEF TypeOK
    <3>. QED  BY <3>1
  <2>. QED  BY <2>2, <2>3, <2>4
<1>12. /\ new \in Seq(UnitSet) /\ Len(new) = Len(old) + c
       /\ \A m \in 1 .. Len(old) + c : new[m] = Unit(r, m)
  <2> DEFINE front == SubSeq(inbox, 1, c)
  <2>1. front \in Seq(UnitSet) /\ Len(front) = c /\ \A k \in 1 .. c : front[k] = inbox[k]
    BY <1>5 DEF TypeOK
  <2> HIDE DEF front, old, r
  <2>2. front \in Seq(UnitSet)
    BY <2>1
  <2>3. /\ old \o front \in Seq(UnitSet) /\ Len(old \o front) = Len(old) + Len(front)
        /\ \A m \in 1 .. Len(old) + Len(front) :
             (old \o front)[m] = IF m <= Len(old) THEN old[m] ELSE front[m - Len(old)]
    BY <1>3, <2>2
  <2>4. ASSUME NEW m \in 1 .. Len(old) + c PROVE (old \o front)[m] = Unit(r, m)
    <3>1. CASE m <= Len(old)
      BY <1>1, <1>3, <1>5, <2>1, <2>3, <3>1
    <3>2. CASE ~(m <= Len(old))
      <4>1. m - Len(old) \in 1 .. c /\ Len(old) + (m - Len(old)) = m
        BY <1>3, <1>5, <3>2
      <4>2. (old \o front)[m] = front[m - Len(old)]
        BY <1>3, <1>5, <2>1, <2>3, <3>2
      <4>. QED  BY <1>11, <2>1, <4>1, <4>2
    <3>. QED  BY <3>1, <3>2
  <2>. QED  BY <2>1, <2>3, <2>4 DEF front
<1>13. Flow(off, submitted, inbox' \o sending', (off[n + 1] + Done) + c)
  <2> DEFINE gone == off[n + 1] + Done
  <2>1. gone \in Nat
    BY <1>3, <1>9
  <2>2. Flow(off, submitted, inbox \o sending, gone)
    BY <1>8
  <2> HIDE DEF gone
  <2>3. Flow(off, submitted, SubSeq(inbox, c + 1, Len(inbox)) \o sending, gone + c)
    BY <1>5, <1>8, <2>1, <2>2, StreamReads
  <2>. QED  BY <1>0, <1>7, <2>3 DEF gone
<1>14. SubmittedOnce'
  BY <1>0 DEF RequestInv, SubmittedOnce
<1> HIDE DEF new
<1>15. CASE Len(new) = Length[r]
  <2>1. main' = "ready" /\ received' = Append(received, d)
    BY <1>7, <1>15 DEF Returned
  <2>2. Len(received') = n + 1 /\ received'[n + 1] = d /\ \A k \in 1 .. n : received'[k] = received[k]
    BY <2>1 DEF TypeOK
  <2>3. new = Tail(RequestUnits(r))
    <3> DEFINE units == RequestUnits(r)
    <3>1. /\ units \in Seq(UnitSet) /\ Len(units) = Length[r] + 1
          /\ \A k \in 1 .. Length[r] + 1 : units[k] = Unit(r, k - 1)
      BY <1>2, <1>10, RequestType
    <3> HIDE DEF units, r
    <3>2. Tail(units) \in Seq(UnitSet) /\ Len(Tail(units)) = Length[r]
          /\ \A k \in 1 .. Length[r] : Tail(units)[k] = units[k + 1]
      BY <1>3, <3>1
    <3>3. \A k \in 1 .. Length[r] : k + 1 \in 1 .. Length[r] + 1 /\ (k + 1) - 1 = k
      BY <1>3
    <3>4. \A k \in 1 .. Length[r] : Tail(units)[k] = Unit(r, k)
      BY <3>1, <3>2, <3>3
    <3>5. \A k \in 1 .. Len(new) : new[k] = Tail(units)[k]
      BY <1>12, <1>15, <3>4
    <3>6. new = Tail(units)
      BY <1>12, <1>15, <3>2, <3>5, SeqEqual
    <3>. QED  BY <3>6 DEF units
  <2>4. Meant(r) = d
    <3>1. d = [m_handle |-> r, m_action |-> "WRITE", m_offset |-> From[r],
               m_len |-> Length[r], m_buffer |-> new]
      BY <1>1 DEF Header
    <3> HIDE DEF d
    <3>2. Meant(r) = [m_handle |-> r, m_action |-> "WRITE", m_offset |-> From[r],
                      m_len |-> Length[r], m_buffer |-> new]
      BY <1>1, <2>3 DEF Meant
    <3>. QED  BY <3>1, <3>2
  <2>5. RequestsIntact'
    BY <1>0, <1>1, <2>1, <2>4, IntactAppend DEF RequestInv
  <2>6. Done' = 0 /\ Reading'
    BY <2>1 DEF Done, Reading
  <2>7. off[(n + 1) + 1] + 0 = (off[n + 1] + Done) + c
    <3>1. off[(n + 1) + 1] = off[n + 1] + Length[r] + 1
      BY <1>2, <1>8, <1>10 DEF Offsets
    <3>2. Length[r] = Len(old) + c
      BY <1>12, <1>15
    <3>. QED  BY <1>3, <1>5, <1>9, <3>1, <3>2
  <2>8. Flow(off, submitted, inbox' \o sending', off[(n + 1) + 1] + 0)
    BY <1>13, <2>7
  <2>9. Streaming'
    BY <1>0, <1>8, <2>2, <2>6, <2>8 DEF Streaming
  <2>. QED  BY <1>14, <2>5, <2>6, <2>9 DEF Stream
<1>16. CASE Len(new) # Length[r]
  <2>1. main' = main /\ received' = received /\ data_' = d
    BY <1>7, <1>16
  <2>2. Done' = Done + c
    <3>1. data_'.m_buffer = new
      BY <1>6, <2>1
    <3>2. Done' = Len(new) + 1 /\ Done = Len(old) + 1 /\ Len(new) = Len(old) + c
      BY <1>0, <1>9, <1>12, <2>1, <3>1 DEF Done
    <3> DEFINE had == Len(old)
    <3>3. had \in Nat /\ Len(new) = had + c /\ Done = had + 1 /\ Done' = Len(new) + 1
      BY <1>3, <3>2
    <3> HIDE DEF had
    <3>. QED  BY <1>5, <3>3
  <2>3. off[n + 1] + (Done + c) = (off[n + 1] + Done) + c
    <3> DEFINE start == off[n + 1]
    <3>1. start \in Nat /\ Done \in Nat
      BY <1>3, <1>9
    <3> HIDE DEF start
    <3>2. start + (Done + c) = (start + Done) + c
      BY <1>5, <3>1
    <3>. QED  BY <3>2 DEF start
  <2>4. Streaming'
    BY <1>0, <1>8, <1>13, <2>1, <2>2, <2>3 DEF Streaming
  <2>5. Reading'
    <3>1. data_'.m_buffer = new /\ data_' = [Header(r) EXCEPT !.m_buffer = data_'.m_buffer]
      BY <1>6, <2>1
    <3>2. Len(new) < Length[r]
      <4> DEFINE size == Length[r]
                 had  == Len(old)
      <4>1. size \in Nat /\ had \in Nat /\ had + c <= size /\ Len(new) = had + c /\ Len(new) # size
        BY <1>3, <1>5, <1>12, <1>16
      <4> HIDE DEF size, had
      <4>2. Len(new) < size
        BY <1>5, <4>1
      <4>. QED  BY <4>2 DEF size
    <3>3. submitted'[Len(received') + 1] = r /\ Len(received') < Len(submitted')
      BY <1>0, <1>1, <2>1
    <3> HIDE DEF r
    <3>. QED  BY <1>1, <1>12, <3>1, <3>2, <3>3 DEF Reading, Header
  <2>6. RequestsIntact'
    BY <1>0, <2>1 DEF RequestInv, RequestsIntact, Meant, Units, RequestUnits, Unit
  <2>. QED  BY <1>14, <2>4, <2>5, <2>6 DEF Stream
<1>. QED  BY <1>15, <1>16

LEMMA RequestStep ==
  ASSUME TypeOK, RequestInv, [Next]_vars
  PROVE  RequestInv'
<1> USE DEF serviceVars, driverVars
<1>0. Stream
  BY DEF RequestInv, Stream
<1>1. ASSUME UNCHANGED <<data_, received, submitted, inbox, sending, flags>>,
             main' = main \/ (main # "payload" /\ main' # "payload"), EndsOnlyAfterShutdown'
      PROVE  RequestInv'
  BY <1>0, <1>1, StreamQuiet DEF RequestInv, Stream
<1>2. ASSUME NEW s \in {"failed", "success", "aborted", "killed", "returned"}, End(s),
             s \in {"failed", "aborted", "killed"} => closed \/ main \in {"socketpair", "open"}
      PROVE  RequestInv'
  BY <1>1, <1>2 DEF End, EndsOnlyAfterShutdown
<1>3. CASE SocketPair
  BY <1>1, <1>3 DEF SocketPair, RequestInv, EndsOnlyAfterShutdown, Alive
<1>4. CASE StartThread
  BY <1>1, <1>4 DEF StartThread, RequestInv, EndsOnlyAfterShutdown, Alive
<1>5. CASE ReceiveHeader
  BY <1>5, StreamReceiveHeader
     DEF ReceiveHeader, Alive, RequestInv, Stream, EndsOnlyAfterShutdown
<1>6. CASE ReadAll
  <2>1. status' = "running" /\ flags' = flags
    BY <1>6 DEF ReadAll, Alive
  <2>. QED  BY <1>6, <2>1, StreamReadAll DEF RequestInv, Stream, EndsOnlyAfterShutdown
<1>7. CASE Call
  <2>1. Stream'
    BY <1>0, <1>7, StreamQuiet DEF Call
  <2>2. flags' \subseteq {"HAS_FLAGS", "SEND_FLUSH"}
    BY <1>7 DEF Call, nbd_flags, RequestInv
  <2>. QED  BY <1>7, <2>1, <2>2 DEF Call, RequestInv, Stream, EndsOnlyAfterShutdown, Alive
<1>8. CASE CallFails \/ DoIt \/ DoItReturns
  BY <1>1, <1>8 DEF CallFails, DoIt, DoItReturns, RequestInv, EndsOnlyAfterShutdown, Alive
<1>9. ASSUME NEW r \in Requests, Submit(r) PROVE RequestInv'
  <2>1. status' = "running" /\ flags' = flags
    BY <1>9 DEF Submit, Attached, Alive
  <2>. QED  BY <1>9, <2>1, StreamSubmit DEF RequestInv, Stream, EndsOnlyAfterShutdown
<1>10. CASE KernelSends
  <2>1. status' = "running" /\ flags' = flags
    BY <1>10 DEF KernelSends, Attached, Alive
  <2>. QED  BY <1>0, <1>10, <2>1, StreamKernelSends DEF RequestInv, Stream, EndsOnlyAfterShutdown
<1>11. CASE KernelReads \/ Shutdown
  BY <1>1, <1>11 DEF KernelReads, Shutdown, Attached, Alive, RequestInv, EndsOnlyAfterShutdown
<1>12. ASSUME NEW r \in Requests, SendReply(r) PROVE RequestInv'
  BY <1>1, <1>12 DEF SendReply, Alive, RequestInv, EndsOnlyAfterShutdown
<1>13. CASE WriteAll
  BY <1>1, <1>13 DEF WriteAll, Alive, RequestInv, EndsOnlyAfterShutdown
<1>14. CASE CtorThrows \/ ReceiveFails \/ ReadAllAsserts \/ DriverExit \/ WriteFails \/ Disconnect
  BY <1>2, <1>14 DEF CtorThrows, ReceiveFails, ReadAllAsserts, DriverExit, WriteFails, Disconnect
<1>15. CASE UNCHANGED vars
  BY <1>1, <1>15 DEF vars, RequestInv, EndsOnlyAfterShutdown
<1>. QED
  BY <1>3, <1>4, <1>5, <1>6, <1>7, <1>8, <1>9, <1>10, <1>11, <1>12, <1>13, <1>14, <1>15
     DEF Next, MainThread, DriverThread, Send

THEOREM RequestInvariant == Spec => []RequestInv
<1>1. Init => TypeOK /\ RequestInv
  BY InitTypes, RequestInit
<1>2. TypeOK /\ RequestInv /\ [Next]_vars => TypeOK' /\ RequestInv'
  BY TypeStep, RequestStep
<1>. QED  BY <1>1, <1>2, PTL DEF Spec

\* The service receives what the driver meant, in its order, however the reads cut
\* the stream: for any requests, of any length, through a socket of any capacity.
THEOREM RequestsCorrect == Spec => []RequestsIntact
BY RequestInvariant, PTL DEF RequestInv

\* No command of the driver becomes a StdinTask.
THEOREM NoStdinCorrect == Spec => []NoStdinFromDriver
<1>1. TypeOK /\ RequestInv => NoStdinFromDriver
  <2> SUFFICES ASSUME TypeOK, RequestInv, NEW k \in 1 .. Len(received)
               PROVE  received[k].m_action # "STDIN"
    BY DEF NoStdinFromDriver
  <2>1. received[k] = Meant(submitted[k]) /\ k \in 1 .. Len(submitted)
    BY DEF TypeOK, RequestInv, RequestsIntact
  <2>2. Kind[submitted[k]] # "STDIN"
    <3>1. submitted[k] \in Requests
      BY <2>1 DEF TypeOK
    <3>. QED  BY <3>1, CommunicatorAssumption DEF CommunicatorAssumption, Commands
  <2>3. received[k].m_action
          = IF Kind[submitted[k]] = "DISC" THEN "DISCONN" ELSE Kind[submitted[k]]
    BY <2>1 DEF Meant
  <2>. QED  BY <2>2, <2>3
<1>. QED  BY <1>1, CommunicatorTypeCorrect, RequestInvariant, PTL

\* The assert on the magic number never fails, no data is taken for a header, and
\* the process fails only in the constructor or once the driver has gone away.
THEOREM EndsCorrect == Spec => []EndsOnlyAfterShutdown
BY RequestInvariant, PTL DEF RequestInv

(***************************************************************************)
(* The stream of replies: what the driver has read, what is in the socket, *)
(* and what SendReply has still to write.                                  *)
(***************************************************************************)
Written == replies \o (outbox \o reply)

\* A sequence of whole replies, none of them twice.
Chain(units) ==
  \A k \in 1 .. Len(units) :
    /\ IF units[k].part = 0 THEN \A j \in 1 .. k - 1 : units[j] # units[k]
                            ELSE k > 1 /\ units[k - 1] = Unit(units[k].handle, units[k].part - 1)
    /\ units[k].part # Answer(units[k].handle)
         => k < Len(units) /\ units[k + 1] = Unit(units[k].handle, units[k].part + 1)

Received(r) == \E j \in 1 .. Len(received) : received[j].m_handle = r

\* A request that has been answered is not pending.
Answering(units) ==
  \A k \in 1 .. Len(units) :
    units[k].part = 0 => units[k].handle \notin pending /\ Received(units[k].handle)

ReplyInv ==
  /\ Chain(Written) /\ Answering(Written)
  /\ \A r \in pending : Received(r)

LEMMA WrittenType ==
  ASSUME TypeOK
  PROVE  /\ Written \in Seq(UnitSet) /\ replies \o outbox \in Seq(UnitSet)
         /\ Written = (replies \o outbox) \o reply
<1>1. replies \in Seq(UnitSet) /\ outbox \in Seq(UnitSet) /\ reply \in Seq(UnitSet)
  BY DEF TypeOK
<1>2. outbox \o reply \in Seq(UnitSet) /\ replies \o outbox \in Seq(UnitSet)
  BY <1>1
<1>3. replies \o (outbox \o reply) \in Seq(UnitSet)
  BY <1>1, <1>2
<1>4. replies \o (outbox \o reply) = (replies \o outbox) \o reply
  BY <1>1, ConcatAssociative
<1>. QED  BY <1>2, <1>3, <1>4 DEF Written

LEMMA ReplyInit == Init => ReplyInv
<1> SUFFICES ASSUME Init PROVE ReplyInv
  OBVIOUS
<1>1. Written = <<>> /\ pending = {}
  BY DEF Init, Written
<1>2. \A k \in 1 .. Len(<<>>) : FALSE
  OBVIOUS
<1>. QED  BY <1>1, <1>2 DEF ReplyInv, Chain, Answering

\* A request that is returned is the next one, and a new one.
LEMMA ReturnedNext ==
  ASSUME TypeOK, RequestInv, RequestInv', NEW d, Returned(d), submitted' = submitted
  PROVE  /\ Len(received) + 1 \in 1 .. Len(submitted)
         /\ d = Meant(submitted[Len(received) + 1])
         /\ d.m_handle = submitted[Len(received) + 1]
         /\ Received(d.m_handle)'
         /\ \A r : Received(r) => Received(r)' /\ r # d.m_handle
         /\ \A r : Received(r)' => Received(r) \/ r = d.m_handle
<1> DEFINE n == Len(received)
<1>1. n \in Nat /\ Len(received') = n + 1 /\ received'[n + 1] = d
      /\ \A j \in 1 .. n : received'[j] = received[j]
  BY DEF TypeOK, Returned
<1>2. n + 1 \in 1 .. Len(submitted) /\ received'[n + 1] = Meant(submitted[n + 1])
  BY <1>1 DEF RequestInv, RequestsIntact, TypeOK
<1>3. d.m_handle = submitted[n + 1]
  BY <1>1, <1>2 DEF Meant
<1>4. ASSUME NEW r, Received(r) PROVE Received(r)' /\ r # d.m_handle
  <2>1. PICK j \in 1 .. n : received[j].m_handle = r
    BY <1>4 DEF Received
  <2>2. received[j] = Meant(submitted[j])
    BY <2>1 DEF RequestInv, RequestsIntact
  <2>3. r = submitted[j]
    BY <2>1, <2>2 DEF Meant
  <2>4. submitted[j] # submitted[n + 1]
    <3>1. j \in 1 .. (n + 1) - 1
      BY <1>1, <2>1
    <3>. QED  BY <1>2, <3>1 DEF RequestInv, SubmittedOnce
  <2>5. j \in 1 .. Len(received') /\ received'[j].m_handle = r
    BY <1>1, <2>1
  <2>. QED  BY <1>3, <2>3, <2>4, <2>5 DEF Received
<1>5. Received(d.m_handle)'
  BY <1>1, <1>2 DEF Received
<1>6. ASSUME NEW r, Received(r)' PROVE Received(r) \/ r = d.m_handle
  <2>1. PICK j \in 1 .. n + 1 : received'[j].m_handle = r
    BY <1>1, <1>6 DEF Received
  <2>2. j \in 1 .. n \/ j = n + 1
    BY <1>1
  <2>. QED  BY <1>1, <2>1, <2>2 DEF Received
<1>. QED  BY <1>1, <1>2, <1>3, <1>4, <1>5, <1>6

\* A request that is returned has not been answered.
LEMMA ReplyReturned ==
  ASSUME TypeOK, RequestInv, RequestInv', ReplyInv, NEW d, Returned(d),
         submitted' = submitted, Written' = Written
  PROVE  ReplyInv'
<1>1. /\ Received(d.m_handle)'
      /\ \A r : Received(r) => Received(r)' /\ r # d.m_handle
  BY ReturnedNext
<1>2. pending' \subseteq pending \cup {d.m_handle}
  BY DEF Returned
<1>3. Chain(Written)'
  BY DEF ReplyInv, Chain
<1>4. Answering(Written)'
  <2> SUFFICES ASSUME NEW k \in 1 .. Len(Written), Written[k].part = 0
               PROVE  Written[k].handle \notin pending' /\ Received(Written[k].handle)'
    BY DEF Answering, Received
  <2>1. Written[k].handle \notin pending /\ Received(Written[k].handle)
    BY DEF ReplyInv, Answering
  <2>. QED  BY <1>1, <1>2, <2>1
<1>5. \A r \in pending' : Received(r)'
  BY <1>1, <1>2 DEF ReplyInv
<1>. QED  BY <1>3, <1>4, <1>5 DEF ReplyInv

\* SendReply puts a whole reply behind what is written.
LEMMA ReplyQueued ==
  ASSUME TypeOK, NEW r \in Requests, SendReply(r)
  PROVE  /\ r \in pending /\ pending' = pending \ {r}
         /\ UNCHANGED <<received, submitted, replies, outbox>>
         /\ Len(Written) \in Nat /\ Answer(r) \in Nat
         /\ Len(Written') = Len(Written) + (Answer(r) + 1)
         /\ \A k \in 1 .. Len(Written) : Written'[k] = Written[k]
         /\ \A i \in 1 .. Answer(r) + 1 : Written'[Len(Written) + i] = Unit(r, i - 1)
<1> DEFINE old == replies \o outbox
           more == ReplyUnits(r)
           all == old \o more
           N == Len(old)
           size == Answer(r)
<1>1. r \in pending /\ pending' = pending \ {r} /\ reply = <<>> /\ reply' = more
      /\ UNCHANGED <<received, submitted, replies, outbox>>
  BY DEF SendReply, driverVars
<1>2. old \in Seq(UnitSet) /\ N \in Nat
  BY WrittenType
<1>3. Written = old
  <2>1. Written = old \o <<>>
    BY <1>1, WrittenType
  <2> HIDE DEF old
  <2>. QED  BY <1>2, <2>1
<1>4. /\ more \in Seq(UnitSet) /\ Len(more) = size + 1 /\ size \in Nat
      /\ \A i \in 1 .. size + 1 : more[i] = Unit(r, i - 1)
  BY ReplyType
<1>5. Written' = all
  <2>1. Written' = replies \o (outbox \o more)
    BY <1>1 DEF Written
  <2>2. replies \in Seq(UnitSet) /\ outbox \in Seq(UnitSet) /\ more \in Seq(UnitSet)
    BY <1>4 DEF TypeOK
  <2> HIDE DEF more
  <2>3. replies \o (outbox \o more) = (replies \o outbox) \o more
    BY <2>2, ConcatAssociative
  <2>. QED  BY <2>1, <2>3
<1> HIDE DEF old, more, size
<1>6. /\ Len(all) = N + (size + 1)
      /\ \A k \in 1 .. N : all[k] = old[k]
      /\ \A i \in 1 .. size + 1 : all[N + i] = Unit(r, i - 1)
  <2>1. old \in Seq(UnitSet) /\ more \in Seq(UnitSet)
    BY <1>2, <1>4
  <2>2. /\ Len(all) = N + Len(more)
        /\ \A k \in 1 .. N : all[k] = old[k]
        /\ \A i \in 1 .. Len(more) : all[N + i] = more[i]
    BY <2>1
  <2>. QED  BY <1>4, <2>2
<1> HIDE DEF all
<1>. QED  BY <1>1, <1>2, <1>3, <1>4, <1>5, <1>6 DEF size

LEMMA ReplySent ==
  ASSUME TypeOK, ReplyInv, NEW r \in Requests, SendReply(r)
  PROVE  ReplyInv'
<1> DEFINE old == Written
           all == Written'
           N == Len(old)
           size == Answer(r)
<1>1. r \in pending /\ pending' = pending \ {r} /\ received' = received
  BY ReplyQueued
<1>2. N \in Nat /\ size \in Nat
  BY ReplyQueued
<1>3. /\ Len(all) = N + (size + 1)
      /\ \A k \in 1 .. N : all[k] = old[k]
      /\ \A i \in 1 .. size + 1 : all[N + i] = Unit(r, i - 1)
  BY ReplyQueued
<1>4. Chain(old) /\ Answering(old)
  BY DEF ReplyInv
<1> HIDE DEF old, all, size
<1>5. ASSUME NEW k \in 1 .. N
      PROVE  /\ all[k] = old[k] /\ k - 1 \in 0 .. N - 1 /\ (k > 1 => k - 1 \in 1 .. N)
             /\ (k < N => all[k + 1] = old[k + 1])
             /\ \A j \in 1 .. k - 1 : all[j] = old[j]
  BY <1>2, <1>3
<1>6. ASSUME NEW k \in 1 .. Len(all), ~(k \in 1 .. N)
      PROVE  /\ k - N \in 1 .. size + 1 /\ N + (k - N) = k
             /\ all[k] = Unit(r, (k - N) - 1)
             /\ (k - N > 1 => k > 1 /\ all[k - 1] = Unit(r, ((k - N) - 1) - 1))
             /\ (k - N # size + 1 => k < Len(all) /\ all[k + 1] = Unit(r, ((k - N) - 1) + 1))
  <2> DEFINE i == k - N
  <2>1. i \in 1 .. size + 1 /\ N + i = k /\ i \in Nat
    BY <1>2, <1>3, <1>6
  <2>2. all[k] = Unit(r, i - 1)
    BY <1>3, <2>1
  <2>3. ASSUME i > 1 PROVE k > 1 /\ all[k - 1] = Unit(r, (i - 1) - 1)
    <3>1. i - 1 \in 1 .. size + 1 /\ N + (i - 1) = k - 1 /\ k > 1
      BY <1>2, <2>1, <2>3
    <3>. QED  BY <1>3, <3>1
  <2>4. ASSUME i # size + 1 PROVE k < Len(all) /\ all[k + 1] = Unit(r, (i - 1) + 1)
    <3>1. i + 1 \in 1 .. size + 1 /\ N + (i + 1) = k + 1 /\ k < N + (size + 1)
          /\ (i + 1) - 1 = (i - 1) + 1
      <4> HIDE DEF i
      <4>. QED  BY <1>2, <2>1, <2>4
    <3>2. all[N + (i + 1)] = Unit(r, (i + 1) - 1)
      BY <1>3, <3>1
    <3> HIDE DEF i
    <3>. QED  BY <1>3, <3>1, <3>2
  <2>. QED  BY <2>1, <2>2, <2>3, <2>4
<1>7. ASSUME NEW k \in 1 .. N, old[k].part = 0 PROVE old[k].handle # r
  BY <1>1, <1>4, <1>7 DEF Answering
<1>8. Chain(all)
  <2> SUFFICES ASSUME NEW k \in 1 .. Len(all)
               PROVE  /\ IF all[k].part = 0 THEN \A j \in 1 .. k - 1 : all[j] # all[k]
                         ELSE k > 1 /\ all[k - 1] = Unit(all[k].handle, all[k].part - 1)
                      /\ all[k].part # Answer(all[k].handle)
                           => k < Len(all) /\ all[k + 1] = Unit(all[k].handle, all[k].part + 1)
    BY DEF Chain
  <2>1. CASE k \in 1 .. N
    <3>1. /\ IF old[k].part = 0 THEN \A j \in 1 .. k - 1 : old[j] # old[k]
             ELSE k > 1 /\ old[k - 1] = Unit(old[k].handle, old[k].part - 1)
          /\ old[k].part # Answer(old[k].handle)
               => k < N /\ old[k + 1] = Unit(old[k].handle, old[k].part + 1)
      BY <1>4, <2>1 DEF Chain
    <3>2. k > 1 => all[k - 1] = old[k - 1]
      BY <1>2, <1>3, <1>5, <2>1
    <3>3. N < Len(all)
      BY <1>2, <1>3
    <3>4. k < N => k < Len(all)
      BY <1>2, <1>3, <2>1
    <3>. QED  BY <1>5, <2>1, <3>1, <3>2, <3>4
  <2>2. CASE ~(k \in 1 .. N)
    <3> DEFINE i == k - N
    <3>1. /\ i \in 1 .. size + 1 /\ all[k] = Unit(r, i - 1)
          /\ (i > 1 => k > 1 /\ all[k - 1] = Unit(r, (i - 1) - 1))
          /\ (i # size + 1 => k < Len(all) /\ all[k + 1] = Unit(r, (i - 1) + 1))
      BY <1>6, <2>2
    <3>2. all[k].part = i - 1 /\ all[k].handle = r
      BY <3>1 DEF Unit
    <3>3. ASSUME i = 1, NEW j \in 1 .. k - 1 PROVE all[j] # all[k]
      <4>1. j \in 1 .. N
        BY <1>2, <1>6, <2>2, <3>3
      <4>2. all[j] = old[j]
        BY <1>3, <4>1
      <4>3. all[k].part = 0
        BY <3>1, <3>2, <3>3
      <4>. QED  BY <1>7, <3>2, <4>1, <4>2, <4>3
    <3>4. i = 1 \/ i > 1
      BY <1>2, <3>1
    <3>5. all[k].part = 0 <=> i = 1
      BY <1>2, <3>1, <3>2
    <3>6. all[k].part # Answer(all[k].handle) => i # size + 1
      BY <1>2, <3>1, <3>2 DEF size
    <3> HIDE DEF i
    <3>7. IF all[k].part = 0 THEN \A j \in 1 .. k - 1 : all[j] # all[k]
          ELSE k > 1 /\ all[k - 1] = Unit(all[k].handle, all[k].part - 1)
      BY <3>1, <3>2, <3>3, <3>4, <3>5
    <3>8. all[k].part # Answer(all[k].handle)
            => k < Len(all) /\ all[k + 1] = Unit(all[k].handle, all[k].part + 1)
      BY <3>1, <3>2, <3>6
    <3>. QED  BY <3>7, <3>8
  <2>. QED  BY <2>1, <2>2
<1>9. ASSUME NEW k \in 1 .. Len(all), all[k].part = 0
       PROVE  all[k].handle \notin pending' /\ Received(all[k].handle)
  <2>1. CASE k \in 1 .. N
    <3>1. all[k] = old[k]
      BY <1>3, <2>1
    <3>. QED  BY <1>1, <1>4, <1>9, <2>1, <3>1 DEF Answering
  <2>2. CASE ~(k \in 1 .. N)
    <3>1. all[k] = Unit(r, (k - N) - 1)
      BY <1>6, <1>9, <2>2
    <3>2. all[k].handle = r
      BY <3>1 DEF Unit
    <3>. QED  BY <1>1, <3>2 DEF ReplyInv
  <2>. QED  BY <2>1, <2>2
<1>10. Answering(Written)'
  BY <1>1, <1>9 DEF all, Answering, Received
<1>11. Chain(Written)'
  BY <1>8 DEF Chain, all
<1>12. \A x \in pending' : Received(x)'
  BY <1>1 DEF ReplyInv, Received
<1>. QED  BY <1>10, <1>11, <1>12 DEF ReplyInv

\* What a step does to the requests and to what is written.
LEMMA ReplyEffect ==
  ASSUME TypeOK, [Next]_vars
  PROVE  \/ UNCHANGED <<received, pending>> /\ Written' = Written
         \/ (\E d : Returned(d)) /\ submitted' = submitted /\ Written' = Written
         \/ \E r \in Requests : SendReply(r)
<1> USE DEF serviceVars, driverVars
<1> DEFINE Effect == \/ UNCHANGED <<received, pending>> /\ Written' = Written
                     \/ (\E d : Returned(d)) /\ submitted' = submitted /\ Written' = Written
                     \/ \E r \in Requests : SendReply(r)
<1>1. ASSUME UNCHANGED <<received, pending>>, Written' = Written
      PROVE  Effect
  BY <1>1
<1>2. ASSUME UNCHANGED <<received, pending, reply, outbox, replies>>
      PROVE  Effect
  BY <1>1, <1>2 DEF Written
<1>3. CASE SocketPair \/ StartThread
  BY <1>2, <1>3 DEF SocketPair, StartThread
<1>4. CASE ReceiveHeader
  <2>1. submitted' = submitted /\ Written' = Written
    BY <1>4 DEF ReceiveHeader, Written
  <2>2. UNCHANGED <<reply, outbox, replies>>
    BY <1>4 DEF ReceiveHeader
  <2>3. (\E d : Returned(d)) \/ UNCHANGED <<received, pending>>
    BY <1>4 DEF ReceiveHeader
  <2>. QED  BY <1>2, <2>1, <2>2, <2>3
<1>5. CASE ReadAll
  <2>1. submitted' = submitted /\ Written' = Written
    BY <1>5 DEF ReadAll, Written
  <2>2. UNCHANGED <<reply, outbox, replies>>
    BY <1>5 DEF ReadAll
  <2>3. (\E d : Returned(d)) \/ UNCHANGED <<received, pending>>
    BY <1>5 DEF ReadAll
  <2>. QED  BY <1>2, <2>1, <2>2, <2>3
<1>6. CASE Call \/ CallFails \/ DoIt \/ DoItReturns
  BY <1>2, <1>6 DEF Call, CallFails, DoIt, DoItReturns
<1>7. CASE (\E r \in Requests : Submit(r)) \/ KernelSends \/ Shutdown
  BY <1>2, <1>7 DEF Submit, KernelSends, Shutdown
<1>8. CASE KernelReads
  <2>1. /\ UNCHANGED <<received, pending, reply>> /\ outbox # <<>>
        /\ replies' = Append(replies, Head(outbox)) /\ outbox' = Tail(outbox)
    BY <1>8 DEF KernelReads
  <2>2. replies \in Seq(UnitSet) /\ outbox \in Seq(UnitSet) /\ reply \in Seq(UnitSet)
    BY DEF TypeOK
  <2>3. /\ replies' \in Seq(UnitSet) /\ outbox' \in Seq(UnitSet)
        /\ replies' \o outbox' = replies \o outbox
    BY <2>1, <2>2, HeadKeepsConcat
  <2>4. replies' \o (outbox' \o reply) = (replies' \o outbox') \o reply
    <3>1. \A x, y, z \in Seq(UnitSet) : x \o (y \o z) = (x \o y) \o z
      BY ConcatAssociative
    <3>. QED  BY <2>2, <2>3, <3>1, Zenon
  <2>5. Written' = Written
    BY <2>1, <2>3, <2>4, WrittenType DEF Written
  <2>. QED  BY <1>1, <2>1, <2>5
<1>9. ASSUME NEW r \in Requests, SendReply(r) PROVE Effect
  BY <1>9
<1>10. CASE WriteAll
  <2>1. UNCHANGED <<received, pending, replies>> /\ reply # <<>>
    BY <1>10 DEF WriteAll
  <2>2. outbox \in Seq(UnitSet) /\ reply \in Seq(UnitSet) /\ Len(outbox) \in Nat
        /\ Len(reply) \in Nat /\ Len(reply) >= 1 /\ Capacity \in Nat
    BY <2>1, CommunicatorAssumption DEF TypeOK, CommunicatorAssumption
  <2>3. PICK n \in Moves(Writable, Capacity - Len(outbox)) :
           /\ outbox' = outbox \o SubSeq(reply, 1, n)
           /\ reply' = SubSeq(reply, n + 1, Len(reply))
    BY <1>10 DEF WriteAll
  <2>4. n \in Nat /\ n <= Len(reply)
    BY <2>2, <2>3 DEF Moves, Writable
  <2>5. outbox' \o reply' = outbox \o reply
    BY <2>2, <2>3, <2>4, MoveKeepsConcat
  <2>. QED  BY <1>1, <2>1, <2>5 DEF Written
<1>11. CASE CtorThrows \/ ReceiveFails \/ ReadAllAsserts \/ DriverExit \/ WriteFails \/ Disconnect
  BY <1>2, <1>11
     DEF CtorThrows, ReceiveFails, ReadAllAsserts, DriverExit, WriteFails, Disconnect, End
<1>12. CASE UNCHANGED vars
  BY <1>2, <1>12 DEF vars
<1>. QED
  BY <1>3, <1>4, <1>5, <1>6, <1>7, <1>8, <1>9, <1>10, <1>11, <1>12
     DEF Next, MainThread, DriverThread, Send

LEMMA ReplyStep ==
  ASSUME TypeOK, RequestInv, RequestInv', ReplyInv, [Next]_vars
  PROVE  ReplyInv'
<1>1. CASE UNCHANGED <<received, pending>> /\ Written' = Written
  BY <1>1 DEF ReplyInv, Chain, Answering, Received
<1>. QED  BY <1>1, ReplyEffect, ReplyReturned, ReplySent

THEOREM ReplyInvariant == Spec => []ReplyInv
<1>1. Init => TypeOK /\ RequestInv /\ ReplyInv
  BY InitTypes, RequestInit, ReplyInit
<1>2. TypeOK /\ RequestInv /\ ReplyInv /\ [Next]_vars => TypeOK' /\ RequestInv' /\ ReplyInv'
  BY TypeStep, RequestStep, ReplyStep
<1>. QED  BY <1>1, <1>2, PTL DEF Spec

\* What the driver is sent is a sequence of whole replies, each once, to requests
\* that were received: for replies of any length, however the writes cut them.
THEOREM RepliesCorrect == Spec => []RepliesIntact
<1>1. TypeOK /\ ReplyInv => RepliesIntact
  <2> DEFINE stream == replies \o outbox
             N == Len(stream)
  <2> SUFFICES ASSUME TypeOK, ReplyInv, NEW k \in 1 .. N
               PROVE  /\ IF stream[k].part = 0
                           THEN /\ \A j \in 1 .. k - 1 : stream[j] # stream[k]
                                /\ Received(stream[k].handle)
                           ELSE k > 1 /\ stream[k - 1] = Unit(stream[k].handle, stream[k].part - 1)
                      /\ k < N /\ stream[k].part # Answer(stream[k].handle)
                           => stream[k + 1] = Unit(stream[k].handle, stream[k].part + 1)
    BY DEF RepliesIntact, Received
  <2>1. stream \in Seq(UnitSet) /\ reply \in Seq(UnitSet) /\ N \in Nat
        /\ Written = stream \o reply
    BY WrittenType DEF TypeOK
  <2> HIDE DEF stream
  <2>2. N <= Len(Written) /\ \A j \in 1 .. N : Written[j] = stream[j]
    BY <2>1
  <2>3. k \in 1 .. Len(Written) /\ Written[k] = stream[k]
        /\ \A j \in 1 .. k - 1 : Written[j] = stream[j]
    BY <2>1, <2>2
  <2>4. k > 1 => Written[k - 1] = stream[k - 1]
    BY <2>1, <2>2
  <2>5. k < N => Written[k + 1] = stream[k + 1]
    BY <2>1, <2>2
  <2>6. /\ IF Written[k].part = 0
             THEN \A j \in 1 .. k - 1 : Written[j] # Written[k]
             ELSE k > 1 /\ Written[k - 1] = Unit(Written[k].handle, Written[k].part - 1)
        /\ Written[k].part # Answer(Written[k].handle)
             => k < Len(Written) /\ Written[k + 1] = Unit(Written[k].handle, Written[k].part + 1)
        /\ Written[k].part = 0 => Received(Written[k].handle)
    BY <2>3 DEF ReplyInv, Chain, Answering
  <2>. QED  BY <2>3, <2>4, <2>5, <2>6
<1>. QED  BY <1>1, CommunicatorTypeCorrect, ReplyInvariant, PTL
(***************************************************************************)
(* The answers, and the channel of whole requests and replies.             *)
(***************************************************************************)
Sent(r) == \E k \in 1 .. Len(Written) : Written[k] = LastUnit(r)

\* A request is received, then pending, then answered, and its reply is written
\* once; a disconnect request has none.
AnswerInv ==
  /\ \A k \in 1 .. Len(Written) :
       /\ Written[k].handle \notin pending /\ Received(Written[k].handle)
       /\ Kind[Written[k].handle] # "DISC"
       /\ \A j \in 1 .. k - 1 : Written[j] # Written[k]
  /\ \A r \in pending : Received(r) /\ Kind[r] # "DISC"
  /\ \A r \in Requests : Received(r) /\ Kind[r] # "DISC" => r \in pending \/ Sent(r)

LEMMA AnswerInit == Init => AnswerInv
<1> SUFFICES ASSUME Init PROVE AnswerInv
  OBVIOUS
<1>1. Written = <<>> /\ pending = {} /\ received = <<>>
  BY DEF Init, Written
<1>2. \A k \in 1 .. Len(<<>>) : FALSE
  OBVIOUS
<1>. QED  BY <1>1, <1>2 DEF AnswerInv, Received

LEMMA AnswerReturned ==
  ASSUME TypeOK, RequestInv, RequestInv', AnswerInv, NEW d, Returned(d),
         submitted' = submitted, Written' = Written
  PROVE  AnswerInv'
<1> DEFINE n == Len(received)
           r == d.m_handle
<1>1. /\ n + 1 \in 1 .. Len(submitted) /\ d = Meant(submitted[n + 1]) /\ r = submitted[n + 1]
      /\ Received(r)'
      /\ \A x : Received(x) => Received(x)' /\ x # r
      /\ \A x : Received(x)' => Received(x) \/ x = r
  BY ReturnedNext
<1>2. r \in Requests /\ Kind[r] \in Commands /\ Kind[r] # "TRIM"
  <2>1. r \in Requests
    BY <1>1 DEF TypeOK
  <2>2. Kind[r] # "TRIM"
    BY <1>1 DEF RequestInv, SubmittedOnce
  <2>. QED  BY <2>1, <2>2, CommunicatorAssumption DEF CommunicatorAssumption
<1>3. d.m_action = IF Kind[r] = "DISC" THEN "DISCONN" ELSE Kind[r]
  BY <1>1 DEF Meant
<1>4. pending' = IF Kind[r] = "DISC" THEN pending ELSE pending \cup {r}
  BY <1>2, <1>3 DEF Returned, Commands
<1> HIDE DEF r, n
<1>5. ASSUME NEW k \in 1 .. Len(Written)
      PROVE  /\ Written[k].handle \notin pending' /\ Received(Written[k].handle)'
             /\ Kind[Written[k].handle] # "DISC"
             /\ \A j \in 1 .. k - 1 : Written[j] # Written[k]
  BY <1>1, <1>4 DEF AnswerInv
<1>6. \A x \in pending' : Received(x)' /\ Kind[x] # "DISC"
  BY <1>1, <1>4 DEF AnswerInv
<1>7. ASSUME NEW x \in Requests, Received(x)', Kind[x] # "DISC" PROVE x \in pending' \/ Sent(x)'
  <2>1. Sent(x)' <=> Sent(x)
    BY DEF Sent
  <2>. QED  BY <1>1, <1>4, <1>7, <2>1 DEF AnswerInv
<1>8. (\A k \in 1 .. Len(Written) :
         /\ Written[k].handle \notin pending /\ Received(Written[k].handle)
         /\ Kind[Written[k].handle] # "DISC"
         /\ \A j \in 1 .. k - 1 : Written[j] # Written[k])'
  BY <1>5 DEF Received
<1>. QED  BY <1>6, <1>7, <1>8, Zenon DEF AnswerInv

LEMMA AnswerSent ==
  ASSUME TypeOK, AnswerInv, NEW r \in Requests, SendReply(r)
  PROVE  AnswerInv'
<1> DEFINE old == Written
           all == Written'
           N == Len(old)
           size == Answer(r)
<1>1. r \in pending /\ pending' = pending \ {r} /\ received' = received
  BY ReplyQueued
<1>2. N \in Nat /\ size \in Nat
  BY ReplyQueued
<1>3. /\ Len(all) = N + (size + 1)
      /\ \A k \in 1 .. N : all[k] = old[k]
      /\ \A i \in 1 .. size + 1 : all[N + i] = Unit(r, i - 1)
  BY ReplyQueued
<1>4. /\ \A k \in 1 .. N : /\ old[k].handle \notin pending /\ Received(old[k].handle)
                           /\ Kind[old[k].handle] # "DISC"
                           /\ \A j \in 1 .. k - 1 : old[j] # old[k]
      /\ \A x \in pending : Received(x) /\ Kind[x] # "DISC"
      /\ \A x \in Requests : Received(x) /\ Kind[x] # "DISC"
                             => x \in pending \/ \E k \in 1 .. N : old[k] = LastUnit(x)
  BY DEF AnswerInv, Sent
<1>5. \A x : Received(x)' <=> Received(x)
  BY <1>1 DEF Received
<1>6. \A x : Sent(x)' <=> \E k \in 1 .. Len(all) : all[k] = LastUnit(x)
  BY DEF Sent
<1> HIDE DEF old, all, size, N
<1>7. ASSUME NEW k \in 1 .. Len(all), ~(k \in 1 .. N)
      PROVE  k - N \in 1 .. size + 1 /\ N + (k - N) = k /\ all[k] = Unit(r, (k - N) - 1)
  <2>1. k - N \in 1 .. size + 1 /\ N + (k - N) = k
    BY <1>2, <1>3, <1>7
  <2>. QED  BY <1>3, <2>1
<1>8. \A j \in 1 .. N : old[j].handle # r
  BY <1>1, <1>4
<1>9. ASSUME NEW k \in 1 .. Len(all)
      PROVE  /\ all[k].handle \notin pending' /\ Received(all[k].handle)
             /\ Kind[all[k].handle] # "DISC"
             /\ \A j \in 1 .. k - 1 : all[j] # all[k]
  <2>1. CASE k \in 1 .. N
    <3>1. \A j \in 1 .. k - 1 : j \in 1 .. N
      BY <1>2, <2>1
    <3>2. all[k] = old[k] /\ \A j \in 1 .. k - 1 : all[j] = old[j]
      BY <1>3, <2>1, <3>1
    <3>3. /\ old[k].handle \notin pending /\ Received(old[k].handle)
          /\ Kind[old[k].handle] # "DISC" /\ \A j \in 1 .. k - 1 : old[j] # old[k]
      BY <1>4, <2>1
    <3>. QED  BY <1>1, <3>2, <3>3
  <2>2. CASE ~(k \in 1 .. N)
    <3>1. all[k].handle = r /\ all[k].part = (k - N) - 1
      <4>1. all[k] = Unit(r, (k - N) - 1)
        BY <1>7, <2>2
      <4>. QED  BY <4>1 DEF Unit
    <3>2. ASSUME NEW j \in 1 .. k - 1 PROVE all[j] # all[k]
      <4>1. CASE j \in 1 .. N
        BY <1>3, <1>8, <3>1, <4>1
      <4>2. CASE ~(j \in 1 .. N)
        <5>1. j \in 1 .. Len(all) /\ j # k /\ j \in Nat /\ k \in Nat
          BY <1>2, <1>3
        <5>2. all[j].part = (j - N) - 1
          <6>1. all[j] = Unit(r, (j - N) - 1)
            BY <1>7, <4>2, <5>1
          <6>. QED  BY <6>1 DEF Unit
        <5>3. (j - N) - 1 # (k - N) - 1
          BY <1>2, <5>1, SMTT(30)
        <5>. QED  BY <3>1, <5>2, <5>3
      <4>. QED  BY <4>1, <4>2
    <3>. QED  BY <1>1, <1>4, <3>1, <3>2
  <2>. QED  BY <2>1, <2>2
<1>10. ASSUME NEW x \in Requests, Received(x), Kind[x] # "DISC"
       PROVE  x \in pending' \/ \E k \in 1 .. Len(all) : all[k] = LastUnit(x)
  <2>1. CASE x = r
    <3>1. size + 1 \in 1 .. size + 1 /\ N + (size + 1) \in 1 .. Len(all) /\ (size + 1) - 1 = size
      BY <1>2, <1>3
    <3>2. all[N + (size + 1)] = LastUnit(x)
      <4>1. all[N + (size + 1)] = Unit(r, size)
        BY <1>3, <3>1
      <4>. QED  BY <2>1, <4>1 DEF LastUnit, size
    <3>. QED  BY <3>1, <3>2
  <2>2. CASE x # r /\ x \in pending
    BY <1>1, <2>2
  <2>3. ASSUME NEW k \in 1 .. N, old[k] = LastUnit(x)
        PROVE  k \in 1 .. Len(all) /\ all[k] = LastUnit(x)
    BY <1>2, <1>3, <2>3
  <2>. QED  BY <1>4, <1>10, <2>1, <2>2, <2>3
<1>11. \A x \in pending' : Received(x) /\ Kind[x] # "DISC"
  BY <1>1, <1>4
<1>. QED  BY <1>5, <1>6, <1>9, <1>10, <1>11 DEF AnswerInv, all

LEMMA AnswerStep ==
  ASSUME TypeOK, RequestInv, RequestInv', AnswerInv, [Next]_vars
  PROVE  AnswerInv'
<1>1. CASE UNCHANGED <<received, pending>> /\ Written' = Written
  BY <1>1 DEF AnswerInv, Received, Sent
<1>. QED  BY <1>1, ReplyEffect, AnswerReturned, AnswerSent

LEMMA AnswerInvariant == Spec => [](TypeOK /\ RequestInv /\ AnswerInv)
<1>1. Init => TypeOK /\ RequestInv /\ AnswerInv
  BY InitTypes, RequestInit, AnswerInit
<1>2. TypeOK /\ RequestInv /\ AnswerInv /\ [Next]_vars => (TypeOK /\ RequestInv /\ AnswerInv)'
  BY TypeStep, RequestStep, AnswerStep
<1>. QED  BY <1>1, <1>2, PTL DEF Spec

LEMMA WrittenFront ==
  ASSUME TypeOK
  PROVE  /\ Len(replies) \in Nat /\ \A j \in 1 .. Len(replies) : Written[j] = replies[j]
         /\ outbox # <<>> => /\ Len(replies) + 1 \in 1 .. Len(Written)
                             /\ Written[Len(replies) + 1] = Head(outbox)
<1> DEFINE rest == outbox \o reply
<1>1. replies \in Seq(UnitSet) /\ outbox \in Seq(UnitSet) /\ reply \in Seq(UnitSet)
  BY DEF TypeOK
<1>2. /\ rest \in Seq(UnitSet)
      /\ outbox # <<>> => Len(rest) >= 1 /\ rest[1] = Head(outbox)
  BY <1>1
<1> HIDE DEF rest
<1>3. /\ Len(replies \o rest) = Len(replies) + Len(rest)
      /\ \A j \in 1 .. Len(replies) : (replies \o rest)[j] = replies[j]
      /\ \A j \in 1 .. Len(rest) : (replies \o rest)[Len(replies) + j] = rest[j]
  BY <1>1, <1>2
<1>4. Written = replies \o rest
  BY DEF Written, rest
<1>5. Len(replies) \in Nat /\ Len(rest) \in Nat
  BY <1>1, <1>2
<1>6. ASSUME outbox # <<>>
      PROVE  Len(replies) + 1 \in 1 .. Len(replies \o rest) /\ 1 \in 1 .. Len(rest)
  BY <1>2, <1>3, <1>5, <1>6
<1>. QED  BY <1>2, <1>3, <1>4, <1>5, <1>6

\* What the channel's view of a request in flight is.
LEMMA FlightType ==
  ASSUME TypeOK, RequestsIntact
  PROVE  LET n == Len(received)
             flight == SubSeq(submitted, n + 1, Len(submitted)) IN
         /\ n \in Nat /\ Len(submitted) \in Nat /\ n <= Len(submitted)
         /\ flight \in Seq(Requests) /\ Len(flight) = Len(submitted) - n
         /\ \A k \in 1 .. Len(submitted) - n : flight[k] = submitted[n + k]
         /\ \A k \in 1 .. n : received[k].m_handle = submitted[k]
<1> DEFINE n == Len(received)
           N == Len(submitted)
           flight == SubSeq(submitted, n + 1, N)
<1>1. n \in Nat /\ N \in Nat /\ n <= N /\ submitted \in Seq(Requests)
  BY DEF TypeOK, RequestsIntact
<1>2. ASSUME NEW k \in 1 .. n PROVE received[k].m_handle = submitted[k]
  <2>1. received[k] = Meant(submitted[k])
    BY DEF RequestsIntact
  <2>2. Meant(submitted[k]).m_handle = submitted[k]
    BY DEF Meant
  <2>. QED  BY <2>1, <2>2
<1> HIDE DEF n, N
<1>3. \A i \in n + 1 .. N : submitted[i] \in Requests
  BY <1>1 DEF N
<1>4. /\ flight \in Seq(Requests) /\ Len(flight) = IF n + 1 <= N THEN N - (n + 1) + 1 ELSE 0
      /\ \A i \in 1 .. N - (n + 1) + 1 : flight[i] = submitted[(n + 1) + i - 1]
  BY <1>1, <1>3, SubSeqProperties
<1>5. Len(flight) = N - n
  BY <1>1, <1>4
<1>6. ASSUME NEW k \in 1 .. N - n PROVE flight[k] = submitted[n + k]
  <2>1. k \in 1 .. N - (n + 1) + 1 /\ (n + 1) + k - 1 = n + k
    BY <1>1
  <2>. QED  BY <1>4, <2>1
<1>. QED  BY <1>1, <1>2, <1>4, <1>5, <1>6 DEF n, N

LEMMA ChannelSubmit ==
  ASSUME TypeOK, RequestInv, NEW r \in Requests, Submit(r)
  PROVE  Channel!Submit(r)
<1> DEFINE n == Len(received)
           N == Len(submitted)
           flight == SubSeq(submitted, n + 1, N)
           all == Append(submitted, r)
<1>1. /\ n \in Nat /\ N \in Nat /\ n <= N
      /\ flight \in Seq(Requests) /\ Len(flight) = N - n
      /\ \A k \in 1 .. N - n : flight[k] = submitted[n + k]
      /\ \A k \in 1 .. n : received[k].m_handle = submitted[k]
  BY FlightType DEF RequestInv
<1>2. /\ submitted' = all /\ UNCHANGED <<received, replies>>
      /\ \A k \in 1 .. N : submitted[k] # r /\ Kind[submitted[k]] # "DISC"
  BY DEF Submit, serviceVars
<1>3. all \in Seq(Requests) /\ Len(all) = N + 1 /\ all[N + 1] = r
      /\ \A k \in 1 .. N : all[k] = submitted[k]
  BY DEF TypeOK
<1>4. SubSeq(all, n + 1, N + 1) = Append(flight, r)
  <2> HIDE DEF n, N, all, flight
  <2> DEFINE longer == SubSeq(all, n + 1, N + 1)
  <2>1. \A i \in n + 1 .. N + 1 : all[i] \in Requests
    <3>1. \A i \in 1 .. Len(all) : all[i] \in Requests
      BY <1>3
    <3>. QED  BY <1>1, <1>3, <3>1
  <2>2. /\ longer \in Seq(Requests)
        /\ Len(longer) = IF n + 1 <= N + 1 THEN (N + 1) - (n + 1) + 1 ELSE 0
        /\ \A i \in 1 .. (N + 1) - (n + 1) + 1 : longer[i] = all[(n + 1) + i - 1]
    BY <1>1, <2>1, SubSeqProperties
  <2>3. /\ Append(flight, r) \in Seq(Requests) /\ Len(Append(flight, r)) = (N - n) + 1
        /\ Append(flight, r)[(N - n) + 1] = r
        /\ \A k \in 1 .. N - n : Append(flight, r)[k] = flight[k]
    <3>1. /\ Append(flight, r) \in Seq(Requests) /\ Len(Append(flight, r)) = Len(flight) + 1
          /\ Append(flight, r)[Len(flight) + 1] = r
          /\ \A k \in 1 .. Len(flight) : Append(flight, r)[k] = flight[k]
      <4>1. flight \in Seq(Requests)
        BY <1>1
      <4>. QED  BY <4>1
    <3>. QED  BY <1>1, <3>1
  <2> HIDE DEF longer
  <2>4. Len(longer) = (N - n) + 1
    BY <1>1, <2>2
  <2>5. ASSUME NEW k \in 1 .. Len(longer) PROVE longer[k] = Append(flight, r)[k]
    <3>1. k \in 1 .. (N + 1) - (n + 1) + 1 /\ (n + 1) + k - 1 = n + k
      BY <1>1, <2>4
    <3>2. longer[k] = all[n + k]
      BY <2>2, <3>1
    <3>3. CASE k \in 1 .. N - n
      <4>1. n + k \in 1 .. N
        BY <1>1, <3>3
      <4>. QED  BY <1>1, <1>3, <2>3, <3>2, <3>3, <4>1
    <3>4. CASE k = (N - n) + 1
      <4>1. n + k = N + 1
        BY <1>1, <3>4
      <4>. QED  BY <1>3, <2>3, <3>2, <3>4, <4>1
    <3>5. k \in 1 .. N - n \/ k = (N - n) + 1
      BY <1>1, <2>4
    <3>. QED  BY <3>3, <3>4, <3>5
  <2>6. longer = Append(flight, r)
    BY <2>2, <2>3, <2>4, <2>5, SeqEqual
  <2>. QED  BY <2>6 DEF longer
<1>5. \A x \in {received[k].m_handle : k \in 1 .. n} \cup {flight[k] : k \in 1 .. Len(flight)} :
        \E k \in 1 .. N : x = submitted[k]
  <2> HIDE DEF n, N, flight
  <2>1. \A k \in 1 .. n : k \in 1 .. N
    BY <1>1
  <2>2. \A k \in 1 .. N - n : n + k \in 1 .. N
    BY <1>1
  <2>. QED  BY <1>1, <2>1, <2>2
<1>6. AnsweredOnes' = AnsweredOnes
  BY <1>2 DEF AnsweredOnes
<1>7. SubSeq(submitted', Len(received') + 1, Len(submitted')) = Append(flight, r)
  BY <1>2, <1>3, <1>4
<1> DEFINE gotten == {received[k].m_handle : k \in 1 .. n}
           flying == {flight[k] : k \in 1 .. Len(flight)}
<1>8. r \notin gotten \cup flying
      /\ (gotten \cup flying) \cap {x \in Requests : Kind[x] = "DISC"} = {}
  <2> HIDE DEF gotten, flying
  <2>1. \A x \in gotten \cup flying : x # r /\ Kind[x] # "DISC"
    BY <1>2, <1>5 DEF gotten, flying
  <2>. QED  BY <2>1
<1>. QED  BY <1>2, <1>6, <1>7, <1>8 DEF Channel!Submit, Channel!InFlight

LEMMA ChannelReceive ==
  ASSUME TypeOK, RequestInv, RequestInv', NEW d, Returned(d),
         UNCHANGED <<submitted, replies>>
  PROVE  Channel!Receive
<1> DEFINE n == Len(received)
           N == Len(submitted)
           flight == SubSeq(submitted, n + 1, N)
<1>1. n + 1 \in 1 .. N /\ d.m_handle = submitted[n + 1]
  BY ReturnedNext
<1>2. /\ n \in Nat /\ N \in Nat /\ n <= N /\ submitted \in Seq(Requests)
      /\ flight \in Seq(Requests) /\ Len(flight) = N - n
  BY FlightType DEF RequestInv, TypeOK
<1>3. /\ Len(received') = n + 1 /\ received'[n + 1] = d
      /\ \A k \in 1 .. n : received'[k] = received[k]
  BY DEF Returned, TypeOK
<1> HIDE DEF n, N, flight
<1>4. flight # <<>>
  <2>1. Len(flight) > 0
    BY <1>1, <1>2
  <2>. QED  BY <2>1
<1>5. Head(flight) = submitted[n + 1] /\ Tail(flight) = SubSeq(submitted, (n + 1) + 1, N)
  <2>1. N \in n + 1 .. N /\ Len(submitted) = N
    BY <1>1, <1>2 DEF N
  <2>. QED  BY <1>1, <1>2, <2>1, HeadTailOfSubSeq DEF flight
<1>6. {received'[k].m_handle : k \in 1 .. Len(received')}
        = {received[k].m_handle : k \in 1 .. n} \cup {Head(flight)}
  <2>1. \A k : k \in 1 .. n + 1 <=> k \in 1 .. n \/ k = n + 1
    BY <1>2
  <2>. QED  BY <1>1, <1>3, <1>5, <2>1
<1>7. AnsweredOnes' = AnsweredOnes
  BY DEF AnsweredOnes
<1>8. SubSeq(submitted', Len(received') + 1, Len(submitted')) = Tail(flight)
  BY <1>3, <1>5 DEF N
<1>. QED  BY <1>4, <1>6, <1>7, <1>8 DEF Channel!Receive, flight, n, N

\* The driver reads one unit more: the last one of a reply, or none yet.
LEMMA ChannelAnswer ==
  ASSUME TypeOK, AnswerInv, KernelReads
  PROVE  AnsweredOnes' = AnsweredOnes \/ \E r \in Requests : Channel!Answer(r)
<1> DEFINE u == Head(outbox)
           r == u.handle
           R == Len(replies)
<1>1. /\ outbox # <<>> /\ replies' = Append(replies, u)
      /\ UNCHANGED <<received, submitted>>
  BY DEF KernelReads, serviceVars
<1>2. u \in UnitSet /\ r \in Requests
  <2>1. outbox \in Seq(UnitSet)
    BY DEF TypeOK
  <2>2. u \in UnitSet
    BY <1>1, <2>1
  <2>. QED  BY <2>2 DEF UnitSet
<1>3. /\ R \in Nat /\ Len(replies') = R + 1 /\ replies'[R + 1] = u
      /\ \A j \in 1 .. R : replies'[j] = replies[j]
  BY <1>1 DEF TypeOK
<1>4. /\ \A j \in 1 .. R : Written[j] = replies[j]
      /\ R + 1 \in 1 .. Len(Written) /\ Written[R + 1] = u
  BY <1>1, WrittenFront
<1>5. /\ Received(r) /\ Kind[r] # "DISC"
      /\ \A j \in 1 .. R : replies[j] # u
  <2>1. \A j \in 1 .. (R + 1) - 1 : Written[j] # Written[R + 1]
    BY <1>4 DEF AnswerInv
  <2>2. \A j \in 1 .. R : j \in 1 .. (R + 1) - 1
    BY <1>3
  <2>. QED  BY <1>4, <2>1, <2>2 DEF AnswerInv
<1> HIDE DEF u, R
<1>6. \A x : (\E j \in 1 .. Len(replies') : replies'[j] = LastUnit(x))
               <=> (\E j \in 1 .. R : replies[j] = LastUnit(x)) \/ u = LastUnit(x)
  <2>1. \A k : k \in 1 .. R + 1 <=> k \in 1 .. R \/ k = R + 1
    BY <1>3
  <2>. QED  BY <1>3, <2>1
<1>7. \A x \in Requests : u = LastUnit(x) => x = r
  BY DEF LastUnit, Unit
<1>8. AnsweredOnes' = {x \in Requests : x \in AnsweredOnes \/ u = LastUnit(x)}
  BY <1>6 DEF AnsweredOnes, R
<1>9. CASE u = LastUnit(r)
  <2>1. r \notin AnsweredOnes
    BY <1>5, <1>9 DEF AnsweredOnes, R
  <2>2. AnsweredOnes' = AnsweredOnes \cup {r}
    BY <1>2, <1>7, <1>8, <1>9 DEF AnsweredOnes
  <2>3. r \in {received[k].m_handle : k \in 1 .. Len(received)}
    BY <1>5 DEF Received
  <2>4. Channel!Answer(r)
    BY <1>1, <1>2, <1>5, <2>1, <2>2, <2>3 DEF Channel!Answer
  <2>. QED  BY <1>2, <2>4
<1>10. CASE u # LastUnit(r)
  BY <1>7, <1>8, <1>10 DEF AnsweredOnes
<1>. QED  BY <1>9, <1>10

LEMMA ChannelStep ==
  ASSUME TypeOK, RequestInv, RequestInv', AnswerInv, [Next]_vars
  PROVE  [Channel!Next]_(Channel!vars)
<1> USE DEF serviceVars, driverVars
<1>1. ASSUME UNCHANGED <<received, submitted>>, AnsweredOnes' = AnsweredOnes
      PROVE  UNCHANGED Channel!vars
  BY <1>1 DEF Channel!vars
<1>2. ASSUME UNCHANGED <<received, submitted, replies>>
      PROVE  UNCHANGED Channel!vars
  BY <1>1, <1>2 DEF AnsweredOnes
<1>3. CASE SocketPair \/ StartThread \/ Call \/ CallFails \/ DoIt \/ DoItReturns
  BY <1>2, <1>3 DEF SocketPair, StartThread, Call, CallFails, DoIt, DoItReturns
<1>4. ASSUME NEW r \in Requests, Submit(r) PROVE Channel!Next
  BY <1>4, ChannelSubmit DEF Channel!Next
<1>5. CASE ReceiveHeader \/ ReadAll
  <2>1. UNCHANGED <<submitted, replies>> /\ ((\E d : Returned(d)) \/ received' = received)
    BY <1>5 DEF ReceiveHeader, ReadAll
  <2>. QED  BY <1>2, <2>1, ChannelReceive DEF Channel!Next
<1>6. CASE KernelReads
  <2>1. UNCHANGED <<received, submitted>>
    BY <1>6 DEF KernelReads
  <2>. QED  BY <1>1, <1>6, <2>1, ChannelAnswer DEF Channel!Next
<1>7. CASE KernelSends \/ Shutdown \/ WriteAll \/ (\E r \in Requests : SendReply(r))
  BY <1>2, <1>7 DEF KernelSends, Shutdown, WriteAll, SendReply
<1>8. CASE CtorThrows \/ ReceiveFails \/ ReadAllAsserts \/ DriverExit \/ WriteFails \/ Disconnect
  BY <1>2, <1>8
     DEF CtorThrows, ReceiveFails, ReadAllAsserts, DriverExit, WriteFails, Disconnect, End
<1>9. CASE UNCHANGED vars
  BY <1>2, <1>9 DEF vars
<1>. QED
  BY <1>3, <1>4, <1>5, <1>6, <1>7, <1>8, <1>9 DEF Next, MainThread, DriverThread, Send

\* Through streams of any capacity, however they are cut, requests arrive whole,
\* once and in order, and each is answered at most once, after it has arrived: the
\* channel on which the engine is built.
THEOREM CommunicatorImplementsChannel == Spec => ImplementsChannel
<1>1. Init => Channel!Init
  <2> SUFFICES ASSUME Init PROVE Channel!Init
    OBVIOUS
  <2>1. received = <<>> /\ submitted = <<>> /\ replies = <<>>
    BY DEF Init
  <2>2. SubSeq(<<>>, 0 + 1, 0) = <<>> /\ Len(<<>>) = 0 /\ 1 .. 0 = {}
    OBVIOUS
  <2>3. AnsweredOnes = {}
    BY <2>1, <2>2 DEF AnsweredOnes
  <2>. QED  BY <2>1, <2>2, <2>3 DEF Channel!Init
<1>2. TypeOK /\ RequestInv /\ RequestInv' /\ AnswerInv /\ [Next]_vars
        => [Channel!Next]_(Channel!vars)
  BY ChannelStep
<1>. QED  BY <1>1, <1>2, AnswerInvariant, PTL DEF Spec, ImplementsChannel, Channel!Spec

(***************************************************************************)
(* The driver waits only while somebody can move.                          *)
(***************************************************************************)

\* Before NBD_DO_IT, and after it has failed, the socket is empty; only a shutdown
\* brings the thread of the communicator to its last calls.
IdleInv ==
  /\ driver # "none" => main \in {"ready", "payload"}
  /\ driver # "serving" /\ ~closed => submitted = <<>> /\ sending = <<>> /\ inbox = <<>>
  /\ driver \in {"NBD_CLEAR_QUE", "cleanup", "exit"} => closed
  /\ status = "success" => closed

LEMMA IdleStep ==
  ASSUME TypeOK, IdleInv, [Next]_vars
  PROVE  IdleInv'
<1> USE DEF serviceVars, driverVars, IdleInv
<1>1. CASE SocketPair \/ StartThread
  BY <1>1 DEF SocketPair, StartThread, Alive
<1>2. CASE Call
  <2>1. driver' \in {"NBD_CLEAR_QUE", "cleanup", "exit"} => driver \in {"NBD_CLEAR_QUE", "cleanup"}
    BY <1>2 DEF Call, NextCall
  <2>2. driver # "serving" /\ driver # "none"
    BY <1>2 DEF Call, NextCall
  <2>. QED  BY <1>2, <2>1, <2>2 DEF Call, Alive
<1>3. CASE CallFails
  <2>1. driver # "serving" /\ driver # "none"
    BY <1>3 DEF CallFails, NextCall
  <2>. QED  BY <1>3, <2>1 DEF CallFails, Alive
<1>4. CASE DoIt \/ DoItReturns
  BY <1>4 DEF DoIt, DoItReturns, Alive
<1>5. CASE (\E r \in Requests : Submit(r)) \/ KernelSends \/ KernelReads \/ Shutdown
  BY <1>5 DEF Submit, KernelSends, KernelReads, Shutdown, Attached, Alive
<1>6. CASE ReceiveHeader \/ ReadAll
  <2>1. inbox # <<>> /\ main' \in {"ready", "payload"} /\ status' # "success"
        /\ UNCHANGED <<driver, closed, submitted, sending>>
    <3>1. CASE ReceiveHeader
      BY <3>1 DEF ReceiveHeader, Returned, Alive
    <3>2. CASE ReadAll
      BY <3>2 DEF ReadAll, Returned, Moves, Alive
    <3>. QED  BY <1>6, <3>1, <3>2
  <2>. QED  BY <2>1
<1>7. CASE WriteAll \/ \E r \in Requests : SendReply(r)
  BY <1>7 DEF WriteAll, SendReply, Alive
<1>8. CASE CtorThrows \/ ReceiveFails \/ ReadAllAsserts \/ DriverExit \/ WriteFails \/ Disconnect
  BY <1>8
     DEF CtorThrows, ReceiveFails, ReadAllAsserts, DriverExit, WriteFails, Disconnect, End
<1>9. CASE UNCHANGED vars
  BY <1>9 DEF vars
<1>. QED
  BY <1>1, <1>2, <1>3, <1>4, <1>5, <1>6, <1>7, <1>8, <1>9
     DEF Next, MainThread, DriverThread, Send

LEMMA IdleInvariant == Spec => []IdleInv
<1>1. Init => IdleInv
  BY DEF Init, IdleInv
<1>. QED  BY <1>1, IdleStep, CommunicatorTypeCorrect, PTL DEF Spec

\* When nothing is on its way to the service, it has received every request whole.
LEMMA AllReceived ==
  ASSUME TypeOK, RequestInv, inbox = <<>>, sending = <<>>
  PROVE  Len(received) = Len(submitted)
<1> DEFINE n == Len(received)
           N == Len(submitted)
<1>1. n \in Nat /\ N \in Nat /\ n <= N
  BY DEF TypeOK, RequestInv, RequestsIntact
<1> SUFFICES ASSUME n < N PROVE FALSE
  BY <1>1
<1> DEFINE r == submitted[n + 1]
<1>2. PICK off : Offsets(off, submitted) /\ Flow(off, submitted, inbox \o sending, off[n + 1] + Done)
  BY DEF RequestInv, Streaming
<1>3. n + 1 \in 1 .. N /\ n + 1 \in 1 .. N + 1 /\ (n + 1) + 1 \in 1 .. N + 1 /\ N + 1 \in 1 .. N + 1
      /\ r \in Requests
  BY <1>1 DEF TypeOK
<1>4. off[n + 1] \in Nat /\ off[N + 1] \in Nat /\ off[(n + 1) + 1] \in Nat
  BY <1>2, <1>3 DEF Offsets
<1>5. off[(n + 1) + 1] = off[n + 1] + Payload(r) + 1 /\ off[(n + 1) + 1] <= off[N + 1]
  BY <1>2, <1>3 DEF Offsets
<1>6. Done \in Nat /\ (off[n + 1] + Done) + 0 = off[N + 1]
  <2>1. Len(inbox \o sending) = 0
    OBVIOUS
  <2>2. (off[n + 1] + Done) + Len(inbox \o sending) = off[N + 1]
    BY <1>2 DEF Flow
  <2>3. Done \in Nat
    BY DEF Done, TypeOK, Data
  <2>. QED  BY <2>1, <2>2, <2>3
<1>7. Payload(r) \in Nat /\ Done <= Payload(r)
  <2>1. Payload(r) \in Nat
    BY <1>3, RequestType
  <2>2. CASE main # "payload"
    BY <2>1, <2>2 DEF Done
  <2>3. CASE main = "payload"
    <3>1. Kind[r] = "WRITE" /\ Len(data_.m_buffer) < Length[r]
      BY <2>3 DEF RequestInv, Reading
    <3>2. Payload(r) = Length[r] /\ Done = Len(data_.m_buffer) + 1
      BY <2>3, <3>1 DEF Payload, Done
    <3>3. Len(data_.m_buffer) \in Nat
      BY DEF TypeOK, Data
    <3>. QED  BY <2>1, <3>1, <3>2, <3>3
  <2>. QED  BY <2>1, <2>2, <2>3
<1> HIDE DEF r
<1>8. ASSUME NEW a \in Nat, NEW b \in Nat, NEW c \in Nat, NEW p \in Nat, NEW e \in Nat,
             b = a + p + 1, b <= c, (a + e) + 0 = c, e <= p
      PROVE  FALSE
  BY <1>8
<1>. QED  BY <1>4, <1>5, <1>6, <1>7, <1>8

\* The two directions of the socket never wait for each other, at any capacity and
\* for any number of requests: while a request is unanswered, a thread can move.
THEOREM CommunicatorNeverStuck == Spec => []NeverStuck
<1>1. TypeOK /\ RequestInv /\ AnswerInv /\ IdleInv => NeverStuck
  <2> SUFFICES ASSUME TypeOK, RequestInv, AnswerInv, IdleInv, Attached,
                      NEW k \in 1 .. Len(submitted),
                      Kind[submitted[k]] # "DISC", submitted[k] \notin AnsweredOnes,
                      ~(main \in {"ready", "payload"} /\ inbox # <<>>),
                      ~(reply = <<>> /\ pending # {}),
                      ~(reply # <<>> /\ Len(outbox) < Capacity),
                      outbox = <<>>,
                      ~(sending # <<>> /\ Len(inbox) < Capacity)
               PROVE  FALSE
    BY DEF NeverStuck
  <2> DEFINE r == submitted[k]
  <2>1. Capacity \in Nat /\ Capacity > 0
    BY CommunicatorAssumption DEF CommunicatorAssumption
  <2>2. inbox = <<>> /\ reply = <<>> /\ pending = {} /\ sending = <<>>
    <3>1. main \in {"ready", "payload"}
      BY DEF IdleInv, Attached
    <3>. QED  BY <2>1, <3>1
  <2>3. Len(received) = Len(submitted)
    BY <2>2, AllReceived
  <2>4. received[k] = Meant(r) /\ k \in 1 .. Len(received) /\ r \in Requests
    BY <2>3 DEF RequestInv, RequestsIntact, TypeOK
  <2>5. Received(r)
    BY <2>4 DEF Received, Meant
  <2>6. PICK j \in 1 .. Len(Written) : Written[j] = LastUnit(r)
    BY <2>2, <2>4, <2>5 DEF AnswerInv, Sent
  <2>7. Written = replies
    <3>1. replies \in Seq(UnitSet)
      BY DEF TypeOK
    <3>. QED  BY <2>2, <3>1 DEF Written
  <2>8. r \in AnsweredOnes
    BY <2>4, <2>6, <2>7 DEF AnsweredOnes
  <2>. QED  BY <2>8
<1>. QED  BY <1>1, AnswerInvariant, IdleInvariant, PTL

\* The driver's thread is gone, and it never served the device.
Silent ==
  /\ driver = "ended" /\ ~closed
  /\ status \in {"running", "returned"} /\ main \in {"ready", "payload"}
  /\ submitted = <<>> /\ inbox = <<>>

LEMMA SilentStep == Silent /\ [Next]_vars => Silent'
<1> SUFFICES ASSUME Silent, [Next]_vars PROVE Silent'
  OBVIOUS
<1> USE DEF Silent, serviceVars, driverVars
<1>1. CASE SocketPair \/ StartThread \/ Call \/ CallFails \/ DoIt \/ DoItReturns
  BY <1>1 DEF SocketPair, StartThread, Call, CallFails, DoIt, DoItReturns, NextCall
<1>2. CASE (\E r \in Requests : Submit(r)) \/ KernelSends \/ KernelReads \/ Shutdown
  BY <1>2 DEF Submit, KernelSends, KernelReads, Shutdown, Attached
<1>3. CASE ReceiveHeader \/ ReadAll
  BY <1>3 DEF ReceiveHeader, ReadAll, Moves
<1>4. CASE WriteAll \/ \E r \in Requests : SendReply(r)
  BY <1>4 DEF WriteAll, SendReply
<1>5. CASE CtorThrows \/ ReceiveFails \/ ReadAllAsserts \/ DriverExit \/ WriteFails \/ Disconnect
  BY <1>5
     DEF CtorThrows, ReceiveFails, ReadAllAsserts, DriverExit, WriteFails, Disconnect, End
<1>6. CASE UNCHANGED vars
  BY <1>6 DEF vars
<1>. QED
  BY <1>1, <1>2, <1>3, <1>4, <1>5, <1>6 DEF Next, MainThread, DriverThread, Send

\* Once a call before NBD_DO_IT has failed the process never hears of it: it gets
\* no request, and nothing but the return of main ends it.
THEOREM FailureStaysSilent == Spec => SilentFailure
<1>1. TypeOK /\ RequestInv /\ IdleInv => (driver = "ended" /\ ~closed => Silent)
  BY DEF TypeOK, RequestInv, EndsOnlyAfterShutdown, IdleInv, Silent
<1>2. Silent => status \in {"running", "returned"} /\ submitted = <<>>
  BY DEF Silent
<1>. QED
  BY <1>1, <1>2, SilentStep, AnswerInvariant, IdleInvariant, PTL DEF Spec, SilentFailure
==============================================================================
