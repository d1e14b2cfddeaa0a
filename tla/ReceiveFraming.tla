--------------------------- MODULE ReceiveFraming ---------------------------
(* A TCP server (the loop of tests/unit-test-server.c and of the device        *)
(* simulators) that reads requests from a stream of bytes: the steps of        *)
(* _modbus_receive_msg (src/modbus.c), the requests that modbus_reply rejects  *)
(* and the flush that goes with it (_modbus_tcp_flush, src/modbus-tcp.c).      *)
(* The client may send any request, with modbus_send_raw_request also one      *)
(* whose byte count is not the number of bytes that follow.  A byte is the     *)
(* number of its request and its place in it; its value is worked out from     *)
(* these, so that a message can be compared with what was sent.                *)
EXTENDS Integers, Sequences

CONSTANTS
    Requests,     \* requests a client may send: [fn, count, size, verdict]
    HeaderLength, \* header_length of the backend
    MaxAdu,       \* max_adu_length of the backend
    SumMax,       \* UINT16_MAX, the most a flush counts
    MaxCalls      \* bound on the requests of a behaviour

MODBUS_FC_WRITE_SINGLE_COIL == 5
MODBUS_FC_WRITE_SINGLE_REGISTER == 6
MODBUS_FC_READ_EXCEPTION_STATUS == 7
MODBUS_FC_WRITE_MULTIPLE_COILS == 15
MODBUS_FC_WRITE_MULTIPLE_REGISTERS == 16
MODBUS_FC_REPORT_SLAVE_ID == 17
MODBUS_FC_MASK_WRITE_REGISTER == 22
MODBUS_FC_WRITE_AND_READ_REGISTERS == 23

WritesMany ==
    {MODBUS_FC_WRITE_MULTIPLE_COILS, MODBUS_FC_WRITE_MULTIPLE_REGISTERS}

\* the functions that modbus_reply answers
AnsweredFunctions ==
    1..MODBUS_FC_WRITE_SINGLE_REGISTER \cup WritesMany \cup
    {MODBUS_FC_REPORT_SLAVE_ID, MODBUS_FC_MASK_WRITE_REGISTER,
     MODBUS_FC_WRITE_AND_READ_REGISTERS}

\* those whose illegal data values are answered with a flush
FlushedFunctions ==
    1..4 \cup WritesMany \cup {MODBUS_FC_WRITE_AND_READ_REGISTERS}

\* what the checks of modbus_reply find: nothing; an illegal data value, which
\* includes a byte count that disagrees; an address outside the tables
Verdicts == {"legal", "value", "address"}

-----------------------------------------------------------------------------
(* The length tables of _modbus_receive_msg, for indications.                  *)

\* mutant: 0x16 is read with the length of 0x17
MetaLengthLong(fn) ==
    CASE fn <= MODBUS_FC_WRITE_SINGLE_REGISTER -> 4
      [] fn \in WritesMany -> 5
      [] fn \in {MODBUS_FC_MASK_WRITE_REGISTER,
                 MODBUS_FC_WRITE_AND_READ_REGISTERS} -> 9
      [] OTHER -> 0

\* compute_meta_length_after_function
MetaLength(fn) ==
    CASE fn <= MODBUS_FC_WRITE_SINGLE_REGISTER -> 4
      [] fn \in WritesMany -> 5
      [] fn = MODBUS_FC_MASK_WRITE_REGISTER -> 6
      [] fn = MODBUS_FC_WRITE_AND_READ_REGISTERS -> 9
      [] OTHER -> 0

\* the functions with a byte count, and its place
Counted == WritesMany \cup {MODBUS_FC_WRITE_AND_READ_REGISTERS}

CountPlace(fn) == HeaderLength + 1 + (IF fn \in WritesMany THEN 5 ELSE 9)

\* what the client's functions put between the function code and the data
FixedSize(fn) ==
    IF fn \in WritesMany THEN 5
    ELSE IF fn = MODBUS_FC_MASK_WRITE_REGISTER THEN 6
    ELSE IF fn = MODBUS_FC_WRITE_AND_READ_REGISTERS THEN 9
    ELSE IF fn = MODBUS_FC_REPORT_SLAVE_ID THEN 0 ELSE 4

\* a request with the number of bytes that its function and its byte count say
WellFormed(r) ==
    r.size = FixedSize(r.fn) + (IF r.fn \in Counted THEN r.count ELSE 0)

\* the server flushes after it has rejected r
Flushes(r) ==
    \/ r.fn \notin AnsweredFunctions
    \/ r.verdict = "value" /\ r.fn \in FlushedFunctions

\* the bytes a request has on the wire
SentLength(r) == HeaderLength + 1 + r.size

(* fn: function code; count: the byte count it claims; size: the number of     *)
(* bytes after the function code, within the limit of modbus_send_raw_request; *)
(* verdict: see above.                                                         *)
ASSUME ConstantsAssumption ==
    /\ HeaderLength \in Nat /\ MaxAdu \in Nat /\ HeaderLength + 12 <= MaxAdu
    /\ SumMax \in Nat /\ MaxAdu <= SumMax
    /\ Requests \subseteq [fn : Nat, count : Nat, size : Nat, verdict : Verdicts]
    /\ \A r \in Requests :
         /\ SentLength(r) <= MaxAdu
         /\ r.verdict = "legal" => r.fn \in AnsweredFunctions
         /\ r.verdict = "value" /\ r.fn \in AnsweredFunctions =>
              r.fn \in FlushedFunctions \cup {MODBUS_FC_WRITE_SINGLE_COIL}
    /\ MaxCalls \in Nat

VARIABLES
    patient,   \* the client sends nothing before the server is done, and a
               \* request of another length only when it is not answered at
               \* all or rejected with a flush
    sent,      \* the requests sent on this and earlier connections
    inflight,  \* bytes on their way, <<request, place>>
    stream,    \* bytes in the receive buffer of the server's socket
    pc,        \* the server: "receive", "reply", "sleep" or "flush"
    step,      \* _STEP_FUNCTION, _STEP_META or _STEP_DATA
    toRead,    \* length_to_read
    msg,       \* the bytes of the message so far
    sum,       \* rc_sum of the flush
    recovery,  \* error_recovery of the server's context
    answered   \* history: number of the last request answered normally

vars == <<patient, sent, inflight, stream, pc, step, toRead, msg, sum, recovery,
          answered>>

Value(b) ==
    LET r == sent[b[1]] IN
    IF b[2] = HeaderLength + 1 THEN r.fn
    ELSE IF r.fn \in Counted /\ b[2] = CountPlace(r.fn) THEN r.count
    ELSE 0

Function(m) == Value(m[HeaderLength + 1])

\* compute_data_length_after_meta
DataLength(m) ==
    IF Function(m) \in Counted THEN Value(m[CountPlace(Function(m))]) ELSE 0

\* modbus_receive is called: the function code is read first
Receiving ==
    /\ pc' = "receive" /\ step' = "function" /\ msg' = <<>>
    /\ toRead' = HeaderLength + 1

Init ==
    /\ patient \in BOOLEAN
    /\ sent = <<>> /\ inflight = <<>> /\ stream = <<>>
    /\ pc = "receive" /\ step = "function" /\ msg = <<>>
    /\ toRead = HeaderLength + 1
    /\ sum = 0 /\ recovery = "none" /\ answered = 0

\* nothing is on the way and the server waits for the first byte of a request
Quiescent ==
    pc = "receive" /\ msg = <<>> /\ stream = <<>> /\ inflight = <<>>

-----------------------------------------------------------------------------
(* The client and the network.                                                 *)

Bytes(n, r) == [i \in 1..SentLength(r) |-> <<n, i>>]

\* modbus_send_raw_request, or any other call
SendRequest(r) ==
    /\ Len(sent) < MaxCalls
    /\ patient => Quiescent /\ (Flushes(r) \/ WellFormed(r))
    /\ sent' = Append(sent, r)
    /\ inflight' = inflight \o Bytes(Len(sent) + 1, r)
    /\ UNCHANGED <<patient, stream, pc, step, toRead, msg, sum, recovery, answered>>

Deliver ==
    /\ inflight # <<>>
    /\ \E n \in 1..Len(inflight) :
         /\ stream' = stream \o SubSeq(inflight, 1, n)
         /\ inflight' = SubSeq(inflight, n + 1, Len(inflight))
    /\ UNCHANGED <<patient, sent, pc, step, toRead, msg, sum, recovery, answered>>

-----------------------------------------------------------------------------
(* _modbus_receive_msg.                                                        *)

\* the loop of the server ends: the connection is closed, the next one accepted
CloseConnection ==
    /\ stream' = <<>> /\ inflight' = <<>> /\ Receiving

\* mutant: the limit is compared with what was read, not with what will be
FitsLate(m) == Len(m) <= MaxAdu

Fits(m) == Len(m) + DataLength(m) <= MaxAdu

\* all bytes of the current step have been read; the switch on it
AfterFunction(m) ==
    /\ step = "function" /\ MetaLength(Function(m)) # 0
    /\ step' = "meta" /\ toRead' = MetaLength(Function(m)) /\ msg' = m
    /\ UNCHANGED <<pc, inflight>>

MetaRead(m) == step = "meta" \/ (step = "function" /\ MetaLength(Function(m)) = 0)

AfterMeta(m) ==
    /\ MetaRead(m)
    /\ Fits(m)
    /\ step' = "data" /\ toRead' = DataLength(m) /\ msg' = m
    /\ pc' = IF DataLength(m) = 0 THEN "reply" ELSE "receive"
    /\ UNCHANGED inflight

AfterData(m) ==
    /\ step = "data"
    /\ pc' = "reply" /\ toRead' = 0 /\ msg' = m
    /\ UNCHANGED <<step, inflight>>

\* recv() returns what is there, up to length_to_read
Taken == IF Len(stream) < toRead THEN Len(stream) ELSE toRead

Got == msg \o SubSeq(stream, 1, Taken)

Read ==
    /\ pc = "receive" /\ stream # <<>>
    /\ stream' = SubSeq(stream, Taken + 1, Len(stream))
    /\ IF Taken = toRead
       THEN AfterFunction(Got) \/ AfterMeta(Got) \/ AfterData(Got)
       ELSE /\ msg' = Got /\ toRead' = toRead - Taken
            /\ UNCHANGED <<pc, step, inflight>>
    /\ UNCHANGED <<patient, sent, sum, recovery, answered>>

\* "too many data": the receive fails, the connection is closed
ReadTooMany ==
    /\ pc = "receive" /\ Len(stream) >= toRead
    /\ MetaRead(Got) /\ ~Fits(Got)
    /\ CloseConnection
    /\ UNCHANGED <<patient, sent, sum, recovery, answered>>

\* mutant: the byte timeout is not set after the first read
WaitForEver ==
    /\ pc = "receive" /\ stream = <<>> /\ msg # <<>>
    /\ UNCHANGED vars

\* select() timed out in the middle of a message: the byte timeout
ByteTimeout ==
    /\ pc = "receive" /\ stream = <<>> /\ msg # <<>>
    /\ patient => inflight = <<>>
    /\ CloseConnection
    /\ UNCHANGED <<patient, sent, sum, recovery, answered>>

-----------------------------------------------------------------------------
(* modbus_reply.                                                               *)

Number == msg[1][1]

Whole == \A i \in 1..Len(msg) : msg[i] = <<Number, i>>

\* what the checks find; in bytes that are not a request they find anything
Verdict == IF Whole THEN {sent[Number].verdict} ELSE Verdicts

ReplyFails ==  \* modbus_reply returns -1
    /\ pc = "reply" /\ Function(msg) = MODBUS_FC_READ_EXCEPTION_STATUS
    /\ CloseConnection
    /\ UNCHANGED <<patient, sent, sum, recovery, answered>>

Answer ==
    /\ pc = "reply" /\ Function(msg) \in AnsweredFunctions
    /\ "legal" \in Verdict
    /\ Receiving
    /\ answered' = IF Whole THEN Number ELSE answered
    /\ UNCHANGED <<patient, sent, inflight, stream, sum, recovery>>

\* response_exception without to_flush: ILLEGAL DATA ADDRESS, or a coil that is
\* to be neither ON nor OFF
Refuse ==
    /\ pc = "reply" /\ Function(msg) \in AnsweredFunctions
    /\ \/ "address" \in Verdict
       \/ "value" \in Verdict /\ Function(msg) = MODBUS_FC_WRITE_SINGLE_COIL
    /\ Receiving
    /\ UNCHANGED <<patient, sent, inflight, stream, sum, recovery, answered>>

Rejected ==
    \/ Function(msg) \notin AnsweredFunctions \cup {MODBUS_FC_READ_EXCEPTION_STATUS}
    \/ Function(msg) \in FlushedFunctions /\ "value" \in Verdict

\* mutant: the exception is sent without a flush
RejectWithoutFlush ==
    /\ pc = "reply" /\ Rejected
    /\ Receiving
    /\ UNCHANGED <<patient, sent, inflight, stream, sum, recovery, answered>>

\* response_exception with to_flush: any other ILLEGAL DATA VALUE, or ILLEGAL
\* FUNCTION
Reject ==
    /\ pc = "reply" /\ Rejected
    /\ pc' = "sleep"
    /\ UNCHANGED <<patient, sent, inflight, stream, step, toRead, msg, sum,
                   recovery, answered>>

\* _sleep_response_timeout: what the client had sent has arrived by then
WakeUp ==
    /\ pc = "sleep"
    /\ patient => inflight = <<>>
    /\ pc' = "flush" /\ sum' = 0
    /\ UNCHANGED <<patient, sent, inflight, stream, step, toRead, msg, recovery,
                   answered>>

\* mutant: the sum is kept in a byte
FitsByte(n) == sum + n < HeaderLength + 2

\* mutant: the overflow is not checked
CountsAlways(n) == n >= 0

\* the check before rc_sum += rc
Counts(n) == sum + n <= SumMax

\* one recv() of _modbus_tcp_flush, of at most MaxAdu bytes
Flushed == IF Len(stream) < MaxAdu THEN Len(stream) ELSE MaxAdu

FlushSome ==
    /\ pc = "flush"
    /\ stream' = SubSeq(stream, Flushed + 1, Len(stream))
    /\ IF Counts(Flushed)
       THEN /\ sum' = sum + Flushed /\ UNCHANGED recovery
            /\ IF Flushed = MaxAdu THEN UNCHANGED <<pc, step, toRead, msg>>
                                   ELSE Receiving
       ELSE recovery' = "protocol" /\ UNCHANGED sum /\ Receiving
    /\ UNCHANGED <<patient, sent, inflight, answered>>

ServerStep ==
    \/ Read \/ ReadTooMany \/ ByteTimeout
    \/ ReplyFails \/ Answer \/ Refuse \/ Reject \/ WakeUp \/ FlushSome

Next ==
    \/ \E r \in Requests : SendRequest(r)
    \/ Deliver
    \/ ServerStep

Spec == Init /\ [][Next]_vars

\* TCP delivers, and the server is a running process whose timeouts expire.
FairSpec == Spec /\ WF_vars(Deliver) /\ WF_vars(ServerStep)

-----------------------------------------------------------------------------
(* Properties.                                                                 *)

Places == (Nat \ {0}) \X (Nat \ {0})

TypeOK ==
    /\ patient \in BOOLEAN
    /\ sent \in Seq(Requests)
    /\ inflight \in Seq(Places) /\ stream \in Seq(Places)
    /\ pc \in {"receive", "reply", "sleep", "flush"}
    /\ step \in {"function", "meta", "data"}
    /\ toRead \in Nat
    /\ msg \in Seq(Places) /\ sum \in 0..SumMax
    /\ recovery \in {"none", "protocol"} /\ answered \in Nat

(* The array that every program passes to modbus_receive has max_adu_length    *)
(* bytes, and whatever arrives, in step or not, the message and the bytes      *)
(* still to read stay inside it (the check after _STEP_META).                  *)
InsideBuffer == Len(msg) + toRead <= MaxAdu

(* A client that waits for the end of one request, an answer, a timeout or a   *)
(* closed connection, before it sends the next is always understood: a message *)
(* begins where a request begins, also after requests that were longer or      *)
(* shorter than they said, as long as modbus_reply rejects these with a flush  *)
(* ("it's necessary to flush").  It rejects an illegal coil value without one: *)
(* the bytes behind such a request become the next message.                    *)
InStep == patient /\ msg # <<>> => Whole

(* Such a client gets an answer to each legal request once the server waits    *)
(* again, whatever it sent before within these limits.                         *)
LegalAnswered ==
    patient /\ Quiescent /\ sent # <<>> =>
        (sent[Len(sent)].verdict = "legal" => answered = Len(sent))

(* A flush overwrites the error recovery mode that the application has chosen  *)
(* (_modbus_tcp_flush) only behind a client that has sent more than SumMax     *)
(* bytes since the rejected request, without waiting for its exception.        *)
RecoveryKept ==
    [][recovery' # recovery => (Len(sent) - Number + 1) * MaxAdu > SumMax]_vars

(* A server never stays in the middle of a message: it comes back to where it  *)
(* waits for a request (byte_timeout in _modbus_receive_msg).                  *)
LeavesMessage == (pc # "receive" \/ msg # <<>>) ~> (pc = "receive" /\ msg = <<>>)
=============================================================================
